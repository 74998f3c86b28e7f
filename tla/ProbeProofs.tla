----------------------------- MODULE ProbeProofs -----------------------------
(***************************************************************************)
(* What parse_args and run_probe guarantee for any command line, any units *)
(* and any endpoints.                                                      *)
(***************************************************************************)
EXTENDS Probe, TLAPS

-----------------------------------------------------------------------------
(* parse_args *)

ParsedInv ==
  /\ line \in CommandLines /\ index \in Nat \ {0} /\ index <= Len(line.args) + 1
  /\ DOMAIN options = Flags

\* The ranges that hold between any two flags.
RangeInv ==
  /\ options["vid"] \in Word /\ options["pid"] \in Word
  /\ options["in_ep"] \in Address /\ options["out_ep"] \in Address
  /\ options["midi_channel"] \in Channel /\ options["input_deadzone"] \in Deadzone
  /\ options["write_repeat"] \in Positive /\ options["write_interval_ms"] \in Nat
  /\ options["report_size"] \in Int

DebugInv == options["input_debug_buttons"] => options["input_debug"]

LEMMA DefaultFacts ==
  /\ DOMAIN Defaults = Flags
  /\ Defaults.vid = 0 /\ Defaults.pid = 0 /\ Defaults.in_ep = 0 /\ Defaults.out_ep = 0
  /\ Defaults.midi_channel = 0 /\ Defaults.input_deadzone = 0 /\ Defaults.report_size = 0
  /\ Defaults.write_repeat = 1 /\ Defaults.write_interval_ms = 50
  /\ Defaults.input_debug_buttons = FALSE /\ Defaults.input_debug = FALSE
  BY DEF Defaults, Flags, Switches, Unsigned, Signed

\* What the branch of a flag stores in its option.
Converted(flag, v) ==
  CASE flag \in {"vid", "pid"}      -> ParseU16(v)
    [] flag \in {"in_ep", "out_ep"} -> ParseU8(v)
    [] flag = "midi_channel"        -> v - 1
    [] OTHER                        -> v

LEMMA ConvertedFacts ==
  ASSUME NEW v
  PROVE  /\ Converted("vid", v) = ParseU16(v) /\ Converted("pid", v) = ParseU16(v)
         /\ Converted("in_ep", v) = ParseU8(v) /\ Converted("out_ep", v) = ParseU8(v)
         /\ Converted("midi_channel", v) = v - 1
         /\ \A f \in Flags \ (Unsigned \cup {"midi_channel"}) : Converted(f, v) = v
  BY DEF Converted, Unsigned

\* A switch reads no value.
Reads(flag, v) == flag \in Switches => v = TRUE

\* The branches of options.usb, one by one.
LEMMA UsbOptionFacts ==
  ASSUME NEW opts, DOMAIN opts = Flags, NEW f \in UsbFlags, NEW v
  PROVE  UsbOption(opts, f, v) = [opts EXCEPT ![f] = Converted(f, v)]
  <1>1. CASE f \in {"vid", "pid"}
    BY <1>1 DEF UsbOption, Converted
  <1>2. CASE f \in {"in_ep", "out_ep"}
    BY <1>2 DEF UsbOption, Converted
  <1>3. CASE f \in {"interface", "alt_setting", "report_size", "timeout_ms"}
    BY <1>3 DEF UsbOption, Converted
  <1> QED
    BY <1>1, <1>2, <1>3 DEF UsbFlags

\* The other branches, but for the two of the debug output.
LEMMA AppOptionFacts ==
  ASSUME NEW opts, DOMAIN opts = Flags, NEW v,
         NEW f \in Flags \ (UsbFlags \cup {"input_debug", "input_debug_buttons"}),
         Reads(f, v)
  PROVE  AppOption(opts, f, v) = [opts EXCEPT ![f] = Converted(f, v)]
  <1>1. CASE f \in {"stream", "raw_sysex"}
    BY <1>1 DEF AppOption, Converted, Switches, Reads
  <1>2. CASE f \in {"write_hex", "input_deadzone", "input_decode", "write_repeat",
                    "write_interval_ms"}
    BY <1>2 DEF AppOption, Converted
  <1>3. CASE f = "midi_channel"
    BY <1>3 DEF AppOption, Converted
  <1> QED
    BY <1>1, <1>2, <1>3 DEF Flags, UsbFlags, Switches, Unsigned, Signed

\* One flag sets one option, but for the two of the debug output.
SetsOne(old, f, v, new) ==
  /\ DOMAIN new = Flags
  /\ \A g \in Flags \ {"input_debug"} : new[g] = IF g = f THEN Converted(g, v) ELSE old[g]
  /\ new["input_debug"] =
       IF f \in {"input_debug", "input_debug_buttons"} THEN TRUE ELSE old["input_debug"]

LEMMA WithFacts ==
  ASSUME NEW opts, DOMAIN opts = Flags, NEW f \in Flags, NEW v, Reads(f, v)
  PROVE  SetsOne(opts, f, v, With(opts, f, v))
  <1> USE DEF SetsOne
  <1>1. {"input_debug", "input_debug_buttons"} \subseteq Flags \ UsbFlags
    BY DEF Flags, Switches, UsbFlags
  <1>2. CASE f \in UsbFlags
    <2>1. With(opts, f, v) = [opts EXCEPT ![f] = Converted(f, v)]
      BY <1>2, UsbOptionFacts DEF With
    <2>2. f \notin {"input_debug", "input_debug_buttons"}
      BY <1>1, <1>2
    <2> QED
      BY <1>1, <2>1, <2>2
  <1>3. CASE f \in Flags \ (UsbFlags \cup {"input_debug", "input_debug_buttons"})
    <2>1. With(opts, f, v) = AppOption(opts, f, v)
      BY <1>3 DEF With
    <2>2. AppOption(opts, f, v) = [opts EXCEPT ![f] = Converted(f, v)]
      BY <1>3, AppOptionFacts, Zenon
    <2> QED
      BY <1>1, <1>3, <2>1, <2>2
  <1>4. CASE f = "input_debug"
    <2>1. With(opts, f, v) = [opts EXCEPT !["input_debug"] = TRUE]
      BY <1>1, <1>4 DEF With, AppOption
    <2> QED
      BY <1>1, <1>4, <2>1
  <1>5. CASE f = "input_debug_buttons"
    <2>1. With(opts, f, v) = [opts EXCEPT !["input_debug"] = TRUE, !["input_debug_buttons"] = TRUE]
      BY <1>1, <1>5 DEF With, AppOption
    <2>2. Converted(f, v) = TRUE
      BY <1>5 DEF Converted, Switches, Reads
    <2> QED
      BY <1>1, <1>5, <2>1, <2>2
  <1> QED
    BY <1>2, <1>3, <1>4, <1>5

LEMMA ConvertedRanges ==
  ASSUME NEW v
  PROVE  /\ v \in Int => /\ Converted("vid", v) \in Word /\ Converted("pid", v) \in Word
                         /\ Converted("in_ep", v) \in Address /\ Converted("out_ep", v) \in Address
         /\ Accepted("midi_channel", v) => Converted("midi_channel", v) \in Channel
         /\ Accepted("input_deadzone", v) => Converted("input_deadzone", v) \in Deadzone
         /\ Accepted("write_repeat", v) /\ v \in Int => Converted("write_repeat", v) \in Positive
         /\ Accepted("write_interval_ms", v) /\ v \in Int => Converted("write_interval_ms", v) \in Nat
         /\ v \in Int => Converted("report_size", v) \in Int
  <1>1. v \in Int => ParseU16(v) \in Word /\ ParseU8(v) \in Address
    <2> DEFINE words == 65536
               addresses == 256
    <2>1. words \in Nat \ {0} /\ Word = 0..(words - 1)
      BY DEF Word
    <2>2. addresses \in Nat \ {0} /\ Address = 0..(addresses - 1)
      BY DEF Address
    <2> HIDE DEF words, addresses
    <2>3. v \in Int => v % words \in Word /\ v % addresses \in Address
      BY ONLY <2>1, <2>2
    <2> QED
      BY ONLY <2>3 DEF words, addresses, ParseU16, ParseU8
  <1>2. v \in 1..16 => v - 1 \in Channel
    BY DEF Channel
  <1>3. /\ Accepted("midi_channel", v) => v \in 1..16
        /\ Accepted("input_deadzone", v) => v \in Deadzone
        /\ Accepted("write_repeat", v) /\ v \in Int => v \in Positive
        /\ Accepted("write_interval_ms", v) /\ v \in Int => v \in Nat
    BY DEF Accepted, Deadzone, Positive
  <1>4. {"input_deadzone", "write_repeat", "write_interval_ms", "report_size"}
          \subseteq Flags \ (Unsigned \cup {"midi_channel"})
    BY DEF Flags, Unsigned, Signed
  <1>5. /\ Converted("input_deadzone", v) = v /\ Converted("write_repeat", v) = v
        /\ Converted("write_interval_ms", v) = v /\ Converted("report_size", v) = v
    BY <1>4, ConvertedFacts
  <1>6. /\ v \in Int => Converted("vid", v) \in Word /\ Converted("pid", v) \in Word
        /\ v \in Int => Converted("in_ep", v) \in Address /\ Converted("out_ep", v) \in Address
        /\ v \in 1..16 => Converted("midi_channel", v) \in Channel
    BY <1>1, <1>2, ConvertedFacts
  <1> QED
    BY <1>3, <1>5, <1>6, Zenon

\* What a flag that is accepted does to the options, and one that is not.
LEMMA ReadFlagFacts ==
  ASSUME ParsedInv, ReadFlag
  PROVE  /\ index \in 1..Len(line.args) /\ line' = line
         /\ \/ options' = options /\ index' = index
            \/ \E f \in Flags : \E v :
                 /\ f = line.args[index].flag /\ v = line.args[index].value
                 /\ Accepted(f, v) /\ index' = index + 1
                 /\ f \in Unsigned \cup Signed => v \in Int
                 /\ SetsOne(options, f, v, options')
                 /\ f = "input_debug_buttons" => v = TRUE
  <1> DEFINE a == line.args[index]
  <1>1. index \in 1..Len(line.args) /\ line' = line
    BY CommandLineAssumption DEF ParsedInv, ReadFlag
  <1>2. /\ a.flag \in Unsigned \cup Signed => a.value = Bad \/ a.value \in Int
        /\ a.flag \in Switches => a.value = TRUE
    BY <1>1, CommandLineAssumption DEF ParsedInv
  <1>3. CASE UNCHANGED <<options, index>>
    BY <1>1, <1>3
  <1>4. CASE Accepted(a.flag, a.value) /\ options' = With(options, a.flag, a.value)
             /\ index' = index + 1
    <2> HIDE DEF a
    <2>1. a.flag \in Flags /\ (a.flag \notin Switches => a.value # Bad)
      BY <1>4 DEF Accepted
    <2>2. a.flag \in Unsigned \cup Signed => a.value \in Int
      BY <1>2, <2>1 DEF Unsigned, Signed, Switches
    <2>3. Reads(a.flag, a.value)
      BY <1>2 DEF Reads
    <2>4. DOMAIN options = Flags
      BY DEF ParsedInv
    <2>5. SetsOne(options, a.flag, a.value, With(options, a.flag, a.value))
      BY <2>1, <2>3, <2>4, WithFacts
    <2>6. /\ Accepted(a.flag, a.value) /\ index' = index + 1
          /\ options' = With(options, a.flag, a.value)
      BY <1>4
    <2>7. a.flag = line.args[index].flag /\ a.value = line.args[index].value
      BY DEF a
    <2>8. a.flag = "input_debug_buttons" => a.value = TRUE
      BY <2>3 DEF Switches, Reads
    <2> QED
      BY <1>1, <2>1, <2>2, <2>5, <2>6, <2>7, <2>8, Zenon
  <1> QED
    BY <1>3, <1>4 DEF ReadFlag

LEMMA ReadFlagRanges ==
  ASSUME ParsedInv, RangeInv, DebugInv, ReadFlag
  PROVE  ParsedInv' /\ RangeInv' /\ DebugInv'
  <1>1. index \in 1..Len(line.args) /\ line' = line /\ Len(line.args) \in Nat
    BY ReadFlagFacts, CommandLineAssumption DEF ParsedInv
  <1>2. CASE options' = options /\ index' = index
    BY <1>1, <1>2, Zenon DEF ParsedInv, RangeInv, DebugInv
  <1>3. ASSUME NEW f \in Flags, NEW v,
               Accepted(f, v), index' = index + 1,
               f \in Unsigned \cup Signed => v \in Int,
               SetsOne(options, f, v, options')
        PROVE  ParsedInv' /\ RangeInv' /\ DebugInv'
    <2>1. ParsedInv'
      BY <1>1, <1>3 DEF ParsedInv, SetsOne
    <2>2. ASSUME NEW g \in (Unsigned \cup Signed)
          PROVE  \/ options'[g] = options[g]
                 \/ options'[g] = Converted(g, v) /\ Accepted(g, v) /\ v \in Int
      <3>1. g \in Flags \ {"input_debug"}
        BY DEF Flags, Unsigned, Signed
      <3> QED
        BY <1>3, <3>1, Zenon DEF SetsOne
    <2>3. {"vid", "pid", "in_ep", "out_ep", "midi_channel", "input_deadzone", "write_repeat",
           "write_interval_ms", "report_size"} \subseteq Unsigned \cup Signed
      BY DEF Unsigned, Signed
    <2>4. options'["vid"] \in Word /\ options'["pid"] \in Word
      BY <2>2, <2>3, ConvertedRanges DEF RangeInv
    <2>5. options'["in_ep"] \in Address /\ options'["out_ep"] \in Address
      BY <2>2, <2>3, ConvertedRanges DEF RangeInv
    <2>6. options'["midi_channel"] \in Channel /\ options'["input_deadzone"] \in Deadzone
      BY <2>2, <2>3, ConvertedRanges DEF RangeInv
    <2>7. options'["write_repeat"] \in Positive /\ options'["write_interval_ms"] \in Nat
      BY <2>2, <2>3, ConvertedRanges DEF RangeInv
    <2>8. options'["report_size"] \in Int
      BY <2>2, <2>3, ConvertedRanges DEF RangeInv
    <2>9. DebugInv'
      <3>1. "input_debug_buttons" \in Flags \ {"input_debug"}
        BY DEF Flags, Switches
      <3> QED
        BY <1>3, <3>1, Zenon DEF DebugInv, SetsOne
    <2> QED
      BY <2>1, <2>4, <2>5, <2>6, <2>9, <2>7, <2>8, Zenon DEF RangeInv
  <1> QED
    BY <1>2, <1>3, ReadFlagFacts, Zenon

\* LastFlagWins, of what is stored.
LastInv ==
  \A f \in Flags \ {"input_debug"} :
    LET at == {k \in 1..(index - 1) : line.args[k].flag = f}
    IN \/ at = {} /\ options[f] = Defaults[f]
       \/ \E k \in at : (\A l \in at : l <= k) /\ options[f] = Converted(f, line.args[k].value)

DebugLast ==
  options["input_debug"] <=>
    \E k \in 1..(index - 1) : line.args[k].flag \in {"input_debug", "input_debug_buttons"}

LEMMA ReadFlagLast ==
  ASSUME ParsedInv, LastInv, DebugLast, ReadFlag
  PROVE  LastInv' /\ DebugLast'
  <1>1. index \in 1..Len(line.args) /\ line' = line
    BY ReadFlagFacts
  <1>2. CASE options' = options /\ index' = index
    <2>1. LastInv'
      BY <1>1, <1>2, Zenon DEF LastInv
    <2>2. DebugLast'
      BY <1>1, <1>2, Zenon DEF DebugLast
    <2> QED
      BY <2>1, <2>2
  <1>3. ASSUME NEW g \in Flags, NEW v, g = line.args[index].flag, v = line.args[index].value,
               index' = index + 1,
               \A f \in Flags \ {"input_debug"} :
                 options'[f] = IF f = g THEN Converted(f, v) ELSE options[f]
        PROVE  LastInv'
    <2> SUFFICES ASSUME NEW f \in Flags \ {"input_debug"}
                 PROVE  LET at == {k \in 1..(index' - 1) : line.args[k].flag = f}
                        IN \/ at = {} /\ options'[f] = Defaults[f]
                           \/ \E k \in at : /\ \A l \in at : l <= k
                                            /\ options'[f] = Converted(f, line.args[k].value)
      BY <1>1 DEF LastInv
    <2> DEFINE before == {k \in 1..(index - 1) : line.args[k].flag = f}
               after == {k \in 1..(index' - 1) : line.args[k].flag = f}
    <2>1. 1..(index' - 1) = 1..(index - 1) \cup {index}
      BY <1>1, <1>3
    <2>2. CASE g = f
      <3>1. index \in after /\ \A l \in after : l <= index
        <4>1. \A l \in 1..(index' - 1) : l <= index
          BY <1>1, <1>3
        <4>2. index \in 1..(index' - 1)
          BY <2>1
        <4> QED
          BY <1>3, <2>2, <4>1, <4>2
      <3>2. options'[f] = Converted(f, line.args[index].value)
        BY <1>3, <2>2, Zenon
      <3> QED
        BY <3>1, <3>2
    <2>3. CASE g # f
      <3>1. after = before
        BY <1>3, <2>1, <2>3
      <3>2. options'[f] = options[f]
        BY <1>3, <2>3, Zenon
      <3>3. \/ before = {} /\ options[f] = Defaults[f]
            \/ \E k \in before : /\ \A l \in before : l <= k
                                 /\ options[f] = Converted(f, line.args[k].value)
        BY Zenon DEF LastInv
      <3> HIDE DEF before, after
      <3> QED
        BY <3>1, <3>2, <3>3, Zenon DEF after, before
    <2> QED
      BY <2>2, <2>3
  <1>4. ASSUME NEW g, g = line.args[index].flag, index' = index + 1,
               options'["input_debug"] =
                 IF g \in {"input_debug", "input_debug_buttons"} THEN TRUE
                 ELSE options["input_debug"]
        PROVE  DebugLast'
    <2>1. 1..(index' - 1) = 1..(index - 1) \cup {index}
      BY <1>1, <1>4
    <2> QED
      BY <1>1, <1>4, <2>1, Zenon DEF DebugLast
  <1> QED
    BY <1>2, <1>3, <1>4, ReadFlagFacts, Zenon DEF SetsOne

\* What is stored is what was meant, if it fits.
LEMMA StoredIsMeant ==
  ASSUME NEW f \in Flags, NEW v, Fits(f, v)
  PROVE  Converted(f, v) = Meant(f, v)
  <1>1. v \in Word => ParseU16(v) = v
    <2> DEFINE words == 65536
    <2>1. words \in Nat \ {0} /\ Word = 0..(words - 1)
      BY DEF Word
    <2> HIDE DEF words
    <2>2. v \in Word => v % words = v
      BY ONLY <2>1
    <2> QED
      BY ONLY <2>2 DEF words, ParseU16
  <1>2. v \in Address => ParseU8(v) = v
    BY DEF Address, ParseU8
  <1>3. CASE f \in {"vid", "pid"}
    BY <1>1, <1>3, ConvertedFacts DEF Fits, Meant
  <1>4. CASE f \in {"in_ep", "out_ep"}
    BY <1>2, <1>4, ConvertedFacts DEF Fits, Meant
  <1>5. CASE f = "midi_channel"
    BY <1>5, ConvertedFacts DEF Meant
  <1>6. CASE f \notin Unsigned \cup {"midi_channel"}
    BY <1>6, ConvertedFacts DEF Meant
  <1> QED
    BY <1>3, <1>4, <1>5, <1>6 DEF Unsigned

LEMMA LastIsMeant ==
  ASSUME LastInv, DebugLast
  PROVE  LastFlagWins
  <1>1. ASSUME NEW f \in Flags \ {"input_debug"}
        PROVE  LET at == {k \in 1..(index - 1) : line.args[k].flag \in {f}}
               IN \/ at = {} /\ options[f] = Defaults[f]
                  \/ \E k \in at :
                       /\ \A l \in at : l <= k
                       /\ Fits(f, line.args[k].value) => options[f] = Meant(f, line.args[k].value)
    <2> DEFINE at == {k \in 1..(index - 1) : line.args[k].flag = f}
    <2>1. at = {k \in 1..(index - 1) : line.args[k].flag \in {f}}
      OBVIOUS
    <2>2. \/ at = {} /\ options[f] = Defaults[f]
          \/ \E k \in at : (\A l \in at : l <= k) /\ options[f] = Converted(f, line.args[k].value)
      BY Zenon DEF LastInv
    <2> HIDE DEF at
    <2>3. \/ at = {} /\ options[f] = Defaults[f]
          \/ \E k \in at :
               /\ \A l \in at : l <= k
               /\ Fits(f, line.args[k].value) => options[f] = Meant(f, line.args[k].value)
      BY <2>2, StoredIsMeant, Zenon
    <2> QED
      BY <2>1, <2>3, Zenon
  <1>2. options.input_debug <=>
          {k \in 1..(index - 1) : line.args[k].flag \in {"input_debug", "input_debug_buttons"}} # {}
    BY DEF DebugLast
  <1> QED
    BY <1>1, <1>2, Zenon DEF LastFlagWins

LEMMA FinishedOptions ==
  ASSUME ParsedInv, RangeInv, DebugInv, Complete(line.mode, options)
  PROVE  Usable
  <1>1. /\ options.vid \in Word /\ options.pid \in Word
        /\ options.in_ep \in Address /\ options.out_ep \in Address
        /\ options.midi_channel \in Channel /\ options.input_deadzone \in Deadzone
        /\ options.write_repeat \in Positive /\ options.write_interval_ms \in Nat
    BY DEF RangeInv
  <1>2. /\ options.vid # 0 /\ options.pid # 0
        /\ line.mode = "bridge" => options.in_ep # 0 /\ options.report_size > 0
    BY DEF Complete
  <1>3. options.vid \in Word \ {0} /\ options.pid \in Word \ {0}
    BY <1>1, <1>2
  <1>4. options.input_debug_buttons => options.input_debug
    BY DEF DebugInv
  <1>5. InRange
    BY <1>1, <1>3 DEF InRange
  <1> QED
    BY <1>2, <1>4, <1>5, Zenon DEF Usable

-----------------------------------------------------------------------------
(* run_probe *)

Before  == {"mode", "parse", "descriptors", "enumerate", "open"}
Opened  == {"openFlag", "claim"}
Parsing == {"mode", "parse"}
Holding == {"resolve"} \cup Working

PcInv == pc \in {"mode", "parse", "descriptors", "unwind"} \cup Opening \cup Working \cup Ended

DeviceInv ==
  /\ attached \subseteq Units /\ opened \subseteq Handles /\ claimed \subseteq opened
  /\ peer \in [Handles -> Units \cup {None}]
  /\ handle \in Handles \cup {None} /\ target \in Units \cup {None}
  /\ opened \subseteq {handle}
  /\ pc \in Before \cup Ended => opened = {}
  /\ pc \in Before => handle = None
  /\ pc \in Opened => handle \in opened
  /\ pc \in Holding => handle \in claimed /\ Setting \in DOMAIN Endpoints

FlagInv == disconnected \in BOOLEAN /\ running \in BOOLEAN

UsableInv == pc \notin Parsing \cup {"unwind", "exited"} => Usable

EndpointInv ==
  pc \in Working =>
    /\ options.in_ep \in Endpoints[Setting]
    /\ options.out_ep \in Endpoints[Setting] \cup {0}

\* Where a payload is being written, and how often it was.
WriteInv ==
  /\ cycles \in Nat /\ exitCode \in {0, 1}
  /\ pc \notin {"unwind", "exited"} => exitCode = 0
  /\ pc \in Parsing \cup {"descriptors"} => cycles = 0
  /\ pc \in Opening \cup {"write", "answer", "cycle"} /\ options.write_hex # <<>> => options.out_ep # 0
  /\ pc \in {"write", "answer", "cycle"} => options.write_hex # <<>>
  /\ pc \in {"loop", "read"} => options.write_hex = <<>>
  /\ pc \in Opening => cycles = 0 /\ (options.write_hex = <<>> => options.stream)
  /\ pc \in {"loop", "read"} => cycles = 0 /\ options.stream
  /\ pc = "write" => cycles < options.write_repeat
  /\ pc \in {"answer", "cycle"} => cycles <= options.write_repeat
  /\ pc = "unwind" /\ exitCode = 0 => Success
  /\ pc = "exited" /\ exitCode = 0 => Success

IInv ==
  /\ ParsedInv /\ RangeInv /\ DebugInv /\ LastInv /\ DebugLast
  /\ PcInv /\ FlagInv /\ DeviceInv
  /\ UsableInv /\ EndpointInv /\ WriteInv

OptionsInv == ParsedInv /\ RangeInv /\ DebugInv /\ LastInv /\ DebugLast

LEMMA InitInv == Init => IInv
  <1> SUFFICES ASSUME Init PROVE IInv
    OBVIOUS
  <1>1. line \in CommandLines /\ index = 1 /\ options = Defaults /\ pc = "mode"
    BY DEF Init
  <1>2. ParsedInv
    BY <1>1, DefaultFacts, CommandLineAssumption DEF ParsedInv
  <1>3. RangeInv
    <2>1. 0 \in Word /\ 0 \in Address /\ 0 \in Channel /\ 0 \in Deadzone
      BY DEF Word, Address, Channel, Deadzone
    <2>2. 0 \in Int /\ 1 \in Positive /\ 50 \in Nat
      BY DEF Positive
    <2> QED
      BY <1>1, <2>1, <2>2, DefaultFacts DEF RangeInv
  <1>4. DebugInv
    BY <1>1, DefaultFacts, Zenon DEF DebugInv
  <1>5. LastInv /\ DebugLast
    <2>1. 1..(index - 1) = {}
      BY <1>1
    <2>2. LastInv
      BY <1>1, <2>1 DEF LastInv
    <2>3. DebugLast
      BY <1>1, <2>1, DefaultFacts DEF DebugLast
    <2> QED
      BY <2>2, <2>3
  <1>6. PcInv /\ UsableInv /\ EndpointInv
    BY <1>1 DEF PcInv, UsableInv, EndpointInv, Parsing, Working
  <1>7. FlagInv
    BY Zenon DEF Init, UsbInit, FlagInv
  <1>8. DeviceInv
    BY DEF Init, UsbInit, DeviceInv, Before, Opened, Holding, Working, Ended
  <1>9. WriteInv
    BY DEF Init, WriteInv, Opening
  <1> QED
    BY <1>2, <1>3, <1>4, <1>5, <1>6, <1>7, <1>8, <1>9 DEF IInv

\* Only ReadFlag changes what parse_args has made.
LEMMA ParsedKept == Next => ReadFlag \/ UNCHANGED parsed
  BY DEF Next, Main, parsed, mainVars, ReadMode, FinishParsing, Descriptors, Enumerate, Open, OpenFlag, Claim,
         Resolve, OpenFails, Write, WriteFails, Cycle, LoopTest, ReadReturns, ReadGone, ReadThrows,
         Destroy, Plug, Unplug, HandleSignal

LEMMA OptionsStep == OptionsInv /\ [Next]_vars => OptionsInv'
  <1> SUFFICES ASSUME OptionsInv, [Next]_vars PROVE OptionsInv'
    OBVIOUS
  <1>1. CASE ReadFlag
    BY <1>1, ReadFlagRanges, ReadFlagLast DEF OptionsInv
  <1>2. CASE UNCHANGED parsed
    <2>1. line' = line /\ index' = index /\ options' = options
      BY <1>2 DEF parsed
    <2>2. ParsedInv' /\ RangeInv'
      BY <2>1 DEF OptionsInv, ParsedInv, RangeInv
    <2>3. DebugInv'
      BY <2>1, Zenon DEF OptionsInv, DebugInv
    <2>4. LastInv' /\ DebugLast'
      BY <2>1, Zenon DEF OptionsInv, LastInv, DebugLast
    <2> QED
      BY <2>2, <2>3, <2>4, Zenon DEF OptionsInv
  <1> QED
    BY <1>1, <1>2, ParsedKept DEF vars, mainVars

LEMMA PcStep == PcInv /\ [Next]_vars => PcInv'
  <1> USE DEF PcInv, Opening, Working, Ended
  <1> SUFFICES ASSUME PcInv, [Next]_vars PROVE PcInv'
    OBVIOUS
  <1>1. CASE ReadMode \/ ReadFlag \/ FinishParsing \/ Descriptors
    BY <1>1 DEF ReadMode, ReadFlag, FinishParsing, Descriptors, Return, Goto
  <1>2. CASE Enumerate \/ Open \/ OpenFlag \/ Claim \/ Resolve \/ OpenFails
    BY <1>2 DEF Enumerate, Open, OpenFlag, Claim, Resolve, OpenFails, Return, Goto
  <1>3. CASE Write \/ WriteFails \/ Cycle \/ LoopTest \/ ReadReturns \/ ReadGone \/ ReadThrows \/ Destroy
    BY <1>3 DEF Write, WriteFails, Cycle, LoopTest, ReadReturns, ReadGone, ReadThrows, Destroy,
                AfterRead, Return, Goto
  <1>4. CASE HandleSignal \/ \E u \in Units : Plug(u) \/ Unplug(u)
    BY <1>4 DEF HandleSignal, Plug, Unplug, mainVars
  <1>5. CASE UNCHANGED vars
    BY <1>5 DEF vars, mainVars
  <1> QED
    BY <1>1, <1>2, <1>3, <1>4, <1>5 DEF Next, Main

LEMMA FlagStep == FlagInv /\ [Next]_vars => FlagInv'
  <1> SUFFICES ASSUME FlagInv, [Next]_vars PROVE FlagInv'
    OBVIOUS
  <1>1. disconnected' \in {disconnected, TRUE, FALSE}
    BY DEF Next, Main, vars, usbVars, mainVars, ReadMode, ReadFlag, FinishParsing, Descriptors, Enumerate,
           Open, OpenFlag, Claim, Resolve, OpenFails, Write, WriteFails, Cycle, LoopTest, ReadReturns, ReadGone,
           ReadThrows, Destroy, Plug, Unplug, HandleSignal, OpenHandle, ClearDisconnected, ClaimInterface,
           EndpointsResolved, CloseHandle, MarkDisconnected, AttachUnit, DetachUnit
  <1>2. running' \in {running, FALSE}
    BY DEF Next, Main, vars, usbVars, mainVars, ReadMode, ReadFlag, FinishParsing, Descriptors, Enumerate,
           Open, OpenFlag, Claim, Resolve, OpenFails, Write, WriteFails, Cycle, LoopTest, ReadReturns, ReadGone,
           ReadThrows, Destroy, Plug, Unplug, HandleSignal
  <1> QED
    BY <1>1, <1>2, Zenon DEF FlagInv

LEMMA UsableStep == OptionsInv /\ PcInv /\ UsableInv /\ [Next]_vars => UsableInv'
  <1> SUFFICES ASSUME OptionsInv, PcInv, UsableInv, [Next]_vars,
                      pc' \notin Parsing \cup {"unwind", "exited"}
               PROVE  Usable'
    BY DEF UsableInv
  <1>1. CASE FinishParsing
    <2>1. line' = line /\ options' = options /\ Complete(line.mode, options)
      BY <1>1 DEF FinishParsing, parsed, Return
    <2>2. Usable
      BY <2>1, FinishedOptions DEF OptionsInv
    <2> QED
      BY <2>1, <2>2, Zenon DEF Usable, InRange
  <1>2. CASE ReadMode \/ ReadFlag
    BY <1>2 DEF ReadMode, ReadFlag, Parsing, Return, Goto
  <1>3. CASE UNCHANGED parsed /\ pc \notin Parsing \cup {"unwind", "exited"}
    <2>1. line' = line /\ options' = options /\ Usable
      BY <1>3 DEF parsed, UsableInv
    <2> QED
      BY <2>1, Zenon DEF Usable, InRange
  <1>4. pc \in Parsing \cup {"unwind", "exited"} => ReadMode \/ ReadFlag \/ FinishParsing
    BY DEF Parsing, Next, Main, vars, mainVars, Descriptors, Enumerate, Open, OpenFlag, Claim, Resolve,
           OpenFails, Opening, Write, WriteFails, Cycle, LoopTest, ReadReturns, ReadGone, ReadThrows,
           AfterRead, Destroy, Plug, Unplug, HandleSignal, Goto
  <1>5. UNCHANGED parsed \/ ReadFlag
    BY ParsedKept DEF vars, mainVars
  <1> QED
    BY <1>1, <1>2, <1>3, <1>4, <1>5

LEMMA EndpointStep == DeviceInv /\ EndpointInv /\ [Next]_vars => EndpointInv'
  <1> SUFFICES ASSUME DeviceInv, EndpointInv, [Next]_vars, pc' \in Working
               PROVE  /\ options'.in_ep \in Endpoints[Setting']
                      /\ options'.out_ep \in Endpoints[Setting'] \cup {0}
    BY DEF EndpointInv
  <1>1. pc \in Working \/ Resolve
    BY DEF Working, Next, Main, vars, mainVars, ReadMode, ReadFlag, FinishParsing, Descriptors,
           Enumerate, Open, OpenFlag, Claim, OpenFails, Write, WriteFails, Cycle, LoopTest,
           ReadReturns, ReadGone, ReadThrows, AfterRead, Destroy, Plug, Unplug, HandleSignal, Goto,
           Return
  <1>2. options' = options
    BY <1>1, ParsedKept DEF ReadFlag, Resolve, parsed, Working, vars, mainVars
  <1>3. Setting' = Setting
    BY <1>2 DEF Setting
  <1>4. /\ options.in_ep \in Endpoints[Setting]
        /\ options.out_ep \in Endpoints[Setting] \cup {0}
    BY <1>1 DEF EndpointInv, Resolve
  <1> QED
    BY <1>2, <1>3, <1>4

LEMMA DeviceStep == DeviceInv /\ [Next]_vars => DeviceInv'
  <1> SUFFICES ASSUME DeviceInv, [Next]_vars PROVE DeviceInv'
    OBVIOUS
  <1> USE DEF Before, Opened, Holding, Working, Ended, Opening
  <1>1. CASE ReadFlag
    BY <1>1 DEF ReadFlag, Return, usbVars, DeviceInv
  <1>2. CASE ReadMode \/ FinishParsing \/ Descriptors
    BY <1>2 DEF ReadMode, FinishParsing, Descriptors, Return, usbVars, parsed, DeviceInv, Setting
  <1>3. CASE Enumerate
    BY <1>3 DEF Enumerate, Goto, OnlyMatch, usbVars, parsed, DeviceInv, Setting
  <1>4. CASE Open
    BY <1>4, NoneAssumption DEF Open, OpenHandle, Goto, parsed, DeviceInv, Setting
  <1>5. CASE OpenFlag
    BY <1>5 DEF OpenFlag, ClearDisconnected, Goto, parsed, DeviceInv, Setting
  <1>6. CASE Claim
    BY <1>6 DEF Claim, ClaimInterface, Live, Goto, parsed, DeviceInv, Setting
  <1>7. CASE Resolve
    BY <1>7 DEF Resolve, EndpointsResolved, Goto, usbVars, parsed, DeviceInv, Setting
  <1>8. CASE OpenFails
    BY <1>8 DEF OpenFails, ClaimInterface, Live, Return, usbVars, parsed, DeviceInv, Setting
  <1>9. CASE Write \/ WriteFails \/ Cycle \/ LoopTest
    BY <1>9 DEF Write, WriteFails, Cycle, LoopTest, Return, usbVars, parsed, DeviceInv, Setting
  <1>10. CASE ReadReturns \/ ReadGone \/ ReadThrows
    BY <1>10 DEF ReadReturns, ReadGone, ReadThrows, AfterRead, MarkDisconnected, Return, usbVars,
                 parsed, DeviceInv, Setting
  <1>11. CASE Destroy
    BY <1>11, NoneAssumption DEF Destroy, CloseHandle, Goto, usbVars, parsed, DeviceInv, Setting
  <1>12. ASSUME NEW u \in Units, Plug(u) PROVE DeviceInv'
    BY <1>12 DEF Plug, AttachUnit, mainVars, parsed, DeviceInv, Setting
  <1>13. ASSUME NEW u \in Units, Unplug(u) PROVE DeviceInv'
    BY <1>13 DEF Unplug, DetachUnit, parsed, DeviceInv, Setting
  <1>14. CASE HandleSignal
    BY <1>14 DEF HandleSignal, usbVars, parsed, DeviceInv, Setting
  <1>15. CASE UNCHANGED vars
    BY <1>15 DEF vars, usbVars, mainVars, parsed, DeviceInv, Setting
  <1> QED
    BY <1>1, <1>2, <1>3, <1>4, <1>5, <1>6, <1>7, <1>8, <1>9, <1>10, <1>11, <1>12, <1>13, <1>14, <1>15
    DEF Next, Main

LEMMA WriteStep == OptionsInv /\ PcInv /\ UsableInv /\ WriteInv /\ [Next]_vars => WriteInv'
  <1> SUFFICES ASSUME OptionsInv, PcInv, UsableInv, WriteInv, [Next]_vars PROVE WriteInv'
    OBVIOUS
  <1> USE DEF Parsing, Working, Ended, Opening
  <1>1. CASE ReadFlag
    BY <1>1 DEF ReadFlag, Return, WriteInv, Success
  <1>2. CASE ReadMode \/ FinishParsing
    BY <1>2 DEF ReadMode, FinishParsing, Return, parsed, WriteInv, Success
  <1>3. CASE Descriptors
    BY <1>3 DEF Descriptors, Return, parsed, WriteInv, Success
  <1>4. CASE Enumerate \/ Open \/ OpenFlag \/ Claim
    BY <1>4 DEF Enumerate, Open, OpenFlag, Claim, Goto, parsed, WriteInv, Success
  <1>5. CASE Resolve
    <2>1. pc = "resolve" /\ options.write_repeat \in Positive
      BY <1>5 DEF Resolve, Goto, UsableInv, Usable, InRange
    <2>2. 0 < options.write_repeat
      BY <2>1 DEF Positive
    <2> QED
      BY <1>5, <2>1, <2>2 DEF Resolve, Goto, parsed, WriteInv, Success
  <1>6. CASE OpenFails \/ WriteFails \/ ReadThrows
    BY <1>6 DEF OpenFails, WriteFails, ReadThrows, Return, parsed, WriteInv, Success
  <1>7. CASE Write
    <2>1. options.write_repeat \in Int
      BY <1>7 DEF Write, UsableInv, Usable, InRange, Positive
    <2> QED
      BY <1>7, <2>1 DEF Write, parsed, WriteInv, Success
  <1>8. CASE Cycle
    <2>1. options.write_repeat \in Int
      BY <1>8 DEF Cycle, UsableInv, Usable, InRange, Positive
    <2> QED
      BY <1>8, <2>1 DEF Cycle, Return, parsed, WriteInv, Success
  <1>9. CASE LoopTest
    BY <1>9 DEF LoopTest, Return, parsed, WriteInv, Success
  <1>10. CASE ReadReturns \/ ReadGone
    BY <1>10 DEF ReadReturns, ReadGone, AfterRead, parsed, WriteInv, Success
  <1>11. CASE Destroy
    BY <1>11 DEF Destroy, Goto, parsed, WriteInv, Success
  <1>12. CASE \E u \in Units : Plug(u) \/ Unplug(u)
    BY <1>12 DEF Plug, Unplug, mainVars, parsed, WriteInv, Success
  <1>13. CASE HandleSignal
    BY <1>13 DEF HandleSignal, parsed, WriteInv, Success
  <1>14. CASE UNCHANGED vars
    BY <1>14 DEF vars, mainVars, parsed, WriteInv, Success
  <1> QED
    BY <1>1, <1>2, <1>3, <1>4, <1>5, <1>6, <1>7, <1>8, <1>9, <1>10, <1>11, <1>12, <1>13, <1>14
    DEF Next, Main

LEMMA Invariant == Spec => []IInv
  <1>1. IInv /\ [Next]_vars => IInv'
    BY OptionsStep, PcStep, FlagStep, DeviceStep, UsableStep, EndpointStep, WriteStep, Zenon
    DEF IInv, OptionsInv
  <1> QED
    BY <1>1, InitInv, PTL DEF Spec

-----------------------------------------------------------------------------
(* Theorems *)

\* Every variable keeps to its range, for command lines of any length.
THEOREM TypeCorrect == Spec => []TypeOK
  <1>1. IInv => TypeOK
    <2> SUFFICES ASSUME IInv PROVE TypeOK
      OBVIOUS
    <2>1. index \in 1..(Len(line.args) + 1) /\ line \in CommandLines
      BY CommandLineAssumption DEF IInv, ParsedInv
    <2>2. UsbTypeOK
      BY Zenon DEF IInv, DeviceInv, FlagInv, UsbTypeOK
    <2>3. pc \in {"mode", "parse", "descriptors", "unwind"} \cup Opening \cup Working \cup Ended
      BY DEF IInv, PcInv
    <2>4. cycles \in Nat /\ exitCode \in {0, 1} /\ target \in Units \cup {None}
      BY DEF IInv, WriteInv, DeviceInv
    <2>5. running \in BOOLEAN
      BY DEF IInv, FlagInv
    <2> QED
      BY <2>1, <2>2, <2>3, <2>4, <2>5, Zenon DEF TypeOK
  <1> QED
    BY <1>1, Invariant, PTL

\* What parse_args lets through is in the ranges both modes rely on, whatever the
\* numbers on the command line were.
THEOREM OptionsAreUsable == Spec => []OptionsUsable
  <1>1. IInv => OptionsUsable
    BY DEF IInv, UsableInv, Parsing, OptionsUsable
  <1> QED
    BY <1>1, Invariant, PTL

\* Through eighteen branches and any sequence of flags, each option stays its default
\* until its own flag comes and is what that one last said, as long as it has room.
THEOREM LastFlagsWin == Spec => []LastFlagWins
  <1>1. IInv => LastFlagWins
    BY LastIsMeant DEF IInv
  <1> QED
    BY <1>1, Invariant, PTL

\* No exception, at no step of open() or of the loops, leaves a handle open.
THEOREM HandlesAreClosed == Spec => []HandleClosed
  <1>1. IInv => HandleClosed
    BY DEF IInv, DeviceInv, HandleClosed
  <1> QED
    BY <1>1, Invariant, PTL

\* Probe mode transfers on an interface it has claimed, to endpoints it has found.
THEOREM TransfersAreClaimed == Spec => []TransfersOnClaim
  <1>1. IInv => TransfersOnClaim
    BY DEF IInv, DeviceInv, EndpointInv, WriteInv, Holding, Working, TransfersOnClaim
  <1> QED
    BY <1>1, Invariant, PTL

\* Exit code 0 is the proof of write_repeat whole writes, signal or no signal.
THEOREM SuccessIsWritten == Spec => []SuccessMeansWritten
  <1>1. IInv => SuccessMeansWritten
    BY DEF IInv, WriteInv, SuccessMeansWritten
  <1> QED
    BY <1>1, Invariant, PTL
=============================================================================
