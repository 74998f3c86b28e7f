-------------------------------- MODULE Probe --------------------------------
(***************************************************************************)
(* From the command line to the exit code: main and parse_args, which turn *)
(* the arguments into AppOptions for both modes, and run_probe, which      *)
(* prints descriptors, writes a payload or streams reports                 *)
(* (src/main.cpp, src/usb_device.cpp).  Bridge mode goes on in module      *)
(* Bridge.                                                                 *)
(*                                                                         *)
(* An argument is a flag with the value read for it; the options are named *)
(* after their flags.  A value is what stoul, stoi or the list of hex      *)
(* bytes makes of the text, and Bad stands for a text they refuse, a       *)
(* missing one included.  One thread runs; units come and go, and a signal *)
(* may arrive, between any two steps.                                      *)
(***************************************************************************)
EXTENDS UsbDevice, Integers, Sequences

CONSTANTS
  CommandLines,  \* what the program is started with
  Bad,           \* no value, or one that cannot be read
  Endpoints      \* the endpoint addresses of <<interface, alternate setting>>

VARIABLES
  line,      \* the command line
  index,     \* the argument parse_args reads next
  options,   \* AppOptions
  pc,        \* the point main has reached
  target,    \* unit found by open(), None if it has been unplugged since
  running,   \* the global flag the signal handler clears
  cycles,    \* writes that succeeded
  exitCode   \* value main returns

parsed == <<line, index, options>>
mainVars == <<parsed, pc, target, running, cycles, exitCode>>
vars == <<usbVars, mainVars>>

Switches == {"stream", "raw_sysex", "input_debug", "input_debug_buttons"}
Unsigned == {"vid", "pid", "in_ep", "out_ep"}
Signed   == {"interface", "alt_setting", "report_size", "timeout_ms", "write_repeat",
             "write_interval_ms", "midi_channel", "input_deadzone"}
UsbFlags == {"vid", "pid", "interface", "alt_setting", "in_ep", "out_ep", "report_size", "timeout_ms"}
Flags    == Switches \cup Unsigned \cup Signed \cup {"input_decode", "write_hex"}

\* Where a number is expected there is one, or a text that is none; a switch
\* reads no value and stands for TRUE.
ASSUME CommandLineAssumption ==
  \A l \in CommandLines :
    /\ Len(l.args) \in Nat
    /\ \A k \in 1..Len(l.args) :
         LET a == l.args[k]
         IN /\ a.flag \in Unsigned \cup Signed => a.value = Bad \/ a.value \in Int
            /\ a.flag \in Switches => a.value = TRUE

\* What the members of AppOptions and UsbOptions can hold, or may.
Word     == 0..65535
Address  == 0..255
Channel  == 0..15
Deadzone == 0..127
Positive == Nat \ {0}

Opening == {"enumerate", "open", "openFlag", "claim", "resolve"}
Working == {"write", "answer", "cycle", "loop", "read"}
Ended   == {"exited", "bridge"}

\* The initialisers of AppOptions and UsbOptions.
Defaults ==
  [vid |-> 0, pid |-> 0, in_ep |-> 0, out_ep |-> 0, interface |-> 0, alt_setting |-> 0,
   report_size |-> 0, timeout_ms |-> 50, write_repeat |-> 1, write_interval_ms |-> 50,
   midi_channel |-> 0, input_deadzone |-> 0, input_decode |-> "byte", write_hex |-> <<>>,
   stream |-> FALSE, raw_sysex |-> FALSE, input_debug |-> FALSE, input_debug_buttons |-> FALSE]

Init ==
  /\ UsbInit
  /\ line \in CommandLines
  /\ index = 1
  /\ options = Defaults
  /\ pc = "mode"
  /\ target = None
  /\ running = TRUE
  /\ cycles = 0
  /\ exitCode = 0

Goto(from, to) == pc = from /\ pc' = to

\* Every local is destroyed, the device with them if it was constructed.
Return(code) == pc' = "unwind" /\ exitCode' = code

-----------------------------------------------------------------------------
(* parse_args *)

ReadMode ==
  /\ pc = "mode"
  /\ \/ line.mode \in {"probe", "bridge"} /\ pc' = "parse" /\ UNCHANGED exitCode
     \/ line.mode \notin {"probe", "bridge"} /\ Return(1)
  /\ UNCHANGED <<usbVars, parsed, target, running, cycles>>

\* The upper bits of the number are dropped.
ParseU16(v) == v % 65536
ParseU8(v) == v % 256

\* (mutant) the channel is not tested
AcceptedAnyChannel(flag, v) ==
  /\ flag \in Flags
  /\ flag \notin Switches => v # Bad
  /\ flag = "write_repeat" => v > 0
  /\ flag = "write_interval_ms" => v >= 0
  /\ flag = "input_deadzone" => v \in Deadzone
  /\ flag = "input_decode" => v \in {"byte", "bit", "hybrid"}
  /\ flag = "write_hex" => v # <<>> /\ \A k \in DOMAIN v : v[k] <= 255

\* What each flag demands of its value; anything else is an exception.
Accepted(flag, v) ==
  /\ flag \in Flags
  /\ flag \notin Switches => v # Bad
  /\ flag = "write_repeat" => v > 0
  /\ flag = "write_interval_ms" => v >= 0
  /\ flag = "midi_channel" => v \in 1..16
  /\ flag = "input_deadzone" => v \in Deadzone
  /\ flag = "input_decode" => v \in {"byte", "bit", "hybrid"}
  /\ flag = "write_hex" => v # <<>> /\ \A k \in DOMAIN v : v[k] <= 255

\* (mutant) --out-ep is copied from --in-ep, member and all
UsbOptionCopied(opts, flag, v) ==
  CASE flag = "vid"         -> [opts EXCEPT !.vid = ParseU16(v)]
    [] flag = "pid"         -> [opts EXCEPT !.pid = ParseU16(v)]
    [] flag = "interface"   -> [opts EXCEPT !.interface = v]
    [] flag = "alt_setting" -> [opts EXCEPT !.alt_setting = v]
    [] flag = "in_ep"       -> [opts EXCEPT !.in_ep = ParseU8(v)]
    [] flag = "out_ep"      -> [opts EXCEPT !.in_ep = ParseU8(v)]
    [] flag = "report_size" -> [opts EXCEPT !.report_size = v]
    [] flag = "timeout_ms"  -> [opts EXCEPT !.timeout_ms = v]

\* The branches that fill options.usb.  A timeout below 0 is a very long one.
UsbOption(opts, flag, v) ==
  CASE flag = "vid"         -> [opts EXCEPT !.vid = ParseU16(v)]
    [] flag = "pid"         -> [opts EXCEPT !.pid = ParseU16(v)]
    [] flag = "interface"   -> [opts EXCEPT !.interface = v]
    [] flag = "alt_setting" -> [opts EXCEPT !.alt_setting = v]
    [] flag = "in_ep"       -> [opts EXCEPT !.in_ep = ParseU8(v)]
    [] flag = "out_ep"      -> [opts EXCEPT !.out_ep = ParseU8(v)]
    [] flag = "report_size" -> [opts EXCEPT !.report_size = v]
    [] flag = "timeout_ms"  -> [opts EXCEPT !.timeout_ms = v]

\* The branches of the other flags.  The channel is counted from 0, and
\* --input-debug-buttons switches --input-debug on as well.
AppOption(opts, flag, v) ==
  CASE flag = "stream"              -> [opts EXCEPT !.stream = TRUE]
    [] flag = "write_hex"           -> [opts EXCEPT !.write_hex = v]
    [] flag = "write_repeat"        -> [opts EXCEPT !.write_repeat = v]
    [] flag = "write_interval_ms"   -> [opts EXCEPT !.write_interval_ms = v]
    [] flag = "midi_channel"        -> [opts EXCEPT !.midi_channel = v - 1]
    [] flag = "input_deadzone"      -> [opts EXCEPT !.input_deadzone = v]
    [] flag = "input_decode"        -> [opts EXCEPT !.input_decode = v]
    [] flag = "input_debug"         -> [opts EXCEPT !.input_debug = TRUE]
    [] flag = "input_debug_buttons" -> [opts EXCEPT !.input_debug = TRUE,
                                                    !.input_debug_buttons = TRUE]
    [] flag = "raw_sysex"           -> [opts EXCEPT !.raw_sysex = TRUE]

With(opts, flag, v) ==
  IF flag \in UsbFlags THEN UsbOption(opts, flag, v) ELSE AppOption(opts, flag, v)

ReadFlag ==
  /\ pc = "parse" /\ index <= Len(line.args)
  /\ LET a == line.args[index]
     IN \/ /\ Accepted(a.flag, a.value)
           /\ options' = With(options, a.flag, a.value)
           /\ index' = index + 1
           /\ UNCHANGED <<pc, exitCode>>
        \/ /\ ~Accepted(a.flag, a.value)
           /\ Return(1)
           /\ UNCHANGED <<options, index>>
  /\ UNCHANGED <<usbVars, line, target, running, cycles>>

Complete(mode, opts) ==
  /\ opts.vid # 0 /\ opts.pid # 0
  /\ mode = "bridge" => opts.in_ep # 0 /\ opts.report_size > 0

FinishParsing ==
  /\ pc = "parse" /\ index > Len(line.args)
  /\ \/ /\ Complete(line.mode, options)
        /\ pc' = IF line.mode = "probe" THEN "descriptors" ELSE "bridge"
        /\ UNCHANGED exitCode
     \/ ~Complete(line.mode, options) /\ Return(1)
  /\ UNCHANGED <<usbVars, parsed, target, running, cycles>>

-----------------------------------------------------------------------------
(* run_probe *)

\* libusb_init and print_descriptors; both may throw.  A payload without --out-ep
\* is refused before the unit is opened, and nothing to do is success.
Descriptors ==
  /\ pc = "descriptors"
  /\ \/ Return(1)
     \/ options.write_hex # <<>> /\ options.out_ep = 0 /\ Return(1)
     \/ options.write_hex = <<>> /\ ~options.stream /\ Return(0)
     \/ /\ IF options.write_hex # <<>> THEN options.out_ep # 0 ELSE options.stream
        /\ pc' = "enumerate" /\ UNCHANGED exitCode
  /\ UNCHANGED <<usbVars, parsed, target, running, cycles>>

\* open(), step by step: one unit, a handle in handle_, the flag, the claim and
\* the alternate setting, and the endpoints of that setting.
Enumerate ==
  /\ Goto("enumerate", "open")
  /\ \E u \in Units : OnlyMatch(u) /\ target' = u
  /\ UNCHANGED <<usbVars, parsed, running, cycles, exitCode>>

Open ==
  /\ Goto("open", "openFlag")
  /\ \E h \in Handles : OpenHandle(target, h)
  /\ UNCHANGED <<parsed, target, running, cycles, exitCode>>

OpenFlag ==
  /\ Goto("openFlag", "claim")
  /\ ClearDisconnected
  /\ UNCHANGED <<parsed, target, running, cycles, exitCode>>

Setting == <<options.interface, options.alt_setting>>

Claim ==
  /\ Goto("claim", "resolve")
  /\ Setting \in DOMAIN Endpoints
  /\ ClaimInterface
  /\ UNCHANGED <<parsed, target, running, cycles, exitCode>>

\* (mutant) the input endpoint is looked for only if it is to be read
ResolveIfRead ==
  /\ Goto("resolve", IF options.write_hex # <<>> THEN "write" ELSE "loop")
  /\ EndpointsResolved
  /\ options.in_ep \in Endpoints[Setting] \cup {0}
  /\ options.out_ep \in Endpoints[Setting] \cup {0}
  /\ UNCHANGED <<parsed, target, running, cycles, exitCode>>

\* The input endpoint must exist whether it will be read or not.
Resolve ==
  /\ Goto("resolve", IF options.write_hex # <<>> THEN "write" ELSE "loop")
  /\ EndpointsResolved
  /\ options.in_ep \in Endpoints[Setting]
  /\ options.out_ep \in Endpoints[Setting] \cup {0}
  /\ UNCHANGED <<parsed, target, running, cycles, exitCode>>

\* What open() throws, on behalf of libusb or its own.  handle_ stays as it is;
\* the interface may have been claimed before the alternate setting was refused.
OpenFails ==
  /\ pc \in Opening \ {"openFlag"} /\ Return(1)
  /\ \/ UNCHANGED usbVars
     \/ pc = "claim" /\ ClaimInterface
  /\ UNCHANGED <<parsed, target, running, cycles>>

\* (mutant) the loop ends on a signal, and reports success
WriteTestsFlag ==
  /\ pc = "write"
  /\ \/ /\ running /\ CanTransfer(handle)
        /\ cycles' = cycles + 1
        /\ pc' = IF options.stream THEN "answer" ELSE "cycle"
        /\ UNCHANGED exitCode
     \/ ~running /\ Return(0) /\ UNCHANGED cycles
  /\ UNCHANGED <<usbVars, parsed, target, running>>

Write ==
  /\ pc = "write"
  /\ CanTransfer(handle)
  /\ cycles' = cycles + 1
  /\ pc' = IF options.stream THEN "answer" ELSE "cycle"
  /\ UNCHANGED <<usbVars, parsed, target, running, exitCode>>

\* write_output: an error, a timeout and a short transfer all throw.
WriteFails ==
  /\ pc = "write"
  /\ Return(1)
  /\ UNCHANGED <<usbVars, parsed, target, running, cycles>>

\* The signal is not looked at between two cycles.
Cycle ==
  /\ pc = "cycle"
  /\ \/ cycles < options.write_repeat /\ pc' = "write" /\ UNCHANGED exitCode
     \/ cycles >= options.write_repeat /\ Return(0)
  /\ UNCHANGED <<usbVars, parsed, target, running, cycles>>

\* (mutant) the loop does not test the flag
StreamForever ==
  /\ Goto("loop", "read")
  /\ UNCHANGED <<usbVars, parsed, target, running, cycles, exitCode>>

LoopTest ==
  /\ pc = "loop"
  /\ \/ running /\ pc' = "read" /\ UNCHANGED exitCode
     \/ ~running /\ Return(0)
  /\ UNCHANGED <<usbVars, parsed, target, running, cycles>>

\* read_input in either loop, what it returns being printed at most.
AfterRead == (pc = "answer" /\ pc' = "cycle") \/ (pc = "read" /\ pc' = "loop")

ReadReturns ==
  /\ AfterRead /\ options.report_size > 0 /\ CanTransfer(handle)
  /\ UNCHANGED <<usbVars, parsed, target, running, cycles, exitCode>>

\* A loss is an empty read; neither loop asks disconnected().
ReadGone ==
  /\ AfterRead /\ options.report_size > 0
  /\ MarkDisconnected
  /\ UNCHANGED <<parsed, target, running, cycles, exitCode>>

\* No --report-size, or an error other than a loss.
ReadThrows ==
  /\ pc \in {"answer", "read"}
  /\ options.report_size <= 0 \/ CanTransfer(handle)
  /\ Return(1)
  /\ UNCHANGED <<usbVars, parsed, target, running, cycles>>

\* (mutant) an exception leaves the handle to the operating system
DestroyAfterSuccess ==
  /\ Goto("unwind", "exited")
  /\ IF handle # None /\ exitCode = 0 THEN CloseHandle ELSE UNCHANGED usbVars
  /\ UNCHANGED <<parsed, target, running, cycles, exitCode>>

\* ~UsbDevice; main reports what was thrown.
Destroy ==
  /\ Goto("unwind", "exited")
  /\ IF handle # None THEN CloseHandle ELSE UNCHANGED usbVars
  /\ UNCHANGED <<parsed, target, running, cycles, exitCode>>

-----------------------------------------------------------------------------
(* The environment *)

Plug(u) ==
  /\ AttachUnit(u)
  /\ UNCHANGED mainVars

Unplug(u) ==
  /\ DetachUnit(u)
  /\ target' = IF target = u THEN None ELSE target
  /\ UNCHANGED <<parsed, pc, running, cycles, exitCode>>

HandleSignal ==
  /\ running /\ running' = FALSE
  /\ UNCHANGED <<usbVars, parsed, pc, target, cycles, exitCode>>

Main ==
  \/ ReadMode \/ ReadFlag \/ FinishParsing
  \/ Descriptors \/ Enumerate \/ Open \/ OpenFlag \/ Claim \/ Resolve \/ OpenFails
  \/ Write \/ WriteFails \/ Cycle \/ LoopTest \/ ReadReturns \/ ReadGone \/ ReadThrows
  \/ Destroy

Next ==
  \/ Main
  \/ \E u \in Units : Plug(u) \/ Unplug(u)
  \/ HandleSignal

\* libusb waits for ever when --timeout-ms is 0 and the unit does not answer.
Waiting == pc \in {"write", "answer", "read"} /\ options.timeout_ms = 0 /\ Live(handle)

Spec == Init /\ [][Next]_vars /\ WF_vars(~Waiting /\ Main)

-----------------------------------------------------------------------------
(* Properties *)

TypeOK ==
  /\ UsbTypeOK
  /\ line \in CommandLines /\ index \in 1..(Len(line.args) + 1)
  /\ pc \in {"mode", "parse", "descriptors", "unwind"} \cup Opening \cup Working \cup Ended
  /\ target \in Units \cup {None}
  /\ running \in BOOLEAN
  /\ cycles \in Nat
  /\ exitCode \in {0, 1}

\* What the constructors and tables of both modes take for granted, and what a
\* conversion that drops bits or a forgotten test would break.
InRange ==
  /\ options.vid \in Word \ {0} /\ options.pid \in Word \ {0}
  /\ options.in_ep \in Address /\ options.out_ep \in Address
  /\ options.midi_channel \in Channel /\ options.input_deadzone \in Deadzone
  /\ options.write_repeat \in Positive /\ options.write_interval_ms \in Nat

Usable ==
  /\ InRange
  /\ options.input_debug_buttons => options.input_debug
  /\ line.mode = "bridge" => options.in_ep # 0 /\ options.report_size > 0

OptionsUsable == pc \notin {"mode", "parse", "unwind", "exited"} => Usable

\* What a flag stands for on the command line, where channels are counted from 1,
\* and the values whose member has room for them.
Meant(flag, v) == IF flag = "midi_channel" THEN v - 1 ELSE v
Fits(flag, v) ==
  /\ flag \in {"vid", "pid"} => v \in Word
  /\ flag \in {"in_ep", "out_ep"} => v \in Address

\* However often and in whatever order the flags come, no branch of parse_args
\* touches the option of another flag, but for the one that means to: an option is
\* its default without a flag, and with one what the last said, if there is room.
LastFlagWins ==
  LET given(fs) == {k \in 1..(index - 1) : line.args[k].flag \in fs}
  IN /\ \A f \in Flags \ {"input_debug"} :
          \/ given({f}) = {} /\ options[f] = Defaults[f]
          \/ \E k \in given({f}) :
               /\ \A l \in given({f}) : l <= k
               /\ Fits(f, line.args[k].value) => options[f] = Meant(f, line.args[k].value)
     /\ options.input_debug <=> given({"input_debug", "input_debug_buttons"}) # {}

\* The handle is closed wherever the exception came from, also in the middle of
\* open(), and an unplugged unit is no reason to keep it.
HandleClosed ==
  /\ opened \subseteq {handle}
  /\ pc \in Ended => opened = {}

\* No transfer is tried on an interface that is not claimed, nor on an endpoint that
\* the chosen setting lacks, whatever was left off the command line.
TransfersOnClaim ==
  /\ pc \in Working => handle \in opened \cap claimed
  /\ pc \in {"answer", "loop", "read"} => options.in_ep \in Endpoints[Setting]
  /\ pc = "write" => options.out_ep \in Endpoints[Setting]

\* "Write probe complete" is never said of fewer cycles than asked for, even if a
\* signal came in between; a stream ends with success on a signal only.
Success ==
  IF options.write_hex # <<>> THEN cycles = options.write_repeat
  ELSE cycles = 0 /\ (options.stream => ~running)

SuccessMeansWritten == pc = "exited" /\ exitCode = 0 => Success

\* A signal ends the program, and a write probe ends without one.
Ends == ~running \/ options.write_hex # <<>> ~> pc \in Ended \/ Waiting
=============================================================================
