------------------------------- MODULE Monitor -------------------------------
(***************************************************************************)
(* The byte map of the dev tester against the controller: the part of the  *)
(* bridge's loop that publishes a report, as a raw SysEx and as CCs        *)
(* (src/main.cpp, src/core_midi_bridge.cpp), the queue between the two     *)
(* programs, and ByteMapWindow, which rebuilds the bytes from either       *)
(* (tools/midi_dev_tester.py).                                             *)
(*                                                                         *)
(* The tester stays connected to the bridge; its ports and its rules are   *)
(* in MidiTester.  Highlights, labels and the bit panel are left out.      *)
(***************************************************************************)
EXTENDS S4Mapping

CONSTANTS
  RawSysex,  \* --raw-sysex
  MapBytes,  \* MAX_BYTES (512)
  MapBases,  \* base channels the user tries, 1 to 16
  MaxQueue   \* bound on the messages in flight, which have none in the code

ASSUME MonitorAssumption ==
  /\ RawSysex \in BOOLEAN
  /\ MapBytes \in Nat \ {0} /\ MaxQueue \in Nat \ {0}
  /\ MapBases \subseteq 1..16

VARIABLES
  at,           \* where the loop is: reading, publishing the packet, decoding it, or gone
  packet,       \* the report just read
  previous,     \* previous_report_
  rawPrevious,  \* previous_raw_sysex_packet
  outgoing,     \* the CCs decode_input returned that are still to be sent
  plugged,      \* the device is open
  queue,        \* messages sent and not yet handled by the tester
  window,       \* the source filter of the byte map, or "closed"
  mapBase,      \* its base channel
  data,         \* _data
  learned       \* history: the bytes it was told since it was opened or set

bridgeVars == <<at, packet, previous, rawPrevious, outgoing, plugged>>
mapVars == <<window, mapBase, data, learned>>
vars == <<bridgeVars, queue, mapVars>>

Sources == {"Both", "CC only", "SysEx only"}
MapIndexes == 0..(MapBytes - 1)
NoData == [i \in MapIndexes |-> 0]

-----------------------------------------------------------------------------
(* What travels *)

RawHeader == <<125, 83, 52, 2>>

High(b) == b \div 16

\* (mutant) the low nibble is not masked
LowUnmasked(b) == b

Low(b) == b % 16

\* A raw packet without its F0 and F7, which mido strips.
RawData(report) ==
  RawHeader \o
  [n \in 1..(2 * Len(report)) |->
     IF n % 2 = 1 THEN High(report[(n + 1) \div 2]) ELSE Low(report[n \div 2])]

SysEx(report) == [kind |-> "sysex", data |-> RawData(report)]
CC(m) == [kind |-> "cc", address |-> m.address, value |-> m.value]

\* The bytes of a raw packet, if that is what the message is.
IsRaw(d) == Len(d) >= 5 /\ SubSeq(d, 1, 4) = RawHeader /\ Len(d) % 2 = 0
RawLength(d) == (Len(d) - 4) \div 2
RawByte(d, i) == d[2 * i + 5] * 16 + d[2 * i + 6]

\* The byte a CC speaks for.
RouteIndex(address) == ((address[1] + 1 - mapBase) % 16) * 128 + address[2]
Reconstructed(value) == 2 * value

MidiEvents ==
  [kind : {"sysex"}, data : Seq(Controllers)] \cup
  [kind : {"cc"}, address : Addresses, value : Controllers]

TypeOK ==
  /\ at \in {"read", "raw", "decode", "gone"}
  /\ {packet, previous, rawPrevious} \subseteq Reports \cup {<<>>}
  /\ outgoing \subseteq CCMessage
  /\ plugged \in BOOLEAN
  /\ queue \in Seq(MidiEvents) /\ Len(queue) <= MaxQueue
  /\ window \in Sources \cup {"closed"}
  /\ mapBase \in 1..16
  /\ data \in [MapIndexes -> Byte]
  /\ learned \subseteq MapIndexes

Init ==
  /\ at = "read" /\ packet = <<>> /\ outgoing = {} /\ plugged = TRUE
  /\ previous = <<>> /\ rawPrevious = <<>>
  /\ queue = <<>>
  /\ window = "closed" /\ mapBase = 1 /\ data = NoData /\ learned = {}

-----------------------------------------------------------------------------
(* The loop of run_bridge *)

Send(event) ==
  /\ Len(queue) < MaxQueue
  /\ queue' = Append(queue, event)

Read(report) ==
  /\ at = "read" /\ outgoing = {} /\ plugged = TRUE
  /\ at' = "raw" /\ packet' = report
  /\ UNCHANGED <<previous, rawPrevious, outgoing, plugged, queue, mapVars>>

Due == RawSysex /\ packet # rawPrevious

SkipRaw ==
  /\ at = "raw" /\ ~Due
  /\ at' = "decode"
  /\ UNCHANGED <<packet, previous, rawPrevious, outgoing, plugged, queue, mapVars>>

PublishRaw ==
  /\ at = "raw" /\ Due
  /\ Send(SysEx(packet))
  /\ at' = "decode" /\ rawPrevious' = packet
  /\ UNCHANGED <<packet, previous, outgoing, plugged, mapVars>>

\* (mutant) the packet counts as published
RawLost ==
  /\ at = "raw" /\ Due
  /\ at' = "decode" /\ rawPrevious' = packet
  /\ UNCHANGED <<packet, previous, outgoing, plugged, queue, mapVars>>

\* The exception of a raw packet is caught where it is sent.
RawFails ==
  /\ at = "raw" /\ Due
  /\ at' = "decode"
  /\ UNCHANGED <<packet, previous, rawPrevious, outgoing, plugged, queue, mapVars>>

\* decode_input
Decode ==
  /\ at = "decode"
  /\ at' = "read" /\ packet' = <<>> /\ previous' = packet
  /\ outgoing' = IF previous = <<>> THEN {} ELSE Messages(previous, packet)
  /\ UNCHANGED <<rawPrevious, plugged, queue, mapVars>>

\* The messages go in the order they were appended in.
SendCC ==
  /\ at = "read"
  /\ \E m \in outgoing :
       /\ \A n \in outgoing : m.at <= n.at
       /\ Send(CC(m))
       /\ outgoing' = outgoing \ {m}
  /\ UNCHANGED <<at, packet, previous, rawPrevious, plugged, mapVars>>

\* That of a CC ends the program.
SendFails ==
  /\ at = "read" /\ outgoing # {}
  /\ at' = "gone"
  /\ UNCHANGED <<packet, previous, rawPrevious, outgoing, plugged, queue, mapVars>>

Unplug ==
  /\ at = "read" /\ outgoing = {} /\ plugged = TRUE
  /\ plugged' = FALSE
  /\ UNCHANGED <<at, packet, previous, rawPrevious, outgoing, queue, mapVars>>

\* (mutant) the new session starts from a new baseline
ReconnectAfresh ==
  /\ at = "read" /\ ~plugged
  /\ plugged' = TRUE /\ previous' = <<>>
  /\ UNCHANGED <<at, packet, rawPrevious, outgoing, queue, mapVars>>

\* The packet kept for --input-debug is forgotten, these two are not.
Reconnect ==
  /\ at = "read" /\ ~plugged
  /\ plugged' = TRUE
  /\ UNCHANGED <<at, packet, previous, rawPrevious, outgoing, queue, mapVars>>

-----------------------------------------------------------------------------
(* The byte map *)

Accepts(source) ==
  CASE window = "closed" -> FALSE
    [] window = "CC only" -> source = "cc"
    [] window = "SysEx only" -> source = "sysex"
    [] OTHER -> TRUE

\* update_byte
RouteCC(e) ==
  LET i == RouteIndex(e.address)
  IN IF Accepts("cc") /\ i \in MapIndexes
     THEN /\ data' = [data EXCEPT ![i] = Reconstructed(e.value)]
          /\ learned' = learned \cup {i}
     ELSE UNCHANGED <<data, learned>>

\* update_packet: only the bytes that differ from those of the map are written.
RouteSysEx(e) ==
  LET told == {i \in MapIndexes : i < RawLength(e.data)}
      differing == {i \in told : data[i] # RawByte(e.data, i)}
  IN IF Accepts("sysex") /\ IsRaw(e.data)
     THEN /\ data' = [i \in MapIndexes |->
                        IF i \in differing THEN RawByte(e.data, i) ELSE data[i]]
          /\ learned' = learned \cup told
     ELSE UNCHANGED <<data, learned>>

\* _handle_event, less the log, the counters and the rules
Handle ==
  /\ queue # <<>>
  /\ queue' = Tail(queue)
  /\ \/ Head(queue).kind = "cc" /\ RouteCC(Head(queue))
     \/ Head(queue).kind = "sysex" /\ RouteSysEx(Head(queue))
  /\ UNCHANGED <<bridgeVars, window, mapBase>>

OpenByteMap ==
  /\ window = "closed"
  /\ window' = "Both" /\ data' = NoData /\ learned' = {}
  /\ UNCHANGED <<bridgeVars, queue, mapBase>>

\* The bytes go with the window.
CloseByteMap ==
  /\ window # "closed"
  /\ window' = "closed" /\ data' = NoData /\ learned' = {}
  /\ UNCHANGED <<bridgeVars, queue, mapBase>>

\* The window keeps its bytes when the source or the base channel is set.
SetSource(s) ==
  /\ window \notin {"closed", s}
  /\ window' = s /\ learned' = {}
  /\ UNCHANGED <<bridgeVars, queue, mapBase, data>>

SetBase(c) ==
  /\ window # "closed" /\ mapBase # c
  /\ mapBase' = c /\ learned' = {}
  /\ UNCHANGED <<bridgeVars, queue, window, data>>

-----------------------------------------------------------------------------
Bridge ==
  \/ \E report \in Reports : Read(report)
  \/ SkipRaw \/ PublishRaw \/ RawFails \/ Decode \/ SendCC \/ SendFails
  \/ Unplug \/ Reconnect

Tester ==
  \/ Handle \/ OpenByteMap \/ CloseByteMap
  \/ \E s \in Sources : SetSource(s)
  \/ \E c \in MapBases : SetBase(c)

Next == Bridge \/ Tester

Spec == Init /\ [][Next]_vars

-----------------------------------------------------------------------------
(* Properties *)

\* What a short report lacks is not compared with the next one: these bytes always are.
NeverCut == {i \in MapIndexes : \A r \in Reports : i < Len(r)}

\* Once nothing is on its way, every byte the map was told shows the value of the
\* last report, whatever was lost, cut, unplugged or set in between; a CC leaves its
\* lowest bit out.
MapFollows ==
  /\ at = "read" /\ outgoing = {} /\ queue = <<>> /\ previous # <<>>
  /\ window \in {"Both", "CC only"} /\ mapBase = BaseChannel + 1
  => \A i \in learned \cap NeverCut : V7(data[i]) = V7(At(previous, i))

\* Fed by SysEx alone, it shows the very bytes of the last packet that was
\* published: a failed one is not taken for published.
RawExact ==
  window = "SysEx only" /\ queue = <<>> =>
    \A i \in learned : i < Len(rawPrevious) => data[i] = At(rawPrevious, i)
=============================================================================
