------------------------------- MODULE Feedback -------------------------------
(***************************************************************************)
(* The feedback path byte by byte: the DAW sends MIDI to the virtual       *)
(* destination, CoreMIDI packs it into packet lists, read_proc hands each  *)
(* packet to the callback of run_bridge, encode_output finds the payload   *)
(* and write_output transfers it (src/core_midi_bridge.cpp, src/main.cpp,  *)
(* src/s4_generic_protocol.cpp, src/usb_device.cpp).                       *)
(*                                                                         *)
(* CoreMIDI may cut a SysEx into several packets, never mixes a SysEx with *)
(* other messages in one, and calls read_proc on one thread.  What makes   *)
(* the device unusable is in module Bridge; here "up" changes at any time. *)
(***************************************************************************)
EXTENDS Integers, Sequences

CONSTANTS
  Payloads,          \* what the DAW frames in the bridge's SysEx
  OtherSysEx,        \* the bodies of SysEx of other makers
  ShortPackets,      \* packets of messages that are no SysEx
  OutputConfigured,  \* --out-ep was given
  MaxMessages        \* bound on the messages the DAW sends

Byte == 0..255
DataByte == 0..127
Start == 240  \* F0
End == 247    \* F7
Maker == <<125, 83, 52>>  \* 7D 53 34

\* MIDI: the bytes of a SysEx are below 80, and no other message starts with F0.
ASSUME MidiAssumption ==
  /\ Payloads \subseteq Seq(DataByte)
  /\ \A b \in OtherSysEx : b \in Seq(DataByte) /\ (Len(b) < 3 \/ SubSeq(b, 1, 3) # Maker)
  /\ \A m \in ShortPackets : m \in Seq(Byte) /\ m # <<>> /\ m[1] # Start

ASSUME OutputAssumption == OutputConfigured \in BOOLEAN /\ MaxMessages \in Nat

VARIABLES
  packets,  \* what CoreMIDI has still to deliver: the bytes, the payload they frame
  inList,   \* how many of them are left of the list read_proc goes through
  up,       \* the guard of the callback lets a message through
  warned,   \* warned_about_led_protocol_
  log,      \* history: the payloads the DAW framed
  written,  \* history: the transfers to the output endpoint
  sent      \* messages sent, for the bound

vars == <<packets, inList, up, warned, log, written, sent>>

SysEx(body) == <<Start>> \o body \o <<End>>
Frame(p) == SysEx(Maker \o p)

TypeOK ==
  /\ \A k \in DOMAIN packets : packets[k].data # <<>> /\ packets[k].of \in {0} \cup DOMAIN log
  /\ inList \in 0..Len(packets)
  /\ up \in BOOLEAN /\ warned \in BOOLEAN
  /\ log \in Seq(Payloads)
  /\ \A k \in DOMAIN written : written[k].of \in DOMAIN log
  /\ sent \in 0..MaxMessages

Init ==
  /\ packets = <<>> /\ inList = 0
  /\ up = TRUE /\ warned = FALSE
  /\ log = <<>> /\ written = <<>> /\ sent = 0

-----------------------------------------------------------------------------
(* The DAW and CoreMIDI *)

Packet(data, of) == [data |-> data, of |-> of]

Queue(new) ==
  /\ sent < MaxMessages /\ sent' = sent + 1
  /\ packets' = packets \o new
  /\ UNCHANGED <<inList, up, warned, written>>

SendFrame(p) ==
  /\ log' = Append(log, p)
  /\ Queue(<<Packet(Frame(p), Len(log) + 1)>>)

\* A SysEx in two packets.
Pieces(m, k) == <<Packet(SubSeq(m, 1, k), 0), Packet(SubSeq(m, k + 1, Len(m)), 0)>>

SendFrameInPieces(p) ==
  /\ log' = Append(log, p)
  /\ \E k \in 1..(Len(Frame(p)) - 1) : Queue(Pieces(Frame(p), k))

SendOtherSysEx(b) ==
  /\ \/ Queue(<<Packet(SysEx(b), 0)>>)
     \/ \E k \in 1..(Len(SysEx(b)) - 1) : Queue(Pieces(SysEx(b), k))
  /\ UNCHANGED log

SendShort(m) ==
  /\ Queue(<<Packet(m, 0)>>)
  /\ UNCHANGED log

\* CoreMIDI calls read_proc with a list of the packets it has.
Deliver ==
  /\ inList = 0
  /\ inList' \in 1..Len(packets)
  /\ UNCHANGED <<packets, up, warned, log, written, sent>>

SessionChanges ==
  /\ up' = ~up
  /\ UNCHANGED <<packets, inList, warned, log, written, sent>>

-----------------------------------------------------------------------------
(* encode_output *)

\* (mutant) the end of the frame is not looked at
EncodeUnterminated(m) ==
  IF Len(m) >= 5 /\ m[1] = Start /\ SubSeq(m, 2, 4) = Maker
  THEN {SubSeq(m, 5, Len(m) - 1)} ELSE {}

\* (mutant) the first byte of the payload is taken for a type
EncodeTyped(m) ==
  IF Len(m) >= 5 /\ m[1] = Start /\ m[Len(m)] = End /\ SubSeq(m, 2, 4) = Maker
  THEN {SubSeq(m, 6, Len(m) - 1)} ELSE {}

\* The payload, if the message is a frame.
EncodeOutput(m) ==
  IF Len(m) >= 5 /\ m[1] = Start /\ m[Len(m)] = End /\ SubSeq(m, 2, 4) = Maker
  THEN {SubSeq(m, 5, Len(m) - 1)} ELSE {}

-----------------------------------------------------------------------------
(* read_proc and the callback, one packet *)

\* (mutant) an exception of write_output reaches read_proc, which ends the list
DoneUnlessShort ==
  IF written' # written /\ written'[Len(written')].bytes = <<>>
  THEN packets' = SubSeq(packets, inList + 1, Len(packets)) /\ inList' = 0
  ELSE packets' = Tail(packets) /\ inList' = inList - 1

\* The callback returned, whatever became of the packet: on to the next one.
PacketDone ==
  /\ packets' = Tail(packets)
  /\ inList' = inList - 1

\* (mutant) the callback waits for the device to come back
WaitForDevice ==
  /\ inList > 0 /\ ~up
  /\ UNCHANGED vars

Drop ==
  /\ inList > 0 /\ ~up
  /\ UNCHANGED <<up, warned, log, written, sent>>
  /\ PacketDone

Ignore ==
  /\ inList > 0 /\ up
  /\ EncodeOutput(Head(packets).data) = {}
  /\ warned' = TRUE
  /\ UNCHANGED <<up, log, written, sent>>
  /\ PacketDone

\* write_output: the controller takes the first n bytes.  An error and a short
\* transfer throw, and so does a missing --out-ep, which transfers nothing; the
\* callback swallows the exception.
Write(p) ==
  IF OutputConfigured
  THEN \E n \in 0..Len(p) :
         written' = Append(written, [of |-> Head(packets).of, bytes |-> SubSeq(p, 1, n)])
  ELSE UNCHANGED written

WriteOutput ==
  /\ inList > 0 /\ up
  /\ \E p \in EncodeOutput(Head(packets).data) : Write(p)
  /\ PacketDone
  /\ UNCHANGED <<up, warned, log, sent>>

Callback == Drop \/ Ignore \/ WriteOutput

Next ==
  \/ \E p \in Payloads : SendFrame(p) \/ SendFrameInPieces(p)
  \/ \E b \in OtherSysEx : SendOtherSysEx(b)
  \/ \E m \in ShortPackets : SendShort(m)
  \/ Deliver
  \/ SessionChanges
  \/ Callback

\* The CoreMIDI thread runs; the DAW and the session are not forced.
Spec == Init /\ [][Next]_vars /\ WF_vars(Callback)

-----------------------------------------------------------------------------
(* Properties *)

Channel == INSTANCE PayloadChannel WITH got <- written

\* No payload is invented, merged, repeated or overtaken, however CoreMIDI cuts the
\* SysEx and packs the lists, whatever else is sent and however writes fail.
ImplementsChannel == Channel!Spec

\* A frame that arrives whole while the device is usable is always tried: neither
\* the failure of an earlier packet of the list nor what surrounds it hides it.
FrameTried ==
  [][\A k \in 1..(Len(packets) - Len(packets')) :
       LET of == packets[k].of
       IN up /\ OutputConfigured /\ of # 0 =>
            \E j \in (Len(written) + 1)..Len(written') : written'[j].of = of]_vars

\* read_proc gives the thread back to CoreMIDI, whatever the device does.
ReadProcReturns == inList > 0 ~> inList = 0
=============================================================================
