-------------------------- MODULE S4GenericProtocol --------------------------
(***************************************************************************)
(* The input path: S4GenericProtocol::decode_input over the reports the    *)
(* main loop reads, and the host, which keeps the last value it was sent   *)
(* for each CC (src/s4_generic_protocol.cpp).                              *)
(***************************************************************************)
EXTENDS S4Mapping

VARIABLES
  previous,  \* previous_report_
  host,      \* the value the host holds for each address <<channel, controller>> it was sent
  baseline,  \* history: the first report
  held       \* history: the bytes every report so far has held, counted from the front

vars == <<previous, host, baseline, held>>

TypeOK ==
  /\ previous \in Reports \cup {<<>>}
  /\ baseline \in Reports \cup {<<>>}
  /\ held \in Nat
  /\ DOMAIN host \subseteq Addresses
  /\ \A a \in DOMAIN host : host[a] \in 0..127

Init == previous = <<>> /\ baseline = <<>> /\ host = <<>> /\ held = 0

\* The host keeps the last value of each address.
Received(view, messages) ==
  LET For(a) == {m \in messages : m.address = a}
      Latest(a) == CHOOSE m \in For(a) : \A n \in For(a) : n.at <= m.at
  IN [a \in DOMAIN view \cup {m.address : m \in messages} |->
        IF For(a) # {} THEN Latest(a).value ELSE view[a]]

-----------------------------------------------------------------------------
(* A report is read and decoded, its messages sent in order. *)

FirstReport(report) ==
  /\ previous = <<>>
  /\ baseline' = report /\ held' = Len(report)
  /\ UNCHANGED host

LaterReport(report) ==
  /\ previous # <<>>
  /\ host' = Received(host, Messages(previous, report))
  /\ held' = IF Len(report) < held THEN Len(report) ELSE held
  /\ UNCHANGED baseline

DecodeInput(report) ==
  /\ FirstReport(report) \/ LaterReport(report)
  /\ previous' = report

Next == \E report \in Reports : DecodeInput(report)

Spec == Init /\ [][Next]_vars

-----------------------------------------------------------------------------
(* Properties *)

\* Where a source is meant to be sent: its entry, or else its raw address.
Homes(i, slot) ==
  LET mapped == IF slot = 0 THEN ByteMapping(i) ELSE BitMapping(i, slot - 1)
  IN IF mapped # {} THEN {MappedAddress(e) : e \in mapped}
     ELSE IF slot = 0
       THEN (IF EmitUnmappedByte THEN {RawAddress(i)} ELSE {})
       ELSE (IF EmitUnmappedBit THEN {RawAddress(i * 8 + slot - 1)} ELSE {})

\* After any sequence of reports, the host sees the controller as it is: what a
\* source was sent as is its present value, and a source that was never sent is
\* where it was at the first report.  Short reports spoil no more than the bytes they
\* lacked.  (With no deadzone.)
ViewExact ==
  \A i \in 0..(held - 1), slot \in ModeSlots : \A a \in Homes(i, slot) :
    IF a \in DOMAIN host
    THEN host[a] = Value(previous, i, slot)
    ELSE Value(baseline, i, slot) = Value(previous, i, slot)

\* README.md:19 "For every byte that changed, the protocol produces one or more
\* MIDI CC messages"
EveryChangeReported ==
  [][previous # <<>> =>
       \A i \in Common(previous, previous') : At(previous, i) # At(previous', i) =>
         \E m \in Messages(previous, previous') : m.at \div 9 = i]_vars

-----------------------------------------------------------------------------
(* What the documentation says and the code does not do *)

\* s4_generic_protocol.cpp:122 "used to filter out deadzone noise": what the
\* filter hides is noise, the host is never off by more than the deadzone.
HostWithinDeadzone ==
  \A i \in Common(baseline, previous) :
    LET a == RawAddress(i)
        shown == IF a \in DOMAIN host THEN host[a] ELSE V7(At(baseline, i))
    IN Distance(shown, V7(At(previous, i))) <= InputDeadzone
=============================================================================
