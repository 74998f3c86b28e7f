---------------------------- MODULE PayloadChannel ----------------------------
(***************************************************************************)
(* What the feedback path promises: of the payloads the DAW sends, in the  *)
(* order in which it sends them, each reaches the controller whole, cut    *)
(* short by a failed transfer, or not at all, and at most once.            *)
(***************************************************************************)
EXTENDS Integers, Sequences

CONSTANTS Payloads

VARIABLES
  log,  \* the payloads sent
  got   \* what arrived: which payload, and the bytes of it

Init == log = <<>> /\ got = <<>>

Send(p) ==
  /\ log' = Append(log, p)
  /\ UNCHANGED got

\* The payloads skipped are lost.
Arrive(n, length) ==
  /\ \A k \in DOMAIN got : got[k].of < n
  /\ got' = Append(got, [of |-> n, bytes |-> SubSeq(log[n], 1, length)])
  /\ UNCHANGED log

Next ==
  \/ \E p \in Payloads : Send(p)
  \/ \E n \in DOMAIN log : \E length \in 0..Len(log[n]) : Arrive(n, length)

Spec == Init /\ [][Next]_<<log, got>>
=============================================================================
