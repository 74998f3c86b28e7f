------------------------------ MODULE Handshake ------------------------------
(***************************************************************************)
(* What connect() relies on when it calls s4_mk1_init, without transfers,  *)
(* callbacks or the drain: an attempt makes the operations of the script   *)
(* in their order, each once at most, and none before the controller took  *)
(* those that had to be taken; it is ready when all were, it may fail at   *)
(* any moment, and the next one starts over.  S4Init is shown to implement *)
(* it.                                                                     *)
(***************************************************************************)
EXTENDS Naturals

CONSTANTS
  Operations,  \* how many operations there are
  Needed       \* the ones the controller must take

VARIABLES
  begun,   \* operations begun in this attempt
  taken,   \* the ones of them the controller took
  outcome  \* "running", "ready" or "failed"

vars == <<begun, taken, outcome>>

Init == begun = 0 /\ taken = {} /\ outcome = "running"

Following ==
  /\ begun < Operations
  /\ (1..begun) \cap Needed \subseteq taken
  /\ begun' = begun + 1

Begin == outcome = "running" /\ Following /\ UNCHANGED <<taken, outcome>>

\* The operation under way, and no other.
Take ==
  /\ outcome = "running" /\ begun \in Needed \ taken
  /\ taken' = taken \cup {begun}
  /\ UNCHANGED <<begun, outcome>>

Succeed ==
  /\ outcome = "running" /\ begun = Operations /\ Needed \subseteq taken
  /\ outcome' = "ready"
  /\ UNCHANGED <<begun, taken>>

\* On the way, or as the next operation is begun.
Fail ==
  /\ outcome = "running"
  /\ outcome' = "failed"
  /\ Following \/ UNCHANGED begun
  /\ UNCHANGED taken

Again ==
  /\ outcome # "running"
  /\ begun' = 0 /\ taken' = {} /\ outcome' = "running"

Next == Begin \/ Take \/ Succeed \/ Fail \/ Again

Safety == Init /\ [][Next]_vars

\* Every attempt comes to an end.
Spec == Safety /\ WF_vars(Succeed \/ Fail)
=============================================================================
