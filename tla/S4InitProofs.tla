----------------------------- MODULE S4InitProofs -----------------------------
(***************************************************************************)
(* The initialisation for any script of commands, LED packets and one      *)
(* drain: what its success means, and that the LED transfer is never left  *)
(* to libusb.                                                              *)
(***************************************************************************)
EXTENDS S4Init, TLAPS

Current(op) == step <= Len(Script) /\ Script[step] = op

\* A transfer of the running operation is done exactly when libusb is.
StackInv ==
  /\ pc \in {"submitOut", "cmdWait"} => Current("cmd")
  /\ pc \in {"ledWait", "ledCancel"} => Current("led")
  /\ pc = "submitOut" => urb["in"] = (IF Done("in") THEN "idle" ELSE "flying")
  /\ pc = "submitOut" /\ ~ports => ~Done("in")
  /\ pc = "cmdWait" => urb["out"] = (IF Done("out") THEN "idle" ELSE "flying")
  /\ pc \notin {"cmdWait", "thrown"} => urb["out"] = "idle"
  /\ pc = "thrown" => urb["out"] # "flying"
  /\ urb["led"] =
       (IF pc \in {"ledWait", "ledCancel"} /\ ~Done("led") THEN "flying" ELSE "idle")

\* The operations behind the current one were acknowledged.
AckInv ==
  /\ SuccessMeansAcked
  /\ pc = "cmdWait" /\ status["out"] = "COMPLETED" => step \in acked
  /\ pc = "ledWait" /\ status["led"] = "COMPLETED" => step \in acked

DrainInv ==
  /\ ~DrainStarted => urb["drain"] = "idle"
  /\ pc = "stopWait" => Current("stop")
  /\ DrainKnown

IInv == TypeOK /\ StackInv /\ AckInv /\ DrainInv

-----------------------------------------------------------------------------
LEMMA ScriptFacts ==
  /\ Len(Script) \in Nat
  /\ \A i \in 1..Len(Script) : Script[i] \in Ops
  BY ScriptAssumption

\* The transfers keep their type when one is submitted, or some are freed.
TransfersTyped ==
  /\ urb \in [Slots -> {"idle", "flying", "dangling"}]
  /\ cancelled \subseteq Slots
  /\ status \in [Stack -> Statuses \cup {"pending"}]

LEMMA SubmitTyped ==
  ASSUME TransfersTyped, NEW s \in Slots, Submit(s)
  PROVE  TransfersTyped'
  BY DEF TransfersTyped, Submit, Slots, Stack

LEMMA FreeTyped ==
  ASSUME TransfersTyped, NEW S, Free(S)
  PROVE  urb' \in [Slots -> {"idle", "flying", "dangling"}]
  BY DEF TransfersTyped, Free

\* Before any operation nothing is flying and nothing was promised.
LEMMA InitInv == Init => IInv
  <1> SUFFICES ASSUME Init PROVE IInv
    OBVIOUS
  <1>1. TypeOK
    <2>1. drainT \in BOOLEAN /\ active \in BOOLEAN /\ ports \in BOOLEAN
      BY Zenon DEF Init
    <2> QED
      BY <2>1, ScriptFacts DEF Init, TypeOK, Slots, Stack
  <1>2. StackInv /\ AckInv
    BY ScriptFacts DEF Init, StackInv, AckInv, SuccessMeansAcked, Slots, Stack, Done, Current
  <1>3. DrainInv
    BY ScriptFacts DEF Init, DrainInv, DrainKnown, DrainStarted, Slots, Stack
  <1> QED
    BY <1>1, <1>2, <1>3 DEF IInv

\* Every operation, every callback and a restart preserve the invariant.
LEMMA NextInv == IInv /\ [Next]_vars => IInv'
  <1> SUFFICES ASSUME IInv, [Next]_vars PROVE IInv'
    OBVIOUS
  <1> USE ScriptFacts, ScriptAssumption
      DEF IInv, TypeOK, StackInv, AckInv, SuccessMeansAcked, DrainInv, DrainKnown, DrainStarted, Slots, Stack,
          Waiting, Ended, Current, Done, Ops, Statuses, drain
  <1>1. CASE SubmitIn
    <2>1. TypeOK'
      <3>1. TransfersTyped'
        BY <1>1, SubmitTyped DEF SubmitIn, TransfersTyped
      <3> QED
        BY <1>1, <3>1 DEF SubmitIn, At, Throw, TransfersTyped
    <2>2. StackInv'
      BY <1>1 DEF SubmitIn, At, Submit, Throw
    <2>3. AckInv'
      BY <1>1 DEF SubmitIn, At, Submit, Throw
    <2>4. DrainInv'
      BY <1>1 DEF SubmitIn, At, Submit, Throw
    <2> QED
      BY <2>1, <2>2, <2>3, <2>4
  <1>2. CASE SubmitOut
    <2>1. TypeOK'
      <3>1. TransfersTyped'
        BY <1>2, SubmitTyped, FreeTyped DEF SubmitOut, TransfersTyped
      <3> QED
        BY <1>2, <3>1 DEF SubmitOut, Throw, TransfersTyped
    <2>2. StackInv'
      BY <1>2 DEF SubmitOut, Submit, Throw, Free
    <2>3. AckInv'
      BY <1>2 DEF SubmitOut, Submit, Throw, Free
    <2>4. DrainInv'
      BY <1>2 DEF SubmitOut, Submit, Throw, Free
    <2> QED
      BY <2>1, <2>2, <2>3, <2>4
  <1>3. CASE CmdDone
    <2>1. TypeOK'
      BY <1>3 DEF CmdDone, NextOp, Throw
    <2>2. StackInv'
      BY <1>3 DEF CmdDone, NextOp, Throw
    <2>3. AckInv'
      BY <1>3 DEF CmdDone, NextOp, Throw
    <2>4. DrainInv'
      BY <1>3 DEF CmdDone, NextOp, Throw
    <2> QED
      BY <2>1, <2>2, <2>3, <2>4
  <1>4. CASE CmdDeadline
    <2>1. TypeOK'
      BY <1>4 DEF CmdDeadline, Free, Throw
    <2>2. StackInv'
      BY <1>4 DEF CmdDeadline, Free, Throw
    <2>3. AckInv'
      BY <1>4 DEF CmdDeadline, Free, Throw
    <2>4. DrainInv'
      BY <1>4 DEF CmdDeadline, Free, Throw
    <2> QED
      BY <2>1, <2>2, <2>3, <2>4
  <1>5. CASE SubmitLed
    <2>1. TypeOK'
      <3>1. TransfersTyped'
        BY <1>5, SubmitTyped DEF SubmitLed, TransfersTyped
      <3> QED
        BY <1>5, <3>1 DEF SubmitLed, At, Throw, TransfersTyped
    <2>2. StackInv'
      BY <1>5 DEF SubmitLed, At, Submit, Throw
    <2>3. AckInv'
      BY <1>5 DEF SubmitLed, At, Submit, Throw
    <2>4. DrainInv'
      BY <1>5 DEF SubmitLed, At, Submit, Throw
    <2> QED
      BY <2>1, <2>2, <2>3, <2>4
  <1>6. CASE LedDone
    <2>1. TypeOK'
      BY <1>6 DEF LedDone, NextOp, Throw
    <2>2. StackInv'
      BY <1>6 DEF LedDone, NextOp, Throw
    <2>3. AckInv'
      BY <1>6 DEF LedDone, NextOp, Throw
    <2>4. DrainInv'
      BY <1>6 DEF LedDone, NextOp, Throw
    <2> QED
      BY <2>1, <2>2, <2>3, <2>4
  <1>7. CASE LedDeadline
    <2>1. TypeOK'
      BY <1>7 DEF LedDeadline
    <2>2. StackInv'
      BY <1>7 DEF LedDeadline
    <2>3. AckInv'
      BY <1>7 DEF LedDeadline
    <2>4. DrainInv'
      BY <1>7 DEF LedDeadline
    <2> QED
      BY <2>1, <2>2, <2>3, <2>4
  <1>8. CASE LedCancelled
    <2>1. TypeOK'
      BY <1>8 DEF LedCancelled, Free, Throw
    <2>2. StackInv'
      BY <1>8 DEF LedCancelled, Free, Throw
    <2>3. AckInv'
      BY <1>8 DEF LedCancelled, Free, Throw
    <2>4. DrainInv'
      BY <1>8 DEF LedCancelled, Free, Throw
    <2> QED
      BY <2>1, <2>2, <2>3, <2>4
  <1>9. CASE StartDrain
    <2>1. TypeOK'
      <3>1. TransfersTyped'
        BY <1>9, SubmitTyped DEF StartDrain, TransfersTyped
      <3>2. drainT' \in BOOLEAN /\ active' \in BOOLEAN
        BY <1>9, Zenon DEF StartDrain
      <3> QED
        BY <1>9, <3>1, <3>2 DEF StartDrain, At, NextOp, TransfersTyped
    <2>2. StackInv'
      BY <1>9 DEF StartDrain, At, Submit, NextOp
    <2>3. AckInv'
      BY <1>9 DEF StartDrain, At, Submit, NextOp
    <2>4. DrainInv'
      BY <1>9 DEF StartDrain, At, Submit, NextOp
    <2> QED
      BY <2>1, <2>2, <2>3, <2>4
  <1>10. CASE StopDrain
    <2>1. TypeOK'
      <3>1. TransfersTyped'
        BY <1>10, FreeTyped DEF StopDrain, FreeDrain, TransfersTyped
      <3>2. drainT' \in BOOLEAN /\ active' \in BOOLEAN
        BY <1>10, Zenon DEF StopDrain, FreeDrain
      <3> QED
        BY <1>10, <3>1, <3>2 DEF StopDrain, At, FreeDrain, NextOp, TransfersTyped
    <2>2. StackInv'
      BY <1>10 DEF StopDrain, At, NextOp, FreeDrain, Free
    <2>3. AckInv'
      BY <1>10 DEF StopDrain, At, NextOp, FreeDrain, Free
    <2>4. DrainInv'
      BY <1>10 DEF StopDrain, At, NextOp, FreeDrain, Free
    <2> QED
      BY <2>1, <2>2, <2>3, <2>4
  <1>11. CASE StopWait
    <2>1. TypeOK'
      <3>1. TransfersTyped'
        BY <1>11, FreeTyped DEF StopWait, FreeDrain, TransfersTyped
      <3>2. drainT' \in BOOLEAN /\ active' \in BOOLEAN
        BY <1>11, Zenon DEF StopWait, FreeDrain
      <3> QED
        BY <1>11, <3>1, <3>2 DEF StopWait, FreeDrain, NextOp, TransfersTyped
    <2>2. StackInv'
      BY <1>11 DEF StopWait, NextOp, FreeDrain, Free
    <2>3. AckInv'
      BY <1>11 DEF StopWait, NextOp, FreeDrain, Free
    <2>4. DrainInv'
      BY <1>11 DEF StopWait, NextOp, FreeDrain, Free
    <2> QED
      BY <2>1, <2>2, <2>3, <2>4
  <1>12. CASE Return
    <2>1. TypeOK'
      BY <1>12 DEF Return
    <2>2. StackInv'
      BY <1>12 DEF Return
    <2>3. AckInv'
      BY <1>12 DEF Return
    <2>4. DrainInv'
      BY <1>12 DEF Return
    <2> QED
      BY <2>1, <2>2, <2>3, <2>4
  <1>13. CASE Restart
    <2>1. TypeOK'
      BY <1>13 DEF Restart
    <2>2. StackInv'
      BY <1>13 DEF Restart
    <2>3. AckInv'
      BY <1>13 DEF Restart
    <2>4. DrainInv'
      BY <1>13 DEF Restart
    <2> QED
      BY <2>1, <2>2, <2>3, <2>4
  <1>14. ASSUME NEW s \in Slots, NEW st \in Statuses, Complete(s, st)
        PROVE  IInv'
    <2>1. TypeOK'
      <3>1. TransfersTyped'
        <4>1. CASE s = "drain" /\ Submit("drain")
          BY <1>14, <4>1, SubmitTyped DEF TransfersTyped
        <4>2. CASE s = "drain" /\ ~Submit("drain")
          BY <1>14, <4>2 DEF Complete, DrainCb, TransfersTyped
        <4>3. CASE s # "drain"
          <5>1. s \in Stack /\ XferCb(s, st)
            BY <1>14, <4>3 DEF Complete
          <5>2. status' \in [Stack -> Statuses \cup {"pending"}]
            BY <5>1, Zenon DEF XferCb
          <5>3. urb' \in [Slots -> {"idle", "flying", "dangling"}] /\ cancelled' \subseteq Slots
            BY <5>1 DEF XferCb
          <5> QED
            BY <5>2, <5>3 DEF TransfersTyped
        <4> QED
          BY <4>1, <4>2, <4>3
      <3>2. drainT' \in BOOLEAN /\ active' \in BOOLEAN /\ ports' \in BOOLEAN
        BY <1>14, Zenon DEF Complete, XferCb, DrainCb
      <3>3. pc' = pc /\ step' = step /\ acked' \subseteq 1..Len(Script)
        BY <1>14 DEF Complete
      <3> QED
        BY <3>1, <3>2, <3>3 DEF TransfersTyped
    <2>2. StackInv'
      BY <1>14 DEF Complete, XferCb, DrainCb, Submit
    <2>3. AckInv'
      BY <1>14 DEF Complete, XferCb, DrainCb, Submit
    <2>4. DrainInv'
      BY <1>14 DEF Complete, XferCb, DrainCb, Submit
    <2> QED
      BY <2>1, <2>2, <2>3, <2>4
  <1>15. CASE UNCHANGED vars
    BY <1>15 DEF vars
  <1> QED
    BY <1>1, <1>2, <1>3, <1>4, <1>5, <1>6, <1>7, <1>8, <1>9, <1>10, <1>11, <1>12, <1>13, <1>14, <1>15
       DEF Next, Run

\* The invariant holds in every reachable state.
THEOREM Inductive == Spec => []IInv
  BY InitInv, NextInv, PTL DEF Spec

-----------------------------------------------------------------------------
(* What it means *)

\* Every variable of the initialisation keeps its type.
THEOREM TypeCorrect == Spec => []TypeOK
  <1>1. IInv => TypeOK
    BY DEF IInv
  <1> QED
    BY <1>1, Inductive, PTL

\* led_async never gives up its buffer and state while libusb holds them.
THEOREM LedSafe == Spec => []LedNeverDangling
  <1>1. IInv => LedNeverDangling
    BY DEF IInv, StackInv, LedNeverDangling
  <1> QED
    BY <1>1, Inductive, PTL

\* Success of s4_mk1_init means that no operation was lost, for any script.
THEOREM SuccessIsComplete == Spec => []SuccessMeansAcked
  <1>1. IInv => SuccessMeansAcked
    BY DEF IInv, AckInv
  <1> QED
    BY <1>1, Inductive, PTL

\* The flag of s_drain is right whenever stop_drain84 goes by it.
THEOREM DrainFlagRight == Spec => []DrainKnown
  <1>1. IInv => DrainKnown
    BY DEF IInv, DrainInv
  <1> QED
    BY <1>1, Inductive, PTL

\* Every command is written with its read pending, or already answered when
\* another thread handles events too.
THEOREM ReadBeforeWrite == Spec => InPendingFirst
  <1>1. ASSUME IInv, [Next]_vars, urb["out"] # "flying", urb'["out"] = "flying"
        PROVE  urb["in"] = "flying" \/ (ports /\ Done("in"))
    <2> USE <1>1 DEF IInv, TypeOK, Slots, Stack
    <2>1. CASE SubmitOut
      BY <2>1 DEF SubmitOut, StackInv
    <2>2. ASSUME Run, ~SubmitOut PROVE FALSE
      BY <2>2 DEF Run, SubmitIn, SubmitLed, Submit, CmdDone, CmdDeadline, LedDone, LedDeadline,
            LedCancelled, StartDrain, StopDrain, StopWait, FreeDrain, Free, Return
    <2>3. CASE Restart
      BY <2>3 DEF Restart
    <2>4. ASSUME NEW s \in Slots, NEW st \in Statuses, Complete(s, st) PROVE FALSE
      BY <2>4 DEF Complete, XferCb, DrainCb, Submit
    <2>5. CASE UNCHANGED vars
      BY <2>5 DEF vars
    <2> QED
      BY <2>1, <2>2, <2>3, <2>4, <2>5 DEF Next
  <1>2. IInv /\ [Next]_vars =>
          [urb["out"] # "flying" /\ urb'["out"] = "flying" =>
             urb["in"] = "flying" \/ (ports /\ Done("in"))]_vars
    BY <1>1
  <1> QED
    BY <1>2, Inductive, PTL DEF Spec, InPendingFirst

-----------------------------------------------------------------------------
(* The refinement *)

Running == pc \notin Ended

LEMMA OutcomeIs ==
  ASSUME TypeOK
  PROVE  /\ Outcome = "running" <=> Running
         /\ Outcome = "ready" <=> pc = "returned"
         /\ Outcome = "failed" <=> pc = "thrown"
  BY DEF Outcome, Running, Ended

\* The operations before one that begins were taken.
LEMMA Follows ==
  ASSUME IInv, pc = "op", step <= Len(Script), Begun' = step
  PROVE  Abstract!Following
  <1>1. step \in Nat \ {0} /\ Begun = step - 1
    BY ScriptFacts DEF IInv, TypeOK, Begun
  <1>2. (1..Begun) \cap Wanted \subseteq acked
    BY <1>1 DEF IInv, AckInv, SuccessMeansAcked, Wanted
  <1>3. Begun < Len(Script) /\ Begun' = Begun + 1
    BY <1>1, ScriptFacts
  <1> QED
    BY <1>2, <1>3 DEF Abstract!Following

\* An operation begins, and may end at once.
LEMMA BeginRefines ==
  ASSUME IInv, TypeOK', pc = "op", step <= Len(Script), Begun' = step, acked' = acked,
         pc' # "returned"
  PROVE  Abstract!Next
  <1>1. Abstract!Following
    BY Follows
  <1>2. Outcome = "running" /\ Outcome' \in {"running", "failed"}
    BY OutcomeIs DEF IInv, Outcome
  <1> QED
    BY <1>1, <1>2, Zenon DEF Abstract!Begin, Abstract!Fail, Abstract!Next

\* A step within an operation, and one that ends the attempt.
LEMMA WithinRefines ==
  ASSUME Begun' = Begun, acked' = acked, Outcome' = Outcome
  PROVE  UNCHANGED Abstract!vars
  BY DEF Abstract!vars

LEMMA FailRefines ==
  ASSUME Begun' = Begun, acked' = acked, Outcome = "running", Outcome' = "failed"
  PROVE  Abstract!Next
  BY DEF Abstract!Fail, Abstract!Next

\* Every step of an attempt is one of Handshake on the mapped state, or none.
LEMMA StepRefines == IInv /\ [Next]_vars => [Abstract!Next]_(Abstract!vars)
  <1> SUFFICES ASSUME IInv, [Next]_vars PROVE [Abstract!Next]_(Abstract!vars)
    OBVIOUS
  <1>0. IInv' /\ TypeOK' /\ TypeOK /\ step \in Nat
    BY NextInv, ScriptFacts DEF IInv, TypeOK
  <1>1. CASE SubmitIn \/ SubmitLed
    <2>1. /\ pc = "op" /\ step <= Len(Script) /\ acked' = acked /\ step' = step
          /\ pc' \in {"submitOut", "ledWait", "thrown"}
      BY <1>1 DEF SubmitIn, SubmitLed, At, Throw
    <2>2. Begun' = step
      BY <2>1 DEF Begun
    <2> QED
      BY <1>0, <2>1, <2>2, BeginRefines
  <1>2. CASE SubmitOut \/ CmdDeadline \/ LedCancelled \/ LedDeadline
    <2>1. /\ pc \in {"submitOut", "cmdWait", "ledWait", "ledCancel"}
          /\ acked' = acked /\ step' = step
          /\ pc' \in {"cmdWait", "ledCancel", "thrown"}
      BY <1>2 DEF SubmitOut, CmdDeadline, LedCancelled, LedDeadline, Throw
    <2>2. Begun' = Begun /\ Outcome = "running" /\ Outcome' \in {"running", "failed"}
      BY <2>1 DEF Begun, Outcome
    <2> QED
      BY <2>1, <2>2, WithinRefines, FailRefines
  <1>3. CASE CmdDone \/ LedDone
    <2>1. pc \in {"cmdWait", "ledWait"} /\ acked' = acked /\ (NextOp \/ Throw)
      BY <1>3 DEF CmdDone, LedDone
    <2>2. Begun' = Begun /\ Outcome = "running" /\ Outcome' \in {"running", "failed"}
      BY <1>0, <2>1 DEF Begun, Outcome, NextOp, Throw
    <2> QED
      BY <2>1, <2>2, WithinRefines, FailRefines
  <1>4. CASE StartDrain \/ StopDrain
    <2>1. /\ pc = "op" /\ step <= Len(Script) /\ acked' = acked
          /\ NextOp \/ (pc' = "stopWait" /\ step' = step)
      BY <1>4 DEF StartDrain, StopDrain, FreeDrain, At
    <2>2. Begun' = step /\ pc' # "returned"
      BY <1>0, <2>1 DEF Begun, NextOp
    <2> QED
      BY <1>0, <2>1, <2>2, BeginRefines
  <1>5. CASE StopWait
    <2>1. pc = "stopWait" /\ acked' = acked /\ NextOp
      BY <1>5 DEF StopWait, FreeDrain
    <2>2. Begun' = Begun /\ Outcome' = Outcome
      BY <1>0, <2>1 DEF Begun, Outcome, NextOp
    <2> QED
      BY <2>1, <2>2, WithinRefines
  <1>6. CASE Return
    <2>1. pc = "op" /\ step = Len(Script) + 1 /\ pc' = "returned" /\ step' = step /\ acked' = acked
      BY <1>0, <1>6, ScriptFacts DEF Return, TypeOK
    <2>2. Begun = Len(Script) /\ Begun' = Begun /\ Outcome = "running" /\ Outcome' = "ready"
      BY <2>1, ScriptFacts DEF Begun, Outcome
    <2>3. Wanted \subseteq acked
      BY <2>1, ScriptFacts DEF IInv, AckInv, SuccessMeansAcked, Wanted
    <2> QED
      BY <2>1, <2>2, <2>3, Zenon DEF Abstract!Succeed, Abstract!Next
  <1>7. CASE Restart
    <2>1. pc \in Ended /\ pc' = "op" /\ step' = 1 /\ acked' = {}
      BY <1>7 DEF Restart
    <2>2. Outcome # "running" /\ Outcome' = "running" /\ Begun' = 0
      BY <1>0, <2>1, OutcomeIs DEF Begun, Outcome, Running
    <2> QED
      BY <2>1, <2>2 DEF Abstract!Again, Abstract!Next
  <1>8. ASSUME NEW s \in Slots, NEW st \in Statuses, Complete(s, st)
        PROVE  [Abstract!Next]_(Abstract!vars)
    <2>1. /\ pc' = pc /\ step' = step /\ urb[s] = "flying"
          /\ acked' = acked \/ (s \in {"out", "led"} /\ acked' = acked \cup {step})
      BY <1>8 DEF Complete
    <2>2. Begun' = Begun /\ Outcome' = Outcome
      BY <2>1 DEF Begun, Outcome
    <2>3. CASE acked' = acked
      BY <2>2, <2>3, WithinRefines
    <2>4. CASE s \in {"out", "led"} /\ acked' = acked \cup {step} /\ acked' # acked
      <3>1. pc \in {"cmdWait", "ledWait", "ledCancel"}
        BY <1>0, <2>1, <2>4 DEF IInv, StackInv, TypeOK, Waiting, Ended
      <3>2. step \in Wanted /\ step \notin acked
        BY <1>0, <2>4, <3>1, ScriptFacts DEF IInv, StackInv, Current, Wanted, TypeOK
      <3>3. Begun = step /\ Outcome = "running"
        BY <3>1 DEF Begun, Outcome
      <3> QED
        BY <2>2, <2>4, <3>2, <3>3 DEF Abstract!Take, Abstract!Next
    <2> QED
      BY <2>1, <2>3, <2>4
  <1>9. CASE UNCHANGED vars
    BY <1>9, WithinRefines DEF vars, Begun, Outcome
  <1> QED
    BY <1>1, <1>2, <1>3, <1>4, <1>5, <1>6, <1>7, <1>8, <1>9 DEF Next, Run

\* On any script the transfers and their callbacks implement the handshake: operations
\* in order and once, each after its predecessors were taken, success only after all of
\* them, and every attempt from the start.  That it ends is left to TLC.
THEOREM RefinesHandshake == Spec => Abstract!Safety
  <1>1. ASSUME Init PROVE Abstract!Init
    <2>1. Begun = 0 /\ acked = {} /\ Outcome = "running"
      BY <1>1 DEF Init, Begun, Outcome
    <2> QED
      BY <2>1 DEF Abstract!Init
  <1> QED
    BY <1>1, StepRefines, Inductive, PTL DEF Spec, Abstract!Safety
=============================================================================
