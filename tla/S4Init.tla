-------------------------------- MODULE S4Init --------------------------------
(***************************************************************************)
(* s4_mk1_init (src/s4_init.cpp): the handshake and the LED dump, sent     *)
(* with asynchronous libusb transfers whose callbacks run in the event     *)
(* loops of cmd, led_async and stop_drain84.                               *)
(*                                                                         *)
(* A transfer is "flying" from a successful submit until its callback has  *)
(* run; freeing it before that leaves it "dangling": libusb and the        *)
(* callback still hold it, its buffer and its XferState, which are on the  *)
(* stack of cmd and led_async.  What the packets hold is abstracted, and   *)
(* allocation failure is a kind of failed submit.  The length transferred  *)
(* is left out: the code records it and never looks at it.                 *)
(***************************************************************************)
EXTENDS Naturals, Sequences

CONSTANT Script   \* the operations of s4_mk1_init in order

Ops == {"cmd", "led", "start", "stop"}

\* The drain is started once at most.
ASSUME ScriptAssumption ==
  /\ Script \in Seq(Ops)
  /\ \A i, j \in 1..Len(Script) : Script[i] = "start" /\ Script[j] = "start" => i = j

\* Nine commands, the wake packet, eight commands, the dump under the drain.
S4Script ==
  [i \in 1..9 |-> "cmd"] \o <<"led">> \o [i \in 1..8 |-> "cmd"]
    \o <<"start">> \o [i \in 1..22 |-> "led"] \o <<"stop">>

Stack == {"in", "out", "led"}   \* transfers with an XferState
Slots == Stack \cup {"drain"}

Statuses == {"COMPLETED", "TIMED_OUT", "STALL", "ERROR", "NO_DEVICE", "CANCELLED"}

VARIABLES
  pc,         \* where s4_mk1_init is
  step,       \* index of the current operation
  urb,        \* each transfer: "idle", "flying" or "dangling"
  cancelled,  \* transfers whose cancellation was requested
  status,     \* XferState::status, "pending" until done
  drainT,     \* s_drain.t is not null
  active,     \* s_drain.active
  ports,      \* the MIDI ports exist: feedback may be written on another thread
  acked       \* history: operations whose data the controller took

drain == <<drainT, active>>
vars == <<pc, step, urb, cancelled, status, drainT, active, ports, acked>>

Waiting == {"cmdWait", "ledWait", "ledCancel", "stopWait"}
Ended == {"returned", "thrown"}

TypeOK ==
  /\ pc \in {"op", "submitOut"} \cup Waiting \cup Ended
  /\ step \in 1..(Len(Script) + 1)
  /\ urb \in [Slots -> {"idle", "flying", "dangling"}]
  /\ cancelled \subseteq Slots
  /\ status \in [Stack -> Statuses \cup {"pending"}]
  /\ drainT \in BOOLEAN /\ active \in BOOLEAN /\ ports \in BOOLEAN
  /\ acked \subseteq 1..Len(Script)

Init ==
  /\ pc = "op"
  /\ step = 1
  /\ urb = [s \in Slots |-> "idle"]
  /\ cancelled = {}
  /\ status = [s \in Stack |-> "pending"]
  /\ drainT = FALSE /\ active = FALSE
  /\ ports = FALSE
  /\ acked = {}

At(op) == pc = "op" /\ step <= Len(Script) /\ Script[step] = op
Done(s) == status[s] # "pending"

Throw == pc' = "thrown" /\ UNCHANGED step
NextOp == pc' = "op" /\ step' = step + 1

Submit(s) ==
  /\ urb' = [urb EXCEPT ![s] = "flying"]
  /\ cancelled' = cancelled \ {s}
  /\ status' = IF s \in Stack THEN [status EXCEPT ![s] = "pending"] ELSE status

\* libusb_free_transfer
Free(S) ==
  urb' = [s \in Slots |-> IF s \in S /\ urb[s] = "flying" THEN "dangling" ELSE urb[s]]

-----------------------------------------------------------------------------
(* cmd() *)

\* (mutant) the write is submitted before the read
SubmitOutFirst ==
  /\ At("cmd")
  /\ Submit("out") /\ pc' = "submitOut"
  /\ UNCHANGED <<step, drain, ports, acked>>

SubmitIn ==
  /\ At("cmd")
  /\ \/ Submit("in") /\ pc' = "submitOut" /\ UNCHANGED step
     \/ Throw /\ UNCHANGED <<urb, cancelled, status>>
  /\ UNCHANGED <<drain, ports, acked>>

\* When the second submit fails, the first transfer is cancelled and freed.
SubmitOut ==
  /\ pc = "submitOut"
  /\ \/ Submit("out") /\ pc' = "cmdWait" /\ UNCHANGED step
     \/ Throw /\ cancelled' = cancelled \cup {"in"} /\ Free({"in"}) /\ UNCHANGED status
  /\ UNCHANGED <<drain, ports, acked>>

\* The status of the response is not looked at.
CmdDone ==
  /\ pc = "cmdWait" /\ Done("in") /\ Done("out")
  /\ IF status["out"] = "COMPLETED" THEN NextOp ELSE Throw
  /\ UNCHANGED <<urb, cancelled, status, drain, ports, acked>>

\* The clock is read after the events, so both may be done by now.
CmdDeadline ==
  /\ pc = "cmdWait"
  /\ cancelled' = cancelled \cup {"in", "out"}
  /\ Free({"in", "out"})
  /\ Throw
  /\ UNCHANGED <<status, drain, ports, acked>>

-----------------------------------------------------------------------------
(* led_async() *)

SubmitLed ==
  /\ At("led")
  /\ \/ Submit("led") /\ pc' = "ledWait" /\ UNCHANGED step
     \/ Throw /\ UNCHANGED <<urb, cancelled, status>>
  /\ UNCHANGED <<drain, ports, acked>>

\* (mutant) any end of the transfer counts
LedDoneUnchecked ==
  /\ pc = "ledWait" /\ Done("led") /\ NextOp
  /\ UNCHANGED <<urb, cancelled, status, drain, ports, acked>>

LedDone ==
  /\ pc = "ledWait" /\ Done("led")
  /\ IF status["led"] = "COMPLETED" THEN NextOp ELSE Throw
  /\ UNCHANGED <<urb, cancelled, status, drain, ports, acked>>

LedDeadline ==
  /\ pc = "ledWait"
  /\ pc' = "ledCancel"
  /\ cancelled' = cancelled \cup {"led"}
  /\ UNCHANGED <<step, urb, status, drain, ports, acked>>

\* (mutant) the cancellation is not waited for
LedFreedAtOnce ==
  /\ pc = "ledCancel"
  /\ Free({"led"})
  /\ Throw
  /\ UNCHANGED <<cancelled, status, drain, ports, acked>>

LedCancelled ==
  /\ pc = "ledCancel" /\ Done("led")
  /\ Free({"led"})
  /\ Throw
  /\ UNCHANGED <<cancelled, status, drain, ports, acked>>

-----------------------------------------------------------------------------
(* start_drain84() and stop_drain84() *)

\* Without a transfer the flag keeps the value of an earlier attempt.
StartDrain ==
  /\ At("start")
  /\ NextOp
  /\ \/ Submit("drain") /\ drainT' = TRUE /\ active' = TRUE
     \/ drainT' = TRUE /\ active' = FALSE /\ UNCHANGED <<urb, cancelled, status>>
     \/ drainT' = FALSE /\ UNCHANGED <<active, urb, cancelled, status>>
  /\ UNCHANGED <<ports, acked>>

FreeDrain == Free({"drain"}) /\ drainT' = FALSE /\ active' = FALSE /\ NextOp

StopDrain ==
  /\ At("stop")
  /\ \/ ~drainT /\ NextOp /\ UNCHANGED <<urb, drain, cancelled>>
     \/ drainT /\ ~active /\ FreeDrain /\ UNCHANGED cancelled
     \/ /\ drainT /\ active /\ pc' = "stopWait" /\ cancelled' = cancelled \cup {"drain"}
        /\ UNCHANGED <<step, urb, drain>>
  /\ UNCHANGED <<status, ports, acked>>

\* The flag went down, or the 500 ms are over.
StopWait ==
  /\ pc = "stopWait"
  /\ FreeDrain
  /\ UNCHANGED <<cancelled, status, ports, acked>>

\* (mutant) the end of the script is not noticed
RunPastEnd ==
  /\ pc = "op" /\ step > Len(Script) /\ NextOp
  /\ UNCHANGED <<urb, cancelled, status, drain, ports, acked>>

Return ==
  /\ pc = "op" /\ step > Len(Script)
  /\ pc' = "returned"
  /\ UNCHANGED <<step, urb, cancelled, status, drain, ports, acked>>

-----------------------------------------------------------------------------
(* The event loops *)

\* xfer_cb
XferCb(s, st) ==
  /\ status' = [status EXCEPT ![s] = st]
  /\ urb' = [urb EXCEPT ![s] = "idle"]
  /\ UNCHANGED <<cancelled, active>>

\* (mutant) the flag is not lowered when the transfer stays down
DrainCbKeepsFlag(st) ==
  /\ UNCHANGED active
  /\ \/ st \notin {"CANCELLED", "NO_DEVICE", "ERROR"} /\ Submit("drain")
     \/ urb' = [urb EXCEPT !["drain"] = "idle"] /\ UNCHANGED <<cancelled, status>>

\* drain84_cb: the transfer is submitted again unless it was refused.
DrainCb(st) ==
  \/ /\ st \notin {"CANCELLED", "NO_DEVICE", "ERROR"}
     /\ Submit("drain")
     /\ UNCHANGED active
  \/ active' = FALSE /\ urb' = [urb EXCEPT !["drain"] = "idle"] /\ UNCHANGED <<cancelled, status>>

\* A transfer ends, by the controller, its own timeout or a cancellation.  A
\* feedback write handles the events of the context too, at any time.
Complete(s, st) ==
  /\ urb[s] = "flying"
  /\ pc \in Waiting \/ ports
  /\ st = "CANCELLED" => s \in cancelled
  /\ IF s = "drain" THEN DrainCb(st) ELSE XferCb(s, st)
  /\ acked' = IF s \in {"out", "led"} /\ st = "COMPLETED" THEN acked \cup {step} ELSE acked
  /\ UNCHANGED <<pc, step, drainT, ports>>

\* (mutant) the next attempt goes on where the last one failed
RestartResumes ==
  /\ pc \in Ended
  /\ pc' = "op"
  /\ step' = IF pc = "thrown" THEN step ELSE 1
  /\ ports' = (ports \/ pc = "returned")
  /\ urb' = [s \in Slots |-> "idle"]
  /\ cancelled' = {}
  /\ acked' = {}
  /\ UNCHANGED <<status, drain>>

\* connect() runs it again on a new handle, after a failure or a loss: the old
\* handle is closed with its transfers, s_drain is a static and stays.  The MIDI
\* ports are created after the first success.
Restart ==
  /\ pc \in Ended
  /\ pc' = "op"
  /\ step' = 1
  /\ ports' = (ports \/ pc = "returned")
  /\ urb' = [s \in Slots |-> "idle"]
  /\ cancelled' = {}
  /\ acked' = {}
  /\ UNCHANGED <<status, drain>>

Run ==
  \/ SubmitIn \/ SubmitOut \/ CmdDone \/ CmdDeadline
  \/ SubmitLed \/ LedDone \/ LedDeadline \/ LedCancelled
  \/ StartDrain \/ StopDrain \/ StopWait \/ Return

Next == Run \/ Restart \/ \E s \in Slots, st \in Statuses : Complete(s, st)

\* The clock goes on, and libusb ends every transfer it was given: all have a
\* timeout of 2 s or less.
Spec ==
  /\ Init /\ [][Next]_vars
  /\ WF_vars(Run)
  /\ \A s \in Stack : WF_vars(\E st \in Statuses : Complete(s, st))

-----------------------------------------------------------------------------
(* Properties *)

\* led_async leaves with its transfer out of libusb's hands, so that neither
\* its buffer nor led_state is written to after their frame is gone.
LedNeverDangling == pc \notin {"ledWait", "ledCancel"} => urb["led"] = "idle"

\* s4_mk1_init only goes on from an operation the controller took, and when it
\* returns the controller took every command and packet.
SuccessMeansAcked ==
  /\ \A i \in 1..(step - 1) : Script[i] \in {"cmd", "led"} => i \in acked
  /\ pc = "returned" => step = Len(Script) + 1

DrainStarted == \E i \in 1..(step - 1) : Script[i] = "start"

\* The flag stop_drain84 goes by tells whether the drain is flying, also after
\* attempts that left s_drain behind.
DrainKnown == DrainStarted /\ drainT => (active <=> urb["drain"] = "flying")

\* s4_init.cpp:35: a read is pending on 0x81 whenever a command is written.  Once
\* there are ports, another thread may already have taken its answer.
InPendingFirst ==
  [][urb["out"] # "flying" /\ urb'["out"] = "flying" =>
       urb["in"] = "flying" \/ (ports /\ Done("in"))]_vars

-----------------------------------------------------------------------------
(* What s4_mk1_init promises: Handshake *)

Wanted == {i \in 1..Len(Script) : Script[i] \in {"cmd", "led"}}
Begun == IF pc \in {"op", "returned"} THEN step - 1 ELSE step
Outcome == CASE pc = "returned" -> "ready" [] pc = "thrown" -> "failed" [] OTHER -> "running"

Abstract == INSTANCE Handshake WITH
  Operations <- Len(Script), Needed <- Wanted, begun <- Begun, taken <- acked, outcome <- Outcome

\* However its transfers end, an attempt makes every operation at most once and in order,
\* none before its predecessor was taken, and it ends.
ImplementsHandshake == Abstract!Spec

-----------------------------------------------------------------------------
(* What the comments say and the code does not do *)

\* s4_init.cpp:39 "Drive the libusb event loop until both complete"
CmdWaitsForBoth == urb["in"] # "dangling" /\ urb["out"] # "dangling"

\* s4_init.cpp:300 "Drain ep 0x84 during LED dump": an attempt that is over has
\* no drain in libusb's hands, whether it failed or succeeded.
DrainEndsWithDump == pc \in Ended => urb["drain"] = "idle"
=============================================================================
