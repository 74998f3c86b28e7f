------------------------------- MODULE Hotswap -------------------------------
(***************************************************************************)
(* What bridge mode promises about the controller coming and going,        *)
(* without threads, handles or libusb: README.md "opens the USB device,    *)
(* calls s4_mk1_init() [...], and then creates two virtual CoreMIDI ports" *)
(* and "the bridge detects it [...] and retries [...] until the device     *)
(* comes back".  Bridge is shown to implement it.                          *)
(*                                                                         *)
(* The ports appear once, when the first session is up, survive every loss *)
(* of the controller, and go only when the bridge has stopped.  It stops   *)
(* with exit code 0 only when it was told to stop and had its ports.       *)
(***************************************************************************)
VARIABLES
  stop,    \* the bridge was told to stop, by a signal or by itself
  phase,   \* "down": no session, "up": one, "stopped", "crashed"
  ports,   \* the virtual ports exist
  code     \* exit code, once stopped

vars == <<stop, phase, ports, code>>

Init == stop = FALSE /\ phase = "down" /\ ports = FALSE /\ code = 0

AskToStop == stop' = TRUE /\ UNCHANGED <<phase, ports, code>>

\* The device is open and initialised.
Connect == phase = "down" /\ phase' = "up" /\ UNCHANGED <<stop, ports, code>>

PublishPorts == phase = "up" /\ ~ports /\ ports' = TRUE /\ UNCHANGED <<stop, phase, code>>

Lose == phase = "up" /\ ports /\ phase' = "down" /\ UNCHANGED <<stop, ports, code>>

\* A bridge that never had its ports reports failure, whatever stops it.
End == phase' = "stopped" /\ code' = (IF ports THEN 0 ELSE 1) /\ UNCHANGED ports

Stop == stop /\ (phase = "down" \/ (phase = "up" /\ ports)) /\ End /\ UNCHANGED stop

\* Several controllers are attached.
Refuse == phase = "down" /\ stop' = TRUE /\ End

\* An error of a session that no retry covers.
Break == phase = "up" /\ phase' = "stopped" /\ code' = 1 /\ UNCHANGED <<stop, ports>>

Withdraw == phase = "stopped" /\ ports' = FALSE /\ UNCHANGED <<stop, phase, code>>

\* Feedback that is sent while the controller goes away can end the process,
\* also when the ports were withdrawn after it had arrived.
Crash == (ports \/ phase = "stopped") /\ phase' = "crashed" /\ UNCHANGED <<stop, ports, code>>

Next ==
  \/ AskToStop \/ Connect \/ PublishPorts \/ Lose \/ Stop \/ Refuse \/ Break
  \/ Withdraw \/ Crash

Safety == Init /\ [][Next]_vars

\* Told to stop, it does.
Spec == Safety /\ WF_vars(Stop \/ (stop /\ PublishPorts))
=============================================================================
