-------------------------------- MODULE Bridge --------------------------------
(***************************************************************************)
(* Bridge mode (run_bridge in src/main.cpp): the main thread, which        *)
(* connects, reads reports and reconnects, and the CoreMIDI thread, which  *)
(* runs the feedback callback.  Both use one UsbDevice with no lock.       *)
(*                                                                         *)
(* mpc is the point the main thread has reached, wpc the point of the      *)
(* callback.  The callback reads handle_ and disconnected_ one access at a *)
(* time; every libusb call of the main thread is one step that returns or  *)
(* throws.  What a report or a message says is abstracted (module          *)
(* S4GenericProtocol): a read yields data or nothing, a feedback message   *)
(* has a USB payload or has none.                                          *)
(***************************************************************************)
EXTENDS UsbDevice

CONSTANTS
  OutputConfigured,  \* --out-ep was given
  TimeoutFinite      \* --timeout-ms is not 0 (libusb waits for ever on 0)

ASSUME OptionsAssumption == OutputConfigured \in BOOLEAN /\ TimeoutFinite \in BOOLEAN

VARIABLES
  running,   \* the global flag the signal handler clears, and one case of Catch
  signalled, \* history: a signal has come
  mpc,       \* main thread
  target,    \* unit found by open(), None if it has been unplugged since
  err,       \* the exception connect() caught last
  packet,    \* the last report read
  ports,     \* the CoreMidiBridge object exists
  inited,    \* handles on which s4_mk1_init has succeeded
  exitCode,  \* value run_bridge makes main return
  wpc,       \* callback thread
  wHandle    \* handle_ as the callback passed it to libusb

mainVars == <<running, signalled, mpc, target, err, packet, ports, inited, exitCode>>
callbackVars == <<wpc, wHandle>>
vars == <<usbVars, mainVars, callbackVars>>

Connecting == {"connect", "close", "closeNull", "closeFlag", "enumerate", "open",
               "openFlag", "claim", "resolve", "init", "catch", "sleep"}
Streaming  == {"loop", "read", "check", "publish"}
Leaving    == {"unwindMidi", "drainMidi", "unwindDevice", "exited"}
InCallback == {"guard", "guardOpen", "encode", "nullCheck", "capture", "enter", "transfer"}

TypeOK ==
  /\ UsbTypeOK
  /\ running \in BOOLEAN
  /\ signalled \in BOOLEAN
  /\ mpc \in Connecting \cup Streaming \cup Leaving \cup {"createPorts", "crashed"}
  /\ target \in Units \cup {None}
  /\ err \in {"none", "multiple", "other"}
  /\ packet \in {"empty", "data"}
  /\ ports \in BOOLEAN
  /\ inited \subseteq opened
  /\ exitCode \in {0, 1}
  /\ wpc \in InCallback \cup {"idle", "crashed"}
  /\ wHandle \in Handles \cup {None}

Init ==
  /\ UsbInit
  /\ running = TRUE
  /\ signalled = FALSE
  /\ mpc = "connect"
  /\ target = None
  /\ err = "none"
  /\ packet = "empty"
  /\ ports = FALSE
  /\ inited = {}
  /\ exitCode = 0
  /\ wpc = "idle"
  /\ wHandle = None

Goto(from, to) == mpc = from /\ mpc' = to

\* An exception inside connect(), on its way to the catch clause.
Throw(kind) == mpc' = "catch" /\ err' = kind

\* (mutant) the device is declared after the ports, and destroyed before them
ReturnDeviceFirst(code) == mpc' = "unwindDevice" /\ exitCode' = code

\* run_bridge returns, or an exception leaves it: its locals are destroyed.
Return(code) == mpc' = "unwindMidi" /\ exitCode' = code

\* connect() returned false: at start-up "return 1", later "break".
ConnectFailed == Return(IF ports THEN 0 ELSE 1)

-----------------------------------------------------------------------------
(* connect() *)

ConnectTest ==
  /\ mpc = "connect"
  /\ \/ running /\ mpc' = "close" /\ UNCHANGED exitCode
     \/ ~running /\ ConnectFailed
  /\ UNCHANGED <<usbVars, running, signalled, target, err, packet, ports, inited, callbackVars>>

Close ==
  /\ \/ handle # None /\ Goto("close", "closeNull") /\ CloseHandle
     \/ handle = None /\ Goto("close", "closeFlag") /\ UNCHANGED usbVars
  /\ inited' = inited \ {handle}
  /\ UNCHANGED <<running, signalled, target, err, packet, ports, exitCode, callbackVars>>

CloseNull ==
  /\ Goto("closeNull", "closeFlag")
  /\ ForgetHandle
  /\ UNCHANGED <<running, signalled, target, err, packet, ports, inited, exitCode, callbackVars>>

CloseFlag ==
  /\ Goto("closeFlag", "enumerate")
  /\ ClearDisconnected
  /\ UNCHANGED <<running, signalled, target, err, packet, ports, inited, exitCode, callbackVars>>

Enumerate ==
  /\ mpc = "enumerate"
  /\ \/ SeveralMatch /\ Throw("multiple") /\ UNCHANGED target
     \/ \E u \in Units :
          OnlyMatch(u) /\ target' = u /\ mpc' = "open" /\ UNCHANGED err
  /\ UNCHANGED <<usbVars, running, signalled, packet, ports, inited, exitCode, callbackVars>>

\* The new handle is not one the callback still holds (see module UsbDevice).
Open ==
  /\ Goto("open", "openFlag")
  /\ \E h \in Handles \ {wHandle} : OpenHandle(target, h)
  /\ UNCHANGED <<running, signalled, target, err, packet, ports, inited, exitCode, callbackVars>>

OpenFlag ==
  /\ Goto("openFlag", "claim")
  /\ ClearDisconnected
  /\ UNCHANGED <<running, signalled, target, err, packet, ports, inited, exitCode, callbackVars>>

Claim ==
  /\ Goto("claim", "resolve")
  /\ ClaimInterface
  /\ UNCHANGED <<running, signalled, target, err, packet, ports, inited, exitCode, callbackVars>>

Resolve ==
  /\ Goto("resolve", "init")
  /\ EndpointsResolved
  /\ UNCHANGED <<running, signalled, target, err, packet, ports, inited, exitCode, callbackVars>>

\* s4_mk1_init returns: the handle answered up to the last LED packet.
InitDevice ==
  /\ Goto("init", IF ports THEN "loop" ELSE "createPorts")
  /\ CanTransfer(handle)
  /\ inited' = inited \cup {handle}
  /\ UNCHANGED <<usbVars, running, signalled, target, err, packet, ports, exitCode, callbackVars>>

\* No unit, or any libusb call of open() or s4_mk1_init fails.  handle_ stays
\* as it is; the interface may have been claimed before the failure.
ConnectStepFails ==
  /\ mpc \in {"enumerate", "open", "claim", "resolve", "init"}
  /\ \/ UNCHANGED usbVars
     \/ mpc = "claim" /\ ClaimInterface
  /\ Throw("other")
  /\ UNCHANGED <<running, signalled, target, packet, ports, inited, exitCode, callbackVars>>

\* (mutant) every exception is retried
CatchRetries ==
  /\ Goto("catch", "sleep")
  /\ UNCHANGED <<usbVars, running, signalled, target, err, packet, ports, inited, exitCode, callbackVars>>

Catch ==
  /\ mpc = "catch"
  /\ \/ err = "multiple" /\ running' = FALSE /\ ConnectFailed
     \/ err = "other" /\ mpc' = "sleep" /\ UNCHANGED <<running, exitCode>>
  /\ UNCHANGED <<usbVars, signalled, target, err, packet, ports, inited, callbackVars>>

Sleep ==
  /\ Goto("sleep", "connect")
  /\ UNCHANGED <<usbVars, running, signalled, target, err, packet, ports, inited, exitCode, callbackVars>>

-----------------------------------------------------------------------------
(* The main loop *)

CreatePorts ==
  /\ mpc = "createPorts"
  /\ \/ mpc' = "loop" /\ ports' = TRUE /\ UNCHANGED exitCode
     \/ Return(1) /\ UNCHANGED ports
  /\ UNCHANGED <<usbVars, running, signalled, target, err, packet, inited, callbackVars>>

\* (mutant) the loop does not test the flag
LoopForever ==
  /\ Goto("loop", "read")
  /\ UNCHANGED <<usbVars, running, signalled, target, err, packet, ports, inited, exitCode, callbackVars>>

LoopTest ==
  /\ mpc = "loop"
  /\ \/ running /\ mpc' = "read" /\ UNCHANGED exitCode
     \/ ~running /\ Return(0)
  /\ UNCHANGED <<usbVars, running, signalled, target, err, packet, ports, inited, callbackVars>>

\* A transfer of no bytes reads like none.
ReadData ==
  /\ Goto("read", "check")
  /\ CanTransfer(handle)
  /\ packet' \in {"data", "empty"}
  /\ UNCHANGED <<usbVars, running, signalled, target, err, ports, inited, exitCode, callbackVars>>

ReadTimesOut ==
  /\ Goto("read", "check")
  /\ TimeoutFinite /\ CanTransfer(handle)
  /\ packet' = "empty"
  /\ UNCHANGED <<usbVars, running, signalled, target, err, ports, inited, exitCode, callbackVars>>

\* LIBUSB_ERROR_NO_DEVICE or LIBUSB_ERROR_IO, the latter also on a live handle.
ReadGone ==
  /\ Goto("read", "check")
  /\ MarkDisconnected
  /\ packet' = "empty"
  /\ UNCHANGED <<running, signalled, target, err, ports, inited, exitCode, callbackVars>>

\* Any other error (a stall, an overflow) leaves run_bridge as an exception.
ReadThrows ==
  /\ mpc = "read"
  /\ CanTransfer(handle)
  /\ Return(1)
  /\ UNCHANGED <<usbVars, running, signalled, target, err, packet, ports, inited, callbackVars>>

\* (mutant) a loss is taken for an empty read, as the loop of probe mode does
CheckIgnoresLoss ==
  /\ Goto("check", IF packet = "empty" THEN "loop" ELSE "publish")
  /\ UNCHANGED <<usbVars, running, signalled, target, err, packet, ports, inited, exitCode, callbackVars>>

\* (mutant) a loss ends the bridge instead of reconnecting
CheckGivesUp ==
  /\ mpc = "check"
  /\ IF disconnected THEN Return(0) ELSE UNCHANGED exitCode /\
       mpc' = IF packet = "empty" THEN "loop" ELSE "publish"
  /\ UNCHANGED <<usbVars, running, signalled, target, err, packet, ports, inited, callbackVars>>

\* (mutant) the ports are created anew for every session
CheckDropsPorts ==
  /\ Goto("check", IF disconnected THEN "connect" ELSE "loop")
  /\ ports' = ~disconnected
  /\ UNCHANGED <<usbVars, running, signalled, target, err, packet, inited, exitCode, callbackVars>>

CheckRead ==
  /\ mpc = "check"
  /\ \/ disconnected /\ mpc' = "connect"
     \/ ~disconnected /\ packet = "empty" /\ mpc' = "loop"
     \/ ~disconnected /\ packet = "data" /\ mpc' = "publish"
  /\ UNCHANGED <<usbVars, running, signalled, target, err, packet, ports, inited, exitCode, callbackVars>>

\* Raw SysEx and the decoded messages; a CC that cannot be sent ends the loop.
Publish ==
  /\ mpc = "publish"
  /\ \/ mpc' = "loop" /\ UNCHANGED exitCode
     \/ Return(1)
  /\ UNCHANGED <<usbVars, running, signalled, target, err, packet, ports, inited, callbackVars>>

-----------------------------------------------------------------------------
(* Destruction of the locals of run_bridge, last declared first *)

\* ~CoreMidiBridge disposes the endpoints: CoreMIDI starts no read proc any more.
DisposePorts ==
  /\ Goto("unwindMidi", "drainMidi")
  /\ ports' = FALSE
  /\ UNCHANGED <<usbVars, running, signalled, target, err, packet, inited, exitCode, callbackVars>>

\* The client is disposed and callback_ destroyed: nothing waits for a read proc
\* that is still running.
DestroyMidi ==
  /\ Goto("drainMidi", "unwindDevice")
  /\ UNCHANGED <<usbVars, running, signalled, target, err, packet, ports, inited, exitCode, callbackVars>>

DestroyDevice ==
  /\ Goto("unwindDevice", "exited")
  /\ IF handle # None THEN CloseHandle ELSE UNCHANGED usbVars
  /\ inited' = inited \ {handle}
  /\ UNCHANGED <<running, signalled, target, err, packet, ports, exitCode, callbackVars>>

MainFair ==
  \/ ConnectTest \/ Close \/ CloseNull \/ CloseFlag \/ Enumerate \/ Open \/ OpenFlag
  \/ Claim \/ Resolve \/ InitDevice \/ ConnectStepFails \/ Catch \/ Sleep
  \/ CreatePorts \/ LoopTest \/ ReadTimesOut \/ (~Live(handle) /\ ReadGone)
  \/ CheckRead \/ Publish \/ DisposePorts \/ DestroyMidi \/ DestroyDevice

Main == MainFair \/ ReadData \/ ReadGone \/ ReadThrows

-----------------------------------------------------------------------------
(* The feedback callback, on the CoreMIDI thread *)

Receive ==
  /\ wpc = "idle" /\ ports
  /\ wpc' = "guard"
  /\ UNCHANGED <<usbVars, mainVars, wHandle>>

GuardDisconnected ==
  /\ wpc = "guard"
  /\ wpc' = IF disconnected THEN "idle" ELSE "guardOpen"
  /\ UNCHANGED <<usbVars, mainVars, wHandle>>

GuardOpen ==
  /\ wpc = "guardOpen"
  /\ wpc' = IF handle = None THEN "idle" ELSE "encode"
  /\ UNCHANGED <<usbVars, mainVars, wHandle>>

\* encode_output: only the marked SysEx has a payload.
Encode ==
  /\ wpc = "encode"
  /\ wpc' \in {"idle", "nullCheck"}
  /\ UNCHANGED <<usbVars, mainVars, wHandle>>

\* write_output throws, and the callback swallows it, without a handle or an
\* output endpoint.
NullCheck ==
  /\ wpc = "nullCheck"
  /\ wpc' = IF handle = None \/ ~OutputConfigured THEN "idle" ELSE "capture"
  /\ UNCHANGED <<usbVars, mainVars, wHandle>>

Capture ==
  /\ wpc = "capture"
  /\ wpc' = "enter"
  /\ wHandle' = handle
  /\ UNCHANGED <<usbVars, mainVars>>

Enter ==
  /\ wpc = "enter" /\ wHandle \in opened
  /\ wpc' = "transfer"
  /\ UNCHANGED <<usbVars, mainVars, wHandle>>

\* Success, an error that is swallowed, or LIBUSB_ERROR_NO_DEVICE from a
\* handle closed under the transfer.
TransferReturns ==
  /\ wpc = "transfer"
  /\ wpc' = "idle"
  /\ wHandle' = None
  /\ UNCHANGED <<usbVars, mainVars>>

Callback ==
  \/ GuardDisconnected \/ GuardOpen \/ Encode \/ NullCheck \/ Capture \/ Enter
  \/ TransferReturns

\* libusb is entered with a freed or null handle: undefined behaviour, taken
\* as the end of the process.  Otherwise the call fails and is swallowed.
EnterFreed ==
  /\ wpc = "enter" /\ wHandle \notin opened
  /\ \/ wpc' = "crashed" /\ mpc' = "crashed" /\ UNCHANGED wHandle
     \/ wpc' = "idle" /\ wHandle' = None /\ UNCHANGED mpc
  /\ UNCHANGED <<usbVars, running, signalled, target, err, packet, ports, inited, exitCode>>

\* A read proc that runs on after ~CoreMidiBridge uses what run_bridge has
\* destroyed: undefined behaviour too.  It ends the process or, as the bytes may
\* still be there, goes unnoticed, which are the other steps of the callback.
CallbackOutlives ==
  /\ wpc \in InCallback /\ mpc \in {"unwindDevice", "exited"}
  /\ wpc' = "crashed" /\ mpc' = "crashed"
  /\ UNCHANGED <<usbVars, running, signalled, target, err, packet, ports, inited, exitCode, wHandle>>

-----------------------------------------------------------------------------
(* The environment *)

Plug(u) ==
  /\ AttachUnit(u)
  /\ UNCHANGED <<mainVars, callbackVars>>

Unplug(u) ==
  /\ DetachUnit(u)
  /\ target' = IF target = u THEN None ELSE target
  /\ UNCHANGED <<running, signalled, mpc, err, packet, ports, inited, exitCode, callbackVars>>

\* SIGINT or SIGTERM
HandleSignal ==
  /\ running' = FALSE /\ signalled' = TRUE
  /\ UNCHANGED <<usbVars, mpc, target, err, packet, ports, inited, exitCode, callbackVars>>

Next ==
  \/ Main
  \/ Receive \/ Callback
  \/ EnterFreed \/ CallbackOutlives
  \/ \E u \in Units : Plug(u) \/ Unplug(u)
  \/ HandleSignal

\* Both threads are scheduled; a libusb call returns, except a transfer with no
\* timeout on an idle unit; nobody has to press keys, plug units or send MIDI.
CallbackReturns == (Callback \/ EnterFreed) /\ (wpc # "transfer" \/ TimeoutFinite \/ ~Live(wHandle))

Fairness == WF_vars(MainFair) /\ WF_vars(CallbackReturns)

Spec == Init /\ [][Next]_vars /\ Fairness

-----------------------------------------------------------------------------
(* Safety *)

\* No libusb handle is ever lost: the only one open is the one in handle_,
\* whatever step of open() or s4_mk1_init failed, and none outlives run_bridge.
NoHandleLeak ==
  /\ opened \subseteq {handle}
  /\ mpc = "exited" => opened = {}

\* The main loop only reads an open, claimed and initialised handle, and the
\* flag of an earlier loss is not left up, which would silence all feedback.
SessionReady ==
  mpc \in {"loop", "read", "publish"} =>
    handle \in opened \cap claimed \cap inited /\ ~disconnected

\* Exit code 0 needs a signal, or several units seen by a reconnection, which
\* clears the flag itself (main.cpp:367): losing the controller, whatever the
\* attempts to get it back do, and errors of the session never end with success.
CleanExit == mpc \in Leaving /\ exitCode = 0 => signalled \/ err = "multiple"

\* Whichever way run_bridge is left, no callback starts once the ports are
\* disposed, and so none on a device that is destroyed: midi is declared after
\* device.  (One that was running by then may outlive both: CallbackOutlives.)
NoLateCallback ==
  [][wpc = "idle" /\ wpc' # "idle" => mpc \notin Leaving \ {"unwindMidi"}]_vars

\* The virtual ports appear only once the controller is initialised, and a
\* reconnection does not take them away.
PortsFollowInit ==
  [][/\ ~ports /\ ports' => handle \in inited
     /\ ports /\ ~ports' => mpc = "unwindMidi"]_vars

\* After several units were seen no attempt is made again (main.cpp: "no retry").
HardStop == [][err = "multiple" => opened' \subseteq opened /\ err' = err]_vars

-----------------------------------------------------------------------------
(* Liveness *)

\* A signal ends the bridge, even in the middle of a reconnection.
SignalStops == ~running ~> mpc \in {"exited", "crashed"}

\* The main loop does not keep reading a handle whose unit is gone.
UnplugNoticed == mpc \in Streaming /\ ~Live(handle) ~> mpc \notin Streaming

\* A unit does not fail every attempt for ever.
Healthy ==
  /\ SF_vars(Enumerate) /\ SF_vars(Open) /\ SF_vars(Claim)
  /\ SF_vars(Resolve) /\ SF_vars(InitDevice)

\* A healthy unit that stays attached, alone, is in use again and again.
Recovers ==
  Healthy =>
    \A u \in Units : <>[](attached = {u}) =>
      []<>(\/ mpc \in Streaming /\ CanTransfer(handle)
          \/ mpc \in Leaving \cup {"crashed"} \/ ~running)

-----------------------------------------------------------------------------
(* The abstract specification.  A session is up from the return of          *)
(* s4_mk1_init to the return to connect().                                  *)

Phase ==
  CASE mpc \in Connecting                    -> "down"
    [] mpc \in Streaming \cup {"createPorts"} -> "up"
    [] mpc \in Leaving                       -> "stopped"
    [] OTHER                                 -> "crashed"

Abstract == INSTANCE Hotswap WITH stop <- ~running, phase <- Phase, code <- exitCode

\* Every step of the two threads is a step of Hotswap or invisible to it.
ImplementsHotswap == Abstract!Spec

-----------------------------------------------------------------------------
(* What the documentation says and the code does not do *)

\* main.cpp:387 "Device closed concurrently; main loop will handle reconnect":
\* while there is a main loop, the callback enters libusb with an open handle.
NoTransferOnFreedHandle ==
  [][wpc = "enter" /\ wpc' # "enter" /\ mpc \notin Leaving => wHandle \in opened]_vars
=============================================================================
