----------------------------- MODULE BridgeProofs -----------------------------
(***************************************************************************)
(* The safety of bridge mode for any number of units and handles, and that *)
(* its two threads implement Hotswap.                                      *)
(***************************************************************************)
EXTENDS Bridge, TLAPS

\* What the main thread knows of handle_ at each point of connect() and of the
\* loop, whoever plugs, unplugs, sends feedback or signals meanwhile.
HandleInv ==
  /\ opened \subseteq {handle}
  /\ mpc = "closeNull" => opened = {}
  /\ mpc \in {"closeFlag", "enumerate", "open"} => handle = None
  /\ mpc \in {"openFlag", "claim"} => handle \in opened
  /\ mpc \in {"resolve", "init"} => handle \in claimed
  /\ mpc \in Streaming \cup {"createPorts"} => handle \in claimed \cap inited
  /\ mpc \in {"claim", "resolve", "init", "createPorts", "loop", "read", "publish"} => ~disconnected
  /\ mpc = "exited" => opened = {}

\* When the ports exist, when a callback may be running, why the bridge leaves.
PortsInv ==
  /\ mpc = "createPorts" => ~ports
  /\ mpc \in Streaming => ports
  /\ mpc \in {"drainMidi", "unwindDevice", "exited"} => ~ports
  /\ wpc # "idle" => ports \/ mpc \in {"drainMidi", "unwindDevice", "exited", "crashed"}
  /\ ~running => signalled \/ err = "multiple"
  /\ mpc \in Leaving /\ exitCode = 0 => signalled \/ err = "multiple"
  /\ err = "multiple" => mpc \in Leaving \cup {"catch", "crashed"}

IInv == TypeOK /\ HandleInv /\ PortsInv

-----------------------------------------------------------------------------
\* The initial states satisfy the invariant.
LEMMA InitInv == Init => IInv
  BY DEF Init, UsbInit, IInv, TypeOK, UsbTypeOK, HandleInv, PortsInv, Connecting, Streaming,
         Leaving, InCallback, usbVars

\* Every step of a thread or of the environment preserves it.
LEMMA NextInv == IInv /\ [Next]_vars => IInv'
  <1> SUFFICES ASSUME IInv, [Next]_vars PROVE IInv'
    OBVIOUS
  <1> USE NoneAssumption
      DEF IInv, TypeOK, UsbTypeOK, HandleInv, PortsInv, Connecting, Streaming, Leaving,
          InCallback, usbVars, mainVars, callbackVars
  <1>1. CASE ConnectTest
    BY <1>1 DEF ConnectTest, ConnectFailed, Return
  <1>2. CASE Close
    BY <1>2 DEF Close, Goto, CloseHandle
  <1>3. CASE CloseNull
    BY <1>3 DEF CloseNull, Goto, ForgetHandle
  <1>4. CASE CloseFlag
    <2>1. TypeOK'
      <3>1. disconnected' \in BOOLEAN
        BY <1>4, Zenon DEF CloseFlag, ClearDisconnected
      <3>2. UsbTypeOK'
        BY <1>4, <3>1 DEF CloseFlag, Goto, ClearDisconnected
      <3> QED
        BY <1>4, <3>2 DEF CloseFlag, Goto, ClearDisconnected
    <2>2. HandleInv'
      BY <1>4 DEF CloseFlag, Goto, ClearDisconnected
    <2>3. PortsInv'
      BY <1>4 DEF CloseFlag, Goto, ClearDisconnected
    <2> QED
      BY <2>1, <2>2, <2>3
  <1>5. CASE Enumerate
    BY <1>5 DEF Enumerate, Throw, OnlyMatch
  <1>6. CASE Open
    BY <1>6 DEF Open, Goto, OpenHandle
  <1>7. CASE OpenFlag
    <2>1. TypeOK'
      <3>1. disconnected' \in BOOLEAN
        BY <1>7, Zenon DEF OpenFlag, ClearDisconnected
      <3>2. UsbTypeOK'
        BY <1>7, <3>1 DEF OpenFlag, Goto, ClearDisconnected
      <3> QED
        BY <1>7, <3>2 DEF OpenFlag, Goto, ClearDisconnected
    <2>2. HandleInv'
      BY <1>7 DEF OpenFlag, Goto, ClearDisconnected
    <2>3. PortsInv'
      BY <1>7 DEF OpenFlag, Goto, ClearDisconnected
    <2> QED
      BY <2>1, <2>2, <2>3
  <1>8. CASE Claim
    BY <1>8 DEF Claim, Goto, ClaimInterface, Live
  <1>9. CASE Resolve
    BY <1>9 DEF Resolve, Goto, EndpointsResolved
  <1>10. CASE InitDevice
    BY <1>10 DEF InitDevice, Goto, CanTransfer, Live
  <1>11. CASE ConnectStepFails
    BY <1>11 DEF ConnectStepFails, Throw, ClaimInterface, Live
  <1>12. CASE Catch
    <2>1. TypeOK'
      <3>1. running' \in BOOLEAN
        BY <1>12, Zenon DEF Catch, ConnectFailed, Return
      <3>2. UsbTypeOK'
        BY <1>12 DEF Catch, ConnectFailed, Return
      <3> QED
        BY <1>12, <3>1, <3>2 DEF Catch, ConnectFailed, Return
    <2>2. HandleInv'
      BY <1>12 DEF Catch, ConnectFailed, Return
    <2>3. PortsInv'
      BY <1>12 DEF Catch, ConnectFailed, Return
    <2> QED
      BY <2>1, <2>2, <2>3
  <1>13. CASE Sleep
    BY <1>13 DEF Sleep, Goto
  <1>14. CASE CreatePorts
    <2>1. TypeOK'
      BY <1>14 DEF CreatePorts, Return
    <2>2. HandleInv'
      BY <1>14 DEF CreatePorts, Return
    <2>3. PortsInv'
      BY <1>14 DEF CreatePorts, Return
    <2> QED
      BY <2>1, <2>2, <2>3
  <1>15. CASE LoopTest
    BY <1>15 DEF LoopTest, Return
  <1>16. CASE ReadData
    BY <1>16 DEF ReadData, Goto
  <1>17. CASE ReadTimesOut
    BY <1>17 DEF ReadTimesOut, Goto
  <1>18. CASE ReadGone
    <2>1. TypeOK'
      <3>1. disconnected' \in BOOLEAN
        BY <1>18, Zenon DEF ReadGone, MarkDisconnected
      <3>2. UsbTypeOK'
        BY <1>18, <3>1 DEF ReadGone, Goto, MarkDisconnected
      <3> QED
        BY <1>18, <3>2 DEF ReadGone, Goto, MarkDisconnected
    <2>2. HandleInv'
      BY <1>18 DEF ReadGone, Goto, MarkDisconnected
    <2>3. PortsInv'
      BY <1>18 DEF ReadGone, Goto, MarkDisconnected
    <2> QED
      BY <2>1, <2>2, <2>3
  <1>19. CASE ReadThrows
    BY <1>19 DEF ReadThrows, Return
  <1>20. CASE CheckRead
    BY <1>20 DEF CheckRead
  <1>21. CASE Publish
    BY <1>21 DEF Publish, Return
  <1>22. CASE DisposePorts
    <2>1. TypeOK'
      <3>1. ports' \in BOOLEAN
        BY <1>22, Zenon DEF DisposePorts, Goto
      <3>2. UsbTypeOK'
        BY <1>22 DEF DisposePorts, Goto
      <3> QED
        BY <1>22, <3>1, <3>2 DEF DisposePorts, Goto
    <2>2. HandleInv'
      BY <1>22 DEF DisposePorts, Goto
    <2>3. PortsInv'
      BY <1>22 DEF DisposePorts, Goto
    <2> QED
      BY <2>1, <2>2, <2>3
  <1>23. CASE DestroyMidi
    BY <1>23 DEF DestroyMidi, Goto
  <1>24. CASE DestroyDevice
    BY <1>24 DEF DestroyDevice, Goto, CloseHandle
  <1>25. CASE Receive
    BY <1>25 DEF Receive
  <1>26. CASE GuardDisconnected
    BY <1>26 DEF GuardDisconnected
  <1>27. CASE GuardOpen
    BY <1>27 DEF GuardOpen
  <1>28. CASE Encode
    BY <1>28 DEF Encode
  <1>29. CASE NullCheck
    BY <1>29 DEF NullCheck
  <1>30. CASE Capture
    BY <1>30 DEF Capture
  <1>31. CASE Enter
    BY <1>31 DEF Enter
  <1>32. CASE TransferReturns
    BY <1>32 DEF TransferReturns
  <1>33. CASE EnterFreed
    BY <1>33 DEF EnterFreed
  <1>34. ASSUME NEW u \in Units, Plug(u) PROVE IInv'
    BY <1>34 DEF Plug, AttachUnit
  <1>35. ASSUME NEW u \in Units, Unplug(u) PROVE IInv'
    BY <1>35 DEF Unplug, DetachUnit
  <1>36. CASE HandleSignal
    <2>1. TypeOK'
      <3>1. running' \in BOOLEAN
        BY <1>36, Zenon DEF HandleSignal
      <3>2. UsbTypeOK'
        BY <1>36 DEF HandleSignal
      <3> QED
        BY <1>36, <3>1, <3>2 DEF HandleSignal
    <2>2. HandleInv'
      BY <1>36 DEF HandleSignal
    <2>3. PortsInv'
      BY <1>36 DEF HandleSignal
    <2> QED
      BY <2>1, <2>2, <2>3
  <1>37. CASE UNCHANGED vars
    BY <1>37 DEF vars
  <1>38. CASE CallbackOutlives
    BY <1>38 DEF CallbackOutlives
  <1> QED
    BY <1>1, <1>2, <1>3, <1>4, <1>5, <1>6, <1>7, <1>8, <1>9, <1>10, <1>11, <1>12, <1>13, <1>14, <1>15, <1>16, <1>17, <1>18, <1>19, <1>20, <1>21, <1>22, <1>23, <1>24, <1>25, <1>26, <1>27, <1>28, <1>29, <1>30, <1>31, <1>32, <1>33, <1>34, <1>35, <1>36, <1>37, <1>38
       DEF Next, Main, MainFair, Callback

\* The invariant holds in every reachable state.
THEOREM Inductive == Spec => []IInv
  BY InitInv, NextInv, PTL DEF Spec

-----------------------------------------------------------------------------
(* The invariants *)

\* Every variable of bridge mode keeps its type.
THEOREM TypeCorrect == Spec => []TypeOK
  <1>1. IInv => TypeOK
    BY DEF IInv
  <1> QED
    BY <1>1, Inductive, PTL

\* No failure inside connect() and no way out of run_bridge loses a handle.
THEOREM HandlesClosed == Spec => []NoHandleLeak
  <1>1. IInv => NoHandleLeak
    BY DEF IInv, HandleInv, NoHandleLeak
  <1> QED
    BY <1>1, Inductive, PTL

\* The main loop reads only initialised handles, with the loss flag down.
THEOREM LoopIsReady == Spec => []SessionReady
  <1>1. IInv => SessionReady
    BY DEF IInv, TypeOK, UsbTypeOK, HandleInv, SessionReady, Streaming
  <1> QED
    BY <1>1, Inductive, PTL

\* Success is reported after a signal or several units, never for any other error.
THEOREM SuccessHasItsCause == Spec => []CleanExit
  <1>1. IInv => CleanExit
    BY DEF IInv, PortsInv, CleanExit
  <1> QED
    BY <1>1, Inductive, PTL

-----------------------------------------------------------------------------
(* The action properties *)

\* Once several units were seen, nothing is opened any more.
THEOREM NoRetryAfterMultiple == Spec => HardStop
  <1>1. ASSUME IInv, [Next]_vars, err = "multiple"
        PROVE  opened' \subseteq opened /\ err' = err
    <2> USE <1>1 DEF IInv, PortsInv, Leaving, usbVars, mainVars, callbackVars
    <2>1. mpc \in {"unwindMidi", "drainMidi", "unwindDevice", "exited", "catch", "crashed"}
      OBVIOUS
    <2>2. CASE Main
      BY <2>1, <2>2 DEF Main, MainFair, ConnectTest, ConnectFailed, Return, Close, Goto, CloseHandle, CloseNull,
             ForgetHandle, CloseFlag, ClearDisconnected, Enumerate, Throw, Open,
             OpenHandle, OpenFlag, Claim, ClaimInterface, Resolve, EndpointsResolved,
             InitDevice, ConnectStepFails, Catch, Sleep, CreatePorts, LoopTest,
             ReadData, ReadTimesOut, ReadGone, MarkDisconnected, ReadThrows,
             CheckRead, Publish, DisposePorts, DestroyMidi, DestroyDevice
    <2>3. CASE Receive \/ Callback \/ EnterFreed \/ CallbackOutlives
      BY <2>3 DEF Receive, Callback, GuardDisconnected, GuardOpen, Encode, NullCheck,
             Capture, Enter, TransferReturns, EnterFreed, CallbackOutlives
    <2>4. CASE HandleSignal \/ \E u \in Units : Plug(u) \/ Unplug(u)
      BY <2>4 DEF HandleSignal, Plug, AttachUnit, Unplug, DetachUnit
    <2>5. CASE UNCHANGED vars
      BY <2>5 DEF vars
    <2> QED
      BY <2>2, <2>3, <2>4, <2>5 DEF Next
  <1>2. IInv /\ [Next]_vars => [err = "multiple" => opened' \subseteq opened /\ err' = err]_vars
    BY <1>1
  <1> QED
    BY <1>2, Inductive, PTL DEF Spec, HardStop

\* The ports appear after s4_mk1_init and are withdrawn only on the way out.
THEOREM PortsFollowSession == Spec => PortsFollowInit
  <1> DEFINE Step == /\ ~ports /\ ports' => handle \in inited
                     /\ ports /\ ~ports' => mpc = "unwindMidi"
  <1>1. ASSUME IInv, [Next]_vars PROVE Step
    <2> USE <1>1 DEF IInv, HandleInv, Streaming, usbVars, mainVars, callbackVars
    <2>1. CASE CreatePorts
      BY <2>1 DEF CreatePorts
    <2>2. CASE DisposePorts
      BY <2>2 DEF DisposePorts, Goto
    <2>3. ASSUME Main, ~CreatePorts, ~DisposePorts PROVE ports' = ports
      BY <2>3 DEF Main, MainFair, ConnectTest, ConnectFailed, Return, Close, Goto, CloseHandle, CloseNull,
             ForgetHandle, CloseFlag, ClearDisconnected, Enumerate, Throw, Open,
             OpenHandle, OpenFlag, Claim, ClaimInterface, Resolve, EndpointsResolved,
             InitDevice, ConnectStepFails, Catch, Sleep, LoopTest, ReadData,
             ReadTimesOut, ReadGone, MarkDisconnected, ReadThrows, CheckRead, Publish,
             DestroyMidi, DestroyDevice
    <2>4. CASE Receive \/ Callback \/ EnterFreed \/ CallbackOutlives
      BY <2>4 DEF Receive, Callback, GuardDisconnected, GuardOpen, Encode, NullCheck,
             Capture, Enter, TransferReturns, EnterFreed, CallbackOutlives
    <2>5. CASE HandleSignal \/ \E u \in Units : Plug(u) \/ Unplug(u)
      BY <2>5 DEF HandleSignal, Plug, Unplug
    <2>6. CASE UNCHANGED vars
      BY <2>6 DEF vars
    <2> QED
      BY <2>1, <2>2, <2>3, <2>4, <2>5, <2>6 DEF Next
  <1>2. IInv /\ [Next]_vars => [Step]_vars
    BY <1>1
  <1> QED
    BY <1>2, Inductive, PTL DEF Spec, PortsFollowInit

\* Once the ports are disposed no callback starts: none meets the destruction
\* of the device but one that was running already.
THEOREM NoCallbackStartsLate == Spec => NoLateCallback
  <1> DEFINE Step == wpc = "idle" /\ wpc' # "idle" => mpc \notin Leaving \ {"unwindMidi"}
  <1>1. ASSUME IInv, [Next]_vars PROVE Step
    <2> USE <1>1 DEF IInv, PortsInv, Leaving, mainVars, callbackVars
    <2>1. CASE Receive
      BY <2>1 DEF Receive
    <2>2. ASSUME Main PROVE wpc' = wpc
      BY <2>2 DEF Main, MainFair, ConnectTest, Close, CloseNull, CloseFlag, Enumerate, Open,
             OpenFlag, Claim, Resolve, InitDevice, ConnectStepFails, Catch, Sleep,
             CreatePorts, LoopTest, ReadData, ReadTimesOut, ReadGone, ReadThrows, CheckRead,
             Publish, DisposePorts, DestroyMidi, DestroyDevice
    <2>3. CASE Callback \/ EnterFreed \/ CallbackOutlives
      BY <2>3 DEF Callback, GuardDisconnected, GuardOpen, Encode, NullCheck, Capture, Enter,
             TransferReturns, EnterFreed, CallbackOutlives, InCallback
    <2>4. ASSUME HandleSignal \/ \E u \in Units : Plug(u) \/ Unplug(u) PROVE wpc' = wpc
      BY <2>4 DEF HandleSignal, Plug, Unplug
    <2>5. CASE UNCHANGED vars
      BY <2>5 DEF vars
    <2> QED
      BY <2>1, <2>2, <2>3, <2>4, <2>5 DEF Next
  <1>2. IInv /\ [Next]_vars => [Step]_vars
    BY <1>1
  <1> QED
    BY <1>2, Inductive, PTL DEF Spec, NoLateCallback

-----------------------------------------------------------------------------
(* The refinement *)

\* Every step of Bridge is a step of Hotswap on the mapped state, or none.
LEMMA StepRefines == IInv /\ [Next]_vars => [Abstract!Next]_(Abstract!vars)
  <1> SUFFICES ASSUME IInv, [Next]_vars PROVE [Abstract!Next]_(Abstract!vars)
    OBVIOUS
  <1> USE DEF IInv, TypeOK, PortsInv, Phase, Connecting, Streaming, Leaving, usbVars, mainVars,
              callbackVars, Abstract!vars
  <1>1. CASE ConnectTest
    BY <1>1 DEF ConnectTest, ConnectFailed, Return, Abstract!Stop, Abstract!End, Abstract!Next
  <1>2. CASE Close
    BY <1>2 DEF Close, Goto, CloseHandle
  <1>3. CASE CloseNull
    BY <1>3 DEF CloseNull, Goto, ForgetHandle
  <1>4. CASE CloseFlag
    BY <1>4 DEF CloseFlag, Goto, ClearDisconnected
  <1>5. CASE Enumerate
    BY <1>5 DEF Enumerate, Throw
  <1>6. CASE Open
    BY <1>6 DEF Open, Goto, OpenHandle
  <1>7. CASE OpenFlag
    BY <1>7 DEF OpenFlag, Goto, ClearDisconnected
  <1>8. CASE Claim
    BY <1>8 DEF Claim, Goto, ClaimInterface
  <1>9. CASE Resolve
    BY <1>9 DEF Resolve, Goto, EndpointsResolved
  <1>10. CASE InitDevice
    BY <1>10 DEF InitDevice, Goto, Abstract!Connect, Abstract!Next
  <1>11. CASE ConnectStepFails
    BY <1>11 DEF ConnectStepFails, Throw, ClaimInterface
  <1>12. CASE Catch
    BY <1>12 DEF Catch, ConnectFailed, Return, Abstract!Refuse, Abstract!End, Abstract!Next
  <1>13. CASE Sleep
    BY <1>13 DEF Sleep, Goto
  <1>14. CASE CreatePorts
    BY <1>14 DEF CreatePorts, Return, Abstract!PublishPorts, Abstract!Break, Abstract!Next
  <1>15. CASE LoopTest
    BY <1>15 DEF LoopTest, Return, Abstract!Stop, Abstract!End, Abstract!Next
  <1>16. CASE ReadData
    BY <1>16 DEF ReadData, Goto
  <1>17. CASE ReadTimesOut
    BY <1>17 DEF ReadTimesOut, Goto
  <1>18. CASE ReadGone
    BY <1>18 DEF ReadGone, Goto, MarkDisconnected
  <1>19. CASE ReadThrows
    BY <1>19 DEF ReadThrows, Return, Abstract!Break, Abstract!Next
  <1>20. CASE CheckRead
    BY <1>20 DEF CheckRead, Abstract!Lose, Abstract!Next
  <1>21. CASE Publish
    BY <1>21 DEF Publish, Return, Abstract!Break, Abstract!Next
  <1>22. CASE DisposePorts
    BY <1>22 DEF DisposePorts, Goto, Abstract!Withdraw, Abstract!Next
  <1>23. CASE DestroyMidi
    BY <1>23 DEF DestroyMidi, Goto
  <1>24. CASE DestroyDevice
    BY <1>24 DEF DestroyDevice, Goto, CloseHandle
  <1>25. CASE Receive \/ Callback
    BY <1>25 DEF Receive, Callback, GuardDisconnected, GuardOpen, Encode, NullCheck,
          Capture, Enter, TransferReturns
  <1>26. CASE EnterFreed \/ CallbackOutlives
    BY <1>26 DEF EnterFreed, CallbackOutlives, InCallback, Abstract!Crash, Abstract!Next
  <1>27. CASE \E u \in Units : Plug(u) \/ Unplug(u)
    BY <1>27 DEF Plug, Unplug
  <1>28. CASE HandleSignal
    BY <1>28 DEF HandleSignal, Abstract!AskToStop, Abstract!Next
  <1>29. CASE UNCHANGED vars
    BY <1>29 DEF vars
  <1> QED
    BY <1>1, <1>2, <1>3, <1>4, <1>5, <1>6, <1>7, <1>8, <1>9, <1>10, <1>11, <1>12,
       <1>13, <1>14, <1>15, <1>16, <1>17, <1>18, <1>19, <1>20, <1>21, <1>22, <1>23,
       <1>24, <1>25, <1>26, <1>27, <1>28, <1>29
       DEF Next, Main, MainFair

\* Bridge mode implements the safety of Hotswap; its fairness is left to TLC.
THEOREM RefinesHotswap == Spec => Abstract!Safety
  <1>1. ASSUME Init PROVE Abstract!Init
    <2>1. mpc = "connect"
      BY <1>1, Zenon DEF Init
    <2>2. (~running) = FALSE /\ ports = FALSE /\ exitCode = 0
      BY <1>1, Zenon DEF Init
    <2>3. Phase = "down"
      BY <2>1 DEF Phase, Connecting, Streaming, Leaving
    <2> QED
      BY <2>2, <2>3, Zenon DEF Abstract!Init
  <1> QED
    BY <1>1, StepRefines, Inductive, PTL DEF Spec, Abstract!Safety
=============================================================================
