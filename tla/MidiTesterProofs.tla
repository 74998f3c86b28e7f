--------------------------- MODULE MidiTesterProofs ---------------------------
(***************************************************************************)
(* The dev tester, for every number of rules, keys and messages: its       *)
(* connection is whole whichever open() fails, and what a message sets off *)
(* is in the list.                                                         *)
(***************************************************************************)
EXTENDS MidiTester, TLAPS

\* What is open at each point of connect.
ConnectInv ==
  /\ tk \in Connecting => ~inPort
  /\ tk = "openOutput" => ~outPort
  /\ tk \in Connecting /\ ~closeFailed => ~status
  /\ tk \in {"openInput", "rollBack"} => outPort

\* The index is the one of the list, and what is left to fire is from both.
IInv ==
  /\ TypeOK
  /\ ConnectionWhole /\ ConnectInv
  /\ ruleByKey = Index(rules)
  /\ FiresListedRules

-----------------------------------------------------------------------------
(* The list of rules and its index *)

\* The rules of a list that have a key, from a position on.
Rest(list, from, k) == {<<i, list[i]>> : i \in {j \in from..Len(list) : list[j].key = k}}

LEMMA IndexType ==
  ASSUME NEW list \in Seq(RuleSet)
  PROVE  Index(list) \in [Keys -> SUBSET Placed]
  BY DEF Index, Placed

\* The index of a key is all of its rules.
LEMMA IndexIsRest ==
  ASSUME NEW list \in Seq(RuleSet), NEW k \in Keys
  PROVE  Index(list)[k] = Rest(list, 1, k)
  BY DEF Index, Rest

\* To fire the first rule of the rest leaves the rest behind it.
LEMMA RestBehindFirst ==
  ASSUME NEW list \in Seq(RuleSet), NEW k \in Keys, NEW from \in 1..(Len(list) + 1),
         NEW m \in Rest(list, from, k), \A n \in Rest(list, from, k) : m[1] <= n[1]
  PROVE  /\ m[1] + 1 \in 1..(Len(list) + 1)
         /\ Rest(list, from, k) \ {m} = Rest(list, m[1] + 1, k)
  <1>1. PICK i \in from..Len(list) : list[i].key = k /\ m = <<i, list[i]>>
    BY DEF Rest
  <1>2. i \in Nat /\ Len(list) \in Nat /\ m[1] = i
    BY <1>1
  <1>3. ASSUME NEW j \in from..Len(list), list[j].key = k, j # i
        PROVE  j \in (i + 1)..Len(list)
    <2>1. <<j, list[j]>> \in Rest(list, from, k)
      BY <1>3 DEF Rest
    <2>2. i <= j
      BY <2>1, <1>2
    <2> QED
      BY <2>2, <1>2, <1>3
  <1>4. ASSUME NEW x \in Rest(list, from, k), x # m
        PROVE  x \in Rest(list, i + 1, k)
    <2>1. PICK j \in from..Len(list) : list[j].key = k /\ x = <<j, list[j]>>
      BY DEF Rest
    <2>2. j # i
      BY <2>1, <1>1, <1>4
    <2> QED
      BY <2>1, <2>2, <1>3 DEF Rest
  <1>5. ASSUME NEW x \in Rest(list, i + 1, k)
        PROVE  x \in Rest(list, from, k) /\ x # m
    <2>1. PICK j \in (i + 1)..Len(list) : list[j].key = k /\ x = <<j, list[j]>>
      BY DEF Rest
    <2>2. j \in from..Len(list) /\ j # i
      BY <2>1, <1>1, <1>2
    <2>3. x[1] # m[1]
      BY <2>1, <2>2, <1>2
    <2> QED
      BY <2>1, <2>2, <2>3 DEF Rest
  <1>6. Rest(list, from, k) \ {m} = Rest(list, i + 1, k)
    BY <1>4, <1>5
  <1> QED
    BY <1>1, <1>2, <1>6

LEMMA AppendType ==
  ASSUME NEW list \in Seq(RuleSet), NEW r \in RuleSet
  PROVE  Append(list, r) \in Seq(RuleSet)
  OBVIOUS

LEMMA RemoveAtType ==
  ASSUME NEW list \in Seq(RuleSet), NEW i \in DOMAIN list
  PROVE  RemoveAt(list, i) \in Seq(RuleSet)
  BY DEF RemoveAt

\* What is left to fire, in terms of the rest of the list.
LEMMA FiresRest ==
  FiresListedRules <=>
    (tk = "rules" /\ event \in Keys =>
       \E from \in 1..(Len(rules) + 1) : matches = Rest(rules, from, event))
  BY DEF FiresListedRules, Rest

-----------------------------------------------------------------------------
(* The invariant *)

LEMMA InitInv == Init => IInv
  <1> SUFFICES ASSUME Init PROVE IInv
    OBVIOUS
  <1>1. rules \in Seq(RuleSet)
    <2>1. PICK r \in RuleSet : rules = <<r>>
      BY DEF Init
    <2> QED
      BY <2>1
  <1>2. ruleByKey = Index(rules) /\ ruleByKey \in [Keys -> SUBSET Placed]
    BY <1>1, IndexType DEF Init
  <1>3. queue \in Seq(Events) /\ Len(queue) <= MaxQueue /\ budget \in 0..Batch
    BY SizesAssumption DEF Init
  <1>4. TypeOK
    BY <1>1, <1>2, <1>3 DEF Init, TypeOK
  <1> QED
    BY <1>2, <1>4 DEF Init, IInv, ConnectionWhole, ConnectInv, Connecting, FiresListedRules

\* Taking an event from the queue keeps the types.
LEMMA TakeType ==
  ASSUME IInv, Take
  PROVE  TypeOK'
  <1>1. /\ queue \in Seq(Events) /\ Len(queue) <= MaxQueue /\ queue # <<>>
        /\ budget \in 0..Batch /\ budget > 0
        /\ event' = Head(queue) /\ queue' = Tail(queue) /\ budget' = budget - 1
    BY DEF IInv, TypeOK, Take
  <1>2. event' \in Events /\ queue' \in Seq(Events) /\ Len(queue') <= MaxQueue
    BY <1>1, SizesAssumption
  <1>3. budget' \in 0..Batch
    BY <1>1, SizesAssumption
  <1>4. matches' \in SUBSET Placed
    BY DEF IInv, TypeOK, Take
  <1> QED
    BY <1>2, <1>3, <1>4 DEF IInv, TypeOK, Take, portVars, ruleVars, mapVars

LEMMA SetRulesType ==
  ASSUME TypeOK, NEW list \in Seq(RuleSet), SetRules(list), tk = "idle",
         UNCHANGED <<portVars, arriving, queue, drainVars, mapVars>>
  PROVE  TypeOK' /\ ruleByKey' = Index(rules') /\ tk' = "idle"
  BY IndexType DEF TypeOK, SetRules, portVars, drainVars, mapVars

\* Whichever way the user edits the list, a list of the editor's rules is indexed.
LEMMA EditRules ==
  ASSUME TypeOK,
         \/ \E r \in RuleSet : AddRule(r)
         \/ \E i \in 1..MaxRules : DeleteRule(i) \/ DuplicateRule(i)
  PROVE  TypeOK' /\ ruleByKey' = Index(rules') /\ tk' = "idle"
  <1>1. rules \in Seq(RuleSet)
    BY DEF TypeOK
  <1>2. ASSUME NEW r \in RuleSet, AddRule(r)
        PROVE  TypeOK' /\ ruleByKey' = Index(rules') /\ tk' = "idle"
    BY <1>1, <1>2, AppendType, SetRulesType DEF AddRule
  <1>3. ASSUME NEW i \in 1..MaxRules, DeleteRule(i)
        PROVE  TypeOK' /\ ruleByKey' = Index(rules') /\ tk' = "idle"
    BY <1>1, <1>3, RemoveAtType, SetRulesType DEF DeleteRule
  <1>4. ASSUME NEW i \in 1..MaxRules, DuplicateRule(i)
        PROVE  TypeOK' /\ ruleByKey' = Index(rules') /\ tk' = "idle"
    <2>1. i \in DOMAIN rules /\ rules[i] \in RuleSet
      BY <1>1, <1>4 DEF DuplicateRule
    <2> QED
      BY <1>1, <1>4, <2>1, AppendType, SetRulesType DEF DuplicateRule
  <1> QED
    BY <1>2, <1>3, <1>4

LEMMA TypeStep ==
  ASSUME IInv, [Next]_vars
  PROVE  TypeOK'
  <1> TypeOK
    BY DEF IInv
  <1> USE DEF portVars, drainVars, ruleVars, mapVars
  <1>1. ASSUME NEW e \in Events, Receive(e) PROVE TypeOK'
    BY <1>1 DEF TypeOK, Receive
  <1>2. CASE MidiCallback
    <2>1. arriving \in Events
      BY <1>2 DEF MidiCallback, TypeOK
    <2>2. queue' \in Seq(Events) /\ Len(queue') <= MaxQueue
      BY <1>2, <2>1, SizesAssumption DEF MidiCallback, TypeOK
    <2> QED
      BY <1>2, <2>2 DEF MidiCallback, TypeOK
  <1>3. CASE Tick
    <2>1. budget' \in 0..Batch
      BY <1>3, SizesAssumption DEF Tick
    <2> QED
      BY <1>3, <2>1 DEF Tick, TypeOK
  <1>4. CASE Take
    BY <1>4, TakeType
  <1>5. CASE Reschedule
    BY <1>5 DEF Reschedule, TypeOK
  <1>6. CASE ApplyRule
    <2>1. /\ matches' \in SUBSET Placed /\ event' \in Events \cup {None}
          /\ tk' \in {"idle", "rules"}
      BY <1>6 DEF ApplyRule, Raise, TypeOK
    <2> QED
      BY <1>6, <2>1 DEF ApplyRule, TypeOK
  <1>7. CASE Route
    <2>1. /\ matches' \in SUBSET Placed /\ event' \in Events \cup {None}
          /\ tk' \in {"idle", "drain"}
      BY <1>7 DEF Route, Raise, TypeOK
    <2> QED
      BY <1>7, <2>1 DEF Route, TypeOK
  <1>8. CASE ToggleOff \/ ToggleOn \/ Connect
    <2> USE DEF Connect, ToggleOff, ToggleOn, OpenOutput, OpenInput, RollBack
    <2>1. tk' \in {"idle"} \cup Connecting
      BY <1>8 DEF Connecting
    <2>2. inPort' \in BOOLEAN /\ outPort' \in BOOLEAN
      BY <1>8 DEF TypeOK, Disconnect, DisconnectRaises
    <2>3. status' \in BOOLEAN /\ closeFailed' \in BOOLEAN
      BY <1>8 DEF TypeOK, DisconnectRaises, Show
    <2>4. UNCHANGED <<arriving, queue, timer, budget, event, matches, ruleVars, mapVars>>
      BY <1>8
    <2> QED
      BY <2>1, <2>2, <2>3, <2>4 DEF TypeOK
  <1>9. CASE \/ \E r \in RuleSet : AddRule(r)
             \/ \E i \in 1..MaxRules : DeleteRule(i) \/ DuplicateRule(i)
    BY <1>9, EditRules
  <1>10. CASE EditByteMap
    BY <1>10 DEF EditByteMap, TypeOK
  <1>11. CASE OnClose
    BY <1>11 DEF OnClose, Disconnect, DisconnectRaises, TypeOK
  <1>12. CASE UNCHANGED vars
    BY <1>12 DEF vars, TypeOK
  <1> QED
    BY <1>1, <1>2, <1>3, <1>4, <1>5, <1>6, <1>7, <1>8, <1>9, <1>10, <1>11, <1>12
    DEF Next, Drain

\* A step that leaves the ports alone, outside connect.
LEMMA PortsKept ==
  ASSUME IInv, UNCHANGED portVars,
         tk' = tk \/ (tk \notin Connecting \cup {"gone"} /\ tk' \notin Connecting \cup {"gone"})
  PROVE  ConnectionWhole' /\ ConnectInv'
  <1>1. inPort' = inPort /\ outPort' = outPort /\ status' = status /\ closeFailed' = closeFailed
    BY Zenon DEF portVars
  <1>2. CASE tk' = tk
    BY <1>1, <1>2, Zenon DEF IInv, ConnectionWhole, ConnectInv
  <1>3. CASE tk \notin Connecting \cup {"gone"} /\ tk' \notin Connecting \cup {"gone"}
    <2>1. ConnectionWhole'
      BY <1>1, <1>3, Zenon DEF IInv, ConnectionWhole
    <2>2. ConnectInv'
      BY <1>3 DEF ConnectInv, Connecting
    <2> QED
      BY <2>1, <2>2
  <1> QED
    BY <1>2, <1>3

\* After a close() that raised, ConnectionWhole asks only for an output behind each input.
LEMMA Raised ==
  ASSUME IInv, DisconnectRaises, tk' # "gone"
  PROVE  ConnectionWhole'
  <1>1. closeFailed' = TRUE /\ outPort' = outPort /\ status' = status
    BY Zenon DEF DisconnectRaises
  <1>2. inPort' => inPort
    BY Zenon DEF DisconnectRaises
  <1> QED
    BY <1>1, <1>2, Zenon DEF IInv, ConnectionWhole

LEMMA WholeStep ==
  ASSUME IInv, [Next]_vars
  PROVE  ConnectionWhole' /\ ConnectInv'
  <1> DEFINE Good == ConnectionWhole' /\ ConnectInv'
  <1> SUFFICES Good
    OBVIOUS
  <1> TypeOK /\ ConnectionWhole /\ ConnectInv
    BY DEF IInv
  <1>1. ASSUME NEW e \in Events, Receive(e) PROVE Good
    BY <1>1, PortsKept DEF Receive, drainVars
  <1>2. CASE MidiCallback
    BY <1>2, PortsKept DEF MidiCallback, drainVars
  <1>3. CASE Drain
    <2>1. UNCHANGED portVars
      BY <1>3 DEF Drain, Tick, Take, Reschedule, ApplyRule, Route
    <2>2. /\ tk \notin Connecting \cup {"gone"}
          /\ tk' \notin Connecting \cup {"gone"}
      BY <1>3 DEF Drain, Tick, Take, Reschedule, ApplyRule, Route, Raise, Connecting
    <2> QED
      BY <2>1, <2>2, PortsKept
  <1>4. CASE ToggleOff
    <2>1. tk' = "idle" /\ tk = "idle"
      BY <1>4 DEF ToggleOff, drainVars
    <2>2. ConnectInv'
      BY <2>1 DEF ConnectInv, Connecting
    <2>3. CASE Disconnect /\ Show(FALSE)
      <3>1. inPort' = FALSE /\ outPort' = FALSE /\ status' = FALSE
        BY <2>3, Zenon DEF Disconnect, Show
      <3> QED
        BY <3>1, <2>2, Zenon DEF ConnectionWhole
    <2>4. CASE DisconnectRaises
      BY <2>1, <2>2, <2>4, Raised
    <2> QED
      BY <1>4, <2>3, <2>4 DEF ToggleOff
  <1>5. CASE ToggleOn
    <2>1. CASE Disconnect /\ tk' = "openOutput" /\ UNCHANGED <<status, closeFailed>>
      <3>1. ~closeFailed => ~status
        BY <1>5 DEF ToggleOn, ConnectionWhole, Connecting
      <3> QED
        BY <2>1, <3>1 DEF Disconnect, ConnectionWhole, ConnectInv, Connecting
    <2>2. CASE DisconnectRaises /\ UNCHANGED tk
      BY <1>5, <2>2 DEF ToggleOn, DisconnectRaises, ConnectionWhole, ConnectInv, Connecting
    <2> QED
      BY <1>5, <2>1, <2>2 DEF ToggleOn
  <1>6. CASE OpenOutput
    BY <1>6 DEF OpenOutput, ConnectionWhole, ConnectInv, Connecting
  <1>7. CASE OpenInput
    BY <1>7 DEF OpenInput, Show, ConnectionWhole, ConnectInv, Connecting
  <1>8. CASE RollBack
    <2>1. tk' = "idle" /\ tk = "rollBack"
      BY <1>8 DEF RollBack
    <2>2. ConnectInv'
      BY <2>1 DEF ConnectInv, Connecting
    <2>3. CASE Disconnect /\ UNCHANGED <<status, closeFailed>>
      <3>1. inPort' = FALSE /\ outPort' = FALSE
        BY <2>3, Zenon DEF Disconnect
      <3>2. ~closeFailed' => ~status'
        BY <2>1, <2>3 DEF ConnectInv, Connecting
      <3> QED
        BY <2>1, <2>2, <3>1, <3>2, Zenon DEF ConnectionWhole
    <2>4. CASE DisconnectRaises
      BY <2>1, <2>2, <2>4, Raised
    <2> QED
      BY <1>8, <2>3, <2>4 DEF RollBack
  <1>9. ASSUME NEW r \in RuleSet, AddRule(r) PROVE Good
    BY <1>9, PortsKept DEF AddRule, drainVars
  <1>10. ASSUME NEW i \in 1..MaxRules, DeleteRule(i) \/ DuplicateRule(i) PROVE Good
    BY <1>10, PortsKept DEF DeleteRule, DuplicateRule, drainVars
  <1>11. CASE EditByteMap
    BY <1>11, PortsKept DEF EditByteMap, drainVars
  <1>12. CASE OnClose
    BY <1>12 DEF OnClose, Disconnect, DisconnectRaises, ConnectionWhole, ConnectInv, Connecting
  <1>13. CASE UNCHANGED vars
    BY <1>13, PortsKept DEF vars, drainVars
  <1> QED
    BY <1>1, <1>2, <1>3, <1>4, <1>5, <1>6, <1>7, <1>8, <1>9, <1>10, <1>11, <1>12, <1>13
    DEF Next, Connect

\* A step that leaves the rules and what is left to fire alone, or fires nothing more.
LEMMA RulesKept ==
  ASSUME IInv, UNCHANGED ruleVars,
         tk' # "rules" \/ UNCHANGED <<tk, event, matches>>
  PROVE  ruleByKey' = Index(rules') /\ FiresListedRules'
  BY DEF IInv, ruleVars, Index, FiresListedRules

LEMMA FiresStep ==
  ASSUME IInv, [Next]_vars
  PROVE  ruleByKey' = Index(rules') /\ FiresListedRules'
  <1> DEFINE Good == ruleByKey' = Index(rules') /\ FiresListedRules'
  <1> SUFFICES Good
    OBVIOUS
  <1> rules \in Seq(RuleSet) /\ ruleByKey = Index(rules)
    BY DEF IInv, TypeOK
  <1>1. ASSUME NEW e \in Events, Receive(e) PROVE Good
    BY <1>1, RulesKept DEF Receive, drainVars
  <1>2. CASE MidiCallback
    BY <1>2, RulesKept DEF MidiCallback, drainVars
  <1>3. CASE Tick \/ Reschedule \/ Route
    BY <1>3, RulesKept DEF Tick, Reschedule, Route, Raise
  <1>4. CASE Take
    <2>1. event' \in Keys => matches' = Rest(rules, 1, event')
      BY <1>4, IndexIsRest DEF Take
    <2>2. rules' = rules /\ ruleByKey' = ruleByKey
      BY <1>4 DEF Take, ruleVars
    <2>3. 1 \in 1..(Len(rules) + 1)
      OBVIOUS
    <2> QED
      BY <2>1, <2>2, <2>3 DEF FiresListedRules, Rest, Index
  <1>5. CASE ApplyRule
    <2>1. PICK m \in matches :
            /\ \A n \in matches : m[1] <= n[1]
            /\ \/ matches' = matches \ {m} /\ UNCHANGED <<tk, event>>
               \/ m[2].enabled /\ outPort /\ Raise
      BY <1>5 DEF ApplyRule
    <2>2. UNCHANGED ruleVars /\ tk = "rules"
      BY <1>5 DEF ApplyRule
    <2>3. CASE Raise
      BY <2>2, <2>3, RulesKept DEF Raise
    <2>4. CASE matches' = matches \ {m} /\ UNCHANGED <<tk, event>>
      <3>1. ASSUME event \in Keys
            PROVE  \E from \in 1..(Len(rules) + 1) : matches' = Rest(rules, from, event)
        <4>1. PICK from \in 1..(Len(rules) + 1) : matches = Rest(rules, from, event)
          BY <3>1, <2>2, FiresRest DEF IInv
        <4>2. /\ m[1] + 1 \in 1..(Len(rules) + 1)
              /\ matches' = Rest(rules, m[1] + 1, event)
          BY <3>1, <4>1, <2>1, <2>4, RestBehindFirst
        <4> QED
          BY <4>2
      <3> QED
        BY <3>1, <2>2, <2>4 DEF FiresListedRules, Rest, Index, ruleVars
    <2> QED
      BY <2>1, <2>3, <2>4
  <1>6. CASE ToggleOff \/ ToggleOn \/ Connect
    <2>1. UNCHANGED ruleVars /\ tk' # "rules"
      BY <1>6 DEF Connect, ToggleOff, ToggleOn, OpenOutput, OpenInput, RollBack, drainVars
    <2> QED
      BY <2>1, RulesKept
  <1>7. CASE \/ \E r \in RuleSet : AddRule(r)
             \/ \E i \in 1..MaxRules : DeleteRule(i) \/ DuplicateRule(i)
    BY <1>7, EditRules DEF IInv, FiresListedRules
  <1>8. CASE EditByteMap
    BY <1>8, RulesKept DEF EditByteMap, drainVars
  <1>9. CASE OnClose
    BY <1>9, RulesKept DEF OnClose
  <1>10. CASE UNCHANGED vars
    BY <1>10, RulesKept DEF vars, drainVars
  <1> QED
    BY <1>1, <1>2, <1>3, <1>4, <1>5, <1>6, <1>7, <1>8, <1>9, <1>10 DEF Next, Drain

LEMMA NextInv == IInv /\ [Next]_vars => IInv'
  BY TypeStep, WholeStep, FiresStep DEF IInv

\* In every reachable state.
THEOREM Invariant == Spec => []IInv
  BY InitInv, NextInv, PTL DEF Spec

-----------------------------------------------------------------------------
(* What follows *)

\* However the callbacks of Tk and mido's thread interleave, every variable keeps its
\* type: the drain never takes more than its batch.
THEOREM TypeCorrect == Spec => []TypeOK
  <1>1. IInv => TypeOK
    BY DEF IInv
  <1> QED
    BY <1>1, Invariant, PTL

\* However connect, its rollback and disconnect go wrong, step by step, the window and
\* the two ports agree while no close() has raised, and no input is ever left without
\* its output or behind a window that says "disconnected".
THEOREM WholeConnection == Spec => []ConnectionWhole
  <1>1. IInv => ConnectionWhole
    BY DEF IInv
  <1> QED
    BY <1>1, Invariant, PTL

\* What a message sets off is in the list the user sees at that moment, in its order
\* and for its key, whatever was added, copied and deleted before.
THEOREM FiresWhatIsListed == Spec => []FiresListedRules
  <1>1. IInv => FiresListedRules
    BY DEF IInv
  <1> QED
    BY <1>1, Invariant, PTL
=============================================================================
