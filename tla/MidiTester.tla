------------------------------ MODULE MidiTester ------------------------------
(***************************************************************************)
(* The MIDI dev tester (tools/midi_dev_tester.py): MidiEngine and its two  *)
(* ports, the queue from mido's thread to the Tk thread, the drain that    *)
(* Tk runs every 25 ms, the rules and their index.                         *)
(*                                                                         *)
(* Callbacks of Tk run to their end one after the other; only mido's       *)
(* thread runs beside them, and it only puts.  The lock of MidiEngine is   *)
(* left out: the Tk thread alone takes it.  So are the log, the counters   *)
(* and the values of the messages.                                         *)
(***************************************************************************)
EXTENDS Naturals, Sequences, SequencesExt

CONSTANTS
  CCs, Notes,   \* incoming keys, by kind
  Other,        \* a message with no key, as a SysEx
  RuleSet,      \* the rules the editor can make
  None,         \* no message
  Batch,        \* events one drain takes at most (200)
  MaxQueue,     \* bound on the queue, which has none in the code
  MaxRules      \* bound on the list of rules, likewise

Keys == CCs \cup Notes
Events == Keys \cup {Other}

ASSUME SizesAssumption == Batch \in Nat \ {0} /\ MaxQueue \in Nat \ {0} /\ MaxRules \in Nat
ASSUME EventsAssumption == Other \notin Keys /\ None \notin Events
ASSUME RulesAssumption == \A r \in RuleSet : r.key \in Keys /\ r.enabled \in BOOLEAN

VARIABLES
  inPort, outPort,  \* MidiEngine: the port is open
  status,           \* what the window says: connected or not
  closeFailed,      \* history: a close() has raised since status was last set
  arriving,         \* the message mido's thread is about to put
  queue,            \* event_queue
  tk,               \* what the Tk thread is in: its loop, connect, the drain, the rules
  timer,            \* a call of _drain_event_queue is scheduled
  budget,           \* events the running drain may still take
  event,            \* the event being handled
  matches,          \* rules _apply_rules has still to look at
  rules,            \* in the order of the list
  ruleByKey,        \* rule_by_key
  byteMap,          \* the byte map window is open
  baseValid         \* the text of its channel field is a number

portVars == <<inPort, outPort, status, closeFailed>>
drainVars == <<tk, timer, budget, event, matches>>
ruleVars == <<rules, ruleByKey>>
mapVars == <<byteMap, baseValid>>
vars == <<portVars, arriving, queue, drainVars, ruleVars, mapVars>>

Connecting == {"openOutput", "openInput", "rollBack"}

\* Rules of a list, each with its position in it.
Placed == (Nat \ {0}) \X RuleSet

TypeOK ==
  /\ inPort \in BOOLEAN /\ outPort \in BOOLEAN /\ status \in BOOLEAN
  /\ closeFailed \in BOOLEAN
  /\ arriving \in Events \cup {None}
  /\ queue \in Seq(Events) /\ Len(queue) <= MaxQueue
  /\ tk \in {"idle", "drain", "rules", "gone"} \cup Connecting
  /\ timer \in BOOLEAN
  /\ budget \in 0..Batch
  /\ event \in Events \cup {None}
  /\ matches \in SUBSET Placed
  /\ rules \in Seq(RuleSet)
  /\ ruleByKey \in [Keys -> SUBSET Placed]
  /\ byteMap \in BOOLEAN /\ baseValid \in BOOLEAN

\* _rebuild_rule_index: under a key its rules, in the order of the list.
Index(list) ==
  [k \in Keys |-> {<<i, list[i]>> : i \in {j \in DOMAIN list : list[j].key = k}}]

\* The demo rules are a choice of what the editor can make.
Init ==
  /\ inPort = FALSE /\ outPort = FALSE /\ status = FALSE /\ closeFailed = FALSE
  /\ arriving = None /\ queue = <<>>
  /\ tk = "idle" /\ timer = TRUE /\ budget = 0
  /\ event = None /\ matches = {}
  /\ rules \in {<<r>> : r \in RuleSet} /\ ruleByKey = Index(rules)
  /\ byteMap = FALSE /\ baseValid = TRUE

-----------------------------------------------------------------------------
(* mido's thread *)

Receive(e) ==
  /\ inPort /\ arriving = None
  /\ arriving' = e
  /\ UNCHANGED <<portVars, queue, drainVars, ruleVars, mapVars>>

\* _midi_callback, which may outlast the port.
MidiCallback ==
  /\ arriving # None /\ Len(queue) < MaxQueue
  /\ queue' = Append(queue, arriving)
  /\ arriving' = None
  /\ UNCHANGED <<portVars, drainVars, ruleVars, mapVars>>

-----------------------------------------------------------------------------
(* _drain_event_queue *)

Tick ==
  /\ tk = "idle" /\ timer
  /\ tk' = "drain" /\ timer' = FALSE /\ budget' = Batch
  /\ UNCHANGED <<portVars, arriving, queue, event, matches, ruleVars, mapVars>>

\* (mutant) the drain goes on until the queue is empty
TakeUnbounded ==
  /\ tk = "drain" /\ queue # <<>>
  /\ event' = Head(queue) /\ queue' = Tail(queue)
  /\ tk' = "rules"
  /\ matches' = IF event' \in Keys THEN ruleByKey[event'] ELSE {}
  /\ UNCHANGED <<portVars, arriving, timer, budget, ruleVars, mapVars>>

\* (mutant) one event too many
TakeOneMore ==
  /\ tk = "drain" /\ budget >= 0 /\ queue # <<>>
  /\ event' = Head(queue) /\ queue' = Tail(queue)
  /\ budget' = budget - 1
  /\ tk' = "rules"
  /\ matches' = IF event' \in Keys THEN ruleByKey[event'] ELSE {}
  /\ UNCHANGED <<portVars, arriving, timer, ruleVars, mapVars>>

\* _handle_event and _parse_msg: what has no key has no rules.
Take ==
  /\ tk = "drain" /\ budget > 0 /\ queue # <<>>
  /\ event' = Head(queue) /\ queue' = Tail(queue)
  /\ budget' = budget - 1
  /\ tk' = "rules"
  /\ matches' = IF event' \in Keys THEN ruleByKey[event'] ELSE {}
  /\ UNCHANGED <<portVars, arriving, timer, ruleVars, mapVars>>

\* The drain schedules the next one.
Reschedule ==
  /\ tk = "drain" /\ (budget = 0 \/ queue = <<>>)
  /\ tk' = "idle" /\ timer' = TRUE
  /\ UNCHANGED <<portVars, arriving, queue, budget, event, matches, ruleVars, mapVars>>

\* An exception goes through all of it to Tk, which reports it and goes on.
Raise == tk' = "idle" /\ matches' = {} /\ event' = None

\* One rule of _apply_rules.  The port may refuse the message: it is gone.
ApplyRule ==
  /\ tk = "rules"
  /\ \E m \in matches :
       /\ \A n \in matches : m[1] <= n[1]
       /\ \/ matches' = matches \ {m} /\ UNCHANGED <<tk, event>>
          \/ m[2].enabled /\ outPort /\ Raise
  /\ UNCHANGED <<portVars, arriving, queue, timer, budget, ruleVars, mapVars>>

\* A CC is put on the byte map at the channel the field gives.  A SysEx needs the
\* field when it changes the byte that is selected.
Route ==
  /\ tk = "rules" /\ matches = {}
  /\ \/ /\ byteMap /\ ~baseValid => event \notin CCs
        /\ tk' = "drain" /\ event' = None /\ UNCHANGED matches
     \/ byteMap /\ ~baseValid /\ event \notin Notes /\ Raise
  /\ UNCHANGED <<portVars, arriving, queue, timer, budget, ruleVars, mapVars>>

-----------------------------------------------------------------------------
(* The user *)

\* The window says that it is connected, or that it is not.
Show(connected) == status' = connected /\ closeFailed' = FALSE

\* _disconnect_locked: the input first, then the output.
Disconnect == inPort' = FALSE /\ outPort' = FALSE

\* A close() raises: its port stays, and so does what was to be closed behind it.
DisconnectRaises ==
  /\ \/ inPort /\ UNCHANGED inPort
     \/ outPort /\ inPort' = FALSE
  /\ closeFailed' = TRUE /\ UNCHANGED <<outPort, status>>

\* _toggle_connection of a connected tester: an exception leaves the window as it is.
ToggleOff ==
  /\ tk = "idle" /\ inPort /\ outPort
  /\ \/ Disconnect /\ Show(FALSE)
     \/ DisconnectRaises
  /\ UNCHANGED <<arriving, queue, drainVars, ruleVars, mapVars>>

\* MidiEngine.connect closes what may be left of an earlier connection.
ToggleOn ==
  /\ tk = "idle" /\ ~(inPort /\ outPort)
  /\ \/ Disconnect /\ tk' = "openOutput" /\ UNCHANGED <<status, closeFailed>>
     \/ DisconnectRaises /\ UNCHANGED tk
  /\ UNCHANGED <<arriving, queue, timer, budget, event, matches, ruleVars, mapVars>>

\* open_output, which may raise with nothing open.
OpenOutput ==
  /\ tk = "openOutput"
  /\ \/ outPort' = TRUE /\ tk' = "openInput"
     \/ tk' = "idle" /\ UNCHANGED outPort
  /\ UNCHANGED <<inPort, status, closeFailed, arriving, queue, timer, budget, event, matches,
                 ruleVars, mapVars>>

\* (mutant) the output is left open when the input cannot be opened
OpenInputOrGiveUp ==
  /\ tk = "openInput" /\ tk' = "idle"
  /\ \/ inPort' = TRUE /\ Show(TRUE)
     \/ UNCHANGED <<inPort, status, closeFailed>>
  /\ UNCHANGED <<outPort, arriving, queue, timer, budget, event, matches, ruleVars, mapVars>>

\* open_input: the tester is connected, or the except clause is next.
OpenInput ==
  /\ tk = "openInput"
  /\ \/ inPort' = TRUE /\ tk' = "idle" /\ Show(TRUE)
     \/ tk' = "rollBack" /\ UNCHANGED <<inPort, status, closeFailed>>
  /\ UNCHANGED <<outPort, arriving, queue, timer, budget, event, matches, ruleVars, mapVars>>

\* The except clause closes the output, unless that raises as well.
RollBack ==
  /\ tk = "rollBack" /\ tk' = "idle"
  /\ \/ Disconnect /\ UNCHANGED <<status, closeFailed>>
     \/ DisconnectRaises
  /\ UNCHANGED <<arriving, queue, timer, budget, event, matches, ruleVars, mapVars>>

SetRules(list) == rules' = list /\ ruleByKey' = Index(list)

AddRule(r) ==
  /\ tk = "idle" /\ Len(rules) < MaxRules
  /\ SetRules(Append(rules, r))
  /\ UNCHANGED <<portVars, arriving, queue, drainVars, mapVars>>

\* (mutant) the index is not rebuilt
DeleteFromList(i) ==
  /\ tk = "idle" /\ i \in DOMAIN rules
  /\ rules' = RemoveAt(rules, i) /\ UNCHANGED ruleByKey
  /\ UNCHANGED <<portVars, arriving, queue, drainVars, mapVars>>

DeleteRule(i) ==
  /\ tk = "idle" /\ i \in DOMAIN rules
  /\ SetRules(RemoveAt(rules, i))
  /\ UNCHANGED <<portVars, arriving, queue, drainVars, mapVars>>

DuplicateRule(i) ==
  /\ tk = "idle" /\ i \in DOMAIN rules /\ Len(rules) < MaxRules
  /\ SetRules(Append(rules, rules[i]))
  /\ UNCHANGED <<portVars, arriving, queue, drainVars, mapVars>>

\* The window of the byte map opens and closes; its field takes any text, and is
\* one variable for all windows.
EditByteMap ==
  /\ tk = "idle"
  /\ \/ byteMap' = ~byteMap /\ UNCHANGED baseValid
     \/ byteMap /\ baseValid' = ~baseValid /\ UNCHANGED byteMap
  /\ UNCHANGED <<portVars, arriving, queue, drainVars, ruleVars>>

\* A port that cannot be closed keeps the window open.
OnClose ==
  /\ tk = "idle"
  /\ \/ Disconnect /\ tk' = "gone" /\ timer' = FALSE /\ UNCHANGED <<status, closeFailed>>
     \/ DisconnectRaises /\ UNCHANGED <<tk, timer>>
  /\ UNCHANGED <<arriving, queue, budget, event, matches, ruleVars, mapVars>>

Connect == OpenOutput \/ OpenInput \/ RollBack

Drain == Tick \/ Take \/ Reschedule \/ ApplyRule \/ Route

Next ==
  \/ \E e \in Events : Receive(e)
  \/ MidiCallback
  \/ Drain \/ Connect
  \/ ToggleOff \/ ToggleOn
  \/ \E r \in RuleSet : AddRule(r)
  \/ \E i \in 1..MaxRules : DeleteRule(i) \/ DuplicateRule(i)
  \/ EditByteMap
  \/ OnClose

\* Tk runs its callbacks, and a port that is opened or closed answers.
Spec == Init /\ [][Next]_vars /\ WF_vars(Drain \/ Connect)

-----------------------------------------------------------------------------
(* Properties *)

\* Whichever open() fails, the tester holds both ports or none and its window says
\* which, as long as every close() did its work.  After one that raised it is still
\* true that no input is open without its output, nor behind a window that says
\* "disconnected"; and no port is open once the window is gone.
ConnectionWhole ==
  /\ inPort => outPort /\ status
  /\ tk \notin Connecting \cup {"gone"} /\ ~closeFailed =>
       (inPort <=> outPort) /\ (status <=> outPort)
  /\ tk = "gone" => ~outPort

\* What a message sets off is in the list the user sees, for its key, however the
\* list was edited since the connection was made or the message was queued.
FiresListedRules ==
  tk = "rules" /\ event \in Keys =>
    \E from \in 1..(Len(rules) + 1) :
      matches = {<<i, rules[i]>> : i \in {j \in from..Len(rules) : rules[j].key = event}}

\* The window stays usable under any flood of messages: every drain ends.
DrainEnds == []<>(tk \in {"idle", "gone"})

-----------------------------------------------------------------------------
(* What the documentation says and the code does not do *)

\* midi_dev_tester.py:5 "Live incoming MIDI event log": as long as the window is
\* open the queue goes on being drained.
LogIsLive == tk = "idle" => timer
=============================================================================
