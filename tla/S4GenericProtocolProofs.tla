----------------------- MODULE S4GenericProtocolProofs -----------------------
(***************************************************************************)
(* When the host's view is exact: with no deadzone and tables and modes    *)
(* that give no two sources one address.  Then the settings for which that *)
(* is so: two of the shipped tables, and every table that is finished.     *)
(***************************************************************************)
EXTENDS S4GenericProtocol, S4MappingProofs

NoDeadzone ==
  /\ InputDeadzone = 0
  /\ \A k \in DOMAIN ByteMappings : ByteMappings[k].deadzone_override \in {-1, 0}

\* No two sources of a report have a home in common.
HomesDistinct ==
  \A r \in Reports : \A i, j \in 0..(Len(r) - 1), s, t \in ModeSlots :
    \A a \in Homes(i, s) \cap Homes(j, t) : i = j /\ s = t

\* Nothing was sent before the first report, and the view is exact since.
IInv ==
  /\ previous \in Reports \cup {<<>>}
  /\ baseline \in Reports \cup {<<>>}
  /\ previous = <<>> <=> baseline = <<>>
  /\ previous = <<>> => host = <<>> /\ held = 0
  /\ previous # <<>> => held <= Len(previous) /\ held <= Len(baseline)
  /\ held \in Nat
  /\ ViewExact

-----------------------------------------------------------------------------
(* A source is sent to its homes exactly when its value changed. *)

LEMMA ByteEmission ==
  ASSUME NoDeadzone, NEW old \in Reports, NEW new \in Reports,
         NEW i \in 0..(Len(old) - 1), i < Len(new)
  PROVE  EmitAddresses(old, new, i, 0) =
           IF Value(old, i, 0) # Value(new, i, 0) THEN Homes(i, 0) ELSE {}
  <1> DEFINE v == V7(At(old, i))
             w == V7(At(new, i))
  <1>0. At(old, i) \in Byte /\ At(new, i) \in Byte
    BY ReportFacts
  <1>1. v \in 0..127 /\ w \in 0..127
    BY <1>0, V7Range
  <1>2. Delta(old, new, i) > 0 <=> v # w
    <2>1. v \in Int /\ w \in Int
      <3>1. \A n \in 0..127 : n \in Int
        OBVIOUS
      <3> QED
        BY <1>1, <3>1, Zenon
    <2> QED
      BY <2>1, DistanceFact, Zenon DEF Delta
  <1>3. \A e \in ByteMapping(i) : DeadzoneOf(e) = 0
    BY DEF ByteMapping, FirstOf, NoDeadzone, DeadzoneOf
  <1>4. {e \in ByteMapping(i) : Delta(old, new, i) > DeadzoneOf(e)} =
          IF v # w THEN ByteMapping(i) ELSE {}
    BY <1>2, <1>3
  <1>5. ByteAddresses(old, new, i) = IF v # w THEN Homes(i, 0) ELSE {}
    BY <1>2, <1>4 DEF ByteAddresses, Homes, NoDeadzone
  <1>6. Value(old, i, 0) = v /\ Value(new, i, 0) = w
    BY DEF Value
  <1> QED
    BY <1>5, <1>6 DEF EmitAddresses

LEMMA BitEmission ==
  ASSUME NEW old \in Reports, NEW new \in Reports,
         NEW i \in 0..(Len(old) - 1), i < Len(new), NEW s \in 1..8
  PROVE  EmitAddresses(old, new, i, s) =
           IF Value(old, i, s) # Value(new, i, s) THEN Homes(i, s) ELSE {}
  <1> DEFINE v == BitOf(At(old, i), s - 1)
             w == BitOf(At(new, i), s - 1)
  <1>1. v \in {0, 1} /\ w \in {0, 1}
    BY ReportFacts, BitRange, s - 1 \in 0..7
  <1>2. Value(old, i, s) # Value(new, i, s) <=> v # w
    <2>1. s # 0
      OBVIOUS
    <2>2. Invert(i, s - 1) \in BOOLEAN
      BY Zenon DEF Invert
    <2>3. /\ Value(old, i, s) = IF v = 1 <=> Invert(i, s - 1) THEN 0 ELSE 127
          /\ Value(new, i, s) = IF w = 1 <=> Invert(i, s - 1) THEN 0 ELSE 127
      BY <2>1, Zenon DEF Value
    <2> QED
      BY <1>1, <2>2, <2>3
  <1>3. i * 8 + (s - 1) = i * 8 + s - 1
    OBVIOUS
  <1>4. BitAddresses(old, new, i, s - 1) = IF v # w THEN Homes(i, s) ELSE {}
    <2>1. s # 0
      OBVIOUS
    <2>2. Homes(i, s) =
            IF BitMapping(i, s - 1) # {} THEN {MappedAddress(e) : e \in BitMapping(i, s - 1)}
            ELSE IF EmitUnmappedBit THEN {RawAddress(i * 8 + (s - 1))} ELSE {}
      BY <1>3, <2>1, Zenon DEF Homes
    <2> QED
      BY <2>2, Zenon DEF BitAddresses
  <1> QED
    BY <1>2, <1>4 DEF EmitAddresses

LEMMA Emission ==
  ASSUME NoDeadzone, NEW old \in Reports, NEW new \in Reports,
         NEW i \in 0..(Len(old) - 1), i < Len(new), NEW s \in Slots
  PROVE  EmitAddresses(old, new, i, s) =
           IF Value(old, i, s) # Value(new, i, s) THEN Homes(i, s) ELSE {}
  <1>1. CASE s = 0
    BY <1>1, ByteEmission
  <1>2. CASE s \in 1..8
    BY <1>2, BitEmission
  <1> QED
    BY <1>1, <1>2 DEF Slots

LEMMA ValueOfByte ==
  ASSUME NEW old, NEW new, NEW i, NEW s, At(old, i) = At(new, i)
  PROVE  Value(old, i, s) = Value(new, i, s)
  BY DEF Value

\* Which messages reach a home of a source.
LEMMA MessagesAt ==
  ASSUME NoDeadzone, HomesDistinct,
         NEW old \in Reports, NEW new \in Reports,
         NEW i \in Common(old, new), NEW s \in ModeSlots, NEW a \in Homes(i, s)
  PROVE  {m \in Messages(old, new) : m.address = a} =
           IF Value(old, i, s) # Value(new, i, s) THEN {Message(new, i, s, a)} ELSE {}
  <1> USE ModeSlotsRange
  <1>1. \A j \in Common(old, new) :
          j \in 0..(Len(old) - 1) /\ j \in 0..(Len(new) - 1) /\ j < Len(new)
    BY ReportFacts DEF Common
  <1>3. ASSUME NEW m \in Messages(old, new), m.address = a
        PROVE  m = Message(new, i, s, a) /\ Value(old, i, s) # Value(new, i, s)
    <2>1. PICK j \in Common(old, new), t \in ModeSlots :
            \E b \in EmitAddresses(old, new, j, t) : m = Message(new, j, t, b)
      BY <1>3 DEF Messages
    <2>2. a \in EmitAddresses(old, new, j, t) /\ m = Message(new, j, t, a)
      BY <2>1, <1>3 DEF Message
    <2>3. a \in Homes(j, t) /\ Value(old, j, t) # Value(new, j, t)
      BY <1>1, <2>2, Emission
    <2>4. i = j /\ s = t
      BY <1>1, <2>3 DEF HomesDistinct
    <2> QED
      BY <2>2, <2>3, <2>4
  <1>4. ASSUME Value(old, i, s) # Value(new, i, s)
        PROVE  Message(new, i, s, a) \in Messages(old, new)
    <2>1. a \in EmitAddresses(old, new, i, s)
      BY <1>1, <1>4, Emission
    <2>2. At(old, i) # At(new, i)
      BY <1>4, ValueOfByte
    <2> DEFINE changed == {j \in Common(old, new) : At(old, j) # At(new, j)} \X ModeSlots
               Of(x) == {Message(new, x[1], x[2], b) : b \in EmitAddresses(old, new, x[1], x[2])}
    <2>3. <<i, s>> \in changed
      BY <2>2
    <2>4. Message(new, i, s, a) \in Of(<<i, s>>)
      BY <2>1
    <2>5. Messages(old, new) = UNION {Of(x) : x \in changed}
      BY Zenon DEF Messages
    <2> HIDE DEF changed, Of
    <2> QED
      BY <2>3, <2>4, <2>5, Zenon
  <1>5. Message(new, i, s, a).address = a
    BY DEF Message
  <1> QED
    BY <1>3, <1>4, <1>5

-----------------------------------------------------------------------------
(* The host's view *)

\* What the host holds for a home of a source after a report.
LEMMA ReceivedAt ==
  ASSUME NoDeadzone, HomesDistinct,
         NEW old \in Reports, NEW new \in Reports, NEW view,
         NEW i \in Common(old, new), NEW s \in ModeSlots, NEW a \in Homes(i, s)
  PROVE  LET now == Received(view, Messages(old, new))
             changed == Value(old, i, s) # Value(new, i, s)
         IN /\ a \in DOMAIN now <=> a \in DOMAIN view \/ changed
            /\ changed => now[a] = Value(new, i, s)
            /\ ~changed /\ a \in DOMAIN view => now[a] = view[a]
  <1> DEFINE msgs == Messages(old, new)
             changed == Value(old, i, s) # Value(new, i, s)
             For(b) == {m \in msgs : m.address = b}
             Latest(b) == CHOOSE m \in For(b) : \A n \in For(b) : n.at <= m.at
             now == Received(view, msgs)
  <1>1. For(a) = IF changed THEN {Message(new, i, s, a)} ELSE {}
    BY MessagesAt
  <1>2. now = [b \in DOMAIN view \cup {m.address : m \in msgs} |->
                 IF For(b) # {} THEN Latest(b).value ELSE view[b]]
    BY DEF Received
  <1>3. a \in {m.address : m \in msgs} <=> For(a) # {}
    OBVIOUS
  <1>4. a \in DOMAIN now <=> a \in DOMAIN view \/ changed
    BY <1>1, <1>2, <1>3
  <1>5. ASSUME changed PROVE now[a] = Value(new, i, s)
    <2>1. Message(new, i, s, a).at = 9 * i + s /\ Message(new, i, s, a).value = Value(new, i, s)
      BY DEF Message
    <2>2. i \in Int /\ s \in Int
      BY ModeSlotsRange, ReportFacts DEF Slots, Common
    <2>3. Latest(a) = Message(new, i, s, a)
      BY <1>1, <1>5, <2>1, <2>2
    <2> QED
      BY <1>1, <1>2, <1>4, <1>5, <2>1, <2>3
  <1>6. ASSUME ~changed, a \in DOMAIN view PROVE now[a] = view[a]
    BY <1>1, <1>2, <1>6
  <1> HIDE DEF now, changed
  <1>7. /\ a \in DOMAIN now <=> a \in DOMAIN view \/ changed
        /\ changed => now[a] = Value(new, i, s)
        /\ ~changed /\ a \in DOMAIN view => now[a] = view[a]
    BY <1>4, <1>5, <1>6
  <1> QED
    BY <1>7 DEF now, changed

LEMMA InitInv == Init => IInv
  BY DEF Init, IInv, ViewExact

LEMMA NextInv ==
  ASSUME NoDeadzone, HomesDistinct, IInv, [Next]_vars
  PROVE  IInv'
  <1>1. ASSUME NEW report \in Reports, DecodeInput(report), FirstReport(report)
        PROVE  IInv'
    BY <1>1, ReportFacts DEF DecodeInput, FirstReport, IInv, ViewExact
  <1>2. ASSUME NEW report \in Reports, DecodeInput(report), LaterReport(report)
        PROVE  IInv'
    <2>1. /\ previous \in Reports /\ baseline \in Reports
          /\ previous' = report /\ baseline' = baseline
          /\ host' = Received(host, Messages(previous, report))
          /\ held' = IF Len(report) < held THEN Len(report) ELSE held
      BY <1>2 DEF DecodeInput, LaterReport, IInv
    <2>2. /\ Len(report) \in Nat /\ report # <<>> /\ baseline # <<>> /\ previous # <<>>
          /\ held \in Nat /\ held <= Len(previous) /\ held <= Len(baseline)
          /\ Len(previous) \in Nat /\ Len(baseline) \in Nat
      BY <2>1, ReportFacts DEF IInv
    <2>3. PICK now \in Nat :
            now = held' /\ now <= held /\ now <= Len(report) /\ now <= Len(baseline)
      BY <2>1, <2>2
    <2>4. ASSUME NEW i \in 0..(now - 1)
          PROVE  i \in 0..(held - 1) /\ i \in Common(previous, report)
      <3>1. i \in Nat /\ i < now
        BY <2>4
      <3>2. /\ i \in Nat /\ i < held /\ i < Len(previous) /\ i < Len(report)
        BY <2>2, <2>3, <3>1
      <3>3. i \in Common(previous, report)
        BY <2>2, <3>2 DEF Common
      <3> QED
        BY <2>2, <3>2, <3>3
    <2>5. ASSUME NEW i \in 0..(now - 1), NEW s \in ModeSlots, NEW a \in Homes(i, s)
          PROVE  IF a \in DOMAIN host'
                 THEN host'[a] = Value(report, i, s)
                 ELSE Value(baseline, i, s) = Value(report, i, s)
      <3>1. IF a \in DOMAIN host
            THEN host[a] = Value(previous, i, s)
            ELSE Value(baseline, i, s) = Value(previous, i, s)
        BY <2>4 DEF IInv, ViewExact
      <3>2. i \in Common(previous, report)
        BY <2>4
      <3> QED
        BY <2>1, <3>1, <3>2, ReceivedAt
    <2>6. ViewExact'
      BY <2>1, <2>3, <2>5 DEF ViewExact
    <2> QED
      BY <2>1, <2>2, <2>3, <2>6 DEF IInv
  <1>3. CASE UNCHANGED vars
    BY <1>3 DEF vars, IInv, ViewExact
  <1> QED
    BY <1>1, <1>2, <1>3 DEF Next, DecodeInput

\* However the controller moves, and whichever reports come short, the host's view of
\* the bytes that all of them held is exact.
THEOREM ExactView ==
  ASSUME NoDeadzone, HomesDistinct
  PROVE  Spec => []ViewExact
  <1>1. Init => IInv
    BY InitInv
  <1>2. IInv /\ [Next]_vars => IInv'
    BY NextInv
  <1>3. IInv => ViewExact
    BY DEF IInv
  <1> QED
    BY <1>1, <1>2, <1>3, PTL DEF Spec

-----------------------------------------------------------------------------
(* For all tables, modes and deadzones *)

LEMMA ReceivedTyped ==
  ASSUME NEW view, DOMAIN view \subseteq Addresses, \A a \in DOMAIN view : view[a] \in 0..127,
         NEW old \in Reports, NEW new \in Reports
  PROVE  LET now == Received(view, Messages(old, new))
         IN DOMAIN now \subseteq Addresses /\ \A a \in DOMAIN now : now[a] \in 0..127
  <1> DEFINE msgs == Messages(old, new)
             For(b) == {m \in msgs : m.address = b}
             Latest(b) == CHOOSE m \in For(b) : \A n \in For(b) : n.at <= m.at
             now == Received(view, msgs)
  <1>1. now = [b \in DOMAIN view \cup {m.address : m \in msgs} |->
                 IF For(b) # {} THEN Latest(b).value ELSE view[b]]
    BY DEF Received
  <1>2. msgs \subseteq CCMessage
    BY MessagesTyped
  <1>3. ASSUME NEW b, For(b) # {} PROVE Latest(b).value \in 0..127
    <2>1. For(b) \subseteq CCMessage
      BY <1>2
    <2>2. 9 * Len(new) \in Nat /\ \A m \in For(b) : m.at <= 9 * Len(new)
      BY MessagesTyped, ReportFacts
    <2>3. \E m \in For(b) : \A n \in For(b) : n.at <= m.at
      <3> HIDE DEF For
      <3> QED
        BY <1>3, <2>1, <2>2, LatestExists
    <2>4. Latest(b) \in For(b)
      <3> HIDE DEF For
      <3> QED
        BY <2>3
    <2> QED
      BY <2>1, <2>4 DEF CCMessage, Controllers
  <1>4. {m.address : m \in msgs} \subseteq Addresses
    BY <1>2 DEF CCMessage
  <1>5. DOMAIN now = DOMAIN view \cup {m.address : m \in msgs}
    BY <1>1
  <1>6. ASSUME NEW a \in DOMAIN now PROVE now[a] \in 0..127
    <2>1. CASE For(a) # {}
      BY <1>1, <1>3, <1>5, <2>1, Zenon
    <2>2. CASE For(a) = {}
      <3>1. a \in DOMAIN view
        BY <1>5, <2>2
      <3>2. now[a] = view[a]
        BY <1>1, <1>5, <2>2, Zenon
      <3> QED
        BY <3>1, <3>2
    <2> QED
      BY <2>1, <2>2
  <1> HIDE DEF now
  <1>7. DOMAIN now \subseteq Addresses /\ \A a \in DOMAIN now : now[a] \in 0..127
    BY <1>4, <1>5, <1>6
  <1> QED
    BY <1>7 DEF now

LEMMA NextTyped == TypeOK /\ [Next]_vars => TypeOK'
  <1> SUFFICES ASSUME TypeOK, [Next]_vars PROVE TypeOK'
    OBVIOUS
  <1>1. ASSUME NEW report \in Reports, DecodeInput(report), FirstReport(report)
        PROVE  TypeOK'
    BY <1>1 DEF DecodeInput, FirstReport, TypeOK
  <1>2. ASSUME NEW report \in Reports, DecodeInput(report), LaterReport(report)
        PROVE  TypeOK'
    <2>1. /\ previous \in Reports /\ previous' = report /\ baseline' = baseline
          /\ host' = Received(host, Messages(previous, report))
      BY <1>2 DEF DecodeInput, LaterReport, TypeOK
    <2>2. held' \in Nat
      BY <1>2, ReportFacts DEF LaterReport, TypeOK
    <2> QED
      BY <2>1, <2>2, ReceivedTyped DEF TypeOK
  <1>3. CASE UNCHANGED vars
    BY <1>3 DEF vars, TypeOK
  <1> QED
    BY <1>1, <1>2, <1>3 DEF Next, DecodeInput

\* The report kept is one that was read, and the host is sent CCs of 16 channels
\* with values of seven bits, whatever the tables say.
THEOREM TypeCorrect == Spec => []TypeOK
  <1>1. Init => TypeOK
    BY DEF Init, TypeOK
  <1> QED
    BY <1>1, NextTyped, PTL DEF Spec

\* When bits are decoded and those without an entry are sent too, as in the
\* shipped build, no byte changes unheard.
THEOREM ChangesReported ==
  ASSUME EmitUnmappedBit, DecodeMode # "byte"
  PROVE  Spec => EveryChangeReported
  <1> DEFINE Heard == previous # <<>> =>
               \A i \in Common(previous, previous') : At(previous, i) # At(previous', i) =>
                 \E m \in Messages(previous, previous') : m.at \div 9 = i
  <1>1. ASSUME TypeOK, [Next]_vars PROVE [Heard]_vars
    <2>1. ASSUME NEW report \in Reports, DecodeInput(report), previous # <<>> PROVE Heard
      <3>1. previous \in Reports /\ previous' = report
        BY <1>1, <2>1 DEF DecodeInput, TypeOK
      <3> QED
        BY <3>1, ChangeSpoken
    <2> QED
      BY <1>1, <2>1 DEF Next
  <1> QED
    BY <1>1, TypeCorrect, PTL DEF Spec, EveryChangeReported

\* A source is sent to its homes or not at all, unless it falls through to the raw
\* mapping below a deadzone of its own.
LEMMA EmissionAtHome ==
  ASSUME EmitUnmappedByte =>
           \A k \in DOMAIN ByteMappings : DeadzoneOf(ByteMappings[k]) <= InputDeadzone,
         NEW old \in Reports, NEW new \in Reports,
         NEW i \in Common(old, new), NEW s \in Slots
  PROVE  EmitAddresses(old, new, i, s) \subseteq Homes(i, s)
  <1>1. i \in Nat /\ i \in 0..(Len(old) - 1) /\ i \in 0..(Len(new) - 1)
    BY ReportFacts DEF Common
  <1>2. CASE s = 0
    <2>1. Delta(old, new, i) \in Int
      <3>1. V7(At(old, i)) \in 0..127 /\ V7(At(new, i)) \in 0..127
        BY <1>1, ReportFacts, V7Range
      <3>2. \A v, w \in 0..127 : Distance(v, w) \in Int
        BY DEF Distance
      <3> QED
        BY <3>1, <3>2, Zenon DEF Delta
    <2>2. \A e \in ByteMapping(i) :
            DeadzoneOf(e) \in Int /\ (EmitUnmappedByte => DeadzoneOf(e) <= InputDeadzone)
      BY TablesAssumption, OptionsAssumption DEF ByteMapping, FirstOf, DeadzoneOf
    <2>3. ASSUME EmitUnmappedByte, Delta(old, new, i) > InputDeadzone,
                 NEW e \in ByteMapping(i)
          PROVE  Delta(old, new, i) > DeadzoneOf(e)
      BY <2>1, <2>2, <2>3, OptionsAssumption
    <2>4. ByteAddresses(old, new, i) \subseteq Homes(i, 0)
      BY <2>3 DEF ByteAddresses, Homes
    <2> QED
      BY <1>2, <2>4 DEF EmitAddresses
  <1>3. CASE s \in 1..8
    <2>1. i * 8 + (s - 1) = i * 8 + s - 1 /\ s # 0
      BY <1>1, <1>3
    <2>2. BitAddresses(old, new, i, s - 1) \subseteq Homes(i, s)
      BY <2>1, Zenon DEF BitAddresses, Homes
    <2> QED
      BY <2>1, <2>2 DEF EmitAddresses
  <1> QED
    BY <1>2, <1>3 DEF Slots

\* A control is not heard under another one's number: a message goes to a home of the
\* byte or the bit it speaks for.  With raw bytes on, as they are shipped, this needs
\* a table without a deadzone above the global one: inside its own deadzone a mapped
\* byte is sent to its raw number (s4_generic_protocol.cpp:147).
OnlyHomes ==
  [][previous # <<>> =>
       \A m \in Messages(previous, previous') : m.address \in Homes(m.at \div 9, m.at % 9)]_vars

\* Where that fall-through cannot happen, every message goes home.
THEOREM HomesOnly ==
  ASSUME EmitUnmappedByte =>
           \A k \in DOMAIN ByteMappings : DeadzoneOf(ByteMappings[k]) <= InputDeadzone
  PROVE  Spec => OnlyHomes
  <1> DEFINE Home == previous # <<>> =>
               \A m \in Messages(previous, previous') :
                 m.address \in Homes(m.at \div 9, m.at % 9)
  <1>1. ASSUME NEW old \in Reports, NEW new \in Reports, NEW m \in Messages(old, new)
        PROVE  m.address \in Homes(m.at \div 9, m.at % 9)
    <2>1. PICK i \in Common(old, new), s \in ModeSlots :
            \E a \in EmitAddresses(old, new, i, s) : m = Message(new, i, s, a)
      BY DEF Messages
    <2>2. m.address \in EmitAddresses(old, new, i, s) /\ m.at = 9 * i + s
      BY <2>1 DEF Message
    <2>3. i \in Nat /\ s \in 0..8
      BY ReportFacts, ModeSlotsRange DEF Common, Slots
    <2>4. m.at \div 9 = i /\ m.at % 9 = s
      BY <2>2, <2>3
    <2>5. m.address \in Homes(i, s)
      BY <2>2, ModeSlotsRange, EmissionAtHome
    <2> QED
      BY <2>4, <2>5
  <1>2. ASSUME TypeOK, [Next]_vars PROVE [Home]_vars
    <2>1. ASSUME NEW report \in Reports, DecodeInput(report), previous # <<>> PROVE Home
      <3>1. previous \in Reports /\ previous' = report
        BY <1>2, <2>1 DEF DecodeInput, TypeOK
      <3> QED
        BY <3>1, <1>1
    <2> QED
      BY <1>2, <2>1 DEF Next
  <1> QED
    BY <1>2, TypeCorrect, PTL DEF Spec, OnlyHomes

-----------------------------------------------------------------------------
(* A finished map *)

Entries(table) == {table[k] : k \in DOMAIN table}

\* s4_generic_protocol.cpp:28: the raw mappings are off once the custom map is
\* complete.  No two bytes or bits of it share a controller.
FinishedMap ==
  /\ ~EmitUnmappedByte /\ ~EmitUnmappedBit
  /\ \A e, f \in Entries(ByteMappings) : MappedAddress(e) = MappedAddress(f) => e.byte = f.byte
  /\ \A e, f \in Entries(BitMappings) :
       MappedAddress(e) = MappedAddress(f) => e.byte = f.byte /\ e.bit = f.bit
  /\ \A e \in Entries(ByteMappings), f \in Entries(BitMappings) :
       MappedAddress(e) # MappedAddress(f)

LEMMA FinishedHomes ==
  ASSUME FinishedMap
  PROVE  HomesDistinct
  <1> SUFFICES ASSUME NEW i \in Nat, NEW j \in Nat, NEW s \in Slots, NEW t \in Slots,
                      NEW a \in Homes(i, s) \cap Homes(j, t)
               PROVE  i = j /\ s = t
    <2>1. \A r \in Reports : \A i \in 0..(Len(r) - 1) : i \in Nat
      OBVIOUS
    <2> QED
      BY <2>1, ModeSlotsRange DEF HomesDistinct
  <1>1. \A n \in Nat, u \in Slots :
          /\ u = 0 => Homes(n, u) = {MappedAddress(e) : e \in ByteMapping(n)}
          /\ u # 0 => Homes(n, u) = {MappedAddress(e) : e \in BitMapping(n, u - 1)}
    BY Zenon DEF Homes, FinishedMap
  <1>2. \A n : \A e \in ByteMapping(n) : e \in Entries(ByteMappings) /\ e.byte = n
    BY DEF ByteMapping, FirstOf, Entries
  <1>3. \A n, b : \A e \in BitMapping(n, b) : e \in Entries(BitMappings) /\ e.byte = n /\ e.bit = b
    BY DEF BitMapping, FirstOf, Entries
  <1>4. CASE s = 0 /\ t = 0
    <2>1. PICK e \in ByteMapping(i), f \in ByteMapping(j) : a = MappedAddress(e) /\ a = MappedAddress(f)
      BY <1>1, <1>4
    <2> QED
      <3>1. e \in Entries(ByteMappings) /\ f \in Entries(ByteMappings) /\ e.byte = i /\ f.byte = j
        BY <1>2
      <3>2. MappedAddress(e) = MappedAddress(f)
        BY <2>1, Zenon
      <3>3. e.byte = f.byte
        BY <3>1, <3>2, Zenon DEF FinishedMap
      <3> QED
        BY <3>1, <3>3, <1>4
  <1>5. CASE s # 0 /\ t # 0
    <2>1. PICK e \in BitMapping(i, s - 1), f \in BitMapping(j, t - 1) :
            a = MappedAddress(e) /\ a = MappedAddress(f)
      BY <1>1, <1>5
    <2>2. i = j /\ s - 1 = t - 1
      <3>1. /\ e \in Entries(BitMappings) /\ f \in Entries(BitMappings)
            /\ e.byte = i /\ e.bit = s - 1 /\ f.byte = j /\ f.bit = t - 1
        BY <1>3
      <3>2. MappedAddress(e) = MappedAddress(f)
        BY <2>1, Zenon
      <3>3. e.byte = f.byte /\ e.bit = f.bit
        BY <3>1, <3>2, Zenon DEF FinishedMap
      <3> QED
        BY <3>1, <3>3
    <2> QED
      BY <2>2 DEF Slots
  <1>6. ASSUME NEW n \in Nat, NEW m \in Nat, NEW u \in Slots, u # 0,
               a \in Homes(n, 0), a \in Homes(m, u)
        PROVE  FALSE
    <2>1. PICK e \in ByteMapping(n), f \in BitMapping(m, u - 1) :
            a = MappedAddress(e) /\ a = MappedAddress(f)
      BY <1>1, <1>6, 0 \in Slots DEF Slots
    <2> QED
      BY <1>2, <1>3, <2>1, Zenon DEF FinishedMap
  <1> QED
    BY <1>4, <1>5, <1>6

\* A custom map that is finished, whatever it maps and in every mode: the host's view of
\* each control in it is exact.
THEOREM FinishedMapExact ==
  ASSUME NoDeadzone, FinishedMap
  PROVE  Spec => []ViewExact
  BY FinishedHomes, ExactView

-----------------------------------------------------------------------------
(* The shipped tables *)

LEMMA RawChannel ==
  ASSUME NEW n \in Nat, BaseChannel \in 1..15, n < 128 * (16 - BaseChannel)
  PROVE  RawAddress(n)[1] # 0
  <1>1. n % 65536 = n /\ n \div 128 \in Nat /\ n \div 128 < 16 - BaseChannel
    OBVIOUS
  <1>2. (BaseChannel + n \div 128) % 16 = BaseChannel + n \div 128
    BY <1>1
  <1>3. RawAddress(n)[1] = BaseChannel + n \div 128
    BY <1>1, <1>2 DEF RawAddress
  <1> QED
    BY <1>1, <1>3

\* A mapped bit is on the first channel, and its CC is no other bit's.
LEMMA ShippedEntry ==
  ASSUME BitMappings = ShippedBits, NEW i, NEW bit, NEW e \in BitMapping(i, bit)
  PROVE  /\ MappedAddress(e) = <<0, e.cc>>
         /\ e \in {ShippedBits[k] : k \in 1..5} /\ e.byte = i /\ e.bit = bit
  <1>1. PICK k \in DOMAIN ShippedBits :
          e = ShippedBits[k] /\ ShippedBits[k].byte = i /\ ShippedBits[k].bit = bit
    BY DEF BitMapping, FirstOf
  <1>2. k \in 1..5
    BY DEF ShippedBits
  <1>3. e.channel = 1 /\ e.cc % 128 = e.cc
    BY <1>1, <1>2 DEF ShippedBits
  <1> QED
    BY <1>1, <1>2, <1>3 DEF MappedAddress

LEMMA ShippedDistinct ==
  \A e, f \in {ShippedBits[k] : k \in 1..5} : e.cc = f.cc => e.byte = f.byte /\ e.bit = f.bit
  BY DEF ShippedBits

LEMMA ByteHomes ==
  ASSUME DecodeMode = "byte", ByteMappings = <<>>, \A r \in Reports : Len(r) <= 2048
  PROVE  HomesDistinct
  <1>1. ModeSlots = {0}
    BY DEF ModeSlots
  <1>2. \A i : ByteMapping(i) = {}
    BY DEF ByteMapping, FirstOf
  <1>3. \A i : Homes(i, 0) \subseteq {RawAddress(i)}
    BY <1>2 DEF Homes
  <1>4. ASSUME NEW r \in Reports PROVE \A i \in 0..(Len(r) - 1) : i \in Numbers
    <2>1. Len(r) \in Nat /\ Len(r) <= 2048
      BY ReportFacts
    <2> QED
      BY <2>1 DEF Numbers
  <1> SUFFICES ASSUME NEW r \in Reports,
                      NEW i \in 0..(Len(r) - 1), NEW j \in 0..(Len(r) - 1),
                      NEW s \in {0}, NEW t \in {0},
                      NEW a \in Homes(i, s) \cap Homes(j, t)
               PROVE  i = j /\ s = t
    BY <1>1 DEF HomesDistinct
  <1>5. a = RawAddress(i) /\ a = RawAddress(j)
    BY <1>3
  <1>6. i \in Numbers /\ j \in Numbers /\ RawAddress(i) = RawAddress(j)
    BY <1>4, <1>5
  <1>7. i = j
    BY <1>6, RawAddressDistinct
  <1> QED
    BY <1>7

\* In byte mode with no deadzone, for reports of at most 2048 bytes, the host's view is exact on every base channel: the channel overflow
\* of the raw numbers never makes two bytes share a CC.
THEOREM ByteModeExact ==
  ASSUME DecodeMode = "byte", ByteMappings = ShippedBytes, InputDeadzone = 0,
         \A r \in Reports : Len(r) <= 2048
  PROVE  Spec => []ViewExact
  <1>1. ByteMappings = <<>>
    BY DEF ShippedBytes
  <1>2. NoDeadzone
    BY <1>1 DEF NoDeadzone
  <1>3. HomesDistinct
    BY <1>1, ByteHomes
  <1> QED
    BY <1>2, <1>3, ExactView

LEMMA BitHomes ==
  ASSUME DecodeMode = "bit", BitMappings = ShippedBits, BaseChannel \in 1..15,
         \A r \in Reports : 8 * Len(r) <= 128 * (16 - BaseChannel)
  PROVE  HomesDistinct
  <1> SUFFICES ASSUME NEW r \in Reports,
                      NEW i \in 0..(Len(r) - 1), NEW j \in 0..(Len(r) - 1),
                      NEW s \in 1..8, NEW t \in 1..8,
                      NEW a \in Homes(i, s) \cap Homes(j, t)
               PROVE  i = j /\ s = t
    BY DEF HomesDistinct, ModeSlots
  <1> DEFINE m == i * 8 + s - 1
             n == j * 8 + t - 1
             Bit(k, u) == {MappedAddress(e) : e \in BitMapping(k, u - 1)}
  <1>1. /\ m \in Nat /\ m < 128 * (16 - BaseChannel) /\ m \in Numbers
        /\ n \in Nat /\ n < 128 * (16 - BaseChannel) /\ n \in Numbers
    BY ReportFacts DEF Numbers
  <1>2. /\ a \in Bit(i, s) \/ a = RawAddress(m)
        /\ a \in Bit(j, t) \/ a = RawAddress(n)
    <2>1. s # 0 /\ t # 0
      OBVIOUS
    <2> QED
      BY <2>1, Zenon DEF Homes
  <1>3. a \in Bit(i, s) \/ a \in Bit(j, t) => a[1] = 0
    BY ShippedEntry
  <1>4. a = RawAddress(m) \/ a = RawAddress(n) => a[1] # 0
    BY <1>1, RawChannel
  <1>5. CASE a = RawAddress(m) /\ a = RawAddress(n)
    <2>1. m = n
      <3> HIDE DEF m, n
      <3> QED
        BY <1>1, <1>5, RawAddressDistinct, Zenon
    <2>2. i \in Int /\ j \in Int
      OBVIOUS
    <2> QED
      BY <2>1, <2>2
  <1>6. CASE a \in Bit(i, s) /\ a \in Bit(j, t)
    <2>1. PICK e \in BitMapping(i, s - 1) : a = MappedAddress(e)
      BY <1>6
    <2>2. PICK f \in BitMapping(j, t - 1) : a = MappedAddress(f)
      BY <1>6
    <2>3. e.cc = f.cc
      <3>1. MappedAddress(e) = <<0, e.cc>> /\ MappedAddress(f) = <<0, f.cc>>
        BY ShippedEntry
      <3>2. <<0, e.cc>> = <<0, f.cc>>
        BY <2>1, <2>2, <3>1, Zenon
      <3> QED
        BY <3>2
    <2>4. i = j /\ s - 1 = t - 1
      BY <2>3, ShippedEntry, ShippedDistinct
    <2> QED
      BY <2>4
  <1> QED
    BY <1>2, <1>3, <1>4, <1>5, <1>6

\* In bit mode with the shipped table the host's view is exact from the second
\* base channel on, as long as the raw bits stay below channel 17: the mapped
\* buttons have the first channel to themselves.
THEOREM BitModeExact ==
  ASSUME DecodeMode = "bit", BitMappings = ShippedBits, ByteMappings = ShippedBytes,
         InputDeadzone = 0, BaseChannel \in 1..15,
         \A r \in Reports : 8 * Len(r) <= 128 * (16 - BaseChannel)
  PROVE  Spec => []ViewExact
  <1>1. NoDeadzone
    BY DEF NoDeadzone, ShippedBytes
  <1>2. HomesDistinct
    BY BitHomes
  <1> QED
    BY <1>1, <1>2, ExactView
=============================================================================
