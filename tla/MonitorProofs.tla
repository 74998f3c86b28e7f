---------------------------- MODULE MonitorProofs ----------------------------
(***************************************************************************)
(* The byte map shows the controller: what a raw packet and a raw CC say   *)
(* is what the bridge meant, and so, whatever is lost, unplugged or set in *)
(* between, is what the window shows once nothing is on its way.           *)
(***************************************************************************)
EXTENDS Monitor, S4MappingProofs

-----------------------------------------------------------------------------
(* A byte through two nibbles *)

LEMMA Nibbles ==
  \A b \in Byte : /\ High(b) \in 0..15 /\ Low(b) \in 0..15
                  /\ High(b) * 16 + Low(b) = b
  BY DEF Byte, High, Low

\* What the tester unpacks is the packet.
LEMMA RawRoundTrip ==
  ASSUME NEW r \in Reports
  PROVE  /\ RawData(r) \in Seq(Controllers)
         /\ IsRaw(RawData(r))
         /\ RawLength(RawData(r)) = Len(r)
         /\ \A i \in 0..(Len(r) - 1) : RawByte(RawData(r), i) = At(r, i)
  <1> DEFINE n == Len(r)
             d == RawData(r)
             nibbles == [k \in 1..(2 * n) |->
                           IF k % 2 = 1 THEN High(r[(k + 1) \div 2]) ELSE Low(r[k \div 2])]
  <1>1. n \in Nat \ {0} /\ \A k \in 1..n : r[k] \in Byte
    <2>1. r \in Seq(Byte) /\ r # <<>>
      BY ReportsAssumption
    <2> QED
      BY <2>1, EmptySeq
  <1>2. nibbles \in Seq(Controllers) /\ Len(nibbles) = 2 * n
    <2>1. ASSUME NEW k \in 1..(2 * n) PROVE nibbles[k] \in Controllers
      <3>1. 0..15 \subseteq Controllers
        BY DEF Controllers
      <3>2. CASE k % 2 = 1
        <4>1. (k + 1) \div 2 \in 1..n
          BY <1>1, <3>2
        <4> QED
          BY <1>1, <3>1, <3>2, <4>1, Nibbles
      <3>3. CASE k % 2 # 1
        <4>1. k \div 2 \in 1..n
          BY <1>1, <3>3
        <4> QED
          BY <1>1, <3>1, <3>3, <4>1, Nibbles
      <3> QED
        BY <3>2, <3>3
    <2>2. 2 * n \in Nat
      BY <1>1
    <2> QED
      BY <2>1, <2>2
  <1>3. RawHeader \in Seq(Controllers) /\ Len(RawHeader) = 4
    BY DEF RawHeader, Controllers
  <1>4. d = RawHeader \o nibbles
    BY DEF RawData
  <1> HIDE DEF nibbles, d
  <1>5. /\ d \in Seq(Controllers) /\ Len(d) = 4 + 2 * n
        /\ \A k \in 1..(4 + 2 * n) : d[k] = IF k <= 4 THEN RawHeader[k] ELSE nibbles[k - 4]
    <2> HIDE DEF n
    <2>1. /\ RawHeader \o nibbles \in Seq(Controllers)
          /\ Len(RawHeader \o nibbles) = Len(RawHeader) + Len(nibbles)
          /\ \A k \in 1..(Len(RawHeader) + Len(nibbles)) : (RawHeader \o nibbles)[k] =
                  IF k <= Len(RawHeader) THEN RawHeader[k] ELSE nibbles[k - Len(RawHeader)]
      BY <1>2, <1>3, ConcatProperties
    <2> QED
      BY <1>2, <1>3, <1>4, <2>1, Zenon
  <1>6. \A k \in 1..4 : d[k] = RawHeader[k]
    BY <1>1, <1>5
  <1>7. \A k \in 1..(2 * n) : d[k + 4] = nibbles[k]
    <2>1. ASSUME NEW k \in 1..(2 * n) PROVE d[k + 4] = nibbles[k]
      <3>1. k + 4 \in 1..(4 + 2 * n) /\ ~(k + 4 <= 4) /\ k + 4 - 4 = k
        BY <1>1
      <3> QED
        BY <1>5, <3>1
    <2> QED
      BY <2>1
  <1>8. SubSeq(d, 1, 4) = RawHeader
    <2>1. SubSeq(d, 1, 4) \in Seq(Controllers) /\ Len(SubSeq(d, 1, 4)) = 4
      BY <1>1, <1>5
    <2>2. \A k \in 1..4 : SubSeq(d, 1, 4)[k] = d[k]
      BY <1>1, <1>5
    <2> HIDE DEF n
    <2> QED
      BY <1>3, <1>6, <2>1, <2>2, SeqEqual
  <1>9. IsRaw(d) /\ RawLength(d) = n
    BY <1>1, <1>5, <1>8 DEF IsRaw, RawLength
  <1>10. ASSUME NEW i \in 0..(n - 1) PROVE RawByte(d, i) = At(r, i)
    <2>1. 2 * i + 1 \in 1..(2 * n) /\ 2 * i + 2 \in 1..(2 * n) /\ i + 1 \in 1..n
      BY <1>1
    <2>2. d[2 * i + 5] = nibbles[2 * i + 1] /\ d[2 * i + 6] = nibbles[2 * i + 2]
      <3>1. 2 * i + 1 + 4 = 2 * i + 5 /\ 2 * i + 2 + 4 = 2 * i + 6
        OBVIOUS
      <3> QED
        BY <1>7, <2>1, <3>1
    <2>3. /\ (2 * i + 1) % 2 = 1 /\ (2 * i + 1 + 1) \div 2 = i + 1
          /\ (2 * i + 2) % 2 # 1 /\ (2 * i + 2) \div 2 = i + 1
      BY <1>1
    <2>4. nibbles[2 * i + 1] = High(r[i + 1]) /\ nibbles[2 * i + 2] = Low(r[i + 1])
      BY <2>1, <2>3 DEF nibbles
    <2>5. High(r[i + 1]) * 16 + Low(r[i + 1]) = r[i + 1]
      BY <1>1, <2>1, Nibbles
    <2> QED
      BY <2>2, <2>4, <2>5 DEF RawByte, At
  <1>11. /\ d \in Seq(Controllers) /\ IsRaw(d) /\ RawLength(d) = n
         /\ \A i \in 0..(n - 1) : RawByte(d, i) = At(r, i)
    BY <1>5, <1>9, <1>10
  <1> QED
    BY <1>11 DEF d

\* With its base channel set as the bridge's, the map puts the CC of a byte in the
\* place of that byte, for as many bytes as the 16 channels have room for.
LEMMA RouteInverts ==
  ASSUME mapBase = BaseChannel + 1, NEW n \in Numbers
  PROVE  RouteIndex(RawAddress(n)) = n
  <1> DEFINE q == n \div 128
  <1>1. n % 65536 = n /\ q \in Nibble /\ n = 128 * q + (n % 128)
    BY Split
  <1>2. BaseChannel \in Nibble
    BY OptionsAssumption DEF Nibble
  <1>3. RawAddress(n) = <<(BaseChannel + q) % 16, n % 128>>
    BY <1>1 DEF RawAddress
  <1>4. (((BaseChannel + q) % 16) + 1 - mapBase) % 16 = q
    <2> HIDE DEF q
    <2>1. \A x \in 0..30 : x % 16 = IF x < 16 THEN x ELSE x - 16
      OBVIOUS
    <2>2. \A x \in -15..15 : x % 16 = IF x >= 0 THEN x ELSE x + 16
      OBVIOUS
    <2>3. BaseChannel + q \in 0..30 /\ BaseChannel \in 0..15 /\ q \in 0..15
      BY <1>1, <1>2 DEF Nibble
    <2>4. (BaseChannel + q) % 16 = IF BaseChannel + q < 16 THEN BaseChannel + q
                                   ELSE BaseChannel + q - 16
      BY <2>1, <2>3
    <2>5. ((BaseChannel + q) % 16) - BaseChannel = IF BaseChannel + q < 16 THEN q ELSE q - 16
      BY <2>3, <2>4
    <2>6. ((BaseChannel + q) % 16) + 1 - mapBase \in -15..15
      BY <2>3, <2>4
    <2>7. ((BaseChannel + q) % 16) + 1 - mapBase = ((BaseChannel + q) % 16) - BaseChannel
      BY <2>3, <2>4
    <2> QED
      BY <2>2, <2>3, <2>5, <2>6, <2>7
  <1> HIDE DEF q
  <1>5. RouteIndex(RawAddress(n)) = 128 * q + (n % 128)
    BY <1>1, <1>3, <1>4 DEF RouteIndex, Nibble
  <1> QED
    BY <1>1, <1>5
-----------------------------------------------------------------------------
(* Fed by raw packets *)

\* A packet is at hand from its read to its decoding, and its CCs follow.
Stage ==
  /\ at \in {"raw", "decode"} => packet # <<>> /\ outgoing = {}
  /\ at = "gone" => outgoing # {}

RawOnly ==
  \A k \in 1..Len(queue) : queue[k].kind = "sysex" => \E r \in Reports : queue[k] = SysEx(r)

\* The last raw packet on its way is the one remembered.
LastRaw ==
  \A k \in 1..Len(queue) :
    queue[k].kind = "sysex" /\ (\A l \in 1..Len(queue) : l > k => queue[l].kind # "sysex")
    => rawPrevious \in Reports /\ queue[k] = SysEx(rawPrevious)

\* When none is on its way, it is the one shown.
ShownRaw ==
  window = "SysEx only" /\ (\A k \in 1..Len(queue) : queue[k].kind # "sysex") =>
    \A i \in learned : i < Len(rawPrevious) => data[i] = At(rawPrevious, i)

RawInv == TypeOK /\ Stage /\ RawOnly /\ LastRaw /\ ShownRaw

LEMMA EventKinds ==
  /\ \A r : SysEx(r).kind = "sysex" /\ SysEx(r).data = RawData(r)
  /\ \A m : CC(m).kind = "cc" /\ CC(m).address = m.address /\ CC(m).value = m.value
  /\ \A e \in MidiEvents : e.kind \in {"cc", "sysex"}
  /\ \A r \in Reports : SysEx(r) \in MidiEvents
  /\ \A m \in CCMessage : CC(m) \in MidiEvents
  /\ \A e \in MidiEvents : e.kind = "cc" => e.address \in Addresses /\ e.value \in Controllers
  BY RawRoundTrip DEF SysEx, CC, MidiEvents, CCMessage

\* A queue that grows at its end, one that shrinks at its front.
LEMMA Appended ==
  ASSUME NEW q \in Seq(MidiEvents), NEW e \in MidiEvents
  PROVE  /\ Append(q, e) \in Seq(MidiEvents) /\ Len(Append(q, e)) = Len(q) + 1
         /\ \A k \in 1..Len(q) : Append(q, e)[k] = q[k]
         /\ Append(q, e)[Len(q) + 1] = e
  OBVIOUS

LEMMA Shortened ==
  ASSUME NEW q \in Seq(MidiEvents), q # <<>>
  PROVE  /\ Tail(q) \in Seq(MidiEvents) /\ Len(Tail(q)) = Len(q) - 1 /\ Len(q) \in Nat \ {0}
         /\ \A k \in 1..(Len(q) - 1) : Tail(q)[k] = q[k + 1]
         /\ Head(q) = q[1] /\ Head(q) \in MidiEvents
  OBVIOUS

\* What an event does to the bytes the map holds.
LEMMA Handled ==
  ASSUME TypeOK, RawOnly, Handle
  PROVE  /\ data' \in [MapIndexes -> Byte] /\ learned \subseteq learned' /\ learned' \subseteq MapIndexes
         /\ Head(queue).kind = "sysex" =>
              \E r \in Reports :
                /\ Head(queue) = SysEx(r)
                /\ IF Accepts("sysex")
                   THEN /\ \A i \in MapIndexes : data'[i] = IF i < Len(r) THEN At(r, i) ELSE data[i]
                        /\ learned' = learned \cup {i \in MapIndexes : i < Len(r)}
                   ELSE UNCHANGED <<data, learned>>
         /\ Head(queue).kind = "cc" =>
              IF Accepts("cc") /\ RouteIndex(Head(queue).address) \in MapIndexes
              THEN /\ data' = [data EXCEPT ![RouteIndex(Head(queue).address)] = 2 * Head(queue).value]
                   /\ learned' = learned \cup {RouteIndex(Head(queue).address)}
              ELSE UNCHANGED <<data, learned>>
  <1> DEFINE e == Head(queue)
  <1>1. e = queue[1] /\ e \in MidiEvents /\ 1 \in 1..Len(queue)
    BY Shortened DEF TypeOK, Handle
  <1>2. data \in [MapIndexes -> Byte] /\ learned \subseteq MapIndexes
    BY DEF TypeOK
  <1>3. CASE e.kind = "cc"
    <2>1. RouteCC(e)
      BY <1>3 DEF Handle
    <2>2. e.value \in 0..127
      BY <1>1, <1>3, EventKinds DEF Controllers
    <2>3. 2 * e.value \in Byte
      BY <2>2 DEF Byte
    <2> QED
      BY <1>2, <1>3, <2>1, <2>3 DEF RouteCC, Reconstructed
  <1>4. CASE e.kind = "sysex"
    <2>1. RouteSysEx(e)
      BY <1>4 DEF Handle
    <2>2. PICK r \in Reports : e = SysEx(r)
      BY <1>1, <1>4 DEF RawOnly
    <2>3. /\ IsRaw(e.data) /\ RawLength(e.data) = Len(r)
          /\ \A i \in 0..(Len(r) - 1) : RawByte(e.data, i) = At(r, i)
      BY <2>2, RawRoundTrip, EventKinds
    <2> DEFINE told == {i \in MapIndexes : i < Len(r)}
    <2>4. \A i \in told : RawByte(e.data, i) = At(r, i) /\ At(r, i) \in Byte
      <3>1. \A i \in told : i \in 0..(Len(r) - 1)
        BY ReportFacts, MonitorAssumption DEF MapIndexes
      <3> QED
        BY <2>3, <3>1, ReportFacts
    <2>5. IF Accepts("sysex")
          THEN /\ data' = [i \in MapIndexes |-> IF i \in told THEN RawByte(e.data, i) ELSE data[i]]
               /\ learned' = learned \cup told
          ELSE UNCHANGED <<data, learned>>
      <3>1. {i \in MapIndexes : i < RawLength(e.data)} = told
        BY <2>3
      <3> DEFINE differing == {i \in told : data[i] # RawByte(e.data, i)}
      <3>2. Accepts("sysex") =>
              /\ data' = [i \in MapIndexes |->
                            IF i \in differing THEN RawByte(e.data, i) ELSE data[i]]
              /\ learned' = learned \cup told
        BY <2>1, <2>3, <3>1 DEF RouteSysEx
      <3>3. \A i \in MapIndexes :
              (IF i \in differing THEN RawByte(e.data, i) ELSE data[i])
                = (IF i \in told THEN RawByte(e.data, i) ELSE data[i])
        OBVIOUS
      <3>4. ~Accepts("sysex") => UNCHANGED <<data, learned>>
        BY <2>1 DEF RouteSysEx
      <3> HIDE DEF differing, told, e
      <3> QED
        BY <3>2, <3>3, <3>4
    <2>6. \A i \in MapIndexes : i \in told <=> i < Len(r)
      OBVIOUS
    <2>7. CASE Accepts("sysex")
      <3>1. \A i \in MapIndexes : data'[i] = IF i \in told THEN At(r, i) ELSE data[i]
        BY <2>4, <2>5, <2>7
      <3>2. data' \in [MapIndexes -> Byte]
        <4>1. data' = [i \in MapIndexes |-> IF i \in told THEN RawByte(e.data, i) ELSE data[i]]
          BY <2>5, <2>7
        <4>2. \A i \in MapIndexes : (IF i \in told THEN RawByte(e.data, i) ELSE data[i]) \in Byte
          BY <1>2, <2>4
        <4> HIDE DEF told, e
        <4> QED
          BY <4>1, <4>2
      <3>3. learned' = learned \cup told /\ told \subseteq MapIndexes
        BY <2>5, <2>7
      <3>4. \A i \in MapIndexes : data'[i] = IF i < Len(r) THEN At(r, i) ELSE data[i]
        BY <2>6, <3>1
      <3> QED
        BY <1>2, <1>4, <2>2, <2>7, <3>2, <3>3, <3>4
    <2>8. CASE ~Accepts("sysex")
      BY <1>2, <1>4, <2>2, <2>5, <2>8
    <2> QED
      BY <2>7, <2>8
  <1> QED
    BY <1>1, <1>3, <1>4, EventKinds
LEMMA InitRaw == Init => RawInv
  BY MonitorAssumption
  DEF Init, RawInv, TypeOK, Stage, RawOnly, LastRaw, ShownRaw, NoData, Byte

\* Steps that send nothing and leave the map alone.
LEMMA QuietRaw ==
  ASSUME RawInv, UNCHANGED <<queue, mapVars, rawPrevious>>
  PROVE  RawOnly' /\ LastRaw' /\ ShownRaw'
  BY DEF RawInv, RawOnly, LastRaw, ShownRaw, mapVars

LEMMA PublishRawStep ==
  ASSUME RawInv, PublishRaw
  PROVE  RawInv'
  <1> DEFINE e == SysEx(packet)
  <1>1. packet \in Reports /\ e \in MidiEvents /\ e.kind = "sysex"
    BY EventKinds DEF RawInv, TypeOK, Stage, PublishRaw
  <1>2. /\ queue \in Seq(MidiEvents) /\ queue' = Append(queue, e) /\ rawPrevious' = packet
        /\ Len(queue) < MaxQueue /\ Len(queue) \in Nat /\ MaxQueue \in Nat
    BY MonitorAssumption DEF RawInv, TypeOK, PublishRaw, Send
  <1> HIDE DEF e
  <1>3. /\ queue' \in Seq(MidiEvents) /\ Len(queue') = Len(queue) + 1
        /\ \A k \in 1..Len(queue) : queue'[k] = queue[k]
        /\ queue'[Len(queue) + 1] = e
    BY <1>1, <1>2, Appended
  <1>4. Len(queue) + 1 \in 1..Len(queue')
    BY <1>2, <1>3
  <1>5. TypeOK'
    BY <1>1, <1>2, <1>3 DEF RawInv, TypeOK, PublishRaw, mapVars
  <1>6. Stage'
    BY <1>1 DEF RawInv, Stage, PublishRaw
  <1>7. RawOnly'
    <2>1. ASSUME NEW k \in 1..Len(queue'), queue'[k].kind = "sysex"
          PROVE  \E r \in Reports : queue'[k] = SysEx(r)
      <3>1. CASE k = Len(queue) + 1
        BY <1>1, <1>3, <3>1 DEF e
      <3>2. CASE k # Len(queue) + 1
        <4>1. k \in 1..Len(queue) /\ queue'[k] = queue[k]
          BY <1>2, <1>3, <3>2
        <4> QED
          BY <2>1, <4>1 DEF RawInv, RawOnly
      <3> QED
        BY <3>1, <3>2
    <2> QED
      BY <2>1 DEF RawOnly
  <1>8. LastRaw'
    <2>1. ASSUME NEW k \in 1..Len(queue'),
                 \A l \in 1..Len(queue') : l > k => queue'[l].kind # "sysex"
          PROVE  queue'[k] = SysEx(packet)
      <3>1. ~(Len(queue) + 1 > k)
        BY <1>1, <1>3, <1>4, <2>1
      <3>2. k = Len(queue) + 1
        BY <1>2, <1>3, <3>1
      <3> QED
        BY <1>3, <3>2 DEF e
    <2> QED
      BY <1>1, <1>2, <2>1 DEF LastRaw
  <1>9. ShownRaw'
    BY <1>1, <1>3, <1>4 DEF ShownRaw
  <1> QED
    BY <1>5, <1>6, <1>7, <1>8, <1>9 DEF RawInv

LEMMA SendCCRaw ==
  ASSUME RawInv, SendCC
  PROVE  RawInv'
  <1>1. PICK m \in outgoing :
          /\ \A n \in outgoing : m.at <= n.at
          /\ Send(CC(m))
          /\ outgoing' = outgoing \ {m}
    BY DEF SendCC
  <1> DEFINE e == CC(m)
  <1>2. e \in MidiEvents /\ e.kind # "sysex"
    BY EventKinds DEF RawInv, TypeOK
  <1>3. /\ queue \in Seq(MidiEvents) /\ queue' = Append(queue, e)
        /\ Len(queue) < MaxQueue /\ Len(queue) \in Nat /\ MaxQueue \in Nat
    BY <1>1, MonitorAssumption DEF RawInv, TypeOK, Send
  <1> HIDE DEF e
  <1>4. /\ queue' \in Seq(MidiEvents) /\ Len(queue') = Len(queue) + 1
        /\ \A k \in 1..Len(queue) : queue'[k] = queue[k]
        /\ queue'[Len(queue) + 1] = e
    BY <1>2, <1>3, Appended
  <1>5. \A k \in 1..Len(queue') : k \in 1..Len(queue) \/ k = Len(queue) + 1
    BY <1>3, <1>4
  <1>6. \A k \in 1..Len(queue) : k \in 1..Len(queue')
    BY <1>3, <1>4
  <1>7. UNCHANGED <<at, packet, previous, rawPrevious, plugged, window, mapBase, data, learned>>
    BY DEF SendCC, mapVars
  <1>8. TypeOK' /\ Stage'
    <2>1. TypeOK'
      BY <1>1, <1>3, <1>4, <1>7 DEF RawInv, TypeOK
    <2>2. Stage'
      BY <1>7 DEF RawInv, Stage, SendCC
    <2> QED
      BY <2>1, <2>2
  <1>9. RawOnly' /\ LastRaw' /\ ShownRaw'
    BY <1>2, <1>4, <1>5, <1>6, <1>7 DEF RawInv, RawOnly, LastRaw, ShownRaw
  <1> QED
    BY <1>8, <1>9 DEF RawInv

LEMMA HandleRaw ==
  ASSUME RawInv, Handle
  PROVE  RawInv'
  <1> DEFINE e == queue[1]
  <1>1. /\ queue \in Seq(MidiEvents) /\ queue # <<>> /\ queue' = Tail(queue)
        /\ UNCHANGED <<at, packet, previous, rawPrevious, outgoing, plugged, window, mapBase>>
    BY DEF RawInv, TypeOK, Handle, bridgeVars
  <1>2. /\ queue' \in Seq(MidiEvents) /\ Len(queue') = Len(queue) - 1 /\ Len(queue) \in Nat \ {0}
        /\ \A k \in 1..(Len(queue) - 1) : queue'[k] = queue[k + 1]
        /\ Head(queue) = e /\ e \in MidiEvents
    BY <1>1, Shortened
  <1>3. \A k \in 1..Len(queue') : queue'[k] = queue[k + 1] /\ k + 1 \in 1..Len(queue)
    BY <1>2
  <1>4. \A k \in 1..Len(queue) : k = 1 \/ (k - 1 \in 1..Len(queue') /\ queue'[k - 1] = queue[k])
    <2>1. ASSUME NEW k \in 1..Len(queue), k # 1
          PROVE  k - 1 \in 1..Len(queue') /\ queue'[k - 1] = queue[k]
      <3>1. k - 1 \in 1..(Len(queue) - 1) /\ k - 1 + 1 = k
        BY <1>2, <2>1
      <3> QED
        BY <1>2, <3>1
    <2> QED
      BY <2>1
  <1>5. TypeOK'
    <2>1. Len(queue') <= MaxQueue
      BY <1>2, MonitorAssumption DEF RawInv, TypeOK
    <2> QED
      BY <1>1, <1>2, <2>1, Handled DEF RawInv, TypeOK
  <1>6. Stage'
    BY <1>1 DEF RawInv, Stage
  <1>7. RawOnly'
    BY <1>3 DEF RawInv, RawOnly
  <1>8. LastRaw'
    <2>1. ASSUME NEW k \in 1..Len(queue'), queue'[k].kind = "sysex",
                 \A l \in 1..Len(queue') : l > k => queue'[l].kind # "sysex"
          PROVE  rawPrevious' \in Reports /\ queue'[k] = SysEx(rawPrevious')
      <3>1. k + 1 \in 1..Len(queue) /\ queue[k + 1] = queue'[k]
        BY <1>3
      <3>2. ASSUME NEW l \in 1..Len(queue), l > k + 1 PROVE queue[l].kind # "sysex"
        <4>1. l - 1 \in 1..Len(queue') /\ queue'[l - 1] = queue[l] /\ l - 1 > k
          BY <1>4, <3>2
        <4> QED
          BY <2>1, <4>1
      <3> QED
        BY <1>1, <2>1, <3>1, <3>2 DEF RawInv, LastRaw
    <2> QED
      BY <2>1 DEF LastRaw
  <1>9. 1 \in 1..Len(queue) /\ \A l \in 1..Len(queue) : l > 1 => l # 1
    BY <1>2
  <1>10. \A r \in Reports, i \in MapIndexes : i < Len(r) => i \in 0..(Len(r) - 1)
    BY ReportFacts, MonitorAssumption DEF MapIndexes
  <1>11. ShownRaw'
    <2> SUFFICES ASSUME window = "SysEx only",
                        \A k \in 1..Len(queue') : queue'[k].kind # "sysex",
                        NEW i \in learned', i < Len(rawPrevious)
                 PROVE  data'[i] = At(rawPrevious, i)
      BY <1>1 DEF ShownRaw
    <2>1. Accepts("sysex") /\ ~Accepts("cc")
      BY DEF Accepts
    <2>2. i \in MapIndexes
      BY Handled DEF RawInv
    <2>3. \A k \in 1..Len(queue) : k # 1 => queue[k].kind # "sysex"
      BY <1>4
    <2>4. CASE e.kind = "sysex"
      <3>1. PICK r \in Reports :
              /\ e = SysEx(r)
              /\ \A j \in MapIndexes : data'[j] = IF j < Len(r) THEN At(r, j) ELSE data[j]
        BY <1>2, <2>1, <2>4, Handled DEF RawInv
      <3>2. e = SysEx(rawPrevious) /\ rawPrevious \in Reports
        <4>1. 1 \in 1..Len(queue) /\ \A l \in 1..Len(queue) : l > 1 => queue[l].kind # "sysex"
          BY <1>9, <2>3, Zenon
        <4> QED
          BY <2>4, <4>1 DEF RawInv, LastRaw
      <3>3. RawData(r) = RawData(rawPrevious)
        BY <3>1, <3>2, EventKinds
      <3>4. Len(r) = Len(rawPrevious)
        BY <3>2, <3>3, RawRoundTrip
      <3>5. i \in 0..(Len(r) - 1)
        <4>1. i < Len(r)
          BY <3>4, Zenon
        <4> QED
          BY <1>10, <2>2, <4>1, Zenon
      <3>6. At(r, i) = At(rawPrevious, i)
        BY <3>2, <3>3, <3>4, <3>5, RawRoundTrip
      <3> QED
        BY <2>2, <3>1, <3>4, <3>6
    <2>5. CASE e.kind # "sysex"
      <3>1. data' = data /\ learned' = learned
        BY <1>2, <2>1, <2>5, Handled, EventKinds DEF RawInv
      <3>2. \A k \in 1..Len(queue) : queue[k].kind # "sysex"
        BY <2>3, <2>5
      <3> QED
        BY <3>1, <3>2 DEF RawInv, ShownRaw
    <2> QED
      BY <2>4, <2>5
  <1> QED
    BY <1>5, <1>6, <1>7, <1>8, <1>11 DEF RawInv

LEMMA NextRaw == RawInv /\ [Next]_vars => RawInv'
  <1> SUFFICES ASSUME RawInv, [Next]_vars PROVE RawInv'
    OBVIOUS
  <1>1. ASSUME NEW report \in Reports, Read(report) PROVE RawInv'
    <2>1. TypeOK' /\ Stage'
      BY <1>1, ReportFacts DEF Read, mapVars, RawInv, TypeOK, Stage
    <2> QED
      BY <1>1, <2>1, QuietRaw DEF Read, RawInv
  <1>2. CASE SkipRaw \/ RawFails
    <2>1. TypeOK' /\ Stage'
      BY <1>2 DEF SkipRaw, RawFails, mapVars, RawInv, TypeOK, Stage
    <2> QED
      BY <1>2, <2>1, QuietRaw DEF SkipRaw, RawFails, RawInv
  <1>3. CASE PublishRaw
    BY <1>3, PublishRawStep
  <1>4. CASE Decode
    <2>1. packet \in Reports /\ previous \in Reports \cup {<<>>}
      BY <1>4 DEF Decode, RawInv, TypeOK, Stage
    <2>2. outgoing' \subseteq CCMessage
      BY <1>4, <2>1, MessagesTyped DEF Decode
    <2>3. TypeOK' /\ Stage'
      BY <1>4, <2>1, <2>2 DEF Decode, mapVars, RawInv, TypeOK, Stage
    <2> QED
      BY <1>4, <2>3, QuietRaw DEF Decode, RawInv
  <1>5. CASE SendCC
    BY <1>5, SendCCRaw
  <1>6. CASE SendFails \/ Unplug \/ Reconnect
    <2>1. TypeOK' /\ Stage'
      BY <1>6 DEF SendFails, Unplug, Reconnect, mapVars, RawInv, TypeOK, Stage
    <2> QED
      BY <1>6, <2>1, QuietRaw DEF SendFails, Unplug, Reconnect, RawInv
  <1>7. CASE Handle
    BY <1>7, HandleRaw
  <1>8. CASE OpenByteMap \/ CloseByteMap \/ (\E s \in Sources : SetSource(s)) \/ (\E c \in MapBases : SetBase(c))
    <2>1. /\ UNCHANGED <<bridgeVars, queue>>
          /\ window' \in Sources \cup {"closed"} /\ mapBase' \in 1..16
          /\ data' \in {data, NoData}
          /\ learned' = {} \/ (learned' = learned /\ window' = "closed")
      BY <1>8, MonitorAssumption
      DEF OpenByteMap, CloseByteMap, SetSource, SetBase, RawInv, TypeOK, Sources
    <2>2. NoData \in [MapIndexes -> Byte]
      BY DEF NoData, Byte
    <2>3. TypeOK' /\ Stage'
      BY <2>1, <2>2 DEF bridgeVars, RawInv, TypeOK, Stage
    <2>4. RawOnly' /\ LastRaw' /\ ShownRaw'
      BY <2>1 DEF bridgeVars, RawInv, RawOnly, LastRaw, ShownRaw
    <2> QED
      BY <2>3, <2>4 DEF RawInv
  <1>9. CASE UNCHANGED vars
    <2>1. TypeOK' /\ Stage'
      BY <1>9 DEF vars, bridgeVars, mapVars, RawInv, TypeOK, Stage
    <2> QED
      BY <1>9, <2>1, QuietRaw DEF vars, bridgeVars, RawInv
  <1> QED
    BY <1>1, <1>2, <1>3, <1>4, <1>5, <1>6, <1>7, <1>8, <1>9 DEF Next, Bridge, Tester

\* What travels is MIDI, and what the map holds is bytes.
THEOREM TypeCorrect == Spec => []TypeOK
  <1>1. RawInv => TypeOK
    BY DEF RawInv
  <1> QED
    BY <1>1, InitRaw, NextRaw, PTL DEF Spec

\* Whatever is read, lost or set, a map fed by SysEx alone ends up with the very
\* bytes of the last packet published.
THEOREM RawIsExact == Spec => []RawExact
  <1>1. RawInv => RawExact
    <2>1. queue = <<>> => \A k \in 1..Len(queue) : queue[k].kind # "sysex"
      OBVIOUS
    <2> QED
      BY <2>1 DEF RawInv, ShownRaw, RawExact
  <1> QED
    BY <1>1, InitRaw, NextRaw, PTL DEF Spec
-----------------------------------------------------------------------------
(* Fed by CCs as well *)

\* Every byte is sent as its raw CC whenever its value changes.
RawBytes ==
  /\ DecodeMode = "byte" /\ ByteMappings = <<>> /\ EmitUnmappedByte /\ InputDeadzone = 0
  /\ \A r \in Reports : Len(r) <= 2048

\* The bytes every report has.
ReportBytes == {i \in Numbers : \A r \in Reports : i < Len(r)}

\* The values of byte i by the reports that are decoded or being so.
Current(i) ==
  {V7(At(r, i)) : r \in ({previous} \ {<<>>}) \cup (IF at = "decode" THEN {packet} ELSE {})}

\* An event speaks for a byte, and what it says.
Says(e, kinds, i) == e.kind \in kinds /\ (e.kind = "cc" => e.address = RawAddress(i))
Word(e, i) == IF e.kind = "cc" THEN e.value ELSE V7(RawByte(e.data, i))

KindSets == {{"cc"}, {"cc", "sysex"}}
Kinds == IF window = "CC only" THEN {"cc"} ELSE {"cc", "sysex"}

ToSend(i) == \E m \in outgoing : m.address = RawAddress(i)
InFlight(kinds, i) == \E k \in 1..Len(queue) : Says(queue[k], kinds, i)

\* The CCs at hand are those of the last report, and CCs speak for bytes.
Meant ==
  /\ \A m \in outgoing : \E i \in Numbers :
       m.address = RawAddress(i) /\ m.value \in Current(i)
  /\ \A k \in 1..Len(queue) : queue[k].kind = "cc" =>
       \E i \in Numbers : queue[k].address = RawAddress(i)

\* The last word on its way about a byte is right, whichever kinds are listened to.
LastWords ==
  \A i \in ReportBytes, kinds \in KindSets : ~ToSend(i) =>
    \A k \in 1..Len(queue) :
      /\ Says(queue[k], kinds, i)
      /\ \A l \in 1..Len(queue) : l > k => ~Says(queue[l], kinds, i)
      => Word(queue[k], i) \in Current(i)

\* When none is on its way, the map shows it.
ShownWords ==
  window \in {"Both", "CC only"} /\ mapBase = BaseChannel + 1 =>
    \A i \in ReportBytes \cap learned :
      ~ToSend(i) /\ ~InFlight(Kinds, i) => V7(data[i]) \in Current(i)

MapInv == RawInv /\ Meant /\ LastWords /\ ShownWords

LEMMA InReports ==
  ASSUME RawBytes
  PROVE  /\ \A r \in Reports, i \in ReportBytes : i \in 0..(Len(r) - 1)
         /\ \A r \in Reports, q \in Reports : ReportBytes \subseteq Common(r, q)
         /\ \A r \in Reports, q \in Reports : \A i \in Common(r, q) :
              i \in Numbers /\ i \in 0..(Len(r) - 1) /\ i \in 0..(Len(q) - 1)
  <1>1. ASSUME NEW r \in Reports PROVE Len(r) \in Nat /\ Len(r) <= 2048
    BY ReportFacts DEF RawBytes
  <1>2. ASSUME NEW r \in Reports, NEW i \in ReportBytes
        PROVE  i \in Nat /\ i < Len(r) /\ i \in 0..(Len(r) - 1)
    BY <1>1 DEF ReportBytes, Numbers
  <1> QED
    BY <1>1, <1>2 DEF Common, Numbers

\* What decode_input makes of the bytes that changed.
LEMMA ByteMessages ==
  ASSUME RawBytes, NEW old \in Reports, NEW new \in Reports
  PROVE  /\ \A m \in Messages(old, new) : \E i \in Numbers :
              m.address = RawAddress(i) /\ m.value = V7(At(new, i))
         /\ \A i \in ReportBytes : V7(At(old, i)) # V7(At(new, i)) =>
              \E m \in Messages(old, new) : m.address = RawAddress(i)
  <1>1. ReportBytes \subseteq Common(old, new) /\ Common(old, new) \subseteq Numbers
    BY InReports
  <1>2. ModeSlots = {0}
    BY DEF ModeSlots, RawBytes
  <1>3. ASSUME NEW i \in Common(old, new)
        PROVE  EmitAddresses(old, new, i, 0) =
                 IF V7(At(old, i)) # V7(At(new, i)) THEN {RawAddress(i)} ELSE {}
    <2>1. ByteMapping(i) = {}
      BY DEF ByteMapping, FirstOf, RawBytes
    <2>2. V7(At(old, i)) \in Int /\ V7(At(new, i)) \in Int
      <3>1. At(old, i) \in Byte /\ At(new, i) \in Byte
        BY InReports, ReportFacts
      <3>2. V7(At(old, i)) \in 0..127 /\ V7(At(new, i)) \in 0..127
        BY <3>1, V7Range
      <3>3. 0..127 \subseteq Int
        OBVIOUS
      <3> QED
        BY <3>2, <3>3
    <2>3. Delta(old, new, i) > 0 <=> V7(At(old, i)) # V7(At(new, i))
      BY <2>2, DistanceFact, Zenon DEF Delta
    <2>4. {e \in ByteMapping(i) : Delta(old, new, i) > DeadzoneOf(e)} = {}
      BY <2>1
    <2>5. ByteAddresses(old, new, i) =
            IF Delta(old, new, i) > 0 THEN {RawAddress(i)} ELSE {}
      <3>1. InputDeadzone = 0 /\ EmitUnmappedByte
        BY DEF RawBytes
      <3> QED
        BY <2>4, <3>1, Zenon DEF ByteAddresses
    <2> QED
      BY <2>3, <2>5, Zenon DEF EmitAddresses
  <1>4. ASSUME NEW m \in Messages(old, new)
        PROVE  \E i \in Numbers : m.address = RawAddress(i) /\ m.value = V7(At(new, i))
    <2>1. PICK i \in Common(old, new) : \E a \in EmitAddresses(old, new, i, 0) : m = Message(new, i, 0, a)
      BY <1>1, <1>2, <1>4 DEF Messages
    <2>2. m = Message(new, i, 0, RawAddress(i))
      BY <1>3, <2>1
    <2> QED
      BY <1>1, <2>2 DEF Message, Value
  <1>5. ASSUME NEW i \in ReportBytes, V7(At(old, i)) # V7(At(new, i))
        PROVE  \E m \in Messages(old, new) : m.address = RawAddress(i)
    <2> DEFINE changed == {j \in Common(old, new) : At(old, j) # At(new, j)} \X ModeSlots
               Of(x) == {Message(new, x[1], x[2], a) : a \in EmitAddresses(old, new, x[1], x[2])}
    <2>1. <<i, 0>> \in changed
      BY <1>1, <1>2, <1>5
    <2>2. Message(new, i, 0, RawAddress(i)) \in Of(<<i, 0>>)
      <3>1. RawAddress(i) \in EmitAddresses(old, new, i, 0)
        BY <1>1, <1>3, <1>5
      <3> QED
        BY <3>1
    <2>3. Messages(old, new) = UNION {Of(x) : x \in changed}
      BY Zenon DEF Messages
    <2>4. Message(new, i, 0, RawAddress(i)).address = RawAddress(i)
      BY DEF Message
    <2> HIDE DEF changed, Of
    <2>5. Message(new, i, 0, RawAddress(i)) \in Messages(old, new)
      BY <2>1, <2>2, <2>3, Zenon
    <2> QED
      BY <2>4, <2>5
  <1> QED
    BY <1>4, <1>5

LEMMA SaysRaw ==
  ASSUME RawBytes, NEW r \in Reports, NEW i \in ReportBytes
  PROVE  /\ ~Says(SysEx(r), {"cc"}, i) /\ Says(SysEx(r), {"cc", "sysex"}, i)
         /\ Word(SysEx(r), i) = V7(At(r, i))
  <1>1. SysEx(r).kind = "sysex" /\ SysEx(r).data = RawData(r)
    BY EventKinds
  <1>2. RawByte(RawData(r), i) = At(r, i)
    BY InReports, RawRoundTrip
  <1> QED
    BY <1>1, <1>2 DEF Says, Word

LEMMA InitMap == Init => MapInv
  <1> SUFFICES ASSUME Init PROVE Meant /\ LastWords /\ ShownWords
    BY InitRaw DEF MapInv
  <1>1. queue = <<>> /\ outgoing = {} /\ learned = {}
    BY DEF Init
  <1> QED
    BY <1>1 DEF Meant, LastWords, ShownWords

\* A step that neither sends nor handles, and makes no value out of date.
LEMMA QuietWords ==
  ASSUME MapInv, UNCHANGED <<queue, outgoing, mapVars>>,
         \A i : Current(i) \subseteq Current(i)'
  PROVE  Meant' /\ LastWords' /\ ShownWords'
  <1>1. UNCHANGED <<window, mapBase, data, learned>>
    BY DEF mapVars
  <1>2. Meant'
    BY DEF MapInv, Meant
  <1>3. LastWords'
    BY DEF MapInv, LastWords, ToSend
  <1>4. ShownWords'
    BY <1>1 DEF MapInv, ShownWords, ToSend, InFlight, Kinds
  <1> QED
    BY <1>2, <1>3, <1>4

\* An event is sent that is right about whatever it speaks for.
LEMMA AppendWords ==
  ASSUME MapInv, UNCHANGED mapVars, NEW e \in MidiEvents, queue' = Append(queue, e),
         \A i \in ReportBytes : Current(i) \subseteq Current(i)',
         \A i \in ReportBytes : ToSend(i) => ToSend(i)' \/ Says(e, {"cc"}, i),
         \A i \in ReportBytes, kinds \in KindSets : Says(e, kinds, i) => Word(e, i) \in Current(i)'
  PROVE  LastWords' /\ ShownWords'
  <1>1. UNCHANGED <<window, mapBase, data, learned>>
    BY DEF mapVars
  <1>2. /\ Len(queue) \in Nat /\ Len(queue') = Len(queue) + 1
        /\ \A k \in 1..Len(queue) : queue'[k] = queue[k]
        /\ queue'[Len(queue) + 1] = e
    BY Appended DEF MapInv, RawInv, TypeOK
  <1>3. /\ \A k \in 1..Len(queue) : k \in 1..Len(queue') /\ Len(queue) + 1 > k
        /\ \A k \in 1..Len(queue') : k \in 1..Len(queue) \/ k = Len(queue) + 1
        /\ Len(queue) + 1 \in 1..Len(queue')
    BY <1>2
  <1>4. ASSUME NEW i \in ReportBytes, NEW kinds \in KindSets, ~Says(e, kinds, i), ~ToSend(i)'
        PROVE  ~ToSend(i)
    BY <1>4 DEF KindSets, Says
  <1>5. LastWords'
    <2> SUFFICES ASSUME NEW i \in ReportBytes, NEW kinds \in KindSets, ~ToSend(i)',
                        NEW k \in 1..Len(queue'), Says(queue'[k], kinds, i),
                        \A l \in 1..Len(queue') : l > k => ~Says(queue'[l], kinds, i)
                 PROVE  Word(queue'[k], i) \in Current(i)'
      BY DEF LastWords, Says, Word
    <2>1. CASE k = Len(queue) + 1
      BY <1>2, <2>1
    <2>2. CASE k \in 1..Len(queue)
      <3>1. ~Says(e, kinds, i)
        BY <1>2, <1>3, <2>2
      <3>2. ~ToSend(i)
        BY <1>4, <3>1
      <3>3. Says(queue[k], kinds, i)
        BY <1>2, <2>2
      <3>4. \A l \in 1..Len(queue) : l > k => ~Says(queue[l], kinds, i)
        BY <1>2, <1>3
      <3>5. Word(queue[k], i) \in Current(i)
        BY <2>2, <3>2, <3>3, <3>4 DEF MapInv, LastWords
      <3> QED
        BY <1>2, <2>2, <3>5
    <2> QED
      BY <1>3, <2>1, <2>2
  <1>6. ShownWords'
    <2> SUFFICES ASSUME window \in {"Both", "CC only"}, mapBase = BaseChannel + 1,
                        NEW i \in ReportBytes, i \in learned, ~ToSend(i)', ~InFlight(Kinds, i)'
                 PROVE  V7(data[i]) \in Current(i)'
      BY <1>1 DEF ShownWords
    <2>1. Kinds' = Kinds /\ Kinds \in KindSets
      BY <1>1 DEF Kinds, KindSets
    <2>2. \A k \in 1..Len(queue') : ~Says(queue'[k], Kinds, i)
      BY <2>1 DEF InFlight
    <2>3. ~Says(e, Kinds, i)
      BY <1>2, <1>3, <2>2
    <2>4. ~InFlight(Kinds, i)
      BY <1>2, <1>3, <2>2 DEF InFlight
    <2>5. ~ToSend(i)
      BY <1>4, <2>1, <2>3
    <2> QED
      BY <2>4, <2>5 DEF MapInv, ShownWords
  <1> QED
    BY <1>5, <1>6
\* The values of a byte, stage by stage.
LEMMA CurrentIs ==
  ASSUME NEW i
  PROVE  /\ at # "decode" /\ previous = <<>> => Current(i) = {}
         /\ at # "decode" /\ previous # <<>> => Current(i) = {V7(At(previous, i))}
         /\ at = "decode" /\ previous = <<>> => Current(i) = {V7(At(packet, i))}
         /\ at = "decode" /\ previous # <<>> =>
              Current(i) = {V7(At(previous, i)), V7(At(packet, i))}
  BY DEF Current

LEMMA PublishWords ==
  ASSUME RawBytes, MapInv, PublishRaw
  PROVE  Meant' /\ LastWords' /\ ShownWords'
  <1> DEFINE e == SysEx(packet)
  <1>1. packet \in Reports /\ e \in MidiEvents /\ e.kind = "sysex" /\ outgoing = {}
    BY EventKinds DEF MapInv, RawInv, TypeOK, Stage, PublishRaw
  <1>2. queue' = Append(queue, e) /\ UNCHANGED <<packet, previous, outgoing, mapVars>>
    BY DEF PublishRaw, Send
  <1>3. at = "raw" /\ at' = "decode"
    BY DEF PublishRaw
  <1>4. \A i : Current(i) \subseteq Current(i)' /\ V7(At(packet, i)) \in Current(i)'
    BY <1>2, <1>3 DEF Current
  <1>5. \A i \in ReportBytes, kinds \in KindSets : Says(e, kinds, i) => Word(e, i) \in Current(i)'
    BY <1>1, <1>4, SaysRaw
  <1>6. \A i \in ReportBytes : ~ToSend(i)
    BY <1>1 DEF ToSend
  <1>7. LastWords' /\ ShownWords'
    <2> HIDE DEF e
    <2> QED
      BY <1>1, <1>2, <1>4, <1>5, <1>6, AppendWords
  <1>8. Meant'
    <2>1. /\ Len(queue) \in Nat /\ Len(queue') = Len(queue) + 1
          /\ \A k \in 1..Len(queue) : queue'[k] = queue[k]
          /\ queue'[Len(queue) + 1] = e
      <3> HIDE DEF e
      <3> QED
        BY <1>1, <1>2, Appended DEF MapInv, RawInv, TypeOK
    <2>2. \A k \in 1..Len(queue') : k \in 1..Len(queue) \/ k = Len(queue) + 1
      BY <2>1
    <2>3. ASSUME NEW k \in 1..Len(queue'), queue'[k].kind = "cc"
          PROVE  \E i \in Numbers : queue'[k].address = RawAddress(i)
      <3>1. k \in 1..Len(queue) /\ queue'[k] = queue[k]
        BY <1>1, <2>1, <2>2, <2>3
      <3> QED
        BY <2>3, <3>1 DEF MapInv, Meant
    <2> QED
      BY <1>1, <1>2, <2>3 DEF Meant
  <1> QED
    BY <1>7, <1>8

LEMMA DecodeWords ==
  ASSUME RawBytes, MapInv, Decode
  PROVE  Meant' /\ LastWords' /\ ShownWords'
  <1>1. /\ packet \in Reports /\ previous \in Reports \cup {<<>>} /\ outgoing = {}
        /\ packet # <<>>
    BY DEF MapInv, RawInv, TypeOK, Stage, Decode
  <1>2. /\ at = "decode" /\ at' = "read" /\ previous' = packet
        /\ UNCHANGED <<queue, window, mapBase, data, learned>>
    BY DEF Decode, mapVars
  <1>3. \A i : Current(i)' = {V7(At(packet, i))}
    BY <1>1, <1>2 DEF Current
  <1>4. \A i \in ReportBytes : ~ToSend(i)
    BY <1>1 DEF ToSend
  <1>5. \A i \in ReportBytes : ~ToSend(i)' => Current(i) \subseteq Current(i)'
    <2>1. CASE previous = <<>>
      BY <1>2, <1>3, <2>1, CurrentIs
    <2>2. CASE previous # <<>>
      <3>1. previous \in Reports /\ outgoing' = Messages(previous, packet)
        BY <1>1, <2>2 DEF Decode
      <3>2. ASSUME NEW i \in ReportBytes, ~ToSend(i)'
            PROVE  V7(At(previous, i)) = V7(At(packet, i))
        BY <1>1, <3>1, <3>2, ByteMessages DEF ToSend
      <3> QED
        BY <1>2, <1>3, <2>2, <3>2, CurrentIs
    <2> QED
      BY <2>1, <2>2
  <1>6. Meant'
    <2>1. ASSUME NEW m \in outgoing'
          PROVE  \E i \in Numbers : m.address = RawAddress(i) /\ m.value \in Current(i)'
      <3>1. previous \in Reports /\ outgoing' = Messages(previous, packet)
        BY <1>1, <2>1 DEF Decode
      <3>2. PICK i \in Numbers : m.address = RawAddress(i) /\ m.value = V7(At(packet, i))
        BY <1>1, <2>1, <3>1, ByteMessages
      <3> QED
        BY <1>3, <3>2
    <2> QED
      BY <1>2, <2>1 DEF MapInv, Meant
  <1>7. LastWords'
    BY <1>2, <1>4, <1>5 DEF MapInv, LastWords
  <1>8. ShownWords'
    <2> SUFFICES ASSUME window \in {"Both", "CC only"}, mapBase = BaseChannel + 1,
                        NEW i \in ReportBytes, i \in learned, ~ToSend(i)', ~InFlight(Kinds, i)'
                 PROVE  V7(data[i]) \in Current(i)'
      BY <1>2 DEF ShownWords
    <2>1. ~InFlight(Kinds, i)
      BY <1>2 DEF InFlight, Kinds
    <2> QED
      BY <1>4, <1>5, <2>1 DEF MapInv, ShownWords
  <1> QED
    BY <1>6, <1>7, <1>8

LEMMA SendCCWords ==
  ASSUME RawBytes, MapInv, SendCC
  PROVE  Meant' /\ LastWords' /\ ShownWords'
  <1>1. PICK m \in outgoing :
          /\ \A n \in outgoing : m.at <= n.at
          /\ Send(CC(m))
          /\ outgoing' = outgoing \ {m}
    BY DEF SendCC
  <1> DEFINE e == CC(m)
  <1>2. e \in MidiEvents /\ e.kind = "cc" /\ e.address = m.address /\ e.value = m.value
    BY EventKinds DEF MapInv, RawInv, TypeOK
  <1>3. queue' = Append(queue, e) /\ UNCHANGED <<at, packet, previous, mapVars>>
    BY <1>1 DEF SendCC, Send
  <1> HIDE DEF e
  <1>4. \A i : Current(i)' = Current(i)
    BY <1>3 DEF Current
  <1>5. PICK j \in Numbers : m.address = RawAddress(j) /\ m.value \in Current(j)
    BY <1>1 DEF MapInv, Meant
  <1>6. \A i \in ReportBytes : m.address = RawAddress(i) => i = j
    BY <1>5, RawAddressDistinct DEF ReportBytes
  <1>7. \A i \in ReportBytes, kinds \in KindSets : Says(e, kinds, i) => Word(e, i) \in Current(i)'
    BY <1>2, <1>4, <1>5, <1>6 DEF Says, Word
  <1>8. \A i \in ReportBytes : ToSend(i) => ToSend(i)' \/ Says(e, {"cc"}, i)
    BY <1>1, <1>2 DEF ToSend, Says
  <1>9. LastWords' /\ ShownWords'
    BY <1>2, <1>3, <1>4, <1>7, <1>8, AppendWords
  <1>10. Meant'
    <2>1. /\ Len(queue) \in Nat /\ Len(queue') = Len(queue) + 1
          /\ \A k \in 1..Len(queue) : queue'[k] = queue[k]
          /\ queue'[Len(queue) + 1] = e
      BY <1>2, <1>3, Appended DEF MapInv, RawInv, TypeOK
    <2>2. \A k \in 1..Len(queue') : k \in 1..Len(queue) \/ k = Len(queue) + 1
      BY <2>1
    <2>3. ASSUME NEW k \in 1..Len(queue'), queue'[k].kind = "cc"
          PROVE  \E i \in Numbers : queue'[k].address = RawAddress(i)
      <3>1. CASE k = Len(queue) + 1
        BY <1>2, <1>5, <2>1, <3>1
      <3>2. CASE k \in 1..Len(queue)
        BY <2>1, <2>3, <3>2 DEF MapInv, Meant
      <3> QED
        BY <2>2, <3>1, <3>2
    <2> QED
      BY <1>1, <1>4, <2>3 DEF MapInv, Meant
  <1> QED
    BY <1>9, <1>10

LEMMA HandleWords ==
  ASSUME RawBytes, MapInv, Handle
  PROVE  Meant' /\ LastWords' /\ ShownWords'
  <1> DEFINE e == queue[1]
  <1>1. /\ queue \in Seq(MidiEvents) /\ queue # <<>> /\ queue' = Tail(queue)
        /\ UNCHANGED <<at, packet, previous, outgoing, window, mapBase>>
    BY DEF MapInv, RawInv, TypeOK, Handle, bridgeVars
  <1>2. /\ Len(queue') = Len(queue) - 1 /\ Len(queue) \in Nat \ {0}
        /\ \A k \in 1..(Len(queue) - 1) : queue'[k] = queue[k + 1]
        /\ Head(queue) = e /\ e \in MidiEvents
    BY <1>1, Shortened
  <1>3. \A k \in 1..Len(queue') : queue'[k] = queue[k + 1] /\ k + 1 \in 1..Len(queue)
    BY <1>2
  <1>4. \A k \in 1..Len(queue) : k = 1 \/ (k - 1 \in 1..Len(queue') /\ queue'[k - 1] = queue[k])
    <2>1. ASSUME NEW k \in 1..Len(queue), k # 1
          PROVE  k - 1 \in 1..Len(queue') /\ queue'[k - 1] = queue[k]
      <3>1. k - 1 \in 1..(Len(queue) - 1) /\ k - 1 + 1 = k
        BY <1>2, <2>1
      <3> QED
        BY <1>2, <3>1
    <2> QED
      BY <2>1
  <1>5. \A i : Current(i)' = Current(i) /\ (ToSend(i)' <=> ToSend(i))
    BY <1>1 DEF Current, ToSend
  <1>6. 1 \in 1..Len(queue) /\ \A l \in 1..Len(queue) : l > 1 => l # 1
    BY <1>2
  <1> HIDE DEF e
  <1>7. Meant'
    BY <1>1, <1>3, <1>5 DEF MapInv, Meant
  <1>8. LastWords'
    <2>1. ASSUME NEW i \in ReportBytes, NEW kinds \in KindSets, ~ToSend(i)',
                 NEW k \in 1..Len(queue'), Says(queue'[k], kinds, i),
                 \A l \in 1..Len(queue') : l > k => ~Says(queue'[l], kinds, i)
          PROVE  Word(queue'[k], i) \in Current(i)'
      <3>1. k + 1 \in 1..Len(queue) /\ queue[k + 1] = queue'[k]
        BY <1>3
      <3>2. ASSUME NEW l \in 1..Len(queue), l > k + 1 PROVE ~Says(queue[l], kinds, i)
        <4>1. l - 1 \in 1..Len(queue') /\ queue'[l - 1] = queue[l] /\ l - 1 > k
          BY <1>4, <3>2
        <4> QED
          BY <2>1, <4>1
      <3> QED
        BY <1>5, <2>1, <3>1, <3>2 DEF MapInv, LastWords
    <2> QED
      BY <2>1 DEF LastWords, Says, Word
  <1>9. ASSUME NEW i \in ReportBytes, NEW kinds \in KindSets, ~ToSend(i),
               \A k \in 1..Len(queue') : ~Says(queue'[k], kinds, i), Says(e, kinds, i)
        PROVE  Word(e, i) \in Current(i)
    <2>1. \A l \in 1..Len(queue) : l > 1 => ~Says(queue[l], kinds, i)
      BY <1>4, <1>6, <1>9
    <2> QED
      BY <1>6, <1>9, <2>1 DEF MapInv, LastWords, e
  <1>10. ShownWords'
    <2>1. ASSUME window \in {"Both", "CC only"}, mapBase = BaseChannel + 1,
                 NEW i \in ReportBytes, i \in learned', ~ToSend(i), ~InFlight(Kinds, i)'
          PROVE  V7(data'[i]) \in Current(i)
      <3>1. Kinds \in KindSets /\ Kinds' = Kinds
        BY <1>1 DEF Kinds, KindSets
      <3>2. \A k \in 1..Len(queue') : ~Says(queue'[k], Kinds, i)
        BY <2>1, <3>1 DEF InFlight
      <3>3. i \in MapIndexes /\ data \in [MapIndexes -> Byte]
        BY <2>1, Handled DEF MapInv, RawInv, TypeOK
      <3>4. Says(e, Kinds, i) => Word(e, i) \in Current(i)
        BY <1>9, <2>1, <3>1, <3>2
      <3>5. ASSUME i \in learned, data'[i] = data[i], ~Says(e, Kinds, i)
            PROVE  V7(data'[i]) \in Current(i)
        <4>1. \A k \in 1..Len(queue) : ~Says(queue[k], Kinds, i)
          BY <1>4, <3>2, <3>5 DEF e
        <4>2. ~InFlight(Kinds, i)
          BY <4>1 DEF InFlight
        <4> QED
          BY <2>1, <3>5, <4>2 DEF MapInv, ShownWords
      <3>6. CASE e.kind = "cc"
        <4>1. PICK j \in Numbers : e.address = RawAddress(j)
          BY <1>6, <3>6 DEF MapInv, Meant, e
        <4>2. RouteIndex(e.address) = j /\ j \in Numbers /\ i \in Numbers
          BY <2>1, <4>1, RouteInverts DEF ReportBytes
        <4>3. e.value \in 0..127 /\ Accepts("cc")
          BY <1>2, <2>1, <3>6, EventKinds DEF Accepts, Controllers
        <4>4. IF j \in MapIndexes
              THEN data' = [data EXCEPT ![j] = 2 * e.value] /\ learned' = learned \cup {j}
              ELSE UNCHANGED <<data, learned>>
          BY <1>2, <3>6, <4>2, <4>3, Handled DEF MapInv, RawInv
        <4>5. CASE i = j
          <5>1. data'[i] = 2 * e.value
            BY <3>3, <4>4, <4>5
          <5>2. V7(2 * e.value) = e.value
            BY <4>3 DEF V7
          <5>3. Says(e, Kinds, i) /\ Word(e, i) = e.value
            BY <3>6, <4>1, <4>5 DEF Says, Word, Kinds
          <5> QED
            BY <3>4, <5>1, <5>2, <5>3
        <4>6. CASE i # j
          <5>1. data'[i] = data[i] /\ i \in learned
            BY <2>1, <3>3, <4>4, <4>6
          <5>2. ~Says(e, Kinds, i)
            BY <3>6, <4>1, <4>2, <4>6, RawAddressDistinct DEF Says
          <5> QED
            BY <3>5, <5>1, <5>2
        <4> QED
          BY <4>5, <4>6
      <3>7. CASE e.kind = "sysex"
        <4>1. PICK r \in Reports :
                /\ e = SysEx(r)
                /\ IF Accepts("sysex")
                   THEN /\ \A n \in MapIndexes : data'[n] = IF n < Len(r) THEN At(r, n) ELSE data[n]
                        /\ learned' = learned \cup {n \in MapIndexes : n < Len(r)}
                   ELSE UNCHANGED <<data, learned>>
          BY <1>2, <3>7, Handled DEF MapInv, RawInv
        <4>2. CASE window = "Both"
          <5>1. Accepts("sysex") /\ Kinds = {"cc", "sysex"}
            BY <4>2 DEF Accepts, Kinds
          <5>2. i < Len(r)
            BY <2>1 DEF ReportBytes
          <5>3. data'[i] = At(r, i)
            BY <3>3, <4>1, <5>1, <5>2
          <5>4. Says(e, Kinds, i) /\ Word(e, i) = V7(At(r, i))
            BY <4>1, <5>1, SaysRaw
          <5> QED
            BY <3>4, <5>3, <5>4
        <4>3. CASE window = "CC only"
          <5>1. ~Accepts("sysex") /\ Kinds = {"cc"}
            BY <4>3 DEF Accepts, Kinds
          <5>2. data'[i] = data[i] /\ i \in learned
            BY <2>1, <4>1, <5>1
          <5>3. ~Says(e, Kinds, i)
            BY <4>1, <5>1, SaysRaw
          <5> QED
            BY <3>5, <5>2, <5>3
        <4> QED
          BY <2>1, <4>2, <4>3
      <3> QED
        BY <1>2, <3>6, <3>7, EventKinds
    <2> QED
      BY <1>1, <1>5, <2>1 DEF ShownWords
  <1> QED
    BY <1>7, <1>8, <1>10

LEMMA NextMap ==
  ASSUME RawBytes
  PROVE  MapInv /\ [Next]_vars => MapInv'
  <1> SUFFICES ASSUME MapInv, [Next]_vars PROVE Meant' /\ LastWords' /\ ShownWords'
    BY NextRaw DEF MapInv
  <1>1. ASSUME NEW report \in Reports, Read(report) PROVE Meant' /\ LastWords' /\ ShownWords'
    <2>1. \A i : Current(i)' = Current(i)
      BY <1>1 DEF Read, Current
    <2> QED
      BY <1>1, <2>1, QuietWords DEF Read
  <1>2. CASE SkipRaw \/ RawFails
    <2>1. \A i : Current(i) \subseteq Current(i)'
      BY <1>2 DEF SkipRaw, RawFails, Current
    <2> QED
      BY <1>2, <2>1, QuietWords DEF SkipRaw, RawFails
  <1>3. CASE PublishRaw
    BY <1>3, PublishWords
  <1>4. CASE Decode
    BY <1>4, DecodeWords
  <1>5. CASE SendCC
    BY <1>5, SendCCWords
  <1>6. CASE SendFails \/ Unplug \/ Reconnect
    <2>1. \A i : Current(i)' = Current(i)
      BY <1>6 DEF SendFails, Unplug, Reconnect, Current
    <2> QED
      BY <1>6, <2>1, QuietWords DEF SendFails, Unplug, Reconnect
  <1>7. CASE Handle
    BY <1>7, HandleWords
  <1>8. CASE OpenByteMap \/ CloseByteMap \/ (\E s \in Sources : SetSource(s)) \/ (\E c \in MapBases : SetBase(c))
    <2>1. /\ UNCHANGED <<at, packet, previous, outgoing, queue>>
          /\ learned' = {} \/ window' = "closed"
      BY <1>8 DEF OpenByteMap, CloseByteMap, SetSource, SetBase, bridgeVars
    <2>2. \A i : Current(i)' = Current(i) /\ (ToSend(i)' <=> ToSend(i))
      BY <2>1 DEF Current, ToSend
    <2> QED
      BY <2>1, <2>2 DEF MapInv, Meant, LastWords, ShownWords
  <1>9. CASE UNCHANGED vars
    <2>1. \A i : Current(i)' = Current(i)
      BY <1>9 DEF vars, bridgeVars, Current
    <2> QED
      BY <1>9, <2>1, QuietWords DEF vars, bridgeVars
  <1> QED
    BY <1>1, <1>2, <1>3, <1>4, <1>5, <1>6, <1>7, <1>8, <1>9 DEF Next, Bridge, Tester

\* For reports that the 16 channels have room for, short ones among them, and as long as
\* every byte is sent as it changes, the map never rests on a value the controller has
\* left.
THEOREM MapFollowsController ==
  ASSUME RawBytes
  PROVE  Spec => []MapFollows
  <1>1. MapInv => learned \subseteq MapIndexes /\ previous \in Reports \cup {<<>>}
    BY DEF MapInv, RawInv, TypeOK
  <1>2. ASSUME MapInv, at = "read", outgoing = {}, queue = <<>>, previous # <<>>,
               window \in {"Both", "CC only"}, mapBase = BaseChannel + 1,
               NEW i \in learned \cap NeverCut
        PROVE  V7(data[i]) = V7(At(previous, i))
    <2>1. previous \in Reports
      BY <1>1, <1>2
    <2>2. i \in ReportBytes
      <3>1. i \in Nat /\ \A r \in Reports : i < Len(r)
        <4>1. i \in MapIndexes /\ \A r \in Reports : i < Len(r)
          BY <1>2 DEF NeverCut
        <4> QED
          BY <4>1, MonitorAssumption DEF MapIndexes
      <3>2. Len(previous) \in Nat /\ Len(previous) <= 2048 /\ i < Len(previous)
        BY <2>1, <3>1, ReportFacts DEF RawBytes
      <3> QED
        BY <3>1, <3>2 DEF ReportBytes, Numbers
    <2>3. ~ToSend(i)
      BY <1>2 DEF ToSend
    <2>4. \A k : k \notin 1..Len(<<>>)
      OBVIOUS
    <2>5. ~InFlight(Kinds, i)
      BY <1>2, <2>4, Zenon DEF InFlight
    <2>6. V7(data[i]) \in Current(i)
      BY <1>2, <2>2, <2>3, <2>5 DEF MapInv, ShownWords
    <2> QED
      BY <1>2, <2>1, <2>6, CurrentIs
  <1>3. MapInv => MapFollows
    BY <1>2 DEF MapFollows
  <1> QED
    BY <1>3, InitMap, NextMap, PTL DEF Spec
=============================================================================
