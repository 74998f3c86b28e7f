---------------------------- MODULE FeedbackProofs ----------------------------
(***************************************************************************)
(* The feedback path implements PayloadChannel, for any payloads and other *)
(* messages.  First what encode_output makes of frames, of pieces of a     *)
(* SysEx and of everything else; then the queue.                           *)
(***************************************************************************)
EXTENDS Feedback, SequenceTheorems, TLAPS

-----------------------------------------------------------------------------
(* Frames *)

LEMMA DataIsByte == Seq(DataByte) \subseteq Seq(Byte)
  <1>1. DataByte \subseteq Byte
    BY DEF DataByte, Byte
  <1> QED
    BY <1>1, SeqMonotonic

LEMMA DataFacts == \A x \in DataByte : x # Start /\ x # End
  BY DEF DataByte, Start, End

LEMMA SysExFacts ==
  ASSUME NEW b \in Seq(Byte)
  PROVE  /\ SysEx(b) \in Seq(Byte)
         /\ Len(SysEx(b)) = Len(b) + 2 /\ Len(b) \in Nat
         /\ SysEx(b)[1] = Start /\ SysEx(b)[Len(b) + 2] = End
         /\ \A i \in 1..Len(b) : SysEx(b)[i + 1] = b[i] /\ b[i] \in Byte
  <1> DEFINE s == <<Start>>
             e == <<End>>
  <1>1. s \in Seq(Byte) /\ e \in Seq(Byte) /\ Len(s) = 1 /\ Len(e) = 1 /\ s[1] = Start /\ e[1] = End
    BY DEF Start, End, Byte
  <1> HIDE DEF s, e
  <1>2. Len(b) \in Nat /\ \A i \in 1..Len(b) : b[i] \in Byte
    BY LenProperties, ElementOfSeq
  <1>3. /\ s \o b \in Seq(Byte) /\ Len(s \o b) = 1 + Len(b)
        /\ \A i \in 1..(1 + Len(b)) : (s \o b)[i] = IF i <= 1 THEN s[i] ELSE b[i - 1]
    BY <1>1, ConcatProperties
  <1>4. /\ (s \o b) \o e \in Seq(Byte) /\ Len((s \o b) \o e) = Len(b) + 2
        /\ \A i \in 1..(Len(b) + 2) :
             ((s \o b) \o e)[i] = IF i <= Len(b) + 1 THEN (s \o b)[i] ELSE e[i - (Len(b) + 1)]
    <2>1. /\ (s \o b) \o e \in Seq(Byte) /\ Len((s \o b) \o e) = Len(s \o b) + Len(e)
          /\ \A i \in 1..(Len(s \o b) + Len(e)) :
               ((s \o b) \o e)[i] = IF i <= Len(s \o b) THEN (s \o b)[i] ELSE e[i - Len(s \o b)]
      BY <1>1, <1>3, ConcatProperties
    <2> QED
      BY <1>1, <1>2, <1>3, <2>1
  <1>5. SysEx(b) = (s \o b) \o e
    BY DEF SysEx, s, e
  <1>6. SysEx(b)[1] = Start
    BY <1>1, <1>2, <1>3, <1>4, <1>5
  <1>7. SysEx(b)[Len(b) + 2] = End
    BY <1>1, <1>2, <1>4, <1>5
  <1>8. \A i \in 1..Len(b) : SysEx(b)[i + 1] = b[i]
    BY <1>2, <1>3, <1>4, <1>5
  <1> QED
    BY <1>2, <1>4, <1>5, <1>6, <1>7, <1>8

LEMMA BodyFacts ==
  ASSUME NEW p \in Seq(Byte)
  PROVE  /\ Maker \o p \in Seq(Byte)
         /\ Len(Maker \o p) = Len(p) + 3 /\ Len(p) \in Nat
         /\ (Maker \o p)[1] = 125 /\ (Maker \o p)[2] = 83 /\ (Maker \o p)[3] = 52
         /\ \A i \in 1..Len(p) : (Maker \o p)[i + 3] = p[i]
  <1>1. /\ Maker \in Seq(Byte) /\ Len(Maker) = 3
        /\ Maker[1] = 125 /\ Maker[2] = 83 /\ Maker[3] = 52
    BY DEF Maker, Byte
  <1>2. Len(p) \in Nat
    BY LenProperties
  <1>3. /\ Maker \o p \in Seq(Byte) /\ Len(Maker \o p) = Len(Maker) + Len(p)
        /\ \A i \in 1..(Len(Maker) + Len(p)) :
             (Maker \o p)[i] = IF i <= Len(Maker) THEN Maker[i] ELSE p[i - Len(Maker)]
    <2>1. Maker \in Seq(Byte)
      BY <1>1
    <2> QED
      BY <2>1, ConcatProperties
  <1> QED
    BY <1>1, <1>2, <1>3

LEMMA FrameFacts ==
  ASSUME NEW p \in Seq(Byte)
  PROVE  /\ Frame(p) \in Seq(Byte) /\ Len(Frame(p)) = Len(p) + 5 /\ Len(p) \in Nat
         /\ Frame(p)[1] = Start /\ Frame(p)[Len(p) + 5] = End
         /\ Frame(p)[2] = 125 /\ Frame(p)[3] = 83 /\ Frame(p)[4] = 52
         /\ \A i \in 1..Len(p) : Frame(p)[i + 4] = p[i]
  <1> DEFINE b == Maker \o p
  <1>1. /\ b \in Seq(Byte) /\ Len(b) = Len(p) + 3 /\ Len(p) \in Nat
        /\ b[1] = 125 /\ b[2] = 83 /\ b[3] = 52
        /\ \A i \in 1..Len(p) : b[i + 3] = p[i]
    BY BodyFacts
  <1> HIDE DEF b
  <1>2. /\ SysEx(b) \in Seq(Byte) /\ Len(SysEx(b)) = Len(b) + 2
        /\ SysEx(b)[1] = Start /\ SysEx(b)[Len(b) + 2] = End
        /\ \A i \in 1..Len(b) : SysEx(b)[i + 1] = b[i]
    <2>1. b \in Seq(Byte)
      BY <1>1
    <2> QED
      BY <2>1, SysExFacts
  <1>3. SysEx(b)[2] = 125 /\ SysEx(b)[3] = 83 /\ SysEx(b)[4] = 52
    <2>1. 1 \in 1..Len(b) /\ 2 \in 1..Len(b) /\ 3 \in 1..Len(b)
      BY <1>1
    <2> QED
      BY <1>1, <1>2, <2>1
  <1>4. \A i \in 1..Len(p) : SysEx(b)[i + 4] = p[i]
    <2> SUFFICES ASSUME NEW i \in 1..Len(p) PROVE SysEx(b)[i + 4] = p[i]
      OBVIOUS
    <2>1. i + 3 \in 1..Len(b) /\ (i + 3) + 1 = i + 4
      BY <1>1
    <2> QED
      BY <1>1, <1>2, <2>1
  <1> QED
    BY <1>1, <1>2, <1>3, <1>4 DEF Frame, b

\* The test of the maker, byte by byte.
LEMMA HeaderFacts ==
  ASSUME NEW m \in Seq(Byte), Len(m) >= 5
  PROVE  SubSeq(m, 2, 4) = Maker <=> m[2] = 125 /\ m[3] = 83 /\ m[4] = 52
  <1>1. \A i \in 2..4 : m[i] \in Byte
    BY ElementOfSeq, LenProperties
  <1>2. /\ SubSeq(m, 2, 4) \in Seq(Byte)
        /\ Len(SubSeq(m, 2, 4)) = IF 2 <= 4 THEN 4 - 2 + 1 ELSE 0
        /\ \A i \in 1..(4 - 2 + 1) : SubSeq(m, 2, 4)[i] = m[2 + i - 1]
    BY <1>1, SubSeqProperties
  <1>3. /\ SubSeq(m, 2, 4)[1] = m[2] /\ SubSeq(m, 2, 4)[2] = m[3] /\ SubSeq(m, 2, 4)[3] = m[4]
        /\ Len(SubSeq(m, 2, 4)) = 3
    BY <1>2
  <1>4. /\ Maker \in Seq(Byte) /\ Len(Maker) = 3
        /\ Maker[1] = 125 /\ Maker[2] = 83 /\ Maker[3] = 52
    BY DEF Maker, Byte
  <1>5. ASSUME m[2] = 125 /\ m[3] = 83 /\ m[4] = 52 PROVE SubSeq(m, 2, 4) = Maker
    <2>1. \A i \in 1..3 : SubSeq(m, 2, 4)[i] = Maker[i]
      BY <1>3, <1>4, <1>5
    <2> HIDE DEF Maker
    <2> QED
      BY <1>2, <1>3, <1>4, <2>1, SeqEqual
  <1> QED
    BY <1>3, <1>4, <1>5

\* What the DAW frames is what encode_output finds.
LEMMA FrameDecodes ==
  ASSUME NEW p \in Seq(Byte)
  PROVE  EncodeOutput(Frame(p)) = {p}
  <1> DEFINE m == Frame(p)
  <1>1. /\ m \in Seq(Byte) /\ Len(m) = Len(p) + 5 /\ Len(p) \in Nat
        /\ m[1] = Start /\ m[Len(p) + 5] = End
        /\ m[2] = 125 /\ m[3] = 83 /\ m[4] = 52
        /\ \A i \in 1..Len(p) : m[i + 4] = p[i]
    BY FrameFacts
  <1> HIDE DEF m
  <1>2. \A i \in 1..Len(m) : m[i] \in Byte
    BY <1>1, ElementOfSeq
  <1>3. SubSeq(m, 2, 4) = Maker
    BY <1>1, <1>2, HeaderFacts
  <1>4. SubSeq(m, 5, Len(m) - 1) = p
    <2>1. /\ SubSeq(m, 5, Len(m) - 1) \in Seq(Byte)
          /\ Len(SubSeq(m, 5, Len(m) - 1)) = IF 5 <= Len(m) - 1 THEN (Len(m) - 1) - 5 + 1 ELSE 0
          /\ \A i \in 1..((Len(m) - 1) - 5 + 1) : SubSeq(m, 5, Len(m) - 1)[i] = m[5 + i - 1]
      <3>1. \A i \in 5..(Len(m) - 1) : m[i] \in Byte
        BY <1>1, <1>2
      <3>2. 5 \in Int /\ Len(m) - 1 \in Int
        BY <1>1
      <3> QED
        BY <3>1, <3>2, SubSeqProperties
    <2>2. Len(SubSeq(m, 5, Len(m) - 1)) = Len(p)
      BY <1>1, <2>1
    <2>3. \A i \in 1..Len(p) : SubSeq(m, 5, Len(m) - 1)[i] = p[i]
      BY <1>1, <2>1
    <2> QED
      BY <2>1, <2>2, <2>3, SeqEqual
  <1>5. Len(m) >= 5 /\ m[Len(m)] = End
    BY <1>1
  <1>6. EncodeOutput(m) = {p}
    BY <1>1, <1>3, <1>4, <1>5 DEF EncodeOutput
  <1> QED
    BY <1>6 DEF m

\* Nothing else is taken for a frame: the payload found is the one it frames.
THEOREM OnlyFramesDecode ==
  ASSUME NEW m \in Seq(Byte), NEW q \in EncodeOutput(m)
  PROVE  q \in Seq(Byte) /\ m = Frame(q)
  <1>1. /\ Len(m) >= 5 /\ m[1] = Start /\ m[Len(m)] = End
        /\ SubSeq(m, 2, 4) = Maker /\ q = SubSeq(m, 5, Len(m) - 1)
    BY DEF EncodeOutput
  <1>2. Len(m) \in Nat /\ \A i \in 1..Len(m) : m[i] \in Byte
    BY LenProperties, ElementOfSeq
  <1>3. m[2] = 125 /\ m[3] = 83 /\ m[4] = 52
    BY <1>1, HeaderFacts
  <1>4. /\ q \in Seq(Byte)
        /\ Len(q) = IF 5 <= Len(m) - 1 THEN (Len(m) - 1) - 5 + 1 ELSE 0
        /\ \A i \in 1..((Len(m) - 1) - 5 + 1) : q[i] = m[5 + i - 1]
    <2>1. \A i \in 5..(Len(m) - 1) : m[i] \in Byte
      BY <1>2
    <2>2. 5 \in Int /\ Len(m) - 1 \in Int
      BY <1>2
    <2> QED
      BY <1>1, <2>1, <2>2, SubSeqProperties
  <1>5. Len(q) = Len(m) - 5
    <2>1. Len(m) \in Nat /\ Len(m) >= 5
      BY <1>1, <1>2
    <2>2. \A n \in Nat : n >= 5 => (IF 5 <= n - 1 THEN (n - 1) - 5 + 1 ELSE 0) = n - 5
      OBVIOUS
    <2> QED
      BY <1>4, <2>1, <2>2, Zenon
  <1> DEFINE f == Frame(q)
  <1>6. /\ f \in Seq(Byte) /\ Len(f) = Len(q) + 5
        /\ f[1] = Start /\ f[Len(q) + 5] = End
        /\ f[2] = 125 /\ f[3] = 83 /\ f[4] = 52
        /\ \A i \in 1..Len(q) : f[i + 4] = q[i]
    <2>1. q \in Seq(Byte)
      BY <1>4
    <2> QED
      BY <2>1, FrameFacts, ZenonT(60)
  <1> HIDE DEF f
  <1>7. \A i \in 1..Len(m) : m[i] = f[i]
    <2> SUFFICES ASSUME NEW i \in 1..Len(m) PROVE m[i] = f[i]
      OBVIOUS
    <2>1. CASE i <= 4
      <3>1. i = 1 \/ i = 2 \/ i = 3 \/ i = 4
        BY <1>2, <2>1
      <3>2. m[1] = f[1] /\ m[2] = f[2] /\ m[3] = f[3] /\ m[4] = f[4]
        BY <1>1, <1>3, <1>6, Zenon
      <3> QED
        BY <3>1, <3>2, Zenon
    <2>2. CASE i > 4 /\ i < Len(m)
      <3>1. i - 4 \in 1..Len(q) /\ (i - 4) + 4 = i /\ 5 + (i - 4) - 1 = i
        BY <1>2, <1>5, <2>2
      <3>2. i - 4 \in 1..((Len(m) - 1) - 5 + 1)
        BY <1>2, <2>2
      <3>3. q[i - 4] = m[i]
        BY <1>4, <3>1, <3>2
      <3>4. f[i] = q[i - 4]
        BY <1>6, <3>1
      <3> QED
        BY <3>3, <3>4
    <2>3. CASE i = Len(m)
      BY <1>1, <1>2, <1>5, <1>6, <2>3
    <2> QED
      BY <1>2, <2>1, <2>2, <2>3
  <1>8. m = f
    BY <1>1, <1>2, <1>5, <1>6, <1>7, SeqEqual
  <1> QED
    BY <1>4, <1>8 DEF f

\* However a SysEx is cut in two, neither piece is a frame.
THEOREM PieceIsNoFrame ==
  ASSUME NEW b \in Seq(DataByte), NEW k \in 1..(Len(SysEx(b)) - 1)
  PROVE  LET m == SysEx(b)
         IN /\ EncodeOutput(SubSeq(m, 1, k)) = {}
            /\ EncodeOutput(SubSeq(m, k + 1, Len(m))) = {}
            /\ SubSeq(m, 1, k) \in Seq(Byte) \ {<<>>}
            /\ SubSeq(m, k + 1, Len(m)) \in Seq(Byte) \ {<<>>}
  <1> DEFINE m == SysEx(b)
             f == SubSeq(m, 1, k)
             r == SubSeq(m, k + 1, Len(m))
  <1>1. b \in Seq(Byte) /\ Len(b) \in Nat /\ \A i \in 1..Len(b) : b[i] \in DataByte
    BY DataIsByte, LenProperties, ElementOfSeq
  <1>2. /\ m \in Seq(Byte) /\ Len(m) = Len(b) + 2
        /\ m[1] = Start /\ m[Len(b) + 2] = End
        /\ \A i \in 1..Len(b) : m[i + 1] = b[i]
    BY <1>1, SysExFacts
  <1>3. \A i \in 1..Len(m) : m[i] \in Byte
    BY <1>2, ElementOfSeq
  <1>4. k \in Nat /\ k >= 1 /\ k <= Len(b) + 1
    BY <1>1, <1>2
  <1> HIDE DEF m
  <1>5. /\ f \in Seq(Byte) /\ Len(f) = IF 1 <= k THEN k - 1 + 1 ELSE 0
        /\ \A i \in 1..(k - 1 + 1) : f[i] = m[1 + i - 1]
    <2>1. \A i \in 1..k : m[i] \in Byte
      BY <1>1, <1>2, <1>3, <1>4
    <2> QED
      BY <1>4, <2>1, SubSeqProperties
  <1>6. /\ r \in Seq(Byte) /\ Len(r) = IF k + 1 <= Len(m) THEN Len(m) - (k + 1) + 1 ELSE 0
        /\ \A i \in 1..(Len(m) - (k + 1) + 1) : r[i] = m[(k + 1) + i - 1]
    <2>1. \A i \in (k + 1)..Len(m) : m[i] \in Byte
      BY <1>1, <1>2, <1>3, <1>4
    <2>2. k + 1 \in Int /\ Len(m) \in Int
      BY <1>1, <1>2, <1>4
    <2> QED
      BY <2>1, <2>2, SubSeqProperties
  <1> HIDE DEF f, r
  <1>7. Len(f) = k /\ f[Len(f)] = m[k]
    BY <1>4, <1>5
  <1>8. m[k] # End
    <2>1. CASE k = 1
      BY <1>2, <2>1 DEF Start, End
    <2>2. CASE k > 1
      <3>1. k - 1 \in 1..Len(b) /\ (k - 1) + 1 = k
        BY <1>1, <1>4, <2>2
      <3>2. m[k] \in DataByte
        BY <1>1, <1>2, <3>1
      <3> QED
        BY <3>2, DataFacts, Zenon
    <2> QED
      BY <1>4, <2>1, <2>2
  <1>9. Len(r) \in Nat \ {0} /\ r[1] = m[k + 1]
    <2>1. Len(r) = (Len(b) + 2) - k /\ Len(r) \in Nat \ {0} /\ 1 \in 1..(Len(m) - (k + 1) + 1)
      BY <1>1, <1>2, <1>4, <1>6
    <2> QED
      BY <1>4, <1>6, <2>1
  <1>10. m[k + 1] # Start
    <2>1. CASE k = Len(b) + 1
      BY <1>1, <1>2, <2>1 DEF Start, End
    <2>2. CASE k <= Len(b)
      <3>1. m[k + 1] \in DataByte
        BY <1>1, <1>2, <1>4, <2>2
      <3> QED
        BY <3>1, DataFacts, Zenon
    <2> QED
      BY <1>1, <1>4, <2>1, <2>2
  <1>11. EncodeOutput(f) = {} /\ EncodeOutput(r) = {}
    BY <1>7, <1>8, <1>9, <1>10 DEF EncodeOutput
  <1>12. f # <<>> /\ r # <<>>
    BY <1>4, <1>7, <1>9
  <1> QED
    BY <1>5, <1>6, <1>11, <1>12 DEF m, f, r

LEMMA OtherIsNoFrame ==
  ASSUME NEW b \in OtherSysEx
  PROVE  EncodeOutput(SysEx(b)) = {} /\ SysEx(b) \in Seq(Byte) \ {<<>>}
  <1> DEFINE m == SysEx(b)
  <1>1. b \in Seq(DataByte) /\ b \in Seq(Byte) /\ (Len(b) < 3 \/ SubSeq(b, 1, 3) # Maker)
    BY MidiAssumption, DataIsByte
  <1>2. /\ m \in Seq(Byte) /\ Len(m) = Len(b) + 2 /\ Len(b) \in Nat
        /\ \A i \in 1..Len(b) : m[i + 1] = b[i] /\ b[i] \in Byte
    BY <1>1, SysExFacts
  <1> HIDE DEF m
  <1>3. ASSUME Len(m) >= 5, SubSeq(m, 2, 4) = Maker PROVE FALSE
    <2>1. m[2] = 125 /\ m[3] = 83 /\ m[4] = 52
      BY <1>2, <1>3, HeaderFacts
    <2>2. b[1] = 125 /\ b[2] = 83 /\ b[3] = 52 /\ Len(b) >= 3
      BY <1>2, <1>3, <2>1
    <2>3. /\ SubSeq(b, 1, 3) \in Seq(Byte)
          /\ Len(SubSeq(b, 1, 3)) = IF 1 <= 3 THEN 3 - 1 + 1 ELSE 0
          /\ \A i \in 1..(3 - 1 + 1) : SubSeq(b, 1, 3)[i] = b[1 + i - 1]
      <3>1. \A i \in 1..3 : b[i] \in Byte
        BY <1>2, <2>2
      <3> QED
        BY <3>1, SubSeqProperties
    <2>4. /\ Maker \in Seq(Byte) /\ Len(Maker) = 3
          /\ Maker[1] = 125 /\ Maker[2] = 83 /\ Maker[3] = 52
      BY DEF Maker, Byte
    <2>5. Len(SubSeq(b, 1, 3)) = 3 /\ \A i \in 1..3 : SubSeq(b, 1, 3)[i] = Maker[i]
      BY <2>2, <2>3, <2>4
    <2>6. SubSeq(b, 1, 3) = Maker
      <3> HIDE DEF Maker
      <3> QED
        BY <2>3, <2>4, <2>5, SeqEqual
    <2> QED
      BY <1>1, <2>2, <2>6, <1>2
  <1>4. EncodeOutput(m) = {}
    BY <1>3 DEF EncodeOutput
  <1>5. m # <<>>
    BY <1>2, EmptySeq
  <1> QED
    BY <1>2, <1>4, <1>5 DEF m

LEMMA ShortIsNoFrame ==
  ASSUME NEW m \in ShortPackets
  PROVE  EncodeOutput(m) = {} /\ m \in Seq(Byte) \ {<<>>}
  BY MidiAssumption DEF EncodeOutput

-----------------------------------------------------------------------------
(* The queue *)

PacketSet == [data : Seq(Byte) \ {<<>>}, of : Nat]
Transfers == [of : Nat, bytes : Seq(Byte)]

TypeInv ==
  /\ log \in Seq(Payloads)
  /\ packets \in Seq(PacketSet)
  /\ written \in Seq(Transfers)
  /\ inList \in 0..Len(packets)

\* A packet is the frame of the payload it is for, or decodes to nothing.
FrameInv ==
  \A k \in 1..Len(packets) :
    IF packets[k].of = 0 THEN EncodeOutput(packets[k].data) = {}
    ELSE packets[k].of <= Len(log) /\ packets[k].data = Frame(log[packets[k].of])

\* Frames wait in the order they were sent, behind those already written.
OrderInv ==
  /\ \A j, k \in 1..Len(packets) :
       j < k /\ packets[k].of # 0 => packets[j].of < packets[k].of
  /\ \A j \in 1..Len(written) :
       /\ written[j].of # 0 /\ written[j].of <= Len(log)
       /\ \A k \in 1..Len(packets) : packets[k].of # 0 => written[j].of < packets[k].of

FlagInv == up \in BOOLEAN /\ warned \in BOOLEAN /\ sent \in 0..MaxMessages

IInv == TypeInv /\ FrameInv /\ OrderInv /\ FlagInv

LEMMA PayloadIsBytes == \A p \in Payloads : p \in Seq(DataByte) /\ p \in Seq(Byte)
  BY MidiAssumption, DataIsByte

LEMMA InitInv == Init => IInv
  <1> SUFFICES ASSUME Init PROVE IInv
    OBVIOUS
  <1>1. /\ log = <<>> /\ packets = <<>> /\ written = <<>> /\ inList = 0 /\ sent = 0
        /\ up = TRUE /\ warned = FALSE
    BY DEF Init
  <1>2. /\ <<>> \in Seq(Payloads) /\ <<>> \in Seq(PacketSet) /\ <<>> \in Seq(Transfers)
        /\ Len(packets) = 0 /\ Len(written) = 0
    BY <1>1, EmptySeq
  <1>3. TypeInv /\ FrameInv /\ OrderInv
    BY <1>1, <1>2 DEF TypeInv, FrameInv, OrderInv
  <1>4. FlagInv
    <2>1. up \in BOOLEAN /\ warned \in BOOLEAN
      BY <1>1, Zenon
    <2>2. sent \in 0..MaxMessages
      BY <1>1, OutputAssumption
    <2> QED
      BY <2>1, <2>2 DEF FlagInv
  <1> QED
    BY <1>3, <1>4 DEF IInv

\* The log grows at its end or not at all.
Grows == log' = log \/ \E p \in Payloads : log' = Append(log, p)

LEMMA LogFacts ==
  ASSUME TypeInv, Grows
  PROVE  /\ log' \in Seq(Payloads) /\ Len(log) \in Nat /\ Len(log') \in Nat /\ Len(log) <= Len(log')
         /\ \A n \in 1..Len(log) : log'[n] = log[n] /\ log[n] \in Payloads
  <1>1. log \in Seq(Payloads)
    BY DEF TypeInv
  <1>2. Len(log) \in Nat /\ \A n \in 1..Len(log) : log[n] \in Payloads
    BY <1>1, LenProperties, ElementOfSeq
  <1>3. CASE log' = log
    BY <1>1, <1>2, <1>3
  <1>4. ASSUME NEW p \in Payloads, log' = Append(log, p)
        PROVE  /\ log' \in Seq(Payloads) /\ Len(log') = Len(log) + 1
               /\ \A n \in 1..Len(log) : log'[n] = log[n]
    BY <1>1, <1>4, AppendProperties
  <1> QED
    BY <1>2, <1>3, <1>4 DEF Grows

LEMMA NumbersOfPackets ==
  ASSUME NEW s \in Seq(PacketSet)
  PROVE  \A k \in 1..Len(s) : s[k] \in PacketSet /\ s[k].of \in Nat
  <1>1. \A k \in 1..Len(s) : s[k] \in PacketSet
    BY ElementOfSeq
  <1> QED
    BY <1>1 DEF PacketSet

LEMMA NumbersOfTransfers ==
  ASSUME NEW s \in Seq(Transfers)
  PROVE  \A k \in 1..Len(s) : s[k] \in Transfers /\ s[k].of \in Nat
  <1>1. \A k \in 1..Len(s) : s[k] \in Transfers
    BY ElementOfSeq
  <1> QED
    BY <1>1 DEF Transfers

\* Messages join the queue: as a frame of the newest payload, or as no frame.
LEMMA QueueInv ==
  ASSUME IInv, Grows, NEW new \in Seq(PacketSet), Queue(new),
         \A k \in 1..Len(new) :
           IF new[k].of = 0 THEN EncodeOutput(new[k].data) = {}
           ELSE /\ k = 1 /\ new[k].of = Len(log) + 1 /\ Len(log') = Len(log) + 1
                /\ new[k].data = Frame(log'[Len(log) + 1])
  PROVE  IInv'
  <1>1. /\ packets' = packets \o new /\ inList' = inList /\ written' = written
        /\ up' = up /\ warned' = warned /\ sent < MaxMessages /\ sent' = sent + 1
    BY DEF Queue
  <1>2. /\ packets \in Seq(PacketSet) /\ written \in Seq(Transfers) /\ inList \in 0..Len(packets)
        /\ Len(packets) \in Nat /\ Len(new) \in Nat /\ Len(written) \in Nat
    BY LenProperties DEF IInv, TypeInv
  <1>3. /\ packets' \in Seq(PacketSet) /\ Len(packets') = Len(packets) + Len(new)
        /\ \A k \in 1..(Len(packets) + Len(new)) :
             packets'[k] = IF k <= Len(packets) THEN packets[k] ELSE new[k - Len(packets)]
    BY <1>1, <1>2, ConcatProperties
  <1>4. /\ log' \in Seq(Payloads) /\ Len(log) \in Nat /\ Len(log') \in Nat /\ Len(log) <= Len(log')
        /\ \A n \in 1..Len(log) : log'[n] = log[n]
    BY LogFacts DEF IInv
  <1>5. /\ \A k \in 1..Len(packets) : packets[k].of \in Nat
        /\ \A k \in 1..Len(written) : written[k].of \in Nat
        /\ \A k \in 1..Len(new) : new[k].of \in Nat
    BY <1>2, NumbersOfPackets, NumbersOfTransfers
  <1>6. TypeInv'
    BY <1>1, <1>2, <1>3, <1>4 DEF TypeInv
  <1>7. ASSUME NEW k \in 1..Len(packets')
        PROVE  \/ k \in 1..Len(packets) /\ packets'[k] = packets[k]
               \/ k > Len(packets) /\ k - Len(packets) \in 1..Len(new) /\ packets'[k] = new[k - Len(packets)]
    BY <1>2, <1>3
  <1>8. FrameInv'
    <2> SUFFICES ASSUME NEW k \in 1..Len(packets')
                 PROVE  IF packets'[k].of = 0 THEN EncodeOutput(packets'[k].data) = {}
                        ELSE packets'[k].of <= Len(log') /\ packets'[k].data = Frame(log'[packets'[k].of])
      BY DEF FrameInv
    <2>1. CASE k \in 1..Len(packets) /\ packets'[k] = packets[k]
      <3>1. CASE packets[k].of = 0
        BY <2>1, <3>1 DEF IInv, FrameInv
      <3>2. CASE packets[k].of # 0
        <4>1. packets[k].of <= Len(log) /\ packets[k].data = Frame(log[packets[k].of])
          BY <2>1, <3>2 DEF IInv, FrameInv
        <4>2. packets[k].of \in 1..Len(log)
          BY <1>4, <1>5, <2>1, <3>2, <4>1
        <4>3. log'[packets[k].of] = log[packets[k].of]
          BY <1>4, <4>2
        <4>4. packets[k].of <= Len(log')
          BY <1>4, <4>2
        <4> QED
          BY <2>1, <3>2, <4>1, <4>3, <4>4
      <3> QED
        BY <3>1, <3>2
    <2>2. CASE k > Len(packets) /\ k - Len(packets) \in 1..Len(new) /\ packets'[k] = new[k - Len(packets)]
      <3>1. CASE new[k - Len(packets)].of = 0
        BY <2>2, <3>1
      <3>2. CASE new[k - Len(packets)].of # 0
        <4>1. /\ new[k - Len(packets)].of = Len(log) + 1 /\ Len(log') = Len(log) + 1
              /\ new[k - Len(packets)].data = Frame(log'[Len(log) + 1])
          BY <2>2, <3>2
        <4>2. new[k - Len(packets)].of <= Len(log')
          BY <1>4, <4>1
        <4> QED
          BY <2>2, <3>2, <4>1, <4>2
      <3> QED
        BY <3>1, <3>2
    <2> QED
      BY <1>7, <2>1, <2>2
  <1>9. OrderInv'
    <2>1. ASSUME NEW j \in 1..Len(packets'), NEW k \in 1..Len(packets'), j < k, packets'[k].of # 0
          PROVE  packets'[j].of < packets'[k].of
      <3>1. CASE k \in 1..Len(packets) /\ packets'[k] = packets[k]
        <4>1. j \in 1..Len(packets) /\ packets'[j] = packets[j]
          BY <1>2, <1>3, <2>1, <3>1
        <4> QED
          BY <2>1, <3>1, <4>1 DEF IInv, OrderInv
      <3>2. CASE k > Len(packets) /\ k - Len(packets) \in 1..Len(new) /\ packets'[k] = new[k - Len(packets)]
        <4>1. packets'[k].of = Len(log) + 1 /\ k - Len(packets) = 1
          BY <2>1, <3>2
        <4>2. j \in 1..Len(packets) /\ packets'[j] = packets[j]
          BY <1>2, <1>3, <2>1, <4>1
        <4>3. packets[j].of = 0 \/ packets[j].of <= Len(log)
          BY <4>2 DEF IInv, FrameInv
        <4> QED
          BY <1>4, <1>5, <4>1, <4>2, <4>3
      <3> QED
        BY <1>7, <3>1, <3>2
    <2>2. ASSUME NEW j \in 1..Len(written')
          PROVE  /\ written'[j].of # 0 /\ written'[j].of <= Len(log')
                 /\ \A k \in 1..Len(packets') : packets'[k].of # 0 => written'[j].of < packets'[k].of
      <3>1. /\ j \in 1..Len(written) /\ written'[j] = written[j]
            /\ written[j].of # 0 /\ written[j].of <= Len(log) /\ written[j].of \in Nat
        BY <1>1, <1>5, <2>2 DEF IInv, OrderInv
      <3>2. ASSUME NEW k \in 1..Len(packets'), packets'[k].of # 0
            PROVE  written[j].of < packets'[k].of
        <4>1. CASE k \in 1..Len(packets) /\ packets'[k] = packets[k]
          BY <3>1, <3>2, <4>1 DEF IInv, OrderInv
        <4>2. CASE k > Len(packets) /\ k - Len(packets) \in 1..Len(new) /\ packets'[k] = new[k - Len(packets)]
          <5>1. packets'[k].of = Len(log) + 1
            BY <3>2, <4>2
          <5> QED
            BY <1>4, <3>1, <5>1
        <4> QED
          BY <1>7, <4>1, <4>2
      <3>3. written[j].of <= Len(log')
        BY <1>4, <3>1
      <3> QED
        BY <3>1, <3>2, <3>3
    <2> QED
      BY <2>1, <2>2 DEF OrderInv
  <1>10. FlagInv'
    BY <1>1, OutputAssumption DEF IInv, FlagInv
  <1> QED
    BY <1>6, <1>8, <1>9, <1>10 DEF IInv

\* A packet leaves the queue, with the transfer it caused or with none.
Transferred ==
  \/ written' = written
  \/ \E b \in Seq(Byte) :
       /\ Head(packets).of # 0
       /\ written' = Append(written, [of |-> Head(packets).of, bytes |-> b])

LEMMA FlagsKept ==
  ASSUME IInv, sent' = sent, up' \in BOOLEAN, warned' \in BOOLEAN
  PROVE  FlagInv' /\ (TypeInv' /\ FrameInv' /\ OrderInv' => IInv')
  <1>1. sent' \in 0..MaxMessages
    BY DEF IInv, FlagInv
  <1>2. FlagInv'
    BY <1>1, Zenon DEF FlagInv
  <1> QED
    BY <1>2 DEF IInv

LEMMA DequeueInv ==
  ASSUME IInv, inList > 0, PacketDone, Transferred, log' = log, sent' = sent,
         up' \in BOOLEAN, warned' \in BOOLEAN
  PROVE  IInv'
  <1>1. /\ packets \in Seq(PacketSet) /\ written \in Seq(Transfers) /\ inList \in 0..Len(packets)
        /\ log \in Seq(Payloads)
    BY DEF IInv, TypeInv
  <1>2. Len(packets) \in Nat /\ Len(written) \in Nat /\ Len(log) \in Nat
    BY <1>1, LenProperties
  <1>3. packets # <<>> /\ 1 \in 1..Len(packets)
    BY <1>1, <1>2, EmptySeq
  <1>4. /\ packets' \in Seq(PacketSet) /\ Len(packets') = Len(packets) - 1
        /\ \A k \in 1..Len(packets') : packets'[k] = packets[k + 1]
    BY <1>1, <1>3, HeadTailProperties DEF PacketDone
  <1>5. \A k \in 1..Len(packets') : k + 1 \in 1..Len(packets) /\ 1 < k + 1
    BY <1>2, <1>4
  <1>6. inList' \in 0..Len(packets')
    BY <1>1, <1>2, <1>4 DEF PacketDone
  <1>7. Head(packets) = packets[1]
    BY <1>1, <1>3
  <1>8. \A k \in 1..Len(packets) : packets[k].of \in Nat
    BY <1>1, NumbersOfPackets
  <1>9. FrameInv'
    BY <1>4, <1>5 DEF IInv, FrameInv
  <1>10. \A j, k \in 1..Len(packets') : j < k /\ packets'[k].of # 0 => packets'[j].of < packets'[k].of
    <2> SUFFICES ASSUME NEW j \in 1..Len(packets'), NEW k \in 1..Len(packets'), j < k, packets'[k].of # 0
                 PROVE  packets'[j].of < packets'[k].of
      OBVIOUS
    <2>1. j + 1 < k + 1 /\ j + 1 \in 1..Len(packets) /\ k + 1 \in 1..Len(packets)
      BY <1>5
    <2> QED
      BY <1>4, <2>1 DEF IInv, OrderInv
  <1>11. CASE written' = written
    <2>1. TypeInv'
      BY <1>1, <1>4, <1>6, <1>11 DEF TypeInv
    <2>2. OrderInv'
      BY <1>4, <1>5, <1>10, <1>11 DEF IInv, OrderInv
    <2> QED
      BY <1>9, <2>1, <2>2, FlagsKept
  <1>12. ASSUME NEW b \in Seq(Byte), Head(packets).of # 0,
                written' = Append(written, [of |-> Head(packets).of, bytes |-> b])
         PROVE  IInv'
    <2> DEFINE t == [of |-> packets[1].of, bytes |-> b]
    <2>1. t \in Transfers /\ t.of = packets[1].of
      BY <1>3, <1>8 DEF Transfers
    <2> HIDE DEF t
    <2>2. written' = Append(written, t)
      BY <1>7, <1>12 DEF t
    <2>3. /\ written' \in Seq(Transfers) /\ Len(written') = Len(written) + 1
          /\ \A j \in 1..Len(written) : written'[j] = written[j]
          /\ written'[Len(written) + 1] = t
      BY <1>1, <2>1, <2>2, AppendProperties
    <2>4. TypeInv'
      BY <1>1, <1>4, <1>6, <2>3 DEF TypeInv
    <2>5. packets[1].of # 0 /\ packets[1].of <= Len(log)
      BY <1>3, <1>7, <1>12 DEF IInv, FrameInv
    <2>6. ASSUME NEW j \in 1..Len(written')
          PROVE  /\ written'[j].of # 0 /\ written'[j].of <= Len(log')
                 /\ \A k \in 1..Len(packets') : packets'[k].of # 0 => written'[j].of < packets'[k].of
      <3>1. CASE j \in 1..Len(written)
        BY <1>4, <1>5, <2>3, <3>1 DEF IInv, OrderInv
      <3>2. CASE j = Len(written) + 1
        <4>1. written'[j].of = packets[1].of
          BY <2>1, <2>3, <3>2
        <4>2. \A k \in 1..Len(packets') : packets'[k].of # 0 => packets[1].of < packets'[k].of
          BY <1>3, <1>4, <1>5 DEF IInv, OrderInv
        <4> QED
          BY <2>5, <4>1, <4>2
      <3> QED
        BY <1>2, <2>3, <3>1, <3>2
    <2>7. OrderInv'
      BY <1>10, <2>6 DEF OrderInv
    <2> QED
      BY <1>9, <2>4, <2>7, FlagsKept
  <1> QED
    BY <1>11, <1>12 DEF Transferred

\* The head of the queue decodes to the payload it frames, or to nothing.
LEMMA HeadDecodes ==
  ASSUME IInv, inList > 0, NEW p \in EncodeOutput(Head(packets).data)
  PROVE  /\ Head(packets).of \in 1..Len(log)
         /\ p = log[Head(packets).of] /\ p \in Seq(Byte)
         /\ \A k \in 1..Len(written) : written[k].of < Head(packets).of
  <1>1. packets \in Seq(PacketSet) /\ log \in Seq(Payloads) /\ inList \in 0..Len(packets)
    BY DEF IInv, TypeInv
  <1>2. Len(packets) \in Nat /\ Len(log) \in Nat
    BY <1>1, LenProperties
  <1>3. packets # <<>> /\ 1 \in 1..Len(packets)
    BY <1>1, <1>2, EmptySeq
  <1>4. Head(packets) = packets[1]
    BY <1>1, <1>3
  <1>5. packets[1].of \in Nat
    BY <1>1, <1>3, NumbersOfPackets
  <1>6. packets[1].of # 0
    BY <1>3, <1>4 DEF IInv, FrameInv
  <1>7. packets[1].of <= Len(log) /\ packets[1].data = Frame(log[packets[1].of])
    BY <1>3, <1>6 DEF IInv, FrameInv
  <1>8. packets[1].of \in 1..Len(log)
    BY <1>2, <1>5, <1>6, <1>7
  <1>9. log[packets[1].of] \in Seq(Byte)
    BY <1>1, <1>8, ElementOfSeq, PayloadIsBytes
  <1>10. EncodeOutput(Head(packets).data) = {log[packets[1].of]}
    BY <1>4, <1>7, <1>9, FrameDecodes
  <1>11. \A k \in 1..Len(written) : written[k].of < packets[1].of
    BY <1>3, <1>6 DEF IInv, OrderInv
  <1> QED
    BY <1>4, <1>8, <1>9, <1>10, <1>11

-----------------------------------------------------------------------------
(* Every step *)

LEMMA PacketFacts ==
  ASSUME NEW d \in Seq(Byte) \ {<<>>}, NEW n \in Nat
  PROVE  /\ Packet(d, n) \in PacketSet /\ Packet(d, n).data = d /\ Packet(d, n).of = n
         /\ <<Packet(d, n)>> \in Seq(PacketSet)
         /\ Len(<<Packet(d, n)>>) = 1 /\ <<Packet(d, n)>>[1] = Packet(d, n)
  <1>1. Packet(d, n) \in PacketSet /\ Packet(d, n).data = d /\ Packet(d, n).of = n
    BY DEF Packet, PacketSet
  <1> QED
    BY <1>1

\* What is sent is queued whole, when it decodes to nothing ...
LEMMA QueueOther ==
  ASSUME IInv, Grows, NEW m \in Seq(Byte) \ {<<>>}, EncodeOutput(m) = {}, Queue(<<Packet(m, 0)>>)
  PROVE  IInv'
  <1> DEFINE new == <<Packet(m, 0)>>
  <1>1. new \in Seq(PacketSet) /\ Len(new) = 1 /\ new[1].data = m /\ new[1].of = 0 /\ Queue(new)
    BY PacketFacts
  <1> HIDE DEF new
  <1>2. \A k \in 1..Len(new) :
           IF new[k].of = 0 THEN EncodeOutput(new[k].data) = {}
           ELSE /\ k = 1 /\ new[k].of = Len(log) + 1 /\ Len(log') = Len(log) + 1
                /\ new[k].data = Frame(log'[Len(log) + 1])
    BY <1>1
  <1>3. new \in Seq(PacketSet) /\ Queue(new)
    BY <1>1
  <1> QED
    BY <1>2, <1>3, QueueInv

\* ... or in two pieces.
LEMMA QueuePieces ==
  ASSUME IInv, Grows, NEW b \in Seq(DataByte), NEW k \in 1..(Len(SysEx(b)) - 1), Queue(Pieces(SysEx(b), k))
  PROVE  IInv'
  <1> DEFINE f == SubSeq(SysEx(b), 1, k)
             r == SubSeq(SysEx(b), k + 1, Len(SysEx(b)))
             new == Pieces(SysEx(b), k)
  <1>1. /\ EncodeOutput(f) = {} /\ EncodeOutput(r) = {}
        /\ f \in Seq(Byte) \ {<<>>} /\ r \in Seq(Byte) \ {<<>>}
    BY PieceIsNoFrame
  <1>2. new = <<Packet(f, 0), Packet(r, 0)>> /\ Queue(new)
    BY DEF Pieces
  <1> HIDE DEF f, r, new
  <1>3. /\ Packet(f, 0) \in PacketSet /\ Packet(f, 0).data = f /\ Packet(f, 0).of = 0
        /\ Packet(r, 0) \in PacketSet /\ Packet(r, 0).data = r /\ Packet(r, 0).of = 0
    BY <1>1, PacketFacts
  <1>4. new \in Seq(PacketSet) /\ Len(new) = 2 /\ new[1] = Packet(f, 0) /\ new[2] = Packet(r, 0)
    BY <1>2, <1>3
  <1>5. \A n \in 1..Len(new) : new[n].of = 0 /\ EncodeOutput(new[n].data) = {}
    BY <1>1, <1>3, <1>4
  <1>6. new \in Seq(PacketSet) /\ Queue(new)
    BY <1>2, <1>4
  <1> QED
    BY <1>5, <1>6, QueueInv

\* What is sent joins the end of the queue, whatever it is.
LEMMA QueueGrows ==
  ASSUME IInv,
         \/ \E p \in Payloads : SendFrame(p) \/ SendFrameInPieces(p)
         \/ \E b \in OtherSysEx : SendOtherSysEx(b)
         \/ \E m \in ShortPackets : SendShort(m)
  PROVE  Len(packets') > Len(packets)
  <1>1. packets \in Seq(PacketSet)
    BY DEF IInv, TypeInv
  <1>2. ASSUME NEW x, NEW y, packets' = packets \o <<x>> \/ packets' = packets \o <<x, y>>
        PROVE  Len(packets') > Len(packets)
    <2> DEFINE S == PacketSet \cup {x, y}
    <2>1. packets \in Seq(S)
      BY <1>1, SeqMonotonic
    <2>2. <<x>> \in Seq(S) /\ <<x, y>> \in Seq(S) /\ Len(<<x>>) = 1 /\ Len(<<x, y>>) = 2
      OBVIOUS
    <2> HIDE DEF S
    <2>3. Len(packets \o <<x>>) = Len(packets) + 1 /\ Len(packets \o <<x, y>>) = Len(packets) + 2
      BY <2>1, <2>2, ConcatProperties
    <2>4. Len(packets) \in Nat
      BY <2>1, LenProperties
    <2> QED
      BY <1>2, <2>3, <2>4
  <1>3. \E x, y : packets' = packets \o <<x>> \/ packets' = packets \o <<x, y>>
    BY DEF SendFrame, SendFrameInPieces, SendOtherSysEx, SendShort, Queue, Pieces
  <1> QED
    BY <1>2, <1>3

LEMMA SendFrameInv == ASSUME IInv, NEW p \in Payloads, SendFrame(p) PROVE IInv'
  <1> DEFINE new == <<Packet(Frame(p), Len(log) + 1)>>
  <1>1. log' = Append(log, p) /\ Queue(new) /\ log \in Seq(Payloads)
    BY DEF SendFrame, IInv, TypeInv
  <1>2. /\ Len(log) \in Nat /\ Len(log') = Len(log) + 1 /\ log'[Len(log) + 1] = p
    BY <1>1, LenProperties, AppendProperties
  <1>3. Frame(p) \in Seq(Byte) \ {<<>>}
    <2>1. Frame(p) \in Seq(Byte) /\ Len(Frame(p)) = Len(p) + 5 /\ Len(p) \in Nat
      BY PayloadIsBytes, FrameFacts
    <2>2. Frame(p) # <<>>
      BY <2>1, EmptySeq
    <2> QED
      BY <2>1, <2>2
  <1>4. /\ new \in Seq(PacketSet) /\ Len(new) = 1
        /\ new[1].data = Frame(p) /\ new[1].of = Len(log) + 1
    <2>1. Len(log) + 1 \in Nat
      BY <1>2
    <2> QED
      BY <1>3, <2>1, PacketFacts
  <1> HIDE DEF new
  <1>5. Grows
    BY <1>1 DEF Grows
  <1>6. \A k \in 1..Len(new) :
           IF new[k].of = 0 THEN EncodeOutput(new[k].data) = {}
           ELSE /\ k = 1 /\ new[k].of = Len(log) + 1 /\ Len(log') = Len(log) + 1
                /\ new[k].data = Frame(log'[Len(log) + 1])
    BY <1>2, <1>4
  <1>7. new \in Seq(PacketSet)
    BY <1>4
  <1> QED
    BY <1>1, <1>5, <1>6, <1>7, QueueInv

LEMMA PiecesInv == ASSUME IInv, NEW p \in Payloads, SendFrameInPieces(p) PROVE IInv'
  <1>1. Maker \o p \in Seq(DataByte)
    <2>1. Maker \in Seq(DataByte)
      BY DEF Maker, DataByte
    <2>2. p \in Seq(DataByte)
      BY PayloadIsBytes
    <2> QED
      BY <2>1, <2>2, ConcatProperties
  <1>2. PICK k \in 1..(Len(SysEx(Maker \o p)) - 1) : Queue(Pieces(SysEx(Maker \o p), k))
    BY DEF SendFrameInPieces, Frame
  <1>3. Grows
    BY DEF SendFrameInPieces, Grows
  <1> QED
    BY <1>1, <1>2, <1>3, QueuePieces

LEMMA OtherInv == ASSUME IInv, NEW b \in OtherSysEx, SendOtherSysEx(b) PROVE IInv'
  <1>1. Grows
    BY DEF SendOtherSysEx, Grows
  <1>2. CASE Queue(<<Packet(SysEx(b), 0)>>)
    BY <1>1, <1>2, OtherIsNoFrame, QueueOther
  <1>3. CASE \E k \in 1..(Len(SysEx(b)) - 1) : Queue(Pieces(SysEx(b), k))
    <2>1. b \in Seq(DataByte)
      BY MidiAssumption
    <2> QED
      BY <1>1, <1>3, <2>1, QueuePieces
  <1> QED
    BY <1>2, <1>3 DEF SendOtherSysEx

\* What a write leaves behind.
LEMMA WriteFacts ==
  ASSUME IInv, WriteOutput
  PROVE  \/ written' = written
         \/ \E n \in DOMAIN log : \E length \in 0..Len(log[n]) :
              /\ n = Head(packets).of
              /\ \A k \in DOMAIN written : written[k].of < n
              /\ SubSeq(log[n], 1, length) \in Seq(Byte)
              /\ written' = Append(written, [of |-> n, bytes |-> SubSeq(log[n], 1, length)])
  <1>1. PICK p \in EncodeOutput(Head(packets).data) : Write(p)
    BY DEF WriteOutput
  <1>2. /\ Head(packets).of \in 1..Len(log)
        /\ p = log[Head(packets).of] /\ p \in Seq(Byte)
        /\ \A k \in 1..Len(written) : written[k].of < Head(packets).of
    BY <1>1, HeadDecodes DEF WriteOutput
  <1>3. CASE written' # written
    <2>1. PICK n \in 0..Len(p) :
            written' = Append(written, [of |-> Head(packets).of, bytes |-> SubSeq(p, 1, n)])
      BY <1>1, <1>3 DEF Write
    <2>2. SubSeq(p, 1, n) \in Seq(Byte)
      <3>1. Len(p) \in Nat /\ \A i \in 1..Len(p) : p[i] \in Byte
        BY <1>2, LenProperties, ElementOfSeq
      <3>2. \A i \in 1..n : p[i] \in Byte
        BY <3>1
      <3> QED
        BY <3>1, <3>2, SubSeqProperties
    <2>3. log \in Seq(Payloads) /\ written \in Seq(Transfers)
      BY DEF IInv, TypeInv
    <2>4. DOMAIN log = 1..Len(log) /\ DOMAIN written = 1..Len(written)
      BY <2>3, LenProperties
    <2> QED
      BY <1>2, <2>1, <2>2, <2>4
  <1> QED
    BY <1>3

LEMMA NextInv == IInv /\ [Next]_vars => IInv'
  <1> SUFFICES ASSUME IInv, [Next]_vars PROVE IInv'
    OBVIOUS
  <1>1. up \in BOOLEAN /\ warned \in BOOLEAN
    BY DEF IInv, FlagInv
  <1>2. ASSUME NEW p \in Payloads, SendFrame(p) PROVE IInv'
    BY <1>2, SendFrameInv
  <1>3. ASSUME NEW p \in Payloads, SendFrameInPieces(p) PROVE IInv'
    BY <1>3, PiecesInv
  <1>4. ASSUME NEW b \in OtherSysEx, SendOtherSysEx(b) PROVE IInv'
    BY <1>4, OtherInv
  <1>5. ASSUME NEW m \in ShortPackets, SendShort(m) PROVE IInv'
    <2>1. Grows /\ Queue(<<Packet(m, 0)>>)
      BY <1>5 DEF SendShort, Grows
    <2> QED
      BY <2>1, ShortIsNoFrame, QueueOther
  <1>6. CASE Deliver
    <2>1. inList' \in 0..Len(packets)
      BY <1>6 DEF Deliver
    <2>2. UNCHANGED <<packets, up, warned, log, written, sent>>
      BY <1>6 DEF Deliver
    <2> QED
      BY <2>1, <2>2 DEF IInv, TypeInv, FrameInv, OrderInv, FlagInv
  <1>7. CASE SessionChanges
    <2>1. up' \in BOOLEAN /\ warned' \in BOOLEAN
      BY <1>1, <1>7, Zenon DEF SessionChanges
    <2>2. UNCHANGED <<packets, inList, log, written, sent>>
      BY <1>7 DEF SessionChanges
    <2>3. TypeInv' /\ FrameInv' /\ OrderInv'
      BY <2>2 DEF IInv, TypeInv, FrameInv, OrderInv
    <2> QED
      BY <2>1, <2>2, <2>3, FlagsKept
  <1>8. CASE Drop
    <2>1. up' \in BOOLEAN /\ warned' \in BOOLEAN
      BY <1>1, <1>8, Zenon DEF Drop
    <2>2. inList > 0 /\ PacketDone /\ Transferred /\ log' = log /\ sent' = sent
      BY <1>8 DEF Drop, Transferred
    <2> QED
      BY <2>1, <2>2, DequeueInv
  <1>9. CASE Ignore
    <2>1. up' \in BOOLEAN /\ warned' \in BOOLEAN
      BY <1>1, <1>9, Zenon DEF Ignore
    <2>2. inList > 0 /\ PacketDone /\ Transferred /\ log' = log /\ sent' = sent
      BY <1>9 DEF Ignore, Transferred
    <2> QED
      BY <2>1, <2>2, DequeueInv
  <1>10. CASE WriteOutput
    <2>1. up' \in BOOLEAN /\ warned' \in BOOLEAN
      BY <1>1, <1>10, Zenon DEF WriteOutput
    <2>2. inList > 0 /\ PacketDone /\ log' = log /\ sent' = sent
      BY <1>10 DEF WriteOutput
    <2>3. Transferred
      <3>1. DOMAIN log = 1..Len(log)
        BY LenProperties DEF IInv, TypeInv
      <3>2. \A n \in DOMAIN log : n # 0
        BY <3>1
      <3> QED
        BY <1>10, <3>2, WriteFacts DEF Transferred
    <2> QED
      BY <2>1, <2>2, <2>3, DequeueInv
  <1>11. CASE UNCHANGED vars
    BY <1>11 DEF vars, IInv, TypeInv, FrameInv, OrderInv, FlagInv
  <1> QED
    BY <1>2, <1>3, <1>4, <1>5, <1>6, <1>7, <1>8, <1>9, <1>10, <1>11 DEF Next, Callback

LEMMA Invariant == Spec => []IInv
  BY InitInv, NextInv, PTL DEF Spec

LEMMA InvImpliesType == IInv => TypeOK
  <1> SUFFICES ASSUME IInv PROVE TypeOK
    OBVIOUS
  <1>1. packets \in Seq(PacketSet) /\ written \in Seq(Transfers) /\ log \in Seq(Payloads)
    BY DEF IInv, TypeInv
  <1>2. /\ DOMAIN packets = 1..Len(packets) /\ DOMAIN written = 1..Len(written)
        /\ DOMAIN log = 1..Len(log) /\ Len(log) \in Nat
    BY <1>1, LenProperties
  <1>3. \A k \in DOMAIN packets : packets[k].data # <<>> /\ packets[k].of \in {0} \cup DOMAIN log
    <2> SUFFICES ASSUME NEW k \in 1..Len(packets)
                 PROVE  packets[k].data # <<>> /\ packets[k].of \in {0} \cup DOMAIN log
      BY <1>2
    <2>1. packets[k] \in PacketSet /\ packets[k].of \in Nat
      BY <1>1, NumbersOfPackets
    <2>2. packets[k].data # <<>>
      BY <2>1 DEF PacketSet
    <2>3. packets[k].of = 0 \/ packets[k].of <= Len(log)
      BY DEF IInv, FrameInv
    <2> QED
      BY <1>2, <2>1, <2>2, <2>3
  <1>4. \A k \in DOMAIN written : written[k].of \in DOMAIN log
    <2> SUFFICES ASSUME NEW k \in 1..Len(written)
                 PROVE  written[k].of \in DOMAIN log
      BY <1>2
    <2>1. written[k].of \in Nat
      BY <1>1, NumbersOfTransfers
    <2>2. written[k].of # 0 /\ written[k].of <= Len(log)
      BY DEF IInv, OrderInv
    <2> QED
      BY <1>2, <2>1, <2>2
  <1>5. inList \in 0..Len(packets) /\ sent \in 0..MaxMessages
    BY DEF IInv, TypeInv, FlagInv
  <1>6. up \in BOOLEAN /\ warned \in BOOLEAN
    BY DEF IInv, FlagInv
  <1> QED
    BY <1>1, <1>3, <1>4, <1>5, <1>6, Zenon DEF TypeOK

\* What the queue holds is what was sent, and what was transferred was sent.
THEOREM TypeCorrect == Spec => []TypeOK
  BY Invariant, InvImpliesType, PTL

\* The feedback path is a lossy channel that keeps the order and repeats nothing:
\* encode_output takes a packet for the frame of a payload only when it is that
\* frame, and the callback writes it once.
THEOREM RefinesChannel == Spec => ImplementsChannel
  <1>1. Init => Channel!Init
    BY DEF Init, Channel!Init
  <1>2. IInv /\ [Next]_vars => [Channel!Next]_<<log, written>>
    <2> SUFFICES ASSUME IInv, [Next]_vars PROVE [Channel!Next]_<<log, written>>
      OBVIOUS
    <2>1. ASSUME NEW p \in Payloads, SendFrame(p) \/ SendFrameInPieces(p)
          PROVE  Channel!Next
      BY <2>1 DEF SendFrame, SendFrameInPieces, Queue, Channel!Next, Channel!Send
    <2>2. ASSUME NEW b \in OtherSysEx, SendOtherSysEx(b) PROVE UNCHANGED <<log, written>>
      BY <2>2 DEF SendOtherSysEx, Queue
    <2>3. ASSUME NEW m \in ShortPackets, SendShort(m) PROVE UNCHANGED <<log, written>>
      BY <2>3 DEF SendShort, Queue
    <2>4. CASE Deliver \/ SessionChanges \/ Drop \/ Ignore
      BY <2>4 DEF Deliver, SessionChanges, Drop, Ignore
    <2>5. CASE WriteOutput
      BY <2>5, WriteFacts DEF WriteOutput, Channel!Next, Channel!Arrive
    <2>6. CASE UNCHANGED vars
      BY <2>6 DEF vars
    <2> QED
      BY <2>1, <2>2, <2>3, <2>4, <2>5, <2>6 DEF Next, Callback
  <1> QED
    BY <1>1, <1>2, Invariant, PTL DEF Spec, ImplementsChannel, Channel!Spec

\* A frame that left the queue while the device was usable was written: it decodes,
\* so it is not ignored, and a callback takes one packet.
THEOREM FramesAreTried == Spec => FrameTried
  <1> DEFINE Tried ==
        \A k \in 1..(Len(packets) - Len(packets')) :
          LET of == packets[k].of
          IN up /\ OutputConfigured /\ of # 0 =>
               \E j \in (Len(written) + 1)..Len(written') : written'[j].of = of
  <1>1. IInv /\ [Next]_vars => [Tried]_vars
    <2> SUFFICES ASSUME IInv, Next, NEW k \in 1..(Len(packets) - Len(packets')),
                        up, OutputConfigured, packets[k].of # 0
                 PROVE  \E j \in (Len(written) + 1)..Len(written') : written'[j].of = packets[k].of
      OBVIOUS
    <2>1. packets \in Seq(PacketSet) /\ written \in Seq(Transfers) /\ inList \in 0..Len(packets)
      BY DEF IInv, TypeInv
    <2>2. Len(packets) \in Nat /\ Len(written) \in Nat
      BY <2>1, LenProperties
    <2>3. Len(packets) - Len(packets') # 0
      OBVIOUS
    <2>4. inList > 0 /\ PacketDone /\ (Ignore \/ WriteOutput)
      <3>1. packets' # packets
        BY <2>2
      <3>2. CASE Callback
        BY <3>2 DEF Callback, Drop, Ignore, WriteOutput
      <3>3. CASE Deliver \/ SessionChanges
        BY <3>1, <3>3 DEF Deliver, SessionChanges
      <3>4. ~(Len(packets') > Len(packets))
        <4>1. \A n \in Nat : 1..(Len(packets) - n) # {} => ~(n > Len(packets))
          BY <2>2
        <4>2. Len(packets') \in Nat
          BY NextInv, LenProperties DEF IInv, TypeInv
        <4> QED
          BY <4>1, <4>2
      <3> QED
        BY <3>2, <3>3, <3>4, QueueGrows DEF Next
    <2>5. packets # <<>>
      BY <2>1, <2>2, <2>4, EmptySeq
    <2>6. Len(packets') = Len(packets) - 1 /\ Head(packets) = packets[1]
      BY <2>1, <2>4, <2>5, HeadTailProperties DEF PacketDone
    <2>7. k = 1
      BY <2>2, <2>6
    <2>8. packets[1].data = Frame(log[packets[1].of]) /\ packets[1].of \in 1..Len(log)
      <3>1. 1 \in 1..Len(packets) /\ log \in Seq(Payloads) /\ Len(log) \in Nat
        BY <2>1, <2>2, <2>4, LenProperties DEF IInv, TypeInv
      <3>2. packets[1].of \in Nat
        BY <2>1, <3>1, NumbersOfPackets
      <3> QED
        BY <2>7, <3>1, <3>2 DEF IInv, FrameInv
    <2>9. EncodeOutput(packets[1].data) # {}
      <3>1. log[packets[1].of] \in Seq(Byte)
        BY <2>8, ElementOfSeq, PayloadIsBytes DEF IInv, TypeInv
      <3> QED
        BY <2>8, <3>1, FrameDecodes
    <2>10. PICK q, n : written' = Append(written, [of |-> Head(packets).of, bytes |-> SubSeq(q, 1, n)])
      BY <2>4, <2>6, <2>9 DEF Ignore, WriteOutput, Write
    <2>11. Len(written') = Len(written) + 1 /\ written'[Len(written) + 1].of = Head(packets).of
      BY <2>1, <2>10
    <2> QED
      BY <2>2, <2>6, <2>7, <2>11
  <1> QED
    BY <1>1, Invariant, PTL DEF Spec, FrameTried
=============================================================================
