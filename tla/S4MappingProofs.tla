--------------------------- MODULE S4MappingProofs ---------------------------
(***************************************************************************)
(* What the mapping of a report yields, for the modules that remember it:  *)
(* the range of the messages, addresses that differ, and what a byte that  *)
(* changed is sent as.                                                     *)
(***************************************************************************)
EXTENDS S4Mapping, SequenceTheorems, WellFoundedInduction, TLAPS

-----------------------------------------------------------------------------
(* Bytes *)

LEMMA ReportFacts ==
  ASSUME NEW r \in Reports
  PROVE  /\ Len(r) \in Nat \ {0} /\ r # <<>>
         /\ \A i \in 0..(Len(r) - 1) : At(r, i) \in Byte
  <1>1. r \in Seq(Byte) /\ r # <<>>
    BY ReportsAssumption
  <1>2. Len(r) \in Nat \ {0}
    BY <1>1, EmptySeq
  <1>3. \A k \in 1..Len(r) : r[k] \in Byte
    BY <1>1
  <1>4. \A i \in 0..(Len(r) - 1) : i + 1 \in 1..Len(r)
    BY <1>2
  <1> QED
    BY <1>1, <1>2, <1>3, <1>4 DEF At

LEMMA V7Range == \A b \in Byte : V7(b) \in 0..127
  BY DEF V7, Byte

LEMMA BitRange == \A b \in Byte, bit \in 0..7 : BitOf(b, bit) \in {0, 1}
  <1> SUFFICES ASSUME NEW b \in Byte, NEW bit \in 0..7 PROVE BitOf(b, bit) \in {0, 1}
    OBVIOUS
  <1>1. Weight[bit + 1] \in {1, 2, 4, 8, 16, 32, 64, 128}
    BY DEF Weight
  <1>2. \A w \in {1, 2, 4, 8, 16, 32, 64, 128} : b \div w \in Nat
    BY DEF Byte
  <1>3. \A n \in Nat : n % 2 \in {0, 1}
    OBVIOUS
  <1> QED
    BY <1>1, <1>2, <1>3 DEF BitOf

LEMMA DistanceFact == \A v, w \in Int : Distance(v, w) > 0 <=> v # w
  BY DEF Distance

LEMMA ModeSlotsRange == ModeSlots \subseteq Slots
  BY OptionsAssumption DEF ModeSlots, Slots

-----------------------------------------------------------------------------
(* Addresses *)

\* The numbers the 16 channels have room for.
Numbers == 0..2047
Nibble == 0..15

LEMMA Wrap ==
  ASSUME NEW b \in Nibble, NEW p \in Nibble, NEW q \in Nibble, (b + p) % 16 = (b + q) % 16
  PROVE  p = q
  <1>1. \A x \in 0..30 : x % 16 = IF x < 16 THEN x ELSE x - 16
    OBVIOUS
  <1>2. b + p \in 0..30 /\ b + q \in 0..30 /\ b \in Int /\ p \in Int /\ q \in Int
    BY DEF Nibble
  <1>3. p < 16 /\ q < 16 /\ p >= 0 /\ q >= 0
    BY DEF Nibble
  <1> QED
    BY <1>1, <1>2, <1>3

LEMMA Split ==
  ASSUME NEW n \in Numbers
  PROVE  n % 65536 = n /\ n \div 128 \in Nibble /\ n = 128 * (n \div 128) + (n % 128)
  <1>1. n \in Nat /\ n < 2048
    BY DEF Numbers
  <1>2. n % 65536 = n
    BY <1>1
  <1>3. n \div 128 \in Nat /\ n \div 128 < 16
    BY <1>1
  <1>4. n = 128 * (n \div 128) + (n % 128)
    BY <1>1
  <1> QED
    BY <1>2, <1>3, <1>4 DEF Nibble

\* 2048 consecutive numbers have addresses of their own.
LEMMA RawAddressDistinct ==
  ASSUME NEW m \in Numbers, NEW n \in Numbers, RawAddress(m) = RawAddress(n)
  PROVE  m = n
  <1> DEFINE p == m \div 128
             q == n \div 128
             x == (BaseChannel + p) % 16
             y == (BaseChannel + q) % 16
             u == m % 128
             w == n % 128
  <1>1. m % 65536 = m /\ n % 65536 = n
    BY Split
  <1>2. RawAddress(m) = <<x, u>> /\ RawAddress(n) = <<y, w>>
    BY <1>1 DEF RawAddress
  <1>3. p \in Nibble /\ q \in Nibble /\ m = 128 * p + u /\ n = 128 * q + w
    BY Split
  <1>4. BaseChannel \in Nibble
    BY OptionsAssumption DEF Nibble
  <1>5. x = y /\ u = w
    <2>1. <<x, u>> = <<y, w>>
      BY <1>2
    <2> HIDE DEF x, y, u, w
    <2> QED
      BY <2>1
  <1>6. p = q
    <2>1. (BaseChannel + p) % 16 = (BaseChannel + q) % 16
      BY <1>5
    <2> HIDE DEF p, q
    <2> QED
      BY <1>3, <1>4, <2>1, Wrap
  <1> HIDE DEF p, q, u, w
  <1> QED
    BY <1>3, <1>5, <1>6

-----------------------------------------------------------------------------
(* Messages *)

LEMMA RawAddressTyped == \A n \in Nat : RawAddress(n) \in Addresses
  <1> SUFFICES ASSUME NEW n \in Nat PROVE RawAddress(n) \in Addresses
    OBVIOUS
  <1>1. BaseChannel + (n % 65536) \div 128 \in Int
    BY OptionsAssumption
  <1>2. \A x \in Int : x % 16 \in 0..15 /\ x % 128 \in 0..127
    OBVIOUS
  <1> QED
    BY <1>1, <1>2 DEF RawAddress, Addresses, Channels, Controllers

LEMMA MappedAddressTyped ==
  \A e : e.channel \in Byte /\ e.cc \in Byte => MappedAddress(e) \in Addresses
  <1> SUFFICES ASSUME NEW e, e.channel \in Byte, e.cc \in Byte
               PROVE  MappedAddress(e) \in Addresses
    OBVIOUS
  <1>1. (IF e.channel \in 1..16 THEN e.channel - 1 ELSE BaseChannel) \in Channels
    BY OptionsAssumption DEF Channels
  <1>2. e.cc % 128 \in Controllers
    BY DEF Byte, Controllers
  <1> QED
    BY <1>1, <1>2 DEF MappedAddress, Addresses

LEMMA EmissionTyped ==
  ASSUME NEW old, NEW new, NEW i \in Nat, NEW s \in Slots
  PROVE  EmitAddresses(old, new, i, s) \subseteq Addresses
  <1>1. \A e \in ByteMapping(i) : MappedAddress(e) \in Addresses
    BY MappedAddressTyped, TablesAssumption DEF ByteMapping, FirstOf
  <1>2. ByteAddresses(old, new, i) \subseteq Addresses
    <2>1. RawAddress(i) \in Addresses
      BY RawAddressTyped
    <2> QED
      BY <1>1, <2>1 DEF ByteAddresses
  <1>3. ASSUME NEW bit \in Nat PROVE BitAddresses(old, new, i, bit) \subseteq Addresses
    <2>1. \A e \in BitMapping(i, bit) : MappedAddress(e) \in Addresses
      BY MappedAddressTyped, TablesAssumption DEF BitMapping, FirstOf
    <2>2. RawAddress(i * 8 + bit) \in Addresses
      BY RawAddressTyped
    <2> QED
      BY <2>1, <2>2 DEF BitAddresses
  <1>4. s # 0 => s - 1 \in Nat
    BY DEF Slots
  <1> QED
    BY <1>2, <1>3, <1>4 DEF EmitAddresses

LEMMA ValueTyped ==
  ASSUME NEW new \in Reports, NEW i \in 0..(Len(new) - 1), NEW s
  PROVE  Value(new, i, s) \in Controllers
  <1>1. V7(At(new, i)) \in Controllers
    BY ReportFacts, V7Range DEF Controllers
  <1>2. 0 \in Controllers /\ 127 \in Controllers
    BY DEF Controllers
  <1> QED
    BY <1>1, <1>2, Zenon DEF Value

\* Every message is a CC, of a byte of both reports.
LEMMA MessagesTyped ==
  ASSUME NEW old \in Reports, NEW new \in Reports
  PROVE  /\ Messages(old, new) \subseteq CCMessage
         /\ \A m \in Messages(old, new) : m.at <= 9 * Len(new)
  <1>1. \A i \in Common(old, new) : i \in Nat /\ i \in 0..(Len(new) - 1)
    BY ReportFacts DEF Common
  <1>2. ASSUME NEW m \in Messages(old, new)
        PROVE  m \in CCMessage /\ m.at <= 9 * Len(new)
    <2>1. PICK i \in Common(old, new), s \in ModeSlots :
            \E a \in EmitAddresses(old, new, i, s) : m = Message(new, i, s, a)
      BY <1>2 DEF Messages
    <2>2. i \in 0..(Len(new) - 1) /\ s \in Slots /\ Len(new) \in Nat
      BY <1>1, ModeSlotsRange, ReportFacts
    <2>3. 9 * i + s \in Nat /\ 9 * i + s <= 9 * Len(new)
      BY <2>2 DEF Slots
    <2>4. EmitAddresses(old, new, i, s) \subseteq Addresses /\ Value(new, i, s) \in Controllers
      BY <2>2, EmissionTyped, ValueTyped
    <2> QED
      BY <2>1, <2>3, <2>4 DEF Message, CCMessage
  <1> QED
    BY <1>2

\* Of some messages one comes last.
LEMMA LatestExists ==
  ASSUME NEW S, S \subseteq CCMessage, S # {},
         NEW bound \in Nat, \A m \in S : m.at <= bound
  PROVE  \E m \in S : \A n \in S : n.at <= m.at
  <1> DEFINE T == {bound - m.at : m \in S}
             R == OpToRel(<, Nat)
  <1>1. \A m \in S : m.at \in Nat
    BY DEF CCMessage
  <1>2. T \subseteq Nat /\ T # {}
    BY <1>1
  <1>3. IsWellFoundedOn(R, Nat)
    BY NatLessThanWellFounded
  <1>4. PICK x \in T : \A y \in T : ~(<<y, x>> \in R)
    <2> HIDE DEF T, R
    <2> QED
      BY <1>2, <1>3, WFMin
  <1>5. \A y \in T : ~(y < x)
    BY <1>2, <1>4 DEF OpToRel
  <1>6. PICK m \in S : x = bound - m.at
    OBVIOUS
  <1>7. ASSUME NEW n \in S PROVE n.at <= m.at
    <2>1. ~(bound - n.at < bound - m.at)
      BY <1>5, <1>6
    <2> QED
      BY <1>1, <2>1
  <1> QED
    BY <1>7

\* Bytes that differ differ in a bit.
LEMMA BitsTell ==
  ASSUME NEW b \in Byte, NEW c \in Byte, b # c
  PROVE  \E bit \in 0..7 : BitOf(b, bit) # BitOf(c, bit)
  <1> SUFFICES ASSUME \A bit \in 0..7 : BitOf(b, bit) = BitOf(c, bit)
               PROVE  FALSE
    OBVIOUS
  <1>1. \A x \in Byte :
          x = BitOf(x, 0) + 2 * BitOf(x, 1) + 4 * BitOf(x, 2) + 8 * BitOf(x, 3)
              + 16 * BitOf(x, 4) + 32 * BitOf(x, 5) + 64 * BitOf(x, 6) + 128 * BitOf(x, 7)
    <2> SUFFICES ASSUME NEW x \in Byte
                 PROVE  x = BitOf(x, 0) + 2 * BitOf(x, 1) + 4 * BitOf(x, 2) + 8 * BitOf(x, 3)
                            + 16 * BitOf(x, 4) + 32 * BitOf(x, 5) + 64 * BitOf(x, 6)
                            + 128 * BitOf(x, 7)
      OBVIOUS
    <2> DEFINE h1 == x \div 2
               h2 == x \div 4
               h3 == x \div 8
               h4 == x \div 16
               h5 == x \div 32
               h6 == x \div 64
               h7 == x \div 128
    <2>1. x \in Nat /\ x <= 255
      BY DEF Byte
    <2>2. /\ x = 2 * h1 + BitOf(x, 0) /\ h1 = 2 * h2 + BitOf(x, 1)
          /\ h2 = 2 * h3 + BitOf(x, 2) /\ h3 = 2 * h4 + BitOf(x, 3)
      BY <2>1 DEF BitOf, Weight
    <2>3. /\ h4 = 2 * h5 + BitOf(x, 4) /\ h5 = 2 * h6 + BitOf(x, 5)
          /\ h6 = 2 * h7 + BitOf(x, 6) /\ h7 = BitOf(x, 7)
      BY <2>1 DEF BitOf, Weight
    <2>4. h1 \in Int /\ h2 \in Int /\ h3 \in Int /\ h4 \in Int /\ h5 \in Int /\ h6 \in Int /\ h7 \in Int
      BY <2>1
    <2>5. \A bit \in 0..7 : BitOf(x, bit) \in Int
      BY BitRange
    <2> HIDE DEF h1, h2, h3, h4, h5, h6, h7
    <2>6. /\ BitOf(x, 0) \in Int /\ BitOf(x, 1) \in Int /\ BitOf(x, 2) \in Int /\ BitOf(x, 3) \in Int
          /\ BitOf(x, 4) \in Int /\ BitOf(x, 5) \in Int /\ BitOf(x, 6) \in Int /\ BitOf(x, 7) \in Int
      BY <2>5
    <2> QED
      BY <2>1, <2>2, <2>3, <2>4, <2>6
  <1>2. \A bit \in {0, 1, 2, 3, 4, 5, 6, 7} : BitOf(b, bit) = BitOf(c, bit)
    OBVIOUS
  <1> QED
    BY <1>1, <1>2

\* A byte that changed is spoken for, when every bit is sent.
LEMMA ChangeSpoken ==
  ASSUME EmitUnmappedBit, DecodeMode # "byte",
         NEW old \in Reports, NEW new \in Reports,
         NEW i \in Common(old, new), At(old, i) # At(new, i)
  PROVE  \E m \in Messages(old, new) : m.at \div 9 = i
  <1>1. i \in 0..(Len(old) - 1) /\ i \in 0..(Len(new) - 1)
    BY ReportFacts DEF Common
  <1>2. PICK bit \in 0..7 : BitOf(At(old, i), bit) # BitOf(At(new, i), bit)
    BY <1>1, ReportFacts, BitsTell
  <1>3. PICK a : a \in BitAddresses(old, new, i, bit)
    BY <1>2 DEF BitAddresses
  <1>4. bit + 1 \in ModeSlots /\ bit + 1 # 0 /\ bit + 1 - 1 = bit
    BY OptionsAssumption DEF ModeSlots, Slots
  <1>5. a \in EmitAddresses(old, new, i, bit + 1)
    BY <1>3, <1>4 DEF EmitAddresses
  <1>6. Message(new, i, bit + 1, a) \in Messages(old, new)
    <2> DEFINE changed == {j \in Common(old, new) : At(old, j) # At(new, j)} \X ModeSlots
               Of(x) == {Message(new, x[1], x[2], b) : b \in EmitAddresses(old, new, x[1], x[2])}
    <2>1. <<i, bit + 1>> \in changed
      BY <1>4
    <2>2. Message(new, i, bit + 1, a) \in Of(<<i, bit + 1>>)
      BY <1>5
    <2>3. Messages(old, new) = UNION {Of(x) : x \in changed}
      BY Zenon DEF Messages
    <2> HIDE DEF changed, Of
    <2> QED
      BY <2>1, <2>2, <2>3, Zenon
  <1>7. Message(new, i, bit + 1, a).at = 9 * i + (bit + 1)
    BY DEF Message
  <1>8. (9 * i + (bit + 1)) \div 9 = i
    <2>1. i \in Nat /\ bit + 1 \in 1..8
      BY <1>1
    <2> QED
      BY <2>1
  <1> QED
    BY <1>6, <1>7, <1>8
=============================================================================
