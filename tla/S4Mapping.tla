------------------------------ MODULE S4Mapping ------------------------------
(***************************************************************************)
(* From reports to MIDI: the tables, the two views of a byte and the CCs   *)
(* that decode_input makes of two reports (src/s4_generic_protocol.cpp).   *)
(* No state: what decode_input remembers is in the modules that extend     *)
(* this one, S4GenericProtocol and Monitor.                                *)
(*                                                                         *)
(* A source is what one pass of the inner code speaks for: <<i, 0>> is the *)
(* value of byte i, <<i, b + 1>> is bit b of byte i.  The messages of a    *)
(* report are a set; "at" orders them as the code appends them.            *)
(***************************************************************************)
EXTENDS Integers, Sequences

CONSTANTS
  Reports,           \* what a read may return, each a non-empty sequence of bytes
  ByteMappings,      \* kByteMappings, a sequence of entries
  BitMappings,       \* kBitMappings
  EmitUnmappedByte,  \* kEmitUnmappedByte
  EmitUnmappedBit,   \* kEmitUnmappedBit
  BaseChannel,       \* --midi-channel, less one
  InputDeadzone,     \* --input-deadzone
  DecodeMode         \* --input-decode

Byte == 0..255
Slots == 0..8

ASSUME ReportsAssumption == Reports \subseteq Seq(Byte) \ {<<>>}

\* The ranges parse_args lets through.
ASSUME OptionsAssumption ==
  /\ BaseChannel \in 0..15
  /\ InputDeadzone \in 0..127
  /\ DecodeMode \in {"byte", "bit", "hybrid"}
  /\ EmitUnmappedByte \in BOOLEAN /\ EmitUnmappedBit \in BOOLEAN

\* The fields of ByteMapEntry and BitMapEntry.
ASSUME TablesAssumption ==
  /\ \A table \in {ByteMappings, BitMappings} : \A k \in DOMAIN table :
       table[k].channel \in Byte /\ table[k].cc \in Byte
  /\ \A k \in DOMAIN ByteMappings : ByteMappings[k].deadzone_override \in Int

\* The tables as shipped: no byte is mapped, five buttons of the left deck are.
ShippedBytes == <<>>
ShippedBits ==
  LET Button(i, b, cc) == [byte |-> i, bit |-> b, channel |-> 1, cc |-> cc, invert |-> FALSE]
  IN <<Button(4, 7, 20), Button(4, 5, 21), Button(4, 3, 22), Button(4, 1, 23), Button(7, 3, 24)>>

Channels == 0..15
Controllers == 0..127
Addresses == Channels \X Controllers
CCMessage == [at : Nat, address : Addresses, value : Controllers]

-----------------------------------------------------------------------------
(* Small MIDI helpers *)

\* Byte i of a report, counted from 0 as in the code.
At(report, i) == report[i + 1]
V7(b) == (b \div 2) % 128
Weight == <<1, 2, 4, 8, 16, 32, 64, 128>>
BitOf(b, bit) == (b \div Weight[bit + 1]) % 2
Distance(v, w) == IF v > w THEN v - w ELSE w - v

\* find_byte_mapping and find_bit_mapping: the first entry that matches, if any.
FirstOf(seq, found) == {seq[k] : k \in {k \in found : \A l \in found : k <= l}}

ByteMapping(i) == FirstOf(ByteMappings, {k \in DOMAIN ByteMappings : ByteMappings[k].byte = i})

BitMapping(i, bit) ==
  FirstOf(BitMappings,
          {k \in DOMAIN BitMappings : BitMappings[k].byte = i /\ BitMappings[k].bit = bit})

\* ch1_to_status_nibble and the masks of make_cc
MappedAddress(e) ==
  <<IF e.channel \in 1..16 THEN e.channel - 1 ELSE BaseChannel, e.cc % 128>>

\* (mutant) the channel is not masked
RawUnmasked(n) == <<BaseChannel + n \div 128, n % 128>>

\* The raw address of the n-th byte or bit; n is a uint16_t in the code.
RawAddress(n) == <<(BaseChannel + (n % 65536) \div 128) % 16, n % 128>>

-----------------------------------------------------------------------------
(* The two views of a byte *)

DeadzoneOf(e) == IF e.deadzone_override >= 0
                 THEN (IF e.deadzone_override > 127 THEN 127 ELSE e.deadzone_override)
                 ELSE InputDeadzone

\* (mutant) the distance is not absolute
DeltaUpwards(old, new, i) == V7(At(new, i)) - V7(At(old, i))

Delta(old, new, i) == Distance(V7(At(old, i)), V7(At(new, i)))

\* A mapped byte that moves less than its own deadzone is tried as an unmapped
\* one.
ByteAddresses(old, new, i) ==
  LET delta == Delta(old, new, i)
      mapped == {e \in ByteMapping(i) : delta > DeadzoneOf(e)}
  IN IF mapped # {} THEN {MappedAddress(e) : e \in mapped}
     ELSE IF EmitUnmappedByte /\ delta > InputDeadzone THEN {RawAddress(i)} ELSE {}

\* (mutant) mapped bits only
OnlyMappedBits(old, new, i, bit) ==
  IF BitOf(At(old, i), bit) = BitOf(At(new, i), bit) THEN {}
  ELSE {MappedAddress(e) : e \in BitMapping(i, bit)}

BitAddresses(old, new, i, bit) ==
  IF BitOf(At(old, i), bit) = BitOf(At(new, i), bit) THEN {}
  ELSE IF BitMapping(i, bit) # {} THEN {MappedAddress(e) : e \in BitMapping(i, bit)}
  ELSE IF EmitUnmappedBit THEN {RawAddress(i * 8 + bit)} ELSE {}

\* The slots of a byte the decode mode looks at.
ModeSlots == CASE DecodeMode = "byte" -> {0}
               [] DecodeMode = "bit"  -> 1..8
               [] OTHER               -> Slots

Invert(i, bit) == \E e \in BitMapping(i, bit) : e.invert

Value(report, i, slot) ==
  IF slot = 0 THEN V7(At(report, i))
  ELSE IF BitOf(At(report, i), slot - 1) = 1 <=> Invert(i, slot - 1) THEN 0 ELSE 127

\* Where the change of a source is sent: one address at most.
EmitAddresses(old, new, i, slot) ==
  IF slot = 0 THEN ByteAddresses(old, new, i) ELSE BitAddresses(old, new, i, slot - 1)

Common(old, new) == 0..((IF Len(old) < Len(new) THEN Len(old) ELSE Len(new)) - 1)

Message(report, i, slot, a) == [at |-> 9 * i + slot, address |-> a, value |-> Value(report, i, slot)]

\* decode_input, less the baseline: the bytes that changed, in every slot.
Messages(old, new) ==
  LET changed == {i \in Common(old, new) : At(old, i) # At(new, i)}
  IN UNION {{Message(new, x[1], x[2], a) : a \in EmitAddresses(old, new, x[1], x[2])} :
              x \in changed \X ModeSlots}
=============================================================================
