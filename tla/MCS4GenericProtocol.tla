------------------------- MODULE MCS4GenericProtocol -------------------------
(* Short reports in which only a few bytes ever change. *)
EXTENDS S4GenericProtocol, FiniteSets

\* A report of a length with the bytes of f, and all others zero.
Filled(length, f) == [k \in 1..length |-> IF k - 1 \in DOMAIN f THEN f[k - 1] ELSE 0]

\* Byte 16 is the first whose bits are numbered past 127.
Controls ==
  {Filled(17, [i \in {0, 1, 4, 16} |->
     IF i = 0 THEN 255 * x ELSE IF i = 1 THEN x ELSE IF i = 4 THEN z ELSE w]) :
       x \in {0, 1}, z \in {0, 170}, w \in {0, 1, 128}}

\* With one that ends before byte 16.
ControlsAndCut == Controls \cup {Filled(5, [i \in {4} |-> 170])}

\* The tables with every kind of entry: a shadowed one, a channel that is none, an
\* inverted bit, a controller over 127.  With raw bits on and raw bytes off every
\* source has an address of its own: CC 59 is the number of a bit that is mapped.
MoreBytes ==
  <<[byte |-> 0, channel |-> 3, cc |-> 10, deadzone_override |-> -1],
    [byte |-> 1, channel |-> 0, cc |-> 59, deadzone_override |-> 0],
    [byte |-> 0, channel |-> 2, cc |-> 12, deadzone_override |-> 0]>>
MoreBits ==
  ShippedBits \o
  <<[byte |-> 1, bit |-> 0, channel |-> 16, cc |-> 8, invert |-> TRUE],
    [byte |-> 16, bit |-> 7, channel |-> 3, cc |-> 140, invert |-> FALSE]>>

\* A value that moves by single steps.
Fader == {Filled(1, [i \in {0} |-> v]) : v \in {60, 62, 64, 65, 66, 68}}
=============================================================================
