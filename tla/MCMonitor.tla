------------------------------ MODULE MCMonitor ------------------------------
(* Reports in which two bytes change, one of them byte 128, on the channel after the
   last one; and one report that ends behind it, so that it lacks the last byte of
   the map.  Byte 130 of a packet is past the map, and so is what a CC stands for on
   the wrong base channel. *)
EXTENDS Monitor

Filled(x, y) == [k \in 1..131 |-> CASE k = 1 -> x [] k = 129 -> y [] k = 130 -> 7 [] OTHER -> 0]

Moves == {Filled(0, 0), Filled(129, 254), SubSeq(Filled(128, 0), 1, 129)}
=============================================================================
