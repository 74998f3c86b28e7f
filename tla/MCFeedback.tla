------------------------------ MODULE MCFeedback ------------------------------
(* Feedback with an empty payload, and one that reads like the report the bridge *)
(* itself publishes: type 02, one byte in nibbles, looped back by the DAW.       *)
EXTENDS Feedback

SomePayloads == {<<>>, <<2, 5, 0>>}

\* Of another maker, and with the maker but one byte short of a header.
SomeOthers == {<<125, 83>>, <<65, 83, 52>>}

\* A note on, and a note off with an active sensing behind it.
SomeShort == {<<144, 60, 127>>, <<128, 60, 0, 254>>}
=============================================================================
