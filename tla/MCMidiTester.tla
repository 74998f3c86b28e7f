----------------------------- MODULE MCMidiTester -----------------------------
(* A knob and a pad; rules that share a key, one of them disabled. *)
EXTENDS MidiTester

SomeRules ==
  {[key |-> "knob", out |-> 1, enabled |-> TRUE],
   [key |-> "knob", out |-> 2, enabled |-> FALSE],
   [key |-> "pad",  out |-> 1, enabled |-> TRUE]}
=============================================================================
