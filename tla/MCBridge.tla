------------------------------- MODULE MCBridge -------------------------------
(* Bridge on a small bus: two controllers and two handles, which the cfg names. *)
EXTENDS Bridge
=============================================================================
