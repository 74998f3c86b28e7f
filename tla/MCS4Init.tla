------------------------------- MODULE MCS4Init -------------------------------
(* The script of s4_mk1_init, attempt after attempt. *)
EXTENDS S4Init
=============================================================================
