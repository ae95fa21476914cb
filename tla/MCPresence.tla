----------------------------- MODULE MCPresence -----------------------------
(* Constants for TLC. *)
EXTENDS Presence
CONSTANTS r1, server1

OneRequest == {r1}
OneServer  == {server1}
=============================================================================
