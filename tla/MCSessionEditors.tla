-------------------------- MODULE MCSessionEditors --------------------------
(* Constants for TLC. *)
EXTENDS SessionEditors, TLC
CONSTANTS sock1, sock2, bot1

TwoSockets   == {sock1, sock2}
OneSocket    == {sock1}
OneBot       == {bot1}
NoBots       == {}
=============================================================================
