----------------------------- MODULE MCQuillDoc -----------------------------
(* Constants for TLC. *)
EXTENDS QuillDoc, TLC
CONSTANTS sock1, sock2, bot1

TwoSockets   == {sock1, sock2}
OneSocket    == {sock1}
OneBot       == {bot1}
NoBots       == {}
Symmetry2    == Permutations(TwoSockets)
=============================================================================
