----------------------------- MODULE MCScreens -----------------------------
(* An instance of Screens for TLC: two people, one after the other.        *)
EXTENDS Screens, TLC

CONSTANTS u1, u2

Users == Permutations(User)
=============================================================================
