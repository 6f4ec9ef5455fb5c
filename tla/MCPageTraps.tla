---------------------------- MODULE MCPageTraps -----------------------------
(* Instances of PageTraps for TLC: two macros, positions from the top and   *)
(* from the bottom that meet on pages of two to five units.                 *)
EXTENDS PageTraps

CONSTANTS a, b

TwoMacros == {a, b}
MixedPositions == {-3, -1, 0, 2}
TopPositions == {1, 2, 3}
=============================================================================
