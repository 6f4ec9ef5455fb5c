--------------------------- MODULE MCControlChars ---------------------------
(* Instances of ControlChars for TLC: the three default characters and one  *)
(* more, two environments.                                                  *)
EXTENDS ControlChars

CONSTANTS bs, dot, apos, at, nul, noarg, invalid, e0, e1

MCChars == {bs, dot, apos, at}
MCEnvs == {e0, e1}
=============================================================================
