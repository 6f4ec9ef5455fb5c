------------------------------ MODULE MCMacros ------------------------------
(* Instances of Macros for TLC. *)
EXTENDS Macros

CONSTANTS letter, node

OneChar == {letter}
OneNode == {node}
SameCase == [c \in OneChar |-> c]
AsChar == [c \in OneNode |-> <<letter>>]

\* Names are alike, and so are objects and headers: which of the free ones is
\* taken makes no difference, since free ones are all the same.
Symmetry ==
    Permutations(Names) \cup Permutations(Objects) \cup Permutations(Headers)
=============================================================================
