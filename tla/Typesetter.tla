----------------------------- MODULE Typesetter -----------------------------
(* What the formatter owes a document whatever its pages and traps look     *)
(* like: every word that is read is written once, in the order of reading,  *)
(* and the program ends with nothing left to write.                         *)
EXTENDS Naturals, Sequences

VARIABLES
    written,      \* the words written to the output
    held,         \* the words read and not yet written
    ended         \* whether the program has ended

vars == <<written, held, ended>>

Init == written = <<>> /\ held = <<>> /\ ended = FALSE

\* Words are numbered in the order in which they are read.
Count == Len(written) + Len(held)

\* Some words are read, and the first of those at hand are written.
Step ==
    \E n \in 0..5 :
       LET all == held \o [i \in 1..n |-> Count + i]
       IN  \E k \in 0..Len(all) :
              /\ written' = written \o SubSeq(all, 1, k)
              /\ held' = SubSeq(all, k + 1, Len(all))

Next ==
    /\ ~ended
    /\ Step
    /\ ended' \in BOOLEAN
    /\ ended' => held' = <<>>

Spec == Init /\ [][Next]_vars
=============================================================================
