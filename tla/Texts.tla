------------------------------- MODULE Texts --------------------------------
(* Texts of macros, strings and diversions are sequences of elements.       *)
EXTENDS Integers, Sequences, SequencesExt

\* The elements of the first i of t that are in S, for each i.
ChosenOfFirst(t, S) ==
    LET chosen[i \in 0..Len(t)] ==
            IF i = 0 THEN <<>>
            ELSE IF t[i] \in S THEN Append(chosen[i - 1], t[i])
            ELSE chosen[i - 1]
    IN  chosen

\* The elements of t that are in S, in their order.
Selected(t, S) == ChosenOfFirst(t, S)[Len(t)]
=============================================================================
