------------------------------ MODULE Galleys -------------------------------
(* What environments and boxes owe the text of a document: every environment *)
(* collects text of its own, and every box begun in it does so afresh, apart  *)
(* from what was collected before.  What was collected last is written in the *)
(* order it was read in, while its environment is current; only the end of a  *)
(* box and evc discard it.                                                    *)
EXTENDS Integers, Sequences, FiniteSets

CONSTANTS
    Envs,          \* the environments
    MaxLength      \* words that are read at a time

VARIABLES
    held,          \* what each environment has collected and not written: a
                   \* galley for each box and one outside boxes, the last first
    cur,           \* the current environment
    count,         \* how many words were read
    written,       \* those that were written
    ended          \* whether the program has ended

gvars == <<held, cur, count, written, ended>>

\* Some words are read, and the first ones at hand are written.
Advance ==
    LET all   == held[cur][1] \o [i \in 1..(count' - count) |-> count + i]
        write == Cardinality(written') - Cardinality(written)
    IN  /\ UNCHANGED <<cur, ended>>
        /\ count' \in count..(count + MaxLength)
        /\ write \in 0..Len(all)
        /\ written' = written \cup {all[i] : i \in 1..write}
        /\ held' = [held EXCEPT ![cur][1] = SubSeq(all, write + 1, Len(all))]

Switch ==
    cur' \in Envs /\ UNCHANGED <<held, count, written, ended>>

\* A box sets what its environment has collected aside; its end discards what
\* was collected since, and only that.
Begin ==
    /\ held' = [held EXCEPT ![cur] = <<<<>>>> \o @]
    /\ UNCHANGED <<cur, count, written, ended>>

End ==
    /\ Len(held[cur]) > 1
    /\ held' = [held EXCEPT ![cur] = Tail(@)]
    /\ UNCHANGED <<cur, count, written, ended>>

Copy ==
    /\ held' = [held EXCEPT ![cur][1] = <<>>]
    /\ UNCHANGED <<cur, count, written, ended>>

\* The program ends with nothing left to write.
Finish ==
    /\ \A e \in Envs : held[e] = <<<<>>>>
    /\ ended' = TRUE /\ UNCHANGED <<held, cur, count, written>>

GalleysInit ==
    /\ held = [e \in Envs |-> <<<<>>>>]
    /\ cur \in Envs /\ count = 0 /\ written = {} /\ ended = FALSE

GalleysNext ==
    ~ended /\ (Advance \/ Switch \/ Begin \/ End \/ Copy \/ Finish)

GalleysSpec == GalleysInit /\ [][GalleysNext]_gvars
=============================================================================
