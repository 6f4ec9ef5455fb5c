----------------------------- MODULE Imposition -----------------------------
(* What the nodes of a line ask for: which glyphs and shapes, how they look *)
(* and where they go.  It knows no commands and remembers nothing of what   *)
(* was sent to the driver; a mark is forgotten once it was made as asked.   *)
EXTENDS Integers, Sequences

VARIABLES
    pen,           \* <<h, v>>: where the next node goes
    owed           \* the marks asked for and not made yet, in order

ImpositionInit == pen = <<0, 0>> /\ owed = <<>>

From(p, move) == <<p[1] + move[1], p[2] + move[2]>>

\* A mark is placed relative to the pen.
Placed(marks) ==
    [i \in DOMAIN marks |->
        [marks[i] EXCEPT !.h = @ + pen[1], !.v = @ + pen[2]]]

IsPaid(made, due) ==
    Len(made) <= Len(due) /\ made = SubSeq(due, 1, Len(made))

\* The marks that are left of those due once some were made.  Marks that were
\* not asked for stay made, and everything stays due.
StillDue(made, due) ==
    IF IsPaid(made, due) THEN SubSeq(due, Len(made) + 1, Len(due)) ELSE due

Astray(made, due) == IF IsPaid(made, due) THEN <<>> ELSE made
=============================================================================
