--------------------------- MODULE MCTopDiversion ---------------------------
(* Instances of TopDiversion for TLC. *)
EXTENDS TopDiversion

CONSTANT m

OneMacro == {m}
AlwaysEmpty(g) == TRUE

Size(pre, extra, post) == [pre |-> pre, extra |-> extra, post |-> post]

Document(lengths, positions, sizes, distances, numbers, reconfigures) ==
    [lengths |-> lengths, positions |-> positions, sizes |-> sizes,
     distances |-> distances, numbers |-> numbers,
     reconfigures |-> reconfigures]

\* Lines no taller than the gap between the traps of a page of one length.
Plain == Document({4}, {0, -2}, {Size(1, 0, 1)}, {1, 3}, {7}, FALSE)

\* Upward moves, two page lengths and lines that fill the shorter page.
Wild == Document({2, 4}, {0, -1}, {Size(1, 0, 0), Size(1, 1, 1)}, {-1, 2}, {},
                 TRUE)

PlainAndWild == {Plain, Wild}
=============================================================================
