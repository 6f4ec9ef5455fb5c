----------------------------- MODULE TrapSlots ------------------------------
(***************************************************************************)
(* The list of page location traps of the top-level diversion              *)
(* (top_level_diversion::page_trap_list, src/roff/troff/div.cpp).          *)
(*                                                                         *)
(* A trap is never taken off the list: removing it empties its slot, which *)
(* keeps its position, and planting reuses the first empty slot.           *)
(***************************************************************************)
EXTENDS Integers, Sequences, SequencesExt

CONSTANTS
    Macros,        \* names of macros
    NoMacro        \* NULL_SYMBOL: the name in an emptied slot

ASSUME MacrosAssumption == NoMacro \notin Macros

Slot(nm, pos) == [nm |-> nm, position |-> pos]

\* The least element of a set of indices, 0 when there is none.
FirstOf(I) == IF I = {} THEN 0 ELSE CHOOSE i \in I : \A j \in I : i <= j

Live(slots) == {i \in DOMAIN slots : slots[i].nm # NoMacro}

LiveAt(slots, pos) == {i \in Live(slots) : slots[i].position = pos}

\* The macro a position calls: that of the first trap there.
Visible(slots, pos) ==
    LET i == FirstOf(LiveAt(slots, pos))
    IN  IF i = 0 THEN NoMacro ELSE slots[i].nm

\* Slip: the trap is planted one unit below the position asked for.
AddTrapBelow(slots, nm, pos) == Append(slots, Slot(nm, pos + 1))

\* Slip: the first empty slot ends the search for a trap to replace.
AddTrapFirstFree(slots, nm, pos) ==
    LET there == FirstOf(LiveAt(slots, pos))
        free  == FirstOf(DOMAIN slots \ Live(slots))
    IN  IF free # 0 THEN [slots EXCEPT ![free] = Slot(nm, pos)]
        ELSE IF there # 0 THEN [slots EXCEPT ![there].nm = nm]
        ELSE Append(slots, Slot(nm, pos))

\* top_level_diversion::add_trap: a trap already at the position changes its
\* macro; otherwise the first empty slot is reused.
AddTrap(slots, nm, pos) ==
    LET there == FirstOf(LiveAt(slots, pos))
        free  == FirstOf(DOMAIN slots \ Live(slots))
    IN  IF there # 0 THEN [slots EXCEPT ![there].nm = nm]
        ELSE IF free # 0 THEN [slots EXCEPT ![free] = Slot(nm, pos)]
        ELSE Append(slots, Slot(nm, pos))

Empty(slots, i) == IF i = 0 THEN slots ELSE [slots EXCEPT ![i].nm = NoMacro]

\* top_level_diversion::remove_trap, by name.
RemoveTrap(slots, nm) ==
    Empty(slots, FirstOf({i \in DOMAIN slots : slots[i].nm = nm}))

\* top_level_diversion::remove_trap_at: the first slot with the position, an
\* emptied one included.
RemoveTrapAt(slots, pos) ==
    Empty(slots, FirstOf({i \in DOMAIN slots : slots[i].position = pos}))

\* top_level_diversion::change_trap; a macro that is not planted is reported.
ChangeTrap(slots, nm, pos) ==
    LET i == FirstOf({j \in DOMAIN slots : slots[j].nm = nm})
    IN  IF i = 0 THEN slots ELSE [slots EXCEPT ![i].position = pos]

-----------------------------------------------------------------------------
\* The distance of a trap from the top of a page of the given length.
Location(t, length) ==
    IF t.position >= 0 THEN t.position ELSE t.position + length

\* The traps between vpos and the bottom of the page; one planted from the
\* bottom must not reach the top.
Ahead(slots, vpos, length) ==
    {i \in Live(slots) :
        /\ Location(slots[i], length) > vpos
        /\ IF slots[i].position >= 0
           THEN slots[i].position < length
           ELSE Location(slots[i], length) > 0}

\* top_level_diversion::find_next_trap: the index of the nearest trap ahead,
\* the first in the list among those at the same location; 0 for none.
NextTrap(slots, vpos, length) ==
    LET ahead == Ahead(slots, vpos, length)
    IN  FirstOf({i \in ahead :
                    \A j \in ahead : Location(slots[i], length)
                                        <= Location(slots[j], length)})

\* Slip: the later of two traps at the same location wins.
NextTrapLoopLast(slots, vpos, length) ==
    LET better(b, i) ==
            /\ i \in Ahead(slots, vpos, length)
            /\ \/ b = 0
               \/ Location(slots[i], length) <= Location(slots[b], length)
        best[i \in 0..Len(slots)] ==
            IF i = 0 THEN 0
            ELSE IF better(best[i - 1], i) THEN i ELSE best[i - 1]
    IN  best[Len(slots)]

\* Slot i is ahead and nearer than slot b, the best so far.
Better(slots, vpos, length, b, i) ==
    /\ i \in Ahead(slots, vpos, length)
    /\ \/ b = 0
       \/ Location(slots[i], length) < Location(slots[b], length)

\* The best of the first i slots, for each i.
BestOfFirst(slots, vpos, length) ==
    LET best[i \in 0..Len(slots)] ==
            IF i = 0 THEN 0
            ELSE IF Better(slots, vpos, length, best[i - 1], i) THEN i
            ELSE best[i - 1]
    IN  best

\* The same search as the loop it is: one pass over the list that keeps the
\* best trap so far, next_trap with *next_trap_pos.
NextTrapLoop(slots, vpos, length) ==
    BestOfFirst(slots, vpos, length)[Len(slots)]

\* top_level_diversion::distance_to_next_trap
DistanceToNextTrap(slots, vpos, length) ==
    LET t == NextTrap(slots, vpos, length)
    IN  (IF t = 0 THEN length ELSE Location(slots[t], length)) - vpos
=============================================================================
