------------------------------ MODULE PageTraps -----------------------------
(* The requests wh and ch, which plant, move and remove page location       *)
(* traps, as a state machine over the list of slots.                        *)
EXTENDS TrapSlots

CONSTANTS
    Positions,     \* the positions a document names, negative from the bottom
    MaxSlots       \* bound on the length of the list (none in the code)

ASSUME PageTrapsAssumption ==
    Positions \subseteq Int /\ MaxSlots \in Nat

VARIABLES
    slots,         \* page_trap_list
    request,       \* history: the macro and position last given to wh
    moved          \* history: whether ch was used

vars == <<slots, request, moved>>

TypeOK ==
    /\ slots \in Seq([nm : Macros \cup {NoMacro}, position : Positions])
    /\ request \in {<<>>} \cup ((Macros \cup {NoMacro}) \X Positions)
    /\ moved \in BOOLEAN

Init == slots = <<>> /\ request = <<>> /\ moved = FALSE

\* .wh POS NAME
WhenPlant(nm, pos) ==
    /\ slots' = AddTrap(slots, nm, pos)
    /\ Len(slots') <= MaxSlots
    /\ request' = <<nm, pos>>
    /\ UNCHANGED moved

\* .wh POS
WhenRemove(pos) ==
    /\ slots' = RemoveTrapAt(slots, pos)
    /\ request' = <<NoMacro, pos>>
    /\ UNCHANGED moved

\* .ch NAME POS
Change(nm, pos) ==
    /\ slots' = ChangeTrap(slots, nm, pos)
    /\ moved' = TRUE
    /\ UNCHANGED request

\* .ch NAME
ChangeRemove(nm) ==
    /\ slots' = RemoveTrap(slots, nm)
    /\ moved' = TRUE
    /\ UNCHANGED request

Next ==
    \/ \E nm \in Macros, pos \in Positions :
          WhenPlant(nm, pos) \/ Change(nm, pos)
    \/ \E pos \in Positions : WhenRemove(pos)
    \/ \E nm \in Macros : ChangeRemove(nm)

Spec == Init /\ [][Next]_vars

-----------------------------------------------------------------------------
\* A document that has only used wh sees each location as a cell of its own,
\* whatever slots its plantings and removals reuse.
Table == INSTANCE PlantedTraps
            WITH planted <- [p \in Positions |-> Visible(slots, p)]

ImplementsPlantedTraps == Table!Spec

\* Before ch no two traps share a position, and no emptied slot stands
\* before the trap at its position: the conditions under which the searches
\* of add_trap and remove_trap_at find the trap they are meant to find.
FirstAtPosition(s) ==
    \A i \in Live(s), j \in DOMAIN s :
        s[i].position = s[j].position =>
            /\ i <= j
            /\ j \in Live(s) => i = j

OneTrapAPosition == ~moved => FirstAtPosition(slots)

\* The loop of find_next_trap, which treats positions from the top and from
\* the bottom in separate branches, finds the nearest visible trap for every
\* drawing position and page length.
LoopFindsNearest ==
    \A length \in 1..6, vpos \in -1..6 :
        NextTrapLoop(slots, vpos, length) = NextTrap(slots, vpos, length)
=============================================================================
