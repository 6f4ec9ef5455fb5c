---------------------------- MODULE PlantedTraps ----------------------------
(* What the request wh promises a document until it moves a trap: each      *)
(* location holds at most one macro; planting replaces it, and wh without a *)
(* macro takes it away.                                                     *)
CONSTANTS Macros, NoMacro, Positions

VARIABLES
    planted,         \* the macro at each location, or NoMacro
    request,         \* the last wh: a macro, or NoMacro, and a location
    moved            \* whether the document has used ch

vars == <<planted, request, moved>>

Init == planted = [p \in Positions |-> NoMacro] /\ request = <<>> /\ moved = FALSE

\* Only the location the request names changes.
When(m, p) ==
    /\ ~moved
    /\ planted' = [planted EXCEPT ![p] = m]
    /\ request' = <<m, p>>
    /\ UNCHANGED moved

\* From then on several traps may share a location, and nothing is promised.
Moved == moved' = TRUE

Next ==
    \/ \E p \in Positions, m \in Macros \cup {NoMacro} : When(m, p)
    \/ Moved

Spec == Init /\ [][Next]_vars
=============================================================================
