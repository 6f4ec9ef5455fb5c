---------------------------- MODULE TopDiversion ----------------------------
(***************************************************************************)
(* The top-level diversion as an object: its operations called in any      *)
(* order, with any arguments, by whatever formats the document.  The input *)
(* stack is here only what the operations push on it; reading a token      *)
(* takes it off, and what a macro then does is any sequence of operations. *)
(***************************************************************************)
EXTENDS Page

CONSTANTS
    Documents,       \* what documents use, see DocumentType
    MaxSlots, MaxCount, MaxInput,  \* bounds on traps, pages and input
    MaxPosition      \* bound on the drawing position with traps disabled

\* The page lengths a document sets, the positions of the traps it plants, the
\* vertical sizes of its output lines, the distances it spaces by, the page
\* numbers it assigns, and whether it uses vpt, pl and .nr nl -1.
DocumentType ==
    [lengths : SUBSET (Nat \ {0}), positions : SUBSET Int,
     sizes : SUBSET [pre : Nat, extra : Nat, post : Nat],
     distances : SUBSET Int, numbers : SUBSET Int, reconfigures : BOOLEAN]

ASSUME TopDiversionAssumption ==
    /\ Documents \subseteq DocumentType
    /\ MaxSlots \in Nat /\ MaxCount \in Nat
    /\ MaxInput \in Nat /\ MaxPosition \in Nat

VARIABLES
    f,               \* the top-level diversion
    doc              \* the document that is formatted

vars == <<f, doc>>

Items == [kind : {"begin", "end", "ejector", "last", "call"},
          nm : Macros \cup {NoMacro}]

Slots == [nm : Macros \cup {NoMacro}, position : Int]

PageState ==
    [traps : Seq(Slots),
     vpos : Nat, nl : Int, length : Nat \ {0},
     number : Int, next : Int \cup {NoNumber},
     count : Nat, lastCount : Int, ejecting : BOOLEAN, before : 0..2,
     noSpace : BOOLEAN, saved : Int, marked : Nat, honor : BOOLEAN,
     input : Seq(Items), sprung : BOOLEAN, postponing : BOOLEAN,
     postponed : Macros \cup {NoMacro}, exiting : BOOLEAN,
     eoiFinished : BOOLEAN, beganInEoi : BOOLEAN, seenLast : BOOLEAN,
     status : {"running", "done", "fatal"}, written : {<<>>}]

TypeOK == f \in PageState /\ doc \in Documents

Init ==
    /\ doc \in Documents
    /\ \E length \in doc.lengths : f = NewPage(length)

\* One operation: the flag of sprung traps is the previous one's no longer.
Do(g) == f' = [g EXCEPT !.sprung = FALSE] /\ UNCHANGED doc

Goes ==
    /\ Running(f)
    /\ f.count < MaxCount
    /\ Len(f.input) < MaxInput
    /\ f.vpos <= MaxPosition

\* handle_first_page_transition
StartFirstPage ==
    /\ Goes /\ f.before > 0
    /\ Do(BeginPage(f))

Output(size) == Goes /\ Do(OutputLine(f, <<>>, size))

SpaceBy(n, forcing) ==
    /\ Goes
    /\ Do(Space(f, n, forcing))

NeedSpace(n) == Goes /\ Do(Need(f, n))

\* .sv: space now if it fits, else keep the amount for .os.
SaveSpace(n) ==
    /\ Goes
    /\ Do(IF DistanceAhead(f) > n THEN Space(f, n, TRUE)
          ELSE [f EXCEPT !.saved = n])

\* .os
OutputSavedSpace ==
    /\ Goes
    /\ Do([(IF f.saved > 0 THEN Space(f, f.saved, TRUE) ELSE f)
              EXCEPT !.saved = 0])

\* .mk and .rt
Mark == Goes /\ Do([f EXCEPT !.marked = f.vpos])

ReturnToMark ==
    /\ Goes
    /\ f.marked < f.vpos
    /\ Do(Space(f, f.marked - f.vpos, FALSE))

\* .bp with the no-break control character, on a page.
Eject(n) ==
    /\ Goes /\ f.before = 0
    /\ Do(LET g == SetNextPageNumber(PushPageEjector(f), n)
          IN  IF f.noSpace /\ n = NoNumber THEN g ELSE SetEjecting(g))

\* .pn
AssignNumber(n) == Goes /\ Do(SetNextPageNumber(f, n))

\* The input is read up to the next token the page cares about.
ReadToken ==
    /\ Running(f) /\ f.count < MaxCount
    /\ f.input # <<>>
    /\ LET rest == [f EXCEPT !.input = Tail(@)]
       IN  Do(IF Head(f.input) = PageEjector
              THEN ContinuePageEject(rest) ELSE rest)

\* .ns and .rs
SetNoSpace(mode) == Goes /\ Do([f EXCEPT !.noSpace = mode])

\* .wh, with and without a macro
PlantTrap(nm, pos) ==
    /\ Goes
    /\ Len(AddTrap(f.traps, nm, pos)) <= MaxSlots
    /\ Do([f EXCEPT !.traps = AddTrap(@, nm, pos)])

UnplantAt(pos) == Goes /\ Do([f EXCEPT !.traps = RemoveTrapAt(@, pos)])

\* .ch
MoveTrap(nm, pos) == Goes /\ Do([f EXCEPT !.traps = ChangeTrap(@, nm, pos)])

\* .vpt
HonorTraps(b) ==
    /\ Goes /\ doc.reconfigures
    /\ Do([f EXCEPT !.honor = b])

\* .pl
SetPageLength(length) ==
    /\ Goes /\ doc.reconfigures
    /\ Do([f EXCEPT !.length = length])

\* nl_reg::set_value with a negative number undoes the top-of-page
\* transition.
UndoTopOfPage ==
    /\ Goes /\ doc.reconfigures
    /\ Do([f EXCEPT !.nl = -1,
                    !.before = IF f.vpos = 0 THEN 2 ELSE @])

Next ==
    \/ StartFirstPage
    \/ \E size \in doc.sizes : Output(size)
    \/ \E n \in doc.distances : \/ \E b \in BOOLEAN : SpaceBy(n, b)
                            \/ NeedSpace(n)
                            \/ SaveSpace(n)
    \/ OutputSavedSpace \/ Mark \/ ReturnToMark
    \/ \E n \in doc.numbers \cup {NoNumber} : Eject(n)
    \/ \E n \in doc.numbers : AssignNumber(n)
    \/ ReadToken
    \/ \E b \in BOOLEAN : SetNoSpace(b) \/ HonorTraps(b)
    \/ \E nm \in Macros, pos \in doc.positions :
          PlantTrap(nm, pos) \/ MoveTrap(nm, pos)
    \/ \E pos \in doc.positions : UnplantAt(pos)
    \/ \E length \in doc.lengths : SetPageLength(length)
    \/ UndoTopOfPage

Spec == Init /\ [][Next]_vars

-----------------------------------------------------------------------------
\* With traps enabled and the page length as it was, no operation leaves the
\* drawing position above the page or at or below its bottom: whatever calls
\* output, space and begin_page make of one another, the implicit page trap
\* is honored.
OnPage(g) == 0 <= g.vpos /\ g.vpos < g.length

StaysOnPage ==
    [][f.honor /\ f'.honor /\ OnPage(f) /\ f'.length = f.length
          /\ Running(f')
       => OnPage(f')]_vars

\* The macros an operation called.
Called(g, h) ==
    {h.input[i].nm : i \in {j \in 1..(Len(h.input) - Len(g.input)) :
                              h.input[j].kind = "call"}}

\* The traps the drawing position met on its way down from g to h.
Passed(g, h) ==
    IF h.count = g.count
    THEN {i \in Ahead(g.traps, g.vpos, g.length) :
            Location(g.traps[i], g.length) <= h.vpos}
    ELSE Ahead(g.traps, g.vpos, g.length)

\* A trap is visible unless another in front of it in the list has its
\* location.
VisibleTraps(g) ==
    {i \in Live(g.traps) :
        \A j \in Live(g.traps) :
            Location(g.traps[j], g.length) = Location(g.traps[i], g.length)
               => i <= j}

\* "A vertical position trap calls a macro when the formatter's vertical
\* drawing position reaches or passes, in the downward direction, a certain
\* location": in a document that does not reconfigure the page, every visible
\* trap the position passes is called by the operation that passes it.
NoTrapSkipped ==
    [][~doc.reconfigures /\ f.before = 0 /\ Running(f') /\ f'.traps = f.traps
       => \A i \in Passed(f, f') \cap VisibleTraps(f) :
             f.traps[i].nm \in Called(f, f')]_vars

\* nl reports the drawing position of the page, but for the value that undoes
\* the top of the page.
NlFollowsPosition ==
    Running(f) => f.nl = f.vpos \/ f.nl = -1
=============================================================================
