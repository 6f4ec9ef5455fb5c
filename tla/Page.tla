-------------------------------- MODULE Page --------------------------------
(***************************************************************************)
(* The page: the member functions of top_level_diversion                   *)
(* (src/roff/troff/div.cpp) with spring_trap and push_page_ejector of      *)
(* input.cpp, as operators over a record f that holds the part of the      *)
(* formatter they read and write.  They call one another, so a request is  *)
(* a composition of them and one step of the modules that use this one.    *)
(*                                                                         *)
(*   traps        page_trap_list                                           *)
(*   vpos, nl     vertical_position, nl_reg_contents                       *)
(*   length       page_length                                              *)
(*   number       page_number                                              *)
(*   next         next_page_number, or NoNumber unless it is overriding    *)
(*   count        page_count        lastCount    last_page_count           *)
(*   ejecting     ejecting_page     before       before_first_page_status  *)
(*   noSpace      is_in_no_space_mode                                      *)
(*   saved        saved_space       marked       marked_place              *)
(*   honor        honor_vertical_position_traps                            *)
(*   input        the input stack, top first                               *)
(*   sprung       was_trap_sprung                                          *)
(*   postponing   are_traps_postponed                                      *)
(*   postponed    postponed_trap                                           *)
(*   exiting      is_exit_underway                                         *)
(*   eoiFinished  is_eoi_macro_finished                                    *)
(*   beganInEoi   began_page_in_eoi_macro                                  *)
(*   seenLast     seen_last_page_ejector                                   *)
(*   status       whether the process runs, and how it ended               *)
(*   written      history: the words written to the output, in order       *)
(*                                                                         *)
(* Distances are multiples of the device's vertical motion quantum.        *)
(***************************************************************************)
EXTENDS TrapSlots

CONSTANTS
    NoNumber,        \* no page number is overriding
    LastPageNumber,  \* last_page_number, 0 unless -o gives one
    IsEmpty(_)       \* environment::is_empty of the current environment

ASSUME PageAssumption ==
    /\ NoNumber \notin Int
    /\ LastPageNumber \in Nat

Running(f) == f.status = "running"

Item(kind, nm) == [kind |-> kind, nm |-> nm]

BeginTrap == Item("begin", NoMacro)
EndTrap == Item("end", NoMacro)
PageEjector == Item("ejector", NoMacro)
LastPageEjector == Item("last", NoMacro)
Call(nm) == Item("call", nm)

\* The formatter before it reads anything, with the given page length.
NewPage(length) ==
    [traps |-> <<>>, vpos |-> 0, nl |-> -1, length |-> length,
     number |-> 0, next |-> NoNumber, count |-> 0, lastCount |-> -1,
     ejecting |-> FALSE, before |-> 1, noSpace |-> FALSE, saved |-> 0,
     marked |-> 0, honor |-> TRUE, input |-> <<>>, sprung |-> FALSE,
     postponing |-> FALSE, postponed |-> NoMacro, exiting |-> FALSE,
     eoiFinished |-> FALSE, beganInEoi |-> FALSE, seenLast |-> FALSE,
     status |-> "running", written |-> <<>>]

PushInput(f, items) == [f EXCEPT !.input = items \o @]

\* spring_trap: the macro runs between two trap tokens, unless a request that
\* is still reading its argument has traps postponed.
SpringTrap(f, nm) ==
    LET g == [f EXCEPT !.sprung = TRUE]
    IN  IF f.postponing
        THEN [g EXCEPT !.postponed = nm]
        ELSE PushInput(g, <<BeginTrap, Call(nm), EndTrap>>)

\* push_page_ejector
PushPageEjector(f) ==
    IF Running(f) THEN PushInput(f, <<PageEjector>>) ELSE f

\* Slip: the register nl is left behind.
MoveToSilently(f, y) == [f EXCEPT !.vpos = y]

MoveTo(f, y) == [f EXCEPT !.vpos = y, !.nl = y]

TrapAhead(f) == NextTrap(f.traps, f.vpos, f.length)

\* Slip: a trap is sprung when the position is past it.
ReachesPast(f, t, y) == f.honor /\ t # 0 /\ y > Location(f.traps[t], f.length)

\* Whether a move down to y springs the trap t.
Reaches(f, t, y) == f.honor /\ t # 0 /\ y >= Location(f.traps[t], f.length)

\* Slip: the last position of the page is thought to be on it.
AtBottomPast(f, y) == f.honor /\ y > f.length

\* Whether a move down to y springs the implicit page trap.
AtBottom(f, y) == f.honor /\ y >= f.length

\* Whether the page that begins has a trap at its very top, which only a
\* search from above the page finds.
TopTrap(f) ==
    LET t == NextTrap(f.traps, -1, f.length)
    IN  IF f.honor /\ t # 0 /\ Location(f.traps[t], f.length) = 0
        THEN f.traps[t].nm ELSE NoMacro

\* write_any_trailer_and_exit is reached instead of a new page when the last
\* page the document needs is complete.
LastPageDone(f) ==
    \/ /\ f.exiting
       /\ IF f.count = f.lastCount
          THEN IsEmpty(f)
          ELSE f.eoiFinished /\ (f.seenLast \/ f.beganInEoi)
    \/ LastPageNumber > 0 /\ f.number = LastPageNumber

\* top_level_diversion::begin_page
BeginPage(f) ==
    IF ~Running(f) THEN f
    ELSE IF LastPageDone(f) THEN [f EXCEPT !.status = "done"]
    ELSE LET g == [f EXCEPT
                     !.beganInEoi = @ \/ (f.exiting /\ ~f.eoiFinished),
                     !.count = @ + 1,
                     !.number = IF f.next # NoNumber THEN f.next
                                ELSE IF f.before = 1 THEN 1
                                ELSE @ + 1,
                     !.next = NoNumber,
                     !.vpos = 0, !.nl = 0,
                     !.ejecting = FALSE, !.before = 0]
         IN  IF TopTrap(f) = NoMacro THEN g ELSE SpringTrap(g, TopTrap(f))

\* Slip: a move up is not stopped at the top of the page.
SpaceUnclamped(f, n, forcing) ==
    LET g == [f EXCEPT !.noSpace = FALSE]
        y == g.vpos + n
        t == TrapAhead(g)
    IN  IF ~Running(f) \/ (f.noSpace /\ ~forcing) THEN f
        ELSE IF g.before > 0 THEN BeginPage(g)
        ELSE IF Reaches(g, t, y)
             THEN SpringTrap(MoveTo(g, Location(g.traps[t], g.length)),
                             g.traps[t].nm)
        ELSE IF AtBottom(g, y) /\ n >= 0 THEN BeginPage(g)
        ELSE MoveTo(g, y)

\* top_level_diversion::space
Space(f, n, forcing) ==
    LET g == [f EXCEPT !.noSpace = FALSE]
        y == g.vpos + n
        t == TrapAhead(g)
    IN  IF ~Running(f) \/ (f.noSpace /\ ~forcing) THEN f
        ELSE IF g.before > 0 THEN BeginPage(g)
        ELSE IF Reaches(g, t, y)
             THEN SpringTrap(MoveTo(g, Location(g.traps[t], g.length)),
                             g.traps[t].nm)
        ELSE IF y < 0 THEN MoveTo(g, 0)
        ELSE IF AtBottom(g, y) /\ n >= 0 THEN BeginPage(g)
        ELSE MoveTo(g, y)

\* The second half of top_level_diversion::output, the line being on the
\* page: t is the trap that was ahead of it, y the position below it, post
\* the space that should follow.
AfterLine(f, t, y, post) ==
    IF AtBottom(f, y) THEN BeginPage([f EXCEPT !.vpos = y])
    ELSE IF Reaches(f, t, y) THEN SpringTrap(MoveTo(f, y), f.traps[t].nm)
    ELSE IF post > 0 /\ Reaches(f, t, y + post)
         THEN SpringTrap(MoveTo(f, Location(f.traps[t], f.length)),
                         f.traps[t].nm)
    ELSE IF post > 0 /\ AtBottom(f, y + post)
         THEN BeginPage([f EXCEPT !.vpos = y + post])
    ELSE MoveTo(f, IF post > 0 THEN y + post ELSE y)

\* The first half, the page having begun: starting the first page here is
\* fatal if that springs a trap.
PlaceLine(begun, springs, t, words, size) ==
    IF ~Running(begun) THEN begun
    ELSE IF springs THEN [begun EXCEPT !.status = "fatal"]
    ELSE AfterLine([begun EXCEPT !.written = @ \o words], t,
                   begun.vpos + size.pre + size.extra, size.post)

\* top_level_diversion::output of a line of words, with its vertical size:
\* pre above the baseline, extra below it, post after it.
OutputLine(f, words, size) ==
    LET g == [f EXCEPT !.noSpace = FALSE]
    IN  PlaceLine(IF g.before > 0 THEN BeginPage(g) ELSE g,
                  g.before > 0 /\ TopTrap(g) # NoMacro,
                  TrapAhead(f), words, size)

\* top_level_diversion::distance_to_next_trap
DistanceAhead(f) == DistanceToNextTrap(f.traps, f.vpos, f.length)

\* diversion::need
Need(f, n) ==
    IF DistanceAhead(f) < n THEN Space(f, DistanceAhead(f), TRUE) ELSE f

\* Slip: an ejection that meets a trap on its way is not resumed.
ContinuePageEjectOnce(f) ==
    IF f.ejecting /\ f.honor THEN Space(f, f.length, TRUE) ELSE f

\* Slip: the ejection goes on when the next page has begun.
ContinuePageEjectAlways(f) ==
    IF f.honor THEN Space(PushPageEjector(f), f.length, TRUE) ELSE f

\* continue_page_eject, when a PAGE_EJECTOR is read from the input.  With
\* traps disabled the ejection is given up with an error.
ContinuePageEject(f) ==
    IF f.ejecting /\ f.honor
    THEN Space(PushPageEjector(f), f.length, TRUE)
    ELSE f

\* set_next_page_number and set_ejecting
SetNextPageNumber(f, n) ==
    IF Running(f) /\ n # NoNumber THEN [f EXCEPT !.next = n] ELSE f

SetEjecting(f) == IF Running(f) THEN [f EXCEPT !.ejecting = TRUE] ELSE f
=============================================================================
