------------------------ MODULE TopDiversionProofs -------------------------
(* That the drawing position stays on the page, for any page lengths, traps, *)
(* line sizes and distances, and passes no visible trap without calling it.  *)
(* Each operation of Page is shown to keep the state well formed; Keeps says *)
(* what it may do to the position, and Meets which traps it must call.       *)
EXTENDS TopDiversion, WellFoundedInduction, TLAPS

-----------------------------------------------------------------------------
\* Facts about the list of traps.

\* A nonempty set of natural numbers has a least element.
LEMMA LeastElement ==
    ASSUME NEW T \in SUBSET Nat, T # {}
    PROVE  \E x \in T : \A y \in T : x <= y
<1>1. \E x \in T : \A y \in T : ~ (<<y, x>> \in OpToRel(<, Nat))
  BY WFMin, NatLessThanWellFounded
<1>2. \A x \in T, y \in T : ~ (<<y, x>> \in OpToRel(<, Nat)) => x <= y
  BY DEF OpToRel
<1> QED
  BY <1>1, <1>2

\* FirstOf picks the least index of a set of indices, and 0 from none.
LEMMA FirstOfLeast ==
    ASSUME NEW n \in Nat, NEW I \in SUBSET (1..n)
    PROVE  \/ I = {} /\ FirstOf(I) = 0
           \/ /\ FirstOf(I) \in I /\ FirstOf(I) \in 1..n
              /\ \A j \in I : FirstOf(I) <= j
<1>1. CASE I = {}
  BY <1>1 DEF FirstOf
<1>2. CASE I # {}
  <2>1. \E x \in I : \A y \in I : x <= y
    BY <1>2, LeastElement, I \in SUBSET Nat
  <2>2. FirstOf(I) \in I /\ \A j \in I : FirstOf(I) <= j
    BY <1>2, <2>1 DEF FirstOf
  <2> QED
    BY <2>2
<1> QED
  BY <1>1, <1>2

\* The trap that find_next_trap returns is ahead of the drawing position.
LEMMA NextTrapAhead ==
    ASSUME NEW E, NEW s \in Seq(E), NEW vpos \in Int, NEW length \in Int,
           NextTrap(s, vpos, length) # 0
    PROVE  /\ NextTrap(s, vpos, length) \in Ahead(s, vpos, length)
           /\ NextTrap(s, vpos, length) \in DOMAIN s
<1> DEFINE I == {i \in Ahead(s, vpos, length) :
                    \A j \in Ahead(s, vpos, length) :
                       Location(s[i], length) <= Location(s[j], length)}
<1>1. Len(s) \in Nat /\ I \in SUBSET (1..Len(s)) /\ DOMAIN s = 1..Len(s)
  BY DEF Ahead, Live
<1>2. NextTrap(s, vpos, length) = FirstOf(I)
  BY DEF NextTrap
<1>3. FirstOf(I) \in I
  <2> HIDE DEF I
  <2> QED
    BY <1>1, <1>2, FirstOfLeast
<1> QED
  BY <1>1, <1>2, <1>3

\* Lists of slots at positions of a set.
SlotsAt(P) == [nm : Macros \cup {NoMacro}, position : P]

\* Every request keeps the list well formed.
LEMMA TrapListType ==
    ASSUME NEW P, NEW pos \in P, NEW s \in Seq(SlotsAt(P))
    PROVE  /\ RemoveTrapAt(s, pos) \in Seq(SlotsAt(P))
           /\ \A nm \in Macros :
                /\ AddTrap(s, nm, pos) \in Seq(SlotsAt(P))
                /\ ChangeTrap(s, nm, pos) \in Seq(SlotsAt(P))
                /\ RemoveTrap(s, nm) \in Seq(SlotsAt(P))
<1>1. Len(s) \in Nat /\ DOMAIN s = 1..Len(s)
  OBVIOUS
<1>2. ASSUME NEW i \in DOMAIN s, NEW e \in SlotsAt(P)
      PROVE  [s EXCEPT ![i] = e] \in Seq(SlotsAt(P))
  OBVIOUS
<1>3. ASSUME NEW i \in DOMAIN s, NEW m \in Macros \cup {NoMacro}
      PROVE  /\ [s EXCEPT ![i].nm = m] \in Seq(SlotsAt(P))
             /\ [s EXCEPT ![i].position = pos] \in Seq(SlotsAt(P))
  <2>1. [s[i] EXCEPT !.nm = m] \in SlotsAt(P)
        /\ [s[i] EXCEPT !.position = pos] \in SlotsAt(P)
    <3>1. s[i] \in SlotsAt(P)
      OBVIOUS
    <3> QED
      BY <3>1 DEF SlotsAt
  <2> QED
    BY <2>1, <1>2
<1>4. ASSUME NEW I \in SUBSET DOMAIN s, FirstOf(I) # 0
      PROVE  FirstOf(I) \in DOMAIN s
  BY <1>1, <1>4, FirstOfLeast
<1>5. ASSUME NEW nm \in Macros
      PROVE  AddTrap(s, nm, pos) \in Seq(SlotsAt(P))
  <2> DEFINE there == FirstOf(LiveAt(s, pos))
             free == FirstOf(DOMAIN s \ Live(s))
  <2>1. LiveAt(s, pos) \in SUBSET DOMAIN s
        /\ DOMAIN s \ Live(s) \in SUBSET DOMAIN s
    BY DEF LiveAt, Live
  <2>2. there # 0 => there \in DOMAIN s
    BY <2>1, <1>4
  <2>3. free # 0 => free \in DOMAIN s
    BY <2>1, <1>4
  <2>4. Slot(nm, pos) \in SlotsAt(P)
    BY DEF Slot, SlotsAt
  <2>5. Append(s, Slot(nm, pos)) \in Seq(SlotsAt(P))
    BY <2>4
  <2>6. there # 0 => [s EXCEPT ![there].nm = nm] \in Seq(SlotsAt(P))
    BY <2>2, <1>3
  <2>7. free # 0 => [s EXCEPT ![free] = Slot(nm, pos)] \in Seq(SlotsAt(P))
    BY <2>3, <2>4, <1>2
  <2>8. AddTrap(s, nm, pos) =
          IF there # 0 THEN [s EXCEPT ![there].nm = nm]
          ELSE IF free # 0 THEN [s EXCEPT ![free] = Slot(nm, pos)]
          ELSE Append(s, Slot(nm, pos))
    BY DEF AddTrap
  <2> HIDE DEF there, free
  <2> QED
    BY <2>5, <2>6, <2>7, <2>8
<1>6. ASSUME NEW nm \in Macros
      PROVE  ChangeTrap(s, nm, pos) \in Seq(SlotsAt(P))
  BY <1>3, <1>4 DEF ChangeTrap
<1>7. ASSUME NEW I \in SUBSET DOMAIN s
      PROVE  Empty(s, FirstOf(I)) \in Seq(SlotsAt(P))
  BY <1>3, <1>4, <1>7 DEF Empty
<1>8. RemoveTrapAt(s, pos) \in Seq(SlotsAt(P))
      /\ \A nm \in Macros : RemoveTrap(s, nm) \in Seq(SlotsAt(P))
  BY <1>7 DEF RemoveTrapAt, RemoveTrap
<1> QED
  BY <1>5, <1>6, <1>8

-----------------------------------------------------------------------------
\* What an operation may do to the position.
NlFollows(g) == Running(g) => g.nl = g.vpos \/ g.nl = -1

Keeps(g, h) ==
    /\ h \in PageState
    /\ h.length = g.length /\ h.honor = g.honor /\ h.traps = g.traps
    /\ h.postponing = g.postponing
    /\ g.honor /\ OnPage(g) /\ Running(h) => OnPage(h)
    /\ NlFollows(g) => NlFollows(h)

LEMMA KeepsTransitive ==
    ASSUME NEW a \in PageState, NEW b, NEW c, Keeps(a, b), Keeps(b, c),
           Running(c) => Running(b)
    PROVE  Keeps(a, c)
  BY DEF Keeps, Running

\* The trap ahead is a slot of the list, between the position and the bottom
\* of the page.
LEMMA TrapAheadOnPage ==
    ASSUME NEW g \in PageState, TrapAhead(g) # 0
    PROVE  /\ g.traps[TrapAhead(g)] \in Slots
           /\ Location(g.traps[TrapAhead(g)], g.length) \in Int
           /\ g.vpos < Location(g.traps[TrapAhead(g)], g.length)
           /\ Location(g.traps[TrapAhead(g)], g.length) < g.length
<1> DEFINE t == TrapAhead(g)
<1>1. g.traps \in Seq(Slots) /\ g.vpos \in Int /\ g.length \in Int
  BY DEF PageState
<1>2. t \in Ahead(g.traps, g.vpos, g.length) /\ t \in DOMAIN g.traps
  BY <1>1, NextTrapAhead DEF TrapAhead
<1>3. g.traps[t] \in Slots
  BY <1>1, <1>2
<1>4. /\ Location(g.traps[t], g.length) > g.vpos
      /\ IF g.traps[t].position >= 0
         THEN g.traps[t].position < g.length
         ELSE Location(g.traps[t], g.length) > 0
  BY <1>2 DEF Ahead
<1>5. g.traps[t].position \in Int
  BY <1>3 DEF Slots
<1> HIDE DEF t
<1>6. /\ Location(g.traps[t], g.length) \in Int
      /\ g.vpos < Location(g.traps[t], g.length)
      /\ Location(g.traps[t], g.length) < g.length
  BY <1>1, <1>4, <1>5 DEF Location
<1> QED
  BY <1>3, <1>6 DEF t

LEMMA PushInputType ==
    ASSUME NEW g \in PageState, NEW items \in Seq(Items)
    PROVE  PushInput(g, items) \in PageState
<1>1. items \o g.input \in Seq(Items)
  BY DEF PageState
<1> QED
  BY <1>1 DEF PushInput, PageState

LEMMA SpringTrapKeeps ==
    ASSUME NEW g \in PageState, NEW nm \in Macros \cup {NoMacro}
    PROVE  /\ Keeps(g, SpringTrap(g, nm))
           /\ SpringTrap(g, nm).status = g.status
<1>1. BeginTrap \in Items /\ EndTrap \in Items /\ Call(nm) \in Items
  BY DEF BeginTrap, EndTrap, Call, Item, Items
<1>2. <<BeginTrap, Call(nm), EndTrap>> \in Seq(Items)
  BY <1>1
<1>3. SpringTrap(g, nm) \in PageState
  <2>1. [g EXCEPT !.sprung = TRUE] \in PageState
    BY DEF PageState
  <2>2. [[g EXCEPT !.sprung = TRUE] EXCEPT !.postponed = nm] \in PageState
    BY <2>1 DEF PageState
  <2> QED
    BY <2>1, <2>2, <1>2, PushInputType DEF SpringTrap
<1> QED
  BY <1>3 DEF SpringTrap, PushInput, PageState, Keeps, OnPage, NlFollows,
              Running

LEMMA PushPageEjectorKeeps ==
    ASSUME NEW g \in PageState
    PROVE  /\ Keeps(g, PushPageEjector(g))
           /\ PushPageEjector(g).status = g.status
<1>1. PageEjector \in Items
  BY DEF PageEjector, Item, Items
<1>2. <<PageEjector>> \in Seq(Items)
  BY <1>1
<1>3. PushPageEjector(g) \in PageState
  BY <1>2, PushInputType DEF PushPageEjector
<1> QED
  BY <1>3 DEF PushPageEjector, PushInput, PageState, Keeps, OnPage,
              NlFollows, Running

LEMMA NewPageType ==
    ASSUME NEW g \in PageState, NEW b \in BOOLEAN, NEW c \in Nat, NEW n \in Int
    PROVE  [g EXCEPT !.beganInEoi = b, !.count = c, !.number = n,
                     !.next = NoNumber, !.vpos = 0, !.nl = 0,
                     !.ejecting = FALSE, !.before = 0] \in PageState
<1>1. 0 \in Nat /\ 0 \in Int /\ 0 \in 0..2 /\ FALSE \in BOOLEAN
  OBVIOUS
<1>2. NoNumber \in Int \cup {NoNumber}
  OBVIOUS
<1> QED
  BY <1>1, <1>2 DEF PageState

\* Beginning a page puts the position at its top, whatever it was.
LEMMA BeginPageKeeps ==
    ASSUME NEW g \in PageState
    PROVE  /\ Keeps(g, BeginPage(g))
           /\ Running(BeginPage(g)) => Running(g)
           /\ Running(BeginPage(g)) =>
                 /\ OnPage(BeginPage(g))
                 /\ BeginPage(g).nl = BeginPage(g).vpos
<1> DEFINE h == [g EXCEPT
                     !.beganInEoi = @ \/ (g.exiting /\ ~g.eoiFinished),
                     !.count = @ + 1,
                     !.number = IF g.next # NoNumber THEN g.next
                                ELSE IF g.before = 1 THEN 1
                                ELSE @ + 1,
                     !.next = NoNumber,
                     !.vpos = 0, !.nl = 0,
                     !.ejecting = FALSE, !.before = 0]
<1>1. CASE ~Running(g)
  BY <1>1 DEF BeginPage, Keeps
<1>2. CASE Running(g) /\ LastPageDone(g)
  <2>1. BeginPage(g) = [g EXCEPT !.status = "done"]
    BY <1>2 DEF BeginPage
  <2>2. [g EXCEPT !.status = "done"] \in PageState
    BY DEF PageState
  <2> QED
    BY <2>1, <2>2, <1>2 DEF Keeps, Running, NlFollows, PageState
<1>3. CASE Running(g) /\ ~LastPageDone(g)
  <2>1. h \in PageState
    <3>1. (g.beganInEoi \/ (g.exiting /\ ~g.eoiFinished)) \in BOOLEAN
      OBVIOUS
    <3>2. g.count + 1 \in Nat
      BY DEF PageState
    <3>3. (IF g.next # NoNumber THEN g.next
           ELSE IF g.before = 1 THEN 1 ELSE g.number + 1) \in Int
      BY DEF PageState
    <3> QED
      BY <3>1, <3>2, <3>3, NewPageType, ZenonT(30)
  <2>2. /\ h.vpos = 0 /\ h.nl = 0 /\ h.length = g.length
        /\ h.honor = g.honor /\ h.status = g.status /\ h.length \in Nat \ {0}
        /\ h.traps = g.traps /\ h.postponing = g.postponing
    BY DEF PageState
  <2>3. BeginPage(g) = IF TopTrap(g) = NoMacro THEN h
                       ELSE SpringTrap(h, TopTrap(g))
    BY <1>3 DEF BeginPage
  <2>4. TopTrap(g) \in Macros \cup {NoMacro}
    <3> DEFINE t == NextTrap(g.traps, -1, g.length)
    <3>1. g.traps \in Seq(Slots) /\ g.length \in Int
      BY DEF PageState
    <3>2. t # 0 => g.traps[t] \in Slots
      BY <3>1, NextTrapAhead
    <3> HIDE DEF t
    <3>3. t # 0 => g.traps[t].nm \in Macros \cup {NoMacro}
      BY <3>2 DEF Slots
    <3>4. TopTrap(g) \in {NoMacro} \/ (t # 0 /\ TopTrap(g) = g.traps[t].nm)
      BY DEF TopTrap, t
    <3> QED
      BY <3>3, <3>4
  <2>5. Keeps(h, SpringTrap(h, TopTrap(g)))
        /\ SpringTrap(h, TopTrap(g)).status = h.status
        /\ SpringTrap(h, TopTrap(g)).vpos = h.vpos
        /\ SpringTrap(h, TopTrap(g)).nl = h.nl
    <3> HIDE DEF h
    <3>1. SpringTrap(h, TopTrap(g)).vpos = h.vpos
          /\ SpringTrap(h, TopTrap(g)).nl = h.nl
      BY <2>1 DEF SpringTrap, PushInput, PageState
    <3> QED
      BY <3>1, <2>1, <2>4, SpringTrapKeeps
  <2> HIDE DEF h
  <2> QED
    BY <1>3, <2>1, <2>2, <2>3, <2>5 DEF Keeps, Running, OnPage, NlFollows
<1> QED
  BY <1>1, <1>2, <1>3

LEMMA MoveToType ==
    ASSUME NEW g \in PageState, NEW y \in Nat
    PROVE  /\ MoveTo(g, y) \in PageState
           /\ MoveTo(g, y).vpos = y /\ MoveTo(g, y).nl = y
           /\ MoveTo(g, y).length = g.length /\ MoveTo(g, y).honor = g.honor
           /\ MoveTo(g, y).status = g.status
           /\ MoveTo(g, y).traps = g.traps
           /\ MoveTo(g, y).postponing = g.postponing
<1>1. y \in Int
  OBVIOUS
<1>2. MoveTo(g, y) \in PageState
  BY <1>1 DEF MoveTo, PageState
<1> QED
  BY <1>2 DEF MoveTo, PageState

\* A move to a place on the page, or with traps disabled.
LEMMA MoveToKeeps ==
    ASSUME NEW g \in PageState, NEW y \in Nat, g.honor => y < g.length
    PROVE  Keeps(g, MoveTo(g, y)) /\ MoveTo(g, y).status = g.status
  BY MoveToType DEF Keeps, OnPage, NlFollows, Running

\* A move to the trap ahead, which springs.
LEMMA SpringAheadKeeps ==
    ASSUME NEW g \in PageState, TrapAhead(g) # 0
    PROVE  LET t == TrapAhead(g)
           IN  Keeps(g, SpringTrap(MoveTo(g, Location(g.traps[t], g.length)),
                                   g.traps[t].nm))
               /\ SpringTrap(MoveTo(g, Location(g.traps[t], g.length)),
                                   g.traps[t].nm).status = g.status
<1> DEFINE t == TrapAhead(g)
           y == Location(g.traps[t], g.length)
<1>1. y \in Nat /\ y < g.length /\ g.traps[t] \in Slots
  BY TrapAheadOnPage DEF PageState
<1>2. g.traps[t].nm \in Macros \cup {NoMacro}
  BY <1>1 DEF Slots
<1> HIDE DEF t, y
<1>3. Keeps(g, MoveTo(g, y)) /\ MoveTo(g, y) \in PageState
      /\ MoveTo(g, y).status = g.status
  BY <1>1, MoveToKeeps, MoveToType
<1>4. Keeps(MoveTo(g, y), SpringTrap(MoveTo(g, y), g.traps[t].nm))
      /\ SpringTrap(MoveTo(g, y), g.traps[t].nm).status = g.status
  BY <1>2, <1>3, SpringTrapKeeps
<1>5. Keeps(g, SpringTrap(MoveTo(g, y), g.traps[t].nm))
      /\ SpringTrap(MoveTo(g, y), g.traps[t].nm).status = g.status
  BY <1>3, <1>4, KeepsTransitive DEF Running
<1> QED
  BY <1>5 DEF t, y

\* space: a trap ahead, the top and the bottom of the page stop the move.
LEMMA SpaceKeeps ==
    ASSUME NEW g \in PageState, NEW n \in Int, NEW forcing \in BOOLEAN
    PROVE  /\ Keeps(g, Space(g, n, forcing))
           /\ Running(Space(g, n, forcing)) => Running(g)
<1> DEFINE h == [g EXCEPT !.noSpace = FALSE]
           y == h.vpos + n
           t == TrapAhead(h)
<1>1. /\ h \in PageState /\ h.vpos = g.vpos /\ h.length = g.length
      /\ h.honor = g.honor /\ h.status = g.status /\ h.nl = g.nl
      /\ h.traps = g.traps /\ h.postponing = g.postponing
  BY DEF PageState
<1>2. Keeps(g, h)
  BY <1>1 DEF Keeps, OnPage, Running, NlFollows
<1>3. y \in Int /\ h.vpos \in Nat /\ h.length \in Nat \ {0}
  <2> HIDE DEF h
  <2> QED
    BY <1>1, SMTT(30) DEF PageState
<1>4. \/ Space(g, n, forcing) = g
      \/ Space(g, n, forcing) = BeginPage(h)
      \/ t # 0 /\ Space(g, n, forcing) =
            SpringTrap(MoveTo(h, Location(h.traps[t], h.length)), h.traps[t].nm)
      \/ y < 0 /\ Space(g, n, forcing) = MoveTo(h, 0)
      \/ y >= 0 /\ ~(AtBottom(h, y) /\ n >= 0)
         /\ Space(g, n, forcing) = MoveTo(h, y)
  BY <1>3 DEF Space, Reaches
<1> HIDE DEF h
<1>5. CASE Space(g, n, forcing) = g
  BY <1>5 DEF Keeps
<1>6. CASE Space(g, n, forcing) = BeginPage(h)
  BY <1>1, <1>2, <1>6, BeginPageKeeps, KeepsTransitive DEF Running
<1>7. CASE /\ t # 0
           /\ Space(g, n, forcing) =
                SpringTrap(MoveTo(h, Location(h.traps[t], h.length)),
                           h.traps[t].nm)
  BY <1>1, <1>2, <1>7, SpringAheadKeeps, KeepsTransitive DEF Running
<1>8. CASE y < 0 /\ Space(g, n, forcing) = MoveTo(h, 0)
  BY <1>1, <1>2, <1>3, <1>8, MoveToKeeps, KeepsTransitive DEF Running
<1>9. CASE /\ y >= 0 /\ ~(AtBottom(h, y) /\ n >= 0)
           /\ Space(g, n, forcing) = MoveTo(h, y)
  <2>1. y \in Nat
    BY <1>3, <1>9
  <2>2. MoveTo(h, y) \in PageState /\ MoveTo(h, y).vpos = y
        /\ MoveTo(h, y).nl = y /\ MoveTo(h, y).length = h.length
        /\ MoveTo(h, y).honor = h.honor /\ MoveTo(h, y).status = h.status
        /\ MoveTo(h, y).traps = h.traps
        /\ MoveTo(h, y).postponing = h.postponing
    BY <1>1, <2>1, MoveToType
  <2>3. h.honor /\ OnPage(h) => y < h.length
    BY <1>3, <1>9 DEF AtBottom, OnPage
  <2>4. Keeps(h, MoveTo(h, y))
    BY <2>1, <2>2, <2>3 DEF Keeps, OnPage, Running, NlFollows
  <2> QED
    BY <1>1, <1>2, <1>9, <2>2, <2>4, KeepsTransitive DEF Running
<1> QED
  BY <1>4, <1>5, <1>6, <1>7, <1>8, <1>9

\* The trap a line may reach is one ahead of the position it is set at or
\* above; all that matters here is that it names a slot of the list whose
\* location is on the page.
TrapOnPage(g, t) ==
    t # 0 => /\ g.traps[t] \in Slots
             /\ Location(g.traps[t], g.length) \in Nat
             /\ Location(g.traps[t], g.length) < g.length

LEMMA AfterLineKeeps ==
    ASSUME NEW g \in PageState, NEW t, TrapOnPage(g, t),
           NEW y \in Nat, NEW post \in Nat
    PROVE  /\ Keeps(g, AfterLine(g, t, y, post))
           /\ Running(AfterLine(g, t, y, post)) => Running(g)
<1> DEFINE Begun(v) == BeginPage([g EXCEPT !.vpos = v])
<1>1. ASSUME NEW v \in Nat
      PROVE  Keeps(g, Begun(v)) /\ (Running(Begun(v)) => Running(g))
  <2> DEFINE h == [g EXCEPT !.vpos = v]
  <2>1. /\ h \in PageState /\ h.length = g.length /\ h.honor = g.honor
        /\ h.status = g.status /\ h.traps = g.traps
        /\ h.postponing = g.postponing
    BY DEF PageState
  <2> HIDE DEF h
  <2>2. Keeps(h, BeginPage(h)) /\ (Running(BeginPage(h)) => Running(h))
        /\ (Running(BeginPage(h)) => OnPage(BeginPage(h))
                               /\ BeginPage(h).nl = BeginPage(h).vpos)
    BY <2>1, BeginPageKeeps
  <2>3. Keeps(g, BeginPage(h)) /\ (Running(BeginPage(h)) => Running(g))
    BY <2>1, <2>2 DEF Keeps, Running, NlFollows
  <2> QED
    BY <2>3 DEF h
<1>2. ASSUME NEW v \in Nat, NEW nm \in Macros \cup {NoMacro},
             g.honor => v < g.length
      PROVE  /\ Keeps(g, SpringTrap(MoveTo(g, v), nm))
             /\ SpringTrap(MoveTo(g, v), nm).status = g.status
  <2>1. Keeps(g, MoveTo(g, v)) /\ MoveTo(g, v) \in PageState
        /\ MoveTo(g, v).status = g.status
    BY <1>2, MoveToKeeps, MoveToType
  <2>2. /\ Keeps(MoveTo(g, v), SpringTrap(MoveTo(g, v), nm))
        /\ SpringTrap(MoveTo(g, v), nm).status = MoveTo(g, v).status
    BY <2>1, SpringTrapKeeps
  <2> QED
    BY <2>1, <2>2, KeepsTransitive DEF Running
<1>3. y + post \in Nat /\ g.length \in Nat
  BY DEF PageState
<1>4. t # 0 => g.traps[t].nm \in Macros \cup {NoMacro}
  BY DEF TrapOnPage, Slots
<1>5. CASE AtBottom(g, y)
  BY <1>1, <1>5 DEF AfterLine
<1>6. CASE ~AtBottom(g, y) /\ Reaches(g, t, y)
  <2>1. AfterLine(g, t, y, post) = SpringTrap(MoveTo(g, y), g.traps[t].nm)
    BY <1>6 DEF AfterLine
  <2>2. t # 0 /\ (g.honor => y < g.length)
    BY <1>3, <1>6 DEF AtBottom, Reaches
  <2> QED
    BY <1>2, <1>4, <2>1, <2>2 DEF Running
<1>7. CASE /\ ~AtBottom(g, y) /\ ~Reaches(g, t, y)
           /\ post > 0 /\ Reaches(g, t, y + post)
  <2>1. AfterLine(g, t, y, post) =
          SpringTrap(MoveTo(g, Location(g.traps[t], g.length)), g.traps[t].nm)
    BY <1>7 DEF AfterLine
  <2>2. t # 0 /\ Location(g.traps[t], g.length) \in Nat
        /\ Location(g.traps[t], g.length) < g.length
    BY <1>7 DEF Reaches, TrapOnPage
  <2> QED
    BY <1>2, <1>4, <2>1, <2>2 DEF Running
<1>8. CASE /\ ~AtBottom(g, y) /\ ~Reaches(g, t, y)
           /\ ~(post > 0 /\ Reaches(g, t, y + post))
           /\ post > 0 /\ AtBottom(g, y + post)
  <2>1. AfterLine(g, t, y, post) = Begun(y + post)
    BY <1>8 DEF AfterLine
  <2> QED
    BY <1>1, <1>3, <2>1
<1>9. CASE /\ ~AtBottom(g, y) /\ ~Reaches(g, t, y)
           /\ ~(post > 0 /\ Reaches(g, t, y + post))
           /\ ~(post > 0 /\ AtBottom(g, y + post))
  <2> DEFINE v == IF post > 0 THEN y + post ELSE y
  <2>1. AfterLine(g, t, y, post) = MoveTo(g, v)
    BY <1>9 DEF AfterLine
  <2>2. v \in Nat /\ (g.honor => v < g.length)
    BY <1>3, <1>9 DEF AtBottom
  <2> HIDE DEF v
  <2> QED
    BY <2>1, <2>2, MoveToKeeps DEF Running
<1> QED
  BY <1>5, <1>6, <1>7, <1>8, <1>9

\* output: whatever beginning the first page springs, the trap that was ahead
\* before is on the page of the same length.
LEMMA OutputLineKeeps ==
    ASSUME NEW g \in PageState, NEW size \in [pre : Nat, extra : Nat, post : Nat]
    PROVE  Keeps(g, OutputLine(g, <<>>, size))
<1> DEFINE t == TrapAhead(g)
           h == [g EXCEPT !.noSpace = FALSE]
           begun == IF h.before > 0 THEN BeginPage(h) ELSE h
           line == [begun EXCEPT !.written = @ \o <<>>]
           y == begun.vpos + size.pre + size.extra
           fatal == h.before > 0 /\ TopTrap(h) # NoMacro
<1>1. h \in PageState /\ Keeps(g, h) /\ h.status = g.status
  BY ZenonT(30) DEF PageState, Keeps, OnPage, Running, NlFollows
<1> HIDE DEF h
<1>2. Keeps(g, begun) /\ (Running(begun) => Running(g))
  BY <1>1, BeginPageKeeps, KeepsTransitive DEF Running
<1>3. OutputLine(g, <<>>, size) =
        IF ~Running(begun) THEN begun
        ELSE IF fatal THEN [begun EXCEPT !.status = "fatal"]
        ELSE AfterLine(line, t, y, size.post)
  BY DEF OutputLine, PlaceLine, h
<1>4. begun \in PageState
  BY <1>2 DEF Keeps
<1> HIDE DEF begun
<1>5. CASE ~Running(begun)
  BY <1>2, <1>3, <1>5
<1>6. CASE Running(begun) /\ fatal
  <2>1. [begun EXCEPT !.status = "fatal"] \in PageState
    BY <1>4 DEF PageState
  <2> QED
    BY <1>2, <1>3, <1>4, <1>6, <2>1, ZenonT(30)
       DEF Keeps, OnPage, Running, NlFollows, PageState
<1>7. CASE Running(begun) /\ ~fatal
  <2>1. /\ line \in PageState /\ line.status = begun.status
        /\ Keeps(begun, line)
    <3>1. begun.written = <<>> /\ begun.written \o <<>> = <<>>
      BY <1>4 DEF PageState
    <3>2. line \in PageState
      BY <1>4, <3>1 DEF PageState
    <3> QED
      BY <1>4, <3>2 DEF PageState, Keeps, OnPage, Running, NlFollows
  <2>2. y \in Nat /\ size.post \in Nat
    <3>1. begun.vpos \in Nat
      BY <1>4 DEF PageState
    <3>2. size.pre \in Nat /\ size.extra \in Nat /\ size.post \in Nat
      OBVIOUS
    <3> QED
      BY <3>1, <3>2
  <2>3. TrapOnPage(g, t)
    BY TrapAheadOnPage, SMTT(30) DEF TrapOnPage, PageState
  <2>4. line.traps = g.traps /\ line.length = g.length
    BY <1>2, <2>1 DEF Keeps
  <2>5. TrapOnPage(line, t)
    BY <2>3, <2>4 DEF TrapOnPage
  <2> HIDE DEF line, y, t, fatal
  <2>6. /\ Keeps(line, AfterLine(line, t, y, size.post))
        /\ Running(AfterLine(line, t, y, size.post)) => Running(line)
    BY <2>1, <2>2, <2>5, AfterLineKeeps
  <2>7. Keeps(g, line)
    BY <1>2, <2>1, KeepsTransitive DEF Running
  <2> QED
    BY <1>3, <1>7, <2>6, <2>7, KeepsTransitive
<1> QED
  BY <1>5, <1>6, <1>7

LEMMA DistanceAheadType ==
    ASSUME NEW g \in PageState
    PROVE  DistanceAhead(g) \in Int
<1>1. TrapAhead(g) # 0 =>
        Location(g.traps[TrapAhead(g)], g.length) \in Int
  BY TrapAheadOnPage
<1>2. g.length \in Int /\ g.vpos \in Int
  BY DEF PageState
<1> QED
  BY <1>1, <1>2 DEF DistanceAhead, DistanceToNextTrap, TrapAhead

LEMMA NeedKeeps ==
    ASSUME NEW g \in PageState, NEW n \in Int
    PROVE  Keeps(g, Need(g, n))
<1>1. Keeps(g, Space(g, DistanceAhead(g), TRUE))
  BY DistanceAheadType, SpaceKeeps
<1>2. Keeps(g, g)
  BY DEF Keeps
<1> QED
  BY <1>1, <1>2 DEF Need

LEMMA ContinuePageEjectKeeps ==
    ASSUME NEW g \in PageState
    PROVE  Keeps(g, ContinuePageEject(g))
<1> DEFINE h == PushPageEjector(g)
<1>1. h \in PageState /\ Keeps(g, h) /\ h.status = g.status
  BY PushPageEjectorKeeps DEF Keeps
<1>2. g.length \in Int
  BY DEF PageState
<1> HIDE DEF h
<1>3. Keeps(h, Space(h, g.length, TRUE))
      /\ (Running(Space(h, g.length, TRUE)) => Running(h))
  BY <1>1, <1>2, SpaceKeeps
<1>4. Keeps(g, Space(h, g.length, TRUE))
  BY <1>1, <1>3, KeepsTransitive
<1>5. Keeps(g, g)
  BY DEF Keeps
<1> QED
  BY <1>4, <1>5 DEF ContinuePageEject, h

LEMMA NumberAndEjectingKeep ==
    ASSUME NEW g \in PageState, NEW n \in Int \cup {NoNumber}
    PROVE  /\ Keeps(g, SetNextPageNumber(g, n))
           /\ SetNextPageNumber(g, n).status = g.status
           /\ Keeps(g, SetEjecting(g))
<1>1. [g EXCEPT !.next = n] \in PageState
  BY DEF PageState
<1>2. [g EXCEPT !.ejecting = TRUE] \in PageState
  BY DEF PageState
<1> QED
  BY <1>1, <1>2 DEF SetNextPageNumber, SetEjecting, PageState, Keeps, OnPage,
                    Running, NlFollows

-----------------------------------------------------------------------------
\* The inductive invariant, and what every step of the page does.
\* Traps are where the document plants them, and none is ever postponed; what
\* the page of a document that does not reconfigure it remains.
Settled(h) ==
    /\ h.traps \in Seq(SlotsAt(doc.positions)) /\ ~h.postponing
    /\ ~doc.reconfigures => h.honor /\ h.length \in doc.lengths

PageInv == TypeOK /\ NlFollowsPosition /\ Settled(f)

Stays(g, h) ==
    g.honor /\ h.honor /\ OnPage(g) /\ h.length = g.length /\ Running(h)
       => OnPage(h)

Good(h) == h \in PageState /\ Stays(f, h) /\ NlFollows(h) /\ Settled(h)

LEMMA KeepsGood ==
    ASSUME PageInv, NEW h, Keeps(f, h)
    PROVE  Good(h)
  BY DEF PageInv, NlFollowsPosition, NlFollows, Good, Stays, Keeps, Settled

\* What the document that is formatted uses has its type.
LEMMA DocumentFacts ==
    ASSUME doc \in Documents
    PROVE  /\ doc.lengths \in SUBSET (Nat \ {0})
           /\ doc.positions \in SUBSET Int
           /\ doc.sizes \in SUBSET [pre : Nat, extra : Nat, post : Nat]
           /\ doc.distances \in SUBSET Int
           /\ doc.numbers \in SUBSET Int
           /\ doc.reconfigures \in BOOLEAN
<1>1. doc \in DocumentType
  BY TopDiversionAssumption
<1> QED
  BY <1>1 DEF DocumentType

\* What the settings of the page change is neither its length nor the
\* position.
LEMMA SettingGood ==
    ASSUME PageInv, NEW h \in PageState, h.vpos = f.vpos, h.nl \in {f.nl, -1},
           h.status = f.status, Settled(h)
    PROVE  Good(h)
  BY DEF PageInv, NlFollowsPosition, NlFollows, Good, Stays, OnPage, Running

LEMMA TrapsGood ==
    ASSUME PageInv, NEW s \in Seq(SlotsAt(doc.positions))
    PROVE  Good([f EXCEPT !.traps = s])
<1>1. f \in PageState /\ doc \in Documents /\ Settled(f)
  BY DEF PageInv, TypeOK
<1>2. s \in Seq(Slots)
  <2>1. SlotsAt(doc.positions) \subseteq Slots
    BY <1>1, DocumentFacts DEF SlotsAt, Slots
  <2> QED
    BY <2>1
<1>3. [f EXCEPT !.traps = s] \in PageState
  BY <1>1, <1>2 DEF PageState
<1> QED
  BY <1>1, <1>3, SettingGood DEF PageState, Settled

LEMMA DoGood ==
    ASSUME PageInv, NEW h, Good(h), Do(h)
    PROVE  PageInv' /\ Stays(f, f')
<1>1. [h EXCEPT !.sprung = FALSE] \in PageState
  BY DEF Good, PageState
<1>2. f' = [h EXCEPT !.sprung = FALSE] /\ doc' = doc /\ h \in PageState
  BY DEF Do, Good
<1>3. Settled(f)'
  BY <1>2 DEF Good, Settled, PageState
<1> QED
  BY <1>1, <1>2, <1>3 DEF Good, PageInv, TypeOK, NlFollowsPosition, NlFollows,
                          Stays, OnPage, Running, PageState

LEMMA StepGood ==
    ASSUME PageInv, [Next]_vars
    PROVE  PageInv' /\ Stays(f, f')
<1>t. f \in PageState /\ f.traps \in Seq(Slots) /\ doc \in Documents
      /\ Settled(f)
  BY DEF PageInv, TypeOK, PageState
<1>p. PageInv
  OBVIOUS
<1>1. CASE StartFirstPage
  BY <1>1, <1>t, BeginPageKeeps, KeepsGood, DoGood DEF StartFirstPage
<1>2. ASSUME NEW size \in doc.sizes, Output(size)
      PROVE  PageInv' /\ Stays(f, f')
  BY <1>2, <1>t, DocumentFacts, OutputLineKeeps, KeepsGood, DoGood
     DEF Output
<1>3. ASSUME NEW n \in doc.distances, NEW b \in BOOLEAN, SpaceBy(n, b)
      PROVE  PageInv' /\ Stays(f, f')
  BY <1>3, <1>t, DocumentFacts, SpaceKeeps, KeepsGood, DoGood
     DEF SpaceBy
<1>4. ASSUME NEW n \in doc.distances, NeedSpace(n)
      PROVE  PageInv' /\ Stays(f, f')
  BY <1>4, <1>t, DocumentFacts, NeedKeeps, KeepsGood, DoGood
     DEF NeedSpace
<1>5. ASSUME NEW n \in doc.distances, SaveSpace(n)
      PROVE  PageInv' /\ Stays(f, f')
  <2>1. n \in Int
    BY <1>t, DocumentFacts
  <2>2. Good(Space(f, n, TRUE))
    BY <1>t, <2>1, SpaceKeeps, KeepsGood
  <2>3. [f EXCEPT !.saved = n] \in PageState
    BY <1>t, <2>1 DEF PageState
  <2>4. Good([f EXCEPT !.saved = n])
    BY <1>t, <2>3, SettingGood DEF PageState, Settled
  <2>5. Good(IF DistanceAhead(f) > n THEN Space(f, n, TRUE)
             ELSE [f EXCEPT !.saved = n])
    BY <2>2, <2>4
  <2> QED
    BY <1>5, <2>5, DoGood DEF SaveSpace
<1>6. CASE OutputSavedSpace
  <2> DEFINE g == IF f.saved > 0 THEN Space(f, f.saved, TRUE) ELSE f
  <2>1. f.saved \in Int
    BY <1>t DEF PageState
  <2>2. Good(g)
    BY <1>t, <2>1, SpaceKeeps, KeepsGood DEF Keeps
  <2> HIDE DEF g
  <2>3. 0 \in Int
    OBVIOUS
  <2>4. [g EXCEPT !.saved = 0] \in PageState
    BY <2>2, <2>3 DEF Good, PageState
  <2>5. Good([g EXCEPT !.saved = 0])
    BY <2>2, <2>4
       DEF Good, Stays, NlFollows, OnPage, Running, PageState, Settled
  <2> QED
    BY <1>6, <2>5, DoGood DEF OutputSavedSpace, g
<1>7. CASE Mark
  <2>1. [f EXCEPT !.marked = f.vpos] \in PageState
    BY <1>t DEF PageState
  <2> QED
    BY <1>7, <1>t, <2>1, SettingGood, DoGood DEF Mark, PageState, Settled
<1>8. CASE ReturnToMark
  <2>1. f.marked - f.vpos \in Int
    BY <1>t DEF PageState
  <2> QED
    BY <1>8, <1>t, <2>1, SpaceKeeps, KeepsGood, DoGood DEF ReturnToMark
<1>9. ASSUME NEW n \in doc.numbers \cup {NoNumber}, Eject(n)
      PROVE  PageInv' /\ Stays(f, f')
  <2> DEFINE e == PushPageEjector(f)
             g == SetNextPageNumber(e, n)
  <2>1. Keeps(f, e) /\ e \in PageState /\ e.status = f.status
    BY <1>t, PushPageEjectorKeeps DEF Keeps
  <2> HIDE DEF e
  <2>2. Keeps(e, g) /\ g.status = e.status /\ g \in PageState
    BY <1>t, <2>1, DocumentFacts, NumberAndEjectingKeep, ZenonT(30) DEF Keeps
  <2> HIDE DEF g
  <2>3. Keeps(f, g)
    BY <1>t, <2>1, <2>2, KeepsTransitive DEF Running
  <2>4. NoNumber \in Int \cup {NoNumber} /\ Keeps(g, SetEjecting(g))
        /\ (Running(SetEjecting(g)) => Running(g))
    BY <2>2, NumberAndEjectingKeep DEF SetEjecting, Running
  <2>5. Keeps(f, SetEjecting(g))
    BY <1>t, <2>3, <2>4, KeepsTransitive
  <2>6. Good(IF f.noSpace /\ n = NoNumber THEN g ELSE SetEjecting(g))
    BY <2>3, <2>5, KeepsGood
  <2> QED
    BY <1>9, <2>6, DoGood DEF Eject, g, e
<1>10. ASSUME NEW n \in doc.numbers, AssignNumber(n)
       PROVE  PageInv' /\ Stays(f, f')
  BY <1>10, <1>t, DocumentFacts, NumberAndEjectingKeep, KeepsGood,
     DoGood DEF AssignNumber
<1>11. CASE ReadToken
  <2> DEFINE rest == [f EXCEPT !.input = Tail(@)]
  <2>1. Tail(f.input) \in Seq(Items)
    BY <1>11, <1>t DEF ReadToken, PageState
  <2>2. rest \in PageState
    BY <1>t, <2>1 DEF PageState
  <2>3. Keeps(f, rest) /\ rest.status = f.status
    BY <1>t, <2>2 DEF PageState, Keeps, OnPage, NlFollows, Running
  <2>4. Running(f) /\ f' = [(IF Head(f.input) = PageEjector
                             THEN ContinuePageEject(rest) ELSE rest)
                               EXCEPT !.sprung = FALSE]
        /\ UNCHANGED doc
    BY <1>11 DEF ReadToken, Do
  <2> HIDE DEF rest
  <2>5. Keeps(f, ContinuePageEject(rest))
    BY <1>t, <2>2, <2>3, <2>4, ContinuePageEjectKeeps, KeepsTransitive
       DEF Running
  <2>6. Good(IF Head(f.input) = PageEjector
             THEN ContinuePageEject(rest) ELSE rest)
    BY <2>3, <2>5, KeepsGood
  <2> QED
    BY <2>4, <2>6, DoGood DEF Do
<1>12. ASSUME NEW b \in BOOLEAN, SetNoSpace(b)
       PROVE  PageInv' /\ Stays(f, f')
  <2>1. [f EXCEPT !.noSpace = b] \in PageState
    BY <1>t DEF PageState
  <2> QED
    BY <1>12, <1>t, <2>1, SettingGood, DoGood DEF SetNoSpace, PageState,
       Settled
<1>13. ASSUME NEW b \in BOOLEAN, HonorTraps(b)
       PROVE  PageInv' /\ Stays(f, f')
  <2>1. [f EXCEPT !.honor = b] \in PageState
    BY <1>t DEF PageState
  <2> QED
    BY <1>13, <1>t, <2>1, SettingGood, DoGood DEF HonorTraps, PageState,
       Settled
<1>14. ASSUME NEW nm \in Macros, NEW pos \in doc.positions,
              PlantTrap(nm, pos) \/ MoveTrap(nm, pos)
       PROVE  PageInv' /\ Stays(f, f')
  <2>1. AddTrap(f.traps, nm, pos) \in Seq(SlotsAt(doc.positions))
        /\ ChangeTrap(f.traps, nm, pos) \in Seq(SlotsAt(doc.positions))
    BY <1>t, TrapListType DEF Settled
  <2>2. ASSUME NEW s \in Seq(SlotsAt(doc.positions)),
               Do([f EXCEPT !.traps = s])
        PROVE  PageInv' /\ Stays(f, f')
    BY <1>t, <1>p, <2>2, TrapsGood, DoGood
  <2> QED
    BY <1>14, <2>1, <2>2 DEF PlantTrap, MoveTrap
<1>15. ASSUME NEW pos \in doc.positions, UnplantAt(pos)
       PROVE  PageInv' /\ Stays(f, f')
  <2>1. RemoveTrapAt(f.traps, pos) \in Seq(SlotsAt(doc.positions))
    BY <1>t, TrapListType DEF Settled
  <2> QED
    BY <1>15, <1>t, <1>p, <2>1, TrapsGood, DoGood DEF UnplantAt
<1>16. ASSUME NEW length \in doc.lengths, SetPageLength(length)
       PROVE  PageInv' /\ Stays(f, f')
  <2>1. length \in Nat \ {0}
    BY <1>t, DocumentFacts
  <2>2. [f EXCEPT !.length = length] \in PageState
    BY <1>t, <2>1 DEF PageState
  <2> QED
    BY <1>16, <1>t, <2>2, SettingGood, DoGood DEF SetPageLength, PageState,
       Settled
<1>17. CASE UndoTopOfPage
  <2> DEFINE b == IF f.vpos = 0 THEN 2 ELSE f.before
  <2>1. b \in 0..2 /\ -1 \in Int
    BY <1>t DEF PageState
  <2> HIDE DEF b
  <2>2. [f EXCEPT !.nl = -1, !.before = b] \in PageState
    BY <1>t, <2>1 DEF PageState
  <2>3. Do([f EXCEPT !.nl = -1, !.before = b])
    BY <1>17 DEF UndoTopOfPage, b
  <2> QED
    BY <1>t, <2>2, <2>3, SettingGood, DoGood DEF PageState, Settled
<1>18. CASE UNCHANGED vars
  BY <1>18, <1>t DEF vars, PageInv, TypeOK, NlFollowsPosition, Stays, Running,
                     Settled
<1> QED
  BY <1>1, <1>2, <1>3, <1>4, <1>5, <1>6, <1>7, <1>8, <1>9, <1>10, <1>11,
     <1>12, <1>13, <1>14, <1>15, <1>16, <1>17, <1>18 DEF Next

LEMMA InitGood == Init => PageInv
<1> SUFFICES ASSUME doc \in Documents,
                    NEW length \in doc.lengths, f = NewPage(length)
             PROVE  PageInv
  BY DEF Init
<1>1. /\ length \in Nat \ {0} /\ 0 \in Nat /\ 0 \in Int /\ -1 \in Int
      /\ 1 \in 0..2 /\ <<>> \in Seq(Slots) /\ <<>> \in Seq(Items)
  BY DocumentFacts
<1>2. f \in PageState
  BY <1>1 DEF NewPage, PageState
<1>3. Settled(f)
  <2>1. <<>> \in Seq(SlotsAt(doc.positions))
    OBVIOUS
  <2> QED
    BY <2>1 DEF NewPage, Settled
<1> QED
  BY <1>2, <1>3 DEF PageInv, TypeOK, NlFollowsPosition, NewPage

-----------------------------------------------------------------------------
\* Which traps the position passes, and which are called.
At(g, i) == Location(g.traps[i], g.length)
AheadOf(g) == Ahead(g.traps, g.vpos, g.length)

Meets(g, h) ==
    \A i \in Passed(g, h) \cap VisibleTraps(g) : g.traps[i].nm \in Called(g, h)

\* The trap ahead is the nearest, and the first in the list of those at its
\* location.
Nearest(g, t, i) ==
    /\ t # 0 /\ At(g, t) <= At(g, i)
    /\ At(g, i) = At(g, t) => t <= i

LEMMA NearestAhead ==
    ASSUME NEW g \in PageState
    PROVE  /\ TrapAhead(g) # 0 => TrapAhead(g) \in AheadOf(g)
           /\ \A i \in AheadOf(g) :
                 /\ i \in Nat /\ i # 0
                 /\ At(g, i) \in Nat /\ g.vpos < At(g, i)
                 /\ At(g, i) < g.length
                 /\ Nearest(g, TrapAhead(g), i)
<1> DEFINE n == Len(g.traps)
           A == AheadOf(g)
           I == {i \in A : \A j \in A : At(g, i) <= At(g, j)}
           t == TrapAhead(g)
<1>1. g.traps \in Seq(Slots) /\ g.vpos \in Nat /\ g.length \in Nat
  BY DEF PageState
<1>2. n \in Nat /\ DOMAIN g.traps = 1..n
  BY <1>1
<1>3. A \in SUBSET (1..n)
  BY <1>2 DEF AheadOf, Ahead, Live
<1>4. ASSUME NEW i \in A
      PROVE  At(g, i) \in Nat /\ g.vpos < At(g, i) /\ At(g, i) < g.length
  <2>1. g.traps[i] \in Slots
    BY <1>1, <1>2, <1>3
  <2>2. g.traps[i].position \in Int
    BY <2>1 DEF Slots
  <2>3. /\ Location(g.traps[i], g.length) > g.vpos
        /\ IF g.traps[i].position >= 0
           THEN g.traps[i].position < g.length
           ELSE Location(g.traps[i], g.length) > 0
    BY DEF AheadOf, Ahead
  <2> QED
    BY <1>1, <2>2, <2>3 DEF At, Location
<1>5. t = FirstOf(I)
  BY DEF TrapAhead, NextTrap, AheadOf, At
<1>6. I \in SUBSET (1..n)
  BY <1>3
<1>7. A # {} => I # {}
  <2> DEFINE T == {At(g, i) : i \in A}
  <2>1. T \in SUBSET Nat
    BY <1>4
  <2>2. SUFFICES ASSUME A # {} PROVE I # {}
    OBVIOUS
  <2>3. T # {}
    BY <2>2
  <2> HIDE DEF T
  <2>4. PICK x \in T : \A y \in T : x <= y
    BY <2>1, <2>3, LeastElement
  <2>5. PICK i \in A : x = At(g, i)
    BY DEF T
  <2>6. \A j \in A : At(g, i) <= At(g, j)
    BY <2>4, <2>5 DEF T
  <2> QED
    BY <2>6
<1> HIDE DEF I, n, A
<1>8. \/ I = {} /\ t = 0
      \/ t \in I /\ t \in 1..n /\ \A j \in I : t <= j
  BY <1>2, <1>5, <1>6, FirstOfLeast
<1>9. t # 0 => t \in A
  BY <1>8 DEF I
<1>10. ASSUME NEW i \in A PROVE Nearest(g, t, i)
  <2>1. t \in I /\ t \in 1..n /\ t \in A /\ \A j \in I : t <= j
    BY <1>7, <1>8 DEF I
  <2>2. At(g, t) <= At(g, i)
    BY <2>1 DEF I
  <2>3. At(g, i) = At(g, t) => i \in I
    BY <2>1 DEF I
  <2>4. t # 0
    BY <1>2, <2>1
  <2> QED
    BY <2>1, <2>2, <2>3, <2>4 DEF Nearest
<1>11. ASSUME NEW i \in A PROVE i \in Nat /\ i # 0
  BY <1>2, <1>3
<1> QED
  BY <1>4, <1>9, <1>10, <1>11 DEF A, t

\* Nothing is met when nothing is ahead, or the next trap is not reached.
LEMMA NoneAhead ==
    ASSUME NEW g, NEW h, AheadOf(g) = {}
    PROVE  Meets(g, h)
BY DEF Meets, Passed, AheadOf

LEMMA NonePassed ==
    ASSUME NEW g \in PageState, NEW h, h.count = g.count, h.vpos \in Int,
           TrapAhead(g) # 0 => h.vpos < At(g, TrapAhead(g))
    PROVE  Meets(g, h)
<1>1. ASSUME NEW i \in AheadOf(g) PROVE ~(At(g, i) <= h.vpos)
  <2> DEFINE t == TrapAhead(g)
  <2>1. /\ At(g, i) \in Nat /\ t # 0 /\ At(g, t) <= At(g, i)
        /\ t \in AheadOf(g)
    BY NearestAhead DEF Nearest
  <2>2. At(g, t) \in Nat /\ h.vpos < At(g, t)
    BY <2>1, NearestAhead
  <2> HIDE DEF t
  <2> QED
    BY <2>1, <2>2
<1>2. Passed(g, h) = {}
  BY <1>1 DEF Passed, AheadOf, At
<1> QED
  BY <1>2 DEF Meets

\* Only the next trap is met when it is called and no farther one is reached.
LEMMA NearestPassed ==
    ASSUME NEW g \in PageState, NEW h, h.count = g.count, TrapAhead(g) # 0,
           \A i \in AheadOf(g) :
              At(g, i) <= h.vpos => At(g, i) = At(g, TrapAhead(g)),
           g.traps[TrapAhead(g)].nm \in Called(g, h)
    PROVE  Meets(g, h)
<1> DEFINE t == TrapAhead(g)
<1>1. ASSUME NEW i \in Passed(g, h), i \in VisibleTraps(g) PROVE i = t
  <2>1. i \in AheadOf(g) /\ At(g, i) <= h.vpos
    BY DEF Passed, AheadOf, At
  <2>2. At(g, i) = At(g, t) /\ t <= i /\ i \in Nat
    BY <2>1, NearestAhead DEF Nearest
  <2>3. t \in AheadOf(g) /\ t \in Nat
    BY NearestAhead
  <2>4. t \in Live(g.traps)
    BY <2>3 DEF AheadOf, Ahead
  <2>5. i <= t
    BY <1>1, <2>2, <2>4 DEF VisibleTraps, At
  <2> HIDE DEF t
  <2> QED
    BY <2>2, <2>3, <2>5
<1> QED
  BY <1>1 DEF Meets

LEMMA InFront ==
    ASSUME NEW E, NEW s \in Seq(E), NEW t \in Seq(E)
    PROVE  /\ Len(s \o t) = Len(s) + Len(t)
           /\ \A i \in 1..Len(s) : (s \o t)[i] = s[i]
OBVIOUS

\* spring_trap calls the macro, when at most one item was read before.
LEMMA SpringCalls ==
    ASSUME NEW g \in PageState, NEW h \in PageState, ~h.postponing,
           Len(h.input) >= Len(g.input) - 1, NEW nm \in Macros \cup {NoMacro}
    PROVE  /\ nm \in Called(g, SpringTrap(h, nm))
           /\ SpringTrap(h, nm).count = h.count
           /\ SpringTrap(h, nm).vpos = h.vpos
<1> DEFINE s == <<BeginTrap, Call(nm), EndTrap>>
           k == SpringTrap(h, nm)
<1>1. g.input \in Seq(Items) /\ h.input \in Seq(Items)
  BY DEF PageState
<1>2. BeginTrap \in Items /\ EndTrap \in Items /\ Call(nm) \in Items
  BY DEF BeginTrap, EndTrap, Call, Item, Items
<1>3. k.input = s \o h.input /\ k.count = h.count /\ k.vpos = h.vpos
  BY DEF SpringTrap, PushInput, PageState
<1>4. s \in Seq(Items) /\ Len(s) >= 3 /\ 2 \in 1..Len(s) /\ s[2] = Call(nm)
  BY <1>2
<1> HIDE DEF s, k
<1>5. Len(k.input) >= 3 + Len(h.input) /\ k.input[2] = Call(nm)
  <2>1. /\ Len(s \o h.input) = Len(s) + Len(h.input)
        /\ (s \o h.input)[2] = s[2]
    BY <1>1, <1>4, InFront
  <2>2. Len(s) \in Nat /\ Len(h.input) \in Nat
    BY <1>1, <1>4
  <2> QED
    BY <1>3, <1>4, <2>1, <2>2
<1>6. 2 \in 1..(Len(k.input) - Len(g.input))
  <2>1. Len(g.input) \in Nat /\ Len(h.input) \in Nat
    BY <1>1
  <2> QED
    BY <1>5, <2>1
<1>7. Call(nm).kind = "call" /\ Call(nm).nm = nm
  BY DEF Call, Item
<1>8. nm \in Called(g, k)
  <2> DEFINE R == 1..(Len(k.input) - Len(g.input))
             called(j) == k.input[j].kind = "call"
  <2>1. 2 \in {j \in R : called(j)} /\ k.input[2].nm = nm
    BY <1>5, <1>6, <1>7
  <2>2. Called(g, k) = {k.input[i].nm : i \in {j \in R : called(j)}}
    BY DEF Called
  <2> HIDE DEF R, called
  <2> QED
    BY <2>1, <2>2
<1> QED
  BY <1>3, <1>8 DEF k

\* A page at the same place, of which at most one item was read.
SameTop(g, b) ==
    /\ b \in PageState /\ b.honor /\ ~b.postponing /\ b.before = 0
    /\ b.traps = g.traps /\ b.vpos = g.vpos /\ b.length = g.length
    /\ b.count = g.count
    /\ Len(b.input) >= Len(g.input) - 1

LEMMA MoveToFields ==
    ASSUME NEW b \in PageState, NEW y \in Nat
    PROVE  /\ MoveTo(b, y).vpos = y /\ MoveTo(b, y).count = b.count
           /\ MoveTo(b, y).input = b.input
BY DEF MoveTo, PageState

\* The next trap springs where the position reaches it, or farther, but
\* before any other location.
LEMMA SpringMeets ==
    ASSUME NEW g \in PageState, NEW b, SameTop(g, b), TrapAhead(g) # 0,
           NEW y \in Nat,
           \A i \in AheadOf(g) :
              At(g, i) <= y => At(g, i) = At(g, TrapAhead(g))
    PROVE  Meets(g, SpringTrap(MoveTo(b, y), g.traps[TrapAhead(g)].nm))
<1> DEFINE t == TrapAhead(g)
           h == MoveTo(b, y)
<1>1. b \in PageState /\ ~b.postponing /\ b.count = g.count
      /\ Len(b.input) >= Len(g.input) - 1
  BY DEF SameTop
<1>2. h \in PageState /\ ~h.postponing
  <2>1. h \in PageState /\ h.postponing = b.postponing
    BY <1>1, MoveToType
  <2> HIDE DEF h
  <2> QED
    BY <1>1, <2>1, Zenon
<1>3. h.vpos = y /\ h.count = g.count /\ Len(h.input) >= Len(g.input) - 1
  <2>1. h.vpos = y /\ h.count = b.count /\ h.input = b.input
    BY <1>1, MoveToFields
  <2> HIDE DEF h
  <2> QED
    BY <1>1, <2>1, Zenon
<1>4. g.traps[t].nm \in Macros \cup {NoMacro}
  BY TrapAheadOnPage DEF Slots
<1> HIDE DEF h
<1>5. /\ g.traps[t].nm \in Called(g, SpringTrap(h, g.traps[t].nm))
      /\ SpringTrap(h, g.traps[t].nm).count = g.count
      /\ SpringTrap(h, g.traps[t].nm).vpos = y
  BY <1>2, <1>3, <1>4, SpringCalls
<1> QED
  BY <1>5, NearestPassed DEF h

\* Where the next trap is.
LEMMA SpringAheadMeets ==
    ASSUME NEW g \in PageState, NEW b, SameTop(g, b), TrapAhead(g) # 0
    PROVE  Meets(g, SpringTrap(MoveTo(b, At(g, TrapAhead(g))),
                               g.traps[TrapAhead(g)].nm))
<1> DEFINE t == TrapAhead(g)
<1>1. At(g, t) \in Nat
  BY NearestAhead
<1>2. ASSUME NEW i \in AheadOf(g), At(g, i) <= At(g, t)
      PROVE  At(g, i) = At(g, t)
  BY <1>1, <1>2, NearestAhead DEF Nearest
<1> QED
  BY <1>1, <1>2, SpringMeets

LEMMA MoveMeets ==
    ASSUME NEW g \in PageState, NEW b, SameTop(g, b), NEW y \in Nat,
           TrapAhead(g) # 0 => y < At(g, TrapAhead(g))
    PROVE  Meets(g, MoveTo(b, y))
<1>1. b \in PageState /\ b.count = g.count
  BY DEF SameTop
<1>2. MoveTo(b, y).vpos = y /\ MoveTo(b, y).count = g.count
  BY <1>1, MoveToFields
<1> QED
  BY <1>2, NonePassed

LEMMA SpaceMeets ==
    ASSUME NEW g \in PageState, NEW b, SameTop(g, b), NEW n \in Int,
           NEW forcing \in BOOLEAN
    PROVE  Meets(g, Space(b, n, forcing))
<1> DEFINE h == [b EXCEPT !.noSpace = FALSE]
           y == h.vpos + n
           t == TrapAhead(g)
<1>1. b \in PageState
  BY DEF SameTop
<1>2. SameTop(g, h)
  <2>1. h \in PageState
    BY <1>1 DEF PageState
  <2>2. /\ h.honor = b.honor /\ h.postponing = b.postponing
        /\ h.before = b.before /\ h.traps = b.traps /\ h.vpos = b.vpos
        /\ h.length = b.length /\ h.count = b.count /\ h.input = b.input
    BY <1>1 DEF PageState
  <2> HIDE DEF h
  <2> QED
    BY <2>1, <2>2 DEF SameTop
<1>3. /\ h.vpos = g.vpos /\ h.before = 0 /\ h.honor /\ h.length = g.length
      /\ h.traps = g.traps /\ g.vpos \in Nat /\ g.length \in Nat
  BY <1>2 DEF SameTop, PageState
<1> HIDE DEF h
<1>4. y \in Int
  BY <1>3
<1>5. TrapAhead(h) = t
  BY <1>3 DEF TrapAhead
<1>6. /\ t # 0 => At(g, t) \in Nat /\ g.vpos < At(g, t) /\ At(g, t) < g.length
                  /\ At(g, t) = Location(h.traps[t], h.length)
      /\ t = 0 => AheadOf(g) = {}
  <2>1. t # 0 => t \in AheadOf(g)
    BY NearestAhead
  <2>2. t # 0 => At(g, t) \in Nat /\ g.vpos < At(g, t) /\ At(g, t) < g.length
    BY <2>1, NearestAhead
  <2>3. At(g, t) = Location(h.traps[t], h.length)
    BY <1>3 DEF At
  <2>4. t = 0 => AheadOf(g) = {}
    BY NearestAhead DEF Nearest
  <2> QED
    BY <2>2, <2>3, <2>4
<1>7. Space(b, n, forcing) =
        IF ~Running(b) \/ (b.noSpace /\ ~forcing) THEN b
        ELSE IF h.before > 0 THEN BeginPage(h)
        ELSE IF Reaches(h, TrapAhead(h), y)
             THEN SpringTrap(MoveTo(h, Location(h.traps[TrapAhead(h)],
                                                h.length)),
                             h.traps[TrapAhead(h)].nm)
        ELSE IF y < 0 THEN MoveTo(h, 0)
        ELSE IF AtBottom(h, y) /\ n >= 0 THEN BeginPage(h)
        ELSE MoveTo(h, y)
  BY DEF Space, h
<1>8. Reaches(h, TrapAhead(h), y) <=> t # 0 /\ y >= At(g, t)
  BY <1>3, <1>5, <1>6 DEF Reaches
<1> DEFINE S == Space(b, n, forcing)
<1>9. \/ S = b
      \/ t # 0 /\ S = SpringTrap(MoveTo(h, At(g, t)), g.traps[t].nm)
      \/ (t # 0 => y < At(g, t)) /\ y < 0 /\ S = MoveTo(h, 0)
      \/ (t # 0 => y < At(g, t)) /\ y >= g.length /\ S = BeginPage(h)
      \/ (t # 0 => y < At(g, t)) /\ y >= 0 /\ S = MoveTo(h, y)
  <2>1. ~(h.before > 0)
    BY <1>3
  <2>2. AtBottom(h, y) <=> y >= g.length
    BY <1>3 DEF AtBottom
  <2>3. (t # 0 => y < At(g, t)) <=> ~Reaches(h, TrapAhead(h), y)
    BY <1>4, <1>6, <1>8
  <2>4. t # 0 => SpringTrap(MoveTo(h, Location(h.traps[TrapAhead(h)],
                                               h.length)),
                            h.traps[TrapAhead(h)].nm)
                 = SpringTrap(MoveTo(h, At(g, t)), g.traps[t].nm)
    BY <1>3, <1>5, <1>6
  <2>5. y < 0 \/ y >= 0
    BY <1>4
  <2> HIDE DEF y, t
  <2> QED
    BY <1>7, <1>8, <2>1, <2>2, <2>3, <2>4, <2>5
<1> HIDE DEF S, y
<1>10. CASE S = b
  <2>1. b.count = g.count /\ b.vpos = g.vpos /\ b.vpos \in Int
    BY <1>1 DEF SameTop, PageState
  <2> QED
    BY <1>3, <1>6, <1>10, <2>1, NonePassed DEF S
<1>11. CASE t # 0 /\ S = SpringTrap(MoveTo(h, At(g, t)), g.traps[t].nm)
  BY <1>2, <1>11, SpringAheadMeets DEF S
<1>12. CASE y < 0 /\ S = MoveTo(h, 0)
  <2>1. t # 0 => 0 < At(g, t)
    BY <1>3, <1>6
  <2>2. 0 \in Nat
    OBVIOUS
  <2> QED
    BY <1>2, <1>12, <2>1, <2>2, MoveMeets DEF S
<1>13. CASE (t # 0 => y < At(g, t)) /\ y >= g.length /\ S = BeginPage(h)
  <2>1. t = 0
    BY <1>3, <1>4, <1>6, <1>13
  <2> QED
    BY <1>6, <1>13, <2>1, NoneAhead DEF S
<1>14. CASE (t # 0 => y < At(g, t)) /\ y >= 0 /\ S = MoveTo(h, y)
  <2>1. y \in Nat
    BY <1>4, <1>14
  <2> QED
    BY <1>2, <1>14, <2>1, MoveMeets DEF S
<1> QED
  BY <1>9, <1>10, <1>11, <1>12, <1>13, <1>14 DEF S

\* Lines of the given size, on the page g, are no taller than what separates
\* a trap from the next and from the bottom of the page.
GentleLine(g, size) ==
    \A i \in AheadOf(g) :
       /\ At(g, i) + size.pre + size.extra <= g.length
       /\ \A j \in AheadOf(g) :
             At(g, i) < At(g, j) => At(g, i) + size.pre + size.extra <= At(g, j)

LEMMA OutputLineMeets ==
    ASSUME NEW g \in PageState, g.honor, ~g.postponing, g.before = 0,
           NEW size \in [pre : Nat, extra : Nat, post : Nat],
           GentleLine(g, size)
    PROVE  Meets(g, OutputLine(g, <<>>, size))
<1> DEFINE t == TrapAhead(g)
           h == [g EXCEPT !.noSpace = FALSE]
           line == [h EXCEPT !.written = @ \o <<>>]
           y == g.vpos + size.pre + size.extra
           z == y + size.post
           S == OutputLine(g, <<>>, size)
<1>1. SameTop(g, line)
  <2>1. g.written = <<>> /\ g.written \o <<>> = <<>>
    BY DEF PageState
  <2>2. line \in PageState
    BY <2>1, ZenonT(30) DEF PageState
  <2>3. Len(g.input) \in Nat
    BY DEF PageState
  <2>4. Len(g.input) >= Len(g.input) - 1
    BY <2>3
  <2> QED
    BY <2>2, <2>4 DEF PageState, SameTop
<1>2. /\ line.vpos = g.vpos /\ line.honor /\ line.length = g.length
      /\ line.traps = g.traps /\ g.vpos \in Nat /\ g.length \in Nat
      /\ size.pre \in Nat /\ size.extra \in Nat /\ size.post \in Nat
  BY <1>1 DEF SameTop, PageState
<1>3. y \in Nat /\ z \in Nat /\ y <= z
  BY <1>2
<1>4. S = IF ~Running(h) THEN h ELSE AfterLine(line, t, y, size.post)
  <2>1. ~(h.before > 0) /\ h.vpos = g.vpos
    BY DEF PageState
  <2> HIDE DEF line
  <2>2. S = PlaceLine(h, FALSE, t, <<>>, size)
    BY <2>1 DEF OutputLine, h
  <2> QED
    BY <2>1, <2>2 DEF PlaceLine, line
<1>5. SameTop(g, h)
  <2>1. Len(g.input) \in Nat
    BY DEF PageState
  <2>2. Len(g.input) >= Len(g.input) - 1
    BY <2>1
  <2> QED
    BY <2>2, ZenonT(30) DEF SameTop, PageState
<1>6. /\ t # 0 => /\ At(g, t) \in Nat /\ g.vpos < At(g, t)
                  /\ At(g, t) < g.length /\ t \in AheadOf(g)
      /\ t = 0 => AheadOf(g) = {}
  <2>1. t # 0 => t \in AheadOf(g)
    BY NearestAhead
  <2> QED
    BY <2>1, NearestAhead DEF Nearest
<1> HIDE DEF h, line, S
<1>7. \A v \in Nat : /\ Reaches(line, t, v) <=> t # 0 /\ v >= At(g, t)
                     /\ AtBottom(line, v) <=> v >= g.length
  BY <1>2 DEF Reaches, AtBottom, At
<1>8. AfterLine(line, t, y, size.post) =
        IF y >= g.length THEN BeginPage([line EXCEPT !.vpos = y])
        ELSE IF t # 0 /\ y >= At(g, t)
             THEN SpringTrap(MoveTo(line, y), g.traps[t].nm)
        ELSE IF size.post > 0 /\ t # 0 /\ z >= At(g, t)
             THEN SpringTrap(MoveTo(line, At(g, t)), g.traps[t].nm)
        ELSE IF size.post > 0 /\ z >= g.length
             THEN BeginPage([line EXCEPT !.vpos = z])
        ELSE MoveTo(line, IF size.post > 0 THEN z ELSE y)
  <2>1. At(g, t) = Location(line.traps[t], line.length)
        /\ line.traps[t].nm = g.traps[t].nm
    BY <1>2 DEF At
  <2>2. /\ Reaches(line, t, y) <=> t # 0 /\ y >= At(g, t)
        /\ Reaches(line, t, z) <=> t # 0 /\ z >= At(g, t)
        /\ AtBottom(line, y) <=> y >= g.length
        /\ AtBottom(line, z) <=> z >= g.length
    BY <1>3, <1>7
  <2> HIDE DEF t, y
  <2> QED
    BY <2>1, <2>2, ZenonT(30) DEF AfterLine, z
<1> HIDE DEF y, z
<1>9. CASE ~Running(h)
  <2>1. h.count = g.count /\ h.vpos = g.vpos /\ g.vpos \in Int
    BY <1>2, <1>5 DEF SameTop
  <2> QED
    BY <1>4, <1>6, <1>9, <2>1, NonePassed DEF S
<1>10. CASE Running(h) /\ y >= g.length
  <2>1. ASSUME NEW i \in AheadOf(g) PROVE FALSE
    <3>1. At(g, i) \in Nat /\ g.vpos < At(g, i)
      BY NearestAhead
    <3>2. At(g, i) + size.pre + size.extra <= g.length
      BY DEF GentleLine
    <3> QED
      BY <1>2, <1>10, <3>1, <3>2 DEF y
  <2> QED
    BY <2>1, NoneAhead DEF S
<1>11. CASE Running(h) /\ ~(y >= g.length) /\ t # 0 /\ y >= At(g, t)
  <2>1. ASSUME NEW i \in AheadOf(g), At(g, i) <= y
        PROVE  At(g, i) = At(g, t)
    <3>1. At(g, i) \in Nat /\ At(g, t) <= At(g, i) /\ At(g, t) \in Nat
          /\ g.vpos < At(g, t)
      BY <1>6, <1>11, NearestAhead DEF Nearest
    <3>2. At(g, t) < At(g, i) => At(g, t) + size.pre + size.extra <= At(g, i)
      BY <1>6, <1>11 DEF GentleLine
    <3> HIDE DEF t
    <3> QED
      BY <1>2, <2>1, <3>1, <3>2 DEF y
  <2>2. Meets(g, SpringTrap(MoveTo(line, y), g.traps[t].nm))
    BY <1>1, <1>3, <1>11, <2>1, SpringMeets
  <2>3. S = SpringTrap(MoveTo(line, y), g.traps[t].nm)
    BY <1>4, <1>8, <1>11
  <2> QED
    BY <2>2, <2>3 DEF S
<1>12. CASE /\ Running(h) /\ ~(y >= g.length) /\ ~(t # 0 /\ y >= At(g, t))
            /\ size.post > 0 /\ t # 0 /\ z >= At(g, t)
  <2>1. Meets(g, SpringTrap(MoveTo(line, At(g, t)), g.traps[t].nm))
    BY <1>1, <1>12, SpringAheadMeets
  <2>2. S = SpringTrap(MoveTo(line, At(g, t)), g.traps[t].nm)
    BY <1>4, <1>8, <1>12
  <2> QED
    BY <2>1, <2>2 DEF S
<1>13. CASE /\ Running(h) /\ ~(t # 0 /\ z >= At(g, t)) /\ z >= g.length
  <2>1. t = 0
    BY <1>2, <1>3, <1>6, <1>13
  <2> QED
    BY <1>6, <2>1, NoneAhead DEF S
<1>14. CASE /\ Running(h) /\ ~(y >= g.length) /\ ~(t # 0 /\ y >= At(g, t))
            /\ ~(size.post > 0 /\ t # 0 /\ z >= At(g, t))
            /\ ~(size.post > 0 /\ z >= g.length)
  <2> DEFINE v == IF size.post > 0 THEN z ELSE y
  <2>1. v \in Nat /\ (t # 0 => v < At(g, t))
    BY <1>3, <1>6, <1>14
  <2>2. S = MoveTo(line, v)
    BY <1>4, <1>8, <1>14
  <2> HIDE DEF v
  <2> QED
    BY <1>1, <2>1, <2>2, MoveMeets DEF S
<1> QED
  BY <1>9, <1>10, <1>11, <1>12, <1>13, <1>14

\* A document whose lines are no taller, above and at the baseline, than what
\* separates the traps that it plants from each other and from the bottom of
\* the page.
Gentle(d) ==
    \A length \in d.lengths, size \in d.sizes, p, q \in d.positions :
       LET place(x) == IF x >= 0 THEN x ELSE x + length
           below == place(p) + size.pre + size.extra
       IN  0 < place(p) /\ place(p) < length
             => below <= length /\ (place(p) < place(q) => below <= place(q))

LEMMA GentleLines ==
    ASSUME PageInv, ~doc.reconfigures, Gentle(doc), NEW size \in doc.sizes
    PROVE  GentleLine(f, size)
<1> DEFINE place(x) == IF x >= 0 THEN x ELSE x + f.length
<1>1. f \in PageState /\ f.length \in doc.lengths
      /\ f.traps \in Seq(SlotsAt(doc.positions))
  BY DEF PageInv, TypeOK, Settled
<1>2. ASSUME NEW i \in AheadOf(f)
      PROVE  /\ f.traps[i].position \in doc.positions
             /\ At(f, i) = place(f.traps[i].position)
             /\ 0 < At(f, i) /\ At(f, i) < f.length
  <2>1. i \in 1..Len(f.traps)
    BY <1>1 DEF AheadOf, Ahead, Live
  <2>2. f.traps[i] \in SlotsAt(doc.positions)
    BY <1>1, <2>1
  <2>3. At(f, i) = place(f.traps[i].position)
    BY DEF At, Location
  <2>4. At(f, i) \in Nat /\ f.vpos < At(f, i) /\ At(f, i) < f.length
    BY <1>1, NearestAhead
  <2>5. f.vpos \in Nat
    BY <1>1 DEF PageState
  <2>6. 0 < At(f, i)
    BY <2>4, <2>5
  <2>7. f.traps[i].position \in doc.positions
    BY <2>2 DEF SlotsAt
  <2> QED
    BY <2>3, <2>4, <2>6, <2>7
<1>3. \A p, q \in doc.positions :
         0 < place(p) /\ place(p) < f.length
           => /\ place(p) + size.pre + size.extra <= f.length
              /\ place(p) < place(q)
                   => place(p) + size.pre + size.extra <= place(q)
  BY <1>1 DEF Gentle
<1> HIDE DEF place
<1>4. ASSUME NEW i \in AheadOf(f), NEW j \in AheadOf(f)
      PROVE  /\ At(f, i) + size.pre + size.extra <= f.length
             /\ At(f, i) < At(f, j)
                  => At(f, i) + size.pre + size.extra <= At(f, j)
  BY <1>2, <1>3, Zenon
<1> QED
  BY <1>4 DEF GentleLine

\* What does not move the position meets nothing.
LEMMA StillMeets ==
    ASSUME NEW g \in PageState, NEW h, h.count = g.count, h.vpos = g.vpos
    PROVE  Meets(g, h)
<1>1. g.vpos \in Int
  BY DEF PageState
<1>2. TrapAhead(g) # 0 => g.vpos < At(g, TrapAhead(g))
  BY NearestAhead
<1> QED
  BY <1>1, <1>2, NonePassed

LEMMA DoMeets ==
    ASSUME NEW h \in PageState, Meets(f, h), Do(h)
    PROVE  Meets(f, f')
<1>1. f'.count = h.count /\ f'.vpos = h.vpos /\ f'.input = h.input
  BY DEF Do, PageState
<1>2. Passed(f, f') = Passed(f, h) /\ Called(f, f') = Called(f, h)
  BY <1>1 DEF Passed, Called
<1> QED
  BY <1>2 DEF Meets

LEMMA SetMeets ==
    ASSUME f \in PageState, NEW h \in PageState, h.count = f.count,
           h.vpos = f.vpos, Do(h)
    PROVE  Meets(f, f')
BY StillMeets, DoMeets

LEMMA TailOne ==
    ASSUME NEW E, NEW s \in Seq(E), s # <<>>
    PROVE  Tail(s) \in Seq(E) /\ Len(Tail(s)) = Len(s) - 1 /\ Len(s) \in Nat
OBVIOUS

LEMMA StepMeets ==
    ASSUME PageInv, [Next]_vars, Gentle(doc), ~doc.reconfigures, f.before = 0
    PROVE  Meets(f, f')
<1>t. f \in PageState /\ doc \in Documents /\ Settled(f)
      /\ f.honor /\ ~f.postponing
  BY DEF PageInv, TypeOK, Settled
<1>s. SameTop(f, f)
  <2>1. Len(f.input) \in Nat
    BY <1>t DEF PageState
  <2>2. Len(f.input) >= Len(f.input) - 1
    BY <2>1
  <2> QED
    BY <1>t, <2>2 DEF SameTop
<1>m. Meets(f, f)
  BY <1>t, StillMeets
<1>1. ~StartFirstPage
  BY DEF StartFirstPage
<1>2. ASSUME NEW size \in doc.sizes, Output(size) PROVE Meets(f, f')
  <2>1. size \in [pre : Nat, extra : Nat, post : Nat]
    BY <1>t, DocumentFacts
  <2>2. OutputLine(f, <<>>, size) \in PageState
    BY <1>t, <2>1, OutputLineKeeps DEF Keeps
  <2>3. GentleLine(f, size)
    BY GentleLines
  <2>4. Meets(f, OutputLine(f, <<>>, size))
    BY <1>t, <2>1, <2>3, OutputLineMeets
  <2> QED
    BY <1>2, <2>2, <2>4, DoMeets DEF Output
<1>3. ASSUME NEW n \in Int, NEW b \in BOOLEAN
      PROVE  Space(f, n, b) \in PageState /\ Meets(f, Space(f, n, b))
  BY <1>t, <1>s, SpaceKeeps, SpaceMeets DEF Keeps
<1>4. \A n \in doc.distances : n \in Int
  BY <1>t, DocumentFacts
<1>5. ASSUME NEW n \in doc.distances, NEW b \in BOOLEAN, SpaceBy(n, b)
      PROVE  Meets(f, f')
  BY <1>3, <1>4, <1>5, DoMeets DEF SpaceBy
<1>6. ASSUME NEW n \in doc.distances, NeedSpace(n) PROVE Meets(f, f')
  <2>1. DistanceAhead(f) \in Int
    BY <1>t, DistanceAheadType
  <2>2. Need(f, n) \in PageState /\ Meets(f, Need(f, n))
    BY <1>t, <1>m, <1>3, <2>1 DEF Need
  <2> QED
    BY <1>6, <2>2, DoMeets DEF NeedSpace
<1>7. ASSUME NEW n \in doc.distances, SaveSpace(n) PROVE Meets(f, f')
  <2> DEFINE h == [f EXCEPT !.saved = n]
  <2>1. h \in PageState /\ h.count = f.count /\ h.vpos = f.vpos
    BY <1>t, <1>4, ZenonT(30) DEF PageState
  <2>2. Do(h) \/ Do(Space(f, n, TRUE))
    BY <1>7 DEF SaveSpace
  <2> HIDE DEF h
  <2> QED
    BY <1>t, <1>3, <1>4, <2>1, <2>2, SetMeets, DoMeets
<1>8. CASE OutputSavedSpace
  <2> DEFINE g == IF f.saved > 0 THEN Space(f, f.saved, TRUE) ELSE f
  <2>1. f.saved \in Int
    BY <1>t DEF PageState
  <2>2. g \in PageState /\ Meets(f, g)
    BY <1>t, <1>m, <1>3, <2>1
  <2>3. Do([g EXCEPT !.saved = 0])
    BY <1>8 DEF OutputSavedSpace
  <2> HIDE DEF g
  <2>4. [g EXCEPT !.saved = 0] \in PageState
    <3>1. 0 \in Int
      OBVIOUS
    <3> QED
      BY <2>2, <3>1, ZenonT(30) DEF PageState
  <2>5. Meets(f, [g EXCEPT !.saved = 0])
    <3> DEFINE h == [g EXCEPT !.saved = 0]
    <3>1. h.count = g.count /\ h.vpos = g.vpos /\ h.input = g.input
      BY <2>2 DEF PageState
    <3> HIDE DEF h
    <3>2. Passed(f, h) = Passed(f, g) /\ Called(f, h) = Called(f, g)
      BY <3>1 DEF Passed, Called
    <3>3. Meets(f, h)
      BY <2>2, <3>2 DEF Meets
    <3> QED
      BY <3>3 DEF h
  <2> QED
    BY <2>3, <2>4, <2>5, DoMeets
<1>9. CASE Mark
  <2>1. [f EXCEPT !.marked = f.vpos] \in PageState
    BY <1>t, ZenonT(30) DEF PageState
  <2> QED
    BY <1>9, <1>t, <2>1, SetMeets DEF Mark, PageState
<1>10. CASE ReturnToMark
  <2>1. f.marked - f.vpos \in Int
    BY <1>t DEF PageState
  <2> QED
    BY <1>10, <2>1, <1>3, DoMeets DEF ReturnToMark
<1>11. ASSUME NEW n \in doc.numbers \cup {NoNumber}, Eject(n)
       PROVE  Meets(f, f')
  <2> DEFINE e == PushPageEjector(f)
             g == SetNextPageNumber(e, n)
  <2>1. e \in PageState /\ e.count = f.count /\ e.vpos = f.vpos
    <3>1. e \in PageState
      BY <1>t, PushPageEjectorKeeps DEF Keeps
    <3>2. e.count = f.count /\ e.vpos = f.vpos
      BY <1>t DEF PushPageEjector, PushInput, PageState
    <3> QED
      BY <3>1, <3>2
  <2> HIDE DEF e
  <2>2. n \in Int \cup {NoNumber}
    BY <1>t, DocumentFacts
  <2>3. g \in PageState
    BY <2>1, <2>2, NumberAndEjectingKeep DEF Keeps
  <2>4. g.count = f.count /\ g.vpos = f.vpos
    BY <2>1 DEF SetNextPageNumber, PageState
  <2> HIDE DEF g
  <2>5. NoNumber \in Int \cup {NoNumber}
    OBVIOUS
  <2>6. SetEjecting(g) \in PageState
    BY <2>3, <2>5, NumberAndEjectingKeep DEF Keeps
  <2>7. SetEjecting(g).count = f.count /\ SetEjecting(g).vpos = f.vpos
    BY <2>3, <2>4 DEF SetEjecting, PageState
  <2>8. Do(g) \/ Do(SetEjecting(g))
    BY <1>11 DEF Eject, g, e
  <2> QED
    BY <1>t, <2>3, <2>4, <2>6, <2>7, <2>8, SetMeets
<1>12. ASSUME NEW n \in doc.numbers, AssignNumber(n) PROVE Meets(f, f')
  <2>1. n \in Int \cup {NoNumber}
    BY <1>t, DocumentFacts
  <2>2. SetNextPageNumber(f, n) \in PageState
    BY <1>t, <2>1, NumberAndEjectingKeep DEF Keeps
  <2>3. /\ SetNextPageNumber(f, n).count = f.count
        /\ SetNextPageNumber(f, n).vpos = f.vpos
    BY <1>t DEF SetNextPageNumber, PageState
  <2> QED
    BY <1>t, <1>12, <2>2, <2>3, SetMeets DEF AssignNumber
<1>13. CASE ReadToken
  <2> DEFINE rest == [f EXCEPT !.input = Tail(@)]
             b == PushPageEjector(rest)
  <2>1. f.input \in Seq(Items) /\ f.input # <<>> /\ Running(f)
    BY <1>t, <1>13 DEF ReadToken, PageState
  <2>2. Tail(f.input) \in Seq(Items)
        /\ Len(Tail(f.input)) = Len(f.input) - 1 /\ Len(f.input) \in Nat
    BY <2>1, TailOne
  <2>3. rest \in PageState
    BY <1>t, <2>2, ZenonT(30) DEF PageState
  <2>4. /\ rest.count = f.count /\ rest.vpos = f.vpos /\ rest.before = 0
        /\ rest.length = f.length /\ rest.honor /\ ~rest.postponing
        /\ rest.traps = f.traps /\ rest.input = Tail(f.input)
    BY <1>t DEF PageState
  <2>5. Do(rest) \/ Do(ContinuePageEject(rest))
    BY <1>13 DEF ReadToken
  <2> HIDE DEF rest
  <2>6. Do(rest) \/ Do(Space(b, rest.length, TRUE))
    BY <2>5 DEF ContinuePageEject
  <2>7. b \in PageState
    BY <2>3, PushPageEjectorKeeps DEF Keeps
  <2>8. /\ b.count = rest.count /\ b.vpos = rest.vpos /\ b.before = rest.before
        /\ b.length = rest.length /\ b.honor = rest.honor
        /\ b.postponing = rest.postponing /\ b.traps = rest.traps
    BY <2>3 DEF PushPageEjector, PushInput, PageState
  <2>9. Len(b.input) >= Len(f.input) - 1
    <3>1. b.input \in {rest.input, <<PageEjector>> \o rest.input}
      BY <2>3 DEF PushPageEjector, PushInput, PageState
    <3>2. PageEjector \in Items
      BY DEF PageEjector, Item, Items
    <3>3. <<PageEjector>> \in Seq(Items) /\ Len(<<PageEjector>>) = 1
      BY <3>2
    <3>4. Len(<<PageEjector>> \o rest.input) = 1 + Len(rest.input)
      BY <2>2, <2>4, <3>3, InFront
    <3>5. Len(rest.input) = Len(f.input) - 1
      BY <2>2, <2>4
    <3> QED
      BY <2>2, <3>1, <3>4, <3>5
  <2> HIDE DEF b
  <2>10. SameTop(f, b)
    BY <2>4, <2>7, <2>8, <2>9 DEF SameTop
  <2>11. rest.length \in Int
    BY <2>3 DEF PageState
  <2>12. Space(b, rest.length, TRUE) \in PageState
         /\ Meets(f, Space(b, rest.length, TRUE))
    BY <1>t, <2>7, <2>10, <2>11, SpaceKeeps, SpaceMeets DEF Keeps
  <2> QED
    BY <1>t, <2>3, <2>4, <2>6, <2>12, SetMeets, DoMeets
<1>14. ASSUME NEW b \in BOOLEAN, SetNoSpace(b) PROVE Meets(f, f')
  <2>1. [f EXCEPT !.noSpace = b] \in PageState
    BY <1>t, ZenonT(30) DEF PageState
  <2> QED
    BY <1>14, <1>t, <2>1, SetMeets DEF SetNoSpace, PageState
<1>15. ASSUME NEW s, Do([f EXCEPT !.traps = s]) PROVE Meets(f, f')
  <2>1. f'.count = f.count /\ f'.vpos = f.vpos
    BY <1>t, <1>15 DEF Do, PageState
  <2> QED
    BY <1>t, <2>1, StillMeets
<1>16. CASE UNCHANGED vars
  BY <1>t, <1>16, StillMeets DEF vars
<1> QED
  BY <1>1, <1>2, <1>5, <1>6, <1>7, <1>8, <1>9, <1>10, <1>11, <1>12, <1>13,
     <1>14, <1>15, <1>16
     DEF Next, HonorTraps, SetPageLength, UndoTopOfPage, PlantTrap, MoveTrap,
         UnplantAt

\* The state of the page is well formed, whatever is done in what order.
THEOREM PageIsWellFormed == Spec => []TypeOK
<1>1. PageInv /\ [Next]_vars => PageInv'
  BY StepGood
<1>2. PageInv => TypeOK
  BY DEF PageInv
<1> QED
  BY <1>1, <1>2, InitGood, PTL DEF Spec

\* The register nl is written wherever the drawing position moves.
THEOREM NlFollowsThePosition == Spec => []NlFollowsPosition
<1>1. PageInv /\ [Next]_vars => PageInv'
  BY StepGood
<1>2. PageInv => NlFollowsPosition
  BY DEF PageInv
<1> QED
  BY <1>1, <1>2, InitGood, PTL DEF Spec

\* With traps enabled and the page length left alone, no operation takes the
\* drawing position off the page, whatever traps are planted where.
THEOREM PositionStaysOnPage == Spec => StaysOnPage
<1>1. PageInv /\ [Next]_vars => PageInv'
  BY StepGood
<1>2. PageInv /\ [Next]_vars
        => [f.honor /\ f'.honor /\ OnPage(f) /\ f'.length = f.length
              /\ Running(f') => OnPage(f')]_vars
  BY StepGood DEF Stays
<1> QED
  BY <1>1, <1>2, InitGood, PTL DEF Spec, StaysOnPage

\* The position passes no visible trap without calling it, in a document that
\* leaves the page as it is and whose lines are no taller than what separates
\* the traps from each other and from the bottom of the page: a trap is missed
\* in no other way.
THEOREM NoTrapIsSkipped ==
    ASSUME \A d \in Documents : d.reconfigures \/ Gentle(d)
    PROVE  Spec => NoTrapSkipped
<1>1. PageInv /\ [Next]_vars => PageInv'
  BY StepGood
<1>2. PageInv /\ [Next]_vars
        => [~doc.reconfigures /\ f.before = 0 /\ Running(f')
              /\ f'.traps = f.traps
              => \A i \in Passed(f, f') \cap VisibleTraps(f) :
                    f.traps[i].nm \in Called(f, f')]_vars
  <2> SUFFICES ASSUME PageInv, [Next]_vars, ~doc.reconfigures, f.before = 0
               PROVE  Meets(f, f')
    BY DEF Meets
  <2>1. Gentle(doc)
    BY DEF PageInv, TypeOK
  <2> QED
    BY <2>1, StepMeets
<1> QED
  BY <1>1, <1>2, InitGood, PTL DEF Spec, NoTrapSkipped
=============================================================================
