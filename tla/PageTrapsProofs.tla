-------------------------- MODULE PageTrapsProofs ---------------------------
(* That a document which plants and removes traps with wh alone sees every  *)
(* location as a cell of its own, for any macros and positions.             *)
EXTENDS PageTraps, WellFoundedInduction, TLAPS

-----------------------------------------------------------------------------
\* Facts about the searches of the list of traps, for any list.

\* A nonempty set of natural numbers has a least element.
LEMMA LeastElement ==
    ASSUME NEW T \in SUBSET Nat, T # {}
    PROVE  \E x \in T : \A y \in T : x <= y
<1>1. \E x \in T : \A y \in T : ~ (<<y, x>> \in OpToRel(<, Nat))
  BY WFMin, NatLessThanWellFounded
<1>2. \A x \in T, y \in T : ~ (<<y, x>> \in OpToRel(<, Nat)) => x <= y
  BY DEF OpToRel
<1> QED
  BY <1>1, <1>2

\* FirstOf picks the least index of a set of indices, and 0 from none.
LEMMA FirstOfLeast ==
    ASSUME NEW n \in Nat, NEW I \in SUBSET (1..n)
    PROVE  \/ I = {} /\ FirstOf(I) = 0
           \/ /\ FirstOf(I) \in I /\ FirstOf(I) \in 1..n
              /\ \A j \in I : FirstOf(I) <= j
<1>1. CASE I = {}
  BY <1>1 DEF FirstOf
<1>2. CASE I # {}
  <2>1. \E x \in I : \A y \in I : x <= y
    BY <1>2, LeastElement, I \in SUBSET Nat
  <2>2. FirstOf(I) \in I /\ \A j \in I : FirstOf(I) <= j
    BY <1>2, <2>1 DEF FirstOf
  <2> QED
    BY <2>2
<1> QED
  BY <1>1, <1>2

\* The trap that find_next_trap returns is ahead of the drawing position.
LEMMA NextTrapAhead ==
    ASSUME NEW E, NEW s \in Seq(E), NEW vpos \in Int, NEW length \in Int,
           NextTrap(s, vpos, length) # 0
    PROVE  /\ NextTrap(s, vpos, length) \in Ahead(s, vpos, length)
           /\ NextTrap(s, vpos, length) \in DOMAIN s
<1> DEFINE I == {i \in Ahead(s, vpos, length) :
                    \A j \in Ahead(s, vpos, length) :
                       Location(s[i], length) <= Location(s[j], length)}
<1>1. Len(s) \in Nat /\ I \in SUBSET (1..Len(s)) /\ DOMAIN s = 1..Len(s)
  BY DEF Ahead, Live
<1>2. NextTrap(s, vpos, length) = FirstOf(I)
  BY DEF NextTrap
<1>3. FirstOf(I) \in I
  <2> HIDE DEF I
  <2> QED
    BY <1>1, <1>2, FirstOfLeast
<1> QED
  BY <1>1, <1>2, <1>3

-----------------------------------------------------------------------------
\* The loop of find_next_trap.

\* Induction, on sets of natural numbers.
LEMMA Induct ==
    ASSUME NEW S \in SUBSET Nat, 0 \in S, \A n \in S : n + 1 \in S
    PROVE  S = Nat
<1>1. SUFFICES ASSUME Nat \ S # {} PROVE FALSE
  OBVIOUS
<1>2. PICK n \in Nat \ S : \A m \in Nat \ S : n <= m
  BY <1>1, LeastElement
<1>3. n - 1 \in S
  BY <1>2
<1> QED
  BY <1>2, <1>3

\* A function of the first n numbers can be defined step by step.
IsStepwise(f, n, a, g) ==
    f = [i \in 0..n |-> IF i = 0 THEN a ELSE g[<<f[i - 1], i>>]]

LEMMA StepByStep ==
    ASSUME NEW n \in Nat, NEW a, NEW g
    PROVE  \E f : IsStepwise(f, n, a, g)
<1> USE DEF IsStepwise
<1> DEFINE IsIt(f, m) == IsStepwise(f, m, a, g)
           S == {m \in Nat : \E f : IsIt(f, m)}
<1>1. 0 \in S
  <2> DEFINE f == [i \in 0..0 |-> a]
  <2>1. f = [i \in 0..0 |-> IF i = 0 THEN a ELSE g[<<f[i - 1], i>>]]
    OBVIOUS
  <2>2. IsIt(f, 0)
    BY <2>1
  <2> QED
    BY <2>2
<1>2. ASSUME NEW m \in S PROVE m + 1 \in S
  <2>1. PICK f : IsIt(f, m)
    OBVIOUS
  <2> DEFINE h == [i \in 0..(m + 1) |-> IF i = m + 1 THEN g[<<f[m], i>>]
                                        ELSE f[i]]
  <2>2. \A i \in 0..(m + 1) :
           h[i] = IF i = 0 THEN a ELSE g[<<h[i - 1], i>>]
    <3>1. ASSUME NEW i \in 0..m
          PROVE  h[i] = IF i = 0 THEN a ELSE g[<<h[i - 1], i>>]
      BY <2>1
    <3>2. h[m + 1] = g[<<h[m], m + 1>>]
      OBVIOUS
    <3>3. \A i \in 0..(m + 1) : i \in 0..m \/ i = m + 1
      OBVIOUS
    <3>4. m + 1 # 0 /\ (m + 1) - 1 = m
      OBVIOUS
    <3> HIDE DEF h
    <3> QED
      BY <3>1, <3>2, <3>3, <3>4
  <2>3. h = [i \in 0..(m + 1) |-> h[i]]
    OBVIOUS
  <2> HIDE DEF h
  <2>4. IsIt(h, m + 1)
    BY <2>2, <2>3
  <2>5. \E f1 : IsIt(f1, m + 1)
    <3> WITNESS h
    <3> QED
      BY <2>4
  <2> HIDE DEF IsIt
  <2> QED
    BY <2>5
<1>3. S = Nat
  <2> HIDE DEF S
  <2>1. S \in SUBSET Nat
    BY DEF S
  <2> QED
    BY <1>1, <1>2, <2>1, Induct
<1> QED
  BY <1>3

\* The best slots of the loop, slot by slot.
LEMMA BestOfFirstSteps ==
    ASSUME NEW s, NEW vpos, NEW length, Len(s) \in Nat
    PROVE  LET best == BestOfFirst(s, vpos, length)
           IN  /\ best[0] = 0
               /\ \A i \in 1..Len(s) :
                     best[i] = IF Better(s, vpos, length, best[i - 1], i)
                               THEN i ELSE best[i - 1]
<1> DEFINE V == 0..Len(s)
           g == [p \in V \X V |->
                   IF Better(s, vpos, length, p[1], p[2]) THEN p[2] ELSE p[1]]
           best == BestOfFirst(s, vpos, length)
           IsBest(f) == f = [i \in V |-> IF i = 0 THEN 0
                     ELSE IF Better(s, vpos, length, f[i - 1], i) THEN i
                     ELSE f[i - 1]]
<1>1. PICK f : f = [i \in V |-> IF i = 0 THEN 0 ELSE g[<<f[i - 1], i>>]]
  <2> HIDE DEF g
  <2>1. \E f : IsStepwise(f, Len(s), 0, g)
    BY StepByStep
  <2> QED
    BY <2>1 DEF IsStepwise
<1>2. DOMAIN f = V /\ f[0] = 0
      /\ \A i \in 1..Len(s) : f[i] = g[<<f[i - 1], i>>]
  <2> HIDE DEF g
  <2> QED
    BY <1>1
<1>3. \A i \in V : f[i] \in V
  <2> DEFINE S == {i \in Nat : i \in V => f[i] \in V}
  <2>1. 0 \in S
    BY <1>2
  <2>2. ASSUME NEW i \in S PROVE i + 1 \in S
    <3>1. CASE i + 1 \in V
      <4>1. i \in V /\ f[i] \in V /\ i + 1 \in 1..Len(s)
        BY <3>1
      <4>2. f[i + 1] = g[<<f[i], i + 1>>]
        <5>1. (i + 1) - 1 = i
          OBVIOUS
        <5> HIDE DEF g
        <5> QED
          BY <1>2, <4>1, <5>1
      <4>3. f[i + 1] \in {i + 1, f[i]}
        BY <3>1, <4>1, <4>2
      <4> QED
        BY <3>1, <4>1, <4>3
    <3> QED
      BY <3>1
  <2>3. S = Nat
    <3> HIDE DEF S
    <3>1. S \in SUBSET Nat
      BY DEF S
    <3> QED
      BY <2>1, <2>2, <3>1, Induct
  <2> QED
    BY <2>3
<1>4. \A i \in V \ {0} :
         g[<<f[i - 1], i>>] = IF Better(s, vpos, length, f[i - 1], i)
                              THEN i ELSE f[i - 1]
  BY <1>3
<1>5. IsBest(f)
  <2> HIDE DEF g
  <2> QED
    BY <1>1, <1>4
<1>6. best = CHOOSE h : IsBest(h)
  BY DEF BestOfFirst
<1>7. IsBest(best)
  <2> HIDE DEF IsBest, best
  <2> QED
    BY <1>5, <1>6
<1>8. 0 \in V /\ \A i \in 1..Len(s) : i \in V /\ i # 0
  OBVIOUS
<1> HIDE DEF best, V
<1>9. best[0] = 0 /\ \A i \in 1..Len(s) :
         best[i] = IF Better(s, vpos, length, best[i - 1], i)
                   THEN i ELSE best[i - 1]
  BY <1>7, <1>8, Zenon
<1> QED
  BY <1>9 DEF best

\* Whatever the list, the drawing position and the page length, the loop
\* returns the nearest trap ahead, and the first in the list of those at one
\* location.
THEOREM LoopIsNextTrap ==
    ASSUME NEW P \in SUBSET Int, NEW s \in Seq([nm : Macros \cup {NoMacro},
                                               position : P]),
           NEW vpos \in Int, NEW length \in Int
    PROVE  NextTrapLoop(s, vpos, length) = NextTrap(s, vpos, length)
<1> DEFINE n == Len(s)
           A == Ahead(s, vpos, length)
           best == BestOfFirst(s, vpos, length)
           at(i) == Location(s[i], length)
           NotAfter(b, j) == (at(b) < at(j)) \/ (at(b) = at(j) /\ b <= j)
           Nearest(b, i) ==
              \/ b = 0 /\ \A j \in A : j > i
              \/ /\ b \in A /\ b <= i
                 /\ \A j \in A : j <= i => NotAfter(b, j)
<1>1. n \in Nat /\ DOMAIN s = 1..n /\ A \in SUBSET (1..n)
  BY DEF Ahead, Live
<1>2. \A i \in 1..n : at(i) \in Int
  <2>1. \A i \in 1..n : s[i].position \in Int
    <3>1. \A i \in 1..n : s[i] \in [nm : Macros \cup {NoMacro}, position : P]
      <4> DEFINE R == [nm : Macros \cup {NoMacro}, position : P]
      <4>1. s \in Seq(R)
        OBVIOUS
      <4> HIDE DEF R
      <4>2. \A i \in 1..Len(s) : s[i] \in R
        BY <4>1
      <4> QED
        BY <4>2 DEF R, n
    <3>2. \A r \in [nm : Macros \cup {NoMacro}, position : P] :
             r.position \in Int
      OBVIOUS
    <3> HIDE DEF n
    <3> QED
      BY <3>1, <3>2, Zenon
  <2> QED
    BY <2>1 DEF Location
<1>3. /\ best[0] = 0
      /\ \A i \in 1..n : best[i] = IF Better(s, vpos, length, best[i - 1], i)
                                   THEN i ELSE best[i - 1]
  BY <1>1, BestOfFirstSteps
<1>4. \A b, i : Better(s, vpos, length, b, i)
                  <=> i \in A /\ (b = 0 \/ at(i) < at(b))
  BY DEF Better
<1> HIDE DEF n, A, best, at
<1>5. \A i \in 0..n : Nearest(best[i], i)
  <2> DEFINE S == {i \in Nat : i \in 0..n => Nearest(best[i], i)}
  <2>1. 0 \in S
    BY <1>1, <1>3
  <2>2. ASSUME NEW i \in S PROVE i + 1 \in S
    <3>1. SUFFICES ASSUME i + 1 \in 0..n PROVE Nearest(best[i + 1], i + 1)
      OBVIOUS
    <3>2. Nearest(best[i], i) /\ i + 1 \in 1..n
      BY <1>1, <3>1
    <3>3. best[i + 1] = IF i + 1 \in A /\ (best[i] = 0
                                          \/ at(i + 1) < at(best[i]))
                        THEN i + 1 ELSE best[i]
      BY <1>3, <1>4, <3>2
    <3>4. \A j \in A : at(j) \in Int /\ j \in 1..n
      BY <1>1, <1>2
    <3>5. \A j \in A : j <= i + 1 <=> j <= i \/ j = i + 1
      BY <3>4
    <3>6. CASE i + 1 \notin A
      <4>1. best[i + 1] = best[i]
        BY <3>3, <3>6
      <4> QED
        BY <3>2, <3>4, <3>6, <4>1
    <3>7. CASE i + 1 \in A /\ best[i] = 0
      BY <3>2, <3>3, <3>4, <3>7
    <3>8. CASE i + 1 \in A /\ best[i] # 0 /\ at(i + 1) < at(best[i])
      <4>1. best[i + 1] = i + 1 /\ best[i] \in A
        BY <3>2, <3>3, <3>8
      <4>2. \A j \in A : j <= i => at(best[i]) <= at(j)
        BY <3>2, <3>4, <3>8
      <4>3. \A j \in A : j <= i => at(i + 1) < at(j)
        BY <3>4, <3>8, <4>1, <4>2
      <4>4. \A j \in A : j <= i + 1 => at(i + 1) < at(j) \/ j = i + 1
        BY <3>5, <4>3
      <4> QED
        BY <3>4, <3>8, <4>1, <4>4
    <3>9. CASE i + 1 \in A /\ best[i] # 0 /\ ~(at(i + 1) < at(best[i]))
      <4>1. best[i + 1] = best[i] /\ best[i] \in A
        BY <3>2, <3>3, <3>9
      <4> QED
        BY <3>2, <3>4, <3>9, <4>1
    <3> QED
      BY <3>6, <3>7, <3>8, <3>9
  <2>3. S = Nat
    <3> HIDE DEF S
    <3>1. S \in SUBSET Nat
      BY DEF S
    <3> QED
      BY <2>1, <2>2, <3>1, Induct
  <2> QED
    BY <2>3
<1> DEFINE I == {i \in A : \A j \in A : at(i) <= at(j)}
<1>6. NextTrap(s, vpos, length) = FirstOf(I)
  BY DEF NextTrap, A, at
<1>7. NextTrapLoop(s, vpos, length) = best[n]
  BY DEF NextTrapLoop, best, n
<1>8. Nearest(best[n], n)
  BY <1>1, <1>5
<1>9. CASE A = {}
  BY <1>6, <1>7, <1>8, <1>9 DEF FirstOf
<1>10. CASE A # {}
  <2>1. best[n] \in A /\ \A j \in A : NotAfter(best[n], j)
    <3>1. \A j \in A : j \in 1..n /\ j <= n /\ ~(j > n)
      BY <1>1
    <3>2. ~(best[n] = 0 /\ \A j \in A : j > n)
      BY <1>10, <3>1
    <3> HIDE DEF NotAfter
    <3> QED
      BY <1>8, <3>1, <3>2, Zenon
  <2>2. \A j \in A : NotAfter(best[n], j)
    BY <2>1
  <2>3. \A j \in A : j \in 1..n /\ at(j) \in Int
    BY <1>1, <1>2
  <2>4. best[n] \in I
    <3>1. \A j \in A : at(best[n]) <= at(j)
      BY <2>1, <2>2, <2>3
    <3> QED
      BY <2>1, <3>1
  <2>5. \A j \in I : best[n] <= j
    <3>1. \A j \in I : at(j) <= at(best[n])
      BY <2>1
    <3> QED
      BY <2>1, <2>2, <2>3, <3>1
  <2>6. I # {} /\ I \in SUBSET (1..n)
    BY <1>1, <2>4
  <2> HIDE DEF I
  <2>7. FirstOf(I) \in I /\ \A j \in I : FirstOf(I) <= j
    BY <1>1, <2>6, FirstOfLeast
  <2>8. FirstOf(I) <= best[n] /\ best[n] <= FirstOf(I)
    BY <2>4, <2>5, <2>7
  <2>9. FirstOf(I) \in Int /\ best[n] \in Int
    <3>1. \A j \in I : j \in Int
      BY <2>6
    <3> QED
      BY <2>4, <2>7, <3>1
  <2>10. FirstOf(I) = best[n]
    BY <2>8, <2>9
  <2> QED
    BY <1>6, <1>7, <2>10
<1> QED
  BY <1>9, <1>10

-----------------------------------------------------------------------------
\* Lists of slots at positions of a set.
SlotsAt(P) == [nm : Macros \cup {NoMacro}, position : P]

\* Every request keeps the list well formed.
LEMMA TrapListType ==
    ASSUME NEW P, NEW pos \in P, NEW s \in Seq(SlotsAt(P))
    PROVE  /\ RemoveTrapAt(s, pos) \in Seq(SlotsAt(P))
           /\ \A nm \in Macros :
                /\ AddTrap(s, nm, pos) \in Seq(SlotsAt(P))
                /\ ChangeTrap(s, nm, pos) \in Seq(SlotsAt(P))
                /\ RemoveTrap(s, nm) \in Seq(SlotsAt(P))
<1>1. Len(s) \in Nat /\ DOMAIN s = 1..Len(s)
  OBVIOUS
<1>2. ASSUME NEW i \in DOMAIN s, NEW e \in SlotsAt(P)
      PROVE  [s EXCEPT ![i] = e] \in Seq(SlotsAt(P))
  OBVIOUS
<1>3. ASSUME NEW i \in DOMAIN s, NEW m \in Macros \cup {NoMacro}
      PROVE  /\ [s EXCEPT ![i].nm = m] \in Seq(SlotsAt(P))
             /\ [s EXCEPT ![i].position = pos] \in Seq(SlotsAt(P))
  <2>1. [s[i] EXCEPT !.nm = m] \in SlotsAt(P)
        /\ [s[i] EXCEPT !.position = pos] \in SlotsAt(P)
    <3>1. s[i] \in SlotsAt(P)
      OBVIOUS
    <3> QED
      BY <3>1 DEF SlotsAt
  <2> QED
    BY <2>1, <1>2
<1>4. ASSUME NEW I \in SUBSET DOMAIN s, FirstOf(I) # 0
      PROVE  FirstOf(I) \in DOMAIN s
  BY <1>1, <1>4, FirstOfLeast
<1>5. ASSUME NEW nm \in Macros
      PROVE  AddTrap(s, nm, pos) \in Seq(SlotsAt(P))
  <2> DEFINE there == FirstOf(LiveAt(s, pos))
             free == FirstOf(DOMAIN s \ Live(s))
  <2>1. LiveAt(s, pos) \in SUBSET DOMAIN s
        /\ DOMAIN s \ Live(s) \in SUBSET DOMAIN s
    BY DEF LiveAt, Live
  <2>2. there # 0 => there \in DOMAIN s
    BY <2>1, <1>4
  <2>3. free # 0 => free \in DOMAIN s
    BY <2>1, <1>4
  <2>4. Slot(nm, pos) \in SlotsAt(P)
    BY DEF Slot, SlotsAt
  <2>5. Append(s, Slot(nm, pos)) \in Seq(SlotsAt(P))
    BY <2>4
  <2>6. there # 0 => [s EXCEPT ![there].nm = nm] \in Seq(SlotsAt(P))
    BY <2>2, <1>3
  <2>7. free # 0 => [s EXCEPT ![free] = Slot(nm, pos)] \in Seq(SlotsAt(P))
    BY <2>3, <2>4, <1>2
  <2>8. AddTrap(s, nm, pos) =
          IF there # 0 THEN [s EXCEPT ![there].nm = nm]
          ELSE IF free # 0 THEN [s EXCEPT ![free] = Slot(nm, pos)]
          ELSE Append(s, Slot(nm, pos))
    BY DEF AddTrap
  <2> HIDE DEF there, free
  <2> QED
    BY <2>5, <2>6, <2>7, <2>8
<1>6. ASSUME NEW nm \in Macros
      PROVE  ChangeTrap(s, nm, pos) \in Seq(SlotsAt(P))
  BY <1>3, <1>4 DEF ChangeTrap
<1>7. ASSUME NEW I \in SUBSET DOMAIN s
      PROVE  Empty(s, FirstOf(I)) \in Seq(SlotsAt(P))
  BY <1>3, <1>4, <1>7 DEF Empty
<1>8. RemoveTrapAt(s, pos) \in Seq(SlotsAt(P))
      /\ \A nm \in Macros : RemoveTrap(s, nm) \in Seq(SlotsAt(P))
  BY <1>7 DEF RemoveTrapAt, RemoveTrap
<1> QED
  BY <1>5, <1>6, <1>8

-----------------------------------------------------------------------------
\* The list and the cells it stands for.
SlotType == [nm : Macros \cup {NoMacro}, position : Positions]

\* What add_trap does to the list: one slot, the first at its position, now
\* holds the trap, and every other slot is as it was.
LEMMA AddTrapEffect ==
    ASSUME NEW s \in Seq(SlotType), FirstAtPosition(s),
           NEW nm \in Macros, NEW pos \in Positions
    PROVE  /\ AddTrap(s, nm, pos) \in Seq(SlotType)
           /\ FirstAtPosition(AddTrap(s, nm, pos))
           /\ Len(AddTrap(s, nm, pos)) \in {Len(s), Len(s) + 1}
           /\ \E k \in DOMAIN AddTrap(s, nm, pos) :
                /\ AddTrap(s, nm, pos)[k] = Slot(nm, pos)
                /\ k \in Live(s) => s[k].position = pos
                /\ \A j \in DOMAIN AddTrap(s, nm, pos) \ {k} :
                      /\ j \in DOMAIN s
                      /\ AddTrap(s, nm, pos)[j] = s[j]
<1> DEFINE there == FirstOf(LiveAt(s, pos))
           free == FirstOf(DOMAIN s \ Live(s))
           new == AddTrap(s, nm, pos)
<1> Len(s) \in Nat /\ DOMAIN s = 1..Len(s) /\ \A i \in 1..Len(s) : s[i] \in SlotType
  OBVIOUS
<1>a. Slot(nm, pos) \in SlotType /\ nm # NoMacro
  BY MacrosAssumption DEF Slot, SlotType
<1>1. \/ LiveAt(s, pos) = {} /\ there = 0
      \/ there \in LiveAt(s, pos) /\ there \in 1..Len(s)
         /\ \A j \in LiveAt(s, pos) : there <= j
  BY FirstOfLeast, LiveAt(s, pos) \in SUBSET (1..Len(s)) DEF LiveAt, Live
<1>2. \/ DOMAIN s \ Live(s) = {} /\ free = 0
      \/ free \in DOMAIN s \ Live(s) /\ free \in 1..Len(s)
         /\ \A j \in DOMAIN s \ Live(s) : free <= j
  BY FirstOfLeast, DOMAIN s \ Live(s) \in SUBSET (1..Len(s)) DEF Live
<1>3. CASE there # 0
  <2>1. new = [s EXCEPT ![there].nm = nm]
    BY <1>3 DEF AddTrap
  <2>2. there \in 1..Len(s) /\ s[there].position = pos /\ there \in Live(s)
    BY <1>1, <1>3 DEF LiveAt
  <2>3. new \in Seq(SlotType) /\ Len(new) = Len(s) /\ DOMAIN new = 1..Len(s)
    BY <2>1, <2>2 DEF SlotType
  <2>4. new[there] = Slot(nm, pos)
    BY <2>1, <2>2 DEF SlotType, Slot
  <2>5. \A j \in 1..Len(s) : j # there => new[j] = s[j]
    BY <2>1
  <2>6. FirstAtPosition(new)
    BY <2>2, <2>3, <2>4, <2>5, <1>a DEF FirstAtPosition, Live, Slot
  <2> QED
    BY <2>2, <2>3, <2>4, <2>5, <2>6
<1>4. CASE there = 0 /\ free # 0
  <2>1. new = [s EXCEPT ![free] = Slot(nm, pos)]
    BY <1>4 DEF AddTrap
  <2>2. free \in 1..Len(s) /\ s[free].nm = NoMacro /\ free \notin Live(s)
    BY <1>2, <1>4 DEF Live
  <2>3. new \in Seq(SlotType) /\ Len(new) = Len(s) /\ DOMAIN new = 1..Len(s)
    BY <2>1, <2>2, <1>a
  <2>4. new[free] = Slot(nm, pos)
    BY <2>1, <2>2
  <2>5. \A j \in 1..Len(s) : j # free => new[j] = s[j]
    BY <2>1
  <2>6. \A j \in Live(s) : s[j].position # pos
    BY <1>1, <1>4 DEF LiveAt
  <2>7. \A j \in 1..Len(s) : s[j].nm = NoMacro => free <= j
    BY <1>2, <1>4 DEF Live
  <2>8. FirstAtPosition(new)
    BY <2>2, <2>3, <2>4, <2>5, <2>6, <2>7, <1>a
       DEF FirstAtPosition, Live, Slot
  <2> QED
    BY <2>2, <2>3, <2>4, <2>5, <2>8
<1>5. CASE there = 0 /\ free = 0
  <2>1. new = Append(s, Slot(nm, pos))
    BY <1>5 DEF AddTrap
  <2>2. /\ new \in Seq(SlotType) /\ Len(new) = Len(s) + 1
        /\ DOMAIN new = 1..(Len(s) + 1)
    BY <2>1, <1>a
  <2>3. new[Len(s) + 1] = Slot(nm, pos)
    BY <2>1
  <2>4. \A j \in 1..Len(s) : new[j] = s[j]
    BY <2>1
  <2>5. \A j \in 1..Len(s) : j \in Live(s) /\ s[j].position # pos
    BY <1>1, <1>2, <1>5 DEF LiveAt, Live
  <2>6. FirstAtPosition(new)
    BY <2>2, <2>3, <2>4, <2>5, <1>a DEF FirstAtPosition, Live, Slot
  <2>7. Len(s) + 1 \notin Live(s)
    BY DEF Live
  <2> QED
    BY <2>2, <2>3, <2>4, <2>6, <2>7
<1> QED
  BY <1>3, <1>4, <1>5

\* What remove_trap_at does: nothing if no slot has the position, else it
\* empties the first that has.
LEMMA RemoveTrapAtEffect ==
    ASSUME NEW s \in Seq(SlotType), FirstAtPosition(s), NEW pos \in Positions
    PROVE  /\ RemoveTrapAt(s, pos) \in Seq(SlotType)
           /\ FirstAtPosition(RemoveTrapAt(s, pos))
           /\ Len(RemoveTrapAt(s, pos)) = Len(s)
           /\ \A j \in 1..Len(s) :
                /\ RemoveTrapAt(s, pos)[j].position = s[j].position
                /\ RemoveTrapAt(s, pos)[j].nm =
                     IF s[j].position = pos THEN NoMacro ELSE s[j].nm
<1> DEFINE I == {i \in DOMAIN s : s[i].position = pos}
           k == FirstOf(I)
           new == RemoveTrapAt(s, pos)
<1> Len(s) \in Nat /\ DOMAIN s = 1..Len(s) /\ \A i \in 1..Len(s) : s[i] \in SlotType
  OBVIOUS
<1>1. \/ I = {} /\ k = 0
      \/ k \in I /\ k \in 1..Len(s) /\ \A j \in I : k <= j
  BY FirstOfLeast, I \in SUBSET (1..Len(s))
<1>2. CASE k = 0
  <2>1. new = s
    BY <1>2 DEF RemoveTrapAt, Empty
  <2>2. \A j \in 1..Len(s) : s[j].position # pos
    BY <1>1, <1>2
  <2> QED
    BY <2>1, <2>2
<1>3. CASE k # 0
  <2>1. new = [s EXCEPT ![k].nm = NoMacro]
    BY <1>3 DEF RemoveTrapAt, Empty
  <2>2. k \in 1..Len(s) /\ s[k].position = pos
    BY <1>1, <1>3
  <2>3. new \in Seq(SlotType) /\ Len(new) = Len(s) /\ DOMAIN new = 1..Len(s)
    <3>1. [s[k] EXCEPT !.nm = NoMacro] \in SlotType
      BY <2>2 DEF SlotType
    <3> QED
      BY <2>1, <2>2, <3>1
  <2>4. new[k].nm = NoMacro /\ new[k].position = pos
    BY <2>1, <2>2 DEF SlotType
  <2>5. \A j \in 1..Len(s) : j # k => new[j] = s[j]
    BY <2>1
  <2>6. \A j \in 1..Len(s) : j # k /\ s[j].position = pos => s[j].nm = NoMacro
    <3> SUFFICES ASSUME NEW j \in 1..Len(s), j # k, s[j].position = pos,
                        s[j].nm # NoMacro
                 PROVE  FALSE
      OBVIOUS
    <3>1. j \in Live(s) /\ k <= j
      BY <1>1, <1>3 DEF Live
    <3>2. j <= k
      BY <3>1, <2>2 DEF FirstAtPosition
    <3> QED
      BY <3>1, <3>2, <2>2
  <2>7. FirstAtPosition(new)
    BY <2>2, <2>3, <2>4, <2>5 DEF FirstAtPosition, Live
  <2> QED
    BY <2>2, <2>3, <2>4, <2>5, <2>6, <2>7
<1> QED
  BY <1>2, <1>3

\* Which macro a position calls, when no two traps share it.
LEMMA VisibleOnly ==
    ASSUME NEW s \in Seq(SlotType), FirstAtPosition(s), NEW pos \in Positions
    PROVE  /\ LiveAt(s, pos) = {} => Visible(s, pos) = NoMacro
           /\ \A i \in LiveAt(s, pos) : Visible(s, pos) = s[i].nm
<1>1. LiveAt(s, pos) \in SUBSET (1..Len(s)) /\ Len(s) \in Nat
  BY DEF LiveAt, Live
<1>2. CASE LiveAt(s, pos) = {}
  BY <1>2 DEF Visible, FirstOf
<1>3. ASSUME NEW i \in LiveAt(s, pos)
      PROVE  Visible(s, pos) = s[i].nm
  <2>1. FirstOf(LiveAt(s, pos)) \in LiveAt(s, pos)
        /\ FirstOf(LiveAt(s, pos)) \in 1..Len(s)
    BY <1>1, FirstOfLeast
  <2>2. FirstOf(LiveAt(s, pos)) = i
    BY <2>1, <1>1 DEF FirstAtPosition, LiveAt
  <2> QED
    BY <2>1, <2>2 DEF Visible
<1> QED
  BY <1>2, <1>3

-----------------------------------------------------------------------------
\* The invariant, of use until the document has used ch.
WhInv == TypeOK /\ (~moved => FirstAtPosition(slots))

LEMMA WhInvInit == Init => WhInv
<1>1. Init => TypeOK
  <2>1. Init => slots \in Seq(SlotType)
    BY DEF Init
  <2>2. Init => request \in {<<>>} /\ moved \in BOOLEAN
    BY DEF Init
  <2> QED
    BY <2>1, <2>2 DEF TypeOK, SlotType
<1>2. Init => FirstAtPosition(slots)
  BY DEF Init, FirstAtPosition, Live
<1> QED
  BY <1>1, <1>2 DEF WhInv

LEMMA WhInvStep ==
    ASSUME WhInv, [Next]_vars
    PROVE  WhInv'
<1>t. slots \in Seq(SlotType) /\ (~moved => FirstAtPosition(slots))
  BY DEF WhInv, TypeOK, SlotType
<1>1. ASSUME NEW nm \in Macros, NEW pos \in Positions, WhenPlant(nm, pos)
      PROVE  WhInv'
  <2>1. slots' = AddTrap(slots, nm, pos) /\ slots' \in Seq(SlotType)
    BY <1>1, <1>t, TrapListType DEF WhenPlant, SlotType, SlotsAt
  <2>2. ~moved' => FirstAtPosition(slots')
    BY <1>1, <1>t, <2>1, AddTrapEffect DEF WhenPlant
  <2>3. request' \in (Macros \cup {NoMacro}) \X Positions
    BY <1>1 DEF WhenPlant
  <2> QED
    BY <1>1, <2>1, <2>2, <2>3 DEF WhenPlant, WhInv, TypeOK, SlotType
<1>2. ASSUME NEW pos \in Positions, WhenRemove(pos)
      PROVE  WhInv'
  <2>1. slots' = RemoveTrapAt(slots, pos) /\ slots' \in Seq(SlotType)
    BY <1>2, <1>t, TrapListType DEF WhenRemove, SlotType, SlotsAt
  <2>2. ~moved' => FirstAtPosition(slots')
    BY <1>2, <1>t, <2>1, RemoveTrapAtEffect DEF WhenRemove
  <2> QED
    BY <1>2, <2>1, <2>2 DEF WhenRemove, WhInv, TypeOK, SlotType
<1>3. ASSUME NEW nm \in Macros, NEW pos \in Positions, Change(nm, pos)
      PROVE  WhInv'
  <2>1. slots' \in Seq(SlotType)
    BY <1>3, <1>t, TrapListType DEF Change, SlotType, SlotsAt
  <2> QED
    BY <1>3, <2>1 DEF Change, WhInv, TypeOK, SlotType
<1>4. ASSUME NEW nm \in Macros, ChangeRemove(nm)
      PROVE  WhInv'
  <2>1. slots' \in Seq(SlotType)
    <3>1. CASE Positions = {}
      <4>1. DOMAIN slots = {}
        BY <1>t, <3>1 DEF SlotType
      <4>2. RemoveTrap(slots, nm) = slots
        BY <4>1 DEF RemoveTrap, FirstOf, Empty
      <4> QED
        BY <1>4, <1>t, <4>2 DEF ChangeRemove
    <3>2. CASE Positions # {}
      BY <1>4, <1>t, <3>2, TrapListType DEF ChangeRemove, SlotType, SlotsAt
    <3> QED
      BY <3>1, <3>2
  <2> QED
    BY <1>4, <2>1 DEF ChangeRemove, WhInv, TypeOK, SlotType
<1>5. CASE UNCHANGED vars
  BY <1>5 DEF vars, TypeOK, WhInv
<1> QED
  BY <1>1, <1>2, <1>3, <1>4, <1>5 DEF Next

LEMMA WhInvAlways == Spec => []WhInv
<1>1. WhInv /\ [Next]_vars => WhInv'
  BY WhInvStep
<1> QED
  BY <1>1, WhInvInit, PTL DEF Spec

\* The list holds macros or emptied slots at positions of the document.
THEOREM TrapsTyped == Spec => []TypeOK
<1>1. WhInv => TypeOK
  BY DEF WhInv
<1> QED
  BY <1>1, WhInvAlways, PTL

\* Until ch is used, the searches of add_trap and remove_trap_at meet the trap
\* they are meant to find first.
THEOREM OneTrap == Spec => []OneTrapAPosition
<1>1. WhInv => OneTrapAPosition
  BY DEF WhInv, OneTrapAPosition
<1> QED
  BY <1>1, WhInvAlways, PTL

\* On the lists a document can plant, the loop of find_next_trap returns the
\* nearest trap (LoopIsNextTrap says so of every list, place and length).
THEOREM LoopAlwaysFindsNearest == Spec => []LoopFindsNearest
<1>1. TypeOK => LoopFindsNearest
  <2> SUFFICES ASSUME TypeOK, NEW length \in 1..6, NEW vpos \in -1..6
               PROVE  NextTrapLoop(slots, vpos, length)
                        = NextTrap(slots, vpos, length)
    BY DEF LoopFindsNearest
  <2>1. /\ slots \in Seq([nm : Macros \cup {NoMacro}, position : Positions])
        /\ Positions \in SUBSET Int /\ length \in Int /\ vpos \in Int
    BY PageTrapsAssumption DEF TypeOK
  <2> QED
    BY <2>1, LoopIsNextTrap
<1> QED
  BY <1>1, TrapsTyped, PTL

\* A planting changes what its own position calls and nothing else.
LEMMA PlantIsPlant ==
    ASSUME WhInv, ~moved, NEW nm \in Macros, NEW pos \in Positions,
           WhenPlant(nm, pos), NEW p \in Positions
    PROVE  Visible(slots', p) = IF p = pos THEN nm ELSE Visible(slots, p)
<1>t. slots \in Seq(SlotType) /\ FirstAtPosition(slots)
  BY DEF WhInv, TypeOK, SlotType
<1>1. /\ slots' = AddTrap(slots, nm, pos)
      /\ slots' \in Seq(SlotType) /\ FirstAtPosition(slots')
      /\ Len(slots') \in {Len(slots), Len(slots) + 1}
  BY <1>t, AddTrapEffect DEF WhenPlant
<1>2. PICK k \in DOMAIN slots' :
        /\ slots'[k] = Slot(nm, pos)
        /\ k \in Live(slots) => slots[k].position = pos
        /\ \A j \in DOMAIN slots' \ {k} :
              j \in DOMAIN slots /\ slots'[j] = slots[j]
  BY <1>1, <1>t, AddTrapEffect
<1>3. /\ DOMAIN slots' = 1..Len(slots') /\ Len(slots') \in Nat
      /\ DOMAIN slots = 1..Len(slots) /\ Len(slots) \in Nat
      /\ \A j \in DOMAIN slots : j \in DOMAIN slots'
  BY <1>1, <1>t
<1>4. CASE p = pos
  <2>1. k \in LiveAt(slots', p)
    BY <1>2, <1>4, MacrosAssumption DEF LiveAt, Live, Slot
  <2> QED
    BY <2>1, <1>1, <1>2, <1>4, VisibleOnly DEF Slot
<1>5. CASE p # pos
  <2>1. LiveAt(slots', p) = LiveAt(slots, p)
    BY <1>2, <1>3, <1>5 DEF LiveAt, Live, Slot
  <2>2. \A i \in LiveAt(slots, p) : slots'[i] = slots[i]
    BY <1>2, <1>3, <1>5, <2>1 DEF LiveAt, Live, Slot
  <2>3. CASE LiveAt(slots, p) = {}
    BY <2>1, <2>3, <1>1, <1>t, <1>5, VisibleOnly
  <2>4. ASSUME NEW i \in LiveAt(slots, p)
        PROVE  Visible(slots', p) = Visible(slots, p)
    <3>1. Visible(slots, p) = slots[i].nm
      BY <1>t, VisibleOnly
    <3>2. Visible(slots', p) = slots'[i].nm
      BY <2>1, <1>1, VisibleOnly
    <3> QED
      BY <3>1, <3>2, <2>2
  <2> QED
    BY <2>3, <2>4, <1>5
<1> QED
  BY <1>4, <1>5

\* wh without a macro empties its own position and nothing else.
LEMMA RemoveIsClear ==
    ASSUME WhInv, ~moved, NEW pos \in Positions, WhenRemove(pos),
           NEW p \in Positions
    PROVE  Visible(slots', p) = IF p = pos THEN NoMacro ELSE Visible(slots, p)
<1>t. slots \in Seq(SlotType) /\ FirstAtPosition(slots)
  BY DEF WhInv, TypeOK, SlotType
<1>1. /\ slots' \in Seq(SlotType) /\ FirstAtPosition(slots')
      /\ Len(slots') = Len(slots)
      /\ \A j \in 1..Len(slots) :
            /\ slots'[j].position = slots[j].position
            /\ slots'[j].nm =
                 IF slots[j].position = pos THEN NoMacro ELSE slots[j].nm
  BY <1>t, RemoveTrapAtEffect DEF WhenRemove
<1>3. /\ DOMAIN slots' = 1..Len(slots') /\ DOMAIN slots = 1..Len(slots)
  BY <1>1, <1>t
<1>4. CASE p = pos
  <2>1. LiveAt(slots', p) = {}
    BY <1>1, <1>3, <1>4 DEF LiveAt, Live
  <2> QED
    BY <2>1, <1>1, <1>4, VisibleOnly
<1>5. CASE p # pos
  <2>1. LiveAt(slots', p) = LiveAt(slots, p)
    BY <1>1, <1>3, <1>5 DEF LiveAt, Live
  <2>2. \A i \in LiveAt(slots, p) : slots'[i].nm = slots[i].nm
    BY <1>1, <1>3, <1>5 DEF LiveAt, Live
  <2>3. CASE LiveAt(slots, p) = {}
    BY <2>1, <2>3, <1>1, <1>t, <1>5, VisibleOnly
  <2>4. ASSUME NEW i \in LiveAt(slots, p)
        PROVE  Visible(slots', p) = Visible(slots, p)
    <3>1. Visible(slots, p) = slots[i].nm
      BY <1>t, VisibleOnly
    <3>2. Visible(slots', p) = slots'[i].nm
      BY <2>1, <1>1, VisibleOnly
    <3> QED
      BY <3>1, <3>2, <2>2
  <2> QED
    BY <2>3, <2>4, <1>5
<1> QED
  BY <1>4, <1>5

\* The list of slots implements the table of locations that wh promises: a
\* document cannot tell the reuse of slots from a cell apiece until it uses ch.
THEOREM WhImplementsPlantedTraps == Spec => ImplementsPlantedTraps
<1> DEFINE table == [p \in Positions |-> Visible(slots, p)]
<1>1. Init => Table!Init
  BY DEF Init, Table!Init, Visible, FirstOf, LiveAt, Live
<1>2. WhInv /\ [Next]_vars => [Table!Next]_(Table!vars)
  <2> SUFFICES ASSUME WhInv, [Next]_vars
               PROVE  [Table!Next]_(Table!vars)
    OBVIOUS
  <2>1. ASSUME NEW nm \in Macros, NEW pos \in Positions, WhenPlant(nm, pos),
               ~moved
        PROVE  Table!When(nm, pos)
    <3>1. table' = [table EXCEPT ![pos] = nm]
      BY <2>1, PlantIsPlant
    <3> QED
      BY <2>1, <3>1 DEF WhenPlant, Table!When
  <2>2. ASSUME NEW pos \in Positions, WhenRemove(pos), ~moved
        PROVE  Table!When(NoMacro, pos)
    <3>1. table' = [table EXCEPT ![pos] = NoMacro]
      BY <2>2, RemoveIsClear
    <3> QED
      BY <2>2, <3>1 DEF WhenRemove, Table!When
  <2>3. CASE moved' = TRUE
    BY <2>3 DEF Table!Next, Table!Moved
  <2>4. CASE UNCHANGED vars
    BY <2>4 DEF vars, Table!vars
  <2>5. moved \in BOOLEAN
    BY DEF WhInv, TypeOK
  <2> QED
    BY <2>1, <2>2, <2>3, <2>4, <2>5
       DEF Next, Table!Next, WhenPlant, WhenRemove, Change, ChangeRemove
<1> QED
  BY <1>1, <1>2, WhInvAlways, PTL
     DEF Spec, ImplementsPlantedTraps, Table!Spec
=============================================================================
