-------------------------- MODULE InputStackProofs --------------------------
(* What becomes of the boundaries of loops and of the ends of traps, for    *)
(* any sizes, limits and documents.                                         *)
(*                                                                          *)
(* The stack is looked at from its bottom, where what is below is not       *)
(* renumbered by what comes and goes above it: Low(s, q) is the kind of the *)
(* q-th iterator from the bottom, Depth(s, q) counts the boundaries up to   *)
(* it, and Ends(s, d) the ends of traps with d boundaries below them.  Each *)
(* operation of input_stack leaves the boundaries or changes them with the  *)
(* runs, and adds no end without its beginning (Keeps).                     *)
(*                                                                          *)
(* The second part is about the nested blocks that a document sees.         *)
EXTENDS InputStack, FiniteSetTheorems, SequenceTheorems, WellFoundedInduction,
        TLAPS

Texts == {"file", "macro", "string", "loop"}
Barriers == {"boundary", "return_boundary"}
Marks == {"begin_trap", "end_trap"}

\* The iterators: one that marks a trap has a token and then nothing.
Items ==
    {it \in [kind : Texts \cup Barriers \cup Marks, left : Nat, args : Nat,
             size : Nat] : it.kind \in Marks => it.left = 1}

Low(s, q) == s[Len(s) + 1 - q].kind

BarriersTo(s, q) == {i \in 1..q : Low(s, i) \in Barriers}
Depth(s, q) == Cardinality(BarriersTo(s, q))

EndsAt(s, d) == {q \in 1..Len(s) : Low(s, q) = "end_trap" /\ Depth(s, q) = d}
Ends(s, d) == Cardinality(EndsAt(s, d))

\* The stacks are the same up to the m-th iterator from the bottom.
Same(s, t, m) ==
    /\ m \in 0..Len(s) /\ m \in 0..Len(t)
    /\ \A q \in 1..m : Low(s, q) = Low(t, q)

-----------------------------------------------------------------------------
\* Induction, on sets of natural numbers.

Smaller == {p \in Nat \X Nat : p[1] < p[2]}

LEMMA Below == IsWellFoundedOn(Smaller, Nat)
<1>1. OpToRel(<, Nat) = Smaller
  BY DEF OpToRel, Smaller
<1> QED
  BY <1>1, NatLessThanWellFounded

LEMMA Least ==
    ASSUME NEW S \in SUBSET Nat, S # {}
    PROVE  \E n \in S : \A m \in S : n <= m
<1>1. PICK n \in S : \A m \in S : <<m, n>> \notin Smaller
  BY WFMin, Below
<1>2. \A m \in S : ~(m < n)
  BY <1>1 DEF Smaller
<1> QED
  BY <1>2

LEMMA Induct ==
    ASSUME NEW S \in SUBSET Nat, 0 \in S, \A n \in S : n + 1 \in S
    PROVE  S = Nat
<1>1. SUFFICES ASSUME Nat \ S # {} PROVE FALSE
  OBVIOUS
<1>2. PICK n \in Nat \ S : \A m \in Nat \ S : n <= m
  BY <1>1, Least
<1>3. n - 1 \in S
  BY <1>2
<1> QED
  BY <1>2, <1>3

-----------------------------------------------------------------------------
\* Counting boundaries and ends of traps.

LEMMA DepthNat ==
    ASSUME NEW s, NEW q \in Int
    PROVE  IsFiniteSet(BarriersTo(s, q)) /\ Depth(s, q) \in Nat
<1>1. IsFiniteSet(1..q)
  BY FS_Interval
<1>2. BarriersTo(s, q) \in SUBSET (1..q)
  BY DEF BarriersTo
<1> QED
  BY <1>1, <1>2, FS_Subset, FS_CardinalityType DEF Depth

LEMMA DepthZero ==
    ASSUME NEW s
    PROVE  Depth(s, 0) = 0
<1>1. BarriersTo(s, 0) = {}
  BY DEF BarriersTo
<1> QED
  BY <1>1, FS_EmptySet DEF Depth

LEMMA DepthStep ==
    ASSUME NEW s, NEW q \in Nat \ {0}
    PROVE  Depth(s, q) = Depth(s, q - 1)
                           + (IF Low(s, q) \in Barriers THEN 1 ELSE 0)
<1>1. CASE Low(s, q) \in Barriers
  <2>1. BarriersTo(s, q) = BarriersTo(s, q - 1) \cup {q}
    BY <1>1 DEF BarriersTo
  <2>2. q \notin BarriersTo(s, q - 1)
    BY DEF BarriersTo
  <2>3. IsFiniteSet(BarriersTo(s, q - 1))
    BY DepthNat
  <2> QED
    BY <1>1, <2>1, <2>2, <2>3, FS_AddElement DEF Depth
<1>2. CASE Low(s, q) \notin Barriers
  BY <1>2, DepthNat DEF BarriersTo, Depth
<1> QED
  BY <1>1, <1>2

LEMMA DepthSame ==
    ASSUME NEW s, NEW t, NEW m, Same(s, t, m), NEW q \in 0..m
    PROVE  Depth(s, q) = Depth(t, q)
<1>1. BarriersTo(s, q) = BarriersTo(t, q)
  BY DEF Same, BarriersTo
<1> QED
  BY <1>1 DEF Depth

LEMMA DepthGrows ==
    ASSUME NEW s, NEW p \in Nat, NEW q \in Nat, p <= q
    PROVE  Depth(s, p) <= Depth(s, q)
<1>1. BarriersTo(s, p) \in SUBSET BarriersTo(s, q)
  BY DEF BarriersTo
<1> QED
  BY <1>1, DepthNat, FS_Subset DEF Depth

\* Above m there is no boundary.
LEMMA DepthFlat ==
    ASSUME NEW s, NEW m \in Nat, NEW n \in Nat, m <= n,
           \A q \in (m + 1)..n : Low(s, q) \notin Barriers
    PROVE  Depth(s, n) = Depth(s, m)
<1>1. BarriersTo(s, n) = BarriersTo(s, m)
  BY DEF BarriersTo
<1> QED
  BY <1>1 DEF Depth

\* Above m there is nothing but boundaries.
LEMMA DepthFull ==
    ASSUME NEW s, NEW m \in Nat, NEW n \in Nat, m <= n,
           \A q \in (m + 1)..n : Low(s, q) \in Barriers
    PROVE  Depth(s, n) = Depth(s, m) + (n - m)
<1> DEFINE U == (m + 1)..n
<1>1. BarriersTo(s, n) = BarriersTo(s, m) \cup U
  BY DEF BarriersTo
<1>2. BarriersTo(s, m) \cap U = {}
  BY DEF BarriersTo
<1>3. IsFiniteSet(U) /\ Cardinality(U) = n - m
  <2>1. m + 1 \in Int /\ n \in Int
    OBVIOUS
  <2>2. IsFiniteSet(U) /\ Cardinality(U) = IF m + 1 > n THEN 0 ELSE n - (m + 1) + 1
    BY <2>1, FS_Interval
  <2> HIDE DEF U
  <2> QED
    BY <2>2
<1>4. IsFiniteSet(BarriersTo(s, m)) /\ Depth(s, m) \in Nat
  BY DepthNat
<1> HIDE DEF U
<1>5. Cardinality(BarriersTo(s, m) \cup U)
        = Cardinality(BarriersTo(s, m)) + Cardinality(U) - Cardinality({})
  BY <1>2, <1>3, <1>4, FS_Union
<1>6. Cardinality({}) = 0
  BY FS_EmptySet
<1> QED
  BY <1>1, <1>3, <1>4, <1>5, <1>6 DEF Depth

LEMMA EndsNat ==
    ASSUME NEW s \in Seq(Items), NEW d
    PROVE  IsFiniteSet(EndsAt(s, d)) /\ Ends(s, d) \in Nat
<1>1. IsFiniteSet(1..Len(s))
  BY FS_Interval
<1>2. EndsAt(s, d) \in SUBSET (1..Len(s))
  BY DEF EndsAt
<1> QED
  BY <1>1, <1>2, FS_Subset, FS_CardinalityType DEF Ends

\* What is the same up to m has, beyond it, no end of a trap.
LEMMA EndsFewer ==
    ASSUME NEW s \in Seq(Items), NEW t \in Seq(Items), NEW m, NEW d,
           Same(s, t, m), \A q \in (m + 1)..Len(t) : Low(t, q) # "end_trap"
    PROVE  Ends(t, d) <= Ends(s, d)
<1>1. EndsAt(t, d) \in SUBSET EndsAt(s, d)
  <2>1. SUFFICES ASSUME NEW q \in EndsAt(t, d) PROVE q \in EndsAt(s, d)
    OBVIOUS
  <2>2. q \in 1..Len(t) /\ Low(t, q) = "end_trap" /\ Depth(t, q) = d
    BY <2>1 DEF EndsAt
  <2>3. m \in Nat /\ m <= Len(s) /\ m <= Len(t)
    BY DEF Same
  <2>4. q \in 1..m
    BY <2>2, <2>3
  <2>5. q \in 1..Len(s) /\ Low(s, q) = Low(t, q) /\ q \in 0..m
    BY <2>3, <2>4 DEF Same
  <2>6. Depth(s, q) = Depth(t, q)
    BY <2>5, DepthSame
  <2> QED
    BY <2>2, <2>5, <2>6 DEF EndsAt
<1> QED
  BY <1>1, EndsNat, FS_Subset DEF Ends

\* No end of a trap has more boundaries below it than there are.
LEMMA EndsNone ==
    ASSUME NEW s \in Seq(Items), NEW d \in Nat, d > Depth(s, Len(s))
    PROVE  Ends(s, d) = 0
<1>1. EndsAt(s, d) = {}
  <2>1. SUFFICES ASSUME NEW q \in EndsAt(s, d) PROVE FALSE
    OBVIOUS
  <2>2. q \in 1..Len(s) /\ Depth(s, q) = d
    BY <2>1 DEF EndsAt
  <2>3. q \in Nat /\ q <= Len(s)
    BY <2>2
  <2>4. Depth(s, q) <= Depth(s, Len(s))
    BY <2>3, DepthGrows
  <2> QED
    BY <2>2, <2>4, DepthNat
<1> QED
  BY <1>1, FS_EmptySet DEF Ends

\* Nor is any above a boundary that is on top.
LEMMA EndsOnTop ==
    ASSUME NEW s \in Seq(Items), s # <<>>, Low(s, Len(s)) \in Barriers
    PROVE  Ends(s, Depth(s, Len(s))) = 0
<1> DEFINE d == Depth(s, Len(s))
<1>1. EndsAt(s, d) = {}
  <2>1. SUFFICES ASSUME NEW q \in EndsAt(s, d) PROVE FALSE
    OBVIOUS
  <2>2. q \in 1..Len(s) /\ Depth(s, q) = d /\ Low(s, q) = "end_trap"
    BY <2>1 DEF EndsAt
  <2>3. q # Len(s)
    BY <2>2 DEF Barriers
  <2>4. q \in Nat /\ Len(s) - 1 \in Nat /\ q <= Len(s) - 1
    BY <2>2, <2>3
  <2>5. Depth(s, q) <= Depth(s, Len(s) - 1)
    BY <2>4, DepthGrows
  <2>6. d = Depth(s, Len(s) - 1) + 1
    BY DepthStep
  <2>7. Depth(s, Len(s) - 1) \in Nat
    BY <2>4, DepthNat
  <2> QED
    BY <2>2, <2>5, <2>6, <2>7
<1> QED
  BY <1>1, FS_EmptySet DEF Ends

\* The end of a trap goes onto the stack.
LEMMA EndsAdded ==
    ASSUME NEW s \in Seq(Items), NEW t \in Seq(Items), NEW m, NEW d \in Nat,
           m = Len(s), Same(s, t, m),
           NEW e \in (m + 1)..Len(t),
           \A q \in (m + 1)..Len(t) :
               Low(t, q) \notin Barriers /\ (q # e => Low(t, q) # "end_trap")
    PROVE  Ends(t, d) <= Ends(s, d) + (IF d = Depth(s, m) THEN 1 ELSE 0)
<1>1. m \in Nat /\ m <= Len(t)
  BY DEF Same
<1>2. ASSUME NEW q \in EndsAt(t, d)
      PROVE  q \in EndsAt(s, d) \/ (q = e /\ d = Depth(s, m))
  <2>1. q \in 1..Len(t) /\ Low(t, q) = "end_trap" /\ Depth(t, q) = d
    BY <1>2 DEF EndsAt
  <2>2. CASE q <= m
    BY <1>1, <2>1, <2>2, DepthSame DEF Same, EndsAt
  <2>3. CASE q > m
    <3>1. q = e /\ q \in Nat /\ m <= q
      BY <1>1, <2>1, <2>3
    <3>2. \A p \in (m + 1)..q : Low(t, p) \notin Barriers
      BY <1>1, <2>1
    <3>3. Depth(t, q) = Depth(t, m)
      BY <1>1, <3>1, <3>2, DepthFlat
    <3>4. m \in 0..m
      BY <1>1
    <3>5. Depth(s, m) = Depth(t, m)
      BY <3>4, DepthSame
    <3> QED
      BY <2>1, <3>1, <3>3, <3>5
  <2> QED
    BY <1>1, <2>1, <2>2, <2>3
<1>3. IsFiniteSet(EndsAt(s, d)) /\ Ends(s, d) \in Nat
  BY EndsNat
<1>4. CASE d = Depth(s, m)
  <2>1. EndsAt(t, d) \in SUBSET (EndsAt(s, d) \cup {e})
    BY <1>2
  <2>2. /\ IsFiniteSet(EndsAt(s, d) \cup {e})
        /\ Cardinality(EndsAt(s, d) \cup {e})
             = IF e \in EndsAt(s, d) THEN Ends(s, d) ELSE Ends(s, d) + 1
    BY <1>3, FS_AddElement DEF Ends
  <2>3. Ends(t, d) <= Cardinality(EndsAt(s, d) \cup {e})
    BY <2>1, <2>2, FS_Subset DEF Ends
  <2>4. Ends(t, d) \in Nat
    BY EndsNat
  <2> QED
    BY <1>3, <1>4, <2>2, <2>3, <2>4
<1>5. CASE d # Depth(s, m)
  BY <1>2, <1>5, <1>3, FS_Subset, EndsNat DEF Ends
<1> QED
  BY <1>4, <1>5

\* The end of a trap is taken off the stack.
LEMMA EndsTaken ==
    ASSUME NEW s \in Seq(Items), NEW t \in Seq(Items), Len(t) = Len(s) - 1,
           Same(s, t, Len(t)), Low(s, Len(s)) = "end_trap"
    PROVE  /\ Depth(t, Len(t)) = Depth(s, Len(s))
           /\ Ends(t, Depth(s, Len(s))) <= Ends(s, Depth(s, Len(s))) - 1
<1> DEFINE n == Len(s)
           d == Depth(s, n)
<1>1. Len(t) \in Nat /\ n \in Nat /\ Len(t) <= n
  OBVIOUS
<1>2. Depth(s, n) = Depth(s, n - 1)
  <2>1. Depth(s, n - 1) \in Nat
    BY <1>1, DepthNat
  <2>2. Depth(s, n) = Depth(s, n - 1) + 0
    BY DepthStep DEF Barriers
  <2> QED
    BY <2>1, <2>2
<1>3. Depth(t, Len(t)) = Depth(s, n - 1)
  BY <1>1, DepthSame
<1>4. n \in EndsAt(s, d)
  BY DEF EndsAt
<1>5. EndsAt(t, d) \in SUBSET (EndsAt(s, d) \ {n})
  <2>1. SUFFICES ASSUME NEW q \in EndsAt(t, d)
                 PROVE  q \in EndsAt(s, d) \ {n}
    OBVIOUS
  <2>2. q \in 1..Len(t) /\ Low(t, q) = "end_trap" /\ Depth(t, q) = d
    BY <2>1 DEF EndsAt
  <2>3. q \in 1..n /\ q # n /\ q \in 0..Len(t) /\ Low(s, q) = Low(t, q)
    BY <2>2 DEF Same
  <2>4. Depth(s, q) = Depth(t, q)
    BY <2>3, DepthSame
  <2> QED
    BY <2>2, <2>3, <2>4 DEF EndsAt
<1>6. IsFiniteSet(EndsAt(s, d)) /\ Ends(s, d) \in Nat
  BY EndsNat
<1>7. /\ IsFiniteSet(EndsAt(s, d) \ {n})
      /\ Cardinality(EndsAt(s, d) \ {n}) = Ends(s, d) - 1
  <2> HIDE DEF n, d
  <2> QED
    BY <1>4, <1>6, FS_RemoveElement DEF Ends
<1>8. Ends(t, d) <= Ends(s, d) - 1
  BY <1>5, <1>7, FS_Subset DEF Ends
<1> QED
  BY <1>2, <1>3, <1>8

\* The boundaries on the stack, counted from the bottom.
LEMMA BoundariesDepth ==
    ASSUME NEW s \in Seq(Items)
    PROVE  Boundaries(s) = Depth(s, Len(s))
<1> DEFINE n == Len(s)
           B == {i \in DOMAIN s : IsBoundary(s[i])}
           C == BarriersTo(s, n)
           f == [i \in C |-> n + 1 - i]
<1>1. n \in Nat /\ DOMAIN s = 1..n
  OBVIOUS
<1>2. \A i \in 1..n : n + 1 - i \in 1..n /\ n + 1 - (n + 1 - i) = i
  BY <1>1
<1>3. \A i \in 1..n : i \in C <=> n + 1 - i \in B
  <2>1. \A i \in 1..n : i \in C <=> IsBoundary(s[n + 1 - i])
    BY DEF Low, IsBoundary, Barriers, BarriersTo
  <2> HIDE DEF C, n
  <2> QED
    BY <1>1, <1>2, <2>1
<1>4. C \in SUBSET (1..n) /\ B \in SUBSET (1..n)
  BY DEF BarriersTo
<1> HIDE DEF C, B, n
<1>5. f \in Bijection(C, B)
  <2>1. f \in [C -> B]
    BY <1>3, <1>4
  <2>2. \A i, j \in C : f[i] = f[j] => i = j
    BY <1>1, <1>4
  <2>3. \A b \in B : \E i \in C : f[i] = b
    <3>1. SUFFICES ASSUME NEW b \in B PROVE \E i \in C : f[i] = b
      OBVIOUS
    <3>2. n + 1 - b \in C /\ n + 1 - (n + 1 - b) = b
      BY <1>2, <1>3, <1>4
    <3> QED
      BY <3>2
  <2> HIDE DEF f
  <2> QED
    BY <2>1, <2>2, <2>3 DEF Bijection, Injection, Surjection, IsInjective
<1>6. IsFiniteSet(C)
  BY <1>1, DepthNat DEF C
<1>7. Cardinality(B) = Cardinality(C)
  BY <1>5, <1>6, FS_Bijection DEF ExistsBijection
<1> QED
  BY <1>7 DEF B, C, n, Boundaries, Depth

-----------------------------------------------------------------------------
\* One iterator, a file, is on one of two stacks only.

Skip(p, q) == IF q < p THEN q ELSE q + 1

Deleted(s, t, p) ==
    /\ Len(t) = Len(s) - 1 /\ p \in 1..Len(s) /\ Low(s, p) = "file"
    /\ \A q \in 1..Len(t) : Low(t, q) = Low(s, Skip(p, q))

LEMMA DeletedDepth ==
    ASSUME NEW s \in Seq(Items), NEW t \in Seq(Items), NEW p,
           Deleted(s, t, p), NEW n \in 1..Len(t)
    PROVE  Depth(t, n) = Depth(s, Skip(p, n))
<1> DEFINE At(q) == Depth(s, IF q < p THEN q ELSE q + 1)
           S == {q \in Nat : q <= Len(t) => Depth(t, q) = At(q)}
<1>1. /\ Len(s) \in Nat /\ Len(t) \in Nat /\ Len(t) = Len(s) - 1
      /\ p \in 1..Len(s) /\ p \in Nat
  BY DEF Deleted
<1>2. 0 \in S
  BY DepthZero, <1>1
<1>3. ASSUME NEW q \in S PROVE q + 1 \in S
  <2>1. SUFFICES ASSUME q + 1 <= Len(t) PROVE Depth(t, q + 1) = At(q + 1)
    BY <1>3
  <2>2. q \in Nat /\ q + 1 \in 1..Len(t) /\ q <= Len(t)
    BY <1>1, <2>1
  <2>3. Depth(t, q) = At(q)
    BY <1>3, <2>2
  <2>4. Depth(t, q + 1)
          = Depth(t, q) + (IF Low(t, q + 1) \in Barriers THEN 1 ELSE 0)
    BY <2>2, DepthStep
  <2>5. Low(t, q + 1) = Low(s, Skip(p, q + 1))
    BY <2>2 DEF Deleted
  <2>6. CASE q + 1 < p
    BY <1>1, <2>2, <2>6, DepthStep, <2>3, <2>4, <2>5 DEF Skip
  <2>7. CASE ~(q + 1 < p)
    <3>1. Skip(p, q + 1) = (q + 1) + 1
      BY <2>7 DEF Skip
    <3>2. /\ (q + 1) + 1 \in Nat \ {0} /\ ((q + 1) + 1) - 1 = q + 1
          /\ q + 1 \in Nat \ {0} /\ (q + 1) - 1 = q
      BY <2>2
    <3>3. Depth(s, (q + 1) + 1)
            = Depth(s, q + 1)
              + (IF Low(s, (q + 1) + 1) \in Barriers THEN 1 ELSE 0)
      BY <3>2, DepthStep
    <3>4. Depth(s, q + 1) = At(q)
      <4>1. CASE q < p
        <5>1. q + 1 = p
          BY <1>1, <2>2, <2>7, <4>1
        <5>2. Low(s, q + 1) \notin Barriers
          BY <5>1 DEF Deleted, Barriers
        <5>3. Depth(s, q + 1) = Depth(s, q) + 0
          BY <3>2, <5>2, DepthStep
        <5>4. Depth(s, q) \in Nat
          BY <2>2, DepthNat
        <5> QED
          BY <4>1, <5>3, <5>4
      <4>2. CASE ~(q < p)
        BY <4>2
      <4> QED
        BY <4>1, <4>2
    <3> QED
      BY <2>3, <2>4, <2>5, <2>7, <3>1, <3>3, <3>4
  <2> QED
    BY <2>6, <2>7
<1>4. S = Nat
  <2> HIDE DEF S
  <2>1. S \in SUBSET Nat
    BY DEF S
  <2> QED
    BY <1>2, <1>3, <2>1, Induct
<1>5. n \in Nat /\ n <= Len(t)
  BY <1>1
<1> QED
  BY <1>4, <1>5 DEF Skip

LEMMA DeletedAll ==
    ASSUME NEW s \in Seq(Items), NEW t \in Seq(Items), NEW p, Deleted(s, t, p)
    PROVE  Depth(t, Len(t)) = Depth(s, Len(s))
<1>1. /\ Len(s) \in Nat /\ Len(t) \in Nat /\ Len(t) = Len(s) - 1
      /\ p \in 1..Len(s) /\ Low(s, p) \notin Barriers
  BY DEF Deleted, Barriers
<1>2. CASE p = Len(s)
  <2>1. Depth(s, Len(s)) = Depth(s, Len(s) - 1) + 0
    BY <1>1, <1>2, DepthStep
  <2>2. Depth(s, Len(s) - 1) \in Nat
    BY <1>1, DepthNat
  <2>3. CASE Len(t) = 0
    <3>1. Depth(t, 0) = 0 /\ Depth(s, 0) = 0
      BY DepthZero
    <3>2. Len(s) - 1 = 0
      BY <1>1, <2>3
    <3>3. Depth(s, Len(s)) = Depth(s, 0) + 0
      BY <2>1, <3>2, Zenon
    <3>4. Depth(t, Len(t)) = Depth(t, 0)
      BY <2>3, Zenon
    <3> QED
      BY <3>1, <3>3, <3>4
  <2>4. CASE Len(t) # 0
    BY <1>1, <1>2, <2>4, DeletedDepth, <2>1, <2>2 DEF Skip
  <2> QED
    BY <2>3, <2>4
<1>3. CASE p # Len(s)
  BY <1>1, <1>3, DeletedDepth DEF Skip
<1> QED
  BY <1>2, <1>3

LEMMA DeletedEnds ==
    ASSUME NEW s \in Seq(Items), NEW t \in Seq(Items), NEW p, NEW d,
           Deleted(s, t, p)
    PROVE  Ends(t, d) = Ends(s, d)
<1> DEFINE T == EndsAt(t, d)
           S == EndsAt(s, d)
           f == [q \in T |-> Skip(p, q)]
<1>1. /\ Len(s) \in Nat /\ Len(t) \in Nat /\ Len(t) = Len(s) - 1
      /\ p \in 1..Len(s) /\ Low(s, p) = "file"
  BY DEF Deleted
<1>2. ASSUME NEW q \in 1..Len(t)
      PROVE  /\ Skip(p, q) \in 1..Len(s) /\ Skip(p, q) # p
             /\ q \in T <=> Skip(p, q) \in S
  <2>1. Skip(p, q) \in 1..Len(s) /\ Skip(p, q) # p
    BY <1>1 DEF Skip
  <2>2. Low(t, q) = Low(s, Skip(p, q))
    BY DEF Deleted
  <2>3. Depth(t, q) = Depth(s, Skip(p, q))
    BY DeletedDepth
  <2> QED
    BY <2>1, <2>2, <2>3 DEF EndsAt
<1>3. \A i, j \in 1..Len(t) : Skip(p, i) = Skip(p, j) => i = j
  BY <1>1 DEF Skip
<1>4. \A j \in 1..Len(s) : j # p => \E i \in 1..Len(t) : Skip(p, i) = j
  <2>1. SUFFICES ASSUME NEW j \in 1..Len(s), j # p
                 PROVE  \E i \in 1..Len(t) : Skip(p, i) = j
    OBVIOUS
  <2>2. CASE j < p
    BY <1>1, <2>2 DEF Skip
  <2>3. CASE j > p
    BY <1>1, <2>3 DEF Skip
  <2> QED
    BY <1>1, <2>1, <2>2, <2>3
<1>5. T \in SUBSET (1..Len(t)) /\ S \in SUBSET (1..Len(s))
  BY DEF EndsAt
<1>6. p \notin S
  BY <1>1 DEF EndsAt
<1>7. IsFiniteSet(T)
  BY EndsNat
<1> HIDE DEF T, S
<1>8. f \in Bijection(T, S)
  <2>1. f \in [T -> S]
    BY <1>2, <1>5
  <2>2. \A i, j \in T : f[i] = f[j] => i = j
    BY <1>3, <1>5
  <2>3. \A j \in S : \E i \in T : f[i] = j
    <3>1. SUFFICES ASSUME NEW j \in S PROVE \E i \in T : f[i] = j
      OBVIOUS
    <3>2. PICK i \in 1..Len(t) : Skip(p, i) = j
      BY <1>4, <1>5, <1>6
    <3>3. i \in T
      BY <1>2, <3>2
    <3> QED
      BY <3>2, <3>3
  <2> HIDE DEF f
  <2> QED
    BY <2>1, <2>2, <2>3 DEF Bijection, Injection, Surjection, IsInjective
<1>9. Cardinality(S) = Cardinality(T)
  <2> HIDE DEF f
  <2> QED
    BY <1>7, <1>8, FS_Bijection DEF ExistsBijection
<1> QED
  BY <1>9 DEF S, T, Ends

-----------------------------------------------------------------------------
\* What an operation keeps of a stack: the boundaries, and no end of a trap is
\* added (Keeps), what ex has left at the bottom (Seals), and that there are no
\* return boundaries (Lives) or none below something else (ReturnsOnTop).

NoBegin(s) == \A q \in 1..Len(s) : Low(s, q) # "begin_trap"

Keeps(s, t) ==
    /\ t \in Seq(Items)
    /\ Depth(t, Len(t)) = Depth(s, Len(s))
    /\ NoBegin(s) => NoBegin(t)
    /\ \A d \in Nat : Ends(t, d) <= Ends(s, d)

Sealed(s, n) ==
    /\ n <= Len(s)
    /\ \A q \in 1..n : Low(s, q) = "return_boundary"

Seals(s, t) == \A n \in Nat : Sealed(s, n) => Sealed(t, n)

NoReturns(s) == \A q \in 1..Len(s) : Low(s, q) # "return_boundary"

ReturnsOnTop(s) ==
    \A p, q \in 1..Len(s) :
        Low(s, p) = "return_boundary" /\ p < q => Low(s, q) = "return_boundary"

Lives(s, t) == NoReturns(s) => NoReturns(t)

\* Everything that an operation on the iterators themselves keeps.
KeepsAll(s, t) == Keeps(s, t) /\ Seals(s, t) /\ Lives(s, t)

LEMMA KeepsChain ==
    ASSUME NEW s \in Seq(Items), NEW t, NEW u, Keeps(s, t), Keeps(t, u)
    PROVE  Keeps(s, u)
<1>1. t \in Seq(Items) /\ u \in Seq(Items)
  BY DEF Keeps
<1>2. \A d \in Nat : Ends(u, d) <= Ends(s, d)
  <2>1. SUFFICES ASSUME NEW d \in Nat PROVE Ends(u, d) <= Ends(s, d)
    OBVIOUS
  <2>2. Ends(u, d) <= Ends(t, d) /\ Ends(t, d) <= Ends(s, d)
    BY DEF Keeps
  <2>3. Ends(u, d) \in Nat /\ Ends(t, d) \in Nat /\ Ends(s, d) \in Nat
    BY <1>1, EndsNat
  <2> QED
    BY <2>2, <2>3
<1> QED
  BY <1>1, <1>2 DEF Keeps

\* Iterators that are no boundaries were popped.
LEMMA CutKeeps ==
    ASSUME NEW s \in Seq(Items), NEW t \in Seq(Items), Same(s, t, Len(t)),
           \A q \in (Len(t) + 1)..Len(s) : Low(s, q) \notin Barriers
    PROVE  KeepsAll(s, t)
<1>1. Len(s) \in Nat /\ Len(t) \in Nat /\ Len(t) <= Len(s)
  BY DEF Same
<1>2. \A q \in 1..Len(t) : q \in 1..Len(s) /\ Low(s, q) = Low(t, q)
  BY <1>1 DEF Same
<1>3. Depth(t, Len(t)) = Depth(s, Len(s))
  <2>1. Depth(s, Len(s)) = Depth(s, Len(t))
    BY <1>1, DepthFlat
  <2>2. Len(t) \in 0..Len(t)
    BY <1>1
  <2> QED
    BY <2>1, <2>2, DepthSame
<1>4. \A d \in Nat : Ends(t, d) <= Ends(s, d)
  BY <1>1, EndsFewer
<1>5. Keeps(s, t)
  BY <1>2, <1>3, <1>4 DEF Keeps, NoBegin
<1>6. Seals(s, t)
  <2>1. SUFFICES ASSUME NEW n \in Nat, Sealed(s, n) PROVE Sealed(t, n)
    BY DEF Seals
  <2>2. n <= Len(t)
    <3>1. SUFFICES ASSUME Len(t) < n PROVE FALSE
      BY <1>1
    <3>2. Len(t) + 1 \in 1..n /\ Len(t) + 1 \in (Len(t) + 1)..Len(s)
      BY <1>1, <2>1, <3>1 DEF Sealed
    <3> QED
      BY <2>1, <3>2 DEF Sealed, Barriers
  <2>3. \A q \in 1..n : q \in 1..Len(t)
    BY <1>1, <2>2
  <2> QED
    BY <1>2, <2>1, <2>2, <2>3 DEF Sealed
<1>7. Lives(s, t)
  BY <1>2 DEF Lives, NoReturns
<1> QED
  BY <1>5, <1>6, <1>7 DEF KeepsAll

\* Text was pushed.
LEMMA PushKeeps ==
    ASSUME NEW s \in Seq(Items), NEW t \in Seq(Items), Same(s, t, Len(s)),
           \A q \in (Len(s) + 1)..Len(t) : Low(t, q) \in Texts
    PROVE  KeepsAll(s, t)
<1>1. Len(s) \in Nat /\ Len(t) \in Nat /\ Len(s) <= Len(t)
  BY DEF Same
<1>2. \A q \in 1..Len(s) : Low(s, q) = Low(t, q)
  BY DEF Same
<1>3. \A q \in 1..Len(t) : q \in 1..Len(s) \/ q \in (Len(s) + 1)..Len(t)
  BY <1>1
<1>4. \A q \in (Len(s) + 1)..Len(t) :
         /\ Low(t, q) \notin Barriers /\ Low(t, q) # "begin_trap"
         /\ Low(t, q) # "end_trap" /\ Low(t, q) # "return_boundary"
  BY DEF Texts, Barriers
<1>5. Depth(t, Len(t)) = Depth(s, Len(s))
  <2>1. Depth(t, Len(t)) = Depth(t, Len(s))
    BY <1>1, <1>4, DepthFlat
  <2>2. Len(s) \in 0..Len(s)
    BY <1>1
  <2> QED
    BY <2>1, <2>2, DepthSame
<1>6. \A d \in Nat : Ends(t, d) <= Ends(s, d)
  BY <1>4, EndsFewer
<1>7. Keeps(s, t)
  BY <1>2, <1>3, <1>4, <1>5, <1>6 DEF Keeps, NoBegin
<1>8. Seals(s, t)
  <2>1. SUFFICES ASSUME NEW n \in Nat, Sealed(s, n) PROVE Sealed(t, n)
    BY DEF Seals
  <2>2. n <= Len(t) /\ \A q \in 1..n : q \in 1..Len(s)
    BY <1>1, <2>1 DEF Sealed
  <2> QED
    BY <1>2, <2>1, <2>2 DEF Sealed
<1>9. Lives(s, t)
  BY <1>2, <1>3, <1>4 DEF Lives, NoReturns
<1> QED
  BY <1>7, <1>8, <1>9 DEF KeepsAll

\* The kinds are as they were.
LEMMA SameKeeps ==
    ASSUME NEW s \in Seq(Items), NEW t \in Seq(Items), Len(t) = Len(s),
           \A i \in 1..Len(s) : t[i].kind = s[i].kind
    PROVE  KeepsAll(s, t)
<1>1. Len(s) \in Nat /\ \A q \in 1..Len(s) : Len(s) + 1 - q \in 1..Len(s)
  OBVIOUS
<1>2. Same(s, t, Len(s))
  BY <1>1 DEF Same, Low
<1>3. \A q \in (Len(s) + 1)..Len(t) : Low(t, q) \in Texts
  BY <1>1
<1> QED
  BY <1>2, <1>3, PushKeeps

\* A file was taken out, or put in: below everything only where nothing is
\* sealed.
LEMMA DeletedKeeps ==
    ASSUME NEW s \in Seq(Items), NEW t \in Seq(Items), NEW p, Deleted(s, t, p)
    PROVE  KeepsAll(s, t)
<1>1. /\ Len(s) \in Nat /\ Len(t) \in Nat /\ Len(t) = Len(s) - 1
      /\ p \in 1..Len(s) /\ Low(s, p) = "file"
      /\ \A q \in 1..Len(t) : Low(t, q) = Low(s, Skip(p, q))
  BY DEF Deleted
<1>2. \A q \in 1..Len(t) : Skip(p, q) \in 1..Len(s)
  BY <1>1 DEF Skip
<1>3. \A d \in Nat : Ends(t, d) <= Ends(s, d)
  BY DeletedEnds, EndsNat
<1>4. Depth(t, Len(t)) = Depth(s, Len(s))
  BY DeletedAll
<1>5. Keeps(s, t)
  BY <1>1, <1>2, <1>3, <1>4 DEF Keeps, NoBegin
<1>6. Seals(s, t)
  <2>1. SUFFICES ASSUME NEW n \in Nat, Sealed(s, n) PROVE Sealed(t, n)
    BY DEF Seals
  <2>2. n < p
    BY <1>1, <2>1 DEF Sealed
  <2>3. n <= Len(t) /\ \A q \in 1..n : q \in 1..Len(t) /\ Skip(p, q) = q
    BY <1>1, <2>2 DEF Skip
  <2> QED
    BY <1>1, <2>1, <2>3 DEF Sealed
<1>7. Lives(s, t)
  BY <1>1, <1>2 DEF Lives, NoReturns
<1> QED
  BY <1>5, <1>6, <1>7 DEF KeepsAll

LEMMA AddedKeeps ==
    ASSUME NEW s \in Seq(Items), NEW t \in Seq(Items), NEW p, Deleted(t, s, p)
    PROVE  Keeps(s, t) /\ Lives(s, t)
<1>1. /\ Len(s) \in Nat /\ Len(t) \in Nat /\ Len(s) = Len(t) - 1
      /\ p \in 1..Len(t) /\ Low(t, p) = "file"
      /\ \A q \in 1..Len(s) : Low(s, q) = Low(t, Skip(p, q))
  BY DEF Deleted
<1>2. \A j \in 1..Len(t) : j = p \/ \E q \in 1..Len(s) : Skip(p, q) = j
  <2>1. SUFFICES ASSUME NEW j \in 1..Len(t), j # p
                 PROVE  \E q \in 1..Len(s) : Skip(p, q) = j
    OBVIOUS
  <2>2. CASE j < p
    BY <1>1, <2>2 DEF Skip
  <2>3. CASE j > p
    <3>1. j - 1 \in 1..Len(s) /\ Skip(p, j - 1) = j
      BY <1>1, <2>3 DEF Skip
    <3> QED
      BY <3>1
  <2> QED
    BY <1>1, <2>1, <2>2, <2>3
<1>3. \A d \in Nat : Ends(t, d) <= Ends(s, d)
  BY DeletedEnds, EndsNat
<1>4. Depth(t, Len(t)) = Depth(s, Len(s))
  BY DeletedAll
<1>5. Keeps(s, t)
  BY <1>1, <1>2, <1>3, <1>4 DEF Keeps, NoBegin
<1>7. Lives(s, t)
  BY <1>1, <1>2 DEF Lives, NoReturns
<1> QED
  BY <1>5, <1>7

-----------------------------------------------------------------------------
\* The inductive invariant.

RunRecords ==
    [kind : {"main", "while", "exit"}, size : Nat, traps : Nat, left : Int]

\* Position x from the bottom, if it is not 0, is that of exit_troff; all of
\* the other runs but the main one are loops.
KindOf(r, x, i) ==
    IF i = Len(r) THEN "main"
    ELSE IF i = Len(r) + 1 - x THEN "exit" ELSE "while"

WellRun(r, x) ==
    /\ r \in Seq(RunRecords) /\ Len(r) > 0
    /\ x \in 0..Len(r) /\ x # 1
    /\ \A i \in 1..Len(r) : r[i].kind = KindOf(r, x, i)

LoopsOf(r, x) == Len(r) - (IF x = 0 THEN 1 ELSE 2)

\* What is on top belongs to the token.
Fits(s, t) ==
    /\ t = "eof" => s = <<>> \/ IsBoundary(s[1])
    /\ t \in {"line", "cut"} => s # <<>> /\ s[1].kind \in Texts /\ s[1].left > 0
    /\ t \in Marks => s # <<>> /\ s[1].kind = t
    /\ t = "test" => Len(s) > 1 /\ s[1].kind = "loop" /\ IsBoundary(s[2])
    /\ \A q \in 1..Len(s) :
          Low(s, q) = "begin_trap" => q = Len(s) /\ t = "begin_trap"

\* An end with d boundaries below it is that of a trap whose beginning was
\* read by the run that has so many loops below it, or is on top.
Matched(s, r, x, more) ==
    \A d \in 0..LoopsOf(r, x) :
        Ends(s, d) <= r[LoopsOf(r, x) + 1 - d].traps
                        + (IF d = LoopsOf(r, x) THEN more ELSE 0)

\* What holds of a stack as well before its top is read.
Stacked(s, r, x, p) ==
    /\ s \in Seq(Items) /\ WellRun(r, x)
    /\ Depth(s, Len(s)) = LoopsOf(r, x)
    /\ p = "document" => x = 0 /\ ReturnsOnTop(s)
    /\ p = "exit" => x # 0 /\ ("nx_after_ex" \notin Extras => Sealed(s, x - 2))

Half(s, r, x, w, p) ==
    /\ Stacked(s, r, x, p)
    /\ NoBegin(s) /\ Matched(s, r, x, 0)
    /\ p = "document" => ~w

Whole(s, t, r, x, w, p) ==
    /\ Stacked(s, r, x, p)
    /\ t \in {"line", "cut", "begin_trap", "end_trap", "eof", "test"}
    /\ w \in BOOLEAN
    /\ Fits(s, t)
    /\ Matched(s, r, x, IF t = "begin_trap" THEN 1 ELSE 0)
    /\ t = "test" => r[1].kind = "while"
    /\ p = "document" =>
          /\ NoReturns(s) \/ (t = "eof" /\ ~w)
          /\ w => t = "eof" /\ r[1].kind = "while"

IInv ==
    Interpreting =>
        \E x \in 0..Len(runs) : Whole(stack, tok, runs, x, want_loop_break, phase)

-----------------------------------------------------------------------------
\* Where the searches of the stack end.

LEMMA FirstOfSet ==
    ASSUME NEW n \in Nat, NEW D \in SUBSET (1..n)
    PROVE  \E i \in 1..(n + 1) : /\ i <= n => i \in D
                                 /\ \A j \in 1..(i - 1) : j \notin D
<1>1. CASE D = {}
  BY <1>1
<1>2. CASE D # {}
  <2>1. D \in SUBSET Nat
    OBVIOUS
  <2>2. PICK i \in D : \A j \in D : i <= j
    BY <1>2, <2>1, Least
  <2>3. i \in 1..(n + 1)
    OBVIOUS
  <2>4. \A j \in 1..(i - 1) : j \notin D
    BY <2>2
  <2> QED
    BY <2>3, <2>4
<1> QED
  BY <1>1, <1>2

StopAt(s) == FirstIn(s, Stops)
BoundaryAt(s) == FirstIn(s, IsBoundary)
FileAt(s) == FirstIn(s, IsFile)
MacroAt(s) == FirstIn(s, IsMacro)

LEMMA StopFound ==
    ASSUME NEW s \in Seq(Items)
    PROVE  /\ StopAt(s) \in 1..(Len(s) + 1)
           /\ StopAt(s) <= Len(s) => Stops(s[StopAt(s)])
           /\ \A j \in 1..(StopAt(s) - 1) : ~Stops(s[j])
<1> DEFINE n == Len(s)
           D == {i \in 1..n : Stops(s[i])}
           IsFirst(i) == /\ i <= Len(s) => Stops(s[i])
                         /\ \A j \in 1..(i - 1) : ~Stops(s[j])
<1>1. n \in Nat /\ D \in SUBSET (1..n)
  OBVIOUS
<1>2. PICK i \in 1..(n + 1) : (i <= n => i \in D)
                              /\ \A j \in 1..(i - 1) : j \notin D
  <2> HIDE DEF n, D
  <2> QED
    BY <1>1, FirstOfSet
<1>3. IsFirst(i)
  BY <1>1, <1>2
<1>4. StopAt(s) = CHOOSE k \in 1..(Len(s) + 1) : IsFirst(k)
  BY DEF StopAt, FirstIn
<1>5. StopAt(s) \in 1..(Len(s) + 1) /\ IsFirst(StopAt(s))
  <2> HIDE DEF IsFirst
  <2> QED
    BY <1>3, <1>4
<1> QED
  BY <1>5

LEMMA BoundaryFound ==
    ASSUME NEW s \in Seq(Items)
    PROVE  /\ BoundaryAt(s) \in 1..(Len(s) + 1)
           /\ BoundaryAt(s) <= Len(s) => IsBoundary(s[BoundaryAt(s)])
           /\ \A j \in 1..(BoundaryAt(s) - 1) : ~IsBoundary(s[j])
<1> DEFINE n == Len(s)
           D == {i \in 1..n : IsBoundary(s[i])}
           IsFirst(i) == /\ i <= Len(s) => IsBoundary(s[i])
                         /\ \A j \in 1..(i - 1) : ~IsBoundary(s[j])
<1>1. n \in Nat /\ D \in SUBSET (1..n)
  OBVIOUS
<1>2. PICK i \in 1..(n + 1) : (i <= n => i \in D)
                              /\ \A j \in 1..(i - 1) : j \notin D
  <2> HIDE DEF n, D
  <2> QED
    BY <1>1, FirstOfSet
<1>3. IsFirst(i)
  BY <1>1, <1>2
<1>4. BoundaryAt(s) = CHOOSE k \in 1..(Len(s) + 1) : IsFirst(k)
  BY DEF BoundaryAt, FirstIn
<1>5. BoundaryAt(s) \in 1..(Len(s) + 1) /\ IsFirst(BoundaryAt(s))
  <2> HIDE DEF IsFirst
  <2> QED
    BY <1>3, <1>4
<1> QED
  BY <1>5

LEMMA FileFound ==
    ASSUME NEW s \in Seq(Items)
    PROVE  /\ FileAt(s) \in 1..(Len(s) + 1)
           /\ FileAt(s) <= Len(s) => IsFile(s[FileAt(s)])
           /\ \A j \in 1..(FileAt(s) - 1) : ~IsFile(s[j])
<1> DEFINE n == Len(s)
           D == {i \in 1..n : IsFile(s[i])}
           IsFirst(i) == /\ i <= Len(s) => IsFile(s[i])
                         /\ \A j \in 1..(i - 1) : ~IsFile(s[j])
<1>1. n \in Nat /\ D \in SUBSET (1..n)
  OBVIOUS
<1>2. PICK i \in 1..(n + 1) : (i <= n => i \in D)
                              /\ \A j \in 1..(i - 1) : j \notin D
  <2> HIDE DEF n, D
  <2> QED
    BY <1>1, FirstOfSet
<1>3. IsFirst(i)
  BY <1>1, <1>2
<1>4. FileAt(s) = CHOOSE k \in 1..(Len(s) + 1) : IsFirst(k)
  BY DEF FileAt, FirstIn
<1>5. FileAt(s) \in 1..(Len(s) + 1) /\ IsFirst(FileAt(s))
  <2> HIDE DEF IsFirst
  <2> QED
    BY <1>3, <1>4
<1> QED
  BY <1>5

LEMMA MacroFound ==
    ASSUME NEW s \in Seq(Items)
    PROVE  /\ MacroAt(s) \in 1..(Len(s) + 1)
           /\ MacroAt(s) <= Len(s) => IsMacro(s[MacroAt(s)])
           /\ \A j \in 1..(MacroAt(s) - 1) : ~IsMacro(s[j])
<1> DEFINE n == Len(s)
           D == {i \in 1..n : IsMacro(s[i])}
           IsFirst(i) == /\ i <= Len(s) => IsMacro(s[i])
                         /\ \A j \in 1..(i - 1) : ~IsMacro(s[j])
<1>1. n \in Nat /\ D \in SUBSET (1..n)
  OBVIOUS
<1>2. PICK i \in 1..(n + 1) : (i <= n => i \in D)
                              /\ \A j \in 1..(i - 1) : j \notin D
  <2> HIDE DEF n, D
  <2> QED
    BY <1>1, FirstOfSet
<1>3. IsFirst(i)
  BY <1>1, <1>2
<1>4. MacroAt(s) = CHOOSE k \in 1..(Len(s) + 1) : IsFirst(k)
  BY DEF MacroAt, FirstIn
<1>5. MacroAt(s) \in 1..(Len(s) + 1) /\ IsFirst(MacroAt(s))
  <2> HIDE DEF IsFirst
  <2> QED
    BY <1>3, <1>4
<1> QED
  BY <1>5

LEMMA FromTopSame ==
    ASSUME NEW s \in Seq(Items), NEW i \in 1..(Len(s) + 1)
    PROVE  /\ FromTop(s, i) \in Seq(Items)
           /\ Len(FromTop(s, i)) = Len(s) + 1 - i
           /\ Same(s, FromTop(s, i), Len(s) + 1 - i)
           /\ \A j \in 1..(Len(s) + 1 - i) : FromTop(s, i)[j] = s[i - 1 + j]
<1> DEFINE n == Len(s)
           t == FromTop(s, i)
           m == n + 1 - i
<1>1. n \in Nat /\ i \in Nat /\ m \in 0..n
  OBVIOUS
<1>2. t \in Seq(Items) /\ Len(t) = m /\ \A j \in 1..m : t[j] = s[i - 1 + j]
  BY DEF FromTop
<1>3. \A q \in 1..m : /\ m + 1 - q \in 1..m
                      /\ i - 1 + (m + 1 - q) = n + 1 - q
  BY <1>1
<1>4. \A q \in 1..m : Low(s, q) = Low(t, q)
  <2>1. \A q \in 1..m : t[m + 1 - q] = s[n + 1 - q]
    <3> HIDE DEF n, m, t
    <3> QED
      BY <1>2, <1>3, ZenonT(30)
  <2>2. \A q \in 1..m : Low(t, q) = t[m + 1 - q].kind
                        /\ Low(s, q) = s[n + 1 - q].kind
    BY <1>2 DEF Low
  <2> HIDE DEF n, m, t
  <2> QED
    BY <2>1, <2>2
<1>5. m \in 0..Len(s) /\ m \in 0..Len(t)
  BY <1>1, <1>2
<1>6. Same(s, t, m)
  BY <1>4, <1>5 DEF Same
<1> QED
  BY <1>2, <1>6

LEMMA OnTopSame ==
    ASSUME NEW s \in Seq(Items), NEW a \in Seq(Items)
    PROVE  /\ a \o s \in Seq(Items)
           /\ Len(a \o s) = Len(a) + Len(s)
           /\ Same(s, a \o s, Len(s))
           /\ \A j \in 1..Len(a) : (a \o s)[j] = a[j]
           /\ \A j \in 1..Len(s) : (a \o s)[Len(a) + j] = s[j]
           /\ \A q \in (Len(s) + 1)..(Len(a) + Len(s)) :
                 /\ Len(a) + Len(s) + 1 - q \in 1..Len(a)
                 /\ Low(a \o s, q) = a[Len(a) + Len(s) + 1 - q].kind
<1> DEFINE n == Len(s)
           k == Len(a)
           t == a \o s
<1>1. n \in Nat /\ k \in Nat
  OBVIOUS
<1>2. /\ t \in Seq(Items) /\ Len(t) = k + n
      /\ \A j \in 1..k : t[j] = a[j]
      /\ \A j \in 1..n : t[k + j] = s[j]
  OBVIOUS
<1>3. \A q \in 1..n : n + 1 - q \in 1..n /\ k + n + 1 - q = k + (n + 1 - q)
  BY <1>1
<1>4. \A q \in 1..n : Low(s, q) = Low(t, q)
  <2>1. \A q \in 1..n : t[k + n + 1 - q] = s[n + 1 - q]
    <3> HIDE DEF n, k, t
    <3> QED
      BY <1>2, <1>3
  <2>2. \A q \in 1..n : Low(t, q) = t[k + n + 1 - q].kind
                        /\ Low(s, q) = s[n + 1 - q].kind
    BY <1>2 DEF Low
  <2> HIDE DEF n, k, t
  <2> QED
    BY <2>1, <2>2
<1>5. n \in 0..Len(s) /\ n \in 0..Len(t)
  BY <1>1, <1>2
<1>6. Same(s, t, n)
  BY <1>4, <1>5 DEF Same
<1>7. \A q \in (n + 1)..(k + n) : k + n + 1 - q \in 1..k
  BY <1>1
<1>8. \A q \in (n + 1)..(k + n) : Low(t, q) = a[k + n + 1 - q].kind
  <2>1. \A q \in (n + 1)..(k + n) : Low(t, q) = t[k + n + 1 - q].kind
    BY <1>2 DEF Low
  <2> HIDE DEF n, k, t
  <2> QED
    BY <1>2, <1>7, <2>1
<1> QED
  BY <1>2, <1>6, <1>7, <1>8

-----------------------------------------------------------------------------
\* What is popped.

LEMMA PopKeeps ==
    ASSUME NEW s \in Seq(Items), NEW i \in 1..(Len(s) + 1),
           \A j \in 1..(i - 1) : ~IsBoundary(s[j])
    PROVE  KeepsAll(s, FromTop(s, i))
<1> DEFINE t == FromTop(s, i)
<1>1. /\ t \in Seq(Items) /\ Len(t) = Len(s) + 1 - i /\ Same(s, t, Len(t))
      /\ Len(s) \in Nat
  BY FromTopSame
<1>2. \A q \in (Len(t) + 1)..Len(s) : Low(s, q) \notin Barriers
  <2>1. SUFFICES ASSUME NEW q \in (Len(t) + 1)..Len(s)
                 PROVE  Low(s, q) \notin Barriers
    OBVIOUS
  <2>2. Len(s) + 1 - q \in 1..(i - 1)
    BY <1>1
  <2>3. ~IsBoundary(s[Len(s) + 1 - q])
    BY <2>2
  <2> QED
    BY <2>3 DEF IsBoundary, Low, Barriers
<1> QED
  BY <1>1, <1>2, CutKeeps

LEMMA PopReturns ==
    ASSUME NEW s \in Seq(Items), NEW i \in 1..(Len(s) + 1), ReturnsOnTop(s)
    PROVE  ReturnsOnTop(FromTop(s, i))
<1> DEFINE t == FromTop(s, i)
<1>1. /\ Len(t) = Len(s) + 1 - i /\ Same(s, t, Len(t)) /\ Len(s) \in Nat
  BY FromTopSame
<1>2. \A q \in 1..Len(t) : q \in 1..Len(s) /\ Low(t, q) = Low(s, q)
  BY <1>1 DEF Same
<1> HIDE DEF t
<1> QED
  BY <1>2 DEF ReturnsOnTop, t

LEMMA WholeIsAll ==
    ASSUME NEW s \in Seq(Items)
    PROVE  FromTop(s, 1) = s
BY DEF FromTop

LEMMA UnreadKeeps ==
    ASSUME NEW s \in Seq(Items)
    PROVE  /\ KeepsAll(s, Unread(s))
           /\ Unread(s) = <<>> \/ Stops(Unread(s)[1])
           /\ ReturnsOnTop(s) => ReturnsOnTop(Unread(s))
           /\ s # <<>> /\ Stops(s[1]) => Unread(s) = s
<1> DEFINE i == StopAt(s)
           t == FromTop(s, i)
<1>1. /\ i \in 1..(Len(s) + 1) /\ (i <= Len(s) => Stops(s[i]))
      /\ \A j \in 1..(i - 1) : ~Stops(s[j])
  BY StopFound
<1>2. Unread(s) = t
  BY DEF Unread, StopAt
<1>3. KeepsAll(s, t)
  <2>1. \A j \in 1..(i - 1) : ~IsBoundary(s[j])
    BY <1>1 DEF Stops
  <2> HIDE DEF i
  <2> QED
    BY <1>1, <2>1, PopKeeps
<1>4. t = <<>> \/ Stops(t[1])
  <2> HIDE DEF i
  <2>1. /\ t \in Seq(Items) /\ Len(t) = Len(s) + 1 - i /\ Len(s) \in Nat
        /\ \A j \in 1..(Len(s) + 1 - i) : t[j] = s[i - 1 + j]
    BY <1>1, FromTopSame
  <2>2. CASE i <= Len(s)
    <3>1. 1 \in 1..(Len(s) + 1 - i) /\ i - 1 + 1 = i
      BY <1>1, <2>1, <2>2
    <3>2. t[1] = s[i]
      <4> HIDE DEF t
      <4> QED
        BY <2>1, <3>1
    <3> QED
      BY <1>1, <2>2, <3>2
  <2>3. CASE ~(i <= Len(s))
    <3>1. Len(t) = 0
      BY <1>1, <2>1, <2>3
    <3> HIDE DEF t
    <3> QED
      BY <2>1, <3>1
  <2> QED
    BY <2>2, <2>3
<1>5. ReturnsOnTop(s) => ReturnsOnTop(t)
  <2> HIDE DEF i
  <2> QED
    BY <1>1, PopReturns
<1>6. s # <<>> /\ Stops(s[1]) => t = s
  <2>1. SUFFICES ASSUME s # <<>>, Stops(s[1]) PROVE t = s
    OBVIOUS
  <2>2. i = 1
    BY <1>1, <2>1
  <2> QED
    BY <2>2, WholeIsAll
<1> QED
  BY <1>2, <1>3, <1>4, <1>5, <1>6

LEMMA DrainedKeeps ==
    ASSUME NEW s \in Seq(Items)
    PROVE  /\ KeepsAll(s, Drained(s))
           /\ Drained(s) = <<>> \/ IsBoundary(Drained(s)[1])
           /\ Len(s) > 1 /\ ~IsBoundary(s[1]) /\ IsBoundary(s[2]) =>
                 Drained(s) = Tail(s)
<1> DEFINE i == BoundaryAt(s)
           t == FromTop(s, i)
<1>1. /\ i \in 1..(Len(s) + 1) /\ (i <= Len(s) => IsBoundary(s[i]))
      /\ \A j \in 1..(i - 1) : ~IsBoundary(s[j])
  BY BoundaryFound
<1>2. Drained(s) = t
  BY DEF Drained, BoundaryAt
<1>3. KeepsAll(s, t)
  <2> HIDE DEF i
  <2> QED
    BY <1>1, PopKeeps
<1>4. t = <<>> \/ IsBoundary(t[1])
  <2> HIDE DEF i
  <2>1. /\ t \in Seq(Items) /\ Len(t) = Len(s) + 1 - i /\ Len(s) \in Nat
        /\ \A j \in 1..(Len(s) + 1 - i) : t[j] = s[i - 1 + j]
    BY <1>1, FromTopSame
  <2>2. CASE i <= Len(s)
    <3>1. 1 \in 1..(Len(s) + 1 - i) /\ i - 1 + 1 = i
      BY <1>1, <2>1, <2>2
    <3>2. t[1] = s[i]
      <4> HIDE DEF t
      <4> QED
        BY <2>1, <3>1
    <3> QED
      BY <1>1, <2>2, <3>2
  <2>3. CASE ~(i <= Len(s))
    <3>1. Len(t) = 0
      BY <1>1, <2>1, <2>3
    <3> HIDE DEF t
    <3> QED
      BY <2>1, <3>1
  <2> QED
    BY <2>2, <2>3
<1>5. Len(s) > 1 /\ ~IsBoundary(s[1]) /\ IsBoundary(s[2]) => t = Tail(s)
  <2>1. SUFFICES ASSUME Len(s) > 1, ~IsBoundary(s[1]), IsBoundary(s[2])
                 PROVE  t = Tail(s)
    OBVIOUS
  <2>2. i = 2
    BY <1>1, <2>1
  <2>3. FromTop(s, 2) = Tail(s)
    BY <2>1 DEF FromTop
  <2> QED
    BY <2>2, <2>3
<1> QED
  BY <1>2, <1>3, <1>4, <1>5

\* An iterator without anything left is passed over.
LEMMA UnreadTail ==
    ASSUME NEW E, NEW s \in Seq(E), s # <<>>, ~Stops(s[1])
    PROVE  Unread(s) = Unread(Tail(s))
<1> DEFINE n == Len(s)
           t == Tail(s)
           IsS(i) == /\ i <= n => Stops(s[i])
                     /\ \A j \in 1..(i - 1) : ~Stops(s[j])
           IsT(i) == /\ i <= n - 1 => Stops(t[i])
                     /\ \A j \in 1..(i - 1) : ~Stops(t[j])
           D == {i \in 1..(n - 1) : Stops(t[i])}
<1>1. n \in Nat \ {0} /\ t \in Seq(E) /\ Len(t) = n - 1
      /\ \A j \in 1..(n - 1) : t[j] = s[j + 1]
  OBVIOUS
<1>2. PICK i \in 1..n : (i <= n - 1 => i \in D)
                        /\ \A j \in 1..(i - 1) : j \notin D
  <2>1. n - 1 \in Nat /\ D \in SUBSET (1..(n - 1)) /\ (n - 1) + 1 = n
    BY <1>1
  <2> HIDE DEF n, D
  <2>2. \E i \in 1..((n - 1) + 1) : (i <= n - 1 => i \in D)
                                    /\ \A j \in 1..(i - 1) : j \notin D
    BY <2>1, FirstOfSet
  <2> QED
    BY <2>1, <2>2
<1>3. IsT(i)
  <2>1. \A j \in 1..(i - 1) : j \in 1..(n - 1)
    BY <1>1
  <2> HIDE DEF n, t
  <2> QED
    BY <1>2, <2>1
<1>4. IsS(i + 1)
  <2>1. i + 1 <= n => Stops(s[i + 1])
    <3>1. SUFFICES ASSUME i + 1 <= n PROVE Stops(s[i + 1])
      OBVIOUS
    <3>2. i <= n - 1 /\ i \in 1..(n - 1)
      BY <1>1, <3>1
    <3> HIDE DEF n, t
    <3>3. t[i] = s[i + 1]
      BY <1>1, <3>2
    <3> QED
      BY <1>3, <3>2, <3>3
  <2>2. ASSUME NEW j \in 1..((i + 1) - 1) PROVE ~Stops(s[j])
    <3>1. CASE j = 1
      BY <3>1
    <3>2. CASE j # 1
      <4>1. j - 1 \in 1..(i - 1) /\ j - 1 \in 1..(n - 1) /\ (j - 1) + 1 = j
        BY <1>1, <3>2
      <4> HIDE DEF n, t
      <4>2. t[j - 1] = s[j]
        BY <1>1, <4>1
      <4> QED
        BY <1>3, <4>1, <4>2
    <3> QED
      BY <3>1, <3>2
  <2> QED
    BY <2>1, <2>2
<1>5. ASSUME NEW k \in 1..(n + 1), IsS(k) PROVE k = i + 1
  <2>1. k >= i + 1
    <3>1. SUFFICES ASSUME k < i + 1 PROVE FALSE
      BY <1>1
    <3>2. k \in 1..((i + 1) - 1) /\ k <= n
      BY <1>1, <3>1
    <3> QED
      BY <1>4, <1>5, <3>2
  <2>2. k <= i + 1
    <3>1. SUFFICES ASSUME i + 1 < k PROVE FALSE
      BY <1>1
    <3>2. i + 1 \in 1..(k - 1) /\ i + 1 <= n
      BY <1>1, <3>1
    <3> QED
      BY <1>4, <1>5, <3>2
  <2> QED
    BY <1>1, <2>1, <2>2
<1>6. ASSUME NEW k \in 1..n, IsT(k) PROVE k = i
  <2>1. k >= i
    <3>1. SUFFICES ASSUME k < i PROVE FALSE
      BY <1>1
    <3>2. k \in 1..(i - 1) /\ k <= n - 1
      BY <1>1, <3>1
    <3> QED
      BY <1>3, <1>6, <3>2
  <2>2. k <= i
    <3>1. SUFFICES ASSUME i < k PROVE FALSE
      BY <1>1
    <3>2. i \in 1..(k - 1) /\ i <= n - 1
      BY <1>1, <3>1
    <3> QED
      BY <1>3, <1>6, <3>2
  <2> QED
    BY <1>1, <2>1, <2>2
<1>7. FirstIn(s, Stops) = i + 1
  <2>1. FirstIn(s, Stops) = CHOOSE k \in 1..(n + 1) : IsS(k)
    BY DEF FirstIn
  <2>2. i + 1 \in 1..(n + 1)
    BY <1>1
  <2> HIDE DEF IsS, n
  <2> QED
    BY <1>4, <1>5, <2>1, <2>2
<1>8. FirstIn(t, Stops) = i
  <2>1. FirstIn(t, Stops) = CHOOSE k \in 1..(Len(t) + 1) :
             /\ k <= Len(t) => Stops(t[k])
             /\ \A j \in 1..(k - 1) : ~Stops(t[j])
    BY DEF FirstIn
  <2>2. 1..(Len(t) + 1) = 1..n /\ Len(t) = n - 1
    BY <1>1
  <2> HIDE DEF n, t
  <2>3. FirstIn(t, Stops) = CHOOSE k \in 1..n : IsT(k)
    BY <2>1, <2>2
  <2> HIDE DEF IsT
  <2> QED
    BY <1>3, <1>6, <2>3
<1>9. FromTop(s, i + 1) = FromTop(t, i)
  BY <1>1 DEF FromTop
<1> QED
  BY <1>7, <1>8, <1>9 DEF Unread

-----------------------------------------------------------------------------
\* The operations of input_stack.

LEMMA TookKeeps ==
    ASSUME NEW s \in Seq(Items), NEW n \in Nat, s # <<>>, s[1].kind \in Texts,
           n <= s[1].left
    PROVE  Took(s, n) \in Seq(Items) /\ KeepsAll(s, Took(s, n))
           /\ Took(s, n) # <<>> /\ Took(s, n)[1].kind = s[1].kind
<1> DEFINE t == Took(s, n)
           it == [s[1] EXCEPT !.left = @ - n]
<1>1. s[1] \in Items /\ 1 \in 1..Len(s) /\ Len(s) \in Nat
  OBVIOUS
<1>2. it \in Items /\ it.kind = s[1].kind
  <2>1. s[1].left - n \in Nat
    BY <1>1 DEF Items
  <2> QED
    BY <1>1, <2>1 DEF Items, Texts, Marks
<1>3. t = [s EXCEPT ![1] = it]
  BY DEF Took
<1> HIDE DEF it
<1>4. t \in Seq(Items) /\ Len(t) = Len(s) /\ t[1] = it
      /\ \A i \in 1..Len(s) : i # 1 => t[i] = s[i]
  BY <1>1, <1>2, <1>3
<1>5. \A i \in 1..Len(s) : t[i].kind = s[i].kind
  <2> HIDE DEF t
  <2> QED
    BY <1>2, <1>4
<1>6. KeepsAll(s, t)
  BY <1>4, <1>5, SameKeeps
<1> HIDE DEF t
<1>7. t # <<>> /\ t[1].kind = s[1].kind
  BY <1>1, <1>2, <1>4
<1> QED
  BY <1>4, <1>6, <1>7 DEF t

LEMMA ShiftedKeeps ==
    ASSUME NEW s \in Seq(Items), NEW n \in Nat
    PROVE  Shifted(s, n) \in Seq(Items) /\ KeepsAll(s, Shifted(s, n))
<1> DEFINE i == MacroAt(s)
           a == IF n < s[i].args THEN s[i].args - n ELSE 0
           it == [s[i] EXCEPT !.args = a]
           t == Shifted(s, n)
<1>1. i \in 1..(Len(s) + 1) /\ Len(s) \in Nat
  BY MacroFound
<1>2. t = IF i > Len(s) THEN s ELSE [s EXCEPT ![i] = it]
  BY DEF Shifted, MacroAt
<1>3. CASE i > Len(s)
  BY <1>2, <1>3, SameKeeps
<1>4. CASE ~(i > Len(s))
  <2>1. i \in 1..Len(s) /\ s[i] \in Items
    <3> HIDE DEF i
    <3> QED
      BY <1>1, <1>4
  <2>2. it \in Items /\ it.kind = s[i].kind
    <3> HIDE DEF i
    <3>1. a \in Nat
      BY <2>1 DEF Items
    <3> HIDE DEF a
    <3> QED
      BY <2>1, <3>1 DEF Items
  <2>3. t = [s EXCEPT ![i] = it]
    BY <1>2, <1>4
  <2> HIDE DEF it, i
  <2>4. t \in Seq(Items) /\ Len(t) = Len(s) /\ t[i] = it
        /\ \A j \in 1..Len(s) : j # i => t[j] = s[j]
    BY <2>1, <2>2, <2>3
  <2>5. \A j \in 1..Len(s) : t[j].kind = s[j].kind
    <3> HIDE DEF t
    <3> QED
      BY <2>2, <2>4
  <2> QED
    BY <2>4, <2>5, SameKeeps
<1> QED
  BY <1>3, <1>4

LEMMA Joined ==
    ASSUME NEW a \in Seq(Items), NEW b \in Seq(Items),
           NEW j \in 1..(Len(a) + Len(b))
    PROVE  (a \o b)[j] = IF j <= Len(a) THEN a[j] ELSE b[j - Len(a)]
OBVIOUS

LEMMA Above ==
    ASSUME NEW s \in Seq(Items), NEW i \in 1..(Len(s) + 1)
    PROVE  /\ SubSeq(s, 1, i - 1) \in Seq(Items)
           /\ Len(SubSeq(s, 1, i - 1)) = i - 1
           /\ \A j \in 1..(i - 1) : SubSeq(s, 1, i - 1)[j] = s[j]
OBVIOUS

LEMMA OneOnTop ==
    ASSUME NEW s \in Seq(Items), NEW it \in Items, it.kind \in Texts
    PROVE  <<it>> \o s \in Seq(Items) /\ KeepsAll(s, <<it>> \o s)
<1> DEFINE a == <<it>>
           t == a \o s
<1>1. a \in Seq(Items) /\ Len(a) = 1 /\ a[1] = it /\ Len(s) \in Nat
  OBVIOUS
<1> HIDE DEF a
<1>2. /\ t \in Seq(Items) /\ Len(t) = Len(a) + Len(s)
      /\ Same(s, t, Len(s))
      /\ \A q \in (Len(s) + 1)..(Len(a) + Len(s)) :
            /\ Len(a) + Len(s) + 1 - q \in 1..Len(a)
            /\ Low(t, q) = a[Len(a) + Len(s) + 1 - q].kind
  BY <1>1, OnTopSame
<1>3. \A q \in (Len(s) + 1)..Len(t) : Low(t, q) \in Texts
  <2>1. SUFFICES ASSUME NEW q \in (Len(s) + 1)..Len(t)
                 PROVE  Low(t, q) \in Texts
    OBVIOUS
  <2> HIDE DEF t
  <2>2. q \in (Len(s) + 1)..(Len(a) + Len(s))
    BY <1>2
  <2>3. Len(a) + Len(s) + 1 - q = 1
    BY <1>1, <2>2
  <2>4. Low(t, q) = a[1].kind
    BY <1>2, <2>2, <2>3
  <2> QED
    BY <1>1, <2>4
<1>4. KeepsAll(s, t)
  BY <1>2, <1>3, PushKeeps
<1> QED
  BY <1>2, <1>4 DEF a

Texted(kind, size, args) ==
    kind \in Texts /\ size \in Nat /\ args \in Nat

LEMMA TextItem ==
    ASSUME NEW kind, NEW size, NEW args, Texted(kind, size, args)
    PROVE  Iterator(kind, size, args, size) \in Items
           /\ Iterator(kind, size, args, size).kind \in Texts
BY DEF Texted, Iterator, Items, Texts, Marks

\* s without its i-th iterator.
Without(s, i) == SubSeq(s, 1, i - 1) \o FromTop(s, i + 1)

\* s with another iterator in the place of the i-th.
Put(s, it, i) == SubSeq(s, 1, i - 1) \o <<it>> \o FromTop(s, i + 1)

LEMMA BelowIt ==
    ASSUME NEW s \in Seq(Items), NEW i \in 1..Len(s)
    PROVE  /\ FromTop(s, i + 1) \in Seq(Items)
           /\ Len(FromTop(s, i + 1)) = Len(s) - i
           /\ \A j \in 1..(Len(s) - i) : FromTop(s, i + 1)[j] = s[i + j]
<1> DEFINE n == Len(s)
           b == FromTop(s, i + 1)
<1>1. i + 1 \in 1..(Len(s) + 1) /\ Len(s) + 1 - (i + 1) = n - i
      /\ \A j \in 1..(n - i) : (i + 1) - 1 + j = i + j
  OBVIOUS
<1>2. /\ b \in Seq(Items) /\ Len(b) = Len(s) + 1 - (i + 1)
      /\ \A j \in 1..(Len(s) + 1 - (i + 1)) : b[j] = s[(i + 1) - 1 + j]
  BY <1>1, FromTopSame
<1> HIDE DEF b
<1>3. \A j \in 1..(n - i) : b[j] = s[i + j]
  <2> HIDE DEF n
  <2> QED
    BY <1>1, <1>2
<1> QED
  BY <1>1, <1>2, <1>3 DEF b

\* There is nothing below the bottom.
LEMMA NothingBelow ==
    ASSUME NEW s \in Seq(Items)
    PROVE  /\ SubSeq(s, 1, (Len(s) + 1) - 1) = s
           /\ FromTop(s, (Len(s) + 1) + 1) = <<>>
<1>1. (Len(s) + 1) - 1 = Len(s)
  OBVIOUS
<1>2. SubSeq(s, 1, Len(s)) = s
  OBVIOUS
<1>3. FromTop(s, (Len(s) + 1) + 1) = <<>>
  BY SubSeqEmpty DEF FromTop
<1> QED
  BY <1>1, <1>2, <1>3

LEMMA WithoutBelow ==
    ASSUME NEW s \in Seq(Items)
    PROVE  Without(s, Len(s) + 1) = s
<1>1. s \o <<>> = s
  OBVIOUS
<1> QED
  BY <1>1, NothingBelow, Zenon DEF Without

\* The i-th iterator is replaced.
LEMMA Replaced ==
    ASSUME NEW s \in Seq(Items), NEW it \in Items, NEW i \in 1..Len(s)
    PROVE  /\ Put(s, it, i) \in Seq(Items) /\ Len(Put(s, it, i)) = Len(s)
           /\ \A j \in 1..Len(s) :
                 Put(s, it, i)[j] = IF j = i THEN it ELSE s[j]
<1> DEFINE n == Len(s)
           t == Put(s, it, i)
           a == SubSeq(s, 1, i - 1)
           b == FromTop(s, i + 1)
           c == a \o <<it>>
<1>1. n \in Nat /\ i \in Nat /\ 1 <= i /\ i <= n
  OBVIOUS
<1>2. /\ a \in Seq(Items) /\ Len(a) = i - 1
      /\ \A j \in 1..(i - 1) : a[j] = s[j]
  BY Above
<1>3. /\ b \in Seq(Items) /\ Len(b) = n - i
      /\ \A j \in 1..(n - i) : b[j] = s[i + j]
  BY BelowIt
<1>4. t = c \o b
  BY Zenon DEF Put
<1>5. c = Append(a, it)
  <2> HIDE DEF a
  <2> QED
    BY <1>2
<1> HIDE DEF a
<1>6. c \in Seq(Items) /\ Len(c) = i /\ c[i] = it
      /\ \A j \in 1..(i - 1) : c[j] = s[j]
  <2>1. c \in Seq(Items) /\ Len(c) = i
    BY <1>1, <1>2, <1>5
  <2>2. c[i] = it
    BY <1>1, <1>2, <1>5
  <2>3. \A j \in 1..(i - 1) : c[j] = a[j]
    BY <1>1, <1>2, <1>5
  <2> HIDE DEF c
  <2> QED
    BY <1>2, <2>1, <2>2, <2>3
<1> HIDE DEF b, c, t
<1>7. t \in Seq(Items) /\ Len(t) = n
  <2>1. c \o b \in Seq(Items) /\ Len(c \o b) = Len(c) + Len(b)
    BY <1>3, <1>6, OnTopSame
  <2> QED
    BY <1>1, <1>3, <1>4, <1>6, <2>1
<1> HIDE DEF n
<1>8. ASSUME NEW j \in 1..n
      PROVE  t[j] = IF j = i THEN it ELSE s[j]
  <2>1. t[j] = IF j <= Len(c) THEN c[j] ELSE b[j - Len(c)]
    BY <1>1, <1>3, <1>6, <1>4, Joined
  <2>2. CASE j < i
    BY <1>1, <1>6, <2>2, <2>1
  <2>3. CASE j = i
    BY <1>1, <1>6, <2>1, <2>3
  <2>4. CASE j > i
    BY <1>1, <1>6, <2>4, <1>3, <2>1
  <2> QED
    BY <1>1, <2>2, <2>3, <2>4
<1> QED
  BY <1>7, <1>8 DEF n, t

\* There is a new iterator at the bottom.
LEMMA PutBelow ==
    ASSUME NEW s \in Seq(Items), NEW it \in Items
    PROVE  /\ Put(s, it, Len(s) + 1) \in Seq(Items)
           /\ Len(Put(s, it, Len(s) + 1)) = Len(s) + 1
           /\ \A j \in 1..(Len(s) + 1) :
                 Put(s, it, Len(s) + 1)[j] = IF j = Len(s) + 1 THEN it ELSE s[j]
           /\ Without(Put(s, it, Len(s) + 1), Len(s) + 1) = s
<1> DEFINE t == Put(s, it, Len(s) + 1)
           c == Append(s, it)
           n == Len(s)
<1>1. t = c
  <2>1. t = s \o <<it>> \o <<>>
    BY NothingBelow, Zenon DEF Put
  <2>2. s \o <<it>> = c /\ c \in Seq(Items)
    OBVIOUS
  <2>3. t = c \o <<>>
    BY <2>1, <2>2, Zenon
  <2>4. c \o <<>> = c
    <3> HIDE DEF c
    <3> QED
      BY <2>2
  <2> QED
    BY <2>3, <2>4, Zenon
<1>2. n \in Nat /\ c \in Seq(Items) /\ Len(c) = n + 1
      /\ \A j \in 1..(n + 1) : c[j] = IF j = n + 1 THEN it ELSE s[j]
  OBVIOUS
<1> HIDE DEF c
<1>3. Without(c, n + 1) = s
  <2>1. /\ SubSeq(c, 1, (n + 1) - 1) \in Seq(Items)
        /\ Len(SubSeq(c, 1, (n + 1) - 1)) = (n + 1) - 1
        /\ \A j \in 1..((n + 1) - 1) : SubSeq(c, 1, (n + 1) - 1)[j] = c[j]
    BY <1>2, Above
  <2> DEFINE u == SubSeq(c, 1, (n + 1) - 1)
  <2>2. (n + 1) - 1 = n
    BY <1>2
  <2>3. /\ u \in Seq(Items) /\ Len(u) = n
        /\ \A j \in 1..n : u[j] = c[j]
    BY <2>1, <2>2, Zenon
  <2>4. u = s
    <3> HIDE DEF u
    <3>1. \A j \in 1..n : c[j] = s[j]
      <4> HIDE DEF n
      <4> QED
        BY <1>2
    <3> QED
      BY <2>3, <3>1
  <2>5. FromTop(c, (n + 1) + 1) = <<>>
    BY <1>2, SubSeqEmpty DEF FromTop
  <2>6. u \o <<>> = u
    <3> HIDE DEF u
    <3> QED
      BY <2>3
  <2> QED
    BY <2>4, <2>5, <2>6, Zenon DEF Without
<1> QED
  BY <1>1, <1>2, <1>3

LEMMA WithoutDeleted ==
    ASSUME NEW s \in Seq(Items), NEW i \in 1..Len(s), s[i].kind = "file"
    PROVE  /\ Without(s, i) \in Seq(Items)
           /\ Deleted(s, Without(s, i), Len(s) + 1 - i)
<1> DEFINE n == Len(s)
           t == Without(s, i)
           p == n + 1 - i
<1>1. n \in Nat /\ i \in 1..n /\ p \in 1..n
  OBVIOUS
<1>2. t \in Seq(Items) /\ Len(t) = n - 1
      /\ \A j \in 1..(n - 1) : t[j] = IF j < i THEN s[j] ELSE s[j + 1]
  <2> DEFINE a == SubSeq(s, 1, i - 1)
             b == FromTop(s, i + 1)
  <2>1. /\ a \in Seq(Items) /\ Len(a) = i - 1
        /\ \A j \in 1..(i - 1) : a[j] = s[j]
    BY <1>1, Above
  <2>2. /\ b \in Seq(Items) /\ Len(b) = n - i
        /\ \A j \in 1..(n - i) : b[j] = s[i + j]
    BY BelowIt
  <2>3. t = a \o b
    BY DEF Without
  <2> HIDE DEF a, b, t
  <2>4. t \in Seq(Items) /\ Len(t) = n - 1
    <3>1. a \o b \in Seq(Items) /\ Len(a \o b) = Len(a) + Len(b)
      BY <2>1, <2>2, OnTopSame
    <3> QED
      BY <1>1, <2>1, <2>2, <2>3, <3>1
  <2>5. ASSUME NEW j \in 1..(n - 1)
        PROVE  t[j] = IF j < i THEN s[j] ELSE s[j + 1]
    <3>1. t[j] = IF j <= Len(a) THEN a[j] ELSE b[j - Len(a)]
      BY <1>1, <2>1, <2>2, <2>3, Joined
    <3>2. CASE j < i
      BY <1>1, <2>1, <3>2, <3>1
    <3>3. CASE ~(j < i)
      <4>1. /\ j - Len(a) \in 1..(n - i) /\ ~(j <= Len(a))
            /\ i + (j - Len(a)) = j + 1
        BY <1>1, <2>1, <3>3
      <4>2. b[j - Len(a)] = s[i + (j - Len(a))]
        BY <2>2, <4>1
      <4> QED
        BY <3>1, <3>3, <4>1, <4>2
    <3> QED
      BY <3>2, <3>3
  <2> QED
    BY <2>4, <2>5
<1>3. Low(s, p) = "file"
  BY <1>1 DEF Low
<1>4. ASSUME NEW q \in 1..(n - 1) PROVE Low(t, q) = Low(s, Skip(p, q))
  <2>1. Low(t, q) = t[n - q].kind
    BY <1>1, <1>2 DEF Low
  <2>2. n - q \in 1..(n - 1)
    BY <1>1
  <2>3. CASE q < p
    <3>1. ~(n - q < i) /\ n - q + 1 = n + 1 - q
      BY <1>1, <2>3
    <3>2. t[n - q] = s[n + 1 - q]
      <4> HIDE DEF t, n
      <4> QED
        BY <1>2, <2>2, <3>1
    <3>3. Low(s, q) = s[n + 1 - q].kind
      BY DEF Low
    <3> QED
      BY <2>1, <2>3, <3>2, <3>3 DEF Skip
  <2>4. CASE ~(q < p)
    <3>1. n - q < i /\ n + 1 - (q + 1) = n - q
      BY <1>1, <2>4
    <3>2. t[n - q] = s[n - q]
      <4> HIDE DEF t, n
      <4> QED
        BY <1>2, <2>2, <3>1
    <3>3. Low(s, q + 1) = s[n - q].kind
      BY <3>1 DEF Low
    <3> QED
      BY <2>1, <2>4, <3>2, <3>3 DEF Skip
  <2> QED
    BY <2>3, <2>4
<1> HIDE DEF t
<1> QED
  BY <1>1, <1>2, <1>3, <1>4 DEF Deleted, t

LEMMA EndFileKeeps ==
    ASSUME NEW s \in Seq(Items)
    PROVE  EndFile(s) \in Seq(Items) /\ KeepsAll(s, EndFile(s))
<1> DEFINE i == FileAt(s)
<1>1. i \in 1..(Len(s) + 1) /\ (i <= Len(s) => IsFile(s[i]))
      /\ Len(s) \in Nat
  BY FileFound
<1>2. EndFile(s) = Without(s, i)
  BY DEF EndFile, FileAt, Without
<1>3. CASE i <= Len(s)
  <2>1. i \in 1..Len(s) /\ s[i].kind = "file"
    BY <1>1, <1>3 DEF IsFile
  <2> HIDE DEF i
  <2> QED
    BY <1>2, <2>1, WithoutDeleted, DeletedKeeps
<1>4. CASE ~(i <= Len(s))
  BY <1>1, <1>4, WithoutBelow, <1>2, SameKeeps
<1> QED
  BY <1>3, <1>4

\* Where there is a file it is another one, or else it is the bottom.
LEMMA NextFileKeeps ==
    ASSUME NEW s \in Seq(Items), NEW size \in Nat
    PROVE  /\ NextFile(s, size) \in Seq(Items)
           /\ Keeps(s, NextFile(s, size)) /\ Lives(s, NextFile(s, size))
           /\ FileAt(s) <= Len(s) \/ NoReturns(s) =>
                 Seals(s, NextFile(s, size))
           /\ s # <<>> /\ ~IsFile(s[1]) =>
                 NextFile(s, size) # <<>> /\ NextFile(s, size)[1] = s[1]
<1> DEFINE i == FileAt(s)
           it == Iterator("file", size, 0, size)
           t == NextFile(s, size)
<1>1. i \in 1..(Len(s) + 1) /\ (i <= Len(s) => IsFile(s[i]))
      /\ Len(s) \in Nat
  BY FileFound
<1>2. it \in Items /\ it.kind = "file"
  BY DEF Iterator, Items, Texts, Marks
<1>3. t = Put(s, it, i)
  BY Zenon DEF NextFile, FileAt, Put
<1> HIDE DEF it, i, t
<1>4. CASE i <= Len(s)
  <2>1. i \in 1..Len(s)
    BY <1>1, <1>4
  <2>2. t \in Seq(Items) /\ Len(t) = Len(s)
        /\ \A j \in 1..Len(s) : t[j] = IF j = i THEN it ELSE s[j]
    BY <1>2, <1>3, <2>1, Replaced
  <2>3. \A j \in 1..Len(s) : t[j].kind = s[j].kind
    BY <1>1, <1>2, <2>1, <2>2 DEF IsFile
  <2>4. KeepsAll(s, t)
    BY <2>2, <2>3, SameKeeps
  <2>5. s # <<>> /\ ~IsFile(s[1]) => t # <<>> /\ t[1] = s[1]
    <3>1. SUFFICES ASSUME s # <<>>, ~IsFile(s[1]) PROVE t # <<>> /\ t[1] = s[1]
      OBVIOUS
    <3>2. i # 1 /\ 1 \in 1..Len(s)
      BY <1>1, <1>4, <2>1, <3>1
    <3>3. t[1] = s[1]
      BY <2>2, <3>2
    <3> QED
      BY <2>2, <3>2, <3>3
  <2> QED
    BY <2>2, <2>4, <2>5 DEF KeepsAll, t
<1>5. CASE ~(i <= Len(s))
  <2>1. i = Len(s) + 1
    BY <1>1, <1>5
  <2>2. t \in Seq(Items) /\ Len(t) = Len(s) + 1
        /\ \A j \in 1..(Len(s) + 1) : t[j] = IF j = Len(s) + 1 THEN it ELSE s[j]
    <3>1. t = Put(s, it, Len(s) + 1)
      BY <1>3, <2>1, Zenon
    <3> QED
      BY <1>2, <3>1, PutBelow, ZenonT(30)
  <2>3. Without(t, Len(s) + 1) = s
    BY <1>3, <2>1, <1>2, PutBelow, Zenon
  <2>4. Deleted(t, s, 1)
    BY <1>1, <1>2, <2>2, <2>3, WithoutDeleted
  <2>5. Keeps(s, t) /\ Lives(s, t)
    BY <2>2, <2>4, AddedKeeps
  <2>6. NoReturns(s) => Seals(s, t)
    <3>1. SUFFICES ASSUME NoReturns(s), NEW n \in Nat, Sealed(s, n)
                   PROVE  Sealed(t, n)
      BY DEF Seals
    <3>2. n = 0
      <4>1. SUFFICES ASSUME n # 0 PROVE FALSE
        OBVIOUS
      <4>2. 1 \in 1..n /\ 1 \in 1..Len(s)
        BY <1>1, <3>1, <4>1 DEF Sealed
      <4> QED
        BY <3>1, <4>2 DEF Sealed, NoReturns
    <3> QED
      BY <1>1, <2>2, <3>2 DEF Sealed
  <2>7. s # <<>> => t # <<>> /\ t[1] = s[1]
    <3>1. SUFFICES ASSUME s # <<>> PROVE t # <<>> /\ t[1] = s[1]
      OBVIOUS
    <3>2. 1 \in 1..(Len(s) + 1) /\ 1 # Len(s) + 1
      BY <1>1, <3>1
    <3>3. t[1] = s[1]
      BY <2>2, <3>2
    <3> QED
      BY <2>2, <3>2, <3>3
  <2> QED
    BY <1>5, <2>2, <2>5, <2>6, <2>7 DEF t, i
<1> QED
  BY <1>4, <1>5

-----------------------------------------------------------------------------
\* Counting what is on top of something.

LEMMA DepthOnTop ==
    ASSUME NEW c \in Seq(Items), NEW a \in Seq(Items)
    PROVE  Depth(a \o c, Len(a \o c)) = Depth(c, Len(c)) + Depth(a, Len(a))
<1> DEFINE t == a \o c
           m == Len(c)
           k == Len(a)
           S == {n \in Nat : n <= k => Depth(t, m + n) = Depth(c, m) + Depth(a, n)}
<1>1. /\ m \in Nat /\ k \in Nat /\ t \in Seq(Items) /\ Len(t) = k + m
      /\ Same(c, t, m)
      /\ \A q \in (m + 1)..(k + m) :
            /\ k + m + 1 - q \in 1..k /\ Low(t, q) = a[k + m + 1 - q].kind
  BY OnTopSame
<1> HIDE DEF t, m, k
<1>2. 0 \in S
  BY <1>1, DepthSame, DepthZero, DepthNat
<1>3. ASSUME NEW n \in S PROVE n + 1 \in S
  <2>1. n \in Nat /\ n + 1 \in Nat
    OBVIOUS
  <2>2. SUFFICES ASSUME n + 1 <= k
                 PROVE  Depth(t, m + (n + 1)) = Depth(c, m) + Depth(a, n + 1)
    BY <2>1
  <2>3. Depth(t, m + n) = Depth(c, m) + Depth(a, n)
    BY <1>1, <2>1, <2>2
  <2>4. /\ m + (n + 1) \in (m + 1)..(k + m) /\ m + (n + 1) \in Nat \ {0}
        /\ (m + (n + 1)) - 1 = m + n /\ (n + 1) - 1 = n /\ n + 1 \in Nat \ {0}
        /\ k + m + 1 - (m + (n + 1)) = k + 1 - (n + 1)
    BY <1>1, <2>1, <2>2
  <2>5. Low(t, m + (n + 1)) = a[k + 1 - (n + 1)].kind
    BY <1>1, <2>4
  <2>6. Low(a, n + 1) = a[k + 1 - (n + 1)].kind
    BY Zenon DEF Low, k
  <2>7. Depth(t, m + (n + 1)) = Depth(t, m + n)
          + (IF Low(t, m + (n + 1)) \in Barriers THEN 1 ELSE 0)
    BY <2>4, DepthStep
  <2>8. Depth(a, n + 1) = Depth(a, n)
          + (IF Low(a, n + 1) \in Barriers THEN 1 ELSE 0)
    BY <2>4, DepthStep
  <2>9. Depth(a, n) \in Nat /\ Depth(c, m) \in Nat
    BY <1>1, <2>1, DepthNat
  <2> QED
    BY <2>3, <2>5, <2>6, <2>7, <2>8, <2>9
<1>4. S = Nat
  <2>1. S \in SUBSET Nat
    OBVIOUS
  <2> HIDE DEF S
  <2> QED
    BY <1>2, <1>3, <2>1, Induct
<1>5. Depth(t, m + k) = Depth(c, m) + Depth(a, k)
  <2>1. k \in S
    <3> HIDE DEF S
    <3> QED
      BY <1>1, <1>4
  <2> QED
    BY <1>1, <2>1
<1>6. m + k = Len(t)
  BY <1>1
<1>7. Depth(t, Len(t)) = Depth(t, m + k)
  BY <1>6, Zenon
<1> QED
  BY <1>5, <1>7 DEF t, m, k

LEMMA DepthBound ==
    ASSUME NEW s, NEW q \in Nat
    PROVE  Depth(s, q) <= q
<1>1. IsFiniteSet(1..q) /\ Cardinality(1..q) = q
  BY FS_Interval
<1>2. BarriersTo(s, q) \in SUBSET (1..q)
  BY DEF BarriersTo
<1> QED
  BY <1>1, <1>2, FS_Subset DEF Depth

\* What is sealed consists of boundaries.
LEMMA SealedDepth ==
    ASSUME NEW s \in Seq(Items), NEW n \in Nat, Sealed(s, n)
    PROVE  Depth(s, n) = n
<1>1. \A q \in (0 + 1)..n : Low(s, q) \in Barriers
  BY DEF Sealed, Barriers
<1>2. Depth(s, n) = Depth(s, 0) + (n - 0)
  BY <1>1, DepthFull
<1> QED
  BY <1>2, DepthZero

-----------------------------------------------------------------------------
\* The runs.

LEMMA LoopsCount ==
    ASSUME NEW r, NEW x, WellRun(r, x)
    PROVE  Cardinality({i \in DOMAIN r : r[i].kind = "while"}) = LoopsOf(r, x)
<1> DEFINE n == Len(r)
           W == {i \in DOMAIN r : r[i].kind = "while"}
           e == n + 1 - x
<1>1. n \in Nat /\ n > 0 /\ x \in 0..n /\ x # 1
  BY DEF WellRun
<1>2. W = {i \in 1..n : KindOf(r, x, i) = "while"}
  <2>1. DOMAIN r = 1..n /\ \A i \in 1..n : r[i].kind = KindOf(r, x, i)
    BY DEF WellRun
  <2> HIDE DEF n
  <2> QED
    BY <2>1
<1>3. W = {i \in 1..n : i # n /\ i # e}
  <2>1. \A i \in 1..n : KindOf(r, x, i) = "while" <=> i # n /\ i # e
    BY Zenon DEF KindOf
  <2> HIDE DEF n, e, W
  <2> QED
    BY <1>2, <2>1
<1>4. LoopsOf(r, x) = n - (IF x = 0 THEN 1 ELSE 2)
  BY Zenon DEF LoopsOf
<1> HIDE DEF W, n
<1>5. IsFiniteSet(1..(n - 1)) /\ Cardinality(1..(n - 1)) = n - 1
  <2>1. 1 \in Int /\ n - 1 \in Int
    BY <1>1
  <2>2. /\ IsFiniteSet(1..(n - 1))
        /\ Cardinality(1..(n - 1)) = IF 1 > n - 1 THEN 0 ELSE n - 1 - 1 + 1
    BY <2>1, FS_Interval
  <2> QED
    BY <1>1, <2>2
<1>6. ASSUME x = 0 PROVE Cardinality(W) = LoopsOf(r, x)
  <2>1. W = 1..(n - 1)
    BY <1>1, <1>3, <1>6
  <2> QED
    BY <1>1, <1>4, <1>5, <1>6, <2>1
<1>7. ASSUME x # 0 PROVE Cardinality(W) = LoopsOf(r, x)
  <2>1. e \in 1..(n - 1)
    BY <1>1, <1>7
  <2>2. W = (1..(n - 1)) \ {e}
    <3>1. \A i \in 1..n : i # n <=> i \in 1..(n - 1)
      BY <1>1
    <3>2. \A i \in 1..(n - 1) : i \in 1..n
      BY <1>1
    <3> HIDE DEF e
    <3> QED
      BY <1>3, <3>1, <3>2, Zenon
  <2>3. Cardinality((1..(n - 1)) \ {e}) = n - 1 - 1
    <3> HIDE DEF e
    <3> QED
      BY <1>5, <2>1, FS_RemoveElement
  <2> QED
    BY <1>1, <1>4, <1>7, <2>2, <2>3
<1>8. Cardinality(W) = LoopsOf(r, x)
  BY <1>6, <1>7
<1> QED
  BY <1>8, Zenon DEF W

\* The innermost run may change, but not its kind.
LEMMA RunsChanged ==
    ASSUME NEW r, NEW x, WellRun(r, x), NEW u \in Seq(RunRecords), Len(u) = Len(r),
           u[1].kind = r[1].kind, \A i \in 2..Len(r) : u[i] = r[i]
    PROVE  WellRun(u, x) /\ LoopsOf(u, x) = LoopsOf(r, x)
<1>1. \A i \in 1..Len(r) : i = 1 \/ i \in 2..Len(r)
  BY DEF WellRun
<1>2. \A i \in 1..Len(r) : u[i].kind = r[i].kind
  BY <1>1
<1> QED
  BY <1>2 DEF WellRun, KindOf, LoopsOf

WithTraps(r, v) == [r EXCEPT ![1].traps = v]

LEMMA RunsTraps ==
    ASSUME NEW r, NEW x, WellRun(r, x), NEW v \in Nat
    PROVE  /\ WellRun(WithTraps(r, v), x)
           /\ LoopsOf(WithTraps(r, v), x) = LoopsOf(r, x)
           /\ WithTraps(r, v)[1].traps = v /\ WithTraps(r, v)[1].kind = r[1].kind
           /\ \A i \in 2..Len(r) : WithTraps(r, v)[i] = r[i]
<1> DEFINE u == WithTraps(r, v)
           e == [r[1] EXCEPT !.traps = v]
<1>1. r \in Seq(RunRecords) /\ Len(r) \in Nat /\ 1 \in 1..Len(r)
      /\ r[1] \in RunRecords
  BY DEF WellRun
<1>2. e \in RunRecords /\ e.traps = v /\ e.kind = r[1].kind
  BY <1>1 DEF RunRecords
<1>3. u = [r EXCEPT ![1] = e]
  BY DEF WithTraps
<1> HIDE DEF e
<1>4. u \in Seq(RunRecords) /\ Len(u) = Len(r) /\ u[1] = e
      /\ \A i \in 2..Len(r) : u[i] = r[i]
  BY <1>1, <1>2, <1>3
<1> HIDE DEF u
<1>5. u[1].kind = r[1].kind
  BY <1>2, <1>4
<1>6. WellRun(u, x) /\ LoopsOf(u, x) = LoopsOf(r, x)
  BY <1>4, <1>5, RunsChanged
<1> QED
  BY <1>2, <1>4, <1>6 DEF u

\* The innermost run is another one of its kind.
LEMMA RunsReplaced ==
    ASSUME NEW r, NEW x, WellRun(r, x), NEW e \in RunRecords, e.kind = r[1].kind
    PROVE  LET u == <<e>> \o Tail(r)
           IN  /\ WellRun(u, x) /\ LoopsOf(u, x) = LoopsOf(r, x)
               /\ u[1] = e /\ \A i \in 2..Len(r) : u[i] = r[i]
<1> DEFINE u == <<e>> \o Tail(r)
<1>1. r \in Seq(RunRecords) /\ Len(r) \in Nat /\ r # <<>> /\ Len(r) > 0
  BY DEF WellRun
<1>2. u \in Seq(RunRecords) /\ Len(u) = Len(r) /\ u[1] = e
      /\ \A i \in 2..Len(r) : u[i] = r[i]
  BY <1>1
<1> HIDE DEF u
<1>3. WellRun(u, x) /\ LoopsOf(u, x) = LoopsOf(r, x)
  BY <1>2, RunsChanged
<1> QED
  BY <1>2, <1>3 DEF u

\* A loop begins.
LEMMA RunsLoop ==
    ASSUME NEW r, NEW x, WellRun(r, x), NEW e \in RunRecords, e.kind = "while"
    PROVE  LET u == <<e>> \o r
           IN  /\ WellRun(u, x) /\ LoopsOf(u, x) = LoopsOf(r, x) + 1
               /\ u[1] = e /\ \A i \in 1..Len(r) : u[i + 1] = r[i]
<1> DEFINE u == <<e>> \o r
<1>1. r \in Seq(RunRecords) /\ Len(r) \in Nat /\ Len(r) > 0
      /\ x \in 0..Len(r) /\ x # 1
      /\ \A i \in 1..Len(r) : r[i].kind = KindOf(r, x, i)
  BY DEF WellRun
<1>2. u \in Seq(RunRecords) /\ Len(u) = Len(r) + 1 /\ u[1] = e
      /\ \A i \in 1..Len(r) : u[i + 1] = r[i]
  BY <1>1
<1> HIDE DEF u
<1>3. ASSUME NEW i \in 1..Len(u) PROVE u[i].kind = KindOf(u, x, i)
  <2>1. CASE i = 1
    BY <1>1, <1>2, <2>1 DEF KindOf
  <2>2. CASE i # 1
    <3>1. i - 1 \in 1..Len(r) /\ (i - 1) + 1 = i
      BY <1>1, <1>2, <2>2
    <3>2. u[i].kind = KindOf(r, x, i - 1)
      BY <1>2, <3>1, <1>1
    <3>3. KindOf(r, x, i - 1) = KindOf(u, x, i)
      BY <1>1, <1>2 DEF KindOf
    <3> QED
      BY <3>2, <3>3
  <2> QED
    BY <2>1, <2>2
<1>4. WellRun(u, x) /\ LoopsOf(u, x) = LoopsOf(r, x) + 1
  BY <1>1, <1>2, <1>3 DEF WellRun, LoopsOf
<1> QED
  BY <1>2, <1>4 DEF u

\* A loop ends.
LEMMA RunsLeft ==
    ASSUME NEW r, NEW x, WellRun(r, x), r[1].kind = "while"
    PROVE  /\ WellRun(Tail(r), x) /\ LoopsOf(Tail(r), x) = LoopsOf(r, x) - 1
           /\ LoopsOf(r, x) \in Nat \ {0} /\ x < Len(r)
           /\ \A i \in 1..(Len(r) - 1) : Tail(r)[i] = r[i + 1]
<1> DEFINE u == Tail(r)
           n == Len(r)
<1>1. n \in Nat /\ n > 0 /\ x \in 0..n /\ x # 1
  BY DEF WellRun
<1>2. u \in Seq(RunRecords) /\ Len(u) = n - 1
      /\ \A i \in 1..(n - 1) : u[i] = r[i + 1]
  BY DEF WellRun
<1>3. n > 1 /\ x < n
  <2>1. 1 \in 1..n
    BY <1>1
  <2>2. KindOf(r, x, 1) = "while"
    BY <2>1 DEF WellRun
  <2>3. 1 # n /\ 1 # n + 1 - x
    BY <2>2 DEF KindOf
  <2> HIDE DEF n
  <2> QED
    BY <1>1, <2>3
<1> HIDE DEF u
<1>4. ASSUME NEW i \in 1..Len(u) PROVE u[i].kind = KindOf(u, x, i)
  <2>1. /\ i + 1 \in 1..n /\ i \in 1..(n - 1)
        /\ i + 1 = n <=> i = Len(u)
        /\ i + 1 = n + 1 - x <=> i = Len(u) + 1 - x
    <3>1. Len(u) = n - 1
      BY <1>2
    <3> HIDE DEF n
    <3> QED
      BY <1>1, <3>1
  <2>2. u[i].kind = KindOf(r, x, i + 1)
    BY <2>1, <1>2 DEF WellRun
  <2> QED
    BY <2>1, <2>2 DEF KindOf
<1> HIDE DEF n
<1>5. WellRun(u, x)
  BY <1>1, <1>2, <1>3, <1>4 DEF WellRun
<1>6. LoopsOf(u, x) = LoopsOf(r, x) - 1 /\ LoopsOf(r, x) \in Nat \ {0}
  <2>1. LoopsOf(r, x) = n - (IF x = 0 THEN 1 ELSE 2)
    BY DEF LoopsOf, n
  <2>2. LoopsOf(u, x) = Len(u) - (IF x = 0 THEN 1 ELSE 2)
    BY DEF LoopsOf
  <2> QED
    BY <1>1, <1>2, <1>3, <2>1, <2>2
<1> QED
  BY <1>2, <1>3, <1>5, <1>6 DEF u, n

\* exit_troff is called.
LEMMA RunsExit ==
    ASSUME NEW r, WellRun(r, 0), NEW e \in RunRecords, e.kind = "exit"
    PROVE  LET u == <<e>> \o r
               x == Len(r) + 1
           IN  /\ WellRun(u, x) /\ LoopsOf(u, x) = LoopsOf(r, 0)
               /\ Len(u) = x
<1> DEFINE u == <<e>> \o r
           x == Len(r) + 1
<1>1. r \in Seq(RunRecords) /\ Len(r) \in Nat /\ Len(r) > 0
      /\ \A i \in 1..Len(r) : r[i].kind = KindOf(r, 0, i)
  BY DEF WellRun
<1>2. u \in Seq(RunRecords) /\ Len(u) = Len(r) + 1 /\ u[1] = e
      /\ \A i \in 1..Len(r) : u[i + 1] = r[i]
  BY <1>1
<1> HIDE DEF u, x
<1>3. x = Len(r) + 1
  BY DEF x
<1>4. ASSUME NEW i \in 1..Len(u) PROVE u[i].kind = KindOf(u, x, i)
  <2>1. CASE i = 1
    BY <1>1, <1>2, <1>3, <2>1 DEF KindOf
  <2>2. CASE i # 1
    <3>1. i - 1 \in 1..Len(r) /\ (i - 1) + 1 = i
      BY <1>1, <1>2, <2>2
    <3>2. u[i].kind = KindOf(r, 0, i - 1)
      BY <1>2, <3>1, <1>1
    <3>3. KindOf(r, 0, i - 1) = KindOf(u, x, i)
      BY <1>1, <1>2, <1>3, <2>2 DEF KindOf
    <3> QED
      BY <3>2, <3>3
  <2> QED
    BY <2>1, <2>2
<1>5. WellRun(u, x)
  BY <1>1, <1>2, <1>3, <1>4 DEF WellRun
<1>6. LoopsOf(u, x) = LoopsOf(r, 0)
  BY <1>1, <1>2, <1>3 DEF LoopsOf
<1> QED
  BY <1>2, <1>3, <1>5, <1>6 DEF u, x

-----------------------------------------------------------------------------
\* Boundaries that have become return boundaries.

LEMMA OnlyReturns ==
    ASSUME NEW k \in Nat
    PROVE  /\ ReturnBoundaries(k) \in Seq(Items) /\ Len(ReturnBoundaries(k)) = k
           /\ \A j \in 1..k : ReturnBoundaries(k)[j].kind = "return_boundary"
           /\ \A q \in 1..k : Low(ReturnBoundaries(k), q) = "return_boundary"
           /\ Depth(ReturnBoundaries(k), k) = k
           /\ \A d \in Nat : Ends(ReturnBoundaries(k), d) = 0
<1> DEFINE b == ReturnBoundaries(k)
           it == ReturnBoundary
<1>1. it \in Items /\ it.kind = "return_boundary"
  BY DEF ReturnBoundary, Iterator, Items, Texts, Barriers, Marks
<1>b. b = [i \in 1..k |-> it]
  BY Zenon DEF ReturnBoundaries
<1> HIDE DEF it, b
<1>2. b \in Seq(Items) /\ Len(b) = k /\ \A j \in 1..k : b[j] = it
  BY <1>1, <1>b
<1>3. \A q \in 1..k : Low(b, q) = "return_boundary"
  BY <1>2, <1>1 DEF Low
<1>4. Depth(b, k) = k
  BY <1>3, DepthFull, DepthZero DEF Barriers
<1>5. ASSUME NEW d \in Nat PROVE Ends(b, d) = 0
  BY <1>2, <1>3, FS_EmptySet DEF EndsAt, Ends
<1> QED
  BY <1>1, <1>2, <1>3, <1>4, <1>5 DEF b

\* n iterators are popped, their boundaries become return boundaries.
Popped(s, n) ==
    ReturnBoundaries(Boundaries(SubSeq(s, 1, n))) \o FromTop(s, n + 1)

LEMMA PoppedKeeps ==
    ASSUME NEW s \in Seq(Items), NEW n \in 0..(Len(s) - 1)
    PROVE  /\ Keeps(s, Popped(s, n)) /\ Seals(s, Popped(s, n))
           /\ ReturnsOnTop(s) => ReturnsOnTop(Popped(s, n))
           /\ Popped(s, n) # <<>>
<1> DEFINE a == SubSeq(s, 1, n)
           c == FromTop(s, n + 1)
           k == Boundaries(a)
           b == ReturnBoundaries(k)
           t == Popped(s, n)
           m == Len(c)
<1>1. Len(s) \in Nat /\ n \in Nat /\ n + 1 \in 1..(Len(s) + 1) /\ (n + 1) - 1 = n
  OBVIOUS
<1>2. a \in Seq(Items) /\ Len(a) = n
  BY <1>1, Above
<1>3. c \in Seq(Items) /\ m = Len(s) - n /\ Same(s, c, m) /\ m \in Nat /\ m > 0
  <2>1. /\ c \in Seq(Items) /\ Len(c) = Len(s) + 1 - (n + 1)
        /\ Same(s, c, Len(s) + 1 - (n + 1))
    BY <1>1, FromTopSame
  <2>2. Len(s) + 1 - (n + 1) = Len(s) - n
    BY <1>1
  <2>3. Same(s, c, m)
    BY <2>1, Zenon
  <2> HIDE DEF c
  <2> QED
    BY <1>1, <2>1, <2>2, <2>3
<1>4. k = Depth(a, n) /\ k \in Nat
  <2>1. k = Depth(a, Len(a))
    BY <1>2, BoundariesDepth
  <2>2. Depth(a, n) \in Nat
    BY <1>1, DepthNat
  <2> HIDE DEF a, k
  <2> QED
    BY <1>2, <2>1, <2>2
<1>5. s = a \o c
  BY <1>1, ConcatAdjacentSubSeq, SubSeqFull DEF FromTop
<1>6. t = b \o c
  BY Zenon DEF Popped
<1>7. /\ b \in Seq(Items) /\ Len(b) = k /\ Depth(b, k) = k
      /\ \A j \in 1..k : b[j].kind = "return_boundary"
  <2> HIDE DEF k
  <2> QED
    BY <1>4, OnlyReturns
<1> HIDE DEF a, b, c, k, t, m
<1>8. Depth(s, Len(s)) = Depth(c, m) + k
  BY <1>2, <1>3, DepthOnTop, <1>4, <1>5 DEF m
<1>9. Depth(t, Len(t)) = Depth(c, m) + k
  BY <1>3, <1>7, DepthOnTop, <1>6 DEF m
<1>10. /\ t \in Seq(Items) /\ Len(t) = k + m /\ Same(c, t, m)
       /\ \A q \in (m + 1)..(k + m) : Low(t, q) = "return_boundary"
  <2>1. /\ b \o c \in Seq(Items) /\ Len(b \o c) = Len(b) + Len(c)
        /\ Same(c, b \o c, Len(c))
        /\ \A q \in (Len(c) + 1)..(Len(b) + Len(c)) :
              /\ Len(b) + Len(c) + 1 - q \in 1..Len(b)
              /\ Low(b \o c, q) = b[Len(b) + Len(c) + 1 - q].kind
    BY <1>3, <1>7, OnTopSame
  <2>2. \A q \in (m + 1)..(k + m) : /\ k + m + 1 - q \in 1..k
                                    /\ Low(t, q) = b[k + m + 1 - q].kind
    BY <1>6, <1>7, <2>1, Zenon DEF m
  <2>3. \A q \in (m + 1)..(k + m) : Low(t, q) = "return_boundary"
    BY <1>7, <2>2
  <2>4. t \in Seq(Items) /\ Len(t) = k + m /\ Same(c, t, m)
    BY <1>6, <1>7, <2>1, Zenon DEF m
  <2> QED
    BY <2>3, <2>4
<1>11. Same(s, t, m) /\ \A q \in 1..m : Low(s, q) = Low(t, q)
  BY <1>3, <1>10 DEF Same
<1>12. \A q \in 1..Len(t) : q \in 1..m \/ q \in (m + 1)..(k + m)
  BY <1>3, <1>4, <1>10
<1>13. Keeps(s, t)
  <2>1. \A d \in Nat : Ends(t, d) <= Ends(s, d)
    BY <1>10, <1>11, EndsFewer
  <2>2. NoBegin(s) => NoBegin(t)
    <3>1. \A q \in 1..m : q \in 1..Len(s)
      BY <1>3 DEF Same
    <3> QED
      BY <1>10, <1>11, <1>12, <3>1 DEF NoBegin
  <2>3. Depth(t, Len(t)) = Depth(s, Len(s))
    BY <1>8, <1>9, Zenon
  <2> QED
    BY <1>10, <2>1, <2>2, <2>3 DEF Keeps
<1>14. Seals(s, t)
  <2>1. SUFFICES ASSUME NEW i \in Nat, Sealed(s, i) PROVE Sealed(t, i)
    BY DEF Seals
  <2>2. i <= Len(s) /\ \A q \in 1..i : Low(s, q) = "return_boundary"
    BY <2>1 DEF Sealed
  <2>3. i <= k + m
    <3>1. Depth(s, i) = i
      BY <2>1, SealedDepth
    <3>2. Depth(s, i) <= Depth(s, Len(s))
      BY <1>1, <2>2, DepthGrows
    <3>3. Depth(c, m) <= m /\ Depth(c, m) \in Nat
      BY <1>3, DepthBound, DepthNat
    <3> QED
      BY <1>3, <1>4, <1>8, <3>1, <3>2, <3>3
  <2>4. ASSUME NEW q \in 1..i PROVE Low(t, q) = "return_boundary"
    <3>1. q \in 1..Len(t)
      BY <1>3, <1>4, <1>10, <2>3
    <3> QED
      BY <1>10, <1>11, <1>12, <2>2, <3>1
  <2> QED
    BY <1>10, <2>3, <2>4 DEF Sealed
<1>15. ReturnsOnTop(s) => ReturnsOnTop(t)
  <2>1. SUFFICES ASSUME ReturnsOnTop(s), NEW p \in 1..Len(t), NEW q \in 1..Len(t),
                        Low(t, p) = "return_boundary", p < q
                 PROVE  Low(t, q) = "return_boundary"
    BY DEF ReturnsOnTop
  <2>2. CASE q \in (m + 1)..(k + m)
    BY <1>10, <2>2
  <2>3. CASE q \in 1..m
    BY <1>1, <1>3, <2>1, <2>3, <1>11 DEF ReturnsOnTop
  <2> QED
    BY <1>12, <2>2, <2>3
<1>16. t # <<>>
  BY <1>3, <1>4, <1>10
<1> QED
  BY <1>13, <1>14, <1>15, <1>16 DEF t

LEMMA MinOf ==
    ASSUME NEW a \in Int, NEW b \in Int
    PROVE  Min({a, b}) = IF a <= b THEN a ELSE b
<1> DEFINE c == IF a <= b THEN a ELSE b
           Is(n) == \A y \in {a, b} : n <= y
<1>1. c \in {a, b} /\ Is(c)
  OBVIOUS
<1>2. \A n \in {a, b} : Is(n) => n = c
  OBVIOUS
<1>3. Min({a, b}) = CHOOSE n \in {a, b} : Is(n)
  BY Zenon DEF Min
<1> HIDE DEF c, Is
<1>4. (CHOOSE n \in {a, b} : Is(n)) = c
  BY <1>1, <1>2
<1> QED
  BY <1>3, <1>4 DEF c

LEMMA PopMacroKeeps ==
    ASSUME NEW s \in Seq(Items), s # <<>>
    PROVE  /\ Keeps(s, PopMacro(s)) /\ Seals(s, PopMacro(s))
           /\ ReturnsOnTop(s) => ReturnsOnTop(PopMacro(s))
           /\ PopMacro(s) # <<>> /\ PopMacro(s) \in Seq(Items)
<1> DEFINE i == MacroAt(s)
           n == Min({i, Len(s) - 1})
<1>1. i \in 1..(Len(s) + 1) /\ Len(s) \in Nat /\ Len(s) > 0
  BY MacroFound
<1>2. PopMacro(s) = Popped(s, n)
  BY DEF PopMacro, Popped, MacroAt
<1> HIDE DEF i
<1>3. n \in 0..(Len(s) - 1)
  <2>1. i \in Int /\ Len(s) - 1 \in Int
    BY <1>1
  <2>2. n = IF i <= Len(s) - 1 THEN i ELSE Len(s) - 1
    BY <2>1, MinOf
  <2> HIDE DEF n
  <2> QED
    BY <1>1, <2>2
<1> HIDE DEF n
<1> QED
  BY <1>2, <1>3, PoppedKeeps DEF Keeps

\* Nothing but return boundaries is left, as many as there were boundaries.
LEMMA ClearedIs ==
    ASSUME NEW s \in Seq(Items)
    PROVE  /\ Cleared(s) \in Seq(Items) /\ Len(Cleared(s)) = Depth(s, Len(s))
           /\ \A j \in 1..Len(Cleared(s)) :
                 Cleared(s)[j].kind = "return_boundary"
           /\ \A q \in 1..Len(Cleared(s)) :
                 Low(Cleared(s), q) = "return_boundary"
           /\ Depth(Cleared(s), Len(Cleared(s))) = Depth(s, Len(s))
           /\ \A d \in Nat : Ends(Cleared(s), d) = 0
<1> DEFINE k == Depth(s, Len(s))
<1>1. k \in Nat
  BY DepthNat
<1>2. Cleared(s) = ReturnBoundaries(k)
  BY BoundariesDepth DEF Cleared
<1> HIDE DEF k
<1>3. /\ ReturnBoundaries(k) \in Seq(Items) /\ Len(ReturnBoundaries(k)) = k
      /\ \A j \in 1..k : ReturnBoundaries(k)[j].kind = "return_boundary"
      /\ \A q \in 1..k : Low(ReturnBoundaries(k), q) = "return_boundary"
      /\ Depth(ReturnBoundaries(k), k) = k
      /\ \A d \in Nat : Ends(ReturnBoundaries(k), d) = 0
  BY <1>1, OnlyReturns
<1> QED
  BY <1>2, <1>3, Zenon DEF k

-----------------------------------------------------------------------------
\* The parts of the invariant under the operations.

LEMMA StackedFacts ==
    ASSUME NEW s, NEW r, NEW x, NEW p, Stacked(s, r, x, p)
    PROVE  /\ s \in Seq(Items) /\ Len(s) \in Nat /\ WellRun(r, x)
           /\ x \in Nat /\ (x # 0 => x - 2 \in Nat) /\ x <= Len(r)
           /\ r \in Seq(RunRecords) /\ r[1] \in RunRecords /\ 1 \in 1..Len(r)
           /\ Len(r) \in Nat
           /\ Depth(s, Len(s)) = LoopsOf(r, x) /\ LoopsOf(r, x) \in Nat
<1>1. s \in Seq(Items) /\ WellRun(r, x) /\ Depth(s, Len(s)) = LoopsOf(r, x)
  BY DEF Stacked
<1>2. /\ r \in Seq(RunRecords) /\ Len(r) \in Nat /\ Len(r) > 0
      /\ x \in 0..Len(r) /\ x # 1
  BY <1>1 DEF WellRun
<1>3. Depth(s, Len(s)) \in Nat
  BY <1>1, DepthNat
<1>4. r[1] \in RunRecords
  BY <1>2
<1> QED
  BY <1>1, <1>2, <1>3, <1>4

LEMMA StackedKeeps ==
    ASSUME NEW s, NEW r, NEW x, NEW p, Stacked(s, r, x, p),
           NEW t, Keeps(s, t), Seals(s, t) \/ "nx_after_ex" \in Extras,
           p = "document" => (ReturnsOnTop(s) => ReturnsOnTop(t))
    PROVE  Stacked(t, r, x, p)
<1>1. x # 0 => x - 2 \in Nat
  BY StackedFacts
<1>2. t \in Seq(Items) /\ Depth(t, Len(t)) = LoopsOf(r, x)
  BY DEF Stacked, Keeps
<1>3. p = "exit" => x # 0 /\ ("nx_after_ex" \notin Extras => Sealed(t, x - 2))
  BY <1>1 DEF Stacked, Seals
<1> QED
  BY <1>2, <1>3 DEF Stacked

LEMMA TrapsNat ==
    ASSUME NEW r \in Seq(RunRecords), NEW i \in 1..Len(r)
    PROVE  r[i].traps \in Nat
<1>1. r[i] \in RunRecords
  OBVIOUS
<1> QED
  BY <1>1 DEF RunRecords

LEMMA MatchedKeeps ==
    ASSUME NEW s, NEW r, NEW x, NEW p, Stacked(s, r, x, p),
           NEW more \in Nat, Matched(s, r, x, more), NEW t, Keeps(s, t)
    PROVE  Matched(t, r, x, more)
<1> DEFINE n == LoopsOf(r, x)
           b(d) == r[n + 1 - d].traps + (IF d = n THEN more ELSE 0)
<1>1. SUFFICES ASSUME NEW d \in 0..n PROVE Ends(t, d) <= b(d)
  BY DEF Matched
<1>2. Ends(s, d) <= b(d)
  BY DEF Matched
<1>3. d \in Nat /\ s \in Seq(Items) /\ t \in Seq(Items)
  BY StackedFacts DEF Keeps
<1>4. Ends(t, d) <= Ends(s, d) /\ Ends(t, d) \in Nat /\ Ends(s, d) \in Nat
  BY <1>3, EndsNat DEF Keeps
<1>5. b(d) \in Nat
  <2>1. /\ n \in Nat /\ WellRun(r, x) /\ Len(r) \in Nat
        /\ r \in Seq(RunRecords)
    BY StackedFacts
  <2>2. n < Len(r)
    BY <2>1 DEF LoopsOf
  <2> HIDE DEF n
  <2>3. n + 1 - d \in 1..Len(r)
    BY <2>1, <2>2
  <2>4. r[n + 1 - d].traps \in Nat
    BY <2>1, <2>3, TrapsNat
  <2> QED
    BY <2>4
<1> HIDE DEF b
<1> QED
  BY <1>2, <1>4, <1>5

LEMMA HalfKeeps ==
    ASSUME NEW s, NEW r, NEW x, NEW w, NEW p, Half(s, r, x, w, p),
           NEW t, Keeps(s, t), Seals(s, t) \/ "nx_after_ex" \in Extras,
           p = "document" => (ReturnsOnTop(s) => ReturnsOnTop(t))
    PROVE  Half(t, r, x, w, p)
<1>1. Stacked(s, r, x, p)
  BY DEF Half
<1>2. Stacked(t, r, x, p)
  BY <1>1, StackedKeeps
<1>3. Matched(t, r, x, 0)
  BY <1>1, MatchedKeeps DEF Half
<1> QED
  BY <1>2, <1>3 DEF Half, Keeps

LEMMA HalfAll ==
    ASSUME NEW s, NEW r, NEW x, NEW w, NEW p, Half(s, r, x, w, p),
           NEW t, KeepsAll(s, t), p = "document" => NoReturns(s)
    PROVE  Half(t, r, x, w, p) /\ (p = "document" => NoReturns(t))
<1>1. p = "document" => NoReturns(t)
  BY DEF KeepsAll, Lives
<1>2. NoReturns(t) => ReturnsOnTop(t)
  BY DEF NoReturns, ReturnsOnTop
<1>3. Keeps(s, t) /\ Seals(s, t)
  BY DEF KeepsAll
<1> QED
  BY <1>1, <1>2, <1>3, HalfKeeps

\* What the token is, of a stack that was read.
LEMMA Fitting ==
    ASSUME NEW u \in Seq(Items), u = <<>> \/ Stops(u[1]), NoBegin(u)
    PROVE  /\ Fits(u, TokenOf(u))
           /\ TokenOf(u) \in {"line", "end_trap", "eof"}
           /\ TokenOf(u) = "eof" <=> u = <<>> \/ IsBoundary(u[1])
<1>1. CASE u = <<>>
  BY <1>1 DEF TokenOf, Fits, NoBegin, Marks
<1>2. CASE u # <<>> /\ IsBoundary(u[1])
  BY <1>2 DEF TokenOf, Fits, NoBegin, Marks
<1>3. CASE u # <<>> /\ ~IsBoundary(u[1])
  <2>1. 1 \in 1..Len(u) /\ Len(u) \in 1..Len(u) /\ u[1] \in Items
        /\ Len(u) \in Nat
    BY <1>3
  <2>2. u[1].left > 0
    BY <1>3 DEF Stops
  <2>3. u[1].kind \in Texts \/ u[1].kind \in Marks
    BY <1>3, <2>1 DEF Items, IsBoundary, Barriers
  <2>4. u[1].kind # "begin_trap"
    BY <2>1 DEF Low, NoBegin
  <2>5. CASE u[1].kind = "end_trap"
    BY <1>3, <2>5 DEF TokenOf, Fits, NoBegin, Marks
  <2>6. CASE u[1].kind \in Texts
    BY <1>3, <2>6, <2>2 DEF TokenOf, Texts, Fits, NoBegin, Marks
  <2> QED
    BY <2>3, <2>4, <2>5, <2>6 DEF Marks
<1> QED
  BY <1>1, <1>2, <1>3

\* The next token is read.
LEMMA ReadWhole ==
    ASSUME NEW s, NEW r, NEW x, NEW w \in BOOLEAN, NEW p, Half(s, r, x, w, p)
    PROVE  Whole(Unread(s), TokenOf(Unread(s)), r, x, w, p)
<1> DEFINE u == Unread(s)
<1>1. s \in Seq(Items)
  BY DEF Half, Stacked
<1>2. /\ KeepsAll(s, u) /\ (u = <<>> \/ Stops(u[1]))
      /\ ReturnsOnTop(s) => ReturnsOnTop(u)
  BY <1>1, UnreadKeeps
<1> HIDE DEF u
<1>3. Half(u, r, x, w, p)
  BY <1>2, HalfKeeps DEF KeepsAll
<1>4. u \in Seq(Items) /\ NoBegin(u)
  BY <1>3 DEF Half, Stacked
<1>5. /\ Fits(u, TokenOf(u)) /\ TokenOf(u) \in {"line", "end_trap", "eof"}
      /\ TokenOf(u) = "eof" <=> u = <<>> \/ IsBoundary(u[1])
  BY <1>2, <1>4, Fitting
<1>6. p = "document" => ~w /\ (NoReturns(u) \/ TokenOf(u) = "eof")
  <2>1. SUFFICES ASSUME p = "document", ~NoReturns(u) PROVE TokenOf(u) = "eof"
    BY <1>3 DEF Half
  <2>2. PICK i \in 1..Len(u) : Low(u, i) = "return_boundary"
    BY <2>1 DEF NoReturns
  <2>3. ReturnsOnTop(u) /\ Len(u) \in 1..Len(u) /\ Len(u) \in Nat /\ u # <<>>
    BY <1>3, <1>4, <2>1, <2>2 DEF Half, Stacked
  <2>4. Low(u, Len(u)) = "return_boundary"
    BY <2>2, <2>3 DEF ReturnsOnTop
  <2>5. Len(u) + 1 - Len(u) = 1
    BY <2>3
  <2>6. u[1].kind = "return_boundary"
    BY <2>4, <2>5, Zenon DEF Low
  <2> QED
    BY <1>5, <2>6 DEF IsBoundary
<1> QED
  BY <1>3, <1>5, <1>6 DEF Half, Whole, u

\* Nothing but the beginning of a trap is in the way.
LEMMA WholeHalf ==
    ASSUME NEW s, NEW t, NEW r, NEW x, NEW w, NEW p, Whole(s, t, r, x, w, p),
           t # "begin_trap"
    PROVE  /\ Half(s, r, x, FALSE, p)
           /\ p = "document" => (t # "eof" => NoReturns(s) /\ ~w)
           /\ t # "eof" => Half(s, r, x, w, p)
<1>1. NoBegin(s)
  BY DEF Whole, Fits, NoBegin
<1>2. Stacked(s, r, x, p) /\ Matched(s, r, x, 0)
  BY DEF Whole
<1>3. p = "document" => (t # "eof" => NoReturns(s) /\ ~w)
  BY DEF Whole
<1> QED
  BY <1>1, <1>2, <1>3 DEF Half

\* A line was read.
LEMMA RestHalf ==
    ASSUME NEW s, NEW t \in {"line", "cut"}, NEW r, NEW x, NEW w, NEW p,
           Whole(s, t, r, x, w, p), NEW n \in Nat, n <= s[1].left
    PROVE  /\ Half(Took(s, n), r, x, w, p) /\ Took(s, n) \in Seq(Items)
           /\ Took(s, n) # <<>>
           /\ p = "document" => NoReturns(Took(s, n)) /\ ~w
<1>1. Half(s, r, x, w, p) /\ (p = "document" => NoReturns(s) /\ ~w)
  BY WholeHalf
<1>2. s \in Seq(Items) /\ s # <<>> /\ s[1].kind \in Texts
  BY DEF Whole, Fits, Stacked
<1>3. Took(s, n) \in Seq(Items) /\ KeepsAll(s, Took(s, n)) /\ Took(s, n) # <<>>
  BY <1>2, TookKeeps
<1> QED
  BY <1>1, <1>3, HalfAll

\* Other iterators and another innermost run.
LEMMA MatchedChanged ==
    ASSUME NEW s, NEW r, NEW x, NEW p, Stacked(s, r, x, p),
           NEW more \in Nat, Matched(s, r, x, more), NEW t, Keeps(s, t),
           NEW u \in Seq(RunRecords), Len(u) = Len(r), u[1].kind = r[1].kind,
           \A i \in 2..Len(r) : u[i] = r[i],
           Ends(t, LoopsOf(r, x)) <= u[1].traps
    PROVE  WellRun(u, x) /\ LoopsOf(u, x) = LoopsOf(r, x) /\ Matched(t, u, x, 0)
<1> DEFINE n == LoopsOf(r, x)
<1>1. /\ n \in Nat /\ WellRun(r, x) /\ Len(r) \in Nat
      /\ r \in Seq(RunRecords)
  BY StackedFacts
<1>2. n < Len(r)
  BY <1>1 DEF LoopsOf
<1>3. WellRun(u, x) /\ LoopsOf(u, x) = LoopsOf(r, x)
  BY <1>1, RunsChanged
<1> HIDE DEF n
<1>4. ASSUME NEW d \in 0..n
      PROVE  Ends(t, d) <= u[n + 1 - d].traps + (IF d = n THEN 0 ELSE 0)
  <2>1. n + 1 - d \in 1..Len(u)
    BY <1>1, <1>2
  <2>2. u[n + 1 - d].traps \in Nat
    BY <2>1, TrapsNat
  <2>3. CASE d = n
    <3>1. n + 1 - d = 1
      BY <1>1, <2>3
    <3>2. Ends(t, d) <= u[n + 1 - d].traps
      BY <2>3, <3>1, Zenon DEF n
    <3> QED
      BY <2>2, <3>2
  <2>4. CASE d # n
    <3>1. n + 1 - d \in 2..Len(r)
      BY <1>1, <1>2, <2>4
    <3>2. u[n + 1 - d] = r[n + 1 - d]
      BY <3>1
    <3>3. Matched(t, r, x, more)
      BY MatchedKeeps
    <3>4. Ends(t, d) <= r[n + 1 - d].traps + (IF d = n THEN more ELSE 0)
      BY <3>3 DEF Matched, n
    <3> QED
      BY <2>2, <2>4, <3>2, <3>4
  <2> QED
    BY <2>3, <2>4
<1>5. Matched(t, u, x, 0)
  BY <1>3, <1>4 DEF n, Matched
<1> QED
  BY <1>3, <1>5

\* No end of a trap is above a boundary that is on top.
LEMMA EofEnds ==
    ASSUME NEW s \in Seq(Items), s = <<>> \/ IsBoundary(s[1])
    PROVE  Ends(s, Depth(s, Len(s))) = 0
<1>1. CASE s = <<>>
  BY <1>1, DepthNat, FS_EmptySet DEF EndsAt, Ends
<1>2. CASE s # <<>> /\ IsBoundary(s[1])
  BY <1>2, EndsOnTop DEF Low, IsBoundary, Barriers
<1> QED
  BY <1>1, <1>2

\* In the document, nothing is returned from where a loop is live on top.
LEMMA LiveTop ==
    ASSUME NEW s \in Seq(Items), ReturnsOnTop(s),
           s # <<>> => s[1].kind # "return_boundary"
    PROVE  NoReturns(s)
<1>1. SUFFICES ASSUME NEW i \in 1..Len(s), Low(s, i) = "return_boundary"
               PROVE  FALSE
  BY DEF NoReturns
<1>2. s # <<>> /\ Len(s) \in 1..Len(s) /\ Len(s) \in Nat /\ i <= Len(s)
      /\ Len(s) + 1 - Len(s) = 1
  BY <1>1
<1>3. Low(s, Len(s)) # "return_boundary"
  BY <1>2, Zenon DEF Low
<1>4. i < Len(s)
  BY <1>1, <1>3, <1>2
<1> QED
  BY <1>1, <1>2, <1>3, <1>4 DEF ReturnsOnTop

-----------------------------------------------------------------------------
\* A trap is sprung.

LEMMA TrapItems ==
    ASSUME NEW size \in Nat
    PROVE  /\ Trap(size) \in Seq(Items) /\ Len(Trap(size)) = 3
           /\ Trap(size)[1].kind = "begin_trap" /\ Trap(size)[1].left = 1
           /\ Trap(size)[2].kind = "macro" /\ Trap(size)[3].kind = "end_trap"
<1> DEFINE b == Iterator("begin_trap", 1, 0, 1)
           m == Iterator("macro", size, 0, size)
           e == Iterator("end_trap", 1, 0, 1)
<1>1. b \in Items /\ b.kind = "begin_trap" /\ b.left = 1
  BY DEF Iterator, Items, Texts, Barriers, Marks
<1>2. m \in Items /\ m.kind = "macro"
  BY DEF Iterator, Items, Texts, Barriers, Marks
<1>3. e \in Items /\ e.kind = "end_trap"
  BY DEF Iterator, Items, Texts, Barriers, Marks
<1>4. Trap(size) = <<b, m, e>>
  BY Zenon DEF Trap
<1> HIDE DEF b, m, e
<1> QED
  BY <1>1, <1>2, <1>3, <1>4

LEMMA TrapPushed ==
    ASSUME NEW s, NEW r, NEW x, NEW w \in BOOLEAN, NEW p, Half(s, r, x, w, p),
           p = "document" => NoReturns(s), NEW size \in Nat
    PROVE  /\ Unread(Trap(size) \o s) = Trap(size) \o s
           /\ TokenOf(Trap(size) \o s) = "begin_trap"
           /\ Whole(Trap(size) \o s, "begin_trap", r, x, w, p)
<1> DEFINE a == Trap(size)
           t == a \o s
           m == Len(s)
<1>1. /\ a \in Seq(Items) /\ Len(a) = 3 /\ a[1].kind = "begin_trap"
      /\ a[1].left = 1 /\ a[2].kind = "macro" /\ a[3].kind = "end_trap"
  BY TrapItems
<1>2. Stacked(s, r, x, p) /\ NoBegin(s) /\ Matched(s, r, x, 0)
  BY DEF Half
<1>3. s \in Seq(Items) /\ m \in Nat /\ Depth(s, m) = LoopsOf(r, x)
      /\ LoopsOf(r, x) \in Nat
  BY <1>2, StackedFacts
<1> HIDE DEF a
<1>4. /\ t \in Seq(Items) /\ Len(t) = Len(a) + Len(s) /\ Same(s, t, Len(s))
      /\ \A j \in 1..Len(a) : t[j] = a[j]
      /\ \A q \in (Len(s) + 1)..(Len(a) + Len(s)) :
            /\ Len(a) + Len(s) + 1 - q \in 1..Len(a)
            /\ Low(t, q) = a[Len(a) + Len(s) + 1 - q].kind
  BY <1>1, <1>3, OnTopSame
<1> HIDE DEF t, m
<1>5. Len(t) = m + 3 /\ Same(s, t, m) /\ t[1] = a[1] /\ t # <<>>
  BY <1>1, <1>3, <1>4 DEF m
<1>6. /\ Low(t, m + 1) = "end_trap" /\ Low(t, m + 2) = "macro"
      /\ Low(t, m + 3) = "begin_trap"
  <2>1. /\ m + 1 \in (Len(s) + 1)..(Len(a) + Len(s))
        /\ m + 2 \in (Len(s) + 1)..(Len(a) + Len(s))
        /\ m + 3 \in (Len(s) + 1)..(Len(a) + Len(s))
        /\ Len(a) + Len(s) + 1 - (m + 1) = 3
        /\ Len(a) + Len(s) + 1 - (m + 2) = 2
        /\ Len(a) + Len(s) + 1 - (m + 3) = 1
    BY <1>1, <1>3 DEF m
  <2> QED
    BY <1>1, <1>4, <2>1
<1>7. \A q \in (m + 1)..Len(t) : q = m + 1 \/ q = m + 2 \/ q = m + 3
  BY <1>3, <1>5
<1>8. \A q \in 1..m : Low(t, q) = Low(s, q)
  BY <1>5 DEF Same
<1>9. \A q \in 1..Len(t) : q \in 1..m \/ q \in (m + 1)..Len(t)
  BY <1>3, <1>5
<1>10. Depth(t, Len(t)) = LoopsOf(r, x)
  <2>1. \A q \in (m + 1)..Len(t) : Low(t, q) \notin Barriers
    BY <1>6, <1>7 DEF Barriers
  <2>2. Len(t) \in Nat /\ m <= Len(t) /\ m \in 0..m
    BY <1>3, <1>5
  <2>3. Depth(t, Len(t)) = Depth(t, m)
    BY <1>3, <2>1, <2>2, DepthFlat
  <2>4. Depth(s, m) = Depth(t, m)
    BY <1>5, <2>2, DepthSame
  <2> QED
    BY <1>3, <2>3, <2>4
<1>11. ASSUME NEW d \in Nat
       PROVE  Ends(t, d) <= Ends(s, d) + (IF d = LoopsOf(r, x) THEN 1 ELSE 0)
  <2>1. m + 1 \in (m + 1)..Len(t)
    BY <1>3, <1>5
  <2>2. \A q \in (m + 1)..Len(t) :
            Low(t, q) \notin Barriers /\ (q # m + 1 => Low(t, q) # "end_trap")
    BY <1>6, <1>7 DEF Barriers
  <2>3. Ends(t, d) <= Ends(s, d) + (IF d = Depth(s, m) THEN 1 ELSE 0)
    BY <1>3, <1>4, <1>5, <2>1, <2>2, EndsAdded DEF m
  <2> QED
    BY <1>3, <2>3, Zenon
<1>12. Matched(t, r, x, 1)
  <2> DEFINE n == LoopsOf(r, x)
  <2>1. SUFFICES ASSUME NEW d \in 0..n
                 PROVE  Ends(t, d) <= r[n + 1 - d].traps
                                        + (IF d = n THEN 1 ELSE 0)
    BY DEF Matched
  <2>2. Ends(s, d) <= r[n + 1 - d].traps + (IF d = n THEN 0 ELSE 0)
    BY <1>2 DEF Matched
  <2>3. d \in Nat /\ Ends(s, d) \in Nat /\ Ends(t, d) \in Nat
    BY <1>3, <1>4, EndsNat
  <2>4. r[n + 1 - d].traps \in Nat
    <3>1. r \in Seq(RunRecords) /\ WellRun(r, x) /\ Len(r) \in Nat
      BY <1>2, StackedFacts
    <3>2. n < Len(r)
      BY <3>1 DEF LoopsOf
    <3> HIDE DEF n
    <3>3. n + 1 - d \in 1..Len(r)
      BY <1>3, <3>1, <3>2 DEF n
    <3> QED
      BY <3>1, <3>3, TrapsNat
  <2>5. Ends(t, d) <= Ends(s, d) + (IF d = n THEN 1 ELSE 0)
    BY <1>11, <2>3
  <2> HIDE DEF n
  <2> QED
    BY <2>2, <2>3, <2>4, <2>5
<1>13. Fits(t, "begin_trap")
  BY <1>2, <1>5, <1>6, <1>7, <1>8, <1>9, <1>1 DEF m, NoBegin, Fits, Marks
<1>14. p = "document" => NoReturns(t)
  BY <1>6, <1>7, <1>8, <1>9 DEF m, NoReturns
<1>15. Stacked(t, r, x, p)
  <2>1. NoReturns(t) => ReturnsOnTop(t)
    BY DEF NoReturns, ReturnsOnTop
  <2>2. ASSUME NEW n \in Nat, Sealed(s, n) PROVE Sealed(t, n)
    BY <2>2, <1>3, <1>5, <1>8 DEF Sealed, m
  <2>3. x # 0 => x - 2 \in Nat
    BY <1>2, StackedFacts
  <2> QED
    BY <1>2, <1>4, <1>10, <1>14, <2>1, <2>2, <2>3 DEF Stacked
<1>16. TokenOf(t) = "begin_trap"
  BY <1>1, <1>5 DEF TokenOf, IsBoundary
<1>17. Unread(t) = t
  BY <1>1, <1>5, <1>4, UnreadKeeps DEF Stops
<1>18. Whole(t, "begin_trap", r, x, w, p)
  BY <1>12, <1>13, <1>14, <1>15 DEF Whole, Half
<1> QED
  BY <1>16, <1>17, <1>18 DEF t, a

-----------------------------------------------------------------------------
\* The beginning or the end of a trap was read: the iterator is passed over.

LEMMA TailSame ==
    ASSUME NEW s \in Seq(Items), s # <<>>
    PROVE  /\ Tail(s) \in Seq(Items) /\ Len(Tail(s)) = Len(s) - 1
           /\ Same(s, Tail(s), Len(s) - 1)
           /\ ReturnsOnTop(s) => ReturnsOnTop(Tail(s))
<1> DEFINE a == Tail(s)
           b == FromTop(s, 2)
<1>1. Len(s) \in Nat /\ Len(s) > 0
  OBVIOUS
<1>2. 2 \in 1..(Len(s) + 1) /\ Len(s) + 1 - 2 = Len(s) - 1
  BY <1>1
<1>3. b \in Seq(Items) /\ Len(b) = Len(s) + 1 - 2 /\ Same(s, b, Len(s) + 1 - 2)
  BY <1>2, FromTopSame, Zenon
<1>4. ReturnsOnTop(s) => ReturnsOnTop(b)
  BY <1>2, PopReturns
<1>5. a = b
  BY TailIsSubSeq, Zenon DEF FromTop
<1> HIDE DEF a, b
<1>6. a \in Seq(Items) /\ Len(a) = Len(s) - 1 /\ Same(s, a, Len(s) - 1)
  BY <1>2, <1>3, <1>5, Zenon
<1>7. ReturnsOnTop(s) => ReturnsOnTop(a)
  BY <1>4, <1>5, Zenon
<1> QED
  BY <1>6, <1>7 DEF a

LEMMA MarkRead ==
    ASSUME NEW s \in Seq(Items), s # <<>>, s[1].kind \in Marks
    PROVE  /\ Unread(Took(s, 1)) = Unread(Tail(s))
           /\ Tail(s) \in Seq(Items) /\ KeepsAll(s, Tail(s))
           /\ Len(Tail(s)) = Len(s) - 1 /\ Same(s, Tail(s), Len(s) - 1)
           /\ Low(s, Len(s)) = s[1].kind
           /\ \A q \in 1..(Len(s) - 1) : Low(Tail(s), q) = Low(s, q)
<1> DEFINE it == [s[1] EXCEPT !.left = @ - 1]
           t == Took(s, 1)
           E == Items \cup {it}
<1>1. s[1] \in Items /\ s[1].left = 1 /\ Len(s) \in Nat /\ 1 \in 1..Len(s)
      /\ 2 \in 1..(Len(s) + 1)
  BY DEF Items
<1>2. it.left = 0 /\ it.kind = s[1].kind
  BY <1>1 DEF Items
<1>3. t = [s EXCEPT ![1] = it]
  BY DEF Took
<1>4. Tail(s) = FromTop(s, 2)
  BY TailIsSubSeq, Zenon DEF FromTop
<1> HIDE DEF it
<1>5. t \in Seq(E) /\ t # <<>> /\ t[1] = it /\ Tail(t) = Tail(s)
  <2>1. t \in Seq(E) /\ Len(t) = Len(s) /\ t[1] = it
        /\ \A j \in 2..Len(s) : t[j] = s[j]
    BY <1>1, <1>3
  <2> HIDE DEF t
  <2>2. Tail(t) \in Seq(E) /\ Len(Tail(t)) = Len(s) - 1
        /\ \A j \in 1..(Len(s) - 1) : Tail(t)[j] = t[j + 1]
    BY <1>1, <2>1
  <2>3. Tail(s) \in Seq(E) /\ Len(Tail(s)) = Len(s) - 1
        /\ \A j \in 1..(Len(s) - 1) : Tail(s)[j] = s[j + 1]
    BY <1>1
  <2>4. \A j \in 1..(Len(s) - 1) : j + 1 \in 2..Len(s)
    BY <1>1
  <2>5. \A j \in 1..(Len(s) - 1) : Tail(t)[j] = Tail(s)[j]
    BY <2>1, <2>2, <2>3, <2>4
  <2> DEFINE a == Tail(t)
             b == Tail(s)
             n == Len(s) - 1
  <2>6. a \in Seq(E) /\ b \in Seq(E) /\ Len(a) = n /\ Len(b) = n
        /\ \A j \in 1..n : a[j] = b[j]
    BY <2>2, <2>3, <2>5
  <2>7. a = b
    <3> HIDE DEF a, b, n
    <3> QED
      BY <2>6
  <2> QED
    BY <1>1, <2>1, <2>7
<1>6. Unread(t) = Unread(Tail(s))
  <2>1. ~Stops(t[1])
    BY <1>2, <1>5 DEF Stops, IsBoundary, Marks
  <2> HIDE DEF t, E
  <2>2. Unread(t) = Unread(Tail(t))
    BY <1>5, <2>1, UnreadTail
  <2> QED
    BY <1>5, <2>2, Zenon
<1>7. KeepsAll(s, Tail(s))
  <2>1. \A j \in 1..(2 - 1) : ~IsBoundary(s[j])
    BY DEF IsBoundary, Marks
  <2> QED
    BY <1>1, <1>4, <2>1, PopKeeps
<1>8. /\ Tail(s) \in Seq(Items) /\ Len(Tail(s)) = Len(s) - 1
      /\ Same(s, Tail(s), Len(s) - 1)
  BY TailSame
<1>9. Low(s, Len(s)) = s[1].kind
  BY <1>1 DEF Low
<1>10. \A q \in 1..(Len(s) - 1) : Low(Tail(s), q) = Low(s, q)
  BY <1>8, Zenon DEF Same
<1> QED
  BY <1>6, <1>7, <1>8, <1>9, <1>10 DEF t

LEMMA WholeFacts ==
    ASSUME NEW s, NEW t, NEW r, NEW x, NEW w, NEW p, Whole(s, t, r, x, w, p)
    PROVE  /\ Stacked(s, r, x, p) /\ Fits(s, t) /\ w \in BOOLEAN
           /\ Matched(s, r, x, IF t = "begin_trap" THEN 1 ELSE 0)
           /\ t = "test" => r[1].kind = "while"
           /\ p = "document" => /\ NoReturns(s) \/ (t = "eof" /\ ~w)
                                /\ w => t = "eof" /\ r[1].kind = "while"
BY DEF Whole

\* The run now expects the end of a trap, or one end less.
LEMMA MarkTook ==
    ASSUME NEW s, NEW t \in Marks, NEW r, NEW x, NEW w, NEW p,
           Whole(s, t, r, x, w, p),
           NEW k, k = IF t = "begin_trap" THEN 1
                      ELSE IF r[1].traps = 0 THEN 0 ELSE -1
    PROVE  /\ Unread(Took(s, 1)) = Unread(Tail(s))
           /\ Half(Tail(s), [r EXCEPT ![1].traps = @ + k], x, w, p)
<1> DEFINE a == Tail(s)
           n == LoopsOf(r, x)
           v == r[1].traps + k
           u == WithTraps(r, v)
<1>1. Stacked(s, r, x, p) /\ s # <<>> /\ s[1].kind = t
  BY WholeFacts DEF Fits
<1>2. /\ s \in Seq(Items) /\ Depth(s, Len(s)) = n /\ n \in Nat /\ WellRun(r, x)
      /\ r[1] \in RunRecords /\ Len(s) \in Nat /\ Len(r) \in Nat
  BY <1>1, StackedFacts
<1>3. /\ Unread(Took(s, 1)) = Unread(a)
      /\ a \in Seq(Items) /\ KeepsAll(s, a)
      /\ Len(a) = Len(s) - 1 /\ Same(s, a, Len(s) - 1)
      /\ Low(s, Len(s)) = s[1].kind
      /\ \A q \in 1..(Len(s) - 1) : Low(a, q) = Low(s, q)
  BY <1>1, <1>2, MarkRead
<1> HIDE DEF a, n
<1>4. r[1].traps \in Nat /\ Ends(a, n) \in Nat /\ Ends(s, n) \in Nat
  BY <1>2, <1>3, EndsNat DEF RunRecords
<1>5. Ends(s, n) <= r[1].traps + (IF t = "begin_trap" THEN 1 ELSE 0)
  <2> DEFINE more == IF t = "begin_trap" THEN 1 ELSE 0
  <2>1. Matched(s, r, x, more)
    BY WholeFacts
  <2>2. n \in 0..n /\ n + 1 - n = 1
    BY <1>2
  <2> HIDE DEF more
  <2>3. Ends(s, n) <= r[n + 1 - n].traps + (IF n = n THEN more ELSE 0)
    BY <2>1, <2>2 DEF Matched, n
  <2>4. Ends(s, n) <= r[1].traps + more
    BY <2>2, <2>3, Zenon
  <2> QED
    BY <2>4 DEF more
<1>6. v \in Nat /\ Ends(a, n) <= v
  <2>1. CASE t = "begin_trap"
    <3>1. Ends(a, n) <= Ends(s, n)
      BY <1>2, <1>3 DEF KeepsAll, Keeps
    <3> QED
      BY <1>4, <1>5, <2>1, <3>1
  <2>2. CASE t = "end_trap"
    <3>1. Low(s, Len(s)) = "end_trap" /\ Same(s, a, Len(a))
      BY <1>1, <1>3, <2>2
    <3>2. Ends(a, n) <= Ends(s, n) - 1
      BY <1>1, <1>2, <1>3, <3>1, EndsTaken DEF n
    <3> QED
      BY <1>4, <1>5, <2>2, <3>2
  <2> QED
    BY <2>1, <2>2 DEF Marks
<1> HIDE DEF v
<1>7. /\ WellRun(u, x) /\ LoopsOf(u, x) = n /\ u[1].traps = v
      /\ u[1].kind = r[1].kind /\ \A i \in 2..Len(r) : u[i] = r[i]
  BY <1>2, <1>6, RunsTraps DEF n
<1>8. u \in Seq(RunRecords) /\ Len(u) = Len(r)
  <2>1. u \in Seq(RunRecords)
    BY <1>7 DEF WellRun
  <2>2. LoopsOf(u, x) = LoopsOf(r, x)
    BY <1>7 DEF n
  <2>3. Len(u) \in Nat
    BY <2>1
  <2> HIDE DEF u
  <2> QED
    BY <1>2, <2>1, <2>2, <2>3 DEF LoopsOf
<1> HIDE DEF u
<1>9. Stacked(a, r, x, p)
  <2>1. Keeps(s, a) /\ Seals(s, a)
    BY <1>3 DEF KeepsAll
  <2>2. ReturnsOnTop(s) => ReturnsOnTop(a)
    <3>1. \A q \in 1..Len(a) : q \in 1..Len(s) /\ q \in 1..(Len(s) - 1)
      BY <1>2, <1>3
    <3>2. \A q \in 1..Len(a) : Low(a, q) = Low(s, q)
      BY <1>3, <3>1
    <3> QED
      BY <3>1, <3>2 DEF ReturnsOnTop
  <2> QED
    BY <1>1, <2>1, <2>2, StackedKeeps
<1>10. Matched(a, u, x, 0)
  <2>1. Matched(s, r, x, IF t = "begin_trap" THEN 1 ELSE 0)
    BY WholeFacts
  <2>2. Keeps(s, a)
    BY <1>3 DEF KeepsAll
  <2>3. Ends(a, LoopsOf(r, x)) <= u[1].traps
    BY <1>6, <1>7 DEF n
  <2> DEFINE more == IF t = "begin_trap" THEN 1 ELSE 0
  <2>4. more \in Nat
    OBVIOUS
  <2> HIDE DEF more
  <2> QED
    BY <1>1, <1>7, <1>8, <2>1, <2>2, <2>3, <2>4, MatchedChanged DEF more
<1>11. Stacked(a, u, x, p)
  BY <1>7, <1>9 DEF Stacked, n
<1>12. NoBegin(a)
  <2>1. ASSUME NEW q \in 1..Len(a) PROVE Low(a, q) # "begin_trap"
    BY <1>2, <1>3, WholeFacts DEF Fits
  <2> QED
    BY <2>1 DEF NoBegin
<1>13. p = "document" => ~w
  BY WholeFacts DEF Marks
<1>14. Half(a, u, x, w, p)
  BY <1>10, <1>11, <1>12, <1>13 DEF Half
<1>15. u = [r EXCEPT ![1].traps = @ + k]
  BY Zenon DEF u, v, WithTraps
<1> QED
  BY <1>3, <1>14, <1>15 DEF a

-----------------------------------------------------------------------------
\* Loops begin and end.

\* The boundary on top goes, and so does its run.
LEMMA LoopLeft ==
    ASSUME NEW s, NEW r, NEW x, NEW p, Half(s, r, x, FALSE, p),
           s # <<>>, IsBoundary(s[1]), r[1].kind = "while"
    PROVE  Half(Tail(s), Tail(r), x, FALSE, p)
<1> DEFINE a == Tail(s)
           u == Tail(r)
           n == LoopsOf(r, x)
<1>1. Stacked(s, r, x, p) /\ NoBegin(s) /\ Matched(s, r, x, 0)
  BY DEF Half
<1>2. /\ s \in Seq(Items) /\ Depth(s, Len(s)) = n /\ WellRun(r, x)
      /\ Len(s) \in Nat /\ Len(s) > 0 /\ Len(r) \in Nat /\ x \in Nat
      /\ r \in Seq(RunRecords)
  BY <1>1, StackedFacts
<1>3. a \in Seq(Items) /\ Len(a) = Len(s) - 1 /\ Same(s, a, Len(s) - 1)
      /\ (ReturnsOnTop(s) => ReturnsOnTop(a))
  BY <1>2, TailSame, Zenon
<1>4. /\ WellRun(u, x) /\ LoopsOf(u, x) = n - 1 /\ n \in Nat \ {0} /\ x < Len(r)
      /\ \A i \in 1..(Len(r) - 1) : u[i] = r[i + 1]
  BY <1>2, RunsLeft
<1>5. n < Len(r) /\ (x # 0 => n = Len(r) - 2)
  BY <1>2, <1>4 DEF LoopsOf
<1> HIDE DEF a, u, n
<1>6. \A q \in 1..Len(a) : q \in 1..Len(s) /\ Low(a, q) = Low(s, q)
  BY <1>2, <1>3 DEF Same
<1>7. Depth(a, Len(a)) = n - 1
  <2>1. Len(s) + 1 - Len(s) = 1
    BY <1>2
  <2>2. Low(s, Len(s)) \in Barriers
    BY <2>1, Zenon DEF Low, IsBoundary, Barriers
  <2>3. Depth(s, Len(s)) = Depth(s, Len(s) - 1) + 1
    BY <1>2, <2>2, DepthStep
  <2>4. Len(a) \in 0..(Len(s) - 1) /\ Len(s) - 1 \in Nat
    BY <1>2, <1>3
  <2>5. Depth(s, Len(a)) = Depth(a, Len(a))
    BY <1>3, <2>4, DepthSame
  <2>6. Depth(s, Len(s) - 1) = Depth(s, Len(a))
    BY <1>3, Zenon
  <2>7. Depth(s, Len(s) - 1) \in Nat
    BY <2>4, DepthNat
  <2> QED
    BY <1>2, <1>4, <2>3, <2>5, <2>6, <2>7
<1>8. \A d \in Nat : Ends(a, d) <= Ends(s, d)
  BY <1>2, <1>3, EndsFewer
<1>9. Matched(a, u, x, 0)
  <2>1. ASSUME NEW d \in 0..(n - 1)
        PROVE  Ends(a, d) <= u[(n - 1) + 1 - d].traps
                               + (IF d = n - 1 THEN 0 ELSE 0)
    <3>1. /\ d \in 0..n /\ d \in Nat /\ n - d \in 1..(Len(r) - 1)
          /\ (n - 1) + 1 - d = n - d /\ (n - d) + 1 = n + 1 - d
          /\ n + 1 - d \in 1..Len(r)
      BY <1>2, <1>4, <1>5
    <3>2. Ends(s, d) <= r[n + 1 - d].traps + (IF d = n THEN 0 ELSE 0)
      BY <1>1, <3>1 DEF Matched, n
    <3>3. r[n + 1 - d].traps \in Nat
      BY <1>2, <3>1, TrapsNat
    <3>4. Ends(s, d) \in Nat /\ Ends(a, d) \in Nat /\ Ends(a, d) <= Ends(s, d)
      BY <1>2, <1>3, <1>8, <3>1, EndsNat
    <3>5. u[(n - 1) + 1 - d] = r[n + 1 - d]
      BY <1>4, <3>1
    <3> QED
      BY <3>2, <3>3, <3>4, <3>5
  <2> QED
    BY <1>4, <2>1, Zenon DEF Matched
<1>10. ASSUME x # 0, Sealed(s, x - 2) PROVE Sealed(a, x - 2)
  BY <1>2, DepthBound, <1>3, <1>4, <1>5, <1>10, <1>6 DEF Sealed
<1>11. NoBegin(a)
  BY <1>1, <1>6 DEF NoBegin
<1>12. Stacked(a, u, x, p)
  BY <1>1, <1>3, <1>4, <1>7, <1>10 DEF Stacked
<1> QED
  BY <1>9, <1>11, <1>12 DEF Half, a, u

\* The body and the boundary below it go onto the stack, as does the run.
LEMMA LoopBegun ==
    ASSUME NEW s, NEW r, NEW x, NEW w \in BOOLEAN, NEW p, Half(s, r, x, w, p),
           p = "document" => NoReturns(s), NEW size \in Nat
    PROVE  Whole(<<Body(size), Boundary(size)>> \o s, "test",
                 <<Run("while", size, 0)>> \o r, x, w, p)
<1> DEFINE b == Body(size)
           c == Boundary(size)
           a == <<b, c>>
           e == Run("while", size, 0)
           t == a \o s
           u == <<e>> \o r
           n == LoopsOf(r, x)
           m == Len(s)
<1>1. b \in Items /\ b.kind = "loop" /\ c \in Items /\ c.kind = "boundary"
  BY DEF Body, Boundary, Iterator, Items, Texts, Barriers, Marks
<1>2. e \in RunRecords /\ e.kind = "while" /\ e.traps = 0
  BY DEF Run, RunRecords
<1>3. Stacked(s, r, x, p) /\ NoBegin(s) /\ Matched(s, r, x, 0)
  BY DEF Half
<1>4. /\ s \in Seq(Items) /\ Depth(s, m) = n /\ WellRun(r, x)
      /\ m \in Nat /\ Len(r) \in Nat /\ x \in Nat /\ n \in Nat
      /\ r \in Seq(RunRecords)
  BY <1>3, StackedFacts
<1> HIDE DEF b, c, e
<1>5. a \in Seq(Items) /\ Len(a) = 2 /\ a[1] = b /\ a[2] = c
  BY <1>1
<1>6. n < Len(r)
  BY <1>4 DEF LoopsOf
<1>7. /\ WellRun(u, x) /\ LoopsOf(u, x) = n + 1
      /\ u[1] = e /\ \A i \in 1..Len(r) : u[i + 1] = r[i]
  BY <1>2, <1>4, RunsLoop
<1> HIDE DEF a
<1>8. /\ t \in Seq(Items) /\ Len(t) = Len(a) + Len(s) /\ Same(s, t, Len(s))
      /\ \A j \in 1..Len(a) : t[j] = a[j]
      /\ \A q \in (Len(s) + 1)..(Len(a) + Len(s)) :
            /\ Len(a) + Len(s) + 1 - q \in 1..Len(a)
            /\ Low(t, q) = a[Len(a) + Len(s) + 1 - q].kind
  BY <1>4, <1>5, OnTopSame
<1> HIDE DEF t, u, n, m
<1>9. Len(t) = m + 2 /\ Same(s, t, m) /\ t[1] = b /\ t[2] = c
  BY <1>4, <1>5, <1>8 DEF m
<1>10. Low(t, m + 1) = "boundary" /\ Low(t, m + 2) = "loop"
  <2>1. /\ m + 1 \in (Len(s) + 1)..(Len(a) + Len(s))
        /\ m + 2 \in (Len(s) + 1)..(Len(a) + Len(s))
        /\ Len(a) + Len(s) + 1 - (m + 1) = 2
        /\ Len(a) + Len(s) + 1 - (m + 2) = 1
    BY <1>4, <1>5 DEF m
  <2> QED
    BY <1>1, <1>5, <1>8, <2>1
<1>11. \A q \in (m + 1)..Len(t) : q = m + 1 \/ q = m + 2
  BY <1>4, <1>9
<1>12. \A q \in 1..m : Low(t, q) = Low(s, q)
  BY <1>9 DEF Same
<1>13. \A q \in 1..Len(t) : q \in 1..m \/ q \in (m + 1)..Len(t)
  BY <1>4, <1>9
<1>14. \A q \in 1..m : q \in 1..Len(s)
  BY DEF m
<1>15. Depth(t, Len(t)) = n + 1
  BY <1>4, <1>10, DepthStep, <1>9, DepthSame DEF Barriers
<1>16. \A d \in Nat : Ends(t, d) <= Ends(s, d)
  BY <1>10, <1>11, <1>4, <1>8, <1>9, EndsFewer
<1>17. Matched(t, u, x, 0)
  <2>1. ASSUME NEW d \in 0..(n + 1)
        PROVE  Ends(t, d) <= u[(n + 1) + 1 - d].traps
                               + (IF d = n + 1 THEN 0 ELSE 0)
    <3>1. d \in Nat /\ Ends(t, d) <= Ends(s, d) /\ Ends(t, d) \in Nat
          /\ Ends(s, d) \in Nat
      <4>1. d \in Nat
        BY <1>4
      <4>2. Ends(t, d) \in Nat /\ Ends(s, d) \in Nat
        BY <1>4, <1>8, EndsNat
      <4> QED
        BY <1>16, <4>1, <4>2
    <3>2. CASE d = n + 1
      <4>1. Ends(s, d) = 0
        BY <1>4, <3>1, <3>2, EndsNone DEF m
      <4>2. (n + 1) + 1 - d = 1
        BY <1>4, <3>2
      <4>3. u[(n + 1) + 1 - d].traps = 0
        BY <1>2, <1>7, <4>2, Zenon
      <4> QED
        BY <3>1, <4>1, <4>3
    <3>3. CASE d # n + 1
      <4>1. /\ d \in 0..n /\ n + 1 - d \in 1..Len(r)
            /\ (n + 1 - d) + 1 = (n + 1) + 1 - d
        BY <1>4, <1>6, <3>3
      <4>2. Ends(s, d) <= r[n + 1 - d].traps + (IF d = n THEN 0 ELSE 0)
        BY <1>3, <4>1 DEF Matched, n
      <4>3. u[(n + 1) + 1 - d] = r[n + 1 - d]
        BY <1>7, <4>1
      <4>4. r[n + 1 - d].traps \in Nat
        BY <1>4, <4>1, TrapsNat
      <4> QED
        BY <3>1, <4>2, <4>3, <4>4
    <3> QED
      BY <3>2, <3>3
  <2> QED
    BY <1>7, <2>1, Zenon DEF Matched
<1>18. p = "document" => NoReturns(t)
  BY <1>10, <1>11, <1>12, <1>13, <1>14 DEF NoReturns
<1>19. Stacked(t, u, x, p)
  <2>1. NoReturns(t) => ReturnsOnTop(t)
    BY DEF NoReturns, ReturnsOnTop
  <2>2. ASSUME NEW k \in Nat, Sealed(s, k) PROVE Sealed(t, k)
    BY <2>2, <1>4, <1>9, <1>12 DEF Sealed, m
  <2>3. x # 0 => x - 2 \in Nat
    BY <1>3, StackedFacts
  <2> QED
    BY <1>3, <1>7, <1>8, <1>15, <1>18, <2>1, <2>2, <2>3 DEF Stacked
<1>20. Fits(t, "test")
  BY <1>3, <1>10, <1>11, <1>12, <1>13, <1>14, <1>1, <1>4, <1>9 DEF NoBegin,
     IsBoundary, Fits, Marks
<1>21. Whole(t, "test", u, x, w, p)
  BY <1>2, <1>7, <1>17, <1>18, <1>19, <1>20 DEF Whole, Half
<1> QED
  BY <1>21 DEF t, u, a, b, c, e

\* The body is there to be read once more.
LEMMA LoopAgain ==
    ASSUME NEW s, NEW r, NEW x, NEW p, Half(s, r, x, FALSE, p),
           s # <<>>, IsBoundary(s[1]), r[1].kind = "while",
           p = "document" => NoReturns(s), NEW size \in Nat
    PROVE  Whole(<<Body(size)>> \o s, "test", [r EXCEPT ![1].traps = 0], x,
                 FALSE, p)
<1> DEFINE b == Body(size)
           t == <<b>> \o s
           z == 0
           u == WithTraps(r, z)
           n == LoopsOf(r, x)
<1>1. b \in Items /\ b.kind = "loop"
  BY DEF Body, Iterator, Items, Texts, Barriers, Marks
<1>2. Stacked(s, r, x, p) /\ NoBegin(s) /\ Matched(s, r, x, 0)
  BY DEF Half
<1>3. /\ s \in Seq(Items) /\ Depth(s, Len(s)) = n /\ WellRun(r, x) /\ n \in Nat
      /\ Len(r) \in Nat
  BY <1>2, StackedFacts
<1> HIDE DEF b
<1>4. t \in Seq(Items) /\ KeepsAll(s, t)
  BY <1>1, <1>3, OneOnTop DEF Texts
<1>5. t[1] = b /\ t[2] = s[1] /\ Len(t) > 1
  <2> DEFINE a == <<b>>
  <2>1. Len(s) \in Nat /\ Len(s) > 0
    BY <1>3
  <2>2. a \in Seq(Items) /\ Len(a) = 1 /\ a[1] = b
    BY <1>1
  <2>3. t = a \o s
    OBVIOUS
  <2> HIDE DEF a, t
  <2>4. /\ Len(a \o s) = Len(a) + Len(s)
        /\ \A j \in 1..Len(a) : (a \o s)[j] = a[j]
        /\ \A j \in 1..Len(s) : (a \o s)[Len(a) + j] = s[j]
    BY <1>3, <2>2, OnTopSame
  <2>5. 1 \in 1..Len(a) /\ 1 \in 1..Len(s) /\ Len(a) + 1 = 2
    BY <2>1, <2>2
  <2>6. t[1] = b /\ t[2] = s[1]
    BY <2>2, <2>3, <2>4, <2>5, Zenon
  <2> QED
    BY <2>1, <2>2, <2>3, <2>4, <2>6
<1>6. /\ WellRun(u, x) /\ LoopsOf(u, x) = n /\ u[1].traps = 0
      /\ u[1].kind = r[1].kind /\ \A i \in 2..Len(r) : u[i] = r[i]
  <2>1. z \in Nat
    OBVIOUS
  <2> HIDE DEF z, n
  <2>2. /\ WellRun(u, x) /\ LoopsOf(u, x) = n /\ u[1].traps = z
        /\ u[1].kind = r[1].kind /\ \A i \in 2..Len(r) : u[i] = r[i]
    BY <1>3, <2>1, RunsTraps DEF n
  <2> QED
    BY <2>2 DEF z
<1> HIDE DEF t, u, n
<1>7. u \in Seq(RunRecords) /\ Len(u) = Len(r)
  BY <1>6, <1>3 DEF WellRun, LoopsOf, n
<1>8. Half(t, r, x, FALSE, p) /\ (p = "document" => NoReturns(t))
  BY <1>4, HalfAll
<1>9. Matched(t, u, x, 0)
  BY <1>3, EofEnds, <1>4, <1>6, <1>2, <1>7, MatchedChanged DEF KeepsAll,
     Keeps, n
<1>10. Fits(t, "test")
  BY <1>8, <1>1, <1>5 DEF Half, Fits, Marks, NoBegin
<1>11. Stacked(t, u, x, p)
  BY <1>6, <1>8 DEF Half, Stacked, n
<1>12. Whole(t, "test", u, x, FALSE, p)
  BY <1>6, <1>8, <1>9, <1>10, <1>11 DEF Whole
<1> QED
  BY <1>12, Zenon DEF t, u, b, WithTraps

\* exit_troff calls process_input_stack once more.
LEMMA ExitAgain ==
    ASSUME NEW s, NEW r, NEW x, NEW w, Half(s, r, x, w, "exit"),
           s = <<>> \/ IsBoundary(s[1]), NEW e \in RunRecords, e.kind = r[1].kind
    PROVE  Half(s, <<e>> \o Tail(r), x, w, "exit")
<1> DEFINE u == <<e>> \o Tail(r)
           n == LoopsOf(r, x)
<1>1. Stacked(s, r, x, "exit") /\ NoBegin(s) /\ Matched(s, r, x, 0)
  BY DEF Half
<1>2. /\ s \in Seq(Items) /\ Depth(s, Len(s)) = n /\ WellRun(r, x) /\ n \in Nat
      /\ Len(r) \in Nat
  BY <1>1, StackedFacts
<1>3. /\ WellRun(u, x) /\ LoopsOf(u, x) = n
      /\ u[1] = e /\ \A i \in 2..Len(r) : u[i] = r[i]
  BY <1>2, RunsReplaced
<1> HIDE DEF u, n
<1>4. u \in Seq(RunRecords) /\ Len(u) = Len(r)
  BY <1>3, <1>2 DEF WellRun, LoopsOf, n
<1>5. Matched(s, u, x, 0)
  <2>1. Ends(s, n) = 0
    BY <1>2, EofEnds, Zenon
  <2>2. Ends(s, LoopsOf(r, x)) <= u[1].traps
    BY <1>3, <2>1 DEF n, RunRecords
  <2>3. Keeps(s, s) /\ 0 \in Nat
    BY <1>2, EndsNat DEF Keeps
  <2>4. u[1].kind = r[1].kind
    BY <1>3
  <2> QED
    BY <1>1, <1>3, <1>4, <2>2, <2>3, <2>4, MatchedChanged
<1>6. Stacked(s, u, x, "exit")
  BY <1>1, <1>3 DEF Stacked, n
<1>7. Half(s, u, x, w, "exit")
  BY <1>1, <1>5, <1>6 DEF Half
<1> QED
  BY <1>7 DEF u

\* The rest of the body is thrown away.
LEMMA DrainedWhole ==
    ASSUME NEW s, NEW r, NEW x, NEW w, NEW p, Half(s, r, x, w, p),
           p = "document" => NoReturns(s) /\ r[1].kind = "while",
           NEW v \in BOOLEAN
    PROVE  Whole(Drained(s), "eof", r, x, v, p)
<1> DEFINE t == Drained(s)
<1>1. s \in Seq(Items)
  BY DEF Half, Stacked
<1>2. KeepsAll(s, t) /\ (t = <<>> \/ IsBoundary(t[1]))
  BY <1>1, DrainedKeeps
<1> HIDE DEF t
<1>3. Half(t, r, x, w, p) /\ (p = "document" => NoReturns(t))
  BY <1>2, HalfAll
<1>4. Fits(t, "eof")
  BY <1>2, <1>3 DEF Fits, Marks, Half, NoBegin
<1>5. Whole(t, "eof", r, x, v, p)
  BY <1>3, <1>4 DEF Whole, Half
<1> QED
  BY <1>5 DEF t

\* ex leaves the boundaries of the loops, as return boundaries.
LEMMA ClearedWhole ==
    ASSUME NEW s \in Seq(Items), NEW r, NEW x, WellRun(r, x), x # 0,
           Depth(s, Len(s)) = LoopsOf(r, x), NEW w \in BOOLEAN
    PROVE  Whole(Cleared(s), "eof", r, x, w, "exit")
<1> DEFINE t == Cleared(s)
           n == LoopsOf(r, x)
<1>1. /\ t \in Seq(Items) /\ Len(t) = n
      /\ \A j \in 1..Len(t) : t[j].kind = "return_boundary"
      /\ \A q \in 1..Len(t) : Low(t, q) = "return_boundary"
      /\ Depth(t, Len(t)) = n /\ \A d \in Nat : Ends(t, d) = 0
  BY ClearedIs, Zenon
<1> HIDE DEF t
<1>2. r \in Seq(RunRecords) /\ Len(r) \in Nat /\ x \in 0..Len(r) /\ x # 1
  BY DEF WellRun
<1>3. n = Len(r) - 2 /\ n \in Nat
  BY <1>1 DEF LoopsOf
<1> HIDE DEF n
<1>4. Matched(t, r, x, 0)
  <2>1. ASSUME NEW d \in 0..n
        PROVE  Ends(t, d) <= r[n + 1 - d].traps + (IF d = n THEN 0 ELSE 0)
    <3>1. d \in Nat /\ n + 1 - d \in 1..Len(r)
      BY <1>2, <1>3
    <3>2. r[n + 1 - d].traps \in Nat
      BY <1>2, <3>1, TrapsNat
    <3>3. Ends(t, d) = 0
      BY <1>1, <3>1
    <3> QED
      BY <3>2, <3>3
  <2> QED
    BY <2>1, Zenon DEF Matched, n
<1>5. Sealed(t, x - 2)
  BY <1>1, <1>2, <1>3 DEF Sealed
<1>6. Stacked(t, r, x, "exit")
  BY <1>1, <1>5 DEF Stacked, n
<1>7. Fits(t, "eof")
  BY <1>1 DEF IsBoundary, NoBegin, Fits, Marks
<1>8. Whole(t, "eof", r, x, w, "exit")
  BY <1>4, <1>6, <1>7 DEF Whole
<1> QED
  BY <1>8 DEF t

-----------------------------------------------------------------------------
\* How a step ends.

LEMMA Kept ==
    ASSUME NEW x, Whole(stack', tok', runs', x, want_loop_break', phase')
    PROVE  IInv'
<1>1. x \in 0..Len(runs')
  BY DEF Whole, Stacked, WellRun
<1> QED
  BY <1>1 DEF IInv

LEMMA Reads ==
    ASSUME NEW s, NEW x, Half(s, runs', x, want_loop_break', phase'),
           want_loop_break' \in BOOLEAN, Next_token(s)
    PROVE  IInv'
<1>1. Whole(Unread(s), TokenOf(Unread(s)), runs', x, want_loop_break', phase')
  BY ReadWhole
<1>2. stack' = Unread(s) /\ tok' = TokenOf(Unread(s))
  BY DEF Next_token
<1>3. Whole(stack', tok', runs', x, want_loop_break', phase')
  BY <1>1, <1>2, Zenon
<1> QED
  BY <1>3, Kept

LEMMA PushesText ==
    ASSUME NEW s, NEW x, Half(s, runs', x, want_loop_break', phase),
           want_loop_break' \in BOOLEAN, phase = "document" => NoReturns(s),
           NEW it \in Items, it.kind \in Texts, Push(<<it>>, s)
    PROVE  IInv'
<1>1. CASE Len(<<it>> \o s) <= Limit
  BY OneOnTop, HalfAll, <1>1, Reads DEF Half, Stacked, Push
<1>2. CASE ~(Len(<<it>> \o s) <= Limit)
  BY <1>2 DEF Push, IInv, Interpreting
<1> QED
  BY <1>1, <1>2

LEMMA PushesTrap ==
    ASSUME NEW s, NEW x, Half(s, runs', x, want_loop_break', phase),
           want_loop_break' \in BOOLEAN, phase = "document" => NoReturns(s),
           NEW size \in Nat, Push(Trap(size), s)
    PROVE  IInv'
<1>1. CASE Len(Trap(size) \o s) <= Limit
  <2> DEFINE t == Trap(size) \o s
  <2>1. /\ Unread(t) = t /\ TokenOf(t) = "begin_trap"
        /\ Whole(t, "begin_trap", runs', x, want_loop_break', phase)
    BY TrapPushed
  <2>2. stack' = Unread(t) /\ tok' = TokenOf(Unread(t)) /\ phase' = phase
    BY <1>1, Zenon DEF Push, Next_token
  <2> HIDE DEF t
  <2>3. Whole(stack', tok', runs', x, want_loop_break', phase')
    BY <2>1, <2>2, Zenon
  <2> QED
    BY <2>3, Kept
<1>2. CASE ~(Len(Trap(size) \o s) <= Limit)
  BY <1>2 DEF Push, IInv, Interpreting
<1> QED
  BY <1>1, <1>2

LEMMA HalfAny ==
    ASSUME NEW s, NEW r, NEW x, NEW p, NEW v, Half(s, r, x, v, p), NEW w,
           p = "document" => ~w
    PROVE  Half(s, r, x, w, p)
BY DEF Half

\* What is known before a line is interpreted.
LEMMA ReadingRest ==
    ASSUME IInv, Interpreting, tok \in {"line", "cut"}
    PROVE  \E x \in Nat :
              /\ Whole(stack, tok, runs, x, want_loop_break, phase)
              /\ Half(stack, runs, x, want_loop_break, phase)
              /\ Half(Rest, runs, x, want_loop_break, phase)
              /\ Rest \in Seq(Items) /\ Rest # <<>>
              /\ want_loop_break \in BOOLEAN
              /\ phase = "document" =>
                    NoReturns(stack) /\ NoReturns(Rest) /\ ~want_loop_break
<1>1. PICK x \in 0..Len(runs) :
              Whole(stack, tok, runs, x, want_loop_break, phase)
  BY DEF IInv
<1>2. /\ Stacked(stack, runs, x, phase) /\ Fits(stack, tok)
      /\ want_loop_break \in BOOLEAN
  BY <1>1, WholeFacts
<1>3. 1 \in Nat /\ 1 <= stack[1].left
  <2>1. stack \in Seq(Items) /\ stack # <<>> /\ stack[1].left > 0
    BY <1>2, StackedFacts DEF Fits
  <2>2. stack[1] \in Items
    BY <2>1
  <2>3. stack[1].left \in Nat
    BY <2>2 DEF Items
  <2> QED
    BY <2>1, <2>3
<1>4. /\ Half(Rest, runs, x, want_loop_break, phase) /\ Rest \in Seq(Items)
      /\ Rest # <<>>
      /\ phase = "document" => NoReturns(Rest) /\ ~want_loop_break
  BY <1>1, <1>3, RestHalf, Zenon DEF Rest
<1>5. /\ Half(stack, runs, x, want_loop_break, phase)
      /\ phase = "document" => NoReturns(stack)
  BY <1>1, WholeHalf
<1>6. x \in Nat
  BY <1>2, StackedFacts
<1> QED
  BY <1>1, <1>2, <1>4, <1>5, <1>6

-----------------------------------------------------------------------------
\* The lines.

LEMMA LineStep == ASSUME IInv, Line PROVE IInv'
<1>1. PICK x \in Nat : /\ Half(Rest, runs, x, want_loop_break, phase)
                       /\ want_loop_break \in BOOLEAN
  BY ReadingRest DEF Line
<1>2. /\ Next_token(Rest) /\ runs' = runs /\ phase' = phase
      /\ want_loop_break' = want_loop_break
  BY Zenon DEF Line
<1>3. Half(Rest, runs', x, want_loop_break', phase')
  BY <1>1, <1>2, Zenon
<1> QED
  BY <1>1, <1>2, <1>3, Reads

LEMMA EnterStep ==
    ASSUME IInv, NEW kind, NEW size, NEW args, Texted(kind, size, args),
           Enter(kind, size, args)
    PROVE  IInv'
<1> DEFINE it == Iterator(kind, size, args, size)
<1>1. PICK x \in Nat : /\ Half(Rest, runs, x, want_loop_break, phase)
                       /\ want_loop_break \in BOOLEAN
                       /\ phase = "document" => NoReturns(Rest)
  BY ReadingRest DEF Enter, Reading
<1>2. /\ Push(<<it>>, Rest) /\ runs' = runs
      /\ want_loop_break' = want_loop_break
  BY Zenon DEF Enter
<1>3. Half(Rest, runs', x, want_loop_break', phase)
  BY <1>1, <1>2, Zenon
<1>4. it \in Items /\ it.kind \in Texts
  BY TextItem
<1> HIDE DEF it
<1> QED
  BY <1>1, <1>2, <1>3, <1>4, PushesText

LEMMA ArgsNat ==
    ASSUME NEW s \in Seq(Items)
    PROVE  ArgsOf(s) \in Nat
<1>1. MacroAt(s) \in 1..(Len(s) + 1)
  BY MacroFound
<1>2. ArgsOf(s) = IF MacroAt(s) <= Len(s) THEN s[MacroAt(s)].args ELSE 0
  BY Zenon DEF ArgsOf, MacroAt
<1>3. ASSUME MacroAt(s) <= Len(s) PROVE s[MacroAt(s)].args \in Nat
  <2>1. MacroAt(s) \in 1..Len(s)
    BY <1>1, <1>3
  <2>2. s[MacroAt(s)] \in Items
    BY <2>1
  <2> QED
    BY <2>2 DEF Items
<1> QED
  BY <1>2, <1>3

LEMMA InterpolateStep ==
    ASSUME IInv, NEW size \in Nat, Interpolate(size) PROVE IInv'
<1>1. PICK x \in Nat : Whole(stack, tok, runs, x, want_loop_break, phase)
  BY ReadingRest DEF Interpolate, Enter, Reading
<1>2. stack \in Seq(Items)
  BY <1>1 DEF Whole, Stacked
<1>3. Texted("macro", size, ArgsOf(stack))
  BY <1>2, ArgsNat DEF Texted, Texts
<1> QED
  BY <1>3, EnterStep DEF Interpolate

LEMMA SpringStep == ASSUME IInv, NEW size \in Nat, Spring(size) PROVE IInv'
<1>1. PICK x \in Nat : /\ Half(Rest, runs, x, want_loop_break, phase)
                       /\ want_loop_break \in BOOLEAN
                       /\ phase = "document" => NoReturns(Rest)
  BY ReadingRest DEF Spring, Reading
<1>2. /\ Push(Trap(size), Rest) /\ runs' = runs
      /\ want_loop_break' = want_loop_break
  BY Zenon DEF Spring
<1>3. Half(Rest, runs', x, want_loop_break', phase)
  BY <1>1, <1>2, Zenon
<1> QED
  BY <1>1, <1>2, <1>3, PushesTrap

\* The beginning and the end of a trap.
LEMMA TrapStep ==
    ASSUME IInv, Interpreting, tok \in Marks,
           NEW k, k = IF tok = "begin_trap" THEN 1
                      ELSE IF runs[1].traps = 0 THEN 0 ELSE -1,
           Traps(k)
    PROVE  IInv'
<1>1. PICK x \in 0..Len(runs) :
              Whole(stack, tok, runs, x, want_loop_break, phase)
  BY DEF IInv
<1>2. /\ Unread(Took(stack, 1)) = Unread(Tail(stack))
      /\ Half(Tail(stack), [runs EXCEPT ![1].traps = @ + k], x,
              want_loop_break, phase)
  BY <1>1, MarkTook
<1>3. want_loop_break \in BOOLEAN
  BY <1>1, WholeFacts
<1>4. /\ Next_token(Rest) /\ runs' = [runs EXCEPT ![1].traps = @ + k]
      /\ want_loop_break' = want_loop_break /\ phase' = phase
  BY Zenon DEF Traps
<1>5. Next_token(Tail(stack))
  BY <1>2, <1>4, Zenon DEF Next_token, Rest
<1>6. Half(Tail(stack), runs', x, want_loop_break', phase')
  BY <1>2, <1>4, Zenon
<1> QED
  BY <1>3, <1>4, <1>5, <1>6, Reads

LEMMA TestHoldsStep == ASSUME IInv, TestHolds PROVE IInv'
<1>1. PICK x \in 0..Len(runs) :
              Whole(stack, tok, runs, x, want_loop_break, phase)
  BY DEF IInv, TestHolds
<1>2. tok = "test" /\ Next_token(stack) /\ runs' = runs /\ phase' = phase
      /\ want_loop_break' = want_loop_break
  BY Zenon DEF TestHolds
<1>3. Half(stack, runs, x, want_loop_break, phase) /\ want_loop_break \in BOOLEAN
  <2>1. tok # "begin_trap" /\ tok # "eof"
    BY <1>2
  <2>2. Half(stack, runs, x, want_loop_break, phase)
    BY <1>1, <2>1, WholeHalf, Zenon
  <2>3. want_loop_break \in BOOLEAN
    BY <1>1, WholeFacts
  <2> QED
    BY <2>2, <2>3
<1>4. Half(stack, runs', x, want_loop_break', phase')
  BY <1>2, <1>3, Zenon
<1> QED
  BY <1>2, <1>3, <1>4, Reads

LEMMA ShiftStep == ASSUME IInv, NEW n \in Nat, Shift(n) PROVE IInv'
<1>1. PICK x \in Nat : /\ Half(Rest, runs, x, want_loop_break, phase)
                       /\ Rest \in Seq(Items)
                       /\ want_loop_break \in BOOLEAN
                       /\ phase = "document" => NoReturns(Rest)
  BY ReadingRest DEF Shift, Reading
<1>2. /\ Next_token(Shifted(Rest, n)) /\ runs' = runs /\ phase' = phase
      /\ want_loop_break' = want_loop_break
  BY Zenon DEF Shift
<1>3. KeepsAll(Rest, Shifted(Rest, n))
  BY <1>1, ShiftedKeeps
<1>4. Half(Shifted(Rest, n), runs, x, want_loop_break, phase)
  BY <1>1, <1>3, HalfAll
<1>5. Half(Shifted(Rest, n), runs', x, want_loop_break', phase')
  BY <1>2, <1>4, Zenon
<1> QED
  BY <1>1, <1>2, <1>5, Reads

LEMMA NxStep == ASSUME IInv, Nx PROVE IInv'
<1>1. PICK x \in Nat : /\ Half(Rest, runs, x, want_loop_break, phase)
                       /\ Rest \in Seq(Items)
                       /\ want_loop_break \in BOOLEAN
                       /\ phase = "document" => NoReturns(Rest)
  BY ReadingRest DEF Nx, Reading
<1>2. /\ Next_token(EndFile(Rest)) /\ runs' = runs /\ phase' = phase
      /\ want_loop_break' = want_loop_break
  BY Zenon DEF Nx
<1>3. KeepsAll(Rest, EndFile(Rest))
  BY <1>1, EndFileKeeps
<1>4. Half(EndFile(Rest), runs, x, want_loop_break, phase)
  BY <1>1, <1>3, HalfAll
<1>5. Half(EndFile(Rest), runs', x, want_loop_break', phase')
  BY <1>2, <1>4, Zenon
<1> QED
  BY <1>1, <1>2, <1>5, Reads

LEMMA ReturnStep == ASSUME IInv, NEW n \in 1..2, Return(n) PROVE IInv'
<1> DEFINE once == PopMacro(Rest)
           s == IF n = 1 THEN once ELSE PopMacro(once)
<1>1. PICK x \in Nat : /\ Half(Rest, runs, x, want_loop_break, phase)
                       /\ Rest \in Seq(Items) /\ Rest # <<>>
                       /\ want_loop_break \in BOOLEAN
  BY ReadingRest DEF Return, Reading
<1>2. /\ Next_token(s) /\ runs' = runs /\ phase' = phase
      /\ want_loop_break' = want_loop_break
  BY Zenon DEF Return
<1>3. /\ Keeps(Rest, once) /\ Seals(Rest, once)
      /\ ReturnsOnTop(Rest) => ReturnsOnTop(once)
      /\ once # <<>> /\ once \in Seq(Items)
  BY <1>1, PopMacroKeeps
<1> HIDE DEF once
<1>6. Half(once, runs, x, want_loop_break, phase)
  BY <1>1, <1>3, HalfKeeps
<1> HIDE DEF once
<1>7. /\ Keeps(once, PopMacro(once)) /\ Seals(once, PopMacro(once))
      /\ ReturnsOnTop(once) => ReturnsOnTop(PopMacro(once))
  BY <1>3, PopMacroKeeps
<1>4. Half(PopMacro(once), runs, x, want_loop_break, phase)
  BY <1>6, <1>7, HalfKeeps
<1>5. Half(s, runs', x, want_loop_break', phase')
  BY <1>2, <1>6, <1>4, Zenon
<1> QED
  BY <1>1, <1>2, <1>5, Reads

\* While_request: the body goes onto the stack, above its boundary.
LEMMA WhileStep == ASSUME IInv, NEW size \in Nat, While(size) PROVE IInv'
<1> DEFINE s == Took(stack, size)
           t == <<Body(size), Boundary(size)>> \o s
<1>1. PICK x \in Nat : Whole(stack, tok, runs, x, want_loop_break, phase)
  BY ReadingRest DEF While, Reading
<1>2. /\ tok = "line" /\ size <= stack[1].left /\ want_loop_break' = want_loop_break
      /\ runs' = <<Run("while", size, 0)>> \o runs
  BY Zenon DEF While, Reading
<1>3. /\ Half(s, runs, x, want_loop_break, phase) /\ want_loop_break \in BOOLEAN
      /\ phase = "document" => NoReturns(s)
  BY <1>1, <1>2, RestHalf, WholeFacts
<1> HIDE DEF s
<1>4. Whole(t, "test", <<Run("while", size, 0)>> \o runs, x, want_loop_break, phase)
  BY <1>3, LoopBegun
<1>5. CASE Len(t) <= Limit
  BY <1>5, <1>2, <1>4, Kept DEF While, Test, s
<1>6. CASE ~(Len(t) <= Limit)
  BY <1>6 DEF While, Test, s, IInv, Interpreting
<1> QED
  BY <1>5, <1>6

LEMMA TailTop ==
    ASSUME NEW E, NEW s \in Seq(E), Len(s) > 1
    PROVE  Tail(s) # <<>> /\ Tail(s)[1] = s[2]
<1>1. Tail(s) \in Seq(E) /\ Len(Tail(s)) = Len(s) - 1 /\ Len(s) \in Nat
  OBVIOUS
<1>2. Tail(s)[1] = s[1 + 1]
  BY <1>1
<1>3. Len(Tail(s)) # 0
  BY <1>1
<1>4. Tail(s) # <<>>
  <2>1. Len(<<>>) = 0
    OBVIOUS
  <2> QED
    BY <1>3, <2>1, Zenon
<1> QED
  BY <1>2, <1>4

\* The condition no longer holds, and while_request removes the boundary.
LEMMA TestFailsStep == ASSUME IInv, TestFails PROVE IInv'
<1> DEFINE s == Drained(stack)
<1>1. PICK x \in 0..Len(runs) :
              Whole(stack, tok, runs, x, want_loop_break, phase)
  BY DEF IInv, TestFails
<1>2. /\ tok = "test" /\ Next_token(Tail(s)) /\ runs' = Tail(runs)
      /\ phase' = phase /\ want_loop_break' = want_loop_break
  BY Zenon DEF TestFails, LeaveLoop
<1>3. /\ Half(stack, runs, x, FALSE, phase)
      /\ phase = "document" => NoReturns(stack) /\ ~want_loop_break
  <2>1. tok # "begin_trap" /\ tok # "eof"
    BY <1>2
  <2> QED
    BY <1>1, <2>1, WholeHalf, Zenon
<1>4. /\ Stacked(stack, runs, x, phase) /\ Fits(stack, tok)
      /\ want_loop_break \in BOOLEAN /\ runs[1].kind = "while"
  BY <1>1, <1>2, WholeFacts
<1>5. stack \in Seq(Items)
  BY <1>4, StackedFacts
<1>6. Len(stack) > 1 /\ stack[1].kind = "loop" /\ IsBoundary(stack[2])
  BY <1>2, <1>4 DEF Fits
<1>7. ~IsBoundary(stack[1])
  BY <1>6 DEF IsBoundary
<1>8. KeepsAll(stack, s) /\ s = Tail(stack)
  BY <1>5, <1>6, <1>7, DrainedKeeps
<1>9. s # <<>> /\ s[1] = stack[2]
  BY <1>5, <1>6, TailTop, <1>8
<1> HIDE DEF s
<1>10. Half(s, runs, x, FALSE, phase)
  BY <1>3, <1>8, HalfAll
<1>11. Half(Tail(s), Tail(runs), x, FALSE, phase)
  BY <1>4, <1>6, <1>9, <1>10, LoopLeft
<1>12. Half(Tail(s), Tail(runs), x, want_loop_break, phase)
  BY <1>3, <1>11, HalfAny
<1>13. Half(Tail(s), runs', x, want_loop_break', phase')
  BY <1>2, <1>12, Zenon
<1> QED
  BY <1>2, <1>4, <1>13, Reads

\* process_input_stack returns to while_request.
LEMMA LoopReturnsStep == ASSUME IInv, LoopReturns PROVE IInv'
<1>1. PICK x \in 0..Len(runs) :
              Whole(stack, tok, runs, x, want_loop_break, phase)
  BY DEF IInv, LoopReturns, Returns
<1>2. tok = "eof" /\ runs[1].kind = "while"
  BY Zenon DEF LoopReturns, Returns
<1>3. /\ Stacked(stack, runs, x, phase) /\ Fits(stack, tok)
      /\ want_loop_break \in BOOLEAN
      /\ phase = "document" => (want_loop_break => NoReturns(stack))
  BY <1>1, <1>2, WholeFacts
<1>4. stack \in Seq(Items) /\ WellRun(runs, x)
      /\ Depth(stack, Len(stack)) = LoopsOf(runs, x) /\ runs[1] \in RunRecords
  BY <1>3, StackedFacts
<1>5. stack # <<>>
  BY <1>2, <1>4, RunsLeft, DepthZero
<1>6. IsBoundary(stack[1])
  BY <1>2, <1>3, <1>5 DEF Fits
<1>7. Half(stack, runs, x, FALSE, phase)
  BY <1>1, <1>2, WholeHalf
<1>8. CASE want_loop_break \/ stack[1].kind = "return_boundary"
  BY <1>8, <1>2, <1>5, <1>6, <1>7, LoopLeft, Reads DEF LoopReturns, LeaveLoop
<1>9. CASE ~(want_loop_break \/ stack[1].kind = "return_boundary")
  <2> DEFINE size == runs[1].size
             t == <<Body(size)>> \o stack
             u == [runs EXCEPT ![1].traps = 0]
  <2>1. /\ Test(<<Body(size)>>, stack) /\ runs' = u
        /\ want_loop_break' = want_loop_break
    BY <1>9, Zenon DEF LoopReturns
  <2>2. size \in Nat
    BY <1>4 DEF RunRecords
  <2>3. phase = "document" => NoReturns(stack)
    BY <1>3, <1>4, <1>9, LiveTop DEF Stacked
  <2> HIDE DEF size
  <2>4. Whole(t, "test", u, x, FALSE, phase)
    BY <1>2, <1>5, <1>6, <1>7, <2>2, <2>3, LoopAgain
  <2>5. want_loop_break' = FALSE
    BY <1>3, <1>9, <2>1
  <2>6. CASE Len(t) <= Limit
    BY <2>1, <2>6, <2>4, <2>5, Kept DEF Test
  <2>7. CASE ~(Len(t) <= Limit)
    BY <2>1, <2>7 DEF Test, IInv, Interpreting
  <2> QED
    BY <2>6, <2>7
<1> QED
  BY <1>8, <1>9

\* While loops are being interpreted, and their requests come from the
\* innermost of them.
LEMMA FirstIsLoop ==
    ASSUME NEW r, NEW x, x = 0, WellRun(r, x), LoopsOf(r, x) > 0
    PROVE  r[1].kind = "while"
<1> DEFINE n == Len(r)
<1>1. n \in Nat /\ \A i \in 1..n : r[i].kind = KindOf(r, x, i)
  BY DEF WellRun
<1>2. LoopsOf(r, x) = n - 1
  BY DEF LoopsOf
<1>3. KindOf(r, x, 1)
        = IF 1 = n THEN "main" ELSE IF 1 = n + 1 - x THEN "exit" ELSE "while"
  BY Zenon DEF KindOf
<1> HIDE DEF n
<1>4. 1 \in 1..n /\ 1 # n /\ 1 # n + 1 - x
  BY <1>1, <1>2
<1> QED
  BY <1>1, <1>3, <1>4

LEMMA BreakOrContinueStep ==
    ASSUME IInv, NEW break \in BOOLEAN, BreakOrContinue(break)
    PROVE  IInv'
<1>1. PICK x \in Nat :
              /\ Whole(stack, tok, runs, x, want_loop_break, phase)
              /\ Half(stack, runs, x, want_loop_break, phase)
              /\ want_loop_break \in BOOLEAN
              /\ phase = "document" => NoReturns(stack)
  BY ReadingRest DEF BreakOrContinue, Reading
<1>2. /\ stack' = Drained(stack) /\ tok' = "eof" /\ runs' = runs
      /\ want_loop_break' = (want_loop_break \/ break) /\ phase' = phase
      /\ Loops > 0
  BY Zenon DEF BreakOrContinue
<1>3. phase = "document" => runs[1].kind = "while"
  <2>1. ASSUME phase = "document" PROVE runs[1].kind = "while"
    BY <1>1, <2>1, LoopsCount, <1>2, FirstIsLoop DEF Half, Stacked, Loops
  <2> QED
    BY <2>1
<1>4. (want_loop_break \/ break) \in BOOLEAN
  BY <1>1
<1>5. Whole(Drained(stack), "eof", runs, x, (want_loop_break \/ break), phase)
  <2> DEFINE v == (want_loop_break \/ break)
  <2>1. v \in BOOLEAN
    BY <1>4
  <2> HIDE DEF v
  <2>2. Whole(Drained(stack), "eof", runs, x, v, phase)
    BY <1>1, <1>3, <2>1, DrainedWhole
  <2> QED
    BY <2>2 DEF v
<1>6. Whole(stack', tok', runs', x, want_loop_break', phase')
  BY <1>2, <1>5, Zenon
<1> QED
  BY <1>6, Kept

\* ex.
LEMMA ExStep == ASSUME IInv, Ex PROVE IInv'
<1>1. PICK x \in Nat :
              /\ Whole(stack, tok, runs, x, want_loop_break, phase)
              /\ want_loop_break \in BOOLEAN
  BY ReadingRest DEF Ex, Reading
<1>2. /\ stack' = Cleared(stack) /\ tok' = "eof" /\ phase' = "exit"
      /\ runs' = IF phase = "exit" THEN runs ELSE <<Run("exit", 0, Exits)>> \o runs
      /\ want_loop_break' = want_loop_break /\ phase \in {"document", "exit"}
  BY Zenon DEF Ex, Reading, Interpreting
<1>3. Stacked(stack, runs, x, phase)
  BY <1>1 DEF Whole
<1>4. /\ stack \in Seq(Items) /\ WellRun(runs, x) /\ Len(runs) \in Nat
      /\ Depth(stack, Len(stack)) = LoopsOf(runs, x)
  BY <1>3, StackedFacts
<1>5. CASE phase = "exit"
  BY <1>3, <1>5, <1>1, <1>4, ClearedWhole, <1>2, Kept DEF Stacked
<1>6. CASE phase = "document"
  <2> DEFINE e == Run("exit", 0, Exits)
             u == <<e>> \o runs
             y == Len(runs) + 1
  <2>1. x = 0
    BY <1>3, <1>6 DEF Stacked
  <2>2. e \in RunRecords /\ e.kind = "exit"
    BY InputStackAssumption DEF Run, RunRecords
  <2> HIDE DEF e
  <2>3. WellRun(u, y) /\ LoopsOf(u, y) = LoopsOf(runs, 0)
    BY <1>4, <2>1, <2>2, RunsExit
  <2>4. y # 0
    BY <1>4
  <2>5. runs' = u
    BY <1>2, <1>6 DEF e
  <2> HIDE DEF u, y
  <2>6. Depth(stack, Len(stack)) = LoopsOf(u, y)
    BY <1>4, <2>1, <2>3
  <2>7. Whole(Cleared(stack), "eof", u, y, want_loop_break, "exit")
    BY <1>1, <1>4, <2>3, <2>4, <2>6, ClearedWhole
  <2>8. Whole(stack', tok', runs', y, want_loop_break', phase')
    BY <1>2, <2>5, <2>7, Zenon
  <2> QED
    BY <2>8, Kept
<1> QED
  BY <1>2, <1>5, <1>6

\* The first character of a line was lost.
LEMMA CutWhole ==
    ASSUME NEW s, NEW r, NEW x, NEW w \in BOOLEAN, NEW p, Half(s, r, x, w, p),
           p = "document" => NoReturns(s), s # <<>>, s[1].kind \in Texts,
           s[1].left > 0
    PROVE  Whole(s, "cut", r, x, w, p)
<1>1. Fits(s, "cut")
  BY DEF Fits, Marks, Half, NoBegin
<1> QED
  BY <1>1 DEF Whole, Half

\* What nx reads ahead, and the stack with another file.
LEMMA OtherFile ==
    ASSUME NEW s, NEW r, NEW x, NEW w, NEW p, Half(s, r, x, w, p),
           p = "document" => NoReturns(s), NEW size \in Nat,
           \/ Has(s, IsFile)
           \/ \A i \in DOMAIN s : s[i].kind # "return_boundary"
           \/ "nx_after_ex" \in Extras
    PROVE  /\ Half(NextFile(s, size), r, x, w, p)
           /\ NextFile(s, size) \in Seq(Items)
           /\ p = "document" => NoReturns(NextFile(s, size))
           /\ s # <<>> /\ ~IsFile(s[1]) =>
                 NextFile(s, size) # <<>> /\ NextFile(s, size)[1] = s[1]
<1> DEFINE t == NextFile(s, size)
<1>1. s \in Seq(Items)
  BY DEF Half, Stacked
<1>2. /\ t \in Seq(Items) /\ Keeps(s, t) /\ Lives(s, t)
      /\ FileAt(s) <= Len(s) \/ NoReturns(s) => Seals(s, t)
      /\ s # <<>> /\ ~IsFile(s[1]) => t # <<>> /\ t[1] = s[1]
  BY <1>1, NextFileKeeps
<1> HIDE DEF t
<1>3. Seals(s, t) \/ "nx_after_ex" \in Extras
  <2>1. ASSUME Has(s, IsFile) PROVE Seals(s, t)
    BY <2>1, <1>2 DEF Has, FileAt
  <2>2. ASSUME \A i \in DOMAIN s : s[i].kind # "return_boundary"
        PROVE  Seals(s, t)
    <3>1. ASSUME NEW q \in 1..Len(s) PROVE Low(s, q) # "return_boundary"
      BY <1>1, <2>2 DEF Low
    <3>2. NoReturns(s)
      BY <3>1, Zenon DEF NoReturns
    <3> QED
      BY <1>2, <3>2
  <2> QED
    BY <2>1, <2>2
<1>4. p = "document" => NoReturns(t)
  BY <1>2 DEF Lives
<1>5. NoReturns(t) => ReturnsOnTop(t)
  BY DEF NoReturns, ReturnsOnTop
<1>6. p = "document" => (ReturnsOnTop(s) => ReturnsOnTop(t))
  BY <1>4, <1>5
<1>7. Half(t, r, x, w, p)
  BY <1>2, <1>3, <1>6, HalfKeeps
<1> QED
  BY <1>2, <1>4, <1>7 DEF t

\* What is on top, where it is neither a boundary nor a file.
LEMMA LostTop ==
    ASSUME NEW s, NEW r, NEW x, NEW w, NEW p, Half(s, r, x, w, p), s # <<>>,
           Stops(s[1]), ~IsBoundary(s[1])
    PROVE  \/ TokenOf(s) = "end_trap" /\ s[1].kind \in Marks
           \/ /\ TokenOf(s) # "end_trap" /\ s[1].kind \in Texts
              /\ s[1].left > 0
<1>1. s \in Seq(Items) /\ NoBegin(s)
  BY DEF Half, Stacked
<1>2. /\ Len(s) \in 1..Len(s) /\ Low(s, Len(s)) = s[1].kind /\ s[1] \in Items
  BY <1>1 DEF Low
<1>3. s[1].kind # "begin_trap"
  BY <1>1, <1>2, Zenon DEF NoBegin
<1>4. s[1].kind \in Texts \cup Barriers \cup Marks
  BY <1>2 DEF Items
<1>5. s[1].kind \notin Barriers
  BY DEF IsBoundary, Barriers
<1>6. s[1].left > 0
  BY DEF Stops
<1>7. CASE s[1].kind = "end_trap"
  BY <1>7 DEF TokenOf, Marks
<1>8. CASE s[1].kind # "end_trap"
  BY <1>3, <1>4, <1>5, <1>8, <1>6 DEF Marks, TokenOf
<1> QED
  BY <1>7, <1>8

\* nx with a file name.
LEMMA NxFileStep ==
    ASSUME IInv, NEW size \in Nat, NEW blank, NxFile(size, blank)
    PROVE  IInv'
<1> DEFINE ahead == Unread(Rest)
           read == NextFile(ahead, size)
           lost == ahead # <<>> /\ ~IsBoundary(ahead[1]) /\ ~IsFile(ahead[1])
<1>1. PICK x \in Nat : /\ Half(Rest, runs, x, want_loop_break, phase)
                       /\ Rest \in Seq(Items)
                       /\ want_loop_break \in BOOLEAN
                       /\ phase = "document" => NoReturns(Rest)
  BY ReadingRest DEF NxFile, Reading
<1>2. /\ runs' = runs /\ want_loop_break' = want_loop_break
      /\ \/ Has(ahead, IsFile)
         \/ \A i \in DOMAIN ahead : ahead[i].kind # "return_boundary"
         \/ "nx_after_ex" \in Extras
      /\ IF Len(read) > Limit
         THEN phase' = "fatal" /\ UNCHANGED <<stack, tok>>
         ELSE /\ IF lost /\ (blank \/ TokenOf(ahead) = "end_trap")
                 THEN Next_token(Took(read, 1))
                 ELSE /\ stack' = Unread(read)
                      /\ tok' = IF lost THEN "cut" ELSE TokenOf(Unread(read))
              /\ UNCHANGED phase
  BY Zenon DEF NxFile
<1>3. KeepsAll(Rest, ahead) /\ (ahead = <<>> \/ Stops(ahead[1]))
  BY <1>1, UnreadKeeps
<1> HIDE DEF ahead
<1>4. /\ Half(ahead, runs, x, want_loop_break, phase)
      /\ phase = "document" => NoReturns(ahead)
  BY <1>1, <1>3, HalfAll
<1>5. /\ Half(read, runs, x, want_loop_break, phase) /\ read \in Seq(Items)
      /\ phase = "document" => NoReturns(read)
      /\ ahead # <<>> /\ ~IsFile(ahead[1]) => read # <<>> /\ read[1] = ahead[1]
  BY <1>2, <1>4, OtherFile
<1> HIDE DEF read
<1>6. CASE Len(read) > Limit
  BY <1>2, <1>6 DEF IInv, Interpreting
<1>7. CASE ~(Len(read) > Limit) /\ ~lost
  BY <1>2, <1>7, <1>5, <1>1, Reads DEF Next_token
<1>8. CASE ~(Len(read) > Limit) /\ lost
  <2>1. phase' = phase
    BY <1>2, <1>8, Zenon
  <2>2. /\ read # <<>> /\ read[1] = ahead[1] /\ ahead # <<>>
        /\ Stops(ahead[1]) /\ ~IsBoundary(ahead[1])
    BY <1>3, <1>5, <1>8
  <2>3. CASE TokenOf(ahead) = "end_trap" /\ ahead[1].kind \in Marks
    BY <1>5, <2>2, <2>3, MarkRead, <1>2, <1>8, HalfAll, <2>1, <1>1, Reads DEF
       Next_token
  <2>4. CASE TokenOf(ahead) # "end_trap" /\ ahead[1].kind \in Texts
             /\ ahead[1].left > 0
    <3>1. read[1].kind \in Texts /\ read[1].left > 0 /\ Stops(read[1])
      BY <2>2, <2>4
    <3>2. CASE blank
      <4>1. 1 \in Nat /\ 1 <= read[1].left
        BY <1>5, <2>2, <3>1 DEF Items
      <4>2. KeepsAll(read, Took(read, 1))
        BY <1>5, <2>2, <3>1, <4>1, TookKeeps
      <4>3. Next_token(Took(read, 1))
        BY <1>2, <1>8, <3>2, Zenon
      <4>4. Half(Took(read, 1), runs, x, want_loop_break, phase)
        BY <1>5, <4>2, HalfAll
      <4>5. Half(Took(read, 1), runs', x, want_loop_break', phase')
        BY <1>2, <2>1, <4>4, Zenon
      <4> QED
        BY <1>1, <1>2, <4>3, <4>5, Reads
    <3>3. CASE ~blank
      BY <1>2, <1>8, <2>4, <3>3, <1>5, <2>2, <3>1, UnreadKeeps, <1>1,
         CutWhole, <2>1, Kept
    <3> QED
      BY <3>2, <3>3
  <2>5. \/ TokenOf(ahead) = "end_trap" /\ ahead[1].kind \in Marks
        \/ /\ TokenOf(ahead) # "end_trap" /\ ahead[1].kind \in Texts
           /\ ahead[1].left > 0
    BY <1>4, <2>2, LostTop
  <2> QED
    BY <2>3, <2>4, <2>5
<1> QED
  BY <1>6, <1>7, <1>8

\* The innermost run is the main one, or that of exit_troff.
LEMMA MainAlone ==
    ASSUME NEW r, NEW x, WellRun(r, x), r[1].kind = "main"
    PROVE  Len(r) = 1 /\ x = 0 /\ LoopsOf(r, x) = 0
<1> DEFINE n == Len(r)
<1>1. /\ n \in Nat /\ n > 0 /\ x \in 0..n /\ x # 1
      /\ \A i \in 1..n : r[i].kind = KindOf(r, x, i)
  BY DEF WellRun
<1>2. KindOf(r, x, 1)
        = IF 1 = n THEN "main" ELSE IF 1 = n + 1 - x THEN "exit" ELSE "while"
  BY Zenon DEF KindOf
<1>3. LoopsOf(r, x) = n - (IF x = 0 THEN 1 ELSE 2)
  BY Zenon DEF LoopsOf
<1> HIDE DEF n
<1>4. 1 \in 1..n
  BY <1>1
<1>5. n = 1
  BY <1>1, <1>2, <1>4
<1> QED
  BY <1>1, <1>3, <1>5 DEF n

LEMMA ExitOnTop ==
    ASSUME NEW r, NEW x, WellRun(r, x), r[1].kind = "exit"
    PROVE  x = Len(r) /\ x # 0 /\ LoopsOf(r, x) = x - 2
<1> DEFINE n == Len(r)
<1>1. /\ n \in Nat /\ n > 0 /\ x \in 0..n /\ x # 1
      /\ \A i \in 1..n : r[i].kind = KindOf(r, x, i)
  BY DEF WellRun
<1>2. KindOf(r, x, 1)
        = IF 1 = n THEN "main" ELSE IF 1 = n + 1 - x THEN "exit" ELSE "while"
  BY Zenon DEF KindOf
<1>3. LoopsOf(r, x) = n - (IF x = 0 THEN 1 ELSE 2)
  BY Zenon DEF LoopsOf
<1> HIDE DEF n
<1>4. 1 \in 1..n
  BY <1>1
<1>5. 1 = n + 1 - x
  BY <1>1, <1>2, <1>4
<1>6. x = n
  BY <1>1, <1>5
<1> QED
  BY <1>1, <1>3, <1>6 DEF n

\* Nothing was read.
LEMMA Fresh ==
    ASSUME NEW w, ~w, NEW x, x = 0
    PROVE  Half(<<>>, <<Run("main", 0, 0)>>, x, w, "document")
<1> DEFINE r == <<Run("main", 0, 0)>>
           s == <<>>
<1>1. Run("main", 0, 0) \in RunRecords /\ Run("main", 0, 0).kind = "main"
  BY DEF Run, RunRecords
<1>2. /\ r \in Seq(RunRecords) /\ Len(r) = 1 /\ r[1] \in RunRecords
      /\ r[1].kind = "main"
  BY <1>1
<1>3. s \in Seq(Items) /\ Len(s) = 0
  OBVIOUS
<1> HIDE DEF r, s
<1>4. KindOf(r, x, 1) = "main"
  BY <1>2 DEF KindOf
<1>5. WellRun(r, x)
  BY <1>2, <1>4 DEF WellRun
<1>6. LoopsOf(r, x) = 0
  BY <1>2 DEF LoopsOf
<1>7. Depth(s, Len(s)) = 0
  BY <1>3, DepthZero
<1>8. \A q \in 1..Len(s) : FALSE
  BY <1>3
<1>9. NoBegin(s) /\ ReturnsOnTop(s)
  BY <1>8 DEF NoBegin, ReturnsOnTop
<1>10. Stacked(s, r, x, "document")
  BY <1>3, <1>5, <1>6, <1>7, <1>9 DEF Stacked
<1>11. Matched(s, r, x, 0)
  <2>1. ASSUME NEW d \in 0..0
        PROVE  Ends(s, d) <= r[0 + 1 - d].traps + (IF d = 0 THEN 0 ELSE 0)
    <3>1. d = 0 /\ 0 + 1 - d = 1
      OBVIOUS
    <3>2. s = <<>> \/ IsBoundary(s[1])
      BY DEF s
    <3>3. Ends(s, d) = 0
      BY <1>3, <1>7, <3>1, <3>2, EofEnds
    <3>4. r[0 + 1 - d].traps \in Nat
      BY <1>2, <3>1 DEF RunRecords
    <3> QED
      BY <3>3, <3>4
  <2> QED
    BY <1>6, <2>1, Zenon DEF Matched
<1>12. Half(s, r, x, w, "document")
  BY <1>9, <1>10, <1>11 DEF Half
<1> QED
  BY <1>12 DEF s, r

\* process_input_file returns, for the next file or for exit_troff.
LEMMA MainReturnsStep == ASSUME IInv, Sizes \subseteq Nat, MainReturns PROVE IInv'
<1>1. PICK x \in 0..Len(runs) :
              Whole(stack, tok, runs, x, want_loop_break, phase)
  BY DEF IInv, MainReturns, Returns
<1>2. /\ tok = "eof" /\ runs[1].kind = "main" /\ phase \in {"document", "exit"}
      /\ want_loop_break' = want_loop_break
  BY Zenon DEF MainReturns, Returns, Interpreting
<1>3. /\ Stacked(stack, runs, x, phase) /\ Fits(stack, tok)
      /\ want_loop_break \in BOOLEAN
      /\ phase = "document" => (want_loop_break => runs[1].kind = "while")
  BY <1>1, WholeFacts
<1>4. /\ stack \in Seq(Items) /\ WellRun(runs, x)
      /\ Depth(stack, Len(stack)) = LoopsOf(runs, x)
  BY <1>3, StackedFacts
<1>5. Len(runs) = 1 /\ x = 0 /\ LoopsOf(runs, x) = 0
  BY <1>2, <1>4, MainAlone
<1>6. phase = "document" /\ ~want_loop_break
  BY <1>3, <1>5, <1>2 DEF Stacked
<1>7. stack = <<>>
  <2>1. ASSUME stack # <<>> PROVE FALSE
    BY <1>2, <1>3, <2>1, <1>4, DepthStep, DepthNat, <1>5 DEF Fits, Low,
       IsBoundary, Barriers
  <2> QED
    BY <2>1
<1>8. CASE /\ files > 0 /\ files' = files - 1
           /\ \E size \in Sizes : Push(<<Iterator("file", size, 0, size)>>, stack)
           /\ runs' = <<Run("main", 0, 0)>>
  <2>1. PICK size \in Sizes : Push(<<Iterator("file", size, 0, size)>>, stack)
    BY <1>8
  <2> DEFINE it == Iterator("file", size, 0, size)
  <2>2. Texted("file", size, 0)
    BY DEF Texted, Texts
  <2>3. it \in Items /\ it.kind \in Texts
    BY <2>2, TextItem
  <2> HIDE DEF it
  <2>4. Half(stack, runs', x, want_loop_break', phase)
    BY <1>2, <1>6, <1>5, Fresh, <1>7, <1>8
  <2>5. NoReturns(stack)
    BY <1>7 DEF NoReturns
  <2>6. Push(<<it>>, stack)
    BY <2>1 DEF it
  <2> QED
    BY <1>2, <1>3, <2>3, <2>4, <2>5, <2>6, PushesText
<1>9. CASE /\ files = 0 /\ phase' = "exit"
           /\ runs' = <<Run("exit", 0, Exits)>> \o runs
           /\ UNCHANGED <<stack, tok, files>>
  <2> DEFINE e == Run("exit", 0, Exits)
             u == <<e>> \o runs
             y == Len(runs) + 1
  <2>1. e \in RunRecords /\ e.kind = "exit"
    BY InputStackAssumption DEF Run, RunRecords
  <2> HIDE DEF e
  <2>2. WellRun(u, y) /\ LoopsOf(u, y) = LoopsOf(runs, x)
    BY <1>4, <1>5, <2>1, RunsExit
  <2>3. y # 0
    BY <1>5
  <2>4. runs' = u
    BY <1>9 DEF e
  <2> HIDE DEF u, y
  <2>5. Depth(stack, Len(stack)) = LoopsOf(u, y)
    BY <1>4, <2>2
  <2>6. Whole(Cleared(stack), "eof", u, y, want_loop_break, "exit")
    BY <1>3, <1>4, <2>2, <2>3, <2>5, ClearedWhole
  <2>7. Cleared(stack) = stack
    <3>1. Cleared(stack) \in Seq(Items) /\ Len(Cleared(stack)) = 0
      BY <1>4, <1>5, ClearedIs
    <3> QED
      BY <1>7, <3>1
  <2>8. Whole(stack', tok', runs', y, want_loop_break', phase')
    BY <1>2, <1>9, <2>4, <2>6, <2>7, Zenon
  <2> QED
    BY <2>8, Kept
<1> QED
  BY <1>8, <1>9, Zenon DEF MainReturns

\* exit_troff calls process_input_stack again, with a trap or without.
LEMMA ExitReturnsStep == ASSUME IInv, Sizes \subseteq Nat, ExitReturns PROVE IInv'
<1>1. PICK x \in 0..Len(runs) :
              Whole(stack, tok, runs, x, want_loop_break, phase)
  BY DEF IInv, ExitReturns, Returns
<1>2. /\ tok = "eof" /\ runs[1].kind = "exit" /\ phase \in {"document", "exit"}
      /\ want_loop_break' = want_loop_break
  BY Zenon DEF ExitReturns, Returns, Interpreting
<1>3. /\ Stacked(stack, runs, x, phase) /\ Fits(stack, tok)
      /\ want_loop_break \in BOOLEAN
  BY <1>1, WholeFacts
<1>4. WellRun(runs, x) /\ runs[1] \in RunRecords
  BY <1>3, StackedFacts
<1>5. phase = "exit"
  BY <1>2, <1>4, ExitOnTop, <1>3 DEF Stacked
<1>6. stack = <<>> \/ IsBoundary(stack[1])
  BY <1>2, <1>3 DEF Fits
<1>7. Half(stack, runs, x, want_loop_break, "exit")
  BY <1>1, <1>2, WholeHalf, <1>5, HalfAny
<1>8. CASE runs[1].left > 0
  <2> DEFINE e == Run("exit", 0, runs[1].left - 1)
             u == <<e>> \o Tail(runs)
  <2>1. e \in RunRecords /\ e.kind = runs[1].kind
    BY <1>4, <1>2 DEF RunRecords, Run
  <2>2. /\ runs' = u
        /\ \/ \E size \in Sizes : Push(Trap(size), stack)
           \/ Next_token(stack) /\ UNCHANGED phase
    BY <1>8 DEF ExitReturns
  <2> HIDE DEF e
  <2>3. Half(stack, u, x, want_loop_break, "exit")
    BY <1>6, <1>7, <2>1, ExitAgain
  <2>4. Half(stack, runs', x, want_loop_break', phase)
    BY <1>2, <1>5, <2>2, <2>3, Zenon
  <2>5. want_loop_break' \in BOOLEAN
    BY <1>2, <1>3
  <2>6. ASSUME NEW size \in Sizes, Push(Trap(size), stack) PROVE IInv'
    BY <1>5, <2>4, <2>5, <2>6, PushesTrap
  <2>7. CASE Next_token(stack) /\ UNCHANGED phase
    BY <2>4, <2>7, <2>5, Reads
  <2> QED
    BY <2>2, <2>6, <2>7
<1>9. CASE ~(runs[1].left > 0)
  BY <1>9 DEF ExitReturns, IInv, Interpreting
<1> QED
  BY <1>8, <1>9

-----------------------------------------------------------------------------
\* The invariant.

LEMMA InitIInv == ASSUME Init PROVE IInv
<1> DEFINE x == 0
<1>1. /\ stack = <<>> /\ tok = "eof" /\ runs = <<Run("main", 0, 0)>>
      /\ want_loop_break = FALSE /\ phase = "document"
  BY Zenon DEF Init
<1>2. x = 0 /\ ~want_loop_break /\ want_loop_break \in BOOLEAN
  BY <1>1
<1> HIDE DEF x
<1>3. Half(<<>>, <<Run("main", 0, 0)>>, x, want_loop_break, "document")
  BY <1>2, Fresh
<1>4. Half(stack, runs, x, want_loop_break, phase)
  BY <1>1, <1>3, Zenon
<1>5. Whole(Unread(stack), TokenOf(Unread(stack)), runs, x, want_loop_break, phase)
  BY <1>2, <1>4, ReadWhole
<1>6. Unread(stack) = stack /\ TokenOf(stack) = tok
  <2>1. <<>> \in Seq(Items) /\ Len(<<>>) = 0
    OBVIOUS
  <2>2. KeepsAll(<<>>, Unread(<<>>))
    BY <2>1, UnreadKeeps
  <2>3. Unread(<<>>) = <<>>
    <3>1. StopAt(<<>>) \in 1..(Len(<<>>) + 1)
      BY <2>1, StopFound
    <3>2. StopAt(<<>>) = 1
      BY <2>1, <3>1
    <3>3. Unread(<<>>) = FromTop(<<>>, 1)
      BY <3>2, Zenon DEF Unread, StopAt
    <3> QED
      BY <2>1, <3>3, WholeIsAll
  <2>4. TokenOf(<<>>) = "eof"
    BY Zenon DEF TokenOf
  <2> QED
    BY <1>1, <2>3, <2>4
<1>7. Whole(stack, tok, runs, x, want_loop_break, phase)
  BY <1>5, <1>6, Zenon
<1>8. x \in 0..Len(runs)
  BY <1>7 DEF Whole, Stacked, WellRun
<1> QED
  BY <1>7, <1>8 DEF IInv

LEMMA StutterStep == ASSUME IInv, UNCHANGED vars PROVE IInv'
BY Zenon DEF IInv, Interpreting, vars

LEMMA BeginTrapStep == ASSUME IInv, BeginTrap PROVE IInv'
<1>1. Interpreting /\ tok = "begin_trap" /\ Traps(1)
  BY Zenon DEF BeginTrap
<1> DEFINE k == IF tok = "begin_trap" THEN 1
                ELSE IF runs[1].traps = 0 THEN 0 ELSE -1
<1>2. k = 1 /\ tok \in Marks
  BY <1>1 DEF Marks
<1>3. Traps(k)
  BY <1>1, <1>2
<1> QED
  BY <1>1, <1>2, <1>3, TrapStep

LEMMA EndTrapStep == ASSUME IInv, EndTrap PROVE IInv'
<1>1. /\ Interpreting /\ tok = "end_trap"
      /\ Traps(IF runs[1].traps = 0 THEN 0 ELSE -1)
  BY Zenon DEF EndTrap
<1> DEFINE k == IF tok = "begin_trap" THEN 1
                ELSE IF runs[1].traps = 0 THEN 0 ELSE -1
<1>2. k = (IF runs[1].traps = 0 THEN 0 ELSE -1) /\ tok \in Marks
  BY <1>1 DEF Marks
<1>3. Traps(k)
  BY <1>1, <1>2
<1> QED
  BY <1>1, <1>2, <1>3, TrapStep

LEMMA NextStep == ASSUME IInv, [Next]_vars PROVE IInv'
<1>1. Sizes \subseteq Nat /\ LoopSizes \subseteq Nat /\ Counts \subseteq Nat
  BY InputStackAssumption
<1>2. CASE Line
  BY <1>2, LineStep
<1>3. CASE BeginTrap
  BY <1>3, BeginTrapStep
<1>4. CASE EndTrap
  BY <1>4, EndTrapStep
<1>5. CASE TestHolds
  BY <1>5, TestHoldsStep
<1>6. CASE TestFails
  BY <1>6, TestFailsStep
<1>7. CASE LoopReturns
  BY <1>7, LoopReturnsStep
<1>8. CASE While_break_request
  BY <1>8, BreakOrContinueStep DEF While_break_request
<1>9. CASE While_continue_request
  BY <1>9, BreakOrContinueStep DEF While_continue_request
<1>10. CASE Nx
  BY <1>10, NxStep
<1>11. CASE Ex
  BY <1>11, ExStep
<1>12. CASE MainReturns
  BY <1>1, <1>12, MainReturnsStep
<1>13. CASE ExitReturns
  BY <1>1, <1>13, ExitReturnsStep
<1>14. ASSUME NEW size \in Sizes,
              \/ Enter("file", size, 0) \/ Enter("string", size, 0)
              \/ \E args \in Counts : Enter("macro", size, args)
              \/ Interpolate(size) \/ Spring(size)
              \/ \E blank \in BOOLEAN : NxFile(size, blank)
       PROVE  IInv'
  <2>1. size \in Nat
    BY <1>1
  <2>2. CASE Enter("file", size, 0)
    BY <2>1, <2>2, EnterStep DEF Texted, Texts
  <2>3. CASE Enter("string", size, 0)
    BY <2>1, <2>3, EnterStep DEF Texted, Texts
  <2>4. ASSUME NEW args \in Counts, Enter("macro", size, args) PROVE IInv'
    BY <1>1, <2>1, <2>4, EnterStep DEF Texted, Texts
  <2>5. CASE Interpolate(size)
    BY <2>1, <2>5, InterpolateStep
  <2>6. CASE Spring(size)
    BY <2>1, <2>6, SpringStep
  <2>7. ASSUME NEW blank \in BOOLEAN, NxFile(size, blank) PROVE IInv'
    BY <2>1, <2>7, NxFileStep
  <2> QED
    BY <1>14, <2>2, <2>3, <2>4, <2>5, <2>6, <2>7
<1>15. ASSUME NEW size \in LoopSizes, While(size) PROVE IInv'
  BY <1>1, <1>15, WhileStep
<1>16. ASSUME NEW n \in 1..2, Return(n) \/ Shift(n) PROVE IInv'
  BY <1>16, ReturnStep, ShiftStep
<1>17. CASE UNCHANGED vars
  BY <1>17, StutterStep
<1> QED
  BY <1>2, <1>3, <1>4, <1>5, <1>6, <1>7, <1>8, <1>9, <1>10, <1>11, <1>12,
     <1>13, <1>14, <1>15, <1>16, <1>17, Zenon DEF Next

\* Every process_input_stack finds the stack as its invariant says: as many
\* boundaries as loops, above them the ends of the traps it has begun.
THEOREM RunsOwnBoundaries == Spec => []IInv
<1>1. Init => IInv
  BY InitIInv
<1>2. IInv /\ [Next]_vars => IInv'
  BY NextStep
<1> QED
  BY <1>1, <1>2, PTL DEF Spec

\* In the document, where ex and return have left boundaries to return at,
\* nothing is interpreted until the loops have returned.
THEOREM ReturnsAlwaysUnwind == Spec => []ReturnsUnwind
<1>1. IInv => ReturnsUnwind
  <2>1. SUFFICES ASSUME IInv, phase = "document", NEW i \in DOMAIN stack,
                        stack[i].kind = "return_boundary"
                 PROVE  tok = "eof" /\ stack[1].kind = "return_boundary"
                        /\ ~want_loop_break
    BY Zenon DEF ReturnsUnwind
  <2>2. PICK x \in 0..Len(runs) :
                Whole(stack, tok, runs, x, want_loop_break, phase)
    BY <2>1 DEF IInv, Interpreting
  <2>3. /\ stack \in Seq(Items) /\ ReturnsOnTop(stack)
        /\ NoReturns(stack) \/ (tok = "eof" /\ ~want_loop_break)
    BY <2>1, <2>2 DEF Whole, Stacked
  <2> DEFINE n == Len(stack)
             p == n + 1 - i
  <2>4. n \in Nat /\ i \in 1..n
    BY <2>1, <2>3
  <2>5. Low(stack, p) = "return_boundary"
    <3>1. n + 1 - p = i
      BY <2>4
    <3> HIDE DEF p
    <3> QED
      BY <2>1, <3>1, Zenon DEF Low
  <2> HIDE DEF n
  <2>6. p \in 1..n /\ n \in 1..n /\ n + 1 - n = 1
    BY <2>4
  <2>7. tok = "eof" /\ ~want_loop_break
    <3> HIDE DEF p
    <3> QED
      BY <2>3, <2>5, <2>6 DEF NoReturns, n
  <2>8. Low(stack, n) = stack[1].kind
    BY <2>6, Zenon DEF Low, n
  <2>9. CASE p = n
    BY <2>5, <2>7, <2>8, <2>9
  <2>10. CASE p # n
    <3>1. p < n
      BY <2>4, <2>6, <2>10
    <3> HIDE DEF p
    <3>2. Low(stack, n) = "return_boundary"
      BY <2>3, <2>5, <2>6, <3>1 DEF ReturnsOnTop, n
    <3> QED
      BY <2>7, <2>8, <3>2
  <2> QED
    BY <2>9, <2>10
<1> QED
  BY <1>1, RunsOwnBoundaries, PTL

\* The ends of traps above the first boundary are those with all boundaries
\* below them.
LEMMA EndsAbove ==
    ASSUME NEW s \in Seq(Items), NEW n \in 1..(BoundaryAt(s) - 1)
    PROVE  Cardinality({i \in 1..n : s[i].kind = "end_trap"})
               <= Ends(s, Depth(s, Len(s)))
<1> DEFINE L == Len(s)
           D == Depth(s, L)
           S == {i \in 1..n : s[i].kind = "end_trap"}
           T == EndsAt(s, D)
           f == [i \in S |-> L + 1 - i]
<1>1. /\ BoundaryAt(s) \in 1..(L + 1) /\ L \in Nat
      /\ \A j \in 1..(BoundaryAt(s) - 1) : ~IsBoundary(s[j])
  BY BoundaryFound
<1>2. ASSUME NEW i \in S PROVE L + 1 - i \in T
  <2> DEFINE q == L + 1 - i
  <2>1. i \in 1..n /\ s[i].kind = "end_trap" /\ i \in 1..L
    BY <1>1
  <2>2. q \in 1..L /\ L + 1 - q = i /\ q \in Nat /\ q <= L
    BY <1>1, <2>1
  <2>3. ASSUME NEW k \in (q + 1)..L PROVE Low(s, k) \notin Barriers
    BY <1>1, <2>1 DEF Low, IsBoundary, Barriers
  <2> HIDE DEF q
  <2>4. Depth(s, L) = Depth(s, q)
    BY <1>1, <2>2, <2>3, DepthFlat
  <2>5. Low(s, q) = "end_trap"
    BY <2>1, <2>2, Zenon DEF Low, L
  <2>6. q \in EndsAt(s, D)
    BY <2>2, <2>4, <2>5 DEF EndsAt
  <2> QED
    BY <2>6 DEF q
<1>3. f \in Injection(S, T)
  <2>1. f \in [S -> T]
    BY <1>2
  <2>2. ASSUME NEW i \in S, NEW j \in S, f[i] = f[j] PROVE i = j
    <3>1. L + 1 - i = L + 1 - j
      <4>1. f[i] = L + 1 - i /\ f[j] = L + 1 - j
        BY Zenon
      <4> HIDE DEF f
      <4> QED
        BY <2>2, <4>1
    <3>2. i \in Nat /\ j \in Nat
      OBVIOUS
    <3> QED
      BY <1>1, <3>1, <3>2
  <2> HIDE DEF f
  <2> QED
    BY <2>1, <2>2 DEF Injection, IsInjective
<1>4. IsFiniteSet(T)
  <2>1. T \in SUBSET (1..L)
    BY DEF EndsAt
  <2>2. IsFiniteSet(1..L)
    BY <1>1, FS_Interval
  <2> QED
    BY <2>1, <2>2, FS_Subset
<1> HIDE DEF f, S, T
<1>5. Cardinality(S) <= Cardinality(T)
  BY <1>3, <1>4, FS_Injection
<1> QED
  BY <1>5 DEF S, T, Ends

\* No end of a trap is spurious: whoever reads it has read its beginning.
THEOREM EndsAlwaysMatch == Spec => []EndsMatchBegins
<1> DEFINE CountOf(kind, n) ==
               Cardinality({i \in 1..n : stack[i].kind = kind})
<1>1. IInv => EndsMatchBegins
  <2>1. SUFFICES ASSUME IInv, Interpreting, NEW n \in 1..(BoundaryAt(stack) - 1)
                 PROVE  CountOf("end_trap", n)
                            <= CountOf("begin_trap", n) + runs[1].traps
    BY Zenon DEF EndsMatchBegins, BoundaryAt
  <2>2. PICK x \in 0..Len(runs) :
                Whole(stack, tok, runs, x, want_loop_break, phase)
    BY <2>1 DEF IInv
  <2>3. /\ Stacked(stack, runs, x, phase) /\ Fits(stack, tok)
        /\ Matched(stack, runs, x, IF tok = "begin_trap" THEN 1 ELSE 0)
    BY <2>2, WholeFacts
  <2>4. /\ stack \in Seq(Items) /\ LoopsOf(runs, x) \in Nat
        /\ Depth(stack, Len(stack)) = LoopsOf(runs, x) /\ runs[1] \in RunRecords
    BY <2>3, StackedFacts
  <2> DEFINE d == LoopsOf(runs, x)
  <2>5. Ends(stack, d) <= runs[1].traps + (IF tok = "begin_trap" THEN 1 ELSE 0)
    <3>1. \A e \in 0..d : Ends(stack, e) <= runs[d + 1 - e].traps
                + (IF e = d THEN IF tok = "begin_trap" THEN 1 ELSE 0 ELSE 0)
      BY <2>3, Zenon DEF Matched
    <3> HIDE DEF d
    <3>2. d \in 0..d /\ d + 1 - d = 1
      BY <2>4 DEF d
    <3> QED
      BY <3>1, <3>2, Zenon
  <2>6. CountOf("end_trap", n) <= Ends(stack, d)
    BY <2>4, EndsAbove
  <2>7. /\ Ends(stack, d) \in Nat /\ runs[1].traps \in Nat
        /\ CountOf("end_trap", n) \in Nat /\ CountOf("begin_trap", n) \in Nat
    <3>1. Ends(stack, d) \in Nat
      BY <2>4, EndsNat
    <3>2. runs[1].traps \in Nat
      BY <2>4 DEF RunRecords
    <3>3. IsFiniteSet(1..n)
      BY FS_Interval
    <3>4. ASSUME NEW kind PROVE CountOf(kind, n) \in Nat
      BY <3>3, FS_Subset, FS_CardinalityType
    <3> HIDE DEF CountOf
    <3> QED
      BY <3>1, <3>2, <3>4
  <2>8. tok = "begin_trap" => CountOf("begin_trap", n) # 0
    <3>1. ASSUME tok = "begin_trap" PROVE CountOf("begin_trap", n) # 0
      <4> DEFINE B == {i \in 1..n : stack[i].kind = "begin_trap"}
      <4>1. stack[1].kind = "begin_trap"
        BY <2>3, <3>1 DEF Fits, Marks
      <4>2. 1 \in B
        BY <4>1
      <4>3. IsFiniteSet(B)
        <5>1. IsFiniteSet(1..n) /\ B \in SUBSET (1..n)
          BY FS_Interval
        <5> QED
          BY <5>1, FS_Subset
      <4> HIDE DEF B
      <4>4. Cardinality(B) # 0
        BY <4>2, <4>3, FS_EmptySet
      <4> QED
        BY <4>4 DEF B
    <3> QED
      BY <3>1
  <2> DEFINE e == Ends(stack, d)
             b == CountOf("begin_trap", n)
             t == runs[1].traps
  <2>9. /\ e <= t + 1 /\ (tok # "begin_trap" => e <= t)
        /\ tok = "begin_trap" => b # 0
    BY <2>5, <2>7, <2>8
  <2> HIDE DEF d, CountOf, e, b, t
  <2>10. e \in Nat /\ b \in Nat /\ t \in Nat /\ CountOf("end_trap", n) \in Nat
    BY <2>7, Zenon DEF e, b, t
  <2>11. e <= b + t
    BY <2>9, <2>10
  <2>12. CountOf("end_trap", n) <= b + t
    BY <2>6, <2>10, <2>11 DEF e
  <2> QED
    BY <2>12 DEF b, t
<1> QED
  BY <1>1, RunsOwnBoundaries, PTL

\* A stack that is read to its end has a boundary on top or is empty.
LEMMA TopCounts ==
    ASSUME NEW s \in Seq(Items), s # <<>>, IsBoundary(s[1])
    PROVE  /\ Len(s) - 1 \in Nat
           /\ Depth(s, Len(s)) = Depth(s, Len(s) - 1) + 1
<1> DEFINE n == Len(s)
<1>1. n \in Nat \ {0}
  OBVIOUS
<1> HIDE DEF n
<1>2. n + 1 - n = 1 /\ n - 1 \in Nat
  BY <1>1
<1>3. Low(s, n) \in Barriers
  BY <1>2 DEF Low, n, IsBoundary, Barriers
<1>4. Depth(s, n) = Depth(s, n - 1) + 1
  BY <1>1, <1>3, DepthStep
<1> QED
  BY <1>2, <1>4 DEF n

\* The boundaries are those of the loops, and what is on top fits the run.
LEMMA AllMatch ==
    ASSUME "nx_after_ex" \notin Extras, IInv
    PROVE  BoundariesMatchLoops
<1>1. SUFFICES ASSUME IInv, Interpreting
               PROVE  /\ Boundaries(stack) = Loops
                      /\ Returns("while") => stack # <<>> /\ IsBoundary(stack[1])
                      /\ Returns("main") => stack = <<>>
                      /\ Returns("exit") =>
                            \A i \in DOMAIN stack : IsBoundary(stack[i])
  BY Zenon DEF BoundariesMatchLoops
<1>2. PICK x \in 0..Len(runs) :
              Whole(stack, tok, runs, x, want_loop_break, phase)
  BY <1>1 DEF IInv
<1>3. Stacked(stack, runs, x, phase) /\ Fits(stack, tok)
  BY <1>2, WholeFacts
<1>4. /\ stack \in Seq(Items) /\ WellRun(runs, x) /\ Len(stack) \in Nat
      /\ Depth(stack, Len(stack)) = LoopsOf(runs, x)
      /\ LoopsOf(runs, x) \in Nat
  BY <1>3, StackedFacts
<1>5. Boundaries(stack) = Loops
  BY <1>4, BoundariesDepth, LoopsCount DEF Loops
<1>6. tok = "eof" => stack = <<>> \/ IsBoundary(stack[1])
  BY <1>3 DEF Fits
<1>7. ASSUME stack # <<>>, IsBoundary(stack[1])
      PROVE  /\ Len(stack) - 1 \in Nat
             /\ Depth(stack, Len(stack)) = Depth(stack, Len(stack) - 1) + 1
             /\ Depth(stack, Len(stack) - 1) \in Nat
  BY <1>4, <1>7, TopCounts, DepthNat
<1>8. ASSUME tok = "eof", runs[1].kind = "while"
      PROVE  stack # <<>> /\ IsBoundary(stack[1])
  BY <1>4, <1>8, RunsLeft, DepthZero, <1>6
<1>9. ASSUME tok = "eof", runs[1].kind = "main" PROVE stack = <<>>
  BY <1>4, <1>9, MainAlone, <1>6, <1>7
<1>10. ASSUME tok = "eof", runs[1].kind = "exit", NEW i \in DOMAIN stack
       PROVE  IsBoundary(stack[i])
  <2> DEFINE n == Len(stack)
             m == x - 2
  <2>1. x # 0 /\ LoopsOf(runs, x) = m
    BY <1>4, <1>10, ExitOnTop
  <2>2. m \in Nat /\ Sealed(stack, m)
    BY <1>3, <2>1, <1>1, <1>4 DEF Stacked, Interpreting
  <2>3. n \in Nat /\ i \in 1..n /\ stack # <<>>
    BY <1>4
  <2>4. m <= n /\ \A q \in 1..m : Low(stack, q) = "return_boundary"
    BY <2>2 DEF Sealed
  <2> HIDE DEF m
  <2>5. Depth(stack, m) = m
    BY <1>4, <2>2, SealedDepth
  <2>6. n - 1 \in Nat /\ m = Depth(stack, n - 1) + 1
        /\ Depth(stack, n - 1) \in Nat
    BY <1>6, <1>10, <2>3, <1>7, <1>4, <2>1
  <2> HIDE DEF n
  <2>7. m = n
    <3>1. ASSUME m <= n - 1 PROVE FALSE
      BY <2>2, <2>6, <3>1, DepthGrows, <2>5
    <3> QED
      BY <2>2, <2>3, <2>4, <3>1
  <2>8. n + 1 - i \in 1..m /\ n + 1 - (n + 1 - i) = i
    BY <2>3, <2>7
  <2>9. Low(stack, n + 1 - i) = stack[i].kind
    BY <2>8, Zenon DEF Low, n
  <2>10. stack[i].kind = "return_boundary"
    BY <2>4, <2>8, <2>9
  <2> QED
    BY <2>10 DEF IsBoundary
<1> QED
  BY <1>5, <1>8, <1>9, <1>10, Zenon DEF Returns

\* Whatever the document does but nx with a file name in a loop after an ex,
\* each while_request has its boundary, and whoever returns finds the stack
\* as it must be.
THEOREM BoundariesAlwaysMatch ==
    ASSUME "nx_after_ex" \notin Extras
    PROVE  Spec => []BoundariesMatchLoops
<1>1. IInv => BoundariesMatchLoops
  BY AllMatch
<1> QED
  BY <1>1, RunsOwnBoundaries, PTL

-----------------------------------------------------------------------------
(* The input stack implements the blocks, and each request does what Blocks *)
(* promises of it, for any sizes, limits and documents without Extras.      *)
(*                                                                          *)
(* Base(s) are the blocks of a stack s where nothing is about to be tested  *)
(* or broken out of, one sequence joined from those of its iterators, and   *)
(* Walls(s) its boundaries.  What an operation does to Base is what Blocks  *)
(* does to blocks; what it does to Walls keeps JInv: which iterators may be *)
(* on top of which, that the boundaries have the sizes of the loops that    *)
(* are being interpreted, and that loops that were returned from are left   *)
(* at once, for where they are not, what is below them is not a block.      *)
-----------------------------------------------------------------------------
\* Sequences, and sequences of sequences that are flattened.

\* A function of the numbers up to n can be defined step by step.
IsStepwise(f, n, a, g) ==
    f = [i \in 0..n |-> IF i = 0 THEN a ELSE g[<<f[i - 1], i>>]]

LEMMA StepByStep ==
    ASSUME NEW n \in Nat, NEW a, NEW g
    PROVE  \E f : IsStepwise(f, n, a, g)
<1> USE DEF IsStepwise
<1> DEFINE IsIt(f, m) == IsStepwise(f, m, a, g)
           S == {m \in Nat : \E f : IsIt(f, m)}
<1>1. 0 \in S
  <2> DEFINE f == [i \in 0..0 |-> a]
  <2>1. f = [i \in 0..0 |-> IF i = 0 THEN a ELSE g[<<f[i - 1], i>>]]
    OBVIOUS
  <2>2. IsIt(f, 0)
    BY <2>1
  <2> QED
    BY <2>2
<1>2. ASSUME NEW m \in S PROVE m + 1 \in S
  <2>1. PICK f : IsIt(f, m)
    OBVIOUS
  <2> DEFINE h == [i \in 0..(m + 1) |-> IF i = m + 1 THEN g[<<f[m], i>>]
                                        ELSE f[i]]
  <2>2. \A i \in 0..(m + 1) :
           h[i] = IF i = 0 THEN a ELSE g[<<h[i - 1], i>>]
    <3>1. ASSUME NEW i \in 0..m
          PROVE  h[i] = IF i = 0 THEN a ELSE g[<<h[i - 1], i>>]
      BY <2>1
    <3>2. h[m + 1] = g[<<h[m], m + 1>>]
      OBVIOUS
    <3>3. \A i \in 0..(m + 1) : i \in 0..m \/ i = m + 1
      OBVIOUS
    <3>4. m + 1 # 0 /\ (m + 1) - 1 = m
      OBVIOUS
    <3> HIDE DEF h
    <3> QED
      BY <3>1, <3>2, <3>3, <3>4
  <2>3. h = [i \in 0..(m + 1) |-> h[i]]
    OBVIOUS
  <2> HIDE DEF h
  <2>4. IsIt(h, m + 1)
    BY <2>2, <2>3
  <2>5. \E f1 : IsIt(f1, m + 1)
    <3> WITNESS h
    <3> QED
      BY <2>4
  <2> HIDE DEF IsIt
  <2> QED
    BY <2>5
<1>3. S = Nat
  <2> HIDE DEF S
  <2>1. S \in SUBSET Nat
    BY DEF S
  <2> QED
    BY <1>1, <1>2, <2>1, Induct
<1> QED
  BY <1>3

\* Sequences, step by step: c[i] comes from c[i - 1] by g, where g yields
\* sequences from sequences.
LEMMA StepwiseSequences ==
    ASSUME NEW n \in Nat, NEW T, NEW a \in T, NEW g,
           \A u \in T : \A i \in 1..n : g[<<u, i>>] \in T
    PROVE  \E f : IsStepwise(f, n, a, g) /\ \A i \in 0..n : f[i] \in T
<1>1. PICK f : IsStepwise(f, n, a, g)
  BY StepByStep
<1>2. f[0] = a /\ \A i \in 1..n : f[i] = g[<<f[i - 1], i>>]
  BY <1>1 DEF IsStepwise
<1> DEFINE S == {i \in Nat : i \in 0..n => f[i] \in T}
<1>3. 0 \in S
  BY <1>2
<1>4. ASSUME NEW i \in S PROVE i + 1 \in S
  <2>1. SUFFICES ASSUME i + 1 \in 0..n PROVE f[i + 1] \in T
    OBVIOUS
  <2>2. i \in 0..n /\ i + 1 \in 1..n /\ (i + 1) - 1 = i
    BY <2>1
  <2>3. f[i] \in T
    BY <2>2
  <2>4. f[i + 1] = g[<<f[i], i + 1>>]
    BY <1>2, <2>2
  <2> QED
    BY <2>2, <2>3, <2>4
<1>5. S = Nat
  <2> HIDE DEF S
  <2>1. S \in SUBSET Nat
    BY DEF S
  <2> QED
    BY <1>3, <1>4, <2>1, Induct
<1>6. \A i \in 0..n : f[i] \in T
  BY <1>5
<1> QED
  BY <1>1, <1>6


\* What FlattenSeq joins, sequence by sequence.
Joins(q) == LET flatten[i \in 1..Len(q)] ==
                    IF i = 1 THEN q[i] ELSE flatten[i - 1] \o q[i]
            IN  flatten

LEMMA JoinsSteps ==
    ASSUME NEW E, NEW q \in Seq(Seq(E)), q # <<>>
    PROVE  LET f == Joins(q)
           IN  /\ f[1] = q[1]
               /\ \A i \in 2..Len(q) : f[i] = f[i - 1] \o q[i]
<1> DEFINE n == Len(q)
           T == Seq(E)
           c == Joins(q)
           step(u, i) == IF i = 1 THEN q[i] ELSE u \o q[i]
           g == [p \in T \X (1..n) |-> step(p[1], p[2])]
           IsIt(f) == f = [i \in 1..n |-> IF i = 1 THEN q[i]
                                          ELSE f[i - 1] \o q[i]]
<1>1. n \in Nat /\ n > 0 /\ <<>> \in T /\ \A i \in 1..n : q[i] \in T
  OBVIOUS
<1>2. \A u \in T : \A i \in 1..n : step(u, i) \in T
  BY <1>1
<1>3. \A u \in T : \A i \in 1..n : g[<<u, i>>] = step(u, i)
  <2> HIDE DEF step, T
  <2> QED
    OBVIOUS
<1>4. \A u \in T : \A i \in 1..n : g[<<u, i>>] \in T
  BY <1>2, <1>3
<1>5. PICK f : IsStepwise(f, n, <<>>, g) /\ \A i \in 0..n : f[i] \in T
  <2> HIDE DEF g, n, T
  <2> QED
    BY <1>1, <1>4, StepwiseSequences
<1>6. \A i \in 1..n : f[i] = step(f[i - 1], i)
  <2>1. \A i \in 1..n : f[i] = g[<<f[i - 1], i>>]
    <3> HIDE DEF g, T, n
    <3> QED
      BY <1>1, <1>5 DEF IsStepwise
  <2>2. \A i \in 1..n : f[i - 1] \in T
    <3> HIDE DEF g, T, n
    <3> QED
      BY <1>1, <1>5
  <2> HIDE DEF g, T, n, step
  <2> QED
    BY <1>3, <2>1, <2>2
<1> DEFINE r == [i \in 1..n |-> f[i]]
<1>7. IsIt(r)
  <2>1. \A i \in 1..n : r[i] = f[i] /\ (i # 1 => r[i - 1] = f[i - 1])
    <3> HIDE DEF n
    <3> QED
      BY <1>1
  <2>2. \A i \in 1..n : r[i] = IF i = 1 THEN q[i] ELSE r[i - 1] \o q[i]
    <3> HIDE DEF n, r
    <3> QED
      BY <1>6, <2>1, Zenon
  <2>3. r = [i \in 1..n |-> r[i]]
    OBVIOUS
  <2> HIDE DEF n, r
  <2> QED
    BY <2>2, <2>3, Zenon
<1>8. c = CHOOSE h : IsIt(h)
  BY DEF Joins
<1>9. IsIt(c)
  <2> HIDE DEF IsIt, c
  <2> QED
    BY <1>7, <1>8
<1> HIDE DEF c
<1>10. 1 \in 1..n /\ \A i \in 2..n : i \in 1..n /\ i # 1
  BY <1>1
<1> HIDE DEF n
<1>11. c[1] = q[1] /\ \A i \in 2..n : c[i] = c[i - 1] \o q[i]
  BY <1>9, <1>10, Zenon
<1> QED
  BY <1>11 DEF c, n

LEMMA FlattenIs ==
    ASSUME NEW E, NEW q \in Seq(Seq(E))
    PROVE  FlattenSeq(q) = IF q = <<>> THEN <<>> ELSE Joins(q)[Len(q)]
<1>1. Len(q) = 0 <=> q = <<>>
  OBVIOUS
<1> QED
  BY <1>1 DEF FlattenSeq, Joins

LEMMA ElementOf ==
    ASSUME NEW E, NEW t \in Seq(E), NEW i \in 1..Len(t)
    PROVE  t[i] \in E
OBVIOUS

\* What FlattenSeq joins.
LEMMA FlattenIn ==
    ASSUME NEW E, NEW q \in Seq(Seq(E))
    PROVE  FlattenSeq(q) \in Seq(E)
<1>1. CASE q = <<>>
  BY <1>1 DEF FlattenSeq
<1>2. CASE q # <<>>
  <2> DEFINE n == Len(q)
             f == Joins(q)
             P(i) == f[i + 1] \in Seq(E)
             T == {i \in Nat : i + 1 <= n => P(i)}
  <2>1. n \in Nat /\ n >= 1 /\ \A i \in 1..n : q[i] \in Seq(E)
    BY <1>2
  <2>2. f[1] = q[1] /\ \A i \in 2..n : f[i] = f[i - 1] \o q[i]
    BY <1>2, JoinsSteps
  <2> HIDE DEF f, n
  <2>3. 0 \in T
    BY <2>1, <2>2
  <2>4. ASSUME NEW i \in T PROVE i + 1 \in T
    <3>0. i \in Nat /\ i + 1 \in Nat
      OBVIOUS
    <3>1. SUFFICES ASSUME (i + 1) + 1 <= n PROVE P(i + 1)
      BY <3>0, Zenon
    <3>2. (i + 1) + 1 \in 2..n /\ ((i + 1) + 1) - 1 = i + 1 /\ P(i)
      BY <2>1, <3>1
    <3>3. f[(i + 1) + 1] = f[i + 1] \o q[(i + 1) + 1]
      BY <2>2, <3>2
    <3>4. q[(i + 1) + 1] \in Seq(E)
      BY <2>1, <3>2
    <3> QED
      BY <3>2, <3>3, <3>4
  <2>5. T = Nat
    <3> HIDE DEF T
    <3>1. T \in SUBSET Nat
      BY DEF T
    <3> QED
      BY <2>3, <2>4, <3>1, Induct
  <2>6. n - 1 \in Nat /\ (n - 1) + 1 = n
    BY <2>1
  <2>7. n - 1 \in T
    <3> HIDE DEF T
    <3> QED
      BY <2>5, <2>6
  <2>8. P(n - 1)
    BY <2>6, <2>7
  <2>9. f[n] \in Seq(E)
    BY <2>6, <2>8
  <2> QED
    BY <1>2, <2>9, FlattenIs DEF f, n
<1> QED
  BY <1>1, <1>2


LEMMA FlattenOne ==
    ASSUME NEW E, NEW t \in Seq(E), NEW q, q = <<t>>
    PROVE  FlattenSeq(q) = t
<1>1. q \in Seq(Seq(E)) /\ Len(q) = 1 /\ q # <<>> /\ q[1] = t
  OBVIOUS
<1>2. FlattenSeq(q) = Joins(q)[1] /\ Joins(q)[1] = q[1]
  BY <1>1, FlattenIs, JoinsSteps
<1> QED
  BY <1>1, <1>2

\* What is joined from p and q is what is joined from p, and then that of q.
LEMMA FlattenJoin ==
    ASSUME NEW E, NEW p \in Seq(Seq(E)), NEW q \in Seq(Seq(E))
    PROVE  FlattenSeq(p \o q) = FlattenSeq(p) \o FlattenSeq(q)
<1>0. FlattenSeq(p) \in Seq(E) /\ FlattenSeq(q) \in Seq(E)
  BY FlattenIn
<1>1. CASE p = <<>>
  <2>1. p \o q = q
    BY <1>1
  <2>2. FlattenSeq(p) = <<>>
    BY <1>1, FlattenIs, Zenon
  <2>3. <<>> \o FlattenSeq(q) = FlattenSeq(q)
    BY <1>0
  <2> QED
    BY <2>1, <2>2, <2>3, Zenon
<1>2. CASE q = <<>>
  <2>1. p \o q = p
    BY <1>2
  <2>2. FlattenSeq(q) = <<>>
    BY <1>2, FlattenIs, Zenon
  <2>3. FlattenSeq(p) \o <<>> = FlattenSeq(p)
    BY <1>0
  <2> QED
    BY <2>1, <2>2, <2>3, Zenon
<1>3. CASE p # <<>> /\ q # <<>>
  <2> DEFINE m == Len(p)
             n == Len(q)
             r == p \o q
             f == Joins(p)
             g == Joins(q)
             h == Joins(r)
  <2>1. /\ m \in Nat /\ m > 0 /\ n \in Nat /\ n > 0
        /\ r \in Seq(Seq(E)) /\ r # <<>> /\ Len(r) = m + n
        /\ \A i \in 1..m : r[i] = p[i]
        /\ \A i \in 1..n : r[m + i] = q[i]
    BY <1>3
  <2>2. f[1] = p[1] /\ \A i \in 2..m : f[i] = f[i - 1] \o p[i]
    BY <1>3, JoinsSteps
  <2>3. g[1] = q[1] /\ \A i \in 2..n : g[i] = g[i - 1] \o q[i]
    BY <1>3, JoinsSteps
  <2>4. h[1] = r[1] /\ \A i \in 2..(m + n) : h[i] = h[i - 1] \o r[i]
    BY <2>1, JoinsSteps
  <2>5. /\ FlattenSeq(p) = f[m] /\ FlattenSeq(q) = g[n]
        /\ FlattenSeq(r) = h[m + n]
    BY <1>3, <2>1, FlattenIs
  <2>6. f[m] \in Seq(E) /\ \A i \in 1..n : q[i] \in Seq(E)
    BY <1>0, <2>5
  <2> HIDE DEF m, n, r, f, g, h
  <2> DEFINE P(i) == h[i + 1] = f[i + 1]
             S == {i \in Nat : i + 1 <= m => P(i)}
  <2>7. S = Nat
    <3>1. 0 \in S
      BY <2>1, <2>2, <2>4
    <3>2. ASSUME NEW i \in S PROVE i + 1 \in S
      <4>0. i \in Nat /\ i + 1 \in Nat
        OBVIOUS
      <4>1. SUFFICES ASSUME (i + 1) + 1 <= m PROVE P(i + 1)
        BY <4>0, Zenon
      <4>2. /\ (i + 1) + 1 \in 2..m /\ (i + 1) + 1 \in 2..(m + n)
            /\ (i + 1) + 1 \in 1..m /\ ((i + 1) + 1) - 1 = i + 1 /\ P(i)
        BY <2>1, <4>1
      <4>3. h[(i + 1) + 1] = h[i + 1] \o r[(i + 1) + 1]
        BY <2>4, <4>2
      <4>4. f[(i + 1) + 1] = f[i + 1] \o p[(i + 1) + 1]
        BY <2>2, <4>2
      <4> QED
        BY <2>1, <4>2, <4>3, <4>4, Zenon
    <3> HIDE DEF S
    <3>3. S \in SUBSET Nat
      BY DEF S
    <3> QED
      BY <3>1, <3>2, <3>3, Induct
  <2>8. h[m] = f[m]
    <3>1. m - 1 \in Nat /\ (m - 1) + 1 = m
      BY <2>1
    <3>2. m - 1 \in S
      <4> HIDE DEF S
      <4> QED
        BY <2>7, <3>1
    <3>3. P(m - 1)
      BY <3>1, <3>2
    <3> QED
      BY <3>1, <3>3
  <2> DEFINE Q(i) == g[i + 1] \in Seq(E) /\ h[m + (i + 1)] = f[m] \o g[i + 1]
             T == {i \in Nat : i + 1 <= n => Q(i)}
  <2>9. T = Nat
    <3>1. 0 \in T
      <4>0. /\ m + 1 \in 2..(m + n) /\ 1 \in 1..n /\ (m + 1) - 1 = m
            /\ 0 + 1 = 1
        BY <2>1
      <4>1. /\ h[m + 1] = h[(m + 1) - 1] \o r[m + 1]
            /\ r[m + 1] = q[1] /\ q[1] \in Seq(E)
        BY <2>1, <2>4, <2>6, <4>0, Zenon
      <4>2. g[0 + 1] \in Seq(E) /\ h[m + (0 + 1)] = f[m] \o g[0 + 1]
        BY <2>3, <2>8, <4>0, <4>1, Zenon
      <4> QED
        BY <4>2
    <3>2. ASSUME NEW i \in T PROVE i + 1 \in T
      <4>0. i \in Nat /\ i + 1 \in Nat
        OBVIOUS
      <4>1. SUFFICES ASSUME (i + 1) + 1 <= n PROVE Q(i + 1)
        BY <4>0, Zenon
      <4>7. m \in Nat /\ n \in Nat /\ m > 0
        BY <2>1
      <4>8. /\ (i + 1) + 1 \in 2..n /\ m + ((i + 1) + 1) \in 2..(m + n)
            /\ (i + 1) + 1 \in 1..n /\ ((i + 1) + 1) - 1 = i + 1
            /\ (m + ((i + 1) + 1)) - 1 = m + (i + 1) /\ i + 1 <= n
        BY <4>0, <4>1, <4>7
      <4>9. Q(i)
        BY <4>8
      <4>2. /\ (i + 1) + 1 \in 2..n /\ m + ((i + 1) + 1) \in 2..(m + n)
            /\ (i + 1) + 1 \in 1..n /\ ((i + 1) + 1) - 1 = i + 1
            /\ (m + ((i + 1) + 1)) - 1 = m + (i + 1) /\ Q(i)
        BY <4>8, <4>9, Zenon
      <4> DEFINE k == (i + 1) + 1
      <4>3. h[m + k] = h[m + (i + 1)] \o r[m + k] /\ r[m + k] = q[k]
        BY <2>1, <2>4, <4>2, Zenon
      <4>4. g[k] = g[i + 1] \o q[k] /\ q[k] \in Seq(E)
        BY <2>3, <2>6, <4>2, Zenon
      <4>10. g[i + 1] \in Seq(E) /\ h[m + (i + 1)] = f[m] \o g[i + 1]
        BY <4>9
      <4> HIDE DEF k, Q
      <4>5. (f[m] \o g[i + 1]) \o q[k] = f[m] \o (g[i + 1] \o q[k])
        <5> DEFINE fm == f[m]
                   gi == g[i + 1]
                   qk == q[k]
        <5>1. fm \in Seq(E) /\ gi \in Seq(E) /\ qk \in Seq(E)
          BY <2>6, <4>4, <4>10, Zenon
        <5> HIDE DEF fm, gi, qk
        <5>2. (fm \o gi) \o qk = fm \o (gi \o qk)
          BY <5>1, ConcatAssociative, SMTT(30)
        <5> QED
          BY <5>2, Zenon DEF fm, gi, qk
      <4>6. g[k] \in Seq(E)
        BY <4>4, <4>10
      <4>11. h[m + k] = f[m] \o g[k]
        BY <4>3, <4>4, <4>5, <4>10, Zenon
      <4> QED
        BY <4>6, <4>11, Zenon DEF k, Q
    <3> HIDE DEF T
    <3>3. T \in SUBSET Nat
      BY DEF T
    <3> QED
      BY <3>1, <3>2, <3>3, Induct
  <2>10. h[m + n] = f[m] \o g[n]
    <3>1. n - 1 \in Nat /\ (n - 1) + 1 = n
      BY <2>1
    <3>2. n - 1 \in T
      <4> HIDE DEF T
      <4> QED
        BY <2>9, <3>1
    <3>3. n - 1 \in Nat /\ (n - 1) + 1 <= n
      BY <2>1
    <3>4. Q(n - 1)
      BY <3>2, <3>3, Zenon
    <3> QED
      BY <3>1, <3>4, Zenon
  <2> QED
    BY <2>5, <2>10 DEF r
<1> QED
  BY <1>1, <1>2, <1>3

-----------------------------------------------------------------------------
\* The blocks of a stack, by its iterators.

\* The blocks of a stack where nothing is about to be tested or broken out of.
BlockKinds == {"file", "macro", "string"}
Blk == [kind : BlockKinds \cup {"loop"}, left : Nat, args : Nat, size : Nat]

LeftOver(s, i) == IF i = 1 \/ s[i - 1].kind # "loop" THEN 0 ELSE s[i - 1].left

LoopBlock(it, left) == [it EXCEPT !.kind = "loop", !.left = left]

BlockAt(s, i) ==
    IF s[i].kind \in BlockKinds THEN <<s[i]>>
    ELSE IF s[i].kind = "boundary" THEN <<LoopBlock(s[i], LeftOver(s, i))>>
    ELSE <<>>

Pieces(s) == [i \in 1..Len(s) |-> BlockAt(s, i)]
Base(s) == FlattenSeq(Pieces(s))

LEMMA ItemsAre ==
    ASSUME NEW it \in Items
    PROVE  /\ it.kind \in Texts \cup Barriers \cup Marks
           /\ it.left \in Nat /\ it.args \in Nat /\ it.size \in Nat
           /\ it.kind \in Marks => it.left = 1
           /\ it.kind \in BlockKinds => it \in Blk
           /\ \A n \in Nat : LoopBlock(it, n) \in Blk
<1>1. it.kind \in BlockKinds => it \in Blk
  BY DEF Items, Blk, BlockKinds
<1>2. \A n \in Nat : LoopBlock(it, n) \in Blk
  BY DEF Items, Blk, LoopBlock
<1> QED
  BY <1>1, <1>2 DEF Items

LEMMA LeftOverNat ==
    ASSUME NEW s \in Seq(Items), NEW i \in 1..Len(s)
    PROVE  LeftOver(s, i) \in Nat
<1>1. i # 1 => i - 1 \in 1..Len(s)
  OBVIOUS
<1>2. i # 1 => s[i - 1] \in Items
  BY <1>1, ElementOf
<1> QED
  BY <1>2, ItemsAre DEF LeftOver

LEMMA BlockAtType ==
    ASSUME NEW s \in Seq(Items), NEW i \in 1..Len(s)
    PROVE  BlockAt(s, i) \in Seq(Blk)
<1>1. s[i] \in Items
  BY ElementOf
<1>2. LeftOver(s, i) \in Nat
  BY LeftOverNat
<1>3. s[i].kind \in BlockKinds => s[i] \in Blk
  BY <1>1, ItemsAre
<1>4. LoopBlock(s[i], LeftOver(s, i)) \in Blk
  BY <1>1, <1>2, ItemsAre
<1> QED
  BY <1>3, <1>4 DEF BlockAt

LEMMA PiecesIn ==
    ASSUME NEW s \in Seq(Items), NEW T,
           \A i \in 1..Len(s) : BlockAt(s, i) \in Seq(T)
    PROVE  Pieces(s) \in Seq(Seq(T)) /\ Base(s) \in Seq(T)
<1>1. Len(s) \in Nat
  OBVIOUS
<1>2. Pieces(s) \in [1..Len(s) -> Seq(T)]
  BY DEF Pieces
<1>3. Pieces(s) \in Seq(Seq(T))
  BY <1>1, <1>2
<1> QED
  BY <1>3, FlattenIn DEF Base

LEMMA PiecesType ==
    ASSUME NEW s \in Seq(Items)
    PROVE  /\ Pieces(s) \in Seq(Seq(Blk)) /\ Base(s) \in Seq(Blk)
           /\ Len(Pieces(s)) = Len(s)
           /\ \A i \in 1..Len(s) : Pieces(s)[i] = BlockAt(s, i)
<1>1. Pieces(s) \in Seq(Seq(Blk)) /\ Base(s) \in Seq(Blk)
  BY BlockAtType, PiecesIn
<1>2. Len(s) \in Nat
  OBVIOUS
<1> QED
  BY <1>1, <1>2 DEF Pieces

\* No loop body of a goes with a boundary on top of b.
Seam(a, b) ==
    \/ a = <<>> \/ b = <<>>
    \/ a[Len(a)].kind # "loop" \/ a[Len(a)].left = 0
    \/ b[1].kind # "boundary"

LEMMA ConcatIs ==
    ASSUME NEW E, NEW a \in Seq(E), NEW b \in Seq(E)
    PROVE  /\ a \o b \in Seq(E) /\ Len(a \o b) = Len(a) + Len(b)
           /\ \A i \in 1..Len(a) : (a \o b)[i] = a[i]
           /\ \A i \in 1..Len(b) : (a \o b)[Len(a) + i] = b[i]
OBVIOUS

LEMMA SameSequence ==
    ASSUME NEW E, NEW p \in Seq(E), NEW q \in Seq(E), Len(p) = Len(q),
           \A i \in 1..Len(p) : p[i] = q[i]
    PROVE  p = q
OBVIOUS

LEMMA BlockAtTop ==
    ASSUME NEW a \in Seq(Items), NEW b \in Seq(Items), NEW i \in 1..Len(a)
    PROVE  BlockAt(a \o b, i) = BlockAt(a, i)
<1>1. (a \o b)[i] = a[i]
  BY ConcatIs
<1>2. i # 1 => (a \o b)[i - 1] = a[i - 1]
  BY ConcatIs
<1>3. LeftOver(a \o b, i) = LeftOver(a, i)
  BY <1>2 DEF LeftOver
<1> QED
  BY <1>1, <1>3 DEF BlockAt

LEMMA BlockAtBottom ==
    ASSUME NEW a \in Seq(Items), NEW b \in Seq(Items), Seam(a, b),
           NEW i \in 1..Len(b)
    PROVE  BlockAt(a \o b, Len(a) + i) = BlockAt(b, i)
<1> DEFINE m == Len(a)
           s == a \o b
<1>1. m \in Nat /\ i \in Nat /\ i > 0 /\ b # <<>>
  OBVIOUS
<1>2. s[m + i] = b[i]
  BY ConcatIs
<1>3. CASE b[i].kind = "boundary"
  <2>1. LeftOver(s, m + i) = LeftOver(b, i)
    <3>1. CASE i # 1
      BY <1>1, <3>1, ConcatIs DEF LeftOver
    <3>2. CASE i = 1 /\ m = 0
      BY <3>2 DEF LeftOver
    <3>3. CASE i = 1 /\ m # 0
      <4>1. m \in 1..Len(a) /\ (m + i) - 1 = m /\ m + i # 1 /\ a # <<>>
        BY <1>1, <3>3
      <4>2. s[(m + i) - 1] = a[m]
        BY <4>1, ConcatIs
      <4>3. a[m].kind # "loop" \/ a[m].left = 0
        BY <1>1, <1>3, <3>3, <4>1 DEF Seam
      <4> HIDE DEF m, s
      <4>4. LeftOver(s, m + i) = 0 /\ LeftOver(b, i) = 0
        BY <3>3, <4>1, <4>2, <4>3, Zenon DEF LeftOver
      <4> QED
        BY <4>4
    <3> QED
      BY <3>1, <3>2, <3>3
  <2> HIDE DEF m, s
  <2> QED
    BY <1>2, <1>3, <2>1, Zenon DEF BlockAt, m, s
<1>4. CASE b[i].kind # "boundary"
  <2> HIDE DEF m, s
  <2> QED
    BY <1>2, <1>4, Zenon DEF BlockAt, m, s
<1> QED
  BY <1>3, <1>4

LEMMA BaseJoin ==
    ASSUME NEW a \in Seq(Items), NEW b \in Seq(Items), Seam(a, b)
    PROVE  Base(a \o b) = Base(a) \o Base(b)
<1> DEFINE s == a \o b
           p == Pieces(a)
           q == Pieces(b)
           r == p \o q
<1>1. /\ s \in Seq(Items) /\ Len(s) = Len(a) + Len(b)
      /\ Len(a) \in Nat /\ Len(b) \in Nat
  BY ConcatIs
<1>2. /\ p \in Seq(Seq(Blk)) /\ Len(p) = Len(a)
      /\ \A i \in 1..Len(a) : p[i] = BlockAt(a, i)
  BY PiecesType
<1>3. /\ q \in Seq(Seq(Blk)) /\ Len(q) = Len(b)
      /\ \A i \in 1..Len(b) : q[i] = BlockAt(b, i)
  BY PiecesType
<1>4. /\ Pieces(s) \in Seq(Seq(Blk)) /\ Len(Pieces(s)) = Len(s)
      /\ \A i \in 1..Len(s) : Pieces(s)[i] = BlockAt(s, i)
  BY <1>1, PiecesType
<1>5. /\ r \in Seq(Seq(Blk)) /\ Len(r) = Len(s)
      /\ \A i \in 1..Len(a) : r[i] = p[i]
      /\ \A i \in 1..Len(b) : r[Len(a) + i] = q[i]
  <2> HIDE DEF p, q, s
  <2>1. /\ r \in Seq(Seq(Blk)) /\ Len(r) = Len(p) + Len(q)
        /\ \A i \in 1..Len(p) : r[i] = p[i]
        /\ \A i \in 1..Len(q) : r[Len(p) + i] = q[i]
    <3>1. p \in Seq(Seq(Blk)) /\ q \in Seq(Seq(Blk))
      BY <1>2, <1>3
    <3> QED
      BY <3>1, ConcatIs
  <2> HIDE DEF r
  <2> QED
    BY <1>1, <1>2, <1>3, <2>1, Zenon
<1>6. \A i \in 1..Len(a) : BlockAt(s, i) = BlockAt(a, i)
  BY BlockAtTop
<1>7. \A i \in 1..Len(b) : BlockAt(s, Len(a) + i) = BlockAt(b, i)
  BY BlockAtBottom
<1>8. \A i \in 1..Len(s) : Pieces(s)[i] = r[i]
  <2>1. SUFFICES ASSUME NEW i \in 1..Len(s) PROVE Pieces(s)[i] = r[i]
    OBVIOUS
  <2>2. CASE i \in 1..Len(a)
    <3> HIDE DEF p, q, r, s
    <3> QED
      BY <1>2, <1>4, <1>5, <1>6, <2>1, <2>2, Zenon
  <2>3. CASE i \notin 1..Len(a)
    <3>1. i - Len(a) \in 1..Len(b) /\ Len(a) + (i - Len(a)) = i
      BY <1>1, <2>3
    <3> DEFINE k == i - Len(a)
    <3>2. Pieces(s)[i] = BlockAt(s, Len(a) + k)
      BY <1>4, <3>1
    <3>3. r[i] = q[k]
      BY <1>5, <3>1
    <3> HIDE DEF p, q, r, s, k
    <3>4. k \in 1..Len(b)
      BY <3>1 DEF k
    <3> QED
      BY <1>3, <1>7, <3>2, <3>3, <3>4, Zenon
  <2> QED
    BY <2>2, <2>3
<1>9. Pieces(s) = r
  <2> HIDE DEF r, s
  <2> QED
    BY <1>4, <1>5, <1>8, SameSequence
<1> HIDE DEF s, p, q, r
<1> QED
  BY <1>2, <1>3, <1>9, FlattenJoin DEF Base, r, s, p, q

\* What is on top of what.
LEMMA BaseEmpty == Base(<<>>) = <<>>
<1>1. Pieces(<<>>) = <<>>
  BY DEF Pieces
<1>2. <<>> \in Seq(Seq(Blk))
  OBVIOUS
<1>3. FlattenSeq(<<>>) = <<>>
  BY <1>2, FlattenIs, Zenon
<1> QED
  BY <1>1, <1>3 DEF Base

OneBlock(it) ==
    IF it.kind \in BlockKinds THEN <<it>>
    ELSE IF it.kind = "boundary" THEN <<LoopBlock(it, 0)>>
    ELSE <<>>

LEMMA OneItem ==
    ASSUME NEW E, NEW it \in E
    PROVE  <<it>> \in Seq(E) /\ Len(<<it>>) = 1 /\ <<it>>[1] = it /\ <<it>> # <<>>
OBVIOUS

LEMMA BaseOne ==
    ASSUME NEW it \in Items
    PROVE  Base(<<it>>) = OneBlock(it)
<1> DEFINE s == <<it>>
<1>1. s \in Seq(Items) /\ Len(s) = 1 /\ s[1] = it
  BY OneItem
<1>2. BlockAt(s, 1) = OneBlock(it)
  <2> HIDE DEF s
  <2>1. LeftOver(s, 1) = 0
    BY DEF LeftOver
  <2> QED
    BY <1>1, <2>1, Zenon DEF BlockAt, OneBlock
<1>3. Pieces(s) = <<OneBlock(it)>>
  <2>1. Pieces(s) = [i \in 1..1 |-> BlockAt(s, i)]
    BY <1>1 DEF Pieces
  <2> HIDE DEF s
  <2>2. <<OneBlock(it)>> = [i \in 1..1 |-> OneBlock(it)]
    OBVIOUS
  <2>3. \A i \in 1..1 : i = 1
    OBVIOUS
  <2> QED
    BY <1>2, <2>1, <2>2, <2>3, Zenon
<1>4. OneBlock(it) \in Seq(Blk)
  <2>1. 1 \in 1..Len(s)
    BY <1>1
  <2> QED
    BY <1>1, <1>2, <2>1, BlockAtType
<1> QED
  BY <1>3, <1>4, FlattenOne DEF Base

\* All but the body of a loop on its boundary.
LEMMA BaseOnTop ==
    ASSUME NEW it \in Items, NEW s \in Seq(Items),
           \/ it.kind # "loop" \/ it.left = 0
           \/ s = <<>> \/ s[1].kind # "boundary"
    PROVE  Base(<<it>> \o s) = OneBlock(it) \o Base(s)
<1> DEFINE a == <<it>>
<1>1. a \in Seq(Items) /\ Len(a) = 1 /\ a[1] = it /\ Base(a) = OneBlock(it)
  BY OneItem, BaseOne
<1> HIDE DEF a
<1>2. Seam(a, s)
  BY <1>1, Zenon DEF Seam
<1>3. Base(a \o s) = Base(a) \o Base(s)
  BY <1>1, <1>2, BaseJoin
<1> QED
  BY <1>1, <1>3 DEF a

LEMMA BodyOnTop ==
    ASSUME NEW it \in Items, it.kind = "loop",
           NEW bd \in Items, bd.kind = "boundary", NEW s \in Seq(Items)
    PROVE  Base(<<it, bd>> \o s) = <<LoopBlock(bd, it.left)>> \o Base(s)
<1> DEFINE a == <<it, bd>>
           b == LoopBlock(bd, it.left)
<1>1. /\ a \in Seq(Items) /\ Len(a) = 2 /\ a[1] = it /\ a[2] = bd
      /\ 1 \in 1..Len(a) /\ 2 \in 1..Len(a)
  OBVIOUS
<1>2. b \in Blk
  BY ItemsAre
<1>3. BlockAt(a, 1) = <<>>
  <2> HIDE DEF a
  <2>1. "loop" \notin BlockKinds
    BY DEF BlockKinds
  <2>2. "loop" # "boundary"
    OBVIOUS
  <2> QED
    BY <1>1, <2>1, <2>2, Zenon DEF BlockAt
<1>4. BlockAt(a, 2) = <<b>>
  <2>1. a[2 - 1] = it
    BY <1>1
  <2> HIDE DEF a
  <2>2. LeftOver(a, 2) = it.left
    BY <1>1, <2>1 DEF LeftOver
  <2>3. "boundary" \notin BlockKinds
    BY DEF BlockKinds
  <2> QED
    BY <1>1, <2>2, <2>3, Zenon DEF BlockAt
<1>5. Pieces(a) = <<<<>>>> \o <<<<b>>>>
  <2>1. Pieces(a) = [i \in 1..2 |-> BlockAt(a, i)]
    BY <1>1 DEF Pieces
  <2> HIDE DEF a, b
  <2>2. <<<<>>>> \o <<<<b>>>> = [i \in 1..2 |-> IF i = 1 THEN <<>> ELSE <<b>>]
    OBVIOUS
  <2>3. \A i \in 1..2 : i = 1 \/ i = 2
    OBVIOUS
  <2>4. \A i \in 1..2 : BlockAt(a, i) = IF i = 1 THEN <<>> ELSE <<b>>
    BY <1>3, <1>4, <2>3
  <2> QED
    BY <2>1, <2>2, <2>4, Zenon
<1>6. Base(a) = <<b>>
  <2> HIDE DEF a, b
  <2>1. <<<<>>>> \in Seq(Seq(Blk)) /\ <<<<b>>>> \in Seq(Seq(Blk))
    BY <1>2
  <2>2. <<>> \in Seq(Blk) /\ <<b>> \in Seq(Blk)
    BY <1>2
  <2>3. FlattenSeq(<<<<>>>>) = <<>> /\ FlattenSeq(<<<<b>>>>) = <<b>>
    BY <2>2, FlattenOne
  <2>4. FlattenSeq(<<<<>>>> \o <<<<b>>>>) = <<>> \o <<b>>
    BY <2>1, <2>3, FlattenJoin, ZenonT(30)
  <2>5. <<>> \o <<b>> = <<b>>
    OBVIOUS
  <2> QED
    BY <1>5, <2>4, <2>5, Zenon DEF Base
<1>7. Seam(a, s)
  BY <1>1 DEF Seam
<1> HIDE DEF a, b
<1>8. Base(a \o s) = Base(a) \o Base(s)
  BY <1>1, <1>7, BaseJoin
<1> QED
  BY <1>6, <1>8 DEF a, b

\* A stack in two parts.
LEMMA SplitAt ==
    ASSUME NEW s \in Seq(Items), NEW k \in 0..Len(s)
    PROVE  LET a == SubSeq(s, 1, k)
               b == FromTop(s, k + 1)
           IN  /\ a \in Seq(Items) /\ b \in Seq(Items) /\ s = a \o b
               /\ Len(a) = k /\ Len(b) = Len(s) - k
               /\ \A i \in 1..k : a[i] = s[i]
               /\ \A i \in 1..(Len(s) - k) : b[i] = s[k + i]
<1> DEFINE a == SubSeq(s, 1, k)
           b == FromTop(s, k + 1)
<1>0. Len(s) \in Nat /\ k \in Nat
  OBVIOUS
<1>1. /\ a \in Seq(Items) /\ Len(a) = k /\ \A i \in 1..k : a[i] = s[i]
  OBVIOUS
<1>2. /\ b \in Seq(Items) /\ Len(b) = Len(s) - k
      /\ \A i \in 1..(Len(s) - k) : b[i] = s[k + i]
  BY DEF FromTop
<1> HIDE DEF a, b
<1>3. /\ a \o b \in Seq(Items) /\ Len(a \o b) = Len(s)
      /\ \A i \in 1..k : (a \o b)[i] = s[i]
      /\ \A i \in 1..(Len(s) - k) : (a \o b)[k + i] = s[k + i]
  BY <1>0, <1>1, <1>2, ConcatIs
<1>4. \A i \in 1..Len(s) : (a \o b)[i] = s[i]
  <2>1. SUFFICES ASSUME NEW i \in 1..Len(s) PROVE (a \o b)[i] = s[i]
    OBVIOUS
  <2>2. CASE i \in 1..k
    BY <1>3, <2>2
  <2>3. CASE i \notin 1..k
    <3>1. i - k \in 1..(Len(s) - k) /\ k + (i - k) = i
      BY <1>0, <2>3
    <3> QED
      BY <1>3, <3>1
  <2> QED
    BY <2>2, <2>3
<1>5. a \o b = s
  <2> DEFINE c == a \o b
  <2>1. c \in Seq(Items) /\ Len(c) = Len(s) /\ \A i \in 1..Len(s) : c[i] = s[i]
    BY <1>3, <1>4
  <2> HIDE DEF c
  <2>2. c = s
    BY <2>1, SameSequence
  <2> QED
    BY <2>2 DEF c
<1> QED
  BY <1>1, <1>2, <1>5 DEF a, b

LEMMA BaseSplit ==
    ASSUME NEW s \in Seq(Items), NEW k \in 0..Len(s),
           \/ k = 0 \/ k = Len(s)
           \/ s[k].kind # "loop" \/ s[k].left = 0
           \/ s[k + 1].kind # "boundary"
    PROVE  Base(s) = Base(SubSeq(s, 1, k)) \o Base(FromTop(s, k + 1))
<1> DEFINE a == SubSeq(s, 1, k)
           b == FromTop(s, k + 1)
<1>1. /\ a \in Seq(Items) /\ b \in Seq(Items) /\ s = a \o b
      /\ Len(a) = k /\ Len(b) = Len(s) - k
      /\ \A i \in 1..k : a[i] = s[i]
      /\ \A i \in 1..(Len(s) - k) : b[i] = s[k + i]
  BY SplitAt
<1>2. Len(s) \in Nat /\ k \in Nat
  OBVIOUS
<1> HIDE DEF a, b
<1>3. Seam(a, b)
  <2>1. CASE k = 0
    BY <1>1, <2>1 DEF Seam
  <2>2. CASE k = Len(s)
    BY <1>1, <1>2, <2>2 DEF Seam
  <2>3. CASE k # 0 /\ k # Len(s)
    BY <1>2, <2>3, <1>1 DEF Seam
  <2> QED
    BY <2>1, <2>2, <2>3
<1>4. Base(a \o b) = Base(a) \o Base(b)
  BY <1>1, <1>3, BaseJoin
<1> QED
  BY <1>1, <1>4 DEF a, b

-----------------------------------------------------------------------------
\* The searches of the abstract specification.

LEMMA FromIs ==
    ASSUME NEW c \in Seq(Blk), NEW d \in Seq(Blk)
    PROVE  /\ Promise!From(c \o d, Len(c) + 1) = d
           /\ d # <<>> => Promise!From(c \o d, (Len(c) + 1) + 1) = Tail(d)
<1> DEFINE b == c \o d
           m == Len(c)
           n == Len(d)
<1>1. /\ b \in Seq(Blk) /\ Len(b) = m + n /\ m \in Nat /\ n \in Nat
      /\ \A i \in 1..n : b[m + i] = d[i]
  BY ConcatIs
<1> HIDE DEF b, m, n
<1>2. Promise!From(b, m + 1) = d
  <2> DEFINE e == SubSeq(b, m + 1, m + n)
  <2>1. e \in Seq(Blk) /\ Len(e) = n /\ \A i \in 1..n : e[i] = b[m + i]
    BY <1>1
  <2> HIDE DEF e
  <2>2. Len(d) = n
    BY DEF n
  <2>3. e = d
    BY <1>1, <2>1, <2>2, SameSequence
  <2> QED
    BY <1>1, <2>3 DEF Promise!From, e
<1>3. ASSUME d # <<>> PROVE Promise!From(b, (m + 1) + 1) = Tail(d)
  <2> DEFINE e == SubSeq(b, (m + 1) + 1, m + n)
             t == Tail(d)
  <2>0. n > 0
    BY <1>3 DEF n
  <2>1. e \in Seq(Blk) /\ Len(e) = n - 1
        /\ \A i \in 1..(n - 1) : e[i] = b[m + (i + 1)]
    BY <1>1, <2>0
  <2>2. t \in Seq(Blk) /\ Len(t) = n - 1 /\ \A i \in 1..(n - 1) : t[i] = d[i + 1]
    BY <1>3 DEF n
  <2>3. \A i \in 1..(n - 1) : i + 1 \in 1..n
    BY <1>1
  <2> HIDE DEF e, t
  <2>4. \A i \in 1..(n - 1) : e[i] = t[i]
    BY <1>1, <2>1, <2>2, <2>3, Zenon
  <2>5. e = t
    BY <2>1, <2>2, <2>4, SameSequence
  <2> QED
    BY <1>1, <2>5 DEF Promise!From, e, t
<1> QED
  BY <1>2, <1>3 DEF b, m

LEMMA FirstOfIs ==
    ASSUME NEW c \in Seq(Blk), NEW d \in Seq(Blk), NEW kind,
           \A i \in 1..Len(c) : c[i].kind # kind,
           d # <<>> => d[1].kind = kind
    PROVE  Promise!FirstOf(c \o d, kind) = Len(c) + 1
<1> DEFINE b == c \o d
           m == Len(c)
           n == Len(d)
           Is(i) == /\ i <= Len(b) => b[i].kind = kind
                    /\ \A j \in 1..(i - 1) : b[j].kind # kind
<1>1. /\ b \in Seq(Blk) /\ Len(b) = m + n /\ m \in Nat /\ n \in Nat
      /\ \A i \in 1..m : b[i] = c[i]
      /\ \A i \in 1..n : b[m + i] = d[i]
  BY ConcatIs
<1>2. d = <<>> <=> n = 0
  OBVIOUS
<1> HIDE DEF b, m, n
<1>3. m + 1 \in 1..(Len(b) + 1) /\ (m + 1) - 1 = m
  BY <1>1
<1>4. m + 1 <= Len(b) => b[m + 1].kind = kind
  <2>1. SUFFICES ASSUME m + 1 <= Len(b) PROVE b[m + 1].kind = kind
    OBVIOUS
  <2>2. 1 \in 1..n /\ n # 0
    BY <1>1, <2>1
  <2> QED
    BY <1>1, <1>2, <2>2
<1>5. \A j \in 1..m : b[j].kind # kind
  BY <1>1 DEF m
<1>6. Is(m + 1)
  BY <1>3, <1>4, <1>5, Zenon
<1>7. ASSUME NEW i \in 1..(Len(b) + 1), Is(i) PROVE i = m + 1
  <2>1. CASE i < m + 1
    BY <1>1, <2>1, <1>5, <1>7
  <2>2. CASE i > m + 1
    BY <1>1, <2>2, <1>4, <1>7
  <2> QED
    BY <1>1, <2>1, <2>2
<1>8. Promise!FirstOf(b, kind) = CHOOSE i \in 1..(Len(b) + 1) : Is(i)
  BY DEF Promise!FirstOf
<1> HIDE DEF Is
<1>9. Promise!FirstOf(b, kind) = m + 1
  BY <1>3, <1>6, <1>7, <1>8
<1> QED
  BY <1>9 DEF b, m

\* The innermost blocks may be left when they were read.
Done == {x \in Blk : x.kind # "loop" /\ x.left = 0}

LEMMA LeftIs ==
    ASSUME NEW c \in Seq(Done), NEW d \in Seq(Blk)
    PROVE  d \in Promise!Left(c \o d)
<1> DEFINE b == c \o d
           m == Len(c)
<1>0. c \in Seq(Blk)
  BY DEF Done
<1>1. /\ b \in Seq(Blk) /\ Len(b) = m + Len(d) /\ m \in Nat /\ Len(d) \in Nat
      /\ \A i \in 1..m : b[i] = c[i]
  BY <1>0, ConcatIs
<1>2. Promise!From(b, m + 1) = d
  BY <1>0, FromIs
<1>3. \A i \in 1..m : c[i] \in Done
  BY ElementOf
<1> HIDE DEF b, m
<1>4. m + 1 \in 1..(Len(b) + 1) /\ (m + 1) - 1 = m
  BY <1>1
<1>5. \A k \in 1..((m + 1) - 1) : Promise!IsRead(b[k])
  BY <1>1, <1>3, <1>4 DEF Promise!IsRead, Done
<1> DEFINE J == {j \in 1..(Len(b) + 1) : \A k \in 1..(j - 1) : Promise!IsRead(b[k])}
<1>6. m + 1 \in J
  BY <1>4, <1>5
<1>7. Promise!Left(b) = {Promise!From(b, i) : i \in J}
  BY DEF Promise!Left
<1> HIDE DEF J
<1>8. d \in Promise!Left(b)
  BY <1>2, <1>6, <1>7
<1> QED
  BY <1>8 DEF b

LEMMA LeftWhole ==
    ASSUME NEW b \in Seq(Blk)
    PROVE  b \in Promise!Left(b)
<1>1. <<>> \in Seq(Done) /\ <<>> \o b = b
  OBVIOUS
<1> QED
  BY <1>1, LeftIs

-----------------------------------------------------------------------------
\* What is read, popped or put aside: the blocks and the boundaries.

\* What is popped because it was read.
LEMMA BaseRead ==
    ASSUME NEW a \in Seq(Items), \A i \in 1..Len(a) : ~Stops(a[i])
    PROVE  /\ Base(a) \in Seq(Done)
           /\ \A i \in 1..Len(a) : a[i].left = 0 /\ a[i].kind \in Texts
<1>1. ASSUME NEW i \in 1..Len(a)
      PROVE  /\ BlockAt(a, i) \in Seq(Done)
             /\ a[i].left = 0 /\ a[i].kind \in Texts
  <2>1. a[i] \in Items
    BY ElementOf
  <2>2. a[i].left = 0 /\ a[i].kind \notin Barriers
    BY <2>1, ItemsAre DEF Stops, IsBoundary, Barriers
  <2>3. a[i].kind \in Texts
    BY <2>1, <2>2, ItemsAre
  <2>4. a[i].kind \in BlockKinds => a[i] \in Done
    BY <2>1, <2>2, ItemsAre DEF Done, BlockKinds
  <2>5. BlockAt(a, i) \in Seq(Done)
    BY <2>2, <2>4 DEF Barriers, BlockAt
  <2> QED
    BY <2>2, <2>3, <2>5
<1> QED
  BY <1>1, PiecesIn

LEMMA BaseUnread ==
    ASSUME NEW s \in Seq(Items)
    PROVE  /\ Unread(s) \in Seq(Items)
           /\ Base(Unread(s)) \in Promise!Left(Base(s))
<1> DEFINE k == StopAt(s) - 1
           a == SubSeq(s, 1, k)
           b == FromTop(s, k + 1)
<1>1. /\ StopAt(s) \in 1..(Len(s) + 1)
      /\ \A j \in 1..(StopAt(s) - 1) : ~Stops(s[j])
  BY StopFound
<1>2. Len(s) \in Nat /\ StopAt(s) \in Nat
  BY <1>1
<1>3. k \in 0..Len(s) /\ k + 1 = StopAt(s)
  BY <1>1, <1>2
<1>4. Unread(s) = b
  BY <1>3 DEF Unread, StopAt
<1>5. \A j \in 1..k : ~Stops(s[j])
  BY <1>1
<1> HIDE DEF k
<1>6. /\ a \in Seq(Items) /\ b \in Seq(Items) /\ Len(a) = k
      /\ \A i \in 1..k : a[i] = s[i]
  BY <1>3, SplitAt
<1>7. \A i \in 1..Len(a) : ~Stops(a[i])
  BY <1>5, <1>6
<1>8. /\ Base(a) \in Seq(Done)
      /\ \A i \in 1..Len(a) : a[i].left = 0 /\ a[i].kind \in Texts
  BY <1>6, <1>7, BaseRead
<1>9. k = 0 \/ s[k].left = 0
  BY <1>3, <1>6, <1>8
<1>10. Base(s) = Base(a) \o Base(b)
  BY <1>3, <1>9, BaseSplit
<1>11. Base(b) \in Seq(Blk)
  BY <1>6, PiecesType
<1> HIDE DEF a, b
<1> QED
  BY <1>4, <1>6, <1>8, <1>10, <1>11, LeftIs

LEMMA NoStop ==
    ASSUME NEW s \in Seq(Items), s = <<>> \/ Stops(s[1])
    PROVE  Unread(s) = s
<1>1. /\ StopAt(s) \in 1..(Len(s) + 1)
      /\ \A j \in 1..(StopAt(s) - 1) : ~Stops(s[j])
  BY StopFound
<1>2. StopAt(s) = 1
  <2>1. CASE s = <<>>
    BY <1>1, <2>1
  <2>2. CASE s # <<>> /\ Stops(s[1])
    BY <1>1, <2>2
  <2> QED
    BY <2>1, <2>2
<1> QED
  BY <1>2, WholeIsAll DEF Unread, StopAt

-----------------------------------------------------------------------------
\* The boundaries on a stack, from its top.
WallAt(s, i) == IF s[i].kind \in Barriers THEN <<s[i]>> ELSE <<>>
WallPieces(s) == [i \in 1..Len(s) |-> WallAt(s, i)]
Walls(s) == FlattenSeq(WallPieces(s))

LEMMA WallsIn ==
    ASSUME NEW s \in Seq(Items), NEW T,
           \A i \in 1..Len(s) : WallAt(s, i) \in Seq(T)
    PROVE  WallPieces(s) \in Seq(Seq(T)) /\ Walls(s) \in Seq(T)
<1>1. Len(s) \in Nat
  OBVIOUS
<1>2. WallPieces(s) \in [1..Len(s) -> Seq(T)]
  BY DEF WallPieces
<1>3. WallPieces(s) \in Seq(Seq(T))
  BY <1>1, <1>2
<1> QED
  BY <1>3, FlattenIn DEF Walls

Wall == {it \in Items : it.kind \in Barriers}

LEMMA WallsType ==
    ASSUME NEW s \in Seq(Items)
    PROVE  /\ WallPieces(s) \in Seq(Seq(Wall)) /\ Walls(s) \in Seq(Wall)
           /\ Len(WallPieces(s)) = Len(s)
           /\ \A i \in 1..Len(s) : WallPieces(s)[i] = WallAt(s, i)
<1>1. ASSUME NEW i \in 1..Len(s) PROVE WallAt(s, i) \in Seq(Wall)
  <2>1. s[i] \in Items
    BY ElementOf
  <2>2. s[i].kind \in Barriers => s[i] \in Wall
    BY <2>1 DEF Wall
  <2> QED
    BY <2>2 DEF WallAt
<1>2. WallPieces(s) \in Seq(Seq(Wall)) /\ Walls(s) \in Seq(Wall)
  BY <1>1, WallsIn
<1>3. Len(s) \in Nat
  OBVIOUS
<1>4. Len(WallPieces(s)) = Len(s)
  BY <1>2, <1>3 DEF WallPieces
<1>5. \A i \in 1..Len(s) : WallPieces(s)[i] = WallAt(s, i)
  BY DEF WallPieces
<1> QED
  BY <1>2, <1>4, <1>5, Zenon

LEMMA NoWalls ==
    ASSUME NEW s \in Seq(Items), \A i \in 1..Len(s) : s[i].kind \notin Barriers
    PROVE  Walls(s) = <<>>
<1>1. \A i \in 1..Len(s) : WallAt(s, i) = <<>>
  BY DEF WallAt
<1>2. \A i \in 1..Len(s) : WallAt(s, i) \in Seq({})
  <2>1. <<>> \in Seq({})
    OBVIOUS
  <2> QED
    BY <1>1, <2>1, Zenon
<1>3. Walls(s) \in Seq({})
  BY <1>2, WallsIn
<1>4. Walls(s) = <<>>
  <2> DEFINE w == Walls(s)
  <2>1. w \in Seq({})
    BY <1>3
  <2> HIDE DEF w
  <2>2. Len(w) = 0
    <3>1. SUFFICES ASSUME Len(w) > 0 PROVE FALSE
      BY <2>1
    <3>2. 1 \in 1..Len(w)
      BY <2>1, <3>1
    <3>3. w[1] \in {}
      BY <2>1, <3>2, ElementOf
    <3> QED
      BY <3>3
  <2>3. w = <<>>
    BY <2>1, <2>2
  <2> QED
    BY <2>3 DEF w
<1> QED
  BY <1>4

LEMMA WallsJoin ==
    ASSUME NEW a \in Seq(Items), NEW b \in Seq(Items)
    PROVE  Walls(a \o b) = Walls(a) \o Walls(b)
<1> DEFINE s == a \o b
           p == WallPieces(a)
           q == WallPieces(b)
           r == p \o q
<1>1. /\ s \in Seq(Items) /\ Len(s) = Len(a) + Len(b)
      /\ Len(a) \in Nat /\ Len(b) \in Nat
      /\ \A i \in 1..Len(a) : s[i] = a[i]
      /\ \A i \in 1..Len(b) : s[Len(a) + i] = b[i]
  BY ConcatIs
<1>2. /\ p \in Seq(Seq(Wall)) /\ Len(p) = Len(a)
      /\ \A i \in 1..Len(a) : p[i] = WallAt(a, i)
  BY WallsType
<1>3. /\ q \in Seq(Seq(Wall)) /\ Len(q) = Len(b)
      /\ \A i \in 1..Len(b) : q[i] = WallAt(b, i)
  BY WallsType
<1>4. /\ WallPieces(s) \in Seq(Seq(Wall)) /\ Len(WallPieces(s)) = Len(s)
      /\ \A i \in 1..Len(s) : WallPieces(s)[i] = WallAt(s, i)
  BY <1>1, WallsType
<1>5. /\ r \in Seq(Seq(Wall)) /\ Len(r) = Len(s)
      /\ \A i \in 1..Len(a) : r[i] = p[i]
      /\ \A i \in 1..Len(b) : r[Len(a) + i] = q[i]
  <2> HIDE DEF p, q, s
  <2>1. /\ r \in Seq(Seq(Wall)) /\ Len(r) = Len(p) + Len(q)
        /\ \A i \in 1..Len(p) : r[i] = p[i]
        /\ \A i \in 1..Len(q) : r[Len(p) + i] = q[i]
    <3>1. p \in Seq(Seq(Wall)) /\ q \in Seq(Seq(Wall))
      BY <1>2, <1>3
    <3> QED
      BY <3>1, ConcatIs
  <2> HIDE DEF r
  <2> QED
    BY <1>1, <1>2, <1>3, <2>1, Zenon
<1>6. \A i \in 1..Len(a) : WallAt(s, i) = WallAt(a, i)
  <2> HIDE DEF s
  <2> QED
    BY <1>1 DEF WallAt
<1>7. \A i \in 1..Len(b) : WallAt(s, Len(a) + i) = WallAt(b, i)
  <2> HIDE DEF s
  <2> QED
    BY <1>1 DEF WallAt
<1>8. \A i \in 1..Len(s) : WallPieces(s)[i] = r[i]
  <2>1. SUFFICES ASSUME NEW i \in 1..Len(s) PROVE WallPieces(s)[i] = r[i]
    OBVIOUS
  <2>2. CASE i \in 1..Len(a)
    <3> HIDE DEF p, q, r, s
    <3> QED
      BY <1>2, <1>4, <1>5, <1>6, <2>1, <2>2, Zenon
  <2>3. CASE i \notin 1..Len(a)
    <3>1. i - Len(a) \in 1..Len(b) /\ Len(a) + (i - Len(a)) = i
      BY <1>1, <2>3
    <3> DEFINE k == i - Len(a)
    <3>2. WallPieces(s)[i] = WallAt(s, Len(a) + k)
      BY <1>4, <3>1
    <3>3. r[i] = q[k]
      BY <1>5, <3>1
    <3> HIDE DEF p, q, r, s, k
    <3>4. k \in 1..Len(b)
      BY <3>1 DEF k
    <3> QED
      BY <1>3, <1>7, <3>2, <3>3, <3>4, Zenon
  <2> QED
    BY <2>2, <2>3
<1>9. WallPieces(s) = r
  <2> HIDE DEF r, s
  <2> QED
    BY <1>4, <1>5, <1>8, SameSequence
<1> HIDE DEF s, p, q, r
<1> QED
  BY <1>2, <1>3, <1>9, FlattenJoin DEF Walls, r, s, p, q

LEMMA OneMore ==
    ASSUME NEW E, NEW a \in Seq(E), NEW x \in E
    PROVE  /\ a \o <<x>> \in Seq(E) /\ Len(a \o <<x>>) = Len(a) + 1
           /\ \A i \in 1..Len(a) : (a \o <<x>>)[i] = a[i]
           /\ (a \o <<x>>)[Len(a) + 1] = x
OBVIOUS

LEMMA SameTail ==
    ASSUME NEW E, NEW a \in Seq(E), NEW d \in Seq(E), NEW e \in Seq(E),
           a \o d = a \o e
    PROVE  d = e
<1>1. Len(a \o d) = Len(a) + Len(d) /\ Len(a) \in Nat /\ Len(d) \in Nat
  OBVIOUS
<1>2. Len(a \o e) = Len(a) + Len(e) /\ Len(e) \in Nat
  OBVIOUS
<1>3. Len(d) = Len(e)
  BY <1>1, <1>2
<1>4. \A j \in 1..Len(d) : (a \o d)[Len(a) + j] = d[j]
  BY ConcatIs
<1>5. \A j \in 1..Len(e) : (a \o e)[Len(a) + j] = e[j]
  BY ConcatIs
<1>6. \A j \in 1..Len(d) : d[j] = e[j]
  BY <1>3, <1>4, <1>5, Zenon
<1> QED
  BY <1>3, <1>6, SameSequence

\* The blocks of a stack on both sides of an iterator.
LEMMA BaseLast ==
    ASSUME NEW a \in Seq(Items), NEW x \in Items
    PROVE  LET s == a \o <<x>>
           IN  Base(s) = Base(a) \o BlockAt(s, Len(a) + 1)
<1> DEFINE s == a \o <<x>>
           y == BlockAt(s, Len(a) + 1)
           p == Pieces(a)
           q == <<y>>
           r == p \o q
<1>1. <<x>> \in Seq(Items) /\ Len(<<x>>) = 1 /\ <<x>>[1] = x
  BY OneItem
<1>2. /\ s \in Seq(Items) /\ Len(s) = Len(a) + 1 /\ Len(a) \in Nat
  BY <1>1, ConcatIs
<1>3. Len(a) + 1 \in 1..Len(s)
  BY <1>2
<1>4. y \in Seq(Blk)
  BY <1>2, <1>3, BlockAtType
<1>5. /\ p \in Seq(Seq(Blk)) /\ Len(p) = Len(a)
      /\ \A i \in 1..Len(a) : p[i] = BlockAt(a, i)
  BY PiecesType
<1>6. q \in Seq(Seq(Blk)) /\ Len(q) = 1 /\ q[1] = y /\ FlattenSeq(q) = y
  BY <1>4, OneItem, FlattenOne
<1>7. \A i \in 1..Len(a) : BlockAt(s, i) = BlockAt(a, i)
  BY <1>1, BlockAtTop
<1>8. /\ Pieces(s) \in Seq(Seq(Blk)) /\ Len(Pieces(s)) = Len(s)
      /\ \A i \in 1..Len(s) : Pieces(s)[i] = BlockAt(s, i)
  BY <1>2, PiecesType
<1> HIDE DEF s, p, q
<1> HIDE DEF y
<1>9. /\ r \in Seq(Seq(Blk)) /\ Len(r) = Len(p) + 1
      /\ \A i \in 1..Len(p) : r[i] = p[i]
      /\ r[Len(p) + 1] = y
  <2>1. p \in Seq(Seq(Blk)) /\ y \in Seq(Blk)
    BY <1>4, <1>5
  <2> DEFINE T == Seq(Blk)
  <2> HIDE DEF T
  <2>2. p \in Seq(T) /\ y \in T
    BY <2>1 DEF T
  <2>3. /\ p \o <<y>> \in Seq(T) /\ Len(p \o <<y>>) = Len(p) + 1
        /\ \A i \in 1..Len(p) : (p \o <<y>>)[i] = p[i]
        /\ (p \o <<y>>)[Len(p) + 1] = y
    BY <2>2, OneMore
  <2> QED
    BY <2>3 DEF T, q
<1> HIDE DEF r
<1>10. \A i \in 1..Len(s) : Pieces(s)[i] = r[i]
  <2>1. SUFFICES ASSUME NEW i \in 1..Len(s) PROVE Pieces(s)[i] = r[i]
    OBVIOUS
  <2>2. CASE i \in 1..Len(a)
    BY <1>5, <1>7, <1>8, <1>9, <2>1, <2>2, Zenon
  <2>3. CASE i \notin 1..Len(a)
    BY <1>2, <2>3, <1>5, <1>9, <1>8 DEF y
  <2> QED
    BY <2>2, <2>3
<1>11. Pieces(s) = r
  BY <1>2, <1>5, <1>6, <1>9, <1>8, <1>10, SameSequence
<1>12. Base(s) = Base(a) \o y
  BY <1>5, <1>6, <1>11, FlattenJoin DEF Base, r, p
<1> QED
  BY <1>12 DEF s, y

LEMMA SplitAround ==
    ASSUME NEW s \in Seq(Items), NEW i \in 1..Len(s)
    PROVE  LET a == SubSeq(s, 1, i - 1)
               b == FromTop(s, i + 1)
           IN  /\ a \in Seq(Items) /\ b \in Seq(Items) /\ s[i] \in Items
               /\ s = (a \o <<s[i]>>) \o b /\ s = a \o (<<s[i]>> \o b)
               /\ FromTop(s, i) = <<s[i]>> \o b
               /\ Len(a) = i - 1 /\ Len(b) = Len(s) - i
               /\ \A j \in 1..(i - 1) : a[j] = s[j]
               /\ \A j \in 1..(Len(s) - i) : b[j] = s[i + j]
<1> DEFINE a == SubSeq(s, 1, i - 1)
           b == FromTop(s, i + 1)
           x == s[i]
           c == SubSeq(s, 1, i)
           d == FromTop(s, (i - 1) + 1)
<1>0. Len(s) \in Nat /\ i \in Nat /\ i - 1 \in 0..Len(s) /\ i \in 0..Len(s)
  OBVIOUS
<1>1. /\ c \in Seq(Items) /\ b \in Seq(Items) /\ s = c \o b
      /\ Len(c) = i /\ Len(b) = Len(s) - i
      /\ \A j \in 1..i : c[j] = s[j]
      /\ \A j \in 1..(Len(s) - i) : b[j] = s[i + j]
  BY <1>0, SplitAt
<1>2. /\ a \in Seq(Items) /\ d \in Seq(Items) /\ s = a \o d
      /\ Len(a) = i - 1
      /\ \A j \in 1..(i - 1) : a[j] = s[j]
  BY <1>0, SplitAt
<1>3. x \in Items
  BY ElementOf
<1>4. (i - 1) + 1 = i
  BY <1>0
<1>5. d = FromTop(s, i)
  BY <1>4
<1> HIDE DEF a, b, c, d, x
<1>6. c = a \o <<x>>
  <2> DEFINE e == a \o <<x>>
  <2>2. /\ e \in Seq(Items) /\ Len(e) = Len(a) + 1
        /\ \A j \in 1..Len(a) : e[j] = a[j]
        /\ e[Len(a) + 1] = x
    BY <1>2, <1>3, OneMore
  <2>3. Len(e) = i /\ e[i] = x
    BY <1>2, <1>4, <2>2, Zenon
  <2> HIDE DEF e
  <2>4. \A j \in 1..i : e[j] = c[j]
    <3>1. \A j \in 1..i : j \in 1..(i - 1) \/ j = i
      BY <1>0
    <3>2. \A j \in 1..(i - 1) : e[j] = s[j]
      BY <1>2, <2>2, Zenon
    <3>3. e[i] = s[i]
      BY <2>3 DEF x
    <3> QED
      BY <1>1, <3>1, <3>2, <3>3, Zenon
  <2>5. c = e
    BY <1>1, <2>2, <2>3, <2>4, SameSequence
  <2> QED
    BY <2>5 DEF e
<1>7. (a \o <<x>>) \o b = a \o (<<x>> \o b)
  BY <1>1, <1>2, <1>3
<1>8. d = <<x>> \o b
  <2>1. a \o d = a \o (<<x>> \o b)
    BY <1>1, <1>2, <1>6, <1>7
  <2> DEFINE e == <<x>> \o b
  <2>2. e \in Seq(Items)
    BY <1>1, <1>3
  <2> HIDE DEF e
  <2>3. a \o d = a \o e
    BY <2>1 DEF e
  <2>6. d = e
    BY <1>2, <2>2, <2>3, SameTail
  <2> QED
    BY <2>6 DEF e
<1>9. /\ s = (a \o <<x>>) \o b /\ s = a \o (<<x>> \o b)
  BY <1>1, <1>6, <1>7, Zenon
<1> QED
  BY <1>1, <1>2, <1>3, <1>5, <1>8, <1>9, Zenon DEF a, b, x

LEMMA BaseAround ==
    ASSUME NEW s \in Seq(Items), NEW i \in 1..Len(s), s[i].kind # "loop"
    PROVE  Base(s) = Base(SubSeq(s, 1, i - 1))
                         \o (BlockAt(s, i) \o Base(FromTop(s, i + 1)))
<1> DEFINE a == SubSeq(s, 1, i - 1)
           b == FromTop(s, i + 1)
           x == s[i]
           c == a \o <<x>>
<1>0. Len(s) \in Nat /\ i \in Nat /\ (i - 1) + 1 = i
  OBVIOUS
<1>1. /\ a \in Seq(Items) /\ b \in Seq(Items) /\ x \in Items
      /\ s = c \o b /\ Len(a) = i - 1
  BY SplitAround
<1> HIDE DEF a, b, x
<1>3. c \in Seq(Items) /\ Len(c) = Len(a) + 1 /\ c[Len(a) + 1] = x
  BY <1>1, OneMore
<1>4. Len(c) = i /\ c[i] = x
  BY <1>0, <1>1, <1>3, Zenon
<1>5. Base(c) = Base(a) \o BlockAt(c, Len(a) + 1)
  BY <1>1, BaseLast
<1> HIDE DEF c
<1>6. Seam(c, b)
  BY <1>4 DEF Seam, x
<1>7. Base(c \o b) = Base(c) \o Base(b)
  BY <1>1, <1>3, <1>6, BaseJoin
<1>8. BlockAt(s, i) = BlockAt(c, i)
  BY <1>0, <1>4, <1>1, <1>3, BlockAtTop
<1>9. Base(s) = (Base(a) \o BlockAt(s, i)) \o Base(b)
  BY <1>0, <1>1, <1>5, <1>7, <1>8
<1>10. Base(a) \in Seq(Blk) /\ Base(b) \in Seq(Blk) /\ BlockAt(s, i) \in Seq(Blk)
  BY <1>1, PiecesType, BlockAtType
<1>11. (Base(a) \o BlockAt(s, i)) \o Base(b) = Base(a) \o (BlockAt(s, i) \o Base(b))
  BY <1>10, SMTT(30)
<1> QED
  BY <1>9, <1>11, Zenon DEF a, b

\* There are no blocks of a kind where there are no iterators of it.
LEMMA BaseLacks ==
    ASSUME NEW a \in Seq(Items), NEW kind \in BlockKinds \cup {"loop"},
           \A j \in 1..Len(a) :
               a[j].kind # (IF kind = "loop" THEN "boundary" ELSE kind)
    PROVE  \A j \in 1..Len(Base(a)) : Base(a)[j].kind # kind
<1> DEFINE T == {x \in Blk : x.kind # kind}
<1>1. ASSUME NEW i \in 1..Len(a) PROVE BlockAt(a, i) \in Seq(T)
  <2>1. a[i] \in Items
    BY ElementOf
  <2>2. CASE a[i].kind \in BlockKinds
    BY <2>1, <2>2, ItemsAre DEF BlockKinds, BlockAt
  <2>3. CASE a[i].kind = "boundary"
    <3> DEFINE y == LoopBlock(a[i], LeftOver(a, i))
    <3>1. y \in Blk
      BY <2>1, LeftOverNat, ItemsAre
    <3>2. y.kind = "loop"
      BY <2>1 DEF LoopBlock, Items
    <3>3. kind # "loop"
      BY <2>3
    <3>4. BlockAt(a, i) = <<y>>
      BY <2>3 DEF BlockAt, BlockKinds
    <3> HIDE DEF y
    <3>5. y \in T
      BY <3>1, <3>2, <3>3
    <3> QED
      BY <3>4, <3>5
  <2>4. CASE a[i].kind \notin BlockKinds /\ a[i].kind # "boundary"
    BY <2>4 DEF BlockAt
  <2> QED
    BY <2>2, <2>3, <2>4
<1> HIDE DEF T
<1>2. Base(a) \in Seq(T)
  BY <1>1, PiecesIn
<1>3. \A j \in 1..Len(Base(a)) : Base(a)[j] \in T
  BY <1>2, ElementOf
<1> QED
  BY <1>3 DEF T

LEMMA TopOf ==
    ASSUME NEW E, NEW s \in Seq(E), s # <<>>
    PROVE  /\ s[1] \in E /\ Tail(s) \in Seq(E) /\ s = <<s[1]>> \o Tail(s)
           /\ Len(Tail(s)) = Len(s) - 1 /\ Len(s) \in Nat \ {0}
           /\ \A i \in 1..(Len(s) - 1) : Tail(s)[i] = s[i + 1]
<1>1. s[1] \in E /\ Tail(s) \in Seq(E) /\ Len(Tail(s)) = Len(s) - 1
  OBVIOUS
<1>2. Len(s) \in Nat \ {0} /\ \A i \in 1..(Len(s) - 1) : Tail(s)[i] = s[i + 1]
  OBVIOUS
<1>3. s = <<s[1]>> \o Tail(s)
  OBVIOUS
<1> QED
  BY <1>1, <1>2, <1>3

LEMMA OnTopOf ==
    ASSUME NEW E, NEW x \in E, NEW s \in Seq(E)
    PROVE  /\ <<x>> \o s \in Seq(E) /\ Len(<<x>> \o s) = Len(s) + 1
           /\ (<<x>> \o s)[1] = x /\ Tail(<<x>> \o s) = s
           /\ <<x>> \o s # <<>>
           /\ \A i \in 1..Len(s) : (<<x>> \o s)[i + 1] = s[i]
<1>1. <<x>> \o s \in Seq(E) /\ Len(<<x>> \o s) = Len(s) + 1
  OBVIOUS
<1>2. (<<x>> \o s)[1] = x /\ \A i \in 1..Len(s) : (<<x>> \o s)[i + 1] = s[i]
  OBVIOUS
<1>3. Tail(<<x>> \o s) = s
  OBVIOUS
<1>4. <<x>> \o s # <<>>
  BY <1>1
<1> QED
  BY <1>1, <1>2, <1>3, <1>4

LEMMA WallsSame ==
    ASSUME NEW s \in Seq(Items), NEW t \in Seq(Items), Len(s) = Len(t),
           \A i \in 1..Len(s) : WallAt(s, i) = WallAt(t, i)
    PROVE  Walls(s) = Walls(t)
<1>1. WallPieces(s) = WallPieces(t)
  BY Zenon DEF WallPieces
<1> QED
  BY <1>1 DEF Walls

OneWall(it) == IF it.kind \in Barriers THEN <<it>> ELSE <<>>

LEMMA WallsOne ==
    ASSUME NEW it \in Items
    PROVE  Walls(<<it>>) = OneWall(it) /\ OneWall(it) \in Seq(Wall)
<1> DEFINE s == <<it>>
<1>1. s \in Seq(Items) /\ Len(s) = 1 /\ s[1] = it
  BY OneItem
<1>2. WallAt(s, 1) = OneWall(it)
  <2> HIDE DEF s
  <2> QED
    BY <1>1, Zenon DEF WallAt, OneWall
<1>3. WallPieces(s) = <<OneWall(it)>>
  <2>1. WallPieces(s) = [i \in 1..1 |-> WallAt(s, i)]
    BY <1>1 DEF WallPieces
  <2> HIDE DEF s
  <2>2. <<OneWall(it)>> = [i \in 1..1 |-> OneWall(it)]
    OBVIOUS
  <2>3. \A i \in 1..1 : i = 1
    OBVIOUS
  <2> QED
    BY <1>2, <2>1, <2>2, <2>3, Zenon
<1>4. OneWall(it) \in Seq(Wall)
  <2>1. CASE it.kind \in Barriers
    BY <2>1, OneItem DEF Wall, OneWall
  <2>2. CASE it.kind \notin Barriers
    BY <2>2 DEF OneWall
  <2> QED
    BY <2>1, <2>2
<1> QED
  BY <1>3, <1>4, FlattenOne DEF Walls

LEMMA WallsOnTop ==
    ASSUME NEW it \in Items, NEW s \in Seq(Items)
    PROVE  Walls(<<it>> \o s) = OneWall(it) \o Walls(s)
<1>1. <<it>> \in Seq(Items)
  BY OneItem
<1>2. Walls(<<it>> \o s) = Walls(<<it>>) \o Walls(s)
  BY <1>1, WallsJoin
<1> QED
  BY <1>2, WallsOne

LEMMA WallsText ==
    ASSUME NEW it \in Items, it.kind \notin Barriers, NEW s \in Seq(Items)
    PROVE  Walls(<<it>> \o s) = Walls(s)
<1>1. Walls(<<it>> \o s) = <<>> \o Walls(s)
  BY WallsOnTop DEF OneWall
<1>2. Walls(s) \in Seq(Wall)
  BY WallsType
<1>3. <<>> \o Walls(s) = Walls(s)
  BY <1>2
<1> QED
  BY <1>1, <1>3

LEMMA WallsTop ==
    ASSUME NEW s \in Seq(Items), s # <<>>, s[1].kind \in Barriers
    PROVE  /\ Walls(s) = <<s[1]>> \o Walls(Tail(s))
           /\ s[1] \in Wall /\ Walls(Tail(s)) \in Seq(Wall)
<1>1. s[1] \in Items /\ Tail(s) \in Seq(Items) /\ s = <<s[1]>> \o Tail(s)
  BY TopOf
<1>2. Walls(<<s[1]>> \o Tail(s)) = OneWall(s[1]) \o Walls(Tail(s))
  BY <1>1, WallsOnTop
<1>3. Walls(s) = <<s[1]>> \o Walls(Tail(s))
  BY <1>1, <1>2 DEF OneWall
<1> QED
  BY <1>1, <1>3, WallsType DEF Wall

LEMMA WallsCount ==
    ASSUME NEW s \in Seq(Items)
    PROVE  Len(Walls(s)) = Depth(s, Len(s))
<1> DEFINE S == {n \in Nat : \A t \in Seq(Items) : Len(t) = n =>
                                 Len(Walls(t)) = Depth(t, Len(t))}
<1>1. 0 \in S
  <2>1. SUFFICES ASSUME NEW t \in Seq(Items), Len(t) = 0
                 PROVE  Len(Walls(t)) = Depth(t, Len(t))
    OBVIOUS
  <2>2. Walls(t) = <<>>
    <3>1. \A i \in 1..Len(t) : t[i].kind \notin Barriers
      BY <2>1
    <3> QED
      BY <3>1, NoWalls
  <2>3. Depth(t, 0) = 0
    BY DepthZero
  <2> QED
    BY <2>1, <2>2, <2>3
<1>2. ASSUME NEW n \in S PROVE n + 1 \in S
  <2>1. SUFFICES ASSUME NEW t \in Seq(Items), Len(t) = n + 1
                 PROVE  Len(Walls(t)) = Depth(t, Len(t))
    BY <1>2
  <2>2. n \in Nat /\ t # <<>> /\ (n + 1) - 1 = n /\ n + 1 \in Nat \ {0}
    BY <1>2, <2>1
  <2>3. /\ Tail(t) \in Seq(Items) /\ Len(Tail(t)) = n
        /\ Same(t, Tail(t), n)
    BY <2>1, <2>2, TailSame
  <2>4. t[1] \in Items /\ t = <<t[1]>> \o Tail(t)
    BY <2>2, TopOf
  <2>5. Len(Walls(Tail(t))) = Depth(Tail(t), n)
    BY <1>2, <2>3
  <2>6. Depth(Tail(t), n) = Depth(t, n)
    BY <2>2, <2>3, DepthSame
  <2>7. Depth(t, n + 1) = Depth(t, n) + (IF Low(t, n + 1) \in Barriers THEN 1 ELSE 0)
    BY <2>2, DepthStep
  <2>8. Low(t, n + 1) = t[1].kind
    BY <2>1, <2>2 DEF Low
  <2>9. Depth(t, n) \in Nat
    BY <2>2, DepthNat
  <2>10. CASE t[1].kind \in Barriers
    <3>1. /\ Walls(t) = <<t[1]>> \o Walls(Tail(t))
          /\ t[1] \in Wall /\ Walls(Tail(t)) \in Seq(Wall)
      BY <2>2, <2>10, WallsTop
    <3>2. Len(Walls(t)) = Len(Walls(Tail(t))) + 1
      BY <3>1, OnTopOf
    <3> QED
      BY <2>1, <2>5, <2>6, <2>7, <2>8, <2>9, <2>10, <3>2
  <2>11. CASE t[1].kind \notin Barriers
    <3>1. Walls(t) = Walls(Tail(t))
      BY <2>3, <2>4, <2>11, WallsText
    <3> QED
      BY <2>1, <2>5, <2>6, <2>7, <2>8, <2>9, <2>11, <3>1
  <2> QED
    BY <2>10, <2>11
<1> HIDE DEF S
<1>3. S = Nat
  BY <1>1, <1>2, Induct DEF S
<1>4. Len(s) \in S
  BY <1>3
<1> QED
  BY <1>4 DEF S

LEMMA WallsPopped ==
    ASSUME NEW s \in Seq(Items), NEW i \in 1..(Len(s) + 1),
           \A j \in 1..(i - 1) : ~IsBoundary(s[j])
    PROVE  Walls(FromTop(s, i)) = Walls(s)
<1> DEFINE k == i - 1
           a == SubSeq(s, 1, k)
           b == FromTop(s, k + 1)
<1>1. k \in 0..Len(s) /\ k + 1 = i
  OBVIOUS
<1>2. b = FromTop(s, i)
  BY <1>1
<1>3. /\ a \in Seq(Items) /\ b \in Seq(Items) /\ s = a \o b /\ Len(a) = k
      /\ \A j \in 1..k : a[j] = s[j]
  BY <1>1, SplitAt
<1> HIDE DEF a, b
<1>4. Walls(a) = <<>>
  BY <1>3, NoWalls DEF IsBoundary, Barriers
<1>5. Walls(a \o b) = Walls(a) \o Walls(b)
  BY <1>3, WallsJoin
<1>6. Walls(b) \in Seq(Wall)
  BY <1>3, WallsType
<1>7. <<>> \o Walls(b) = Walls(b)
  BY <1>6
<1> QED
  BY <1>2, <1>3, <1>4, <1>5, <1>7

LEMMA WallsUnread ==
    ASSUME NEW s \in Seq(Items)
    PROVE  Walls(Unread(s)) = Walls(s)
<1>1. /\ StopAt(s) \in 1..(Len(s) + 1)
      /\ \A j \in 1..(StopAt(s) - 1) : ~Stops(s[j])
  BY StopFound
<1>2. \A j \in 1..(StopAt(s) - 1) : ~IsBoundary(s[j])
  BY <1>1 DEF Stops
<1>3. Walls(FromTop(s, StopAt(s))) = Walls(s)
  BY <1>1, <1>2, WallsPopped
<1> QED
  BY <1>3 DEF Unread, StopAt

LEMMA WallsDrained ==
    ASSUME NEW s \in Seq(Items)
    PROVE  Walls(Drained(s)) = Walls(s)
<1>1. /\ BoundaryAt(s) \in 1..(Len(s) + 1)
      /\ \A j \in 1..(BoundaryAt(s) - 1) : ~IsBoundary(s[j])
  BY BoundaryFound
<1>2. Walls(FromTop(s, BoundaryAt(s))) = Walls(s)
  BY <1>1, WallsPopped
<1> QED
  BY <1>2 DEF Drained, BoundaryAt

LEMMA WallsTook ==
    ASSUME NEW s \in Seq(Items), NEW n \in Nat, s # <<>>, s[1].kind \in Texts,
           n <= s[1].left
    PROVE  Walls(Took(s, n)) = Walls(s)
<1>1. Took(s, n) \in Seq(Items) /\ Len(Took(s, n)) = Len(s)
  <2>1. Took(s, n) \in Seq(Items)
    BY TookKeeps
  <2> QED
    BY <2>1 DEF Took
<1>2. s[1].kind \notin Barriers /\ Took(s, n)[1].kind \notin Barriers
  BY TookKeeps DEF Texts, Barriers
<1>3. \A i \in 1..Len(s) : i # 1 => Took(s, n)[i] = s[i]
  BY DEF Took
<1>4. \A i \in 1..Len(s) : WallAt(Took(s, n), i) = WallAt(s, i)
  BY <1>2, <1>3 DEF WallAt
<1> QED
  BY <1>1, <1>4, WallsSame

LEMMA WallsShifted ==
    ASSUME NEW s \in Seq(Items), NEW n \in Nat
    PROVE  Walls(Shifted(s, n)) = Walls(s)
<1> DEFINE i == MacroAt(s)
           t == Shifted(s, n)
<1>1. /\ i \in 1..(Len(s) + 1)
      /\ i <= Len(s) => IsMacro(s[i])
  BY MacroFound
<1>2. t \in Seq(Items)
  BY ShiftedKeeps
<1>3. i > Len(s) => t = s
  BY DEF Shifted, MacroAt
<1>4. ASSUME i <= Len(s) PROVE Walls(t) = Walls(s)
  <2>0. s[i] \in Items /\ i \in 1..Len(s)
    BY <1>1, <1>4, ElementOf
  <2>1. t = [s EXCEPT ![i].args = IF n < @ THEN @ - n ELSE 0]
    BY <1>4 DEF Shifted, MacroAt
  <2>2. Len(t) = Len(s) /\ \A j \in 1..Len(s) : j # i => t[j] = s[j]
    BY <2>1
  <2>3. t[i].kind = s[i].kind
    BY <2>0, <2>1 DEF Items
  <2>4. s[i].kind \notin Barriers /\ t[i].kind \notin Barriers
    BY <1>1, <1>4, <2>3 DEF IsMacro, Barriers
  <2> HIDE DEF t
  <2>5. \A j \in 1..Len(s) : WallAt(t, j) = WallAt(s, j)
    BY <2>2, <2>4 DEF WallAt
  <2> QED
    BY <1>2, <2>2, <2>5, WallsSame
<1> QED
  BY <1>1, <1>3, <1>4

-----------------------------------------------------------------------------
\* The inductive invariant.

\* What may be on top of what: the end of a trap below its macro, or below
\* what is left of a loop in it; what is left of a loop below the end of a
\* trap that the macros were popped from; a body above its boundary.
MayBeOn(above, below) ==
    /\ below = "end_trap" => above \in {"macro", "return_boundary"}
    /\ below = "return_boundary" => above \in {"end_trap", "return_boundary"}
    /\ above = "loop" => below = "boundary"

Piled(s) ==
    /\ \A i \in 1..(Len(s) - 1) : MayBeOn(s[i].kind, s[i + 1].kind)
    /\ s # <<>> => s[Len(s)].kind # "loop"

\* The first runs are loops.
Loopy(r, j) == \A i \in 1..j : r[i].kind = "while"

\* The boundaries that were not returned from are those of the loops that
\* are being interpreted.
Sized(d, r) ==
    \A j \in 1..Len(d) : d[j].kind = "boundary" =>
        Loopy(r, j) /\ d[j].size = r[j].size /\ d[j].size > 0

\* No loop that is being interpreted was returned from.
Alive(d, r) ==
    \A j \in 1..Len(d) : d[j].kind = "return_boundary" => ~Loopy(r, j)

\* Loops that were returned from are left at once.
Unwinding(s, r) ==
    \A j \in 1..Len(Walls(s)) :
        Walls(s)[j].kind = "return_boundary" /\ Loopy(r, j) =>
            \A i \in 1..j : s[i].kind = "return_boundary"

Sound(s, r) == Piled(s) /\ Sized(Walls(s), r) /\ Unwinding(s, r)

\* What holds of the stack, the token, the runs and want_loop_break.
Steady(s, t, r, w) ==
    /\ Sound(s, r) /\ Len(s) <= Limit
    /\ w => t = "eof" /\ s # <<>> /\ s[1].kind = "boundary"
    /\ t = "test" => /\ Len(s) > 1 /\ s[2].kind = "boundary"
                     /\ s[1] = Body(s[2].size) /\ s[2].size > 0

JInv == Interpreting => Steady(stack, tok, runs, want_loop_break)

-----------------------------------------------------------------------------
LEMMA PiledNone == Piled(<<>>)
BY DEF Piled

LEMMA PiledFrom ==
    ASSUME NEW s \in Seq(Items), Piled(s), NEW i \in 1..(Len(s) + 1)
    PROVE  Piled(FromTop(s, i))
<1> DEFINE t == FromTop(s, i)
           n == Len(s)
<1>1. /\ t \in Seq(Items) /\ Len(t) = n + 1 - i
      /\ \A j \in 1..(n + 1 - i) : t[j] = s[i - 1 + j]
  BY FromTopSame
<1>2. n \in Nat /\ i \in Nat
  OBVIOUS
<1>3. Len(s) = n
  OBVIOUS
<1> HIDE DEF t, n
<1>4. ASSUME NEW j \in 1..(Len(t) - 1) PROVE MayBeOn(t[j].kind, t[j + 1].kind)
  <2>1. /\ j \in 1..(n + 1 - i) /\ j + 1 \in 1..(n + 1 - i)
        /\ i - 1 + j \in 1..(Len(s) - 1) /\ i - 1 + (j + 1) = (i - 1 + j) + 1
    BY <1>1, <1>2, <1>3
  <2>2. t[j] = s[i - 1 + j] /\ t[j + 1] = s[(i - 1 + j) + 1]
    BY <1>1, <2>1
  <2> DEFINE k == i - 1 + j
  <2> HIDE DEF k
  <2>3. MayBeOn(s[k].kind, s[k + 1].kind)
    BY <2>1, Zenon DEF Piled, k
  <2> QED
    BY <2>2, <2>3 DEF k
<1>5. ASSUME t # <<>> PROVE t[Len(t)].kind # "loop"
  BY <1>1, <1>5, <1>2, <1>3 DEF Piled
<1>6. Piled(t)
  BY <1>4, <1>5 DEF Piled
<1> QED
  BY <1>6 DEF t

LEMMA PiledSame ==
    ASSUME NEW s \in Seq(Items), Piled(s), NEW t \in Seq(Items),
           Len(t) = Len(s), \A i \in 1..Len(s) : t[i].kind = s[i].kind
    PROVE  Piled(t)
<1>1. ASSUME NEW i \in 1..(Len(t) - 1) PROVE MayBeOn(t[i].kind, t[i + 1].kind)
  BY DEF Piled
<1>2. ASSUME t # <<>> PROVE t[Len(t)].kind # "loop"
  BY <1>2 DEF Piled
<1> QED
  BY <1>1, <1>2 DEF Piled

LEMMA PiledOnTop ==
    ASSUME NEW s \in Seq(Items), Piled(s), NEW it \in Items,
           s = <<>> => it.kind # "loop",
           s # <<>> => MayBeOn(it.kind, s[1].kind)
    PROVE  Piled(<<it>> \o s)
<1> DEFINE t == <<it>> \o s
<1>1. /\ t \in Seq(Items) /\ Len(t) = Len(s) + 1 /\ t[1] = it
      /\ \A i \in 1..Len(s) : t[i + 1] = s[i]
  BY OnTopOf
<1>2. Len(s) \in Nat /\ (s = <<>> <=> Len(s) = 0)
  OBVIOUS
<1> HIDE DEF t
<1>3. ASSUME NEW i \in 1..(Len(t) - 1) PROVE MayBeOn(t[i].kind, t[i + 1].kind)
  <2>1. i \in 1..Len(s) /\ s # <<>>
    BY <1>1, <1>2
  <2>2. t[i + 1] = s[i]
    BY <1>1, <2>1
  <2>3. CASE i = 1
    BY <1>1, <2>1, <2>2, <2>3
  <2>4. CASE i # 1
    <3>1. i - 1 \in 1..(Len(s) - 1) /\ i - 1 \in 1..Len(s) /\ (i - 1) + 1 = i
      BY <1>2, <2>1, <2>4
    <3>2. t[i] = s[i - 1]
      BY <1>1, <3>1
    <3>3. MayBeOn(s[i - 1].kind, s[(i - 1) + 1].kind)
      BY <3>1, Zenon DEF Piled
    <3> QED
      BY <2>2, <3>1, <3>2, <3>3
  <2> QED
    BY <2>3, <2>4
<1>4. t[Len(t)].kind # "loop"
  <2>1. CASE s = <<>>
    BY <1>1, <1>2, <2>1
  <2>2. CASE s # <<>>
    BY <1>2, <2>2, <1>1 DEF Piled
  <2> QED
    BY <2>1, <2>2
<1>5. Piled(t)
  BY <1>3, <1>4 DEF Piled
<1> QED
  BY <1>5 DEF t

LEMMA WithoutIs ==
    ASSUME NEW s \in Seq(Items), NEW i \in 1..Len(s)
    PROVE  LET t == Without(s, i)
           IN  /\ t \in Seq(Items) /\ Len(t) = Len(s) - 1
               /\ \A j \in 1..(i - 1) : t[j] = s[j]
               /\ \A j \in i..(Len(s) - 1) : t[j] = s[j + 1]
<1> DEFINE a == SubSeq(s, 1, i - 1)
           b == FromTop(s, i + 1)
           t == a \o b
<1>1. /\ a \in Seq(Items) /\ b \in Seq(Items)
      /\ Len(a) = i - 1 /\ Len(b) = Len(s) - i
      /\ \A j \in 1..(i - 1) : a[j] = s[j]
      /\ \A j \in 1..(Len(s) - i) : b[j] = s[i + j]
  BY SplitAround
<1>2. Len(s) \in Nat /\ i \in Nat
  OBVIOUS
<1> HIDE DEF a, b
<1>3. /\ t \in Seq(Items) /\ Len(t) = Len(a) + Len(b)
      /\ \A j \in 1..Len(a) : t[j] = a[j]
      /\ \A j \in 1..Len(b) : t[Len(a) + j] = b[j]
  <2>1. a \in Seq(Items) /\ b \in Seq(Items)
    BY <1>1
  <2> QED
    BY <2>1, ConcatIs
<1> HIDE DEF t
<1>4. Len(t) = Len(s) - 1
  BY <1>1, <1>2, <1>3
<1>5. \A j \in 1..(i - 1) : t[j] = s[j]
  BY <1>1, <1>3, Zenon
<1>6. ASSUME NEW j \in i..(Len(s) - 1) PROVE t[j] = s[j + 1]
  <2>1. /\ j + 1 - i \in 1..(Len(s) - i) /\ (i - 1) + (j + 1 - i) = j
        /\ i + (j + 1 - i) = j + 1
    BY <1>2
  <2> DEFINE k == j + 1 - i
  <2> HIDE DEF k
  <2>2. t[(i - 1) + k] = b[k] /\ b[k] = s[i + k]
    BY <1>1, <1>3, <2>1, Zenon DEF k
  <2> QED
    BY <2>1, <2>2 DEF k
<1>7. Without(s, i) = t
  BY Zenon DEF Without, t, a, b
<1> QED
  BY <1>3, <1>4, <1>5, <1>6, <1>7, Zenon

LEMMA PiledWithout ==
    ASSUME NEW s \in Seq(Items), Piled(s), NEW i \in 1..Len(s),
           s[i].kind = "file"
    PROVE  Piled(Without(s, i))
<1> DEFINE t == Without(s, i)
           n == Len(s)
<1>1. /\ t \in Seq(Items) /\ Len(t) = n - 1
      /\ \A j \in 1..(i - 1) : t[j] = s[j]
      /\ \A j \in i..(n - 1) : t[j] = s[j + 1]
  BY WithoutIs
<1>2. n \in Nat /\ i \in 1..n /\ s # <<>>
  OBVIOUS
<1>3. \A j \in 1..(n - 1) : MayBeOn(s[j].kind, s[j + 1].kind)
  BY DEF Piled
<1>4. s[n].kind # "loop"
  BY <1>2 DEF Piled
<1> HIDE DEF t, n
\* Neither the end of a trap nor a boundary that was returned from is right
\* below a file, and no body is right above it.
<1>5. i - 1 \in 1..n => s[i - 1].kind # "loop"
  <2>1. ASSUME i - 1 \in 1..n PROVE s[i - 1].kind # "loop"
    BY <1>2, <2>1, <1>3 DEF MayBeOn
  <2> QED
    BY <2>1
<1>6. i + 1 \in 1..n => s[i + 1].kind \notin {"end_trap", "return_boundary"}
  <2>1. ASSUME i + 1 \in 1..n PROVE s[i + 1].kind \notin {"end_trap", "return_boundary"}
    BY <1>2, <2>1, <1>3 DEF MayBeOn
  <2> QED
    BY <2>1
<1>7. ASSUME NEW j \in 1..(Len(t) - 1) PROVE MayBeOn(t[j].kind, t[j + 1].kind)
  <2>1. j \in 1..(n - 1) /\ j + 1 \in 1..(n - 1)
    BY <1>1, <1>2
  <2>2. CASE j + 1 < i
    <3>1. j \in 1..(i - 1) /\ j + 1 \in 1..(i - 1)
      BY <1>2, <2>2
    <3> QED
      BY <1>1, <1>3, <2>1, <3>1, Zenon
  <2>3. CASE j + 1 = i
    <3>1. j \in 1..(i - 1) /\ i \in i..(n - 1) /\ j = i - 1 /\ i + 1 \in 1..n
      BY <1>2, <2>1, <2>3
    <3>2. t[j] = s[i - 1] /\ t[j + 1] = s[i + 1]
      BY <1>1, <2>3, <3>1
    <3>3. i - 1 \in 1..n
      BY <1>2, <3>1
    <3> QED
      BY <1>5, <1>6, <3>1, <3>2, <3>3 DEF MayBeOn
  <2>4. CASE j + 1 > i
    <3>1. j \in i..(n - 1) /\ j + 1 \in i..(n - 1)
      BY <1>2, <2>1, <2>4
    <3>2. t[j] = s[j + 1] /\ t[j + 1] = s[(j + 1) + 1]
      BY <1>1, <3>1, Zenon
    <3>3. MayBeOn(s[j + 1].kind, s[(j + 1) + 1].kind)
      BY <1>3, <2>1, Zenon
    <3> QED
      BY <3>2, <3>3
  <2> QED
    BY <1>2, <2>1, <2>2, <2>3, <2>4
<1>8. ASSUME t # <<>> PROVE t[Len(t)].kind # "loop"
  <2>1. n - 1 \in 1..(n - 1)
    BY <1>1, <1>8, <1>2
  <2>2. CASE i = n
    BY <1>2, <2>1, <2>2, <1>1, <1>5
  <2>3. CASE i # n
    BY <1>2, <2>1, <2>3, <1>1, <1>4
  <2> QED
    BY <2>2, <2>3
<1>9. Piled(t)
  BY <1>7, <1>8 DEF Piled
<1> QED
  BY <1>9 DEF t

LEMMA PiledReplaced ==
    ASSUME NEW s \in Seq(Items), Piled(s), NEW it \in Items, it.kind = "file",
           NEW i \in 1..Len(s), s[i].kind = "file"
    PROVE  Piled(Put(s, it, i))
<1> DEFINE t == Put(s, it, i)
<1>1. /\ t \in Seq(Items) /\ Len(t) = Len(s)
      /\ \A j \in 1..Len(s) : t[j] = IF j = i THEN it ELSE s[j]
  BY Replaced
<1> HIDE DEF t
<1>2. \A j \in 1..Len(s) : t[j].kind = s[j].kind
  BY <1>1
<1>3. Piled(t)
  BY <1>1, <1>2, PiledSame
<1> QED
  BY <1>3 DEF t

LEMMA PiledBelow ==
    ASSUME NEW s \in Seq(Items), Piled(s), NEW it \in Items, it.kind = "file"
    PROVE  Piled(Put(s, it, Len(s) + 1))
<1> DEFINE t == Put(s, it, Len(s) + 1)
           n == Len(s)
<1>1. /\ t \in Seq(Items) /\ Len(t) = n + 1
      /\ \A j \in 1..(n + 1) : t[j] = IF j = n + 1 THEN it ELSE s[j]
  BY PutBelow
<1>2. n \in Nat /\ Len(s) = n /\ (s = <<>> <=> n = 0)
  OBVIOUS
<1> HIDE DEF t, n
<1>3. ASSUME NEW j \in 1..(Len(t) - 1) PROVE MayBeOn(t[j].kind, t[j + 1].kind)
  <2>1. j \in 1..n /\ j \in 1..(n + 1) /\ j + 1 \in 1..(n + 1) /\ j # n + 1
    BY <1>1, <1>2
  <2>2. t[j] = s[j]
    BY <1>1, <2>1
  <2>3. CASE j = n
    BY <1>1, <1>2, <2>1, <2>3, <2>2 DEF Piled, MayBeOn
  <2>4. CASE j # n
    BY <1>2, <2>1, <2>4, <1>1, <2>2 DEF Piled
  <2> QED
    BY <2>3, <2>4
<1>4. t[Len(t)].kind # "loop"
  BY <1>2, <1>1
<1>5. Piled(t)
  BY <1>3, <1>4 DEF Piled
<1> QED
  BY <1>5 DEF t, n

\* Boundaries that were returned from may be on top of anything.
LEMMA PiledReturned ==
    ASSUME NEW k \in Nat, NEW s \in Seq(Items), Piled(s)
    PROVE  /\ ReturnBoundaries(k) \o s \in Seq(Items)
           /\ Piled(ReturnBoundaries(k) \o s)
<1> DEFINE a == ReturnBoundaries(k)
           t == a \o s
           n == Len(s)
<1>1. /\ a \in Seq(Items) /\ Len(a) = k
      /\ \A j \in 1..k : a[j].kind = "return_boundary"
  BY OnlyReturns
<1>2. n \in Nat /\ Len(s) = n /\ (s = <<>> <=> n = 0)
  OBVIOUS
<1> HIDE DEF a
<1>3. /\ t \in Seq(Items) /\ Len(t) = Len(a) + Len(s)
      /\ \A j \in 1..Len(a) : t[j] = a[j]
      /\ \A j \in 1..Len(s) : t[Len(a) + j] = s[j]
  <2>1. a \in Seq(Items)
    BY <1>1
  <2> QED
    BY <2>1, ConcatIs
<1> HIDE DEF t, n
<1>4. \A j \in 1..k : t[j].kind = "return_boundary"
  BY <1>1, <1>3
<1>5. \A j \in 1..n : t[k + j] = s[j]
  BY <1>1, <1>2, <1>3
<1>6. Len(t) = k + n
  BY <1>1, <1>2, <1>3
<1>7. ASSUME NEW j \in 1..(Len(t) - 1) PROVE MayBeOn(t[j].kind, t[j + 1].kind)
  <2>1. CASE j \in 1..k
    BY <1>4, <2>1 DEF MayBeOn
  <2>2. CASE j \notin 1..k
    <3>1. /\ j - k \in 1..(Len(s) - 1) /\ j - k \in 1..n /\ (j - k) + 1 \in 1..n
          /\ k + (j - k) = j /\ k + ((j - k) + 1) = j + 1
      BY <1>2, <1>6, <2>2
    <3> DEFINE m == j - k
    <3> HIDE DEF m
    <3>2. t[k + m] = s[m] /\ t[k + (m + 1)] = s[m + 1]
      BY <1>5, <3>1 DEF m
    <3>3. MayBeOn(s[m].kind, s[m + 1].kind)
      BY <3>1, Zenon DEF Piled, m
    <3>4. k + m = j /\ k + (m + 1) = j + 1
      BY <3>1 DEF m
    <3> QED
      BY <3>2, <3>3, <3>4
  <2> QED
    BY <2>1, <2>2
<1>8. ASSUME t # <<>> PROVE t[Len(t)].kind # "loop"
  <2>1. CASE n = 0
    BY <1>3, <1>8, <1>6, <2>1, <1>4
  <2>2. CASE n # 0
    BY <1>2, <2>2, <1>5, <1>6 DEF Piled
  <2> QED
    BY <2>1, <2>2
<1>9. Piled(t)
  BY <1>7, <1>8 DEF Piled
<1> QED
  BY <1>3, <1>9 DEF t, a

-----------------------------------------------------------------------------
LEMMA WallsWithout ==
    ASSUME NEW s \in Seq(Items), NEW i \in 1..Len(s), s[i].kind = "file"
    PROVE  Walls(Without(s, i)) = Walls(s)
<1> DEFINE a == SubSeq(s, 1, i - 1)
           b == FromTop(s, i + 1)
           x == s[i]
<1>1. /\ a \in Seq(Items) /\ b \in Seq(Items) /\ x \in Items
      /\ s = a \o (<<x>> \o b)
  BY SplitAround
<1>2. Without(s, i) = a \o b
  BY DEF Without
<1>3. x.kind \notin Barriers
  BY DEF Barriers
<1> HIDE DEF a, b, x
<1>4. Walls(a \o b) = Walls(a) \o Walls(b)
  BY <1>1, WallsJoin
<1>5. <<x>> \o b \in Seq(Items)
  BY <1>1
<1>6. Walls(a \o (<<x>> \o b)) = Walls(a) \o Walls(<<x>> \o b)
  BY <1>1, <1>5, WallsJoin
<1>7. Walls(<<x>> \o b) = Walls(b)
  BY <1>1, <1>3, WallsText
<1> QED
  BY <1>1, <1>2, <1>4, <1>6, <1>7, Zenon

LEMMA WallsReplaced ==
    ASSUME NEW s \in Seq(Items), NEW it \in Items, it.kind = "file",
           NEW i \in 1..Len(s), s[i].kind = "file"
    PROVE  Walls(Put(s, it, i)) = Walls(s)
<1> DEFINE t == Put(s, it, i)
<1>1. /\ t \in Seq(Items) /\ Len(t) = Len(s)
      /\ \A j \in 1..Len(s) : t[j] = IF j = i THEN it ELSE s[j]
  BY Replaced
<1> HIDE DEF t
<1>2. \A j \in 1..Len(s) : WallAt(s, j) = WallAt(t, j)
  BY <1>1 DEF WallAt, Barriers
<1>3. Walls(t) = Walls(s)
  BY <1>1, <1>2, WallsSame
<1> QED
  BY <1>3 DEF t

LEMMA PutBelowIs ==
    ASSUME NEW s \in Seq(Items), NEW it \in Items
    PROVE  Put(s, it, Len(s) + 1) = s \o <<it>>
<1> DEFINE t == Put(s, it, Len(s) + 1)
           u == s \o <<it>>
           n == Len(s)
<1>1. /\ t \in Seq(Items) /\ Len(t) = n + 1
      /\ \A j \in 1..(n + 1) : t[j] = IF j = n + 1 THEN it ELSE s[j]
  BY PutBelow
<1>2. /\ u \in Seq(Items) /\ Len(u) = n + 1 /\ u[n + 1] = it
      /\ \A j \in 1..n : u[j] = s[j]
  BY OneMore
<1>3. n \in Nat
  OBVIOUS
<1> HIDE DEF t, u, n
<1>4. \A j \in 1..(n + 1) : t[j] = u[j]
  BY <1>3, <1>1, <1>2
<1>5. t = u
  BY <1>1, <1>2, <1>4, SameSequence
<1> QED
  BY <1>5 DEF t, u, n

LEMMA WallsBelow ==
    ASSUME NEW s \in Seq(Items), NEW it \in Items, it.kind = "file"
    PROVE  Walls(Put(s, it, Len(s) + 1)) = Walls(s)
<1>1. <<it>> \in Seq(Items)
  BY OneItem
<1>2. Walls(s \o <<it>>) = Walls(s) \o Walls(<<it>>)
  BY <1>1, WallsJoin
<1>3. Walls(<<it>>) = <<>>
  BY WallsOne DEF OneWall, Barriers
<1>4. Walls(s) \in Seq(Wall)
  BY WallsType
<1>5. Walls(s) \o <<>> = Walls(s)
  BY <1>4
<1> QED
  BY <1>2, <1>3, <1>5, PutBelowIs, Zenon

\* Returning puts as many boundaries there as it pops.
LEMMA WallsReturns ==
    ASSUME NEW k \in Nat
    PROVE  LET d == Walls(ReturnBoundaries(k))
           IN  /\ d \in Seq(Wall) /\ Len(d) = k
               /\ \A j \in 1..k : d[j].kind = "return_boundary"
<1> DEFINE a == ReturnBoundaries(k)
           T == {it \in Wall : it.kind = "return_boundary"}
           d == Walls(a)
<1>1. /\ a \in Seq(Items) /\ Len(a) = k /\ Depth(a, k) = k
      /\ \A j \in 1..k : a[j].kind = "return_boundary"
  BY OnlyReturns
<1> HIDE DEF a
<1>2. Len(d) = k
  BY <1>1, WallsCount
<1>3. ASSUME NEW i \in 1..Len(a) PROVE WallAt(a, i) \in Seq(T)
  <2>1. a[i] \in Items /\ a[i].kind = "return_boundary"
    BY <1>1, ElementOf
  <2>2. a[i] \in T
    BY <2>1 DEF Wall, Barriers
  <2>3. WallAt(a, i) = <<a[i]>>
    BY <2>1 DEF WallAt, Barriers
  <2> HIDE DEF T
  <2>4. <<a[i]>> \in Seq(T)
    BY <2>2, OneItem
  <2> QED
    BY <2>3, <2>4
<1>4. d \in Seq(T)
  <2> HIDE DEF T
  <2> QED
    BY <1>1, <1>3, WallsIn
<1>5. \A j \in 1..k : d[j] \in T
  <2> HIDE DEF T, d
  <2> QED
    BY <1>2, <1>4, ElementOf
<1>6. d \in Seq(Wall)
  BY <1>1, WallsType
<1> HIDE DEF d
<1> QED
  BY <1>2, <1>5, <1>6 DEF d, a

LEMMA WallsPoppedTop ==
    ASSUME NEW s \in Seq(Items), NEW n \in 0..Len(s)
    PROVE  LET a == SubSeq(s, 1, n)
               b == FromTop(s, n + 1)
               k == Boundaries(a)
               d == Walls(Popped(s, n))
           IN  /\ k \in Nat /\ Len(d) = Len(Walls(s)) /\ k <= Len(d)
               /\ Len(Walls(s)) \in Nat
               /\ \A j \in 1..k : d[j].kind = "return_boundary"
               /\ \A j \in (k + 1)..Len(d) : d[j] = Walls(s)[j]
<1> DEFINE a == SubSeq(s, 1, n)
           b == FromTop(s, n + 1)
           k == Boundaries(a)
           r == ReturnBoundaries(k)
           w == Walls(b)
           v == Walls(a)
           x == Walls(r)
<1>1. /\ a \in Seq(Items) /\ b \in Seq(Items) /\ s = a \o b
  BY SplitAt
<1> HIDE DEF a, b
<1>2. k = Depth(a, Len(a)) /\ k \in Nat
  BY <1>1, BoundariesDepth, DepthNat
<1>3. v \in Seq(Wall) /\ Len(v) = k
  BY <1>1, <1>2, WallsType, WallsCount
<1>4. w \in Seq(Wall)
  BY <1>1, WallsType
<1> HIDE DEF k
<1>5. /\ x \in Seq(Wall) /\ Len(x) = k
      /\ \A j \in 1..k : x[j].kind = "return_boundary"
  BY <1>2, WallsReturns
<1>6. Walls(s) = v \o w
  BY <1>1, WallsJoin
<1>7. Walls(Popped(s, n)) = x \o w
  <2>1. r \in Seq(Items)
    BY <1>2, OnlyReturns
  <2> HIDE DEF r
  <2>2. Walls(r \o b) = Walls(r) \o Walls(b)
    BY <1>1, <2>1, WallsJoin
  <2> QED
    BY <2>2 DEF Popped, a, b, k, r
<1> HIDE DEF v, w, x
<1>8. /\ Len(v \o w) = k + Len(w)
      /\ \A j \in 1..Len(w) : (v \o w)[k + j] = w[j]
  <2>1. v \in Seq(Wall)
    BY <1>3
  <2>2. /\ Len(v \o w) = Len(v) + Len(w)
        /\ \A j \in 1..Len(w) : (v \o w)[Len(v) + j] = w[j]
    BY <1>4, <2>1, ConcatIs
  <2> QED
    BY <1>3, <2>2, Zenon
<1>9. /\ Len(x \o w) = k + Len(w)
      /\ \A j \in 1..k : (x \o w)[j] = x[j]
      /\ \A j \in 1..Len(w) : (x \o w)[k + j] = w[j]
  <2>1. x \in Seq(Wall)
    BY <1>5
  <2>2. /\ Len(x \o w) = Len(x) + Len(w)
        /\ \A j \in 1..Len(x) : (x \o w)[j] = x[j]
        /\ \A j \in 1..Len(w) : (x \o w)[Len(x) + j] = w[j]
    BY <1>4, <2>1, ConcatIs
  <2> QED
    BY <1>5, <2>2, Zenon
<1>10. Len(w) \in Nat
  BY <1>4
<1>11. ASSUME NEW j \in (k + 1)..(k + Len(w)) PROVE (x \o w)[j] = (v \o w)[j]
  <2>1. j - k \in 1..Len(w) /\ k + (j - k) = j
    BY <1>2, <1>10
  <2> QED
    BY <1>8, <1>9, <2>1
<1>12. k <= k + Len(w) /\ k + Len(w) \in Nat
  BY <1>2, <1>10
<1> DEFINE d == Walls(Popped(s, n))
           c == Walls(s)
<1>13. /\ Len(d) = k + Len(w) /\ Len(c) = k + Len(w)
       /\ \A j \in 1..k : d[j] = x[j]
       /\ \A j \in (k + 1)..(k + Len(w)) : d[j] = c[j]
  BY <1>6, <1>7, <1>8, <1>9, <1>11
<1> HIDE DEF d, c
<1>14. /\ Len(d) = Len(c) /\ k <= Len(d) /\ Len(c) \in Nat
       /\ \A j \in 1..k : d[j].kind = "return_boundary"
       /\ \A j \in (k + 1)..Len(d) : d[j] = c[j]
  BY <1>5, <1>12, <1>13
<1> QED
  BY <1>2, <1>14 DEF d, c, k, a

-----------------------------------------------------------------------------
\* The parts of the invariant under the operations.

LEMMA AliveIs ==
    ASSUME NEW s, NEW r, Unwinding(s, r), s[1].kind # "return_boundary"
    PROVE  Alive(Walls(s), r)
<1>1. \A j \in 1..Len(Walls(s)) : 1 \in 1..j
  OBVIOUS
<1> QED
  BY <1>1, Zenon DEF Alive, Unwinding

LEMMA SoundAlive ==
    ASSUME NEW s, NEW r, Sized(Walls(s), r), Alive(Walls(s), r),
           NEW t, Piled(t), Walls(t) = Walls(s)
    PROVE  Sound(t, r)
<1>1. Unwinding(t, r)
  BY Zenon DEF Unwinding, Alive
<1> QED
  BY <1>1, Zenon DEF Sound

LEMMA SoundUnread ==
    ASSUME NEW s \in Seq(Items), NEW r, Sound(s, r)
    PROVE  Sound(Unread(s), r)
<1>1. Piled(s) /\ Sized(Walls(s), r) /\ Unwinding(s, r)
  BY DEF Sound
<1>2. CASE s = <<>> \/ s[1].kind = "return_boundary"
  BY <1>2, NoStop DEF Stops, IsBoundary
<1>3. CASE s[1].kind # "return_boundary"
  <2>1. Alive(Walls(s), r)
    BY <1>1, <1>3, AliveIs
  <2>2. Walls(Unread(s)) = Walls(s)
    BY WallsUnread
  <2>3. Piled(Unread(s))
    BY StopFound, <1>1, PiledFrom DEF Unread, StopAt
  <2> QED
    BY <1>1, <2>1, <2>2, <2>3, SoundAlive
<1> QED
  BY <1>2, <1>3

LEMMA BoundariesOf ==
    ASSUME NEW a \in Seq(Items), NEW j \in Nat,
           \A i \in 1..j : a[i].kind = "return_boundary"
    PROVE  /\ Boundaries(a) \in Nat /\ Boundaries(a) <= Len(a)
           /\ j < Len(a) => j <= Boundaries(a)
           /\ j >= Len(a) => Boundaries(a) = Len(a)
<1> DEFINE n == Len(a)
           S == {i \in DOMAIN a : IsBoundary(a[i])}
<1>1. n \in Nat /\ DOMAIN a = 1..n
  OBVIOUS
<1>2. Boundaries(a) = Cardinality(S)
  BY DEF Boundaries
<1>3. S \subseteq 1..n
  BY <1>1
<1>4. \A i \in 1..n : i \in 1..j => i \in S
  BY <1>1 DEF IsBoundary
<1>5. n = Len(a)
  OBVIOUS
<1> HIDE DEF S, n
<1>6. IsFiniteSet(1..n) /\ Cardinality(1..n) = n
  BY <1>1, FS_Interval
<1>7. IsFiniteSet(S) /\ Cardinality(S) <= n
  BY <1>3, <1>6, FS_Subset
<1>8. Cardinality(S) \in Nat
  BY <1>7, FS_CardinalityType
<1>9. ASSUME j < n PROVE j <= Cardinality(S)
  <2>1. 1..j \subseteq S
    BY <1>1, <1>4, <1>9
  <2>2. IsFiniteSet(1..j) /\ Cardinality(1..j) = j
    BY FS_Interval
  <2> QED
    BY <1>7, <2>1, <2>2, FS_Subset
<1>10. ASSUME j >= n PROVE Cardinality(S) = n
  <2>0. \A i \in 1..n : i \in 1..j
    BY <1>1, <1>10
  <2>1. S = 1..n
    BY <1>3, <1>4, <2>0, Zenon
  <2> QED
    BY <1>6, <2>1
<1> QED
  BY <1>2, <1>5, <1>7, <1>8, <1>9, <1>10

LEMMA WallsFew ==
    ASSUME NEW s \in Seq(Items)
    PROVE  Len(Walls(s)) \in Nat /\ Len(Walls(s)) <= Len(s)
<1>1. Len(Walls(s)) = Boundaries(s)
  BY WallsCount, BoundariesDepth
<1>2. \A i \in 1..0 : s[i].kind = "return_boundary"
  OBVIOUS
<1>3. Boundaries(s) \in Nat /\ Boundaries(s) <= Len(s)
  BY <1>2, BoundariesOf
<1> QED
  BY <1>1, <1>3

LEMMA SoundPopped ==
    ASSUME NEW s \in Seq(Items), NEW r, Sound(s, r), NEW n \in 0..Len(s)
    PROVE  Popped(s, n) \in Seq(Items) /\ Sound(Popped(s, n), r)
<1> DEFINE a == SubSeq(s, 1, n)
           b == FromTop(s, n + 1)
           k == Boundaries(a)
           t == Popped(s, n)
           d == Walls(t)
           c == Walls(s)
<1>1. /\ a \in Seq(Items) /\ b \in Seq(Items)
      /\ Len(a) = n /\ Len(b) = Len(s) - n
      /\ \A i \in 1..n : a[i] = s[i]
      /\ \A i \in 1..(Len(s) - n) : b[i] = s[n + i]
  BY SplitAt
<1>2. Len(s) \in Nat /\ n \in Nat
  OBVIOUS
<1>3. /\ k \in Nat /\ Len(d) = Len(c) /\ k <= Len(d)
      /\ Len(c) \in Nat
      /\ \A j \in 1..k : d[j].kind = "return_boundary"
      /\ \A j \in (k + 1)..Len(d) : d[j] = c[j]
  BY WallsPoppedTop
<1>4. Piled(s) /\ Sized(c, r) /\ Unwinding(s, r)
  BY DEF Sound
<1>5. Piled(b)
  BY <1>2, <1>4, PiledFrom
<1>6. t \in Seq(Items) /\ Piled(t)
  <2>1. t = ReturnBoundaries(k) \o b
    BY DEF Popped
  <2> HIDE DEF t, k, b
  <2>2. ReturnBoundaries(k) \o b \in Seq(Items) /\ Piled(ReturnBoundaries(k) \o b)
    BY <1>1, <1>3, <1>5, PiledReturned
  <2> QED
    BY <2>1, <2>2
<1>7. /\ \A i \in 1..k : t[i].kind = "return_boundary"
      /\ \A i \in 1..(Len(s) - n) : t[k + i] = s[n + i]
  <2> DEFINE p == ReturnBoundaries(k)
  <2>1. t = p \o b
    BY DEF Popped
  <2>2. /\ p \in Seq(Items) /\ Len(p) = k
        /\ \A j \in 1..k : p[j].kind = "return_boundary"
    BY <1>3, OnlyReturns
  <2> HIDE DEF p, t, k, b
  <2>3. /\ \A i \in 1..Len(p) : (p \o b)[i] = p[i]
        /\ \A i \in 1..Len(b) : (p \o b)[Len(p) + i] = b[i]
    <3>1. p \in Seq(Items) /\ b \in Seq(Items)
      BY <1>1, <2>2
    <3> QED
      BY <3>1, ConcatIs
  <2> QED
    BY <1>1, <2>1, <2>2, <2>3
<1>8. Len(c) <= Len(s)
  BY WallsFew
<1>9. \A j \in Nat : (\A i \in 1..j : s[i].kind = "return_boundary") /\ j > k =>
          k = n
  <2>1. SUFFICES ASSUME NEW j \in Nat, \A i \in 1..j : s[i].kind = "return_boundary",
                        j > k
                 PROVE  k = n
    OBVIOUS
  <2> DEFINE m == IF j < n THEN j ELSE n
  <2>2. m \in Nat /\ m <= n /\ m <= j
    BY <1>2
  <2> HIDE DEF a, k
  <2>3. \A i \in 1..m : a[i].kind = "return_boundary"
    BY <1>2, <2>2, <1>1, <2>1, SMTT(30)
  <2> HIDE DEF m
  <2>4. /\ m < Len(a) => m <= Boundaries(a)
        /\ m >= Len(a) => Boundaries(a) = Len(a)
    BY <1>1, <2>2, <2>3, BoundariesOf
  <2> QED
    BY <1>1, <1>2, <1>3, <2>1, <2>4 DEF m, k
<1> HIDE DEF a, b, k, t, d, c
<1>10. Sized(d, r)
  <2>1. SUFFICES ASSUME NEW j \in 1..Len(d), d[j].kind = "boundary"
                 PROVE  Loopy(r, j) /\ d[j].size = r[j].size /\ d[j].size > 0
    BY DEF Sized
  <2>2. j \in (k + 1)..Len(d) /\ j \in 1..Len(c)
    BY <1>3, <2>1
  <2>3. d[j] = c[j]
    BY <1>3, <2>2
  <2> QED
    BY <1>4, <2>1, <2>2, <2>3 DEF Sized
<1>11. Unwinding(t, r)
  <2>1. SUFFICES ASSUME NEW j \in 1..Len(d), d[j].kind = "return_boundary",
                        Loopy(r, j), NEW i \in 1..j
                 PROVE  t[i].kind = "return_boundary"
    BY DEF Unwinding, d
  <2>2. CASE j <= k
    BY <1>3, <2>2, <1>7
  <2>3. CASE j > k
    <3>1. j \in (k + 1)..Len(d) /\ j \in 1..Len(c) /\ j \in Nat
      BY <1>3, <2>3
    <3>2. c[j].kind = "return_boundary"
      BY <1>3, <2>1, <3>1
    <3>3. \A e \in 1..j : s[e].kind = "return_boundary"
      BY <1>4, <2>1, <3>1, <3>2 DEF Unwinding, c
    <3>4. k = n
      BY <1>9, <2>3, <3>1, <3>3
    <3>5. CASE i \in 1..k
      BY <1>7, <3>5
    <3>6. CASE i \notin 1..k
      <4>1. i - k \in 1..(Len(s) - n) /\ k + (i - k) = i /\ n + (i - k) = i
        BY <1>2, <1>3, <1>8, <3>1, <3>4, <3>6
      <4>2. t[i] = s[i]
        BY <1>7, <4>1
      <4> QED
        BY <3>3, <4>2
    <3> QED
      BY <3>5, <3>6
  <2> QED
    BY <1>3, <2>2, <2>3
<1>12. Sound(t, r)
  BY <1>6, <1>10, <1>11 DEF Sound, d
<1> QED
  BY <1>6, <1>12 DEF t

\* Nothing is to be left: the innermost run is no loop.
LEMMA SoundNone ==
    ASSUME NEW s \in Seq(Items), Piled(s), NEW r, r[1].kind # "while",
           \A j \in 1..Len(Walls(s)) : Walls(s)[j].kind # "boundary"
    PROVE  Sound(s, r) /\ Sized(Walls(s), r) /\ Alive(Walls(s), r)
<1>1. \A j \in 1..Len(Walls(s)) : ~Loopy(r, j)
  BY DEF Loopy
<1>2. Sized(Walls(s), r)
  BY Zenon DEF Sized
<1>3. Alive(Walls(s), r)
  BY <1>1, Zenon DEF Alive
<1> QED
  BY <1>2, <1>3, SoundAlive

LEMMA SoundCleared ==
    ASSUME NEW k \in Nat, NEW r
    PROVE  Sound(ReturnBoundaries(k), r)
<1> DEFINE s == ReturnBoundaries(k)
           d == Walls(s)
<1>1. /\ s \in Seq(Items) /\ Len(s) = k
      /\ \A j \in 1..k : s[j].kind = "return_boundary"
  BY OnlyReturns
<1>2. Len(d) = k /\ \A j \in 1..k : d[j].kind = "return_boundary"
  BY WallsReturns
<1>3. Piled(s)
  <2>1. <<>> \in Seq(Items) /\ Piled(<<>>)
    BY PiledNone
  <2>2. Piled(s \o <<>>)
    BY <2>1, PiledReturned
  <2> HIDE DEF s
  <2>3. s \o <<>> = s
    BY <1>1
  <2> QED
    BY <2>2, <2>3
<1> HIDE DEF s, d
<1>4. Sized(d, r)
  BY <1>2 DEF Sized
<1>5. Unwinding(s, r)
  BY <1>2, <1>1 DEF Unwinding, d
<1>6. Sound(s, r)
  BY <1>3, <1>4, <1>5 DEF Sound, d
<1> QED
  BY <1>6 DEF s

LEMMA SoundTail ==
    ASSUME NEW s \in Seq(Items), s # <<>>, s[1].kind \in Barriers,
           NEW E, NEW r \in Seq(E), Len(Walls(s)) <= Len(r),
           r[1].kind = "while", Sound(s, r)
    PROVE  Sound(Tail(s), Tail(r))
<1> DEFINE t == Tail(s)
           u == Tail(r)
           c == Walls(s)
           d == Walls(t)
<1>1. /\ t \in Seq(Items) /\ Len(t) = Len(s) - 1 /\ Len(s) \in Nat \ {0}
      /\ \A i \in 1..(Len(s) - 1) : t[i] = s[i + 1]
  BY TopOf
<1>2. /\ c = <<s[1]>> \o d /\ s[1] \in Wall /\ d \in Seq(Wall)
  BY WallsTop
<1>3. /\ Len(c) = Len(d) + 1 /\ \A j \in 1..Len(d) : c[j + 1] = d[j]
  <2> HIDE DEF c, d
  <2> QED
    BY <1>2, OnTopOf
<1>4. Len(d) \in Nat /\ Len(d) <= Len(t)
  BY <1>1, WallsFew
<1>5. Piled(s) /\ Sized(c, r) /\ Unwinding(s, r)
  BY DEF Sound
<1>6. Len(r) \in Nat /\ \A i \in 1..(Len(r) - 1) : u[i] = r[i + 1]
  OBVIOUS
<1>7. Piled(t)
  <2>1. 2 \in 1..(Len(s) + 1)
    BY <1>1
  <2>2. Piled(FromTop(s, 2))
    BY <1>5, <2>1, PiledFrom
  <2>3. FromTop(s, 2) = t
    BY DEF FromTop
  <2> QED
    BY <2>2, <2>3
<1> HIDE DEF t, u, c, d
<1>8. ASSUME NEW j \in 1..Len(d)
      PROVE  /\ j + 1 \in 1..Len(c) /\ j \in 1..(Len(r) - 1)
             /\ Loopy(r, j + 1) <=> Loopy(u, j)
  <2>1. j + 1 \in 1..Len(c) /\ j \in 1..(Len(r) - 1)
    BY <1>3, <1>4, <1>6 DEF c
  <2>2. \A i \in 1..j : i \in 1..(Len(r) - 1) /\ i + 1 \in 1..(j + 1)
    BY <2>1, <1>6
  <2>3. \A i \in 1..j : u[i] = r[i + 1]
    BY <1>6, <2>2, Zenon
  <2>4. Loopy(r, j + 1) => Loopy(u, j)
    BY <2>2, <2>3, Zenon DEF Loopy
  <2>5. ASSUME Loopy(u, j) PROVE Loopy(r, j + 1)
    <3>1. SUFFICES ASSUME NEW i \in 1..(j + 1) PROVE r[i].kind = "while"
      BY DEF Loopy
    <3>2. CASE i = 1
      BY <3>2
    <3>3. CASE i # 1
      <4>1. i - 1 \in 1..j /\ (i - 1) + 1 = i
        BY <3>1, <3>3, SMTT(30)
      <4>2. u[i - 1] = r[i]
        BY <2>3, <4>1
      <4> QED
        BY <2>5, <4>1, <4>2 DEF Loopy
    <3> QED
      BY <3>2, <3>3
  <2> QED
    BY <2>1, <2>4, <2>5
<1>9. Sized(d, u)
  <2>1. SUFFICES ASSUME NEW j \in 1..Len(d), d[j].kind = "boundary"
                 PROVE  Loopy(u, j) /\ d[j].size = u[j].size /\ d[j].size > 0
    BY DEF Sized
  <2>2. c[j + 1] = d[j] /\ u[j] = r[j + 1]
    BY <1>3, <1>6, <1>8
  <2>3. j + 1 \in 1..Len(c)
    BY <1>8
  <2>4. Loopy(r, j + 1) /\ c[j + 1].size = r[j + 1].size /\ c[j + 1].size > 0
    BY <1>5, <2>1, <2>2, <2>3, Zenon DEF Sized
  <2> QED
    BY <1>8, <2>2, <2>4
<1>10. Unwinding(t, u)
  <2>1. SUFFICES ASSUME NEW j \in 1..Len(d), d[j].kind = "return_boundary",
                        Loopy(u, j), NEW i \in 1..j
                 PROVE  t[i].kind = "return_boundary"
    BY DEF Unwinding, d
  <2>2. c[j + 1].kind = "return_boundary" /\ Loopy(r, j + 1) /\ j + 1 \in 1..Len(c)
    BY <1>3, <1>8, <2>1
  <2>3. \A e \in 1..(j + 1) : s[e].kind = "return_boundary"
    BY <1>5, <2>2, Zenon DEF Unwinding, c
  <2>4. i + 1 \in 1..(j + 1) /\ i \in 1..(Len(s) - 1)
    BY <1>1, <1>4
  <2> QED
    BY <1>1, <2>3, <2>4, ZenonT(30)
<1>11. Sound(t, u)
  BY <1>7, <1>9, <1>10 DEF Sound, d
<1> QED
  BY <1>11 DEF t, u

LEMMA SizedMore ==
    ASSUME NEW d \in Seq(Wall), NEW E, NEW r \in Seq(E), Sized(d, r),
           Alive(d, r), Len(d) <= Len(r),
           NEW b \in Wall, b.kind = "boundary", b.size > 0,
           NEW e \in E, e.kind = "while", e.size = b.size
    PROVE  Sized(<<b>> \o d, <<e>> \o r) /\ Alive(<<b>> \o d, <<e>> \o r)
<1> DEFINE c == <<b>> \o d
           u == <<e>> \o r
<1>1. c[1] = b /\ Len(c) = Len(d) + 1 /\ \A j \in 1..Len(d) : c[j + 1] = d[j]
  BY OnTopOf
<1>2. u[1] = e /\ \A j \in 1..Len(r) : u[j + 1] = r[j]
  BY OnTopOf
<1>3. Len(d) \in Nat /\ Len(r) \in Nat
  OBVIOUS
<1> HIDE DEF c, u
<1>4. ASSUME NEW j \in 1..Len(d)
      PROVE  Loopy(u, j + 1) <=> Loopy(r, j)
  <2>1. \A i \in 1..j : i \in 1..Len(r) /\ i + 1 \in 1..(j + 1)
    BY <1>3
  <2>2. \A i \in 1..j : u[i + 1] = r[i]
    BY <1>2, <2>1, Zenon
  <2>3. Loopy(u, j + 1) => Loopy(r, j)
    BY <2>1, <2>2, Zenon DEF Loopy
  <2>4. ASSUME Loopy(r, j) PROVE Loopy(u, j + 1)
    <3>1. SUFFICES ASSUME NEW i \in 1..(j + 1) PROVE u[i].kind = "while"
      BY DEF Loopy
    <3>2. CASE i = 1
      BY <1>2, <3>2
    <3>3. CASE i # 1
      <4>1. i - 1 \in 1..j /\ (i - 1) + 1 = i
        BY <3>1, <3>3
      <4>2. u[i] = r[i - 1]
        BY <2>2, <4>1
      <4> QED
        BY <2>4, <4>1, <4>2 DEF Loopy
    <3> QED
      BY <3>2, <3>3
  <2> QED
    BY <2>3, <2>4
<1>5. Loopy(u, 1)
  BY <1>2 DEF Loopy
<1>6. ASSUME NEW j \in 1..Len(c), j # 1
      PROVE  \E i \in 1..Len(d) : j = i + 1
  <2>1. Len(c) = Len(d) + 1 /\ Len(d) \in Nat
    BY <1>1, <1>3
  <2>2. j - 1 \in 1..Len(d) /\ j = (j - 1) + 1
    BY <1>6, <2>1
  <2> QED
    BY <2>2
<1>7. Sized(c, u)
  <2>1. SUFFICES ASSUME NEW j \in 1..Len(c), c[j].kind = "boundary"
                 PROVE  Loopy(u, j) /\ c[j].size = u[j].size /\ c[j].size > 0
    BY DEF Sized
  <2>2. CASE j = 1
    BY <1>1, <1>2, <1>5, <2>2
  <2>3. CASE j # 1
    <3>1. PICK i \in 1..Len(d) : j = i + 1
      BY <1>6, <2>3
    <3>2. i \in 1..Len(r)
      BY <1>3
    <3>3. c[j] = d[i] /\ u[j] = r[i]
      BY <1>1, <1>2, <3>1, <3>2
    <3>4. Loopy(r, i) /\ d[i].size = r[i].size /\ d[i].size > 0
      BY <2>1, <3>3 DEF Sized
    <3>5. Loopy(u, j)
      BY <1>4, <3>1, <3>4
    <3> QED
      BY <3>3, <3>4, <3>5
  <2> QED
    BY <2>2, <2>3
<1>8. Alive(c, u)
  <2>1. SUFFICES ASSUME NEW j \in 1..Len(c), c[j].kind = "return_boundary",
                        Loopy(u, j)
                 PROVE  FALSE
    BY DEF Alive
  <2>2. CASE j = 1
    BY <1>1, <2>1, <2>2
  <2>3. CASE j # 1
    <3>1. PICK i \in 1..Len(d) : j = i + 1
      BY <1>6, <2>3
    <3>2. c[j] = d[i]
      BY <1>1, <3>1
    <3>3. Loopy(r, i)
      BY <1>4, <2>1, <3>1
    <3> QED
      BY <2>1, <3>2, <3>3 DEF Alive
  <2> QED
    BY <2>2, <2>3
<1> QED
  BY <1>7, <1>8 DEF c, u

\* What matters of the runs are their kinds and their sizes.
LEMMA RunsAlike ==
    ASSUME NEW d, NEW n \in Nat, Len(d) <= n, Len(d) \in Nat, NEW r, NEW u,
           \A i \in 1..n : u[i].kind = r[i].kind /\ u[i].size = r[i].size
    PROVE  /\ Sized(d, r) => Sized(d, u)
           /\ Alive(d, r) => Alive(d, u)
<1>1. \A j \in 1..Len(d) : j \in 1..n /\ \A i \in 1..j : i \in 1..n
  OBVIOUS
<1>2. \A j \in 1..Len(d) : Loopy(u, j) <=> Loopy(r, j)
  BY <1>1, Zenon DEF Loopy
<1>3. Sized(d, r) => Sized(d, u)
  BY <1>1, <1>2, Zenon DEF Sized
<1>4. Alive(d, r) => Alive(d, u)
  BY <1>1, <1>2, Zenon DEF Alive
<1> QED
  BY <1>3, <1>4

-----------------------------------------------------------------------------
\* The blocks of a state.

\* The blocks of a state, as those of its stack or of what is below its top.
IsLoopIn(s, i, w) ==
    /\ s[i].kind = "boundary"
    /\ ~(w /\ \A j \in 1..(i - 1) : ~IsBoundary(s[j]))

LeftIn(s, i, t) ==
    IF i = 1 \/ s[i - 1].kind # "loop" \/ (t = "test" /\ i = 2)
    THEN 0 ELSE s[i - 1].left

BlockIn(s, i, t, w) ==
    IF s[i].kind \in BlockKinds \/ IsLoopIn(s, i, w)
    THEN <<IF s[i].kind = "boundary" THEN LoopBlock(s[i], LeftIn(s, i, t))
           ELSE s[i]>>
    ELSE <<>>

BlocksIn(s, t, w) == FlattenSeq([i \in 1..Len(s) |-> BlockIn(s, i, t, w)])

LEMMA BlocksOfIs ==
    /\ BlocksOf(stack) = BlocksIn(stack, tok, want_loop_break)
    /\ BlocksOf(stack)' = BlocksIn(stack', tok', want_loop_break')
<1>1. ASSUME NEW i
      PROVE  /\ Block(stack, i) = BlockIn(stack, i, tok, want_loop_break)
             /\ Block(stack, i)' = BlockIn(stack', i, tok', want_loop_break')
  BY DEF Block, BlockIn, IsLoop, IsLoopIn, AsBlock, LoopBlock, LeftIn, BlockKinds
<1> QED
  BY <1>1 DEF BlocksOf, BlocksIn

LEMMA BlocksPlain ==
    ASSUME NEW s \in Seq(Items), NEW t, t # "test", NEW w, w = FALSE
    PROVE  BlocksIn(s, t, w) = Base(s)
<1>1. ASSUME NEW i \in 1..Len(s) PROVE BlockIn(s, i, t, w) = BlockAt(s, i)
  BY DEF IsLoopIn, LeftIn, LeftOver, BlockKinds, BlockIn, BlockAt
<1>2. [i \in 1..Len(s) |-> BlockIn(s, i, t, w)] = Pieces(s)
  BY <1>1, Zenon DEF Pieces
<1> QED
  BY <1>2 DEF BlocksIn, Base

\* The top makes no block, and what is below it is as if it were not there.
LEMMA BlocksBelow ==
    ASSUME NEW s \in Seq(Items), s # <<>>, NEW t, NEW w,
           BlockIn(s, 1, t, w) = <<>>,
           \A i \in 1..(Len(s) - 1) :
               BlockIn(s, i + 1, t, w) = BlockAt(Tail(s), i)
    PROVE  BlocksIn(s, t, w) = Base(Tail(s))
<1> DEFINE n == Len(s) - 1
           u == Tail(s)
           p == [i \in 1..Len(s) |-> BlockIn(s, i, t, w)]
           q == <<<<>>>>
           r == q \o Pieces(u)
<1>1. u \in Seq(Items) /\ Len(u) = n /\ n \in Nat /\ Len(s) = n + 1
  OBVIOUS
<1>2. /\ Pieces(u) \in Seq(Seq(Blk)) /\ Len(Pieces(u)) = n
      /\ \A i \in 1..n : Pieces(u)[i] = BlockAt(u, i)
  BY <1>1, PiecesType
<1>3. <<>> \in Seq(Blk) /\ q \in Seq(Seq(Blk))
  OBVIOUS
<1> HIDE DEF u, n
<1>4. /\ r \in Seq(Seq(Blk)) /\ Len(r) = Len(Pieces(u)) + 1 /\ r[1] = <<>>
      /\ \A i \in 1..Len(Pieces(u)) : r[i + 1] = Pieces(u)[i]
  <2> DEFINE T == Seq(Blk)
  <2>1. <<>> \in T /\ Pieces(u) \in Seq(T)
    BY <1>2, <1>3
  <2> HIDE DEF T
  <2>2. /\ <<<<>>>> \o Pieces(u) \in Seq(T)
        /\ Len(<<<<>>>> \o Pieces(u)) = Len(Pieces(u)) + 1
        /\ (<<<<>>>> \o Pieces(u))[1] = <<>>
        /\ \A i \in 1..Len(Pieces(u)) :
              (<<<<>>>> \o Pieces(u))[i + 1] = Pieces(u)[i]
    BY <2>1, OnTopOf
  <2> QED
    BY <2>2 DEF T
<1> HIDE DEF r
<1>5. \A i \in 1..(n + 1) : BlockIn(s, i, t, w) = r[i]
  <2>1. SUFFICES ASSUME NEW i \in 1..(n + 1) PROVE BlockIn(s, i, t, w) = r[i]
    OBVIOUS
  <2>2. CASE i = 1
    BY <1>4, <2>2, Zenon
  <2>3. CASE i # 1
    <3>1. i - 1 \in 1..n /\ (i - 1) + 1 = i
      BY <1>1, <2>3
    <3> DEFINE k == i - 1
    <3>2. k \in 1..n /\ k + 1 = i /\ k \in 1..(Len(s) - 1)
      BY <1>1, <3>1
    <3> HIDE DEF k
    <3>3. BlockIn(s, k + 1, t, w) = BlockAt(u, k)
      BY <3>2, Zenon DEF u
    <3>4. r[k + 1] = BlockAt(u, k)
      BY <1>2, <1>4, <3>2, Zenon
    <3> QED
      BY <3>2, <3>3, <3>4
  <2> QED
    BY <2>2, <2>3
<1>6. p = r
  <2>1. p = [i \in 1..(n + 1) |-> BlockIn(s, i, t, w)]
    BY <1>1
  <2>2. r = [i \in 1..(n + 1) |-> r[i]]
    BY <1>2, <1>4
  <2> HIDE DEF p
  <2> QED
    BY <1>5, <2>1, <2>2, Zenon
<1>7. FlattenSeq(r) = FlattenSeq(q) \o FlattenSeq(Pieces(u))
  <2> HIDE DEF q
  <2> QED
    BY <1>2, <1>3, FlattenJoin DEF r
<1>8. FlattenSeq(q) = <<>>
  BY <1>3, FlattenOne
<1>9. Base(u) \in Seq(Blk)
  BY <1>1, PiecesType
<1>10. <<>> \o Base(u) = Base(u)
  BY <1>9
<1> QED
  BY <1>6, <1>7, <1>8, <1>10 DEF BlocksIn, Base, u

LEMMA BlocksTested ==
    ASSUME NEW s \in Seq(Items), Len(s) > 1, s[1].kind = "loop",
           s[2].kind = "boundary", NEW t, t = "test", NEW w, w = FALSE
    PROVE  BlocksIn(s, t, w) = Base(Tail(s))
<1>1. s # <<>> /\ Len(s) \in Nat
  OBVIOUS
<1>2. BlockIn(s, 1, t, w) = <<>>
  BY DEF BlockIn, IsLoopIn, BlockKinds
<1> DEFINE u == Tail(s)
<1>3. /\ u \in Seq(Items) /\ \A i \in 1..(Len(s) - 1) : u[i] = s[i + 1]
  BY <1>1, TopOf
<1> HIDE DEF u
<1>4. ASSUME NEW i \in 1..(Len(s) - 1)
      PROVE  BlockIn(s, i + 1, t, w) = BlockAt(u, i)
  <2>1. u[i] = s[i + 1]
    BY <1>3
  <2>2. IsLoopIn(s, i + 1, w) <=> u[i].kind = "boundary"
    BY <2>1 DEF IsLoopIn
  <2>3. LeftIn(s, i + 1, t) = LeftOver(u, i)
    <3>1. CASE i = 1
      BY <3>1 DEF LeftIn, LeftOver
    <3>2. CASE i # 1
      <4>1. /\ i - 1 \in 1..(Len(s) - 1) /\ (i + 1) - 1 = i /\ (i - 1) + 1 = i
            /\ i + 1 # 1 /\ i + 1 # 2
        BY <1>1, <3>2
      <4>2. u[i - 1] = s[i]
        BY <1>3, <4>1
      <4> QED
        BY <3>2, <4>1, <4>2 DEF LeftIn, LeftOver
    <3> QED
      BY <3>1, <3>2
  <2>4. "boundary" \notin BlockKinds
    BY DEF BlockKinds
  <2> QED
    BY <2>1, <2>2, <2>3, <2>4, Zenon DEF BlockIn, BlockAt
<1> QED
  BY <1>1, <1>2, <1>4, BlocksBelow DEF u

LEMMA BlocksBroken ==
    ASSUME NEW s \in Seq(Items), s # <<>>, s[1].kind = "boundary",
           NEW t, t # "test", NEW w, w = TRUE
    PROVE  BlocksIn(s, t, w) = Base(Tail(s))
<1>1. Len(s) \in Nat
  OBVIOUS
<1>2. BlockIn(s, 1, t, w) = <<>>
  BY DEF IsLoopIn, BlockKinds, BlockIn
<1> DEFINE u == Tail(s)
<1>3. /\ u \in Seq(Items) /\ \A i \in 1..(Len(s) - 1) : u[i] = s[i + 1]
  BY TopOf
<1> HIDE DEF u
<1>4. ASSUME NEW i \in 1..(Len(s) - 1)
      PROVE  BlockIn(s, i + 1, t, w) = BlockAt(u, i)
  <2>1. u[i] = s[i + 1]
    BY <1>3
  <2>2. IsLoopIn(s, i + 1, w) <=> u[i].kind = "boundary"
    BY <2>1 DEF IsBoundary, IsLoopIn
  <2>3. LeftIn(s, i + 1, t) = LeftOver(u, i)
    <3>1. CASE i = 1
      BY <3>1 DEF LeftIn, LeftOver
    <3>2. CASE i # 1
      <4>1. /\ i - 1 \in 1..(Len(s) - 1) /\ (i + 1) - 1 = i /\ (i - 1) + 1 = i
            /\ i + 1 # 1
        BY <1>1, <3>2
      <4>2. u[i - 1] = s[i]
        BY <1>3, <4>1
      <4> QED
        BY <3>2, <4>1, <4>2 DEF LeftIn, LeftOver
    <3> QED
      BY <3>1, <3>2
  <2>4. "boundary" \notin BlockKinds
    BY DEF BlockKinds
  <2> QED
    BY <2>1, <2>2, <2>3, <2>4, Zenon DEF BlockIn, BlockAt
<1> QED
  BY <1>2, <1>4, BlocksBelow DEF u

Now(s, t, w) == IF t = "test" \/ w THEN Base(Tail(s)) ELSE Base(s)

LEMMA NowIs ==
    ASSUME NEW s \in Seq(Items), NEW t, NEW r, NEW w \in BOOLEAN,
           Steady(s, t, r, w)
    PROVE  BlocksIn(s, t, w) = Now(s, t, w)
<1>1. CASE w
  BY <1>1, BlocksBroken DEF Steady, Now
<1>2. CASE ~w /\ t = "test"
  <2>1. /\ Len(s) > 1 /\ s[2].kind = "boundary" /\ s[1] = Body(s[2].size)
        /\ w = FALSE
    BY <1>2 DEF Steady
  <2>2. s[1].kind = "loop"
    BY <2>1 DEF Body, Iterator
  <2> QED
    BY <1>2, <2>1, <2>2, BlocksTested DEF Now
<1>3. CASE ~w /\ t # "test"
  BY <1>3, BlocksPlain DEF Now
<1> QED
  BY <1>1, <1>2, <1>3

-----------------------------------------------------------------------------
\* What the operations do to the blocks.

\* Lines of the innermost block, or of the iterator on top, are read.
Less(x, n) == [x EXCEPT !.left = @ - n]
AfterOf(b, n) == [b EXCEPT ![1].left = @ - n]

LEMMA LessBlock ==
    ASSUME NEW x \in Blk, NEW n \in Nat, n <= x.left
    PROVE  Less(x, n) \in Blk /\ Less(x, n).kind = x.kind
BY DEF Less, Blk

LEMMA LessItem ==
    ASSUME NEW it \in Items, it.kind \in Texts, NEW n \in Nat, n <= it.left
    PROVE  /\ Less(it, n) \in Items /\ Less(it, n).kind = it.kind
           /\ Less(it, n).left = it.left - n
BY DEF Less, Items, Texts, Barriers, Marks

LEMMA ExceptTop ==
    ASSUME NEW E, NEW x \in E, NEW y \in E, NEW d \in Seq(E)
    PROVE  [<<x>> \o d EXCEPT ![1] = y] = <<y>> \o d
<1> DEFINE p == <<x>> \o d
           q == <<y>> \o d
<1>1. /\ p \in Seq(E) /\ Len(p) = Len(d) + 1 /\ p[1] = x
      /\ \A i \in 1..Len(d) : p[i + 1] = d[i]
  BY OnTopOf
<1>2. /\ q \in Seq(E) /\ Len(q) = Len(d) + 1 /\ q[1] = y
      /\ \A i \in 1..Len(d) : q[i + 1] = d[i]
  BY OnTopOf
<1>3. Len(d) \in Nat
  OBVIOUS
<1> HIDE DEF p, q
<1> DEFINE e == [p EXCEPT ![1] = y]
<1>4. 1 \in 1..Len(p)
  BY <1>1, <1>3
<1>5. /\ e \in Seq(E) /\ Len(e) = Len(p) /\ e[1] = y
      /\ \A i \in 1..Len(p) : i # 1 => e[i] = p[i]
  BY <1>1, <1>4
<1> HIDE DEF e
<1>6. ASSUME NEW i \in 1..Len(e) PROVE e[i] = q[i]
  <2>1. CASE i = 1
    BY <1>2, <1>5, <2>1
  <2>2. CASE i # 1
    <3>1. i - 1 \in 1..Len(d) /\ (i - 1) + 1 = i /\ i \in 1..Len(p)
      BY <1>1, <1>3, <1>5, <2>2
    <3>2. e[i] = p[i]
      BY <1>5, <2>2, <3>1
    <3>3. p[i] = d[i - 1] /\ q[i] = d[i - 1]
      BY <1>1, <1>2, <3>1
    <3> QED
      BY <3>2, <3>3
  <2> QED
    BY <2>1, <2>2
<1>7. e = q
  BY <1>1, <1>2, <1>5, <1>6, SameSequence
<1> QED
  BY <1>7 DEF e, p, q

LEMMA AfterTop ==
    ASSUME NEW x \in Blk, NEW d \in Seq(Blk), NEW n \in Nat, n <= x.left
    PROVE  AfterOf(<<x>> \o d, n) = <<Less(x, n)>> \o d
<1> DEFINE p == <<x>> \o d
<1>1. p[1] = x /\ p \in Seq(Blk)
  BY OnTopOf
<1>2. Less(x, n) \in Blk
  BY LessBlock
<1>3. [p EXCEPT ![1] = Less(x, n)] = <<Less(x, n)>> \o d
  BY <1>2, ExceptTop
<1> HIDE DEF p
<1>4. AfterOf(p, n) = [p EXCEPT ![1] = Less(x, n)]
  BY <1>1, Zenon DEF AfterOf, Less
<1> QED
  BY <1>3, <1>4 DEF p

LEMMA TookTop ==
    ASSUME NEW s \in Seq(Items), s # <<>>, s[1].kind \in Texts,
           NEW n \in Nat, n <= s[1].left
    PROVE  Took(s, n) = <<Less(s[1], n)>> \o Tail(s)
<1> DEFINE x == s[1]
           d == Tail(s)
           p == <<x>> \o d
<1>1. x \in Items /\ d \in Seq(Items) /\ s = p
  BY TopOf
<1>2. Less(x, n) \in Items
  BY <1>1, LessItem
<1> HIDE DEF x, d
<1>3. [p EXCEPT ![1] = Less(x, n)] = <<Less(x, n)>> \o d
  BY <1>1, <1>2, ExceptTop
<1> HIDE DEF p
<1>4. Took(s, n) = [s EXCEPT ![1] = Less(s[1], n)]
  BY Zenon DEF Took, Less
<1> QED
  BY <1>1, <1>3, <1>4 DEF x, d

LEMMA TopBlock ==
    ASSUME NEW s \in Seq(Items), Piled(s), s # <<>>, s[1].kind \in Texts,
           NEW n \in Nat, n <= s[1].left
    PROVE  /\ Base(s) \in Seq(Blk) /\ Base(s) # <<>>
           /\ Base(s)[1].left = s[1].left
           /\ Base(Took(s, n)) = AfterOf(Base(s), n)
<1> DEFINE x == s[1]
           d == Tail(s)
           y == Less(x, n)
<1>1. /\ x \in Items /\ d \in Seq(Items) /\ s = <<x>> \o d
      /\ Len(d) = Len(s) - 1 /\ Len(s) \in Nat \ {0}
      /\ \A i \in 1..(Len(s) - 1) : d[i] = s[i + 1]
  BY TopOf
<1>2. y \in Items /\ y.kind = x.kind /\ y.left = x.left - n
  BY <1>1, LessItem
<1>3. Took(s, n) = <<y>> \o d
  BY TookTop
<1>4. Base(s) \in Seq(Blk) /\ Base(d) \in Seq(Blk)
  BY <1>1, PiecesType
<1> HIDE DEF d
<1>5. CASE x.kind # "loop"
  <2>1. x.kind \in BlockKinds
    BY <1>5 DEF Texts, BlockKinds
  <2>2. x \in Blk
    BY <1>1, <2>1, ItemsAre
  <2>3. Base(s) = <<x>> \o Base(d)
    BY <1>1, <1>5, BaseOnTop, <2>1 DEF OneBlock
  <2>4. Base(Took(s, n)) = <<y>> \o Base(d)
    BY <1>1, <1>2, <1>5, BaseOnTop, <2>1, <1>3 DEF OneBlock
  <2>5. AfterOf(<<x>> \o Base(d), n) = <<y>> \o Base(d)
    BY <1>4, <2>2, AfterTop
  <2>6. <<x>> \o Base(d) # <<>> /\ (<<x>> \o Base(d))[1] = x
    BY <1>4, <2>2, OnTopOf
  <2> QED
    BY <1>4, <2>3, <2>4, <2>5, <2>6
<1>6. CASE x.kind = "loop"
  <2>1. Len(s) # 1
    BY <1>6 DEF Piled
  <2>2. 1 \in 1..(Len(s) - 1) /\ d # <<>>
    BY <1>1, <2>1
  <2>3. s[1 + 1].kind = "boundary"
    BY <1>6, <2>2 DEF Piled, MayBeOn
  <2> DEFINE bd == d[1]
             u == Tail(d)
  <2>4. bd \in Items /\ u \in Seq(Items) /\ d = <<bd>> \o u
    BY <1>1, <2>2, TopOf
  <2>5. bd.kind = "boundary"
    BY <1>1, <2>2, <2>3
  <2>6. Base(u) \in Seq(Blk)
    BY <2>4, PiecesType
  <2> HIDE DEF bd, u
  <2>7. \A it \in Items : <<it, bd>> \o u = <<it>> \o d
    <3>1. TAKE it \in Items
    <3>2. <<it, bd>> \o u = <<it>> \o (<<bd>> \o u)
      BY <2>4
    <3> QED
      BY <2>4, <3>2
  <2>8. Base(s) = <<LoopBlock(bd, x.left)>> \o Base(u)
    <3>1. Base(<<x, bd>> \o u) = <<LoopBlock(bd, x.left)>> \o Base(u)
      BY <1>1, <1>6, <2>4, <2>5, BodyOnTop
    <3> QED
      BY <1>1, <2>7, <3>1
  <2>9. Base(Took(s, n)) = <<LoopBlock(bd, y.left)>> \o Base(u)
    <3>1. Base(<<y, bd>> \o u) = <<LoopBlock(bd, y.left)>> \o Base(u)
      BY <1>2, <1>6, <2>4, <2>5, BodyOnTop
    <3> QED
      BY <1>2, <1>3, <2>7, <3>1
  <2> DEFINE z == LoopBlock(bd, x.left)
  <2>10. x.left \in Nat /\ z \in Blk
    BY <1>1, <2>4, ItemsAre
  <2>11. z.left = x.left /\ Less(z, n) = LoopBlock(bd, y.left)
    BY <1>2, <2>4, <2>10 DEF LoopBlock, Less, Items
  <2> HIDE DEF z
  <2>12. AfterOf(<<z>> \o Base(u), n) = <<Less(z, n)>> \o Base(u)
    BY <2>6, <2>10, <2>11, AfterTop
  <2>13. <<z>> \o Base(u) # <<>> /\ (<<z>> \o Base(u))[1] = z
    BY <2>6, <2>10, OnTopOf
  <2>14. Base(s) = <<z>> \o Base(u)
    BY <2>8 DEF z
  <2> QED
    BY <1>4, <2>9, <2>11, <2>12, <2>13, <2>14
<1> QED
  BY <1>5, <1>6

\* A sequence around one of its elements.
Around(c, x, d) == c \o (<<x>> \o d)

IsAround(b, i, E, c, x, d) ==
    /\ b \in Seq(E) /\ Len(b) = Len(c) + 1 + Len(d)
    /\ i \in 1..Len(b) /\ b[i] = x
    /\ SubSeq(b, 1, i - 1) = c /\ SubSeq(b, i + 1, Len(b)) = d
    /\ \A j \in 1..Len(c) : b[j] = c[j]
    /\ \A j \in 1..Len(d) : b[i + j] = d[j]

LEMMA AroundIs ==
    ASSUME NEW E, NEW c \in Seq(E), NEW x \in E, NEW d \in Seq(E)
    PROVE  IsAround(Around(c, x, d), Len(c) + 1, E, c, x, d)
<1> DEFINE u == <<x>> \o d
           b == c \o u
           i == Len(c) + 1
<1>1. /\ u \in Seq(E) /\ Len(u) = Len(d) + 1 /\ u[1] = x
      /\ \A j \in 1..Len(d) : u[j + 1] = d[j]
  BY OnTopOf
<1> HIDE DEF u
<1>2. /\ b \in Seq(E) /\ Len(b) = Len(c) + Len(u)
      /\ \A j \in 1..Len(c) : b[j] = c[j]
      /\ \A j \in 1..Len(u) : b[Len(c) + j] = u[j]
  <2>1. c \in Seq(E) /\ u \in Seq(E)
    BY <1>1
  <2> QED
    BY <2>1, ConcatIs
<1>3. Len(c) \in Nat /\ Len(d) \in Nat
  OBVIOUS
<1> HIDE DEF b
<1>4. Len(b) = Len(c) + 1 + Len(d) /\ i \in 1..Len(b) /\ 1 \in 1..Len(u)
  BY <1>1, <1>2, <1>3
<1>5. b[i] = x
  BY <1>1, <1>2, <1>4
<1>6. ASSUME NEW j \in 1..Len(d) PROVE b[i + j] = d[j]
  BY <1>1, <1>3, <1>2
<1>7. SubSeq(b, 1, i - 1) = c
  <2> DEFINE v == SubSeq(b, 1, i - 1)
  <2>1. /\ v \in Seq(E) /\ Len(v) = Len(c) /\ \A j \in 1..Len(c) : v[j] = b[j]
    BY <1>2, <1>3, <1>4
  <2> HIDE DEF v
  <2>2. \A j \in 1..Len(v) : v[j] = c[j]
    BY <1>2, <2>1
  <2>3. v = c
    BY <2>1, <2>2, SameSequence
  <2> QED
    BY <2>3 DEF v
<1>8. SubSeq(b, i + 1, Len(b)) = d
  <2> DEFINE v == SubSeq(b, i + 1, Len(b))
  <2>1. /\ v \in Seq(E) /\ Len(v) = Len(d) /\ \A j \in 1..Len(d) : v[j] = b[i + j]
    BY <1>2, <1>3, <1>4
  <2> HIDE DEF v
  <2>2. \A j \in 1..Len(v) : v[j] = d[j]
    BY <1>6, <2>1
  <2>3. v = d
    BY <2>1, <2>2, SameSequence
  <2> QED
    BY <2>3 DEF v
<1>9. Around(c, x, d) = b
  BY DEF Around, b, u
<1> QED
  BY <1>2, <1>4, <1>5, <1>6, <1>7, <1>8, <1>9 DEF IsAround

LEMMA AroundChanged ==
    ASSUME NEW E, NEW c \in Seq(E), NEW x \in E, NEW y \in E, NEW d \in Seq(E)
    PROVE  [Around(c, x, d) EXCEPT ![Len(c) + 1] = y] = Around(c, y, d)
<1> DEFINE p == Around(c, x, d)
           q == Around(c, y, d)
           i == Len(c) + 1
<1>1. /\ p \in Seq(E) /\ Len(p) = Len(c) + 1 + Len(d)
      /\ i \in 1..Len(p) /\ p[i] = x
      /\ SubSeq(p, 1, i - 1) = c /\ SubSeq(p, i + 1, Len(p)) = d
      /\ \A j \in 1..Len(c) : p[j] = c[j]
      /\ \A j \in 1..Len(d) : p[i + j] = d[j]
  <2>1. IsAround(p, i, E, c, x, d)
    BY AroundIs
  <2> QED
    BY <2>1, Zenon DEF IsAround
<1>2. /\ q \in Seq(E) /\ Len(q) = Len(c) + 1 + Len(d)
      /\ i \in 1..Len(q) /\ q[i] = y
      /\ SubSeq(q, 1, i - 1) = c /\ SubSeq(q, i + 1, Len(q)) = d
      /\ \A j \in 1..Len(c) : q[j] = c[j]
      /\ \A j \in 1..Len(d) : q[i + j] = d[j]
  <2>1. IsAround(q, i, E, c, y, d)
    BY AroundIs
  <2> QED
    BY <2>1, Zenon DEF IsAround
<1>3. Len(c) \in Nat /\ Len(d) \in Nat
  OBVIOUS
<1> HIDE DEF p, q
<1> DEFINE e == [p EXCEPT ![i] = y]
<1>5. /\ e \in Seq(E) /\ Len(e) = Len(p) /\ e[i] = y
      /\ \A j \in 1..Len(p) : j # i => e[j] = p[j]
  BY <1>1
<1> HIDE DEF e
<1>6. ASSUME NEW j \in 1..Len(e) PROVE e[j] = q[j]
  <2>1. CASE j = i
    BY <1>2, <1>5, <2>1
  <2>2. CASE j < i
    <3>1. j \in 1..Len(c) /\ j \in 1..Len(p) /\ j # i
      BY <1>3, <1>5, <2>2
    <3> QED
      BY <1>1, <1>2, <1>5, <3>1
  <2>3. CASE j > i
    <3> DEFINE k == j - i
    <3>1. k \in 1..Len(d) /\ i + k = j /\ j \in 1..Len(p) /\ j # i
      BY <1>1, <1>3, <1>5, <2>3
    <3> HIDE DEF k
    <3>2. e[j] = p[j]
      BY <1>5, <3>1
    <3>3. p[i + k] = d[k] /\ q[i + k] = d[k]
      BY <1>1, <1>2, <3>1
    <3> QED
      BY <3>1, <3>2, <3>3
  <2> QED
    BY <1>3, <1>5, <2>1, <2>2, <2>3
<1>7. e = q
  BY <1>1, <1>2, <1>5, <1>6, SameSequence
<1> QED
  BY <1>7 DEF e, p, q

\* A stack around its i-th iterator.
LEMMA StackAround ==
    ASSUME NEW s \in Seq(Items), NEW i \in 1..Len(s)
    PROVE  LET a == SubSeq(s, 1, i - 1)
               b == FromTop(s, i + 1)
           IN  /\ a \in Seq(Items) /\ b \in Seq(Items) /\ s[i] \in Items
               /\ s = Around(a, s[i], b) /\ Len(a) + 1 = i
               /\ Len(b) = Len(s) - i
               /\ \A j \in 1..(i - 1) : a[j] = s[j]
<1> DEFINE a == SubSeq(s, 1, i - 1)
           b == FromTop(s, i + 1)
<1>1. /\ a \in Seq(Items) /\ b \in Seq(Items) /\ s[i] \in Items
      /\ s = (a \o <<s[i]>>) \o b /\ s = a \o (<<s[i]>> \o b)
      /\ FromTop(s, i) = <<s[i]>> \o b
      /\ Len(a) = i - 1 /\ Len(b) = Len(s) - i
      /\ \A j \in 1..(i - 1) : a[j] = s[j]
      /\ \A j \in 1..(Len(s) - i) : b[j] = s[i + j]
  BY SplitAround
<1> HIDE DEF a, b
<1>2. Len(a) + 1 = i
  BY <1>1
<1>3. s = Around(a, s[i], b)
  BY <1>1, Zenon DEF Around
<1> QED
  BY <1>1, <1>2, <1>3 DEF a, b

\* The blocks around an iterator that makes one.
LEMMA BlocksAround ==
    ASSUME NEW a \in Seq(Items), NEW x \in Items, NEW b \in Seq(Items),
           x.kind \in BlockKinds
    PROVE  Base(Around(a, x, b)) = Around(Base(a), x, Base(b))
<1> DEFINE s == Around(a, x, b)
           i == Len(a) + 1
<1>1. /\ s \in Seq(Items) /\ Len(s) = Len(a) + 1 + Len(b)
      /\ i \in 1..Len(s) /\ s[i] = x
      /\ SubSeq(s, 1, i - 1) = a /\ SubSeq(s, i + 1, Len(s)) = b
      /\ \A j \in 1..Len(a) : s[j] = a[j]
      /\ \A j \in 1..Len(b) : s[i + j] = b[j]
  <2>1. IsAround(s, i, Items, a, x, b)
    BY AroundIs
  <2> QED
    BY <2>1, Zenon DEF IsAround
<1> HIDE DEF s, i
<1>2. s[i].kind # "loop"
  BY <1>1 DEF BlockKinds
<1>3. Base(s) = Base(SubSeq(s, 1, i - 1)) \o (BlockAt(s, i) \o Base(FromTop(s, i + 1)))
  BY <1>1, <1>2, BaseAround
<1>4. BlockAt(s, i) = <<x>> /\ FromTop(s, i + 1) = b
  BY <1>1 DEF BlockAt, FromTop
<1>5. Base(s) = Base(a) \o (<<x>> \o Base(b))
  BY <1>1, <1>3, <1>4
<1> QED
  BY <1>5 DEF s, Around

\* The first iterator of a kind makes the first block of it.
LEMMA KindFound ==
    ASSUME NEW a \in Seq(Items), NEW x \in Items, NEW b \in Seq(Items),
           NEW kind \in BlockKinds, x.kind = kind,
           \A j \in 1..Len(a) : a[j].kind # kind
    PROVE  /\ Base(a) \in Seq(Blk) /\ Base(b) \in Seq(Blk) /\ x \in Blk
           /\ Base(Around(a, x, b)) = Around(Base(a), x, Base(b))
           /\ Promise!FirstOf(Base(Around(a, x, b)), kind) = Len(Base(a)) + 1
<1>1. Base(a) \in Seq(Blk) /\ Base(b) \in Seq(Blk) /\ x \in Blk
  BY PiecesType, ItemsAre
<1>2. Base(Around(a, x, b)) = Around(Base(a), x, Base(b))
  BY BlocksAround
<1>3. kind # "loop"
  BY DEF BlockKinds
<1>4. \A j \in 1..Len(Base(a)) : Base(a)[j].kind # kind
  BY <1>3, BaseLacks
<1> DEFINE c == Base(a)
           d == <<x>> \o Base(b)
<1>5. d \in Seq(Blk) /\ d[1] = x
  BY <1>1, OnTopOf
<1> HIDE DEF d
<1>6. Promise!FirstOf(c \o d, kind) = Len(c) + 1
  <2>1. d # <<>> => d[1].kind = kind
    BY <1>5
  <2> HIDE DEF c
  <2>2. c \in Seq(Blk) /\ \A j \in 1..Len(c) : c[j].kind # kind
    BY <1>1, <1>4 DEF c
  <2> QED
    BY <1>5, <2>1, <2>2, FirstOfIs
<1> QED
  BY <1>1, <1>2, <1>6 DEF Around, d

LEMMA KindLacks ==
    ASSUME NEW s \in Seq(Items), NEW kind \in BlockKinds,
           \A j \in 1..Len(s) : s[j].kind # kind
    PROVE  /\ Base(s) \in Seq(Blk)
           /\ \A j \in 1..Len(Base(s)) : Base(s)[j].kind # kind
           /\ Promise!FirstOf(Base(s), kind) = Len(Base(s)) + 1
<1> DEFINE c == Base(s)
<1>1. c \in Seq(Blk)
  BY PiecesType
<1>2. kind # "loop"
  BY DEF BlockKinds
<1>3. \A j \in 1..Len(c) : c[j].kind # kind
  BY <1>2, BaseLacks
<1> HIDE DEF c
<1>4. <<>> \in Seq(Blk) /\ c \o <<>> = c
  BY <1>1
<1>5. <<>> # <<>> => <<>>[1].kind = kind
  OBVIOUS
<1>6. Promise!FirstOf(c \o <<>>, kind) = Len(c) + 1
  BY <1>1, <1>3, <1>4, <1>5, FirstOfIs
<1> QED
  BY <1>1, <1>3, <1>4, <1>6 DEF c

\* The stack around the first file, or the first macro.
LEMMA FileSplit ==
    ASSUME NEW s \in Seq(Items), FileAt(s) <= Len(s)
    PROVE  LET i == FileAt(s)
               a == SubSeq(s, 1, i - 1)
               b == FromTop(s, i + 1)
           IN  /\ i \in 1..Len(s)
               /\ a \in Seq(Items) /\ b \in Seq(Items) /\ s[i] \in Items
               /\ s = Around(a, s[i], b) /\ Len(a) + 1 = i
               /\ s[i].kind = "file" /\ \A j \in 1..Len(a) : a[j].kind # "file"
<1> DEFINE i == FileAt(s)
           a == SubSeq(s, 1, i - 1)
           b == FromTop(s, i + 1)
<1>1. /\ i \in 1..(Len(s) + 1)
      /\ i <= Len(s) => IsFile(s[i])
      /\ \A j \in 1..(i - 1) : ~IsFile(s[j])
  BY FileFound
<1>2. i \in 1..Len(s) /\ s[i].kind = "file"
  BY <1>1 DEF IsFile
<1> HIDE DEF i
<1>3. /\ a \in Seq(Items) /\ b \in Seq(Items) /\ s[i] \in Items
      /\ s = Around(a, s[i], b) /\ Len(a) + 1 = i
      /\ Len(b) = Len(s) - i
      /\ \A j \in 1..(i - 1) : a[j] = s[j]
  BY <1>2, StackAround
<1> HIDE DEF a, b
<1>4. \A j \in 1..Len(a) : a[j].kind # "file"
  BY <1>2, <1>3, <1>1 DEF IsFile
<1> QED
  BY <1>2, <1>3, <1>4 DEF a, b, i

LEMMA MacroSplit ==
    ASSUME NEW s \in Seq(Items), MacroAt(s) <= Len(s)
    PROVE  LET i == MacroAt(s)
               a == SubSeq(s, 1, i - 1)
               b == FromTop(s, i + 1)
           IN  /\ i \in 1..Len(s)
               /\ a \in Seq(Items) /\ b \in Seq(Items) /\ s[i] \in Items
               /\ s = Around(a, s[i], b) /\ Len(a) + 1 = i
               /\ s[i].kind = "macro" /\ \A j \in 1..Len(a) : a[j].kind # "macro"
<1> DEFINE i == MacroAt(s)
           a == SubSeq(s, 1, i - 1)
           b == FromTop(s, i + 1)
<1>1. /\ i \in 1..(Len(s) + 1)
      /\ i <= Len(s) => IsMacro(s[i])
      /\ \A j \in 1..(i - 1) : ~IsMacro(s[j])
  BY MacroFound
<1>2. i \in 1..Len(s) /\ s[i].kind = "macro"
  BY <1>1 DEF IsMacro
<1> HIDE DEF i
<1>3. /\ a \in Seq(Items) /\ b \in Seq(Items) /\ s[i] \in Items
      /\ s = Around(a, s[i], b) /\ Len(a) + 1 = i
      /\ Len(b) = Len(s) - i
      /\ \A j \in 1..(i - 1) : a[j] = s[j]
  BY <1>2, StackAround
<1> HIDE DEF a, b
<1>4. \A j \in 1..Len(a) : a[j].kind # "macro"
  BY <1>2, <1>3, <1>1 DEF IsMacro
<1> QED
  BY <1>2, <1>3, <1>4 DEF a, b, i

\* There is none.
LEMMA NoFile ==
    ASSUME NEW s \in Seq(Items), ~(FileAt(s) <= Len(s))
    PROVE  FileAt(s) = Len(s) + 1 /\ \A j \in 1..Len(s) : s[j].kind # "file"
<1>1. /\ FileAt(s) \in 1..(Len(s) + 1)
      /\ \A j \in 1..(FileAt(s) - 1) : ~IsFile(s[j])
  BY FileFound
<1>2. FileAt(s) = Len(s) + 1 /\ FileAt(s) - 1 = Len(s)
  BY <1>1
<1> QED
  BY <1>1, <1>2 DEF IsFile

LEMMA NoMacro ==
    ASSUME NEW s \in Seq(Items), ~(MacroAt(s) <= Len(s))
    PROVE  MacroAt(s) = Len(s) + 1 /\ \A j \in 1..Len(s) : s[j].kind # "macro"
<1>1. /\ MacroAt(s) \in 1..(Len(s) + 1)
      /\ \A j \in 1..(MacroAt(s) - 1) : ~IsMacro(s[j])
  BY MacroFound
<1>2. MacroAt(s) = Len(s) + 1 /\ MacroAt(s) - 1 = Len(s)
  BY <1>1
<1> QED
  BY <1>1, <1>2 DEF IsMacro

\* Behind the last one.
LEMMA BehindAll ==
    ASSUME NEW E, NEW b \in Seq(E)
    PROVE  /\ SubSeq(b, 1, (Len(b) + 1) - 1) = b
           /\ SubSeq(b, (Len(b) + 1) + 1, Len(b)) = <<>>
           /\ b \o <<>> = b
OBVIOUS

LEMMA BaseEndFile ==
    ASSUME NEW s \in Seq(Items), Piled(s)
    PROVE  Base(EndFile(s)) = Promise!EndFile(Base(s))
<1>0. "file" \in BlockKinds
  BY DEF BlockKinds
<1>1. CASE FileAt(s) <= Len(s)
  <2> DEFINE i == FileAt(s)
             a == SubSeq(s, 1, i - 1)
             b == FromTop(s, i + 1)
             x == s[i]
  <2>1. /\ i \in 1..Len(s)
        /\ a \in Seq(Items) /\ b \in Seq(Items) /\ x \in Items
        /\ s = Around(a, x, b) /\ Len(a) + 1 = i
        /\ x.kind = "file" /\ \A j \in 1..Len(a) : a[j].kind # "file"
    BY <1>1, FileSplit
  <2>2. EndFile(s) = a \o b
    BY DEF EndFile, FileAt
  <2>3. Seam(a, b)
    <3>1. CASE a = <<>>
      BY <3>1 DEF Seam
    <3>2. CASE a # <<>>
      <4>1. i - 1 \in 1..(Len(s) - 1) /\ (i - 1) + 1 = i
        BY <2>1, <3>2
      <4>2. MayBeOn(s[i - 1].kind, s[i].kind)
        BY <4>1 DEF Piled
      <4>3. a[Len(a)] = s[i - 1]
        BY <2>1, <4>1
      <4> QED
        BY <2>1, <4>2, <4>3 DEF Seam, MayBeOn
    <3> QED
      BY <3>1, <3>2
  <2> HIDE DEF i, a, b, x
  <2>4. Base(a \o b) = Base(a) \o Base(b)
    BY <2>1, <2>3, BaseJoin
  <2> DEFINE c == Base(a)
             d == Base(b)
  <2>5. /\ c \in Seq(Blk) /\ d \in Seq(Blk) /\ x \in Blk
        /\ Base(s) = Around(c, x, d)
        /\ Promise!FirstOf(Base(s), "file") = Len(c) + 1
    BY <1>0, <2>1, KindFound, SMTT(30)
  <2> HIDE DEF c, d
  <2>6. IsAround(Base(s), Len(c) + 1, Blk, c, x, d)
    BY <2>5, AroundIs
  <2>7. Promise!EndFile(Base(s)) = c \o d
    BY <2>6, <2>5, Zenon DEF IsAround, Promise!EndFile, Promise!From
  <2> QED
    BY <2>2, <2>4, <2>7 DEF c, d
<1>2. CASE ~(FileAt(s) <= Len(s))
  <2>1. FileAt(s) = Len(s) + 1 /\ \A j \in 1..Len(s) : s[j].kind # "file"
    BY <1>2, NoFile
  <2>2. EndFile(s) = s
    BY BehindAll, <2>1 DEF EndFile, FileAt, FromTop
  <2>3. /\ Base(s) \in Seq(Blk)
        /\ Promise!FirstOf(Base(s), "file") = Len(Base(s)) + 1
    BY <1>0, <2>1, KindLacks
  <2> DEFINE c == Base(s)
  <2>4. Promise!EndFile(c) = c
    BY <2>3, BehindAll DEF Promise!EndFile, Promise!From
  <2> QED
    BY <2>2, <2>4
<1> QED
  BY <1>1, <1>2

LEMMA BaseNextFile ==
    ASSUME NEW s \in Seq(Items), NEW size \in Nat
    PROVE  Base(NextFile(s, size)) = Promise!NextFile(Base(s), size)
<1>0. "file" \in BlockKinds
  BY DEF BlockKinds
<1> DEFINE it == Iterator("file", size, 0, size)
<1>9. /\ it \in Items /\ it.kind = "file" /\ it.kind \in BlockKinds
      /\ it = Promise!Block("file", size, 0, size)
  BY <1>0 DEF Iterator, Items, Texts, Barriers, Marks, Promise!Block
<1> HIDE DEF it
<1>1. CASE FileAt(s) <= Len(s)
  <2> DEFINE i == FileAt(s)
             a == SubSeq(s, 1, i - 1)
             b == FromTop(s, i + 1)
             x == s[i]
  <2>1. /\ i \in 1..Len(s)
        /\ a \in Seq(Items) /\ b \in Seq(Items) /\ x \in Items
        /\ s = Around(a, x, b) /\ Len(a) + 1 = i
        /\ x.kind = "file" /\ \A j \in 1..Len(a) : a[j].kind # "file"
    BY <1>1, FileSplit
  <2>2. NextFile(s, size) = (a \o <<it>>) \o b
    BY DEF NextFile, FileAt, it
  <2> HIDE DEF i, a, b, x
  <2>3. (a \o <<it>>) \o b = Around(a, it, b)
    BY <1>9, <2>1 DEF Around
  <2>4. Base(Around(a, it, b)) = Around(Base(a), it, Base(b))
    BY <1>9, <2>1, BlocksAround
  <2> DEFINE c == Base(a)
             d == Base(b)
  <2>5. /\ c \in Seq(Blk) /\ d \in Seq(Blk) /\ x \in Blk
        /\ Base(s) = Around(c, x, d)
        /\ Promise!FirstOf(Base(s), "file") = Len(c) + 1
    BY <1>0, <2>1, KindFound, SMTT(30)
  <2>6. it \in Blk
    BY <1>9, ItemsAre
  <2> HIDE DEF c, d
  <2>7. IsAround(Base(s), Len(c) + 1, Blk, c, x, d)
    BY <2>5, AroundIs
  <2>8. Promise!NextFile(Base(s), size) = (c \o <<it>>) \o d
    BY <2>7, <1>9, <2>5, Zenon DEF IsAround, Promise!NextFile, Promise!From
  <2>9. (c \o <<it>>) \o d = Around(c, it, d)
    BY <2>5, <2>6 DEF Around
  <2> QED
    BY <2>2, <2>3, <2>4, <2>8, <2>9 DEF c, d
<1>2. CASE ~(FileAt(s) <= Len(s))
  <2>1. FileAt(s) = Len(s) + 1 /\ \A j \in 1..Len(s) : s[j].kind # "file"
    BY <1>2, NoFile
  <2>2. NextFile(s, size) = s \o <<it>>
    BY <1>9, PutBelowIs, <2>1 DEF NextFile, FileAt, Put, it
  <2> DEFINE c == Base(s)
             u == s \o <<it>>
  <2>3. c \in Seq(Blk) /\ Promise!FirstOf(c, "file") = Len(c) + 1
    BY <1>0, <2>1, KindLacks
  <2>4. Base(u) = c \o <<it>>
    <3>1. Base(u) = c \o BlockAt(u, Len(s) + 1)
      BY <1>9, BaseLast
    <3>2. /\ u \in Seq(Items) /\ Len(u) = Len(s) + 1
          /\ \A j \in 1..Len(s) : u[j] = s[j]
          /\ u[Len(s) + 1] = it
      BY <1>9, OneMore
    <3> HIDE DEF u
    <3>3. BlockAt(u, Len(s) + 1) = <<it>>
      BY <1>9, <3>2 DEF BlockAt
    <3> QED
      BY <3>1, <3>3
  <2>5. it \in Blk
    BY <1>9, ItemsAre
  <2> HIDE DEF c
  <2>6. Promise!NextFile(c, size) = (c \o <<it>>) \o <<>>
    BY <2>3, BehindAll, <1>9 DEF Promise!NextFile, Promise!From
  <2>7. (c \o <<it>>) \o <<>> = c \o <<it>>
    BY <2>3, <2>5
  <2> QED
    BY <2>2, <2>4, <2>6, <2>7 DEF c
<1> QED
  BY <1>1, <1>2

LEMMA BaseArgs ==
    ASSUME NEW s \in Seq(Items)
    PROVE  ArgsOf(s) = Promise!ArgsOf(Base(s))
<1>0. "macro" \in BlockKinds
  BY DEF BlockKinds
<1>1. CASE MacroAt(s) <= Len(s)
  <2> DEFINE i == MacroAt(s)
             a == SubSeq(s, 1, i - 1)
             b == FromTop(s, i + 1)
             x == s[i]
  <2>1. /\ i \in 1..Len(s)
        /\ a \in Seq(Items) /\ b \in Seq(Items) /\ x \in Items
        /\ s = Around(a, x, b) /\ Len(a) + 1 = i
        /\ x.kind = "macro" /\ \A j \in 1..Len(a) : a[j].kind # "macro"
    BY <1>1, MacroSplit
  <2>2. ArgsOf(s) = x.args
    BY <1>1 DEF ArgsOf, MacroAt
  <2> HIDE DEF i, a, b, x
  <2> DEFINE c == Base(a)
             d == Base(b)
  <2>3. /\ c \in Seq(Blk) /\ d \in Seq(Blk) /\ x \in Blk
        /\ Base(s) = Around(c, x, d)
        /\ Promise!FirstOf(Base(s), "macro") = Len(c) + 1
    BY <1>0, <2>1, KindFound, SMTT(30)
  <2> HIDE DEF c, d
  <2>4. IsAround(Base(s), Len(c) + 1, Blk, c, x, d)
    BY <2>3, AroundIs
  <2>5. Len(c) + 1 <= Len(Base(s)) /\ Base(s)[Len(c) + 1] = x
    BY <2>3, <2>4 DEF IsAround
  <2>6. Promise!ArgsOf(Base(s)) = x.args
    BY <2>3, <2>5, Zenon DEF Promise!ArgsOf
  <2> QED
    BY <2>2, <2>6
<1>2. CASE ~(MacroAt(s) <= Len(s))
  BY <1>2, NoMacro, <1>0, KindLacks DEF Promise!ArgsOf, ArgsOf, MacroAt
<1> QED
  BY <1>1, <1>2

\* Arguments are dropped.
Fewer(x, n) == [x EXCEPT !.args = IF n < @ THEN @ - n ELSE 0]
ShiftOf(b, i, n) == [b EXCEPT ![i].args = IF n < @ THEN @ - n ELSE 0]

LEMMA ShiftIs ==
    ASSUME NEW b, NEW i, NEW n
    PROVE  ShiftOf(b, i, n) = [b EXCEPT ![i] = Fewer(b[i], n)]
BY Zenon DEF ShiftOf, Fewer

LEMMA FewerIs ==
    ASSUME NEW x \in Items, x.kind = "macro", NEW n \in Nat
    PROVE  /\ Fewer(x, n) \in Items /\ Fewer(x, n).kind = "macro"
           /\ Fewer(x, n) \in Blk
<1>1. Fewer(x, n) \in Items /\ Fewer(x, n).kind = "macro"
  BY DEF Fewer, Items, Texts, Barriers, Marks
<1>2. Fewer(x, n).kind \in BlockKinds
  BY <1>1 DEF BlockKinds
<1> QED
  BY <1>1, <1>2, ItemsAre

LEMMA BaseShifted ==
    ASSUME NEW s \in Seq(Items), NEW n \in Nat
    PROVE  LET b == Base(s)
               i == Promise!FirstOf(b, "macro")
           IN  Base(Shifted(s, n)) = IF i > Len(b) THEN b ELSE ShiftOf(b, i, n)
<1>0. "macro" \in BlockKinds
  BY DEF BlockKinds
<1>1. CASE MacroAt(s) <= Len(s)
  <2> DEFINE i == MacroAt(s)
             a == SubSeq(s, 1, i - 1)
             b == FromTop(s, i + 1)
             x == s[i]
             y == Fewer(x, n)
  <2>1. /\ i \in 1..Len(s)
        /\ a \in Seq(Items) /\ b \in Seq(Items) /\ x \in Items
        /\ s = Around(a, x, b) /\ Len(a) + 1 = i
        /\ x.kind = "macro" /\ \A j \in 1..Len(a) : a[j].kind # "macro"
    BY <1>1, MacroSplit
  <2>2. y \in Items /\ y.kind = "macro" /\ y \in Blk
    BY <2>1, FewerIs
  <2>3. Shifted(s, n) = [s EXCEPT ![i] = y]
    <3>1. ~(i > Len(s))
      BY <2>1
    <3>2. Shifted(s, n) = ShiftOf(s, i, n)
      BY <3>1, Zenon DEF Shifted, ShiftOf, MacroAt
    <3> QED
      BY <3>2, ShiftIs
  <2> HIDE DEF i, a, b, x, y
  <2>4. Shifted(s, n) = Around(a, y, b)
    BY <2>1, <2>2, AroundChanged, <2>3
  <2> DEFINE c == Base(a)
             d == Base(b)
  <2>5. Base(Around(a, y, b)) = Around(c, y, d)
    BY <1>0, <2>1, <2>2, BlocksAround
  <2>6. /\ c \in Seq(Blk) /\ d \in Seq(Blk) /\ x \in Blk
        /\ Base(s) = Around(c, x, d)
        /\ Promise!FirstOf(Base(s), "macro") = Len(c) + 1
    BY <1>0, <2>1, KindFound, SMTT(30)
  <2> HIDE DEF c, d
  <2>7. IsAround(Base(s), Len(c) + 1, Blk, c, x, d)
    BY <2>6, AroundIs
  <2>8. ~(Len(c) + 1 > Len(Base(s))) /\ Base(s)[Len(c) + 1] = x
    BY <2>6, <2>7 DEF IsAround
  <2>9. ShiftOf(Base(s), Len(c) + 1, n) = Around(c, y, d)
    <3>1. ShiftOf(Base(s), Len(c) + 1, n) = [Base(s) EXCEPT ![Len(c) + 1] = y]
      BY <2>8, ShiftIs, Zenon DEF y
    <3>2. [Around(c, x, d) EXCEPT ![Len(c) + 1] = y] = Around(c, y, d)
      BY <2>2, <2>6, AroundChanged
    <3> QED
      BY <2>6, <3>1, <3>2, Zenon
  <2> QED
    BY <2>4, <2>5, <2>6, <2>8, <2>9, Zenon
<1>2. CASE ~(MacroAt(s) <= Len(s))
  BY <1>2, NoMacro, <1>0, KindLacks DEF Shifted, MacroAt
<1> QED
  BY <1>1, <1>2

\* Reading lines of the innermost block changes no kind.
LEMMA FirstOfAfter ==
    ASSUME NEW b \in Seq(Blk), b # <<>>, NEW n \in Nat, n <= b[1].left, NEW kind
    PROVE  /\ Promise!FirstOf(AfterOf(b, n), kind) = Promise!FirstOf(b, kind)
           /\ Len(AfterOf(b, n)) = Len(b)
<1> DEFINE e == AfterOf(b, n)
           x == b[1]
           d == Tail(b)
           y == Less(x, n)
<1>1. /\ x \in Blk /\ d \in Seq(Blk) /\ b = <<x>> \o d
      /\ Len(d) = Len(b) - 1 /\ Len(b) \in Nat \ {0}
      /\ \A i \in 1..(Len(b) - 1) : d[i] = b[i + 1]
  BY TopOf
<1>2. y \in Blk /\ y.kind = x.kind
  BY <1>1, LessBlock
<1> HIDE DEF d
<1>3. e = <<y>> \o d
  BY <1>1, AfterTop
<1> HIDE DEF x, y
<1>4. /\ <<y>> \o d \in Seq(Blk) /\ Len(<<y>> \o d) = Len(d) + 1
      /\ (<<y>> \o d)[1] = y /\ Tail(<<y>> \o d) = d /\ <<y>> \o d # <<>>
      /\ \A i \in 1..Len(d) : (<<y>> \o d)[i + 1] = d[i]
  BY <1>1, <1>2, OnTopOf
<1> HIDE DEF e
<1>5. Len(e) = Len(b) /\ \A i \in 1..Len(b) : e[i].kind = b[i].kind
  <2>1. Len(e) = Len(b)
    BY <1>1, <1>3, <1>4
  <2>2. ASSUME NEW i \in 1..Len(b) PROVE e[i].kind = b[i].kind
    <3>1. CASE i = 1
      BY <1>2, <1>3, <1>4, <3>1 DEF x
    <3>2. CASE i # 1
      BY <1>1, <3>2, <1>3, <1>4
    <3> QED
      BY <3>1, <3>2
  <2> QED
    BY <2>1, <2>2
<1>6. ASSUME NEW i \in 1..(Len(b) + 1)
      PROVE  /\ (i <= Len(e) => e[i].kind = kind) <=> (i <= Len(b) => b[i].kind = kind)
             /\ (\A j \in 1..(i - 1) : e[j].kind # kind)
                    <=> (\A j \in 1..(i - 1) : b[j].kind # kind)
  <2>1. Len(b) \in Nat
    BY <1>1
  <2>2. i <= Len(b) => e[i].kind = b[i].kind
    BY <1>5, <2>1
  <2>3. \A j \in 1..(i - 1) : e[j].kind = b[j].kind
    BY <1>5, <2>1
  <2> QED
    BY <1>5, <2>2, <2>3, Zenon
<1>7. Promise!FirstOf(e, kind) = Promise!FirstOf(b, kind)
  BY <1>5, <1>6, Zenon DEF Promise!FirstOf
<1> QED
  BY <1>5, <1>7 DEF e

NoBlocks == {"begin_trap", "end_trap", "return_boundary", "loop"}

\* Iterators that make no block.
LEMMA BaseNothing ==
    ASSUME NEW s \in Seq(Items), \A i \in 1..Len(s) : s[i].kind \in NoBlocks
    PROVE  Base(s) = <<>>
<1>1. ASSUME NEW i \in 1..Len(s) PROVE BlockAt(s, i) \in Seq({})
  BY DEF NoBlocks, BlockKinds, BlockAt
<1>2. Base(s) \in Seq({})
  BY <1>1, PiecesIn
<1> QED
  BY <1>2

LEMMA BaseReturns ==
    ASSUME NEW k \in Nat, NEW s \in Seq(Items)
    PROVE  Base(ReturnBoundaries(k) \o s) = Base(s)
<1> DEFINE a == ReturnBoundaries(k)
<1>1. /\ a \in Seq(Items) /\ Len(a) = k
      /\ \A j \in 1..k : a[j].kind = "return_boundary"
  BY OnlyReturns
<1> HIDE DEF a
<1>2. Seam(a, s)
  <2>1. CASE a = <<>>
    BY <2>1 DEF Seam
  <2>2. CASE a # <<>>
    BY <1>1, <2>2 DEF Seam
  <2> QED
    BY <2>1, <2>2
<1>3. Base(a) = <<>>
  BY <1>1, BaseNothing DEF NoBlocks
<1>4. Base(a \o s) = Base(a) \o Base(s)
  BY <1>1, <1>2, BaseJoin
<1>5. Base(s) \in Seq(Blk)
  BY PiecesType
<1>6. <<>> \o Base(s) = Base(s)
  BY <1>5
<1> QED
  BY <1>3, <1>4, <1>6 DEF a

LEMMA BasePopped ==
    ASSUME NEW s \in Seq(Items), NEW n \in 0..Len(s)
    PROVE  Base(Popped(s, n)) = Base(FromTop(s, n + 1))
<1>1. SubSeq(s, 1, n) \in Seq(Items) /\ FromTop(s, n + 1) \in Seq(Items)
  BY SplitAt
<1> DEFINE a == SubSeq(s, 1, n)
           k == Boundaries(a)
           t == FromTop(s, n + 1)
<1>2. k \in Nat
  <2> HIDE DEF a
  <2>1. k = Depth(a, Len(a))
    BY <1>1, BoundariesDepth DEF a
  <2>2. Len(a) \in Int
    BY <1>1 DEF a
  <2> QED
    BY <2>1, <2>2, DepthNat
<1> HIDE DEF k
<1>3. Base(ReturnBoundaries(k) \o t) = Base(t)
  BY <1>1, <1>2, BaseReturns
<1> QED
  BY <1>3 DEF Popped, k

\* Where the bottom makes no block, nothing does.
LEMMA NothingAbove ==
    ASSUME NEW s \in Seq(Items), s # <<>>, Piled(s), NoBegin(s),
           \A j \in 1..Len(s) : s[j].kind # "macro",
           s[Len(s)].kind \in {"end_trap", "return_boundary"}
    PROVE  Base(s) = <<>>
<1> DEFINE S == {m \in Nat : m < Len(s) =>
                    s[Len(s) - m].kind \in {"end_trap", "return_boundary"}}
<1>1. Len(s) \in Nat
  OBVIOUS
<1>2. S \in SUBSET Nat /\ 0 \in S
  BY <1>1
<1>3. ASSUME NEW m \in S PROVE m + 1 \in S
  <2>1. m \in Nat /\ (m < Len(s) =>
            s[Len(s) - m].kind \in {"end_trap", "return_boundary"})
    OBVIOUS
  <2> HIDE DEF S
  <2>2. ASSUME m + 1 < Len(s)
        PROVE  s[Len(s) - (m + 1)].kind \in {"end_trap", "return_boundary"}
    <3> DEFINE i == Len(s) - (m + 1)
    <3>1. /\ i \in 1..(Len(s) - 1) /\ i \in 1..Len(s) /\ i + 1 = Len(s) - m
          /\ m < Len(s)
      BY <1>1, <2>1, <2>2
    <3> HIDE DEF i
    <3>2. MayBeOn(s[i].kind, s[i + 1].kind) /\ s[i].kind # "macro"
      BY <3>1 DEF Piled
    <3>3. s[i + 1].kind \in {"end_trap", "return_boundary"}
      BY <2>1, <3>1
    <3> QED
      BY <3>2, <3>3 DEF MayBeOn, i
  <2> QED
    BY <2>1, <2>2 DEF S
<1>4. S = Nat
  <2> HIDE DEF S
  <2> QED
    BY <1>2, <1>3, Induct
<1>5. ASSUME NEW i \in 1..Len(s) PROVE s[i].kind \in NoBlocks
  <2> DEFINE m == Len(s) - i
  <2>1. m \in Nat /\ m < Len(s) /\ Len(s) - m = i
    BY <1>1
  <2> HIDE DEF m
  <2>2. m \in S
    BY <1>4, <2>1
  <2>3. s[Len(s) - m].kind \in {"end_trap", "return_boundary"}
    BY <2>1, <2>2
  <2> QED
    BY <2>1, <2>3 DEF NoBlocks
<1> QED
  BY <1>5, BaseNothing

LEMMA PopMacroIs ==
    ASSUME NEW s \in Seq(Items), s # <<>>
    PROVE  PopMacro(s) = Popped(s, IF MacroAt(s) <= Len(s) - 1 THEN MacroAt(s)
                                   ELSE Len(s) - 1)
<1>1. MacroAt(s) \in 1..(Len(s) + 1)
  BY MacroFound
<1>2. MacroAt(s) \in Int /\ Len(s) - 1 \in Int
  BY <1>1
<1> DEFINE m == MacroAt(s)
           n == Len(s) - 1
<1> HIDE DEF m, n
<1>3. Min({m, n}) = IF m <= n THEN m ELSE n
  BY <1>2, MinOf DEF m, n
<1>4. PopMacro(s) = Popped(s, Min({m, n}))
  BY Zenon DEF PopMacro, Popped, MacroAt, m, n
<1> QED
  BY <1>3, <1>4 DEF m, n

\* Nothing makes nothing.
LEMMA ReturnedNone ==
    Promise!Returned(<<>>) = <<>>
<1> DEFINE i == Promise!FirstOf(<<>>, "macro")
<1>1. i = 1
  <2>1. <<>> \in Seq(Blk) /\ <<>> \o <<>> = <<>> /\ Len(<<>>) + 1 = 1
    OBVIOUS
  <2>2. <<>> # <<>> => <<>>[1].kind = "macro"
    OBVIOUS
  <2>3. \A j \in 1..Len(<<>>) : <<>>[j].kind # "macro"
    OBVIOUS
  <2>4. Promise!FirstOf(<<>> \o <<>>, "macro") = Len(<<>>) + 1
    BY <2>1, <2>2, <2>3, FirstOfIs
  <2> QED
    BY <2>1, <2>4
<1>2. Promise!Returned(<<>>) = Promise!From(<<>>, i + 1)
  BY Zenon DEF Promise!Returned
<1>3. SubSeq(<<>>, 1 + 1, Len(<<>>)) = <<>>
  OBVIOUS
<1> QED
  BY <1>1, <1>2, <1>3, Zenon DEF Promise!From

\* Outside of macros, the outermost block is left.
LEMMA ReturnedLast ==
    ASSUME NEW c \in Seq(Blk), NEW x \in Blk,
           Promise!FirstOf(c \o <<x>>, "macro") = Len(c \o <<x>>) + 1
    PROVE  Promise!Returned(c \o <<x>>)
               = IF x.kind = "loop" THEN <<[x EXCEPT !.left = 0]>> ELSE <<x>>
<1> DEFINE b == c \o <<x>>
<1>1. /\ b \in Seq(Blk) /\ Len(b) = Len(c) + 1
      /\ \A i \in 1..Len(c) : b[i] = c[i]
      /\ b[Len(c) + 1] = x
  BY OneMore
<1>2. Len(c) \in Nat
  OBVIOUS
<1> HIDE DEF b
<1>3. b # <<>> /\ ~(Len(b) + 1 <= Len(b)) /\ b[Len(b)] = x
  BY <1>1, <1>2
<1>4. Promise!FirstOf(b, "macro") = Len(b) + 1
  BY DEF b
<1>5. Promise!Returned(b) = IF x.kind = "loop" THEN <<[x EXCEPT !.left = 0]>>
                            ELSE <<x>>
  BY <1>3, <1>4, Zenon DEF Promise!Returned
<1> QED
  BY <1>5 DEF b

LEMMA BaseReturned ==
    ASSUME NEW s \in Seq(Items), s # <<>>, Piled(s), NoBegin(s), HasBelow(s)
    PROVE  Base(PopMacro(s)) = Promise!Returned(Base(s))
<1>0. "macro" \in BlockKinds
  BY DEF BlockKinds
<1>9. Len(s) \in Nat \ {0} /\ MacroAt(s) # Len(s)
  BY DEF HasBelow, MacroAt
<1>1. CASE MacroAt(s) <= Len(s)
  <2> DEFINE i == MacroAt(s)
             a == SubSeq(s, 1, i - 1)
             b == FromTop(s, i + 1)
             x == s[i]
  <2>1. /\ i \in 1..Len(s)
        /\ a \in Seq(Items) /\ b \in Seq(Items) /\ x \in Items
        /\ s = Around(a, x, b) /\ Len(a) + 1 = i
        /\ x.kind = "macro" /\ \A j \in 1..Len(a) : a[j].kind # "macro"
    BY <1>1, MacroSplit
  <2>2. i <= Len(s) - 1 /\ i \in 0..Len(s)
    BY <1>9, <2>1
  <2>3. PopMacro(s) = Popped(s, i)
    BY <2>2, PopMacroIs
  <2>4. Base(PopMacro(s)) = Base(b)
    BY <2>2, <2>3, BasePopped
  <2> HIDE DEF i, a, b, x
  <2> DEFINE c == Base(a)
             d == Base(b)
  <2>5. /\ c \in Seq(Blk) /\ d \in Seq(Blk) /\ x \in Blk
        /\ Base(s) = Around(c, x, d)
        /\ Promise!FirstOf(Base(s), "macro") = Len(c) + 1
    BY <1>0, <2>1, KindFound
  <2> HIDE DEF c, d
  <2>6. IsAround(Base(s), Len(c) + 1, Blk, c, x, d)
    BY <2>5, AroundIs
  <2>7. /\ Len(c) + 1 <= Len(Base(s))
        /\ SubSeq(Base(s), (Len(c) + 1) + 1, Len(Base(s))) = d
    BY <2>5, <2>6 DEF IsAround
  <2>8. Promise!Returned(Base(s)) = d
    BY <2>5, <2>7, Zenon DEF Promise!Returned, Promise!From
  <2> QED
    BY <2>4, <2>8 DEF d
<1>2. CASE ~(MacroAt(s) <= Len(s))
  <2> DEFINE n == Len(s)
             a == SubSeq(s, 1, n - 1)
             b == FromTop(s, n + 1)
             x == s[n]
  <2>1. MacroAt(s) = n + 1 /\ \A j \in 1..n : s[j].kind # "macro"
    BY <1>2, NoMacro
  <2>2. n \in 1..Len(s) /\ n - 1 \in 0..Len(s) /\ ~(n + 1 <= n - 1)
    BY <1>9
  <2>3. PopMacro(s) = Popped(s, n - 1)
    BY <2>1, <2>2, PopMacroIs
  <2>4. Base(PopMacro(s)) = Base(FromTop(s, (n - 1) + 1))
    BY <2>2, <2>3, BasePopped
  <2>5. /\ a \in Seq(Items) /\ b \in Seq(Items) /\ x \in Items
        /\ s = (a \o <<x>>) \o b /\ s = a \o (<<x>> \o b)
        /\ FromTop(s, n) = <<x>> \o b
        /\ Len(a) = n - 1 /\ Len(b) = Len(s) - n
        /\ \A j \in 1..(n - 1) : a[j] = s[j]
        /\ \A j \in 1..(Len(s) - n) : b[j] = s[n + j]
    BY <2>2, SplitAround
  <2>6. b = <<>> /\ (n - 1) + 1 = n /\ Len(a) + 1 = n
    BY <1>9, <2>5
  <2>7. x.kind # "loop" /\ x.kind # "macro" /\ x.kind # "begin_trap"
    BY <2>1, <2>2, <1>9 DEF Piled, NoBegin, Low
  <2> HIDE DEF a, b, x
  <2>8. s = a \o <<x>> /\ FromTop(s, n) = <<x>>
    BY <2>5, <2>6
  <2>9. Base(PopMacro(s)) = OneBlock(x)
    BY <2>4, <2>6, <2>8, <2>5, BaseOne
  <2>10. Base(s) = Base(a) \o BlockAt(s, n)
    BY <2>5, BaseLast, <2>6, <2>8
  <2>11. Promise!FirstOf(Base(s), "macro") = Len(Base(s)) + 1
    BY <1>0, <2>1, KindLacks
  <2>12. Base(a) \in Seq(Blk) /\ s[n] = x
    BY <2>5, PiecesType DEF x
  <2> HIDE DEF n
  <2>13. CASE x.kind \in BlockKinds
    BY <2>12, <2>13, <2>5, ItemsAre, <2>10, <2>11, ReturnedLast, <2>7, <2>9
       DEF BlockAt, OneBlock
  <2>14. CASE x.kind = "boundary"
    <3> DEFINE l == LeftOver(s, n)
               y == LoopBlock(x, l)
    <3>1. x.kind \notin BlockKinds
      BY <2>14 DEF BlockKinds
    <3>2. BlockAt(s, n) = <<y>> /\ OneBlock(x) = <<LoopBlock(x, 0)>>
      BY <2>12, <2>14, <3>1 DEF BlockAt, OneBlock
    <3>3. l \in Nat
      BY <2>2, LeftOverNat DEF n
    <3> HIDE DEF l
    <3>4. y \in Blk /\ x.left \in Nat
      BY <2>5, <3>3, ItemsAre
    <3>5. y.kind = "loop" /\ [y EXCEPT !.left = 0] = LoopBlock(x, 0)
      BY <2>5, <3>3 DEF LoopBlock, Items
    <3> HIDE DEF y
    <3>6. Base(s) = Base(a) \o <<y>>
      BY <2>10, <3>2
    <3>7. Promise!FirstOf(Base(a) \o <<y>>, "macro") = Len(Base(a) \o <<y>>) + 1
      BY <2>11, <3>6
    <3>8. Promise!Returned(Base(a) \o <<y>>)
              = IF y.kind = "loop" THEN <<[y EXCEPT !.left = 0]>> ELSE <<y>>
      BY <2>12, <3>4, <3>7, ReturnedLast
    <3> QED
      BY <2>9, <3>2, <3>5, <3>6, <3>8
  <2>15. CASE x.kind \in {"end_trap", "return_boundary"}
    BY <2>1, <2>12, <2>15, NothingAbove, <2>9, ReturnedNone DEF n, OneBlock,
       BlockKinds
  <2>16. \/ x.kind \in BlockKinds \/ x.kind = "boundary"
         \/ x.kind \in {"end_trap", "return_boundary"}
    BY <2>5, ItemsAre, <2>7 DEF BlockKinds, Texts, Barriers, Marks
  <2> QED
    BY <2>13, <2>14, <2>15, <2>16
<1> QED
  BY <1>1, <1>2

\* While_request is live: its boundary is on the stack.
LEMMA LiveFound ==
    ASSUME stack \in Seq(Items), LoopIsLive
    PROVE  \E i \in 1..Len(stack) : stack[i].kind = "boundary"
<1> DEFINE n == Len(stack)
           D == {i \in 1..n : stack[i].kind = "boundary"}
           IsFirst(i) == /\ i <= Len(stack) => stack[i].kind = "boundary"
                         /\ \A j \in 1..(i - 1) : ~(stack[j].kind = "boundary")
           f == CHOOSE k \in 1..(Len(stack) + 1) : IsFirst(k)
<1>1. n \in Nat /\ D \in SUBSET (1..n)
  OBVIOUS
<1>2. PICK i \in 1..(n + 1) : (i <= n => i \in D)
                              /\ \A j \in 1..(i - 1) : j \notin D
  <2> HIDE DEF n, D
  <2> QED
    BY <1>1, FirstOfSet
<1>3. IsFirst(i)
  BY <1>1, <1>2
<1>4. f <= Len(stack)
  BY DEF LoopIsLive, Has, FirstIn
<1> HIDE DEF IsFirst
<1>5. f \in 1..(Len(stack) + 1) /\ IsFirst(f)
  BY <1>2, <1>3
<1> HIDE DEF f
<1>6. f \in 1..Len(stack) /\ stack[f].kind = "boundary"
  BY <1>1, <1>4, <1>5 DEF IsFirst
<1> QED
  BY <1>6

\* Every boundary is among those of the loops.
LEMMA WallAmong ==
    ASSUME NEW s \in Seq(Items), NEW i \in 1..Len(s), s[i].kind \in Barriers
    PROVE  \E j \in 1..Len(Walls(s)) : Walls(s)[j] = s[i]
<1> DEFINE a == SubSeq(s, 1, i - 1)
           b == FromTop(s, i + 1)
           x == s[i]
<1>1. /\ a \in Seq(Items) /\ b \in Seq(Items) /\ s[i] \in Items
      /\ s = Around(a, s[i], b) /\ Len(a) + 1 = i
      /\ Len(b) = Len(s) - i
      /\ \A j \in 1..(i - 1) : a[j] = s[j]
  BY StackAround
<1> HIDE DEF a, b
<1> DEFINE c == Walls(a)
           d == Walls(b)
<1>2. c \in Seq(Wall) /\ d \in Seq(Wall)
  BY <1>1, WallsType
<1>3. x \in Wall
  BY <1>1 DEF Wall
<1>4. x.kind \in Barriers /\ x \in Items
  BY <1>1
<1> HIDE DEF x
<1>5. Walls(<<x>> \o b) = <<x>> \o d
  BY <1>1, <1>4, WallsOnTop DEF OneWall
<1>6. Walls(Around(a, x, b)) = Around(c, x, d)
  <2>1. <<x>> \o b \in Seq(Items)
    BY <1>1, <1>4, OnTopOf
  <2>2. Walls(a \o (<<x>> \o b)) = Walls(a) \o Walls(<<x>> \o b)
    BY <1>1, <2>1, WallsJoin
  <2> QED
    BY <1>5, <2>2 DEF Around
<1>7. IsAround(Around(c, x, d), Len(c) + 1, Wall, c, x, d)
  BY <1>2, <1>3, AroundIs
<1>8. Walls(s) = Around(c, x, d)
  BY <1>1, <1>6 DEF x
<1> QED
  BY <1>7, <1>8 DEF IsAround, x

\* The first boundary is that of a loop if any is.
LEMMA LoopFirst ==
    ASSUME NEW s \in Seq(Items), NEW r, Sized(Walls(s), r), Alive(Walls(s), r),
           \E i \in 1..Len(s) : s[i].kind = "boundary"
    PROVE  /\ BoundaryAt(s) \in 1..Len(s)
           /\ s[BoundaryAt(s)].kind = "boundary"
           /\ \A j \in 1..(BoundaryAt(s) - 1) : s[j].kind \notin Barriers
<1> DEFINE m == BoundaryAt(s)
<1>1. PICK i \in 1..Len(s) : s[i].kind = "boundary"
  OBVIOUS
<1>2. /\ m \in 1..(Len(s) + 1)
      /\ m <= Len(s) => IsBoundary(s[m])
      /\ \A j \in 1..(m - 1) : ~IsBoundary(s[j])
  BY BoundaryFound
<1> HIDE DEF m
<1>3. m \in 1..Len(s)
  <2>1. CASE m = Len(s) + 1
    BY <2>1, <1>1, <1>2 DEF IsBoundary
  <2> QED
    BY <1>2, <2>1
<1>4. s[m].kind \in Barriers /\ \A j \in 1..(m - 1) : s[j].kind \notin Barriers
  BY <1>2, <1>3 DEF IsBoundary, Barriers
<1>5. PICK j \in 1..Len(Walls(s)) : Walls(s)[j] = s[i]
  BY <1>1, WallAmong DEF Barriers
<1>6. Loopy(r, j)
  BY <1>1, <1>5 DEF Sized
<1>7. Walls(s)[1] = s[m]
  <2> DEFINE t == FromTop(s, m)
  <2>1. /\ t \in Seq(Items) /\ Len(t) = Len(s) + 1 - m
        /\ \A k \in 1..(Len(s) + 1 - m) : t[k] = s[m - 1 + k]
    BY <1>2, FromTopSame
  <2>2. 1 \in 1..(Len(s) + 1 - m) /\ m - 1 + 1 = m
    BY <1>3
  <2>3. t[1] = s[m] /\ t # <<>>
    BY <2>1, <2>2
  <2>4. Walls(t) = Walls(s)
    BY <1>2, WallsPopped
  <2> HIDE DEF t
  <2>5. /\ Walls(t) = <<t[1]>> \o Walls(Tail(t))
        /\ t[1] \in Wall /\ Walls(Tail(t)) \in Seq(Wall)
    BY <1>4, <2>1, <2>3, WallsTop
  <2>6. (<<t[1]>> \o Walls(Tail(t)))[1] = t[1]
    BY <2>5, OnTopOf
  <2> QED
    BY <2>3, <2>4, <2>5, <2>6
<1>8. 1 \in 1..Len(Walls(s)) /\ Loopy(r, 1)
  BY <1>5, <1>6 DEF Loopy
<1>9. s[m].kind # "return_boundary"
  BY <1>7, <1>8 DEF Alive
<1> QED
  BY <1>3, <1>4, <1>9 DEF m, Barriers

\* The innermost block that is a loop.
LEMMA LoopFound ==
    ASSUME NEW s \in Seq(Items), NEW i \in 1..Len(s), s[i].kind = "boundary",
           \A j \in 1..(i - 1) : s[j].kind \notin Barriers
    PROVE  LET c == Base(SubSeq(s, 1, i - 1))
               x == LoopBlock(s[i], LeftOver(s, i))
               d == Base(FromTop(s, i + 1))
           IN  /\ c \in Seq(Blk) /\ d \in Seq(Blk) /\ x \in Blk
               /\ Base(s) = Around(c, x, d)
               /\ Promise!FirstOf(Base(s), "loop") = Len(c) + 1
<1> DEFINE a == SubSeq(s, 1, i - 1)
           b == FromTop(s, i + 1)
           c == Base(a)
           d == Base(b)
           x == LoopBlock(s[i], LeftOver(s, i))
<1>1. /\ a \in Seq(Items) /\ b \in Seq(Items) /\ s[i] \in Items
      /\ s = Around(a, s[i], b) /\ Len(a) + 1 = i
      /\ Len(b) = Len(s) - i
      /\ \A j \in 1..(i - 1) : a[j] = s[j]
  BY StackAround
<1>2. Base(s) = c \o (BlockAt(s, i) \o d)
  BY BaseAround
<1> HIDE DEF a, b
<1>3. c \in Seq(Blk) /\ d \in Seq(Blk)
  BY <1>1, PiecesType
<1>4. x \in Blk
  BY LeftOverNat, <1>1, ItemsAre
<1>5. BlockAt(s, i) = <<x>>
  BY DEF BlockAt, BlockKinds
<1>6. \A j \in 1..Len(c) : c[j].kind # "loop"
  <2>1. Len(a) = i - 1
    BY <1>1
  <2>2. \A j \in 1..Len(a) : a[j].kind # "boundary"
    BY <1>1, <2>1 DEF Barriers
  <2> QED
    BY <1>1, <2>2, BaseLacks
<1>7. x.kind = "loop"
  BY <1>1 DEF LoopBlock, Items
<1> HIDE DEF c, d, x
<1> DEFINE e == <<x>> \o d
<1>8. e \in Seq(Blk) /\ e[1] = x
  BY <1>3, <1>4, OnTopOf
<1>9. e # <<>> => e[1].kind = "loop"
  BY <1>7, <1>8
<1> HIDE DEF e
<1>10. Promise!FirstOf(c \o e, "loop") = Len(c) + 1
  BY <1>3, <1>6, <1>8, <1>9, FirstOfIs
<1>11. Base(s) = Around(c, x, d) /\ Base(s) = c \o e
  BY <1>2, <1>5 DEF Around, e
<1> QED
  BY <1>3, <1>4, <1>10, <1>11 DEF a, b, c, d, x

\* What break and continue leave.
LEMMA BaseDrained ==
    ASSUME NEW s \in Seq(Items), NEW i \in 1..Len(s), s[i].kind = "boundary",
           i = BoundaryAt(s),
           \A j \in 1..(i - 1) : s[j].kind \notin Barriers
    PROVE  LET b == Base(s)
               m == Promise!FirstOf(b, "loop")
               u == Drained(s)
           IN  /\ m <= Len(b)
               /\ u \in Seq(Items) /\ u # <<>> /\ u[1].kind = "boundary"
               /\ Len(u) <= Len(s)
               /\ Base(Tail(u)) = Promise!From(b, m + 1)
               /\ Base(u) = [Promise!From(b, m) EXCEPT ![1].left = 0]
<1> DEFINE c == Base(SubSeq(s, 1, i - 1))
           x == LoopBlock(s[i], LeftOver(s, i))
           v == FromTop(s, i + 1)
           d == Base(v)
           b == Base(s)
           u == Drained(s)
<1>1. /\ c \in Seq(Blk) /\ d \in Seq(Blk) /\ x \in Blk
      /\ b = Around(c, x, d)
      /\ Promise!FirstOf(b, "loop") = Len(c) + 1
  BY LoopFound
<1>2. /\ v \in Seq(Items) /\ s[i] \in Items /\ FromTop(s, i) = <<s[i]>> \o v
  BY SplitAround
<1>3. u = <<s[i]>> \o v
  BY <1>2 DEF Drained, BoundaryAt
<1>4. Len(u) <= Len(s)
  <2>1. i \in 1..(Len(s) + 1)
    OBVIOUS
  <2>2. Len(FromTop(s, i)) = Len(s) + 1 - i
    BY <2>1, FromTopSame
  <2> QED
    BY <1>2, <1>3, <2>2
<1> DEFINE z == LoopBlock(s[i], 0)
<1>5. Base(u) = <<z>> \o d
  <2>1. s[i].kind # "loop"
    OBVIOUS
  <2> HIDE DEF v
  <2>2. Base(<<s[i]>> \o v) = OneBlock(s[i]) \o Base(v)
    BY <1>2, <2>1, BaseOnTop
  <2>3. OneBlock(s[i]) = <<z>>
    BY DEF OneBlock, BlockKinds
  <2> QED
    BY <1>3, <2>2, <2>3
<1>6. z \in Blk /\ [x EXCEPT !.left = 0] = z
  <2>1. z \in Blk
    <3> DEFINE it == s[i]
    <3>1. it \in Items /\ 0 \in Nat
      BY <1>2
    <3> HIDE DEF it
    <3>2. /\ it.kind \in Texts \cup Barriers \cup Marks
          /\ it.left \in Nat /\ it.args \in Nat /\ it.size \in Nat
          /\ it.kind \in Marks => it.left = 1
          /\ it.kind \in BlockKinds => it \in Blk
          /\ \A n \in Nat : LoopBlock(it, n) \in Blk
      BY <3>1, ItemsAre
    <3> QED
      BY <3>1, <3>2 DEF it
  <2>2. [x EXCEPT !.left = 0] = z
    BY LeftOverNat, <1>2 DEF LoopBlock, Items
  <2> QED
    BY <2>1, <2>2
<1> HIDE DEF v
<1>7. u \in Seq(Items) /\ u # <<>> /\ u[1] = s[i] /\ Tail(u) = v
  BY <1>2, <1>3, OnTopOf
<1> HIDE DEF c, d, x, z, u, b
<1>8. <<x>> \o d \in Seq(Blk) /\ <<x>> \o d # <<>>
      /\ (<<x>> \o d)[1] = x /\ Tail(<<x>> \o d) = d
  BY <1>1, OnTopOf
<1>9. /\ Promise!From(c \o (<<x>> \o d), Len(c) + 1) = <<x>> \o d
      /\ Promise!From(c \o (<<x>> \o d), (Len(c) + 1) + 1) = d
  BY <1>1, <1>8, FromIs
<1>10. b = c \o (<<x>> \o d)
  BY <1>1 DEF Around
<1>11. Len(c) + 1 <= Len(b)
  BY <1>1, AroundIs DEF IsAround
<1>12. [<<x>> \o d EXCEPT ![1].left = 0] = <<z>> \o d
  <2>1. [<<x>> \o d EXCEPT ![1] = z] = <<z>> \o d
    BY <1>1, <1>6, ExceptTop
  <2> DEFINE e == <<x>> \o d
  <2>2. e[1] = x
    BY <1>8
  <2> HIDE DEF e
  <2>3. [e EXCEPT ![1].left = 0] = [e EXCEPT ![1] = z]
    BY <1>6, <2>2, Zenon
  <2> QED
    BY <2>1, <2>3 DEF e
<1>13. Base(Tail(u)) = d
  BY <1>7 DEF d
<1> QED
  BY <1>1, <1>4, <1>5, <1>7, <1>9, <1>10, <1>11, <1>12, <1>13 DEF b, u

LEMMA UnreadSplit ==
    ASSUME NEW s \in Seq(Items)
    PROVE  \E a \in Seq(Items) :
              /\ s = a \o Unread(s) /\ Base(s) = Base(a) \o Base(Unread(s))
              /\ Len(Unread(s)) = Len(s) - Len(a)
<1> DEFINE k == StopAt(s) - 1
           a == SubSeq(s, 1, k)
           b == FromTop(s, k + 1)
<1>1. /\ StopAt(s) \in 1..(Len(s) + 1)
      /\ \A j \in 1..(StopAt(s) - 1) : ~Stops(s[j])
  BY StopFound
<1>2. Len(s) \in Nat /\ StopAt(s) \in Nat
  BY <1>1
<1>3. k \in 0..Len(s) /\ k + 1 = StopAt(s)
  BY <1>1, <1>2
<1>4. Unread(s) = b
  BY <1>3 DEF Unread, StopAt
<1>5. \A j \in 1..k : ~Stops(s[j])
  BY <1>1
<1> HIDE DEF k
<1>6. /\ a \in Seq(Items) /\ b \in Seq(Items) /\ s = a \o b
      /\ Len(a) = k /\ Len(b) = Len(s) - k
      /\ \A i \in 1..k : a[i] = s[i]
      /\ \A i \in 1..(Len(s) - k) : b[i] = s[k + i]
  BY <1>3, SplitAt
<1>7. \A i \in 1..Len(a) : ~Stops(a[i])
  BY <1>5, <1>6
<1>8. /\ Base(a) \in Seq(Done)
      /\ \A i \in 1..Len(a) : a[i].left = 0 /\ a[i].kind \in Texts
  BY <1>6, <1>7, BaseRead
<1>9. k = 0 \/ s[k].left = 0
  BY <1>3, <1>6, <1>8
<1>10. Base(s) = Base(a) \o Base(b)
  BY <1>3, <1>9, BaseSplit
<1> HIDE DEF a, b
<1>11. s = a \o Unread(s) /\ Base(s) = Base(a) \o Base(Unread(s))
  BY <1>4, <1>6, <1>10
<1>12. Len(Unread(s)) = Len(s) - Len(a)
  BY <1>4, <1>6
<1> QED
  BY <1>6, <1>11, <1>12

\* Where nx reads ahead and then changes the file.
LEMMA FileAhead ==
    ASSUME NEW s \in Seq(Items), NEW b \in Seq(Items), b = Unread(s),
           FirstIn(s, IsFile) > Len(s) - Len(b) \/ ~Has(b, IsFile)
    PROVE  \/ Promise!FirstOf(Base(s), "file") > Len(Base(s)) - Len(Base(b))
           \/ Promise!FirstOf(Base(b), "file") > Len(Base(b))
<1>0. "file" \in BlockKinds
  BY DEF BlockKinds
<1>1. CASE ~(FileAt(b) <= Len(b))
  <2>1. \A j \in 1..Len(b) : b[j].kind # "file"
    BY <1>1, NoFile
  <2>2. /\ Base(b) \in Seq(Blk)
        /\ Promise!FirstOf(Base(b), "file") = Len(Base(b)) + 1
    BY <1>0, <2>1, KindLacks
  <2> DEFINE n == Len(Base(b))
  <2>3. n \in Nat
    BY <2>2
  <2> HIDE DEF n
  <2>4. n + 1 > n
    BY <2>3
  <2> QED
    BY <2>2, <2>4 DEF n
<1>2. CASE FileAt(b) <= Len(b)
  <2>1. Has(b, IsFile) <=> FileAt(b) <= Len(b)
    BY DEF Has, FileAt
  <2>2. FileAt(s) > Len(s) - Len(b)
    BY <1>2, <2>1 DEF FileAt
  <2>3. PICK a \in Seq(Items) :
              /\ s = a \o b /\ Base(s) = Base(a) \o Base(b)
              /\ Len(b) = Len(s) - Len(a)
    BY UnreadSplit
  <2>4. /\ FileAt(s) \in 1..(Len(s) + 1)
        /\ \A j \in 1..(FileAt(s) - 1) : ~IsFile(s[j])
    BY FileFound
  <2>5. \A j \in 1..Len(a) : a[j].kind # "file"
    BY <2>2, <2>3, <2>4, ConcatIs DEF IsFile
  <2>6. /\ Base(a) \in Seq(Blk)
        /\ \A j \in 1..Len(Base(a)) : Base(a)[j].kind # "file"
    BY <1>0, <2>5, KindLacks
  <2> DEFINE i == FileAt(b)
             e == SubSeq(b, 1, i - 1)
             f == FromTop(b, i + 1)
             x == b[i]
  <2>7. /\ i \in 1..Len(b)
        /\ e \in Seq(Items) /\ f \in Seq(Items) /\ x \in Items
        /\ b = Around(e, x, f) /\ Len(e) + 1 = i
        /\ x.kind = "file" /\ \A j \in 1..Len(e) : e[j].kind # "file"
    BY <1>2, FileSplit
  <2> HIDE DEF i, e, f, x
  <2>8. /\ Base(e) \in Seq(Blk) /\ Base(f) \in Seq(Blk) /\ x \in Blk
        /\ Base(b) = Around(Base(e), x, Base(f))
    <3>1. Base(Around(e, x, f)) = Around(Base(e), x, Base(f))
      BY <1>0, <2>7, BlocksAround
    <3>2. x \in Blk
      BY <1>0, <2>7, ItemsAre
    <3> QED
      BY <2>7, <3>1, <3>2, PiecesType
  <2>9. /\ Base(e) \in Seq(Blk)
        /\ \A j \in 1..Len(Base(e)) : Base(e)[j].kind # "file"
    BY <1>0, <2>7, KindLacks
  <2> DEFINE p == Base(a)
             q == Base(e)
             d == <<x>> \o Base(f)
             c == p \o q
  <2>10. d \in Seq(Blk) /\ d[1] = x
    BY <2>8, OnTopOf
  <2>11. p \in Seq(Blk) /\ q \in Seq(Blk)
    BY <2>6, <2>8
  <2> HIDE DEF p, q, d
  <2>12. /\ c \in Seq(Blk) /\ Len(c) = Len(p) + Len(q)
         /\ \A j \in 1..Len(p) : c[j] = p[j]
         /\ \A j \in 1..Len(q) : c[Len(p) + j] = q[j]
    BY <2>11, ConcatIs
  <2>13. Len(p) \in Nat /\ Len(q) \in Nat
    BY <2>11
  <2> HIDE DEF c
  <2>14. ASSUME NEW j \in 1..Len(c) PROVE c[j].kind # "file"
    <3>1. CASE j \in 1..Len(p)
      BY <2>6, <2>12, <3>1 DEF p
    <3>2. CASE j \notin 1..Len(p)
      <4> DEFINE k == j - Len(p)
      <4>1. k \in 1..Len(q) /\ Len(p) + k = j
        BY <2>12, <2>13, <3>2
      <4> HIDE DEF k
      <4> QED
        BY <2>9, <2>12, <4>1 DEF q
    <3> QED
      BY <3>1, <3>2
  <2>15. d # <<>> => d[1].kind = "file"
    BY <2>7, <2>10
  <2>16. Promise!FirstOf(c \o d, "file") = Len(c) + 1
    BY <2>10, <2>12, <2>14, <2>15, FirstOfIs
  <2>17. Base(b) = q \o d
    BY <2>8 DEF Around, q, d
  <2>18. Base(s) = c \o d
    <3>1. p \o (q \o d) = (p \o q) \o d
      <4>1. p \in Seq(Blk) /\ q \in Seq(Blk) /\ d \in Seq(Blk)
        BY <2>10, <2>11
      <4> QED
        BY <4>1, SMTT(30)
    <3> QED
      BY <2>3, <2>17, <3>1 DEF c, p
  <2>19. Len(Base(s)) = Len(p) + Len(Base(b)) /\ Len(Base(b)) \in Nat
    <3>1. Base(b) \in Seq(Blk)
      BY PiecesType
    <3>2. Len(p \o Base(b)) = Len(p) + Len(Base(b)) /\ Len(Base(b)) \in Nat
      BY <2>11, <3>1
    <3>3. Base(s) = p \o Base(b)
      BY <2>3, Zenon DEF p
    <3> QED
      BY <3>2, <3>3, Zenon
  <2>20. Len(c) + 1 > Len(Base(s)) - Len(Base(b))
    BY <2>12, <2>13, <2>19
  <2> QED
    BY <2>16, <2>18, <2>20
<1> QED
  BY <1>1, <1>2

-----------------------------------------------------------------------------
\* The top of a stack is text, of which n lines are read.
TextOnTop(s, r) ==
    /\ s \in Seq(Items) /\ s # <<>> /\ s[1].kind \in Texts
    /\ s[1].left \in Nat /\ Sound(s, r) /\ Len(s) <= Limit

LEMMA TookFacts ==
    ASSUME NEW s, NEW r, TextOnTop(s, r), NEW n \in Nat, n <= s[1].left
    PROVE  LET u == Took(s, n)
           IN  /\ u \in Seq(Items) /\ u # <<>> /\ u[1].kind \in Texts
               /\ Len(u) = Len(s) /\ Len(u) <= Limit
               /\ Walls(u) = Walls(s) /\ Sized(Walls(u), r) /\ Alive(Walls(u), r)
               /\ Piled(u) /\ Sound(u, r)
               /\ Base(u) = AfterOf(Base(s), n)
<1> DEFINE u == Took(s, n)
<1>1. /\ s \in Seq(Items) /\ s # <<>> /\ s[1].kind \in Texts
      /\ s[1].left \in Nat /\ Piled(s) /\ Sized(Walls(s), r)
      /\ Unwinding(s, r) /\ Len(s) <= Limit
  BY DEF TextOnTop, Sound
<1>2. u \in Seq(Items) /\ u # <<>> /\ u[1].kind = s[1].kind
  BY <1>1, TookKeeps
<1>3. Base(u) = AfterOf(Base(s), n)
  BY <1>1, TopBlock
<1>4. Walls(u) = Walls(s)
  BY <1>1, WallsTook
<1>5. Len(u) = Len(s) /\ \A i \in 1..Len(s) : u[i].kind = s[i].kind
  <2>1. u = <<Less(s[1], n)>> \o Tail(s)
    BY <1>1, TookTop
  <2>2. /\ s[1] \in Items /\ Tail(s) \in Seq(Items) /\ s = <<s[1]>> \o Tail(s)
        /\ Len(Tail(s)) = Len(s) - 1 /\ Len(s) \in Nat \ {0}
        /\ \A i \in 1..(Len(s) - 1) : Tail(s)[i] = s[i + 1]
    BY <1>1, TopOf
  <2>3. Less(s[1], n) \in Items
    BY <1>1, <2>2, LessItem
  <2> DEFINE y == Less(s[1], n)
             d == Tail(s)
  <2> HIDE DEF y, d
  <2>4. d \in Seq(Items) /\ y \in Items
    BY <2>2, <2>3 DEF y, d
  <2>5. /\ <<y>> \o d \in Seq(Items) /\ Len(<<y>> \o d) = Len(d) + 1
        /\ (<<y>> \o d)[1] = y /\ Tail(<<y>> \o d) = d
        /\ <<y>> \o d # <<>>
        /\ \A i \in 1..Len(d) : (<<y>> \o d)[i + 1] = d[i]
    BY <2>4, OnTopOf
  <2>6. u = <<y>> \o d
    BY <2>1 DEF y, d
  <2> HIDE DEF u
  <2>7. Len(u) = Len(s)
    BY <2>2, <2>5, <2>6 DEF d
  <2>8. ASSUME NEW i \in 1..Len(s) PROVE u[i].kind = s[i].kind
    <3>1. CASE i = 1
      BY <1>2, <3>1
    <3>2. CASE i # 1
      BY <2>2, <3>2, <2>5, <2>6 DEF d
    <3> QED
      BY <3>1, <3>2
  <2> QED
    BY <2>7, <2>8
<1>6. Piled(u)
  BY <1>1, <1>2, <1>5, PiledSame
<1>7. Alive(Walls(s), r)
  BY <1>1, AliveIs DEF Texts
<1>8. Sound(u, r)
  BY <1>1, <1>4, <1>6, <1>7, SoundAlive
<1> HIDE DEF u
<1> QED
  BY <1>1, <1>2, <1>3, <1>4, <1>5, <1>6, <1>7, <1>8 DEF u

-----------------------------------------------------------------------------
\* The requests: each keeps the invariant, and its promise.

\* A stack that is read from, and the blocks of it.
LEMMA AfterRead ==
    ASSUME NEW s \in Seq(Items), NEW r, Sound(s, r), Len(s) <= Limit
    PROVE  LET u == Unread(s)
           IN  /\ u \in Seq(Items) /\ Steady(u, TokenOf(u), r, FALSE)
               /\ BlocksIn(u, TokenOf(u), FALSE) = Base(u)
<1> DEFINE u == Unread(s)
           t == TokenOf(u)
<1>1. u \in Seq(Items)
  BY BaseUnread
<1>2. Sound(u, r)
  BY SoundUnread
<1>3. Len(u) <= Limit
  <2>1. PICK a \in Seq(Items) :
              /\ s = a \o Unread(s) /\ Base(s) = Base(a) \o Base(Unread(s))
              /\ Len(Unread(s)) = Len(s) - Len(a)
    BY UnreadSplit
  <2>2. Len(a) \in Nat /\ Len(s) \in Nat /\ Len(u) = Len(s) - Len(a)
    BY <2>1
  <2> HIDE DEF u
  <2> QED
    BY <2>2, InputStackAssumption
<1> HIDE DEF u
<1>4. t # "test"
  BY DEF TokenOf
<1> HIDE DEF t
<1>5. Steady(u, t, r, FALSE)
  BY <1>2, <1>3, <1>4 DEF Steady
<1>6. BlocksIn(u, t, FALSE) = Base(u)
  BY <1>1, <1>4, BlocksPlain
<1> QED
  BY <1>1, <1>5, <1>6 DEF u, t

LEMMA EndsReading ==
    ASSUME NEW s \in Seq(Items), Sound(s, runs'), Len(s) <= Limit,
           Next_token(s), want_loop_break' = FALSE
    PROVE  JInv' /\ BlocksOf(stack)' \in Promise!Left(Base(s))
<1> DEFINE u == Unread(s)
           r == runs'
<1>1. /\ u \in Seq(Items) /\ Steady(u, TokenOf(u), r, FALSE)
      /\ BlocksIn(u, TokenOf(u), FALSE) = Base(u)
  BY AfterRead
<1>2. Base(u) \in Promise!Left(Base(s))
  BY BaseUnread
<1>3. stack' = u /\ tok' = TokenOf(u)
  BY DEF Next_token
<1> HIDE DEF u
<1>4. BlocksOf(stack)' = Base(u)
  BY BlocksOfIs, <1>1, <1>3
<1>5. Steady(stack', tok', runs', want_loop_break')
  BY <1>1, <1>3
<1> QED
  BY <1>2, <1>4, <1>5 DEF JInv

\* What is known before a line is interpreted.
LEMMA LineFacts ==
    ASSUME IInv, JInv, Interpreting, tok \in {"line", "cut"}
    PROVE  /\ TextOnTop(stack, runs) /\ stack[1].left > 0
           /\ want_loop_break = FALSE
           /\ BlocksOf(stack) = Base(stack)
           /\ Base(stack) \in Seq(Blk) /\ Base(stack) # <<>>
           /\ Base(stack)[1].left = stack[1].left
<1>1. PICK x \in 0..Len(runs) :
              Whole(stack, tok, runs, x, want_loop_break, phase)
  BY DEF IInv
<1>2. /\ Stacked(stack, runs, x, phase) /\ Fits(stack, tok)
      /\ want_loop_break \in BOOLEAN
  BY <1>1, WholeFacts
<1>3. stack \in Seq(Items)
  BY <1>2, StackedFacts
<1>4. stack # <<>> /\ stack[1].kind \in Texts /\ stack[1].left > 0
  BY <1>2 DEF Fits
<1>5. Steady(stack, tok, runs, want_loop_break)
  BY DEF JInv
<1>6. Sound(stack, runs) /\ Len(stack) <= Limit /\ want_loop_break = FALSE
  BY <1>2, <1>5 DEF Steady
<1>7. stack[1].left \in Nat
  BY <1>3, <1>4 DEF Items
<1>8. TextOnTop(stack, runs)
  BY <1>3, <1>4, <1>6, <1>7 DEF TextOnTop
<1>9. BlocksOf(stack) = Base(stack)
  <2>1. tok # "test"
    OBVIOUS
  <2>2. BlocksIn(stack, tok, want_loop_break) = Base(stack)
    BY <1>3, <1>6, <2>1, BlocksPlain
  <2> QED
    BY <2>2, BlocksOfIs
<1>10. /\ Base(stack) \in Seq(Blk) /\ Base(stack) # <<>>
       /\ Base(stack)[1].left = stack[1].left
  BY <1>6, <1>7, <1>3, <1>4, TopBlock DEF Sound
<1> QED
  BY <1>4, <1>6, <1>8, <1>9, <1>10

\* What is left once n lines were read.
LEMMA RestFacts ==
    ASSUME IInv, JInv, Interpreting, tok \in {"line", "cut"},
           NEW n \in Nat, n <= stack[1].left
    PROVE  LET u == Took(stack, n)
           IN  /\ u \in Seq(Items) /\ u # <<>> /\ u[1].kind \in Texts
               /\ Len(u) = Len(stack) /\ Len(u) <= Limit
               /\ Walls(u) = Walls(stack)
               /\ Sized(Walls(u), runs) /\ Alive(Walls(u), runs)
               /\ Piled(u) /\ Sound(u, runs)
               /\ Promise!After(n) = Base(u)
               /\ Promise!Reading
<1>1. /\ TextOnTop(stack, runs) /\ stack[1].left > 0
      /\ BlocksOf(stack) = Base(stack)
      /\ Base(stack) # <<>> /\ Base(stack)[1].left = stack[1].left
  BY LineFacts
<1> DEFINE u == Took(stack, n)
<1>2. /\ u \in Seq(Items) /\ u # <<>> /\ u[1].kind \in Texts
      /\ Len(u) = Len(stack) /\ Len(u) <= Limit
      /\ Walls(u) = Walls(stack)
      /\ Sized(Walls(u), runs) /\ Alive(Walls(u), runs)
      /\ Piled(u) /\ Sound(u, runs)
      /\ Base(u) = AfterOf(Base(stack), n)
  BY <1>1, TookFacts
<1> HIDE DEF u
<1>3. Promise!After(n) = Base(u)
  BY <1>1, <1>2, Zenon DEF Promise!After, AfterOf
<1>4. Promise!Reading
  BY <1>1 DEF Promise!Reading, Interpreting
<1> QED
  BY <1>2, <1>3, <1>4 DEF u

LEMMA RestOne ==
    ASSUME IInv, JInv, Interpreting, tok \in {"line", "cut"}
    PROVE  /\ Rest \in Seq(Items) /\ Rest # <<>> /\ Rest[1].kind \in Texts
           /\ Len(Rest) = Len(stack) /\ Len(Rest) <= Limit
           /\ Walls(Rest) = Walls(stack)
           /\ Sized(Walls(Rest), runs) /\ Alive(Walls(Rest), runs)
           /\ Piled(Rest) /\ Sound(Rest, runs)
           /\ Promise!After(1) = Base(Rest)
           /\ Promise!Reading
<1>1. stack[1].left \in Nat /\ stack[1].left > 0
  BY LineFacts DEF TextOnTop
<1>2. 1 \in Nat /\ 1 <= stack[1].left
  BY <1>1
<1> DEFINE u == Took(stack, 1)
<1>3. /\ u \in Seq(Items) /\ u # <<>> /\ u[1].kind \in Texts
      /\ Len(u) = Len(stack) /\ Len(u) <= Limit
      /\ Walls(u) = Walls(stack)
      /\ Sized(Walls(u), runs) /\ Alive(Walls(u), runs)
      /\ Piled(u) /\ Sound(u, runs)
      /\ Promise!After(1) = Base(u)
      /\ Promise!Reading
  BY <1>2, RestFacts
<1> QED
  BY <1>3 DEF Rest

-----------------------------------------------------------------------------
\* Lines.

LEMMA LineKept ==
    ASSUME IInv, JInv, Line
    PROVE  JInv' /\ Promise!Line
<1>1. Interpreting /\ tok \in {"line", "cut"}
  BY DEF Line
<1>2. /\ Next_token(Rest)
      /\ runs' = runs /\ want_loop_break' = want_loop_break
      /\ files' = files /\ phase' = phase
  BY DEF Line
<1>3. /\ Rest \in Seq(Items) /\ Len(Rest) <= Limit /\ Sound(Rest, runs)
      /\ Promise!After(1) = Base(Rest) /\ Promise!Reading
  BY <1>1, RestOne
<1>4. want_loop_break' = FALSE
  BY <1>1, <1>2, LineFacts
<1>5. Sound(Rest, runs')
  BY <1>2, <1>3
<1>6. JInv' /\ BlocksOf(stack)' \in Promise!Left(Base(Rest))
  BY <1>2, <1>3, <1>4, <1>5, EndsReading
<1>7. Promise!Becomes(Promise!After(1))
  BY <1>3, <1>6 DEF Promise!Becomes
<1> QED
  BY <1>2, <1>3, <1>6, <1>7 DEF Promise!Line

\* There are too many iterators.
LEMMA FailKept ==
    ASSUME Interpreting, phase' = "fatal", stack' = stack, tok' = tok,
           want_loop_break' = want_loop_break, files' = files
    PROVE  JInv' /\ Promise!Fail
<1>1. JInv'
  BY DEF JInv, Interpreting
<1>2. BlocksOf(stack)' = BlocksOf(stack)
  BY BlocksOfIs
<1> QED
  BY <1>1, <1>2 DEF Promise!Fail, Interpreting

LEMMA PushKept ==
    ASSUME NEW a \in Seq(Items), NEW s \in Seq(Items), Sound(a \o s, runs'),
           Push(a, s), want_loop_break' = FALSE
    PROVE  \/ /\ phase' = phase /\ JInv'
              /\ BlocksOf(stack)' \in Promise!Left(Base(a \o s))
           \/ phase' = "fatal" /\ stack' = stack /\ tok' = tok
<1> DEFINE u == a \o s
<1>1. u \in Seq(Items)
  BY ConcatIs
<1>2. Sound(u, runs')
  OBVIOUS
<1>3. IF Len(u) <= Limit THEN Next_token(u) /\ phase' = phase
      ELSE phase' = "fatal" /\ stack' = stack /\ tok' = tok
  BY DEF Push
<1> HIDE DEF u
<1>4. CASE Len(u) <= Limit
  BY <1>3, <1>4, <1>1, <1>2, EndsReading DEF u
<1>5. CASE ~(Len(u) <= Limit)
  BY <1>3, <1>5
<1> QED
  BY <1>4, <1>5

\* Text goes onto a stack.
LEMMA TextPushed ==
    ASSUME NEW s \in Seq(Items), Piled(s), NEW r, Sized(Walls(s), r),
           Alive(Walls(s), r),
           s = <<>> \/ s[1].kind \in Texts,
           NEW it \in Items, it.kind \in BlockKinds
    PROVE  /\ <<it>> \in Seq(Items) /\ Sound(<<it>> \o s, r)
           /\ Base(<<it>> \o s) = <<it>> \o Base(s)
<1>1. it.kind \in Texts /\ it.kind # "loop" /\ it.kind \notin Barriers
  BY DEF BlockKinds, Texts, Barriers
<1>2. s # <<>> => MayBeOn(it.kind, s[1].kind)
  BY <1>1 DEF MayBeOn, Texts
<1>3. Piled(<<it>> \o s)
  BY <1>1, <1>2, PiledOnTop
<1>4. Walls(<<it>> \o s) = Walls(s)
  BY <1>1, WallsText
<1>5. Sound(<<it>> \o s, r)
  BY <1>3, <1>4, SoundAlive
<1>6. Base(<<it>> \o s) = OneBlock(it) \o Base(s)
  BY <1>1, BaseOnTop
<1>7. OneBlock(it) = <<it>>
  BY DEF OneBlock
<1> QED
  BY <1>5, <1>6, <1>7, OneItem

LEMMA EnterKept ==
    ASSUME IInv, JInv, NEW kind \in BlockKinds, NEW size \in Nat,
           NEW args \in Nat, Enter(kind, size, args)
    PROVE  JInv' /\ (Promise!Enter(kind, size, args) \/ Promise!Fail)
<1> DEFINE it == Iterator(kind, size, args, size)
<1>1. Interpreting /\ tok \in {"line", "cut"}
  BY DEF Enter, Reading
<1>2. /\ Push(<<it>>, Rest) /\ runs' = runs
      /\ want_loop_break' = want_loop_break /\ files' = files
  BY DEF Enter
<1>3. /\ Rest \in Seq(Items) /\ Rest[1].kind \in Texts /\ Piled(Rest)
      /\ Sized(Walls(Rest), runs) /\ Alive(Walls(Rest), runs)
      /\ Promise!After(1) = Base(Rest) /\ Promise!Reading
  BY <1>1, RestOne
<1>4. want_loop_break' = FALSE
  BY <1>1, <1>2, LineFacts
<1>5. /\ it \in Items /\ it.kind \in BlockKinds
      /\ it = Promise!Block(kind, size, args, size)
  BY TextItem DEF Texted, BlockKinds, Texts, Iterator, Promise!Block
<1> HIDE DEF it
<1>6. /\ <<it>> \in Seq(Items) /\ Sound(<<it>> \o Rest, runs)
      /\ Base(<<it>> \o Rest) = <<it>> \o Base(Rest)
  BY <1>3, <1>5, TextPushed
<1>7. Sound(<<it>> \o Rest, runs')
  BY <1>2, <1>6
<1>8. \/ /\ phase' = phase /\ JInv'
         /\ BlocksOf(stack)' \in Promise!Left(Base(<<it>> \o Rest))
      \/ phase' = "fatal" /\ stack' = stack /\ tok' = tok
  BY <1>2, <1>3, <1>4, <1>6, <1>7, PushKept
<1>9. CASE /\ phase' = phase /\ JInv'
           /\ BlocksOf(stack)' \in Promise!Left(Base(<<it>> \o Rest))
  BY <1>3, <1>5, <1>6, <1>9, <1>2, Zenon DEF Promise!Becomes, Promise!Enter
<1>10. CASE phase' = "fatal" /\ stack' = stack /\ tok' = tok
  BY <1>1, <1>2, <1>10, FailKept
<1> QED
  BY <1>8, <1>9, <1>10

LEMMA InterpolateKept ==
    ASSUME IInv, JInv, NEW size \in Nat, Interpolate(size)
    PROVE  JInv' /\ (\/ Promise!Enter("macro", size, Promise!ArgsOf(BlocksOf(stack)))
                     \/ Promise!Fail)
<1>1. Interpreting /\ tok \in {"line", "cut"}
  BY DEF Interpolate, Enter, Reading
<1>2. stack \in Seq(Items) /\ BlocksOf(stack) = Base(stack)
  BY <1>1, LineFacts DEF TextOnTop
<1>3. ArgsOf(stack) \in Nat
  BY <1>2, ArgsNat
<1>4. ArgsOf(stack) = Promise!ArgsOf(BlocksOf(stack))
  BY <1>2, BaseArgs
<1> DEFINE args == ArgsOf(stack)
<1>5. Enter("macro", size, args) /\ "macro" \in BlockKinds
  BY DEF Interpolate, BlockKinds
<1> HIDE DEF args
<1>6. args \in Nat /\ args = Promise!ArgsOf(BlocksOf(stack))
  BY <1>3, <1>4 DEF args
<1>7. JInv' /\ (Promise!Enter("macro", size, args) \/ Promise!Fail)
  BY <1>5, <1>6, EnterKept
<1> QED
  BY <1>6, <1>7

LEMMA Associates ==
    ASSUME NEW E, NEW a \in Seq(E), NEW b \in Seq(E), NEW c \in Seq(E)
    PROVE  (a \o b) \o c = a \o (b \o c)
OBVIOUS

LEMMA OneByOne ==
    ASSUME NEW E, NEW x \in E, NEW y \in E, NEW z \in E
    PROVE  <<x, y, z>> = <<x>> \o (<<y>> \o <<z>>)
<1> DEFINE r == <<z>>
           p == <<y>> \o r
           q == <<x>> \o p
           t == <<x, y, z>>
<1>1. r \in Seq(E) /\ Len(r) = 1 /\ r[1] = z
  OBVIOUS
<1>2. t \in Seq(E) /\ Len(t) = 3 /\ t[1] = x /\ t[2] = y /\ t[3] = z
  OBVIOUS
<1> HIDE DEF r, t
<1>3. /\ p \in Seq(E) /\ Len(p) = Len(r) + 1 /\ p[1] = y
      /\ \A i \in 1..Len(r) : p[i + 1] = r[i]
  <2>1. r \in Seq(E)
    BY <1>1
  <2> QED
    BY <2>1, OnTopOf
<1> HIDE DEF p
<1>4. /\ q \in Seq(E) /\ Len(q) = Len(p) + 1 /\ q[1] = x
      /\ \A i \in 1..Len(p) : q[i + 1] = p[i]
  BY <1>3, OnTopOf
<1> HIDE DEF q
<1>5. Len(p) = 2 /\ p[1] = y /\ p[2] = z
  BY <1>1, <1>3
<1>6. Len(q) = 3 /\ q[1] = x /\ q[2] = y /\ q[3] = z
  BY <1>4, <1>5
<1>7. \A i \in 1..Len(t) : t[i] = q[i]
  BY <1>2, <1>6
<1>8. t \in Seq(E) /\ q \in Seq(E) /\ Len(t) = Len(q)
  BY <1>2, <1>4, <1>6
<1>9. t = q
  BY <1>7, <1>8, SameSequence
<1> QED
  BY <1>9 DEF p, q, r, t

LEMMA ThreeOnTop ==
    ASSUME NEW E, NEW x \in E, NEW y \in E, NEW z \in E, NEW s \in Seq(E)
    PROVE  /\ <<x, y, z>> \in Seq(E)
           /\ <<x, y, z>> \o s = <<x>> \o (<<y>> \o (<<z>> \o s))
<1> DEFINE a == <<x>>
           b == <<y>>
           c == <<z>>
           d == b \o c
<1>1. a \in Seq(E) /\ b \in Seq(E) /\ c \in Seq(E) /\ d \in Seq(E)
  <2>1. a \in Seq(E) /\ b \in Seq(E) /\ c \in Seq(E)
    OBVIOUS
  <2> HIDE DEF a, b, c
  <2> QED
    BY <2>1, ConcatIs
<1>2. <<x, y, z>> = a \o d
  BY OneByOne
<1>3. <<x, y, z>> \in Seq(E)
  OBVIOUS
<1> HIDE DEF a, b, c
<1>4. (b \o c) \o s = b \o (c \o s)
  <2>1. b \in Seq(E) /\ c \in Seq(E)
    BY <1>1
  <2> QED
    BY <2>1, Associates
<1> HIDE DEF d
<1>5. (a \o d) \o s = a \o (d \o s)
  <2>1. a \in Seq(E) /\ d \in Seq(E)
    BY <1>1
  <2> QED
    BY <2>1, Associates, SMTT(30)
<1>6. d \o s = b \o (c \o s)
  BY <1>4 DEF d
<1>7. <<x, y, z>> \o s = a \o (b \o (c \o s))
  BY <1>2, <1>5, <1>6
<1> QED
  BY <1>3, <1>7 DEF a, b, c

-----------------------------------------------------------------------------
\* A trap goes onto a stack.
LEMMA TrapOnTop ==
    ASSUME NEW s \in Seq(Items), Piled(s), s = <<>> \/ s[1].kind # "end_trap",
           NEW size \in Nat
    PROVE  /\ Trap(size) \in Seq(Items) /\ Trap(size) \o s \in Seq(Items)
           /\ Piled(Trap(size) \o s)
           /\ Walls(Trap(size) \o s) = Walls(s)
           /\ Base(Trap(size) \o s)
                  = <<Promise!Block("macro", size, 0, size)>> \o Base(s)
<1> DEFINE x == Iterator("begin_trap", 1, 0, 1)
           y == Iterator("macro", size, 0, size)
           z == Iterator("end_trap", 1, 0, 1)
           s1 == <<z>> \o s
           s2 == <<y>> \o s1
           s3 == <<x>> \o s2
<1>1. x \in Items /\ y \in Items /\ z \in Items
  BY DEF Iterator, Items, Texts, Barriers, Marks
<1>2. x.kind = "begin_trap" /\ y.kind = "macro" /\ z.kind = "end_trap"
  BY DEF Iterator
<1>3. Trap(size) = <<x, y, z>>
  BY DEF Trap
<1>4. y = Promise!Block("macro", size, 0, size)
  BY DEF Iterator, Promise!Block
<1> HIDE DEF x, y, z
<1>5. <<x, y, z>> \in Seq(Items) /\ <<x, y, z>> \o s = s3
  BY <1>1, ThreeOnTop, SMTT(30)
<1>6. s1 \in Seq(Items) /\ s1[1] = z /\ s1 # <<>>
  BY <1>1, OnTopOf
<1>7. Piled(s1) /\ Walls(s1) = Walls(s) /\ Base(s1) = <<>> \o Base(s)
  BY <1>2, <1>1, PiledOnTop, WallsText, BaseOnTop DEF MayBeOn, Barriers,
     OneBlock, BlockKinds
<1> HIDE DEF s1
<1>8. s2 \in Seq(Items) /\ s2[1] = y /\ s2 # <<>>
  BY <1>1, <1>6, OnTopOf
<1>9. Piled(s2) /\ Walls(s2) = Walls(s1) /\ Base(s2) = <<y>> \o Base(s1)
  BY <1>2, <1>6, <1>1, <1>7, PiledOnTop, WallsText, BaseOnTop DEF MayBeOn,
     Barriers, OneBlock, BlockKinds
<1> HIDE DEF s2
<1>10. s3 \in Seq(Items)
  BY <1>1, <1>8, OnTopOf
<1>11. Piled(s3) /\ Walls(s3) = Walls(s2) /\ Base(s3) = <<>> \o Base(s2)
  BY <1>2, <1>8, <1>1, <1>9, PiledOnTop, WallsText, BaseOnTop DEF MayBeOn,
     Barriers, OneBlock, BlockKinds
<1> HIDE DEF s3
<1>12. Base(s3) = <<y>> \o Base(s)
  BY <1>8, PiecesType, <1>7, <1>9, <1>11
<1> QED
  BY <1>3, <1>4, <1>5, <1>7, <1>9, <1>10, <1>11, <1>12

LEMMA SpringKept ==
    ASSUME IInv, JInv, NEW size \in Nat, Spring(size)
    PROVE  JInv' /\ (Promise!Enter("macro", size, 0) \/ Promise!Fail)
<1> DEFINE t == Trap(size)
<1>1. Interpreting /\ tok \in {"line", "cut"}
  BY DEF Spring, Reading
<1>2. /\ Push(t, Rest) /\ runs' = runs
      /\ want_loop_break' = want_loop_break /\ files' = files
  BY DEF Spring
<1>3. /\ Rest \in Seq(Items) /\ Rest # <<>> /\ Rest[1].kind \in Texts
      /\ Piled(Rest)
      /\ Sized(Walls(Rest), runs) /\ Alive(Walls(Rest), runs)
      /\ Promise!After(1) = Base(Rest) /\ Promise!Reading
  BY <1>1, RestOne
<1>4. want_loop_break' = FALSE
  BY <1>1, <1>2, LineFacts
<1>5. Rest = <<>> \/ Rest[1].kind # "end_trap"
  BY <1>3 DEF Texts
<1>6. /\ t \in Seq(Items) /\ t \o Rest \in Seq(Items)
      /\ Piled(t \o Rest) /\ Walls(t \o Rest) = Walls(Rest)
      /\ Base(t \o Rest)
             = <<Promise!Block("macro", size, 0, size)>> \o Base(Rest)
  BY <1>3, <1>5, TrapOnTop
<1> HIDE DEF t
<1>7. Sound(t \o Rest, runs')
  BY <1>2, <1>3, <1>6, SoundAlive
<1>8. \/ /\ phase' = phase /\ JInv'
         /\ BlocksOf(stack)' \in Promise!Left(Base(t \o Rest))
      \/ phase' = "fatal" /\ stack' = stack /\ tok' = tok
  BY <1>2, <1>3, <1>4, <1>6, <1>7, PushKept
<1>9. CASE /\ phase' = phase /\ JInv'
           /\ BlocksOf(stack)' \in Promise!Left(Base(t \o Rest))
  <2>1. Promise!Becomes(
            <<Promise!Block("macro", size, 0, size)>> \o Promise!After(1))
    BY <1>3, <1>6, <1>9, Zenon DEF Promise!Becomes
  <2> QED
    BY <1>2, <1>3, <1>9, <2>1, Zenon DEF Promise!Enter
<1>10. CASE phase' = "fatal" /\ stack' = stack /\ tok' = tok
  BY <1>1, <1>2, <1>10, FailKept
<1> QED
  BY <1>8, <1>9, <1>10

\* What is known wherever something is interpreted.
LEMMA NowFacts ==
    ASSUME IInv, JInv, Interpreting
    PROVE  /\ stack \in Seq(Items) /\ runs \in Seq(RunRecords)
           /\ runs # <<>> /\ Len(runs) \in Nat /\ Fits(stack, tok)
           /\ want_loop_break \in BOOLEAN
           /\ Sound(stack, runs) /\ Len(stack) <= Limit
           /\ Len(Walls(stack)) \in Nat /\ Len(Walls(stack)) <= Len(runs) - 1
           /\ want_loop_break => /\ tok = "eof" /\ stack # <<>>
                                 /\ stack[1].kind = "boundary"
           /\ BlocksOf(stack) = Now(stack, tok, want_loop_break)
<1>1. PICK x \in 0..Len(runs) :
              Whole(stack, tok, runs, x, want_loop_break, phase)
  BY DEF IInv
<1>2. /\ Stacked(stack, runs, x, phase) /\ Fits(stack, tok)
      /\ want_loop_break \in BOOLEAN
  BY <1>1, WholeFacts
<1>3. /\ stack \in Seq(Items) /\ WellRun(runs, x)
      /\ Depth(stack, Len(stack)) = LoopsOf(runs, x) /\ LoopsOf(runs, x) \in Nat
      /\ runs \in Seq(RunRecords) /\ 1 \in 1..Len(runs) /\ Len(runs) \in Nat
  BY <1>2, StackedFacts
<1>4. Steady(stack, tok, runs, want_loop_break)
  BY DEF JInv
<1>5. BlocksOf(stack) = Now(stack, tok, want_loop_break)
  BY <1>2, <1>3, <1>4, NowIs, BlocksOfIs
<1>6. Len(Walls(stack)) = LoopsOf(runs, x)
  BY <1>3, WallsCount
<1>7. LoopsOf(runs, x) <= Len(runs) - 1
  BY <1>3 DEF LoopsOf
<1>8. runs # <<>>
  BY <1>3
<1>9. /\ Sound(stack, runs) /\ Len(stack) <= Limit
      /\ want_loop_break => /\ tok = "eof" /\ stack # <<>>
                            /\ stack[1].kind = "boundary"
  BY <1>4 DEF Steady
<1> QED
  BY <1>2, <1>3, <1>5, <1>6, <1>7, <1>8, <1>9

LEMMA PiledTail ==
    ASSUME NEW s \in Seq(Items), s # <<>>, Piled(s)
    PROVE  Piled(Tail(s)) /\ Tail(s) \in Seq(Items) /\ Len(Tail(s)) = Len(s) - 1
<1>1. 2 \in 1..(Len(s) + 1)
  OBVIOUS
<1>2. Piled(FromTop(s, 2))
  BY <1>1, PiledFrom
<1>3. FromTop(s, 2) = Tail(s)
  BY DEF FromTop
<1>4. Tail(s) \in Seq(Items) /\ Len(Tail(s)) = Len(s) - 1
  BY TopOf
<1> QED
  BY <1>2, <1>3, <1>4

\* What marks a trap is no boundary and no block.
LEMMA MarkTail ==
    ASSUME NEW s \in Seq(Items), s # <<>>, s[1].kind \in Marks
    PROVE  Walls(Tail(s)) = Walls(s) /\ Base(Tail(s)) = Base(s)
<1> DEFINE it == s[1]
           t == Tail(s)
<1>1. it \in Items /\ t \in Seq(Items) /\ s = <<it>> \o t
  BY TopOf
<1>2. it.kind \notin Barriers /\ it.kind # "loop" /\ it.kind \notin BlockKinds
  BY DEF Marks, Barriers, BlockKinds
<1>3. it.kind # "boundary"
  BY <1>2 DEF Barriers
<1> HIDE DEF it, t
<1>4. Walls(<<it>> \o t) = Walls(t)
  BY <1>1, <1>2, WallsText
<1>5. Base(<<it>> \o t) = OneBlock(it) \o Base(t)
  BY <1>1, <1>2, BaseOnTop
<1>6. OneBlock(it) = <<>>
  BY <1>2, <1>3 DEF OneBlock
<1>7. <<>> \o Base(t) = Base(t)
  BY <1>1, PiecesType
<1>8. Walls(s) = Walls(t) /\ Base(s) = Base(t)
  BY <1>1, <1>4, <1>5, <1>6, <1>7
<1> QED
  BY <1>8 DEF t

\* The innermost run expects more ends of traps, or fewer.
LEMMA SoundAlike ==
    ASSUME NEW s, NEW r \in Seq(RunRecords), r # <<>>, Len(Walls(s)) \in Nat,
           Len(Walls(s)) <= Len(r), Sized(Walls(s), r), Alive(Walls(s), r),
           Piled(s), NEW k
    PROVE  Sound(s, [r EXCEPT ![1].traps = k])
<1> DEFINE u == [r EXCEPT ![1].traps = k]
           n == Len(r)
<1>1. n \in Nat /\ Len(Walls(s)) <= n
  OBVIOUS
<1>2. \A i \in 1..n : u[i].kind = r[i].kind /\ u[i].size = r[i].size
  <2>1. TAKE i \in 1..n
  <2>2. r[i] \in RunRecords
    OBVIOUS
  <2>3. CASE i = 1
    BY <2>2, <2>3 DEF RunRecords
  <2>4. CASE i # 1
    BY <2>4
  <2> QED
    BY <2>3, <2>4
<1> HIDE DEF u, n
<1>3. Sized(Walls(s), u) /\ Alive(Walls(s), u)
  BY <1>1, <1>2, RunsAlike
<1>4. Sound(s, u)
  BY <1>3, SoundAlive
<1> QED
  BY <1>4 DEF u

LEMMA MarkKept ==
    ASSUME IInv, JInv, Interpreting, tok \in Marks, NEW k, Traps(k)
    PROVE  JInv' /\ Promise!Leave
<1> DEFINE t == Tail(stack)
           r == [runs EXCEPT ![1].traps = @ + k]
<1>1. /\ stack \in Seq(Items) /\ runs \in Seq(RunRecords)
      /\ runs # <<>> /\ Len(runs) \in Nat /\ Fits(stack, tok)
      /\ want_loop_break \in BOOLEAN
      /\ Sound(stack, runs) /\ Len(stack) <= Limit
      /\ Len(Walls(stack)) \in Nat /\ Len(Walls(stack)) <= Len(runs) - 1
      /\ want_loop_break => /\ tok = "eof" /\ stack # <<>>
                            /\ stack[1].kind = "boundary"
      /\ BlocksOf(stack) = Now(stack, tok, want_loop_break)
  BY NowFacts
<1>2. tok # "eof" /\ tok # "test"
  BY DEF Marks
<1>3. want_loop_break = FALSE /\ BlocksOf(stack) = Base(stack)
  BY <1>1, <1>2 DEF Now
<1>4. stack # <<>> /\ stack[1].kind \in Marks
  BY <1>1 DEF Fits
<1>5. Unread(Rest) = Unread(t)
  BY <1>1, <1>4, MarkRead DEF Rest
<1>6. /\ Next_token(t) /\ runs' = r /\ want_loop_break' = FALSE
      /\ files' = files /\ phase' = phase
  BY <1>3, <1>5, Zenon DEF Traps, Next_token
<1>7. Walls(t) = Walls(stack) /\ Base(t) = Base(stack)
  BY <1>1, <1>4, MarkTail
<1>8. /\ Piled(stack) /\ Sized(Walls(stack), runs) /\ Unwinding(stack, runs)
      /\ stack[1].kind # "return_boundary"
  BY <1>1, <1>4 DEF Sound, Marks
<1>9. Alive(Walls(stack), runs)
  BY <1>8, AliveIs
<1>10. Piled(t) /\ t \in Seq(Items) /\ Len(t) = Len(stack) - 1
  BY <1>1, <1>4, <1>8, PiledTail
<1> HIDE DEF t
<1>11. Sound(t, r)
  <2> DEFINE n == runs[1].traps + k
  <2>1. Len(Walls(t)) \in Nat /\ Len(Walls(t)) <= Len(runs)
    BY <1>1, <1>7
  <2>2. Sized(Walls(t), runs) /\ Alive(Walls(t), runs)
    BY <1>7, <1>8, <1>9
  <2> HIDE DEF n
  <2>3. Sound(t, [runs EXCEPT ![1].traps = n])
    BY <1>1, <1>10, <2>1, <2>2, SoundAlike
  <2>4. r = [runs EXCEPT ![1].traps = n]
    BY Zenon DEF n
  <2> QED
    BY <2>3, <2>4
<1>12. Len(t) <= Limit
  BY <1>1, <1>10, InputStackAssumption
<1> HIDE DEF r
<1>13. Sound(t, runs')
  BY <1>6, <1>11
<1>14. JInv' /\ BlocksOf(stack)' \in Promise!Left(Base(t))
  BY <1>6, <1>10, <1>12, <1>13, EndsReading
<1>15. Promise!Becomes(BlocksOf(stack))
  BY <1>3, <1>7, <1>14 DEF Promise!Becomes
<1> QED
  BY <1>6, <1>14, <1>15, Zenon DEF Promise!Leave

LEMMA BeginTrapKept ==
    ASSUME IInv, JInv, BeginTrap PROVE JInv' /\ Promise!Leave
<1>1. Interpreting /\ tok = "begin_trap" /\ Traps(1)
  BY Zenon DEF BeginTrap
<1>2. tok \in Marks
  BY <1>1 DEF Marks
<1> QED
  BY <1>1, <1>2, MarkKept

LEMMA EndTrapKept ==
    ASSUME IInv, JInv, EndTrap PROVE JInv' /\ Promise!Leave
<1>1. PICK k : Interpreting /\ tok = "end_trap" /\ Traps(k)
  BY Zenon DEF EndTrap
<1>2. tok \in Marks
  BY <1>1 DEF Marks
<1> QED
  BY <1>1, <1>2, MarkKept

LEMMA ShiftedSound ==
    ASSUME NEW s \in Seq(Items), Piled(s), NEW n \in Nat
    PROVE  LET t == Shifted(s, n)
           IN  /\ t \in Seq(Items) /\ Len(t) = Len(s) /\ Piled(t)
               /\ Walls(t) = Walls(s)
<1> DEFINE i == MacroAt(s)
           t == Shifted(s, n)
<1>1. i \in 1..(Len(s) + 1) /\ Len(s) \in Nat
  BY MacroFound
<1>2. t \in Seq(Items)
  BY ShiftedKeeps
<1>3. Walls(t) = Walls(s)
  BY WallsShifted
<1>4. CASE i > Len(s)
  BY <1>4 DEF Shifted, MacroAt
<1>5. CASE ~(i > Len(s))
  <2>1. s[i] \in Items /\ i \in 1..Len(s)
    BY <1>1, <1>5, ElementOf
  <2>2. t = [s EXCEPT ![i].args = IF n < @ THEN @ - n ELSE 0]
    BY <1>5 DEF Shifted, MacroAt
  <2>3. Len(t) = Len(s) /\ \A j \in 1..Len(s) : j # i => t[j] = s[j]
    BY <2>2
  <2>4. t[i].kind = s[i].kind
    BY <2>1, <2>2 DEF Items
  <2> HIDE DEF t, i
  <2>5. \A j \in 1..Len(s) : t[j].kind = s[j].kind
    BY <2>3, <2>4
  <2>6. Piled(t)
    BY <1>2, <2>3, <2>5, PiledSame
  <2> QED
    BY <1>2, <1>3, <2>3, <2>6 DEF t
<1> QED
  BY <1>4, <1>5

LEMMA ShiftKept ==
    ASSUME IInv, JInv, NEW n \in Nat, Shift(n)
    PROVE  JInv' /\ Promise!Shift(n)
<1> DEFINE t == Shifted(Rest, n)
<1>1. Interpreting /\ tok \in {"line", "cut"}
  BY DEF Shift, Reading
<1>2. /\ Next_token(t)
      /\ runs' = runs /\ want_loop_break' = want_loop_break
      /\ files' = files /\ phase' = phase
  BY Zenon DEF Shift
<1>3. /\ Rest \in Seq(Items) /\ Len(Rest) <= Limit /\ Piled(Rest)
      /\ Sized(Walls(Rest), runs) /\ Alive(Walls(Rest), runs)
      /\ Promise!After(1) = Base(Rest) /\ Promise!Reading
  BY <1>1, RestOne
<1>4. want_loop_break' = FALSE
  BY <1>1, <1>2, LineFacts
<1>5. /\ t \in Seq(Items) /\ Len(t) = Len(Rest) /\ Piled(t)
      /\ Walls(t) = Walls(Rest)
  BY <1>3, ShiftedSound
<1> HIDE DEF t
<1>6. Sound(t, runs')
  BY <1>2, <1>3, <1>5, SoundAlive
<1>7. Len(t) <= Limit
  BY <1>3, <1>5
<1>8. JInv' /\ BlocksOf(stack)' \in Promise!Left(Base(t))
  BY <1>2, <1>4, <1>5, <1>6, <1>7, EndsReading
<1> DEFINE b == BlocksOf(stack)
           a == Promise!After(1)
           i == Promise!FirstOf(b, "macro")
<1>9. b \in Seq(Blk) /\ b # <<>> /\ 1 \in Nat /\ 1 <= b[1].left
  <2>1. /\ stack[1].left > 0 /\ BlocksOf(stack) = Base(stack)
        /\ Base(stack) \in Seq(Blk) /\ Base(stack) # <<>>
        /\ Base(stack)[1].left = stack[1].left
        /\ stack[1].left \in Nat
    BY <1>1, LineFacts DEF TextOnTop
  <2> QED
    BY <2>1
<1>10. a = AfterOf(b, 1)
  BY Zenon DEF Promise!After, AfterOf
<1> HIDE DEF b
<1>11. Promise!FirstOf(a, "macro") = i /\ Len(a) = Len(b)
  BY <1>9, <1>10, FirstOfAfter
<1> HIDE DEF a
<1>12. Base(t) = IF i > Len(b) THEN a ELSE ShiftOf(a, i, n)
  BY <1>3, BaseShifted, <1>11 DEF t, a
<1> HIDE DEF i
<1>13. IF i > Len(b) THEN Promise!Becomes(a) ELSE Promise!Becomes(ShiftOf(a, i, n))
  BY <1>8, <1>12, Zenon DEF Promise!Becomes
<1>14. Promise!Shift(n)
  BY <1>2, <1>3, <1>13, Zenon DEF Promise!Shift, ShiftOf, a, b, i
<1> QED
  BY <1>8, <1>14

LEMMA EndFileSound ==
    ASSUME NEW s \in Seq(Items), Piled(s)
    PROVE  LET t == EndFile(s)
           IN  /\ t \in Seq(Items) /\ Len(t) <= Len(s) /\ Piled(t)
               /\ Walls(t) = Walls(s)
<1> DEFINE i == FileAt(s)
           t == EndFile(s)
<1>1. i \in 1..(Len(s) + 1) /\ (i <= Len(s) => IsFile(s[i]))
      /\ Len(s) \in Nat
  BY FileFound
<1>2. t = Without(s, i)
  BY DEF EndFile, FileAt, Without
<1> HIDE DEF t
<1>3. CASE i <= Len(s)
  <2>1. i \in 1..Len(s) /\ s[i].kind = "file"
    BY <1>1, <1>3 DEF IsFile
  <2> HIDE DEF i
  <2>2. t \in Seq(Items) /\ Len(t) = Len(s) - 1
    BY <1>2, <2>1, WithoutIs
  <2>3. Piled(t)
    BY <1>2, <2>1, PiledWithout
  <2>4. Walls(t) = Walls(s)
    BY <1>2, <2>1, WallsWithout
  <2>5. Len(t) <= Len(s)
    BY <1>1, <2>2
  <2> QED
    BY <2>2, <2>3, <2>4, <2>5 DEF t
<1>4. CASE ~(i <= Len(s))
  BY <1>1, <1>4, WithoutBelow, <1>2 DEF t
<1> QED
  BY <1>3, <1>4

LEMMA NxKept ==
    ASSUME IInv, JInv, Nx
    PROVE  JInv' /\ Promise!Nx
<1> DEFINE t == EndFile(Rest)
<1>1. Interpreting /\ tok \in {"line", "cut"}
  BY DEF Nx, Reading
<1>2. /\ Next_token(t)
      /\ runs' = runs /\ want_loop_break' = want_loop_break
      /\ files' = files /\ phase' = phase
  BY Zenon DEF Nx
<1>3. /\ Rest \in Seq(Items) /\ Len(Rest) <= Limit /\ Piled(Rest)
      /\ Sized(Walls(Rest), runs) /\ Alive(Walls(Rest), runs)
      /\ Promise!After(1) = Base(Rest) /\ Promise!Reading
  BY <1>1, RestOne
<1>4. want_loop_break' = FALSE
  BY <1>1, <1>2, LineFacts
<1>5. /\ t \in Seq(Items) /\ Len(t) <= Len(Rest) /\ Piled(t)
      /\ Walls(t) = Walls(Rest)
  BY <1>3, EndFileSound
<1>6. Base(t) = Promise!EndFile(Promise!After(1))
  BY <1>3, BaseEndFile
<1> HIDE DEF t
<1>7. Sound(t, runs')
  BY <1>2, <1>3, <1>5, SoundAlive
<1>8. Len(t) <= Limit
  BY <1>3, <1>5, InputStackAssumption
<1>9. JInv' /\ BlocksOf(stack)' \in Promise!Left(Base(t))
  BY <1>2, <1>4, <1>5, <1>7, <1>8, EndsReading
<1>10. Promise!Becomes(Promise!EndFile(Promise!After(1)))
  BY <1>6, <1>9, Zenon DEF Promise!Becomes
<1> QED
  BY <1>2, <1>3, <1>9, <1>10, Zenon DEF Promise!Nx

-----------------------------------------------------------------------------
\* Returning from macros.

LEMMA MacroAtSame ==
    ASSUME NEW s \in Seq(Items), NEW t \in Seq(Items), Len(t) = Len(s),
           \A i \in 1..Len(s) : t[i].kind = s[i].kind
    PROVE  HasBelow(s) <=> HasBelow(t)
<1>1. ASSUME NEW i \in 1..(Len(s) + 1)
      PROVE  /\ (i <= Len(s) => IsMacro(s[i])) <=> (i <= Len(t) => IsMacro(t[i]))
             /\ (\A j \in 1..(i - 1) : ~IsMacro(s[j]))
                    <=> (\A j \in 1..(i - 1) : ~IsMacro(t[j]))
  <2>1. i <= Len(s) => t[i].kind = s[i].kind
    OBVIOUS
  <2>2. \A j \in 1..(i - 1) : t[j].kind = s[j].kind
    OBVIOUS
  <2> QED
    BY <2>1, <2>2, Zenon DEF IsMacro
<1>2. FirstIn(s, IsMacro) = FirstIn(t, IsMacro)
  BY <1>1, Zenon DEF FirstIn
<1> QED
  BY <1>2 DEF HasBelow

LEMMA TookKinds ==
    ASSUME NEW s \in Seq(Items), s # <<>>, NEW n
    PROVE  \A i \in 1..Len(s) : Took(s, n)[i].kind = s[i].kind
<1> DEFINE u == Took(s, n)
<1>1. u = [s EXCEPT ![1].left = @ - n]
  BY DEF Took
<1>2. TAKE i \in 1..Len(s)
<1>3. s[i] \in Items
  OBVIOUS
<1>4. CASE i = 1
  BY <1>1, <1>3, <1>4 DEF Items
<1>5. CASE i # 1
  BY <1>1, <1>5
<1> QED
  BY <1>4, <1>5

LEMMA PopMacroSound ==
    ASSUME NEW s \in Seq(Items), s # <<>>, NEW r, Sound(s, r)
    PROVE  LET t == PopMacro(s)
           IN  /\ t \in Seq(Items) /\ t # <<>> /\ Len(t) <= Len(s)
               /\ Sound(t, r) /\ (NoBegin(s) => NoBegin(t))
<1> DEFINE t == PopMacro(s)
           n == IF MacroAt(s) <= Len(s) - 1 THEN MacroAt(s) ELSE Len(s) - 1
           a == SubSeq(s, 1, n)
           k == Boundaries(a)
           c == FromTop(s, n + 1)
<1>1. t = Popped(s, n)
  BY PopMacroIs
<1>2. MacroAt(s) \in 1..(Len(s) + 1) /\ Len(s) \in Nat \ {0}
  BY MacroFound
<1>3. n \in 0..Len(s)
  BY <1>2
<1>4. Keeps(s, t) /\ t # <<>> /\ t \in Seq(Items)
  BY PopMacroKeeps
<1> HIDE DEF n
<1>5. Sound(Popped(s, n), r)
  BY <1>3, SoundPopped
<1>6. a \in Seq(Items) /\ c \in Seq(Items) /\ Len(a) = n /\ Len(c) = Len(s) - n
  BY <1>3, SplitAt
<1> HIDE DEF a, c
<1>7. k \in Nat /\ k <= n
  BY <1>6, BoundariesOf
<1> HIDE DEF k
<1>8. ReturnBoundaries(k) \in Seq(Items) /\ Len(ReturnBoundaries(k)) = k
  BY <1>7, OnlyReturns
<1>9. Len(ReturnBoundaries(k) \o c) = k + (Len(s) - n)
  <2> DEFINE d == ReturnBoundaries(k)
  <2>1. d \in Seq(Items) /\ c \in Seq(Items)
    BY <1>6, <1>8
  <2>2. Len(d) = k
    BY <1>8
  <2> HIDE DEF d
  <2>3. Len(d \o c) = Len(d) + Len(c)
    BY <2>1
  <2> QED
    BY <1>6, <2>2, <2>3 DEF d
<1>10. t = ReturnBoundaries(k) \o c
  BY <1>1, Zenon DEF Popped, a, c, k
<1> HIDE DEF t
<1>11. Len(t) <= Len(s)
  BY <1>2, <1>3, <1>7, <1>9, <1>10
<1>12. Sound(t, r)
  BY <1>1, <1>5
<1>13. NoBegin(s) => NoBegin(t)
  BY <1>4 DEF Keeps
<1> QED
  BY <1>4, <1>11, <1>12, <1>13 DEF t

LEMMA RestBegins ==
    ASSUME IInv, JInv, Interpreting, tok \in {"line", "cut"}
    PROVE  NoBegin(Rest) /\ (HasBelow(stack) => HasBelow(Rest))
<1>1. NoBegin(Rest)
  BY ReadingRest DEF Half
<1>2. /\ Rest \in Seq(Items) /\ Len(Rest) = Len(stack)
  BY RestOne
<1>3. stack \in Seq(Items) /\ stack # <<>>
  BY LineFacts DEF TextOnTop
<1>4. \A i \in 1..Len(stack) : Rest[i].kind = stack[i].kind
  BY <1>3, TookKinds DEF Rest
<1>5. HasBelow(stack) <=> HasBelow(Rest)
  BY <1>2, <1>3, <1>4, MacroAtSame
<1> QED
  BY <1>1, <1>5

LEMMA ReturnKept ==
    ASSUME IInv, JInv, Extras = {}, NEW n \in 1..2, Return(n)
    PROVE  JInv' /\ Promise!Return(n)
<1> DEFINE once == PopMacro(Rest)
           twice == PopMacro(once)
           t == IF n = 1 THEN once ELSE twice
<1>1. Interpreting /\ tok \in {"line", "cut"}
  BY DEF Return, Reading
<1>2. /\ Next_token(t)
      /\ runs' = runs /\ want_loop_break' = want_loop_break
      /\ files' = files /\ phase' = phase
  BY Zenon DEF Return
<1>3. HasBelow(stack) /\ (n = 2 => HasBelow(once))
  BY Zenon DEF Return
<1>4. /\ Rest \in Seq(Items) /\ Rest # <<>> /\ Len(Rest) <= Limit /\ Piled(Rest)
      /\ Sound(Rest, runs)
      /\ Promise!After(1) = Base(Rest) /\ Promise!Reading
  BY <1>1, RestOne
<1>5. want_loop_break' = FALSE
  BY <1>1, <1>2, LineFacts
<1>6. NoBegin(Rest) /\ HasBelow(Rest)
  BY <1>1, <1>3, RestBegins
<1>7. /\ once \in Seq(Items) /\ once # <<>> /\ Len(once) <= Len(Rest)
      /\ Sound(once, runs) /\ NoBegin(once)
  BY <1>4, <1>6, PopMacroSound
<1>8. Base(once) = Promise!Returned(Base(Rest))
  BY <1>4, <1>6, BaseReturned
<1> HIDE DEF once
<1>9. /\ twice \in Seq(Items) /\ Len(twice) <= Len(once) /\ Sound(twice, runs)
  BY <1>7, PopMacroSound
<1>10. n = 2 => Base(twice) = Promise!Returned(Base(once))
  <2>1. ASSUME n = 2 PROVE Base(twice) = Promise!Returned(Base(once))
    BY <1>3, <1>7, <2>1, BaseReturned DEF Sound
  <2> QED
    BY <2>1
<1> HIDE DEF twice
<1>11. /\ t \in Seq(Items) /\ Sound(t, runs')
  BY <1>2, <1>7, <1>9
<1>12. Len(t) <= Limit
  BY <1>4, <1>7, <1>9, InputStackAssumption
<1> HIDE DEF t
<1>13. JInv' /\ BlocksOf(stack)' \in Promise!Left(Base(t))
  BY <1>2, <1>5, <1>11, <1>12, EndsReading
<1>14. \/ n = 1 /\ Promise!Becomes(Promise!Returned(Promise!After(1)))
       \/ n = 2 /\ Promise!Becomes(
                       Promise!Returned(Promise!Returned(Promise!After(1))))
  <2>1. CASE n = 1
    BY <1>4, <1>8, <2>1, <1>13 DEF t, Promise!Becomes
  <2>2. CASE n = 2
    BY <1>4, <1>8, <1>10, <2>2, <1>13 DEF t, Promise!Becomes
  <2> QED
    BY <2>1, <2>2
<1>15. Promise!Return(n)
  BY <1>2, <1>4, <1>14, Zenon DEF Promise!Return
<1> QED
  BY <1>13, <1>15

LEMMA TwoOnTop ==
    ASSUME NEW E, NEW x \in E, NEW y \in E, NEW s \in Seq(E)
    PROVE  <<x, y>> \o s = <<x>> \o (<<y>> \o s)
<1> DEFINE a == <<x>>
           b == <<y>>
           t == <<x, y>>
           q == a \o b
<1>1. a \in Seq(E) /\ b \in Seq(E)
  OBVIOUS
<1>3. /\ q \in Seq(E) /\ Len(q) = Len(b) + 1 /\ q[1] = x
      /\ \A i \in 1..Len(b) : q[i + 1] = b[i]
  <2> HIDE DEF b
  <2>1. b \in Seq(E)
    BY <1>1
  <2> QED
    BY <2>1, OnTopOf
<1>4. t \in Seq(E) /\ Len(t) = 2 /\ t[1] = x /\ t[2] = y
  OBVIOUS
<1>5. Len(b) = 1 /\ b[1] = y
  OBVIOUS
<1> HIDE DEF a, b, q, t
<1>6. Len(q) = 2 /\ q[1] = x /\ q[2] = y
  BY <1>3, <1>5
<1>7. \A i \in 1..Len(t) : t[i] = q[i]
  BY <1>4, <1>6
<1>8. t \in Seq(E) /\ q \in Seq(E) /\ Len(t) = Len(q)
  BY <1>3, <1>4, <1>6
<1>9. t = q
  BY <1>7, <1>8, SameSequence
<1>2. (a \o b) \o s = a \o (b \o s)
  BY <1>1, Associates, SMTT(30)
<1> QED
  BY <1>2, <1>9 DEF a, b, q, t

\* The body is there to be read, above the boundary of its loop.
Testable(s) ==
    s \in Seq(Items) /\ s # <<>> /\ s[1].kind = "boundary" /\ s[1].size > 0

LEMMA TestSteady ==
    ASSUME NEW s, Testable(s), NEW r, Sound(s, r), NEW size, size = s[1].size
    PROVE  LET u == <<Body(size)>> \o s
           IN  /\ Len(u) = Len(s) + 1
               /\ Len(u) <= Limit => Steady(u, "test", r, FALSE)
               /\ BlocksIn(u, "test", FALSE) = Base(s)
<1> DEFINE it == Body(size)
           u == <<it>> \o s
<1>1. s \in Seq(Items) /\ s # <<>> /\ s[1].kind = "boundary" /\ size > 0
  BY DEF Testable
<1>2. s[1] \in Items /\ Len(s) \in Nat \ {0} /\ 1 \in 1..Len(s)
  BY <1>1
<1>3. size \in Nat
  BY <1>2 DEF Items
<1>4. it \in Items /\ it.kind = "loop"
  BY <1>3 DEF Body, Iterator, Items, Texts, Barriers, Marks
<1> HIDE DEF it
<1>5. /\ u \in Seq(Items) /\ Len(u) = Len(s) + 1 /\ u[1] = it /\ Tail(u) = s
      /\ \A i \in 1..Len(s) : u[i + 1] = s[i]
  BY <1>1, <1>4, OnTopOf
<1> HIDE DEF u
<1>6. u[2] = s[1]
  BY <1>2, <1>5
<1>7. Len(u) > 1
  BY <1>2, <1>5
<1>8. Piled(s) /\ Sized(Walls(s), r) /\ Unwinding(s, r)
  BY DEF Sound
<1>9. Alive(Walls(s), r)
  BY <1>1, <1>8, AliveIs
<1>10. Piled(u)
  BY <1>1, <1>4, <1>8, PiledOnTop DEF MayBeOn, u
<1>11. Walls(u) = Walls(s)
  BY <1>4, <1>1, WallsText DEF Barriers, u
<1>12. Sound(u, r)
  BY <1>8, <1>9, <1>10, <1>11, SoundAlive
<1>13. u[1] = Body(u[2].size) /\ u[2].size > 0 /\ u[2].kind = "boundary"
  BY <1>1, <1>5, <1>6 DEF it
<1>14. Len(u) <= Limit => Steady(u, "test", r, FALSE)
  BY <1>7, <1>12, <1>13 DEF Steady
<1>15. BlocksIn(u, "test", FALSE) = Base(s)
  <2>1. u[1].kind = "loop"
    BY <1>4, <1>5
  <2>2. BlocksIn(u, "test", FALSE) = Base(Tail(u))
    BY <1>5, <1>7, <1>13, <2>1, BlocksTested, ZenonT(30)
  <2> QED
    BY <1>5, <2>2
<1> QED
  BY <1>5, <1>14, <1>15 DEF u, it

LEMMA SameBlock ==
    ASSUME NEW x \in Blk, NEW y \in Blk, x.kind = y.kind, x.left = y.left,
           x.args = y.args, x.size = y.size
    PROVE  x = y
BY DEF Blk

LEMMA LoopBegins ==
    ASSUME NEW s \in Seq(Items), Piled(s), s # <<>>, s[1].kind \in Texts,
           NEW r \in Seq(RunRecords), Sized(Walls(s), r), Alive(Walls(s), r),
           Len(Walls(s)) <= Len(r), NEW size \in Nat \ {0}
    PROVE  LET u == <<Boundary(size)>> \o s
               e == Run("while", size, 0)
           IN  /\ Testable(u) /\ u[1].size = size
               /\ Sound(u, <<e>> \o r)
               /\ Base(u) = <<Promise!Block("loop", 0, 0, size)>> \o Base(s)
<1> DEFINE bd == Boundary(size)
           u == <<bd>> \o s
           e == Run("while", size, 0)
           q == <<e>> \o r
           d == Walls(s)
<1>1. /\ bd \in Items /\ bd.kind = "boundary" /\ bd.args = 0
      /\ bd.size = size
  BY DEF Boundary, Iterator, Items, Texts, Barriers, Marks
<1>2. e \in RunRecords /\ e.kind = "while" /\ e.size = size
  BY DEF Run, RunRecords
<1> HIDE DEF bd, e
<1>3. LoopBlock(bd, 0) = Promise!Block("loop", 0, 0, size)
  <2> DEFINE x == LoopBlock(bd, 0)
             y == Promise!Block("loop", 0, 0, size)
  <2>1. x \in Blk
    BY <1>1, ItemsAre
  <2>2. x.kind = "loop" /\ x.left = 0 /\ x.args = 0 /\ x.size = size
    BY <1>1 DEF LoopBlock, Items
  <2>3. /\ y \in Blk /\ y.kind = "loop" /\ y.left = 0 /\ y.args = 0
        /\ y.size = size
    BY DEF Promise!Block, Blk
  <2> HIDE DEF x, y
  <2> QED
    BY <2>1, <2>2, <2>3, SameBlock DEF x, y
<1>4. bd.kind \in Barriers /\ bd \in Wall /\ bd.size > 0 /\ bd.kind # "loop"
  BY <1>1 DEF Barriers, Wall
<1>5. u \in Seq(Items) /\ u # <<>> /\ u[1] = bd
  BY <1>1, OnTopOf
<1>6. Testable(u) /\ u[1].size = size
  BY <1>1, <1>4, <1>5 DEF Testable
<1>7. Piled(u)
  BY <1>1, <1>4, PiledOnTop DEF MayBeOn, Texts
<1> HIDE DEF u
<1>8. Walls(u) = <<bd>> \o d
  BY <1>1, WallsOnTop, <1>4 DEF u, OneWall
<1>9. d \in Seq(Wall)
  BY WallsType
<1> HIDE DEF d
<1>10. Sized(d, r) /\ Alive(d, r) /\ Len(d) <= Len(r)
  BY DEF d
<1>11. Sized(<<bd>> \o d, q) /\ Alive(<<bd>> \o d, q)
  BY <1>1, <1>2, <1>4, <1>9, <1>10, SizedMore
<1> HIDE DEF q
<1>12. Sound(u, q)
  BY <1>8, <1>11, <1>7, SoundAlive
<1>13. Base(u) = <<Promise!Block("loop", 0, 0, size)>> \o Base(s)
  BY <1>1, <1>4, BaseOnTop, <1>3 DEF u, OneBlock, BlockKinds
<1> QED
  BY <1>6, <1>12, <1>13 DEF u, q, e, bd

LEMMA WhileKept ==
    ASSUME IInv, JInv, NEW size \in Nat \ {0}, While(size)
    PROVE  JInv' /\ (Promise!While(size) \/ Promise!Fail)
<1> DEFINE s == Took(stack, size)
           bd == Boundary(size)
           u == <<bd>> \o s
           t == <<Body(size), bd>> \o s
           e == Run("while", size, 0)
<1>1. /\ Interpreting /\ tok \in {"line", "cut"}
      /\ size \in Nat /\ size <= stack[1].left
  BY DEF While, Reading
<1>2. /\ Test(<<Body(size), bd>>, s)
      /\ runs' = <<e>> \o runs
      /\ want_loop_break' = want_loop_break /\ files' = files
  BY Zenon DEF While
<1>3. /\ s \in Seq(Items) /\ s # <<>> /\ s[1].kind \in Texts
      /\ Walls(s) = Walls(stack)
      /\ Sized(Walls(s), runs) /\ Alive(Walls(s), runs)
      /\ Piled(s)
      /\ Promise!After(size) = Base(s)
      /\ Promise!Reading
  BY <1>1, RestFacts
<1>4. /\ runs \in Seq(RunRecords) /\ Len(runs) \in Nat
      /\ Len(Walls(stack)) \in Nat /\ Len(Walls(stack)) <= Len(runs) - 1
  BY <1>1, NowFacts
<1>5. Len(Walls(s)) <= Len(runs)
  BY <1>3, <1>4
<1>6. want_loop_break' = FALSE /\ BlocksOf(stack)[1].left = stack[1].left
  BY <1>1, <1>2, LineFacts
<1> HIDE DEF s
<1>7. /\ Testable(u) /\ u[1].size = size
      /\ Sound(u, <<e>> \o runs)
      /\ Base(u) = <<Promise!Block("loop", 0, 0, size)>> \o Base(s)
  BY <1>3, <1>4, <1>5, LoopBegins
<1>8. t = <<Body(size)>> \o u
  <2>1. Body(size) \in Items /\ bd \in Items
    BY DEF Body, Boundary, Iterator, Items, Texts, Barriers, Marks
  <2> HIDE DEF bd
  <2> QED
    <3>1. s \in Seq(Items)
      BY <1>3
    <3> QED
      BY <2>1, <3>1, TwoOnTop
<1> HIDE DEF u, bd
<1>9. Sound(u, runs')
  BY <1>2, <1>7
<1>10. /\ Len(t) <= Limit => Steady(t, "test", runs', FALSE)
       /\ BlocksIn(t, "test", FALSE) = Base(u)
  BY <1>7, <1>8, <1>9, TestSteady
<1>11. CASE Len(t) <= Limit
  <2>1. stack' = t /\ tok' = "test" /\ phase' = phase
    BY <1>2, <1>11, Zenon DEF Test
  <2>2. JInv'
    BY <1>6, <1>10, <1>11, <2>1 DEF JInv
  <2>3. BlocksOf(stack)' = Base(u)
    BY BlocksOfIs, <1>6, <1>10, <2>1
  <2>4. Base(u) \in Promise!Left(Base(u))
    <3>1. Base(u) \in Seq(Blk)
      BY <1>7, PiecesType DEF Testable
    <3> QED
      BY <3>1, LeftWhole
  <2>5. Promise!Becomes(
            <<Promise!Block("loop", 0, 0, size)>> \o Promise!After(size))
    BY <1>3, <1>7, <2>3, <2>4, Zenon DEF Promise!Becomes
  <2>6. size <= BlocksOf(stack)[1].left
    BY <1>1, <1>6
  <2> QED
    BY <1>2, <1>3, <2>1, <2>2, <2>5, <2>6, Zenon DEF Promise!While
<1>12. CASE ~(Len(t) <= Limit)
  BY <1>2, <1>12, <1>1, FailKept DEF Test
<1> QED
  BY <1>11, <1>12

\* Where while_request is about to test its condition, the stack is the body,
\* the boundary bd, and d.
AtTest(it, bd, d) ==
    /\ it \in Items /\ bd \in Items /\ d \in Seq(Items)
    /\ it.kind = "loop" /\ it.left = bd.size /\ bd.size > 0
    /\ bd.kind = "boundary"
    /\ stack \in Seq(Items) /\ stack[1] = it /\ Tail(stack) = <<bd>> \o d
    /\ Base(stack) = <<LoopBlock(bd, bd.size)>> \o Base(d)
    /\ BlocksOf(stack) = <<LoopBlock(bd, 0)>> \o Base(d)

LEMMA TestFacts ==
    ASSUME IInv, JInv, Interpreting, tok = "test"
    PROVE  /\ \E it, bd, d : AtTest(it, bd, d)
           /\ want_loop_break = FALSE /\ runs[1].kind = "while"
           /\ Len(stack) > 1 /\ IsBoundary(stack[2])
<1> DEFINE it == stack[1]
           bd == stack[2]
           t == Tail(stack)
           d == Tail(t)
<1>1. /\ stack \in Seq(Items) /\ want_loop_break \in BOOLEAN
      /\ want_loop_break => /\ tok = "eof" /\ stack # <<>>
                            /\ stack[1].kind = "boundary"
      /\ BlocksOf(stack) = Now(stack, tok, want_loop_break)
  BY NowFacts
<1>2. want_loop_break = FALSE /\ BlocksOf(stack) = Base(t)
  BY <1>1 DEF Now
<1>3. /\ Len(stack) > 1 /\ bd.kind = "boundary"
      /\ it = Body(bd.size) /\ bd.size > 0
  BY DEF JInv, Steady
<1>4. runs[1].kind = "while"
  <2>1. PICK x \in 0..Len(runs) :
              Whole(stack, tok, runs, x, want_loop_break, phase)
    BY DEF IInv
  <2> QED
    BY <2>1, WholeFacts
<1>5. it.kind = "loop" /\ it.left = bd.size
  BY <1>3 DEF Body, Iterator
<1>6. /\ it \in Items /\ t \in Seq(Items) /\ stack = <<it>> \o t
  BY <1>1, <1>3, TopOf
<1>7. t # <<>> /\ t[1] = bd
  BY <1>1, <1>3, TailTop
<1> HIDE DEF it, bd, t
<1>8. bd \in Items /\ d \in Seq(Items) /\ t = <<bd>> \o d
  BY <1>6, <1>7, TopOf
<1> HIDE DEF d
<1>9. Base(t) = <<LoopBlock(bd, 0)>> \o Base(d)
  BY <1>3, <1>8, BaseOnTop DEF BlockKinds, OneBlock
<1>10. Base(stack) = <<LoopBlock(bd, bd.size)>> \o Base(d)
  <2>1. <<it, bd>> \o d = <<it>> \o (<<bd>> \o d)
    <3>1. it \in Items /\ bd \in Items /\ d \in Seq(Items)
      BY <1>6, <1>8
    <3> QED
      BY <3>1, TwoOnTop
  <2>2. Base(<<it, bd>> \o d) = <<LoopBlock(bd, it.left)>> \o Base(d)
    BY <1>3, <1>5, <1>6, <1>8, BodyOnTop, Zenon
  <2> QED
    BY <1>5, <1>6, <1>8, <2>1, <2>2
<1>11. AtTest(it, bd, d)
  BY <1>1, <1>2, <1>3, <1>5, <1>6, <1>8, <1>9, <1>10, Zenon DEF AtTest, it, t
<1>12. IsBoundary(stack[2])
  BY <1>3 DEF IsBoundary, bd
<1> QED
  BY <1>2, <1>3, <1>4, <1>11, <1>12

LEMMA LoopBlockIs ==
    ASSUME NEW bd \in Items, NEW n \in Nat
    PROVE  LET x == LoopBlock(bd, n)
           IN  /\ x \in Blk /\ x.kind = "loop" /\ x.left = n /\ x.size = bd.size
               /\ LoopBlock(bd, x.size) = [x EXCEPT !.left = x.size]
<1> DEFINE x == LoopBlock(bd, n)
           y == LoopBlock(bd, x.size)
           z == [x EXCEPT !.left = x.size]
<1>1. x \in Blk
  BY ItemsAre
<1>2. /\ x.kind = "loop" /\ x.left = n /\ x.size = bd.size
      /\ x.args = bd.args
  BY DEF LoopBlock, Items
<1> HIDE DEF x
<1>3. bd.size \in Nat
  BY DEF Items
<1>4. y \in Blk
  BY <1>2, <1>3, ItemsAre
<1>5. /\ y.kind = "loop" /\ y.left = x.size /\ y.size = bd.size
      /\ y.args = bd.args
  BY DEF LoopBlock, Items
<1>6. /\ z \in Blk /\ z.kind = "loop" /\ z.left = x.size /\ z.size = bd.size
      /\ z.args = bd.args
  BY <1>1, <1>2, <1>3 DEF Blk
<1> HIDE DEF y, z
<1>7. y = z
  BY <1>4, <1>5, <1>6, SameBlock
<1> QED
  BY <1>1, <1>2, <1>7 DEF x, y, z

LEMMA TestedFacts ==
    ASSUME NEW it, NEW bd, NEW d, AtTest(it, bd, d)
    PROVE  /\ Promise!AtTest
           /\ Tail(BlocksOf(stack)) = Base(d)
           /\ [BlocksOf(stack) EXCEPT ![1].left = BlocksOf(stack)[1].size]
                  = Base(stack)
<1> DEFINE b == BlocksOf(stack)
           x == LoopBlock(bd, 0)
           y == LoopBlock(bd, bd.size)
           c == Base(d)
<1>1. bd \in Items /\ 0 \in Nat
  BY DEF AtTest
<1>2. /\ x \in Blk /\ x.kind = "loop" /\ x.left = 0 /\ x.size = bd.size
      /\ LoopBlock(bd, x.size) = [x EXCEPT !.left = x.size]
  BY <1>1, LoopBlockIs
<1>3. y \in Blk
  BY <1>1, LoopBlockIs DEF Items
<1>4. y = [x EXCEPT !.left = x.size]
  BY <1>2
<1>5. b = <<x>> \o c /\ Base(stack) = <<y>> \o c /\ d \in Seq(Items)
  BY DEF AtTest
<1>6. c \in Seq(Blk)
  BY <1>5, PiecesType
<1> HIDE DEF b, c, x, y
<1>7. b # <<>> /\ b[1] = x /\ Tail(b) = c
  BY <1>2, <1>5, <1>6, OnTopOf
<1>8. Promise!AtTest
  BY <1>2, <1>7 DEF Promise!AtTest, b
<1>9. [b EXCEPT ![1].left = b[1].size] = <<y>> \o c
  <2>1. [b EXCEPT ![1].left = b[1].size] = [b EXCEPT ![1] = y]
    BY <1>4, <1>7, Zenon
  <2>2. [<<x>> \o c EXCEPT ![1] = y] = <<y>> \o c
    BY <1>2, <1>3, <1>6, ExceptTop
  <2> QED
    BY <1>5, <2>1, <2>2, Zenon
<1> QED
  BY <1>5, <1>7, <1>8, <1>9 DEF b, c

LEMMA TestHoldsKept ==
    ASSUME IInv, JInv, TestHolds
    PROVE  JInv' /\ Promise!Repeat
<1>1. /\ Interpreting /\ tok = "test" /\ Next_token(stack)
      /\ runs' = runs /\ want_loop_break' = want_loop_break
      /\ files' = files /\ phase' = phase
  BY Zenon DEF TestHolds
<1>2. /\ \E it, bd, d : AtTest(it, bd, d)
      /\ want_loop_break = FALSE
  BY <1>1, TestFacts
<1>3. PICK it, bd, d : AtTest(it, bd, d)
  BY <1>2
<1>4. /\ Promise!AtTest
      /\ [BlocksOf(stack) EXCEPT ![1].left = BlocksOf(stack)[1].size]
             = Base(stack)
  BY <1>3, TestedFacts
<1>5. /\ stack \in Seq(Items) /\ Sound(stack, runs) /\ Len(stack) <= Limit
  BY <1>1, NowFacts
<1>6. Unread(stack) = stack
  BY <1>3, <1>5, NoStop DEF AtTest, Stops
<1>7. /\ Unread(stack) \in Seq(Items)
      /\ Steady(Unread(stack), TokenOf(Unread(stack)), runs, FALSE)
      /\ BlocksIn(Unread(stack), TokenOf(Unread(stack)), FALSE)
             = Base(Unread(stack))
  BY <1>5, AfterRead
<1>8. stack' = Unread(stack) /\ tok' = TokenOf(Unread(stack))
  BY <1>1 DEF Next_token
<1>9. JInv'
  BY <1>1, <1>2, <1>7, <1>8 DEF JInv
<1>10. BlocksOf(stack)' = Base(stack)
  BY BlocksOfIs, <1>1, <1>2, <1>6, <1>7, <1>8
<1>11. Promise!Repeat
  BY <1>1, <1>4, <1>10, Zenon DEF Promise!Repeat
<1> QED
  BY <1>9, <1>11

LEMMA TestFailsKept ==
    ASSUME IInv, JInv, TestFails
    PROVE  JInv' /\ Promise!Finish
<1> DEFINE t == Tail(stack)
<1>1. /\ Interpreting /\ tok = "test" /\ Next_token(Tail(Drained(stack)))
      /\ runs' = Tail(runs) /\ want_loop_break' = want_loop_break
      /\ files' = files /\ phase' = phase
  BY Zenon DEF TestFails, LeaveLoop
<1>2. /\ \E it, bd, d : AtTest(it, bd, d)
      /\ want_loop_break = FALSE /\ runs[1].kind = "while"
      /\ Len(stack) > 1 /\ IsBoundary(stack[2])
  BY <1>1, TestFacts
<1>3. PICK it, bd, d : AtTest(it, bd, d)
  BY <1>2
<1>4. Promise!AtTest /\ Tail(BlocksOf(stack)) = Base(d)
  BY <1>3, TestedFacts
<1>5. /\ stack \in Seq(Items) /\ runs \in Seq(RunRecords)
      /\ Sound(stack, runs) /\ Len(stack) <= Limit
      /\ Len(Walls(stack)) \in Nat /\ Len(Walls(stack)) <= Len(runs) - 1
      /\ Len(runs) \in Nat
  BY <1>1, NowFacts
<1>6. /\ bd \in Items /\ d \in Seq(Items) /\ it \in Items /\ stack[1] = it
      /\ it.kind = "loop" /\ bd.kind = "boundary" /\ t = <<bd>> \o d
  BY <1>3 DEF AtTest
<1>7. t[1] = bd /\ Tail(t) = d /\ t # <<>>
  <2> HIDE DEF t
  <2> QED
    BY <1>6, OnTopOf
<1>8. Drained(stack) = t
  BY <1>6, <1>2, <1>5, DrainedKeeps DEF IsBoundary
<1>9. Next_token(d)
  BY <1>1, <1>7, <1>8, Zenon
<1>10. Sound(t, runs) /\ t \in Seq(Items) /\ Len(t) = Len(stack) - 1
       /\ Walls(t) = Walls(stack)
  <2>1. Piled(stack) /\ Sized(Walls(stack), runs) /\ Unwinding(stack, runs)
    BY <1>5 DEF Sound
  <2>2. Alive(Walls(stack), runs)
    BY <1>6, <2>1, AliveIs
  <2>3. stack # <<>>
    BY <1>2, <1>5
  <2>4. Piled(t) /\ t \in Seq(Items) /\ Len(t) = Len(stack) - 1
    BY <1>5, <2>1, <2>3, PiledTail
  <2>5. Walls(stack) = Walls(t)
    <3>1. stack = <<it>> \o t
      BY <1>5, <1>6, <2>3, TopOf
    <3>2. it.kind \notin Barriers
      BY <1>6, SMTT(30) DEF Barriers
    <3>3. Walls(<<it>> \o t) = Walls(t)
      BY <1>6, <2>4, <3>2, WallsText
    <3> QED
      BY <3>1, <3>3
  <2>6. Sound(t, runs)
    BY <2>1, <2>2, <2>4, <2>5, SoundAlive
  <2> QED
    BY <2>4, <2>5, <2>6
<1> HIDE DEF t
<1>11. Sound(d, runs')
  <2>1. t[1].kind \in Barriers
    BY <1>6, <1>7 DEF Barriers
  <2>2. Len(Walls(t)) <= Len(runs)
    BY <1>5, <1>10
  <2>3. Sound(Tail(t), Tail(runs))
    BY <1>2, <1>5, <1>7, <1>10, <2>1, <2>2, SoundTail
  <2> QED
    BY <1>1, <1>7, <2>3
<1>12. Len(d) <= Limit
  BY <1>7, <1>10, TopOf, <1>5, InputStackAssumption
<1>13. want_loop_break' = FALSE
  BY <1>1, <1>2
<1>14. JInv' /\ BlocksOf(stack)' \in Promise!Left(Base(d))
  BY <1>6, <1>9, <1>11, <1>12, <1>13, EndsReading
<1>15. Promise!Becomes(Tail(BlocksOf(stack)))
  BY <1>4, <1>14, Zenon DEF Promise!Becomes
<1>16. Promise!Finish
  BY <1>1, <1>4, <1>15, Zenon DEF Promise!Finish
<1> QED
  BY <1>14, <1>16

LEMMA LoopReturnsFacts ==
    ASSUME IInv, Returns("while")
    PROVE  stack # <<>> /\ stack[1].kind \in Barriers /\ runs[1].kind = "while"
<1>1. Interpreting /\ tok = "eof" /\ runs[1].kind = "while"
  BY DEF Returns
<1>2. PICK x \in 0..Len(runs) :
              Whole(stack, tok, runs, x, want_loop_break, phase)
  BY <1>1 DEF IInv
<1>3. /\ Stacked(stack, runs, x, phase) /\ Fits(stack, tok)
  BY <1>2, WholeFacts
<1>4. stack \in Seq(Items) /\ WellRun(runs, x)
      /\ Depth(stack, Len(stack)) = LoopsOf(runs, x)
  BY <1>3, StackedFacts
<1>5. stack # <<>>
  BY <1>1, <1>4, RunsLeft, DepthZero
<1>6. stack[1].kind \in Barriers
  BY <1>1, <1>3, <1>5 DEF Fits, IsBoundary, Barriers
<1> QED
  BY <1>1, <1>5, <1>6

\* What was broken out of, or is to be returned at, is no block.
LEMMA LeftBehind ==
    ASSUME NEW s \in Seq(Items), s # <<>>, NEW w \in BOOLEAN,
           w \/ s[1].kind = "return_boundary"
    PROVE  Now(s, "eof", w) = Base(Tail(s))
<1>1. CASE w
  BY <1>1 DEF Now
<1>2. CASE ~w
  <2> DEFINE it == s[1]
             t == Tail(s)
  <2>1. it \in Items /\ t \in Seq(Items) /\ s = <<it>> \o t
    BY TopOf
  <2>2. it.kind = "return_boundary"
    BY <1>2
  <2> HIDE DEF it, t
  <2>3. OneBlock(it) = <<>> /\ it.kind # "loop"
    BY <2>2 DEF OneBlock, BlockKinds
  <2>4. Base(<<it>> \o t) = OneBlock(it) \o Base(t)
    BY <2>1, <2>3, BaseOnTop
  <2>5. <<>> \o Base(t) = Base(t)
    BY <2>1, PiecesType
  <2>6. Base(s) = Base(t)
    BY <2>1, <2>3, <2>4, <2>5, Zenon
  <2>7. Now(s, "eof", w) = Base(s)
    BY <1>2 DEF Now
  <2> QED
    BY <2>6, <2>7 DEF t
<1> QED
  BY <1>1, <1>2

LEMMA LoopLeftKept ==
    ASSUME IInv, JInv, Returns("while"),
           want_loop_break \/ stack[1].kind = "return_boundary",
           LeaveLoop(stack), want_loop_break' = FALSE, phase' = phase,
           files' = files
    PROVE  JInv' /\ Promise!Leave
<1> DEFINE t == Tail(stack)
<1>1. Interpreting /\ tok = "eof"
  BY DEF Returns
<1>2. stack # <<>> /\ stack[1].kind \in Barriers /\ runs[1].kind = "while"
  BY LoopReturnsFacts
<1>3. /\ stack \in Seq(Items) /\ runs \in Seq(RunRecords)
      /\ Sound(stack, runs) /\ Len(stack) <= Limit
      /\ Len(Walls(stack)) \in Nat /\ Len(Walls(stack)) <= Len(runs) - 1
      /\ Len(runs) \in Nat /\ want_loop_break \in BOOLEAN
      /\ BlocksOf(stack) = Now(stack, tok, want_loop_break)
  BY <1>1, NowFacts
<1>4. Next_token(t) /\ runs' = Tail(runs)
  BY Zenon DEF LeaveLoop
<1>5. t \in Seq(Items) /\ Len(t) = Len(stack) - 1 /\ Len(stack) \in Nat
  BY <1>2, <1>3, TopOf
<1>6. Sound(t, Tail(runs))
  BY <1>3, <1>2, SoundTail
<1> HIDE DEF t
<1>7. Sound(t, runs') /\ Len(t) <= Limit
  BY <1>3, <1>4, <1>5, <1>6, InputStackAssumption
<1>8. BlocksOf(stack) = Base(t)
  BY <1>2, <1>3, LeftBehind, <1>1 DEF t
<1>9. JInv' /\ BlocksOf(stack)' \in Promise!Left(Base(t))
  BY <1>4, <1>5, <1>7, EndsReading
<1>10. Promise!Leave
  BY <1>8, <1>9, Zenon DEF Promise!Leave, Promise!Becomes
<1> QED
  BY <1>9, <1>10

LEMMA LoopAgainKept ==
    ASSUME IInv, JInv, Returns("while"),
           ~want_loop_break, stack[1].kind # "return_boundary",
           Test(<<Body(runs[1].size)>>, stack),
           runs' = [runs EXCEPT ![1].traps = 0],
           want_loop_break' = want_loop_break, files' = files
    PROVE  JInv' /\ (Promise!Leave \/ Promise!Fail)
<1> DEFINE size == runs[1].size
           u == <<Body(size)>> \o stack
<1>1. Interpreting /\ tok = "eof"
  BY DEF Returns
<1>2. stack # <<>> /\ stack[1].kind = "boundary" /\ stack[1].kind \in Barriers
  BY LoopReturnsFacts DEF Barriers
<1>3. /\ stack \in Seq(Items) /\ runs \in Seq(RunRecords) /\ runs # <<>>
      /\ Sound(stack, runs) /\ Len(stack) <= Limit
      /\ Len(Walls(stack)) \in Nat /\ Len(Walls(stack)) <= Len(runs) - 1
      /\ Len(runs) \in Nat /\ want_loop_break \in BOOLEAN
      /\ BlocksOf(stack) = Now(stack, tok, want_loop_break)
  BY <1>1, NowFacts
<1>4. want_loop_break = FALSE /\ BlocksOf(stack) = Base(stack)
  BY <1>1, <1>3 DEF Now
<1>5. Piled(stack) /\ Sized(Walls(stack), runs) /\ Unwinding(stack, runs)
  BY <1>3 DEF Sound
<1>6. Alive(Walls(stack), runs)
  BY <1>5, AliveIs
<1>7. stack[1].size = size /\ stack[1].size > 0
  <2> DEFINE d == Walls(stack)
             e == Walls(Tail(stack))
  <2>1. d = <<stack[1]>> \o e /\ stack[1] \in Wall /\ e \in Seq(Wall)
    BY <1>2, <1>3, WallsTop
  <2> HIDE DEF d, e
  <2>2. Len(d) = Len(e) + 1 /\ d[1] = stack[1]
    BY <2>1, OnTopOf
  <2>3. 1 \in 1..Len(d)
    BY <2>1, <2>2
  <2>4. \A j \in 1..Len(d) : d[j].kind = "boundary" =>
            Loopy(runs, j) /\ d[j].size = runs[j].size /\ d[j].size > 0
    BY <1>5, Zenon DEF Sized, d
  <2> QED
    BY <1>2, <2>2, <2>3, <2>4, Zenon
<1>8. Sound(stack, runs')
  <2>1. Len(Walls(stack)) <= Len(runs)
    BY <1>3
  <2>2. Sound(stack, [runs EXCEPT ![1].traps = 0])
    BY <1>3, <1>5, <1>6, <2>1, SoundAlike
  <2> QED
    BY <2>2
<1>9. Testable(stack)
  BY <1>2, <1>3, <1>7 DEF Testable
<1>10. /\ Len(u) <= Limit => Steady(u, "test", runs', FALSE)
       /\ BlocksIn(u, "test", FALSE) = Base(stack)
  BY <1>7, <1>8, <1>9, TestSteady
<1> HIDE DEF u
<1>11. CASE Len(u) <= Limit
  <2>1. stack' = u /\ tok' = "test" /\ phase' = phase
    BY <1>11, Zenon DEF Test, u
  <2>2. JInv'
    BY <1>4, <1>10, <1>11, <2>1 DEF JInv
  <2>3. BlocksOf(stack)' = BlocksOf(stack)
    BY BlocksOfIs, <1>4, <1>10, <2>1
  <2>4. BlocksOf(stack) \in Promise!Left(BlocksOf(stack))
    BY <1>3, PiecesType, <1>4, LeftWhole
  <2>5. Promise!Leave
    BY <2>1, <2>3, <2>4, Zenon DEF Promise!Leave, Promise!Becomes
  <2> QED
    BY <2>2, <2>5
<1>12. CASE ~(Len(u) <= Limit)
  BY <1>12, <1>1, FailKept DEF Test, u
<1> QED
  BY <1>11, <1>12

LEMMA LoopReturnsKept ==
    ASSUME IInv, JInv, LoopReturns
    PROVE  JInv' /\ (Promise!Leave \/ Promise!Fail)
<1>1. Returns("while") /\ files' = files
  BY Zenon DEF LoopReturns
<1>2. CASE /\ want_loop_break \/ stack[1].kind = "return_boundary"
           /\ LeaveLoop(stack) /\ want_loop_break' = FALSE /\ UNCHANGED phase
  BY <1>1, <1>2, LoopLeftKept
<1>3. CASE /\ ~want_loop_break /\ stack[1].kind # "return_boundary"
           /\ Test(<<Body(runs[1].size)>>, stack)
           /\ runs' = [runs EXCEPT ![1].traps = 0]
           /\ UNCHANGED want_loop_break
  BY <1>1, <1>3, LoopAgainKept
<1> QED
  BY <1>2, <1>3, Zenon DEF LoopReturns

-----------------------------------------------------------------------------
\* break and continue.

LEMMA DrainedSteady ==
    ASSUME NEW s \in Seq(Items), NEW r, Piled(s), Sized(Walls(s), r),
           Alive(Walls(s), r), NEW u, u = Drained(s), u # <<>>,
           u[1].kind = "boundary", Len(u) <= Limit, NEW w \in BOOLEAN
    PROVE  Steady(u, "eof", r, w)
<1>1. BoundaryAt(s) \in 1..(Len(s) + 1)
  BY BoundaryFound
<1>2. Piled(u)
  BY <1>1, PiledFrom DEF Drained, BoundaryAt
<1>3. Walls(u) = Walls(s)
  BY WallsDrained
<1>4. Sound(u, r)
  BY <1>2, <1>3, SoundAlive
<1> QED
  BY <1>4 DEF Steady

LEMMA BreakOrContinueKept ==
    ASSUME IInv, JInv, Extras = {}, NEW break \in BOOLEAN,
           BreakOrContinue(break)
    PROVE  JInv' /\ IF break THEN Promise!Break ELSE Promise!Continue
<1> DEFINE u == Drained(stack)
           b == BlocksOf(stack)
           m == Promise!FirstOf(b, "loop")
           i == BoundaryAt(stack)
<1>1. Interpreting /\ tok \in {"line", "cut"} /\ LoopIsLive
  BY DEF BreakOrContinue, Reading
<1>2. /\ stack' = u /\ tok' = "eof"
      /\ want_loop_break' = (want_loop_break \/ break)
      /\ runs' = runs /\ files' = files /\ phase' = phase
  BY Zenon DEF BreakOrContinue
<1>3. /\ TextOnTop(stack, runs) /\ want_loop_break = FALSE
      /\ b = Base(stack) /\ stack[1].left > 0
      /\ Base(stack) # <<>> /\ Base(stack)[1].left = stack[1].left
  BY <1>1, LineFacts
<1>4. want_loop_break' = break
  BY <1>2, <1>3
<1>5. /\ stack \in Seq(Items) /\ stack # <<>> /\ stack[1].kind \in Texts
      /\ Len(stack) <= Limit
      /\ Piled(stack) /\ Sized(Walls(stack), runs) /\ Unwinding(stack, runs)
  BY <1>3 DEF TextOnTop, Sound
<1>6. Alive(Walls(stack), runs)
  BY <1>5, AliveIs DEF Texts
<1>7. \E j \in 1..Len(stack) : stack[j].kind = "boundary"
  BY <1>1, <1>5, LiveFound
<1>8. /\ i \in 1..Len(stack) /\ stack[i].kind = "boundary"
      /\ \A j \in 1..(i - 1) : stack[j].kind \notin Barriers
  BY <1>5, <1>6, <1>7, LoopFirst
<1> HIDE DEF i, u, b
<1>9. LET c == Base(stack)
          k == Promise!FirstOf(c, "loop")
          v == Drained(stack)
      IN  /\ k <= Len(c)
          /\ v \in Seq(Items) /\ v # <<>> /\ v[1].kind = "boundary"
          /\ Len(v) <= Len(stack)
          /\ Base(Tail(v)) = Promise!From(c, k + 1)
          /\ Base(v) = [Promise!From(c, k) EXCEPT ![1].left = 0]
  BY <1>5, <1>8, BaseDrained DEF i
<1>10. /\ m <= Len(b)
       /\ u \in Seq(Items) /\ u # <<>> /\ u[1].kind = "boundary"
       /\ Len(u) <= Len(stack)
       /\ Base(Tail(u)) = Promise!From(b, m + 1)
       /\ Base(u) = [Promise!From(b, m) EXCEPT ![1].left = 0]
  BY <1>3, <1>9, Zenon DEF u
<1>11. Len(u) <= Limit
  BY <1>5, <1>10, InputStackAssumption
<1>12. Steady(u, "eof", runs, break)
  BY <1>5, <1>6, <1>10, <1>11, DrainedSteady DEF u
<1>13. JInv'
  BY <1>2, <1>4, <1>12 DEF JInv
<1>14. Promise!Reading /\ Promise!InLoop
  BY <1>1, <1>3, <1>10 DEF Promise!Reading, Interpreting, b, Promise!InLoop, m
<1>15. BlocksOf(stack)' = BlocksIn(u, "eof", break)
  BY BlocksOfIs, <1>2, <1>4
<1> HIDE DEF m
<1>16. ASSUME break PROVE Promise!Break
  <2>1. BlocksIn(u, "eof", break) = Base(Tail(u))
    BY <1>16, <1>10, BlocksBroken
  <2>2. Base(Tail(u)) \in Promise!Left(Base(Tail(u)))
    BY <1>10, TopOf, PiecesType, LeftWhole
  <2>3. Promise!Becomes(Promise!From(b, m + 1))
    BY <1>10, <1>15, <2>1, <2>2, Zenon DEF Promise!Becomes
  <2> QED
    BY <1>2, <1>14, <2>3, Zenon DEF Promise!Break, b, m
<1>17. ASSUME ~break PROVE Promise!Continue
  <2>1. BlocksIn(u, "eof", break) = Base(u)
    BY <1>10, <1>17, BlocksPlain
  <2>2. BlocksOf(stack)' = [Promise!From(b, m) EXCEPT ![1].left = 0]
    BY <1>10, <1>15, <2>1, Zenon
  <2> QED
    BY <1>2, <1>14, <2>2, Zenon DEF Promise!Continue, b, m
<1> QED
  BY <1>13, <1>16, <1>17

\* nx with a file name, where nothing is lost.
LEMMA NextFileSound ==
    ASSUME NEW s \in Seq(Items), Piled(s), NEW size \in Nat
    PROVE  LET t == NextFile(s, size)
           IN  /\ t \in Seq(Items) /\ Piled(t) /\ Walls(t) = Walls(s)
               /\ Len(t) = IF FileAt(s) <= Len(s) THEN Len(s) ELSE Len(s) + 1
<1> DEFINE i == FileAt(s)
           it == Iterator("file", size, 0, size)
           t == NextFile(s, size)
<1>1. i \in 1..(Len(s) + 1) /\ (i <= Len(s) => IsFile(s[i]))
      /\ Len(s) \in Nat
  BY FileFound
<1>2. t = Put(s, it, i)
  BY DEF NextFile, FileAt, Put
<1>3. it \in Items /\ it.kind = "file"
  BY DEF Iterator, Items, Texts, Barriers, Marks
<1> HIDE DEF t, it, i
<1>4. CASE i <= Len(s)
  BY <1>1, <1>4, <1>3, Replaced, PiledReplaced, WallsReplaced, <1>2 DEF
     IsFile, t, i
<1>5. CASE ~(i <= Len(s))
  <2>1. i = Len(s) + 1
    BY <1>1, <1>5
  <2> DEFINE n == Len(s) + 1
  <2>2. Put(s, it, n) \in Seq(Items) /\ Len(Put(s, it, n)) = n
    BY <1>3, PutBelow
  <2>3. Piled(Put(s, it, n))
    BY <1>3, PiledBelow
  <2>4. Walls(Put(s, it, n)) = Walls(s)
    BY <1>3, WallsBelow
  <2>5. t = Put(s, it, n)
    BY <1>2, <2>1
  <2> HIDE DEF n
  <2>6. /\ t \in Seq(Items) /\ Piled(t) /\ Walls(t) = Walls(s)
        /\ Len(t) = n
    BY <2>2, <2>3, <2>4, <2>5
  <2> QED
    BY <1>5, <2>6 DEF t, i, n
<1> QED
  BY <1>4, <1>5

\* There is room for the file, as it takes the place of another one or of what
\* was read.
LEMMA RoomForFile ==
    ASSUME NEW s \in Seq(Items), s # <<>>, s[1].kind \in Texts, Len(s) <= Limit,
           NEW u \in Seq(Items), u = Unread(s),
           u = <<>> \/ IsBoundary(u[1]) \/ IsFile(u[1])
    PROVE  IF FileAt(u) <= Len(u) THEN Len(u) <= Limit ELSE Len(u) + 1 <= Limit
<1>1. PICK a \in Seq(Items) :
            /\ s = a \o u /\ Base(s) = Base(a) \o Base(u)
            /\ Len(u) = Len(s) - Len(a)
  BY UnreadSplit
<1>2. Len(a) \in Nat /\ Len(s) \in Nat /\ Len(u) \in Nat
  BY <1>1
<1>3. Len(u) <= Limit
  BY <1>1, <1>2, InputStackAssumption
<1>4. ASSUME ~(FileAt(u) <= Len(u)) PROVE Len(u) + 1 <= Limit
  <2>1. CASE u = <<>>
    BY <2>1, InputStackAssumption
  <2>2. CASE u # <<>>
    <3>1. 1 \in 1..Len(u)
      BY <1>2, <2>2
    <3>2. u[1].kind # "file"
      BY <1>4, <3>1, NoFile
    <3>3. IsBoundary(u[1])
      BY <2>2, <3>2 DEF IsFile
    <3>4. u # s
      BY <3>3 DEF IsBoundary, Texts
    <3>5. Len(a) # 0
      <4>1. ASSUME Len(a) = 0 PROVE FALSE
        BY <4>1, <1>1, <3>4
      <4> QED
        BY <4>1
    <3> QED
      BY <1>1, <1>2, <3>5, InputStackAssumption
  <2> QED
    BY <2>1, <2>2
<1> QED
  BY <1>3, <1>4

LEMMA NxFileKept ==
    ASSUME IInv, JInv, Extras = {}, Sizes \subseteq Nat, NEW size \in Sizes,
           NEW blank, NxFile(size, blank)
    PROVE  JInv' /\ Promise!Nx
<1> DEFINE u == Unread(Rest)
           t == NextFile(u, size)
           lost == u # <<>> /\ ~IsBoundary(u[1]) /\ ~IsFile(u[1])
<1>1. /\ Reading /\ files > 0 /\ files' = files - 1 /\ ~lost
      /\ FirstIn(Rest, IsFile) > Len(Rest) - Len(u) \/ ~Has(u, IsFile)
      /\ IF Len(t) > Limit
         THEN phase' = "fatal" /\ UNCHANGED <<stack, tok>>
         ELSE /\ stack' = Unread(t) /\ tok' = TokenOf(Unread(t))
              /\ UNCHANGED phase
      /\ runs' = runs /\ want_loop_break' = want_loop_break
  BY Zenon DEF NxFile
<1>2. Interpreting /\ tok \in {"line", "cut"} /\ size \in Nat
  BY <1>1 DEF Reading
<1>3. /\ Rest \in Seq(Items) /\ Rest # <<>> /\ Rest[1].kind \in Texts
      /\ Len(Rest) <= Limit /\ Piled(Rest) /\ Sound(Rest, runs)
      /\ Sized(Walls(Rest), runs) /\ Alive(Walls(Rest), runs)
      /\ Promise!After(1) = Base(Rest) /\ Promise!Reading
  BY <1>2, RestOne
<1>4. want_loop_break' = FALSE
  BY <1>1, <1>2, LineFacts
<1>5. u \in Seq(Items) /\ Base(u) \in Promise!Left(Base(Rest))
  BY <1>3, BaseUnread
<1>6. Piled(u) /\ Walls(u) = Walls(Rest)
  BY <1>3, SoundUnread, WallsUnread DEF Sound
<1>7. IF FileAt(u) <= Len(u) THEN Len(u) <= Limit ELSE Len(u) + 1 <= Limit
  <2>1. u = <<>> \/ IsBoundary(u[1]) \/ IsFile(u[1])
    BY <1>1
  <2> HIDE DEF lost
  <2>2. u = Unread(Rest)
    OBVIOUS
  <2> HIDE DEF u
  <2> QED
    BY <1>3, <1>5, <2>1, <2>2, RoomForFile
<1>8. \/ Promise!FirstOf(Base(Rest), "file") > Len(Base(Rest)) - Len(Base(u))
      \/ Promise!FirstOf(Base(u), "file") > Len(Base(u))
  <2>1. u = Unread(Rest)
    OBVIOUS
  <2>2. FirstIn(Rest, IsFile) > Len(Rest) - Len(u) \/ ~Has(u, IsFile)
    BY <1>1
  <2> HIDE DEF u
  <2> QED
    BY <1>3, <1>5, <2>1, <2>2, FileAhead
<1> HIDE DEF u, lost
<1>9. /\ t \in Seq(Items) /\ Piled(t) /\ Walls(t) = Walls(u)
      /\ Len(t) = IF FileAt(u) <= Len(u) THEN Len(u) ELSE Len(u) + 1
  BY <1>2, <1>5, <1>6, NextFileSound
<1>10. Base(t) = Promise!NextFile(Base(u), size)
  BY <1>2, <1>5, BaseNextFile
<1> HIDE DEF t
<1>11. Len(t) <= Limit
  BY <1>7, <1>9
<1>12. Next_token(t) /\ phase' = phase
  BY <1>9, <1>11, InputStackAssumption, <1>1 DEF Next_token
<1>13. Sound(t, runs')
  BY <1>1, <1>3, <1>6, <1>9, SoundAlive
<1>14. JInv' /\ BlocksOf(stack)' \in Promise!Left(Base(t))
  BY <1>4, <1>9, <1>11, <1>12, <1>13, EndsReading
<1>15. Promise!Becomes(Promise!NextFile(Base(u), size))
  BY <1>10, <1>14, Zenon DEF Promise!Becomes
<1>16. Len(BlocksOf(stack)) = Len(Base(Rest))
  <2> DEFINE b == BlocksOf(stack)
  <2>1. /\ stack[1].left > 0 /\ BlocksOf(stack) = Base(stack)
        /\ Base(stack) \in Seq(Blk) /\ Base(stack) # <<>>
        /\ Base(stack)[1].left = stack[1].left
        /\ stack[1].left \in Nat
    BY <1>2, LineFacts DEF TextOnTop
  <2>2. b \in Seq(Blk) /\ b # <<>> /\ 1 \in Nat /\ 1 <= b[1].left
    BY <2>1
  <2>3. Base(Rest) = AfterOf(b, 1)
    BY <1>3, Zenon DEF Promise!After, AfterOf
  <2> HIDE DEF b
  <2>4. Len(AfterOf(b, 1)) = Len(b)
    BY <2>2, FirstOfAfter
  <2> QED
    BY <2>3, <2>4 DEF b
<1>17. \E b \in Promise!Left(Promise!After(1)) :
          /\ \/ Promise!FirstOf(Promise!After(1), "file")
                     > Len(BlocksOf(stack)) - Len(b)
             \/ Promise!FirstOf(b, "file") > Len(b)
          /\ Promise!Becomes(Promise!NextFile(b, size))
  BY <1>3, <1>5, <1>8, <1>15, <1>16, Zenon
<1>18. Promise!Nx
  BY <1>1, <1>3, <1>12, <1>17, Zenon DEF Promise!Nx
<1> QED
  BY <1>14, <1>18

\* An empty stack.
LEMMA SoundNothing ==
    ASSUME NEW r
    PROVE  /\ <<>> \in Seq(Items) /\ Piled(<<>>) /\ Sound(<<>>, r)
           /\ Sized(Walls(<<>>), r) /\ Alive(Walls(<<>>), r)
<1>1. <<>> \in Seq(Items) /\ Len(<<>>) = 0
  OBVIOUS
<1>2. Walls(<<>>) = <<>>
  <2>1. \A i \in 1..Len(<<>>) : <<>>[i].kind \notin Barriers
    BY <1>1
  <2> DEFINE e == <<>>
  <2>2. e \in Seq(Items) /\ \A i \in 1..Len(e) : e[i].kind \notin Barriers
    BY <1>1, <2>1
  <2> HIDE DEF e
  <2>3. Walls(e) = <<>>
    BY <2>2, NoWalls
  <2> QED
    BY <2>3 DEF e
<1>3. Len(Walls(<<>>)) = 0
  BY <1>1, <1>2, Zenon
<1>4. 1..Len(Walls(<<>>)) = {}
  BY <1>3
<1>5. Sized(Walls(<<>>), r)
  BY <1>4, Zenon DEF Sized
<1>6. Alive(Walls(<<>>), r)
  BY <1>4, Zenon DEF Alive
<1>7. Sound(<<>>, r)
  BY <1>4, <1>5, PiledNone, Zenon DEF Sound, Unwinding
<1> QED
  BY <1>1, <1>5, <1>6, <1>7, PiledNone

\* ex leaves nothing but return boundaries.
LEMMA ExKept ==
    ASSUME IInv, JInv, Ex
    PROVE  JInv' /\ Promise!Ex
<1> DEFINE u == Cleared(stack)
           k == Boundaries(stack)
<1>1. /\ Interpreting /\ tok \in {"line", "cut"} /\ stack' = u /\ tok' = "eof"
      /\ phase' = "exit" /\ want_loop_break' = want_loop_break
      /\ files' = files
  BY Zenon DEF Ex, Reading
<1>2. /\ stack \in Seq(Items) /\ Len(stack) <= Limit /\ Len(stack) \in Nat
      /\ want_loop_break' = FALSE
  <2>1. TextOnTop(stack, runs) /\ want_loop_break = FALSE
    BY <1>1, LineFacts, Zenon
  <2>2. stack \in Seq(Items) /\ Len(stack) <= Limit
    BY <2>1 DEF TextOnTop
  <2>3. Len(stack) \in Nat
    BY <2>2
  <2> QED
    BY <1>1, <2>1, <2>2, <2>3, Zenon
<1>3. Promise!Reading
  BY <1>1, RestOne
<1>4. k \in Nat /\ k <= Len(stack)
  BY <1>2, BoundariesDepth, DepthBound, DepthNat
<1>5. /\ u \in Seq(Items) /\ Len(u) = Depth(stack, Len(stack))
      /\ \A j \in 1..Len(u) : u[j].kind = "return_boundary"
  BY <1>2, ClearedIs
<1>6. Len(u) <= Limit
  BY <1>2, <1>5, BoundariesDepth, <1>4, InputStackAssumption
<1>7. u = ReturnBoundaries(k)
  BY DEF Cleared
<1> HIDE DEF k
<1>8. Sound(u, runs')
  BY <1>4, <1>7, SoundCleared, Zenon
<1>9. Base(u) = <<>>
  <2>1. \A j \in 1..Len(u) : u[j].kind \in NoBlocks
    BY <1>5 DEF NoBlocks
  <2> HIDE DEF u
  <2> QED
    BY <1>5, <2>1, BaseNothing
<1> HIDE DEF u
<1>10. BlocksOf(stack)' = <<>>
  BY <1>5, BlocksPlain, <1>1, <1>2, <1>9, BlocksOfIs
<1>11. JInv'
  BY <1>6, <1>8, <1>1, <1>2 DEF Steady, JInv
<1>12. Promise!Ex
  BY <1>1, <1>3, <1>10, Zenon DEF Promise!Ex
<1> QED
  BY <1>11, <1>12

\* The next file of the command line, or exit_troff.
LEMMA MainReturnsKept ==
    ASSUME IInv, JInv, Extras = {}, Sizes \subseteq Nat, MainReturns
    PROVE  JInv' /\ (Promise!Open \/ Promise!Exit)
<1>1. /\ Returns("main") /\ Interpreting /\ tok = "eof" /\ runs[1].kind = "main"
      /\ want_loop_break' = want_loop_break
  BY Zenon DEF MainReturns, Returns
<1>2. stack = <<>>
  BY AllMatch, <1>1 DEF BoundariesMatchLoops
<1>3. phase = "document"
  <2>1. PICK x \in 0..Len(runs) :
                Whole(stack, tok, runs, x, want_loop_break, phase)
    BY <1>1 DEF IInv
  <2>2. Stacked(stack, runs, x, phase) /\ WellRun(runs, x)
    BY <2>1, WholeFacts, StackedFacts
  <2>3. x = 0
    BY <1>1, <2>2, MainAlone
  <2> QED
    BY <1>1, <2>2, <2>3 DEF Stacked, Interpreting
<1>4. want_loop_break = FALSE /\ BlocksOf(stack) = Now(stack, tok, want_loop_break)
  BY <1>1, <1>2, NowFacts
<1>5. BlocksOf(stack) = <<>>
  BY <1>1, <1>2, <1>4, BaseEmpty DEF Now
<1>6. want_loop_break' = FALSE
  BY <1>1, <1>4
<1>7. CASE /\ files > 0 /\ files' = files - 1
           /\ \E size \in Sizes : Push(<<Iterator("file", size, 0, size)>>, stack)
           /\ runs' = <<Run("main", 0, 0)>>
  <2>1. PICK size \in Sizes : Push(<<Iterator("file", size, 0, size)>>, stack)
    BY <1>7
  <2> DEFINE it == Iterator("file", size, 0, size)
  <2>2. it \in Items /\ it.kind \in BlockKinds
        /\ it = Promise!Block("file", size, 0, size)
    BY TextItem DEF Texted, Texts, Iterator, Promise!Block, BlockKinds
  <2>3. Push(<<it>>, stack)
    BY <2>1
  <2> HIDE DEF it
  <2>4. /\ stack \in Seq(Items) /\ Piled(stack) /\ Sized(Walls(stack), runs')
        /\ Alive(Walls(stack), runs')
    BY <1>2, SoundNothing
  <2>5. /\ <<it>> \in Seq(Items) /\ Sound(<<it>> \o stack, runs')
        /\ Base(<<it>> \o stack) = <<it>> \o Base(stack)
    BY <1>2, <2>2, <2>4, TextPushed
  <2>6. Base(<<it>> \o stack) = <<it>>
    BY <2>5, <1>2, BaseEmpty
  <2>7. \/ /\ phase' = phase /\ JInv'
           /\ BlocksOf(stack)' \in Promise!Left(Base(<<it>> \o stack))
        \/ phase' = "fatal" /\ stack' = stack /\ tok' = tok
    BY <1>6, <2>3, <2>4, <2>5, PushKept
  <2>8. phase' = phase
    BY <1>2, <2>5, InputStackAssumption, <2>3 DEF Push
  <2>9. JInv' /\ BlocksOf(stack)' \in Promise!Left(<<it>>)
    BY <1>3, <2>6, <2>7, <2>8
  <2>10. Promise!Becomes(<<Promise!Block("file", size, 0, size)>>)
    BY <2>2, <2>9, Zenon DEF Promise!Becomes
  <2>11. Promise!Open
    BY <1>3, <1>5, <1>7, <2>8, <2>10, Zenon DEF Promise!Open
  <2> QED
    BY <2>9, <2>11
<1>8. CASE /\ files = 0 /\ phase' = "exit"
           /\ runs' = <<Run("exit", 0, Exits)>> \o runs
           /\ stack' = stack /\ tok' = tok /\ files' = files
  BY SoundNothing, InputStackAssumption, <1>1, <1>2, <1>6, <1>8, BlocksOfIs,
     <1>3, <1>5 DEF Steady, JInv, Promise!Exit
<1> QED
  BY <1>7, <1>8, Zenon DEF MainReturns

\* exit_troff finds nothing but return boundaries.
LEMMA ExitFacts ==
    ASSUME IInv, JInv, Extras = {}, Returns("exit")
    PROVE  /\ Interpreting /\ phase = "exit" /\ tok = "eof"
           /\ stack \in Seq(Items) /\ Piled(stack) /\ Len(stack) <= Limit
           /\ \A j \in 1..Len(Walls(stack)) : Walls(stack)[j].kind # "boundary"
           /\ stack # <<>> => stack[1].kind = "return_boundary"
           /\ want_loop_break = FALSE
           /\ BlocksOf(stack) = <<>> /\ Base(stack) = <<>>
<1>1. Interpreting /\ tok = "eof" /\ runs[1].kind = "exit"
  BY DEF Returns
<1>2. /\ stack \in Seq(Items) /\ want_loop_break \in BOOLEAN
      /\ Sound(stack, runs) /\ Len(stack) <= Limit
      /\ want_loop_break => stack # <<>> /\ stack[1].kind = "boundary"
      /\ BlocksOf(stack) = Now(stack, tok, want_loop_break)
  BY <1>1, NowFacts
<1>3. phase = "exit"
  <2>1. PICK x \in 0..Len(runs) :
                Whole(stack, tok, runs, x, want_loop_break, phase)
    BY <1>1 DEF IInv
  <2>2. Stacked(stack, runs, x, phase) /\ WellRun(runs, x)
    BY <2>1, WholeFacts, StackedFacts
  <2>3. x # 0
    BY <1>1, <2>2, ExitOnTop
  <2> QED
    BY <1>1, <2>2, <2>3 DEF Stacked, Interpreting
<1>4. Piled(stack) /\ Sized(Walls(stack), runs)
  BY <1>2 DEF Sound
<1>5. ASSUME NEW j \in 1..Len(Walls(stack)), Walls(stack)[j].kind = "boundary"
      PROVE  FALSE
  BY <1>4, <1>5, <1>1 DEF Sized, Loopy
<1>6. ASSUME NEW i \in 1..Len(stack) PROVE stack[i].kind = "return_boundary"
  <2>1. BoundariesMatchLoops
    BY AllMatch
  <2>2. \A n \in DOMAIN stack : IsBoundary(stack[n])
    BY <1>1, <2>1, Zenon DEF BoundariesMatchLoops
  <2>3. i \in DOMAIN stack
    BY <1>2
  <2>4. stack[i].kind \in Barriers
    BY <2>2, <2>3 DEF IsBoundary, Barriers
  <2>5. PICK j \in 1..Len(Walls(stack)) : Walls(stack)[j] = stack[i]
    BY <1>2, <2>4, WallAmong
  <2> QED
    BY <1>5, <2>4, <2>5 DEF Barriers
<1>7. stack # <<>> => stack[1].kind = "return_boundary"
  <2>1. ASSUME stack # <<>> PROVE 1 \in 1..Len(stack)
    BY <1>2, <2>1
  <2> QED
    BY <1>6, <2>1
<1>8. want_loop_break = FALSE
  BY <1>2, <1>7
<1>9. Base(stack) = <<>>
  BY <1>6, <1>2, BaseNothing DEF NoBlocks
<1>10. BlocksOf(stack) = <<>>
  BY <1>1, <1>2, <1>8, <1>9 DEF Now
<1> QED
  BY <1>1, <1>2, <1>3, <1>4, <1>5, <1>7, <1>8, <1>9, <1>10

\* exit_troff calls process_input_stack again, or has come to its end.
LEMMA ExitReturnsKept ==
    ASSUME IInv, JInv, Extras = {}, Sizes \subseteq Nat, ExitReturns
    PROVE  JInv' /\ (Promise!Exit \/ Promise!Fail)
<1>1. /\ Returns("exit") /\ want_loop_break' = want_loop_break
      /\ files' = files
  BY Zenon DEF ExitReturns
<1>2. /\ Interpreting /\ phase = "exit" /\ tok = "eof"
      /\ stack \in Seq(Items) /\ Piled(stack) /\ Len(stack) <= Limit
      /\ \A j \in 1..Len(Walls(stack)) : Walls(stack)[j].kind # "boundary"
      /\ stack # <<>> => stack[1].kind = "return_boundary"
      /\ want_loop_break = FALSE
      /\ BlocksOf(stack) = <<>> /\ Base(stack) = <<>>
  BY <1>1, ExitFacts
<1>3. want_loop_break' = FALSE
  BY <1>1, <1>2
<1>4. ASSUME runs' = <<Run("exit", 0, runs[1].left - 1)>> \o Tail(runs)
      PROVE  runs'[1].kind # "while"
  <2> DEFINE e == Run("exit", 0, runs[1].left - 1)
             q == Tail(runs)
  <2>1. e.kind = "exit"
    BY DEF Run
  <2>2. runs' = <<e>> \o q
    BY <1>4
  <2>3. q \in Seq(RunRecords)
    BY <1>2, NowFacts
  <2>4. e \in RunRecords
    <3>1. runs[1] \in RunRecords
      BY <1>2, NowFacts
    <3>2. runs[1].left - 1 \in Int
      BY <3>1 DEF RunRecords
    <3> QED
      BY <3>2 DEF Run, RunRecords
  <2> HIDE DEF e, q
  <2>5. (<<e>> \o q)[1] = e
    BY <2>3, <2>4, OnTopOf
  <2> QED
    BY <2>1, <2>2, <2>5
<1>5. CASE /\ runs' = <<Run("exit", 0, runs[1].left - 1)>> \o Tail(runs)
           /\ \E size \in Sizes : Push(Trap(size), stack)
  <2>1. PICK size \in Sizes : Push(Trap(size), stack)
    BY <1>5
  <2> DEFINE t == Trap(size)
             b == Promise!Block("macro", size, 0, size)
  <2>2. stack = <<>> \/ stack[1].kind # "end_trap"
    BY <1>2
  <2>3. /\ t \in Seq(Items) /\ t \o stack \in Seq(Items)
        /\ Piled(t \o stack) /\ Walls(t \o stack) = Walls(stack)
        /\ Base(t \o stack) = <<b>> \o Base(stack)
    BY <1>2, <2>2, TrapOnTop
  <2> HIDE DEF t, b
  <2>4. Sound(t \o stack, runs')
    BY <1>2, <2>3, <1>4, <1>5, SoundNone
  <2>5. Base(t \o stack) = <<b>>
    BY <1>2, <2>3
  <2>6. \/ /\ phase' = phase /\ JInv'
           /\ BlocksOf(stack)' \in Promise!Left(Base(t \o stack))
        \/ phase' = "fatal" /\ stack' = stack /\ tok' = tok
    BY <1>2, <1>3, <2>1, <2>3, <2>4, PushKept DEF t
  <2>7. CASE /\ phase' = phase /\ JInv'
             /\ BlocksOf(stack)' \in Promise!Left(Base(t \o stack))
    BY <2>5, <2>7, <1>1, <1>2 DEF Promise!Becomes, b, Promise!Exit
  <2>8. CASE phase' = "fatal" /\ stack' = stack /\ tok' = tok
    BY <1>1, <1>2, <2>8, FailKept
  <2> QED
    BY <2>6, <2>7, <2>8
<1>6. CASE /\ runs' = <<Run("exit", 0, runs[1].left - 1)>> \o Tail(runs)
           /\ Next_token(stack) /\ phase' = phase
  <2>1. Sound(stack, runs')
    <3>1. runs'[1].kind # "while"
      BY <1>4, <1>6
    <3> QED
      BY <1>2, <3>1, SoundNone
  <2>2. JInv'
    BY <1>2, <1>3, <1>6, <2>1, EndsReading
  <2>3. stack' = stack /\ tok' = tok
    BY <1>2, NoStop, <1>6 DEF IsBoundary, Stops, TokenOf, Next_token
  <2>4. BlocksOf(stack)' = BlocksOf(stack)
    BY <1>1, <2>3, BlocksOfIs, Zenon
  <2>5. Promise!Exit
    BY <1>1, <1>2, <1>6, <2>4 DEF Promise!Exit
  <2> QED
    BY <2>2, <2>5
<1>7. CASE phase' = "done" /\ stack' = stack /\ tok' = tok
  BY <1>7, <1>1, BlocksOfIs, <1>2 DEF JInv, Interpreting, Promise!Exit
<1> QED
  BY <1>5, <1>6, <1>7, Zenon DEF ExitReturns

-----------------------------------------------------------------------------
\* The refinement.

LEMMA InitJInv ==
    ASSUME Init
    PROVE  JInv /\ Promise!BlocksInit
<1>1. /\ stack = <<>> /\ tok = "eof" /\ want_loop_break = FALSE
      /\ files \in 0..MaxFiles /\ phase = "document"
  BY Zenon DEF Init
<1>2. Steady(<<>>, "eof", runs, FALSE)
  BY SoundNothing, InputStackAssumption DEF Steady
<1>3. JInv
  BY <1>1, <1>2, Zenon DEF JInv
<1>4. BlocksOf(stack) = <<>>
  <2>1. BlocksIn(<<>>, "eof", FALSE) = Base(<<>>)
    <3> DEFINE s == <<>>
    <3>1. s \in Seq(Items)
      OBVIOUS
    <3> HIDE DEF s
    <3>2. BlocksIn(s, "eof", FALSE) = Base(s)
      BY <3>1, BlocksPlain
    <3> QED
      BY <3>2 DEF s
  <2> QED
    BY <1>1, <2>1, BlocksOfIs, BaseEmpty, Zenon
<1>5. files \in Nat
  BY <1>1, InputStackAssumption
<1> QED
  BY <1>1, <1>3, <1>4, <1>5, Zenon DEF Promise!BlocksInit

\* A request that enters something, in the abstract specification.
LEMMA EntersKept ==
    ASSUME IInv, JInv, Extras = {}, NEW size \in Sizes, size \in Nat,
           \/ Enter("file", size, 0) \/ Enter("string", size, 0)
           \/ \E args \in Counts : Enter("macro", size, args)
           \/ Interpolate(size) \/ Spring(size)
           \/ \E blank \in BOOLEAN : NxFile(size, blank)
    PROVE  JInv' /\ Promise!BlocksNext
<1>1. "file" \in BlockKinds /\ "string" \in BlockKinds /\ "macro" \in BlockKinds
      /\ 0 \in Nat /\ Counts \subseteq Nat /\ Sizes \subseteq Nat
  BY InputStackAssumption DEF BlockKinds
<1>2. CASE Enter("file", size, 0)
  BY <1>1, <1>2, EnterKept DEF Promise!BlocksNext
<1>3. CASE Enter("string", size, 0)
  BY <1>1, <1>3, EnterKept DEF Promise!BlocksNext
<1>4. CASE \E args \in Counts : Enter("macro", size, args)
  <2>1. PICK args \in Counts : Enter("macro", size, args)
    BY <1>4
  <2>2. args \in Nat
    BY <1>1
  <2>3. JInv' /\ (Promise!Enter("macro", size, args) \/ Promise!Fail)
    BY <1>1, <2>1, <2>2, EnterKept
  <2>4. args \in Counts \cup {0, Promise!ArgsOf(BlocksOf(stack))}
    OBVIOUS
  <2> QED
    BY <2>3, <2>4, Zenon DEF Promise!BlocksNext
<1>5. CASE Interpolate(size)
  <2> DEFINE args == Promise!ArgsOf(BlocksOf(stack))
  <2>1. JInv' /\ (Promise!Enter("macro", size, args) \/ Promise!Fail)
    BY <1>5, InterpolateKept
  <2>2. args \in Counts \cup {0, args}
    OBVIOUS
  <2> QED
    BY <2>1, <2>2, Zenon DEF Promise!BlocksNext
<1>6. CASE Spring(size)
  BY <1>6, SpringKept DEF Promise!BlocksNext
<1>7. CASE \E blank \in BOOLEAN : NxFile(size, blank)
  <2>1. PICK blank \in BOOLEAN : NxFile(size, blank)
    BY <1>7
  <2>2. JInv' /\ Promise!Nx
    BY <1>1, <2>1, NxFileKept
  <2> QED
    BY <2>2, Zenon DEF Promise!BlocksNext
<1> QED
  BY <1>2, <1>3, <1>4, <1>5, <1>6, <1>7

\* break and continue.
LEMMA BreakKept ==
    ASSUME IInv, JInv, Extras = {}, While_break_request
    PROVE  JInv' /\ Promise!Break
<1>1. BreakOrContinue(TRUE) /\ TRUE \in BOOLEAN
  BY DEF While_break_request
<1>2. JInv' /\ IF TRUE THEN Promise!Break ELSE Promise!Continue
  BY <1>1, BreakOrContinueKept
<1> QED
  BY <1>2

LEMMA ContinueKept ==
    ASSUME IInv, JInv, Extras = {}, While_continue_request
    PROVE  JInv' /\ Promise!Continue
<1>1. BreakOrContinue(FALSE) /\ FALSE \in BOOLEAN
  BY DEF While_continue_request
<1>2. JInv' /\ IF FALSE THEN Promise!Break ELSE Promise!Continue
  BY <1>1, BreakOrContinueKept
<1> QED
  BY <1>2

LEMMA BlocksStep ==
    ASSUME IInv, JInv, Extras = {}, Next
    PROVE  JInv' /\ Promise!BlocksNext
<1>1. Sizes \subseteq Nat /\ LoopSizes \subseteq Nat \ {0} /\ 1..2 \subseteq Nat
  BY InputStackAssumption
<1>2. CASE Line
  BY <1>2, LineKept, Zenon DEF Promise!BlocksNext
<1>3. CASE BeginTrap
  BY <1>3, BeginTrapKept, Zenon DEF Promise!BlocksNext
<1>4. CASE EndTrap
  BY <1>4, EndTrapKept, Zenon DEF Promise!BlocksNext
<1>5. CASE TestHolds
  BY <1>5, TestHoldsKept, Zenon DEF Promise!BlocksNext
<1>6. CASE TestFails
  BY <1>6, TestFailsKept, Zenon DEF Promise!BlocksNext
<1>7. CASE LoopReturns
  BY <1>7, LoopReturnsKept, Zenon DEF Promise!BlocksNext
<1>8. CASE While_break_request
  BY <1>8, BreakKept, Zenon DEF Promise!BlocksNext
<1>9. CASE While_continue_request
  BY <1>9, ContinueKept, Zenon DEF Promise!BlocksNext
<1>10. CASE Nx
  BY <1>10, NxKept, Zenon DEF Promise!BlocksNext
<1>11. CASE Ex
  BY <1>11, ExKept, Zenon DEF Promise!BlocksNext
<1>12. CASE MainReturns
  BY <1>1, <1>12, MainReturnsKept, Zenon DEF Promise!BlocksNext
<1>13. CASE ExitReturns
  BY <1>1, <1>13, ExitReturnsKept, Zenon DEF Promise!BlocksNext
<1>14. ASSUME NEW size \in Sizes,
              \/ Enter("file", size, 0) \/ Enter("string", size, 0)
              \/ \E args \in Counts : Enter("macro", size, args)
              \/ Interpolate(size) \/ Spring(size)
              \/ \E blank \in BOOLEAN : NxFile(size, blank)
       PROVE  JInv' /\ Promise!BlocksNext
  BY <1>1, <1>14, EntersKept
<1>15. ASSUME NEW size \in LoopSizes, While(size)
       PROVE  JInv' /\ Promise!BlocksNext
  BY <1>1, <1>15, WhileKept DEF Promise!BlocksNext
<1>16. ASSUME NEW n \in 1..2, Return(n) PROVE JInv' /\ Promise!BlocksNext
  BY <1>16, ReturnKept DEF Promise!BlocksNext
<1>17. ASSUME NEW n \in 1..2, Shift(n) PROVE JInv' /\ Promise!BlocksNext
  BY <1>17, ShiftKept DEF Promise!BlocksNext
<1> QED
  BY <1>2, <1>3, <1>4, <1>5, <1>6, <1>7, <1>8, <1>9, <1>10, <1>11, <1>12,
     <1>13, <1>14, <1>15, <1>16, <1>17, Zenon DEF Next

LEMMA BlocksStutter ==
    ASSUME JInv, UNCHANGED vars
    PROVE  JInv' /\ UNCHANGED Promise!bvars
<1>1. /\ stack' = stack /\ tok' = tok /\ runs' = runs /\ files' = files
      /\ want_loop_break' = want_loop_break /\ phase' = phase
  BY DEF vars
<1>2. JInv'
  BY <1>1, Zenon DEF JInv, Interpreting
<1>3. BlocksOf(stack)' = BlocksOf(stack)
  BY <1>1, BlocksOfIs, Zenon
<1> QED
  BY <1>1, <1>2, <1>3 DEF Promise!bvars

LEMMA PromisesStep ==
    ASSUME IInv, JInv, Extras = {}
    PROVE  /\ While_break_request => Promise!Break
           /\ While_continue_request => Promise!Continue
           /\ \A n \in 1..2 : /\ Return(n) => Promise!Return(n)
                              /\ Shift(n) => Promise!Shift(n)
           /\ Nx \/ (\E size \in Sizes, blank \in BOOLEAN : NxFile(size, blank)) =>
                  Promise!Nx \/ Promise!Fail
<1>1. While_break_request => Promise!Break
  BY BreakKept
<1>2. While_continue_request => Promise!Continue
  BY ContinueKept
<1>3. ASSUME NEW n \in 1..2
      PROVE  /\ Return(n) => Promise!Return(n)
             /\ Shift(n) => Promise!Shift(n)
  BY ReturnKept, ShiftKept
<1>4. Nx => Promise!Nx
  BY NxKept
<1>5. ASSUME NEW size \in Sizes, NEW blank \in BOOLEAN, NxFile(size, blank)
      PROVE  Promise!Nx
  BY <1>5, NxFileKept, InputStackAssumption
<1> QED
  BY <1>1, <1>2, <1>3, <1>4, <1>5, Zenon

\* The stack with its boundaries, and the functions that return at them, are
\* the blocks with the requests on them: a loop is left by break, tested again
\* by continue, and left with the macro by return.
THEOREM StackImplementsBlocks ==
    ASSUME Extras = {}
    PROVE  Spec => Implements
<1>1. Init => IInv /\ JInv /\ Promise!BlocksInit
  BY InitIInv, InitJInv
<1>2. IInv /\ JInv /\ [Next]_vars => IInv' /\ JInv'
  BY NextStep, BlocksStep, BlocksStutter, Zenon
<1>3. IInv /\ JInv /\ [Next]_vars => [Promise!BlocksNext]_(Promise!bvars)
  BY BlocksStep, BlocksStutter, Zenon
<1> QED
  BY <1>1, <1>2, <1>3, PTL DEF Spec, Implements, Promise!BlocksSpec

\* Each request does what that very request promises.
THEOREM RequestsKeepPromises ==
    ASSUME Extras = {}
    PROVE  Spec => KeepsPromises
<1>1. Init => IInv /\ JInv
  BY InitIInv, InitJInv
<1>2. IInv /\ JInv /\ [Next]_vars => IInv' /\ JInv'
  BY NextStep, BlocksStep, BlocksStutter, Zenon
<1>3. IInv /\ JInv =>
          [/\ While_break_request => Promise!Break
           /\ While_continue_request => Promise!Continue
           /\ \A n \in 1..2 : /\ Return(n) => Promise!Return(n)
                              /\ Shift(n) => Promise!Shift(n)
           /\ Nx \/ (\E size \in Sizes, blank \in BOOLEAN : NxFile(size, blank)) =>
                  Promise!Nx \/ Promise!Fail]_vars
  BY PromisesStep, Zenon
<1> QED
  BY <1>1, <1>2, <1>3, PTL DEF Spec, KeepsPromises
=============================================================================
