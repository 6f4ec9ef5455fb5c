-------------------------- MODULE FormatterProofs ---------------------------
(* What holds of the formatter, for any documents, macros, traps and sizes. *)
(* Every operation is shown to keep the record of the formatter well formed *)
(* and to leave on the input what it found there (Keeps): what it pushes is *)
(* balanced, it removes no ejector and no end of a trap, and before the     *)
(* first page it pushes nothing that could postpone traps for good.         *)
(* Then every operation is shown to keep the words of the text: those       *)
(* written, those of the lines that wait and those of the line being        *)
(* collected are together the words read, in the order of reading.          *)
EXTENDS Formatter, FiniteSetTheorems, WellFoundedInduction, TLAPS

-----------------------------------------------------------------------------
\* Induction, on sets of natural numbers.

LEMMA Least ==
    ASSUME NEW S \in SUBSET Nat, S # {}
    PROVE  \E n \in S : \A m \in S : n <= m
<1>1. \E n \in S : \A m \in S : ~ (<<m, n>> \in OpToRel(<, Nat))
  BY WFMin, NatLessThanWellFounded
<1>2. \A n \in S, m \in S : ~ (<<m, n>> \in OpToRel(<, Nat)) => n <= m
  BY DEF OpToRel
<1> QED
  BY <1>1, <1>2

LEMMA Induct ==
    ASSUME NEW S \in SUBSET Nat, 0 \in S, \A n \in S : n + 1 \in S
    PROVE  S = Nat
<1>1. SUFFICES ASSUME Nat \ S # {} PROVE FALSE
  OBVIOUS
<1>2. PICK n \in Nat \ S : \A m \in Nat \ S : n <= m
  BY <1>1, Least
<1>3. n - 1 \in S
  BY <1>2
<1> QED
  BY <1>2, <1>3

\* A function of the numbers up to n can be defined step by step.
IsRepeated(f1, n, a, F) ==
    f1 = [i \in 0..n |-> IF i = 0 THEN a ELSE F[f1[i - 1]]]

LEMMA Repeated ==
    ASSUME NEW n \in Nat, NEW a, NEW F
    PROVE  \E f1 : IsRepeated(f1, n, a, F)
<1> USE DEF IsRepeated
<1> DEFINE IsIt(f1, m) == IsRepeated(f1, m, a, F)
           S == {m \in Nat : \E f1 : IsIt(f1, m)}
<1>1. 0 \in S
  <2> DEFINE f1 == [i \in 0..0 |-> a]
  <2>1. f1 = [i \in 0..0 |-> IF i = 0 THEN a ELSE F[f1[i - 1]]]
    OBVIOUS
  <2>2. IsIt(f1, 0)
    BY <2>1
  <2> QED
    BY <2>2
<1>2. ASSUME NEW m \in S PROVE m + 1 \in S
  <2>1. PICK f1 : IsIt(f1, m)
    OBVIOUS
  <2> DEFINE h == [i \in 0..(m + 1) |-> IF i = m + 1 THEN F[f1[m]] ELSE f1[i]]
  <2>2. \A i \in 0..(m + 1) : h[i] = IF i = 0 THEN a ELSE F[h[i - 1]]
    <3>1. ASSUME NEW i \in 0..m
          PROVE  h[i] = IF i = 0 THEN a ELSE F[h[i - 1]]
      BY <2>1
    <3>2. h[m + 1] = F[h[m]]
      OBVIOUS
    <3>3. \A i \in 0..(m + 1) : i \in 0..m \/ i = m + 1
      OBVIOUS
    <3>4. m + 1 # 0 /\ (m + 1) - 1 = m
      OBVIOUS
    <3> HIDE DEF h
    <3> QED
      BY <3>1, <3>2, <3>3, <3>4
  <2>3. h = [i \in 0..(m + 1) |-> h[i]]
    OBVIOUS
  <2> HIDE DEF h
  <2>4. IsIt(h, m + 1)
    BY <2>2, <2>3
  <2>5. \E f2 : IsIt(f2, m + 1)
    <3> WITNESS h
    <3> QED
      BY <2>4
  <2> HIDE DEF IsIt
  <2> QED
    BY <2>5
<1>3. S = Nat
  <2> HIDE DEF S
  <2>1. S \in SUBSET Nat
    BY DEF S
  <2> QED
    BY <1>1, <1>2, <2>1, Induct
<1> QED
  BY <1>3

\* What every step keeps, the last one has.
LEMMA RepeatedIn ==
    ASSUME NEW n \in Nat, NEW Kept, NEW a \in Kept, NEW F, \A u \in Kept : F[u] \in Kept,
           NEW f1, IsRepeated(f1, n, a, F)
    PROVE  \A i \in 0..n : f1[i] \in Kept
<1>2. f1[0] = a /\ \A i \in 1..n : f1[i] = F[f1[i - 1]]
  BY DEF IsRepeated
<1> DEFINE S == {i \in Nat : i \in 0..n => f1[i] \in Kept}
<1>3. 0 \in S
  BY <1>2
<1>4. ASSUME NEW i \in S PROVE i + 1 \in S
  <2>1. SUFFICES ASSUME i + 1 \in 0..n PROVE f1[i + 1] \in Kept
    OBVIOUS
  <2>2. i \in 0..n /\ i + 1 \in 1..n /\ (i + 1) - 1 = i
    BY <2>1
  <2>3. f1[i] \in Kept
    BY <2>2
  <2>4. f1[i + 1] = F[f1[i]]
    BY <1>2, <2>2
  <2> QED
    BY <2>3, <2>4
<1>5. S = Nat
  <2> HIDE DEF S
  <2>1. S \in SUBSET Nat
    BY DEF S
  <2> QED
    BY <1>3, <1>4, <2>1, Induct
<1> QED
  BY <1>5

-----------------------------------------------------------------------------
\* The input and the formatter.

Tokens ==
    {BeginTrap, EndTrap, PageEjector, LastPageEjector}
        \cup {Call(nm) : nm \in Macros} \cup {Line(nm) : nm \in InputLines}

Slots == [nm : Macros \cup {NoMacro}, position : Int]

FS ==
    [traps : Seq(Slots), vpos : Nat, nl : -1..(PageLength - 1),
     length : {PageLength}, number : Int, next : {NoNumber},
     count : Nat, lastCount : Int, ejecting : BOOLEAN, before : 0..1,
     noSpace : BOOLEAN, saved : Int, marked : Int, honor : {TRUE},
     input : Seq(Tokens), sprung : BOOLEAN, postponing : BOOLEAN,
     postponed : Macros \cup {NoMacro}, exiting : BOOLEAN,
     eoiFinished : BOOLEAN, beganInEoi : BOOLEAN, seenLast : BOOLEAN,
     status : {"running", "done", "fatal"}, written : Seq(Nat),
     line : Seq(Nat), pending : Seq(Seq(Nat)), filling : BOOLEAN,
     collected : Nat, depth : Nat,
     phase : {"document", "end_macro", "final_break", "last_page", "trailer"}]

LEMMA Parameters ==
    /\ PageLength \in Nat \ {0} /\ Width \in Nat \ {0}
    /\ Lines \subseteq InputLines /\ EndMacros \subseteq Macros \cup {NoMacro}
    /\ NoMacro \notin Macros
  BY FormatterAssumption DEF Macros

LEMMA TokensAre ==
    /\ BeginTrap \in Tokens /\ EndTrap \in Tokens
    /\ PageEjector \in Tokens /\ LastPageEjector \in Tokens
    /\ \A nm \in Macros : Call(nm) \in Tokens
    /\ \A nm \in InputLines : Line(nm) \in Tokens
    /\ BeginTrap.kind = "begin" /\ EndTrap.kind = "end"
    /\ PageEjector.kind = "ejector" /\ LastPageEjector.kind = "last"
    /\ \A nm : Call(nm).kind = "call" /\ Call(nm).nm = nm
    /\ \A nm : Line(nm).kind = "line" /\ Line(nm).nm = nm
  BY DEF Tokens, BeginTrap, EndTrap, PageEjector, LastPageEjector, Call, Line,
         Item

LEMMA KindsOfTokens ==
    ASSUME NEW it \in Tokens
    PROVE  \/ it = BeginTrap /\ it.kind = "begin"
           \/ it = EndTrap /\ it.kind = "end"
           \/ it = PageEjector /\ it.kind = "ejector"
           \/ it = LastPageEjector /\ it.kind = "last"
           \/ it.kind = "call" /\ it.nm \in Macros /\ it = Call(it.nm)
           \/ it.kind = "line" /\ it.nm \in InputLines /\ it = Line(it.nm)
<1>1. CASE \E nm \in Macros : it = Call(nm)
  BY <1>1, TokensAre, Zenon
<1>2. CASE \E nm \in InputLines : it = Line(nm)
  BY <1>2, TokensAre, Zenon
<1>3. CASE it \in {BeginTrap, EndTrap, PageEjector, LastPageEjector}
  BY <1>3, TokensAre, Zenon
<1> QED
  BY <1>1, <1>2, <1>3, Zenon DEF Tokens

LEMMA TokensType ==
    Tokens \subseteq [kind : {"begin", "end", "ejector", "last", "call", "line"},
                      nm : Macros \cup {NoMacro} \cup InputLines]
  BY DEF Tokens, BeginTrap, EndTrap, PageEjector, LastPageEjector, Call, Line,
         Item

LEMMA ConcatIs ==
    ASSUME NEW E, NEW a \in Seq(E), NEW b \in Seq(E)
    PROVE  /\ a \o b \in Seq(E) /\ Len(a \o b) = Len(a) + Len(b)
           /\ \A i \in 1..Len(a) : (a \o b)[i] = a[i]
           /\ \A i \in 1..Len(b) : (a \o b)[Len(a) + i] = b[i]
  OBVIOUS

LEMMA OneItem ==
    ASSUME NEW E, NEW it \in E
    PROVE  <<it>> \in Seq(E) /\ Len(<<it>>) = 1 /\ <<it>>[1] = it /\ <<it>> # <<>>
  OBVIOUS

LEMMA Associates ==
    ASSUME NEW E, NEW a \in Seq(E), NEW b \in Seq(E), NEW c \in Seq(E)
    PROVE  (a \o b) \o c = a \o (b \o c)
  OBVIOUS

LEMMA SameSequence ==
    ASSUME NEW E, NEW p \in Seq(E), NEW q \in Seq(E), Len(p) = Len(q),
           \A i \in 1..Len(p) : p[i] = q[i]
    PROVE  p = q
  OBVIOUS

LEMMA ThreeItems ==
    ASSUME NEW E, NEW x \in E, NEW y \in E, NEW z \in E, NEW s \in Seq(E)
    PROVE  <<x, y, z>> \o s = <<x>> \o (<<y>> \o (<<z>> \o s))
<1> DEFINE p == <<x, y, z>> \o s
           r == <<z>> \o s
           q == <<y>> \o r
           t == <<x>> \o q
<1>1. p \in Seq(E) /\ Len(p) = Len(s) + 3 /\ Len(s) \in Nat
      /\ p[1] = x /\ p[2] = y /\ p[3] = z
      /\ \A i \in 1..Len(s) : p[i + 3] = s[i]
  OBVIOUS
<1>2. r \in Seq(E) /\ Len(r) = Len(s) + 1 /\ r[1] = z
      /\ \A i \in 1..Len(s) : r[i + 1] = s[i]
  OBVIOUS
<1> HIDE DEF r
<1>3. q \in Seq(E) /\ Len(q) = Len(s) + 2 /\ q[1] = y /\ q[2] = z
      /\ \A i \in 1..Len(s) : q[i + 2] = s[i]
  <2>1. q \in Seq(E) /\ Len(q) = Len(r) + 1 /\ q[1] = y
        /\ \A i \in 1..Len(r) : q[i + 1] = r[i]
    BY <1>2
  <2> HIDE DEF q
  <2>2. \A i \in 1..Len(s) : i + 1 \in 1..Len(r) /\ (i + 1) + 1 = i + 2
    BY <1>1, <1>2
  <2>3. 1 \in 1..Len(r) /\ Len(r) + 1 = Len(s) + 2
    BY <1>1, <1>2
  <2>4. q[2] = z
    <3>1. q[1 + 1] = r[1]
      BY <2>1, <2>3
    <3> QED
      BY <1>2, <3>1
  <2>5. \A i \in 1..Len(s) : q[i + 2] = s[i]
    BY <1>2, <2>1, <2>2, Zenon
  <2> QED
    BY <2>1, <2>3, <2>4, <2>5
<1> HIDE DEF q
<1>4. t \in Seq(E) /\ Len(t) = Len(s) + 3 /\ t[1] = x /\ t[2] = y /\ t[3] = z
      /\ \A i \in 1..Len(s) : t[i + 3] = s[i]
  <2>1. t \in Seq(E) /\ Len(t) = Len(q) + 1 /\ t[1] = x
        /\ \A i \in 1..Len(q) : t[i + 1] = q[i]
    BY <1>3
  <2> HIDE DEF t
  <2>2. \A i \in 1..Len(s) : i + 2 \in 1..Len(q) /\ (i + 2) + 1 = i + 3
    BY <1>1, <1>3
  <2>3. 1 \in 1..Len(q) /\ 2 \in 1..Len(q) /\ Len(q) + 1 = Len(s) + 3
    BY <1>1, <1>3
  <2>4. t[2] = y /\ t[3] = z
    <3>1. t[1 + 1] = q[1] /\ t[2 + 1] = q[2]
      BY <2>1, <2>3
    <3> QED
      BY <1>3, <3>1
  <2>5. \A i \in 1..Len(s) : t[i + 3] = s[i]
    BY <1>3, <2>1, <2>2, Zenon
  <2> QED
    BY <2>1, <2>3, <2>4, <2>5
<1> HIDE DEF t, p
<1>5. ASSUME NEW i \in 1..Len(p) PROVE p[i] = t[i]
  <2>1. CASE i \in 1..3
    BY <1>1, <1>4, <2>1
  <2>2. CASE i \notin 1..3
    <3>1. i - 3 \in 1..Len(s) /\ (i - 3) + 3 = i
      BY <1>1, <2>2
    <3> QED
      BY <1>1, <1>4, <3>1
  <2> QED
    BY <2>1, <2>2
<1>6. p = t
  BY <1>1, <1>4, <1>5, SameSequence
<1> QED
  BY <1>6 DEF p, t, q, r

\* An item on top of the input.
LEMMA OnTopOf ==
    ASSUME NEW it \in Tokens, NEW s \in Seq(Tokens)
    PROVE  LET t == <<it>> \o s
           IN  /\ t \in Seq(Tokens) /\ Len(t) = Len(s) + 1 /\ t # <<>>
               /\ t[1] = it /\ \A i \in 1..Len(s) : t[i + 1] = s[i]
               /\ Head(t) = it /\ Tail(t) = s
  OBVIOUS

-----------------------------------------------------------------------------
\* The ends of traps on the input that have no beginning there, counted from
\* its bottom: never fewer than none.

Steps(it, n, m) ==
    IF it.kind = "end" THEN m = n + 1
    ELSE IF it.kind = "begin" THEN n = m + 1
    ELSE n = m

Climbs(s, d) ==
    /\ d \in [0..Len(s) -> Nat]
    /\ d[0] = 0
    /\ \A k \in 1..Len(s) : Steps(s[(Len(s) + 1) - k], d[k - 1], d[k])

Nested(s, n) == \E d : Climbs(s, d) /\ d[Len(s)] = n

LEMMA NestedEmpty ==
    Nested(<<>>, 0) /\ \A n : Nested(<<>>, n) => n = 0
<1> DEFINE d == [k \in 0..0 |-> 0]
<1>1. Len(<<>>) = 0 /\ 1..0 = {}
  OBVIOUS
<1>2. d \in [0..Len(<<>>) -> Nat] /\ d[0] = 0
  BY <1>1
<1> HIDE DEF d
<1>3. \A k \in 1..Len(<<>>) : Steps(<<>>[(Len(<<>>) + 1) - k], d[k - 1], d[k])
  BY <1>1
<1>4. Nested(<<>>, 0)
  BY <1>1, <1>2, <1>3, Zenon DEF Nested, Climbs
<1>5. \A n : Nested(<<>>, n) => n = 0
  BY <1>1, Zenon DEF Nested, Climbs
<1> QED
  BY <1>4, <1>5

LEMMA NestedPush ==
    ASSUME NEW it \in Tokens, NEW s \in Seq(Tokens), NEW n, Nested(s, n),
           NEW m \in Nat, Steps(it, n, m)
    PROVE  Nested(<<it>> \o s, m)
<1>1. PICK d : Climbs(s, d) /\ d[Len(s)] = n
  BY DEF Nested
<1> DEFINE t == <<it>> \o s
           e == [k \in 0..(Len(s) + 1) |-> IF k = Len(s) + 1 THEN m ELSE d[k]]
<1>2. /\ t \in Seq(Tokens) /\ Len(t) = Len(s) + 1
      /\ t[1] = it /\ \A i \in 1..Len(s) : t[i + 1] = s[i]
  BY OnTopOf
<1>3. Len(s) \in Nat /\ d \in [0..Len(s) -> Nat] /\ d[0] = 0
  BY <1>1 DEF Climbs
<1>4. e \in [0..Len(t) -> Nat] /\ e[0] = 0 /\ e[Len(t)] = m
  BY <1>2, <1>3
<1>5. ASSUME NEW k \in 1..Len(t)
      PROVE  Steps(t[(Len(t) + 1) - k], e[k - 1], e[k])
  <2>1. CASE k = Len(t)
    <3>1. (Len(t) + 1) - k = 1
      BY <2>1, <1>2, <1>3
    <3>2. e[k] = m /\ e[k - 1] = n
      BY <2>1, <1>1, <1>2, <1>3
    <3> HIDE DEF e, t
    <3> QED
      BY <1>2, <3>1, <3>2
  <2>2. CASE k # Len(t)
    <3>1. k \in 1..Len(s) /\ (Len(s) + 1) - k \in 1..Len(s)
          /\ (Len(t) + 1) - k = ((Len(s) + 1) - k) + 1
      BY <2>2, <1>2, <1>3
    <3>2. e[k] = d[k] /\ e[k - 1] = d[k - 1]
      BY <3>1, <1>3
    <3> HIDE DEF e, t
    <3>3. t[(Len(t) + 1) - k] = s[(Len(s) + 1) - k]
      BY <1>2, <3>1
    <3>4. Steps(s[(Len(s) + 1) - k], d[k - 1], d[k])
      BY <1>1, <3>1 DEF Climbs
    <3> QED
      BY <3>2, <3>3, <3>4
  <2> QED
    BY <2>1, <2>2
<1> HIDE DEF e, t
<1>6. Climbs(t, e)
  BY <1>4, <1>5 DEF Climbs
<1>7. Nested(t, m)
  BY <1>4, <1>6 DEF Nested
<1> QED
  BY <1>7 DEF t

LEMMA NestedPop ==
    ASSUME NEW s \in Seq(Tokens), s # <<>>, NEW n, Nested(s, n)
    PROVE  \E m \in Nat : Nested(Tail(s), m) /\ Steps(Head(s), m, n)
<1>1. PICK d : Climbs(s, d) /\ d[Len(s)] = n
  BY DEF Nested
<1> DEFINE t == Tail(s)
           e == [k \in 0..Len(t) |-> d[k]]
<1>2. /\ t \in Seq(Tokens) /\ Len(t) \in Nat /\ Len(s) = Len(t) + 1
      /\ Head(s) = s[1] /\ \A i \in 1..Len(t) : t[i] = s[i + 1]
  OBVIOUS
<1>3. d \in [0..Len(s) -> Nat] /\ d[0] = 0
  BY <1>1 DEF Climbs
<1>4. e \in [0..Len(t) -> Nat] /\ e[0] = 0 /\ e[Len(t)] = d[Len(t)]
      /\ d[Len(t)] \in Nat
  BY <1>2, <1>3
<1>5. ASSUME NEW k \in 1..Len(t)
      PROVE  Steps(t[(Len(t) + 1) - k], e[k - 1], e[k])
  <2>1. k \in 1..Len(s) /\ (Len(t) + 1) - k \in 1..Len(t)
        /\ (Len(s) + 1) - k = ((Len(t) + 1) - k) + 1
    BY <1>2
  <2>2. e[k] = d[k] /\ e[k - 1] = d[k - 1]
    BY <2>1, <1>2, <1>3
  <2> HIDE DEF e, t
  <2>3. t[(Len(t) + 1) - k] = s[(Len(s) + 1) - k]
    BY <1>2, <2>1
  <2>4. Steps(s[(Len(s) + 1) - k], d[k - 1], d[k])
    BY <1>1, <2>1 DEF Climbs
  <2> QED
    BY <2>2, <2>3, <2>4
<1> HIDE DEF e, t
<1>6. Climbs(t, e)
  BY <1>4, <1>5 DEF Climbs
<1>7. Nested(t, d[Len(t)])
  BY <1>4, <1>6 DEF Nested
<1>8. Steps(s[1], d[Len(t)], d[Len(s)])
  <2>1. Len(s) \in 1..Len(s) /\ (Len(s) + 1) - Len(s) = 1
        /\ Len(s) - 1 = Len(t)
    BY <1>2
  <2>2. Steps(s[(Len(s) + 1) - Len(s)], d[Len(s) - 1], d[Len(s)])
    BY <1>1, <2>1 DEF Climbs
  <2> QED
    BY <2>1, <2>2
<1> QED
  BY <1>1, <1>2, <1>4, <1>7, <1>8 DEF t

\* There are as many ends as beginnings and traps under way.
KindsIn(s, kind) == {i \in DOMAIN s : s[i].kind = kind}

LEMMA NestedCounts ==
    ASSUME NEW s \in Seq(Tokens), NEW n, Nested(s, n)
    PROVE  Cardinality(KindsIn(s, "end")) = n + Cardinality(KindsIn(s, "begin"))
<1>1. PICK d : Climbs(s, d) /\ d[Len(s)] = n
  BY DEF Nested
<1>2. Len(s) \in Nat /\ d \in [0..Len(s) -> Nat] /\ d[0] = 0
      /\ DOMAIN s = 1..Len(s)
  BY <1>1 DEF Climbs
<1> DEFINE Lowest(k, kind) ==
             {i \in 1..Len(s) : i > Len(s) - k /\ s[i].kind = kind}
           Nr(k, kind) == Cardinality(Lowest(k, kind))
           Right(k) == /\ IsFiniteSet(Lowest(k, "end"))
                       /\ IsFiniteSet(Lowest(k, "begin"))
                       /\ Nr(k, "end") = d[k] + Nr(k, "begin")
           S == {k \in Nat : k \in 0..Len(s) => Right(k)}
<1>3. 0 \in S
  <2>1. Lowest(0, "end") = {} /\ Lowest(0, "begin") = {}
    BY <1>2
  <2> HIDE DEF Lowest
  <2>2. Right(0)
    BY <2>1, <1>2, FS_EmptySet
  <2> HIDE DEF Right
  <2> QED
    BY <2>2
<1>4. ASSUME NEW k \in S PROVE k + 1 \in S
  <2>1. SUFFICES ASSUME k + 1 \in 0..Len(s) PROVE Right(k + 1)
    BY DEF S
  <2> DEFINE i == Len(s) - k
  <2>2. k \in Nat /\ k \in 0..Len(s) /\ k + 1 \in 1..Len(s) /\ i \in 1..Len(s)
        /\ i = (Len(s) + 1) - (k + 1) /\ (k + 1) - 1 = k
    BY <2>1, <1>2
  <2>3. IsFiniteSet(Lowest(k, "end")) /\ IsFiniteSet(Lowest(k, "begin"))
        /\ Nr(k, "end") = d[k] + Nr(k, "begin")
    BY <2>2
  <2>4. Steps(s[i], d[k], d[k + 1])
    BY <1>1, <2>2 DEF Climbs
  <2>5. d[k] \in Nat /\ d[k + 1] \in Nat
    BY <1>2, <2>1, <2>2
  <2>6. \A kind : i \notin Lowest(k, kind)
    BY <2>2
  <2>7. \A kind : Lowest(k + 1, kind) =
                     IF s[i].kind = kind THEN Lowest(k, kind) \cup {i}
                     ELSE Lowest(k, kind)
    BY <1>2, <2>2, SMTT(30)
  <2> HIDE DEF Lowest, i
  <2>8. \A kind : IsFiniteSet(Lowest(k, kind)) =>
          /\ IsFiniteSet(Lowest(k, kind) \cup {i})
          /\ Cardinality(Lowest(k, kind) \cup {i}) = Nr(k, kind) + 1
          /\ Nr(k, kind) \in Nat
    BY <2>6, FS_AddElement, FS_CardinalityType
  <2> DEFINE more(kind) == /\ IsFiniteSet(Lowest(k, kind) \cup {i})
                           /\ Cardinality(Lowest(k, kind) \cup {i}) = Nr(k, kind) + 1
                           /\ Nr(k, kind) \in Nat
  <2>12. more("end") /\ more("begin")
    BY <2>3, <2>8, Zenon
  <2>9. CASE s[i].kind = "end"
    <3>1. Lowest(k + 1, "end") = Lowest(k, "end") \cup {i}
          /\ Lowest(k + 1, "begin") = Lowest(k, "begin")
      BY <2>7, <2>9
    <3>2. d[k + 1] = d[k] + 1
      BY <2>4, <2>9 DEF Steps
    <3>3. Nr(k + 1, "end") = Nr(k, "end") + 1
          /\ Nr(k + 1, "begin") = Nr(k, "begin")
          /\ IsFiniteSet(Lowest(k + 1, "end"))
          /\ IsFiniteSet(Lowest(k + 1, "begin"))
      BY <2>3, <2>12, <3>1, Zenon
    <3> HIDE DEF Nr
    <3>5. Nr(k, "end") \in Nat /\ Nr(k, "begin") \in Nat
          /\ Nr(k, "end") = d[k] + Nr(k, "begin")
      BY <2>3, <2>12
    <3>4. Nr(k + 1, "end") = d[k + 1] + Nr(k + 1, "begin")
      BY <2>5, <3>2, <3>3, <3>5
    <3> QED
      BY <3>3, <3>4
  <2>10. CASE s[i].kind = "begin"
    <3>1. Lowest(k + 1, "end") = Lowest(k, "end")
          /\ Lowest(k + 1, "begin") = Lowest(k, "begin") \cup {i}
      BY <2>7, <2>10
    <3>2. d[k] = d[k + 1] + 1
      BY <2>4, <2>10 DEF Steps
    <3>3. Nr(k + 1, "end") = Nr(k, "end")
          /\ Nr(k + 1, "begin") = Nr(k, "begin") + 1
          /\ IsFiniteSet(Lowest(k + 1, "end"))
          /\ IsFiniteSet(Lowest(k + 1, "begin"))
      BY <2>3, <2>12, <3>1, Zenon
    <3> HIDE DEF Nr
    <3>5. Nr(k, "end") \in Nat /\ Nr(k, "begin") \in Nat
          /\ Nr(k, "end") = d[k] + Nr(k, "begin")
      BY <2>3, <2>12
    <3>4. Nr(k + 1, "end") = d[k + 1] + Nr(k + 1, "begin")
      BY <2>5, <3>2, <3>3, <3>5
    <3> QED
      BY <3>3, <3>4
  <2>11. CASE s[i].kind # "end" /\ s[i].kind # "begin"
    <3>1. Lowest(k + 1, "end") = Lowest(k, "end")
          /\ Lowest(k + 1, "begin") = Lowest(k, "begin")
      BY <2>7, <2>11
    <3>2. d[k] = d[k + 1]
      BY <2>4, <2>11 DEF Steps
    <3> QED
      BY <2>3, <3>1, <3>2
  <2> QED
    BY <2>9, <2>10, <2>11
<1>5. S = Nat
  <2> HIDE DEF S
  <2>1. S \in SUBSET Nat
    BY DEF S
  <2> QED
    BY <1>3, <1>4, <2>1, Induct
<1>6. Right(Len(s))
  <2> HIDE DEF Right
  <2> QED
    BY <1>2, <1>5
<1>7. Lowest(Len(s), "end") = KindsIn(s, "end")
      /\ Lowest(Len(s), "begin") = KindsIn(s, "begin")
  BY <1>2 DEF KindsIn
<1> HIDE DEF Lowest
<1> QED
  BY <1>1, <1>6, <1>7

-----------------------------------------------------------------------------
\* What may be pushed onto the input.

Has(s, kinds) == \E i \in DOMAIN s : s[i].kind \in kinds

Ejectors == {"ejector", "last"}

Covers(s, t) ==
    /\ t \in Seq(Tokens)
    /\ \A n \in Nat : Nested(s, n) => Nested(t, n)
    /\ Has(s, Ejectors) => Has(t, Ejectors)
    /\ Has(s, {"end"}) => Has(t, {"end"})

LEMMA CoversSame ==
    ASSUME NEW s \in Seq(Tokens)
    PROVE  Covers(s, s)
  BY DEF Covers

LEMMA CoversTransitive ==
    ASSUME NEW s, NEW t, NEW u, Covers(s, t), Covers(t, u)
    PROVE  Covers(s, u)
  BY Zenon DEF Covers

LEMMA HasOnTop ==
    ASSUME NEW it \in Tokens, NEW s \in Seq(Tokens), NEW kinds
    PROVE  /\ Has(s, kinds) => Has(<<it>> \o s, kinds)
           /\ it.kind \in kinds => Has(<<it>> \o s, kinds)
           /\ Has(<<it>> \o s, kinds) => it.kind \in kinds \/ Has(s, kinds)
<1> DEFINE t == <<it>> \o s
<1>1. /\ Len(t) = Len(s) + 1 /\ Len(s) \in Nat
      /\ t[1] = it /\ \A i \in 1..Len(s) : t[i + 1] = s[i]
      /\ DOMAIN s = 1..Len(s) /\ t \in Seq(Tokens)
  BY OnTopOf
<1>2. DOMAIN t = 1..(Len(s) + 1)
  BY <1>1
<1> HIDE DEF t
<1>3. ASSUME Has(s, kinds) PROVE Has(t, kinds)
  <2>1. PICK i \in 1..Len(s) : s[i].kind \in kinds
    BY <1>1, <1>3 DEF Has
  <2>2. i + 1 \in 1..(Len(s) + 1)
    BY <1>1, <2>1
  <2> QED
    BY <1>1, <1>2, <2>1, <2>2 DEF Has
<1>4. it.kind \in kinds => Has(t, kinds)
  BY <1>1, <1>2 DEF Has
<1>5. ASSUME Has(t, kinds) PROVE it.kind \in kinds \/ Has(s, kinds)
  <2>1. PICK i \in 1..(Len(s) + 1) : t[i].kind \in kinds
    BY <1>2, <1>5 DEF Has
  <2>2. CASE i = 1
    BY <1>1, <2>1, <2>2
  <2>3. CASE i # 1
    <3>1. i - 1 \in 1..Len(s) /\ (i - 1) + 1 = i
      BY <1>1, <2>1, <2>3
    <3>2. s[i - 1].kind \in kinds
      BY <1>1, <2>1, <3>1
    <3> QED
      BY <1>1, <3>1, <3>2 DEF Has
  <2> QED
    BY <2>2, <2>3
<1>6. /\ Has(s, kinds) => Has(t, kinds)
      /\ it.kind \in kinds => Has(t, kinds)
      /\ Has(t, kinds) => it.kind \in kinds \/ Has(s, kinds)
  BY <1>3, <1>4, <1>5
<1> QED
  BY <1>6 DEF t

LEMMA CoversOne ==
    ASSUME NEW it \in Tokens, it.kind \notin {"begin", "end"},
           NEW s \in Seq(Tokens)
    PROVE  Covers(s, <<it>> \o s)
<1> DEFINE t == <<it>> \o s
<1>1. t \in Seq(Tokens)
  BY OnTopOf
<1>2. ASSUME NEW n \in Nat, Nested(s, n) PROVE Nested(t, n)
  <2>1. Steps(it, n, n)
    BY DEF Steps
  <2> QED
    BY <1>2, <2>1, NestedPush
<1>3. /\ Has(s, Ejectors) => Has(t, Ejectors)
      /\ Has(s, {"end"}) => Has(t, {"end"})
  BY HasOnTop
<1> HIDE DEF t
<1>4. Covers(s, t)
  BY <1>1, <1>2, <1>3, Zenon DEF Covers
<1> QED
  BY <1>4 DEF t

TrapItems(nm) == <<BeginTrap, Call(nm), EndTrap>>

LEMMA CoversTrap ==
    ASSUME NEW nm \in Macros, NEW s \in Seq(Tokens)
    PROVE  /\ Covers(s, TrapItems(nm) \o s)
           /\ Has(TrapItems(nm) \o s, {"end"})
<1> DEFINE a == <<EndTrap>> \o s
           b == <<Call(nm)>> \o a
           c == <<BeginTrap>> \o b
<1>1. BeginTrap \in Tokens /\ Call(nm) \in Tokens /\ EndTrap \in Tokens
      /\ BeginTrap.kind = "begin" /\ Call(nm).kind = "call"
      /\ EndTrap.kind = "end"
  BY TokensAre
<1>2. a \in Seq(Tokens) /\ b \in Seq(Tokens) /\ c \in Seq(Tokens)
  <2>1. a \in Seq(Tokens)
    BY <1>1, OnTopOf
  <2> HIDE DEF a
  <2>2. b \in Seq(Tokens)
    BY <1>1, <2>1, OnTopOf
  <2> HIDE DEF b
  <2> QED
    BY <1>1, <2>1, <2>2, OnTopOf
<1>3. TrapItems(nm) \o s = c
  <2>1. <<BeginTrap, Call(nm), EndTrap>> \o s = c
    BY <1>1, ThreeItems, SMTT(30)
  <2> QED
    BY <2>1 DEF TrapItems
<1>4. ASSUME NEW n \in Nat, Nested(s, n) PROVE Nested(c, n)
  <2>1. Steps(EndTrap, n, n + 1) /\ Steps(Call(nm), n + 1, n + 1)
        /\ Steps(BeginTrap, n + 1, n) /\ n + 1 \in Nat
    BY <1>1 DEF Steps
  <2>2. Nested(a, n + 1)
    BY <1>1, <1>4, <2>1, NestedPush
  <2> HIDE DEF a
  <2>3. Nested(b, n + 1)
    BY <1>1, <1>2, <2>1, <2>2, NestedPush
  <2> HIDE DEF b
  <2> QED
    BY <1>1, <1>2, <2>1, <2>3, NestedPush
<1>5. ASSUME NEW kinds, Has(s, kinds) \/ "end" \in kinds PROVE Has(c, kinds)
  <2>1. Has(a, kinds)
    BY <1>1, <1>5, HasOnTop
  <2> HIDE DEF a
  <2>2. Has(b, kinds)
    BY <1>1, <1>2, <2>1, HasOnTop
  <2> HIDE DEF b
  <2> QED
    BY <1>1, <1>2, <2>2, HasOnTop
<1> HIDE DEF c
<1>6. Covers(s, c) /\ Has(c, {"end"})
  <2>1. "end" \in {"end"}
    OBVIOUS
  <2> QED
    BY <1>2, <1>4, <1>5, <2>1, Zenon DEF Covers
<1> QED
  BY <1>3, <1>6, Zenon

\* The lines of a macro.
LEMMA CoversLines ==
    ASSUME NEW q \in Seq(InputLines), NEW s \in Seq(Tokens)
    PROVE  /\ [i \in DOMAIN q |-> Line(q[i])] \in Seq(Tokens)
           /\ Covers(s, [i \in DOMAIN q |-> Line(q[i])] \o s)
<1> DEFINE p == [i \in DOMAIN q |-> Line(q[i])]
           t == p \o s
<1>1. Len(q) \in Nat /\ DOMAIN q = 1..Len(q)
      /\ \A i \in 1..Len(q) : q[i] \in InputLines
  OBVIOUS
<1>2. \A i \in 1..Len(q) : Line(q[i]) \in Tokens /\ Line(q[i]).kind = "line"
  BY <1>1, TokensAre
<1>3. p \in Seq(Tokens) /\ Len(p) = Len(q)
      /\ \A i \in 1..Len(p) : p[i].kind = "line"
  BY <1>1, <1>2
<1> HIDE DEF p
<1>4. /\ t \in Seq(Tokens) /\ Len(t) = Len(p) + Len(s)
      /\ \A i \in 1..Len(p) : t[i] = p[i]
      /\ \A i \in 1..Len(s) : t[Len(p) + i] = s[i]
      /\ Len(p) \in Nat /\ Len(s) \in Nat
  <2>1. Len(p) \in Nat /\ Len(s) \in Nat
    BY <1>3
  <2>2. p \in Seq(Tokens)
    BY <1>3
  <2>3. t \in Seq(Tokens) /\ Len(t) = Len(p) + Len(s)
    BY <2>2
  <2>4. \A i \in 1..Len(p) : t[i] = p[i]
    BY <2>2
  <2>5. \A i \in 1..Len(s) : t[Len(p) + i] = s[i]
    BY <2>2
  <2> QED
    BY <2>1, <2>3, <2>4, <2>5
<1> HIDE DEF t
<1>5. ASSUME NEW n \in Nat, Nested(s, n) PROVE Nested(t, n)
  <2>1. PICK d : Climbs(s, d) /\ d[Len(s)] = n
    BY <1>5 DEF Nested
  <2>2. d \in [0..Len(s) -> Nat] /\ d[0] = 0
    BY <2>1 DEF Climbs
  <2> DEFINE e == [k \in 0..Len(t) |-> IF k <= Len(s) THEN d[k] ELSE n]
  <2>3. e \in [0..Len(t) -> Nat] /\ e[0] = 0 /\ e[Len(t)] = n
    BY <1>4, <2>1, <2>2
  <2>4. ASSUME NEW k \in 1..Len(t)
        PROVE  Steps(t[(Len(t) + 1) - k], e[k - 1], e[k])
    <3>1. CASE k <= Len(s)
      <4>1. k \in 1..Len(s) /\ (Len(s) + 1) - k \in 1..Len(s)
            /\ (Len(t) + 1) - k = Len(p) + ((Len(s) + 1) - k)
        BY <3>1, <1>4
      <4>2. e[k] = d[k] /\ e[k - 1] = d[k - 1]
        BY <4>1, <1>4
      <4> HIDE DEF e
      <4>3. t[(Len(t) + 1) - k] = s[(Len(s) + 1) - k]
        BY <1>4, <4>1
      <4>4. Steps(s[(Len(s) + 1) - k], d[k - 1], d[k])
        BY <2>1, <4>1 DEF Climbs
      <4> QED
        BY <4>2, <4>3, <4>4
    <3>2. CASE ~(k <= Len(s))
      <4>1. (Len(t) + 1) - k \in 1..Len(p)
        BY <3>2, <1>4
      <4>2. e[k] = n /\ e[k - 1] = n
        BY <3>2, <1>4, <2>1
      <4> HIDE DEF e
      <4>3. t[(Len(t) + 1) - k].kind = "line"
        BY <1>3, <1>4, <4>1
      <4> QED
        BY <4>2, <4>3 DEF Steps
    <3> QED
      BY <3>1, <3>2
  <2> HIDE DEF e
  <2>5. Climbs(t, e)
    BY <2>3, <2>4 DEF Climbs
  <2> QED
    BY <2>3, <2>5 DEF Nested
<1>6. ASSUME NEW kinds, Has(s, kinds) PROVE Has(t, kinds)
  <2>1. PICK i \in DOMAIN s : s[i].kind \in kinds
    BY <1>6 DEF Has
  <2>2. i \in 1..Len(s) /\ Len(p) + i \in 1..Len(t) /\ DOMAIN t = 1..Len(t)
    BY <1>4, <2>1
  <2>3. t[Len(p) + i].kind \in kinds
    BY <1>4, <2>1, <2>2
  <2> QED
    BY <2>2, <2>3 DEF Has
<1>7. Covers(s, t)
  BY <1>4, <1>5, <1>6, Zenon DEF Covers
<1> QED
  BY <1>3, <1>7 DEF p, t

-----------------------------------------------------------------------------
\* What an operation of the formatter leaves as it was.

\* What may be on the input before the first page.
Harmless ==
    {it \in Tokens :
        /\ it # Line("'sp")
        /\ it.kind = "call" =>
              \A i \in DOMAIN body[it.nm] : body[it.nm][i] # "'sp"}

\* The end of a trap is still to come.
Awaits(g) == Has(g.input, {"end"}) \/ g.postponed # NoMacro

Stays(g, h) ==
    /\ h.phase = g.phase /\ h.depth = g.depth /\ h.exiting = g.exiting
    /\ h.eoiFinished = g.eoiFinished /\ h.postponing = g.postponing
    /\ ~g.postponing => h.postponed = g.postponed
    /\ g.postponed # NoMacro => h.postponed # NoMacro
    /\ Running(h) => Running(g)
    /\ h.before = 1 => g.before = 1
    /\ h.traps = g.traps

Keeps(g, h) ==
    /\ h \in FS
    /\ Stays(g, h)
    /\ Covers(g.input, h.input)
    /\ h.ejecting => g.ejecting \/ Has(h.input, Ejectors)
    /\ h.sprung => g.sprung \/ Awaits(h)
    /\ h.before = 1 /\ g.input \in Seq(Harmless) => h.input \in Seq(Harmless)

\* And one that has nothing to do with the text, but for the end of it.
SameText(g, h) ==
    /\ h.line = g.line /\ h.pending = g.pending
    /\ h.filling = g.filling /\ h.collected = g.collected

Ends(g, h) ==
    h.status = "done" =>
        g.status = "done" \/ (g.exiting /\ (NoText(g) \/ g.eoiFinished))

OnPage(g) == Running(g) => g.vpos < PageLength

Turns(g, h) ==
    /\ Keeps(g, h) /\ SameText(g, h) /\ Ends(g, h) /\ h.written = g.written
    /\ OnPage(g) => OnPage(h)

LEMMA KeepsSame ==
    ASSUME NEW g \in FS
    PROVE  Turns(g, g)
<1>1. g.input \in Seq(Tokens)
  BY DEF FS
<1> QED
  BY <1>1, CoversSame, Zenon DEF Turns, Keeps, Stays, SameText, Ends

LEMMA KeepsTransitive ==
    ASSUME NEW a, NEW b, NEW c, Keeps(a, b), Keeps(b, c)
    PROVE  Keeps(a, c)
<1>1. Covers(a.input, c.input)
  BY CoversTransitive, Zenon DEF Keeps
<1>2. Stays(a, c)
  BY Zenon DEF Keeps, Stays
<1>3. c.ejecting => a.ejecting \/ Has(c.input, Ejectors)
  BY Zenon DEF Keeps, Covers
<1>4. c.sprung => a.sprung \/ Awaits(c)
  BY Zenon DEF Keeps, Covers, Awaits, Stays
<1>5. c.before = 1 /\ a.input \in Seq(Harmless) => c.input \in Seq(Harmless)
  BY Zenon DEF Keeps, Stays
<1> QED
  BY <1>1, <1>2, <1>3, <1>4, <1>5 DEF Keeps

LEMMA TurnsTransitive ==
    ASSUME NEW a, NEW b, NEW c, Turns(a, b), Turns(b, c)
    PROVE  Turns(a, c)
<1>1. Keeps(a, c)
  BY KeepsTransitive DEF Turns
<1>2. Ends(a, c)
  BY Zenon DEF Turns, Ends, SameText, Keeps, Stays, NoText
<1> QED
  BY <1>1, <1>2, Zenon DEF Turns, SameText

-----------------------------------------------------------------------------
\* The page.

\* Fields that neither the input nor the text depends on.
LEMMA PushInputIs ==
    ASSUME NEW g \in FS, NEW items, items \o g.input \in Seq(Tokens)
    PROVE  /\ PushInput(g, items) \in FS
           /\ PushInput(g, items).input = items \o g.input
           /\ SameText(g, PushInput(g, items))
           /\ PushInput(g, items).written = g.written
           /\ PushInput(g, items).status = g.status
           /\ PushInput(g, items).ejecting = g.ejecting
           /\ PushInput(g, items).sprung = g.sprung
           /\ PushInput(g, items).before = g.before
           /\ PushInput(g, items).vpos = g.vpos
           /\ Stays(g, PushInput(g, items))
<1> DEFINE h == PushInput(g, items)
<1>1. h \in FS
  BY ZenonT(30) DEF PushInput, FS
<1>2. /\ h.input = items \o g.input
      /\ h.line = g.line /\ h.pending = g.pending
      /\ h.filling = g.filling /\ h.collected = g.collected
      /\ h.written = g.written /\ h.status = g.status
      /\ h.ejecting = g.ejecting /\ h.sprung = g.sprung
      /\ h.vpos = g.vpos /\ h.before = g.before /\ h.phase = g.phase /\ h.depth = g.depth
      /\ h.exiting = g.exiting /\ h.eoiFinished = g.eoiFinished
      /\ h.postponing = g.postponing /\ h.postponed = g.postponed
      /\ h.traps = g.traps
  BY DEF PushInput, FS
<1> HIDE DEF h
<1>3. Stays(g, h) /\ SameText(g, h)
  BY <1>2, Zenon DEF Stays, SameText, Running
<1> QED
  BY <1>1, <1>2, <1>3 DEF h

\* Items on top that may be there before the first page too.
LEMMA PushInputTurns ==
    ASSUME NEW g \in FS, NEW items, Covers(g.input, items \o g.input),
           g.before = 1 /\ g.input \in Seq(Harmless) =>
              items \o g.input \in Seq(Harmless)
    PROVE  Turns(g, PushInput(g, items))
<1> DEFINE h == PushInput(g, items)
<1>1. items \o g.input \in Seq(Tokens)
  BY DEF Covers
<1>2. /\ h \in FS /\ h.input = items \o g.input /\ SameText(g, h)
      /\ h.written = g.written /\ h.status = g.status
      /\ h.ejecting = g.ejecting /\ h.sprung = g.sprung
      /\ h.before = g.before /\ h.vpos = g.vpos /\ Stays(g, h)
  BY <1>1, PushInputIs
<1> HIDE DEF h
<1>3. Keeps(g, h)
  BY <1>2, Zenon DEF Keeps
<1> QED
  BY <1>2, <1>3, Zenon DEF Turns, Ends, OnPage, Running, h

LEMMA OneHarmless ==
    ASSUME NEW it \in Tokens, it # Line("'sp"), it.kind # "call"
    PROVE  it \in Harmless
  BY DEF Harmless

LEMMA HarmlessOnTop ==
    ASSUME NEW it \in Harmless, NEW s \in Seq(Harmless)
    PROVE  <<it>> \o s \in Seq(Harmless)
  OBVIOUS

LEMMA PushOneTurns ==
    ASSUME NEW g \in FS, NEW it \in Tokens, it # Line("'sp"),
           it.kind \in {"ejector", "last", "line"}
    PROVE  /\ Turns(g, PushInput(g, <<it>>))
           /\ PushInput(g, <<it>>).status = g.status
           /\ it.kind \in Ejectors => Has(PushInput(g, <<it>>).input, Ejectors)
<1>1. g.input \in Seq(Tokens) /\ it.kind \notin {"begin", "end"}
      /\ it.kind # "call"
  BY DEF FS
<1>2. it \in Harmless
  BY <1>1, OneHarmless
<1>3. Covers(g.input, <<it>> \o g.input) /\ <<it>> \o g.input \in Seq(Tokens)
  BY <1>1, CoversOne DEF Covers
<1>4. g.input \in Seq(Harmless) => <<it>> \o g.input \in Seq(Harmless)
  BY <1>2, HarmlessOnTop
<1>5. Turns(g, PushInput(g, <<it>>))
  BY <1>3, <1>4, PushInputTurns
<1>6. /\ PushInput(g, <<it>>).status = g.status
      /\ PushInput(g, <<it>>).input = <<it>> \o g.input
  BY <1>3, PushInputIs
<1>7. it.kind \in Ejectors => Has(<<it>> \o g.input, Ejectors)
  BY <1>1, HasOnTop
<1> QED
  BY <1>5, <1>6, <1>7, Zenon

LEMMA PushPageEjectorTurns ==
    ASSUME NEW g \in FS
    PROVE  /\ Turns(g, PushPageEjector(g))
           /\ PushPageEjector(g).status = g.status
           /\ Running(g) => Has(PushPageEjector(g).input, Ejectors)
<1>1. PageEjector \in Tokens /\ PageEjector.kind = "ejector"
      /\ PageEjector # Line("'sp") /\ PageEjector.kind \in Ejectors
  BY DEF Tokens, PageEjector, Item, Line, Ejectors
<1>2. /\ Turns(g, PushInput(g, <<PageEjector>>))
      /\ PushInput(g, <<PageEjector>>).status = g.status
      /\ Has(PushInput(g, <<PageEjector>>).input, Ejectors)
  BY <1>1, PushOneTurns
<1> QED
  BY <1>2, KeepsSame DEF PushPageEjector

\* A trap is sprung on a page, never before it.
LEMMA SpringTrapTurns ==
    ASSUME NEW g \in FS, NEW nm \in Macros, g.before # 1
    PROVE  /\ Turns(g, SpringTrap(g, nm))
           /\ SpringTrap(g, nm).status = g.status
           /\ SpringTrap(g, nm).vpos = g.vpos
<1> DEFINE h == [g EXCEPT !.sprung = TRUE]
           p == [h EXCEPT !.postponed = nm]
           i == PushInput(h, TrapItems(nm))
<1>0. NoMacro \notin Macros /\ g.input \in Seq(Tokens)
  BY Parameters DEF FS
<1>1. h \in FS /\ p \in FS
  BY ZenonT(30) DEF FS
<1>2. /\ h.input = g.input /\ p.input = g.input
      /\ h.line = g.line /\ h.pending = g.pending
      /\ h.filling = g.filling /\ h.collected = g.collected
      /\ p.line = g.line /\ p.pending = g.pending
      /\ p.filling = g.filling /\ p.collected = g.collected
      /\ h.written = g.written /\ p.written = g.written
      /\ h.status = g.status /\ p.status = g.status
      /\ h.vpos = g.vpos /\ p.vpos = g.vpos
      /\ h.ejecting = g.ejecting /\ p.ejecting = g.ejecting
      /\ h.before = g.before /\ p.before = g.before
  BY DEF FS
<1>3. /\ h.phase = g.phase /\ h.depth = g.depth
      /\ h.exiting = g.exiting /\ h.eoiFinished = g.eoiFinished
      /\ h.postponing = g.postponing /\ h.postponed = g.postponed
      /\ h.traps = g.traps
      /\ p.phase = g.phase /\ p.depth = g.depth
      /\ p.exiting = g.exiting /\ p.eoiFinished = g.eoiFinished
      /\ p.postponing = g.postponing /\ p.postponed = nm
      /\ p.traps = g.traps
  BY DEF FS
<1>4. Covers(g.input, TrapItems(nm) \o g.input)
      /\ Has(TrapItems(nm) \o g.input, {"end"})
      /\ TrapItems(nm) \o g.input \in Seq(Tokens)
  BY <1>0, CoversTrap DEF Covers
<1>5. SpringTrap(g, nm) = IF g.postponing THEN p ELSE i
  BY Zenon DEF SpringTrap, TrapItems
<1>6. CASE g.postponing
  <2> HIDE DEF p, h
  <2>1. Stays(g, p) /\ SameText(g, p)
    BY <1>0, <1>2, <1>3, <1>6, Zenon DEF Stays, SameText, Running
  <2>2. Awaits(p) /\ Covers(g.input, p.input)
    BY <1>0, <1>2, <1>3, CoversSame DEF Awaits
  <2>3. Keeps(g, p)
    BY <1>1, <1>2, <2>1, <2>2, Zenon DEF Keeps
  <2> QED
    BY <1>2, <1>5, <1>6, <2>1, <2>3, Zenon DEF Turns, Ends, OnPage, Running
<1>7. CASE ~g.postponing
  <2> HIDE DEF p, h
  <2>8. h.input = g.input /\ h.vpos = g.vpos
    BY <1>2, Zenon
  <2>6. TrapItems(nm) \o h.input \in Seq(Tokens)
    BY <1>4, <2>8, Zenon
  <2>7. /\ i \in FS /\ i.input = TrapItems(nm) \o h.input /\ SameText(h, i)
        /\ i.written = h.written /\ i.status = h.status /\ i.vpos = h.vpos
        /\ i.ejecting = h.ejecting /\ i.before = h.before /\ Stays(h, i)
    BY <1>1, <2>6, PushInputIs
  <2>1. /\ i \in FS /\ i.input = TrapItems(nm) \o g.input /\ SameText(h, i)
        /\ i.written = h.written /\ i.status = h.status
        /\ i.ejecting = h.ejecting /\ i.before = h.before /\ Stays(h, i)
    BY <2>8, <2>7, Zenon
  <2>2. i.vpos = g.vpos
    BY <2>8, <2>7, Zenon
  <2> HIDE DEF i
  <2>3. Stays(g, i) /\ SameText(g, i)
    BY <1>2, <1>3, <1>7, <2>1, ZenonT(30) DEF Stays, SameText, Running
  <2>4. Awaits(i) /\ Covers(g.input, i.input)
    BY <1>4, <2>1, Zenon DEF Awaits
  <2>5. Keeps(g, i)
    BY <1>2, <2>1, <2>3, <2>4, Zenon DEF Keeps
  <2> QED
    BY <1>2, <1>5, <1>7, <2>1, <2>2, <2>3, <2>5, Zenon DEF Turns, Ends, OnPage, Running
<1> QED
  BY <1>6, <1>7

\* FirstOf picks the least index of a set of indices, and 0 from none.
LEMMA FirstOfLeast ==
    ASSUME NEW n \in Nat, NEW I \in SUBSET (1..n)
    PROVE  FirstOf(I) = 0 \/ FirstOf(I) \in I
<1>1. CASE I = {}
  BY <1>1 DEF FirstOf
<1>2. CASE I # {}
  <2>1. \E x \in I : \A y \in I : x <= y
    BY <1>2, Least, I \in SUBSET Nat
  <2> QED
    BY <1>2, <2>1 DEF FirstOf
<1> QED
  BY <1>1, <1>2

\* The trap that find_next_trap returns names a macro and is ahead of the
\* drawing position, on the page.
LEMMA NextTrapIs ==
    ASSUME NEW s \in Seq(Slots), NEW vpos \in Int,
           NextTrap(s, vpos, PageLength) # 0
    PROVE  LET t == s[NextTrap(s, vpos, PageLength)]
           IN  /\ t.nm \in Macros
               /\ Location(t, PageLength) \in Int
               /\ vpos < Location(t, PageLength)
               /\ Location(t, PageLength) < PageLength
<1> DEFINE A == Ahead(s, vpos, PageLength)
           I == {i \in A : \A j \in A : Location(s[i], PageLength)
                                          <= Location(s[j], PageLength)}
           n == NextTrap(s, vpos, PageLength)
<1>1. Len(s) \in Nat /\ I \in SUBSET (1..Len(s)) /\ DOMAIN s = 1..Len(s)
  BY DEF Ahead, Live
<1>2. n = FirstOf(I)
  BY DEF NextTrap
<1>3. n \in A
  <2> HIDE DEF I, A
  <2>1. n \in I
    BY <1>1, <1>2, FirstOfLeast
  <2> QED
    BY <2>1 DEF I
<1> HIDE DEF n
<1>4. /\ n \in DOMAIN s /\ s[n].nm # NoMacro
      /\ Location(s[n], PageLength) > vpos
      /\ IF s[n].position >= 0 THEN s[n].position < PageLength
         ELSE Location(s[n], PageLength) > 0
  BY <1>3 DEF Ahead, Live
<1>5. s[n] \in Slots
  BY <1>4
<1>6. s[n].nm \in Macros /\ s[n].position \in Int
  BY <1>4, <1>5 DEF Slots
<1>7. PageLength \in Nat
  BY Parameters
<1> QED
  BY <1>4, <1>6, <1>7 DEF Location, n

\* The trap that a line or a space may reach.
Reachable(g, t) ==
    t # 0 => /\ g.traps[t].nm \in Macros
             /\ Location(g.traps[t], g.length) \in Nat
             /\ Location(g.traps[t], g.length) < PageLength

LEMMA TrapAheadIs ==
    ASSUME NEW g \in FS
    PROVE  Reachable(g, TrapAhead(g))
<1>1. g.traps \in Seq(Slots) /\ g.vpos \in Nat /\ g.vpos \in Int
      /\ g.length = PageLength
  BY DEF FS
<1>2. ASSUME TrapAhead(g) # 0 PROVE Reachable(g, TrapAhead(g))
  <2>1. TrapAhead(g) = NextTrap(g.traps, g.vpos, PageLength)
    BY <1>1 DEF TrapAhead
  <2> DEFINE t == g.traps[TrapAhead(g)]
  <2>2. /\ t.nm \in Macros
        /\ Location(t, PageLength) \in Int
        /\ g.vpos < Location(t, PageLength)
        /\ Location(t, PageLength) < PageLength
    BY <1>1, <1>2, <2>1, NextTrapIs, Zenon
  <2> HIDE DEF t
  <2>3. Location(t, PageLength) \in Nat
    BY <1>1, <2>2
  <2> QED
    BY <1>1, <2>2, <2>3 DEF Reachable, t
<1> QED
  BY <1>2 DEF Reachable

LEMMA TopTrapIs ==
    ASSUME NEW g \in FS
    PROVE  TopTrap(g) \in Macros \cup {NoMacro}
<1>1. g.traps \in Seq(Slots) /\ -1 \in Int /\ g.length = PageLength
  BY DEF FS
<1>2. NextTrap(g.traps, -1, PageLength) # 0 =>
        g.traps[NextTrap(g.traps, -1, PageLength)].nm \in Macros
  BY <1>1, NextTrapIs, Zenon
<1> QED
  BY <1>1, <1>2, Zenon DEF TopTrap

Begun(g) ==
    [g EXCEPT !.beganInEoi = @ \/ (g.exiting /\ ~g.eoiFinished),
              !.count = @ + 1,
              !.number = IF g.next # NoNumber THEN g.next
                         ELSE IF g.before = 1 THEN 1 ELSE @ + 1,
              !.next = NoNumber, !.vpos = 0, !.nl = 0,
              !.ejecting = FALSE, !.before = 0]

LEMMA BegunTurns ==
    ASSUME NEW g \in FS
    PROVE  /\ Turns(g, Begun(g))
           /\ Begun(g).status = g.status
           /\ Begun(g).before # 1 /\ Begun(g).vpos = 0
           /\ ~Begun(g).ejecting
<1> DEFINE h == Begun(g)
<1>1. (g.beganInEoi \/ (g.exiting /\ ~g.eoiFinished)) \in BOOLEAN
  OBVIOUS
<1>2. g.count + 1 \in Nat
  BY SMTT(30) DEF FS
<1>3. (IF g.next # NoNumber THEN g.next
       ELSE IF g.before = 1 THEN 1 ELSE g.number + 1) \in Int
  BY SMTT(30) DEF FS
<1>4. 0 \in Nat /\ 0 \in 0..1 /\ 0 \in -1..(PageLength - 1)
  BY Parameters
<1>5. h \in FS
  <2> DEFINE b == g.beganInEoi \/ (g.exiting /\ ~g.eoiFinished)
             n == IF g.next # NoNumber THEN g.next
                  ELSE IF g.before = 1 THEN 1 ELSE g.number + 1
             c == g.count + 1
             h1 == [[[g EXCEPT !.beganInEoi = b] EXCEPT !.count = c]
                      EXCEPT !.number = n]
             h2 == [[[h1 EXCEPT !.next = NoNumber] EXCEPT !.vpos = 0]
                      EXCEPT !.nl = 0]
             h3 == [[h2 EXCEPT !.ejecting = FALSE] EXCEPT !.before = 0]
  <2>1. h = h3
    BY Zenon DEF Begun
  <2>2. b \in BOOLEAN /\ c \in Nat /\ n \in Int
    BY <1>1, <1>2, <1>3
  <2> HIDE DEF h, b, c, n
  <2>3. h1 \in FS
    BY <2>2, ZenonT(30) DEF FS
  <2> HIDE DEF h1
  <2>4. h2 \in FS
    <3>1. NoNumber \in {NoNumber}
      OBVIOUS
    <3> QED
      BY <1>4, <2>3, <3>1, ZenonT(30) DEF FS
  <2> HIDE DEF h2
  <2>5. h3 \in FS
    <3>1. FALSE \in BOOLEAN
      OBVIOUS
    <3> QED
      BY <1>4, <2>4, <3>1, ZenonT(30) DEF FS
  <2> HIDE DEF h3
  <2> QED
    BY <2>1, <2>5, Zenon
<1>6. /\ h.input = g.input /\ h.line = g.line /\ h.pending = g.pending
      /\ h.filling = g.filling /\ h.collected = g.collected
      /\ h.written = g.written /\ h.status = g.status
      /\ h.sprung = g.sprung
      /\ h.phase = g.phase /\ h.depth = g.depth
      /\ h.exiting = g.exiting /\ h.eoiFinished = g.eoiFinished
      /\ h.postponing = g.postponing /\ h.postponed = g.postponed
      /\ h.traps = g.traps
  BY DEF Begun, FS
<1>7. h.before = 0 /\ h.vpos = 0 /\ h.ejecting = FALSE
  BY DEF Begun, FS
<1>8. g.input \in Seq(Tokens) /\ 0 # 1
  BY DEF FS
<1> HIDE DEF h
<1>9. Stays(g, h) /\ SameText(g, h)
  BY <1>6, <1>7 DEF Stays, SameText, Running
<1>10. Covers(g.input, h.input)
  BY <1>6, <1>8, CoversSame
<1>11. Keeps(g, h)
  BY <1>5, <1>6, <1>7, <1>8, <1>9, <1>10, Zenon DEF Keeps
<1>12. Turns(g, h)
  <2>1. 0 < PageLength
    BY Parameters
  <2> QED
    BY <1>6, <1>7, <1>9, <1>11, <2>1, Zenon DEF Turns, Ends, OnPage, Running
<1> QED
  BY <1>6, <1>7, <1>8, <1>12, Zenon DEF h

\* The process may end where a page would begin, and then the text is written
\* or nothing is owed.
LEMMA LastPageIs ==
    ASSUME NEW g \in FS, LastPageDone(g)
    PROVE  g.exiting /\ (NoText(g) \/ g.eoiFinished)
<1>1. ~(0 > 0)
  OBVIOUS
<1> QED
  BY <1>1, Zenon DEF LastPageDone

LEMMA EndedTurns ==
    ASSUME NEW g \in FS, NEW status \in {"done", "fatal"}, Running(g),
           status = "done" => g.exiting /\ (NoText(g) \/ g.eoiFinished)
    PROVE  Turns(g, [g EXCEPT !.status = status])
           /\ ~Running([g EXCEPT !.status = status])
<1> DEFINE h == [g EXCEPT !.status = status]
<1>1. h \in FS
  BY ZenonT(30) DEF FS
<1>2. /\ h.input = g.input /\ h.line = g.line /\ h.pending = g.pending
      /\ h.filling = g.filling /\ h.collected = g.collected
      /\ h.written = g.written /\ h.status = status
      /\ h.sprung = g.sprung /\ h.ejecting = g.ejecting
      /\ h.phase = g.phase /\ h.depth = g.depth /\ h.before = g.before
      /\ h.exiting = g.exiting /\ h.eoiFinished = g.eoiFinished
      /\ h.postponing = g.postponing /\ h.postponed = g.postponed
      /\ h.traps = g.traps
  BY DEF FS
<1>3. g.input \in Seq(Tokens)
  BY DEF FS
<1> HIDE DEF h
<1>4. Stays(g, h) /\ SameText(g, h) /\ ~Running(h)
  BY <1>2 DEF Stays, SameText, Running
<1>5. Covers(g.input, h.input)
  BY <1>2, <1>3, CoversSame
<1>6. Keeps(g, h)
  BY <1>1, <1>2, <1>4, <1>5, Zenon DEF Keeps
<1>7. Turns(g, h) /\ ~Running(h)
  BY <1>2, <1>4, <1>6, Zenon DEF Turns, Ends, OnPage, Running
<1> QED
  BY <1>7 DEF h

LEMMA BeginPageTurns ==
    ASSUME NEW g \in FS
    PROVE  /\ Turns(g, BeginPage(g))
           /\ Running(BeginPage(g)) =>
                 BeginPage(g).before # 1 /\ BeginPage(g).vpos = 0
<1>1. CASE ~Running(g)
  BY <1>1, KeepsSame DEF BeginPage
<1>2. CASE Running(g) /\ LastPageDone(g)
  <2>1. BeginPage(g) = [g EXCEPT !.status = "done"]
    BY <1>2 DEF BeginPage
  <2>2. g.exiting /\ (NoText(g) \/ g.eoiFinished)
    BY <1>2, LastPageIs
  <2> QED
    BY <1>2, <2>1, <2>2, EndedTurns
<1>3. CASE Running(g) /\ ~LastPageDone(g)
  <2>1. BeginPage(g) = IF TopTrap(g) = NoMacro THEN Begun(g)
                       ELSE SpringTrap(Begun(g), TopTrap(g))
    BY <1>3, Zenon DEF BeginPage, Begun
  <2>2. /\ Turns(g, Begun(g)) /\ Begun(g) \in FS
        /\ Begun(g).before # 1 /\ Begun(g).vpos = 0
    BY BegunTurns DEF Turns, Keeps
  <2>3. CASE TopTrap(g) = NoMacro
    BY <2>1, <2>2, <2>3, Zenon
  <2>4. CASE TopTrap(g) # NoMacro
    <3> DEFINE h == SpringTrap(Begun(g), TopTrap(g))
    <3>1. TopTrap(g) \in Macros
      BY <2>4, TopTrapIs
    <3>2. Turns(Begun(g), h) /\ h.vpos = 0
      BY <2>2, <3>1, SpringTrapTurns
    <3> HIDE DEF h
    <3>3. h.before # 1
      BY <2>2, <3>2, Zenon DEF Turns, Keeps, Stays
    <3>4. Turns(g, h)
      BY <2>2, <3>2, TurnsTransitive, Zenon
    <3> QED
      BY <2>1, <2>4, <3>2, <3>3, <3>4, Zenon DEF h
  <2> QED
    BY <2>3, <2>4
<1> QED
  BY <1>1, <1>2, <1>3

\* A move to a place on the page.
LEMMA MoveToTurns ==
    ASSUME NEW g \in FS, NEW y \in Nat, y < PageLength
    PROVE  Turns(g, MoveTo(g, y)) /\ MoveTo(g, y).status = g.status
           /\ MoveTo(g, y).before = g.before
<1> DEFINE h == MoveTo(g, y)
<1>1. y \in -1..(PageLength - 1)
  BY Parameters
<1>2. h \in FS
  BY <1>1, ZenonT(30) DEF MoveTo, FS
<1>3. /\ h.input = g.input /\ h.line = g.line /\ h.pending = g.pending
      /\ h.filling = g.filling /\ h.collected = g.collected
      /\ h.written = g.written /\ h.status = g.status
      /\ h.sprung = g.sprung /\ h.ejecting = g.ejecting
      /\ h.phase = g.phase /\ h.depth = g.depth /\ h.before = g.before
      /\ h.exiting = g.exiting /\ h.eoiFinished = g.eoiFinished
      /\ h.postponing = g.postponing /\ h.postponed = g.postponed
      /\ h.traps = g.traps /\ h.vpos = y
  BY DEF MoveTo, FS
<1>4. g.input \in Seq(Tokens)
  BY DEF FS
<1> HIDE DEF h
<1>5. Stays(g, h) /\ SameText(g, h)
  BY <1>3, Zenon DEF Stays, SameText, Running
<1>6. Covers(g.input, h.input)
  BY <1>3, <1>4, CoversSame
<1>7. Keeps(g, h)
  BY <1>2, <1>3, <1>5, <1>6, Zenon DEF Keeps
<1>8. Turns(g, h)
  BY <1>3, <1>5, <1>7, Zenon DEF Turns, Ends, OnPage, Running
<1> QED
  BY <1>3, <1>8 DEF h

\* A move to a trap, which springs.
LEMMA SpringAtTurns ==
    ASSUME NEW g \in FS, NEW y \in Nat, y < PageLength, NEW nm \in Macros,
           g.before # 1
    PROVE  Turns(g, SpringTrap(MoveTo(g, y), nm))
<1> DEFINE h == MoveTo(g, y)
<1>1. Turns(g, h) /\ h.before # 1
  BY MoveToTurns
<1>2. h \in FS
  BY <1>1 DEF Turns, Keeps
<1> HIDE DEF h
<1>3. Turns(h, SpringTrap(h, nm))
  BY <1>1, <1>2, SpringTrapTurns
<1>4. Turns(g, SpringTrap(h, nm))
  BY <1>1, <1>3, TurnsTransitive
<1> QED
  BY <1>4 DEF h

LEMMA NoSpaceTurns ==
    ASSUME NEW g \in FS, NEW b \in BOOLEAN
    PROVE  Turns(g, [g EXCEPT !.noSpace = b])
           /\ [g EXCEPT !.noSpace = b].before = g.before
           /\ [g EXCEPT !.noSpace = b].status = g.status
           /\ [g EXCEPT !.noSpace = b].traps = g.traps
<1> DEFINE h == [g EXCEPT !.noSpace = b]
<1>1. h \in FS
  BY ZenonT(30) DEF FS
<1>2. /\ h.input = g.input /\ h.line = g.line /\ h.pending = g.pending
      /\ h.filling = g.filling /\ h.collected = g.collected
      /\ h.written = g.written /\ h.status = g.status
      /\ h.sprung = g.sprung /\ h.ejecting = g.ejecting
      /\ h.phase = g.phase /\ h.depth = g.depth /\ h.before = g.before
      /\ h.exiting = g.exiting /\ h.eoiFinished = g.eoiFinished
      /\ h.postponing = g.postponing /\ h.postponed = g.postponed
      /\ h.traps = g.traps /\ h.vpos = g.vpos
  BY DEF FS
<1>3. g.input \in Seq(Tokens)
  BY DEF FS
<1> HIDE DEF h
<1>4. Stays(g, h) /\ SameText(g, h)
  BY <1>2, Zenon DEF Stays, SameText, Running
<1>5. Covers(g.input, h.input)
  BY <1>2, <1>3, CoversSame
<1>6. Keeps(g, h)
  BY <1>1, <1>2, <1>4, <1>5, Zenon DEF Keeps
<1>7. Turns(g, h)
  BY <1>2, <1>4, <1>6, Zenon DEF Turns, Ends, OnPage, Running
<1> QED
  BY <1>2, <1>7 DEF h

LEMMA BeforeIs ==
    ASSUME NEW g \in FS
    PROVE  (g.before > 0 <=> g.before = 1) /\ g.length = PageLength
           /\ g.honor /\ g.vpos \in Nat
<1>1. (g.before > 0 <=> g.before = 1) /\ g.length = PageLength /\ g.vpos \in Nat
  BY SMTT(30) DEF FS
<1>2. g.honor
  BY Zenon DEF FS
<1> QED
  BY <1>1, <1>2

LEMMA SpaceTurns ==
    ASSUME NEW g \in FS, NEW n \in Nat, NEW forcing \in BOOLEAN
    PROVE  Turns(g, Space(g, n, forcing))
<1> DEFINE h == [g EXCEPT !.noSpace = FALSE]
           y == h.vpos + n
           t == TrapAhead(h)
<1>1. Turns(g, h)
  BY NoSpaceTurns
<1>2. h \in FS
  BY <1>1 DEF Turns, Keeps
<1> HIDE DEF h
<1>3. Space(g, n, forcing) =
        IF ~Running(g) \/ (g.noSpace /\ ~forcing) THEN g
        ELSE IF h.before > 0 THEN BeginPage(h)
        ELSE IF Reaches(h, t, y)
             THEN SpringTrap(MoveTo(h, Location(h.traps[t], h.length)),
                             h.traps[t].nm)
        ELSE IF y < 0 THEN MoveTo(h, 0)
        ELSE IF AtBottom(h, y) /\ n >= 0 THEN BeginPage(h)
        ELSE MoveTo(h, y)
  BY Zenon DEF Space, h
<1>4. (h.before > 0 <=> h.before = 1) /\ h.length = PageLength
      /\ h.honor /\ h.vpos \in Nat
  BY <1>2, BeforeIs
<1>5. y \in Nat /\ ~(y < 0) /\ n >= 0
  BY <1>4
<1> HIDE DEF y
<1>6. CASE ~Running(g) \/ (g.noSpace /\ ~forcing)
  BY <1>3, <1>6, KeepsSame
<1>7. CASE Running(g) /\ ~(g.noSpace /\ ~forcing)
  <2>1. Turns(h, BeginPage(h))
    BY <1>2, BeginPageTurns
  <2>2. CASE h.before > 0 \/ (~Reaches(h, t, y) /\ AtBottom(h, y))
    <3>1. Space(g, n, forcing) = BeginPage(h)
      BY <1>3, <1>5, <1>7, <2>2, Zenon
    <3> QED
      BY <1>1, <2>1, <3>1, TurnsTransitive, Zenon
  <2>3. CASE ~(h.before > 0) /\ Reaches(h, t, y)
    <3> DEFINE v == Location(h.traps[t], h.length)
    <3>1. Space(g, n, forcing) = SpringTrap(MoveTo(h, v), h.traps[t].nm)
      BY <1>3, <1>7, <2>3, Zenon
    <3>2. h.traps[t].nm \in Macros /\ v \in Nat /\ v < PageLength
      BY <1>2, <2>3, TrapAheadIs, Zenon DEF Reaches, Reachable
    <3> HIDE DEF v
    <3>3. Turns(h, SpringTrap(MoveTo(h, v), h.traps[t].nm))
      BY <1>2, <1>4, <2>3, <3>2, SpringAtTurns, Zenon
    <3> QED
      BY <1>1, <3>1, <3>3, TurnsTransitive, Zenon
  <2>4. CASE ~(h.before > 0) /\ ~Reaches(h, t, y) /\ ~AtBottom(h, y)
    <3>1. Space(g, n, forcing) = MoveTo(h, y)
      BY <1>3, <1>5, <1>7, <2>4, Zenon
    <3>2. y < PageLength
      BY <1>4, <1>5, <2>4, Parameters DEF AtBottom
    <3>3. Turns(h, MoveTo(h, y))
      BY <1>2, <1>5, <3>2, MoveToTurns
    <3> QED
      BY <1>1, <3>1, <3>3, TurnsTransitive, Zenon
  <2> QED
    BY <2>2, <2>3, <2>4
<1> QED
  BY <1>6, <1>7

\* The position alone, below the page that is about to begin.
LEMMA BeginBelowTurns ==
    ASSUME NEW g \in FS, NEW y \in Nat
    PROVE  Turns(g, BeginPage([g EXCEPT !.vpos = y]))
<1> DEFINE h == [g EXCEPT !.vpos = y]
<1>1. h \in FS
  BY ZenonT(30) DEF FS
<1>2. /\ h.input = g.input /\ h.line = g.line /\ h.pending = g.pending
      /\ h.filling = g.filling /\ h.collected = g.collected
      /\ h.written = g.written /\ h.status = g.status
      /\ h.sprung = g.sprung /\ h.ejecting = g.ejecting
      /\ h.phase = g.phase /\ h.depth = g.depth /\ h.before = g.before
      /\ h.exiting = g.exiting /\ h.eoiFinished = g.eoiFinished
      /\ h.postponing = g.postponing /\ h.postponed = g.postponed
      /\ h.traps = g.traps
  BY DEF FS
<1>3. g.input \in Seq(Tokens)
  BY DEF FS
<1> HIDE DEF h
<1>4. Stays(g, h) /\ SameText(g, h)
  BY <1>2, Zenon DEF Stays, SameText, Running
<1>5. Covers(g.input, h.input)
  BY <1>2, <1>3, CoversSame
<1>6. Keeps(g, h)
  BY <1>1, <1>2, <1>4, <1>5, Zenon DEF Keeps
<1>7. /\ Turns(h, BeginPage(h))
      /\ Running(BeginPage(h)) => BeginPage(h).vpos = 0
  BY <1>1, BeginPageTurns
<1>8. Keeps(g, BeginPage(h))
  BY <1>6, <1>7, KeepsTransitive DEF Turns
<1>9. SameText(g, BeginPage(h)) /\ BeginPage(h).written = g.written
  BY <1>2, <1>7, Zenon DEF Turns, SameText
<1>10. Ends(g, BeginPage(h))
  BY <1>2, <1>7, Zenon DEF Turns, Ends, NoText
<1>11. OnPage(BeginPage(h))
  BY <1>7, Parameters DEF OnPage
<1>12. Turns(g, BeginPage(h))
  BY <1>8, <1>9, <1>10, <1>11, Zenon DEF Turns
<1> QED
  BY <1>12 DEF h

\* The lines of the model are one vee high and have no space after them.
LEMMA AfterLineTurns ==
    ASSUME NEW g \in FS, g.before # 1, NEW t, Reachable(g, t), NEW y \in Nat
    PROVE  Turns(g, AfterLine(g, t, y, 0))
<1>1. ~(0 > 0) /\ g.length = PageLength /\ g.honor
  BY BeforeIs
<1>2. AfterLine(g, t, y, 0) =
        IF AtBottom(g, y) THEN BeginPage([g EXCEPT !.vpos = y])
        ELSE IF Reaches(g, t, y) THEN SpringTrap(MoveTo(g, y), g.traps[t].nm)
        ELSE MoveTo(g, y)
  BY <1>1, Zenon DEF AfterLine
<1>3. CASE AtBottom(g, y)
  BY <1>2, <1>3, BeginBelowTurns
<1>4. CASE ~AtBottom(g, y)
  <2>1. y < PageLength
    BY <1>1, <1>4, Parameters DEF AtBottom
  <2>2. CASE Reaches(g, t, y)
    <3>1. g.traps[t].nm \in Macros
      BY <2>2 DEF Reaches, Reachable
    <3>2. Turns(g, SpringTrap(MoveTo(g, y), g.traps[t].nm))
      BY <2>1, <3>1, SpringAtTurns
    <3> QED
      BY <1>2, <1>4, <2>2, <3>2
  <2>3. CASE ~Reaches(g, t, y)
    BY <1>2, <1>4, <2>1, <2>3, MoveToTurns
  <2> QED
    BY <2>2, <2>3
<1> QED
  BY <1>3, <1>4

\* The output of a line.
Writes(g, h, words) ==
    /\ Keeps(g, h) /\ SameText(g, h) /\ Ends(g, h)
    /\ OnPage(g) => OnPage(h)
    /\ Running(g) /\ g.before # 1 => h.written = g.written \o words

LEMMA TurnsThenWrites ==
    ASSUME NEW a, NEW b, NEW c, NEW words, Turns(a, b), Writes(b, c, words),
           Running(a) => Running(b)
    PROVE  Writes(a, c, words)
<1>1. Keeps(a, c)
  BY KeepsTransitive DEF Turns, Writes
<1>2. Ends(a, c)
  BY Zenon DEF Turns, Writes, Ends, SameText, Keeps, Stays, NoText
<1> QED
  BY <1>1, <1>2, Zenon DEF Turns, Writes, SameText, Keeps, Stays

LEMMA WritesThenTurns ==
    ASSUME NEW a, NEW b, NEW c, NEW words, Writes(a, b, words), Turns(b, c)
    PROVE  Writes(a, c, words)
<1>1. Keeps(a, c)
  BY KeepsTransitive DEF Turns, Writes
<1>2. Ends(a, c)
  BY Zenon DEF Turns, Writes, Ends, SameText, Keeps, Stays, NoText
<1> QED
  BY <1>1, <1>2, Zenon DEF Turns, Writes, SameText

LEMMA WordsWrites ==
    ASSUME NEW g \in FS, NEW words \in Seq(Nat)
    PROVE  Writes(g, [g EXCEPT !.written = @ \o words], words)
<1> DEFINE h == [g EXCEPT !.written = @ \o words]
<1>1. g.written \o words \in Seq(Nat) /\ g.input \in Seq(Tokens)
  BY DEF FS
<1>2. h \in FS
  BY <1>1, ZenonT(30) DEF FS
<1>3. /\ h.input = g.input /\ h.line = g.line /\ h.pending = g.pending
      /\ h.filling = g.filling /\ h.collected = g.collected
      /\ h.written = g.written \o words /\ h.status = g.status
      /\ h.sprung = g.sprung /\ h.ejecting = g.ejecting
      /\ h.phase = g.phase /\ h.depth = g.depth /\ h.before = g.before
      /\ h.exiting = g.exiting /\ h.eoiFinished = g.eoiFinished
      /\ h.postponing = g.postponing /\ h.postponed = g.postponed
      /\ h.traps = g.traps /\ h.vpos = g.vpos
  BY DEF FS
<1> HIDE DEF h
<1>4. Stays(g, h) /\ SameText(g, h)
  BY <1>3, Zenon DEF Stays, SameText, Running
<1>5. Covers(g.input, h.input)
  BY <1>1, <1>3, CoversSame
<1>6. Keeps(g, h)
  BY <1>2, <1>3, <1>4, <1>5, Zenon DEF Keeps
<1>7. Writes(g, h, words)
  BY <1>3, <1>4, <1>6, Zenon DEF Writes, Ends, OnPage, Running
<1> QED
  BY <1>7 DEF h

LEMMA OutputLineWrites ==
    ASSUME NEW g \in FS, NEW words \in Seq(Nat)
    PROVE  Writes(g, OutputLine(g, words, Vee), words)
<1> DEFINE t == TrapAhead(g)
           h == [g EXCEPT !.noSpace = FALSE]
           begun == IF h.before > 0 THEN BeginPage(h) ELSE h
           line == [begun EXCEPT !.written = @ \o words]
           y == begun.vpos + 1 + 0
           springs == h.before > 0 /\ TopTrap(h) # NoMacro
<1>1. Turns(g, h) /\ h \in FS /\ h.before = g.before
      /\ (h.before > 0 <=> h.before = 1) /\ h.status = g.status
  BY NoSpaceTurns, BeforeIs DEF Turns, Keeps
<1>2. OutputLine(g, words, Vee) =
        IF ~Running(begun) THEN begun
        ELSE IF springs THEN [begun EXCEPT !.status = "fatal"]
        ELSE AfterLine(line, t, y, 0)
  BY DEF OutputLine, PlaceLine, Vee
<1>3. Reachable(g, t)
  BY TrapAheadIs
<1> HIDE DEF h, t
<1>4. /\ Turns(h, begun) /\ (Running(begun) => begun.before # 1)
      /\ (h.before # 1 => begun = h)
  BY <1>1, BeginPageTurns, KeepsSame
<1>5. Turns(g, begun) /\ begun \in FS
  BY <1>1, <1>4, TurnsTransitive DEF Turns, Keeps
<1> HIDE DEF begun
<1>6. CASE ~Running(begun) \/ springs
  <2> DEFINE r == IF ~Running(begun) THEN begun
                  ELSE [begun EXCEPT !.status = "fatal"]
  <2>1. OutputLine(g, words, Vee) = r
    BY <1>2, <1>6, Zenon
  <2>2. Turns(begun, r)
    BY <1>5, EndedTurns, KeepsSame
  <2>3. Turns(g, r)
    BY <1>5, <2>2, TurnsTransitive
  <2>4. CASE g.before = 1
    BY <2>1, <2>3, <2>4, Zenon DEF Writes, Turns
  <2>5. CASE g.before # 1
    <3>1. ~springs /\ begun = h
      BY <1>1, <1>4, <2>5
    <3>2. ~Running(h)
      BY <1>6, <3>1
    <3>3. ~Running(g)
      BY <1>1, <3>2, Zenon DEF Running
    <3> QED
      BY <2>1, <2>3, <3>3, Zenon DEF Writes, Turns
  <2> QED
    BY <2>4, <2>5
<1>7. CASE Running(begun) /\ ~springs
  <2>1. OutputLine(g, words, Vee) = AfterLine(line, t, y, 0)
    BY <1>2, <1>7, Zenon
  <2>2. Writes(begun, line, words)
    BY <1>5, WordsWrites
  <2>3. Writes(g, line, words)
    BY <1>5, <1>7, <2>2, TurnsThenWrites
  <2>4. line \in FS /\ line.before # 1
    BY <1>4, <1>7, <2>2, Zenon DEF Writes, Keeps, Stays
  <2>5. Reachable(line, t)
    <3>1. line.traps = g.traps /\ line.length = PageLength
          /\ g.length = PageLength
      BY <2>3, <2>4, BeforeIs DEF Writes, Keeps, Stays
    <3> QED
      BY <1>3, <3>1, Zenon DEF Reachable
  <2>6. y \in Nat
    BY <1>5, BeforeIs
  <2> HIDE DEF line, y
  <2>7. Turns(line, AfterLine(line, t, y, 0))
    BY <2>4, <2>5, <2>6, AfterLineTurns
  <2> QED
    BY <2>1, <2>3, <2>7, WritesThenTurns, Zenon
<1> QED
  BY <1>6, <1>7

LEMMA DistanceIs ==
    ASSUME NEW g \in FS, g.vpos < PageLength
    PROVE  DistanceAhead(g) \in Nat
<1>1. g.traps \in Seq(Slots) /\ g.vpos \in Nat /\ g.vpos \in Int
      /\ g.length = PageLength /\ PageLength \in Nat
  BY Parameters DEF FS
<1> DEFINE n == NextTrap(g.traps, g.vpos, PageLength)
           v == Location(g.traps[n], PageLength)
<1>2. DistanceAhead(g) = (IF n = 0 THEN PageLength ELSE v) - g.vpos
  BY <1>1 DEF DistanceAhead, DistanceToNextTrap
<1>3. n # 0 => v \in Int /\ g.vpos < v
  BY <1>1, NextTrapIs, Zenon
<1> HIDE DEF n, v
<1> QED
  BY <1>1, <1>2, <1>3

-----------------------------------------------------------------------------
\* What an operation may do besides: write, collect and hold text.

Goes(g, h) ==
    /\ h \in FS
    /\ h.phase = g.phase /\ h.depth = g.depth
    /\ h.eoiFinished = g.eoiFinished
    /\ Running(h) => Running(g)
    /\ h.before = 1 => g.before = 1
    /\ Covers(g.input, h.input)
    /\ h.ejecting => g.ejecting \/ Has(h.input, Ejectors)
    /\ Running(h) /\ h.before = 1 /\ g.input \in Seq(Harmless) =>
          h.input \in Seq(Harmless)
    /\ OnPage(g) => OnPage(h)

\* No trap is postponed, and none will be.
Brief(g) == ~g.postponing /\ g.postponed = NoMacro

Does(g, h) == Goes(g, h) /\ (Brief(g) => Brief(h))

LEMMA TurnsDoes ==
    ASSUME NEW g, NEW h, Turns(g, h)
    PROVE  Does(g, h)
BY Zenon DEF Turns, Keeps, Stays, Does, Goes, Brief

LEMMA WritesDoes ==
    ASSUME NEW g, NEW h, NEW words, Writes(g, h, words)
    PROVE  Does(g, h)
BY Zenon DEF Writes, Keeps, Stays, Does, Goes, Brief

LEMMA GoesTransitive ==
    ASSUME NEW a, NEW b, NEW c, Goes(a, b), Goes(b, c)
    PROVE  Goes(a, c)
<1>1. Covers(a.input, c.input)
  BY CoversTransitive, Zenon DEF Goes
<1>2. c.ejecting => a.ejecting \/ Has(c.input, Ejectors)
  BY Zenon DEF Goes, Covers
<1>3. Running(c) /\ c.before = 1 /\ a.input \in Seq(Harmless) =>
        c.input \in Seq(Harmless)
  BY Zenon DEF Goes
<1> QED
  BY <1>1, <1>2, <1>3, Zenon DEF Goes

LEMMA DoesTransitive ==
    ASSUME NEW a, NEW b, NEW c, Does(a, b), Does(b, c)
    PROVE  Does(a, c)
BY GoesTransitive, Zenon DEF Does

\* An operation that changes nothing but the text, and what the page has not
\* to do with.
Same(g, h) ==
    /\ h.input = g.input /\ h.status = g.status /\ h.ejecting = g.ejecting
    /\ h.phase = g.phase /\ h.depth = g.depth /\ h.before = g.before
    /\ h.eoiFinished = g.eoiFinished /\ h.vpos = g.vpos

LEMMA SameGoes ==
    ASSUME NEW g \in FS, NEW h \in FS, Same(g, h)
    PROVE  Goes(g, h)
<1>1. g.input \in Seq(Tokens)
  BY DEF FS
<1>2. Covers(g.input, h.input)
  BY <1>1, CoversSame DEF Same
<1> QED
  BY <1>2, Zenon DEF Same, Goes, OnPage, Running

LEMMA SameDoes ==
    ASSUME NEW g \in FS, NEW h \in FS, Same(g, h),
           h.postponing = g.postponing, h.postponed = g.postponed
    PROVE  Does(g, h)
BY SameGoes, Zenon DEF Does, Brief

LEMMA NeedDoes ==
    ASSUME NEW g \in FS, Running(g), OnPage(g), NEW n \in Nat
    PROVE  Does(g, Need(g, n))
<1>1. DistanceAhead(g) \in Nat
  BY DistanceIs DEF OnPage
<1>2. Turns(g, Space(g, DistanceAhead(g), TRUE)) /\ Turns(g, g)
  BY <1>1, SpaceTurns, KeepsSame
<1> QED
  BY <1>2, TurnsDoes DEF Need

LEMMA DoesSame ==
    ASSUME NEW g \in FS
    PROVE  Does(g, g)
BY KeepsSame, TurnsDoes

LEMMA DoesIn ==
    ASSUME NEW g, NEW h, Does(g, h)
    PROVE  h \in FS
BY DEF Does, Goes

\* continue_page_eject: as long as the ejection is not complete, its token
\* goes back.
LEMMA ContinueDoes ==
    ASSUME NEW g \in FS
    PROVE  /\ Does(g, ContinuePageEject(g))
           /\ ContinuePageEject(g).ejecting /\ Running(ContinuePageEject(g)) =>
                 Has(ContinuePageEject(g).input, Ejectors)
<1> DEFINE p == PushPageEjector(g)
           h == Space(p, p.length, TRUE)
<1>1. CASE g.ejecting /\ g.honor
  <2>1. /\ Turns(g, p) /\ p.status = g.status /\ p \in FS
        /\ Running(g) => Has(p.input, Ejectors)
    BY PushPageEjectorTurns DEF Turns, Keeps
  <2>2. p.length = g.length /\ g.length \in Nat
    BY <2>1, BeforeIs, Parameters
  <2>3. ContinuePageEject(g) = h
    BY <1>1, <2>2, Zenon DEF ContinuePageEject
  <2> HIDE DEF p
  <2>4. Turns(p, h)
    BY <2>1, <2>2, SpaceTurns
  <2> HIDE DEF h
  <2>5. Does(g, h)
    BY <2>1, <2>4, TurnsTransitive, TurnsDoes
  <2>6. Running(h) => Has(h.input, Ejectors)
    BY <2>1, <2>4, Zenon DEF Turns, Keeps, Stays, Covers, Running
  <2> QED
    BY <2>3, <2>5, <2>6, Zenon
<1>2. CASE ~(g.ejecting /\ g.honor)
  <2>1. ContinuePageEject(g) = g /\ g.honor
    BY <1>2, BeforeIs DEF ContinuePageEject
  <2> QED
    BY <1>2, <2>1, DoesSame, Zenon
<1> QED
  BY <1>1, <1>2

LEMMA EjectingIn ==
    ASSUME NEW g \in FS
    PROVE  LET h == [g EXCEPT !.ejecting = TRUE]
           IN  /\ h \in FS /\ h.input = g.input /\ h.status = g.status
               /\ h.before = g.before /\ h.eoiFinished = g.eoiFinished
               /\ h.phase = g.phase /\ h.depth = g.depth /\ h.vpos = g.vpos
               /\ h.postponing = g.postponing /\ h.postponed = g.postponed
<1> DEFINE h == [g EXCEPT !.ejecting = TRUE]
<1>1. TRUE \in BOOLEAN
  OBVIOUS
<1>2. h \in FS
  BY <1>1, ZenonT(30) DEF FS
<1>3. h.input = g.input /\ h.status = g.status
      /\ h.before = g.before /\ h.eoiFinished = g.eoiFinished
      /\ h.phase = g.phase /\ h.depth = g.depth /\ h.vpos = g.vpos
      /\ h.postponing = g.postponing /\ h.postponed = g.postponed
  BY DEF FS
<1> QED
  BY <1>2, <1>3

\* set_ejecting, when its token has been pushed
LEMMA SetEjectingDoes ==
    ASSUME NEW g \in FS, Running(g) => Has(g.input, Ejectors)
    PROVE  Does(g, SetEjecting(g))
<1> DEFINE h == [g EXCEPT !.ejecting = TRUE]
<1>1. CASE ~Running(g)
  BY <1>1, DoesSame DEF SetEjecting
<1>2. CASE Running(g)
  <2>1. /\ h \in FS /\ h.input = g.input /\ h.status = g.status
        /\ h.before = g.before /\ h.eoiFinished = g.eoiFinished
        /\ h.phase = g.phase /\ h.depth = g.depth /\ h.vpos = g.vpos
        /\ h.postponing = g.postponing /\ h.postponed = g.postponed
    BY EjectingIn
  <2>2. g.input \in Seq(Tokens)
    BY DEF FS
  <2> HIDE DEF h
  <2>3. Covers(g.input, h.input) /\ Has(h.input, Ejectors)
    BY <1>2, <2>1, <2>2, CoversSame
  <2>4. Does(g, h)
    BY <2>1, <2>3, Zenon DEF Does, Goes, OnPage, Running, Brief
  <2> QED
    BY <1>2, <2>4 DEF SetEjecting, h
<1> QED
  BY <1>1, <1>2

-----------------------------------------------------------------------------
\* The environment.

\* A change of the text alone.
TextIn(g, h) ==
    /\ h \in FS /\ Same(g, h)
    /\ h.postponing = g.postponing /\ h.postponed = g.postponed

LEMMA TextDoes ==
    ASSUME NEW g \in FS, NEW h, TextIn(g, h)
    PROVE  Does(g, h)
BY SameDoes DEF TextIn

LEMMA PendingIn ==
    ASSUME NEW g \in FS, NEW p \in Seq(Seq(Nat))
    PROVE  TextIn(g, [g EXCEPT !.pending = p])
<1> DEFINE h == [g EXCEPT !.pending = p]
<1>1. h \in FS
  BY ZenonT(30) DEF FS
<1>2. Same(g, h) /\ h.postponing = g.postponing /\ h.postponed = g.postponed
  BY DEF FS, Same
<1> QED
  BY <1>1, <1>2 DEF TextIn

LEMMA LineIn ==
    ASSUME NEW g \in FS, NEW words \in Seq(Nat)
    PROVE  TextIn(g, [g EXCEPT !.line = words])
<1> DEFINE h == [g EXCEPT !.line = words]
<1>1. h \in FS
  BY ZenonT(30) DEF FS
<1>2. Same(g, h) /\ h.postponing = g.postponing /\ h.postponed = g.postponed
  BY DEF FS, Same
<1> QED
  BY <1>1, <1>2 DEF TextIn

LEMMA FillingIn ==
    ASSUME NEW g \in FS, NEW b \in BOOLEAN
    PROVE  TextIn(g, [g EXCEPT !.filling = b])
<1> DEFINE h == [g EXCEPT !.filling = b]
<1>1. h \in FS
  BY ZenonT(30) DEF FS
<1>2. Same(g, h) /\ h.postponing = g.postponing /\ h.postponed = g.postponed
  BY DEF FS, Same
<1> QED
  BY <1>1, <1>2 DEF TextIn

LEMMA CollectedIn ==
    ASSUME NEW g \in FS, NEW n \in Nat, NEW words \in Seq(Nat)
    PROVE  TextIn(g, [g EXCEPT !.collected = n, !.line = words])
<1> DEFINE h == [g EXCEPT !.collected = n, !.line = words]
<1>1. h \in FS
  BY ZenonT(30) DEF FS
<1>2. Same(g, h) /\ h.postponing = g.postponing /\ h.postponed = g.postponed
  BY DEF FS, Same
<1> QED
  BY <1>1, <1>2 DEF TextIn

LEMMA OutputNextDoes ==
    ASSUME NEW g \in FS
    PROVE  Does(g, OutputNext(g))
<1>1. CASE g.pending = <<>> \/ g.sprung \/ ~Running(g)
  BY <1>1, DoesSame DEF OutputNext
<1>2. CASE ~(g.pending = <<>> \/ g.sprung \/ ~Running(g))
  <2> DEFINE h == OutputLine(g, Head(g.pending), Vee)
  <2>1. g.pending \in Seq(Seq(Nat)) /\ g.pending # <<>>
    BY <1>2 DEF FS
  <2>2. Head(g.pending) \in Seq(Nat) /\ Tail(g.pending) \in Seq(Seq(Nat))
    BY <2>1
  <2>3. Writes(g, h, Head(g.pending))
    BY <2>2, OutputLineWrites
  <2>4. Does(g, h)
    BY <2>3, WritesDoes
  <2>5. h \in FS /\ h.pending = g.pending
    BY <2>3 DEF Writes, Keeps, SameText
  <2>6. OutputNext(g) = [h EXCEPT !.pending = Tail(h.pending)]
    BY <1>2, Zenon DEF OutputNext
  <2> HIDE DEF h
  <2>7. TextIn(h, [h EXCEPT !.pending = Tail(h.pending)])
    BY <2>2, <2>5, PendingIn
  <2> QED
    BY <2>4, <2>5, <2>6, <2>7, TextDoes, DoesTransitive
<1> QED
  BY <1>1, <1>2

LEMMA OutputPendingDoes ==
    ASSUME NEW g \in FS
    PROVE  Does(g, OutputPending(g))
<1> DEFINE n == Len(g.pending)
           Kept == {h \in FS : Does(g, h)}
           G(after) == [i \in 0..n |-> IF i = 0 THEN g
                                       ELSE OutputNext(after[i - 1])]
           after0 == CHOOSE after : after = G(after)
<1>1. n \in Nat
  BY DEF FS
<1> HIDE DEF n
<1>2. g \in Kept
  BY DoesSame
<1>3. \A u \in Kept : OutputNext(u) \in Kept
  <2> TAKE u \in Kept
  <2>1. u \in FS /\ Does(g, u)
    OBVIOUS
  <2>2. Does(u, OutputNext(u))
    BY <2>1, OutputNextDoes
  <2> QED
    BY <2>1, <2>2, DoesTransitive, DoesIn
<1> HIDE DEF Kept
<1>4. \E after : after = G(after)
  <2> DEFINE F == [u \in Kept |-> OutputNext(u)]
  <2>1. \A u \in Kept : F[u] \in Kept /\ F[u] = OutputNext(u)
    BY <1>3
  <2> HIDE DEF F
  <2>2. PICK after : IsRepeated(after, n, g, F)
    BY <1>1, Repeated
  <2>3. \A i \in 0..n : after[i] \in Kept
    BY <1>1, <1>2, <2>1, <2>2, RepeatedIn
  <2>4. after = [i \in 0..n |-> IF i = 0 THEN g ELSE F[after[i - 1]]]
    BY <2>2 DEF IsRepeated
  <2>5. \A i \in 0..n : i = 0 \/ i - 1 \in 0..n
    BY <1>1
  <2>6. \A i \in 0..n : i # 0 => F[after[i - 1]] = OutputNext(after[i - 1])
    BY <2>1, <2>3, <2>5
  <2>7. after = G(after)
    BY <2>4, <2>6
  <2> QED
    BY <2>7
<1>5. after0 = G(after0)
  BY <1>4
<1> HIDE DEF after0
<1> DEFINE D == Kept \cup {after0[i] : i \in 0..n}
           F == [u \in D |-> OutputNext(u)]
<1>6. \A u \in Kept : F[u] \in Kept
  BY <1>3
<1>7. IsRepeated(after0, n, g, F)
  <2>1. \A i \in 0..n : i # 0 => F[after0[i - 1]] = OutputNext(after0[i - 1])
    <3>1. \A i \in 0..n : i = 0 \/ i - 1 \in 0..n
      BY <1>1
    <3> QED
      BY <3>1
  <2> HIDE DEF F
  <2>2. after0 = [i \in 0..n |-> IF i = 0 THEN g ELSE F[after0[i - 1]]]
    BY <1>5, <2>1
  <2> QED
    BY <2>2 DEF IsRepeated
<1> HIDE DEF F
<1>8. after0[n] \in Kept
  BY <1>1, <1>2, <1>6, <1>7, RepeatedIn
<1>9. OutputPending(g) = after0[n]
  BY Zenon DEF OutputPending, after0, n
<1> QED
  BY <1>8, <1>9 DEF Kept

LEMMA EnvOutputDoes ==
    ASSUME NEW g \in FS, NEW words \in Seq(Nat)
    PROVE  Does(g, EnvOutput(g, words))
<1> DEFINE p == OutputPending(g)
<1>1. Does(g, p)
  BY OutputPendingDoes
<1> HIDE DEF p
<1>2. p \in FS /\ p.pending \in Seq(Seq(Nat))
  <2>1. p \in FS
    BY <1>1, DoesIn
  <2> QED
    BY <2>1 DEF FS
<1>3. Does(p, OutputLine(p, words, Vee))
  BY <1>2, OutputLineWrites, WritesDoes
<1>4. Append(p.pending, words) \in Seq(Seq(Nat))
  BY <1>2
<1>5. Does(p, [p EXCEPT !.pending = Append(p.pending, words)])
  BY <1>2, <1>4, PendingIn, TextDoes
<1>6. Does(p, WriteOrHold(p, words))
  <2> DEFINE l == OutputLine(p, words, Vee)
             h == [p EXCEPT !.pending = Append(p.pending, words)]
  <2>1. WriteOrHold(p, words) = IF ~Running(p) THEN p
          ELSE IF ~p.sprung /\ p.pending = <<>> THEN l ELSE h
    BY Zenon DEF WriteOrHold
  <2>2. Does(p, l) /\ Does(p, h) /\ Does(p, p)
    BY <1>2, <1>3, <1>5, DoesSame
  <2> HIDE DEF l, h
  <2> QED
    BY <2>1, <2>2
<1>7. EnvOutput(g, words) = WriteOrHold(p, words)
  BY Zenon DEF EnvOutput, p
<1> QED
  BY <1>1, <1>6, <1>7, DoesTransitive

\* The line is taken off and written.
LEMMA LineOutDoes ==
    ASSUME NEW g \in FS, NEW rest \in Seq(Nat), NEW words \in Seq(Nat)
    PROVE  Does(g, EnvOutput([g EXCEPT !.line = rest], words))
<1> DEFINE h == [g EXCEPT !.line = rest]
<1>1. Does(g, h) /\ h \in FS
  BY LineIn, TextDoes DEF TextIn
<1> HIDE DEF h
<1>2. Does(h, EnvOutput(h, words))
  BY <1>1, EnvOutputDoes
<1>3. Does(g, EnvOutput(h, words))
  BY <1>1, <1>2, DoesTransitive
<1> QED
  BY <1>3 DEF h

LEMMA BreakFullDoes ==
    ASSUME NEW g \in FS
    PROVE  Does(g, BreakFull(g))
<1> DEFINE rest == SubSeq(g.line, Width + 1, Len(g.line))
           words == SubSeq(g.line, 1, Width)
<1>1. CASE Len(g.line) <= Width
  BY <1>1, DoesSame DEF BreakFull
<1>2. CASE ~(Len(g.line) <= Width)
  <2>1. g.line \in Seq(Nat) /\ Len(g.line) \in Nat /\ Width \in Nat \ {0}
    BY Parameters DEF FS
  <2>2. words \in Seq(Nat) /\ rest \in Seq(Nat)
    BY <1>2, <2>1, SMTT(30)
  <2>3. BreakFull(g) = EnvOutput([g EXCEPT !.line = rest], words)
    BY <1>2, Zenon DEF BreakFull
  <2> HIDE DEF rest, words
  <2> QED
    BY <2>2, <2>3, LineOutDoes
<1> QED
  BY <1>1, <1>2

LEMMA PossiblyBreakLineDoes ==
    ASSUME NEW g \in FS
    PROVE  Does(g, PossiblyBreakLine(g))
<1> DEFINE n == Len(g.line)
           Kept == {h \in FS : Does(g, h)}
           G(after) == [i \in 0..n |-> IF i = 0 THEN g
                                       ELSE BreakFull(after[i - 1])]
           after0 == CHOOSE after : after = G(after)
<1>1. n \in Nat
  BY DEF FS
<1> HIDE DEF n
<1>2. g \in Kept
  BY DoesSame
<1>3. \A u \in Kept : BreakFull(u) \in Kept
  <2> TAKE u \in Kept
  <2>1. u \in FS /\ Does(g, u)
    OBVIOUS
  <2>2. Does(u, BreakFull(u))
    BY <2>1, BreakFullDoes
  <2> QED
    BY <2>1, <2>2, DoesTransitive, DoesIn
<1> HIDE DEF Kept
<1>4. \E after : after = G(after)
  <2> DEFINE F == [u \in Kept |-> BreakFull(u)]
  <2>1. \A u \in Kept : F[u] \in Kept /\ F[u] = BreakFull(u)
    BY <1>3
  <2> HIDE DEF F
  <2>2. PICK after : IsRepeated(after, n, g, F)
    BY <1>1, Repeated
  <2>3. \A i \in 0..n : after[i] \in Kept
    BY <1>1, <1>2, <2>1, <2>2, RepeatedIn
  <2>4. after = [i \in 0..n |-> IF i = 0 THEN g ELSE F[after[i - 1]]]
    BY <2>2 DEF IsRepeated
  <2>5. \A i \in 0..n : i = 0 \/ i - 1 \in 0..n
    BY <1>1
  <2>6. \A i \in 0..n : i # 0 => F[after[i - 1]] = BreakFull(after[i - 1])
    BY <2>1, <2>3, <2>5
  <2>7. after = G(after)
    BY <2>4, <2>6
  <2> QED
    BY <2>7
<1>5. after0 = G(after0)
  BY <1>4
<1> HIDE DEF after0
<1> DEFINE D == Kept \cup {after0[i] : i \in 0..n}
           F == [u \in D |-> BreakFull(u)]
<1>6. \A u \in Kept : F[u] \in Kept
  BY <1>3
<1>7. IsRepeated(after0, n, g, F)
  <2>1. \A i \in 0..n : i # 0 => F[after0[i - 1]] = BreakFull(after0[i - 1])
    <3>1. \A i \in 0..n : i = 0 \/ i - 1 \in 0..n
      BY <1>1
    <3> QED
      BY <3>1
  <2> HIDE DEF F
  <2>2. after0 = [i \in 0..n |-> IF i = 0 THEN g ELSE F[after0[i - 1]]]
    BY <1>5, <2>1
  <2> QED
    BY <2>2 DEF IsRepeated
<1> HIDE DEF F
<1>8. after0[n] \in Kept
  BY <1>1, <1>2, <1>6, <1>7, RepeatedIn
<1>9. PossiblyBreakLine(g) = after0[n]
  BY Zenon DEF PossiblyBreakLine, after0, n
<1> QED
  BY <1>8, <1>9 DEF Kept

LEMMA DoBreakDoes ==
    ASSUME NEW g \in FS
    PROVE  Does(g, DoBreak(g))
<1>1. Does(g, BeginPage(g)) /\ Does(g, g)
  BY BeginPageTurns, TurnsDoes, DoesSame
<1>2. g.line \in Seq(Nat) /\ <<>> \in Seq(Nat)
  BY DEF FS
<1>3. Does(g, EnvOutput([g EXCEPT !.line = <<>>], g.line))
  BY <1>2, LineOutDoes
<1> QED
  BY <1>1, <1>3 DEF DoBreak

LEMMA OutputTitleDoes ==
    ASSUME NEW g \in FS
    PROVE  Does(g, OutputTitle(g))
<1>1. <<>> \in Seq(Nat) /\ g.pending \in Seq(Seq(Nat))
  BY DEF FS
<1>2. <<<<>>>> \o g.pending \in Seq(Seq(Nat))
  BY <1>1
<1>3. Does(g, OutputLine(g, <<>>, Vee))
  BY <1>1, OutputLineWrites, WritesDoes
<1>4. Does(g, [g EXCEPT !.pending = <<<<>>>> \o g.pending])
  BY <1>2, PendingIn, TextDoes
<1> QED
  BY <1>3, <1>4, Zenon DEF OutputTitle

-----------------------------------------------------------------------------
\* The requests.

LEMMA TrapHarmless ==
    ASSUME NEW nm, Call(nm) \in Harmless, NEW s \in Seq(Harmless)
    PROVE  TrapItems(nm) \o s \in Seq(Harmless)
<1>1. BeginTrap \in Harmless /\ EndTrap \in Harmless
  <2>1. BeginTrap # Line("'sp") /\ EndTrap # Line("'sp")
    BY TokensAre
  <2> QED
    BY <2>1, TokensAre, OneHarmless
<1>2. <<BeginTrap, Call(nm), EndTrap>> \in Seq(Harmless)
  BY <1>1
<1> QED
  BY <1>2 DEF TrapItems

\* A trap that is sprung anywhere: the end macro's may be before the first
\* page.
LEMMA SpringTrapIs ==
    ASSUME NEW g \in FS, NEW nm \in Macros
    PROVE  LET h == SpringTrap(g, nm)
           IN  /\ h \in FS /\ h.status = g.status /\ h.ejecting = g.ejecting
               /\ h.phase = g.phase /\ h.depth = g.depth /\ h.before = g.before
               /\ h.eoiFinished = g.eoiFinished /\ h.vpos = g.vpos
               /\ h.postponing = g.postponing
               /\ ~g.postponing => h.postponed = g.postponed
               /\ Covers(g.input, h.input)
               /\ Call(nm) \in Harmless /\ g.input \in Seq(Harmless) =>
                     h.input \in Seq(Harmless)
<1> DEFINE h == [g EXCEPT !.sprung = TRUE]
           p == [h EXCEPT !.postponed = nm]
           i == PushInput(h, TrapItems(nm))
<1>0. g.input \in Seq(Tokens)
  BY DEF FS
<1>1. h \in FS /\ p \in FS
  BY ZenonT(30) DEF FS
<1>2. /\ Same(g, h) /\ Same(g, p)
      /\ h.postponing = g.postponing /\ h.postponed = g.postponed
      /\ p.postponing = g.postponing
  BY DEF FS, Same
<1>3. Covers(g.input, TrapItems(nm) \o g.input)
      /\ TrapItems(nm) \o g.input \in Seq(Tokens)
  BY <1>0, CoversTrap DEF Covers
<1>4. SpringTrap(g, nm) = IF g.postponing THEN p ELSE i
  BY Zenon DEF SpringTrap, TrapItems
<1>5. CASE g.postponing
  <2> HIDE DEF p, h
  <2>1. Covers(g.input, p.input)
    BY <1>0, <1>2, CoversSame DEF Same
  <2> QED
    BY <1>1, <1>2, <1>4, <1>5, <2>1, Zenon DEF Same
<1>6. CASE ~g.postponing
  <2> HIDE DEF p, h
  <2>4. h.input = g.input
    BY <1>2 DEF Same
  <2>5. TrapItems(nm) \o h.input \in Seq(Tokens)
    BY <1>3, <2>4, Zenon
  <2>6. /\ i \in FS /\ i.input = TrapItems(nm) \o h.input
        /\ i.status = h.status /\ i.vpos = h.vpos
        /\ i.ejecting = h.ejecting /\ i.before = h.before /\ Stays(h, i)
    BY <1>1, <2>5, PushInputIs
  <2>1. /\ i \in FS /\ i.input = TrapItems(nm) \o g.input
        /\ i.status = h.status /\ i.vpos = h.vpos
        /\ i.ejecting = h.ejecting /\ i.before = h.before /\ Stays(h, i)
    BY <2>4, <2>6, Zenon
  <2> HIDE DEF i
  <2>2. i.postponing = g.postponing /\ i.postponed = g.postponed
    BY <1>2, <1>6, <2>1, Zenon DEF Stays
  <2>3. Call(nm) \in Harmless /\ g.input \in Seq(Harmless) =>
          i.input \in Seq(Harmless)
    BY <2>1, TrapHarmless, Zenon
  <2> QED
    BY <1>2, <1>3, <1>4, <1>6, <2>1, <2>2, <2>3, Zenon DEF Same, Stays
<1> QED
  BY <1>5, <1>6

LEMMA SpringTrapGoes ==
    ASSUME NEW g \in FS, NEW nm \in Macros, g.before # 1 \/ ~Running(g)
    PROVE  Goes(g, SpringTrap(g, nm))
           /\ SpringTrap(g, nm).postponing = g.postponing
<1> DEFINE h == SpringTrap(g, nm)
<1>1. /\ h \in FS /\ h.status = g.status /\ h.ejecting = g.ejecting
      /\ h.phase = g.phase /\ h.depth = g.depth /\ h.before = g.before
      /\ h.eoiFinished = g.eoiFinished /\ h.vpos = g.vpos
      /\ h.postponing = g.postponing
      /\ Covers(g.input, h.input)
  BY SpringTrapIs
<1> HIDE DEF h
<1>2. Goes(g, h)
  BY <1>1, Zenon DEF Goes, OnPage, Running
<1> QED
  BY <1>1, <1>2 DEF h

LEMMA PostponingIn ==
    ASSUME NEW g \in FS, NEW b \in BOOLEAN
    PROVE  LET h == [g EXCEPT !.postponing = b]
           IN  /\ h \in FS /\ Goes(g, h) /\ h.before = g.before
               /\ h.postponing = b /\ h.postponed = g.postponed
               /\ h.status = g.status
<1> DEFINE h == [g EXCEPT !.postponing = b]
<1>1. h \in FS
  BY Zenon DEF FS
<1>2. Same(g, h) /\ h.postponing = b /\ h.postponed = g.postponed
  BY DEF FS, Same
<1> HIDE DEF h
<1>3. Goes(g, h)
  BY <1>1, <1>2, SameGoes
<1> QED
  BY <1>1, <1>2, <1>3 DEF h, Same

LEMMA PostponedIn ==
    ASSUME NEW g \in FS
    PROVE  LET h == [g EXCEPT !.postponed = NoMacro]
           IN  /\ h \in FS /\ Goes(g, h)
               /\ h.postponing = g.postponing /\ h.postponed = NoMacro
<1> DEFINE h == [g EXCEPT !.postponed = NoMacro]
<1>1. h \in FS
  BY ZenonT(30) DEF FS
<1>2. Same(g, h) /\ h.postponing = g.postponing /\ h.postponed = NoMacro
  BY DEF FS, Same
<1> HIDE DEF h
<1>3. Goes(g, h)
  BY <1>1, <1>2, SameGoes
<1> QED
  BY <1>1, <1>2, <1>3 DEF h

LEMMA UnpostponeGoes ==
    ASSUME NEW g \in FS, g.before # 1 \/ ~Running(g)
    PROVE  /\ Goes(g, Unpostpone(g)) /\ Brief(Unpostpone(g))
           /\ Unpostpone(g) \in FS
<1> DEFINE h == [g EXCEPT !.postponing = FALSE]
           s == SpringTrap(h, h.postponed)
           u == [s EXCEPT !.postponed = NoMacro]
<1>1. h \in FS /\ Goes(g, h) /\ h.before = g.before /\ ~h.postponing
      /\ h.status = g.status
  BY PostponingIn
<1>2. Unpostpone(g) = IF h.postponed = NoMacro THEN h ELSE u
  BY Zenon DEF Unpostpone
<1> HIDE DEF h
<1>3. CASE h.postponed = NoMacro
  BY <1>1, <1>2, <1>3 DEF Brief
<1>4. CASE h.postponed # NoMacro
  <2>1. h.postponed \in Macros
    BY <1>1, <1>4 DEF FS
  <2>2. Goes(h, s) /\ s.postponing = h.postponing /\ s \in FS
    <3>1. h.before # 1 \/ ~Running(h)
      BY <1>1 DEF Running
    <3> QED
      BY <1>1, <2>1, <3>1, SpringTrapGoes DEF Goes
  <2> HIDE DEF s
  <2>3. u \in FS /\ Goes(s, u) /\ u.postponing = s.postponing
        /\ u.postponed = NoMacro
    BY <2>2, PostponedIn
  <2> HIDE DEF u
  <2>4. Goes(g, u)
    BY <1>1, <2>2, <2>3, GoesTransitive
  <2>5. Brief(u)
    BY <1>1, <2>2, <2>3 DEF Brief
  <2> QED
    BY <1>2, <1>4, <2>3, <2>4, <2>5
<1> QED
  BY <1>3, <1>4

LEMMA SpaceAfterBreakGoes ==
    ASSUME NEW g \in FS, g.before # 1 \/ ~Running(g)
    PROVE  Goes(g, SpaceAfterBreak(g)) /\ Brief(SpaceAfterBreak(g))
<1> DEFINE u == Unpostpone(g)
<1>1. Goes(g, u) /\ Brief(u) /\ u \in FS
  BY UnpostponeGoes
<1>2. SpaceAfterBreak(g) = IF g.postponed # NoMacro \/ u.noSpace THEN u
                           ELSE Space(u, 1, FALSE)
  BY Zenon DEF SpaceAfterBreak
<1> HIDE DEF u
<1>3. Does(u, Space(u, 1, FALSE))
  BY <1>1, SpaceTurns, TurnsDoes
<1>4. Goes(g, Space(u, 1, FALSE)) /\ Brief(Space(u, 1, FALSE))
  BY <1>1, <1>3, GoesTransitive DEF Does
<1> QED
  BY <1>1, <1>2, <1>4

LEMMA SpaceRequestGoes ==
    ASSUME NEW g \in FS, NEW breaks \in BOOLEAN
    PROVE  /\ Goes(g, SpaceRequest(g, breaks))
           /\ breaks \/ g.before # 1 => Brief(SpaceRequest(g, breaks))
<1> DEFINE h == [g EXCEPT !.postponing = TRUE]
           d == DoBreak(h)
<1>1. h \in FS /\ Goes(g, h) /\ h.before = g.before
  BY PostponingIn
<1>2. SpaceRequest(g, breaks) = IF breaks THEN SpaceAfterBreak(d)
                                ELSE IF g.before > 0 THEN h
                                ELSE SpaceAfterBreak(h)
  BY Zenon DEF SpaceRequest
<1>3. g.before > 0 <=> g.before = 1
  BY BeforeIs
<1> HIDE DEF h
<1>4. CASE breaks
  <2>1. Does(h, d) /\ d \in FS
    BY <1>1, DoBreakDoes, DoesIn
  <2>2. d.before # 1 \/ ~Running(d)
    <3>1. CASE h.before > 0
      <4>1. d = BeginPage(h)
        BY <3>1 DEF DoBreak
      <4> QED
        BY <1>1, <4>1, BeginPageTurns
    <3>2. CASE ~(h.before > 0)
      BY <1>1, <1>3, <2>1, <3>2 DEF Does, Goes
    <3> QED
      BY <3>1, <3>2
  <2> HIDE DEF d
  <2>3. Goes(d, SpaceAfterBreak(d)) /\ Brief(SpaceAfterBreak(d))
    BY <2>1, <2>2, SpaceAfterBreakGoes
  <2>4. Goes(g, SpaceAfterBreak(d))
    BY <1>1, <2>1, <2>3, GoesTransitive DEF Does
  <2> QED
    BY <1>2, <1>4, <2>3, <2>4
<1>5. CASE ~breaks /\ g.before = 1
  BY <1>1, <1>2, <1>3, <1>5
<1>6. CASE ~breaks /\ g.before # 1
  <2>1. Goes(h, SpaceAfterBreak(h)) /\ Brief(SpaceAfterBreak(h))
    BY <1>1, <1>6, SpaceAfterBreakGoes
  <2>2. Goes(g, SpaceAfterBreak(h))
    BY <1>1, <2>1, GoesTransitive
  <2> QED
    BY <1>2, <1>3, <1>6, <2>1, <2>2
<1> QED
  BY <1>4, <1>5, <1>6

LEMMA PushLineDoes ==
    ASSUME NEW g \in FS, NEW nm \in InputLines, nm # "'sp"
    PROVE  Does(g, BeginPage(PushInput(g, <<Line(nm)>>)))
<1> DEFINE p == PushInput(g, <<Line(nm)>>)
<1>1. /\ Line(nm) \in Tokens /\ Line(nm) # Line("'sp")
      /\ Line(nm).kind \in {"ejector", "last", "line"}
  BY TokensAre
<1>2. Turns(g, p)
  BY <1>1, PushOneTurns
<1>3. p \in FS
  BY <1>2 DEF Turns, Keeps
<1> HIDE DEF p
<1>4. Turns(p, BeginPage(p))
  BY <1>3, BeginPageTurns
<1>5. Does(g, BeginPage(p))
  BY <1>2, <1>4, TurnsTransitive, TurnsDoes
<1> QED
  BY <1>5 DEF p

LEMMA TextLineDoes ==
    ASSUME NEW g \in FS, NEW nm \in {"word", "long"}
    PROVE  Does(g, Text(g, nm))
<1> DEFINE n == IF nm = "word" THEN 1 ELSE 5
           words == [i \in 1..n |-> g.collected + i]
           h == [g EXCEPT !.collected = g.collected + n,
                          !.line = g.line \o words]
           broken == PossiblyBreakLine(h)
           out == EnvOutput([h EXCEPT !.line = <<>>], h.line)
<1>1. nm \in InputLines /\ nm # "'sp"
  BY DEF InputLines
<1>2. Does(g, BeginPage(PushInput(g, <<Line(nm)>>)))
  BY <1>1, PushLineDoes
<1>3. g.collected \in Nat /\ g.line \in Seq(Nat) /\ n \in Nat
  BY DEF FS
<1>4. Text(g, nm) = IF g.before > 0 THEN BeginPage(PushInput(g, <<Line(nm)>>))
                    ELSE IF g.filling THEN broken ELSE out
  BY Zenon DEF Text
<1> HIDE DEF n
<1>5. words \in Seq(Nat)
  BY <1>3
<1> HIDE DEF words
<1>6. g.line \o words \in Seq(Nat) /\ g.collected + n \in Nat
  BY <1>3, <1>5
<1>7. TextIn(g, h)
  BY <1>6, CollectedIn
<1>8. Does(g, h) /\ h \in FS
  BY <1>7, TextDoes DEF TextIn
<1> HIDE DEF h
<1>9. h.line \in Seq(Nat) /\ <<>> \in Seq(Nat)
  BY <1>8 DEF FS
<1>10. Does(h, broken) /\ Does(h, out)
  BY <1>8, <1>9, PossiblyBreakLineDoes, LineOutDoes
<1>11. Does(g, broken) /\ Does(g, out)
  BY <1>8, <1>10, DoesTransitive
<1> HIDE DEF broken, out
<1> QED
  BY <1>2, <1>4, <1>11, Zenon

LEMMA BlankLineDoes ==
    ASSUME NEW g \in FS
    PROVE  Does(g, BlankLine(g))
<1> DEFINE d == DoBreak(g)
<1>1. Does(g, d)
  BY DoBreakDoes
<1>2. d \in FS
  BY <1>1, DoesIn
<1> HIDE DEF d
<1>3. Does(d, Space(d, 1, FALSE)) /\ Does(d, d)
  BY <1>2, SpaceTurns, TurnsDoes, DoesSame
<1>4. Does(d, SpaceUnlessSprung(d))
  BY <1>3, Zenon DEF SpaceUnlessSprung
<1>5. Does(g, SpaceUnlessSprung(d))
  BY <1>1, <1>4, DoesTransitive
<1> QED
  BY <1>5 DEF BlankLine, d

\* The ejection is asked for with its token on the input.
LEMMA AskEjection ==
    ASSUME NEW g \in FS, NEW d, Does(PushPageEjector(g), d)
    PROVE  /\ Does(g, SetEjecting(d)) /\ Does(g, EjectUnlessNoSpace(d))
<1> DEFINE p == PushPageEjector(g)
<1>1. /\ Turns(g, p) /\ p.status = g.status
      /\ Running(g) => Has(p.input, Ejectors)
  BY PushPageEjectorTurns
<1> HIDE DEF p
<1>2. Does(p, d) /\ Does(g, p)
  BY <1>1, TurnsDoes DEF p
<1>3. d \in FS /\ Does(g, d)
  BY <1>2, DoesIn, DoesTransitive
<1>4. Running(d) => Has(d.input, Ejectors)
  BY <1>1, <1>2, Zenon DEF Does, Goes, Covers, Running
<1>5. Does(d, SetEjecting(d))
  BY <1>3, <1>4, SetEjectingDoes
<1>6. Does(g, SetEjecting(d))
  BY <1>3, <1>5, DoesTransitive
<1> QED
  BY <1>3, <1>6 DEF EjectUnlessNoSpace

LEMMA BeginPageRequestDoes ==
    ASSUME NEW g \in FS, NEW breaks \in BOOLEAN
    PROVE  Does(g, BeginPageRequest(g, breaks))
<1> DEFINE p == PushPageEjector(g)
<1>1. p \in FS
  BY PushPageEjectorTurns DEF Turns, Keeps
<1>2. Does(p, BeginPage(p)) /\ Does(p, DoBreak(p)) /\ Does(p, p)
  BY <1>1, BeginPageTurns, TurnsDoes, DoBreakDoes, DoesSame
<1>3. Does(g, BeginPage(g)) /\ Does(g, g)
  BY BeginPageTurns, TurnsDoes, DoesSame
<1>4. Does(g, SetEjecting(BeginPage(p))) /\ Does(g, EjectUnlessNoSpace(DoBreak(p)))
      /\ Does(g, EjectUnlessNoSpace(p))
  BY <1>2, AskEjection
<1>5. Does(g, EjectFirstPage(g, breaks))
  BY <1>3, <1>4, Zenon DEF EjectFirstPage
<1> QED
  BY <1>4, <1>5, Zenon DEF BeginPageRequest

LEMMA TitleDoes ==
    ASSUME NEW g \in FS
    PROVE  Does(g, Title(g))
<1>1. "tl" \in InputLines /\ "tl" # "'sp"
  BY DEF InputLines
<1>2. Does(g, BeginPage(PushInput(g, <<Line("tl")>>))) /\ Does(g, OutputTitle(g))
  BY <1>1, PushLineDoes, OutputTitleDoes
<1> QED
  BY <1>2, Zenon DEF Title

LEMMA FillingDoes ==
    ASSUME NEW g \in FS, NEW nm \in {"br", "fi", "nf"}
    PROVE  Does(g, Filling(DoBreak(g), nm))
<1> DEFINE d == DoBreak(g)
<1>1. Does(g, d)
  BY DoBreakDoes
<1>2. d \in FS
  BY <1>1, DoesIn
<1> HIDE DEF d
<1>3. Does(d, [d EXCEPT !.filling = TRUE]) /\ Does(d, [d EXCEPT !.filling = FALSE])
      /\ Does(d, d)
  BY <1>2, FillingIn, TextDoes, DoesSame
<1>4. Does(d, Filling(d, nm))
  BY <1>3 DEF Filling
<1>5. Does(g, Filling(d, nm))
  BY <1>1, <1>4, DoesTransitive
<1> QED
  BY <1>5 DEF d

\* An input line other than ex.
LEMMA InterpretGoes ==
    ASSUME NEW g \in FS, Running(g), OnPage(g), NEW nm \in InputLines, nm # "ex"
    PROVE  /\ Goes(g, Interpret(g, nm))
           /\ g.before # 1 \/ nm # "'sp" => Does(g, Interpret(g, nm))
<1>1. CASE nm \in {"word", "long"}
  <2>1. Interpret(g, nm) = Text(g, nm)
    BY <1>1 DEF Interpret
  <2> QED
    BY <1>1, <2>1, TextLineDoes DEF Does
<1>2. CASE nm = "blank"
  <2>1. Interpret(g, nm) = BlankLine(g)
    BY <1>2 DEF Interpret
  <2> QED
    BY <2>1, BlankLineDoes DEF Does
<1>3. CASE nm \in {"br", "fi", "nf"}
  <2>1. Interpret(g, nm) = Filling(DoBreak(g), nm)
    BY <1>3 DEF Interpret
  <2> QED
    BY <1>3, <2>1, FillingDoes DEF Does
<1>4. CASE nm \in {"sp", "'sp"}
  <2> DEFINE h == SpaceRequest(g, nm = "sp")
  <2>1. Interpret(g, nm) = h
    BY <1>4 DEF Interpret
  <2>2. (nm = "sp") \in BOOLEAN
    OBVIOUS
  <2>3. Goes(g, h) /\ ((nm = "sp") \/ g.before # 1 => Brief(h))
    BY <2>2, SpaceRequestGoes
  <2> QED
    BY <1>4, <2>1, <2>3 DEF Does
<1>5. CASE nm \in {"bp", "'bp"}
  <2>1. Interpret(g, nm) = BeginPageRequest(g, nm = "bp")
    BY <1>5 DEF Interpret
  <2>2. (nm = "bp") \in BOOLEAN
    OBVIOUS
  <2> QED
    BY <2>1, <2>2, BeginPageRequestDoes DEF Does
<1>6. CASE nm = "ne"
  <2>1. Interpret(g, nm) = Need(g, 2)
    BY <1>6 DEF Interpret
  <2> QED
    BY <2>1, NeedDoes DEF Does
<1>7. CASE nm = "ns"
  <2>1. Interpret(g, nm) = [g EXCEPT !.noSpace = TRUE]
    BY <1>7 DEF Interpret
  <2> QED
    BY <2>1, NoSpaceTurns, TurnsDoes DEF Does
<1>8. CASE nm = "tl"
  <2>1. Interpret(g, nm) = Title(g)
    BY <1>8 DEF Interpret
  <2> QED
    BY <2>1, TitleDoes DEF Does
<1> QED
  BY <1>1, <1>2, <1>3, <1>4, <1>5, <1>6, <1>7, <1>8 DEF InputLines

-----------------------------------------------------------------------------
\* An item that is read: p is the formatter without it.

Reads(item, p, q) ==
    /\ q \in FS /\ q.phase = p.phase /\ q.eoiFinished = p.eoiFinished
    /\ q.before = 1 => p.before = 1
    /\ OnPage(q)
    /\ Brief(p) /\ (p.before # 1 \/ item # Line("'sp")) => Brief(q)
    /\ Running(q) /\ q.before = 1 /\ item \in Harmless
          /\ p.input \in Seq(Harmless) => q.input \in Seq(Harmless)

\* What the traps and the ejection under way depend on: ex gives them up.
Balances(item, p, q) ==
    /\ \A n \in Nat : Nested(p.input, n) /\ Steps(item, n, p.depth) =>
          Nested(q.input, q.depth)
    /\ q.ejecting /\ Running(q) =>
          \/ Has(q.input, Ejectors)
          \/ p.ejecting /\ item.kind \notin Ejectors /\ ~Has(p.input, Ejectors)

Follows(item, p, q) ==
    /\ Reads(item, p, q)
    /\ IF item = Line("ex") THEN q.input = <<>> ELSE Balances(item, p, q)

LEMMA GoesReads ==
    ASSUME NEW p \in FS, OnPage(p), NEW q, Goes(p, q), NEW item \in Tokens,
           item.kind \notin {"begin", "end"}, item # Line("ex"),
           p.before # 1 \/ item # Line("'sp") => Does(p, q),
           item.kind \in Ejectors /\ q.ejecting /\ Running(q) =>
              Has(q.input, Ejectors)
    PROVE  Follows(item, p, q)
<1>1. Reads(item, p, q)
  BY Zenon DEF Reads, Goes, Does
<1>2. p.depth \in Nat
  BY DEF FS
<1>3. ASSUME NEW n \in Nat, Nested(p.input, n), Steps(item, n, p.depth)
      PROVE  Nested(q.input, q.depth)
  <2>1. n = p.depth
    BY <1>3 DEF Steps
  <2> QED
    BY <1>2, <1>3, <2>1, Zenon DEF Goes, Covers
<1>4. q.ejecting /\ Running(q) =>
        \/ Has(q.input, Ejectors)
        \/ p.ejecting /\ item.kind \notin Ejectors /\ ~Has(p.input, Ejectors)
  BY Zenon DEF Goes, Covers
<1>5. Balances(item, p, q)
  BY <1>3, <1>4, Zenon DEF Balances
<1> QED
  BY <1>1, <1>5 DEF Follows

LEMMA DepthIn ==
    ASSUME NEW g \in FS, NEW n \in Nat
    PROVE  LET h == [g EXCEPT !.depth = n]
           IN  /\ h \in FS /\ h.depth = n /\ h.input = g.input
               /\ h.status = g.status /\ h.ejecting = g.ejecting
               /\ h.phase = g.phase /\ h.before = g.before
               /\ h.eoiFinished = g.eoiFinished /\ h.vpos = g.vpos
               /\ h.postponing = g.postponing /\ h.postponed = g.postponed
<1> DEFINE h == [g EXCEPT !.depth = n]
<1>1. h \in FS
  BY Zenon DEF FS
<1>2. /\ h.depth = n /\ h.input = g.input
      /\ h.status = g.status /\ h.ejecting = g.ejecting
      /\ h.phase = g.phase /\ h.before = g.before
      /\ h.eoiFinished = g.eoiFinished /\ h.vpos = g.vpos
      /\ h.postponing = g.postponing /\ h.postponed = g.postponed
  BY DEF FS
<1> QED
  BY <1>1, <1>2

LEMMA BeginIsRead ==
    ASSUME NEW p \in FS, OnPage(p)
    PROVE  Follows(BeginTrap, p, [p EXCEPT !.depth = p.depth + 1])
<1> DEFINE q == [p EXCEPT !.depth = p.depth + 1]
<1>1. p.depth \in Nat /\ p.depth + 1 \in Nat
  BY SMTT(30) DEF FS
<1>2. /\ q \in FS /\ q.depth = p.depth + 1 /\ q.input = p.input
      /\ q.status = p.status /\ q.ejecting = p.ejecting
      /\ q.phase = p.phase /\ q.before = p.before
      /\ q.eoiFinished = p.eoiFinished /\ q.vpos = p.vpos
      /\ q.postponing = p.postponing /\ q.postponed = p.postponed
  BY <1>1, DepthIn
<1> HIDE DEF q
<1>3. BeginTrap.kind = "begin" /\ BeginTrap # Line("ex")
      /\ BeginTrap.kind \notin Ejectors
  BY TokensAre DEF Ejectors
<1>4. Reads(BeginTrap, p, q)
  BY <1>2, Zenon DEF Reads, OnPage, Brief, Running
<1>5. ASSUME NEW n \in Nat, Nested(p.input, n), Steps(BeginTrap, n, p.depth)
      PROVE  Nested(q.input, q.depth)
  BY <1>2, <1>3, <1>5 DEF Steps
<1>6. Balances(BeginTrap, p, q)
  BY <1>2, <1>3, <1>5, Zenon DEF Balances
<1> QED
  BY <1>3, <1>4, <1>6 DEF Follows, q

LEMMA EndIsRead ==
    ASSUME NEW p \in FS, OnPage(p)
    PROVE  Follows(EndTrap, p, EndOfTrap(p))
<1> DEFINE n == IF p.depth > 0 THEN p.depth - 1 ELSE 0
           h == [p EXCEPT !.depth = n]
           q == EndOfTrap(p)
<1>1. p.depth \in Nat /\ n \in Nat
  BY SMTT(30) DEF FS
<1>2. /\ h \in FS /\ h.depth = n /\ h.input = p.input
      /\ h.status = p.status /\ h.ejecting = p.ejecting
      /\ h.phase = p.phase /\ h.before = p.before
      /\ h.eoiFinished = p.eoiFinished /\ h.vpos = p.vpos
      /\ h.postponing = p.postponing /\ h.postponed = p.postponed
  BY <1>1, DepthIn
<1>3. q = IF h.depth = 0 THEN OutputPending(h) ELSE h
  BY Zenon DEF EndOfTrap
<1> HIDE DEF h, q
<1>4. Does(h, q)
  BY <1>2, <1>3, OutputPendingDoes, DoesSame
<1>5. EndTrap.kind = "end" /\ EndTrap # Line("ex")
      /\ EndTrap.kind \notin Ejectors
  BY TokensAre DEF Ejectors
<1>6. Reads(EndTrap, p, q)
  BY <1>2, <1>4, Zenon DEF Reads, Does, Goes, OnPage, Brief, Running
<1>7. ASSUME NEW m \in Nat, Nested(p.input, m), Steps(EndTrap, m, p.depth)
      PROVE  Nested(q.input, q.depth)
  <2>1. n = m
    BY <1>1, <1>5, <1>7 DEF Steps
  <2> HIDE DEF n
  <2> QED
    BY <1>1, <1>2, <1>4, <1>7, <2>1, Zenon DEF Does, Goes, Covers
<1>8. q.ejecting /\ Running(q) =>
        Has(q.input, Ejectors) \/ (p.ejecting /\ ~Has(p.input, Ejectors))
  BY <1>2, <1>4, Zenon DEF Does, Goes, Covers
<1>9. Balances(EndTrap, p, q)
  BY <1>5, <1>7, <1>8, Zenon DEF Balances
<1> QED
  BY <1>5, <1>6, <1>9 DEF Follows, q

LEMMA CallIsRead ==
    ASSUME NEW p \in FS, OnPage(p), NEW nm \in Macros,
           body \in [Macros -> Seq(InputLines)]
    PROVE  LET lines == [i \in DOMAIN body[nm] |-> Line(body[nm][i])]
           IN  Follows(Call(nm), p, PushInput(p, lines))
<1> DEFINE lines == [i \in DOMAIN body[nm] |-> Line(body[nm][i])]
           q == PushInput(p, lines)
<1>1. body[nm] \in Seq(InputLines) /\ p.input \in Seq(Tokens)
      /\ p.depth \in Nat
  BY DEF FS
<1>2. Call(nm) \in Tokens /\ Call(nm).kind = "call" /\ Call(nm).nm = nm
      /\ Call(nm) # Line("ex") /\ Call(nm).kind \notin Ejectors
  BY TokensAre DEF Ejectors
<1>3. lines \in Seq(Tokens) /\ Covers(p.input, lines \o p.input)
  BY <1>1, CoversLines
<1>4. ASSUME Call(nm) \in Harmless PROVE lines \in Seq(Harmless)
  <2>1. \A i \in DOMAIN body[nm] : body[nm][i] # "'sp"
                                   /\ body[nm][i] \in InputLines
    BY <1>1, <1>2, <1>4 DEF Harmless
  <2>2. \A nm1 \in InputLines : nm1 # "'sp" => Line(nm1) # Line("'sp")
    BY TokensAre
  <2>3. \A nm1 \in InputLines : nm1 # "'sp" => Line(nm1) \in Harmless
    <3>1. \A nm1 \in InputLines : Line(nm1).kind # "call" /\ Line(nm1) \in Tokens
      BY TokensAre
    <3> QED
      BY <2>2, <3>1, OneHarmless
  <2>4. DOMAIN body[nm] = 1..Len(body[nm]) /\ Len(body[nm]) \in Nat
    BY <1>1
  <2> QED
    BY <2>1, <2>3, <2>4
<1> HIDE DEF lines
<1>5. /\ q \in FS /\ q.input = lines \o p.input /\ q.status = p.status
      /\ q.ejecting = p.ejecting /\ q.before = p.before /\ q.vpos = p.vpos
      /\ Stays(p, q)
  BY <1>3, PushInputIs DEF Covers
<1> HIDE DEF q
<1>6. Call(nm) \in Harmless /\ p.input \in Seq(Harmless) =>
        q.input \in Seq(Harmless)
  BY <1>4, <1>5
<1>7. Reads(Call(nm), p, q)
  BY <1>5, <1>6, Zenon DEF Reads, Stays, OnPage, Brief, Running
<1>8. ASSUME NEW n \in Nat, Nested(p.input, n), Steps(Call(nm), n, p.depth)
      PROVE  Nested(q.input, q.depth)
  <2>1. n = p.depth
    BY <1>2, <1>8 DEF Steps
  <2> QED
    BY <1>1, <1>3, <1>5, <1>8, <2>1, Zenon DEF Stays, Covers
<1>9. q.ejecting /\ Running(q) =>
        Has(q.input, Ejectors) \/ (p.ejecting /\ ~Has(p.input, Ejectors))
  BY <1>3, <1>5, Zenon DEF Covers
<1>10. Balances(Call(nm), p, q)
  BY <1>2, <1>8, <1>9, Zenon DEF Balances
<1> QED
  BY <1>2, <1>7, <1>10 DEF Follows, q, lines

LEMMA SeenLastIn ==
    ASSUME NEW g \in FS
    PROVE  TextIn(g, [g EXCEPT !.seenLast = TRUE])
<1> DEFINE h == [g EXCEPT !.seenLast = TRUE]
<1>1. TRUE \in BOOLEAN
  OBVIOUS
<1>2. h \in FS
  BY <1>1, ZenonT(30) DEF FS
<1>3. Same(g, h) /\ h.postponing = g.postponing /\ h.postponed = g.postponed
  BY DEF FS, Same
<1> QED
  BY <1>2, <1>3 DEF TextIn

LEMMA EjectorIsRead ==
    ASSUME NEW p \in FS, OnPage(p)
    PROVE  /\ Follows(PageEjector, p, ContinuePageEject(p))
           /\ Follows(LastPageEjector, p,
                      ContinuePageEject([p EXCEPT !.seenLast = TRUE]))
<1> DEFINE h == [p EXCEPT !.seenLast = TRUE]
<1>1. TextIn(p, h)
  BY SeenLastIn
<1>2. Does(p, h) /\ h \in FS
  BY <1>1, TextDoes DEF TextIn
<1> HIDE DEF h
<1>3. /\ PageEjector \in Tokens /\ LastPageEjector \in Tokens
      /\ PageEjector.kind \notin {"begin", "end"}
      /\ LastPageEjector.kind \notin {"begin", "end"}
      /\ PageEjector # Line("ex") /\ LastPageEjector # Line("ex")
      /\ PageEjector # Line("'sp") /\ LastPageEjector # Line("'sp")
  BY TokensAre
<1>4. /\ Does(p, ContinuePageEject(p)) /\ Does(h, ContinuePageEject(h))
      /\ ContinuePageEject(p).ejecting /\ Running(ContinuePageEject(p)) =>
            Has(ContinuePageEject(p).input, Ejectors)
      /\ ContinuePageEject(h).ejecting /\ Running(ContinuePageEject(h)) =>
            Has(ContinuePageEject(h).input, Ejectors)
  BY <1>2, ContinueDoes
<1>5. Does(p, ContinuePageEject(h))
  BY <1>2, <1>4, DoesTransitive
<1>6. Goes(p, ContinuePageEject(p)) /\ Goes(p, ContinuePageEject(h))
  BY <1>4, <1>5 DEF Does
<1>7. Follows(PageEjector, p, ContinuePageEject(p))
  BY <1>3, <1>4, <1>6, GoesReads
<1>8. Follows(LastPageEjector, p, ContinuePageEject(h))
  BY <1>3, <1>4, <1>5, <1>6, GoesReads
<1> QED
  BY <1>7, <1>8 DEF h

LEMMA EmptiedIn ==
    ASSUME NEW g \in FS
    PROVE  LET h == [g EXCEPT !.input = <<>>]
           IN  /\ h \in FS /\ h.input = <<>>
               /\ h.status = g.status /\ h.ejecting = g.ejecting
               /\ h.phase = g.phase /\ h.before = g.before
               /\ h.eoiFinished = g.eoiFinished /\ h.vpos = g.vpos
               /\ h.postponing = g.postponing /\ h.postponed = g.postponed
<1> DEFINE h == [g EXCEPT !.input = <<>>]
<1>1. <<>> \in Seq(Tokens)
  OBVIOUS
<1>2. h \in FS
  BY <1>1, ZenonT(30) DEF FS
<1>3. /\ h.input = <<>>
      /\ h.status = g.status /\ h.ejecting = g.ejecting
      /\ h.phase = g.phase /\ h.before = g.before
      /\ h.eoiFinished = g.eoiFinished /\ h.vpos = g.vpos
      /\ h.postponing = g.postponing /\ h.postponed = g.postponed
  BY DEF FS
<1> QED
  BY <1>2, <1>3

LEMMA ExIsRead ==
    ASSUME NEW p \in FS, OnPage(p)
    PROVE  Follows(Line("ex"), p, [p EXCEPT !.input = <<>>])
<1> DEFINE q == [p EXCEPT !.input = <<>>]
<1>1. /\ q \in FS /\ q.input = <<>>
      /\ q.status = p.status /\ q.ejecting = p.ejecting
      /\ q.phase = p.phase /\ q.before = p.before
      /\ q.eoiFinished = p.eoiFinished /\ q.vpos = p.vpos
      /\ q.postponing = p.postponing /\ q.postponed = p.postponed
  BY EmptiedIn
<1> HIDE DEF q
<1>2. <<>> \in Seq(Harmless)
  OBVIOUS
<1>3. Reads(Line("ex"), p, q)
  BY <1>1, <1>2, Zenon DEF Reads, OnPage, Brief, Running
<1> QED
  BY <1>1, <1>3 DEF Follows, q

\* Process, whatever the item.
LEMMA ProcessFollows ==
    ASSUME NEW p \in FS, Running(p), OnPage(p), NEW item \in Tokens,
           body \in [Macros -> Seq(InputLines)]
    PROVE  Follows(item, p, Process(p, item))
<1>1. CASE item = BeginTrap /\ item.kind = "begin"
  <2>1. Process(p, item) = [p EXCEPT !.depth = p.depth + 1]
    BY <1>1 DEF Process
  <2> QED
    BY <1>1, <2>1, BeginIsRead
<1>2. CASE item = EndTrap /\ item.kind = "end"
  <2>1. Process(p, item) = EndOfTrap(p)
    BY <1>2 DEF Process
  <2> QED
    BY <1>2, <2>1, EndIsRead
<1>3. CASE item = PageEjector /\ item.kind = "ejector"
  <2>1. Process(p, item) = ContinuePageEject(p)
    BY <1>3 DEF Process
  <2> QED
    BY <1>3, <2>1, EjectorIsRead
<1>4. CASE item = LastPageEjector /\ item.kind = "last"
  <2>1. Process(p, item) = ContinuePageEject([p EXCEPT !.seenLast = TRUE])
    BY <1>4 DEF Process
  <2> QED
    BY <1>4, <2>1, EjectorIsRead
<1>5. CASE item.kind = "call" /\ item.nm \in Macros /\ item = Call(item.nm)
  <2> DEFINE lines == [i \in DOMAIN body[item.nm] |-> Line(body[item.nm][i])]
  <2>1. Process(p, item) = PushInput(p, lines)
    BY <1>5 DEF Process
  <2>2. Follows(Call(item.nm), p, PushInput(p, lines))
    BY <1>5, CallIsRead
  <2> QED
    BY <1>5, <2>1, <2>2, Zenon
<1>6. CASE item.kind = "line" /\ item.nm \in InputLines /\ item = Line(item.nm)
  <2>1. Process(p, item) = Interpret(p, item.nm)
    BY <1>6 DEF Process
  <2>2. CASE item.nm = "ex"
    <3>1. Interpret(p, "ex") = [p EXCEPT !.input = <<>>]
      BY DEF Interpret
    <3> QED
      BY <1>6, <2>1, <2>2, <3>1, ExIsRead, Zenon
  <2>3. CASE item.nm # "ex"
    <3> DEFINE nm == item.nm
               q == Interpret(p, nm)
    <3>1. /\ Goes(p, q)
          /\ p.before # 1 \/ nm # "'sp" => Does(p, q)
      BY <1>6, <2>3, InterpretGoes
    <3>2. item # Line("ex") /\ item.kind \notin {"begin", "end"}
          /\ item.kind \notin Ejectors /\ (item # Line("'sp") => nm # "'sp")
      BY <1>6, <2>3, TokensAre DEF Ejectors
    <3> HIDE DEF q, nm
    <3>3. Follows(item, p, q)
      BY <3>1, <3>2, GoesReads
    <3> QED
      BY <2>1, <3>3 DEF q, nm
  <2> QED
    BY <2>2, <2>3
<1> QED
  BY <1>1, <1>2, <1>3, <1>4, <1>5, <1>6, KindsOfTokens, Zenon

-----------------------------------------------------------------------------
\* The inductive invariant.  What the runs check follows from it: the ends of
\* traps are nested, an ejection under way has its token on the input unless
\* ex gave it up, and, when 'sp cannot be read before the first page, no trap
\* stays postponed.

BracketsMatch ==
    Running(f) /\ (f.input # <<>> \/ left > 0) => Nested(f.input, f.depth)

EjectionHasToken ==
    Running(f) /\ f.ejecting =>
       \/ Has(f.input, Ejectors)
       \/ left = 0 /\ (~f.eoiFinished \/ f.input = <<>>)

Phased ==
    /\ f.eoiFinished => f.phase \in {"last_page", "trailer"}
    /\ left > 0 => f.phase = "document"

IInv ==
    /\ f \in FS /\ OnPage(f)
    /\ \E s \in Setups : body = s.body
    /\ em \in {End, NoMacro} /\ left \in 0..MaxLines
    /\ BracketsMatch /\ EjectionHasToken /\ Phased

\* Documents and end macros without the request that postpones traps for good
\* when it is read before the first page.
Careful ==
    /\ "'sp" \notin Lines
    /\ \A s \in Setups : \A i \in DOMAIN s.body[End] : s.body[End][i] # "'sp"

NoneWaits ==
    /\ Brief(f)
    /\ Running(f) /\ f.before = 1 => f.input \in Seq(Harmless)

LEMMA BodyTyped ==
    ASSUME \E s \in Setups : body = s.body
    PROVE  body \in [Macros -> Seq(InputLines)]
BY FormatterAssumption

LEMMA InputIn ==
    ASSUME NEW g \in FS, NEW s \in Seq(Tokens)
    PROVE  LET h == [g EXCEPT !.input = s]
           IN  /\ h \in FS /\ h.input = s /\ h.depth = g.depth
               /\ h.status = g.status /\ h.ejecting = g.ejecting
               /\ h.phase = g.phase /\ h.before = g.before
               /\ h.eoiFinished = g.eoiFinished /\ h.vpos = g.vpos
               /\ h.postponing = g.postponing /\ h.postponed = g.postponed
<1> DEFINE h == [g EXCEPT !.input = s]
<1>1. h \in FS
  BY Zenon DEF FS
<1>2. /\ h.input = s /\ h.depth = g.depth
      /\ h.status = g.status /\ h.ejecting = g.ejecting
      /\ h.phase = g.phase /\ h.before = g.before
      /\ h.eoiFinished = g.eoiFinished /\ h.vpos = g.vpos
      /\ h.postponing = g.postponing /\ h.postponed = g.postponed
  BY DEF FS
<1> QED
  BY <1>1, <1>2

LEMMA SprungIn ==
    ASSUME NEW g \in FS
    PROVE  LET h == [g EXCEPT !.sprung = FALSE]
           IN  /\ h \in FS /\ h.input = g.input /\ h.depth = g.depth
               /\ h.status = g.status /\ h.ejecting = g.ejecting
               /\ h.phase = g.phase /\ h.before = g.before
               /\ h.eoiFinished = g.eoiFinished /\ h.vpos = g.vpos
               /\ h.postponing = g.postponing /\ h.postponed = g.postponed
<1> DEFINE h == [g EXCEPT !.sprung = FALSE]
<1>1. h \in FS
  BY ZenonT(30) DEF FS
<1>2. /\ h.input = g.input /\ h.depth = g.depth
      /\ h.status = g.status /\ h.ejecting = g.ejecting
      /\ h.phase = g.phase /\ h.before = g.before
      /\ h.eoiFinished = g.eoiFinished /\ h.vpos = g.vpos
      /\ h.postponing = g.postponing /\ h.postponed = g.postponed
  BY DEF FS
<1> QED
  BY <1>1, <1>2

\* The formatter without the item that is read next.
Popped == [f EXCEPT !.input = IF @ = <<>> THEN @ ELSE Tail(@)]

LEMMA PoppedIs ==
    ASSUME IInv, Running(f), NEW item \in NextItems
    PROVE  /\ item \in Tokens /\ Popped \in FS
           /\ Running(Popped) /\ OnPage(Popped)
           /\ Popped.phase = f.phase /\ Popped.before = f.before
           /\ Popped.eoiFinished = f.eoiFinished
           /\ (Brief(f) => Brief(Popped))
           /\ f.input = <<>> => left > 0
           /\ \E n \in Nat : Nested(Popped.input, n)
                             /\ Steps(item, n, Popped.depth)
           /\ Popped.ejecting => \/ item.kind \in Ejectors
                                 \/ Has(Popped.input, Ejectors)
                                 \/ left = 0 /\ ~f.eoiFinished
           /\ f.input \in Seq(Harmless) =>
                 /\ Popped.input \in Seq(Harmless)
                 /\ item \in Harmless \/ item \in {Line(nm) : nm \in Lines}
<1> DEFINE s == IF f.input = <<>> THEN f.input ELSE Tail(f.input)
           p == [f EXCEPT !.input = s]
<1>1. f \in FS /\ f.input \in Seq(Tokens) /\ f.depth \in Nat
  BY DEF IInv, FS
<1>2. s \in Seq(Tokens)
  BY <1>1
<1>3. Popped = p
  BY Zenon DEF Popped
<1> HIDE DEF s
<1>4. /\ p \in FS /\ p.input = s /\ p.depth = f.depth
      /\ p.status = f.status /\ p.ejecting = f.ejecting
      /\ p.phase = f.phase /\ p.before = f.before
      /\ p.eoiFinished = f.eoiFinished /\ p.vpos = f.vpos
      /\ p.postponing = f.postponing /\ p.postponed = f.postponed
  BY <1>1, <1>2, InputIn
<1> HIDE DEF p
<1>5. Running(p) /\ OnPage(p) /\ (Brief(f) => Brief(p))
  BY <1>4, Zenon DEF IInv, Running, OnPage, Brief
<1>6. CASE f.input = <<>>
  <2>1. s = <<>> /\ left > 0
    BY <1>6 DEF s, NextItems
  <2>2. PICK nm \in Lines : item = Line(nm)
    BY <1>6 DEF NextItems
  <2>3. item \in Tokens /\ item.kind = "line"
    BY <2>2, Parameters, TokensAre
  <2>4. Nested(<<>>, f.depth)
    BY <1>6, <2>1 DEF IInv, BracketsMatch
  <2>5. Steps(item, f.depth, f.depth)
    BY <2>3 DEF Steps
  <2>6. \E n \in Nat : Nested(p.input, n) /\ Steps(item, n, p.depth)
    BY <1>1, <1>4, <2>1, <2>4, <2>5
  <2>7. f.ejecting => Has(p.input, Ejectors) \/ (left = 0 /\ ~f.eoiFinished)
    BY <1>4, <1>6, <2>1 DEF IInv, EjectionHasToken
  <2>8. f.input \in Seq(Harmless) => p.input \in Seq(Harmless)
    BY <1>4, <1>6, <2>1
  <2>9. item \in {Line(nm1) : nm1 \in Lines}
    BY <2>2
  <2> QED
    BY <1>3, <1>4, <1>5, <2>1, <2>3, <2>6, <2>7, <2>8, <2>9, Zenon
<1>7. CASE f.input # <<>>
  <2>1. item = Head(f.input) /\ s = Tail(f.input)
    BY <1>7 DEF s, NextItems
  <2>2. item \in Tokens /\ s \in Seq(Tokens) /\ f.input = <<item>> \o s
    BY <1>1, <1>7, <2>1
  <2>3. Nested(f.input, f.depth)
    BY <1>7 DEF IInv, BracketsMatch
  <2>4. \E n \in Nat : Nested(s, n) /\ Steps(item, n, f.depth)
    BY <1>1, <1>7, <2>1, <2>3, NestedPop
  <2>5. Has(f.input, Ejectors) => item.kind \in Ejectors \/ Has(s, Ejectors)
    BY <2>2, HasOnTop
  <2>6. f.ejecting => \/ Has(f.input, Ejectors)
                      \/ left = 0 /\ ~f.eoiFinished
    BY <1>7 DEF IInv, EjectionHasToken
  <2>7. f.input \in Seq(Harmless) => s \in Seq(Harmless) /\ item \in Harmless
    BY <1>7, <2>1
  <2> QED
    BY <1>3, <1>4, <1>5, <1>7, <2>2, <2>4, <2>5, <2>6, <2>7, Zenon
<1> QED
  BY <1>6, <1>7

LEMMA ReadInvariant ==
    ASSUME IInv, NEW item \in NextItems, ReadInput(item)
    PROVE  IInv' /\ (Careful /\ NoneWaits => NoneWaits')
<1> DEFINE p == Popped
           q == Process(p, item)
           h == [q EXCEPT !.sprung = FALSE]
<1>1. Running(f) /\ body' = body /\ em' = em
      /\ left' = IF item = Line("ex") THEN 0
                 ELSE IF f.input = <<>> THEN left - 1 ELSE left
  BY DEF ReadInput, Bounded
<1>2. f' = h
  BY Zenon DEF ReadInput, Popped
<1>3. /\ item \in Tokens /\ p \in FS
      /\ Running(p) /\ OnPage(p)
      /\ p.phase = f.phase /\ p.before = f.before
      /\ p.eoiFinished = f.eoiFinished
      /\ (Brief(f) => Brief(p))
      /\ f.input = <<>> => left > 0
  BY <1>1, PoppedIs
<1>4. PICK n \in Nat : Nested(p.input, n) /\ Steps(item, n, p.depth)
  BY <1>1, PoppedIs
<1>5. /\ p.ejecting => \/ item.kind \in Ejectors
                       \/ Has(p.input, Ejectors)
                       \/ left = 0 /\ ~f.eoiFinished
      /\ f.input \in Seq(Harmless) =>
            /\ p.input \in Seq(Harmless)
            /\ item \in Harmless \/ item \in {Line(nm) : nm \in Lines}
  BY <1>1, PoppedIs
<1> HIDE DEF p
<1>6. Follows(item, p, q)
  BY <1>3, ProcessFollows, BodyTyped DEF IInv
<1> HIDE DEF q
<1>7. /\ h \in FS /\ h.input = q.input /\ h.depth = q.depth
      /\ h.status = q.status /\ h.ejecting = q.ejecting
      /\ h.phase = q.phase /\ h.before = q.before
      /\ h.eoiFinished = q.eoiFinished /\ h.vpos = q.vpos
      /\ h.postponing = q.postponing /\ h.postponed = q.postponed
  <2>1. q \in FS
    BY <1>6 DEF Follows, Reads
  <2> QED
    BY <2>1, SprungIn
<1> HIDE DEF h
<1>8. OnPage(h)
  BY <1>6, <1>7, Zenon DEF Follows, Reads, OnPage, Running
<1>9. left \in 0..MaxLines /\ left' \in 0..MaxLines
      /\ (left' > 0 => left > 0) /\ (left = 0 => left' = 0)
  <2>1. MaxLines \in Nat /\ left \in 0..MaxLines /\ (f.input = <<>> => left > 0)
    BY <1>3, FormatterAssumption DEF IInv
  <2> QED
    BY <1>1, <2>1
<1>10. (Running(f) /\ (f.input # <<>> \/ left > 0) => Nested(f.input, f.depth))'
  <2>1. SUFFICES ASSUME h.input # <<>> \/ left' > 0
                 PROVE  Nested(h.input, h.depth)
    BY <1>2
  <2>2. item # Line("ex")
    BY <1>1, <1>6, <1>7, <2>1 DEF Follows
  <2> QED
    BY <1>4, <1>6, <1>7, <2>2, Zenon DEF Follows, Balances
<1>11. (Running(f) /\ f.ejecting =>
          \/ Has(f.input, Ejectors)
          \/ left = 0 /\ (~f.eoiFinished \/ f.input = <<>>))'
  <2>1. SUFFICES ASSUME Running(h), h.ejecting, ~Has(h.input, Ejectors)
                 PROVE  left' = 0 /\ (~h.eoiFinished \/ h.input = <<>>)
    BY <1>2
  <2>2. CASE item = Line("ex")
    BY <1>1, <1>6, <1>7, <2>2 DEF Follows
  <2>3. CASE item # Line("ex")
    <3>1. Running(q) /\ q.ejecting /\ ~Has(q.input, Ejectors)
      BY <1>7, <2>1, Zenon DEF Running
    <3>2. p.ejecting /\ item.kind \notin Ejectors /\ ~Has(p.input, Ejectors)
      BY <1>6, <2>3, <3>1, Zenon DEF Follows, Balances
    <3>3. left = 0 /\ ~f.eoiFinished
      BY <1>5, <3>2
    <3>4. h.eoiFinished = f.eoiFinished
      BY <1>3, <1>6, <1>7, Zenon DEF Follows, Reads
    <3> QED
      BY <1>9, <3>3, <3>4
  <2> QED
    BY <2>2, <2>3
<1>12. (/\ f.eoiFinished => f.phase \in {"last_page", "trailer"}
        /\ left > 0 => f.phase = "document")'
  <2>1. h.eoiFinished = f.eoiFinished /\ h.phase = f.phase
    BY <1>3, <1>6, <1>7, Zenon DEF Follows, Reads
  <2> QED
    BY <1>2, <1>9, <2>1 DEF IInv, Phased
<1>13. IInv'
  <2>1. f' \in FS /\ OnPage(f')
    BY <1>2, <1>7, <1>8
  <2>2. BracketsMatch' /\ EjectionHasToken' /\ Phased'
    BY <1>10, <1>11, <1>12 DEF BracketsMatch, EjectionHasToken, Phased
  <2>3. (\E s \in Setups : body = s.body)' /\ (em \in {End, NoMacro})'
    BY <1>1 DEF IInv
  <2> QED
    BY <1>9, <2>1, <2>2, <2>3 DEF IInv
<1>14. ASSUME Careful, NoneWaits PROVE NoneWaits'
  <2>1. f.before = 1 => item \in Harmless /\ p.input \in Seq(Harmless)
    <3>1. \A nm \in Lines : Line(nm) \in Harmless
      <4>1. ASSUME NEW nm \in Lines PROVE Line(nm) \in Harmless
        <5>1. nm # "'sp" /\ nm \in InputLines
          BY <1>14, Parameters DEF Careful
        <5>2. Line(nm) \in Tokens /\ Line(nm) # Line("'sp")
              /\ Line(nm).kind # "call"
          BY <5>1, TokensAre
        <5> QED
          BY <5>2, OneHarmless
      <4> QED
        BY <4>1
    <3> QED
      BY <1>1, <1>5, <1>14, <3>1 DEF NoneWaits
  <2>2. p.before # 1 \/ item # Line("'sp")
    <3>1. item \in Harmless => item # Line("'sp")
      BY DEF Harmless
    <3> QED
      BY <1>3, <2>1, <3>1
  <2>3. Brief(q)
    BY <1>3, <1>6, <1>14, <2>2 DEF Follows, Reads, NoneWaits
  <2>4. Brief(h)
    BY <1>7, <2>3 DEF Brief
  <2>5. ASSUME Running(h), h.before = 1 PROVE h.input \in Seq(Harmless)
    <3>1. Running(q) /\ q.before = 1
      BY <1>7, <2>5 DEF Running
    <3>2. p.before = 1
      BY <1>6, <3>1 DEF Follows, Reads
    <3> QED
      BY <1>3, <1>6, <1>7, <2>1, <3>1, <3>2, Zenon DEF Follows, Reads
  <2>6. Harmless' = Harmless
    BY <1>1 DEF Harmless
  <2> QED
    BY <1>2, <2>4, <2>5, <2>6 DEF NoneWaits
<1> QED
  BY <1>13, <1>14

\* Each part of exit_troff begins with nothing on the input but what the
\* operation g pushed there.
LEMMA EnterInvariant ==
    ASSUME IInv, NEW from, Exits(from), NEW g \in FS, OnPage(g), NEW phase,
           phase \in {"end_macro", "final_break", "last_page", "trailer"},
           Enter(g, phase), Covers(<<>>, g.input),
           g.eoiFinished => phase \in {"last_page", "trailer"},
           g.ejecting /\ Running(g) =>
              Has(g.input, Ejectors) \/ ~g.eoiFinished
    PROVE  /\ IInv'
           /\ /\ Brief(g)
              /\ Running(g) /\ g.before = 1 => g.input \in Seq(Harmless)
              => NoneWaits'
<1> DEFINE h == [g EXCEPT !.phase = phase, !.depth = 0]
<1>1. f' = h /\ left' = 0 /\ body' = body /\ em' = em
  BY Zenon DEF Enter
<1>2. h \in FS
  <2>1. 0 \in Nat /\ phase \in {"document", "end_macro", "final_break",
                                "last_page", "trailer"}
    OBVIOUS
  <2> QED
    BY <2>1, ZenonT(30) DEF FS
<1>3. /\ h.input = g.input /\ h.depth = 0 /\ h.phase = phase
      /\ h.status = g.status /\ h.ejecting = g.ejecting
      /\ h.before = g.before
      /\ h.eoiFinished = g.eoiFinished /\ h.vpos = g.vpos
      /\ h.postponing = g.postponing /\ h.postponed = g.postponed
  BY DEF FS
<1> HIDE DEF h
<1>4. OnPage(h)
  BY <1>3, Zenon DEF OnPage, Running
<1>5. Nested(h.input, h.depth)
  <2>1. Nested(<<>>, 0) /\ 0 \in Nat
    BY NestedEmpty
  <2> QED
    BY <1>3, <2>1, Zenon DEF Covers
<1>6. Running(h) /\ h.ejecting => Has(h.input, Ejectors) \/ ~h.eoiFinished
  BY <1>3, Zenon DEF Running
<1>7. BracketsMatch' /\ EjectionHasToken' /\ Phased'
  <2>1. BracketsMatch'
    BY <1>1, <1>5 DEF BracketsMatch
  <2>2. EjectionHasToken'
    BY <1>1, <1>6 DEF EjectionHasToken
  <2>3. Phased'
    BY <1>1, <1>3 DEF Phased
  <2> QED
    BY <2>1, <2>2, <2>3
<1>8. IInv'
  <2>1. f' \in FS /\ OnPage(f')
    BY <1>1, <1>2, <1>4
  <2>2. (\E s \in Setups : body = s.body)' /\ (em \in {End, NoMacro})'
        /\ (left \in 0..MaxLines)'
    <3>1. 0 \in 0..MaxLines
      BY FormatterAssumption
    <3> QED
      BY <1>1, <3>1 DEF IInv
  <2> QED
    BY <1>7, <2>1, <2>2 DEF IInv
<1>9. ASSUME Brief(g),
             Running(g) /\ g.before = 1 => g.input \in Seq(Harmless)
      PROVE  NoneWaits'
  <2>1. Harmless' = Harmless
    BY <1>1 DEF Harmless
  <2>2. Brief(h) /\ (Running(h) /\ h.before = 1 => h.input \in Seq(Harmless))
    BY <1>3, <1>9 DEF Brief, Running
  <2> QED
    BY <1>1, <2>1, <2>2 DEF NoneWaits
<1> QED
  BY <1>8, <1>9

LEMMA ExitsFacts ==
    ASSUME IInv, NEW from, Exits(from)
    PROVE  /\ f \in FS /\ Running(f) /\ OnPage(f) /\ f.input = <<>>
           /\ f.phase = from /\ <<>> \in Seq(Tokens) /\ <<>> \in Seq(Harmless)
           /\ from \notin {"last_page", "trailer"} => ~f.eoiFinished
BY DEF IInv, Exits, Bounded, Phased

LEMMA ExitingIn ==
    ASSUME NEW g \in FS
    PROVE  LET h == [g EXCEPT !.exiting = TRUE, !.lastCount = g.count]
           IN  h \in FS /\ Same(g, h) /\ h.postponing = g.postponing
               /\ h.postponed = g.postponed
<1> DEFINE h == [g EXCEPT !.exiting = TRUE, !.lastCount = g.count]
<1>1. TRUE \in BOOLEAN /\ g.count \in Int
  BY DEF FS
<1>2. h \in FS
  BY <1>1, ZenonT(30) DEF FS
<1>3. Same(g, h) /\ h.postponing = g.postponing /\ h.postponed = g.postponed
  BY DEF FS, Same
<1> QED
  BY <1>2, <1>3

LEMMA EndDocumentInvariant ==
    ASSUME IInv, EndDocument
    PROVE  IInv' /\ (Careful /\ NoneWaits => NoneWaits')
<1> DEFINE g == [f EXCEPT !.exiting = TRUE, !.lastCount = f.count]
           s == SpringTrap(g, em)
           e == IF em = NoMacro THEN g ELSE s
<1>1. Exits("document") /\ Enter(e, "end_macro")
  BY Zenon DEF EndDocument
<1>2. /\ f \in FS /\ Running(f) /\ OnPage(f) /\ f.input = <<>>
      /\ <<>> \in Seq(Tokens) /\ <<>> \in Seq(Harmless) /\ ~f.eoiFinished
  BY <1>1, ExitsFacts
<1>3. g \in FS /\ Same(f, g) /\ g.postponing = f.postponing
      /\ g.postponed = f.postponed
  BY <1>2, ExitingIn
<1> HIDE DEF g
<1>4. /\ g \in FS /\ g.input = <<>> /\ g.status = f.status
      /\ ~g.eoiFinished /\ g.vpos = f.vpos
  BY <1>2, <1>3 DEF Same
<1>5. /\ e \in FS /\ e.status = g.status /\ e.eoiFinished = g.eoiFinished
      /\ e.vpos = g.vpos /\ Covers(g.input, e.input)
      /\ (Brief(g) => Brief(e))
      /\ em # NoMacro /\ Call(em) \in Harmless /\ g.input \in Seq(Harmless) =>
            e.input \in Seq(Harmless)
      /\ em = NoMacro => e.input = g.input
  <2>1. CASE em = NoMacro
    BY <1>2, <1>4, <2>1, CoversSame, Zenon
  <2>2. CASE em # NoMacro
    <3>1. em \in Macros
      BY <2>2 DEF IInv, Macros
    <3>2. /\ s \in FS /\ s.status = g.status
          /\ s.eoiFinished = g.eoiFinished /\ s.vpos = g.vpos
          /\ s.postponing = g.postponing
          /\ ~g.postponing => s.postponed = g.postponed
          /\ Covers(g.input, s.input)
          /\ Call(em) \in Harmless /\ g.input \in Seq(Harmless) =>
                s.input \in Seq(Harmless)
      BY <1>4, <3>1, SpringTrapIs
    <3> HIDE DEF s
    <3> QED
      BY <2>2, <3>2, Zenon DEF Brief
  <2> QED
    BY <2>1, <2>2
<1> HIDE DEF e
<1>6. OnPage(e) /\ ~e.eoiFinished /\ Covers(<<>>, e.input)
  BY <1>2, <1>4, <1>5, Zenon DEF OnPage, Running
<1>7. /\ IInv'
      /\ /\ Brief(e)
         /\ Running(e) /\ e.before = 1 => e.input \in Seq(Harmless)
         => NoneWaits'
  BY <1>1, <1>5, <1>6, EnterInvariant
<1>8. ASSUME Careful, NoneWaits PROVE NoneWaits'
  <2>1. Brief(e)
    BY <1>3, <1>5, <1>8, Zenon DEF NoneWaits, Brief
  <2>2. em # NoMacro => Call(em) \in Harmless
    <3>1. SUFFICES ASSUME em # NoMacro PROVE Call(em) \in Harmless
      OBVIOUS
    <3>2. em = End /\ End \in Macros
      BY <3>1 DEF IInv, Macros
    <3>3. \A i \in DOMAIN body[End] : body[End][i] # "'sp"
      BY <1>8 DEF IInv, Careful
    <3>4. Call(End) \in Tokens /\ Call(End) # Line("'sp") /\ Call(End).nm = End
      BY <3>2, TokensAre
    <3> QED
      BY <3>2, <3>3, <3>4 DEF Harmless
  <2>3. e.input \in Seq(Harmless)
    BY <1>2, <1>4, <1>5, <2>2
  <2> QED
    BY <1>7, <2>1, <2>3
<1> QED
  BY <1>7, <1>8

LEMMA FinalBreakInvariant ==
    ASSUME IInv, FinalBreak
    PROVE  IInv' /\ (NoneWaits => NoneWaits')
<1> DEFINE d == DoBreak(f)
<1>1. Exits("end_macro") /\ Enter(d, "final_break")
  BY DEF FinalBreak
<1>2. /\ f \in FS /\ Running(f) /\ OnPage(f) /\ f.input = <<>>
      /\ <<>> \in Seq(Tokens) /\ <<>> \in Seq(Harmless) /\ ~f.eoiFinished
  BY <1>1, ExitsFacts
<1>3. Does(f, d)
  BY <1>2, DoBreakDoes
<1> HIDE DEF d
<1>4. d \in FS /\ OnPage(d) /\ Covers(<<>>, d.input) /\ ~d.eoiFinished
  BY <1>2, <1>3, Zenon DEF Does, Goes
<1>5. /\ IInv'
      /\ /\ Brief(d)
         /\ Running(d) /\ d.before = 1 => d.input \in Seq(Harmless)
         => NoneWaits'
  BY <1>1, <1>4, EnterInvariant
<1>6. ASSUME NoneWaits PROVE NoneWaits'
  <2>1. Brief(d)
    BY <1>3, <1>6 DEF NoneWaits, Does
  <2>2. Running(d) /\ d.before = 1 => d.input \in Seq(Harmless)
    BY <1>2, <1>3 DEF Does, Goes
  <2> QED
    BY <1>5, <2>1, <2>2
<1> QED
  BY <1>5, <1>6

\* Down to the end of the page, with the token on the input that continues.
LEMMA SpaceDown ==
    ASSUME NEW g \in FS, NEW p, Turns(g, p), g.input = <<>>, OnPage(g),
           Running(p) => Has(p.input, Ejectors)
    PROVE  LET q == Space(p, g.length, TRUE)
           IN  /\ q \in FS /\ OnPage(q) /\ Covers(<<>>, q.input)
               /\ q.eoiFinished = g.eoiFinished
               /\ (Running(q) => Has(q.input, Ejectors))
               /\ (Brief(g) => Brief(q))
               /\ Running(q) /\ q.before = 1 => q.input \in Seq(Harmless)
<1> DEFINE q == Space(p, g.length, TRUE)
<1>1. p \in FS
  BY DEF Turns, Keeps
<1>2. g.length \in Nat /\ TRUE \in BOOLEAN
  BY BeforeIs, Parameters
<1>3. Turns(p, q)
  BY <1>1, <1>2, SpaceTurns
<1> HIDE DEF q
<1>4. Does(g, q)
  BY <1>3, TurnsTransitive, TurnsDoes
<1>5. Running(q) => Has(q.input, Ejectors)
  BY <1>3, Zenon DEF Turns, Keeps, Stays, Covers
<1>6. <<>> \in Seq(Harmless)
  OBVIOUS
<1>7. /\ q \in FS /\ OnPage(q) /\ Covers(<<>>, q.input)
      /\ q.eoiFinished = g.eoiFinished
      /\ (Brief(g) => Brief(q))
      /\ Running(q) /\ q.before = 1 => q.input \in Seq(Harmless)
  BY <1>4, <1>6, Zenon DEF Does, Goes
<1> QED
  BY <1>5, <1>7 DEF q

LEMMA FinishedIn ==
    ASSUME NEW g \in FS
    PROVE  LET h == [g EXCEPT !.eoiFinished = TRUE]
           IN  /\ h \in FS /\ h.input = g.input /\ h.status = g.status
               /\ h.before = g.before /\ h.vpos = g.vpos
               /\ h.eoiFinished
               /\ h.postponing = g.postponing /\ h.postponed = g.postponed
<1> DEFINE h == [g EXCEPT !.eoiFinished = TRUE]
<1>1. TRUE \in BOOLEAN
  OBVIOUS
<1>2. h \in FS
  BY <1>1, ZenonT(30) DEF FS
<1>3. /\ h.input = g.input /\ h.status = g.status
      /\ h.before = g.before /\ h.vpos = g.vpos
      /\ h.postponing = g.postponing /\ h.postponed = g.postponed
  BY DEF FS
<1>4. h.eoiFinished
  BY Zenon DEF FS
<1> QED
  BY <1>2, <1>3, <1>4

LEMMA EjectLastPageInvariant ==
    ASSUME IInv, EjectLastPage
    PROVE  IInv' /\ (NoneWaits => NoneWaits')
<1> DEFINE e == [f EXCEPT !.eoiFinished = TRUE]
           g == SetEjecting(e)
           p == PushInput(g, <<LastPageEjector>>)
           q == Space(p, g.length, TRUE)
<1>1. Exits("final_break") /\ Enter(q, "last_page")
  BY Zenon DEF EjectLastPage
<1>2. /\ f \in FS /\ Running(f) /\ OnPage(f) /\ f.input = <<>>
  BY <1>1, ExitsFacts
<1>3. /\ e \in FS /\ e.input = f.input /\ e.status = f.status
      /\ e.before = f.before /\ e.vpos = f.vpos
      /\ e.postponing = f.postponing /\ e.postponed = f.postponed
  BY <1>2, FinishedIn
<1> HIDE DEF e
<1>4. Running(e) /\ g = [e EXCEPT !.ejecting = TRUE]
  BY <1>2, <1>3 DEF SetEjecting, Running
<1>5. /\ g \in FS /\ g.input = e.input /\ g.status = e.status
      /\ g.vpos = e.vpos
      /\ g.postponing = e.postponing /\ g.postponed = e.postponed
  BY <1>3, <1>4, EjectingIn, Zenon
<1> HIDE DEF g
<1>6. OnPage(g) /\ g.input = <<>> /\ (Brief(f) => Brief(g))
  BY <1>2, <1>3, <1>5, Zenon DEF OnPage, Running, Brief
<1>7. Turns(g, p) /\ Has(p.input, Ejectors)
  <2>1. LastPageEjector \in Tokens /\ LastPageEjector # Line("'sp")
        /\ LastPageEjector.kind \in {"ejector", "last", "line"}
        /\ LastPageEjector.kind \in Ejectors
    BY TokensAre DEF Ejectors
  <2> QED
    BY <1>5, <2>1, PushOneTurns
<1> HIDE DEF p
<1>8. /\ q \in FS /\ OnPage(q) /\ Covers(<<>>, q.input)
      /\ (Running(q) => Has(q.input, Ejectors))
      /\ (Brief(g) => Brief(q))
      /\ Running(q) /\ q.before = 1 => q.input \in Seq(Harmless)
  BY <1>5, <1>6, <1>7, SpaceDown
<1> HIDE DEF q
<1>9. /\ IInv'
      /\ /\ Brief(q)
         /\ Running(q) /\ q.before = 1 => q.input \in Seq(Harmless)
         => NoneWaits'
  BY <1>1, <1>8, EnterInvariant
<1> QED
  BY <1>6, <1>8, <1>9, Zenon DEF NoneWaits

LEMMA EjectWhatFollowsInvariant ==
    ASSUME IInv, EjectWhatFollows
    PROVE  IInv' /\ (NoneWaits => NoneWaits')
<1> DEFINE e == [f EXCEPT !.seenLast = TRUE]
           g == SetEjecting(e)
           p == PushPageEjector(g)
           q == Space(p, g.length, TRUE)
<1>1. Exits("last_page") /\ Enter(q, "trailer")
  BY Zenon DEF EjectWhatFollows
<1>2. /\ f \in FS /\ Running(f) /\ OnPage(f) /\ f.input = <<>>
  BY <1>1, ExitsFacts
<1>3. /\ e \in FS /\ e.input = f.input /\ e.status = f.status
      /\ e.before = f.before /\ e.vpos = f.vpos
      /\ e.postponing = f.postponing /\ e.postponed = f.postponed
  BY <1>2, SeenLastIn DEF TextIn, Same
<1> HIDE DEF e
<1>4. Running(e) /\ g = [e EXCEPT !.ejecting = TRUE]
  BY <1>2, <1>3 DEF SetEjecting, Running
<1>5. /\ g \in FS /\ g.input = e.input /\ g.status = e.status
      /\ g.vpos = e.vpos
      /\ g.postponing = e.postponing /\ g.postponed = e.postponed
  BY <1>3, <1>4, EjectingIn, Zenon
<1> HIDE DEF g
<1>6. OnPage(g) /\ g.input = <<>> /\ (Brief(f) => Brief(g)) /\ Running(g)
  BY <1>2, <1>3, <1>5, Zenon DEF OnPage, Running, Brief
<1>7. Turns(g, p) /\ Has(p.input, Ejectors)
  BY <1>5, <1>6, PushPageEjectorTurns
<1> HIDE DEF p
<1>8. /\ q \in FS /\ OnPage(q) /\ Covers(<<>>, q.input)
      /\ (Running(q) => Has(q.input, Ejectors))
      /\ (Brief(g) => Brief(q))
      /\ Running(q) /\ q.before = 1 => q.input \in Seq(Harmless)
  BY <1>5, <1>6, <1>7, SpaceDown
<1> HIDE DEF q
<1>9. /\ IInv'
      /\ /\ Brief(q)
         /\ Running(q) /\ q.before = 1 => q.input \in Seq(Harmless)
         => NoneWaits'
  BY <1>1, <1>8, EnterInvariant
<1> QED
  BY <1>6, <1>8, <1>9, Zenon DEF NoneWaits

LEMMA ExitInvariant ==
    ASSUME IInv, Exit
    PROVE  IInv' /\ (NoneWaits => NoneWaits')
<1> DEFINE g == [f EXCEPT !.status = "done"]
<1>1. Exits("trailer") /\ Enter(g, "trailer")
  BY DEF Exit
<1>2. f \in FS /\ f.input = <<>>
  BY <1>1, ExitsFacts
<1>3. g \in FS
  BY <1>2, ZenonT(30) DEF FS
<1>4. g.input = f.input /\ g.status = "done" /\ g.postponing = f.postponing
      /\ g.postponed = f.postponed
  BY <1>2 DEF FS
<1> HIDE DEF g
<1>5. ~Running(g) /\ Covers(<<>>, g.input) /\ (Brief(f) => Brief(g))
  <2>1. <<>> \in Seq(Tokens)
    OBVIOUS
  <2>2. Covers(<<>>, <<>>)
    BY <2>1, CoversSame
  <2> QED
    BY <1>2, <1>4, <2>2 DEF Running, Brief
<1>6. IInv' /\ (Brief(g) => NoneWaits')
  BY <1>1, <1>3, <1>5, EnterInvariant DEF OnPage
<1> QED
  BY <1>5, <1>6 DEF NoneWaits

LEMMA NextInvariant ==
    ASSUME IInv, [Next]_vars
    PROVE  IInv' /\ (Careful /\ NoneWaits => NoneWaits')
<1>1. ASSUME NEW item \in NextItems, ReadInput(item)
      PROVE  IInv' /\ (Careful /\ NoneWaits => NoneWaits')
  BY <1>1, ReadInvariant
<1>2. CASE UNCHANGED vars
  <2>1. IInv'
    BY <1>2 DEF vars, IInv, BracketsMatch, EjectionHasToken, Phased
  <2>2. NoneWaits => NoneWaits'
    BY <1>2 DEF vars, NoneWaits, Harmless
  <2> QED
    BY <2>1, <2>2
<1> QED
  BY <1>1, <1>2, EndDocumentInvariant, FinalBreakInvariant,
     EjectLastPageInvariant, EjectWhatFollowsInvariant, ExitInvariant DEF Next

-----------------------------------------------------------------------------
\* The beginning.

PageFields ==
    {"traps", "vpos", "nl", "length", "number", "next", "count", "lastCount",
     "ejecting", "before", "noSpace", "saved", "marked", "honor", "input",
     "sprung", "postponing", "postponed", "exiting", "eoiFinished",
     "beganInEoi", "seenLast", "status", "written"}

TextFields == {"line", "pending", "filling", "collected", "depth", "phase"}

LEMMA NewPageFields ==
    DOMAIN NewPage(PageLength) = PageFields
BY DEF NewPage, PageFields

LEMMA NewFormatterIs ==
    ASSUME NEW traps \in Seq(Slots)
    PROVE  NewFormatter(traps) \in FS
<1> DEFINE page == [NewPage(PageLength) EXCEPT !.traps = traps]
           text == [line |-> <<>>, pending |-> <<>>, filling |-> TRUE,
                    collected |-> 0, depth |-> 0, phase |-> "document"]
           r == NewFormatter(traps)
           h == [traps |-> traps, vpos |-> 0, nl |-> -1,
                 length |-> PageLength, number |-> 0, next |-> NoNumber,
                 count |-> 0, lastCount |-> -1, ejecting |-> FALSE,
                 before |-> 1, noSpace |-> FALSE, saved |-> 0, marked |-> 0,
                 honor |-> TRUE, input |-> <<>>, sprung |-> FALSE,
                 postponing |-> FALSE, postponed |-> NoMacro,
                 exiting |-> FALSE, eoiFinished |-> FALSE,
                 beganInEoi |-> FALSE, seenLast |-> FALSE,
                 status |-> "running", written |-> <<>>, line |-> <<>>,
                 pending |-> <<>>, filling |-> TRUE, collected |-> 0,
                 depth |-> 0, phase |-> "document"]
<1>1. h \in FS
  BY FormatterAssumption DEF FS
<1>2. DOMAIN page = PageFields
  BY NewPageFields
<1>3. DOMAIN text = TextFields
  BY DEF TextFields
<1>4. DOMAIN h = PageFields \cup TextFields
  BY DEF PageFields, TextFields
<1>5. /\ page["traps"] = traps /\ page["vpos"] = 0 /\ page["nl"] = -1
      /\ page["length"] = PageLength /\ page["number"] = 0
      /\ page["next"] = NoNumber /\ page["count"] = 0
      /\ page["lastCount"] = -1 /\ page["ejecting"] = FALSE
      /\ page["before"] = 1 /\ page["noSpace"] = FALSE /\ page["saved"] = 0
      /\ page["marked"] = 0 /\ page["honor"] = TRUE /\ page["input"] = <<>>
      /\ page["sprung"] = FALSE /\ page["postponing"] = FALSE
      /\ page["postponed"] = NoMacro /\ page["exiting"] = FALSE
      /\ page["eoiFinished"] = FALSE /\ page["beganInEoi"] = FALSE
      /\ page["seenLast"] = FALSE /\ page["status"] = "running"
      /\ page["written"] = <<>>
  BY DEF NewPage
<1>6. /\ text["line"] = <<>> /\ text["pending"] = <<>>
      /\ text["filling"] = TRUE /\ text["collected"] = 0 /\ text["depth"] = 0
      /\ text["phase"] = "document"
  OBVIOUS
<1>7. r = [x \in DOMAIN page \cup DOMAIN text |->
              IF x \in DOMAIN page THEN page[x] ELSE text[x]]
  BY DEF NewFormatter
<1>8. /\ h["traps"] = traps /\ h["vpos"] = 0 /\ h["nl"] = -1
      /\ h["length"] = PageLength /\ h["number"] = 0 /\ h["next"] = NoNumber
      /\ h["count"] = 0 /\ h["lastCount"] = -1 /\ h["ejecting"] = FALSE
      /\ h["before"] = 1 /\ h["noSpace"] = FALSE /\ h["saved"] = 0
      /\ h["marked"] = 0 /\ h["honor"] = TRUE /\ h["input"] = <<>>
      /\ h["sprung"] = FALSE /\ h["postponing"] = FALSE
      /\ h["postponed"] = NoMacro /\ h["exiting"] = FALSE
      /\ h["eoiFinished"] = FALSE /\ h["beganInEoi"] = FALSE
      /\ h["seenLast"] = FALSE /\ h["status"] = "running"
      /\ h["written"] = <<>> /\ h["line"] = <<>> /\ h["pending"] = <<>>
      /\ h["filling"] = TRUE /\ h["collected"] = 0 /\ h["depth"] = 0
      /\ h["phase"] = "document"
  OBVIOUS
<1>9. h = [x \in DOMAIN h |-> h[x]]
  OBVIOUS
<1> HIDE DEF page, text, r, h
<1>10. \A x \in PageFields : h[x] = page[x]
  BY <1>5, <1>8, ZenonT(30) DEF PageFields
<1>11. \A x \in TextFields : h[x] = text[x]
  BY <1>6, <1>8, ZenonT(30) DEF TextFields
<1>12. PageFields \cap TextFields = {}
  BY DEF PageFields, TextFields
<1>13. \A x \in DOMAIN h : h[x] = r[x]
  BY <1>2, <1>3, <1>4, <1>7, <1>10, <1>11, <1>12
<1>14. DOMAIN r = DOMAIN h /\ r = [x \in DOMAIN r |-> r[x]]
  BY <1>2, <1>3, <1>4, <1>7
<1>15. r = h
  BY <1>9, <1>13, <1>14
<1> QED
  BY <1>1, <1>15 DEF r

\* What a formatter that has read nothing is like.
LEMMA NewFormatterFields ==
    ASSUME NEW traps
    PROVE  LET r == NewFormatter(traps)
           IN  /\ r.vpos = 0 /\ r.input = <<>> /\ r.depth = 0
               /\ r.ejecting = FALSE /\ r.eoiFinished = FALSE
               /\ r.phase = "document" /\ r.postponing = FALSE
               /\ r.postponed = NoMacro
<1> DEFINE page == [NewPage(PageLength) EXCEPT !.traps = traps]
           text == [line |-> <<>>, pending |-> <<>>, filling |-> TRUE,
                    collected |-> 0, depth |-> 0, phase |-> "document"]
           r == NewFormatter(traps)
<1>1. DOMAIN page = PageFields
  BY NewPageFields
<1>2. DOMAIN text = TextFields
  BY DEF TextFields
<1>3. /\ page["vpos"] = 0 /\ page["input"] = <<>>
      /\ page["ejecting"] = FALSE /\ page["eoiFinished"] = FALSE
      /\ page["postponing"] = FALSE /\ page["postponed"] = NoMacro
  BY DEF NewPage
<1>4. text["depth"] = 0 /\ text["phase"] = "document"
  OBVIOUS
<1>5. r = [x \in DOMAIN page \cup DOMAIN text |->
              IF x \in DOMAIN page THEN page[x] ELSE text[x]]
  BY DEF NewFormatter
<1> HIDE DEF page, text, r
<1>6. \A x \in PageFields : r[x] = page[x]
  BY <1>1, <1>2, <1>5
<1>7. \A x \in TextFields : x \notin PageFields /\ r[x] = text[x]
  <2>1. \A x \in TextFields : x \notin PageFields
    BY DEF PageFields, TextFields
  <2> QED
    BY <1>1, <1>2, <1>5, <2>1
<1>8. /\ {"vpos", "input", "ejecting", "eoiFinished", "postponing",
          "postponed"} \subseteq PageFields
      /\ {"depth", "phase"} \subseteq TextFields
  BY DEF PageFields, TextFields
<1>9. /\ r["vpos"] = 0 /\ r["input"] = <<>>
      /\ r["ejecting"] = FALSE /\ r["eoiFinished"] = FALSE
      /\ r["postponing"] = FALSE /\ r["postponed"] = NoMacro
      /\ r["depth"] = 0 /\ r["phase"] = "document"
  BY <1>3, <1>4, <1>6, <1>7, <1>8
<1> QED
  BY <1>9 DEF r

LEMMA InitInvariant ==
    ASSUME Init
    PROVE  IInv /\ NoneWaits
<1>1. PICK s \in Setups : f = NewFormatter(s.traps) /\ body = s.body
  BY Zenon DEF Init
<1>2. em \in {End, NoMacro} /\ left = MaxLines /\ MaxLines \in Nat
  BY FormatterAssumption DEF Init
<1>3. s.traps \in Seq(Slots)
  BY FormatterAssumption DEF Slots
<1>4. f \in FS
  BY <1>1, <1>3, NewFormatterIs
<1>5. /\ f.vpos = 0 /\ f.input = <<>> /\ f.depth = 0
      /\ f.ejecting = FALSE /\ f.eoiFinished = FALSE
      /\ f.phase = "document" /\ f.postponing = FALSE
      /\ f.postponed = NoMacro
  BY <1>1, NewFormatterFields
<1>6. OnPage(f)
  BY <1>5, Parameters DEF OnPage
<1>7. BracketsMatch /\ EjectionHasToken /\ Phased
  BY <1>5, NestedEmpty DEF BracketsMatch, EjectionHasToken, Phased
<1>8. IInv
  BY <1>1, <1>2, <1>4, <1>6, <1>7 DEF IInv
<1>9. NoneWaits
  BY <1>5 DEF NoneWaits, Brief
<1> QED
  BY <1>8, <1>9

LEMMA Invariant == Spec => []IInv
<1>1. Init => IInv
  BY InitInvariant
<1>2. IInv /\ [Next]_vars => IInv'
  BY NextInvariant
<1> QED
  BY <1>1, <1>2, PTL DEF Spec

-----------------------------------------------------------------------------
\* The formatter's record keeps its types whatever is read: the position is a
\* place on the page or below it, the input holds the formatter's own tokens
\* and input lines, and never fewer than no traps are under way.
THEOREM FormatterTypes == Spec => []TypeOK
<1>1. IInv => TypeOK
  <2>1. SUFFICES ASSUME IInv PROVE TypeOK
    OBVIOUS
  <2>2. f \in FS /\ left \in 0..MaxLines
    BY <2>1 DEF IInv
  <2>3. /\ f.vpos \in Nat /\ f.nl \in -1..(PageLength - 1)
        /\ f.line \in Seq(Nat) /\ f.pending \in Seq(Seq(Nat))
        /\ f.depth \in Nat /\ f.collected \in Nat
        /\ f.input \in Seq(Tokens)
    BY <2>2 DEF FS
  <2>4. f.input \in Seq([kind : {"begin", "end", "ejector", "last", "call",
                                 "line"},
                         nm : Macros \cup {NoMacro} \cup InputLines])
    <3> DEFINE items == [kind : {"begin", "end", "ejector", "last", "call",
                                 "line"},
                         nm : Macros \cup {NoMacro} \cup InputLines]
    <3>1. Tokens \subseteq items
      BY TokensType
    <3> HIDE DEF items
    <3>2. f.input \in Seq(items)
      BY <2>3, <3>1
    <3> QED
      BY <3>2 DEF items
  <2> QED
    BY <2>2, <2>3, <2>4 DEF TypeOK
<1> QED
  BY <1>1, Invariant, PTL

\* spring_trap pushes the two tokens of a trap around the macro, and no part
\* of exit_troff, no ejection and no trap sprung on the way ever leaves one of
\* them on the input without the other: TOKEN_END_TRAP always finds a trap
\* under way on trap_accepting_control_character_stack.
THEOREM TrapsStayNested == Spec => []TrapsNest
<1>1. IInv => TrapsNest
  <2>1. SUFFICES ASSUME IInv, Running(f), f.input # <<>>
                 PROVE  Cardinality({i \in DOMAIN f.input :
                                       f.input[i].kind = "end"})
                        = f.depth
                          + Cardinality({i \in DOMAIN f.input :
                                           f.input[i].kind = "begin"})
    BY DEF TrapsNest
  <2>2. Nested(f.input, f.depth)
    BY <2>1 DEF IInv, BracketsMatch
  <2>3. f.input \in Seq(Tokens)
    BY <2>1 DEF IInv, FS
  <2>4. Cardinality(KindsIn(f.input, "end"))
        = f.depth + Cardinality(KindsIn(f.input, "begin"))
    BY <2>2, <2>3, NestedCounts
  <2> QED
    BY <2>4 DEF KindsIn
<1> QED
  BY <1>1, Invariant, PTL

\* An ejection that is under way has the token that continues it on the input
\* as long as there is something to read, whatever the macros on its way do.
THEOREM EjectionsContinue == Spec => []EjectionContinues
<1>1. IInv => EjectionContinues
  <2>1. SUFFICES ASSUME IInv, f.ejecting, Running(f),
                        left > 0 \/ (f.eoiFinished /\ f.input # <<>>)
                 PROVE  Has(f.input, Ejectors)
    BY DEF EjectionContinues, Has, Ejectors
  <2>2. left \in Nat
    BY <2>1, FormatterAssumption DEF IInv
  <2> QED
    BY <2>1, <2>2 DEF IInv, EjectionHasToken
<1> QED
  BY <1>1, Invariant, PTL

\* No trap stays postponed when the request that has postponed traps is read:
\* space_request always comes to unpostpone_traps, when neither a document nor
\* an end macro uses 'sp, which does not come to it before the first page.
THEOREM PostponedTrapsAreSprung ==
    ASSUME Careful
    PROVE  Spec => []PostponingIsBrief
<1>1. Init => IInv /\ NoneWaits
  BY InitInvariant
<1>2. IInv /\ NoneWaits /\ [Next]_vars => (IInv /\ NoneWaits)'
  BY NextInvariant
<1>3. NoneWaits => PostponingIsBrief
  BY DEF NoneWaits, Brief, PostponingIsBrief
<1> QED
  BY <1>1, <1>2, <1>3, PTL DEF Spec

-----------------------------------------------------------------------------
\* A function of the numbers up to n can be defined step by step.
IsStepwise(f1, n, a, g) ==
    f1 = [i \in 0..n |-> IF i = 0 THEN a ELSE g[<<f1[i - 1], i>>]]

LEMMA StepByStep ==
    ASSUME NEW n \in Nat, NEW a, NEW g
    PROVE  \E f1 : IsStepwise(f1, n, a, g)
<1> USE DEF IsStepwise
<1> DEFINE IsIt(f1, m) == IsStepwise(f1, m, a, g)
           S == {m \in Nat : \E f1 : IsIt(f1, m)}
<1>1. 0 \in S
  <2> DEFINE f1 == [i \in 0..0 |-> a]
  <2>1. f1 = [i \in 0..0 |-> IF i = 0 THEN a ELSE g[<<f1[i - 1], i>>]]
    OBVIOUS
  <2>2. IsIt(f1, 0)
    BY <2>1
  <2> QED
    BY <2>2
<1>2. ASSUME NEW m \in S PROVE m + 1 \in S
  <2>1. PICK f1 : IsIt(f1, m)
    OBVIOUS
  <2> DEFINE h == [i \in 0..(m + 1) |-> IF i = m + 1 THEN g[<<f1[m], i>>]
                                        ELSE f1[i]]
  <2>2. \A i \in 0..(m + 1) :
           h[i] = IF i = 0 THEN a ELSE g[<<h[i - 1], i>>]
    <3>1. ASSUME NEW i \in 0..m
          PROVE  h[i] = IF i = 0 THEN a ELSE g[<<h[i - 1], i>>]
      BY <2>1
    <3>2. h[m + 1] = g[<<h[m], m + 1>>]
      OBVIOUS
    <3>3. \A i \in 0..(m + 1) : i \in 0..m \/ i = m + 1
      OBVIOUS
    <3>4. m + 1 # 0 /\ (m + 1) - 1 = m
      OBVIOUS
    <3> HIDE DEF h
    <3> QED
      BY <3>1, <3>2, <3>3, <3>4
  <2>3. h = [i \in 0..(m + 1) |-> h[i]]
    OBVIOUS
  <2> HIDE DEF h
  <2>4. IsIt(h, m + 1)
    BY <2>2, <2>3
  <2>5. \E f2 : IsIt(f2, m + 1)
    <3> WITNESS h
    <3> QED
      BY <2>4
  <2> HIDE DEF IsIt
  <2> QED
    BY <2>5
<1>3. S = Nat
  <2> HIDE DEF S
  <2>1. S \in SUBSET Nat
    BY DEF S
  <2> QED
    BY <1>1, <1>2, <2>1, Induct
<1> QED
  BY <1>3

\* Sequences, step by step: c[i] comes from c[i - 1] by g, where g yields
\* sequences from sequences.
LEMMA StepwiseSequences ==
    ASSUME NEW n \in Nat, NEW E1, NEW a \in E1, NEW g,
           \A u \in E1 : \A i \in 1..n : g[<<u, i>>] \in E1
    PROVE  \E f1 : IsStepwise(f1, n, a, g) /\ \A i \in 0..n : f1[i] \in E1
<1>1. PICK f1 : IsStepwise(f1, n, a, g)
  BY StepByStep
<1>2. f1[0] = a /\ \A i \in 1..n : f1[i] = g[<<f1[i - 1], i>>]
  BY <1>1 DEF IsStepwise
<1> DEFINE S == {i \in Nat : i \in 0..n => f1[i] \in E1}
<1>3. 0 \in S
  BY <1>2
<1>4. ASSUME NEW i \in S PROVE i + 1 \in S
  <2>1. SUFFICES ASSUME i + 1 \in 0..n PROVE f1[i + 1] \in E1
    OBVIOUS
  <2>2. i \in 0..n /\ i + 1 \in 1..n /\ (i + 1) - 1 = i
    BY <2>1
  <2>3. f1[i] \in E1
    BY <2>2
  <2>4. f1[i + 1] = g[<<f1[i], i + 1>>]
    BY <1>2, <2>2
  <2> QED
    BY <2>2, <2>3, <2>4
<1>5. S = Nat
  <2> HIDE DEF S
  <2>1. S \in SUBSET Nat
    BY DEF S
  <2> QED
    BY <1>3, <1>4, <2>1, Induct
<1>6. \A i \in 0..n : f1[i] \in E1
  BY <1>5
<1> QED
  BY <1>1, <1>6

\* What FlattenSeq joins, sequence by sequence.
Joins(q) == LET flatten[i \in 1..Len(q)] ==
                    IF i = 1 THEN q[i] ELSE flatten[i - 1] \o q[i]
            IN  flatten

LEMMA JoinsSteps ==
    ASSUME NEW E, NEW q \in Seq(Seq(E)), q # <<>>
    PROVE  LET f1 == Joins(q)
           IN  /\ f1[1] = q[1]
               /\ \A i \in 2..Len(q) : f1[i] = f1[i - 1] \o q[i]
<1> DEFINE n == Len(q)
           E1 == Seq(E)
           c == Joins(q)
           step(u, i) == IF i = 1 THEN q[i] ELSE u \o q[i]
           g == [p \in E1 \X (1..n) |-> step(p[1], p[2])]
           IsIt(f1) == f1 = [i \in 1..n |-> IF i = 1 THEN q[i]
                                          ELSE f1[i - 1] \o q[i]]
<1>1. n \in Nat /\ n > 0 /\ <<>> \in E1 /\ \A i \in 1..n : q[i] \in E1
  OBVIOUS
<1>2. \A u \in E1 : \A i \in 1..n : step(u, i) \in E1
  BY <1>1
<1>3. \A u \in E1 : \A i \in 1..n : g[<<u, i>>] = step(u, i)
  <2> HIDE DEF step, E1
  <2> QED
    OBVIOUS
<1>4. \A u \in E1 : \A i \in 1..n : g[<<u, i>>] \in E1
  BY <1>2, <1>3
<1>5. PICK f1 : IsStepwise(f1, n, <<>>, g) /\ \A i \in 0..n : f1[i] \in E1
  <2> HIDE DEF g, n, E1
  <2> QED
    BY <1>1, <1>4, StepwiseSequences
<1>6. \A i \in 1..n : f1[i] = step(f1[i - 1], i)
  <2>1. \A i \in 1..n : f1[i] = g[<<f1[i - 1], i>>]
    <3> HIDE DEF g, E1, n
    <3> QED
      BY <1>1, <1>5 DEF IsStepwise
  <2>2. \A i \in 1..n : f1[i - 1] \in E1
    <3> HIDE DEF g, E1, n
    <3> QED
      BY <1>1, <1>5
  <2> HIDE DEF g, E1, n, step
  <2> QED
    BY <1>3, <2>1, <2>2
<1> DEFINE r == [i \in 1..n |-> f1[i]]
<1>7. IsIt(r)
  <2>1. \A i \in 1..n : r[i] = f1[i] /\ (i # 1 => r[i - 1] = f1[i - 1])
    <3> HIDE DEF n
    <3> QED
      BY <1>1
  <2>2. \A i \in 1..n : r[i] = IF i = 1 THEN q[i] ELSE r[i - 1] \o q[i]
    <3> HIDE DEF n, r
    <3> QED
      BY <1>6, <2>1, Zenon
  <2>3. r = [i \in 1..n |-> r[i]]
    OBVIOUS
  <2> HIDE DEF n, r
  <2> QED
    BY <2>2, <2>3, Zenon
<1>8. c = CHOOSE h : IsIt(h)
  BY DEF Joins
<1>9. IsIt(c)
  <2> HIDE DEF IsIt, c
  <2> QED
    BY <1>7, <1>8
<1> HIDE DEF c
<1>10. 1 \in 1..n /\ \A i \in 2..n : i \in 1..n /\ i # 1
  BY <1>1
<1> HIDE DEF n
<1>11. c[1] = q[1] /\ \A i \in 2..n : c[i] = c[i - 1] \o q[i]
  BY <1>9, <1>10, Zenon
<1> QED
  BY <1>11 DEF c, n

LEMMA FlattenIs ==
    ASSUME NEW E, NEW q \in Seq(Seq(E))
    PROVE  FlattenSeq(q) = IF q = <<>> THEN <<>> ELSE Joins(q)[Len(q)]
<1>1. Len(q) = 0 <=> q = <<>>
  OBVIOUS
<1> QED
  BY <1>1 DEF FlattenSeq, Joins

\* What FlattenSeq joins.
LEMMA FlattenIn ==
    ASSUME NEW E, NEW q \in Seq(Seq(E))
    PROVE  FlattenSeq(q) \in Seq(E)
<1>1. CASE q = <<>>
  BY <1>1 DEF FlattenSeq
<1>2. CASE q # <<>>
  <2> DEFINE n == Len(q)
             f1 == Joins(q)
             P(i) == f1[i + 1] \in Seq(E)
             E1 == {i \in Nat : i + 1 <= n => P(i)}
  <2>1. n \in Nat /\ n >= 1 /\ \A i \in 1..n : q[i] \in Seq(E)
    BY <1>2
  <2>2. f1[1] = q[1] /\ \A i \in 2..n : f1[i] = f1[i - 1] \o q[i]
    BY <1>2, JoinsSteps
  <2> HIDE DEF f1, n
  <2>3. 0 \in E1
    BY <2>1, <2>2
  <2>4. ASSUME NEW i \in E1 PROVE i + 1 \in E1
    <3>0. i \in Nat /\ i + 1 \in Nat
      OBVIOUS
    <3>1. SUFFICES ASSUME (i + 1) + 1 <= n PROVE P(i + 1)
      BY <3>0, Zenon
    <3>2. (i + 1) + 1 \in 2..n /\ ((i + 1) + 1) - 1 = i + 1 /\ P(i)
      BY <2>1, <3>1
    <3>3. f1[(i + 1) + 1] = f1[i + 1] \o q[(i + 1) + 1]
      BY <2>2, <3>2
    <3>4. q[(i + 1) + 1] \in Seq(E)
      BY <2>1, <3>2
    <3> QED
      BY <3>2, <3>3, <3>4
  <2>5. E1 = Nat
    <3> HIDE DEF E1
    <3>1. E1 \in SUBSET Nat
      BY DEF E1
    <3> QED
      BY <2>3, <2>4, <3>1, Induct
  <2>6. n - 1 \in Nat /\ (n - 1) + 1 = n
    BY <2>1
  <2>7. n - 1 \in E1
    <3> HIDE DEF E1
    <3> QED
      BY <2>5, <2>6
  <2>8. P(n - 1)
    BY <2>6, <2>7
  <2>9. f1[n] \in Seq(E)
    BY <2>6, <2>8
  <2> QED
    BY <1>2, <2>9, FlattenIs DEF f1, n
<1> QED
  BY <1>1, <1>2

LEMMA FlattenOne ==
    ASSUME NEW E, NEW t \in Seq(E), NEW q, q = <<t>>
    PROVE  FlattenSeq(q) = t
<1>1. q \in Seq(Seq(E)) /\ Len(q) = 1 /\ q # <<>> /\ q[1] = t
  OBVIOUS
<1>2. FlattenSeq(q) = Joins(q)[1] /\ Joins(q)[1] = q[1]
  BY <1>1, FlattenIs, JoinsSteps
<1> QED
  BY <1>1, <1>2

\* What is joined from p and q is what is joined from p, and then that of q.
LEMMA FlattenJoin ==
    ASSUME NEW E, NEW p \in Seq(Seq(E)), NEW q \in Seq(Seq(E))
    PROVE  FlattenSeq(p \o q) = FlattenSeq(p) \o FlattenSeq(q)
<1>0. FlattenSeq(p) \in Seq(E) /\ FlattenSeq(q) \in Seq(E)
  BY FlattenIn
<1>1. CASE p = <<>>
  <2>1. p \o q = q
    BY <1>1
  <2>2. FlattenSeq(p) = <<>>
    BY <1>1, FlattenIs, Zenon
  <2>3. <<>> \o FlattenSeq(q) = FlattenSeq(q)
    BY <1>0
  <2> QED
    BY <2>1, <2>2, <2>3, Zenon
<1>2. CASE q = <<>>
  <2>1. p \o q = p
    BY <1>2
  <2>2. FlattenSeq(q) = <<>>
    BY <1>2, FlattenIs, Zenon
  <2>3. FlattenSeq(p) \o <<>> = FlattenSeq(p)
    BY <1>0
  <2> QED
    BY <2>1, <2>2, <2>3, Zenon
<1>3. CASE p # <<>> /\ q # <<>>
  <2> DEFINE m == Len(p)
             n == Len(q)
             r == p \o q
             f1 == Joins(p)
             g == Joins(q)
             h == Joins(r)
  <2>1. /\ m \in Nat /\ m > 0 /\ n \in Nat /\ n > 0
        /\ r \in Seq(Seq(E)) /\ r # <<>> /\ Len(r) = m + n
        /\ \A i \in 1..m : r[i] = p[i]
        /\ \A i \in 1..n : r[m + i] = q[i]
    BY <1>3
  <2>2. f1[1] = p[1] /\ \A i \in 2..m : f1[i] = f1[i - 1] \o p[i]
    BY <1>3, JoinsSteps
  <2>3. g[1] = q[1] /\ \A i \in 2..n : g[i] = g[i - 1] \o q[i]
    BY <1>3, JoinsSteps
  <2>4. h[1] = r[1] /\ \A i \in 2..(m + n) : h[i] = h[i - 1] \o r[i]
    BY <2>1, JoinsSteps
  <2>5. /\ FlattenSeq(p) = f1[m] /\ FlattenSeq(q) = g[n]
        /\ FlattenSeq(r) = h[m + n]
    BY <1>3, <2>1, FlattenIs
  <2>6. f1[m] \in Seq(E) /\ \A i \in 1..n : q[i] \in Seq(E)
    BY <1>0, <2>5
  <2> HIDE DEF m, n, r, f1, g, h
  <2> DEFINE P(i) == h[i + 1] = f1[i + 1]
             S == {i \in Nat : i + 1 <= m => P(i)}
  <2>7. S = Nat
    <3>1. 0 \in S
      BY <2>1, <2>2, <2>4
    <3>2. ASSUME NEW i \in S PROVE i + 1 \in S
      <4>0. i \in Nat /\ i + 1 \in Nat
        OBVIOUS
      <4>1. SUFFICES ASSUME (i + 1) + 1 <= m PROVE P(i + 1)
        BY <4>0, Zenon
      <4>2. /\ (i + 1) + 1 \in 2..m /\ (i + 1) + 1 \in 2..(m + n)
            /\ (i + 1) + 1 \in 1..m /\ ((i + 1) + 1) - 1 = i + 1 /\ P(i)
        BY <2>1, <4>1
      <4>3. h[(i + 1) + 1] = h[i + 1] \o r[(i + 1) + 1]
        BY <2>4, <4>2
      <4>4. f1[(i + 1) + 1] = f1[i + 1] \o p[(i + 1) + 1]
        BY <2>2, <4>2
      <4> QED
        BY <2>1, <4>2, <4>3, <4>4, Zenon
    <3> HIDE DEF S
    <3>3. S \in SUBSET Nat
      BY DEF S
    <3> QED
      BY <3>1, <3>2, <3>3, Induct
  <2>8. h[m] = f1[m]
    <3>1. m - 1 \in Nat /\ (m - 1) + 1 = m
      BY <2>1
    <3>2. m - 1 \in S
      <4> HIDE DEF S
      <4> QED
        BY <2>7, <3>1
    <3>3. P(m - 1)
      BY <3>1, <3>2
    <3> QED
      BY <3>1, <3>3
  <2> DEFINE Q(i) == g[i + 1] \in Seq(E) /\ h[m + (i + 1)] = f1[m] \o g[i + 1]
             E1 == {i \in Nat : i + 1 <= n => Q(i)}
  <2>9. E1 = Nat
    <3>1. 0 \in E1
      <4>0. /\ m + 1 \in 2..(m + n) /\ 1 \in 1..n /\ (m + 1) - 1 = m
            /\ 0 + 1 = 1
        BY <2>1
      <4>1. /\ h[m + 1] = h[(m + 1) - 1] \o r[m + 1]
            /\ r[m + 1] = q[1] /\ q[1] \in Seq(E)
        BY <2>1, <2>4, <2>6, <4>0, Zenon
      <4>2. g[0 + 1] \in Seq(E) /\ h[m + (0 + 1)] = f1[m] \o g[0 + 1]
        BY <2>3, <2>8, <4>0, <4>1, Zenon
      <4> QED
        BY <4>2
    <3>2. ASSUME NEW i \in E1 PROVE i + 1 \in E1
      <4>0. i \in Nat /\ i + 1 \in Nat
        OBVIOUS
      <4>1. SUFFICES ASSUME (i + 1) + 1 <= n PROVE Q(i + 1)
        BY <4>0, Zenon
      <4>7. m \in Nat /\ n \in Nat /\ m > 0
        BY <2>1
      <4>8. /\ (i + 1) + 1 \in 2..n /\ m + ((i + 1) + 1) \in 2..(m + n)
            /\ (i + 1) + 1 \in 1..n /\ ((i + 1) + 1) - 1 = i + 1
            /\ (m + ((i + 1) + 1)) - 1 = m + (i + 1) /\ i + 1 <= n
        BY <4>0, <4>1, <4>7
      <4>9. Q(i)
        BY <4>8
      <4>2. /\ (i + 1) + 1 \in 2..n /\ m + ((i + 1) + 1) \in 2..(m + n)
            /\ (i + 1) + 1 \in 1..n /\ ((i + 1) + 1) - 1 = i + 1
            /\ (m + ((i + 1) + 1)) - 1 = m + (i + 1) /\ Q(i)
        BY <4>8, <4>9, Zenon
      <4> DEFINE k == (i + 1) + 1
      <4>3. h[m + k] = h[m + (i + 1)] \o r[m + k] /\ r[m + k] = q[k]
        BY <2>1, <2>4, <4>2, Zenon
      <4>4. g[k] = g[i + 1] \o q[k] /\ q[k] \in Seq(E)
        BY <2>3, <2>6, <4>2, Zenon
      <4>10. g[i + 1] \in Seq(E) /\ h[m + (i + 1)] = f1[m] \o g[i + 1]
        BY <4>9
      <4> HIDE DEF k, Q
      <4>5. (f1[m] \o g[i + 1]) \o q[k] = f1[m] \o (g[i + 1] \o q[k])
        <5> DEFINE fm == f1[m]
                   gi == g[i + 1]
                   qk == q[k]
        <5>1. fm \in Seq(E) /\ gi \in Seq(E) /\ qk \in Seq(E)
          BY <2>6, <4>4, <4>10, Zenon
        <5> HIDE DEF fm, gi, qk
        <5>2. (fm \o gi) \o qk = fm \o (gi \o qk)
          BY <5>1, Associates
        <5> QED
          BY <5>2, Zenon DEF fm, gi, qk
      <4>6. g[k] \in Seq(E)
        BY <4>4, <4>10
      <4>11. h[m + k] = f1[m] \o g[k]
        BY <4>3, <4>4, <4>5, <4>10, Zenon
      <4> QED
        BY <4>6, <4>11, Zenon DEF k, Q
    <3> HIDE DEF E1
    <3>3. E1 \in SUBSET Nat
      BY DEF E1
    <3> QED
      BY <3>1, <3>2, <3>3, Induct
  <2>10. h[m + n] = f1[m] \o g[n]
    <3>1. n - 1 \in Nat /\ (n - 1) + 1 = n
      BY <2>1
    <3>2. n - 1 \in E1
      <4> HIDE DEF E1
      <4> QED
        BY <2>9, <3>1
    <3>3. n - 1 \in Nat /\ (n - 1) + 1 <= n
      BY <2>1
    <3>4. Q(n - 1)
      BY <3>2, <3>3, Zenon
    <3> QED
      BY <3>1, <3>4, Zenon
  <2> QED
    BY <2>5, <2>10 DEF r
<1> QED
  BY <1>1, <1>2, <1>3

-----------------------------------------------------------------------------
\* What the formatter may push onto the input: the two tokens of a trap, the
\* macros that its traps name, the tokens of ejections, and an input line it
\* that goes back until the first page has begun.

Called(g) ==
    {nm \in Macros : \/ nm = g.postponed
                     \/ \E i \in DOMAIN g.traps : g.traps[i].nm = nm}

Admits(S, g, it) ==
    /\ {BeginTrap, EndTrap, PageEjector, LastPageEjector, it} \subseteq S
    /\ \A nm \in Called(g) : Call(nm) \in S
    /\ g.input \in Seq(S)

Pushes(g, h, it) ==
    /\ Called(h) \subseteq Called(g)
    /\ \A S : Admits(S, g, it) => h.input \in Seq(S)
    /\ h.before = 1 => g.before = 1
    /\ h.status = "fatal" => g.status = "fatal" \/ g.before = 1

LEMMA PushesTransitive ==
    ASSUME NEW a, NEW b, NEW c, NEW it, Pushes(a, b, it), Pushes(b, c, it)
    PROVE  Pushes(a, c, it)
<1>1. ASSUME NEW S, Admits(S, a, it) PROVE c.input \in Seq(S)
  <2>1. Admits(S, b, it)
    BY <1>1, Zenon DEF Admits, Pushes
  <2> QED
    BY <2>1, Zenon DEF Pushes
<1> QED
  BY <1>1, Zenon DEF Pushes

\* An operation that leaves the input alone.
Idle(g, h) ==
    /\ h.input = g.input /\ h.postponed = g.postponed /\ h.traps = g.traps
    /\ h.before = g.before
    /\ h.status = "fatal" => g.status = "fatal" \/ g.before = 1

LEMMA IdlePushes ==
    ASSUME NEW g, NEW h, NEW it, Idle(g, h)
    PROVE  Pushes(g, h, it)
<1>1. Called(h) = Called(g)
  BY DEF Idle, Called
<1> QED
  BY <1>1, Zenon DEF Idle, Pushes, Admits

LEMMA PushSeq ==
    ASSUME NEW S, NEW items \in Seq(S), NEW s \in Seq(S)
    PROVE  items \o s \in Seq(S)
OBVIOUS

LEMMA PushInputPushes ==
    ASSUME NEW g \in FS, NEW items, NEW it,
           \A S : Admits(S, g, it) => items \in Seq(S)
    PROVE  Pushes(g, PushInput(g, items), it)
<1> DEFINE h == PushInput(g, items)
<1>1. /\ h.input = items \o g.input /\ h.postponed = g.postponed
      /\ h.traps = g.traps /\ h.before = g.before /\ h.status = g.status
  BY DEF PushInput, FS
<1> HIDE DEF h
<1>2. Called(h) = Called(g)
  BY <1>1 DEF Called
<1>3. ASSUME NEW S, Admits(S, g, it) PROVE h.input \in Seq(S)
  <2>1. items \in Seq(S) /\ g.input \in Seq(S)
    BY <1>3 DEF Admits
  <2> QED
    BY <1>1, <2>1, PushSeq
<1>4. Pushes(g, h, it)
  BY <1>1, <1>2, <1>3, Zenon DEF Pushes
<1> QED
  BY <1>4 DEF h

LEMMA PushOnePushes ==
    ASSUME NEW g \in FS, NEW it, NEW x \in {PageEjector, LastPageEjector, it}
    PROVE  Pushes(g, PushInput(g, <<x>>), it)
<1>1. ASSUME NEW S, Admits(S, g, it) PROVE <<x>> \in Seq(S)
  <2>1. x \in S
    BY <1>1 DEF Admits
  <2> QED
    BY <2>1
<1> QED
  BY <1>1, PushInputPushes

LEMMA PushPageEjectorPushes ==
    ASSUME NEW g \in FS, NEW it
    PROVE  Pushes(g, PushPageEjector(g), it)
<1>1. Pushes(g, PushInput(g, <<PageEjector>>), it)
  BY PushOnePushes
<1>2. Pushes(g, g, it)
  BY IdlePushes DEF Idle
<1> QED
  BY <1>1, <1>2 DEF PushPageEjector

LEMMA SpringTrapPushes ==
    ASSUME NEW g \in FS, NEW nm \in Called(g), NEW it
    PROVE  Pushes(g, SpringTrap(g, nm), it)
<1> DEFINE h == [g EXCEPT !.sprung = TRUE]
           p == [h EXCEPT !.postponed = nm]
           i == PushInput(h, TrapItems(nm))
<1>1. h \in FS
  BY ZenonT(30) DEF FS
<1>2. /\ Idle(g, h) /\ p.input = g.input /\ p.postponed = nm
      /\ p.traps = g.traps /\ p.before = g.before /\ p.status = g.status
  BY DEF FS, Idle
<1>3. SpringTrap(g, nm) = IF g.postponing THEN p ELSE i
  BY Zenon DEF SpringTrap, TrapItems
<1> HIDE DEF h, p
<1>4. Pushes(g, p, it)
  <2>1. Called(p) \subseteq Called(g)
    BY <1>2 DEF Called
  <2> QED
    BY <1>2, <2>1, Zenon DEF Pushes, Admits
<1>5. Pushes(g, i, it)
  <2>1. Called(h) = Called(g)
    BY <1>2 DEF Idle, Called
  <2>2. ASSUME NEW S, Admits(S, h, it) PROVE TrapItems(nm) \in Seq(S)
    <3>1. BeginTrap \in S /\ Call(nm) \in S /\ EndTrap \in S
      BY <2>1, <2>2 DEF Admits
    <3> QED
      BY <3>1 DEF TrapItems
  <2>3. Pushes(h, i, it)
    BY <1>1, <2>2, PushInputPushes
  <2>4. Pushes(g, h, it)
    BY <1>2, IdlePushes
  <2> QED
    BY <2>3, <2>4, PushesTransitive
<1> QED
  BY <1>3, <1>4, <1>5

-----------------------------------------------------------------------------
\* The page pushes nothing else.

\* The traps that a search finds are among those of the page.
LEMMA NextTrapCalled ==
    ASSUME NEW g \in FS, NEW vpos \in Int,
           NextTrap(g.traps, vpos, PageLength) # 0
    PROVE  g.traps[NextTrap(g.traps, vpos, PageLength)].nm \in Called(g)
<1> DEFINE s == g.traps
           A == Ahead(s, vpos, PageLength)
           I == {i \in A : \A j \in A : Location(s[i], PageLength)
                                          <= Location(s[j], PageLength)}
           n == NextTrap(s, vpos, PageLength)
<1>0. s \in Seq(Slots)
  BY DEF FS
<1>1. Len(s) \in Nat /\ I \in SUBSET (1..Len(s)) /\ DOMAIN s = 1..Len(s)
  BY <1>0 DEF Ahead, Live
<1>2. n = FirstOf(I)
  BY DEF NextTrap
<1>3. n \in DOMAIN s
  <2> HIDE DEF I
  <2>1. n \in I
    BY <1>1, <1>2, FirstOfLeast
  <2> QED
    BY <1>1, <2>1
<1>4. s[n].nm \in Macros
  BY <1>0, NextTrapIs, Zenon
<1> QED
  BY <1>3, <1>4 DEF Called

LEMMA TrapAheadCalled ==
    ASSUME NEW g \in FS, TrapAhead(g) # 0
    PROVE  g.traps[TrapAhead(g)].nm \in Called(g)
<1>1. g.vpos \in Int /\ g.length = PageLength
  BY DEF FS
<1>2. TrapAhead(g) = NextTrap(g.traps, g.vpos, PageLength)
  BY <1>1 DEF TrapAhead
<1> QED
  BY <1>1, <1>2, NextTrapCalled, Zenon

LEMMA TopTrapCalled ==
    ASSUME NEW g \in FS, TopTrap(g) # NoMacro
    PROVE  TopTrap(g) \in Called(g)
<1>1. -1 \in Int /\ g.length = PageLength
  BY DEF FS
<1>2. NextTrap(g.traps, -1, PageLength) # 0 =>
        g.traps[NextTrap(g.traps, -1, PageLength)].nm \in Called(g)
  BY <1>1, NextTrapCalled, Zenon
<1> QED
  BY <1>1, <1>2, Zenon DEF TopTrap

LEMMA BeginPagePushes ==
    ASSUME NEW g \in FS, NEW it
    PROVE  Pushes(g, BeginPage(g), it)
<1>1. CASE ~Running(g)
  <2>1. BeginPage(g) = g
    BY <1>1 DEF BeginPage
  <2> QED
    BY <2>1, IdlePushes DEF Idle
<1>2. CASE Running(g) /\ LastPageDone(g)
  <2> DEFINE h == [g EXCEPT !.status = "done"]
  <2>1. BeginPage(g) = h
    BY <1>2 DEF BeginPage
  <2>2. Idle(g, h)
    BY DEF Idle, FS
  <2> QED
    BY <2>1, <2>2, IdlePushes
<1>3. CASE Running(g) /\ ~LastPageDone(g)
  <2> DEFINE b == Begun(g)
  <2>1. BeginPage(g) = IF TopTrap(g) = NoMacro THEN b
                       ELSE SpringTrap(b, TopTrap(g))
    BY <1>3, Zenon DEF BeginPage, Begun
  <2>2. /\ b.input = g.input /\ b.postponed = g.postponed
        /\ b.traps = g.traps /\ b.before = 0 /\ b.status = g.status
    BY DEF Begun, FS
  <2>3. b \in FS
    BY BegunTurns DEF Turns, Keeps
  <2> HIDE DEF b
  <2>4. Called(b) = Called(g)
    BY <2>2 DEF Called
  <2>5. Pushes(g, b, it)
    <3>1. b.before # 1
      BY <2>2
    <3> QED
      BY <2>2, <2>4, <3>1, Zenon DEF Pushes, Admits
  <2>6. CASE TopTrap(g) # NoMacro
    <3>1. TopTrap(g) \in Called(b)
      BY <2>4, <2>6, TopTrapCalled
    <3>2. Pushes(b, SpringTrap(b, TopTrap(g)), it)
      BY <2>3, <3>1, SpringTrapPushes
    <3> QED
      BY <2>1, <2>5, <2>6, <3>2, PushesTransitive
  <2> QED
    BY <2>1, <2>5, <2>6
<1> QED
  BY <1>1, <1>2, <1>3

LEMMA MoveToIdle ==
    ASSUME NEW g \in FS, NEW y
    PROVE  Idle(g, MoveTo(g, y)) /\ Idle(g, [g EXCEPT !.vpos = y])
BY DEF Idle, FS, MoveTo

LEMMA SpringAtPushes ==
    ASSUME NEW g \in FS, NEW y \in Nat, y < PageLength, NEW nm \in Called(g),
           NEW it
    PROVE  Pushes(g, SpringTrap(MoveTo(g, y), nm), it)
<1> DEFINE h == MoveTo(g, y)
<1>1. h \in FS
  BY MoveToTurns DEF Turns, Keeps
<1>2. Idle(g, h)
  BY MoveToIdle
<1> HIDE DEF h
<1>3. nm \in Called(h)
  BY <1>2 DEF Idle, Called
<1>4. Pushes(g, h, it) /\ Pushes(h, SpringTrap(h, nm), it)
  BY <1>1, <1>2, <1>3, IdlePushes, SpringTrapPushes
<1> QED
  BY <1>4, PushesTransitive DEF h

LEMMA SpacePushes ==
    ASSUME NEW g \in FS, NEW n \in Nat, NEW forcing \in BOOLEAN, NEW it
    PROVE  Pushes(g, Space(g, n, forcing), it)
<1> DEFINE h == [g EXCEPT !.noSpace = FALSE]
           y == h.vpos + n
           t == TrapAhead(h)
<1>1. h \in FS
  BY NoSpaceTurns DEF Turns, Keeps
<1>2. Idle(g, h)
  BY DEF Idle, FS
<1> HIDE DEF h
<1>3. Space(g, n, forcing) =
        IF ~Running(g) \/ (g.noSpace /\ ~forcing) THEN g
        ELSE IF h.before > 0 THEN BeginPage(h)
        ELSE IF Reaches(h, t, y)
             THEN SpringTrap(MoveTo(h, Location(h.traps[t], h.length)),
                             h.traps[t].nm)
        ELSE IF y < 0 THEN MoveTo(h, 0)
        ELSE IF AtBottom(h, y) /\ n >= 0 THEN BeginPage(h)
        ELSE MoveTo(h, y)
  BY Zenon DEF Space, h
<1> HIDE DEF y
<1>4. Pushes(g, h, it) /\ Pushes(g, g, it)
  BY <1>2, IdlePushes DEF Idle
<1>5. Pushes(h, BeginPage(h), it)
  BY <1>1, BeginPagePushes
<1>6. Pushes(h, MoveTo(h, 0), it) /\ Pushes(h, MoveTo(h, y), it)
  BY <1>1, MoveToIdle, IdlePushes
<1>7. CASE Reaches(h, t, y)
  <2>1. t # 0
    BY <1>7 DEF Reaches
  <2>2. h.traps[t].nm \in Called(h)
    BY <1>1, <2>1, TrapAheadCalled
  <2>3. Location(h.traps[t], h.length) \in Nat
        /\ Location(h.traps[t], h.length) < PageLength
    BY <1>1, <2>1, TrapAheadIs DEF Reachable
  <2>4. Pushes(h, SpringTrap(MoveTo(h, Location(h.traps[t], h.length)),
                             h.traps[t].nm), it)
    BY <1>1, <2>2, <2>3, SpringAtPushes
  <2> QED
    BY <1>3, <1>4, <1>5, <1>7, <2>4, PushesTransitive, Zenon
<1>8. CASE ~Reaches(h, t, y)
  BY <1>3, <1>4, <1>5, <1>6, <1>8, PushesTransitive, Zenon
<1> QED
  BY <1>7, <1>8

LEMMA AfterLinePushes ==
    ASSUME NEW g \in FS, NEW t, Reachable(g, t),
           t # 0 => g.traps[t].nm \in Called(g), NEW y \in Nat, NEW it
    PROVE  Pushes(g, AfterLine(g, t, y, 0), it)
<1>1. ~(0 > 0) /\ g.length = PageLength /\ g.honor
  BY BeforeIs
<1>2. AfterLine(g, t, y, 0) =
        IF AtBottom(g, y) THEN BeginPage([g EXCEPT !.vpos = y])
        ELSE IF Reaches(g, t, y) THEN SpringTrap(MoveTo(g, y), g.traps[t].nm)
        ELSE MoveTo(g, y)
  BY <1>1, Zenon DEF AfterLine
<1>3. CASE AtBottom(g, y)
  <2> DEFINE h == [g EXCEPT !.vpos = y]
  <2>1. h \in FS
    BY ZenonT(30) DEF FS
  <2>2. Pushes(g, h, it)
    BY MoveToIdle, IdlePushes
  <2> HIDE DEF h
  <2>3. Pushes(h, BeginPage(h), it)
    BY <2>1, BeginPagePushes
  <2> QED
    BY <1>2, <1>3, <2>2, <2>3, PushesTransitive DEF h
<1>4. CASE ~AtBottom(g, y)
  <2>1. y < PageLength
    BY <1>1, <1>4, Parameters DEF AtBottom
  <2>2. CASE Reaches(g, t, y)
    <3>1. g.traps[t].nm \in Called(g)
      BY <2>2 DEF Reaches
    <3>2. Pushes(g, SpringTrap(MoveTo(g, y), g.traps[t].nm), it)
      BY <2>1, <3>1, SpringAtPushes
    <3> QED
      BY <1>2, <1>4, <2>2, <3>2
  <2>3. CASE ~Reaches(g, t, y)
    BY <1>2, <1>4, <2>3, MoveToIdle, IdlePushes
  <2> QED
    BY <2>2, <2>3
<1> QED
  BY <1>3, <1>4

LEMMA OutputLinePushes ==
    ASSUME NEW g \in FS, g.before # 1, NEW words \in Seq(Nat), NEW it
    PROVE  Pushes(g, OutputLine(g, words, Vee), it)
<1> DEFINE t == TrapAhead(g)
           h == [g EXCEPT !.noSpace = FALSE]
           line == [h EXCEPT !.written = @ \o words]
           y == h.vpos + 1 + 0
<1>1. /\ h \in FS /\ Idle(g, h) /\ ~(h.before > 0)
  <2>1. h \in FS
    BY NoSpaceTurns DEF Turns, Keeps
  <2>2. Idle(g, h) /\ h.before = g.before
    BY DEF Idle, FS
  <2> QED
    BY <2>1, <2>2, BeforeIs
<1>2. OutputLine(g, words, Vee) =
        IF ~Running(h) THEN h ELSE AfterLine(line, t, y, 0)
  <2> DEFINE begun == IF h.before > 0 THEN BeginPage(h) ELSE h
             springs == h.before > 0 /\ TopTrap(h) # NoMacro
  <2>1. OutputLine(g, words, Vee) =
          IF ~Running(begun) THEN begun
          ELSE IF springs THEN [begun EXCEPT !.status = "fatal"]
          ELSE AfterLine([begun EXCEPT !.written = @ \o words], t,
                         begun.vpos + 1 + 0, 0)
    BY DEF OutputLine, PlaceLine, Vee
  <2>2. begun = h /\ ~springs
    BY <1>1, Zenon
  <2> HIDE DEF begun, springs, h, t
  <2> QED
    BY <2>1, <2>2, Zenon
<1>3. Reachable(g, t) /\ (t # 0 => g.traps[t].nm \in Called(g))
      /\ g.length = PageLength
  BY TrapAheadIs, TrapAheadCalled, BeforeIs
<1> HIDE DEF h, t
<1>4. line \in FS
  BY <1>1, WordsWrites DEF Writes, Keeps
<1>5. Idle(h, line)
  BY <1>1 DEF Idle, FS
<1>6. y \in Nat
  BY <1>1, BeforeIs
<1> HIDE DEF line, y
<1>7. /\ line.traps = g.traps /\ Called(line) = Called(g)
      /\ line.length = PageLength
  BY <1>1, <1>4, <1>5, BeforeIs DEF Idle, Called
<1>8. Reachable(line, t) /\ (t # 0 => line.traps[t].nm \in Called(line))
  BY <1>3, <1>7, Zenon DEF Reachable
<1>9. Pushes(line, AfterLine(line, t, y, 0), it)
  BY <1>4, <1>6, <1>8, AfterLinePushes
<1>10. Pushes(g, h, it) /\ Pushes(h, line, it)
  BY <1>1, <1>5, IdlePushes
<1>11. Pushes(g, AfterLine(line, t, y, 0), it)
  BY <1>9, <1>10, PushesTransitive
<1> QED
  BY <1>2, <1>10, <1>11

LEMMA NeedPushes ==
    ASSUME NEW g \in FS, Running(g), OnPage(g), NEW n \in Nat, NEW it
    PROVE  Pushes(g, Need(g, n), it)
<1>1. DistanceAhead(g) \in Nat
  BY DistanceIs DEF OnPage
<1>2. Pushes(g, Space(g, DistanceAhead(g), TRUE), it) /\ Pushes(g, g, it)
  BY <1>1, SpacePushes, IdlePushes DEF Idle
<1> QED
  BY <1>2 DEF Need

-----------------------------------------------------------------------------
\* The words: those written, those of the lines that wait, and those of the
\* line being collected.

Formatted(g) == g.written \o FlattenSeq(g.pending)

Total(g) == Formatted(g) \o g.line

Grows(g, h) == \E w \in Seq(Nat) : h.written = g.written \o w

LEMMA WordsAssociate ==
    \A a \in Seq(Nat), b \in Seq(Nat), c \in Seq(Nat) :
       (a \o b) \o c = a \o (b \o c)
BY Associates

LEMMA WordsIn ==
    ASSUME NEW g \in FS
    PROVE  /\ g.written \in Seq(Nat) /\ g.line \in Seq(Nat)
           /\ g.pending \in Seq(Seq(Nat)) /\ FlattenSeq(g.pending) \in Seq(Nat)
           /\ Formatted(g) \in Seq(Nat) /\ Held(g) \in Seq(Nat)
           /\ Total(g) \in Seq(Nat) /\ Total(g) = g.written \o Held(g)
<1>1. g.written \in Seq(Nat) /\ g.line \in Seq(Nat)
      /\ g.pending \in Seq(Seq(Nat))
  BY DEF FS
<1>2. FlattenSeq(g.pending) \in Seq(Nat)
  BY <1>1, FlattenIn
<1> DEFINE a == g.written
           b == FlattenSeq(g.pending)
           c == g.line
<1>3. a \in Seq(Nat) /\ b \in Seq(Nat) /\ c \in Seq(Nat)
  BY <1>1, <1>2
<1>4. Formatted(g) = a \o b /\ Held(g) = b \o c /\ Total(g) = Formatted(g) \o c
  BY Zenon DEF Formatted, Held, Total
<1> HIDE DEF a, b, c
<1>5. a \o b \in Seq(Nat) /\ b \o c \in Seq(Nat) /\ (a \o b) \o c \in Seq(Nat)
  BY <1>3, PushSeq
<1>6. (a \o b) \o c = a \o (b \o c)
  BY <1>3, WordsAssociate, Zenon
<1> QED
  BY <1>1, <1>2, <1>4, <1>5, <1>6, Zenon DEF a

LEMMA EmptyIsNeutral ==
    ASSUME NEW s \in Seq(Nat)
    PROVE  s \o <<>> = s /\ <<>> \o s = s
OBVIOUS

LEMMA NothingHeld ==
    ASSUME NEW g, NoText(g)
    PROVE  Held(g) = <<>> /\ FlattenSeq(g.pending) = <<>>
<1>1. FlattenSeq(<<>>) = <<>>
  BY FlattenIs, <<>> \in Seq(Seq(Nat)), Zenon
<1>2. <<>> \o <<>> = <<>>
  OBVIOUS
<1> QED
  BY <1>1, <1>2, Zenon DEF NoText, Held

LEMMA GrowsSame ==
    ASSUME NEW g \in FS, NEW h, h.written = g.written
    PROVE  Grows(g, h)
<1>1. <<>> \in Seq(Nat) /\ g.written \o <<>> = g.written
  BY DEF FS
<1> QED
  BY <1>1, Zenon DEF Grows

LEMMA GrowsTransitive ==
    ASSUME NEW a \in FS, NEW b, NEW c, Grows(a, b), Grows(b, c)
    PROVE  Grows(a, c)
<1>1. PICK v \in Seq(Nat) : b.written = a.written \o v
  BY DEF Grows
<1>2. PICK w \in Seq(Nat) : c.written = b.written \o w
  BY DEF Grows
<1>3. a.written \in Seq(Nat)
  BY DEF FS
<1>4. (a.written \o v) \o w = a.written \o (v \o w)
  BY <1>3, WordsAssociate, Zenon
<1>5. v \o w \in Seq(Nat)
  BY PushSeq
<1> QED
  BY <1>1, <1>2, <1>4, <1>5, Zenon DEF Grows

\* Nothing is held as long as no word is read.
LEMMA HeldGone ==
    ASSUME NEW a \in FS, NEW b \in FS, Total(b) = Total(a), Grows(a, b),
           Held(a) = <<>>
    PROVE  Held(b) = <<>>
<1>1. PICK w \in Seq(Nat) : b.written = a.written \o w
  BY DEF Grows
<1> DEFINE u == a.written
           v == Held(b)
<1>2. u \in Seq(Nat) /\ v \in Seq(Nat) /\ Total(b) = b.written \o v
      /\ Total(a) = u \o <<>>
  BY WordsIn
<1>3. (u \o w) \o v = u \o <<>>
  BY <1>1, <1>2
<1> HIDE DEF u, v
<1>4. Len((u \o w) \o v) = Len(u) + Len(w) + Len(v) /\ Len(u \o <<>>) = Len(u)
  BY <1>2
<1>5. Len(v) = 0
  BY <1>2, <1>3, <1>4
<1>6. v = <<>>
  BY <1>2, <1>5
<1> QED
  BY <1>6 DEF v

-----------------------------------------------------------------------------
\* What an operation does with the words, when it reads none: it loses none,
\* writes them in order, and ends the process only with nothing held or after
\* the final break.  Lines wait only for the end of a trap.

Waits(g, h) ==
    /\ Awaits(g) => Awaits(h)
    /\ h.sprung => g.sprung \/ Awaits(h)
    /\ h.pending # <<>> => g.pending # <<>> \/ g.sprung \/ Awaits(h)

Saves(g, h) ==
    /\ h \in FS
    /\ Total(h) = Total(g) /\ Grows(g, h) /\ h.collected = g.collected
    /\ g.line = <<>> => h.line = <<>>
    /\ h.before = 1 /\ NoText(g) => NoText(h)
    /\ h.eoiFinished = g.eoiFinished
    /\ h.status = "done" =>
          g.status = "done" \/ g.eoiFinished \/ Held(h) = <<>>

Treats(g, h, it) == Saves(g, h) /\ Waits(g, h) /\ Pushes(g, h, it)

\* A line that nothing keeps from being written does not wait.
Clears(g, h) == ~g.sprung /\ g.pending = <<>> => h.pending = <<>>

LEMMA WaitsTransitive ==
    ASSUME NEW a, NEW b, NEW c, Waits(a, b), Waits(b, c)
    PROVE  Waits(a, c)
BY Zenon DEF Waits

LEMMA TreatsTransitive ==
    ASSUME NEW a \in FS, NEW b, NEW c, NEW it, Treats(a, b, it),
           Treats(b, c, it)
    PROVE  Treats(a, c, it)
<1>1. Waits(a, c) /\ Pushes(a, c, it)
  BY WaitsTransitive, PushesTransitive DEF Treats
<1>2. b \in FS /\ c \in FS /\ Total(c) = Total(a) /\ Total(c) = Total(b)
      /\ Grows(b, c)
  BY Zenon DEF Treats, Saves
<1>3. Grows(a, c)
  BY GrowsTransitive DEF Treats, Saves
<1>4. Held(b) = <<>> => Held(c) = <<>>
  BY <1>2, HeldGone
<1>5. b.before = 1 \/ c.before # 1
  BY DEF Treats, Pushes
<1>6. Saves(a, c)
  BY <1>2, <1>3, <1>4, <1>5, Zenon DEF Treats, Saves
<1> QED
  BY <1>1, <1>6 DEF Treats

LEMMA SameWords ==
    ASSUME NEW g, NEW h, SameText(g, h), h.written = g.written
    PROVE  /\ Total(h) = Total(g) /\ Held(h) = Held(g)
           /\ NoText(h) <=> NoText(g)
BY Zenon DEF SameText, Total, Formatted, Held, NoText

LEMMA KeepsWaits ==
    ASSUME NEW g, NEW h, Keeps(g, h), h.pending = g.pending
    PROVE  Waits(g, h)
BY Zenon DEF Keeps, Stays, Covers, Awaits, Waits

LEMMA TurnsTreats ==
    ASSUME NEW g \in FS, NEW h, NEW it, Turns(g, h), Pushes(g, h, it)
    PROVE  Treats(g, h, it) /\ h.pending = g.pending /\ h.line = g.line
<1>1. /\ Keeps(g, h) /\ SameText(g, h) /\ Ends(g, h) /\ h.written = g.written
      /\ h \in FS
  BY DEF Turns, Keeps
<1>2. /\ Total(h) = Total(g) /\ Held(h) = Held(g)
      /\ NoText(h) <=> NoText(g)
  BY <1>1, SameWords
<1>3. Grows(g, h)
  BY <1>1, GrowsSame
<1>4. NoText(g) => Held(h) = <<>>
  BY <1>2, NothingHeld
<1>5. Saves(g, h)
  BY <1>1, <1>2, <1>3, <1>4, Zenon DEF Saves, SameText, Keeps, Stays, Ends
<1>6. Waits(g, h)
  BY <1>1, KeepsWaits DEF SameText
<1> QED
  BY <1>1, <1>5, <1>6, Zenon DEF Treats, SameText

\* An operation that leaves the text, the input and the traps alone.
Rests(g, h) ==
    /\ h \in FS /\ Idle(g, h) /\ SameText(g, h) /\ h.written = g.written
    /\ h.eoiFinished = g.eoiFinished /\ h.sprung = g.sprung
    /\ h.status = "done" => g.status = "done"

LEMMA RestsTreats ==
    ASSUME NEW g \in FS, NEW h, NEW it, Rests(g, h)
    PROVE  Treats(g, h, it) /\ h.pending = g.pending /\ h.line = g.line
<1>1. Total(h) = Total(g) /\ (NoText(h) <=> NoText(g))
  BY SameWords DEF Rests
<1>2. Grows(g, h)
  BY GrowsSame DEF Rests
<1>3. Saves(g, h)
  BY <1>1, <1>2, Zenon DEF Saves, Rests, SameText
<1>4. Waits(g, h)
  BY Zenon DEF Waits, Awaits, Rests, Idle, SameText
<1>5. Pushes(g, h, it)
  BY IdlePushes DEF Rests
<1> QED
  BY <1>3, <1>4, <1>5, Zenon DEF Treats, Rests, SameText

LEMMA TreatsSame ==
    ASSUME NEW g \in FS, NEW it
    PROVE  Treats(g, g, it)
BY RestsTreats, Zenon DEF Rests, Idle, SameText

LEMMA BeginPageTreats ==
    ASSUME NEW g \in FS, NEW it
    PROVE  /\ Treats(g, BeginPage(g), it)
           /\ BeginPage(g).pending = g.pending /\ BeginPage(g).line = g.line
BY BeginPageTurns, BeginPagePushes, TurnsTreats

LEMMA SpaceTreats ==
    ASSUME NEW g \in FS, NEW n \in Nat, NEW forcing \in BOOLEAN, NEW it
    PROVE  /\ Treats(g, Space(g, n, forcing), it)
           /\ Space(g, n, forcing).pending = g.pending
           /\ Space(g, n, forcing).line = g.line
BY SpaceTurns, SpacePushes, TurnsTreats

LEMMA PushOneTreats ==
    ASSUME NEW g \in FS, NEW it \in Tokens, it # Line("'sp"),
           it.kind \in {"ejector", "last", "line"}
    PROVE  /\ Treats(g, PushInput(g, <<it>>), it)
           /\ PushInput(g, <<it>>).pending = g.pending
           /\ PushInput(g, <<it>>).line = g.line
BY PushOneTurns, PushOnePushes, TurnsTreats

LEMMA PushPageEjectorTreats ==
    ASSUME NEW g \in FS, NEW it
    PROVE  /\ Treats(g, PushPageEjector(g), it)
           /\ PushPageEjector(g).pending = g.pending
           /\ PushPageEjector(g).line = g.line
BY PushPageEjectorTurns, PushPageEjectorPushes, TurnsTreats

-----------------------------------------------------------------------------
\* The environment.

\* output_pending_lines, line by line.
LEMMA OutputPendingSteps ==
    ASSUME NEW g \in FS
    PROVE  \E after :
              /\ after[0] = g
              /\ \A i \in 1..Len(g.pending) :
                    after[i] = OutputNext(after[i - 1])
              /\ OutputPending(g) = after[Len(g.pending)]
<1> DEFINE n == Len(g.pending)
           G(after) == [i \in 0..n |-> IF i = 0 THEN g
                                       ELSE OutputNext(after[i - 1])]
           after0 == CHOOSE after : after = G(after)
<1>1. n \in Nat
  BY DEF FS
<1> HIDE DEF n
<1>2. \A u \in FS : OutputNext(u) \in FS
  BY OutputNextDoes, DoesIn
<1>3. \E after : after = G(after)
  <2> DEFINE F == [u \in FS |-> OutputNext(u)]
  <2>1. \A u \in FS : F[u] \in FS /\ F[u] = OutputNext(u)
    BY <1>2
  <2> HIDE DEF F
  <2>2. PICK after : IsRepeated(after, n, g, F)
    BY <1>1, Repeated
  <2>3. \A i \in 0..n : after[i] \in FS
    BY <1>1, <2>1, <2>2, RepeatedIn
  <2>4. after = [i \in 0..n |-> IF i = 0 THEN g ELSE F[after[i - 1]]]
    BY <2>2 DEF IsRepeated
  <2>5. \A i \in 0..n : i = 0 \/ i - 1 \in 0..n
    BY <1>1
  <2>6. \A i \in 0..n : i # 0 => F[after[i - 1]] = OutputNext(after[i - 1])
    BY <2>1, <2>3, <2>5
  <2>7. after = G(after)
    BY <2>4, <2>6
  <2> QED
    BY <2>7
<1>4. after0 = G(after0)
  BY <1>3
<1>5. OutputPending(g) = after0[n]
  BY Zenon DEF OutputPending, after0, n
<1> HIDE DEF after0
<1>6. after0[0] = g /\ \A i \in 1..n : after0[i] = OutputNext(after0[i - 1])
  BY <1>1, <1>4
<1> QED
  BY <1>5, <1>6 DEF n

\* What happens to lines that are complete: the line being collected stays.
Puts(g, h, it) ==
    /\ h \in FS
    /\ Formatted(h) = Formatted(g) /\ Grows(g, h)
    /\ h.line = g.line /\ h.collected = g.collected
    /\ h.eoiFinished = g.eoiFinished
    /\ g.before # 1 \/ g.pending = <<>> => h.before # 1 \/ h.pending = <<>>
    /\ h.status = "done" => g.status = "done" \/ g.eoiFinished
    /\ Waits(g, h) /\ Pushes(g, h, it)

LEMMA PutsSame ==
    ASSUME NEW g \in FS, NEW it
    PROVE  Puts(g, g, it)
<1>1. Waits(g, g) /\ Pushes(g, g, it)
  BY TreatsSame DEF Treats
<1>2. Grows(g, g)
  BY GrowsSame
<1> QED
  BY <1>1, <1>2, Zenon DEF Puts

LEMMA PutsTransitive ==
    ASSUME NEW a \in FS, NEW b, NEW c, NEW it, Puts(a, b, it), Puts(b, c, it)
    PROVE  Puts(a, c, it)
<1>1. Waits(a, c) /\ Pushes(a, c, it)
  BY WaitsTransitive, PushesTransitive DEF Puts
<1>2. Grows(a, c)
  BY GrowsTransitive DEF Puts
<1> QED
  BY <1>1, <1>2, Zenon DEF Puts

\* The lines that wait without the first of them, which is written.
LEMMA FirstOut ==
    ASSUME NEW a \in Seq(Nat), NEW p \in Seq(Seq(Nat)), p # <<>>
    PROVE  /\ Head(p) \in Seq(Nat) /\ Tail(p) \in Seq(Seq(Nat))
           /\ Len(Tail(p)) = Len(p) - 1
           /\ (a \o Head(p)) \o FlattenSeq(Tail(p)) = a \o FlattenSeq(p)
<1> DEFINE x == Head(p)
           r == Tail(p)
           u == FlattenSeq(r)
<1>1. x \in Seq(Nat) /\ r \in Seq(Seq(Nat)) /\ Len(r) = Len(p) - 1
  OBVIOUS
<1>2. p = <<x>> \o r
  OBVIOUS
<1> HIDE DEF x, r
<1>3. <<x>> \in Seq(Seq(Nat)) /\ FlattenSeq(<<x>>) = x
  BY <1>1, OneItem, FlattenOne
<1>4. FlattenSeq(<<x>> \o r) = FlattenSeq(<<x>>) \o FlattenSeq(r)
  BY <1>1, <1>3, FlattenJoin
<1>5. FlattenSeq(p) = x \o u
  BY <1>2, <1>3, <1>4, Zenon
<1>6. u \in Seq(Nat)
  BY <1>1, FlattenIn
<1> HIDE DEF u
<1>7. (a \o x) \o u = a \o (x \o u)
  BY <1>1, <1>6, WordsAssociate, Zenon
<1> QED
  BY <1>1, <1>5, <1>7, Zenon DEF x, r, u

LEMMA LastIn ==
    ASSUME NEW p \in Seq(Seq(Nat)), NEW words \in Seq(Nat)
    PROVE  /\ Append(p, words) \in Seq(Seq(Nat))
           /\ FlattenSeq(Append(p, words)) = FlattenSeq(p) \o words
<1>1. Append(p, words) \in Seq(Seq(Nat)) /\ Append(p, words) = p \o <<words>>
  OBVIOUS
<1>2. <<words>> \in Seq(Seq(Nat)) /\ FlattenSeq(<<words>>) = words
  BY OneItem, FlattenOne
<1>3. FlattenSeq(p \o <<words>>) = FlattenSeq(p) \o FlattenSeq(<<words>>)
  BY <1>2, FlattenJoin
<1> QED
  BY <1>1, <1>2, <1>3, Zenon

\* The lines that wait change, and nothing else.
LEMMA PendingRests ==
    ASSUME NEW g \in FS, NEW p \in Seq(Seq(Nat)), NEW it
    PROVE  LET h == [g EXCEPT !.pending = p]
           IN  /\ h \in FS /\ Idle(g, h) /\ Pushes(g, h, it)
               /\ h.pending = p /\ h.line = g.line
               /\ h.written = g.written /\ h.collected = g.collected
               /\ h.status = g.status /\ h.sprung = g.sprung
               /\ h.eoiFinished = g.eoiFinished
               /\ (Awaits(h) <=> Awaits(g)) /\ (OnPage(h) <=> OnPage(g))
<1> DEFINE h == [g EXCEPT !.pending = p]
<1>1. h \in FS
  BY ZenonT(30) DEF FS
<1>2. /\ Idle(g, h) /\ h.pending = p /\ h.line = g.line
      /\ h.written = g.written /\ h.collected = g.collected
      /\ h.status = g.status /\ h.sprung = g.sprung /\ h.vpos = g.vpos
      /\ h.eoiFinished = g.eoiFinished
  BY DEF FS, Idle
<1> HIDE DEF h
<1>3. Pushes(g, h, it)
  BY <1>2, IdlePushes
<1>4. (Awaits(h) <=> Awaits(g)) /\ (OnPage(h) <=> OnPage(g))
  BY <1>2, Zenon DEF Idle, Awaits, OnPage, Running
<1> QED
  BY <1>1, <1>2, <1>3, <1>4, Zenon DEF h

\* A line that is written on a page.
LEMMA OutputLineOnPage ==
    ASSUME NEW g \in FS, Running(g), g.before # 1, NEW words \in Seq(Nat),
           NEW it
    PROVE  LET l == OutputLine(g, words, Vee)
           IN  /\ l \in FS /\ l.written = g.written \o words
               /\ SameText(g, l) /\ l.before # 1
               /\ l.eoiFinished = g.eoiFinished
               /\ l.status = "done" => NoText(g) \/ g.eoiFinished
               /\ l.status # "fatal"
               /\ Waits(g, l) /\ Pushes(g, l, it)
<1> DEFINE l == OutputLine(g, words, Vee)
<1>1. Writes(g, l, words) /\ Pushes(g, l, it)
  BY OutputLineWrites, OutputLinePushes
<1> HIDE DEF l
<1>2. /\ l \in FS /\ l.written = g.written \o words /\ SameText(g, l)
      /\ Keeps(g, l) /\ l.eoiFinished = g.eoiFinished /\ l.before # 1
  BY <1>1, Zenon DEF Writes, Keeps, Stays
<1>3. g.status # "done" /\ g.status # "fatal"
  BY DEF Running
<1>4. l.status = "done" => NoText(g) \/ g.eoiFinished
  BY <1>1, <1>3, Zenon DEF Writes, Ends
<1>5. l.status # "fatal"
  BY <1>1, <1>3, Zenon DEF Pushes
<1>6. Waits(g, l)
  BY <1>2, KeepsWaits DEF SameText
<1> QED
  BY <1>1, <1>2, <1>4, <1>5, <1>6, Zenon DEF l

LEMMA OutputNextPuts ==
    ASSUME NEW g \in FS, g.before # 1 \/ g.pending = <<>>, NEW it
    PROVE  /\ Puts(g, OutputNext(g), it)
           /\ \/ /\ OutputNext(g) = g
                 /\ g.pending = <<>> \/ g.sprung \/ ~Running(g)
              \/ Len(OutputNext(g).pending) = Len(g.pending) - 1
<1>1. CASE g.pending = <<>> \/ g.sprung \/ ~Running(g)
  <2>1. OutputNext(g) = g
    BY <1>1 DEF OutputNext
  <2> QED
    BY <1>1, <2>1, PutsSame
<1>2. CASE ~(g.pending = <<>> \/ g.sprung \/ ~Running(g))
  <2> DEFINE x == Head(g.pending)
             r == Tail(g.pending)
             l == OutputLine(g, x, Vee)
             h == [l EXCEPT !.pending = r]
  <2>1. g.pending \in Seq(Seq(Nat)) /\ g.written \in Seq(Nat)
    BY DEF FS
  <2>2. /\ x \in Seq(Nat) /\ r \in Seq(Seq(Nat)) /\ Len(r) = Len(g.pending) - 1
        /\ (g.written \o x) \o FlattenSeq(r) = Formatted(g)
    BY <1>2, <2>1, FirstOut DEF Formatted
  <2> HIDE DEF x, r
  <2>3. /\ l \in FS /\ l.written = g.written \o x
        /\ SameText(g, l) /\ l.before # 1 /\ l.eoiFinished = g.eoiFinished
        /\ l.status = "done" => NoText(g) \/ g.eoiFinished
        /\ Waits(g, l) /\ Pushes(g, l, it)
    BY <1>2, <2>2, OutputLineOnPage
  <2>4. OutputNext(g) = h
    <3>1. OutputNext(g) = [l EXCEPT !.pending = Tail(l.pending)]
      BY <1>2, Zenon DEF OutputNext, x
    <3> QED
      BY <2>3, <3>1, Zenon DEF SameText, r
  <2> HIDE DEF l
  <2>5. /\ h \in FS /\ Idle(l, h) /\ Pushes(l, h, it)
        /\ h.pending = r /\ h.line = l.line
        /\ h.written = l.written /\ h.collected = l.collected
        /\ h.status = l.status /\ h.sprung = l.sprung
        /\ h.eoiFinished = l.eoiFinished
        /\ (Awaits(h) <=> Awaits(l))
    BY <2>2, <2>3, PendingRests, ZenonT(30)
  <2> HIDE DEF h
  <2>6. Formatted(h) = Formatted(g)
    BY <2>2, <2>3, <2>5, Zenon DEF Formatted
  <2>7. Grows(g, h)
    BY <2>2, <2>3, <2>5 DEF Grows
  <2>8. Waits(g, h)
    BY <1>2, <2>3, <2>5, Zenon DEF Waits, SameText
  <2>9. Pushes(g, h, it)
    BY <2>3, <2>5, PushesTransitive
  <2>10. ~NoText(g) /\ h.before # 1
    BY <1>2, <2>3, <2>5 DEF NoText, Idle
  <2>11. Puts(g, h, it)
    BY <2>3, <2>5, <2>6, <2>7, <2>8, <2>9, <2>10, Zenon DEF Puts, SameText
  <2>12. Len(h.pending) = Len(g.pending) - 1
    BY <2>2, <2>5, Zenon
  <2> QED
    BY <2>4, <2>11, <2>12, Zenon
<1> QED
  BY <1>1, <1>2

\* output_pending_lines stops only at a trap or at the end.
LEMMA OutputPendingPuts ==
    ASSUME NEW g \in FS, g.before # 1 \/ g.pending = <<>>, NEW it
    PROVE  LET p == OutputPending(g)
           IN  /\ Puts(g, p, it)
               /\ p.pending = <<>> \/ p.sprung \/ ~Running(p)
               /\ g.pending = <<>> => p = g
<1> DEFINE n == Len(g.pending)
<1>1. n \in Nat /\ g.pending \in Seq(Seq(Nat))
  BY DEF FS
<1>2. PICK after : /\ after[0] = g
                   /\ \A i \in 1..n : after[i] = OutputNext(after[i - 1])
                   /\ OutputPending(g) = after[n]
  BY OutputPendingSteps
<1> DEFINE Stopped(u) == u.pending = <<>> \/ u.sprung \/ ~Running(u)
           P(i) == /\ Puts(g, after[i], it)
                   /\ Stopped(after[i]) \/ Len(after[i].pending) = n - i
           S == {i \in Nat : i <= n => P(i)}
<1>3. 0 \in S
  BY <1>1, <1>2, PutsSame
<1> HIDE DEF n
<1>4. ASSUME NEW i \in S PROVE i + 1 \in S
  <2>1. SUFFICES ASSUME i + 1 <= n PROVE P(i + 1)
    OBVIOUS
  <2> DEFINE u == after[i]
             v == after[i + 1]
  <2>2. i \in Nat /\ i <= n /\ i + 1 \in 1..n /\ (i + 1) - 1 = i
    BY <1>1, <2>1
  <2>3. Puts(g, u, it) /\ (Stopped(u) \/ Len(u.pending) = n - i)
    BY <2>2
  <2>4. v = OutputNext(u)
    BY <1>2, <2>2
  <2> HIDE DEF u, v, Stopped
  <2>5. u \in FS /\ (u.before # 1 \/ u.pending = <<>>)
    BY <2>3 DEF Puts
  <2>6. /\ Puts(u, v, it)
        /\ \/ v = u /\ Stopped(u)
           \/ Len(v.pending) = Len(u.pending) - 1
    BY <2>4, <2>5, OutputNextPuts DEF Stopped
  <2>7. Puts(g, v, it)
    BY <2>3, <2>6, PutsTransitive
  <2>8. Stopped(v) \/ Len(v.pending) = n - (i + 1)
    <3>1. CASE Stopped(u)
      <4>1. v = u
        BY <2>4, <3>1 DEF OutputNext, Stopped
      <4> QED
        BY <3>1, <4>1
    <3>2. CASE ~Stopped(u)
      <4> DEFINE a == Len(u.pending)
                 b == Len(v.pending)
      <4>1. a = n - i /\ b = a - 1
        BY <2>3, <2>6, <3>2, Zenon
      <4> HIDE DEF a, b
      <4>2. b = n - (i + 1)
        BY <1>1, <2>2, <4>1
      <4> QED
        BY <4>2 DEF b
    <3> QED
      BY <3>1, <3>2
  <2> QED
    BY <2>7, <2>8 DEF v
<1>5. S = Nat
  <2> HIDE DEF S
  <2>1. S \in SUBSET Nat
    BY DEF S
  <2> QED
    BY <1>3, <1>4, <2>1, Induct
<1>6. P(n)
  <2>1. n \in S /\ n <= n
    <3> HIDE DEF S
    <3> QED
      BY <1>1, <1>5
  <2> QED
    BY <2>1
<1>7. Stopped(after[n])
  <2>1. CASE Len(after[n].pending) = n - n
    <3> DEFINE q == after[n].pending
    <3>1. q \in Seq(Seq(Nat))
      BY <1>6, WordsIn DEF Puts
    <3>2. n - n = 0
      BY <1>1
    <3>3. Len(q) = 0
      BY <2>1, <3>2
    <3> HIDE DEF q
    <3>4. q = <<>>
      BY <3>1, <3>3
    <3> QED
      BY <3>4 DEF q
  <2> QED
    BY <1>6, <2>1
<1>8. g.pending = <<>> => OutputPending(g) = g
  BY <1>1, <1>2 DEF n
<1> QED
  BY <1>2, <1>6, <1>7, <1>8

-----------------------------------------------------------------------------
\* A line of words is written or waits behind those that wait already; the
\* process ends only with nothing left.
Adds(g, h, words, it) ==
    /\ h \in FS
    /\ Formatted(h) = Formatted(g) \o words /\ Grows(g, h)
    /\ h.line = g.line /\ h.collected = g.collected
    /\ h.eoiFinished = g.eoiFinished /\ h.before # 1
    /\ h.status = "done" => NoText(h)
    /\ h.status # "fatal"
    /\ Waits(g, h) /\ Pushes(g, h, it) /\ Clears(g, h)

LEMMA RunningIs ==
    ASSUME NEW g \in FS, g.status # "done", g.status # "fatal"
    PROVE  Running(g)
BY DEF FS, Running

LEMMA OutputPendingRuns ==
    ASSUME NEW g \in FS, Running(g), g.before # 1, ~g.eoiFinished, NEW it
    PROVE  LET p == OutputPending(g)
           IN  /\ Puts(g, p, it) /\ Running(p) /\ p.before # 1
               /\ p.pending = <<>> \/ p.sprung
               /\ g.pending = <<>> => p = g
<1> DEFINE p == OutputPending(g)
<1>1. /\ Puts(g, p, it) /\ (p.pending = <<>> \/ p.sprung \/ ~Running(p))
      /\ g.pending = <<>> => p = g
  BY OutputPendingPuts
<1> HIDE DEF p
<1>2. g.status # "done" /\ g.status # "fatal"
  BY DEF Running
<1>3. p.before # 1 /\ p.status # "fatal" /\ p.status # "done" /\ p \in FS
  BY <1>1, <1>2, Zenon DEF Puts, Pushes
<1>4. Running(p)
  BY <1>3, RunningIs
<1> QED
  BY <1>1, <1>3, <1>4 DEF p

LEMMA LineAdds ==
    ASSUME NEW p \in FS, Running(p), p.before # 1, ~p.eoiFinished,
           p.pending = <<>>, NEW words \in Seq(Nat), NEW it
    PROVE  Adds(p, OutputLine(p, words, Vee), words, it)
<1> DEFINE l == OutputLine(p, words, Vee)
<1>1. /\ l \in FS /\ l.written = p.written \o words
      /\ SameText(p, l) /\ l.before # 1
      /\ l.eoiFinished = p.eoiFinished
      /\ l.status = "done" => NoText(p) \/ p.eoiFinished
      /\ l.status # "fatal"
      /\ Waits(p, l) /\ Pushes(p, l, it)
  BY OutputLineOnPage
<1> HIDE DEF l
<1>2. l.pending = <<>> /\ l.line = p.line /\ l.collected = p.collected
  BY <1>1 DEF SameText
<1>3. Formatted(l) = Formatted(p) \o words
  <2>1. FlattenSeq(<<>>) = <<>>
    BY FlattenIs, <<>> \in Seq(Seq(Nat)), Zenon
  <2>2. p.written \in Seq(Nat) /\ l.written \in Seq(Nat)
    BY <1>1, WordsIn
  <2>3. Formatted(l) = l.written \o <<>> /\ Formatted(p) = p.written \o <<>>
    BY <1>2, <2>1, Zenon DEF Formatted
  <2>4. Formatted(l) = l.written /\ Formatted(p) = p.written
    BY <2>2, <2>3, EmptyIsNeutral
  <2> QED
    BY <1>1, <2>4, Zenon
<1>4. Grows(p, l)
  BY <1>1 DEF Grows
<1>5. l.status = "done" => NoText(l)
  BY <1>1, <1>2, Zenon DEF NoText
<1> QED
  BY <1>1, <1>2, <1>3, <1>4, <1>5, Zenon DEF Adds, Clears, l

LEMMA HoldAdds ==
    ASSUME NEW p \in FS, Running(p), p.before # 1,
           p.sprung \/ p.pending # <<>>, NEW words \in Seq(Nat), NEW it
    PROVE  Adds(p, [p EXCEPT !.pending = Append(@, words)], words, it)
<1> DEFINE r == Append(p.pending, words)
           h == [p EXCEPT !.pending = r]
<1>1. p.pending \in Seq(Seq(Nat)) /\ p.written \in Seq(Nat)
      /\ FlattenSeq(p.pending) \in Seq(Nat)
  BY WordsIn
<1>2. r \in Seq(Seq(Nat)) /\ FlattenSeq(r) = FlattenSeq(p.pending) \o words
  BY <1>1, LastIn
<1> HIDE DEF r
<1>3. /\ h \in FS /\ Idle(p, h) /\ Pushes(p, h, it)
      /\ h.pending = r /\ h.line = p.line
      /\ h.written = p.written /\ h.collected = p.collected
      /\ h.status = p.status /\ h.sprung = p.sprung
      /\ h.eoiFinished = p.eoiFinished
      /\ (Awaits(h) <=> Awaits(p))
  BY <1>2, PendingRests
<1> HIDE DEF h
<1>4. Formatted(h) = Formatted(p) \o words
  <2>1. Formatted(h) = p.written \o (FlattenSeq(p.pending) \o words)
    BY <1>2, <1>3, Zenon DEF Formatted
  <2> QED
    BY <1>1, <2>1, WordsAssociate, Zenon DEF Formatted
<1>5. Grows(p, h)
  BY <1>3, GrowsSame
<1>6. Waits(p, h)
  BY <1>3, Zenon DEF Waits
<1>7. h.status = "running" /\ h.before # 1
  BY <1>3 DEF Idle, Running
<1>8. Clears(p, h)
  BY Zenon DEF Clears
<1>9. Adds(p, h, words, it)
  BY <1>3, <1>4, <1>5, <1>6, <1>7, <1>8 DEF Adds
<1> QED
  BY <1>9, Zenon DEF h, r

\* environment::output
LEMMA EnvOutputAdds ==
    ASSUME NEW g \in FS, Running(g), g.before # 1, ~g.eoiFinished,
           NEW words \in Seq(Nat), NEW it
    PROVE  Adds(g, EnvOutput(g, words), words, it)
<1> DEFINE p == OutputPending(g)
           h == EnvOutput(g, words)
<1>1. /\ Puts(g, p, it) /\ Running(p) /\ p.before # 1
      /\ p.pending = <<>> \/ p.sprung
      /\ g.pending = <<>> => p = g
  BY OutputPendingRuns
<1>2. h = IF ~p.sprung /\ p.pending = <<>> THEN OutputLine(p, words, Vee)
          ELSE [p EXCEPT !.pending = Append(@, words)]
  BY <1>1, Zenon DEF EnvOutput, WriteOrHold
<1> HIDE DEF p, h
<1>3. p \in FS /\ ~p.eoiFinished
  BY <1>1 DEF Puts
<1>6. Adds(p, h, words, it)
  <2>1. CASE ~p.sprung /\ p.pending = <<>>
    <3>1. h = OutputLine(p, words, Vee)
      BY <1>2, <2>1
    <3> QED
      BY <1>1, <1>3, <2>1, <3>1, LineAdds
  <2>2. CASE ~(~p.sprung /\ p.pending = <<>>)
    <3>1. h = [p EXCEPT !.pending = Append(@, words)]
      BY <1>2, <2>2
    <3> QED
      BY <1>1, <1>3, <2>2, <3>1, HoldAdds
  <2> QED
    BY <2>1, <2>2
<1>7. Waits(g, h) /\ Pushes(g, h, it) /\ Grows(g, h)
  BY <1>1, <1>6, WaitsTransitive, PushesTransitive, GrowsTransitive
     DEF Puts, Adds
<1>8. Clears(g, h)
  BY <1>1, <1>6, Zenon DEF Clears, Adds
<1>9. Adds(g, h, words, it)
  BY <1>1, <1>6, <1>7, <1>8, Zenon DEF Adds, Puts
<1> QED
  BY <1>9 DEF h

-----------------------------------------------------------------------------
\* The line being collected.

\* What happens to text on a page: it is written, waits or is kept.
Fills(g, h, it) ==
    /\ h \in FS
    /\ Total(h) = Total(g) /\ Grows(g, h)
    /\ h.collected = g.collected
    /\ h.eoiFinished = g.eoiFinished /\ h.before # 1
    /\ h.status = "done" => NoText(h)
    /\ h.status # "fatal"
    /\ Waits(g, h) /\ Pushes(g, h, it)

LEMMA FillsTransitive ==
    ASSUME NEW a \in FS, NEW b, NEW c, NEW it, Fills(a, b, it), Fills(b, c, it)
    PROVE  Fills(a, c, it)
<1>1. Waits(a, c) /\ Pushes(a, c, it)
  BY WaitsTransitive, PushesTransitive DEF Fills
<1>2. Grows(a, c)
  BY GrowsTransitive DEF Fills
<1> QED
  BY <1>1, <1>2, Zenon DEF Fills

LEMMA FillsSame ==
    ASSUME NEW g \in FS, g.before # 1, g.status # "fatal",
           g.status = "done" => NoText(g), NEW it
    PROVE  Fills(g, g, it)
<1>1. Waits(g, g) /\ Pushes(g, g, it) /\ Grows(g, g)
  BY TreatsSame DEF Treats, Saves
<1> QED
  BY <1>1, Zenon DEF Fills

\* The line being collected changes, and the number of words read.
Relines(g, h, words, n, it) ==
    /\ h \in FS /\ Idle(g, h) /\ Pushes(g, h, it) /\ Waits(g, h)
    /\ h.pending = g.pending /\ h.line = words
    /\ h.written = g.written /\ h.collected = n
    /\ h.status = g.status /\ h.sprung = g.sprung
    /\ h.eoiFinished = g.eoiFinished
    /\ h.filling = g.filling /\ Formatted(h) = Formatted(g)

LEMMA LineRests ==
    ASSUME NEW g \in FS, NEW words \in Seq(Nat), NEW n \in Nat, NEW it
    PROVE  Relines(g, [g EXCEPT !.collected = n, !.line = words], words, n, it)
<1> DEFINE h == [g EXCEPT !.collected = n, !.line = words]
<1>1. h \in FS
  BY ZenonT(30) DEF FS
<1>2. /\ Idle(g, h) /\ h.pending = g.pending /\ h.line = words
      /\ h.written = g.written /\ h.collected = n
      /\ h.status = g.status /\ h.sprung = g.sprung
      /\ h.eoiFinished = g.eoiFinished /\ h.filling = g.filling
  BY DEF FS, Idle
<1> HIDE DEF h
<1>3. Pushes(g, h, it)
  BY <1>2, IdlePushes
<1>4. Waits(g, h)
  BY <1>2, Zenon DEF Idle, Waits, Awaits
<1>5. Formatted(h) = Formatted(g)
  BY <1>2, Zenon DEF Formatted
<1>6. Relines(g, h, words, n, it)
  BY <1>1, <1>2, <1>3, <1>4, <1>5 DEF Relines
<1> QED
  BY <1>6 DEF h

\* The first words of the line go out, the others stay.
LEMMA LineOutFills ==
    ASSUME NEW g \in FS, Running(g), g.before # 1, ~g.eoiFinished,
           NEW words \in Seq(Nat), NEW rest \in Seq(Nat),
           g.line = words \o rest, NEW it
    PROVE  LET h == EnvOutput([g EXCEPT !.line = rest], words)
           IN  Fills(g, h, it) /\ h.line = rest /\ Clears(g, h)
<1> DEFINE r == [g EXCEPT !.line = rest]
           q == [g EXCEPT !.collected = g.collected, !.line = rest]
           h == EnvOutput(r, words)
<1>1. r = q /\ g.collected \in Nat
  BY DEF FS
<1> HIDE DEF r
<1>2. /\ r \in FS /\ Idle(g, r) /\ Pushes(g, r, it) /\ Waits(g, r)
      /\ r.pending = g.pending /\ r.line = rest
      /\ r.written = g.written /\ r.collected = g.collected
      /\ r.status = g.status /\ r.sprung = g.sprung
      /\ r.eoiFinished = g.eoiFinished /\ Formatted(r) = Formatted(g)
  <2>1. Relines(g, q, rest, g.collected, it)
    BY <1>1, LineRests
  <2> HIDE DEF q
  <2> QED
    BY <1>1, <2>1, Zenon DEF Relines
<1>3. Running(r) /\ r.before # 1 /\ ~r.eoiFinished
  BY <1>2 DEF Running, Idle
<1>4. Adds(r, h, words, it)
  BY <1>2, <1>3, EnvOutputAdds
<1> HIDE DEF h
<1>5. Total(h) = Total(g)
  <2>1. Formatted(g) \in Seq(Nat)
    BY WordsIn
  <2>2. Total(h) = (Formatted(g) \o words) \o rest
    BY <1>2, <1>4, Zenon DEF Adds, Total
  <2>3. Total(g) = Formatted(g) \o (words \o rest)
    BY Zenon DEF Total
  <2> QED
    BY <2>1, <2>2, <2>3, WordsAssociate, Zenon
<1>6. Grows(g, h)
  BY <1>2, <1>4, Zenon DEF Adds, Grows
<1>7. Waits(g, h) /\ Pushes(g, h, it)
  BY <1>2, <1>4, WaitsTransitive, PushesTransitive DEF Adds
<1>8. Clears(g, h)
  BY <1>2, <1>4, Zenon DEF Adds, Clears
<1>9. Fills(g, h, it) /\ h.line = rest
  BY <1>2, <1>4, <1>5, <1>6, <1>7, Zenon DEF Adds, Fills
<1> QED
  BY <1>8, <1>9 DEF h, r

LEMMA SplitLine ==
    ASSUME NEW s \in Seq(Nat), NEW n \in Nat, n < Len(s)
    PROVE  /\ SubSeq(s, 1, n) \in Seq(Nat)
           /\ SubSeq(s, n + 1, Len(s)) \in Seq(Nat)
           /\ s = SubSeq(s, 1, n) \o SubSeq(s, n + 1, Len(s))
<1> DEFINE a == SubSeq(s, 1, n)
           b == SubSeq(s, n + 1, Len(s))
           t == a \o b
<1>1. a \in Seq(Nat) /\ Len(a) = n /\ \A i \in 1..n : a[i] = s[i]
  OBVIOUS
<1>2. b \in Seq(Nat) /\ Len(b) = Len(s) - n
      /\ \A i \in 1..(Len(s) - n) : b[i] = s[n + i]
  OBVIOUS
<1> HIDE DEF a, b, t
<1>3. t \in Seq(Nat) /\ Len(t) = Len(s)
      /\ (\A i \in 1..n : t[i] = a[i])
      /\ \A i \in 1..(Len(s) - n) : t[n + i] = b[i]
  <2>0. a \in Seq(Nat) /\ b \in Seq(Nat)
    BY <1>1, <1>2
  <2>1. /\ t \in Seq(Nat) /\ Len(t) = Len(a) + Len(b)
        /\ (\A i \in 1..Len(a) : t[i] = a[i])
        /\ \A i \in 1..Len(b) : t[Len(a) + i] = b[i]
    BY <2>0, ConcatIs DEF t
  <2>2. Len(s) \in Nat /\ n + (Len(s) - n) = Len(s)
    OBVIOUS
  <2> QED
    BY <1>1, <1>2, <2>1, <2>2
<1>4. ASSUME NEW i \in 1..Len(s) PROVE t[i] = s[i]
  <2>1. CASE i <= n
    BY <1>1, <1>3, <2>1
  <2>2. CASE ~(i <= n)
    <3>1. i - n \in 1..(Len(s) - n) /\ n + (i - n) = i
      BY <2>2
    <3>2. b[i - n] = s[n + (i - n)] /\ t[n + (i - n)] = b[i - n]
      BY <1>2, <1>3, <3>1, Zenon
    <3> QED
      BY <3>1, <3>2
  <2> QED
    BY <2>1, <2>2
<1>5. s = t
  BY <1>3, <1>4, SameSequence
<1> QED
  BY <1>1, <1>2, <1>5 DEF t, a, b

LEMMA BreakFullFills ==
    ASSUME NEW g \in FS, g.before # 1, ~g.eoiFinished, g.status # "fatal",
           g.status = "done" => NoText(g), NEW it
    PROVE  Fills(g, BreakFull(g), it)
<1>0. g.line \in Seq(Nat) /\ Width \in Nat \ {0}
  BY Parameters DEF FS
<1>1. CASE Len(g.line) <= Width
  BY <1>1, FillsSame DEF BreakFull
<1>2. CASE ~(Len(g.line) <= Width)
  <2> DEFINE s == g.line
             words == SubSeq(s, 1, Width)
             rest == SubSeq(s, Width + 1, Len(s))
  <2>1. words \in Seq(Nat) /\ rest \in Seq(Nat) /\ s = words \o rest
    <3>1. Width < Len(s) /\ Width \in Nat
      BY <1>0, <1>2
    <3> QED
      BY <1>0, <3>1, SplitLine
  <2>2. Running(g)
    <3>1. ~NoText(g)
      BY <1>0, <1>2 DEF NoText
    <3> QED
      BY <3>1, RunningIs
  <2>3. BreakFull(g) = EnvOutput([g EXCEPT !.line = rest], words)
    BY <1>2, Zenon DEF BreakFull
  <2> HIDE DEF words, rest
  <2> QED
    <3>1. Fills(g, EnvOutput([g EXCEPT !.line = rest], words), it)
      BY <2>1, <2>2, LineOutFills
    <3> QED
      BY <2>3, <3>1, Zenon
<1> QED
  BY <1>1, <1>2

\* environment::possibly_break_line, line by line.
LEMMA PossiblyBreakLineSteps ==
    ASSUME NEW g \in FS
    PROVE  \E after :
              /\ after[0] = g
              /\ \A i \in 1..Len(g.line) :
                    after[i] = BreakFull(after[i - 1])
              /\ PossiblyBreakLine(g) = after[Len(g.line)]
<1> DEFINE n == Len(g.line)
           G(after) == [i \in 0..n |-> IF i = 0 THEN g
                                       ELSE BreakFull(after[i - 1])]
           after0 == CHOOSE after : after = G(after)
<1>1. n \in Nat
  BY DEF FS
<1> HIDE DEF n
<1>2. \A u \in FS : BreakFull(u) \in FS
  BY BreakFullDoes, DoesIn
<1>3. \E after : after = G(after)
  <2> DEFINE F == [u \in FS |-> BreakFull(u)]
  <2>1. \A u \in FS : F[u] \in FS /\ F[u] = BreakFull(u)
    BY <1>2
  <2> HIDE DEF F
  <2>2. PICK after : IsRepeated(after, n, g, F)
    BY <1>1, Repeated
  <2>3. \A i \in 0..n : after[i] \in FS
    BY <1>1, <2>1, <2>2, RepeatedIn
  <2>4. after = [i \in 0..n |-> IF i = 0 THEN g ELSE F[after[i - 1]]]
    BY <2>2 DEF IsRepeated
  <2>5. \A i \in 0..n : i = 0 \/ i - 1 \in 0..n
    BY <1>1
  <2>6. \A i \in 0..n : i # 0 => F[after[i - 1]] = BreakFull(after[i - 1])
    BY <2>1, <2>3, <2>5
  <2>7. after = G(after)
    BY <2>4, <2>6
  <2> QED
    BY <2>7
<1>4. after0 = G(after0)
  BY <1>3
<1>5. PossiblyBreakLine(g) = after0[n]
  BY Zenon DEF PossiblyBreakLine, after0, n
<1> HIDE DEF after0
<1>6. after0[0] = g /\ \A i \in 1..n : after0[i] = BreakFull(after0[i - 1])
  BY <1>1, <1>4
<1> QED
  BY <1>5, <1>6 DEF n

LEMMA PossiblyBreakLineFills ==
    ASSUME NEW g \in FS, Running(g), g.before # 1, ~g.eoiFinished, NEW it
    PROVE  Fills(g, PossiblyBreakLine(g), it)
<1> DEFINE n == Len(g.line)
<1>1. n \in Nat
  BY DEF FS
<1>2. PICK after : /\ after[0] = g
                   /\ \A i \in 1..n : after[i] = BreakFull(after[i - 1])
                   /\ PossiblyBreakLine(g) = after[n]
  BY PossiblyBreakLineSteps
<1> HIDE DEF n
<1> DEFINE S == {i \in Nat : i <= n => Fills(g, after[i], it)}
<1>3. 0 \in S
  <2>1. g.status # "done" /\ g.status # "fatal"
    BY DEF Running
  <2> QED
    BY <1>2, <2>1, FillsSame
<1>4. ASSUME NEW i \in S PROVE i + 1 \in S
  <2>1. SUFFICES ASSUME i + 1 <= n PROVE Fills(g, after[i + 1], it)
    OBVIOUS
  <2> DEFINE u == after[i]
             v == after[i + 1]
  <2>2. i \in Nat /\ i <= n /\ i + 1 \in 1..n /\ (i + 1) - 1 = i
    BY <1>1, <2>1
  <2>3. Fills(g, u, it)
    BY <2>2
  <2>4. v = BreakFull(u)
    BY <1>2, <2>2
  <2> HIDE DEF u, v
  <2>5. Fills(u, v, it)
    BY <2>3, <2>4, BreakFullFills DEF Fills
  <2>6. Fills(g, v, it)
    BY <2>3, <2>5, FillsTransitive
  <2> QED
    BY <2>6 DEF v
<1>5. S = Nat
  <2> HIDE DEF S
  <2>1. S \in SUBSET Nat
    BY DEF S
  <2> QED
    BY <1>3, <1>4, <2>1, Induct
<1>6. n \in S /\ n <= n
  <2> HIDE DEF S
  <2> QED
    BY <1>1, <1>5
<1> QED
  BY <1>2, <1>6

-----------------------------------------------------------------------------
\* The requests: what they do to the words.

\* What a break may rely on.
Ready(g) ==
    /\ g.before = 1 => NoText(g)
    /\ g.eoiFinished => g.line = <<>>

\* An operation that has nothing to do with the text.
Moves(g, h, it) ==
    Treats(g, h, it) /\ h.pending = g.pending /\ h.line = g.line

Handles(g, h, it) == Treats(g, h, it) /\ Clears(g, h)

LEMMA MovesSame ==
    ASSUME NEW g \in FS, NEW it
    PROVE  Moves(g, g, it)
BY TreatsSame DEF Moves

LEMMA MovesHandles ==
    ASSUME NEW g, NEW h, NEW it, Moves(g, h, it)
    PROVE  Handles(g, h, it) /\ h \in FS
BY Zenon DEF Moves, Handles, Clears, Treats, Saves

LEMMA MovesTransitive ==
    ASSUME NEW a \in FS, NEW b, NEW c, NEW it, Moves(a, b, it), Moves(b, c, it)
    PROVE  Moves(a, c, it)
<1>1. Treats(a, c, it)
  BY TreatsTransitive DEF Moves
<1> QED
  BY <1>1 DEF Moves

LEMMA HandlesThenMoves ==
    ASSUME NEW a \in FS, NEW b, NEW c, NEW it, Handles(a, b, it),
           Moves(b, c, it)
    PROVE  Handles(a, c, it)
<1>1. Treats(a, c, it)
  BY TreatsTransitive DEF Moves, Handles
<1> QED
  BY <1>1, Zenon DEF Moves, Handles, Clears

LEMMA MovesThenHandles ==
    ASSUME NEW a \in FS, NEW b, NEW c, NEW it, Moves(a, b, it),
           b.sprung => a.sprung, Handles(b, c, it)
    PROVE  Handles(a, c, it)
<1>1. Treats(a, c, it)
  BY TreatsTransitive DEF Moves, Handles
<1> QED
  BY <1>1, Zenon DEF Moves, Handles, Clears

LEMMA RestsMoves ==
    ASSUME NEW g \in FS, NEW h, NEW it, Rests(g, h)
    PROVE  Moves(g, h, it) /\ h.sprung = g.sprung /\ h.status = h.status
BY RestsTreats DEF Moves, Rests

LEMMA FillsHandles ==
    ASSUME NEW g, NEW h, NEW it, Fills(g, h, it), Clears(g, h),
           g.line = <<>> => h.line = <<>>
    PROVE  Handles(g, h, it)
<1>1. h.status = "done" => Held(h) = <<>>
  BY NothingHeld DEF Fills
<1> QED
  BY <1>1, Zenon DEF Fills, Handles, Treats, Saves

\* environment::do_break leaves no partially collected line.
LEMMA DoBreakHandles ==
    ASSUME NEW g \in FS, Running(g), Ready(g), NEW it
    PROVE  Handles(g, DoBreak(g), it) /\ DoBreak(g).line = <<>>
<1>0. g.before > 0 <=> g.before = 1
  BY BeforeIs
<1>1. CASE g.before > 0
  <2>1. DoBreak(g) = BeginPage(g) /\ g.line = <<>>
    BY <1>0, <1>1 DEF DoBreak, Ready, NoText
  <2>2. Moves(g, BeginPage(g), it)
    BY BeginPageTreats DEF Moves
  <2> QED
    BY <2>1, <2>2, MovesHandles DEF Moves
<1>2. CASE ~(g.before > 0) /\ g.line = <<>>
  <2>1. DoBreak(g) = g
    BY <1>2 DEF DoBreak
  <2> QED
    BY <1>2, <2>1, MovesSame, MovesHandles
<1>3. CASE ~(g.before > 0) /\ g.line # <<>>
  <2> DEFINE h == EnvOutput([g EXCEPT !.line = <<>>], g.line)
  <2>1. DoBreak(g) = h
    BY <1>3 DEF DoBreak
  <2>2. g.line \in Seq(Nat) /\ <<>> \in Seq(Nat) /\ g.line = g.line \o <<>>
    BY DEF FS
  <2>3. g.before # 1 /\ ~g.eoiFinished
    BY <1>0, <1>3 DEF Ready
  <2>4. Fills(g, h, it) /\ h.line = <<>> /\ Clears(g, h)
    BY <2>2, <2>3, LineOutFills
  <2> QED
    BY <2>1, <2>4, FillsHandles
<1> QED
  BY <1>1, <1>2, <1>3

\* environment::output_title: a title has no words.
LEMMA OutputTitleHandles ==
    ASSUME NEW g \in FS, Running(g), g.before # 1, NEW it
    PROVE  Handles(g, OutputTitle(g), it)
<1>0. <<>> \in Seq(Nat)
  OBVIOUS
<1>1. CASE ~g.sprung
  <2> DEFINE l == OutputLine(g, <<>>, Vee)
  <2>1. OutputTitle(g) = l
    BY <1>1 DEF OutputTitle
  <2>2. /\ l \in FS /\ l.written = g.written \o <<>>
        /\ SameText(g, l) /\ l.before # 1
        /\ l.eoiFinished = g.eoiFinished
        /\ l.status = "done" => NoText(g) \/ g.eoiFinished
        /\ Waits(g, l) /\ Pushes(g, l, it)
    BY <1>0, OutputLineOnPage
  <2> HIDE DEF l
  <2>3. l.written = g.written
    BY <2>2, WordsIn, EmptyIsNeutral
  <2>4. Total(l) = Total(g) /\ Held(l) = Held(g)
    BY <2>2, <2>3, SameWords
  <2>5. NoText(g) => Held(g) = <<>>
    BY NothingHeld
  <2>6. Grows(g, l)
    BY <2>3, GrowsSame
  <2>7. Saves(g, l)
    BY <2>2, <2>4, <2>5, <2>6, Zenon DEF Saves, SameText
  <2>8. Handles(g, l, it)
    BY <2>2, <2>7, Zenon DEF Handles, Treats, Clears, SameText
  <2> QED
    BY <2>1, <2>8
<1>2. CASE g.sprung
  <2> DEFINE e == <<<<>>>>
             r == e \o g.pending
             h == [g EXCEPT !.pending = r]
  <2>1. OutputTitle(g) = h
    BY <1>2 DEF OutputTitle
  <2>2. g.pending \in Seq(Seq(Nat)) /\ FlattenSeq(g.pending) \in Seq(Nat)
    BY WordsIn
  <2>3. e \in Seq(Seq(Nat)) /\ FlattenSeq(e) = <<>>
    BY <1>0, OneItem, FlattenOne
  <2>4. r \in Seq(Seq(Nat)) /\ FlattenSeq(r) = FlattenSeq(g.pending)
    <3> HIDE DEF e
    <3>1. r \in Seq(Seq(Nat))
      BY <2>2, <2>3, PushSeq
    <3>2. FlattenSeq(r) = FlattenSeq(e) \o FlattenSeq(g.pending)
      BY <2>2, <2>3, FlattenJoin
    <3>3. <<>> \o FlattenSeq(g.pending) = FlattenSeq(g.pending)
      BY <2>2, EmptyIsNeutral
    <3> QED
      BY <2>3, <3>1, <3>2, <3>3, Zenon
  <2> HIDE DEF e, r
  <2>5. /\ h \in FS /\ Idle(g, h) /\ Pushes(g, h, it)
        /\ h.pending = r /\ h.line = g.line
        /\ h.written = g.written /\ h.collected = g.collected
        /\ h.status = g.status /\ h.sprung = g.sprung
        /\ h.eoiFinished = g.eoiFinished
        /\ (Awaits(h) <=> Awaits(g))
    BY <2>4, PendingRests
  <2> HIDE DEF h
  <2>6. Total(h) = Total(g)
    BY <2>4, <2>5, Zenon DEF Total, Formatted
  <2>7. Grows(g, h)
    BY <2>5, GrowsSame
  <2>8. h.before # 1
    BY <2>5 DEF Idle
  <2>9. Saves(g, h)
    BY <2>5, <2>6, <2>7, <2>8, Zenon DEF Saves
  <2>10. Waits(g, h) /\ Clears(g, h)
    BY <1>2, <2>5, Zenon DEF Waits, Clears
  <2> QED
    BY <2>1, <2>5, <2>9, <2>10 DEF Handles, Treats
<1> QED
  BY <1>1, <1>2

\* A trap is sprung, on a page or not: its end is awaited.
LEMMA SpringTrapText ==
    ASSUME NEW g \in FS, NEW nm \in Macros
    PROVE  LET h == SpringTrap(g, nm)
           IN  /\ h \in FS /\ SameText(g, h) /\ h.written = g.written
               /\ h.status = g.status /\ h.before = g.before
               /\ h.eoiFinished = g.eoiFinished /\ h.traps = g.traps
               /\ Awaits(h) /\ (Brief(g) => Has(h.input, {"end"}))
               /\ Brief(g) => Brief(h) /\ h.input = TrapItems(nm) \o g.input
<1> DEFINE h == [g EXCEPT !.sprung = TRUE]
           p == [h EXCEPT !.postponed = nm]
           i == PushInput(h, TrapItems(nm))
<1>0. g.input \in Seq(Tokens) /\ NoMacro # nm
  BY Parameters DEF FS
<1>1. h \in FS /\ p \in FS
  BY ZenonT(30) DEF FS
<1>2. /\ SameText(g, h) /\ h.written = g.written /\ h.status = g.status
      /\ h.before = g.before /\ h.eoiFinished = g.eoiFinished
      /\ h.traps = g.traps /\ h.input = g.input
      /\ h.postponing = g.postponing /\ h.postponed = g.postponed
  BY DEF FS, SameText
<1>3. /\ SameText(g, p) /\ p.written = g.written /\ p.status = g.status
      /\ p.before = g.before /\ p.eoiFinished = g.eoiFinished
      /\ p.traps = g.traps /\ p.postponed = nm
  BY DEF FS, SameText
<1>4. SpringTrap(g, nm) = IF g.postponing THEN p ELSE i
  BY Zenon DEF SpringTrap, TrapItems
<1> HIDE DEF h, p
<1>5. CASE g.postponing
  <2>1. Awaits(p)
    BY <1>0, <1>3 DEF Awaits
  <2>2. ~Brief(g)
    BY <1>5 DEF Brief
  <2> QED
    BY <1>1, <1>3, <1>4, <1>5, <2>1, <2>2
<1>6. CASE ~g.postponing
  <2>1. TrapItems(nm) \o h.input \in Seq(Tokens)
        /\ Has(TrapItems(nm) \o h.input, {"end"})
    BY <1>0, <1>2, CoversTrap DEF Covers
  <2>2. /\ i \in FS /\ i.input = TrapItems(nm) \o h.input
        /\ SameText(h, i) /\ i.written = h.written /\ i.status = h.status
        /\ i.before = h.before /\ Stays(h, i)
    BY <1>1, <2>1, PushInputIs
  <2> HIDE DEF i
  <2>3. Awaits(i) /\ Has(i.input, {"end"})
    BY <2>1, <2>2, Zenon DEF Awaits
  <2>4. SameText(g, i)
    BY <1>2, <2>2, Zenon DEF SameText
  <2>5. Brief(g) => Brief(i)
    BY <1>2, <2>2, Zenon DEF Stays, Brief
  <2> QED
    BY <1>2, <1>4, <1>6, <2>2, <2>3, <2>4, <2>5, Zenon DEF Stays
<1> QED
  BY <1>5, <1>6

\* A change that the words do not take part in.
LEMMA QuietSaves ==
    ASSUME NEW g \in FS, NEW h \in FS, SameText(g, h), h.written = g.written,
           h.eoiFinished = g.eoiFinished,
           h.status = "done" => g.status = "done"
    PROVE  Saves(g, h)
<1>1. Total(h) = Total(g) /\ (NoText(h) <=> NoText(g))
  BY SameWords
<1>2. Grows(g, h)
  BY GrowsSame
<1> QED
  BY <1>1, <1>2, Zenon DEF Saves, SameText

\* unpostpone_traps springs the trap that was postponed.
LEMMA UnpostponeMoves ==
    ASSUME NEW g \in FS, NEW it
    PROVE  Moves(g, Unpostpone(g), it)
<1> DEFINE h == [g EXCEPT !.postponing = FALSE]
           nm == h.postponed
           s == SpringTrap(h, nm)
           u == [s EXCEPT !.postponed = NoMacro]
<1>1. h \in FS
  BY PostponingIn
<1>2. Idle(g, h) /\ SameText(g, h) /\ h.written = g.written
      /\ h.eoiFinished = g.eoiFinished /\ h.sprung = g.sprung
      /\ h.status = g.status /\ ~h.postponing
  BY DEF FS, Idle, SameText
<1>3. Unpostpone(g) = IF nm = NoMacro THEN h ELSE u
  BY Zenon DEF Unpostpone
<1> HIDE DEF h
<1>4. Moves(g, h, it)
  <2>1. Rests(g, h)
    BY <1>1, <1>2, Zenon DEF Rests
  <2> QED
    BY <2>1, RestsMoves
<1>5. CASE nm # NoMacro
  <2>1. nm \in Macros
    BY <1>1, <1>5 DEF FS
  <2>2. nm \in Called(h)
    BY <2>1 DEF Called
  <2> HIDE DEF nm
  <2>3. SpringTrap(h, nm) = PushInput([h EXCEPT !.sprung = TRUE], TrapItems(nm))
    BY <1>2, Zenon DEF SpringTrap, TrapItems
  <2>4. /\ s \in FS /\ SameText(h, s) /\ s.written = h.written
        /\ s.status = h.status /\ s.before = h.before
        /\ s.eoiFinished = h.eoiFinished /\ s.traps = h.traps
        /\ Pushes(h, s, it)
    BY <1>1, <2>1, <2>2, SpringTrapText, SpringTrapPushes
  <2>5. Has(s.input, {"end"})
    <3> DEFINE r == [h EXCEPT !.sprung = TRUE]
    <3>1. r \in FS
      BY <1>1, ZenonT(30) DEF FS
    <3>2. r.input = h.input /\ h.input \in Seq(Tokens)
      BY <1>1 DEF FS
    <3>3. s = PushInput(r, TrapItems(nm))
      BY <2>3
    <3> HIDE DEF r, s
    <3>4. TrapItems(nm) \o r.input \in Seq(Tokens)
          /\ Has(TrapItems(nm) \o r.input, {"end"})
      BY <2>1, <3>2, CoversTrap DEF Covers
    <3>5. s.input = TrapItems(nm) \o r.input
      BY <3>1, <3>3, <3>4, PushInputIs
    <3> QED
      BY <3>4, <3>5, Zenon
  <2> HIDE DEF s
  <2>6. u \in FS /\ u.postponed = NoMacro
    BY <2>4, PostponedIn
  <2>7. /\ SameText(s, u) /\ u.written = s.written /\ u.status = s.status
        /\ u.before = s.before /\ u.eoiFinished = s.eoiFinished
        /\ u.traps = s.traps /\ u.input = s.input
    BY <2>4 DEF FS, SameText
  <2> HIDE DEF u
  <2>8. Pushes(h, u, it)
    <3>1. Called(u) \subseteq Called(s)
      BY <2>6, <2>7, Parameters DEF Called
    <3>2. \A S : Admits(S, h, it) => u.input \in Seq(S)
      BY <2>4, <2>7, Zenon DEF Pushes
    <3> QED
      BY <2>4, <2>7, <3>1, <3>2, Zenon DEF Pushes
  <2>9. Saves(h, u)
    <3>1. SameText(h, u) /\ u.written = h.written
          /\ u.eoiFinished = h.eoiFinished /\ u.status = h.status
      BY <2>4, <2>7, Zenon DEF SameText
    <3> QED
      BY <1>1, <2>6, <3>1, QuietSaves
  <2>10. Waits(h, u)
    <3>1. Awaits(u)
      BY <2>5, <2>7 DEF Awaits
    <3> QED
      BY <3>1, Zenon DEF Waits
  <2>11. Moves(h, u, it)
    BY <2>4, <2>7, <2>8, <2>9, <2>10, Zenon DEF Moves, Treats, SameText
  <2>12. Moves(g, u, it)
    BY <1>4, <2>11, MovesTransitive
  <2> QED
    BY <1>3, <1>5, <2>12 DEF nm
<1> QED
  BY <1>3, <1>4, <1>5

LEMMA SpaceMoves ==
    ASSUME NEW g \in FS, NEW n \in Nat, NEW forcing \in BOOLEAN, NEW it
    PROVE  Moves(g, Space(g, n, forcing), it)
BY SpaceTreats DEF Moves

LEMMA BeginPageMoves ==
    ASSUME NEW g \in FS, NEW it
    PROVE  Moves(g, BeginPage(g), it)
BY BeginPageTreats DEF Moves

LEMMA MovesIn ==
    ASSUME NEW g, NEW h, NEW it, Moves(g, h, it) \/ Handles(g, h, it)
    PROVE  h \in FS
BY Zenon DEF Moves, Handles, Treats, Saves

LEMMA SpaceAfterBreakMoves ==
    ASSUME NEW g \in FS, NEW it
    PROVE  Moves(g, SpaceAfterBreak(g), it)
<1> DEFINE u == Unpostpone(g)
<1>1. Moves(g, u, it) /\ u \in FS
  BY UnpostponeMoves, MovesIn
<1>2. SpaceAfterBreak(g) = IF g.postponed # NoMacro \/ u.noSpace THEN u
                           ELSE Space(u, 1, FALSE)
  BY Zenon DEF SpaceAfterBreak
<1> HIDE DEF u
<1>3. Moves(u, Space(u, 1, FALSE), it)
  BY <1>1, SpaceMoves
<1>4. Moves(g, Space(u, 1, FALSE), it)
  BY <1>1, <1>3, MovesTransitive
<1> QED
  BY <1>1, <1>2, <1>4

LEMMA SpaceRequestHandles ==
    ASSUME NEW g \in FS, Running(g), Ready(g), NEW breaks \in BOOLEAN, NEW it
    PROVE  Handles(g, SpaceRequest(g, breaks), it)
<1> DEFINE h == [g EXCEPT !.postponing = TRUE]
           d == DoBreak(h)
<1>1. h \in FS
  BY PostponingIn
<1>2. Idle(g, h) /\ SameText(g, h) /\ h.written = g.written
      /\ h.eoiFinished = g.eoiFinished /\ h.sprung = g.sprung
      /\ h.status = g.status
  BY DEF FS, Idle, SameText
<1>3. SpaceRequest(g, breaks) = IF breaks THEN SpaceAfterBreak(d)
                                ELSE IF g.before > 0 THEN h
                                ELSE SpaceAfterBreak(h)
  BY Zenon DEF SpaceRequest
<1> HIDE DEF h
<1>4. Moves(g, h, it)
  <2>1. Rests(g, h)
    BY <1>1, <1>2, Zenon DEF Rests
  <2> QED
    BY <2>1, RestsMoves
<1>5. Running(h) /\ Ready(h)
  BY <1>2, Zenon DEF Running, Ready, Idle, SameText, NoText
<1>6. Handles(h, d, it) /\ d \in FS
  BY <1>1, <1>5, DoBreakHandles, MovesIn
<1> HIDE DEF d
<1>7. Handles(g, d, it)
  BY <1>2, <1>4, <1>6, MovesThenHandles
<1>8. Moves(d, SpaceAfterBreak(d), it) /\ Moves(h, SpaceAfterBreak(h), it)
  BY <1>1, <1>6, SpaceAfterBreakMoves
<1>9. Handles(g, SpaceAfterBreak(d), it)
  BY <1>7, <1>8, HandlesThenMoves
<1>10. Handles(g, h, it) /\ Handles(g, SpaceAfterBreak(h), it)
  BY <1>4, <1>8, MovesTransitive, MovesHandles
<1> QED
  BY <1>3, <1>9, <1>10

LEMMA BlankLineHandles ==
    ASSUME NEW g \in FS, Running(g), Ready(g), NEW it
    PROVE  Handles(g, BlankLine(g), it)
<1> DEFINE d == DoBreak(g)
<1>1. Handles(g, d, it) /\ d \in FS
  BY DoBreakHandles, MovesIn
<1>2. BlankLine(g) = IF d.sprung \/ d.noSpace THEN d ELSE Space(d, 1, FALSE)
  BY Zenon DEF BlankLine, SpaceUnlessSprung
<1> HIDE DEF d
<1>3. Moves(d, Space(d, 1, FALSE), it)
  BY <1>1, SpaceMoves
<1>4. Handles(g, Space(d, 1, FALSE), it)
  BY <1>1, <1>3, HandlesThenMoves
<1> QED
  BY <1>1, <1>2, <1>4

\* set_ejecting
LEMMA SetEjectingMoves ==
    ASSUME NEW g \in FS, NEW it
    PROVE  /\ Moves(g, SetEjecting(g), it)
           /\ Moves(g, EjectUnlessNoSpace(g), it)
<1> DEFINE h == [g EXCEPT !.ejecting = TRUE]
<1>1. h \in FS
  BY EjectingIn
<1>2. Idle(g, h) /\ SameText(g, h) /\ h.written = g.written
      /\ h.eoiFinished = g.eoiFinished /\ h.sprung = g.sprung
      /\ h.status = g.status
  BY DEF FS, Idle, SameText
<1>3. SetEjecting(g) = IF Running(g) THEN h ELSE g
  BY DEF SetEjecting
<1> HIDE DEF h
<1>4. Rests(g, h)
  BY <1>1, <1>2, Zenon DEF Rests
<1>5. Moves(g, h, it) /\ Moves(g, g, it)
  BY <1>4, RestsMoves, MovesSame
<1> QED
  BY <1>3, <1>5 DEF EjectUnlessNoSpace

LEMMA BeginPageRequestHandles ==
    ASSUME NEW g \in FS, Running(g), Ready(g), NEW breaks \in BOOLEAN, NEW it
    PROVE  Handles(g, BeginPageRequest(g, breaks), it)
<1> DEFINE p == PushPageEjector(g)
           b == BeginPage(p)
           d == DoBreak(p)
<1>1. Moves(g, p, it) /\ p \in FS
  BY PushPageEjectorTreats DEF Moves, Treats, Saves
<1>2. p = PushInput(g, <<PageEjector>>)
  BY DEF PushPageEjector
<1>3. p.sprung = g.sprung /\ Running(p) /\ Ready(p)
  <2>1. p.sprung = g.sprung /\ p.status = g.status /\ p.before = g.before
        /\ p.eoiFinished = g.eoiFinished
    BY <1>2 DEF PushInput, FS
  <2> QED
    BY <1>1, <2>1, Zenon DEF Running, Ready, Moves, NoText
<1>4. BeginPageRequest(g, breaks) =
        IF g.before > 0 THEN EjectFirstPage(g, breaks)
        ELSE EjectUnlessNoSpace(IF breaks THEN d ELSE p)
  BY Zenon DEF BeginPageRequest
<1>5. EjectFirstPage(g, breaks) =
        IF ~breaks THEN IF g.noSpace THEN g ELSE BeginPage(g)
        ELSE IF g.noSpace THEN BeginPage(g)
        ELSE SetEjecting(b)
  BY Zenon DEF EjectFirstPage
<1> HIDE DEF p
<1>6. Moves(p, b, it) /\ b \in FS
  BY <1>1, BeginPageMoves, MovesIn
<1>7. Handles(p, d, it) /\ d \in FS
  BY <1>1, <1>3, DoBreakHandles, MovesIn
<1> HIDE DEF b, d
<1>8. Handles(g, d, it)
  BY <1>1, <1>3, <1>7, MovesThenHandles
<1>9. Moves(g, b, it)
  BY <1>1, <1>6, MovesTransitive
<1>10. Moves(b, SetEjecting(b), it) /\ Moves(d, EjectUnlessNoSpace(d), it)
       /\ Moves(p, EjectUnlessNoSpace(p), it)
  BY <1>1, <1>6, <1>7, SetEjectingMoves
<1>11. Handles(g, SetEjecting(b), it) /\ Handles(g, EjectUnlessNoSpace(p), it)
  BY <1>1, <1>9, <1>10, MovesTransitive, MovesHandles
<1>12. Handles(g, EjectUnlessNoSpace(d), it)
  BY <1>8, <1>10, HandlesThenMoves
<1>13. Handles(g, g, it) /\ Handles(g, BeginPage(g), it)
  BY MovesSame, BeginPageMoves, MovesHandles
<1> QED
  BY <1>4, <1>5, <1>11, <1>12, <1>13, Zenon

\* title
LEMMA TitleHandles ==
    ASSUME NEW g \in FS, Running(g)
    PROVE  Handles(g, Title(g), Line("tl"))
<1> DEFINE it == Line("tl")
           p == PushInput(g, <<it>>)
<1>0. g.before > 0 <=> g.before = 1
  BY BeforeIs
<1>1. CASE g.before > 0
  <2>1. it \in Tokens /\ it # Line("'sp")
        /\ it.kind \in {"ejector", "last", "line"}
    <3>1. "tl" \in InputLines /\ "tl" # "'sp"
      BY DEF InputLines
    <3> QED
      BY <3>1, TokensAre
  <2>2. Title(g) = BeginPage(p)
    BY <1>1, Zenon DEF Title
  <2>3. Moves(g, p, it) /\ p \in FS
    BY <2>1, PushOneTreats DEF Moves, Treats, Saves
  <2> HIDE DEF p, it
  <2>4. Moves(p, BeginPage(p), it)
    BY <2>3, BeginPageMoves
  <2>5. Handles(g, BeginPage(p), it)
    BY <2>3, <2>4, MovesTransitive, MovesHandles
  <2> QED
    BY <2>2, <2>5 DEF it
<1>2. CASE ~(g.before > 0)
  <2>1. Title(g) = OutputTitle(g)
    BY <1>2, Zenon DEF Title
  <2> QED
    BY <1>0, <1>2, <2>1, OutputTitleHandles
<1> QED
  BY <1>1, <1>2

LEMMA NeedHandles ==
    ASSUME NEW g \in FS, Running(g), OnPage(g), NEW n \in Nat, NEW it
    PROVE  Handles(g, Need(g, n), it)
<1>1. DistanceAhead(g) \in Nat
  BY DistanceIs DEF OnPage
<1>2. Moves(g, Space(g, DistanceAhead(g), TRUE), it) /\ Moves(g, g, it)
  BY <1>1, SpaceMoves, MovesSame
<1> QED
  BY <1>2, MovesHandles DEF Need

LEMMA FillingHandles ==
    ASSUME NEW g \in FS, Running(g), Ready(g), NEW nm \in {"br", "fi", "nf"},
           NEW it
    PROVE  Handles(g, Filling(DoBreak(g), nm), it)
<1> DEFINE d == DoBreak(g)
<1>1. Handles(g, d, it) /\ d \in FS
  BY DoBreakHandles, MovesIn
<1> HIDE DEF d
<1>2. ASSUME NEW b \in BOOLEAN PROVE Moves(d, [d EXCEPT !.filling = b], it)
  <2> DEFINE h == [d EXCEPT !.filling = b]
  <2>1. h \in FS
    BY <1>1, FillingIn DEF TextIn
  <2>2. /\ Idle(d, h) /\ h.line = d.line /\ h.pending = d.pending
        /\ h.collected = d.collected /\ h.written = d.written
        /\ h.eoiFinished = d.eoiFinished /\ h.sprung = d.sprung
        /\ h.status = d.status
    BY <1>1 DEF FS, Idle
  <2> HIDE DEF h
  <2>3. Total(h) = Total(d) /\ (NoText(h) <=> NoText(d))
    BY <2>2, Zenon DEF Total, Formatted, NoText
  <2>4. Grows(d, h)
    BY <1>1, <2>2, GrowsSame
  <2>5. Saves(d, h)
    BY <2>1, <2>2, <2>3, <2>4, Zenon DEF Saves
  <2>6. Waits(d, h)
    BY <2>2, Zenon DEF Idle, Waits, Awaits
  <2>7. Pushes(d, h, it)
    BY <2>2, IdlePushes
  <2>8. Moves(d, h, it)
    BY <2>2, <2>5, <2>6, <2>7 DEF Moves, Treats
  <2> QED
    BY <2>8 DEF h
<1>3. /\ Moves(d, [d EXCEPT !.filling = TRUE], it)
      /\ Moves(d, [d EXCEPT !.filling = FALSE], it) /\ Moves(d, d, it)
  BY <1>1, <1>2, MovesSame
<1>4. Moves(d, Filling(d, nm), it)
  BY <1>3 DEF Filling
<1>5. Handles(g, Filling(d, nm), it)
  BY <1>1, <1>4, HandlesThenMoves
<1> QED
  BY <1>5 DEF d

NewText == {"word", "long"}

\* An input line that is neither text nor ex.
LEMMA InterpretHandles ==
    ASSUME NEW g \in FS, Running(g), OnPage(g), Ready(g),
           NEW nm \in InputLines, nm # "ex", nm \notin NewText
    PROVE  Handles(g, Interpret(g, nm), Line(nm))
<1>2. CASE nm = "blank"
  <2>1. Interpret(g, nm) = BlankLine(g)
    BY <1>2 DEF Interpret
  <2> QED
    BY <2>1, BlankLineHandles
<1>3. CASE nm \in {"br", "fi", "nf"}
  <2>1. Interpret(g, nm) = Filling(DoBreak(g), nm)
    BY <1>3 DEF Interpret
  <2> QED
    BY <1>3, <2>1, FillingHandles
<1>4. CASE nm \in {"sp", "'sp"}
  <2>1. Interpret(g, nm) = SpaceRequest(g, nm = "sp")
    BY <1>4 DEF Interpret
  <2>2. (nm = "sp") \in BOOLEAN
    OBVIOUS
  <2> QED
    BY <2>1, <2>2, SpaceRequestHandles
<1>5. CASE nm \in {"bp", "'bp"}
  <2>1. Interpret(g, nm) = BeginPageRequest(g, nm = "bp")
    BY <1>5 DEF Interpret
  <2>2. (nm = "bp") \in BOOLEAN
    OBVIOUS
  <2> QED
    BY <2>1, <2>2, BeginPageRequestHandles
<1>6. CASE nm = "ne"
  <2>1. Interpret(g, nm) = Need(g, 2)
    BY <1>6 DEF Interpret
  <2> QED
    BY <2>1, NeedHandles
<1>7. CASE nm = "ns"
  <2> DEFINE h == [g EXCEPT !.noSpace = TRUE]
  <2>1. Interpret(g, nm) = h
    BY <1>7 DEF Interpret
  <2>2. Turns(g, h)
    BY NoSpaceTurns
  <2>3. Idle(g, h)
    BY DEF FS, Idle
  <2> HIDE DEF h
  <2>4. Moves(g, h, Line(nm))
    BY <2>2, <2>3, IdlePushes, TurnsTreats DEF Moves
  <2> QED
    BY <2>1, <2>4, MovesHandles
<1>8. CASE nm = "tl"
  <2>1. Interpret(g, nm) = Title(g)
    BY <1>8 DEF Interpret
  <2> QED
    BY <1>8, <2>1, TitleHandles
<1> QED
  BY <1>2, <1>3, <1>4, <1>5, <1>6, <1>7, <1>8 DEF InputLines, NewText

-----------------------------------------------------------------------------
\* The words that an item of the input adds.

NewWords(g, n) == [i \in 1..n |-> g.collected + i]

Says(g, h, n) ==
    /\ h \in FS
    /\ Total(h) = Total(g) \o NewWords(g, n)
    /\ h.collected = g.collected + n
    /\ Grows(g, h)
    /\ h.before = 1 /\ NoText(g) => NoText(h)
    /\ h.eoiFinished = g.eoiFinished
    /\ h.status = "done" =>
          g.status = "done" \/ g.eoiFinished \/ Held(h) = <<>>

LEMMA SavesSays ==
    ASSUME NEW g \in FS, NEW h, Saves(g, h)
    PROVE  Says(g, h, 0)
<1>1. g.collected \in Nat /\ h.collected = g.collected + 0
  BY DEF FS, Saves
<1>2. NewWords(g, 0) = <<>>
  BY <1>1 DEF NewWords
<1>3. Total(g) \o <<>> = Total(g)
  BY WordsIn, EmptyIsNeutral
<1> QED
  BY <1>1, <1>2, <1>3, Zenon DEF Saves, Says

\* A line of text: on a page its words are collected, before the first page
\* it goes back to the input.
LEMMA TextSays ==
    ASSUME NEW g \in FS, Running(g), ~g.eoiFinished, NEW nm \in NewText
    PROVE  LET h == Text(g, nm)
           IN  /\ \E n \in 0..5 : Says(g, h, n)
               /\ Waits(g, h) /\ Pushes(g, h, Line(nm))
<1> DEFINE it == Line(nm)
           n == IF nm = "word" THEN 1 ELSE 5
           words == NewWords(g, n)
           line == g.line \o words
           c == [g EXCEPT !.collected = g.collected + n, !.line = line]
           p == PushInput(g, <<it>>)
           broken == PossiblyBreakLine(c)
           out == EnvOutput([c EXCEPT !.line = <<>>], c.line)
<1>0. g.before > 0 <=> g.before = 1
  BY BeforeIs
<1>1. Text(g, nm) = IF g.before > 0 THEN BeginPage(p)
                    ELSE IF g.filling THEN broken ELSE out
  BY Zenon DEF Text, NewWords
<1>2. CASE g.before > 0
  <2>1. it \in Tokens /\ it # Line("'sp")
        /\ it.kind \in {"ejector", "last", "line"}
    <3>1. nm \in InputLines /\ nm # "'sp"
      BY DEF InputLines, NewText
    <3> QED
      BY <3>1, TokensAre
  <2>2. Moves(g, p, it) /\ p \in FS
    BY <2>1, PushOneTreats DEF Moves, Treats, Saves
  <2> HIDE DEF p, it
  <2>3. Moves(p, BeginPage(p), it)
    BY <2>2, BeginPageMoves
  <2>4. Moves(g, BeginPage(p), it)
    BY <2>2, <2>3, MovesTransitive
  <2>5. Says(g, BeginPage(p), 0) /\ 0 \in 0..5
    BY <2>4, SavesSays DEF Moves, Treats
  <2> QED
    BY <1>1, <1>2, <2>4, <2>5, Zenon DEF Moves, Treats, it
<1>3. CASE ~(g.before > 0)
  <2>1. n \in 0..5 /\ n \in Nat
    OBVIOUS
  <2> HIDE DEF n
  <2>2. g.collected \in Nat /\ g.line \in Seq(Nat) /\ g.collected + n \in Nat
    BY <2>1, SMTT(30) DEF FS
  <2>3. words \in Seq(Nat)
    BY <2>1, <2>2 DEF NewWords
  <2> HIDE DEF words
  <2>4. line \in Seq(Nat)
    BY <2>2, <2>3, PushSeq
  <2>5. Relines(g, c, line, g.collected + n, it)
    BY <2>2, <2>4, LineRests
  <2> HIDE DEF line, c
  <2>6. /\ c \in FS /\ Running(c) /\ c.before # 1 /\ ~c.eoiFinished
        /\ c.line \in Seq(Nat) /\ c.line = c.line \o <<>>
    <3>1. c \in FS /\ Running(c) /\ c.before # 1 /\ ~c.eoiFinished
          /\ c.line = line
      BY <1>0, <1>3, <2>5, Zenon DEF Relines, Idle, Running
    <3> QED
      BY <2>4, <3>1, EmptyIsNeutral
  <2>7. Fills(c, broken, it)
    BY <2>6, PossiblyBreakLineFills
  <2>8. Fills(c, out, it)
    <3>1. <<>> \in Seq(Nat)
      OBVIOUS
    <3> QED
      BY <2>6, <3>1, LineOutFills
  <2> HIDE DEF broken, out
  <2>9. ASSUME NEW h, Fills(c, h, it)
        PROVE  Says(g, h, n) /\ Waits(g, h) /\ Pushes(g, h, it)
    <3>1. Total(c) = Total(g) \o words
      <4>1. Total(c) = Formatted(g) \o (g.line \o words)
        BY <2>5, Zenon DEF Relines, Total, line
      <4>2. Formatted(g) \in Seq(Nat)
        BY WordsIn
      <4> QED
        BY <2>2, <2>3, <4>1, <4>2, WordsAssociate, Zenon DEF Total
    <3>2. Total(h) = Total(g) \o NewWords(g, n)
      BY <2>9, <3>1, Zenon DEF Fills, words
    <3>3. Grows(g, h)
      BY <2>5, <2>9, Zenon DEF Fills, Relines, Grows
    <3>4. Waits(g, h) /\ Pushes(g, h, it)
      BY <2>5, <2>9, WaitsTransitive, PushesTransitive DEF Fills, Relines
    <3>5. h.status = "done" => Held(h) = <<>>
      BY <2>9, NothingHeld DEF Fills
    <3>6. Says(g, h, n)
      BY <2>5, <2>9, <3>2, <3>3, <3>5, Zenon DEF Fills, Relines, Says
    <3> QED
      BY <3>4, <3>6
  <2>10. Text(g, nm) = broken \/ Text(g, nm) = out
    BY <1>1, <1>3
  <2>11. /\ Says(g, Text(g, nm), n) /\ Waits(g, Text(g, nm))
         /\ Pushes(g, Text(g, nm), it)
    BY <2>7, <2>8, <2>9, <2>10
  <2> QED
    BY <2>1, <2>11, Zenon DEF it
<1> QED
  BY <1>2, <1>3

-----------------------------------------------------------------------------
\* As long as a trap is under way, its end is on the input.
LEMMA NestedHas ==
    ASSUME NEW s \in Seq(Tokens), NEW n \in Nat, Nested(s, n), n # 0
    PROVE  Has(s, {"end"})
<1>1. PICK d : Climbs(s, d) /\ d[Len(s)] = n
  BY DEF Nested
<1> DEFINE m == Len(s)
<1>2. m \in Nat /\ d \in [0..m -> Nat] /\ d[0] = 0
      /\ \A k \in 1..m : Steps(s[(m + 1) - k], d[k - 1], d[k])
  BY <1>1 DEF Climbs
<1>3. SUFFICES ASSUME \A i \in 1..m : s[i].kind # "end" PROVE FALSE
  BY DEF Has
<1> HIDE DEF m
<1> DEFINE S == {k \in Nat : k <= m => d[k] = 0}
<1>4. 0 \in S
  BY <1>2
<1>5. ASSUME NEW k \in S PROVE k + 1 \in S
  <2>1. SUFFICES ASSUME k + 1 <= m PROVE d[k + 1] = 0
    OBVIOUS
  <2>2. /\ k + 1 \in 1..m /\ (k + 1) - 1 = k /\ k \in 0..m /\ k + 1 \in 0..m
        /\ (m + 1) - (k + 1) \in 1..m
    BY <1>2, <2>1
  <2>3. d[k] = 0 /\ d[k + 1] \in Nat
    BY <1>2, <2>2
  <2>4. Steps(s[(m + 1) - (k + 1)], d[k], d[k + 1])
    BY <1>2, <2>2
  <2>5. s[(m + 1) - (k + 1)].kind # "end"
    BY <1>3, <2>2
  <2> QED
    BY <2>3, <2>4, <2>5 DEF Steps
<1>6. S = Nat
  <2> HIDE DEF S
  <2>1. S \in SUBSET Nat
    BY DEF S
  <2> QED
    BY <1>4, <1>5, <2>1, Induct
<1>7. m \in S /\ m <= m
  <2> HIDE DEF S
  <2> QED
    BY <1>2, <1>6
<1>8. d[m] = 0
  BY <1>7
<1> QED
  BY <1>1, <1>8 DEF m

-----------------------------------------------------------------------------
\* An item of the input that is read.

\* The items that no line among these can come from.
FreeOf(names) ==
    {it \in Tokens :
        /\ it.kind = "line" => it.nm \notin names
        /\ it.kind = "call" => \A i \in DOMAIN body[it.nm] :
                                  body[it.nm][i] \notin names}

\* What the input stays free of, when the traps are free of it.
Frees(p, q, item) ==
    /\ Called(q) \subseteq Called(p)
    /\ \A names :
          /\ item \in FreeOf(names) /\ p.input \in Seq(FreeOf(names))
          /\ \A nm \in Called(p) : Call(nm) \in FreeOf(names)
          => q.input \in Seq(FreeOf(names))

LEMMA PushesFrees ==
    ASSUME NEW p \in FS, NEW q, NEW it \in Tokens, Pushes(p, q, it),
           NEW item, item = it \/ it = PageEjector
    PROVE  Frees(p, q, item)
<1>1. ASSUME NEW names, item \in FreeOf(names),
             p.input \in Seq(FreeOf(names)),
             \A nm \in Called(p) : Call(nm) \in FreeOf(names)
      PROVE  q.input \in Seq(FreeOf(names))
  <2>1. {BeginTrap, EndTrap, PageEjector, LastPageEjector}
          \subseteq FreeOf(names)
    BY TokensAre DEF FreeOf
  <2>2. it \in FreeOf(names)
    BY <1>1, <2>1
  <2>3. Admits(FreeOf(names), p, it)
    BY <1>1, <2>1, <2>2 DEF Admits
  <2> QED
    BY <2>3, Zenon DEF Pushes
<1> QED
  BY <1>1, Zenon DEF Pushes, Frees

\* Items that add no words.
Silent(item) == item \in FreeOf(NewText)

Reading(p, q, item) ==
    /\ \E n \in 0..5 : Says(p, q, n) /\ (Silent(item) => n = 0)
    /\ Silent(item) => (p.line = <<>> => q.line = <<>>) /\ Clears(p, q)
    /\ Frees(p, q, item)
    /\ item # Line("ex") /\ item # EndTrap => Waits(p, q)

LEMMA HandlesReading ==
    ASSUME NEW p \in FS, NEW q, NEW it \in Tokens, Handles(p, q, it),
           NEW item, item = it \/ it = PageEjector
    PROVE  Reading(p, q, item)
<1>1. Says(p, q, 0) /\ 0 \in 0..5
  BY SavesSays DEF Handles, Treats
<1>2. Frees(p, q, item)
  BY PushesFrees DEF Handles, Treats
<1> QED
  BY <1>1, <1>2, Zenon DEF Reading, Handles, Treats, Saves

LEMMA BeginReading ==
    ASSUME NEW p \in FS
    PROVE  Reading(p, [p EXCEPT !.depth = p.depth + 1], BeginTrap)
<1> DEFINE q == [p EXCEPT !.depth = p.depth + 1]
<1>1. p.depth + 1 \in Nat
  BY SMTT(30) DEF FS
<1>2. q \in FS
  BY <1>1, DepthIn
<1>3. Idle(p, q) /\ SameText(p, q) /\ q.written = p.written
      /\ q.eoiFinished = p.eoiFinished /\ q.sprung = p.sprung
      /\ q.status = p.status
  BY DEF FS, Idle, SameText
<1> HIDE DEF q
<1>4. Rests(p, q)
  BY <1>2, <1>3, Zenon DEF Rests
<1>5. Handles(p, q, PageEjector) /\ PageEjector \in Tokens
  BY <1>4, RestsMoves, MovesHandles, TokensAre
<1>6. Reading(p, q, BeginTrap)
  BY <1>5, HandlesReading
<1> QED
  BY <1>6 DEF q

LEMMA PutsReading ==
    ASSUME NEW g \in FS, g.before # 1 \/ g.pending = <<>>,
           NEW h, Puts(g, h, PageEjector),
           g.pending = <<>> => h.pending = <<>>
    PROVE  Handles(g, h, PageEjector)
<1>1. Total(h) = Total(g)
  BY Zenon DEF Puts, Total
<1>2. h.before = 1 /\ NoText(g) => NoText(h)
  BY Zenon DEF Puts, NoText
<1>3. Saves(g, h)
  BY <1>1, <1>2, Zenon DEF Puts, Saves
<1> QED
  BY <1>3, Zenon DEF Puts, Handles, Treats, Clears

\* The end of a trap.  What waited for it goes out, when it is the last.
LEMMA EndReading ==
    ASSUME NEW p \in FS, p.before = 1 => NoText(p)
    PROVE  /\ Reading(p, EndOfTrap(p), EndTrap)
           /\ \A n \in Nat :
                 /\ Nested(p.input, n) /\ p.depth = n + 1 /\ ~p.sprung
                 => LET q == EndOfTrap(p)
                    IN  Running(q) /\ q.pending # <<>> => Awaits(q)
<1> DEFINE d == IF p.depth > 0 THEN p.depth - 1 ELSE 0
           h == [p EXCEPT !.depth = d]
           o == OutputPending(h)
           q == EndOfTrap(p)
<1>0. p.depth \in Nat /\ d \in Nat
  BY SMTT(30) DEF FS
<1>1. h \in FS /\ h.depth = d
  BY <1>0, DepthIn
<1>2. Idle(p, h) /\ SameText(p, h) /\ h.written = p.written
      /\ h.eoiFinished = p.eoiFinished /\ h.sprung = p.sprung
      /\ h.status = p.status
  BY DEF FS, Idle, SameText
<1>3. q = IF d = 0 THEN o ELSE h
  BY <1>1, Zenon DEF EndOfTrap
<1> HIDE DEF h, q
<1>4. Rests(p, h)
  BY <1>1, <1>2, Zenon DEF Rests
<1>5. Moves(p, h, PageEjector)
  BY <1>4, RestsMoves
<1>6. h.before # 1 \/ h.pending = <<>>
  BY <1>2, Zenon DEF Idle, SameText, NoText
<1>7. /\ Puts(h, o, PageEjector)
      /\ o.pending = <<>> \/ o.sprung \/ ~Running(o)
      /\ h.pending = <<>> => o = h
  BY <1>1, <1>6, OutputPendingPuts
<1> HIDE DEF o
<1>8. Handles(h, o, PageEjector)
  BY <1>1, <1>6, <1>7, PutsReading
<1>9. Handles(p, h, PageEjector) /\ Handles(p, o, PageEjector)
  BY <1>2, <1>5, <1>8, MovesHandles, MovesThenHandles
<1>10. Handles(p, q, PageEjector)
  BY <1>3, <1>9
<1>11. Reading(p, q, EndTrap)
  BY <1>10, HandlesReading, TokensAre
<1>12. ASSUME NEW n \in Nat, Nested(p.input, n), p.depth = n + 1, ~p.sprung,
              Running(q), q.pending # <<>>
       PROVE  Awaits(q)
  <2>1. d = n
    BY <1>12
  <2> HIDE DEF d
  <2>2. CASE n = 0
    <3>1. q = o /\ o.sprung
      BY <1>3, <1>7, <1>12, <2>1, <2>2
    <3>2. h.sprung \/ Awaits(o)
      BY <1>7, <3>1, Zenon DEF Puts, Waits
    <3> QED
      BY <1>2, <1>12, <3>1, <3>2
  <2>3. CASE n # 0
    <3>1. p.input \in Seq(Tokens)
      BY DEF FS
    <3>2. Has(p.input, {"end"})
      BY <1>12, <2>3, <3>1, NestedHas
    <3>3. q.input = p.input
      BY <1>2, <1>3, <2>1, <2>3 DEF Idle
    <3> QED
      BY <3>2, <3>3 DEF Awaits
  <2> QED
    BY <2>2, <2>3
<1> QED
  BY <1>11, <1>12 DEF q

\* A macro is called: its lines come from the call.
LEMMA CallReading ==
    ASSUME NEW p \in FS, NEW nm \in Macros, body \in [Macros -> Seq(InputLines)]
    PROVE  LET lines == [i \in DOMAIN body[nm] |-> Line(body[nm][i])]
           IN  Reading(p, PushInput(p, lines), Call(nm))
<1> DEFINE lines == [i \in DOMAIN body[nm] |-> Line(body[nm][i])]
           q == PushInput(p, lines)
           item == Call(nm)
<1>1. body[nm] \in Seq(InputLines) /\ p.input \in Seq(Tokens)
  BY DEF FS
<1>2. item \in Tokens /\ item.kind = "call" /\ item.nm = nm
  BY TokensAre
<1>3. lines \in Seq(Tokens) /\ Covers(p.input, lines \o p.input)
  BY <1>1, CoversLines
<1>4. ASSUME NEW names, item \in FreeOf(names)
      PROVE  lines \in Seq(FreeOf(names))
  <2>1. \A i \in DOMAIN body[nm] : body[nm][i] \notin names
                                   /\ body[nm][i] \in InputLines
    BY <1>1, <1>2, <1>4 DEF FreeOf
  <2>2. \A nm1 \in InputLines : nm1 \notin names => Line(nm1) \in FreeOf(names)
    BY TokensAre DEF FreeOf
  <2>3. DOMAIN body[nm] = 1..Len(body[nm]) /\ Len(body[nm]) \in Nat
    BY <1>1
  <2> QED
    BY <2>1, <2>2, <2>3
<1> HIDE DEF lines
<1>5. /\ q \in FS /\ q.input = lines \o p.input /\ q.status = p.status
      /\ SameText(p, q) /\ q.written = p.written /\ q.sprung = p.sprung
      /\ Stays(p, q)
  BY <1>3, PushInputIs DEF Covers
<1>6. q.postponed = p.postponed /\ q.traps = p.traps
  BY DEF PushInput, FS
<1> HIDE DEF q
<1>7. Saves(p, q)
  BY <1>5, QuietSaves DEF Stays
<1>8. Says(p, q, 0) /\ 0 \in 0..5
  BY <1>7, SavesSays
<1>9. Frees(p, q, item)
  <2>1. Called(q) = Called(p)
    BY <1>6 DEF Called
  <2>2. ASSUME NEW names, item \in FreeOf(names),
               p.input \in Seq(FreeOf(names))
        PROVE  q.input \in Seq(FreeOf(names))
    <3>1. lines \in Seq(FreeOf(names))
      BY <1>4, <2>2
    <3> QED
      BY <1>5, <2>2, <3>1, PushSeq
  <2> QED
    BY <2>1, <2>2, Zenon DEF Frees
<1>10. Waits(p, q)
  BY <1>3, <1>5, <1>6, Zenon DEF Covers, Waits, Awaits, SameText
<1>11. Clears(p, q) /\ (p.line = <<>> => q.line = <<>>)
  BY <1>5, Zenon DEF Clears, SameText
<1>12. Reading(p, q, item)
  BY <1>8, <1>9, <1>10, <1>11, Zenon DEF Reading
<1> QED
  BY <1>12 DEF q, lines

LEMMA ExReading ==
    ASSUME NEW p \in FS
    PROVE  LET q == [p EXCEPT !.input = <<>>]
           IN  Reading(p, q, Line("ex")) /\ q.pending = p.pending
<1> DEFINE q == [p EXCEPT !.input = <<>>]
           item == Line("ex")
<1>1. q \in FS
  BY EmptiedIn
<1>2. /\ q.input = <<>> /\ SameText(p, q) /\ q.written = p.written
      /\ q.status = p.status /\ q.postponed = p.postponed
      /\ q.traps = p.traps /\ q.eoiFinished = p.eoiFinished
  BY DEF FS, SameText
<1> HIDE DEF q
<1>3. Saves(p, q)
  BY <1>1, <1>2, QuietSaves
<1>4. Says(p, q, 0) /\ 0 \in 0..5
  BY <1>3, SavesSays
<1>5. Frees(p, q, item)
  <2>1. Called(q) = Called(p)
    BY <1>2 DEF Called
  <2>2. \A S : <<>> \in Seq(S)
    OBVIOUS
  <2> QED
    BY <1>2, <2>1, <2>2, Zenon DEF Frees
<1>6. Clears(p, q) /\ (p.line = <<>> => q.line = <<>>)
  BY <1>2, Zenon DEF Clears, SameText
<1>7. Reading(p, q, item)
  BY <1>4, <1>5, <1>6, Zenon DEF Reading
<1> QED
  BY <1>2, <1>7, Zenon DEF q, SameText

LEMMA ContinueMoves ==
    ASSUME NEW g \in FS, NEW it
    PROVE  Moves(g, ContinuePageEject(g), it)
<1> DEFINE p == PushPageEjector(g)
           h == Space(p, g.length, TRUE)
<1>1. Moves(g, p, it) /\ p \in FS
  BY PushPageEjectorTreats DEF Moves, Treats, Saves
<1>2. g.length \in Nat /\ TRUE \in BOOLEAN
  BY BeforeIs, Parameters
<1>3. ContinuePageEject(g) = IF g.ejecting /\ g.honor THEN h ELSE g
  BY Zenon DEF ContinuePageEject
<1> HIDE DEF p
<1>4. Moves(p, h, it)
  BY <1>1, <1>2, SpaceMoves
<1> HIDE DEF h
<1>5. Moves(g, h, it) /\ Moves(g, g, it)
  BY <1>1, <1>4, MovesTransitive, MovesSame
<1> QED
  BY <1>3, <1>5

LEMMA EjectorReading ==
    ASSUME NEW p \in FS
    PROVE  /\ Reading(p, ContinuePageEject(p), PageEjector)
           /\ Reading(p, ContinuePageEject([p EXCEPT !.seenLast = TRUE]),
                      LastPageEjector)
<1> DEFINE h == [p EXCEPT !.seenLast = TRUE]
           it == PageEjector
<1>1. h \in FS
  BY SeenLastIn DEF TextIn
<1>2. Idle(p, h) /\ SameText(p, h) /\ h.written = p.written
      /\ h.eoiFinished = p.eoiFinished /\ h.sprung = p.sprung
      /\ h.status = p.status
  BY DEF FS, Idle, SameText
<1> HIDE DEF h
<1>3. Rests(p, h)
  BY <1>1, <1>2, Zenon DEF Rests
<1>4. Moves(p, h, it)
  BY <1>3, RestsMoves
<1>5. Moves(p, ContinuePageEject(p), it) /\ Moves(h, ContinuePageEject(h), it)
  BY <1>1, ContinueMoves
<1>6. Handles(p, ContinuePageEject(p), it)
      /\ Handles(p, ContinuePageEject(h), it)
  BY <1>4, <1>5, MovesTransitive, MovesHandles
<1>7. it \in Tokens
  BY TokensAre
<1>8. Reading(p, ContinuePageEject(p), it)
  BY <1>6, <1>7, HandlesReading
<1>9. Reading(p, ContinuePageEject(h), LastPageEjector)
  <2>1. LastPageEjector \in Tokens
    BY TokensAre
  <2>2. Moves(p, h, LastPageEjector)
        /\ Moves(h, ContinuePageEject(h), LastPageEjector)
    BY <1>1, <1>3, RestsMoves, ContinueMoves
  <2>3. Handles(p, ContinuePageEject(h), LastPageEjector)
    BY <2>2, MovesTransitive, MovesHandles
  <2> QED
    BY <2>1, <2>3, HandlesReading
<1> QED
  BY <1>8, <1>9 DEF h

LEMMA LineReading ==
    ASSUME NEW p \in FS, Running(p), OnPage(p), Ready(p),
           NEW nm \in InputLines, p.eoiFinished => Silent(Line(nm))
    PROVE  Reading(p, Interpret(p, nm), Line(nm))
<1> DEFINE item == Line(nm)
           q == Interpret(p, nm)
<1>1. item \in Tokens /\ item.kind = "line" /\ item.nm = nm
  BY TokensAre
<1>2. CASE nm = "ex"
  <2>1. q = [p EXCEPT !.input = <<>>]
    BY <1>2 DEF Interpret
  <2> QED
    BY <1>2, <2>1, ExReading
<1>3. CASE nm \in NewText
  <2>1. ~Silent(item)
    BY <1>1, <1>3 DEF Silent, FreeOf
  <2>2. q = Text(p, nm)
    BY <1>3 DEF Interpret, NewText
  <2>3. /\ \E n \in 0..5 : Says(p, q, n)
        /\ Waits(p, q) /\ Pushes(p, q, item)
    BY <1>3, <2>1, <2>2, TextSays
  <2> HIDE DEF q, item
  <2>4. Frees(p, q, item)
    BY <1>1, <2>3, PushesFrees
  <2>5. Reading(p, q, item)
    BY <2>1, <2>3, <2>4, Zenon DEF Reading
  <2> QED
    BY <2>5 DEF q, item
<1>4. CASE nm # "ex" /\ nm \notin NewText
  <2>1. Handles(p, q, item)
    BY <1>4, InterpretHandles
  <2> HIDE DEF q, item
  <2>2. Reading(p, q, item)
    BY <1>1, <2>1, HandlesReading
  <2> QED
    BY <2>2 DEF q, item
<1> QED
  BY <1>2, <1>3, <1>4

\* Process, whatever the item.
LEMMA ProcessReading ==
    ASSUME NEW p \in FS, Running(p), OnPage(p), Ready(p),
           NEW item \in Tokens, p.eoiFinished => Silent(item),
           body \in [Macros -> Seq(InputLines)]
    PROVE  Reading(p, Process(p, item), item)
<1>1. CASE item = BeginTrap /\ item.kind = "begin"
  <2>1. Process(p, item) = [p EXCEPT !.depth = p.depth + 1]
    BY <1>1 DEF Process
  <2> QED
    BY <1>1, <2>1, BeginReading
<1>2. CASE item = EndTrap /\ item.kind = "end"
  <2>1. Process(p, item) = EndOfTrap(p)
    BY <1>2 DEF Process
  <2> QED
    BY <1>2, <2>1, EndReading DEF Ready
<1>3. CASE item = PageEjector /\ item.kind = "ejector"
  <2>1. Process(p, item) = ContinuePageEject(p)
    BY <1>3 DEF Process
  <2> QED
    BY <1>3, <2>1, EjectorReading
<1>4. CASE item = LastPageEjector /\ item.kind = "last"
  <2>1. Process(p, item) = ContinuePageEject([p EXCEPT !.seenLast = TRUE])
    BY <1>4 DEF Process
  <2> QED
    BY <1>4, <2>1, EjectorReading
<1>5. CASE item.kind = "call" /\ item.nm \in Macros /\ item = Call(item.nm)
  <2> DEFINE lines == [i \in DOMAIN body[item.nm] |-> Line(body[item.nm][i])]
  <2>1. Process(p, item) = PushInput(p, lines)
    BY <1>5 DEF Process
  <2>2. Reading(p, PushInput(p, lines), Call(item.nm))
    BY <1>5, CallReading
  <2> QED
    BY <1>5, <2>1, <2>2, Zenon
<1>6. CASE item.kind = "line" /\ item.nm \in InputLines /\ item = Line(item.nm)
  <2>1. Process(p, item) = Interpret(p, item.nm)
    BY <1>6 DEF Process
  <2>2. Reading(p, Interpret(p, item.nm), Line(item.nm))
    BY <1>6, LineReading
  <2> QED
    BY <1>6, <2>1, <2>2, Zenon
<1> QED
  BY <1>1, <1>2, <1>3, <1>4, <1>5, <1>6, KindsOfTokens, Zenon

-----------------------------------------------------------------------------
\* The invariant of the text.

\* A step of the text: some words are read, and some of those at hand written.
TextStep(g, h) ==
    /\ h \in FS
    /\ \E n \in 0..5 : Total(h) = Total(g) \o NewWords(g, n)
                       /\ h.collected = g.collected + n
    /\ Grows(g, h)
    /\ h.status = "done" => FooterExits \/ Held(h) = <<>>

\* What waits, waits for the end of a trap, unless a footer exits.
Waiting(g) ==
    /\ g.before = 1 => NoText(g)
    /\ g.sprung => Has(g.input, {"end"}) /\ g.depth = 0
    /\ g.pending # <<>> => Has(g.input, {"end"}) \/ FooterExits

\* After the final break no text is read.
Finishing(g) ==
    /\ g.phase \in {"final_break", "last_page", "trailer"} =>
          g.line = <<>> /\ g.input \in Seq(FreeOf(NewText))
    /\ g.phase \in {"last_page", "trailer"} => FooterExits \/ Held(g) = <<>>

\* The lines of the end macro, when it may exit: nothing waits.
EndMacroExits(g) ==
    /\ g.phase = "end_macro"
    /\ g.pending = <<>> /\ g.input \in Seq(FreeOf(NewText))
    /\ g.sprung => g.input # <<>> /\ Head(g.input) = BeginTrap

Exiting(g) ==
    FooterExits \/ g.input \in Seq(FreeOf({"ex"})) \/ EndMacroExits(g)

Keeping(g) ==
    /\ Called(g) \subseteq Macros \ {End}
    /\ g.collected = Len(Total(g))
    /\ Running(g) => Waiting(g) /\ Finishing(g) /\ Exiting(g)

\* The end macro is no trap, traps do not write text, headers do not exit, and
\* an end macro that exits writes no text either.
Ordinary ==
    \A s \in Setups :
       /\ \A i \in DOMAIN s.traps : s.traps[i].nm # End
       /\ \A nm \in {Header, Footer} :
             \A i \in DOMAIN s.body[nm] : s.body[nm][i] \notin {"word", "long"}
       /\ \A i \in DOMAIN s.body[Header] : s.body[Header][i] # "ex"
       /\ \/ \A i \in DOMAIN s.body[End] :
                s.body[End][i] \notin {"word", "long"}
          \/ \A i \in DOMAIN s.body[End] : s.body[End][i] # "ex"

LEMMA MacrosFree ==
    ASSUME Ordinary, \E s \in Setups : body = s.body
    PROVE  /\ \A nm \in Macros \ {End} : Call(nm) \in FreeOf(NewText)
           /\ ~FooterExits => \A nm \in Macros \ {End} :
                                 Call(nm) \in FreeOf({"ex"})
           /\ Call(End) \in FreeOf(NewText) \/ Call(End) \in FreeOf({"ex"})
<1>1. \A nm \in Macros : Call(nm) \in Tokens /\ Call(nm).kind = "call"
                         /\ Call(nm).nm = nm
  BY TokensAre
<1>2. ASSUME NEW nm \in Macros, NEW names,
             \A i \in DOMAIN body[nm] : body[nm][i] \notin names
      PROVE  Call(nm) \in FreeOf(names)
  <2>1. "call" # "line"
    OBVIOUS
  <2> QED
    BY <1>1, <1>2, <2>1, Zenon DEF FreeOf
<1>3. /\ \A nm \in {Header, Footer} :
            \A i \in DOMAIN body[nm] : body[nm][i] \notin NewText
      /\ \A i \in DOMAIN body[Header] : body[Header][i] \notin {"ex"}
      /\ \/ \A i \in DOMAIN body[End] : body[End][i] \notin NewText
         \/ \A i \in DOMAIN body[End] : body[End][i] \notin {"ex"}
  BY DEF Ordinary, NewText
<1>4. ~FooterExits => \A i \in DOMAIN body[Footer] :
                         body[Footer][i] \notin {"ex"}
  BY DEF FooterExits
<1>5. \A nm \in Macros \ {End} : nm = Header \/ nm = Footer
  BY DEF Macros
<1>6. End \in Macros /\ Macros \ {End} \subseteq Macros
  BY DEF Macros
<1>7. \A nm \in Macros \ {End} : Call(nm) \in FreeOf(NewText)
  BY <1>2, <1>3, <1>5, <1>6
<1>8. ~FooterExits => \A nm \in Macros \ {End} : Call(nm) \in FreeOf({"ex"})
  BY <1>2, <1>3, <1>4, <1>5, <1>6
<1>9. Call(End) \in FreeOf(NewText) \/ Call(End) \in FreeOf({"ex"})
  BY <1>2, <1>3, <1>6
<1> QED
  BY <1>7, <1>8, <1>9

\* The item that is taken off the input, and the formatter without it.
LEMMA PoppedText ==
    ASSUME IInv, Running(f), NEW item \in NextItems
    PROVE  /\ SameText(f, Popped) /\ Popped.written = f.written
           /\ Popped.sprung = f.sprung /\ Popped.depth = f.depth
           /\ Called(Popped) = Called(f)
           /\ f.input # <<>> => item = Head(f.input)
           /\ f.input = <<>> => Popped.input = <<>>
           /\ \A S : f.input \in Seq(S) =>
                 Popped.input \in Seq(S) /\ (f.input # <<>> => item \in S)
           /\ Has(f.input, {"end"}) /\ item # EndTrap =>
                 Has(Popped.input, {"end"})
<1> DEFINE s == IF f.input = <<>> THEN f.input ELSE Tail(f.input)
           p == [f EXCEPT !.input = s]
<1>1. f \in FS /\ f.input \in Seq(Tokens)
  BY DEF IInv, FS
<1>2. Popped = p
  BY Zenon DEF Popped
<1> HIDE DEF s
<1>3. /\ SameText(f, p) /\ p.written = f.written
      /\ p.sprung = f.sprung /\ p.depth = f.depth
      /\ p.traps = f.traps /\ p.postponed = f.postponed /\ p.input = s
  BY <1>1 DEF FS, SameText
<1> HIDE DEF p
<1>4. Called(p) = Called(f)
  BY <1>3 DEF Called
<1>5. f.input # <<>> => item = Head(f.input) /\ s = Tail(f.input)
  BY DEF s, NextItems
<1>6. f.input = <<>> => s = <<>>
  BY DEF s
<1>7. ASSUME NEW S, f.input \in Seq(S)
      PROVE  s \in Seq(S) /\ (f.input # <<>> => item \in S)
  BY <1>5, <1>6, <1>7
<1>8. ASSUME Has(f.input, {"end"}), item # EndTrap PROVE Has(s, {"end"})
  <2>1. f.input # <<>> /\ item = Head(f.input) /\ s = Tail(f.input)
    BY <1>5, <1>8 DEF Has
  <2>2. item \in Tokens /\ s \in Seq(Tokens) /\ f.input = <<item>> \o s
    BY <1>1, <2>1
  <2>3. item.kind # "end"
    BY <1>8, <2>2, KindsOfTokens
  <2> QED
    BY <1>8, <2>2, <2>3, HasOnTop
<1> QED
  BY <1>2, <1>3, <1>4, <1>5, <1>6, <1>7, <1>8, Zenon

LEMMA WordsGrow ==
    ASSUME NEW g \in FS, g.collected = Len(Total(g)), NEW n \in Nat,
           NEW h, Total(h) = Total(g) \o NewWords(g, n),
           h.collected = g.collected + n
    PROVE  h.collected = Len(Total(h))
<1>1. Total(g) \in Seq(Nat) /\ g.collected \in Nat
  BY WordsIn DEF FS
<1>2. NewWords(g, n) \in Seq(Nat) /\ Len(NewWords(g, n)) = n
  <2> DEFINE c == g.collected
             w == [i \in 1..n |-> c + i]
  <2>1. c \in Nat
    BY <1>1
  <2>2. NewWords(g, n) = w
    BY Zenon DEF NewWords
  <2> HIDE DEF c
  <2>3. \A i \in 1..n : c + i \in Nat
    BY <2>1
  <2>4. w \in Seq(Nat) /\ Len(w) = n
    BY <2>3
  <2> QED
    BY <2>2, <2>4
<1> DEFINE t == Total(g)
           w == NewWords(g, n)
<1> HIDE DEF t, w
<1>3. t \in Seq(Nat) /\ w \in Seq(Nat) /\ Len(w) = n
  BY <1>1, <1>2 DEF t, w
<1>4. Len(t \o w) = Len(t) + n
  <2>1. Len(t \o w) = Len(t) + Len(w)
    BY <1>3, ConcatIs, Zenon
  <2> QED
    BY <1>3, <2>1, Zenon
<1>5. Len(Total(h)) = g.collected + n
  BY <1>4, Zenon DEF t, w
<1> QED
  BY <1>5, Zenon

\* What an item that is read makes of the text, the flag of sprung traps being
\* reset after it.
LEMMA ReadKeeps ==
    ASSUME IInv, Running(f), Brief(f), Ordinary, Keeping(f),
           NEW item \in NextItems, NEW q, q = Process(Popped, item), Brief(q)
    PROVE  LET h == [q EXCEPT !.sprung = FALSE]
           IN  TextStep(f, h) /\ Keeping(h)
<1> DEFINE p == Popped
           h == [q EXCEPT !.sprung = FALSE]
<1>1. /\ f \in FS /\ item \in Tokens /\ p \in FS
      /\ Running(p) /\ OnPage(p) /\ Brief(p)
      /\ p.phase = f.phase /\ p.before = f.before
      /\ p.eoiFinished = f.eoiFinished
      /\ f.input = <<>> => left > 0
  BY PoppedIs DEF IInv
<1>2. PICK m \in Nat : Nested(p.input, m) /\ Steps(item, m, p.depth)
  BY PoppedIs
<1>3. /\ SameText(f, p) /\ p.written = f.written
      /\ p.sprung = f.sprung /\ p.depth = f.depth /\ Called(p) = Called(f)
      /\ f.input # <<>> => item = Head(f.input)
      /\ f.input = <<>> => p.input = <<>>
      /\ \A S : f.input \in Seq(S) =>
            p.input \in Seq(S) /\ (f.input # <<>> => item \in S)
      /\ Has(f.input, {"end"}) /\ item # EndTrap => Has(p.input, {"end"})
  BY PoppedText
<1>4. /\ f.phase # "document" => f.input # <<>>
      /\ f.eoiFinished => f.phase \in {"last_page", "trailer"}
  BY <1>1 DEF IInv, Phased
<1>5. q = Process(p, item)
  OBVIOUS
<1>6. item = BeginTrap => q = [p EXCEPT !.depth = p.depth + 1]
  BY <1>5, TokensAre DEF Process
<1>7. item = EndTrap => q = EndOfTrap(p)
  BY <1>5, TokensAre DEF Process
<1>8. item = Line("ex") => q = [p EXCEPT !.input = <<>>]
  <2>1. ASSUME item = Line("ex") PROVE q = [p EXCEPT !.input = <<>>]
    <3>1. q = Interpret(p, "ex")
      BY <1>5, <2>1, TokensAre DEF Process
    <3> QED
      BY <3>1 DEF Interpret
  <2> QED
    BY <2>1
<1> HIDE DEF p
<1>9. body \in [Macros -> Seq(InputLines)]
  BY BodyTyped DEF IInv
<1>10. Waiting(f) /\ Finishing(f) /\ Exiting(f)
  BY DEF Keeping
<1>11. Ready(p)
  BY <1>1, <1>3, <1>4, <1>10, Zenon
     DEF Ready, Waiting, Finishing, SameText, NoText
<1>12. f.phase \in {"final_break", "last_page", "trailer"} =>
         Silent(item) /\ p.input \in Seq(FreeOf(NewText)) /\ p.line = <<>>
  <2>1. ASSUME f.phase \in {"final_break", "last_page", "trailer"}
        PROVE  Silent(item) /\ p.input \in Seq(FreeOf(NewText))
               /\ p.line = <<>>
    <3>1. f.input # <<>>
      BY <1>4, <2>1
    <3> QED
      BY <1>3, <1>10, <2>1, <3>1, Zenon DEF Finishing, Silent, SameText
  <2> QED
    BY <2>1
<1>13. Reading(p, q, item)
  <2>1. p.eoiFinished => Silent(item)
    BY <1>1, <1>4, <1>12
  <2> QED
    BY <1>1, <1>5, <1>9, <1>11, <2>1, ProcessReading
<1>14. Follows(item, p, q)
  BY <1>1, <1>5, <1>9, ProcessFollows
<1>15. PICK n \in 0..5 : Says(p, q, n) /\ (Silent(item) => n = 0)
  BY <1>13, Zenon DEF Reading
<1>16. q \in FS /\ q.phase = f.phase /\ (q.before = 1 => f.before = 1)
  BY <1>1, <1>14 DEF Follows, Reads
<1>17. /\ h \in FS /\ h.input = q.input /\ h.depth = q.depth
       /\ h.status = q.status /\ h.phase = q.phase /\ h.before = q.before
  BY <1>16, SprungIn
<1>18. /\ SameText(q, h) /\ h.written = q.written /\ ~h.sprung
       /\ h.postponed = q.postponed /\ h.traps = q.traps
  BY <1>16 DEF FS, SameText
<1> HIDE DEF h
<1>19. Total(h) = Total(q) /\ Held(h) = Held(q) /\ (NoText(h) <=> NoText(q))
       /\ h.collected = q.collected /\ h.pending = q.pending
       /\ h.line = q.line /\ Called(h) = Called(q)
  BY <1>18, SameWords DEF SameText, Called
<1>20. Total(p) = Total(f) /\ Held(p) = Held(f) /\ (NoText(p) <=> NoText(f))
       /\ p.collected = f.collected /\ p.pending = f.pending
       /\ p.line = f.line
  BY <1>3, SameWords DEF SameText
<1>21. Total(h) = Total(f) \o NewWords(f, n)
       /\ h.collected = f.collected + n /\ Grows(f, h)
  <2>1. NewWords(p, n) = NewWords(f, n)
    BY <1>20, Zenon DEF NewWords
  <2> QED
    BY <1>3, <1>15, <1>18, <1>19, <1>20, <2>1, Zenon DEF Says, Grows
<1>22. f.phase \in {"last_page", "trailer"} => FooterExits \/ Held(h) = <<>>
  <2>1. SUFFICES ASSUME f.phase \in {"last_page", "trailer"}, ~FooterExits
                 PROVE  Held(h) = <<>>
    OBVIOUS
  <2>2. n = 0 /\ Held(f) = <<>>
    BY <1>10, <1>12, <1>15, <2>1 DEF Finishing
  <2>3. Total(h) = Total(f)
    <3>1. f.collected \in Nat
      BY <1>1 DEF FS
    <3>2. NewWords(f, 0) = <<>>
      BY <3>1 DEF NewWords
    <3>3. Total(f) \o <<>> = Total(f)
      BY <1>1, WordsIn, EmptyIsNeutral
    <3> QED
      BY <1>21, <2>2, <3>2, <3>3
  <2> QED
    BY <1>1, <1>17, <1>21, <2>2, <2>3, HeldGone
<1>23. h.status = "done" => FooterExits \/ Held(h) = <<>>
  <2>1. p.status # "done"
    BY <1>1 DEF Running
  <2> QED
    BY <1>1, <1>4, <1>15, <1>17, <1>19, <1>22, <2>1, Zenon DEF Says
<1>24. TextStep(f, h)
  BY <1>17, <1>21, <1>23, Zenon DEF TextStep
<1>25. Called(h) \subseteq Macros \ {End}
  BY <1>3, <1>13, <1>19 DEF Reading, Frees, Keeping
<1>26. h.collected = Len(Total(h))
  <2>1. n \in Nat /\ f.collected = Len(Total(f))
    BY DEF Keeping
  <2> QED
    BY <1>1, <1>21, <2>1, WordsGrow
<1>27. ASSUME Running(h) PROVE Waiting(h)
  <2>1. h.before = 1 => NoText(h)
    BY <1>10, <1>15, <1>16, <1>17, <1>19, <1>20, Zenon DEF Waiting, Says
  <2>2. SUFFICES ASSUME h.pending # <<>>, ~FooterExits
                 PROVE  Has(h.input, {"end"})
    BY <1>18, <2>1 DEF Waiting
  <2>3. f.pending # <<>> \/ f.sprung => Has(f.input, {"end"})
    BY <1>10, <2>2 DEF Waiting
  <2>4. CASE item = EndTrap
    <3>1. p.depth = m + 1
      BY <1>2, <2>4, TokensAre DEF Steps
    <3>2. ~p.sprung
      <4>1. f.sprung => f.depth = 0
        BY <1>10 DEF Waiting
      <4> QED
        BY <1>3, <3>1, <4>1
    <3>3. Running(q) /\ q.pending # <<>>
      BY <1>17, <1>19, <1>27, <2>2 DEF Running
    <3>4. Awaits(q)
      BY <1>1, <1>2, <1>7, <1>11, <2>4, <3>1, <3>2, <3>3, EndReading DEF Ready
    <3> QED
      BY <1>17, <3>4 DEF Awaits, Brief
  <2>5. CASE item = Line("ex")
    <3>1. p \in FS /\ q.pending = p.pending
      BY <1>1, <1>8, <2>5, ExReading
    <3>2. f.pending # <<>> /\ Has(f.input, {"end"})
      BY <1>19, <1>20, <2>2, <2>3, <3>1
    <3>3. f.input # <<>>
      BY <3>2 DEF Has
    <3>4. item \notin FreeOf({"ex"})
      BY <2>5, TokensAre DEF FreeOf
    <3> QED
      BY <1>3, <1>10, <2>2, <3>2, <3>3, <3>4 DEF Exiting, EndMacroExits
  <2>6. CASE item # EndTrap /\ item # Line("ex")
    <3>1. Waits(p, q)
      BY <1>13, <2>6 DEF Reading
    <3>2. Has(f.input, {"end"}) => Awaits(p)
      BY <1>3, <2>6 DEF Awaits
    <3>3. Awaits(q)
      BY <1>3, <1>19, <1>20, <2>2, <2>3, <3>1, <3>2, Zenon DEF Waits
    <3> QED
      BY <1>17, <3>3 DEF Awaits, Brief
  <2> QED
    BY <2>4, <2>5, <2>6
<1>28. /\ \A nm \in Called(p) : Call(nm) \in FreeOf(NewText)
       /\ ~FooterExits => \A nm \in Called(p) : Call(nm) \in FreeOf({"ex"})
  <2>1. Called(p) \subseteq Macros \ {End}
    BY <1>3 DEF Keeping
  <2> QED
    BY <2>1, MacrosFree DEF IInv
<1>29. Silent(item) /\ p.input \in Seq(FreeOf(NewText)) =>
         h.input \in Seq(FreeOf(NewText))
  BY <1>13, <1>17, <1>28, Zenon DEF Reading, Frees, Silent
<1>30. Finishing(h)
  <2>1. f.phase \in {"final_break", "last_page", "trailer"} => h.line = <<>>
    BY <1>12, <1>13, <1>19, Zenon DEF Reading
  <2> QED
    BY <1>12, <1>16, <1>17, <1>22, <1>29, <2>1, Zenon DEF Finishing
<1>31. Exiting(h)
  <2>1. SUFFICES ASSUME ~FooterExits
                 PROVE  h.input \in Seq(FreeOf({"ex"})) \/ EndMacroExits(h)
    BY DEF Exiting
  <2>2. CASE item = Line("ex")
    <3>1. h.input = <<>>
      BY <1>14, <1>17, <2>2 DEF Follows
    <3>2. \A S : <<>> \in Seq(S)
      OBVIOUS
    <3> QED
      BY <3>1, <3>2, Zenon
  <2>3. CASE f.input \in Seq(FreeOf({"ex"})) /\ item # Line("ex")
    <3>1. item \in FreeOf({"ex"})
      <4>1. CASE f.input # <<>>
        BY <1>3, <2>3, <4>1
      <4>2. CASE f.input = <<>>
        <5>1. PICK nm \in Lines : item = Line(nm)
          BY <4>2 DEF NextItems
        <5>2. nm # "ex"
          BY <2>3, <5>1
        <5> QED
          BY <1>1, <5>1, <5>2, TokensAre DEF FreeOf
      <4> QED
        BY <4>1, <4>2
    <3>2. p.input \in Seq(FreeOf({"ex"}))
      BY <1>3, <2>3
    <3>3. q.input \in Seq(FreeOf({"ex"}))
      BY <1>13, <1>28, <2>1, <3>1, <3>2, Zenon DEF Reading, Frees
    <3> QED
      BY <1>17, <3>3
  <2>4. CASE EndMacroExits(f)
    <3>1. /\ f.phase = "end_macro" /\ f.pending = <<>>
          /\ f.input \in Seq(FreeOf(NewText))
          /\ f.sprung => Head(f.input) = BeginTrap
      BY <2>4 DEF EndMacroExits
    <3>2. f.input # <<>>
      BY <1>4, <3>1
    <3>3. Silent(item) /\ p.input \in Seq(FreeOf(NewText))
      BY <1>3, <3>1, <3>2, Zenon DEF Silent
    <3>4. h.pending = <<>>
      <4>1. CASE p.sprung
        <5>1. item = BeginTrap
          BY <1>3, <3>1, <3>2, <4>1
        <5>2. q.pending = p.pending
          BY <1>1, <1>6, <5>1 DEF FS
        <5> QED
          BY <1>19, <1>20, <3>1, <5>2
      <4>2. CASE ~p.sprung
        BY <1>13, <1>19, <1>20, <3>1, <3>3, <4>2 DEF Reading, Clears
      <4> QED
        BY <4>1, <4>2
    <3> QED
      BY <1>16, <1>17, <1>18, <1>29, <3>1, <3>3, <3>4 DEF EndMacroExits
  <2> QED
    BY <1>10, <2>1, <2>2, <2>3, <2>4 DEF Exiting
<1>32. Keeping(h)
  BY <1>25, <1>26, <1>27, <1>30, <1>31, Zenon DEF Keeping
<1> QED
  BY <1>24, <1>32 DEF h

-----------------------------------------------------------------------------
\* The parts of exit_troff.

IsEntered(g, phase, h) == h = [g EXCEPT !.phase = phase, !.depth = 0]

LEMMA EnteredText ==
    ASSUME NEW g \in FS,
           NEW phase \in {"end_macro", "final_break", "last_page", "trailer"},
           NEW h, IsEntered(g, phase, h)
    PROVE  /\ h \in FS /\ SameText(g, h) /\ h.written = g.written
           /\ h.sprung = g.sprung /\ h.status = g.status
           /\ h.before = g.before /\ h.input = g.input
           /\ h.phase = phase /\ h.depth = 0
           /\ h.postponing = g.postponing /\ h.postponed = g.postponed
           /\ Called(h) = Called(g)
           /\ Total(h) = Total(g) /\ Held(h) = Held(g)
<1>1. h \in FS
  <2>1. 0 \in Nat /\ phase \in {"document", "end_macro", "final_break",
                                "last_page", "trailer"}
    OBVIOUS
  <2> QED
    BY <2>1, ZenonT(30) DEF FS, IsEntered
<1>2. /\ SameText(g, h) /\ h.written = g.written
      /\ h.sprung = g.sprung /\ h.status = g.status
      /\ h.before = g.before /\ h.input = g.input
      /\ h.phase = phase /\ h.depth = 0
      /\ h.postponing = g.postponing /\ h.postponed = g.postponed
      /\ h.traps = g.traps
  BY DEF FS, SameText, IsEntered
<1>3. Called(h) = Called(g)
  BY <1>2 DEF Called
<1> QED
  BY <1>1, <1>2, <1>3, SameWords

\* No words are read.
LEMMA NoWordsStep ==
    ASSUME NEW g \in FS, NEW h \in FS, Total(h) = Total(g), Grows(g, h),
           h.collected = g.collected,
           h.status = "done" => FooterExits \/ Held(h) = <<>>
    PROVE  TextStep(g, h)
<1>1. g.collected \in Nat
  BY DEF FS
<1>2. NewWords(g, 0) = <<>>
  BY <1>1 DEF NewWords
<1>3. Total(g) \o <<>> = Total(g)
  BY WordsIn, EmptyIsNeutral
<1>4. h.collected = g.collected + 0 /\ 0 \in 0..5
  BY <1>1
<1>5. Total(h) = Total(g) \o NewWords(g, 0)
  BY <1>2, <1>3, Zenon
<1> QED
  BY <1>4, <1>5, Zenon DEF TextStep

\* At the end of a part nothing waits, unless a footer has exited.
LEMMA ExitsText ==
    ASSUME IInv, Keeping(f), NEW from, Exits(from)
    PROVE  /\ Waiting(f) /\ Finishing(f) /\ ~f.sprung
           /\ FooterExits \/ f.pending = <<>>
           /\ f.before = 1 => NoText(f)
<1>1. Running(f) /\ f.input = <<>>
  BY ExitsFacts
<1>2. ~Has(f.input, {"end"})
  BY <1>1 DEF Has
<1> QED
  BY <1>1, <1>2 DEF Keeping, Waiting

\* The final break and what comes after it.
LEMMA LateKeeps ==
    ASSUME IInv, Keeping(f), Ordinary, NEW from, Exits(from),
           NEW e \in FS, SameText(f, e), e.written = f.written,
           Idle(f, e), e.sprung = f.sprung, e.status = f.status,
           NEW g, Handles(e, g, PageEjector), g.line = <<>>,
           NEW phase \in {"final_break", "last_page", "trailer"},
           e.eoiFinished => phase # "final_break",
           phase # "final_break" => FooterExits \/ Held(f) = <<>>,
           NEW h, IsEntered(g, phase, h), Brief(h)
    PROVE  TextStep(f, h) /\ Keeping(h)
<1>1. /\ f \in FS /\ Running(f) /\ f.input = <<>>
      /\ ~f.sprung /\ (FooterExits \/ f.pending = <<>>)
      /\ (f.before = 1 => NoText(f))
  BY ExitsFacts, ExitsText
<1>2. /\ Total(e) = Total(f) /\ Held(e) = Held(f) /\ (NoText(e) <=> NoText(f))
      /\ e.pending = f.pending /\ e.collected = f.collected
      /\ e.input = f.input /\ e.before = f.before
  BY SameWords DEF SameText, Idle
<1>3. /\ g \in FS /\ Total(g) = Total(e) /\ Grows(e, g)
      /\ g.collected = e.collected
      /\ g.before = 1 /\ NoText(e) => NoText(g)
      /\ g.status = "done" =>
            e.status = "done" \/ e.eoiFinished \/ Held(g) = <<>>
      /\ Waits(e, g) /\ Pushes(e, g, PageEjector)
  BY Zenon DEF Handles, Treats, Saves
<1>4. /\ h \in FS /\ SameText(g, h) /\ h.written = g.written
      /\ h.sprung = g.sprung /\ h.status = g.status
      /\ h.before = g.before /\ h.input = g.input
      /\ h.phase = phase /\ h.depth = 0
      /\ h.postponing = g.postponing /\ h.postponed = g.postponed
      /\ Called(h) = Called(g)
      /\ Total(h) = Total(g) /\ Held(h) = Held(g)
  <2>1. phase \in {"end_macro", "final_break", "last_page", "trailer"}
    OBVIOUS
  <2> QED
    BY <1>3, <2>1, EnteredText
<1>5. Total(h) = Total(f) /\ h.collected = f.collected /\ Grows(f, h)
  BY <1>2, <1>3, <1>4, Zenon DEF SameText, Grows
<1>6. phase # "final_break" => FooterExits \/ Held(h) = <<>>
  BY <1>1, <1>4, <1>5, HeldGone
<1>7. h.status = "done" => FooterExits \/ Held(h) = <<>>
  <2>1. e.status # "done"
    BY <1>1 DEF Running
  <2> QED
    BY <1>3, <1>4, <1>6, <2>1
<1>8. TextStep(f, h)
  BY <1>1, <1>4, <1>5, <1>7, NoWordsStep
<1>9. Called(h) \subseteq Called(f)
  <2>1. Called(e) = Called(f)
    BY DEF Called, Idle
  <2> QED
    BY <1>3, <1>4, <2>1 DEF Pushes
<1>10. Called(h) \subseteq Macros \ {End} /\ h.collected = Len(Total(h))
  BY <1>5, <1>9 DEF Keeping
<1>11. Waiting(h)
  <2>1. Awaits(h) => Has(h.input, {"end"})
    BY DEF Awaits, Brief
  <2>2. Awaits(h) <=> Awaits(g)
    BY <1>4 DEF Awaits
  <2>3. h.before = 1 => NoText(h)
    <3>1. g.before = 1 => e.before = 1
      BY <1>3 DEF Pushes
    <3> QED
      BY <1>1, <1>2, <1>3, <1>4, <3>1, Zenon DEF SameText, NoText
  <2>4. h.sprung => Awaits(h)
    BY <1>1, <1>3, <1>4, <2>2, Zenon DEF Waits
  <2>5. h.pending # <<>> => FooterExits \/ Awaits(h)
    BY <1>1, <1>2, <1>3, <1>4, <2>2, Zenon DEF Waits, SameText
  <2> QED
    BY <1>4, <2>1, <2>3, <2>4, <2>5 DEF Waiting
<1>12. ASSUME NEW names, \A nm \in Macros \ {End} : Call(nm) \in FreeOf(names)
       PROVE  h.input \in Seq(FreeOf(names))
  <2>1. {BeginTrap, EndTrap, PageEjector, LastPageEjector}
          \subseteq FreeOf(names)
    BY TokensAre DEF FreeOf
  <2>2. e.input \in Seq(FreeOf(names))
    <3>1. \A S : <<>> \in Seq(S)
      OBVIOUS
    <3> QED
      BY <1>1, <1>2, <3>1, Zenon
  <2>3. \A nm \in Called(e) : Call(nm) \in FreeOf(names)
    <3>1. Called(e) = Called(f)
      BY DEF Called, Idle
    <3> QED
      BY <1>12, <3>1 DEF Keeping
  <2>4. Admits(FreeOf(names), e, PageEjector)
    BY <2>1, <2>2, <2>3 DEF Admits
  <2> QED
    BY <1>3, <1>4, <2>4, Zenon DEF Pushes
<1>13. /\ \A nm \in Macros \ {End} : Call(nm) \in FreeOf(NewText)
       /\ ~FooterExits => \A nm \in Macros \ {End} :
                             Call(nm) \in FreeOf({"ex"})
  BY MacrosFree DEF IInv
<1>14. Finishing(h)
  <2>1. h.line = <<>> /\ h.input \in Seq(FreeOf(NewText))
    BY <1>4, <1>12, <1>13, Zenon DEF SameText
  <2> QED
    BY <1>4, <1>6, <2>1 DEF Finishing
<1>15. Exiting(h)
  BY <1>12, <1>13, Zenon DEF Exiting
<1> QED
  BY <1>8, <1>10, <1>11, <1>14, <1>15, Zenon DEF Keeping

\* The end of the document.
LEMMA EndDocumentKeeps ==
    ASSUME IInv, Brief(f), Keeping(f), Ordinary, EndDocument
    PROVE  TextStep(f, f') /\ Keeping(f')
<1> DEFINE g == [f EXCEPT !.exiting = TRUE, !.lastCount = f.count]
           s == SpringTrap(g, em)
           e == IF em = NoMacro THEN g ELSE s
           h == [e EXCEPT !.phase = "end_macro", !.depth = 0]
<1>1. Exits("document") /\ f' = h
  BY Zenon DEF EndDocument, Enter
<1>2. /\ f \in FS /\ Running(f) /\ f.input = <<>>
      /\ ~f.sprung /\ (FooterExits \/ f.pending = <<>>)
      /\ (f.before = 1 => NoText(f))
  BY <1>1, ExitsFacts, ExitsText
<1>3. g \in FS
  BY <1>2, ExitingIn
<1>4. /\ SameText(f, g) /\ g.written = f.written
      /\ g.sprung = f.sprung /\ g.status = f.status
      /\ g.before = f.before /\ g.input = f.input
      /\ g.postponing = f.postponing /\ g.postponed = f.postponed
      /\ g.traps = f.traps
  BY <1>2 DEF FS, SameText
<1> HIDE DEF g
<1>5. Brief(g)
  BY <1>4 DEF Brief
<1>6. /\ e \in FS /\ SameText(g, e) /\ e.written = g.written
      /\ e.status = g.status /\ e.before = g.before /\ e.traps = g.traps
      /\ Brief(e)
      /\ \/ e.input = <<>> /\ ~e.sprung
         \/ /\ em = End /\ e.input = TrapItems(End) \o <<>>
            /\ Has(e.input, {"end"})
  <2>1. CASE em = NoMacro
    BY <1>2, <1>3, <1>4, <1>5, <2>1 DEF SameText
  <2>2. CASE em # NoMacro
    <3>1. em = End /\ End \in Macros
      BY <2>2 DEF IInv, Macros
    <3>2. /\ s \in FS /\ SameText(g, s) /\ s.written = g.written
          /\ s.status = g.status /\ s.before = g.before
          /\ s.traps = g.traps /\ Has(s.input, {"end"})
          /\ Brief(s) /\ s.input = TrapItems(em) \o g.input
      BY <1>3, <1>5, <3>1, SpringTrapText
    <3> HIDE DEF s
    <3> QED
      BY <1>2, <1>4, <2>2, <3>1, <3>2
  <2> QED
    BY <2>1, <2>2
<1>7. IsEntered(e, "end_macro", h)
  BY DEF IsEntered
<1> HIDE DEF e, h
<1>8. /\ h \in FS /\ SameText(e, h) /\ h.written = e.written
      /\ h.sprung = e.sprung /\ h.status = e.status
      /\ h.before = e.before /\ h.input = e.input
      /\ h.phase = "end_macro" /\ h.depth = 0
      /\ h.postponing = e.postponing /\ h.postponed = e.postponed
      /\ Called(h) = Called(e)
      /\ Total(h) = Total(e) /\ Held(h) = Held(e)
  <2>1. "end_macro" \in {"end_macro", "final_break", "last_page", "trailer"}
    OBVIOUS
  <2> QED
    BY <1>6, <1>7, <2>1, EnteredText
<1>9. SameText(f, h) /\ h.written = f.written
  BY <1>4, <1>6, <1>8, Zenon DEF SameText
<1>10. /\ Total(h) = Total(f) /\ Grows(f, h)
       /\ h.collected = f.collected /\ h.pending = f.pending
       /\ (NoText(h) <=> NoText(f))
  BY <1>2, <1>9, SameWords, GrowsSame DEF SameText
<1>11. TextStep(f, h)
  <2>1. h.status # "done"
    BY <1>2, <1>4, <1>6, <1>8 DEF Running
  <2> QED
    BY <1>2, <1>8, <1>10, <2>1, NoWordsStep
<1>12. Called(h) \subseteq Macros \ {End} /\ h.collected = Len(Total(h))
  <2>1. NoMacro \notin Macros
    BY Parameters
  <2>2. Called(e) \subseteq Called(f)
    BY <1>4, <1>5, <1>6, <2>1 DEF Called, Brief
  <2> QED
    BY <1>8, <1>10, <2>2 DEF Keeping
<1>13. Waiting(h)
  <2>1. h.before = 1 => NoText(h)
    BY <1>2, <1>4, <1>6, <1>8, <1>10
  <2>2. h.sprung => Has(h.input, {"end"}) /\ h.depth = 0
    BY <1>6, <1>8
  <2>3. h.pending # <<>> => Has(h.input, {"end"}) \/ FooterExits
    BY <1>2, <1>10
  <2> QED
    BY <2>1, <2>2, <2>3 DEF Waiting
<1>14. Finishing(h)
  BY <1>8 DEF Finishing
<1>15. Exiting(h)
  <2>1. CASE h.input = <<>>
    <3>1. \A S : <<>> \in Seq(S)
      OBVIOUS
    <3> QED
      BY <2>1, <3>1, Zenon DEF Exiting
  <2>2. CASE h.input # <<>>
    <3> DEFINE t == TrapItems(End) \o <<>>
    <3>1. h.input = t
      BY <1>6, <1>8, <2>2
    <3>2. t # <<>> /\ Head(t) = BeginTrap
      BY DEF TrapItems
    <3>3. ASSUME NEW names, Call(End) \in FreeOf(names)
          PROVE  t \in Seq(FreeOf(names))
      <4>1. BeginTrap \in FreeOf(names) /\ EndTrap \in FreeOf(names)
        BY TokensAre DEF FreeOf
      <4>2. TrapItems(End) \in Seq(FreeOf(names))
        BY <3>3, <4>1 DEF TrapItems
      <4> QED
        BY <4>2
    <3> HIDE DEF t
    <3>4. CASE Call(End) \in FreeOf({"ex"})
      BY <3>1, <3>3, <3>4, Zenon DEF Exiting
    <3>5. CASE Call(End) \in FreeOf(NewText)
      BY <1>2, <1>8, <1>10, <3>1, <3>2, <3>3, <3>5, Zenon
         DEF Exiting, EndMacroExits
    <3> QED
      BY <3>4, <3>5, MacrosFree DEF IInv
  <2> QED
    BY <2>1, <2>2
<1>16. Keeping(h)
  BY <1>12, <1>13, <1>14, <1>15, Zenon DEF Keeping
<1> QED
  BY <1>1, <1>11, <1>16

LEMMA FinalBreakKeeps ==
    ASSUME IInv, Brief(f), Keeping(f), Ordinary, FinalBreak
    PROVE  TextStep(f, f') /\ Keeping(f')
<1> DEFINE d == DoBreak(f)
           h == [d EXCEPT !.phase = "final_break", !.depth = 0]
<1>1. Exits("end_macro") /\ f' = h
  BY Zenon DEF FinalBreak, Enter
<1>2. /\ f \in FS /\ Running(f) /\ f.before = 1 => NoText(f)
      /\ ~f.eoiFinished
  BY <1>1, ExitsFacts, ExitsText
<1>3. Ready(f)
  BY <1>2, ExitsText, <1>1 DEF Ready
<1>4. Handles(f, d, PageEjector) /\ d.line = <<>>
  BY <1>1, <1>3, ExitsFacts, DoBreakHandles
<1>5. Does(f, d)
  BY <1>1, ExitsFacts, DoBreakDoes
<1> HIDE DEF d
<1>6. IsEntered(d, "final_break", h)
  BY DEF IsEntered
<1>7. "final_break" \in {"end_macro", "final_break", "last_page", "trailer"}
      /\ "final_break" \in {"final_break", "last_page", "trailer"}
  OBVIOUS
<1> HIDE DEF h
<1>8. d \in FS /\ Brief(d)
  BY <1>5 DEF Does, Goes
<1>9. Brief(h)
  BY <1>6, <1>7, <1>8, EnteredText DEF Brief
<1>10. SameText(f, f) /\ Idle(f, f) /\ f \in FS
  BY <1>1, ExitsFacts DEF SameText, Idle
<1>11. TextStep(f, h) /\ Keeping(h)
  BY <1>1, <1>2, <1>4, <1>6, <1>7, <1>9, <1>10, LateKeeps
<1> QED
  BY <1>1, <1>11

\* A page is ejected at the end.
LEMMA SpacedDown ==
    ASSUME NEW e \in FS, NEW g, g = SetEjecting(e), NEW p,
           Handles(g, p, PageEjector)
    PROVE  Handles(e, Space(p, g.length, TRUE), PageEjector)
<1>1. Moves(e, g, PageEjector) /\ g \in FS
  BY SetEjectingMoves, MovesIn
<1>2. g.length \in Nat /\ TRUE \in BOOLEAN
  BY <1>1, BeforeIs, Parameters
<1>3. p \in FS
  BY MovesIn
<1>4. Moves(p, Space(p, g.length, TRUE), PageEjector)
  BY <1>2, <1>3, SpaceMoves
<1>5. Handles(g, Space(p, g.length, TRUE), PageEjector)
  BY <1>1, <1>3, <1>4, HandlesThenMoves
<1>6. g.sprung => e.sprung
  BY DEF SetEjecting, FS
<1> QED
  BY <1>1, <1>5, <1>6, MovesThenHandles

LEMMA LastStepKeeps ==
    ASSUME IInv, Keeping(f), Ordinary, NEW from, Exits(from),
           from \in {"final_break", "last_page"},
           NEW e \in FS, SameText(f, e), e.written = f.written,
           Idle(f, e), e.sprung = f.sprung, e.status = f.status,
           NEW g, g = SetEjecting(e),
           NEW p, Treats(g, p, PageEjector), p.pending = g.pending,
           NEW q, q = Space(p, g.length, TRUE),
           NEW phase \in {"last_page", "trailer"},
           NEW h, IsEntered(q, phase, h), Brief(h)
    PROVE  TextStep(f, h) /\ Keeping(h)
<1>1. Handles(g, p, PageEjector)
  BY DEF Handles, Clears
<1>2. Handles(e, q, PageEjector)
  BY <1>1, SpacedDown
<1>3. /\ f \in FS /\ Running(f) /\ f.phase = from
      /\ FooterExits \/ f.pending = <<>>
      /\ Finishing(f)
  BY ExitsFacts, ExitsText
<1>4. f.line = <<>> /\ e.line = <<>>
  BY <1>3 DEF Finishing, SameText
<1>5. q.line = <<>>
  BY <1>2, <1>4, Zenon DEF Handles, Treats, Saves
<1>6. FooterExits \/ Held(f) = <<>>
  BY <1>3, <1>4, NothingHeld DEF NoText
<1>7. /\ phase \in {"final_break", "last_page", "trailer"}
      /\ phase # "final_break"
  OBVIOUS
<1> QED
  BY <1>2, <1>5, <1>6, <1>7, LateKeeps

LEMMA EjectLastPageKeeps ==
    ASSUME IInv, Brief(f'), Keeping(f), Ordinary, EjectLastPage
    PROVE  TextStep(f, f') /\ Keeping(f')
<1> DEFINE e == [f EXCEPT !.eoiFinished = TRUE]
           g == SetEjecting(e)
           p == PushInput(g, <<LastPageEjector>>)
           q == Space(p, g.length, TRUE)
           h == [q EXCEPT !.phase = "last_page", !.depth = 0]
<1>1. Exits("final_break") /\ f' = h
  BY Zenon DEF EjectLastPage, Enter
<1>2. e \in FS /\ f \in FS
  BY <1>1, ExitsFacts, FinishedIn
<1>3. /\ SameText(f, e) /\ e.written = f.written /\ Idle(f, e)
      /\ e.sprung = f.sprung /\ e.status = f.status
  BY <1>2 DEF FS, SameText, Idle
<1> HIDE DEF e
<1>4. g \in FS
  BY <1>2, SetEjectingMoves, MovesIn
<1> HIDE DEF g
<1>5. LastPageEjector \in Tokens /\ LastPageEjector # Line("'sp")
      /\ LastPageEjector.kind \in {"ejector", "last", "line"}
  BY TokensAre
<1>6. Treats(g, p, PageEjector) /\ p.pending = g.pending
  <2>1. Turns(g, p)
    BY <1>4, <1>5, PushOneTurns
  <2>2. Pushes(g, p, PageEjector)
    BY <1>4, PushOnePushes
  <2> HIDE DEF p
  <2> QED
    BY <1>4, <2>1, <2>2, TurnsTreats
<1> HIDE DEF p
<1>7. IsEntered(q, "last_page", h)
  BY DEF IsEntered
<1> HIDE DEF q, h
<1>8. Brief(h)
  BY <1>1
<1>9. "final_break" \in {"final_break", "last_page"}
      /\ "last_page" \in {"last_page", "trailer"}
  OBVIOUS
<1>10. TextStep(f, h) /\ Keeping(h)
  BY <1>1, <1>2, <1>3, <1>6, <1>7, <1>8, <1>9, LastStepKeeps DEF g, q
<1> QED
  BY <1>1, <1>10

LEMMA EjectWhatFollowsKeeps ==
    ASSUME IInv, Brief(f'), Keeping(f), Ordinary, EjectWhatFollows
    PROVE  TextStep(f, f') /\ Keeping(f')
<1> DEFINE e == [f EXCEPT !.seenLast = TRUE]
           g == SetEjecting(e)
           p == PushPageEjector(g)
           q == Space(p, g.length, TRUE)
           h == [q EXCEPT !.phase = "trailer", !.depth = 0]
<1>1. Exits("last_page") /\ f' = h
  BY Zenon DEF EjectWhatFollows, Enter
<1>2. e \in FS /\ f \in FS
  BY <1>1, ExitsFacts, SeenLastIn DEF TextIn
<1>3. /\ SameText(f, e) /\ e.written = f.written /\ Idle(f, e)
      /\ e.sprung = f.sprung /\ e.status = f.status
  BY <1>2 DEF FS, SameText, Idle
<1> HIDE DEF e
<1>4. g \in FS
  BY <1>2, SetEjectingMoves, MovesIn
<1> HIDE DEF g
<1>5. Treats(g, p, PageEjector) /\ p.pending = g.pending
  BY <1>4, PushPageEjectorTreats
<1> HIDE DEF p
<1>6. IsEntered(q, "trailer", h)
  BY DEF IsEntered
<1> HIDE DEF q, h
<1>7. Brief(h)
  BY <1>1
<1>8. "last_page" \in {"final_break", "last_page"}
      /\ "trailer" \in {"last_page", "trailer"}
  OBVIOUS
<1>9. TextStep(f, h) /\ Keeping(h)
  BY <1>1, <1>2, <1>3, <1>5, <1>6, <1>7, <1>8, LastStepKeeps DEF g, q
<1> QED
  BY <1>1, <1>9

LEMMA ExitKeeps ==
    ASSUME IInv, Keeping(f), Ordinary, Exit
    PROVE  TextStep(f, f') /\ Keeping(f')
<1> DEFINE g == [f EXCEPT !.status = "done"]
           h == [g EXCEPT !.phase = "trailer", !.depth = 0]
<1>1. Exits("trailer") /\ f' = h
  BY Zenon DEF Exit, Enter
<1>2. /\ f \in FS /\ Running(f) /\ f.phase = "trailer" /\ Finishing(f)
  BY <1>1, ExitsFacts, ExitsText
<1>3. g \in FS
  BY <1>2, ZenonT(30) DEF FS
<1>4. /\ SameText(f, g) /\ g.written = f.written /\ Idle(f, g)
      /\ g.status = "done"
  BY <1>2 DEF FS, SameText, Idle
<1> HIDE DEF g
<1>5. IsEntered(g, "trailer", h)
  BY DEF IsEntered
<1> HIDE DEF h
<1>6. "trailer" \in {"end_macro", "final_break", "last_page", "trailer"}
  OBVIOUS
<1>7. /\ h \in FS /\ SameText(g, h) /\ h.written = g.written
      /\ h.status = g.status /\ Called(h) = Called(g)
      /\ Total(h) = Total(g) /\ Held(h) = Held(g)
  BY <1>3, <1>5, <1>6, EnteredText
<1>8. /\ Total(h) = Total(f) /\ Held(h) = Held(f) /\ Grows(f, h)
      /\ h.collected = f.collected
  BY <1>2, <1>4, <1>7, SameWords, GrowsSame DEF SameText
<1>9. FooterExits \/ Held(h) = <<>>
  BY <1>2, <1>8 DEF Finishing
<1>10. TextStep(f, h)
  BY <1>2, <1>7, <1>8, <1>9, NoWordsStep
<1>11. Called(h) \subseteq Macros \ {End} /\ h.collected = Len(Total(h))
  BY <1>4, <1>7, <1>8 DEF Keeping, Called, Idle
<1>12. ~Running(h)
  BY <1>4, <1>7 DEF Running
<1> QED
  BY <1>1, <1>10, <1>11, <1>12 DEF Keeping

LEMMA ReadInputKeeps ==
    ASSUME IInv, Brief(f), Brief(f'), Keeping(f), Ordinary,
           NEW item \in NextItems, ReadInput(item)
    PROVE  TextStep(f, f') /\ Keeping(f')
<1> DEFINE q == Process(Popped, item)
           h == [q EXCEPT !.sprung = FALSE]
<1>1. Running(f) /\ f' = h
  BY Zenon DEF ReadInput, Popped, Bounded
<1>2. q \in FS
  BY <1>1, PoppedIs, ProcessFollows, BodyTyped DEF IInv, Follows, Reads
<1> HIDE DEF q
<1>3. Brief(q)
  BY <1>1, <1>2, SprungIn DEF Brief
<1>4. TextStep(f, h) /\ Keeping(h)
  BY <1>1, <1>3, ReadKeeps DEF q
<1> QED
  BY <1>1, <1>4

LEMMA NextKeeps ==
    ASSUME IInv, Brief(f), Brief(f'), Keeping(f), Ordinary, Next
    PROVE  TextStep(f, f') /\ Keeping(f') /\ Running(f) /\ body' = body
<1>1. Running(f) /\ body' = body
  BY DEF Next, ReadInput, EndDocument, FinalBreak, EjectLastPage,
         EjectWhatFollows, Exit, Enter, Exits, Bounded
<1>2. ASSUME NEW item \in NextItems, ReadInput(item)
      PROVE  TextStep(f, f') /\ Keeping(f')
  BY <1>2, ReadInputKeeps
<1> QED
  BY <1>1, <1>2, EndDocumentKeeps, FinalBreakKeeps, EjectLastPageKeeps,
     EjectWhatFollowsKeeps, ExitKeeps, Zenon DEF Next

-----------------------------------------------------------------------------
\* The steps are steps of the typesetter.

\* What was written from what was at hand.
LEMMA WordsSplit ==
    ASSUME NEW all \in Seq(Nat), NEW w \in Seq(Nat), NEW h \in Seq(Nat),
           all = w \o h
    PROVE  /\ Len(w) \in 0..Len(all)
           /\ SubSeq(all, 1, Len(w)) = w
           /\ SubSeq(all, Len(w) + 1, Len(all)) = h
<1>1. /\ Len(all) = Len(w) + Len(h)
      /\ \A i \in 1..Len(w) : all[i] = w[i]
      /\ \A i \in 1..Len(h) : all[Len(w) + i] = h[i]
  BY ConcatIs
<1>2. Len(w) \in Nat /\ Len(h) \in Nat
  OBVIOUS
<1>3. Len(w) \in 0..Len(all)
  BY <1>1, <1>2
<1>4. SubSeq(all, 1, Len(w)) = w
  <2> DEFINE u == SubSeq(all, 1, Len(w))
  <2>1. u \in Seq(Nat) /\ Len(u) = Len(w)
        /\ \A i \in 1..Len(w) : u[i] = all[i]
    BY <1>1, <1>2
  <2> HIDE DEF u
  <2>2. \A i \in 1..Len(u) : u[i] = w[i]
    BY <1>1, <2>1
  <2>3. u = w
    BY <2>1, <2>2, SameSequence
  <2> QED
    BY <2>3 DEF u
<1>5. SubSeq(all, Len(w) + 1, Len(all)) = h
  <2> DEFINE u == SubSeq(all, Len(w) + 1, Len(all))
  <2>1. u \in Seq(Nat) /\ Len(u) = Len(h)
        /\ \A i \in 1..Len(h) : u[i] = all[Len(w) + i]
    BY <1>1, <1>2
  <2> HIDE DEF u
  <2>2. \A i \in 1..Len(u) : u[i] = h[i]
    BY <1>1, <2>1
  <2>3. u = h
    BY <2>1, <2>2, SameSequence
  <2> QED
    BY <2>3 DEF u
<1> QED
  BY <1>3, <1>4, <1>5

\* What follows the same words is the same.
LEMMA WordsCancel ==
    ASSUME NEW u \in Seq(Nat), NEW x \in Seq(Nat), NEW y \in Seq(Nat),
           u \o x = u \o y
    PROVE  x = y
<1>1. /\ Len(u \o x) = Len(u) + Len(x) /\ Len(u \o y) = Len(u) + Len(y)
      /\ \A i \in 1..Len(x) : (u \o x)[Len(u) + i] = x[i]
      /\ \A i \in 1..Len(y) : (u \o y)[Len(u) + i] = y[i]
  BY ConcatIs, SMTT(30)
<1>2. Len(x) = Len(y)
  <2>1. Len(u) \in Nat /\ Len(x) \in Nat /\ Len(y) \in Nat
    OBVIOUS
  <2> QED
    BY <1>1, <2>1
<1>3. \A i \in 1..Len(x) : x[i] = y[i]
  BY <1>1, <1>2
<1> QED
  BY <1>2, <1>3, SameSequence

LEMMA TextSteps ==
    ASSUME NEW g \in FS, g.collected = Len(Total(g)), NEW h, TextStep(g, h)
    PROVE  \E n \in 0..5 :
              LET all == Held(g) \o [i \in 1..n |->
                                       Len(g.written) + Len(Held(g)) + i]
              IN  \E k \in 0..Len(all) :
                     /\ h.written = g.written \o SubSeq(all, 1, k)
                     /\ Held(h) = SubSeq(all, k + 1, Len(all))
<1>1. h \in FS
  BY DEF TextStep
<1>2. PICK n \in 0..5 : Total(h) = Total(g) \o NewWords(g, n)
  BY DEF TextStep
<1>3. PICK w \in Seq(Nat) : h.written = g.written \o w
  BY DEF TextStep, Grows
<1> DEFINE u == g.written
           v == Held(g)
           m == NewWords(g, n)
           x == Held(h)
           all == v \o m
<1>4. /\ u \in Seq(Nat) /\ v \in Seq(Nat) /\ Total(g) = u \o v
      /\ x \in Seq(Nat) /\ Total(h) = h.written \o x
  BY <1>1, WordsIn
<1>5. g.collected \in Nat /\ n \in Nat
  BY SMTT(30) DEF FS
<1>6. m \in Seq(Nat)
  BY <1>5 DEF NewWords
<1>7. m = [i \in 1..n |-> Len(u) + Len(v) + i]
  <2>1. g.collected = Len(u) + Len(v)
    <3> HIDE DEF u, v
    <3> QED
      BY <1>4
  <2> QED
    BY <2>1 DEF NewWords
<1>8. (u \o w) \o x = (u \o v) \o m
  BY <1>2, <1>3, <1>4
<1> HIDE DEF u, v, m, x
<1>9. u \o (w \o x) = u \o (v \o m)
  BY <1>4, <1>6, <1>8, WordsAssociate, ZenonT(30)
<1>10. w \o x \in Seq(Nat) /\ all \in Seq(Nat)
  BY <1>4, <1>6, PushSeq
<1>11. w \o x = all
  BY <1>4, <1>9, <1>10, WordsCancel
<1> HIDE DEF all
<1>12. /\ Len(w) \in 0..Len(all)
       /\ SubSeq(all, 1, Len(w)) = w
       /\ SubSeq(all, Len(w) + 1, Len(all)) = x
  BY <1>4, <1>10, <1>11, WordsSplit, SMTT(30)
<1>13. \E k \in 0..Len(all) :
          /\ h.written = u \o SubSeq(all, 1, k)
          /\ x = SubSeq(all, k + 1, Len(all))
  BY <1>3, <1>12, Zenon DEF u
<1>14. all = v \o [i \in 1..n |-> Len(u) + Len(v) + i]
  BY <1>7, Zenon DEF all
<1> QED
  BY <1>13, <1>14, Zenon DEF u, v, x

LEMMA TypesetterStep ==
    ASSUME IInv, Brief(f), Brief(f'), Keeping(f), Ordinary, Next
    PROVE  T!Next
<1>1. /\ TextStep(f, f') /\ Running(f) /\ body' = body
      /\ f.collected = Len(Total(f)) /\ f \in FS
  BY NextKeeps DEF IInv, Keeping
<1>2. T!Step
  BY <1>1, TextSteps DEF T!Step, T!Count
<1>3. FooterExits' <=> FooterExits
  BY <1>1 DEF FooterExits
<1>4. ~(f.status = "done" /\ ~FooterExits)
  BY <1>1 DEF Running
<1>5. (f.status = "done" /\ ~FooterExits)' => Held(f)' = <<>>
  <2>1. f'.status = "done" /\ ~FooterExits => Held(f') = <<>>
    BY <1>1 DEF TextStep
  <2> QED
    BY <1>3, <2>1
<1>6. (f.status = "done" /\ ~FooterExits)' \in BOOLEAN
  BY <1>3
<1> QED
  BY <1>2, <1>4, <1>5, <1>6 DEF T!Next

LEMMA KeepingNext ==
    ASSUME Keeping(f'), body' = body
    PROVE  Keeping(f)'
<1>1. \A names : FreeOf(names)' = FreeOf(names)
  BY DEF FreeOf
<1>2. FooterExits' <=> FooterExits
  BY DEF FooterExits
<1>3. Waiting(f') => Waiting(f)'
  BY <1>2 DEF Waiting
<1>4. Finishing(f') => Finishing(f)'
  <2>1. FreeOf(NewText)' = FreeOf(NewText)
    BY DEF FreeOf
  <2> QED
    BY <1>2, <2>1 DEF Finishing
<1>5. Exiting(f') => Exiting(f)'
  <2>1. FreeOf(NewText)' = FreeOf(NewText) /\ FreeOf({"ex"})' = FreeOf({"ex"})
    BY DEF FreeOf
  <2> QED
    BY <1>2, <2>1 DEF Exiting, EndMacroExits
<1> QED
  BY <1>3, <1>4, <1>5 DEF Keeping

\* The words of a formatter that has read nothing.
LEMMA NewFormatterWords ==
    ASSUME NEW traps
    PROVE  LET r == NewFormatter(traps)
           IN  /\ r.written = <<>> /\ r.line = <<>> /\ r.pending = <<>>
               /\ r.collected = 0 /\ r.sprung = FALSE
               /\ r.status = "running" /\ r.traps = traps
<1> DEFINE page == [NewPage(PageLength) EXCEPT !.traps = traps]
           text == [line |-> <<>>, pending |-> <<>>, filling |-> TRUE,
                    collected |-> 0, depth |-> 0, phase |-> "document"]
           r == NewFormatter(traps)
<1>1. DOMAIN page = PageFields
  BY NewPageFields
<1>2. DOMAIN text = TextFields
  BY DEF TextFields
<1>3. /\ page["written"] = <<>> /\ page["sprung"] = FALSE
      /\ page["status"] = "running" /\ page["traps"] = traps
  BY DEF NewPage
<1>4. text["line"] = <<>> /\ text["pending"] = <<>> /\ text["collected"] = 0
  OBVIOUS
<1>5. r = [x \in DOMAIN page \cup DOMAIN text |->
              IF x \in DOMAIN page THEN page[x] ELSE text[x]]
  BY DEF NewFormatter
<1> HIDE DEF page, text, r
<1>6. \A x \in PageFields : r[x] = page[x]
  BY <1>1, <1>2, <1>5
<1>7. \A x \in TextFields : x \notin PageFields /\ r[x] = text[x]
  <2>1. \A x \in TextFields : x \notin PageFields
    BY DEF PageFields, TextFields
  <2> QED
    BY <1>1, <1>2, <1>5, <2>1
<1>8. /\ {"written", "sprung", "status", "traps"} \subseteq PageFields
      /\ {"line", "pending", "collected"} \subseteq TextFields
  BY DEF PageFields, TextFields
<1>9. /\ r["written"] = <<>> /\ r["line"] = <<>> /\ r["pending"] = <<>>
      /\ r["collected"] = 0 /\ r["sprung"] = FALSE
      /\ r["status"] = "running" /\ r["traps"] = traps
  BY <1>3, <1>4, <1>6, <1>7, <1>8
<1> QED
  BY <1>9 DEF r

LEMMA InitKeeps ==
    ASSUME Init, Ordinary
    PROVE  Keeping(f) /\ T!Init
<1>1. PICK s \in Setups : f = NewFormatter(s.traps)
  BY Zenon DEF Init
<1>2. /\ f.written = <<>> /\ f.line = <<>> /\ f.pending = <<>>
      /\ f.collected = 0 /\ f.sprung = FALSE
      /\ f.status = "running" /\ f.traps = s.traps
  BY <1>1, NewFormatterWords
<1>3. f.input = <<>> /\ f.phase = "document" /\ f.postponed = NoMacro
  BY <1>1, NewFormatterFields
<1>4. NoText(f) /\ Held(f) = <<>> /\ FlattenSeq(f.pending) = <<>>
  BY <1>2, NothingHeld DEF NoText
<1>5. f.collected = Len(Total(f))
  <2>1. <<>> \o <<>> = <<>> /\ Len(<<>>) = 0
    OBVIOUS
  <2>2. Total(f) = <<>>
    BY <1>2, <1>4, <2>1, Zenon DEF Total, Formatted
  <2> QED
    BY <1>2, <2>1, <2>2
<1>6. Called(f) \subseteq Macros \ {End}
  BY <1>2, <1>3, Parameters DEF Called, Ordinary
<1>7. \A S : <<>> \in Seq(S)
  OBVIOUS
<1>8. Waiting(f) /\ Finishing(f)
  BY <1>2, <1>3, <1>4 DEF Waiting, Finishing
<1>9. Exiting(f)
  BY <1>3, <1>7, Zenon DEF Exiting
<1>10. Keeping(f)
  BY <1>5, <1>6, <1>8, <1>9, Zenon DEF Keeping
<1>11. T!Init
  BY <1>2, <1>4 DEF T!Init
<1> QED
  BY <1>10, <1>11

\* Every word that the formatter reads is written once and in the order of
\* reading, and troff does not end before it has written them all: no trap
\* that is sprung between two output lines, no line that waits in
\* environment::pending_lines for the end of a trap, no ejection and no part
\* of exit_troff loses a word, repeats one or lets one overtake another.  The
\* documents are those of careful writers, and their traps are ordinary ones.
THEOREM TextIsKept ==
    ASSUME Careful, Ordinary
    PROVE  Spec => ImplementsTypesetter
<1> DEFINE Inv == IInv /\ NoneWaits /\ Keeping(f)
<1>1. Init => Inv /\ T!Init
  BY InitInvariant, InitKeeps
<1>2. Inv /\ [Next]_vars => Inv' /\ [T!Next]_(T!vars)
  <2> SUFFICES ASSUME Inv, [Next]_vars
               PROVE  Inv' /\ [T!Next]_(T!vars)
    OBVIOUS
  <2>1. IInv' /\ NoneWaits'
    BY NextInvariant
  <2>2. CASE Next
    <3>1. Brief(f) /\ Brief(f')
      BY <2>1 DEF NoneWaits, Brief
    <3>2. Keeping(f') /\ body' = body
      BY <2>2, <3>1, NextKeeps
    <3>3. Keeping(f)'
      BY <3>2, KeepingNext
    <3>4. T!Next
      BY <2>2, <3>1, TypesetterStep
    <3> QED
      BY <2>1, <3>3, <3>4
  <2>3. CASE UNCHANGED vars
    <3>1. f' = f /\ body' = body
      BY <2>3 DEF vars
    <3>2. Keeping(f)'
      BY <3>1, KeepingNext
    <3>3. UNCHANGED T!vars
      BY <3>1 DEF T!vars, Held, FooterExits
    <3> QED
      BY <2>1, <3>2, <3>3
  <2> QED
    BY <2>2, <2>3
<1> HIDE DEF Inv
<1> QED
  BY <1>1, <1>2, PTL DEF Spec, ImplementsTypesetter, T!Spec

=============================================================================
