-------------------------- MODULE OutputFileProofs --------------------------
(* What troff_output_file promises, for any fonts, sizes, colors and nodes: *)
(* that it knows the looks and the place of the driver, that its buffer is  *)
(* current, and that every mark a node asks for is made as it was asked.    *)
(*                                                                          *)
(* The invariant is about pairs of an output file and its driver, as the    *)
(* operators of OutputFile take and give them.  For each operator a lemma   *)
(* says which fields it changes (Kept, OnlyOut) and that it keeps what is   *)
(* known of the pair (Sound), with the marks it adds (Ink); the nodes put   *)
(* these together.  What a buffered word makes of the driver comes from an  *)
(* induction over the word, with the theorem of well-founded induction.     *)
EXTENDS OutputFile, WellFoundedInduction, TLAPS

Smaller == {p \in Nat \X Nat : p[1] < p[2]}

LEMMA Below == IsWellFoundedOn(Smaller, Nat)
  <1>1. OpToRel(<, Nat) = Smaller
    BY DEF OpToRel, Smaller
  <1> QED
    BY <1>1, NatLessThanWellFounded

LEMMA Least ==
    ASSUME NEW S \in SUBSET Nat, S # {}
    PROVE  \E n \in S : \A m \in S : n <= m
  <1>1. PICK n \in S : \A m \in S : <<m, n>> \notin Smaller
    BY WFMin, Below
  <1>2. \A m \in S : ~(m < n)
    BY <1>1 DEF Smaller
  <1> QED
    BY <1>2

LEMMA Induct ==
    ASSUME NEW S \in SUBSET Nat, 0 \in S, \A n \in S : n + 1 \in S
    PROVE  S = Nat
  <1>1. SUFFICES ASSUME Nat \ S # {} PROVE FALSE
    OBVIOUS
  <1>2. PICK n \in Nat \ S : \A m \in Nat \ S : n <= m
    BY <1>1, Least
  <1>3. n - 1 \in S
    BY <1>2
  <1> QED
    BY <1>2, <1>3

\* The sums of a and the first members of inc, up to the n-th.
Sums(a, inc, n) ==
    CHOOSE f : f = [i \in 0..n |-> IF i = 0 THEN a ELSE f[i - 1] + inc[i]]

LEMMA SumsDef ==
    ASSUME NEW a, NEW inc, NEW n \in Nat
    PROVE  Sums(a, inc, n)
             = [i \in 0..n |-> IF i = 0 THEN a
                               ELSE Sums(a, inc, n)[i - 1] + inc[i]]
  <1> DEFINE IsSums(f, m) ==
                f = [i \in 0..m |-> IF i = 0 THEN a ELSE f[i - 1] + inc[i]]
             S == {m \in Nat : \E f : IsSums(f, m)}
  <1>1. 0 \in S
    <2> DEFINE f == [i \in 0..0 |-> a]
    <2>1. f = [i \in 0..0 |-> IF i = 0 THEN a ELSE f[i - 1] + inc[i]]
      OBVIOUS
    <2>2. IsSums(f, 0)
      BY <2>1
    <2> QED
      BY <2>2
  <1>2. ASSUME NEW m \in S PROVE m + 1 \in S
    <2>1. PICK f : IsSums(f, m)
      OBVIOUS
    <2> DEFINE g == [i \in 0..(m + 1) |-> IF i = m + 1 THEN f[m] + inc[i]
                                          ELSE f[i]]
    <2>2. \A i \in 0..(m + 1) :
             g[i] = IF i = 0 THEN a ELSE g[i - 1] + inc[i]
      <3>1. ASSUME NEW i \in 0..m
            PROVE  g[i] = IF i = 0 THEN a ELSE g[i - 1] + inc[i]
        BY <2>1
      <3>2. g[m + 1] = g[m] + inc[m + 1]
        OBVIOUS
      <3>3. \A i \in 0..(m + 1) : i \in 0..m \/ i = m + 1
        OBVIOUS
      <3>4. m + 1 # 0 /\ (m + 1) - 1 = m
        OBVIOUS
      <3> HIDE DEF g
      <3> QED
        BY <3>1, <3>2, <3>3, <3>4
    <2>3. g = [i \in 0..(m + 1) |-> g[i]]
      OBVIOUS
    <2> HIDE DEF g
    <2>4. IsSums(g, m + 1)
      BY <2>2, <2>3
    <2>5. \E h : IsSums(h, m + 1)
      <3> WITNESS g
      <3> QED
        BY <2>4
    <2> HIDE DEF IsSums
    <2> QED
      BY <2>5
  <1>3. S = Nat
    <2> HIDE DEF S
    <2>1. S \in SUBSET Nat
      BY DEF S
    <2> QED
      BY <1>1, <1>2, <2>1, Induct
  <1>4. \E f : IsSums(f, n)
    BY <1>3
  <1>5. Sums(a, inc, n) = CHOOSE f : IsSums(f, n)
    BY DEF Sums
  <1>6. IsSums(Sums(a, inc, n), n)
    <2> HIDE DEF IsSums
    <2> QED
      BY <1>4, <1>5
  <1> QED
    BY <1>6

\* The advances of a word, glyph by glyph.
LEMMA AdvancesDef ==
    ASSUME NEW d, NEW kern, NEW word, Len(word) \in Nat
    PROVE  LET At == Advances(d, kern, word)
           IN  /\ DOMAIN At = 0..Len(word)
               /\ At[0] = d.hpos
               /\ \A i \in 1..Len(word) :
                     At[i] = At[i - 1]
                       + (kern + Width[word[i]][d.table[d.fontno]][d.size])
  <1> DEFINE inc == [i \in 0..Len(word) |->
                        kern + Width[word[i]][d.table[d.fontno]][d.size]]
             At == Advances(d, kern, word)
             IsIt(f) == f = [i \in 0..Len(word) |->
                                IF i = 0 THEN d.hpos ELSE f[i - 1]
                 + (kern + Width[word[i]][d.table[d.fontno]][d.size])]
  <1>1. \E f : IsIt(f)
    <2> HIDE DEF inc
    <2> DEFINE f == Sums(d.hpos, inc, Len(word))
    <2>1. f = [i \in 0..Len(word) |->
                  IF i = 0 THEN d.hpos ELSE f[i - 1] + inc[i]]
      BY SumsDef
    <2> HIDE DEF f
    <2>2. [i \in 0..Len(word) |->
              IF i = 0 THEN d.hpos ELSE f[i - 1] + inc[i]]
          = [i \in 0..Len(word) |->
              IF i = 0 THEN d.hpos ELSE f[i - 1]
                 + (kern + Width[word[i]][d.table[d.fontno]][d.size])]
      BY DEF inc
    <2>3. IsIt(f)
      BY <2>1, <2>2
    <2> WITNESS f
    <2> QED
      BY <2>3
  <1>2. At = CHOOSE f : IsIt(f)
    BY DEF Advances
  <1> HIDE DEF At
  <1>3. IsIt(At)
    <2> HIDE DEF IsIt
    <2> QED
      BY <1>1, <1>2
  <1>4. /\ DOMAIN At = 0..Len(word)
        /\ \A i \in 0..Len(word) :
              At[i] = IF i = 0 THEN d.hpos ELSE At[i - 1]
                 + (kern + Width[word[i]][d.table[d.fontno]][d.size])
    BY <1>3, Zenon
  <1>5. /\ 0 \in 0..Len(word)
        /\ \A i \in 1..Len(word) : i \in 0..Len(word) /\ i # 0
    OBVIOUS
  <1> QED
    BY <1>4, <1>5 DEF At

-----------------------------------------------------------------------------
\* Sequences, whatever their members are.
IsSeq(s) == s \in Seq({s[i] : i \in DOMAIN s})

LEMMA SeqIs == ASSUME NEW S, NEW s \in Seq(S) PROVE IsSeq(s)
  BY DEF IsSeq

LEMMA SeqParts ==
    ASSUME NEW s, IsSeq(s)
    PROVE  Len(s) \in Nat /\ DOMAIN s = 1..Len(s)
  BY DEF IsSeq

LEMMA SeqMade ==
    ASSUME NEW n \in Nat, NEW s, s = [i \in 1..n |-> s[i]]
    PROVE  IsSeq(s) /\ Len(s) = n
  BY DEF IsSeq

LEMMA SeqAppend ==
    ASSUME NEW s, IsSeq(s), NEW e
    PROVE  /\ IsSeq(Append(s, e)) /\ Len(Append(s, e)) = Len(s) + 1
           /\ \A i \in 1..Len(s) : Append(s, e)[i] = s[i]
           /\ Append(s, e)[Len(s) + 1] = e
  <1> DEFINE S == {s[i] : i \in DOMAIN s} \cup {e}
  <1>1. s \in Seq(S)
    BY DEF IsSeq
  <1> HIDE DEF S
  <1>2. e \in S
    BY DEF S
  <1>3. Append(s, e) \in Seq(S)
    BY <1>1, <1>2
  <1>4. IsSeq(Append(s, e))
    BY <1>3, SeqIs
  <1>5. /\ Len(Append(s, e)) = Len(s) + 1
        /\ \A i \in 1..Len(s) : Append(s, e)[i] = s[i]
        /\ Append(s, e)[Len(s) + 1] = e
    BY <1>1, <1>2
  <1> QED
    BY <1>4, <1>5

LEMMA SeqConcat ==
    ASSUME NEW s, IsSeq(s), NEW t, IsSeq(t)
    PROVE  /\ IsSeq(s \o t) /\ Len(s \o t) = Len(s) + Len(t)
           /\ \A i \in 1..Len(s) : (s \o t)[i] = s[i]
           /\ \A i \in 1..Len(t) : (s \o t)[Len(s) + i] = t[i]
  <1> DEFINE S == {s[i] : i \in DOMAIN s} \cup {t[i] : i \in DOMAIN t}
  <1>1. s \in Seq(S) /\ t \in Seq(S)
    BY DEF IsSeq
  <1> HIDE DEF S
  <1>2. s \o t \in Seq(S)
    BY <1>1
  <1>3. IsSeq(s \o t)
    BY <1>2, SeqIs
  <1>4. /\ Len(s \o t) = Len(s) + Len(t)
        /\ \A i \in 1..Len(s) : (s \o t)[i] = s[i]
        /\ \A i \in 1..Len(t) : (s \o t)[Len(s) + i] = t[i]
    BY <1>1
  <1> QED
    BY <1>3, <1>4

LEMMA SeqEqual ==
    ASSUME NEW s, IsSeq(s), NEW t, IsSeq(t), Len(s) = Len(t),
           \A i \in 1..Len(s) : s[i] = t[i]
    PROVE  s = t
  <1> DEFINE S == {s[i] : i \in DOMAIN s} \cup {t[i] : i \in DOMAIN t}
  <1>1. s \in Seq(S) /\ t \in Seq(S)
    BY DEF IsSeq
  <1> HIDE DEF S
  <1> QED
    BY <1>1

LEMMA ConcatAppend ==
    ASSUME NEW s, IsSeq(s), NEW t, IsSeq(t), NEW e
    PROVE  s \o Append(t, e) = Append(s \o t, e)
  <1>1. /\ IsSeq(Append(t, e)) /\ Len(Append(t, e)) = Len(t) + 1
        /\ \A i \in 1..Len(t) : Append(t, e)[i] = t[i]
        /\ Append(t, e)[Len(t) + 1] = e
    BY SeqAppend
  <1>2. /\ IsSeq(s \o t) /\ Len(s \o t) = Len(s) + Len(t)
        /\ \A i \in 1..Len(s) : (s \o t)[i] = s[i]
        /\ \A i \in 1..Len(t) : (s \o t)[Len(s) + i] = t[i]
    BY SeqConcat
  <1> DEFINE l == s \o Append(t, e)
             r == Append(s \o t, e)
  <1>5. Len(s) \in Nat /\ Len(t) \in Nat
    BY SeqParts
  <1>3. /\ IsSeq(l) /\ Len(l) = Len(s) + Len(t) + 1
        /\ \A i \in 1..Len(s) : l[i] = s[i]
        /\ \A i \in 1..(Len(t) + 1) : l[Len(s) + i] = Append(t, e)[i]
    <2> DEFINE u == Append(t, e)
    <2>0. IsSeq(u)
      BY <1>1
    <2>1. Len(u) = Len(t) + 1
      BY <1>1
    <2> HIDE DEF u
    <2>2. /\ IsSeq(s \o u) /\ Len(s \o u) = Len(s) + Len(u)
          /\ \A i \in 1..Len(s) : (s \o u)[i] = s[i]
          /\ \A i \in 1..Len(u) : (s \o u)[Len(s) + i] = u[i]
      BY <2>0, SeqConcat
    <2>3. Len(s) + Len(u) = Len(s) + Len(t) + 1
      BY <2>1, <1>5
    <2>4. /\ IsSeq(s \o u) /\ Len(s \o u) = Len(s) + Len(t) + 1
          /\ \A i \in 1..Len(s) : (s \o u)[i] = s[i]
          /\ \A i \in 1..(Len(t) + 1) : (s \o u)[Len(s) + i] = u[i]
      BY <2>1, <2>2, <2>3
    <2> QED
      BY <2>4 DEF u
  <1>4. /\ IsSeq(r) /\ Len(r) = Len(s) + Len(t) + 1
        /\ \A i \in 1..(Len(s) + Len(t)) : r[i] = (s \o t)[i]
        /\ r[Len(s) + Len(t) + 1] = e
    BY <1>2, SeqParts, SeqAppend
  <1> HIDE DEF l, r
  <1>6. ASSUME NEW i \in 1..Len(l)
        PROVE  l[i] = r[i]
    <2>1. CASE i \in 1..Len(s)
      BY <1>2, <1>3, <1>4, <1>5, <2>1
    <2>2. CASE i - Len(s) \in 1..Len(t)
      <3> DEFINE j == i - Len(s)
      <3>1. j \in 1..Len(t) /\ i = Len(s) + j
        BY <1>3, <1>5, <2>2
      <3> HIDE DEF j
      <3> QED
        BY <1>1, <1>2, <1>3, <1>4, <1>5, <3>1
    <2>3. CASE i = Len(s) + Len(t) + 1
      <3>1. l[Len(s) + (Len(t) + 1)] = e
        BY <1>1, <1>3, <1>5
      <3>2. Len(s) + (Len(t) + 1) = i
        BY <1>5, <2>3
      <3> QED
        BY <1>4, <2>3, <3>1, <3>2
    <2>4. Len(l) = Len(s) + Len(t) + 1
      BY <1>3
    <2>5. \/ i \in 1..Len(s) \/ i - Len(s) \in 1..Len(t)
          \/ i = Len(s) + Len(t) + 1
      BY <1>5, <2>4
    <2> QED
      BY <2>1, <2>2, <2>3, <2>5
  <1>7. l = r
    BY <1>3, <1>4, <1>6, SeqEqual
  <1> QED
    BY <1>7 DEF l, r

\* A part at the front can be taken away again.
LEMMA ConcatRest ==
    ASSUME NEW s, IsSeq(s), NEW t, IsSeq(t)
    PROVE  /\ s = SubSeq(s \o t, 1, Len(s))
           /\ t = SubSeq(s \o t, Len(s) + 1, Len(s \o t))
           /\ Len(s) <= Len(s \o t)
  <1>1. /\ IsSeq(s \o t) /\ Len(s \o t) = Len(s) + Len(t)
        /\ \A i \in 1..Len(s) : (s \o t)[i] = s[i]
        /\ \A i \in 1..Len(t) : (s \o t)[Len(s) + i] = t[i]
    BY SeqConcat
  <1>2. /\ Len(s) \in Nat /\ DOMAIN s = 1..Len(s)
        /\ Len(t) \in Nat /\ DOMAIN t = 1..Len(t)
    BY SeqParts
  <1> DEFINE l == SubSeq(s \o t, 1, Len(s))
             r == SubSeq(s \o t, Len(s) + 1, Len(s \o t))
             S == {(s \o t)[i] : i \in DOMAIN (s \o t)}
             u == s \o t
  <1>3. u \in Seq(S)
    BY <1>1 DEF IsSeq
  <1> HIDE DEF S, u
  <1>4. /\ IsSeq(SubSeq(u, 1, Len(s))) /\ Len(SubSeq(u, 1, Len(s))) = Len(s)
        /\ \A i \in 1..Len(s) : SubSeq(u, 1, Len(s))[i] = u[i]
    <2>1. Len(u) = Len(s) + Len(t)
      BY <1>1 DEF u
    <2>2. SubSeq(u, 1, Len(s)) \in Seq(S)
      BY <1>2, <1>3, <2>1
    <2>3. /\ Len(SubSeq(u, 1, Len(s))) = Len(s)
          /\ \A i \in 1..Len(s) : SubSeq(u, 1, Len(s))[i] = u[i]
      BY <1>2, <1>3, <2>1
    <2> QED
      BY <2>2, <2>3, SeqIs
  <1> DEFINE m == Len(s) + 1
  <1>5. LET v == SubSeq(u, Len(s) + 1, Len(u))
        IN  /\ IsSeq(v) /\ Len(v) = Len(t)
            /\ \A i \in 1..Len(t) : v[i] = u[Len(s) + i]
    <2>1. Len(u) = Len(s) + Len(t)
      BY <1>1 DEF u
    <2> DEFINE v == SubSeq(u, Len(s) + 1, Len(u))
    <2>2. v \in Seq(S)
      BY <1>2, <1>3, <2>1
    <2>3. Len(v) = Len(t) /\ \A i \in 1..Len(t) : v[i] = u[Len(s) + i]
      BY <1>2, <1>3, <2>1
    <2> HIDE DEF v
    <2>4. IsSeq(v)
      BY <2>2, SeqIs
    <2> QED
      BY <2>3, <2>4 DEF v
  <1>6. s = SubSeq(u, 1, Len(s))
    <2>1. \A i \in 1..Len(s) : s[i] = SubSeq(u, 1, Len(s))[i]
      BY <1>1, <1>4 DEF u
    <2> QED
      BY <1>4, <2>1, SeqEqual
  <1>7. t = SubSeq(u, Len(s) + 1, Len(u))
    <2> DEFINE v == SubSeq(u, Len(s) + 1, Len(u))
    <2>1. \A i \in 1..Len(t) : t[i] = v[i]
      BY <1>1, <1>5 DEF u
    <2>2. IsSeq(v) /\ Len(v) = Len(t)
      BY <1>5
    <2> HIDE DEF v
    <2>3. t = v
      BY <2>1, <2>2, SeqEqual
    <2> QED
      BY <2>3 DEF v
  <1> QED
    BY <1>1, <1>2, <1>6, <1>7 DEF u

-----------------------------------------------------------------------------
\* The marks of the glyphs of a word.
WordMarks(d, kern, word) ==
    [i \in DOMAIN word |->
        Mark(word[i], Look(d), Advances(d, kern, word)[i - 1], d.vpos)]

LEMMA WordMarksSeq ==
    ASSUME NEW d, NEW kern, NEW word \in Seq(Glyphs)
    PROVE  /\ IsSeq(WordMarks(d, kern, word))
           /\ Len(WordMarks(d, kern, word)) = Len(word)
  <1> DEFINE n == Len(word)
             m == WordMarks(d, kern, word)
  <1>1. n \in Nat /\ DOMAIN word = 1..n
    OBVIOUS
  <1>2. m = [i \in 1..n |-> m[i]]
    BY <1>1 DEF WordMarks
  <1> HIDE DEF n, m
  <1>3. IsSeq(m) /\ Len(m) = n
    BY <1>1, <1>2, SeqMade
  <1> QED
    BY <1>3 DEF m, n

\* Where the driver is after a word.
WordEnd(d, kern, word) == Advances(d, kern, word)[Len(word)]

\* The advances are numbers.
LEMMA AdvancesInt ==
    ASSUME NEW d, d.hpos \in Int, d.table[d.fontno] \in Fonts, d.size \in Sizes,
           NEW kern \in Int, NEW word \in Seq(Glyphs), NEW n \in 0..Len(word)
    PROVE  Advances(d, kern, word)[n] \in Int
  <1> DEFINE At == Advances(d, kern, word)
             S == {m \in Nat : m <= Len(word) => At[m] \in Int}
  <1>1. Len(word) \in Nat
    OBVIOUS
  <1>2. /\ At[0] = d.hpos
        /\ \A i \in 1..Len(word) :
              At[i] = At[i - 1]
                + (kern + Width[word[i]][d.table[d.fontno]][d.size])
    BY <1>1, AdvancesDef
  <1> HIDE DEF At
  <1>3. \A i \in 1..Len(word) :
           Width[word[i]][d.table[d.fontno]][d.size] \in Int
    BY OutputFileAssumption
  <1>4. 0 \in S
    BY <1>2
  <1>5. ASSUME NEW m \in S PROVE m + 1 \in S
    <2>1. CASE m + 1 <= Len(word)
      <3>1. m + 1 \in 1..Len(word) /\ (m + 1) - 1 = m
        BY <1>1, <2>1
      <3>2. At[m] \in Int
        BY <1>1, <2>1
      <3> DEFINE w == Width[word[m + 1]][d.table[d.fontno]][d.size]
      <3>3. w \in Int
        BY <1>3, <3>1
      <3>4. At[m + 1] = At[m] + (kern + w)
        BY <1>2, <3>1
      <3> HIDE DEF w
      <3> QED
        BY <3>2, <3>3, <3>4
    <2>2. CASE ~(m + 1 <= Len(word))
      BY <2>2
    <2> QED
      BY <2>1, <2>2
  <1>6. S \in SUBSET Nat
    OBVIOUS
  <1> HIDE DEF S
  <1>7. S = Nat
    BY <1>4, <1>5, <1>6, Induct
  <1>8. n \in S /\ n <= Len(word)
    BY <1>1, <1>7
  <1> QED
    BY <1>8 DEF S, At

\* A glyph more does not disturb those before it.
LEMMA AdvancesAppend ==
    ASSUME NEW d, NEW kern, NEW word \in Seq(Glyphs), NEW g \in Glyphs
    PROVE  LET At == Advances(d, kern, word)
               Bt == Advances(d, kern, Append(word, g))
           IN  /\ \A i \in 0..Len(word) : Bt[i] = At[i]
               /\ Bt[Len(word) + 1] = At[Len(word)]
                    + (kern + Width[g][d.table[d.fontno]][d.size])
  <1> DEFINE longer == Append(word, g)
             At == Advances(d, kern, word)
             Bt == Advances(d, kern, longer)
             n == Len(word)
             S == {m \in Nat : m <= n => Bt[m] = At[m]}
  <1>1. /\ n \in Nat /\ Len(longer) = n + 1 /\ longer[n + 1] = g
        /\ \A i \in 1..n : longer[i] = word[i]
    OBVIOUS
  <1> HIDE DEF longer
  <1>2. /\ At[0] = d.hpos
        /\ \A i \in 1..n :
              At[i] = At[i - 1]
                + (kern + Width[word[i]][d.table[d.fontno]][d.size])
    BY <1>1, AdvancesDef
  <1>3. /\ Bt[0] = d.hpos
        /\ \A i \in 1..(n + 1) :
              Bt[i] = Bt[i - 1]
                + (kern + Width[longer[i]][d.table[d.fontno]][d.size])
    <2>1. Len(longer) \in Nat
      BY <1>1
    <2>2. /\ Bt[0] = d.hpos
          /\ \A i \in 1..Len(longer) :
                Bt[i] = Bt[i - 1]
                  + (kern + Width[longer[i]][d.table[d.fontno]][d.size])
      BY <2>1, AdvancesDef
    <2>3. Len(longer) = n + 1
      BY <1>1
    <2> QED
      BY <2>2, <2>3
  <1> HIDE DEF At, Bt, n
  <1>4. 0 \in S
    BY <1>2, <1>3
  <1>5. ASSUME NEW m \in S PROVE m + 1 \in S
    <2>1. CASE m + 1 <= n
      <3>1. m + 1 \in 1..n /\ m + 1 \in 1..(n + 1) /\ (m + 1) - 1 = m
        BY <1>1, <2>1
      <3>2. Bt[m] = At[m]
        BY <1>1, <2>1
      <3>3. longer[m + 1] = word[m + 1]
        BY <1>1, <3>1
      <3> QED
        BY <1>2, <1>3, <3>1, <3>2, <3>3
    <2>2. CASE ~(m + 1 <= n)
      BY <2>2
    <2> QED
      BY <2>1, <2>2
  <1>6. S \in SUBSET Nat
    OBVIOUS
  <1> HIDE DEF S
  <1>7. S = Nat
    BY <1>4, <1>5, <1>6, Induct
  <1>8. \A i \in 0..n : Bt[i] = At[i]
    BY <1>1, <1>7 DEF S
  <1>9. Bt[n + 1] = At[n] + (kern + Width[g][d.table[d.fontno]][d.size])
    <2>1. n + 1 \in 1..(n + 1) /\ (n + 1) - 1 = n /\ n \in 0..n
      BY <1>1
    <2> QED
      BY <1>1, <1>3, <1>8, <2>1
  <1> QED
    BY <1>8, <1>9 DEF longer, At, Bt, n

LEMMA WordMarksAppend ==
    ASSUME NEW d, NEW kern, NEW word \in Seq(Glyphs), NEW g \in Glyphs
    PROVE  WordMarks(d, kern, Append(word, g))
             = Append(WordMarks(d, kern, word),
                      Mark(g, Look(d), WordEnd(d, kern, word), d.vpos))
  <1> DEFINE longer == Append(word, g)
             At == Advances(d, kern, word)
             Bt == Advances(d, kern, longer)
             n == Len(word)
             m == WordMarks(d, kern, word)
             last == Mark(g, Look(d), At[n], d.vpos)
             l == WordMarks(d, kern, longer)
             r == Append(m, last)
  <1>1. /\ n \in Nat /\ Len(longer) = n + 1 /\ longer[n + 1] = g
        /\ longer \in Seq(Glyphs) /\ DOMAIN longer = 1..(n + 1)
        /\ DOMAIN word = 1..n /\ \A i \in 1..n : longer[i] = word[i]
    OBVIOUS
  <1>2. \A i \in 0..n : Bt[i] = At[i]
    BY AdvancesAppend
  <1> HIDE DEF longer
  <1>3. IsSeq(l) /\ Len(l) = n + 1
    BY <1>1, WordMarksSeq
  <1>4. IsSeq(m) /\ Len(m) = n
    BY WordMarksSeq
  <1>5. \A i \in 1..(n + 1) :
           l[i] = Mark(longer[i], Look(d), Bt[i - 1], d.vpos)
    BY <1>1 DEF WordMarks
  <1>6. \A i \in 1..n : m[i] = Mark(word[i], Look(d), At[i - 1], d.vpos)
    BY <1>1 DEF WordMarks
  <1> HIDE DEF At, Bt, m, l, n
  <1>7. /\ IsSeq(r) /\ Len(r) = n + 1
        /\ \A i \in 1..n : r[i] = m[i]
        /\ r[n + 1] = last
    <2> HIDE DEF last
    <2>1. /\ IsSeq(Append(m, last)) /\ Len(Append(m, last)) = Len(m) + 1
          /\ \A i \in 1..Len(m) : Append(m, last)[i] = m[i]
          /\ Append(m, last)[Len(m) + 1] = last
      BY <1>4, SeqAppend
    <2> QED
      BY <1>4, <2>1
  <1> HIDE DEF r
  <1>8. ASSUME NEW i \in 1..(n + 1)
        PROVE  l[i] = r[i]
    <2>1. CASE i \in 1..n
      <3>1. i - 1 \in 0..n
        BY <1>1, <2>1
      <3> QED
        BY <1>1, <1>2, <1>5, <1>6, <1>7, <2>1, <3>1
    <2>2. CASE i = n + 1
      <3>1. i - 1 = n /\ n \in 0..n
        BY <1>1, <2>2
      <3> QED
        BY <1>1, <1>2, <1>5, <1>7, <2>2, <3>1
    <2> QED
      BY <1>1, <2>1, <2>2
  <1>9. l = r
    BY <1>3, <1>7, <1>8, SeqEqual
  <1> QED
    BY <1>9 DEF l, r, m, last, At, n, longer, WordEnd

LEMMA WordEndAppend ==
    ASSUME NEW d, NEW kern, NEW word \in Seq(Glyphs), NEW g \in Glyphs
    PROVE  WordEnd(d, kern, Append(word, g))
             = WordEnd(d, kern, word)
               + (kern + Width[g][d.table[d.fontno]][d.size])
  <1>1. Len(Append(word, g)) = Len(word) + 1
    OBVIOUS
  <1> QED
    BY <1>1, AdvancesAppend DEF WordEnd

\* A word of no glyphs goes nowhere.
LEMMA WordEndEmpty ==
    ASSUME NEW d, NEW kern
    PROVE  WordEnd(d, kern, <<>>) = d.hpos
  <1>1. Len(<<>>) = 0 /\ 0 \in Nat
    OBVIOUS
  <1> QED
    BY <1>1, AdvancesDef DEF WordEnd

\* What was set before plays no part.
LEMMA WordSame ==
    ASSUME NEW d, NEW e, NEW kern, NEW word,
           e.hpos = d.hpos, e.vpos = d.vpos, e.fontno = d.fontno,
           e.table = d.table, e.size = d.size, e.height = d.height,
           e.slant = d.slant, e.stroke = d.stroke, e.fill = d.fill
    PROVE  /\ WordMarks(e, kern, word) = WordMarks(d, kern, word)
           /\ WordEnd(e, kern, word) = WordEnd(d, kern, word)
  <1>1. Advances(e, kern, word) = Advances(d, kern, word)
    BY DEF Advances
  <1>2. Look(e) = Look(d)
    BY DEF Look
  <1> QED
    BY <1>1, <1>2 DEF WordMarks, WordEnd

\* No height that is fixed is a size of text.
HeightsApart == \A tf \in Tfonts : tf.height \notin Sizes

-----------------------------------------------------------------------------
\* The fields of an output file and of a driver, and pairs of both.
OutNames == {"hpos", "vpos", "ohpos", "ovpos", "must", "tfont", "fontno",
             "size", "slant", "height", "stroke", "fill", "mounted", "tbuf",
             "kern", "on", "color", "tcommand", "nroff", "switches", "begun",
             "selected"}
DrvNames == {"fontno", "size", "height", "slant", "stroke", "fill", "hpos",
             "vpos", "table", "ink"}

IsOut(o) == DOMAIN o = OutNames /\ DOMAIN o.mounted = FontPositions
IsDriver(d) == DOMAIN d = DrvNames /\ DOMAIN d.table = FontPositions
IsBoth(x) == DOMAIN x = {"o", "d"} /\ IsOut(x.o) /\ IsDriver(x.d)

\* A second pair that differs from the first in some fields at most.
OutKept(o, p, changed) ==
    IsOut(p) /\ \A f \in OutNames \ changed : p[f] = o[f]
DrvKept(d, e, changed) ==
    IsDriver(e) /\ \A f \in DrvNames \ changed : e[f] = d[f]
Kept(x, y, outs, drvs) ==
    DOMAIN y = {"o", "d"} /\ OutKept(x.o, y.o, outs) /\ DrvKept(x.d, y.d, drvs)
\* It differs in some fields of the output file only.
OnlyOut(x, y, outs) ==
    DOMAIN y = {"o", "d"} /\ OutKept(x.o, y.o, outs) /\ y.d = x.d

LEMMA KeptTrans ==
    ASSUME NEW x, NEW y, NEW z, NEW outs, NEW drvs, NEW outs2, NEW drvs2,
           Kept(x, y, outs, drvs), Kept(y, z, outs2, drvs2)
    PROVE  Kept(x, z, outs \cup outs2, drvs \cup drvs2)
  BY DEF Kept, OutKept, DrvKept

LEMMA KeptMore ==
    ASSUME NEW x, NEW y, NEW outs, NEW drvs, Kept(x, y, outs, drvs),
           NEW outs2, outs \subseteq outs2, NEW drvs2, drvs \subseteq drvs2
    PROVE  Kept(x, y, outs2, drvs2)
  BY DEF Kept, OutKept, DrvKept

LEMMA KeptIsBoth ==
    ASSUME NEW x, NEW y, NEW outs, NEW drvs, Kept(x, y, outs, drvs)
    PROVE  IsBoth(y)
  BY DEF Kept, OutKept, DrvKept, IsBoth

LEMMA OnlyOutKept ==
    ASSUME NEW x, IsBoth(x), NEW y, NEW outs, OnlyOut(x, y, outs)
    PROVE  IsBoth(y) /\ Kept(x, y, outs, {})
  BY DEF OnlyOut, Kept, OutKept, DrvKept, IsBoth

LEMMA KeptSelf ==
    ASSUME NEW x, IsBoth(x), NEW outs, NEW drvs
    PROVE  Kept(x, x, outs, drvs)
  BY DEF Kept, OutKept, DrvKept, IsBoth

-----------------------------------------------------------------------------
\* What the driver does on a command, one lemma for each.

LEMMA ObeyEnvironment ==
    ASSUME NEW d, NEW a
    PROVE  /\ Obey(d, <<"f", a>>) = FontCommand(d, a)
           /\ Obey(d, <<"s", a>>) = SizeCommand(d, a)
           /\ Obey(d, <<"x Height", a>>) = HeightCommand(d, a)
           /\ Obey(d, <<"x Slant", a>>) = SlantCommand(d, a)
           /\ Obey(d, <<"m", a>>) = StrokeCommand(d, a)
           /\ Obey(d, <<"DF", a>>) = FillCommand(d, a)
  BY DEF Obey

LEMMA ObeyMotion ==
    ASSUME NEW d, NEW a
    PROVE  /\ Obey(d, <<"h", a>>) = MoveBy(d, a, 0)
           /\ Obey(d, <<"v", a>>) = MoveBy(d, 0, a)
           /\ Obey(d, <<"H", a>>) = JumpTo(d, a, d.vpos)
           /\ Obey(d, <<"V", a>>) = JumpTo(d, d.hpos, a)
           /\ Obey(d, <<"p">>) = JumpTo(d, d.hpos, 0)
           /\ Obey(d, <<"n">>) = d
  BY DEF Obey

LEMMA ObeyMarks ==
    ASSUME NEW d, NEW a
    PROVE  /\ Obey(d, <<"c", a>>) = SetGlyph(d, a)
           /\ Obey(d, <<"C", a>>) = SetGlyph(d, a)
           /\ Obey(d, <<"D", a>>) = Draw(d, a)
           /\ Obey(d, <<"x X", a>>) = Extend(d, a)
  BY DEF Obey

LEMMA ObeyPairs ==
    ASSUME NEW d, NEW a, NEW b
    PROVE  /\ Obey(d, <<"x font", a, b>>) = MountCommand(d, a, b)
           /\ Obey(d, <<"nnc", a, b>>) = SetGlyph(MoveBy(d, a, 0), b)
           /\ Obey(d, <<"u", a, b>>) = SetWord(d, a, b)
  BY DEF Obey

LEMMA EnvironmentKept ==
    ASSUME NEW d, IsDriver(d), NEW v
    PROVE  /\ LET e == FontCommand(d, v)
              IN  DrvKept(d, e, {"fontno"}) /\ e.fontno = v
           /\ LET e == SizeCommand(d, v)
              IN  /\ DrvKept(d, e, {"size", "height"}) /\ e.size = v
                  /\ e.height = UnlessSize(d.height, v)
           /\ LET e == HeightCommand(d, v)
              IN  /\ DrvKept(d, e, {"height"})
                  /\ e.height = UnlessSize(v, d.size)
           /\ LET e == SlantCommand(d, v)
              IN  DrvKept(d, e, {"slant"}) /\ e.slant = v
           /\ LET e == StrokeCommand(d, v)
              IN  DrvKept(d, e, {"stroke"}) /\ e.stroke = v
           /\ LET e == FillCommand(d, v)
              IN  DrvKept(d, e, {"fill"}) /\ e.fill = v
  <1> USE DEF IsDriver, DrvKept, DrvNames
  <1>1. LET e == FontCommand(d, v)
        IN  DrvKept(d, e, {"fontno"}) /\ e.fontno = v
    BY DEF FontCommand
  <1>2. LET e == SizeCommand(d, v)
        IN  /\ DrvKept(d, e, {"size", "height"}) /\ e.size = v
            /\ e.height = UnlessSize(d.height, v)
    BY DEF SizeCommand
  <1>3. LET e == HeightCommand(d, v)
        IN  DrvKept(d, e, {"height"}) /\ e.height = UnlessSize(v, d.size)
    BY DEF HeightCommand
  <1>4. LET e == SlantCommand(d, v)
        IN  DrvKept(d, e, {"slant"}) /\ e.slant = v
    BY DEF SlantCommand
  <1>5. LET e == StrokeCommand(d, v)
        IN  DrvKept(d, e, {"stroke"}) /\ e.stroke = v
    BY DEF StrokeCommand
  <1>6. LET e == FillCommand(d, v)
        IN  DrvKept(d, e, {"fill"}) /\ e.fill = v
    BY DEF FillCommand
  <1> HIDE DEF IsDriver, DrvKept, DrvNames
  <1> QED
    BY <1>1, <1>2, <1>3, <1>4, <1>5, <1>6

LEMMA MountKept ==
    ASSUME NEW d, IsDriver(d), NEW n \in FontPositions, NEW name
    PROVE  LET e == MountCommand(d, n, name)
           IN  /\ DrvKept(d, e, {"table"})
               /\ \A m \in FontPositions :
                     e.table[m] = IF m = n THEN name ELSE d.table[m]
  <1> DEFINE t == [d.table EXCEPT ![n] = name]
  <1>1. DOMAIN t = FontPositions
        /\ \A m \in FontPositions :
              t[m] = IF m = n THEN name ELSE d.table[m]
    BY DEF IsDriver
  <1>2. MountCommand(d, n, name) = [d EXCEPT !.table = t]
    BY DEF MountCommand
  <1> HIDE DEF t
  <1>3. ASSUME NEW e, e = [d EXCEPT !.table = t]
        PROVE  DrvKept(d, e, {"table"}) /\ e.table = t
    BY <1>1, <1>3 DEF IsDriver, DrvKept, DrvNames
  <1> QED
    BY <1>1, <1>2, <1>3

LEMMA MotionKept ==
    ASSUME NEW d, IsDriver(d), NEW h, NEW v
    PROVE  /\ LET e == MoveBy(d, h, v)
              IN  /\ DrvKept(d, e, {"hpos", "vpos"})
                  /\ e.hpos = d.hpos + h /\ e.vpos = d.vpos + v
           /\ LET e == JumpTo(d, h, v)
              IN  /\ DrvKept(d, e, {"hpos", "vpos"})
                  /\ e.hpos = h /\ e.vpos = v
  <1>1. LET e == MoveBy(d, h, v)
        IN  /\ DrvKept(d, e, {"hpos", "vpos"})
            /\ e.hpos = d.hpos + h /\ e.vpos = d.vpos + v
    BY DEF MoveBy, IsDriver, DrvKept, DrvNames
  <1>2. LET e == JumpTo(d, h, v)
        IN  DrvKept(d, e, {"hpos", "vpos"}) /\ e.hpos = h /\ e.vpos = v
    BY DEF JumpTo, IsDriver, DrvKept, DrvNames
  <1> QED
    BY <1>1, <1>2

\* A glyph, a device extension, a word and a shape, with the marks they make.
LEMMA GlyphKept ==
    ASSUME NEW d, IsDriver(d), NEW g
    PROVE  LET e == SetGlyph(d, g)
           IN  /\ DrvKept(d, e, {"ink"})
               /\ e.ink = IF Mounted(d)
                          THEN Append(d.ink, Mark(g, Look(d), d.hpos, d.vpos))
                          ELSE d.ink
  <1> DEFINE ink == Append(d.ink, Mark(g, Look(d), d.hpos, d.vpos))
  <1>1. SetGlyph(d, g) = IF Mounted(d) THEN [d EXCEPT !.ink = ink] ELSE d
    BY DEF SetGlyph
  <1> HIDE DEF ink
  <1>2. ASSUME NEW e, e = [d EXCEPT !.ink = ink]
        PROVE  DrvKept(d, e, {"ink"}) /\ e.ink = ink
    BY <1>2 DEF IsDriver, DrvKept, DrvNames
  <1>3. DrvKept(d, d, {"ink"})
    BY DEF DrvKept
  <1> QED
    BY <1>1, <1>2, <1>3 DEF ink

LEMMA ExtendKept ==
    ASSUME NEW d, IsDriver(d), NEW text
    PROVE  LET e == Extend(d, text)
           IN  /\ DrvKept(d, e, {"ink"})
               /\ e.ink = Append(d.ink,
                                 Mark(text, ShapeLook(d), d.hpos, d.vpos))
  <1> DEFINE ink == Append(d.ink, Mark(text, ShapeLook(d), d.hpos, d.vpos))
  <1>1. Extend(d, text) = [d EXCEPT !.ink = ink]
    BY DEF Extend
  <1> HIDE DEF ink
  <1>2. ASSUME NEW e, e = [d EXCEPT !.ink = ink]
        PROVE  DrvKept(d, e, {"ink"}) /\ e.ink = ink
    BY <1>2 DEF IsDriver, DrvKept, DrvNames
  <1> QED
    BY <1>1, <1>2 DEF ink

LEMMA WordKept ==
    ASSUME NEW d, IsDriver(d), NEW kern, NEW word
    PROVE  LET e == SetWord(d, kern, word)
           IN  /\ DrvKept(d, e, {"ink", "hpos"})
               /\ Mounted(d) =>
                     /\ e.ink = d.ink \o WordMarks(d, kern, word)
                     /\ e.hpos = WordEnd(d, kern, word)
               /\ ~Mounted(d) => e = d
  <1> DEFINE ink == d.ink \o WordMarks(d, kern, word)
             end == WordEnd(d, kern, word)
  <1>1. SetWord(d, kern, word)
          = IF Mounted(d) THEN [d EXCEPT !.ink = ink, !.hpos = end] ELSE d
    BY DEF SetWord, WordMarks, WordEnd
  <1> HIDE DEF ink, end
  <1>2. ASSUME NEW e, e = [d EXCEPT !.ink = ink, !.hpos = end]
        PROVE  DrvKept(d, e, {"ink", "hpos"}) /\ e.ink = ink /\ e.hpos = end
    BY <1>2 DEF IsDriver, DrvKept, DrvNames
  <1>3. DrvKept(d, d, {"ink", "hpos"})
    BY DEF DrvKept
  <1> QED
    BY <1>1, <1>2, <1>3 DEF ink, end

Written(d, kern, word) == d.ink \o WordMarks(d, kern, word)

LEMMA WordSet ==
    ASSUME NEW d, NEW kern, NEW word, IsDriver(d), Mounted(d)
    PROVE  /\ SetWord(d, kern, word).ink = Written(d, kern, word)
           /\ SetWord(d, kern, word).hpos = WordEnd(d, kern, word)
  BY WordKept DEF Written

LEMMA DrawKept ==
    ASSUME NEW d, IsDriver(d), NEW shape
    PROVE  LET e == Draw(d, shape)
           IN  /\ DrvKept(d, e, {"ink", "hpos", "vpos"})
               /\ e.ink = Append(d.ink,
                                 Mark(shape, ShapeLook(d), d.hpos, d.vpos))
               /\ e.hpos = d.hpos + DrawnTo(shape)[1]
               /\ e.vpos = d.vpos + DrawnTo(shape)[2]
  <1> DEFINE ink == Append(d.ink, Mark(shape, ShapeLook(d), d.hpos, d.vpos))
             h == d.hpos + DrawnTo(shape)[1]
             v == d.vpos + DrawnTo(shape)[2]
  <1>1. Draw(d, shape) = [d EXCEPT !.ink = ink, !.hpos = h, !.vpos = v]
    BY DEF Draw
  <1> HIDE DEF ink, h, v
  <1>2. ASSUME NEW e, e = [d EXCEPT !.ink = ink, !.hpos = h, !.vpos = v]
        PROVE  /\ DrvKept(d, e, {"ink", "hpos", "vpos"})
               /\ e.ink = ink /\ e.hpos = h /\ e.vpos = v
    BY <1>2 DEF IsDriver, DrvKept, DrvNames
  <1> QED
    BY <1>1, <1>2 DEF ink, h, v

LEMMA PutKept ==
    ASSUME NEW x, IsBoth(x), NEW c, NEW e, Obey(x.d, c) = e,
           NEW drvs, DrvKept(x.d, e, drvs)
    PROVE  /\ Kept(x, Put(x, c), {}, drvs)
           /\ Put(x, c).o = x.o /\ Put(x, c).d = e
  BY DEF Put, Kept, OutKept, DrvKept, IsBoth

-----------------------------------------------------------------------------
\* What is believed of the looks of the driver, without what comes with the
\* font: of its heights as long as they differ from the sizes, and of its
\* colors as long as color output is not enabled again.
Looks(x) ==
    /\ IsBoth(x)
    /\ Mounts(x.o, x.d)
    /\ x.o.size # 0 => x.d.size = x.o.size
    /\ HeightsApart => x.d.height = x.o.height /\ x.o.height \notin Sizes
    /\ x.d.slant = x.o.slant
    /\ "color" \notin Extras => Colored(x.o, x.d)

Good(x) == Looks(x) /\ Selects(x.o)

\* Pairs that differ in positions, marks and the buffer only.
Positions == {"hpos", "vpos", "ohpos", "ovpos", "must", "tbuf", "kern", "on",
              "begun", "selected"}
DrvPositions == {"hpos", "vpos", "ink"}

SameLooks(x, y) == Kept(x, y, Positions, DrvPositions)

LEMMA SameLooksKeep ==
    ASSUME NEW x, NEW y, Looks(x), SameLooks(x, y)
    PROVE  /\ Looks(y)
           /\ Good(x) => Good(y)
  <1>1. IsBoth(y)
    BY KeptIsBoth DEF SameLooks
  <1>2. /\ y.o.tfont = x.o.tfont /\ y.o.fontno = x.o.fontno
        /\ y.o.size = x.o.size /\ y.o.slant = x.o.slant
        /\ y.o.height = x.o.height /\ y.o.stroke = x.o.stroke
        /\ y.o.fill = x.o.fill /\ y.o.mounted = x.o.mounted
        /\ y.o.color = x.o.color
    BY DEF SameLooks, Kept, OutKept, OutNames, Positions
  <1>3. /\ y.d.fontno = x.d.fontno /\ y.d.table = x.d.table
        /\ y.d.size = x.d.size /\ y.d.height = x.d.height
        /\ y.d.slant = x.d.slant /\ y.d.stroke = x.d.stroke
        /\ y.d.fill = x.d.fill
    BY DEF SameLooks, Kept, DrvKept, DrvNames, DrvPositions
  <1> QED
    BY <1>1, <1>2, <1>3 DEF Looks, Good, Mounts, Colored, Selects

LEMMA SameLooksTrans ==
    ASSUME NEW x, NEW y, NEW z, SameLooks(x, y), SameLooks(y, z)
    PROVE  SameLooks(x, z)
  <1>1. Positions \cup Positions = Positions
        /\ DrvPositions \cup DrvPositions = DrvPositions
    OBVIOUS
  <1> QED
    BY <1>1, KeptTrans DEF SameLooks

LEMMA SameIsBoth == ASSUME NEW x, NEW y, SameLooks(x, y) PROVE IsBoth(y)
  BY KeptIsBoth DEF SameLooks

LEMMA GoodSame ==
    ASSUME NEW x, NEW y, Good(x), SameLooks(x, y)
    PROVE  Good(y)
  BY SameLooksKeep DEF Good

LEMMA GoodIsBoth == ASSUME NEW x, Good(x) PROVE IsBoth(x)
  BY DEF Good, Looks

-----------------------------------------------------------------------------
\* What the helpers change: of the output file and of the driver.

LEMMA PutRight ==
    ASSUME NEW x, IsBoth(x), NEW n
    PROVE  /\ Kept(x, Put(x, <<"h", n>>), {}, {"hpos", "vpos"})
           /\ Put(x, <<"h", n>>).d.hpos = x.d.hpos + n
           /\ Put(x, <<"h", n>>).d.vpos = x.d.vpos + 0
  <1> DEFINE c == <<"h", n>>
             e == MoveBy(x.d, n, 0)
             changed == {"hpos", "vpos"}
  <1>1. IsDriver(x.d)
    BY DEF IsBoth
  <1>2. Obey(x.d, c) = e
    BY ObeyMotion
  <1>3. DrvKept(x.d, e, changed)
    BY <1>1, MotionKept
  <1>4. e.hpos = x.d.hpos + n /\ e.vpos = x.d.vpos + 0
    BY <1>1, MotionKept
  <1> HIDE DEF c, e, changed
  <1>5. Kept(x, Put(x, c), {}, changed) /\ Put(x, c).d = e
    BY <1>2, <1>3, PutKept
  <1> QED
    BY <1>4, <1>5 DEF c, changed

LEMMA PutDown ==
    ASSUME NEW x, IsBoth(x), NEW n
    PROVE  /\ Kept(x, Put(x, <<"v", n>>), {}, {"hpos", "vpos"})
           /\ Put(x, <<"v", n>>).d.hpos = x.d.hpos + 0
           /\ Put(x, <<"v", n>>).d.vpos = x.d.vpos + n
  <1> DEFINE c == <<"v", n>>
             e == MoveBy(x.d, 0, n)
             changed == {"hpos", "vpos"}
  <1>1. IsDriver(x.d)
    BY DEF IsBoth
  <1>2. Obey(x.d, c) = e
    BY ObeyMotion
  <1>3. DrvKept(x.d, e, changed)
    BY <1>1, MotionKept
  <1>4. e.hpos = x.d.hpos + 0 /\ e.vpos = x.d.vpos + n
    BY <1>1, MotionKept
  <1> HIDE DEF c, e, changed
  <1>5. Kept(x, Put(x, c), {}, changed) /\ Put(x, c).d = e
    BY <1>2, <1>3, PutKept
  <1> QED
    BY <1>4, <1>5 DEF c, changed

LEMMA PutToH ==
    ASSUME NEW x, IsBoth(x), NEW n
    PROVE  /\ Kept(x, Put(x, <<"H", n>>), {}, {"hpos", "vpos"})
           /\ Put(x, <<"H", n>>).d.hpos = n
           /\ Put(x, <<"H", n>>).d.vpos = x.d.vpos
  <1> DEFINE c == <<"H", n>>
             e == JumpTo(x.d, n, x.d.vpos)
             changed == {"hpos", "vpos"}
  <1>1. IsDriver(x.d)
    BY DEF IsBoth
  <1>2. Obey(x.d, c) = e
    BY ObeyMotion
  <1>3. DrvKept(x.d, e, changed)
    BY <1>1, MotionKept
  <1>4. e.hpos = n /\ e.vpos = x.d.vpos
    BY <1>1, MotionKept
  <1> HIDE DEF c, e, changed
  <1>5. Kept(x, Put(x, c), {}, changed) /\ Put(x, c).d = e
    BY <1>2, <1>3, PutKept
  <1> QED
    BY <1>4, <1>5 DEF c, changed

LEMMA PutToV ==
    ASSUME NEW x, IsBoth(x), NEW n
    PROVE  /\ Kept(x, Put(x, <<"V", n>>), {}, {"hpos", "vpos"})
           /\ Put(x, <<"V", n>>).d.hpos = x.d.hpos
           /\ Put(x, <<"V", n>>).d.vpos = n
  <1> DEFINE c == <<"V", n>>
             e == JumpTo(x.d, x.d.hpos, n)
             changed == {"hpos", "vpos"}
  <1>1. IsDriver(x.d)
    BY DEF IsBoth
  <1>2. Obey(x.d, c) = e
    BY ObeyMotion
  <1>3. DrvKept(x.d, e, changed)
    BY <1>1, MotionKept
  <1>4. e.hpos = x.d.hpos /\ e.vpos = n
    BY <1>1, MotionKept
  <1> HIDE DEF c, e, changed
  <1>5. Kept(x, Put(x, c), {}, changed) /\ Put(x, c).d = e
    BY <1>2, <1>3, PutKept
  <1> QED
    BY <1>4, <1>5 DEF c, changed

LEMMA PutPage ==
    ASSUME NEW x, IsBoth(x)
    PROVE  /\ Kept(x, Put(x, <<"p">>), {}, {"hpos", "vpos"})
           /\ Put(x, <<"p">>).d.hpos = x.d.hpos
           /\ Put(x, <<"p">>).d.vpos = 0
  <1> DEFINE c == <<"p">>
             e == JumpTo(x.d, x.d.hpos, 0)
             changed == {"hpos", "vpos"}
  <1>1. IsDriver(x.d)
    BY DEF IsBoth
  <1>2. Obey(x.d, c) = e
    BY ObeyMotion
  <1>3. DrvKept(x.d, e, changed)
    BY <1>1, MotionKept
  <1>4. e.hpos = x.d.hpos /\ e.vpos = 0
    BY <1>1, MotionKept
  <1> HIDE DEF c, e, changed
  <1>5. Kept(x, Put(x, c), {}, changed) /\ Put(x, c).d = e
    BY <1>2, <1>3, PutKept
  <1> QED
    BY <1>4, <1>5 DEF c, changed

LEMMA PutEndOfLine ==
    ASSUME NEW x, IsBoth(x)
    PROVE  Kept(x, Put(x, <<"n">>), {}, {}) /\ Put(x, <<"n">>).d = x.d
  <1>1. DrvKept(x.d, x.d, {})
    BY DEF IsBoth, DrvKept
  <1>2. Obey(x.d, <<"n">>) = x.d
    BY ObeyMotion
  <1> QED
    BY <1>1, <1>2, PutKept

LEMMA PutGlyph ==
    ASSUME NEW x, IsBoth(x), NEW g
    PROVE  /\ Kept(x, Put(x, GlyphCommand(g)), {}, {"ink"})
           /\ Put(x, GlyphCommand(g)).d = SetGlyph(x.d, g)
  <1> DEFINE c == GlyphCommand(g)
             e == SetGlyph(x.d, g)
             changed == {"ink"}
  <1>1. IsDriver(x.d)
    BY DEF IsBoth
  <1>2. Obey(x.d, c) = e
    BY ObeyMarks DEF GlyphCommand
  <1>3. DrvKept(x.d, e, changed)
    BY <1>1, GlyphKept
  <1> HIDE DEF c, e, changed
  <1>4. Kept(x, Put(x, c), {}, changed) /\ Put(x, c).d = e
    BY <1>2, <1>3, PutKept
  <1> QED
    BY <1>4 DEF c, e, changed

LEMMA NearKept ==
    ASSUME NEW d, IsDriver(d), NEW n, NEW g
    PROVE  DrvKept(d, SetGlyph(MoveBy(d, n, 0), g), {"hpos", "vpos", "ink"})
  <1>1. DrvKept(d, MoveBy(d, n, 0), {"hpos", "vpos"})
    BY MotionKept
  <1>2. DrvKept(MoveBy(d, n, 0), SetGlyph(MoveBy(d, n, 0), g), {"ink"})
    BY <1>1, GlyphKept DEF DrvKept
  <1> QED
    BY <1>1, <1>2 DEF DrvKept

LEMMA PutNear ==
    ASSUME NEW x, IsBoth(x), NEW n, NEW g
    PROVE  /\ Kept(x, Put(x, <<"nnc", n, g>>), {}, {"hpos", "vpos", "ink"})
           /\ Put(x, <<"nnc", n, g>>).d = SetGlyph(MoveBy(x.d, n, 0), g)
  <1> DEFINE c == <<"nnc", n, g>>
             e == SetGlyph(MoveBy(x.d, n, 0), g)
             changed == {"hpos", "vpos", "ink"}
  <1>1. IsDriver(x.d)
    BY DEF IsBoth
  <1>2. Obey(x.d, c) = e
    BY ObeyPairs
  <1>3. DrvKept(x.d, e, changed)
    BY <1>1, NearKept
  <1> HIDE DEF c, e, changed
  <1>4. Kept(x, Put(x, c), {}, changed) /\ Put(x, c).d = e
    BY <1>2, <1>3, PutKept
  <1> QED
    BY <1>4 DEF c, e, changed

LEMMA PutWord ==
    ASSUME NEW x, IsBoth(x), NEW kern, NEW word
    PROVE  /\ Kept(x, Put(x, <<"u", kern, word>>), {}, {"ink", "hpos"})
           /\ Put(x, <<"u", kern, word>>).d = SetWord(x.d, kern, word)
  <1> DEFINE c == <<"u", kern, word>>
             e == SetWord(x.d, kern, word)
             changed == {"ink", "hpos"}
  <1>1. IsDriver(x.d)
    BY DEF IsBoth
  <1>2. Obey(x.d, c) = e
    BY ObeyPairs
  <1>3. DrvKept(x.d, e, changed)
    BY <1>1, WordKept
  <1> HIDE DEF c, e, changed
  <1>4. Kept(x, Put(x, c), {}, changed) /\ Put(x, c).d = e
    BY <1>2, <1>3, PutKept
  <1> QED
    BY <1>4 DEF c, e, changed

LEMMA PutShape ==
    ASSUME NEW x, IsBoth(x), NEW shape
    PROVE  /\ Kept(x, Put(x, <<"D", shape>>), {}, {"ink", "hpos", "vpos"})
           /\ Put(x, <<"D", shape>>).d = Draw(x.d, shape)
  <1> DEFINE c == <<"D", shape>>
             e == Draw(x.d, shape)
             changed == {"ink", "hpos", "vpos"}
  <1>1. IsDriver(x.d)
    BY DEF IsBoth
  <1>2. Obey(x.d, c) = e
    BY ObeyMarks
  <1>3. DrvKept(x.d, e, changed)
    BY <1>1, DrawKept
  <1> HIDE DEF c, e, changed
  <1>4. Kept(x, Put(x, c), {}, changed) /\ Put(x, c).d = e
    BY <1>2, <1>3, PutKept
  <1> QED
    BY <1>4 DEF c, e, changed

LEMMA PutExtension ==
    ASSUME NEW x, IsBoth(x), NEW text
    PROVE  /\ Kept(x, Put(x, <<"x X", text>>), {}, {"ink"})
           /\ Put(x, <<"x X", text>>).d = Extend(x.d, text)
  <1> DEFINE c == <<"x X", text>>
             e == Extend(x.d, text)
             changed == {"ink"}
  <1>1. IsDriver(x.d)
    BY DEF IsBoth
  <1>2. Obey(x.d, c) = e
    BY ObeyMarks
  <1>3. DrvKept(x.d, e, changed)
    BY <1>1, ExtendKept
  <1> HIDE DEF c, e, changed
  <1>4. Kept(x, Put(x, c), {}, changed) /\ Put(x, c).d = e
    BY <1>2, <1>3, PutKept
  <1> QED
    BY <1>4 DEF c, e, changed

LEMMA FlushTbufKept ==
    ASSUME NEW x, IsBoth(x)
    PROVE  /\ Kept(x, FlushTbuf(x), {"tbuf"}, {"ink", "hpos"})
           /\ FlushTbuf(x).o.tbuf = <<>>
           /\ FlushTbuf(x).d = IF x.o.on /\ x.o.tbuf # <<>>
                               THEN SetWord(x.d, x.o.kern, x.o.tbuf) ELSE x.d
  <1>1. CASE x.o.on /\ x.o.tbuf # <<>>
    <2> DEFINE z == Put(x, <<"u", x.o.kern, x.o.tbuf>>)
               y == [z EXCEPT !.o.tbuf = <<>>]
    <2>1. Kept(x, z, {}, {"ink", "hpos"})
          /\ z.d = SetWord(x.d, x.o.kern, x.o.tbuf)
      BY PutWord
    <2>2. FlushTbuf(x) = y
      BY <1>1 DEF FlushTbuf
    <2> HIDE DEF z
    <2>3. Kept(x, y, {"tbuf"}, {"ink", "hpos"}) /\ y.o.tbuf = <<>>
            /\ y.d = z.d
      BY <2>1 DEF Kept, OutKept, DrvKept, IsOut, OutNames
    <2> HIDE DEF y
    <2> QED
      BY <1>1, <2>1, <2>2, <2>3
  <1>2. CASE ~(x.o.on /\ x.o.tbuf # <<>>)
    <2> DEFINE y == [x EXCEPT !.o.tbuf = <<>>]
    <2>1. Kept(x, y, {"tbuf"}, {"ink", "hpos"}) /\ y.o.tbuf = <<>>
            /\ y.d = x.d
      BY DEF Kept, OutKept, DrvKept, IsBoth, IsOut, OutNames
    <2>2. FlushTbuf(x) = y
      BY <1>2 DEF FlushTbuf
    <2> HIDE DEF y
    <2> QED
      BY <1>2, <2>1, <2>2
  <1> QED
    BY <1>1, <1>2

\* Positions are numbers.
Numbered(x) ==
    /\ x.o.hpos \in Int /\ x.o.vpos \in Int
    /\ x.o.ohpos \in Int /\ x.o.ovpos \in Int
    /\ x.d.hpos \in Int /\ x.d.vpos \in Int

\* The driver is where troff believes it to be.
Met(x) == x.d.hpos = x.o.ohpos /\ x.d.vpos = x.o.ovpos

LEMMA MoveHKept ==
    ASSUME NEW x, IsBoth(x)
    PROVE  LET y == MoveH(x)
           IN  /\ Kept(x, y, {}, {"hpos", "vpos"})
               /\ Numbered(x) /\ (x.o.must \/ x.d.hpos = x.o.ohpos) =>
                     y.d.hpos = x.o.hpos /\ y.d.vpos = x.d.vpos
               /\ Numbered(x) => y.d.hpos \in Int /\ y.d.vpos \in Int
  <1> DEFINE n == x.o.hpos - x.o.ohpos
  <1>1. CASE ~x.o.must /\ n = 0
    <2>1. MoveH(x) = x
      BY <1>1 DEF MoveH
    <2>2. Kept(x, x, {}, {"hpos", "vpos"})
      BY KeptSelf
    <2> QED
      BY <1>1, <2>1, <2>2 DEF Numbered
  <1>2. CASE ~x.o.must /\ n # 0 /\ 0 < n /\ n < x.o.hpos
    <2> DEFINE y == Put(x, <<"h", n>>)
    <2>1. MoveH(x) = y
      BY <1>2 DEF MoveH
    <2>2. Kept(x, y, {}, {"hpos", "vpos"})
          /\ y.d.hpos = x.d.hpos + n /\ y.d.vpos = x.d.vpos + 0
      BY PutRight
    <2> HIDE DEF y
    <2> QED
      BY <1>2, <2>1, <2>2 DEF Numbered
  <1>3. CASE ~(~x.o.must /\ n = 0) /\ ~(~x.o.must /\ 0 < n /\ n < x.o.hpos)
    <2> DEFINE y == Put(x, <<"H", x.o.hpos>>)
    <2>1. MoveH(x) = y
      BY <1>3 DEF MoveH
    <2>2. Kept(x, y, {}, {"hpos", "vpos"})
          /\ y.d.hpos = x.o.hpos /\ y.d.vpos = x.d.vpos
      BY PutToH
    <2> HIDE DEF y
    <2> QED
      BY <2>1, <2>2 DEF Numbered
  <1> QED
    BY <1>1, <1>2, <1>3

LEMMA MoveVKept ==
    ASSUME NEW x, IsBoth(x)
    PROVE  LET y == MoveV(x)
           IN  /\ Kept(x, y, {}, {"hpos", "vpos"})
               /\ Numbered(x) /\ (x.o.must \/ x.d.vpos = x.o.ovpos) =>
                     y.d.vpos = x.o.vpos /\ y.d.hpos = x.d.hpos
               /\ Numbered(x) => y.d.hpos \in Int /\ y.d.vpos \in Int
  <1> DEFINE n == x.o.vpos - x.o.ovpos
  <1>1. CASE ~x.o.must /\ n = 0
    <2>1. MoveV(x) = x
      BY <1>1 DEF MoveV
    <2>2. Kept(x, x, {}, {"hpos", "vpos"})
      BY KeptSelf
    <2> QED
      BY <1>1, <2>1, <2>2 DEF Numbered
  <1>2. CASE ~x.o.must /\ n # 0 /\ 0 < n /\ n < x.o.vpos
    <2> DEFINE y == Put(x, <<"v", n>>)
    <2>1. MoveV(x) = y
      BY <1>2 DEF MoveV
    <2>2. Kept(x, y, {}, {"hpos", "vpos"})
          /\ y.d.hpos = x.d.hpos + 0 /\ y.d.vpos = x.d.vpos + n
      BY PutDown
    <2> HIDE DEF y
    <2> QED
      BY <1>2, <2>1, <2>2 DEF Numbered
  <1>3. CASE ~(~x.o.must /\ n = 0) /\ ~(~x.o.must /\ 0 < n /\ n < x.o.vpos)
    <2> DEFINE y == Put(x, <<"V", x.o.vpos>>)
    <2>1. MoveV(x) = y
      BY <1>3 DEF MoveV
    <2>2. Kept(x, y, {}, {"hpos", "vpos"})
          /\ y.d.hpos = x.d.hpos /\ y.d.vpos = x.o.vpos
      BY PutToV
    <2> HIDE DEF y
    <2> QED
      BY <2>1, <2>2 DEF Numbered
  <1> QED
    BY <1>1, <1>2, <1>3

\* A motion that is sent takes the driver where the next mark goes, if it was
\* where troff believed it to be or troff knew that it did not know.
LEMMA DoMotionKept ==
    ASSUME NEW x, IsBoth(x)
    PROVE  LET y == DoMotion(x)
           IN  /\ Kept(x, y, {"ohpos", "ovpos", "must"}, {"hpos", "vpos"})
               /\ y.o.ohpos = x.o.hpos /\ y.o.ovpos = x.o.vpos /\ ~y.o.must
               /\ Numbered(x) => Numbered(y)
               /\ Numbered(x) /\ (x.o.must \/ Met(x)) => Met(y)
  <1> DEFINE w == MoveH(x)
             z == MoveV(w)
             y == [z EXCEPT !.o.ohpos = x.o.hpos, !.o.ovpos = x.o.vpos,
                            !.o.must = FALSE]
  <1>1. Kept(x, w, {}, {"hpos", "vpos"})
        /\ (Numbered(x) /\ (x.o.must \/ Met(x)) =>
              w.d.hpos = x.o.hpos /\ w.d.vpos = x.d.vpos)
        /\ (Numbered(x) => w.d.hpos \in Int /\ w.d.vpos \in Int)
    BY MoveHKept DEF Met
  <1>2. DoMotion(x) = y
    BY DEF DoMotion
  <1> HIDE DEF w
  <1>3. Kept(w, z, {}, {"hpos", "vpos"})
        /\ (Numbered(w) /\ (w.o.must \/ w.d.vpos = w.o.ovpos) =>
              z.d.vpos = w.o.vpos /\ z.d.hpos = w.d.hpos)
        /\ (Numbered(w) => z.d.hpos \in Int /\ z.d.vpos \in Int)
    BY <1>1, KeptIsBoth, MoveVKept
  <1> HIDE DEF z
  <1>4. /\ w.o.hpos = x.o.hpos /\ w.o.vpos = x.o.vpos
        /\ w.o.ohpos = x.o.ohpos /\ w.o.ovpos = x.o.ovpos
        /\ w.o.must = x.o.must
    BY <1>1 DEF Kept, OutKept, OutNames
  <1>5. Kept(x, z, {}, {"hpos", "vpos"})
    BY <1>1, <1>3 DEF Kept, OutKept, DrvKept
  <1>6. /\ Kept(x, y, {"ohpos", "ovpos", "must"}, {"hpos", "vpos"})
        /\ y.o.ohpos = x.o.hpos /\ y.o.ovpos = x.o.vpos /\ ~y.o.must
        /\ y.d = z.d /\ y.o.hpos = x.o.hpos /\ y.o.vpos = x.o.vpos
    BY <1>5 DEF Kept, OutKept, DrvKept, IsOut, OutNames
  <1> HIDE DEF y
  <1>7. Numbered(x) => Numbered(w)
    BY <1>1, <1>4 DEF Numbered
  <1>8. Numbered(x) => Numbered(y)
    BY <1>3, <1>6, <1>7 DEF Numbered
  <1>9. Numbered(x) /\ (x.o.must \/ Met(x)) => Met(y)
    BY <1>1, <1>3, <1>4, <1>6, <1>7 DEF Numbered, Met
  <1> QED
    BY <1>2, <1>6, <1>8, <1>9

-----------------------------------------------------------------------------
\* What keeps the beliefs about the looks.

LEMMA FlushGood ==
    ASSUME NEW x, Good(x)
    PROVE  Good(FlushTbuf(x)) /\ SameLooks(x, FlushTbuf(x))
  <1>1. IsBoth(x)
    BY GoodIsBoth
  <1>2. SameLooks(x, FlushTbuf(x))
    <2>1. {"tbuf"} \subseteq Positions /\ {"ink", "hpos"} \subseteq DrvPositions
      BY DEF Positions, DrvPositions
    <2> QED
      BY <1>1, <2>1, FlushTbufKept, KeptMore DEF SameLooks
  <1> QED
    BY <1>2, GoodSame

LEMMA MotionGood ==
    ASSUME NEW x, Good(x)
    PROVE  Good(DoMotion(x)) /\ SameLooks(x, DoMotion(x))
  <1>1. IsBoth(x)
    BY GoodIsBoth
  <1>2. SameLooks(x, DoMotion(x))
    <2>1. /\ {"ohpos", "ovpos", "must"} \subseteq Positions
          /\ {"hpos", "vpos"} \subseteq DrvPositions
      BY DEF Positions, DrvPositions
    <2> QED
      BY <1>1, <2>1, DoMotionKept, KeptMore DEF SameLooks
  <1> QED
    BY <1>2, GoodSame

\* A field of the output file that the looks do not depend on.
LEMMA PositionsGood ==
    ASSUME NEW x, Good(x), NEW y, NEW outs, outs \subseteq Positions,
           NEW drvs, drvs \subseteq DrvPositions, Kept(x, y, outs, drvs)
    PROVE  Good(y) /\ SameLooks(x, y)
  <1>1. SameLooks(x, y)
    BY KeptMore DEF SameLooks
  <1> QED
    BY <1>1, GoodSame

LEMMA MustUpdateKept ==
    ASSUME NEW x, IsBoth(x)
    PROVE  /\ OnlyOut(x, MustUpdate(x), {"must"}) /\ MustUpdate(x).o.must
  BY DEF MustUpdate, OnlyOut, OutKept, IsBoth, IsOut, OutNames

LEMMA MoveToKept ==
    ASSUME NEW x, IsBoth(x), NEW h, NEW v
    PROVE  /\ OnlyOut(x, MoveTo(x, h, v), {"hpos", "vpos"})
           /\ MoveTo(x, h, v).o.hpos = h /\ MoveTo(x, h, v).o.vpos = v
  BY DEF MoveTo, OnlyOut, OutKept, IsBoth, IsOut, OutNames

LEMMA RightKept ==
    ASSUME NEW x, IsBoth(x), NEW n
    PROVE  /\ OnlyOut(x, Right(x, n), {"hpos"})
           /\ Right(x, n).o.hpos = x.o.hpos + n
  BY DEF Right, OnlyOut, OutKept, IsBoth, IsOut, OutNames

LEMMA DownKept ==
    ASSUME NEW x, IsBoth(x), NEW n
    PROVE  /\ OnlyOut(x, Down(x, n), {"vpos"})
           /\ Down(x, n).o.vpos = x.o.vpos + n
  BY DEF Down, OnlyOut, OutKept, IsBoth, IsOut, OutNames

LEMMA MovesGood ==
    ASSUME NEW x, Good(x), NEW n, NEW m
    PROVE  /\ Good(Right(x, n)) /\ Good(Down(x, n)) /\ Good(MoveTo(x, n, m))
           /\ Good(MustUpdate(x))
  <1>1. IsBoth(x)
    BY GoodIsBoth
  <1>2. /\ Kept(x, Right(x, n), {"hpos"}, {})
        /\ Kept(x, Down(x, n), {"vpos"}, {})
        /\ Kept(x, MoveTo(x, n, m), {"hpos", "vpos"}, {})
        /\ Kept(x, MustUpdate(x), {"must"}, {})
    BY <1>1, RightKept, DownKept, MoveToKept, MustUpdateKept, OnlyOutKept
  <1>3. /\ {} \subseteq DrvPositions /\ {"hpos"} \subseteq Positions
        /\ {"vpos"} \subseteq Positions /\ {"hpos", "vpos"} \subseteq Positions
        /\ {"must"} \subseteq Positions
    BY DEF Positions
  <1> QED
    BY <1>2, <1>3, PositionsGood

\* A color that is sent, and one that is remembered while output has none.
LEMMA PutColors ==
    ASSUME NEW x, IsBoth(x), NEW c
    PROVE  /\ Kept(x, Put(x, <<"m", c>>), {}, {"stroke"})
           /\ Put(x, <<"m", c>>).d.stroke = c
           /\ Kept(x, Put(x, <<"DF", c>>), {}, {"fill"})
           /\ Put(x, <<"DF", c>>).d.fill = c
  <1> DEFINE stroke == <<"m", c>>
             fill == <<"DF", c>>
             e == StrokeCommand(x.d, c)
             f == FillCommand(x.d, c)
  <1>1. DrvKept(x.d, e, {"stroke"}) /\ e.stroke = c
        /\ DrvKept(x.d, f, {"fill"}) /\ f.fill = c
    BY EnvironmentKept DEF IsBoth
  <1>2. Obey(x.d, stroke) = e /\ Obey(x.d, fill) = f
    BY ObeyEnvironment
  <1> HIDE DEF stroke, fill, e, f
  <1>3. /\ Kept(x, Put(x, stroke), {}, {"stroke"}) /\ Put(x, stroke).d = e
        /\ Kept(x, Put(x, fill), {}, {"fill"}) /\ Put(x, fill).d = f
    BY <1>1, <1>2, PutKept
  <1> QED
    BY <1>1, <1>3 DEF stroke, fill

LEMMA BeforeColorGood ==
    ASSUME NEW x, IsBoth(x)
    PROVE  SameLooks(x, BeforeColor(x))
  <1>1. /\ {"tbuf"} \subseteq Positions
        /\ {"ink", "hpos"} \subseteq DrvPositions
        /\ {"ohpos", "ovpos", "must"} \subseteq Positions
        /\ {"hpos", "vpos"} \subseteq DrvPositions
    BY DEF Positions, DrvPositions
  <1>2. SameLooks(x, FlushTbuf(x)) /\ IsBoth(FlushTbuf(x))
    BY <1>1, FlushTbufKept, KeptMore, KeptIsBoth DEF SameLooks
  <1>3. SameLooks(FlushTbuf(x), DoMotion(FlushTbuf(x)))
    BY <1>1, <1>2, DoMotionKept, KeptMore DEF SameLooks
  <1> QED
    BY <1>2, <1>3, SameLooksTrans DEF BeforeColor

LEMMA StrokeGood ==
    ASSUME NEW x, Good(x), NEW c
    PROVE  Good(StrokeColor(x, c))
  <1> DEFINE y == [x EXCEPT !.o.stroke = c]
             z == BeforeColor(y)
             w == Put(z, <<"m", c>>)
  <1>0. IsBoth(x)
    BY GoodIsBoth
  <1>1. Kept(x, y, {"stroke"}, {}) /\ y.o.stroke = c
    BY <1>0 DEF Kept, OutKept, DrvKept, IsBoth, IsOut, OutNames
  <1> HIDE DEF y
  <1>2. CASE c \in {NoColor, x.o.stroke}
    BY <1>2 DEF StrokeColor
  <1>3. CASE c \notin {NoColor, x.o.stroke} /\ ~x.o.color
    <2>1. Good(y)
      <3>1. IsBoth(y)
        BY <1>1, KeptIsBoth
      <3>2. /\ y.o.tfont = x.o.tfont /\ y.o.fontno = x.o.fontno
            /\ y.o.size = x.o.size /\ y.o.slant = x.o.slant
            /\ y.o.height = x.o.height /\ y.o.mounted = x.o.mounted
            /\ ~y.o.color
        BY <1>1, <1>3 DEF Kept, OutKept, OutNames
      <3>3. /\ y.d.fontno = x.d.fontno /\ y.d.table = x.d.table
            /\ y.d.size = x.d.size /\ y.d.height = x.d.height
            /\ y.d.slant = x.d.slant
        BY <1>1 DEF Kept, DrvKept, DrvNames
      <3> QED
        BY <3>1, <3>2, <3>3 DEF Good, Looks, Mounts, Colored, Selects
    <2>2. StrokeColor(x, c) = y
      BY <1>3 DEF StrokeColor, y
    <2> QED
      BY <2>1, <2>2
  <1>4. CASE c \notin {NoColor, x.o.stroke} /\ x.o.color
    <2>1. SameLooks(y, z) /\ IsBoth(z)
      BY <1>1, KeptIsBoth, BeforeColorGood, SameIsBoth
    <2> HIDE DEF z
    <2>2. Kept(z, w, {}, {"stroke"}) /\ w.d.stroke = c
      BY <2>1, PutColors
    <2> HIDE DEF w
    <2>3. IsBoth(w)
      BY <2>2, KeptIsBoth
    <2>4. /\ w.o.tfont = x.o.tfont /\ w.o.fontno = x.o.fontno
          /\ w.o.size = x.o.size /\ w.o.slant = x.o.slant
          /\ w.o.height = x.o.height /\ w.o.mounted = x.o.mounted
          /\ w.o.color = x.o.color /\ w.o.fill = x.o.fill
          /\ w.o.stroke = c
      BY <1>1, <2>1, <2>2
      DEF SameLooks, Kept, OutKept, OutNames, Positions
    <2>5. /\ w.d.fontno = x.d.fontno /\ w.d.table = x.d.table
          /\ w.d.size = x.d.size /\ w.d.height = x.d.height
          /\ w.d.slant = x.d.slant /\ w.d.fill = x.d.fill
      BY <1>1, <2>1, <2>2
      DEF SameLooks, Kept, DrvKept, DrvNames, DrvPositions
    <2>6. Good(w)
      BY <2>2, <2>3, <2>4, <2>5 DEF Good, Looks, Mounts, Colored, Selects
    <2>7. StrokeColor(x, c) = w
      BY <1>4 DEF StrokeColor, w, z, y
    <2> QED
      BY <2>6, <2>7
  <1> QED
    BY <1>2, <1>3, <1>4

LEMMA FillGood ==
    ASSUME NEW x, Good(x), NEW c
    PROVE  Good(FillColor(x, c))
  <1> DEFINE y == [x EXCEPT !.o.fill = c]
             z == BeforeColor(y)
             w == Put(z, <<"DF", c>>)
  <1>0. IsBoth(x)
    BY GoodIsBoth
  <1>1. Kept(x, y, {"fill"}, {}) /\ y.o.fill = c
    BY <1>0 DEF Kept, OutKept, DrvKept, IsBoth, IsOut, OutNames
  <1> HIDE DEF y
  <1>2. CASE c \in {NoColor, x.o.fill}
    BY <1>2 DEF FillColor
  <1>3. CASE c \notin {NoColor, x.o.fill} /\ ~x.o.color
    <2>1. Good(y)
      <3>1. IsBoth(y)
        BY <1>1, KeptIsBoth
      <3>2. /\ y.o.tfont = x.o.tfont /\ y.o.fontno = x.o.fontno
            /\ y.o.size = x.o.size /\ y.o.slant = x.o.slant
            /\ y.o.height = x.o.height /\ y.o.mounted = x.o.mounted
            /\ ~y.o.color
        BY <1>1, <1>3 DEF Kept, OutKept, OutNames
      <3>3. /\ y.d.fontno = x.d.fontno /\ y.d.table = x.d.table
            /\ y.d.size = x.d.size /\ y.d.height = x.d.height
            /\ y.d.slant = x.d.slant
        BY <1>1 DEF Kept, DrvKept, DrvNames
      <3> QED
        BY <3>1, <3>2, <3>3 DEF Good, Looks, Mounts, Colored, Selects
    <2>2. FillColor(x, c) = y
      BY <1>3 DEF FillColor, y
    <2> QED
      BY <2>1, <2>2
  <1>4. CASE c \notin {NoColor, x.o.fill} /\ x.o.color
    <2>1. SameLooks(y, z) /\ IsBoth(z)
      BY <1>1, KeptIsBoth, BeforeColorGood, SameIsBoth
    <2> HIDE DEF z
    <2>2. Kept(z, w, {}, {"fill"}) /\ w.d.fill = c
      BY <2>1, PutColors
    <2> HIDE DEF w
    <2>3. IsBoth(w)
      BY <2>2, KeptIsBoth
    <2>4. /\ w.o.tfont = x.o.tfont /\ w.o.fontno = x.o.fontno
          /\ w.o.size = x.o.size /\ w.o.slant = x.o.slant
          /\ w.o.height = x.o.height /\ w.o.mounted = x.o.mounted
          /\ w.o.color = x.o.color /\ w.o.stroke = x.o.stroke
          /\ w.o.fill = c
      BY <1>1, <2>1, <2>2
      DEF SameLooks, Kept, OutKept, OutNames, Positions
    <2>5. /\ w.d.fontno = x.d.fontno /\ w.d.table = x.d.table
          /\ w.d.size = x.d.size /\ w.d.height = x.d.height
          /\ w.d.slant = x.d.slant /\ w.d.stroke = x.d.stroke
      BY <1>1, <2>1, <2>2
      DEF SameLooks, Kept, DrvKept, DrvNames, DrvPositions
    <2>6. Good(w)
      BY <2>2, <2>3, <2>4, <2>5 DEF Good, Looks, Mounts, Colored, Selects
    <2>7. FillColor(x, c) = w
      BY <1>4 DEF FillColor, w, z, y
    <2> QED
      BY <2>6, <2>7
  <1> QED
    BY <1>2, <1>3, <1>4

-----------------------------------------------------------------------------
\* What is believed of the buffer and of where the driver is.

\* The fields are what they should be.
Typed(x) ==
    /\ Numbered(x) /\ x.o.kern \in Int
    /\ x.o.tbuf \in Seq(Glyphs) /\ IsSeq(x.d.ink)

Clear(x) == x.o.tbuf = <<>>

FontSet(d) ==
    /\ d.fontno \in FontPositions /\ d.table[d.fontno] \in Fonts
    /\ d.size \in Sizes

\* While a word is in the buffer, output is on, the driver is not lost and has
\* a font.
Fitting(x) ==
    /\ Len(x.o.tbuf) <= TbufSize
    /\ x.o.tbuf # <<>> =>
          x.o.on /\ ~x.o.must /\ x.o.tcommand /\ FontSet(x.d)

\* Where the driver will be once the buffer is flushed.
End(x) == <<WordEnd(x.d, x.o.kern, x.o.tbuf), x.d.vpos>>

\* Whether troff means to know where the driver is, in documents that draw
\* filled ellipses or draw while output is off only some of the time.
Knows(x) ==
    /\ ~x.o.must /\ "ellipse" \notin Extras
    /\ x.o.on \/ "drawing off" \notin Extras

Believed(x) == Knows(x) => End(x) = <<x.o.ohpos, x.o.ovpos>>

Rest(x) == Typed(x) /\ Fitting(x) /\ Believed(x)
Sound(x) == Good(x) /\ Rest(x)

\* The marks that are made and those that wait in the buffer.
Ink(x) == FlushTbuf(x).d.ink

LEMMA SoundIsBoth == ASSUME NEW x, Sound(x) PROVE IsBoth(x)
  BY GoodIsBoth DEF Sound

LEMMA ClearInk ==
    ASSUME NEW x, IsBoth(x), Clear(x)
    PROVE  Ink(x) = x.d.ink /\ End(x) = <<x.d.hpos, x.d.vpos>>
  <1>1. Ink(x) = x.d.ink
    BY FlushTbufKept DEF Ink, Clear
  <1>2. End(x) = <<x.d.hpos, x.d.vpos>>
    BY WordEndEmpty DEF End, Clear
  <1> QED
    BY <1>1, <1>2

LEMMA WordInk ==
    ASSUME NEW x, IsBoth(x), Fitting(x), ~Clear(x)
    PROVE  Ink(x) = Written(x.d, x.o.kern, x.o.tbuf)
  <1> DEFINE e == SetWord(x.d, x.o.kern, x.o.tbuf)
  <1>1. Ink(x) = e.ink
    BY FlushTbufKept DEF Ink, Clear, Fitting
  <1>2. Mounted(x.d)
    BY OutputFileAssumption
    DEF Fitting, Clear, FontSet, Mounted, IsBoth, IsDriver
  <1>3. IsDriver(x.d)
    BY DEF IsBoth
  <1>4. e.ink = Written(x.d, x.o.kern, x.o.tbuf)
    BY <1>2, <1>3, WordSet
  <1> QED
    BY <1>1, <1>4

LEMMA SameWord ==
    ASSUME NEW x, IsBoth(x), NEW y, IsBoth(y), y.d = x.d,
           y.o.on = x.o.on, y.o.kern = x.o.kern, y.o.tbuf = x.o.tbuf
    PROVE  Ink(y) = Ink(x) /\ End(y) = End(x)
  <1>1. FlushTbuf(x).d = IF x.o.on /\ x.o.tbuf # <<>>
                         THEN SetWord(x.d, x.o.kern, x.o.tbuf) ELSE x.d
    BY FlushTbufKept
  <1>2. FlushTbuf(y).d = IF y.o.on /\ y.o.tbuf # <<>>
                         THEN SetWord(y.d, y.o.kern, y.o.tbuf) ELSE y.d
    BY FlushTbufKept
  <1> QED
    BY <1>1, <1>2 DEF Ink, End

LEMMA FlushRest ==
    ASSUME NEW x, IsBoth(x), Rest(x)
    PROVE  LET y == FlushTbuf(x)
           IN  /\ IsBoth(y) /\ Rest(y) /\ Clear(y)
               /\ y.d.ink = Ink(x) /\ Ink(y) = Ink(x)
  <1> DEFINE y == FlushTbuf(x)
  <1>2. /\ Kept(x, y, {"tbuf"}, {"ink", "hpos"}) /\ y.o.tbuf = <<>>
        /\ y.d = IF x.o.on /\ x.o.tbuf # <<>>
                 THEN SetWord(x.d, x.o.kern, x.o.tbuf) ELSE x.d
    BY FlushTbufKept
  <1>4. y.d.ink = Ink(x)
    BY DEF Ink
  <1> HIDE DEF y
  <1>5. IsBoth(y) /\ Clear(y)
    BY <1>2, KeptIsBoth DEF Clear
  <1>6. Ink(y) = Ink(x)
    BY <1>4, <1>5, ClearInk
  <1>7. /\ y.o.hpos = x.o.hpos /\ y.o.vpos = x.o.vpos
        /\ y.o.ohpos = x.o.ohpos /\ y.o.ovpos = x.o.ovpos
        /\ y.o.kern = x.o.kern /\ y.o.must = x.o.must /\ y.o.on = x.o.on
        /\ y.d.vpos = x.d.vpos
    BY <1>2 DEF Kept, OutKept, DrvKept, OutNames, DrvNames
  <1>8. End(y) = End(x) /\ IsSeq(y.d.ink) /\ y.d.hpos \in Int
    <2>1. CASE Clear(x)
      BY <1>2, <1>5, <2>1, ClearInk DEF Rest, Typed, Numbered, Clear
    <2>2. CASE ~Clear(x)
      <3>1. y.d = SetWord(x.d, x.o.kern, x.o.tbuf)
        BY <1>2, <2>2 DEF Rest, Fitting, Clear
      <3>2. FontSet(x.d) /\ Mounted(x.d)
        BY <2>2, OutputFileAssumption
        DEF Rest, Fitting, Clear, FontSet, Mounted, IsBoth, IsDriver
      <3>3. /\ y.d.ink = Written(x.d, x.o.kern, x.o.tbuf)
            /\ y.d.hpos = WordEnd(x.d, x.o.kern, x.o.tbuf)
        <4>1. IsDriver(x.d)
          BY DEF IsBoth
        <4> QED
          BY <3>1, <3>2, <4>1, WordSet
      <3>4. End(y) = End(x)
        BY <1>5, <1>7, <3>3, ClearInk DEF End
      <3>5. x.o.tbuf \in Seq(Glyphs) /\ x.o.kern \in Int /\ IsSeq(x.d.ink)
            /\ x.d.hpos \in Int
        BY DEF Rest, Typed, Numbered
      <3>6. IsSeq(y.d.ink)
        BY <3>3, <3>5, WordMarksSeq, SeqConcat DEF Written
      <3>7. y.d.hpos \in Int
        <4>1. Len(x.o.tbuf) \in 0..Len(x.o.tbuf)
          BY <3>5
        <4>2. /\ x.d.hpos \in Int /\ x.d.table[x.d.fontno] \in Fonts
              /\ x.d.size \in Sizes
          BY <3>2, <3>5 DEF FontSet
        <4>3. Advances(x.d, x.o.kern, x.o.tbuf)[Len(x.o.tbuf)] \in Int
          BY <3>5, <4>1, <4>2, AdvancesInt
        <4> QED
          BY <3>3, <4>3 DEF WordEnd
      <3> QED
        BY <3>4, <3>6, <3>7
    <2> QED
      BY <2>1, <2>2
  <1>9. Typed(y)
    <2>1. y.o.tbuf \in Seq(Glyphs)
      BY <1>2
    <2> QED
      BY <1>7, <1>8, <2>1 DEF Rest, Typed, Numbered
  <1>10. Fitting(y)
    <2>1. Len(<<>>) <= TbufSize
      BY OutputFileAssumption
    <2> QED
      BY <1>2, <2>1 DEF Fitting
  <1>11. Believed(y)
    BY <1>7, <1>8 DEF Rest, Believed, Knows
  <1> QED
    BY <1>4, <1>5, <1>6, <1>9, <1>10, <1>11 DEF Rest, y

LEMMA FlushSound ==
    ASSUME NEW x, Sound(x)
    PROVE  LET y == FlushTbuf(x)
           IN  /\ Sound(y) /\ Clear(y)
               /\ y.d.ink = Ink(x) /\ Ink(y) = Ink(x)
  BY SoundIsBoth, FlushGood, FlushRest DEF Sound

\* Pairs that differ in the looks only, while the buffer is empty.
OutLooks == {"tfont", "fontno", "size", "slant", "height", "stroke", "fill",
             "mounted", "color", "begun", "selected"}
DrvLooks == {"fontno", "size", "height", "slant", "stroke", "fill", "table"}

LEMMA RestKept ==
    ASSUME NEW x, IsBoth(x), Clear(x), Rest(x), NEW y,
           NEW outs, outs \subseteq OutLooks,
           NEW drvs, drvs \subseteq DrvLooks, Kept(x, y, outs, drvs)
    PROVE  Rest(y) /\ Clear(y) /\ y.d.ink = x.d.ink /\ Ink(y) = Ink(x)
  <1>1. IsBoth(y)
    BY KeptIsBoth
  <1>2. /\ y.o.hpos = x.o.hpos /\ y.o.vpos = x.o.vpos
        /\ y.o.ohpos = x.o.ohpos /\ y.o.ovpos = x.o.ovpos
        /\ y.o.kern = x.o.kern /\ y.o.must = x.o.must /\ y.o.on = x.o.on
        /\ y.o.tbuf = x.o.tbuf
    BY DEF Kept, OutKept, OutNames, OutLooks
  <1>3. y.d.hpos = x.d.hpos /\ y.d.vpos = x.d.vpos /\ y.d.ink = x.d.ink
    BY DEF Kept, DrvKept, DrvNames, DrvLooks
  <1>4. Clear(y)
    BY <1>2 DEF Clear
  <1>5. Ink(y) = Ink(x) /\ End(y) = End(x)
    BY <1>1, <1>3, <1>4, ClearInk
  <1>6. Typed(y)
    BY <1>2, <1>3 DEF Rest, Typed, Numbered
  <1>7. Fitting(y)
    BY <1>2 DEF Rest, Fitting, Clear
  <1>8. Believed(y)
    BY <1>2, <1>5 DEF Rest, Believed, Knows
  <1> QED
    BY <1>3, <1>4, <1>5, <1>6, <1>7, <1>8 DEF Rest

\* The next position is nothing the driver knows of.
LEMMA OutOnlySound ==
    ASSUME NEW x, Sound(x), NEW y, NEW outs, OnlyOut(x, y, outs),
           outs \subseteq {"hpos", "vpos", "begun", "selected"},
           y.o.hpos \in Int, y.o.vpos \in Int
    PROVE  Sound(y) /\ Ink(y) = Ink(x) /\ End(y) = End(x)
  <1>1. IsBoth(x) /\ IsBoth(y) /\ Kept(x, y, outs, {}) /\ y.d = x.d
    BY SoundIsBoth, OnlyOutKept DEF OnlyOut
  <1>2. Good(y)
    <2>1. SameLooks(x, y)
      BY <1>1 DEF SameLooks, Kept, OutKept, DrvKept, Positions
    <2> QED
      BY <2>1, GoodSame DEF Sound
  <1>3. /\ y.o.ohpos = x.o.ohpos /\ y.o.ovpos = x.o.ovpos
        /\ y.o.kern = x.o.kern /\ y.o.must = x.o.must /\ y.o.on = x.o.on
        /\ y.o.tbuf = x.o.tbuf /\ y.o.tcommand = x.o.tcommand
    BY DEF OnlyOut, OutKept, OutNames
  <1>4. Ink(y) = Ink(x) /\ End(y) = End(x)
    BY <1>1, <1>3, SameWord
  <1>5. Typed(y)
    BY <1>1, <1>3 DEF Sound, Rest, Typed, Numbered
  <1>6. Fitting(y)
    BY <1>1, <1>3 DEF Sound, Rest, Fitting
  <1>7. Believed(y)
    BY <1>3, <1>4 DEF Sound, Rest, Believed, Knows
  <1> QED
    BY <1>2, <1>4, <1>5, <1>6, <1>7 DEF Sound, Rest

LEMMA RightSound ==
    ASSUME NEW x, Sound(x), NEW n \in Int
    PROVE  LET y == Right(x, n)
           IN  /\ Sound(y) /\ Ink(y) = Ink(x) /\ End(y) = End(x)
               /\ OnlyOut(x, y, {"hpos"}) /\ y.o.hpos = x.o.hpos + n
  <1> DEFINE y == Right(x, n)
  <1>1. OnlyOut(x, y, {"hpos"}) /\ y.o.hpos = x.o.hpos + n
    BY SoundIsBoth, RightKept
  <1> HIDE DEF y
  <1>2. y.o.vpos = x.o.vpos /\ x.o.hpos \in Int /\ x.o.vpos \in Int
    BY <1>1 DEF OnlyOut, OutKept, OutNames, Sound, Rest, Typed, Numbered
  <1>3. Sound(y) /\ Ink(y) = Ink(x) /\ End(y) = End(x)
    BY <1>1, <1>2, OutOnlySound
  <1> QED
    BY <1>1, <1>3 DEF y

LEMMA DownSound ==
    ASSUME NEW x, Sound(x), NEW n \in Int
    PROVE  LET y == Down(x, n)
           IN  /\ Sound(y) /\ Ink(y) = Ink(x) /\ End(y) = End(x)
               /\ OnlyOut(x, y, {"vpos"}) /\ y.o.vpos = x.o.vpos + n
  <1> DEFINE y == Down(x, n)
  <1>1. OnlyOut(x, y, {"vpos"}) /\ y.o.vpos = x.o.vpos + n
    BY SoundIsBoth, DownKept
  <1> HIDE DEF y
  <1>2. y.o.hpos = x.o.hpos /\ x.o.hpos \in Int /\ x.o.vpos \in Int
    BY <1>1 DEF OnlyOut, OutKept, OutNames, Sound, Rest, Typed, Numbered
  <1>3. Sound(y) /\ Ink(y) = Ink(x) /\ End(y) = End(x)
    BY <1>1, <1>2, OutOnlySound
  <1> QED
    BY <1>1, <1>3 DEF y

LEMMA MoveToSound ==
    ASSUME NEW x, Sound(x), NEW h \in Int, NEW v \in Int
    PROVE  LET y == MoveTo(x, h, v)
           IN  /\ Sound(y) /\ Ink(y) = Ink(x)
               /\ OnlyOut(x, y, {"hpos", "vpos"})
               /\ y.o.hpos = h /\ y.o.vpos = v
  <1> DEFINE y == MoveTo(x, h, v)
  <1>1. OnlyOut(x, y, {"hpos", "vpos"}) /\ y.o.hpos = h /\ y.o.vpos = v
    BY SoundIsBoth, MoveToKept
  <1> HIDE DEF y
  <1>2. Sound(y) /\ Ink(y) = Ink(x)
    BY <1>1, OutOnlySound
  <1> QED
    BY <1>1, <1>2 DEF y

\* The driver is lost until the next motion.
LEMMA MustUpdateSound ==
    ASSUME NEW x, Sound(x), Clear(x)
    PROVE  LET y == MustUpdate(x)
           IN  /\ Sound(y) /\ Clear(y) /\ y.d = x.d /\ Ink(y) = Ink(x)
               /\ OnlyOut(x, y, {"must"}) /\ y.o.must
  <1> DEFINE y == MustUpdate(x)
  <1>1. OnlyOut(x, y, {"must"}) /\ y.o.must
    BY SoundIsBoth, MustUpdateKept
  <1>2. Good(y)
    BY MovesGood DEF Sound
  <1> HIDE DEF y
  <1>3. /\ y.o.ohpos = x.o.ohpos /\ y.o.ovpos = x.o.ovpos
        /\ y.o.hpos = x.o.hpos /\ y.o.vpos = x.o.vpos
        /\ y.o.kern = x.o.kern /\ y.o.tbuf = x.o.tbuf /\ y.d = x.d
    BY <1>1 DEF OnlyOut, OutKept, OutNames
  <1>4. Clear(y)
    BY <1>3 DEF Clear
  <1>5. Ink(y) = Ink(x)
    BY <1>2, <1>3, <1>4, SoundIsBoth, GoodIsBoth, ClearInk
  <1>6. Typed(y) /\ Fitting(y) /\ Believed(y)
    BY <1>1, <1>3 DEF Sound, Rest, Typed, Numbered, Fitting, Believed, Knows,
                      Clear
  <1> QED
    BY <1>1, <1>2, <1>3, <1>4, <1>5, <1>6 DEF Sound, Rest, y

\* After a motion the driver is where the next mark goes.
LEMMA MotionRest ==
    ASSUME NEW x, IsBoth(x), Rest(x), Clear(x)
    PROVE  LET y == DoMotion(x)
           IN  /\ IsBoth(y) /\ Rest(y) /\ Clear(y)
               /\ y.d.ink = x.d.ink /\ Ink(y) = Ink(x)
               /\ Kept(x, y, {"ohpos", "ovpos", "must"}, {"hpos", "vpos"})
               /\ y.o.ohpos = x.o.hpos /\ y.o.ovpos = x.o.vpos /\ ~y.o.must
               /\ x.o.must \/ Knows(y) => Met(y)
  <1> DEFINE y == DoMotion(x)
  <1>2. /\ Kept(x, y, {"ohpos", "ovpos", "must"}, {"hpos", "vpos"})
        /\ y.o.ohpos = x.o.hpos /\ y.o.ovpos = x.o.vpos /\ ~y.o.must
        /\ Numbered(x) => Numbered(y)
        /\ Numbered(x) /\ (x.o.must \/ Met(x)) => Met(y)
    BY DoMotionKept
  <1> HIDE DEF y
  <1>4. /\ y.o.kern = x.o.kern /\ y.o.tbuf = x.o.tbuf /\ y.o.on = x.o.on
        /\ y.d.ink = x.d.ink
    BY <1>2 DEF Kept, OutKept, OutNames, DrvKept, DrvNames
  <1>5. Clear(y) /\ IsBoth(y)
    BY <1>2, <1>4, KeptIsBoth DEF Clear
  <1>6. Ink(y) = Ink(x) /\ End(y) = <<y.d.hpos, y.d.vpos>>
        /\ End(x) = <<x.d.hpos, x.d.vpos>>
    BY <1>4, <1>5, ClearInk
  <1>7. Numbered(x)
    BY DEF Rest, Typed
  <1>8. x.o.must \/ Knows(y) => Met(y)
    <2>1. ~x.o.must /\ Knows(y) => Knows(x)
      BY <1>4 DEF Knows
    <2>2. Knows(x) => Met(x)
      BY <1>6 DEF Rest, Believed, Met
    <2> QED
      BY <1>2, <1>7, <2>1, <2>2
  <1>9. Typed(y)
    BY <1>2, <1>4, <1>7 DEF Rest, Typed
  <1>10. Fitting(y)
    BY <1>4 DEF Rest, Fitting, Clear
  <1>11. Believed(y)
    BY <1>6, <1>8 DEF Believed, Met
  <1> QED
    BY <1>2, <1>4, <1>5, <1>6, <1>8, <1>9, <1>10, <1>11
    DEF Rest, y

LEMMA MotionSound ==
    ASSUME NEW x, Sound(x), Clear(x)
    PROVE  LET y == DoMotion(x)
           IN  /\ Sound(y) /\ Clear(y)
               /\ y.d.ink = x.d.ink /\ Ink(y) = Ink(x)
               /\ Kept(x, y, {"ohpos", "ovpos", "must"}, {"hpos", "vpos"})
               /\ y.o.ohpos = x.o.hpos /\ y.o.ovpos = x.o.vpos /\ ~y.o.must
               /\ x.o.must \/ Knows(y) => Met(y)
  BY SoundIsBoth, MotionGood, MotionRest DEF Sound

LEMMA RestSame ==
    ASSUME NEW x, IsBoth(x), Rest(x), NEW y, NEW outs, outs \subseteq OutLooks,
           OnlyOut(x, y, outs)
    PROVE  Rest(y) /\ Ink(y) = Ink(x)
  <1>1. IsBoth(y) /\ y.d = x.d
    BY OnlyOutKept DEF OnlyOut
  <1>2. /\ y.o.hpos = x.o.hpos /\ y.o.vpos = x.o.vpos
        /\ y.o.ohpos = x.o.ohpos /\ y.o.ovpos = x.o.ovpos
        /\ y.o.kern = x.o.kern /\ y.o.must = x.o.must /\ y.o.on = x.o.on
        /\ y.o.tbuf = x.o.tbuf /\ y.o.tcommand = x.o.tcommand
    BY DEF OnlyOut, OutKept, OutNames, OutLooks
  <1>3. Ink(y) = Ink(x) /\ End(y) = End(x)
    BY <1>1, <1>2, SameWord
  <1>4. Typed(y) /\ Fitting(y) /\ Believed(y)
    BY <1>1, <1>2, <1>3
    DEF Rest, Typed, Numbered, Fitting, Believed, Knows
  <1> QED
    BY <1>3, <1>4 DEF Rest

\* The positions that troff has told the driver and the buffer.
Sent == {"tbuf", "ohpos", "ovpos", "must"}

LEMMA BeforeColorRest ==
    ASSUME NEW x, IsBoth(x), Rest(x)
    PROVE  LET y == BeforeColor(x)
           IN  /\ IsBoth(y) /\ Rest(y) /\ Clear(y) /\ Ink(y) = Ink(x)
               /\ Kept(x, y, Sent, DrvPositions)
  <1> DEFINE w == FlushTbuf(x)
             z == DoMotion(w)
  <1>1. /\ IsBoth(w) /\ Rest(w) /\ Clear(w) /\ Ink(w) = Ink(x)
        /\ Kept(x, w, {"tbuf"}, {"ink", "hpos"})
    BY FlushRest, FlushTbufKept
  <1>2. BeforeColor(x) = w \/ BeforeColor(x) = z
    BY DEF BeforeColor
  <1> HIDE DEF w
  <1>3. /\ IsBoth(z) /\ Rest(z) /\ Clear(z) /\ Ink(z) = Ink(w)
        /\ Kept(w, z, {"ohpos", "ovpos", "must"}, {"hpos", "vpos"})
    BY <1>1, MotionRest
  <1> HIDE DEF z
  <1>4. Kept(x, w, Sent, DrvPositions) /\ Kept(x, z, Sent, DrvPositions)
    BY <1>1, <1>3 DEF Kept, OutKept, DrvKept, Sent, DrvPositions
  <1> QED
    BY <1>1, <1>2, <1>3, <1>4

\* A color reaches the driver after the buffer, so that the characters in it
\* keep theirs.
LEMMA StrokeSound ==
    ASSUME NEW x, Sound(x), NEW c
    PROVE  LET y == StrokeColor(x, c)
           IN  /\ Sound(y) /\ Ink(y) = Ink(x) /\ (Clear(x) => Clear(y))
               /\ Kept(x, y, Sent \cup {"stroke"}, DrvPositions \cup {"stroke"})
               /\ c # NoColor => y.o.stroke = c
               /\ ~x.o.color => y.d.stroke = x.d.stroke
  <1> DEFINE y == [x EXCEPT !.o.stroke = c]
             z == BeforeColor(y)
             w == Put(z, <<"m", c>>)
             r == StrokeColor(x, c)
             outs == Sent \cup {"stroke"}
             drvs == DrvPositions \cup {"stroke"}
  <1>0. Good(r)
    BY StrokeGood DEF Sound
  <1>1. IsBoth(x) /\ Rest(x)
    BY SoundIsBoth DEF Sound
  <1>2. OnlyOut(x, y, {"stroke"}) /\ y.o.stroke = c
    BY <1>1 DEF OnlyOut, OutKept, IsBoth, IsOut, OutNames
  <1>3. r = IF c \in {NoColor, x.o.stroke} THEN x
            ELSE IF ~x.o.color THEN y ELSE w
    BY DEF StrokeColor
  <1> HIDE DEF r, y
  <1>4. IsBoth(y) /\ Rest(y) /\ Ink(y) = Ink(x) /\ y.d = x.d
        /\ Kept(x, y, {"stroke"}, {})
    <2>1. {"stroke"} \subseteq OutLooks
      BY DEF OutLooks
    <2> QED
      BY <1>1, <1>2, <2>1, OnlyOutKept, RestSame DEF OnlyOut
  <1>5. /\ IsBoth(z) /\ Rest(z) /\ Clear(z) /\ Ink(z) = Ink(y)
        /\ Kept(y, z, Sent, DrvPositions)
    BY <1>4, BeforeColorRest
  <1> HIDE DEF z
  <1>6. Kept(z, w, {}, {"stroke"})
    BY <1>5, PutColors
  <1> HIDE DEF w
  <1>7. Rest(w) /\ Clear(w) /\ Ink(w) = Ink(z)
    <2>1. {"stroke"} \subseteq DrvLooks /\ {} \subseteq OutLooks
      BY DEF DrvLooks
    <2>2. Kept(z, w, OutLooks, {"stroke"})
      BY <1>6 DEF Kept, OutKept
    <2> QED
      BY <1>5, <2>1, <2>2, RestKept
  <1>8. CASE c \in {NoColor, x.o.stroke}
    <2>1. Kept(x, x, outs, drvs)
      BY <1>1, KeptSelf
    <2> QED
      BY <1>0, <1>1, <1>3, <1>8, <2>1 DEF Sound, r
  <1>9. CASE c \notin {NoColor, x.o.stroke} /\ ~x.o.color
    <2>1. Kept(x, y, outs, drvs)
      BY <1>4 DEF Kept, OutKept, DrvKept
    <2>2. y.o.tbuf = x.o.tbuf
      BY <1>2 DEF OnlyOut, OutKept, OutNames
    <2>3. r = y
      BY <1>3, <1>9
    <2> QED
      BY <1>0, <1>2, <1>4, <2>1, <2>2, <2>3 DEF Sound, Clear, r
  <1>10. CASE c \notin {NoColor, x.o.stroke} /\ x.o.color
    <2>1. Kept(x, w, outs, drvs)
      BY <1>4, <1>5, <1>6 DEF Kept, OutKept, DrvKept
    <2>2. w.o.stroke = c
      BY <1>2, <1>5, <1>6 DEF Kept, OutKept, OutNames, Sent
    <2>3. r = w
      BY <1>3, <1>10
    <2> QED
      BY <1>0, <1>4, <1>5, <1>7, <1>10, <2>1, <2>2, <2>3 DEF Sound, r
  <1> QED
    BY <1>8, <1>9, <1>10

LEMMA FillSound ==
    ASSUME NEW x, Sound(x), NEW c
    PROVE  LET y == FillColor(x, c)
           IN  /\ Sound(y) /\ Ink(y) = Ink(x) /\ (Clear(x) => Clear(y))
               /\ Kept(x, y, Sent \cup {"fill"}, DrvPositions \cup {"fill"})
               /\ c # NoColor => y.o.fill = c
               /\ ~x.o.color => y.d.fill = x.d.fill
  <1> DEFINE y == [x EXCEPT !.o.fill = c]
             z == BeforeColor(y)
             w == Put(z, <<"DF", c>>)
             r == FillColor(x, c)
             outs == Sent \cup {"fill"}
             drvs == DrvPositions \cup {"fill"}
  <1>0. Good(r)
    BY FillGood DEF Sound
  <1>1. IsBoth(x) /\ Rest(x)
    BY SoundIsBoth DEF Sound
  <1>2. OnlyOut(x, y, {"fill"}) /\ y.o.fill = c
    BY <1>1 DEF OnlyOut, OutKept, IsBoth, IsOut, OutNames
  <1>3. r = IF c \in {NoColor, x.o.fill} THEN x
            ELSE IF ~x.o.color THEN y ELSE w
    BY DEF FillColor
  <1> HIDE DEF r, y
  <1>4. IsBoth(y) /\ Rest(y) /\ Ink(y) = Ink(x) /\ y.d = x.d
        /\ Kept(x, y, {"fill"}, {})
    <2>1. {"fill"} \subseteq OutLooks
      BY DEF OutLooks
    <2> QED
      BY <1>1, <1>2, <2>1, OnlyOutKept, RestSame DEF OnlyOut
  <1>5. /\ IsBoth(z) /\ Rest(z) /\ Clear(z) /\ Ink(z) = Ink(y)
        /\ Kept(y, z, Sent, DrvPositions)
    BY <1>4, BeforeColorRest
  <1> HIDE DEF z
  <1>6. Kept(z, w, {}, {"fill"})
    BY <1>5, PutColors
  <1> HIDE DEF w
  <1>7. Rest(w) /\ Clear(w) /\ Ink(w) = Ink(z)
    <2>1. {"fill"} \subseteq DrvLooks /\ {} \subseteq OutLooks
      BY DEF DrvLooks
    <2>2. Kept(z, w, OutLooks, {"fill"})
      BY <1>6 DEF Kept, OutKept
    <2> QED
      BY <1>5, <2>1, <2>2, RestKept
  <1>8. CASE c \in {NoColor, x.o.fill}
    <2>1. Kept(x, x, outs, drvs)
      BY <1>1, KeptSelf
    <2> QED
      BY <1>0, <1>1, <1>3, <1>8, <2>1 DEF Sound, r
  <1>9. CASE c \notin {NoColor, x.o.fill} /\ ~x.o.color
    <2>1. Kept(x, y, outs, drvs)
      BY <1>4 DEF Kept, OutKept, DrvKept
    <2>2. y.o.tbuf = x.o.tbuf
      BY <1>2 DEF OnlyOut, OutKept, OutNames
    <2>3. r = y
      BY <1>3, <1>9
    <2> QED
      BY <1>0, <1>2, <1>4, <2>1, <2>2, <2>3 DEF Sound, Clear, r
  <1>10. CASE c \notin {NoColor, x.o.fill} /\ x.o.color
    <2>1. Kept(x, w, outs, drvs)
      BY <1>4, <1>5, <1>6 DEF Kept, OutKept, DrvKept
    <2>2. w.o.fill = c
      BY <1>2, <1>5, <1>6 DEF Kept, OutKept, OutNames, Sent
    <2>3. r = w
      BY <1>3, <1>10
    <2> QED
      BY <1>0, <1>4, <1>5, <1>7, <1>10, <2>1, <2>2, <2>3 DEF Sound, r
  <1> QED
    BY <1>8, <1>9, <1>10

\* What setting colors may change.
ColorOuts == Sent \cup {"stroke", "fill"}
ColorDrvs == DrvPositions \cup {"stroke", "fill"}

\* The color a mark gets: that of its node while there is color output,
\* otherwise whatever the driver has.
StrokeFor(x, c) == IF x.o.color THEN c ELSE x.d.stroke
FillFor(x, c) == IF x.o.color THEN c ELSE x.d.fill

LEMMA ColorsSound ==
    ASSUME NEW x, Sound(x), NEW sc, NEW fc
    PROVE  LET y == SetColors(x, sc, fc)
           IN  /\ Sound(y) /\ Ink(y) = Ink(x) /\ (Clear(x) => Clear(y))
               /\ Kept(x, y, ColorOuts, ColorDrvs)
               /\ ~x.o.color => y.d.stroke = x.d.stroke /\ y.d.fill = x.d.fill
               /\ "color" \notin Extras /\ sc # NoColor /\ fc # NoColor =>
                     y.d.stroke = StrokeFor(x, sc) /\ y.d.fill = FillFor(x, fc)
  <1> DEFINE w == StrokeColor(x, sc)
             y == FillColor(w, fc)
  <1>1. /\ Sound(w) /\ Ink(w) = Ink(x) /\ (Clear(x) => Clear(w))
        /\ Kept(x, w, Sent \cup {"stroke"}, DrvPositions \cup {"stroke"})
        /\ sc # NoColor => w.o.stroke = sc
        /\ ~x.o.color => w.d.stroke = x.d.stroke
    BY StrokeSound
  <1> HIDE DEF w
  <1>2. /\ Sound(y) /\ Ink(y) = Ink(w) /\ (Clear(w) => Clear(y))
        /\ Kept(w, y, Sent \cup {"fill"}, DrvPositions \cup {"fill"})
        /\ fc # NoColor => y.o.fill = fc
        /\ ~w.o.color => y.d.fill = w.d.fill
    BY <1>1, FillSound
  <1>3. SetColors(x, sc, fc) = y
    BY DEF SetColors, w
  <1> HIDE DEF y
  <1>4. Kept(x, y, ColorOuts, ColorDrvs)
    BY <1>1, <1>2 DEF Kept, OutKept, DrvKept, ColorOuts, ColorDrvs
  <1>5. /\ y.o.stroke = w.o.stroke /\ w.o.color = x.o.color
        /\ y.o.color = x.o.color
    BY <1>1, <1>2 DEF Kept, OutKept, OutNames, Sent
  <1>6. y.d.stroke = w.d.stroke /\ w.d.fill = x.d.fill
    BY <1>1, <1>2 DEF Kept, DrvKept, DrvNames, DrvPositions
  <1>7. "color" \notin Extras => Colored(y.o, y.d)
    BY <1>2 DEF Sound, Good, Looks
  <1> QED
    BY <1>1, <1>2, <1>3, <1>4, <1>5, <1>6, <1>7
    DEF Colored, StrokeFor, FillFor

-----------------------------------------------------------------------------
\* Selecting a font, one command after the other.

Selectable(tf) ==
    /\ tf \in [name : Fonts, pos : FontPositions, size : Sizes, height : Nat,
               slant : Int]
    /\ HeightsApart => tf.height \notin Sizes

LEMMA PlainSelectable ==
    ASSUME NEW tf \in Tfonts
    PROVE  Selectable(Plain(tf))
  BY OutputFileAssumption DEF HeightsApart, Selectable, Plain

Tabled(d, e, n, name) ==
    \A m \in FontPositions : e.table[m] = IF m = n THEN name ELSE d.table[m]

LEMMA PutMount ==
    ASSUME NEW x, NEW n, NEW name, IsBoth(x), n \in FontPositions
    PROVE  /\ Kept(x, Put(x, <<"x font", n, name>>), {}, {"table"})
           /\ Tabled(x.d, Put(x, <<"x font", n, name>>).d, n, name)
  <1> DEFINE c == <<"x font", n, name>>
             e == MountCommand(x.d, n, name)
  <1>1. DrvKept(x.d, e, {"table"}) /\ Tabled(x.d, e, n, name)
    BY MountKept DEF IsBoth, Tabled
  <1>2. Obey(x.d, c) = e
    BY ObeyPairs
  <1> HIDE DEF c, e
  <1>3. Kept(x, Put(x, c), {}, {"table"}) /\ Put(x, c).d = e
    BY <1>1, <1>2, PutKept
  <1> QED
    BY <1>1, <1>3 DEF c

LEMMA PutFont ==
    ASSUME NEW x, NEW n, IsBoth(x)
    PROVE  /\ Kept(x, Put(x, <<"f", n>>), {}, {"fontno"})
           /\ Put(x, <<"f", n>>).d.fontno = n
  <1> DEFINE c == <<"f", n>>
             e == FontCommand(x.d, n)
  <1>1. DrvKept(x.d, e, {"fontno"}) /\ e.fontno = n
    BY EnvironmentKept DEF IsBoth
  <1>2. Obey(x.d, c) = e
    BY ObeyEnvironment
  <1> HIDE DEF c, e
  <1>3. Kept(x, Put(x, c), {}, {"fontno"}) /\ Put(x, c).d = e
    BY <1>1, <1>2, PutKept
  <1> QED
    BY <1>1, <1>3 DEF c

LEMMA PutSize ==
    ASSUME NEW x, NEW n, IsBoth(x)
    PROVE  /\ Kept(x, Put(x, <<"s", n>>), {}, {"size", "height"})
           /\ Put(x, <<"s", n>>).d.size = n
           /\ Put(x, <<"s", n>>).d.height = UnlessSize(x.d.height, n)
  <1> DEFINE c == <<"s", n>>
             e == SizeCommand(x.d, n)
  <1>1. /\ DrvKept(x.d, e, {"size", "height"})
        /\ e.size = n /\ e.height = UnlessSize(x.d.height, n)
    BY EnvironmentKept DEF IsBoth
  <1>2. Obey(x.d, c) = e
    BY ObeyEnvironment
  <1> HIDE DEF c, e
  <1>3. Kept(x, Put(x, c), {}, {"size", "height"}) /\ Put(x, c).d = e
    BY <1>1, <1>2, PutKept
  <1> QED
    BY <1>1, <1>3 DEF c

LEMMA PutHeight ==
    ASSUME NEW x, NEW n, IsBoth(x)
    PROVE  /\ Kept(x, Put(x, <<"x Height", n>>), {}, {"height"})
           /\ Put(x, <<"x Height", n>>).d.height = UnlessSize(n, x.d.size)
  <1> DEFINE c == <<"x Height", n>>
             e == HeightCommand(x.d, n)
  <1>1. DrvKept(x.d, e, {"height"}) /\ e.height = UnlessSize(n, x.d.size)
    BY EnvironmentKept DEF IsBoth
  <1>2. Obey(x.d, c) = e
    BY ObeyEnvironment
  <1> HIDE DEF c, e
  <1>3. Kept(x, Put(x, c), {}, {"height"}) /\ Put(x, c).d = e
    BY <1>1, <1>2, PutKept
  <1> QED
    BY <1>1, <1>3 DEF c

LEMMA PutSlant ==
    ASSUME NEW x, NEW n, IsBoth(x)
    PROVE  /\ Kept(x, Put(x, <<"x Slant", n>>), {}, {"slant"})
           /\ Put(x, <<"x Slant", n>>).d.slant = n
  <1> DEFINE c == <<"x Slant", n>>
             e == SlantCommand(x.d, n)
  <1>1. DrvKept(x.d, e, {"slant"}) /\ e.slant = n
    BY EnvironmentKept DEF IsBoth
  <1>2. Obey(x.d, c) = e
    BY ObeyEnvironment
  <1> HIDE DEF c, e
  <1>3. Kept(x, Put(x, c), {}, {"slant"}) /\ Put(x, c).d = e
    BY <1>1, <1>2, PutKept
  <1> QED
    BY <1>1, <1>3 DEF c

LEMMA MountLooks ==
    ASSUME NEW x, Looks(x), NEW tf, Selectable(tf)
    PROVE  LET y == MountFont(x, tf)
           IN  /\ Looks(y) /\ Kept(x, y, {"mounted"}, {"table"})
               /\ y.o.mounted[tf.pos] = tf.name
  <1> DEFINE z == Put(x, <<"x font", tf.pos, tf.name>>)
             y == [z EXCEPT !.o.mounted[tf.pos] = tf.name]
             changed == {"mounted"}
             drvs == {"table"}
  <1>1. IsBoth(x) /\ tf.pos \in FontPositions
    BY DEF Looks, Selectable
  <1>2. CASE x.o.mounted[tf.pos] = tf.name
    <2>1. Kept(x, x, changed, drvs)
      BY <1>1, KeptSelf
    <2> QED
      BY <1>2, <2>1 DEF MountFont
  <1>3. CASE x.o.mounted[tf.pos] # tf.name
    <2>1. /\ Kept(x, z, {}, {"table"})
          /\ Tabled(x.d, z.d, tf.pos, tf.name)
      BY <1>1, PutMount
    <2>2. MountFont(x, tf) = y
      BY <1>3 DEF MountFont
    <2> HIDE DEF z
    <2> DEFINE mounted == [z.o.mounted EXCEPT ![tf.pos] = tf.name]
    <2>3. z.o.mounted = x.o.mounted /\ IsBoth(z) /\ IsOut(z.o)
      BY <2>1, KeptIsBoth DEF Kept, OutKept, OutNames, IsBoth
    <2>4. DOMAIN mounted = FontPositions
          /\ \A m \in FontPositions :
                mounted[m] = IF m = tf.pos THEN tf.name ELSE x.o.mounted[m]
      BY <2>3 DEF IsOut
    <2>5. y = [z EXCEPT !.o.mounted = mounted]
      BY <2>3 DEF IsBoth
    <2> HIDE DEF mounted, y
    <2>6. /\ Kept(x, y, {"mounted"}, {"table"}) /\ y.o.mounted = mounted
          /\ y.d = z.d
      BY <2>1, <2>4, <2>5 DEF Kept, OutKept, DrvKept, IsOut, OutNames
    <2>7. IsBoth(y)
      BY <2>6, KeptIsBoth
    <2>8. /\ y.o.fontno = x.o.fontno /\ y.o.size = x.o.size
          /\ y.o.slant = x.o.slant /\ y.o.height = x.o.height
          /\ y.o.stroke = x.o.stroke /\ y.o.fill = x.o.fill
          /\ y.o.color = x.o.color
      BY <2>6 DEF Kept, OutKept, OutNames
    <2>9. /\ y.d.fontno = x.d.fontno /\ y.d.size = x.d.size
          /\ y.d.height = x.d.height /\ y.d.slant = x.d.slant
          /\ y.d.stroke = x.d.stroke /\ y.d.fill = x.d.fill
      BY <2>6 DEF Kept, DrvKept, DrvNames
    <2>10. Mounts(y.o, y.d)
      BY <2>1, <2>4, <2>6, <2>8, <2>9 DEF Looks, Mounts, Tabled
    <2>11. Looks(y)
      BY <2>7, <2>8, <2>9, <2>10 DEF Looks, Colored
    <2> QED
      BY <1>1, <2>2, <2>4, <2>6, <2>11
  <1> QED
    BY <1>2, <1>3

LEMMA FontNumberLooks ==
    ASSUME NEW x, Looks(x), NEW n
    PROVE  LET y == SetFontNumber(x, n)
           IN  /\ Looks(y) /\ Kept(x, y, {"fontno"}, {"fontno"})
               /\ y.o.fontno = n
  <1> DEFINE z == Put(x, <<"f", n>>)
             y == [z EXCEPT !.o.fontno = n]
             changed == {"fontno"}
  <1>1. IsBoth(x)
    BY DEF Looks
  <1>2. CASE x.o.fontno = n
    <2>1. Kept(x, x, changed, changed)
      BY <1>1, KeptSelf
    <2> QED
      BY <1>2, <2>1 DEF SetFontNumber
  <1>3. CASE x.o.fontno # n
    <2>1. Kept(x, z, {}, {"fontno"}) /\ z.d.fontno = n
      BY <1>1, PutFont
    <2>2. SetFontNumber(x, n) = y
      BY <1>3 DEF SetFontNumber
    <2> HIDE DEF z
    <2>3. /\ Kept(x, y, changed, changed) /\ y.o.fontno = n
          /\ y.d.fontno = n
      BY <2>1 DEF Kept, OutKept, DrvKept, IsOut, OutNames
    <2> HIDE DEF y
    <2>4. IsBoth(y)
      BY <2>3, KeptIsBoth
    <2>5. /\ y.o.mounted = x.o.mounted /\ y.o.size = x.o.size
          /\ y.o.slant = x.o.slant /\ y.o.height = x.o.height
          /\ y.o.stroke = x.o.stroke /\ y.o.fill = x.o.fill
          /\ y.o.color = x.o.color
      BY <2>3 DEF Kept, OutKept, OutNames
    <2>6. /\ y.d.table = x.d.table /\ y.d.size = x.d.size
          /\ y.d.height = x.d.height /\ y.d.slant = x.d.slant
          /\ y.d.stroke = x.d.stroke /\ y.d.fill = x.d.fill
      BY <2>3 DEF Kept, DrvKept, DrvNames
    <2>7. Looks(y)
      BY <2>3, <2>4, <2>5, <2>6 DEF Looks, Mounts, Colored
    <2> QED
      BY <2>2, <2>3, <2>7
  <1> QED
    BY <1>2, <1>3

\* A size never is the fixed height, so the driver keeps the height.
LEMMA SizeLooks ==
    ASSUME NEW x, Looks(x), NEW n \in Sizes
    PROVE  LET y == SetSize(x, n)
           IN  /\ Looks(y) /\ Kept(x, y, {"size"}, {"size", "height"})
               /\ y.o.size = n
  <1> DEFINE z == Put(x, <<"s", n>>)
             y == [z EXCEPT !.o.size = n]
             changed == {"size"}
             drvs == {"size", "height"}
  <1>1. IsBoth(x)
    BY DEF Looks
  <1>2. CASE x.o.size = n
    <2>1. Kept(x, x, changed, drvs)
      BY <1>1, KeptSelf
    <2> QED
      BY <1>2, <2>1 DEF SetSize
  <1>3. CASE x.o.size # n
    <2>1. /\ Kept(x, z, {}, drvs) /\ z.d.size = n
          /\ z.d.height = UnlessSize(x.d.height, n)
      BY <1>1, PutSize
    <2>2. SetSize(x, n) = y
      BY <1>3 DEF SetSize
    <2> HIDE DEF z
    <2>3. /\ Kept(x, y, changed, drvs) /\ y.o.size = n
          /\ y.d.size = n /\ y.d.height = UnlessSize(x.d.height, n)
      BY <2>1 DEF Kept, OutKept, DrvKept, IsOut, OutNames
    <2> HIDE DEF y
    <2>4. IsBoth(y)
      BY <2>3, KeptIsBoth
    <2>5. /\ y.o.mounted = x.o.mounted /\ y.o.fontno = x.o.fontno
          /\ y.o.slant = x.o.slant /\ y.o.height = x.o.height
          /\ y.o.stroke = x.o.stroke /\ y.o.fill = x.o.fill
          /\ y.o.color = x.o.color
      BY <2>3 DEF Kept, OutKept, OutNames
    <2>6. /\ y.d.table = x.d.table /\ y.d.fontno = x.d.fontno
          /\ y.d.slant = x.d.slant
          /\ y.d.stroke = x.d.stroke /\ y.d.fill = x.d.fill
      BY <2>3 DEF Kept, DrvKept, DrvNames
    <2>7. HeightsApart => y.d.height = y.o.height /\ y.o.height \notin Sizes
      BY <2>3, <2>5 DEF Looks, UnlessSize
    <2>8. Looks(y)
      BY <2>3, <2>4, <2>5, <2>6, <2>7 DEF Looks, Mounts, Colored
    <2> QED
      BY <2>2, <2>3, <2>8
  <1> QED
    BY <1>2, <1>3

LEMMA SlantLooks ==
    ASSUME NEW x, Looks(x), NEW n
    PROVE  LET y == SetSlant(x, n)
           IN  /\ Looks(y) /\ Kept(x, y, {"slant"}, {"slant"})
               /\ y.o.slant = n
  <1> DEFINE z == Put(x, <<"x Slant", n>>)
             y == [z EXCEPT !.o.slant = n]
             changed == {"slant"}
  <1>1. IsBoth(x)
    BY DEF Looks
  <1>2. CASE x.o.slant = n
    <2>1. Kept(x, x, changed, changed)
      BY <1>1, KeptSelf
    <2> QED
      BY <1>2, <2>1 DEF SetSlant
  <1>3. CASE x.o.slant # n
    <2>1. Kept(x, z, {}, changed) /\ z.d.slant = n
      BY <1>1, PutSlant
    <2>2. SetSlant(x, n) = y
      BY <1>3 DEF SetSlant
    <2> HIDE DEF z
    <2>3. /\ Kept(x, y, changed, changed) /\ y.o.slant = n
          /\ y.d.slant = n
      BY <2>1 DEF Kept, OutKept, DrvKept, IsOut, OutNames
    <2> HIDE DEF y
    <2>4. IsBoth(y)
      BY <2>3, KeptIsBoth
    <2>5. /\ y.o.mounted = x.o.mounted /\ y.o.fontno = x.o.fontno
          /\ y.o.size = x.o.size /\ y.o.height = x.o.height
          /\ y.o.stroke = x.o.stroke /\ y.o.fill = x.o.fill
          /\ y.o.color = x.o.color
      BY <2>3 DEF Kept, OutKept, OutNames
    <2>6. /\ y.d.table = x.d.table /\ y.d.fontno = x.d.fontno
          /\ y.d.size = x.d.size /\ y.d.height = x.d.height
          /\ y.d.stroke = x.d.stroke /\ y.d.fill = x.d.fill
      BY <2>3 DEF Kept, DrvKept, DrvNames
    <2>7. Looks(y)
      BY <2>3, <2>4, <2>5, <2>6 DEF Looks, Mounts, Colored
    <2> QED
      BY <2>2, <2>3, <2>7
  <1> QED
    BY <1>2, <1>3

\* Height 0 is sent as the size, which the driver takes for height 0 because
\* the size was sent before.
LEMMA HeightLooks ==
    ASSUME NEW x, Looks(x), x.o.size \in Sizes,
           NEW n, HeightsApart => n \notin Sizes
    PROVE  LET y == SetHeight(x, n)
           IN  /\ Looks(y) /\ Kept(x, y, {"height"}, {"height"})
               /\ y.o.height = n
  <1> DEFINE sent == IF n = 0 THEN x.o.size ELSE n
             z == Put(x, <<"x Height", sent>>)
             y == [z EXCEPT !.o.height = n]
             changed == {"height"}
  <1>1. IsBoth(x)
    BY DEF Looks
  <1>2. CASE x.o.height = n
    <2>1. Kept(x, x, changed, changed)
      BY <1>1, KeptSelf
    <2> QED
      BY <1>2, <2>1 DEF SetHeight
  <1>3. CASE x.o.height # n
    <2>1. x.d.size = x.o.size
      BY OutputFileAssumption DEF Looks
    <2>2. HeightsApart => UnlessSize(sent, x.d.size) = n
      BY <2>1 DEF UnlessSize
    <2>3. SetHeight(x, n) = y
      BY <1>3 DEF SetHeight
    <2> HIDE DEF sent
    <2>4. Kept(x, z, {}, changed) /\ z.d.height = UnlessSize(sent, x.d.size)
      BY <1>1, PutHeight
    <2> HIDE DEF z
    <2>5. /\ Kept(x, y, changed, changed) /\ y.o.height = n
          /\ y.d.height = UnlessSize(sent, x.d.size)
      BY <2>4 DEF Kept, OutKept, DrvKept, IsOut, OutNames
    <2> HIDE DEF y
    <2>6. IsBoth(y)
      BY <2>5, KeptIsBoth
    <2>7. /\ y.o.mounted = x.o.mounted /\ y.o.fontno = x.o.fontno
          /\ y.o.size = x.o.size /\ y.o.slant = x.o.slant
          /\ y.o.stroke = x.o.stroke /\ y.o.fill = x.o.fill
          /\ y.o.color = x.o.color
      BY <2>5 DEF Kept, OutKept, OutNames
    <2>8. /\ y.d.table = x.d.table /\ y.d.fontno = x.d.fontno
          /\ y.d.size = x.d.size /\ y.d.slant = x.d.slant
          /\ y.d.stroke = x.d.stroke /\ y.d.fill = x.d.fill
      BY <2>5 DEF Kept, DrvKept, DrvNames
    <2>9. Looks(y)
      BY <2>2, <2>5, <2>6, <2>7, <2>8 DEF Looks, Mounts, Colored
    <2> QED
      BY <2>3, <2>5, <2>9
  <1> QED
    BY <1>2, <1>3

\* What the driver has once a font is selected.
Selected(d, tf) ==
    /\ d.fontno = tf.pos /\ d.table[tf.pos] = tf.name
    /\ d.size = tf.size /\ d.slant = tf.slant
    /\ HeightsApart => d.height = tf.height

LEMMA GoodSelected ==
    ASSUME NEW x, Good(x), NEW tf, Selectable(tf), x.o.tfont = tf
    PROVE  Selected(x.d, tf)
  <1>1. /\ tf # NoTfont /\ tf.pos \in FontPositions /\ tf.pos # NotMounted
        /\ tf.name # NoFont /\ tf.size # 0
    BY OutputFileAssumption DEF Selectable
  <1>2. /\ x.o.mounted[tf.pos] = tf.name /\ x.o.fontno = tf.pos
        /\ x.o.size = tf.size /\ x.o.height = tf.height
        /\ x.o.slant = tf.slant
    BY <1>1 DEF Good, Selects
  <1> QED
    BY <1>1, <1>2 DEF Good, Looks, Mounts, Selected

FontOuts == {"tfont", "fontno", "size", "slant", "height", "mounted"}
FontDrvs == {"fontno", "table", "size", "height", "slant"}

LEMMA SelectSound ==
    ASSUME NEW x, Sound(x), NEW tf, Selectable(tf)
    PROVE  LET y == SelectFont(x, tf)
           IN  /\ Sound(y) /\ Ink(y) = Ink(x) /\ Selected(y.d, tf)
               /\ Kept(x, y, FontOuts \cup {"tbuf"},
                       FontDrvs \cup {"ink", "hpos"})
               /\ Clear(x) => Clear(y) /\ y.d.hpos = x.d.hpos
  <1> DEFINE r == SelectFont(x, tf)
             outs == FontOuts \cup {"tbuf"}
             drvs == FontDrvs \cup {"ink", "hpos"}
  <1>0. IsBoth(x) /\ Good(x)
    BY SoundIsBoth DEF Sound
  <1>1. CASE x.o.tfont = tf
    <2>1. r = x
      BY <1>1 DEF SelectFont
    <2>2. Kept(x, x, outs, drvs)
      BY <1>0, KeptSelf
    <2>3. Selected(x.d, tf)
      BY <1>0, <1>1, GoodSelected
    <2> HIDE DEF r
    <2> QED
      BY <2>1, <2>2, <2>3 DEF r
  <1>2. CASE x.o.tfont # tf
    <2> DEFINE flushed == FlushTbuf(x)
               mounted == MountFont(flushed, tf)
               named == SetFontNumber(mounted, tf.pos)
               sized == SetSize(named, tf.size)
               slanted == SetSlant(sized, tf.slant)
               high == SetHeight(slanted, tf.height)
               y == [high EXCEPT !.o.tfont = tf]
    <2>1. /\ Sound(flushed) /\ Clear(flushed)
          /\ Ink(flushed) = Ink(x)
          /\ Kept(x, flushed, {"tbuf"}, {"ink", "hpos"})
          /\ Clear(x) => flushed.d = x.d
      BY <1>0, FlushSound, FlushTbufKept DEF Clear
    <2>f. r = y
      BY <1>2 DEF SelectFont
    <2> HIDE DEF flushed
    <2>2. /\ Looks(mounted) /\ Kept(flushed, mounted, {"mounted"}, {"table"})
          /\ mounted.o.mounted[tf.pos] = tf.name
      BY <2>1, MountLooks DEF Sound, Good
    <2> HIDE DEF mounted
    <2>3. /\ Looks(named) /\ Kept(mounted, named, {"fontno"}, {"fontno"})
          /\ named.o.fontno = tf.pos
      BY <2>2, FontNumberLooks
    <2> HIDE DEF named
    <2>4. /\ Looks(sized) /\ Kept(named, sized, {"size"}, {"size", "height"})
          /\ sized.o.size = tf.size
      BY <2>3, SizeLooks DEF Selectable
    <2> HIDE DEF sized
    <2>5. /\ Looks(slanted) /\ Kept(sized, slanted, {"slant"}, {"slant"})
          /\ slanted.o.slant = tf.slant
      BY <2>4, SlantLooks
    <2> HIDE DEF slanted
    <2>6. /\ Looks(high) /\ Kept(slanted, high, {"height"}, {"height"})
          /\ high.o.height = tf.height
      <3>1. slanted.o.size \in Sizes
        <4>1. slanted.o.size = sized.o.size
          BY <2>5 DEF Kept, OutKept, OutNames
        <4> QED
          BY <2>4, <4>1 DEF Selectable
      <3> QED
        BY <2>5, <3>1, HeightLooks DEF Selectable
    <2> HIDE DEF high
    <2>7. Kept(high, y, {"tfont"}, {}) /\ y.o.tfont = tf /\ y.d = high.d
      BY <2>6 DEF Kept, OutKept, DrvKept, IsBoth, IsOut, OutNames
    <2> HIDE DEF y, r
    <2>8. Kept(flushed, y, FontOuts, FontDrvs)
      <3>1. Kept(flushed, sized, FontOuts, FontDrvs)
        BY <2>2, <2>3, <2>4 DEF Kept, OutKept, DrvKept, FontOuts, FontDrvs
      <3>2. Kept(sized, y, FontOuts, FontDrvs)
        BY <2>5, <2>6, <2>7 DEF Kept, OutKept, DrvKept, FontOuts, FontDrvs
      <3> QED
        BY <3>1, <3>2 DEF Kept, OutKept, DrvKept
    <2>9. Looks(y)
      <3>1. IsBoth(y)
        BY <2>7, KeptIsBoth
      <3>2. /\ y.o.mounted = high.o.mounted /\ y.o.fontno = high.o.fontno
            /\ y.o.size = high.o.size /\ y.o.slant = high.o.slant
            /\ y.o.height = high.o.height /\ y.o.stroke = high.o.stroke
            /\ y.o.fill = high.o.fill /\ y.o.color = high.o.color
        BY <2>7 DEF Kept, OutKept, OutNames
      <3> QED
        BY <2>6, <2>7, <3>1, <3>2 DEF Looks, Mounts, Colored
    <2>10. Selects(y.o)
      <3>1. /\ y.o.height = tf.height /\ y.o.slant = tf.slant
        BY <2>5, <2>6, <2>7 DEF Kept, OutKept, OutNames
      <3>2. y.o.size = tf.size /\ y.o.fontno = tf.pos
        BY <2>3, <2>4, <2>5, <2>6, <2>7 DEF Kept, OutKept, OutNames
      <3>3. y.o.mounted = mounted.o.mounted
        BY <2>3, <2>4, <2>5, <2>6, <2>7 DEF Kept, OutKept, OutNames
      <3> QED
        BY <2>2, <2>7, <3>1, <3>2, <3>3 DEF Selects
    <2>11. Rest(y) /\ Clear(y) /\ Ink(y) = Ink(flushed)
      <3>1. FontOuts \subseteq OutLooks /\ FontDrvs \subseteq DrvLooks
        BY DEF FontOuts, FontDrvs, OutLooks, DrvLooks
      <3> QED
        BY <2>1, <2>8, <3>1, SoundIsBoth, RestKept DEF Sound
    <2>12. Kept(x, y, outs, drvs)
      BY <2>1, <2>8 DEF Kept, OutKept, DrvKept
    <2>13. Good(y)
      BY <2>9, <2>10 DEF Good
    <2>14. Selected(y.d, tf)
      BY <2>7, <2>13, GoodSelected
    <2>15. y.d.hpos = flushed.d.hpos
      BY <2>8 DEF Kept, DrvKept, DrvNames, FontDrvs
    <2>16. /\ Sound(y) /\ Ink(y) = Ink(x) /\ Selected(y.d, tf) /\ Clear(y)
           /\ Kept(x, y, outs, drvs) /\ (Clear(x) => y.d.hpos = x.d.hpos)
      BY <2>1, <2>11, <2>12, <2>13, <2>14, <2>15 DEF Sound
    <2> QED
      BY <2>16, <2>f DEF r
  <1> QED
    BY <1>1, <1>2

-----------------------------------------------------------------------------
\* Marks: how they look and where they are.

\* No node does what troff loses count of, and no fixed height is a size.
Normal == Extras = {} /\ HeightsApart

LookFor(x, tf, sc, fc) ==
    [font |-> tf.name, size |-> tf.size,
     height |-> IF tf.height = 0 THEN tf.size ELSE tf.height,
     slant |-> tf.slant, stroke |-> StrokeFor(x, sc), fill |-> FillFor(x, fc)]

\* What nodes leave alone, but for the horizontal position.
Onward(x, y) ==
    /\ y.o.on = x.o.on /\ y.o.color = x.o.color /\ y.o.vpos = x.o.vpos
    /\ ~x.o.color => y.d.stroke = x.d.stroke /\ y.d.fill = x.d.fill

\* A mark more.
Adds(x, y, m) == Ink(y) = Append(Ink(x), m)

LEMMA OnwardTrans ==
    ASSUME NEW x, NEW y, NEW z, Onward(x, y), Onward(y, z)
    PROVE  Onward(x, z)
  BY DEF Onward

LEMMA OnwardFor ==
    ASSUME NEW x, NEW y, Onward(x, y), NEW tf, NEW sc, NEW fc
    PROVE  LookFor(y, tf, sc, fc) = LookFor(x, tf, sc, fc)
  BY DEF Onward, LookFor, StrokeFor, FillFor

LEMMA RightOnward ==
    ASSUME NEW x, IsBoth(x), NEW n
    PROVE  Onward(x, Right(x, n))
  <1> DEFINE y == Right(x, n)
  <1>1. OnlyOut(x, y, {"hpos"})
    BY RightKept
  <1> HIDE DEF y
  <1>2. Onward(x, y)
    BY <1>1 DEF OnlyOut, OutKept, OutNames, Onward
  <1> QED
    BY <1>2 DEF y

LEMMA SelectedLook ==
    ASSUME NEW d, NEW tf, Selectable(tf), Selected(d, tf), IsDriver(d)
    PROVE  /\ Mounted(d) /\ FontSet(d)
           /\ HeightsApart =>
                 Look(d) = [font |-> tf.name, size |-> tf.size,
                            height |-> IF tf.height = 0 THEN tf.size
                                       ELSE tf.height,
                            slant |-> tf.slant,
                            stroke |-> d.stroke, fill |-> d.fill]
  <1>1. /\ tf.pos \in FontPositions /\ tf.name \in Fonts /\ tf.size \in Sizes
        /\ tf.name # NoFont
    BY OutputFileAssumption DEF Selectable
  <1>2. /\ d.fontno = tf.pos /\ d.table[d.fontno] = tf.name
        /\ d.size = tf.size /\ d.slant = tf.slant
        /\ HeightsApart => d.height = tf.height
    BY DEF Selected
  <1>3. Mounted(d) /\ FontSet(d)
    BY <1>1, <1>2 DEF Mounted, FontSet, IsDriver
  <1>4. HeightsApart =>
           Look(d) = [font |-> tf.name, size |-> tf.size,
                      height |-> IF tf.height = 0 THEN tf.size ELSE tf.height,
                      slant |-> tf.slant, stroke |-> d.stroke, fill |-> d.fill]
    BY <1>2 DEF Look
  <1> QED
    BY <1>3, <1>4

\* A mark is made while the buffer is empty and nothing else changes.
LEMMA MarkSound ==
    ASSUME NEW x, Sound(x), Clear(x), NEW y, Kept(x, y, {}, {"ink"}),
           IsSeq(y.d.ink)
    PROVE  Sound(y) /\ Clear(y) /\ Ink(y) = y.d.ink /\ Ink(x) = x.d.ink
  <1>1. IsBoth(x) /\ IsBoth(y)
    BY SoundIsBoth, KeptIsBoth
  <1>2. SameLooks(x, y)
    BY DEF SameLooks, Kept, OutKept, DrvKept, DrvPositions
  <1>3. Good(y)
    BY <1>2, GoodSame DEF Sound
  <1>4. /\ y.o.hpos = x.o.hpos /\ y.o.vpos = x.o.vpos
        /\ y.o.ohpos = x.o.ohpos /\ y.o.ovpos = x.o.ovpos
        /\ y.o.kern = x.o.kern /\ y.o.must = x.o.must /\ y.o.on = x.o.on
        /\ y.o.tbuf = x.o.tbuf
    BY DEF Kept, OutKept, OutNames
  <1>5. y.d.hpos = x.d.hpos /\ y.d.vpos = x.d.vpos
    BY DEF Kept, DrvKept, DrvNames
  <1>6. Clear(y)
    BY <1>4 DEF Clear
  <1>7. Ink(y) = y.d.ink /\ Ink(x) = x.d.ink /\ End(y) = End(x)
    BY <1>1, <1>5, <1>6, ClearInk
  <1>8. Typed(y) /\ Fitting(y) /\ Believed(y)
    BY <1>4, <1>5, <1>7 DEF Sound, Rest, Typed, Numbered, Fitting, Clear,
                            Believed, Knows
  <1> QED
    BY <1>3, <1>6, <1>7, <1>8 DEF Sound, Rest

LEMMA SoundSeq == ASSUME NEW x, Sound(x) PROVE IsSeq(x.d.ink)
  BY DEF Sound, Rest, Typed

LEMMA SetGlyphSound ==
    ASSUME NEW x, Sound(x), Clear(x), NEW y, NEW g,
           Kept(x, y, {}, {"ink"}), y.d = SetGlyph(x.d, g)
    PROVE  /\ Sound(y) /\ Clear(y)
           /\ Mounted(x.d) => Adds(x, y, Mark(g, Look(x.d), x.d.hpos, x.d.vpos))
  <1> DEFINE m == Mark(g, Look(x.d), x.d.hpos, x.d.vpos)
             e == SetGlyph(x.d, g)
  <1>1. IsDriver(x.d)
    BY SoundIsBoth DEF IsBoth
  <1>2. e.ink = IF Mounted(x.d) THEN Append(x.d.ink, m) ELSE x.d.ink
    BY <1>1, GlyphKept
  <1> HIDE DEF m, e
  <1>3. y.d.ink = IF Mounted(x.d) THEN Append(x.d.ink, m) ELSE x.d.ink
    BY <1>2 DEF e
  <1>4. IsSeq(y.d.ink)
    BY <1>3, SoundSeq, SeqAppend
  <1>5. Sound(y) /\ Clear(y) /\ Ink(y) = y.d.ink /\ Ink(x) = x.d.ink
    BY <1>4, MarkSound
  <1> QED
    BY <1>3, <1>5 DEF Adds, m

\* Ready to make a mark: the colors are sent, the buffer is flushed and the
\* driver is where it should be.
Ready(x, sc, fc) == DoMotion(FlushTbuf(SetColors(x, sc, fc)))

LEMMA ReadySound ==
    ASSUME NEW x, Sound(x), NEW sc, NEW fc
    PROVE  LET y == Ready(x, sc, fc)
           IN  /\ Sound(y) /\ Clear(y) /\ Ink(y) = Ink(x)
               /\ Kept(x, y, ColorOuts, ColorDrvs)
               /\ y.o.ohpos = x.o.hpos /\ y.o.ovpos = x.o.vpos /\ ~y.o.must
               /\ Knows(y) => Met(y)
               /\ ~x.o.color => y.d.stroke = x.d.stroke /\ y.d.fill = x.d.fill
               /\ "color" \notin Extras /\ sc # NoColor /\ fc # NoColor =>
                     y.d.stroke = StrokeFor(x, sc) /\ y.d.fill = FillFor(x, fc)
  <1> DEFINE colored == SetColors(x, sc, fc)
             flushed == FlushTbuf(colored)
             y == DoMotion(flushed)
             r == Ready(x, sc, fc)
  <1>1. r = y
    BY DEF Ready
  <1>2. /\ Sound(colored) /\ Ink(colored) = Ink(x)
        /\ Kept(x, colored, ColorOuts, ColorDrvs)
        /\ ~x.o.color => colored.d.stroke = x.d.stroke
                         /\ colored.d.fill = x.d.fill
        /\ "color" \notin Extras /\ sc # NoColor /\ fc # NoColor =>
              colored.d.stroke = StrokeFor(x, sc)
              /\ colored.d.fill = FillFor(x, fc)
    BY ColorsSound
  <1> HIDE DEF colored
  <1>3. /\ Sound(flushed) /\ Clear(flushed) /\ Ink(flushed) = Ink(colored)
        /\ Kept(colored, flushed, {"tbuf"}, {"ink", "hpos"})
    BY <1>2, FlushSound, FlushTbufKept, SoundIsBoth
  <1> HIDE DEF flushed
  <1>4. /\ Sound(y) /\ Clear(y) /\ Ink(y) = Ink(flushed)
        /\ Kept(flushed, y, {"ohpos", "ovpos", "must"}, {"hpos", "vpos"})
        /\ y.o.ohpos = flushed.o.hpos /\ y.o.ovpos = flushed.o.vpos
        /\ ~y.o.must /\ (Knows(y) => Met(y))
    BY <1>3, MotionSound
  <1> HIDE DEF y, r
  <1>5. Kept(x, y, ColorOuts, ColorDrvs)
    <2>1. Kept(x, flushed, ColorOuts \cup {"tbuf"},
               ColorDrvs \cup {"ink", "hpos"})
      BY <1>2, <1>3, KeptTrans
    <2>2. Kept(x, y, (ColorOuts \cup {"tbuf"})
                        \cup {"ohpos", "ovpos", "must"},
                     (ColorDrvs \cup {"ink", "hpos"}) \cup {"hpos", "vpos"})
      BY <1>4, <2>1, KeptTrans
    <2>3. /\ (ColorOuts \cup {"tbuf"}) \cup {"ohpos", "ovpos", "must"}
                = ColorOuts
          /\ (ColorDrvs \cup {"ink", "hpos"}) \cup {"hpos", "vpos"}
                = ColorDrvs
      BY DEF ColorOuts, ColorDrvs, Sent, DrvPositions
    <2> QED
      BY <2>2, <2>3
  <1>6. flushed.o.hpos = x.o.hpos /\ flushed.o.vpos = x.o.vpos
    BY <1>2, <1>3 DEF Kept, OutKept, OutNames, ColorOuts, Sent
  <1>7. y.d.stroke = colored.d.stroke /\ y.d.fill = colored.d.fill
    BY <1>3, <1>4 DEF Kept, DrvKept, DrvNames
  <1>8. /\ Sound(y) /\ Clear(y) /\ Ink(y) = Ink(x)
        /\ y.o.ohpos = x.o.hpos /\ y.o.ovpos = x.o.vpos /\ ~y.o.must
        /\ Knows(y) => Met(y)
    BY <1>2, <1>3, <1>4, <1>6
  <1>9. /\ ~x.o.color => y.d.stroke = x.d.stroke /\ y.d.fill = x.d.fill
        /\ "color" \notin Extras /\ sc # NoColor /\ fc # NoColor =>
              y.d.stroke = StrokeFor(x, sc) /\ y.d.fill = FillFor(x, fc)
    BY <1>2, <1>7
  <1> QED
    BY <1>1, <1>5, <1>8, <1>9 DEF r

\* What is kept on the way to a mark.
LEMMA ReadyKept ==
    ASSUME NEW x, NEW y, Kept(x, y, ColorOuts, ColorDrvs)
    PROVE  /\ y.o.hpos = x.o.hpos /\ y.o.vpos = x.o.vpos /\ y.o.on = x.o.on
           /\ y.o.color = x.o.color /\ y.o.tcommand = x.o.tcommand
           /\ y.o.size = x.o.size
           /\ y.d.size = x.d.size
           /\ \A tf : Selected(x.d, tf) => Selected(y.d, tf)
  <1>1. /\ y.o.hpos = x.o.hpos /\ y.o.vpos = x.o.vpos /\ y.o.on = x.o.on
        /\ y.o.color = x.o.color /\ y.o.tcommand = x.o.tcommand
        /\ y.o.size = x.o.size
    BY DEF Kept, OutKept, OutNames, ColorOuts, Sent
  <1>2. /\ y.d.fontno = x.d.fontno /\ y.d.table = x.d.table
        /\ y.d.size = x.d.size /\ y.d.height = x.d.height
        /\ y.d.slant = x.d.slant
    BY DEF Kept, DrvKept, DrvNames, ColorDrvs, DrvPositions
  <1> QED
    BY <1>1, <1>2 DEF Selected

LEMMA ReadyLook ==
    ASSUME NEW x, Sound(x), NEW tf, Selectable(tf), Selected(x.d, tf),
           NEW sc, sc # NoColor, NEW fc, fc # NoColor, Normal
    PROVE  LET y == Ready(x, sc, fc)
           IN  Mounted(y.d) /\ Look(y.d) = LookFor(x, tf, sc, fc)
  <1> DEFINE y == Ready(x, sc, fc)
  <1>1. Sound(y) /\ Kept(x, y, ColorOuts, ColorDrvs)
    BY ReadySound
  <1>2. y.d.stroke = StrokeFor(x, sc) /\ y.d.fill = FillFor(x, fc)
    BY ReadySound DEF Normal
  <1> HIDE DEF y
  <1>3. Selected(y.d, tf)
    BY <1>1, ReadyKept
  <1>4. IsDriver(y.d)
    BY <1>1, SoundIsBoth DEF IsBoth
  <1>5. /\ Mounted(y.d)
        /\ Look(y.d) = [font |-> tf.name, size |-> tf.size,
                        height |-> IF tf.height = 0 THEN tf.size
                                   ELSE tf.height,
                        slant |-> tf.slant,
                        stroke |-> y.d.stroke, fill |-> y.d.fill]
    BY <1>3, <1>4, SelectedLook DEF Normal
  <1>6. Look(y.d) = LookFor(x, tf, sc, fc)
    BY <1>2, <1>5 DEF LookFor
  <1> QED
    BY <1>5, <1>6 DEF y

LEMMA SetHereSound ==
    ASSUME NEW x, Sound(x), NEW tf, Selectable(tf), Selected(x.d, tf),
           NEW g, NEW sc, NEW fc
    PROVE  LET y == SetHere(x, g, sc, fc)
           IN  /\ Sound(y) /\ Clear(y) /\ ~y.o.must
               /\ Onward(x, y) /\ y.o.hpos = x.o.hpos
               /\ Normal /\ sc # NoColor /\ fc # NoColor =>
                     Adds(x, y, Mark(g, LookFor(x, tf, sc, fc), x.o.hpos,
                                     x.o.vpos))
  <1> DEFINE moved == Ready(x, sc, fc)
             y == Put(moved, GlyphCommand(g))
             r == SetHere(x, g, sc, fc)
  <1>1. r = y
    BY DEF SetHere, Ready
  <1>2. /\ Sound(moved) /\ Clear(moved) /\ Ink(moved) = Ink(x)
        /\ Kept(x, moved, ColorOuts, ColorDrvs)
        /\ moved.o.ohpos = x.o.hpos /\ moved.o.ovpos = x.o.vpos
        /\ ~moved.o.must /\ (Knows(moved) => Met(moved))
        /\ ~x.o.color => moved.d.stroke = x.d.stroke
                         /\ moved.d.fill = x.d.fill
    BY ReadySound
  <1>3. Normal /\ sc # NoColor /\ fc # NoColor =>
           Mounted(moved.d) /\ Look(moved.d) = LookFor(x, tf, sc, fc)
    BY ReadyLook
  <1> HIDE DEF moved
  <1>5. /\ Kept(moved, y, {}, {"ink"}) /\ y.d = SetGlyph(moved.d, g)
    BY <1>2, SoundIsBoth, PutGlyph
  <1> HIDE DEF y, r
  <1>6. /\ Sound(y) /\ Clear(y)
        /\ Mounted(moved.d) =>
              Adds(moved, y,
                   Mark(g, Look(moved.d), moved.d.hpos, moved.d.vpos))
    BY <1>2, <1>5, SetGlyphSound
  <1>7. /\ moved.o.hpos = x.o.hpos /\ moved.o.vpos = x.o.vpos
        /\ moved.o.on = x.o.on /\ moved.o.color = x.o.color
    BY <1>2, ReadyKept
  <1>10. /\ y.o.hpos = moved.o.hpos /\ y.o.vpos = moved.o.vpos
         /\ y.o.on = moved.o.on /\ y.o.color = moved.o.color
         /\ y.o.must = moved.o.must
         /\ y.d.stroke = moved.d.stroke /\ y.d.fill = moved.d.fill
    BY <1>5 DEF Kept, OutKept, DrvKept, OutNames, DrvNames
  <1>11. Onward(x, y) /\ y.o.hpos = x.o.hpos /\ ~y.o.must
    BY <1>2, <1>7, <1>10 DEF Onward
  <1>12. ASSUME Normal, sc # NoColor, fc # NoColor
         PROVE  Adds(x, y, Mark(g, LookFor(x, tf, sc, fc), x.o.hpos, x.o.vpos))
    <2>1. Met(moved)
      BY <1>2, <1>12 DEF Knows, Normal
    <2>2. moved.d.hpos = x.o.hpos /\ moved.d.vpos = x.o.vpos
      BY <1>2, <2>1 DEF Met
    <2> QED
      BY <1>2, <1>3, <1>6, <1>12, <2>2 DEF Adds
  <1>13. /\ Sound(y) /\ Clear(y) /\ ~y.o.must
         /\ Onward(x, y) /\ y.o.hpos = x.o.hpos
         /\ Normal /\ sc # NoColor /\ fc # NoColor =>
               Adds(x, y, Mark(g, LookFor(x, tf, sc, fc), x.o.hpos,
                               x.o.vpos))
    BY <1>6, <1>11, <1>12
  <1> QED
    BY <1>1, <1>13 DEF r

-----------------------------------------------------------------------------
\* Where troff has lost the driver but takes it to be on the line, it is.
Found(x) == x.o.must /\ x.o.vpos = x.o.ovpos => Met(x)

\* The drawing position moves along, with nothing in the buffer.
LEMMA AlongSound ==
    ASSUME NEW x, Sound(x), Clear(x), NEW y, NEW n \in Int,
           Kept(x, y, {"ohpos"}, {"hpos", "vpos"}),
           y.o.ohpos = x.o.ohpos + n,
           y.d.hpos = x.d.hpos + n, y.d.vpos = x.d.vpos + 0
    PROVE  /\ Sound(y) /\ Clear(y) /\ Ink(y) = Ink(x)
           /\ Met(x) => Met(y)
  <1>1. IsBoth(x) /\ IsBoth(y)
    BY SoundIsBoth, KeptIsBoth
  <1>2. SameLooks(x, y)
    BY DEF SameLooks, Kept, OutKept, DrvKept, Positions, DrvPositions
  <1>3. Good(y)
    BY <1>2, GoodSame DEF Sound
  <1>4. /\ y.o.hpos = x.o.hpos /\ y.o.vpos = x.o.vpos /\ y.o.ovpos = x.o.ovpos
        /\ y.o.kern = x.o.kern /\ y.o.must = x.o.must /\ y.o.on = x.o.on
        /\ y.o.tbuf = x.o.tbuf
    BY DEF Kept, OutKept, OutNames
  <1>5. y.d.ink = x.d.ink
    BY DEF Kept, DrvKept, DrvNames
  <1>6. Clear(y)
    BY <1>4 DEF Clear
  <1>7. /\ Ink(y) = y.d.ink /\ Ink(x) = x.d.ink
        /\ End(y) = <<y.d.hpos, y.d.vpos>> /\ End(x) = <<x.d.hpos, x.d.vpos>>
    BY <1>1, <1>6, ClearInk
  <1>8. Numbered(x) /\ Typed(x) /\ Fitting(x) /\ Believed(x)
    BY DEF Sound, Rest, Typed
  <1>9. Numbered(y) /\ y.d.vpos = x.d.vpos
    BY <1>4, <1>8 DEF Numbered
  <1>10. Met(x) => Met(y)
    BY <1>4, <1>8, <1>9 DEF Met, Numbered
  <1>11. Believed(y)
    <2>1. Knows(y) => Knows(x)
      BY <1>4 DEF Knows
    <2>2. Knows(x) => Met(x)
      BY <1>7, <1>8 DEF Believed, Met
    <2> QED
      BY <1>7, <1>10, <2>1, <2>2 DEF Believed, Met
  <1>12. Typed(y) /\ Fitting(y)
    BY <1>4, <1>5, <1>6, <1>8, <1>9 DEF Typed, Fitting, Clear
  <1> QED
    BY <1>3, <1>5, <1>6, <1>7, <1>10, <1>11, <1>12 DEF Sound, Rest

LEMMA ColorsLook ==
    ASSUME NEW x, Good(x), NEW sc, NEW fc, HasColors(x, sc, fc),
           sc # NoColor, fc # NoColor, "color" \notin Extras
    PROVE  StrokeFor(x, sc) = x.d.stroke /\ FillFor(x, fc) = x.d.fill
  BY DEF Good, Looks, Colored, HasColors, StrokeFor, FillFor

LEMMA SetNearSound ==
    ASSUME NEW x, Sound(x), Clear(x), x.o.vpos = x.o.ovpos,
           NEW tf, Selectable(tf), Selected(x.d, tf),
           NEW g, NEW sc, NEW fc, HasColors(x, sc, fc)
    PROVE  LET y == SetNear(x, g)
           IN  /\ Sound(y) /\ Clear(y)
               /\ Onward(x, y) /\ y.o.hpos = x.o.hpos
               /\ Found(x) => Found(y)
               /\ Normal /\ Found(x) /\ sc # NoColor /\ fc # NoColor =>
                     Adds(x, y, Mark(g, LookFor(x, tf, sc, fc), x.o.hpos,
                                     x.o.vpos))
  <1> DEFINE n == x.o.hpos - x.o.ohpos
             e == MoveBy(x.d, n, 0)
             p == [x EXCEPT !.o.ohpos = x.o.hpos, !.d = e]
             q == Put(x, <<"nnc", n, g>>)
             y == [q EXCEPT !.o.ohpos = x.o.hpos]
             r == SetNear(x, g)
  <1>1. r = y
    BY DEF SetNear
  <1>2. IsBoth(x)
    BY SoundIsBoth
  <1>3. /\ DrvKept(x.d, e, {"hpos", "vpos"})
        /\ e.hpos = x.d.hpos + n /\ e.vpos = x.d.vpos + 0
    BY <1>2, MotionKept DEF IsBoth
  <1>4. Kept(x, q, {}, {"hpos", "vpos", "ink"}) /\ q.d = SetGlyph(e, g)
    BY <1>2, PutNear
  <1>5. x.o.hpos \in Int /\ x.o.ohpos \in Int /\ n \in Int
    BY DEF Sound, Rest, Typed, Numbered
  <1>6. x.o.ohpos + n = x.o.hpos
    BY <1>5
  <1> HIDE DEF n, e, q
  <1>7. /\ Kept(x, p, {"ohpos"}, {"hpos", "vpos"}) /\ p.d = e
        /\ p.o.ohpos = x.o.hpos
    BY <1>2, <1>3 DEF IsBoth, IsOut, Kept, OutKept, OutNames
  <1>8. /\ p.d.hpos = x.d.hpos + n /\ p.d.vpos = x.d.vpos + 0
        /\ p.o.ohpos = x.o.ohpos + n
    BY <1>3, <1>6, <1>7
  <1>9. y.d = SetGlyph(p.d, g) /\ OutKept(q.o, y.o, {"ohpos"})
        /\ y.o.ohpos = x.o.hpos /\ DOMAIN y = {"o", "d"}
    BY <1>4, <1>7 DEF Kept, OutKept, IsOut, OutNames
  <1>10. DrvKept(p.d, y.d, {"ink"})
    <2>1. IsDriver(p.d)
      BY <1>7 DEF Kept, DrvKept
    <2> QED
      BY <1>9, <2>1, GlyphKept
  <1> HIDE DEF p, y
  <1>11. Kept(p, y, {}, {"ink"})
    <2>1. \A f \in OutNames \ {"ohpos"} : y.o[f] = x.o[f] /\ p.o[f] = x.o[f]
      BY <1>4, <1>7, <1>9 DEF Kept, OutKept
    <2>2. IsOut(y.o)
      BY <1>9 DEF OutKept
    <2>3. \A f \in OutNames : y.o[f] = p.o[f]
      BY <1>7, <1>9, <2>1
    <2> QED
      BY <1>9, <1>10, <2>2, <2>3 DEF Kept, OutKept
  <1>12. /\ Sound(p) /\ Clear(p) /\ Ink(p) = Ink(x)
         /\ Met(x) => Met(p)
    BY <1>5, <1>7, <1>8, AlongSound
  <1>13. /\ Sound(y) /\ Clear(y)
         /\ Mounted(p.d) =>
               Adds(p, y, Mark(g, Look(p.d), p.d.hpos, p.d.vpos))
    BY <1>9, <1>11, <1>12, SetGlyphSound
  <1>14. /\ p.o.hpos = x.o.hpos /\ p.o.vpos = x.o.vpos
         /\ p.o.ovpos = x.o.ovpos /\ p.o.on = x.o.on
         /\ p.o.color = x.o.color /\ p.o.must = x.o.must
    BY <1>7 DEF Kept, OutKept, OutNames
  <1>15. /\ p.d.fontno = x.d.fontno /\ p.d.table = x.d.table
         /\ p.d.size = x.d.size /\ p.d.height = x.d.height
         /\ p.d.slant = x.d.slant
         /\ p.d.stroke = x.d.stroke /\ p.d.fill = x.d.fill
    BY <1>7 DEF Kept, DrvKept, DrvNames
  <1>16. /\ y.o.hpos = p.o.hpos /\ y.o.vpos = p.o.vpos
         /\ y.o.ohpos = p.o.ohpos /\ y.o.ovpos = p.o.ovpos
         /\ y.o.on = p.o.on
         /\ y.o.color = p.o.color /\ y.o.must = p.o.must
    BY <1>11 DEF Kept, OutKept, OutNames
  <1>17. /\ y.d.stroke = p.d.stroke /\ y.d.fill = p.d.fill
         /\ y.d.hpos = p.d.hpos /\ y.d.vpos = p.d.vpos
    BY <1>11 DEF Kept, DrvKept, DrvNames
  <1>18. Onward(x, y) /\ y.o.hpos = x.o.hpos
    BY <1>14, <1>15, <1>16, <1>17 DEF Onward
  <1>19. Met(p) => Met(y)
    BY <1>16, <1>17 DEF Met
  <1>20. Found(x) => Found(y)
    BY <1>12, <1>14, <1>16, <1>19 DEF Found
  <1>21. ASSUME Normal, Found(x), sc # NoColor, fc # NoColor
         PROVE  Adds(x, y, Mark(g, LookFor(x, tf, sc, fc), x.o.hpos, x.o.vpos))
    <2>1. Selected(p.d, tf)
      BY <1>15 DEF Selected
    <2>2. IsDriver(p.d)
      BY <1>12, SoundIsBoth DEF IsBoth
    <2>3. /\ Mounted(p.d)
          /\ Look(p.d) = [font |-> tf.name, size |-> tf.size,
                              height |-> IF tf.height = 0 THEN tf.size
                                         ELSE tf.height,
                              slant |-> tf.slant,
                              stroke |-> p.d.stroke,
                              fill |-> p.d.fill]
      BY <1>21, <2>1, <2>2, SelectedLook DEF Normal
    <2>4. StrokeFor(x, sc) = p.d.stroke /\ FillFor(x, fc) = p.d.fill
      BY <1>15, <1>21, ColorsLook DEF Normal, Sound
    <2>5. Look(p.d) = LookFor(x, tf, sc, fc)
      BY <2>3, <2>4 DEF LookFor
    <2>6. Met(x)
      <3>1. Knows(x) \/ x.o.must
        BY <1>21 DEF Knows, Normal
      <3>2. CASE Knows(x)
        BY <1>2, <3>2, ClearInk DEF Sound, Rest, Believed, Met
      <3>3. CASE x.o.must
        BY <1>21, <3>3 DEF Found
      <3> QED
        BY <3>1, <3>2, <3>3
    <2>7. p.d.hpos = x.o.hpos /\ p.d.vpos = x.o.vpos
      BY <1>7, <1>12, <1>14, <2>6 DEF Met
    <2> QED
      BY <1>12, <1>13, <2>3, <2>5, <2>7 DEF Adds
  <1>22. /\ Sound(y) /\ Clear(y)
         /\ Onward(x, y) /\ y.o.hpos = x.o.hpos
         /\ Found(x) => Found(y)
         /\ Normal /\ Found(x) /\ sc # NoColor /\ fc # NoColor =>
               Adds(x, y, Mark(g, LookFor(x, tf, sc, fc), x.o.hpos,
                               x.o.vpos))
    BY <1>13, <1>18, <1>20, <1>21
  <1> QED
    BY <1>1, <1>22 DEF r

-----------------------------------------------------------------------------
\* Characters join the buffer.

LEMMA ClearWritten ==
    ASSUME NEW x, IsBoth(x), Clear(x), IsSeq(x.d.ink), NEW k
    PROVE  Written(x.d, k, x.o.tbuf) = x.d.ink
  <1> DEFINE word == x.o.tbuf
             marks == WordMarks(x.d, k, word)
  <1>1. word = <<>> /\ word \in Seq(Glyphs) /\ Len(word) = 0
    BY DEF Clear
  <1>2. IsSeq(marks) /\ Len(marks) = 0
    BY <1>1, WordMarksSeq
  <1>3. Written(x.d, k, word) = x.d.ink \o marks
    BY DEF Written
  <1> HIDE DEF word, marks
  <1> DEFINE s == x.d.ink
             r == s \o marks
  <1>4. /\ IsSeq(r) /\ Len(r) = Len(s) + Len(marks)
        /\ \A i \in 1..Len(s) : r[i] = s[i]
    BY <1>2, SeqConcat
  <1>5. Len(s) \in Nat
    BY SeqParts
  <1> HIDE DEF r
  <1>6. Len(r) = Len(s)
    BY <1>2, <1>4, <1>5
  <1>7. r = s
    BY <1>4, <1>6, SeqEqual
  <1> QED
    BY <1>3, <1>7 DEF r, word

\* The word in the buffer, whatever an empty one says of kerning.
LEMMA BufferedWord ==
    ASSUME NEW x, Sound(x), NEW k, Clear(x) \/ x.o.kern = k
    PROVE  /\ Ink(x) = Written(x.d, k, x.o.tbuf)
           /\ End(x) = <<WordEnd(x.d, k, x.o.tbuf), x.d.vpos>>
  <1>1. IsBoth(x) /\ Fitting(x) /\ IsSeq(x.d.ink)
    BY SoundIsBoth DEF Sound, Rest, Typed
  <1>2. CASE Clear(x)
    <2>1. Ink(x) = x.d.ink /\ End(x) = <<x.d.hpos, x.d.vpos>>
      BY <1>1, <1>2, ClearInk
    <2>2. WordEnd(x.d, k, x.o.tbuf) = x.d.hpos
      BY <1>2, WordEndEmpty DEF Clear
    <2> QED
      BY <1>1, <1>2, <2>1, <2>2, ClearWritten
  <1>3. CASE ~Clear(x)
    BY <1>1, <1>3, WordInk DEF End
  <1> QED
    BY <1>2, <1>3

LEMMA WrittenAppend ==
    ASSUME NEW d, NEW k, NEW word, NEW longer, NEW m,
           IsSeq(d.ink), IsSeq(WordMarks(d, k, word)),
           WordMarks(d, k, longer) = Append(WordMarks(d, k, word), m)
    PROVE  Written(d, k, longer) = Append(Written(d, k, word), m)
  <1> DEFINE s == d.ink
             t == WordMarks(d, k, word)
  <1>1. IsSeq(s) /\ IsSeq(t)
    OBVIOUS
  <1>2. Written(d, k, longer) = s \o Append(t, m)
    BY DEF Written
  <1>3. Written(d, k, word) = s \o t
    BY DEF Written
  <1> HIDE DEF s, t
  <1>4. s \o Append(t, m) = Append(s \o t, m)
    BY <1>1, ConcatAppend
  <1> QED
    BY <1>2, <1>3, <1>4

LEMMA BufferSound ==
    ASSUME NEW x, NEW y, NEW tf, NEW g \in Glyphs, NEW k \in Int,
           Sound(x), x.o.on, ~x.o.must, x.o.tcommand,
           Len(x.o.tbuf) < TbufSize,
           Selectable(tf), Selected(x.d, tf), Clear(x) \/ x.o.kern = k,
           Kept(x, y, {"tbuf", "ohpos", "hpos", "kern"}, {}), y.d = x.d,
           y.o.tbuf = Append(x.o.tbuf, g), y.o.kern = k,
           y.o.ohpos = x.o.ohpos + (Width[g][tf.name][tf.size] + k),
           y.o.hpos = x.o.ohpos + (Width[g][tf.name][tf.size] + k)
    PROVE  /\ Sound(y) /\ Onward(x, y)
           /\ Knows(x) => Adds(x, y, Mark(g, Look(x.d), x.o.ohpos, x.o.ovpos))
  <1> DEFINE w == Width[g][tf.name][tf.size]
             word == x.o.tbuf
             longer == Append(word, g)
             at == WordEnd(x.d, k, word)
             m == Mark(g, Look(x.d), at, x.d.vpos)
  <1>1. IsBoth(x) /\ IsBoth(y)
    BY SoundIsBoth, KeptIsBoth
  <1>2. SameLooks(x, y)
    BY DEF SameLooks, Kept, OutKept, DrvKept, Positions
  <1>3. Good(y)
    BY <1>2, GoodSame DEF Sound
  <1>4. /\ y.o.vpos = x.o.vpos /\ y.o.ovpos = x.o.ovpos
        /\ y.o.must = x.o.must /\ y.o.on = x.o.on
        /\ y.o.color = x.o.color /\ y.o.tcommand = x.o.tcommand
    BY DEF Kept, OutKept, OutNames
  <1>5. word \in Seq(Glyphs) /\ Len(word) \in Nat
        /\ Numbered(x) /\ IsSeq(x.d.ink)
    BY DEF Sound, Rest, Typed
  <1>6. /\ tf.name \in Fonts /\ tf.size \in Sizes
        /\ x.d.table[x.d.fontno] = tf.name /\ x.d.size = tf.size
    BY DEF Selectable, Selected
  <1>7. w \in Int
    <2>1. Width[g] \in [Fonts -> [Sizes -> Nat]]
      BY OutputFileAssumption
    <2>2. Width[g][tf.name] \in [Sizes -> Nat]
      BY <1>6, <2>1
    <2>3. Width[g][tf.name][tf.size] \in Nat
      BY <1>6, <2>2
    <2> QED
      BY <2>3
  <1>8. FontSet(x.d)
    <2>1. IsDriver(x.d)
      BY <1>1 DEF IsBoth
    <2> QED
      BY <2>1, SelectedLook
  <1>9. longer \in Seq(Glyphs) /\ Len(longer) = Len(word) + 1 /\ longer # <<>>
    <2>1. longer \in Seq(Glyphs)
      BY <1>5
    <2>2. Len(longer) = Len(word) + 1
      BY <1>5
    <2>4. longer # <<>>
      BY <1>5
    <2> QED
      BY <2>1, <2>2, <2>4
  <1>10. Written(x.d, k, longer) = Append(Written(x.d, k, word), m)
    <2>1. WordMarks(x.d, k, longer) = Append(WordMarks(x.d, k, word), m)
      BY <1>5, WordMarksAppend
    <2>2. IsSeq(WordMarks(x.d, k, word))
      BY <1>5, WordMarksSeq
    <2> HIDE DEF m, longer, word
    <2> QED
      BY <1>5, <2>1, <2>2, WrittenAppend
  <1>11. WordEnd(x.d, k, longer) = at + (k + w)
    BY <1>5, <1>6, WordEndAppend
  <1> HIDE DEF w, m, at
  <1>12. Typed(y) /\ Fitting(y)
    <2>4. x.o.ohpos \in Int /\ y.o.ohpos = x.o.ohpos + (w + k)
          /\ y.o.hpos = x.o.ohpos + (w + k)
      BY <1>5 DEF Numbered, w
    <2>5. y.o.ohpos \in Int /\ y.o.hpos \in Int
      BY <1>7, <2>4
    <2>1. Numbered(y)
      BY <1>4, <1>5, <2>5 DEF Numbered
    <2>2. Typed(y)
      BY <1>5, <1>9, <2>1 DEF Typed
    <2>3. Len(y.o.tbuf) <= TbufSize
      BY <1>5, <1>9, OutputFileAssumption
    <2> QED
      BY <1>4, <1>8, <2>2, <2>3 DEF Fitting
  <1>13. Ink(x) = Written(x.d, k, word) /\ End(x) = <<at, x.d.vpos>>
    BY BufferedWord DEF at
  <1>14. Ink(y) = Written(x.d, k, longer)
    <2>1. ~Clear(y)
      BY <1>9 DEF Clear
    <2> QED
      BY <1>1, <1>12, <2>1, WordInk
  <1>15. End(y) = <<at + (k + w), x.d.vpos>>
    BY <1>11 DEF End
  <1>16. Knows(x) => at = x.o.ohpos /\ x.d.vpos = x.o.ovpos
    BY <1>13 DEF Sound, Rest, Believed
  <1>17. Believed(y)
    <2>1. Knows(y) => Knows(x)
      BY <1>4 DEF Knows
    <2>2. x.o.ohpos \in Int /\ y.o.ohpos = x.o.ohpos + (w + k)
      BY <1>5 DEF Numbered, w
    <2>3. Knows(y) => at + (k + w) = y.o.ohpos
      BY <1>7, <1>16, <2>1, <2>2
    <2> QED
      BY <1>4, <1>15, <1>16, <2>1, <2>3 DEF Believed
  <1>18. Onward(x, y)
    BY <1>4 DEF Onward
  <1>19. Knows(x) => Adds(x, y, Mark(g, Look(x.d), x.o.ohpos, x.o.ovpos))
    BY <1>10, <1>13, <1>14, <1>16 DEF Adds, m
  <1> QED
    BY <1>3, <1>12, <1>17, <1>18, <1>19 DEF Sound, Rest

-----------------------------------------------------------------------------
\* The buffer is flushed and a word begins, or a character joins the one there.

LEMMA RightAfter ==
    ASSUME NEW x, NEW y, Sound(y), Onward(x, y), NEW n \in Int
    PROVE  LET z == Right(y, n)
           IN  /\ Sound(z) /\ Onward(x, z) /\ Ink(z) = Ink(y)
               /\ z.o.hpos = y.o.hpos + n
               /\ Clear(y) => Clear(z)
               /\ Found(y) => Found(z)
  <1> DEFINE z == Right(y, n)
  <1>1. /\ Sound(z) /\ Ink(z) = Ink(y) /\ OnlyOut(y, z, {"hpos"})
        /\ z.o.hpos = y.o.hpos + n
    BY RightSound
  <1>2. Onward(y, z)
    BY SoundIsBoth, RightOnward
  <1> HIDE DEF z
  <1>3. /\ z.o.tbuf = y.o.tbuf /\ z.o.must = y.o.must /\ z.o.vpos = y.o.vpos
        /\ z.o.ohpos = y.o.ohpos /\ z.o.ovpos = y.o.ovpos /\ z.d = y.d
    BY <1>1 DEF OnlyOut, OutKept, OutNames
  <1>4. (Clear(y) => Clear(z)) /\ (Found(y) => Found(z))
    BY <1>3 DEF Clear, Found, Met
  <1>5. Onward(x, z)
    BY <1>2, OnwardTrans
  <1> QED
    BY <1>1, <1>4, <1>5 DEF z

LEMMA FlushOnward ==
    ASSUME NEW x, Sound(x)
    PROVE  LET y == FlushTbuf(x)
           IN  /\ Sound(y) /\ Clear(y) /\ Ink(y) = Ink(x) /\ Onward(x, y)
               /\ y.o.hpos = x.o.hpos /\ (Found(x) => Found(y))
  <1> DEFINE y == FlushTbuf(x)
  <1>1. /\ Sound(y) /\ Clear(y) /\ Ink(y) = Ink(x)
        /\ Kept(x, y, {"tbuf"}, {"ink", "hpos"})
        /\ y.d = IF x.o.on /\ x.o.tbuf # <<>>
                 THEN SetWord(x.d, x.o.kern, x.o.tbuf) ELSE x.d
    BY FlushSound, FlushTbufKept, SoundIsBoth
  <1> HIDE DEF y
  <1>2. /\ y.o.on = x.o.on /\ y.o.color = x.o.color /\ y.o.vpos = x.o.vpos
        /\ y.o.hpos = x.o.hpos /\ y.o.must = x.o.must
        /\ y.o.ohpos = x.o.ohpos /\ y.o.ovpos = x.o.ovpos
    BY <1>1 DEF Kept, OutKept, OutNames
  <1>3. y.d.stroke = x.d.stroke /\ y.d.fill = x.d.fill
    BY <1>1 DEF Kept, DrvKept, DrvNames
  <1>4. Onward(x, y)
    BY <1>2, <1>3 DEF Onward
  <1>5. x.o.must => y.d = x.d
    BY <1>1 DEF Sound, Rest, Fitting
  <1>6. Found(x) => Found(y)
    BY <1>2, <1>5 DEF Found, Met
  <1> QED
    BY <1>1, <1>2, <1>4, <1>6 DEF y

LEMMA SelectOnward ==
    ASSUME NEW x, Sound(x), NEW tf, Selectable(tf)
    PROVE  LET y == SelectFont(x, tf)
           IN  /\ Sound(y) /\ Ink(y) = Ink(x) /\ Onward(x, y)
               /\ Selected(y.d, tf)
               /\ y.o.hpos = x.o.hpos /\ y.o.tcommand = x.o.tcommand
               /\ Clear(x) => Clear(y) /\ (Found(x) => Found(y))
  <1> DEFINE y == SelectFont(x, tf)
  <1>1. /\ Sound(y) /\ Ink(y) = Ink(x) /\ Selected(y.d, tf)
        /\ Clear(x) => Clear(y) /\ y.d.hpos = x.d.hpos
    BY SelectSound
  <1>k. Kept(x, y, FontOuts \cup {"tbuf"}, FontDrvs \cup {"ink", "hpos"})
    BY SelectSound, ZenonT(30)
  <1> HIDE DEF y
  <1>o. OutKept(x.o, y.o, FontOuts \cup {"tbuf"})
    BY <1>k DEF Kept
  <1>d. DrvKept(x.d, y.d, FontDrvs \cup {"ink", "hpos"})
    BY <1>k DEF Kept
  <1>2. /\ y.o.on = x.o.on /\ y.o.color = x.o.color /\ y.o.vpos = x.o.vpos
        /\ y.o.hpos = x.o.hpos /\ y.o.must = x.o.must
        /\ y.o.ohpos = x.o.ohpos /\ y.o.ovpos = x.o.ovpos
        /\ y.o.tcommand = x.o.tcommand
    BY <1>o DEF OutKept, OutNames, FontOuts
  <1>3. /\ y.d.stroke = x.d.stroke /\ y.d.fill = x.d.fill
        /\ y.d.vpos = x.d.vpos
    BY <1>d DEF DrvKept, DrvNames, FontDrvs
  <1>4. Onward(x, y)
    BY <1>2, <1>3 DEF Onward
  <1>5. Clear(x) => (Found(x) => Found(y))
    BY <1>1, <1>2, <1>3, ZenonT(30) DEF Found, Met
  <1> QED
    BY <1>1, <1>2, <1>4, <1>5 DEF y

\* A character joins the buffer, or begins one.
LEMMA BeginWordSound ==
    ASSUME NEW x, NEW tf, NEW g \in Glyphs, NEW k \in Int, NEW sc, NEW fc,
           Sound(x), x.o.on, x.o.tcommand, Selectable(tf), Selected(x.d, tf)
    PROVE  LET w == Width[g][tf.name][tf.size] + k
               y == [Buffer(Ready(x, sc, fc), g, w) EXCEPT !.o.kern = k]
           IN  /\ Sound(y) /\ Onward(x, y) /\ y.o.hpos = x.o.hpos + w
               /\ Normal /\ sc # NoColor /\ fc # NoColor =>
                     Adds(x, y, Mark(g, LookFor(x, tf, sc, fc), x.o.hpos,
                                     x.o.vpos))
  <1> DEFINE w == Width[g][tf.name][tf.size] + k
             p == Ready(x, sc, fc)
             y == [Buffer(p, g, w) EXCEPT !.o.kern = k]
  <1>1. /\ Sound(p) /\ Clear(p) /\ Ink(p) = Ink(x)
        /\ Kept(x, p, ColorOuts, ColorDrvs)
        /\ p.o.ohpos = x.o.hpos /\ p.o.ovpos = x.o.vpos /\ ~p.o.must
        /\ Knows(p) => Met(p)
        /\ ~x.o.color => p.d.stroke = x.d.stroke /\ p.d.fill = x.d.fill
    BY ReadySound
  <1>2. Normal /\ sc # NoColor /\ fc # NoColor =>
           Look(p.d) = LookFor(x, tf, sc, fc)
    BY ReadyLook
  <1> HIDE DEF p
  <1>3. /\ p.o.hpos = x.o.hpos /\ p.o.vpos = x.o.vpos /\ p.o.on = x.o.on
        /\ p.o.color = x.o.color /\ p.o.tcommand = x.o.tcommand
        /\ Selected(p.d, tf)
    BY <1>1, ReadyKept
  <1>4. Onward(x, p)
    BY <1>1, <1>3, ZenonT(30) DEF Onward
  <1>5. IsBoth(p)
    BY <1>1, SoundIsBoth, ZenonT(30)
  <1>6. /\ Kept(p, y, {"tbuf", "ohpos", "hpos", "kern"}, {}) /\ y.d = p.d
        /\ y.o.tbuf = Append(p.o.tbuf, g) /\ y.o.kern = k
        /\ y.o.ohpos = p.o.ohpos + w /\ y.o.hpos = p.o.ohpos + w
    BY <1>5
    DEF Buffer, IsBoth, IsOut, OutNames, Kept, OutKept, DrvKept
  <1> HIDE DEF y
  <1>7. Len(p.o.tbuf) < TbufSize
    BY <1>1, OutputFileAssumption DEF Clear
  <1>8. /\ Sound(y) /\ Onward(p, y)
        /\ Knows(p) => Adds(p, y, Mark(g, Look(p.d), p.o.ohpos, p.o.ovpos))
    BY <1>1, <1>3, <1>6, <1>7, BufferSound
  <1>9. Onward(x, y)
    BY <1>4, <1>8, OnwardTrans
  <1>10. ASSUME Normal, sc # NoColor, fc # NoColor
         PROVE  Adds(x, y, Mark(g, LookFor(x, tf, sc, fc), x.o.hpos, x.o.vpos))
    <2>1. Knows(p)
      BY <1>1, <1>10 DEF Knows, Normal
    <2> QED
      BY <1>1, <1>2, <1>8, <1>10, <2>1 DEF Adds
  <1>11. y.o.hpos = x.o.hpos + w
    BY <1>1, <1>6
  <1> HIDE DEF w
  <1>12. /\ Sound(y) /\ Onward(x, y) /\ y.o.hpos = x.o.hpos + w
         /\ Normal /\ sc # NoColor /\ fc # NoColor =>
               Adds(x, y, Mark(g, LookFor(x, tf, sc, fc), x.o.hpos, x.o.vpos))
    BY <1>8, <1>9, <1>10, <1>11
  <1> QED
    BY <1>12, ZenonT(30) DEF w, y, p

LEMMA JoinWordSound ==
    ASSUME NEW x, NEW tf, NEW g \in Glyphs, NEW k \in Int, NEW sc, NEW fc,
           Sound(x), x.o.on, Joins(x, sc, fc, k),
           Selectable(tf), Selected(x.d, tf)
    PROVE  LET w == Width[g][tf.name][tf.size] + k
               y == Buffer(x, g, w)
           IN  /\ Sound(y) /\ Onward(x, y) /\ y.o.hpos = x.o.hpos + w
               /\ Normal /\ sc # NoColor /\ fc # NoColor =>
                     Adds(x, y, Mark(g, LookFor(x, tf, sc, fc), x.o.hpos,
                                     x.o.vpos))
  <1> DEFINE w == Width[g][tf.name][tf.size] + k
             y == Buffer(x, g, w)
  <1>1. IsBoth(x)
    BY SoundIsBoth
  <1>2. /\ x.o.tbuf # <<>> /\ Len(x.o.tbuf) < TbufSize /\ x.o.kern = k
        /\ x.o.hpos = x.o.ohpos /\ x.o.vpos = x.o.ovpos
        /\ HasColors(x, sc, fc)
    BY DEF Joins
  <1>3. ~x.o.must /\ x.o.tcommand
    BY <1>2 DEF Sound, Rest, Fitting
  <1>4. /\ Kept(x, y, {"tbuf", "ohpos", "hpos", "kern"}, {}) /\ y.d = x.d
        /\ y.o.tbuf = Append(x.o.tbuf, g) /\ y.o.kern = k
        /\ y.o.ohpos = x.o.ohpos + w /\ y.o.hpos = x.o.ohpos + w
    BY <1>1, <1>2
    DEF Buffer, IsBoth, IsOut, OutNames, Kept, OutKept, DrvKept
  <1> HIDE DEF y
  <1>5. /\ Sound(y) /\ Onward(x, y)
        /\ Knows(x) => Adds(x, y, Mark(g, Look(x.d), x.o.ohpos, x.o.ovpos))
    BY <1>2, <1>3, <1>4, BufferSound
  <1>6. ASSUME Normal, sc # NoColor, fc # NoColor
        PROVE  Adds(x, y, Mark(g, LookFor(x, tf, sc, fc), x.o.hpos, x.o.vpos))
    <2>1. Knows(x)
      BY <1>3, <1>6 DEF Knows, Normal
    <2>2. StrokeFor(x, sc) = x.d.stroke /\ FillFor(x, fc) = x.d.fill
      BY <1>2, <1>6, ColorsLook DEF Normal, Sound
    <2>3. Look(x.d) = [font |-> tf.name, size |-> tf.size,
                       height |-> IF tf.height = 0 THEN tf.size
                                  ELSE tf.height,
                       slant |-> tf.slant,
                       stroke |-> x.d.stroke, fill |-> x.d.fill]
      BY <1>1, <1>6, SelectedLook DEF Normal, IsBoth
    <2>4. Look(x.d) = LookFor(x, tf, sc, fc)
      BY <2>2, <2>3 DEF LookFor
    <2> QED
      BY <1>2, <1>5, <2>1, <2>4
  <1>7. y.o.hpos = x.o.hpos + w
    BY <1>2, <1>4
  <1> HIDE DEF w
  <1>8. /\ Sound(y) /\ Onward(x, y) /\ y.o.hpos = x.o.hpos + w
        /\ Normal /\ sc # NoColor /\ fc # NoColor =>
              Adds(x, y, Mark(g, LookFor(x, tf, sc, fc), x.o.hpos, x.o.vpos))
    BY <1>5, <1>6, <1>7
  <1> QED
    BY <1>8 DEF w, y

-----------------------------------------------------------------------------
\* A mark where x is, asked for with a font and colors.
MarkAt(x, g, tf, sc, fc) == Mark(g, LookFor(x, tf, sc, fc), x.o.hpos, x.o.vpos)

\* One of the ways to set a character, once its font is selected.
Sets(x, y, g, tf, sc, fc, n) ==
    /\ Sound(y) /\ Onward(x, y) /\ y.o.hpos = x.o.hpos + n
    /\ Normal /\ sc # NoColor /\ fc # NoColor =>
          Adds(x, y, MarkAt(x, g, tf, sc, fc))

LEMMA SetsAfter ==
    ASSUME NEW x, NEW y, NEW z, NEW g, NEW tf, NEW sc, NEW fc, NEW n,
           Onward(x, y), Ink(y) = Ink(x), y.o.hpos = x.o.hpos,
           Sets(y, z, g, tf, sc, fc, n)
    PROVE  Sets(x, z, g, tf, sc, fc, n)
  <1>1. LookFor(y, tf, sc, fc) = LookFor(x, tf, sc, fc)
    BY OnwardFor
  <1>2. y.o.vpos = x.o.vpos
    BY DEF Onward
  <1>3. MarkAt(y, g, tf, sc, fc) = MarkAt(x, g, tf, sc, fc)
    BY <1>1, <1>2 DEF MarkAt
  <1>4. Onward(x, z)
    BY OnwardTrans DEF Sets
  <1> QED
    BY <1>3, <1>4 DEF Sets, Adds

LEMMA SetsRight ==
    ASSUME NEW x, NEW y, NEW g, NEW tf, NEW sc, NEW fc, NEW n \in Int,
           x.o.hpos \in Int, Sets(x, y, g, tf, sc, fc, 0)
    PROVE  Sets(x, Right(y, n), g, tf, sc, fc, n)
  <1> DEFINE z == Right(y, n)
  <1>1. /\ Sound(z) /\ Onward(x, z) /\ Ink(z) = Ink(y)
        /\ z.o.hpos = y.o.hpos + n
    BY RightAfter DEF Sets
  <1> HIDE DEF z
  <1>2. z.o.hpos = x.o.hpos + n
    BY <1>1 DEF Sets
  <1>3. Sets(x, z, g, tf, sc, fc, n)
    BY <1>1, <1>2 DEF Sets, Adds
  <1> QED
    BY <1>3 DEF z

LEMMA HereSets ==
    ASSUME NEW x, Sound(x), NEW tf, Selectable(tf), Selected(x.d, tf),
           NEW g, NEW sc, NEW fc
    PROVE  LET y == SetHere(x, g, sc, fc)
           IN  Sets(x, y, g, tf, sc, fc, 0) /\ Clear(y) /\ ~y.o.must
  <1> DEFINE y == SetHere(x, g, sc, fc)
  <1>1. /\ Sound(y) /\ Clear(y) /\ ~y.o.must
        /\ Onward(x, y) /\ y.o.hpos = x.o.hpos
        /\ Normal /\ sc # NoColor /\ fc # NoColor =>
              Adds(x, y, Mark(g, LookFor(x, tf, sc, fc), x.o.hpos, x.o.vpos))
    BY SetHereSound
  <1> HIDE DEF y
  <1>2. x.o.hpos \in Int
    BY DEF Sound, Rest, Typed, Numbered
  <1>3. y.o.hpos = x.o.hpos + 0
    BY <1>1, <1>2
  <1>4. Sets(x, y, g, tf, sc, fc, 0)
    BY <1>1, <1>3 DEF Sets, MarkAt
  <1> QED
    BY <1>1, <1>4 DEF y

LEMMA NearSets ==
    ASSUME NEW x, Sound(x), Clear(x), NEW tf, Selectable(tf), Selected(x.d, tf),
           NEW g, NEW sc, NEW fc, IsNear(x, sc, fc), Normal => Found(x)
    PROVE  LET y == SetNear(x, g)
           IN  /\ Sets(x, y, g, tf, sc, fc, 0) /\ Clear(y)
               /\ Found(x) => Found(y)
  <1> DEFINE y == SetNear(x, g)
  <1>1. x.o.vpos = x.o.ovpos /\ HasColors(x, sc, fc)
    BY DEF IsNear
  <1>2. /\ Sound(y) /\ Clear(y) /\ Onward(x, y) /\ y.o.hpos = x.o.hpos
        /\ Found(x) => Found(y)
        /\ Normal /\ Found(x) /\ sc # NoColor /\ fc # NoColor =>
              Adds(x, y, Mark(g, LookFor(x, tf, sc, fc), x.o.hpos, x.o.vpos))
    BY <1>1, SetNearSound
  <1> HIDE DEF y
  <1>3. x.o.hpos \in Int
    BY DEF Sound, Rest, Typed, Numbered
  <1>4. y.o.hpos = x.o.hpos + 0
    BY <1>2, <1>3
  <1>5. Normal /\ sc # NoColor /\ fc # NoColor =>
           Adds(x, y, MarkAt(x, g, tf, sc, fc))
    BY <1>2 DEF MarkAt
  <1>6. Sets(x, y, g, tf, sc, fc, 0)
    BY <1>2, <1>4, <1>5 DEF Sets
  <1> QED
    BY <1>2, <1>6 DEF y

LEMMA WordSets ==
    ASSUME NEW x, NEW tf, NEW g \in Glyphs, NEW k \in Int, NEW sc, NEW fc,
           Sound(x), x.o.on, x.o.tcommand, Selectable(tf), Selected(x.d, tf)
    PROVE  LET n == Width[g][tf.name][tf.size] + k
           IN  /\ Sets(x, [Buffer(Ready(x, sc, fc), g, n) EXCEPT !.o.kern = k],
                       g, tf, sc, fc, n)
               /\ Joins(x, sc, fc, k) =>
                     Sets(x, Buffer(x, g, n), g, tf, sc, fc, n)
  <1> DEFINE n == Width[g][tf.name][tf.size] + k
             y == [Buffer(Ready(x, sc, fc), g, n) EXCEPT !.o.kern = k]
             z == Buffer(x, g, n)
  <1>1. /\ Sound(y) /\ Onward(x, y) /\ y.o.hpos = x.o.hpos + n
        /\ Normal /\ sc # NoColor /\ fc # NoColor =>
              Adds(x, y, Mark(g, LookFor(x, tf, sc, fc), x.o.hpos, x.o.vpos))
    BY BeginWordSound
  <1>2. ASSUME Joins(x, sc, fc, k)
        PROVE  /\ Sound(z) /\ Onward(x, z) /\ z.o.hpos = x.o.hpos + n
               /\ Normal /\ sc # NoColor /\ fc # NoColor =>
                     Adds(x, z, Mark(g, LookFor(x, tf, sc, fc), x.o.hpos,
                                     x.o.vpos))
    BY <1>2, JoinWordSound
  <1> HIDE DEF y, z, n
  <1>3. Sets(x, y, g, tf, sc, fc, n)
    BY <1>1, Zenon DEF Sets, MarkAt
  <1>4. Joins(x, sc, fc, k) => Sets(x, z, g, tf, sc, fc, n)
    BY <1>2, Zenon DEF Sets, MarkAt
  <1> QED
    BY <1>3, <1>4 DEF n, y, z

\* A character is set and the drawing position moved on.
LEMMA PutCharWidthSound ==
    ASSUME NEW x, NEW tf, NEW g \in Glyphs, NEW k \in Int, NEW sc, NEW fc,
           Sound(x), Selectable(tf)
    PROVE  LET w == Width[g][tf.name][tf.size]
               y == PutCharWidth(x, g, tf, sc, fc, w, k)
           IN  /\ Sound(y) /\ Onward(x, y) /\ y.o.hpos = x.o.hpos + (w + k)
               /\ ~x.o.on => Ink(y) = Ink(x)
               /\ x.o.on => Sets(x, y, g, tf, sc, fc, w + k)
  <1> DEFINE w == Width[g][tf.name][tf.size]
             n == w + k
             r == PutCharWidth(x, g, tf, sc, fc, w, k)
             y == SelectFont(x, tf)
             off == Right(FlushTbuf(x), n)
             here == Right(SetHere(y, g, sc, fc), n)
             near == Right(SetNear(y, g), n)
             word == [Buffer(Ready(y, sc, fc), g, n) EXCEPT !.o.kern = k]
             joined == Buffer(y, g, n)
  <1>1. r = IF ~x.o.on THEN off
            ELSE IF g \in Specials THEN here
            ELSE IF x.o.tcommand
            THEN IF Joins(y, sc, fc, k) THEN joined ELSE word
            ELSE IF IsNear(y, sc, fc) /\ ~y.o.must THEN near ELSE here
    BY DEF PutCharWidth, Ready
  <1>2. w \in Int /\ n \in Int /\ x.o.hpos \in Int
    <2>1. tf.name \in Fonts /\ tf.size \in Sizes
      BY DEF Selectable
    <2>2. Width[g] \in [Fonts -> [Sizes -> Nat]]
      BY OutputFileAssumption
    <2>3. Width[g][tf.name] \in [Sizes -> Nat]
      BY <2>1, <2>2
    <2>4. w \in Nat
      BY <2>1, <2>3
    <2>5. x.o.hpos \in Int
      BY DEF Sound, Rest, Typed, Numbered
    <2> QED
      BY <2>4, <2>5
  <1>3. /\ Sound(y) /\ Ink(y) = Ink(x) /\ Onward(x, y) /\ Selected(y.d, tf)
        /\ y.o.hpos = x.o.hpos /\ y.o.tcommand = x.o.tcommand
        /\ Clear(x) => Clear(y)
    BY SelectOnward
  <1>4. /\ Sound(off) /\ Onward(x, off) /\ off.o.hpos = x.o.hpos + n
        /\ Ink(off) = Ink(x)
    <2> DEFINE f == FlushTbuf(x)
    <2>1. Sound(f) /\ Ink(f) = Ink(x) /\ Onward(x, f) /\ f.o.hpos = x.o.hpos
      BY FlushOnward
    <2>2. n \in Int
      BY <1>2
    <2> HIDE DEF f, n
    <2> DEFINE z == Right(f, n)
    <2>3. Sound(z) /\ Onward(x, z) /\ Ink(z) = Ink(f)
          /\ z.o.hpos = f.o.hpos + n
      BY <2>1, <2>2, RightAfter
    <2> HIDE DEF z
    <2>4. z.o.hpos = x.o.hpos + n /\ Ink(z) = Ink(x)
      BY <2>1, <2>3
    <2> QED
      BY <2>3, <2>4 DEF f, z
  <1>5. y.o.hpos \in Int /\ (y.o.on <=> x.o.on)
    BY <1>2, <1>3 DEF Onward
  <1> HIDE DEF y, n
  <1>6. Sets(x, here, g, tf, sc, fc, n)
    BY <1>2, <1>3, <1>5, HereSets, SetsRight, SetsAfter
  <1>7. ASSUME x.o.on, x.o.tcommand
        PROVE  /\ Sets(x, word, g, tf, sc, fc, n)
               /\ Joins(y, sc, fc, k) => Sets(x, joined, g, tf, sc, fc, n)
    <2>1. /\ Sets(y, word, g, tf, sc, fc, n)
          /\ Joins(y, sc, fc, k) => Sets(y, joined, g, tf, sc, fc, n)
      BY <1>3, <1>5, <1>7, WordSets DEF n
    <2> HIDE DEF word, joined
    <2> QED
      BY <1>3, <2>1, SetsAfter
  <1>8. ASSUME ~x.o.tcommand, IsNear(y, sc, fc), ~y.o.must
        PROVE  Sets(x, near, g, tf, sc, fc, n)
    <2>1. Clear(y)
      BY <1>3, <1>8 DEF Sound, Rest, Fitting, Clear
    <2>2. Found(y)
      BY <1>8 DEF Found
    <2>3. Sets(y, SetNear(y, g), g, tf, sc, fc, 0)
      BY <1>3, <1>8, <2>1, <2>2, NearSets
    <2>4. Sets(y, near, g, tf, sc, fc, n)
      BY <1>2, <1>5, <2>3, SetsRight
    <2> HIDE DEF near
    <2> QED
      BY <1>3, <2>4, SetsAfter
  <1> HIDE DEF off, here, near, word, joined, r
  <1>9. /\ Sound(r) /\ Onward(x, r) /\ r.o.hpos = x.o.hpos + n
        /\ ~x.o.on => Ink(r) = Ink(x)
        /\ x.o.on => Sets(x, r, g, tf, sc, fc, n)
    <2>1. CASE ~x.o.on
      BY <1>1, <1>4, <2>1
    <2>2. CASE x.o.on
      <3>1. Sets(x, r, g, tf, sc, fc, n)
        BY <1>1, <1>6, <1>7, <1>8, <2>2
      <3> QED
        BY <2>2, <3>1 DEF Sets
    <2> QED
      BY <2>1, <2>2
  <1> QED
    BY <1>9 DEF r, n

-----------------------------------------------------------------------------
\* The two ways to set a character, and the glyph nodes that use them.

LEMMA PutCharSound ==
    ASSUME NEW x, NEW tf, NEW g, NEW sc, NEW fc, Sound(x), Selectable(tf)
    PROVE  LET y == PutChar(x, g, tf, sc, fc)
           IN  /\ Sound(y) /\ Onward(x, y) /\ y.o.hpos = x.o.hpos
               /\ Found(x) => Found(y)
               /\ ~x.o.on => Ink(y) = Ink(x)
               /\ x.o.on /\ Found(x) => Sets(x, y, g, tf, sc, fc, 0)
  <1> DEFINE r == PutChar(x, g, tf, sc, fc)
             f == FlushTbuf(x)
             y == SelectFont(f, tf)
             near == SetNear(y, g)
             here == SetHere(y, g, sc, fc)
  <1>1. r = IF ~x.o.on THEN f
            ELSE IF g \in Chars /\ IsNear(y, sc, fc) THEN near ELSE here
    BY DEF PutChar
  <1>2. /\ Sound(f) /\ Clear(f) /\ Ink(f) = Ink(x) /\ Onward(x, f)
        /\ f.o.hpos = x.o.hpos /\ (Found(x) => Found(f))
    BY FlushOnward
  <1> HIDE DEF f
  <1>3. /\ Sound(y) /\ Ink(y) = Ink(f) /\ Onward(f, y) /\ Selected(y.d, tf)
        /\ y.o.hpos = f.o.hpos /\ Clear(y) /\ (Found(f) => Found(y))
    BY <1>2, SelectOnward
  <1> HIDE DEF y
  <1>4. Onward(x, y) /\ Ink(y) = Ink(x) /\ y.o.hpos = x.o.hpos
    BY <1>2, <1>3, OnwardTrans
  <1>5. Sets(y, here, g, tf, sc, fc, 0) /\ ~here.o.must
    BY <1>3, HereSets
  <1>6. IsNear(y, sc, fc) =>
           /\ Sound(near) /\ Onward(y, near) /\ near.o.hpos = y.o.hpos
           /\ Found(y) => Found(near)
    <2> HAVE IsNear(y, sc, fc)
    <2>1. y.o.vpos = y.o.ovpos /\ HasColors(y, sc, fc)
      BY DEF IsNear
    <2> QED
      BY <1>3, <2>1, SetNearSound
  <1>7. IsNear(y, sc, fc) /\ Found(y) => Sets(y, near, g, tf, sc, fc, 0)
    BY <1>3, NearSets
  <1> HIDE DEF near, here, r
  <1>8. Sets(x, here, g, tf, sc, fc, 0)
    BY <1>4, <1>5, SetsAfter
  <1>9. IsNear(y, sc, fc) /\ Found(y) => Sets(x, near, g, tf, sc, fc, 0)
    BY <1>4, <1>7, SetsAfter
  <1>10. x.o.hpos \in Int
    BY DEF Sound, Rest, Typed, Numbered
  <1>11. /\ Sound(here) /\ Onward(x, here) /\ here.o.hpos = x.o.hpos
         /\ Found(here)
    BY <1>5, <1>8, <1>10 DEF Sets, Found
  <1>12. IsNear(y, sc, fc) =>
            /\ Sound(near) /\ Onward(x, near) /\ near.o.hpos = x.o.hpos
            /\ Found(x) => Found(near)
    BY <1>2, <1>3, <1>4, <1>6, OnwardTrans
  <1>13. /\ Sound(r) /\ Onward(x, r) /\ r.o.hpos = x.o.hpos
         /\ Found(x) => Found(r)
         /\ ~x.o.on => Ink(r) = Ink(x)
    BY <1>1, <1>2, <1>11, <1>12
  <1>14. x.o.on /\ Found(x) => Sets(x, r, g, tf, sc, fc, 0)
    BY <1>1, <1>2, <1>3, <1>8, <1>9
  <1> QED
    BY <1>13, <1>14 DEF r

\* What a glyph of a font asks for, from where x is.
First(x, g, tf, sc, fc) ==
    Mark(g, LookFor(x, Plain(tf), sc, fc), x.o.hpos + Before(g, tf), x.o.vpos)

Second(x, g, tf, sc, fc) ==
    Mark(g, LookFor(x, Plain(tf), sc, fc),
         x.o.hpos + Before(g, tf) + tf.bold, x.o.vpos)

\* A glyph is printed, twice if its font is emboldened.
Prints(x, y, g, tf, sc, fc) ==
    /\ Sound(y) /\ Onward(x, y)
    /\ ~x.o.on => Ink(y) = Ink(x)
    /\ x.o.on /\ Normal /\ sc # NoColor /\ fc # NoColor =>
          Ink(y) = IF tf.bold = 0
                   THEN Append(Ink(x), First(x, g, tf, sc, fc))
                   ELSE Append(Append(Ink(x), First(x, g, tf, sc, fc)),
                               Second(x, g, tf, sc, fc))

LEMMA GlyphTyped ==
    ASSUME NEW tf \in Tfonts, NEW g \in Glyphs
    PROVE  /\ tf.name \in Fonts /\ tf.size \in Sizes /\ tf.bold \in Int
           /\ Before(g, tf) \in Int /\ After(g, tf) \in Int
           /\ GlyphWidth(g, tf) \in Int
           /\ Selectable(Plain(tf))
           /\ Plain(tf).name = tf.name /\ Plain(tf).size = tf.size
  <1>1. /\ tf.name \in Fonts /\ tf.size \in Sizes
        /\ tf.bold \in Int /\ tf.kern \in Int /\ tf.cs \in Int
    BY OutputFileAssumption
  <1>2. Width[g] \in [Fonts -> [Sizes -> Nat]]
    BY OutputFileAssumption
  <1>3. Width[g][tf.name] \in [Sizes -> Nat]
    BY <1>1, <1>2
  <1>4. GlyphWidth(g, tf) \in Int
    BY <1>1, <1>3 DEF GlyphWidth
  <1>5. Before(g, tf) \in Int
    BY <1>1, <1>4 DEF Before
  <1>6. After(g, tf) \in Int
    BY <1>1, <1>4, <1>5 DEF After
  <1>7. Selectable(Plain(tf))
    BY PlainSelectable
  <1> QED
    BY <1>1, <1>4, <1>5, <1>6, <1>7 DEF Plain

LEMMA GlyphTprintSound ==
    ASSUME NEW x, NEW tf \in Tfonts, NEW g \in Glyphs, NEW sc, NEW fc,
           Sound(x), tf.bold # 0 /\ Normal => Found(x)
    PROVE  LET y == GlyphTprint(x, g, tf, sc, fc)
           IN  /\ Prints(x, y, g, tf, sc, fc)
               /\ y.o.hpos = x.o.hpos + Advance(g, tf)
  <1> DEFINE b == Before(g, tf)
             w == GlyphWidth(g, tf)
             k == After(g, tf)
             font == Plain(tf)
             y == Right(x, b)
             c == PutChar(y, g, font, sc, fc)
             z == IF tf.bold = 0 THEN y ELSE Right(c, tf.bold)
             r == PutCharWidth(z, g, font, sc, fc, w, k)
             s == GlyphTprint(x, g, tf, sc, fc)
  <1>1. s = r
    BY DEF GlyphTprint
  <1>2. /\ Selectable(font) /\ b \in Int /\ w \in Int /\ k \in Int
        /\ tf.bold \in Int /\ w = Width[g][font.name][font.size]
    BY GlyphTyped DEF GlyphWidth
  <1>3. x.o.hpos \in Int
    BY DEF Sound, Rest, Typed, Numbered
  <1>4. Advance(g, tf) = b + tf.bold + w + k
    BY DEF Advance
  <1> HIDE DEF b, w, k, font, s
  <1>5. /\ Sound(y) /\ Onward(x, y) /\ Ink(y) = Ink(x)
        /\ y.o.hpos = x.o.hpos + b /\ (Found(x) => Found(y))
    <2>1. Onward(x, x)
      BY DEF Onward
    <2> QED
      BY <1>2, <2>1, RightAfter
  <1> HIDE DEF y
  <1>6. /\ Sound(c) /\ Onward(y, c) /\ c.o.hpos = y.o.hpos
        /\ ~y.o.on => Ink(c) = Ink(y)
        /\ y.o.on /\ Found(y) => Sets(y, c, g, font, sc, fc, 0)
    BY <1>2, <1>5, PutCharSound
  <1> HIDE DEF c
  <1>7. /\ Sound(Right(c, tf.bold)) /\ Onward(x, Right(c, tf.bold))
        /\ Ink(Right(c, tf.bold)) = Ink(c)
        /\ Right(c, tf.bold).o.hpos = c.o.hpos + tf.bold
    <2>1. Onward(x, c)
      BY <1>5, <1>6, OnwardTrans
    <2> QED
      BY <1>2, <1>6, <2>1, RightAfter
  <1>8. /\ Sound(z) /\ Onward(x, z) /\ z.o.hpos = x.o.hpos + b + tf.bold
        /\ Ink(z) = IF tf.bold = 0 THEN Ink(x) ELSE Ink(c)
    <2>1. x.o.hpos + b + 0 = x.o.hpos + b
      BY <1>2, <1>3
    <2> QED
      BY <1>5, <1>6, <1>7, <2>1
  <1> HIDE DEF z
  <1>9. /\ Sound(r) /\ Onward(z, r) /\ r.o.hpos = z.o.hpos + (w + k)
        /\ ~z.o.on => Ink(r) = Ink(z)
        /\ z.o.on => Sets(z, r, g, font, sc, fc, w + k)
    <2> DEFINE n == Width[g][font.name][font.size]
               q == PutCharWidth(z, g, font, sc, fc, n, k)
    <2>1. /\ Sound(q) /\ Onward(z, q) /\ q.o.hpos = z.o.hpos + (n + k)
          /\ ~z.o.on => Ink(q) = Ink(z)
          /\ z.o.on => Sets(z, q, g, font, sc, fc, n + k)
      BY <1>2, <1>8, PutCharWidthSound
    <2>2. n = w /\ q = r
      BY <1>2
    <2> HIDE DEF n, q, r
    <2> QED
      BY <2>1, <2>2
  <1> HIDE DEF r
  <1>10. r.o.hpos = x.o.hpos + Advance(g, tf)
    BY <1>2, <1>3, <1>4, <1>8, <1>9
  <1>11. Onward(x, r) /\ (z.o.on <=> x.o.on) /\ (y.o.on <=> x.o.on)
    BY <1>5, <1>8, <1>9, OnwardTrans DEF Onward
  <1>12. ~x.o.on => Ink(r) = Ink(x)
    BY <1>5, <1>6, <1>8, <1>9, <1>11
  <1>13. ASSUME x.o.on, Normal, sc # NoColor, fc # NoColor
         PROVE  Ink(r) = IF tf.bold = 0
                         THEN Append(Ink(x), First(x, g, tf, sc, fc))
                         ELSE Append(Append(Ink(x), First(x, g, tf, sc, fc)),
                                     Second(x, g, tf, sc, fc))
    <2>1. Ink(r) = Append(Ink(z), MarkAt(z, g, font, sc, fc))
      BY <1>9, <1>11, <1>13 DEF Sets, Adds
    <2>2. LookFor(z, font, sc, fc) = LookFor(x, font, sc, fc)
          /\ LookFor(y, font, sc, fc) = LookFor(x, font, sc, fc)
      BY <1>5, <1>8, OnwardFor
    <2>3. z.o.vpos = x.o.vpos /\ y.o.vpos = x.o.vpos
      BY <1>5, <1>8 DEF Onward
    <2>4. MarkAt(z, g, font, sc, fc) = Second(x, g, tf, sc, fc)
      BY <1>8, <2>2, <2>3 DEF MarkAt, Second, b, font
    <2>5. MarkAt(y, g, font, sc, fc) = First(x, g, tf, sc, fc)
      BY <1>5, <2>2, <2>3 DEF MarkAt, First, b, font
    <2>6. CASE tf.bold = 0
      <3>1. z.o.hpos = x.o.hpos + b
        BY <1>2, <1>3, <1>8, <2>6
      <3>2. MarkAt(z, g, font, sc, fc) = First(x, g, tf, sc, fc)
        BY <2>2, <2>3, <3>1 DEF MarkAt, First, b, font
      <3> QED
        BY <1>8, <2>1, <2>6, <3>2
    <2>7. CASE tf.bold # 0
      <3>1. Sets(y, c, g, font, sc, fc, 0)
        BY <1>5, <1>6, <1>11, <1>13, <2>7
      <3>2. Ink(c) = Append(Ink(x), First(x, g, tf, sc, fc))
        BY <1>5, <1>13, <2>5, <3>1 DEF Sets, Adds
      <3> QED
        BY <1>8, <2>1, <2>4, <2>7, <3>2
    <2> QED
      BY <2>6, <2>7
  <1>14. Prints(x, r, g, tf, sc, fc)
    BY <1>9, <1>11, <1>12, <1>13 DEF Prints
  <1> QED
    BY <1>1, <1>10, <1>14 DEF s

LEMMA GlyphZeroWidthTprintSound ==
    ASSUME NEW x, NEW tf \in Tfonts, NEW g \in Glyphs, NEW sc, NEW fc,
           Sound(x), Normal => Found(x)
    PROVE  LET y == GlyphZeroWidthTprint(x, g, tf, sc, fc)
           IN  /\ Prints(x, y, g, tf, sc, fc) /\ y.o.hpos = x.o.hpos
  <1> DEFINE b == Before(g, tf)
             font == Plain(tf)
             x1 == Right(x, b)
             y == PutChar(x1, g, font, sc, fc)
             y1 == Right(y, tf.bold)
             c == PutChar(y1, g, font, sc, fc)
             c1 == Right(c, -tf.bold)
             z == IF tf.bold = 0 THEN y ELSE c1
             r == Right(z, -b)
             s == GlyphZeroWidthTprint(x, g, tf, sc, fc)
  <1>1. s = r
    BY DEF GlyphZeroWidthTprint
  <1>2. /\ Selectable(font) /\ b \in Int /\ tf.bold \in Int
        /\ -tf.bold \in Int /\ -b \in Int
    BY GlyphTyped
  <1>3. x.o.hpos \in Int
    BY DEF Sound, Rest, Typed, Numbered
  <1> HIDE DEF b, font, s
  <1>4. /\ Sound(x1) /\ Onward(x, x1) /\ Ink(x1) = Ink(x)
        /\ x1.o.hpos = x.o.hpos + b /\ (Found(x) => Found(x1))
    <2>1. Onward(x, x)
      BY DEF Onward
    <2> QED
      BY <1>2, <2>1, RightAfter
  <1> HIDE DEF x1
  <1>5. /\ Sound(y) /\ Onward(x1, y) /\ y.o.hpos = x1.o.hpos
        /\ Found(x1) => Found(y)
        /\ ~x1.o.on => Ink(y) = Ink(x1)
        /\ x1.o.on /\ Found(x1) => Sets(x1, y, g, font, sc, fc, 0)
    BY <1>2, <1>4, PutCharSound
  <1> HIDE DEF y
  <1>6. Onward(x, y)
    BY <1>4, <1>5, OnwardTrans
  <1>7. /\ Sound(y1) /\ Onward(x, y1) /\ Ink(y1) = Ink(y)
        /\ y1.o.hpos = y.o.hpos + tf.bold /\ (Found(y) => Found(y1))
    BY <1>2, <1>5, <1>6, RightAfter
  <1> HIDE DEF y1
  <1>8. /\ Sound(c) /\ Onward(y1, c) /\ c.o.hpos = y1.o.hpos
        /\ ~y1.o.on => Ink(c) = Ink(y1)
        /\ y1.o.on /\ Found(y1) => Sets(y1, c, g, font, sc, fc, 0)
    BY <1>2, <1>7, PutCharSound
  <1> HIDE DEF c
  <1>9. Onward(x, c)
    BY <1>7, <1>8, OnwardTrans
  <1>10. /\ Sound(c1) /\ Onward(x, c1) /\ Ink(c1) = Ink(c)
         /\ c1.o.hpos = c.o.hpos + -tf.bold
    BY <1>2, <1>8, <1>9, RightAfter
  <1> HIDE DEF c1
  <1>11. /\ Sound(z) /\ Onward(x, z) /\ z.o.hpos = x.o.hpos + b
         /\ Ink(z) = IF tf.bold = 0 THEN Ink(y) ELSE Ink(c)
    <2>1. c1.o.hpos = x.o.hpos + b
      BY <1>2, <1>3, <1>4, <1>5, <1>7, <1>8, <1>10
    <2> QED
      BY <1>4, <1>5, <1>6, <1>10, <2>1
  <1> HIDE DEF z
  <1>12. /\ Sound(r) /\ Onward(x, r) /\ Ink(r) = Ink(z)
         /\ r.o.hpos = z.o.hpos + -b
    BY <1>2, <1>11, RightAfter
  <1> HIDE DEF r
  <1>13. r.o.hpos = x.o.hpos
    BY <1>2, <1>3, <1>11, <1>12
  <1>14. (x1.o.on <=> x.o.on) /\ (y1.o.on <=> x.o.on)
    BY <1>4, <1>7 DEF Onward
  <1>15. ~x.o.on => Ink(r) = Ink(x)
    BY <1>4, <1>5, <1>7, <1>8, <1>11, <1>12, <1>14
  <1>16. ASSUME x.o.on, Normal, sc # NoColor, fc # NoColor
         PROVE  Ink(r) = IF tf.bold = 0
                         THEN Append(Ink(x), First(x, g, tf, sc, fc))
                         ELSE Append(Append(Ink(x), First(x, g, tf, sc, fc)),
                                     Second(x, g, tf, sc, fc))
    <2>1. Found(x1) /\ Found(y1)
      BY <1>4, <1>5, <1>7, <1>16
    <2>2. /\ LookFor(x1, font, sc, fc) = LookFor(x, font, sc, fc)
          /\ LookFor(y1, font, sc, fc) = LookFor(x, font, sc, fc)
      BY <1>4, <1>7, OnwardFor
    <2>3. x1.o.vpos = x.o.vpos /\ y1.o.vpos = x.o.vpos
      BY <1>4, <1>7 DEF Onward
    <2>4. MarkAt(x1, g, font, sc, fc) = First(x, g, tf, sc, fc)
      BY <1>4, <2>2, <2>3 DEF MarkAt, First, b, font
    <2>5. y1.o.hpos = x.o.hpos + b + tf.bold
      BY <1>4, <1>5, <1>7
    <2>6. MarkAt(y1, g, font, sc, fc) = Second(x, g, tf, sc, fc)
      BY <2>2, <2>3, <2>5 DEF MarkAt, Second, b, font
    <2>7. Ink(y) = Append(Ink(x), First(x, g, tf, sc, fc))
      BY <1>4, <1>5, <1>14, <1>16, <2>1, <2>4 DEF Sets, Adds
    <2>8. Ink(c) = Append(Ink(y), Second(x, g, tf, sc, fc))
      BY <1>7, <1>8, <1>14, <1>16, <2>1, <2>6 DEF Sets, Adds
    <2> QED
      BY <1>11, <1>12, <2>7, <2>8
  <1>17. Prints(x, r, g, tf, sc, fc)
    BY <1>12, <1>15, <1>16 DEF Prints
  <1> QED
    BY <1>1, <1>13, <1>17 DEF s

-----------------------------------------------------------------------------
\* Drawing, and anything else after which both are somewhere else.

Places == {"hpos", "vpos", "ohpos", "ovpos", "must", "on"}

\* Nothing is in the buffer and both are somewhere else.
LEMMA ElsewhereSound ==
    ASSUME NEW x, Sound(x), Clear(x), NEW y, Kept(x, y, Places, DrvPositions),
           Numbered(y), IsSeq(y.d.ink), Knows(y) => Met(y)
    PROVE  Sound(y) /\ Clear(y) /\ Ink(y) = y.d.ink
  <1>1. IsBoth(y)
    BY KeptIsBoth
  <1>2. SameLooks(x, y)
    <2>1. OutKept(x.o, y.o, Positions)
      BY DEF Kept, OutKept, Places, Positions
    <2> QED
      BY <2>1 DEF SameLooks, Kept
  <1>3. Good(y)
    BY <1>2, GoodSame DEF Sound
  <1>4. y.o.kern = x.o.kern /\ y.o.tbuf = x.o.tbuf
    BY DEF Kept, OutKept, OutNames, Places
  <1>5. Clear(y)
    BY <1>4 DEF Clear
  <1>6. Ink(y) = y.d.ink /\ End(y) = <<y.d.hpos, y.d.vpos>>
    BY <1>1, <1>5, ClearInk
  <1>7. Typed(x) /\ Fitting(x)
    BY DEF Sound, Rest
  <1>8. Typed(y) /\ Fitting(y)
    BY <1>4, <1>5, <1>7 DEF Typed, Fitting, Clear
  <1>9. Believed(y)
    BY <1>6 DEF Believed, Met
  <1> QED
    BY <1>3, <1>5, <1>6, <1>8, <1>9 DEF Sound, Rest

LEMMA DrawSizeSound ==
    ASSUME NEW x, NEW n \in Sizes, Sound(x), Clear(x)
    PROVE  LET y == DrawSize(x, n)
           IN  /\ Sound(y) /\ Clear(y) /\ Ink(y) = Ink(x) /\ y.d.size = n
               /\ Kept(x, y, {"size", "tfont"}, {"size", "height"})
  <1> DEFINE p == SetSize(x, n)
             q == [p EXCEPT !.o.tfont = NoTfont]
             y == DrawSize(x, n)
  <1>1. y = IF x.o.size = n THEN x ELSE q
    BY DEF DrawSize
  <1>2. n # 0 /\ IsBoth(x) /\ Looks(x) /\ Good(x) /\ Rest(x)
    BY OutputFileAssumption, SoundIsBoth DEF Sound, Good
  <1>3. Looks(p) /\ Kept(x, p, {"size"}, {"size", "height"}) /\ p.o.size = n
    BY <1>2, SizeLooks
  <1> HIDE DEF p, y
  <1>4. /\ OutKept(p.o, q.o, {"tfont"}) /\ q.o.tfont = NoTfont /\ q.d = p.d
        /\ DOMAIN q = {"o", "d"}
    BY <1>3 DEF Kept, OutKept, DrvKept, IsOut, OutNames
  <1> HIDE DEF q
  <1>5. Kept(x, q, {"size", "tfont"}, {"size", "height"})
    BY <1>3, <1>4 DEF Kept, OutKept, DrvKept
  <1>6. /\ q.o.mounted = p.o.mounted /\ q.o.fontno = p.o.fontno
        /\ q.o.size = p.o.size /\ q.o.slant = p.o.slant
        /\ q.o.height = p.o.height
        /\ q.o.stroke = p.o.stroke /\ q.o.fill = p.o.fill
        /\ q.o.color = p.o.color
    BY <1>4 DEF OutKept, OutNames
  <1>7. IsBoth(q)
    BY <1>5, KeptIsBoth
  <1>8. Looks(q)
    BY <1>3, <1>4, <1>6, <1>7 DEF Looks, Mounts, Colored
  <1>9. Good(q)
    BY <1>4, <1>8 DEF Good, Selects
  <1>10. {"size", "tfont"} \subseteq OutLooks
         /\ {"size", "height"} \subseteq DrvLooks
    BY DEF OutLooks, DrvLooks
  <1>11. Rest(q) /\ Clear(q) /\ Ink(q) = Ink(x)
    BY <1>2, <1>5, <1>10, RestKept
  <1>12. q.d.size = n
    BY <1>2, <1>3, <1>6, <1>8 DEF Looks
  <1>13. CASE x.o.size = n
    <2>1. y = x /\ x.d.size = n
      BY <1>1, <1>2, <1>13 DEF Looks
    <2>2. Kept(x, x, {"size", "tfont"}, {"size", "height"})
      BY <1>2, KeptSelf
    <2> QED
      BY <2>1, <2>2 DEF y
  <1>14. CASE x.o.size # n
    BY <1>1, <1>5, <1>9, <1>11, <1>12, <1>14 DEF Sound, y
  <1> QED
    BY <1>13, <1>14 DEF y

\* What a shape or a device extension looks like.
ShapeFor(x, size, sc, fc) ==
    [size |-> size, stroke |-> StrokeFor(x, sc), fill |-> FillFor(x, fc)]

Drawable(x, shape) ==
    /\ ~x.o.on => "drawing off" \in Extras
    /\ shape.h \in Int /\ shape.v \in Int
    /\ shape.code \in {"c", "C"} => shape.v = 0
    /\ shape.code = "E" => "ellipse" \in Extras

LEMMA DrawShapeSound ==
    ASSUME NEW x, NEW shape, NEW n \in Sizes, NEW sc, NEW fc, Sound(x),
           Drawable(x, shape)
    PROVE  LET y == DrawShape(x, shape, n, sc, fc)
           IN  /\ Sound(y) /\ Clear(y)
               /\ Normal => /\ y.o.hpos = x.o.hpos + DrawEnd(shape)[1]
                            /\ y.o.vpos = x.o.vpos + DrawEnd(shape)[2]
               /\ ~x.o.on => Ink(y) = Ink(x)
               /\ x.o.on /\ Normal /\ sc # NoColor /\ fc # NoColor =>
                     Adds(x, y, Mark(shape, ShapeFor(x, n, sc, fc),
                                     x.o.hpos, x.o.vpos))
  <1> DEFINE y == Ready(x, sc, fc)
             p == DrawSize(y, n)
             q == Put(p, <<"D", shape>>)
             z == IF y.o.on THEN q ELSE y
             v == IF shape.code = "e" THEN 0 ELSE shape.v
             r == [z EXCEPT !.o.ohpos = @ + shape.h,
                            !.o.hpos = y.o.ohpos + shape.h,
                            !.o.ovpos = @ + v,
                            !.o.vpos = IF shape.code = "e" THEN @
                                       ELSE y.o.ovpos + v]
             s == DrawShape(x, shape, n, sc, fc)
             m == Mark(shape, ShapeLook(p.d), p.d.hpos, p.d.vpos)
  <1>1. s = r
    BY DEF DrawShape, Ready
  <1>2. /\ Sound(y) /\ Clear(y) /\ Ink(y) = Ink(x)
        /\ Kept(x, y, ColorOuts, ColorDrvs)
        /\ y.o.ohpos = x.o.hpos /\ y.o.ovpos = x.o.vpos /\ ~y.o.must
        /\ Knows(y) => Met(y)
        /\ "color" \notin Extras /\ sc # NoColor /\ fc # NoColor =>
              y.d.stroke = StrokeFor(x, sc) /\ y.d.fill = FillFor(x, fc)
    BY ReadySound
  <1> HIDE DEF y
  <1>3. /\ y.o.hpos = x.o.hpos /\ y.o.vpos = x.o.vpos /\ y.o.on = x.o.on
    BY <1>2, ReadyKept
  <1>4. /\ Sound(p) /\ Clear(p) /\ Ink(p) = Ink(y) /\ p.d.size = n
        /\ Kept(y, p, {"size", "tfont"}, {"size", "height"})
    BY <1>2, DrawSizeSound
  <1> HIDE DEF p
  <1>5. /\ Kept(p, q, {}, {"ink", "hpos", "vpos"}) /\ q.d = Draw(p.d, shape)
    BY <1>4, SoundIsBoth, PutShape
  <1>6. /\ q.d.ink = Append(p.d.ink, m)
        /\ q.d.hpos = p.d.hpos + DrawnTo(shape)[1]
        /\ q.d.vpos = p.d.vpos + DrawnTo(shape)[2]
    BY <1>4, <1>5, SoundIsBoth, DrawKept DEF IsBoth
  <1> HIDE DEF q, m, s
  <1>7. /\ x.o.hpos \in Int /\ x.o.vpos \in Int
        /\ shape.h \in Int /\ shape.v \in Int /\ v \in Int
    <2>1. x.o.hpos \in Int /\ x.o.vpos \in Int
      BY DEF Sound, Rest, Typed, Numbered
    <2>2. shape.h \in Int /\ shape.v \in Int
      BY DEF Drawable
    <2> QED
      BY <2>1, <2>2
  <1>20. /\ DrawnTo(shape)[1] = shape.h /\ DrawEnd(shape)[1] = shape.h
         /\ DrawnTo(shape)[2] \in Int
         /\ shape.code # "E" =>
               DrawnTo(shape)[2] = v /\ DrawEnd(shape)[2] = v
    <2>1. /\ DrawnTo(shape)[1] = shape.h /\ DrawEnd(shape)[1] = shape.h
          /\ DrawnTo(shape)[2] = IF shape.code \in {"c", "C", "e", "E"} THEN 0
                                 ELSE shape.v
          /\ DrawEnd(shape)[2] = IF shape.code \in {"c", "C", "e", "E"} THEN 0
                                 ELSE shape.v
      BY DEF DrawnTo, DrawEnd
    <2>2. shape.code \in {"c", "C"} => shape.v = 0
      BY DEF Drawable
    <2> QED
      BY <1>7, <2>1, <2>2
  <1>8. /\ p.o.ohpos = x.o.hpos /\ p.o.ovpos = x.o.vpos
        /\ p.o.hpos = x.o.hpos /\ p.o.vpos = x.o.vpos
        /\ ~p.o.must /\ p.o.on = x.o.on
    BY <1>2, <1>3, <1>4 DEF Kept, OutKept, OutNames
  <1>9. /\ p.d.hpos = y.d.hpos /\ p.d.vpos = y.d.vpos
        /\ p.d.stroke = y.d.stroke /\ p.d.fill = y.d.fill
    BY <1>4 DEF Kept, DrvKept, DrvNames
  <1>10. /\ q.o.ohpos = x.o.hpos /\ q.o.ovpos = x.o.vpos
         /\ q.o.hpos = x.o.hpos /\ q.o.vpos = x.o.vpos
         /\ ~q.o.must /\ q.o.on = x.o.on
    BY <1>5, <1>8 DEF Kept, OutKept, OutNames
  <1>11. /\ z.o.ohpos = x.o.hpos /\ z.o.ovpos = x.o.vpos
         /\ z.o.hpos = x.o.hpos /\ z.o.vpos = x.o.vpos
         /\ ~z.o.must /\ z.o.on = x.o.on
    BY <1>2, <1>3, <1>10
  <1>12. IsBoth(z)
    BY <1>2, <1>5, SoundIsBoth, KeptIsBoth
  <1>13. z = IF x.o.on THEN q ELSE y
    BY <1>3
  <1>14. z.o.ovpos + v = IF shape.code = "e" THEN x.o.vpos ELSE x.o.vpos + v
    BY <1>7, <1>11
  <1> HIDE DEF z, v
  <1>15. /\ OutKept(z.o, r.o, {"ohpos", "hpos", "ovpos", "vpos"})
         /\ r.d = z.d /\ DOMAIN r = {"o", "d"}
         /\ r.o.ohpos = x.o.hpos + shape.h /\ r.o.hpos = x.o.hpos + shape.h
         /\ r.o.ovpos = x.o.vpos + v
    BY <1>2, <1>11, <1>12 DEF IsBoth, IsOut, OutKept, OutNames
  <1>16. r.o.vpos = IF shape.code = "e" THEN x.o.vpos ELSE x.o.vpos + v
    BY <1>2, <1>11, <1>12 DEF IsBoth, IsOut, OutNames
  <1> HIDE DEF r
  <1>17. r.o.vpos = x.o.vpos + v
    BY <1>7, <1>16 DEF v
  <1>18. CASE ~x.o.on
    <2>1. z = y
      BY <1>13, <1>18
    <2>2. Kept(y, r, Places, DrvPositions)
      BY <1>2, <1>15, <2>1, SoundIsBoth
      DEF Kept, OutKept, DrvKept, IsBoth, Places
    <2>3. Numbered(y) /\ IsSeq(y.d.ink)
      BY <1>2 DEF Sound, Rest, Typed
    <2>9. /\ r.o.hpos \in Int /\ r.o.vpos \in Int
          /\ r.o.ohpos \in Int /\ r.o.ovpos \in Int
      BY <1>7, <1>15, <1>17
    <2>4. Numbered(r)
      BY <1>15, <2>1, <2>3, <2>9 DEF Numbered
    <2>5. ~Knows(r)
      <3>1. r.o.on = x.o.on
        BY <1>11, <1>15 DEF OutKept, OutNames
      <3> QED
        BY <1>18, <3>1 DEF Knows, Drawable
    <2>6. Sound(r) /\ Clear(r) /\ Ink(r) = r.d.ink
      BY <1>2, <1>15, <2>1, <2>2, <2>3, <2>4, <2>5, ElsewhereSound
    <2>7. Ink(y) = y.d.ink
      BY <1>2, SoundIsBoth, ClearInk
    <2>8. ~Normal
      BY <1>18 DEF Normal, Drawable
    <2> QED
      BY <1>1, <1>2, <1>15, <1>18, <2>1, <2>6, <2>7, <2>8 DEF s
  <1>19. CASE x.o.on
    <2>1. z = q
      BY <1>13, <1>19
    <2>2. DrvKept(p.d, r.d, DrvPositions)
      BY <1>5, <1>15, <2>1 DEF Kept, DrvKept, DrvPositions
    <2>3. OutKept(p.o, r.o, Places)
      BY <1>5, <1>15, <2>1 DEF Kept, OutKept, Places
    <2>4. Kept(p, r, Places, DrvPositions)
      BY <1>15, <2>2, <2>3 DEF Kept
    <2>5. Numbered(p) /\ IsSeq(p.d.ink)
      BY <1>4 DEF Sound, Rest, Typed
    <2>6. /\ r.d.ink = Append(p.d.ink, m)
          /\ r.d.hpos = p.d.hpos + DrawnTo(shape)[1]
          /\ r.d.vpos = p.d.vpos + DrawnTo(shape)[2]
      BY <1>6, <1>15, <2>1
    <2>7. IsSeq(r.d.ink)
      BY <2>5, <2>6, SeqAppend
    <2>16. p.d.hpos \in Int /\ p.d.vpos \in Int
      BY <2>5 DEF Numbered
    <2>17. /\ r.d.hpos = p.d.hpos + shape.h
           /\ shape.code # "E" => r.d.vpos = p.d.vpos + v
      BY <1>20, <2>6
    <2>18. r.d.hpos \in Int
      BY <1>7, <2>16, <2>17
    <2>19. r.d.vpos \in Int
      BY <1>20, <2>6, <2>16
    <2>9. /\ r.d.hpos = p.d.hpos + shape.h
          /\ shape.code # "E" => r.d.vpos = p.d.vpos + v
          /\ r.d.hpos \in Int /\ r.d.vpos \in Int
      BY <2>17, <2>18, <2>19
    <2>8. /\ r.o.hpos \in Int /\ r.o.vpos \in Int
          /\ r.o.ohpos \in Int /\ r.o.ovpos \in Int
      BY <1>7, <1>15, <1>17
    <2>10. Numbered(r)
      BY <2>8, <2>9 DEF Numbered
    <2>11. r.o.on = x.o.on /\ r.o.must = z.o.must
      BY <1>11, <1>15 DEF OutKept, OutNames
    <2>12. "ellipse" \notin Extras =>
             p.d.hpos = x.o.hpos /\ p.d.vpos = x.o.vpos /\ Met(r)
      <3> HAVE "ellipse" \notin Extras
      <3>1. Knows(y)
        BY <1>2, <1>3, <1>19 DEF Knows
      <3>2. p.d.hpos = x.o.hpos /\ p.d.vpos = x.o.vpos
        BY <1>2, <1>9, <3>1 DEF Met
      <3>3. shape.code # "E"
        BY DEF Drawable
      <3> QED
        BY <1>15, <1>17, <2>9, <3>2, <3>3 DEF Met
    <2>13. Knows(r) => Met(r)
      BY <2>12 DEF Knows
    <2>14. Sound(r) /\ Clear(r) /\ Ink(r) = r.d.ink
      BY <1>4, <2>4, <2>7, <2>10, <2>13, ElsewhereSound
    <2>15. Ink(p) = p.d.ink
      BY <1>4, SoundIsBoth, ClearInk
    <2>20. ASSUME Normal, sc # NoColor, fc # NoColor
           PROVE  Adds(x, r, Mark(shape, ShapeFor(x, n, sc, fc), x.o.hpos,
                                  x.o.vpos))
      <3>1. ShapeLook(p.d) = ShapeFor(x, n, sc, fc)
        BY <1>2, <1>4, <1>9, <2>20 DEF ShapeLook, ShapeFor, Normal
      <3>2. m = Mark(shape, ShapeFor(x, n, sc, fc), x.o.hpos, x.o.vpos)
        BY <2>12, <2>20, <3>1 DEF m, Normal
      <3> QED
        BY <1>2, <1>4, <2>6, <2>14, <2>15, <3>2 DEF Adds
    <2>21. Normal => /\ r.o.hpos = x.o.hpos + DrawEnd(shape)[1]
                     /\ r.o.vpos = x.o.vpos + DrawEnd(shape)[2]
      <3> HAVE Normal
      <3>1. shape.code # "E"
        BY DEF Normal, Drawable
      <3>2. DrawEnd(shape)[1] = shape.h /\ DrawEnd(shape)[2] = v
        BY <1>20, <3>1
      <3> QED
        BY <1>15, <1>17, <3>2
    <2> QED
      BY <1>1, <1>19, <2>14, <2>20, <2>21 DEF s
  <1> QED
    BY <1>18, <1>19 DEF s

-----------------------------------------------------------------------------
\* Device extensions, and pages after which the fonts are forgotten.

LEMMA ExtensionSound ==
    ASSUME NEW x, NEW tf, NEW sc, NEW fc, Sound(x), Selectable(tf)
    PROVE  LET y == Put(StartDeviceExtension(x, tf, sc, fc),
                        <<"x X", SpecialText>>)
           IN  /\ Sound(y) /\ y.o.hpos = x.o.hpos /\ y.o.vpos = x.o.vpos
               /\ Normal /\ sc # NoColor /\ fc # NoColor =>
                     Adds(x, y, Mark(SpecialText, ShapeFor(x, tf.size, sc, fc),
                                     x.o.hpos, x.o.vpos))
  <1> DEFINE f == FlushTbuf(x)
             s == SelectFont(f, tf)
             c == SetColors(s, sc, fc)
             m == DoMotion(c)
             y == Put(m, <<"x X", SpecialText>>)
             a == Mark(SpecialText, ShapeLook(m.d), m.d.hpos, m.d.vpos)
  <1>1. StartDeviceExtension(x, tf, sc, fc) = m
    BY DEF StartDeviceExtension
  <1>2. /\ Sound(f) /\ Clear(f) /\ Ink(f) = Ink(x) /\ Onward(x, f)
        /\ f.o.hpos = x.o.hpos
    BY FlushOnward
  <1> HIDE DEF f
  <1>3. /\ Sound(s) /\ Ink(s) = Ink(f) /\ Onward(f, s) /\ Selected(s.d, tf)
        /\ s.o.hpos = f.o.hpos /\ Clear(s)
    BY <1>2, SelectOnward
  <1> HIDE DEF s
  <1>4. Onward(x, s)
    BY <1>2, <1>3, OnwardTrans
  <1>5. /\ Sound(c) /\ Ink(c) = Ink(s) /\ Clear(c)
        /\ Kept(s, c, ColorOuts, ColorDrvs)
        /\ "color" \notin Extras /\ sc # NoColor /\ fc # NoColor =>
              c.d.stroke = StrokeFor(s, sc) /\ c.d.fill = FillFor(s, fc)
    BY <1>3, ColorsSound
  <1> HIDE DEF c
  <1>6. /\ Sound(m) /\ Clear(m) /\ Ink(m) = Ink(c)
        /\ Kept(c, m, {"ohpos", "ovpos", "must"}, {"hpos", "vpos"})
        /\ m.o.ohpos = c.o.hpos /\ m.o.ovpos = c.o.vpos /\ ~m.o.must
        /\ Knows(m) => Met(m)
    BY <1>5, MotionSound
  <1> HIDE DEF m
  <1>7. c.o.hpos = x.o.hpos /\ c.o.vpos = x.o.vpos
    <2>1. c.o.hpos = s.o.hpos /\ c.o.vpos = s.o.vpos
      BY <1>5, ReadyKept
    <2> QED
      BY <1>2, <1>3, <1>4, <2>1 DEF Onward
  <1>8. m.o.hpos = x.o.hpos /\ m.o.vpos = x.o.vpos
    BY <1>6, <1>7 DEF Kept, OutKept, OutNames
  <1>9. /\ Kept(m, y, {}, {"ink"}) /\ y.d = Extend(m.d, SpecialText)
    BY <1>6, SoundIsBoth, PutExtension
  <1>10. y.d.ink = Append(m.d.ink, a)
    BY <1>6, <1>9, SoundIsBoth, ExtendKept DEF IsBoth
  <1> HIDE DEF y, a
  <1>11. IsSeq(y.d.ink)
    BY <1>6, <1>10, SoundSeq, SeqAppend
  <1>12. Sound(y) /\ Clear(y) /\ Ink(y) = y.d.ink /\ Ink(m) = m.d.ink
    BY <1>6, <1>9, <1>11, MarkSound
  <1>13. y.o.hpos = x.o.hpos /\ y.o.vpos = x.o.vpos
    BY <1>8, <1>9 DEF Kept, OutKept, OutNames
  <1>14. ASSUME Normal, sc # NoColor, fc # NoColor
         PROVE  Adds(x, y, Mark(SpecialText, ShapeFor(x, tf.size, sc, fc),
                                x.o.hpos, x.o.vpos))
    <2>1. Met(m)
      BY <1>6, <1>14 DEF Knows, Normal
    <2>2. m.d.hpos = x.o.hpos /\ m.d.vpos = x.o.vpos
      BY <1>6, <1>7, <2>1 DEF Met
    <2>3. c.d.stroke = StrokeFor(x, sc) /\ c.d.fill = FillFor(x, fc)
      BY <1>4, <1>5, <1>14 DEF Normal, Onward, StrokeFor, FillFor
    <2>4. c.d.size = s.d.size
      BY <1>5, ReadyKept
    <2>5. /\ m.d.size = tf.size
          /\ m.d.stroke = c.d.stroke /\ m.d.fill = c.d.fill
      BY <1>3, <1>6, <2>4 DEF Selected, Kept, DrvKept, DrvNames
    <2>6. ShapeLook(m.d) = ShapeFor(x, tf.size, sc, fc)
      BY <2>3, <2>5 DEF ShapeLook, ShapeFor
    <2>7. a = Mark(SpecialText, ShapeFor(x, tf.size, sc, fc), x.o.hpos,
                   x.o.vpos)
      BY <2>2, <2>6 DEF a
    <2> QED
      BY <1>2, <1>3, <1>5, <1>6, <1>10, <1>12, <2>7 DEF Adds
  <1>15. /\ Sound(y) /\ y.o.hpos = x.o.hpos /\ y.o.vpos = x.o.vpos
         /\ Normal /\ sc # NoColor /\ fc # NoColor =>
               Adds(x, y, Mark(SpecialText, ShapeFor(x, tf.size, sc, fc),
                               x.o.hpos, x.o.vpos))
    BY <1>12, <1>13, <1>14
  <1> QED
    BY <1>1, <1>15 DEF y

\* Fonts and sizes are forgotten and troff is lost.
ForgetOuts == Places \cup {"tfont", "fontno", "size", "mounted", "begun",
                           "selected"}
ForgetDrvs == {"hpos", "vpos", "table", "fontno", "size", "height"}

Forgotten(o) ==
    /\ o.tfont = NoTfont /\ o.fontno = NotMounted /\ o.size = 0
    /\ \A n \in FontPositions : o.mounted[n] = NoFont

LEMMA ForgottenSound ==
    ASSUME NEW x, Sound(x), Clear(x), NEW y, Kept(x, y, ForgetOuts, ForgetDrvs),
           Forgotten(y.o), y.o.must, Numbered(y),
           HeightsApart => y.d.height = x.d.height
    PROVE  Sound(y) /\ Clear(y) /\ Ink(y) = Ink(x)
  <1>1. IsBoth(x) /\ IsBoth(y)
    BY SoundIsBoth, KeptIsBoth
  <1>o. OutKept(x.o, y.o, ForgetOuts)
    BY DEF Kept
  <1>d. DrvKept(x.d, y.d, ForgetDrvs)
    BY DEF Kept
  <1>2. /\ y.o.slant = x.o.slant /\ y.o.height = x.o.height
        /\ y.o.stroke = x.o.stroke /\ y.o.fill = x.o.fill
        /\ y.o.color = x.o.color
        /\ y.o.kern = x.o.kern /\ y.o.tbuf = x.o.tbuf
    BY <1>o DEF OutKept, OutNames, ForgetOuts, Places
  <1>3. /\ y.d.slant = x.d.slant /\ y.d.stroke = x.d.stroke
        /\ y.d.fill = x.d.fill /\ y.d.ink = x.d.ink
    BY <1>d DEF DrvKept, DrvNames, ForgetDrvs
  <1>4. Looks(x)
    BY DEF Sound, Good
  <1>5. Mounts(y.o, y.d)
    BY DEF Mounts, Forgotten
  <1>6. "color" \notin Extras => Colored(y.o, y.d)
    BY <1>2, <1>3, <1>4 DEF Looks, Colored
  <1>7. /\ y.d.slant = y.o.slant
        /\ HeightsApart => y.d.height = y.o.height /\ y.o.height \notin Sizes
    BY <1>2, <1>3, <1>4 DEF Looks
  <1>8. Looks(y)
    BY <1>1, <1>5, <1>6, <1>7 DEF Looks, Forgotten
  <1>9. Good(y)
    BY <1>8 DEF Good, Selects, Forgotten
  <1>10. Clear(y)
    BY <1>2 DEF Clear
  <1>11. Ink(y) = Ink(x)
    BY <1>1, <1>3, <1>10, ClearInk
  <1>12. Typed(x) /\ Fitting(x)
    BY DEF Sound, Rest
  <1>13. Typed(y) /\ Fitting(y)
    BY <1>2, <1>3, <1>10, <1>12 DEF Typed, Fitting, Clear
  <1>14. Believed(y)
    BY DEF Believed, Knows
  <1> QED
    BY <1>9, <1>10, <1>11, <1>13, <1>14 DEF Sound, Rest

LEMMA ForgetFontsOut ==
    ASSUME NEW x, IsBoth(x)
    PROVE  LET y == ForgetFonts(x)
           IN  /\ OnlyOut(x, y, {"tfont", "fontno", "size", "mounted"})
               /\ Forgotten(y.o)
  BY DEF ForgetFonts, IsBoth, OnlyOut, OutKept, IsOut, OutNames, Forgotten

LEMMA BeginPageSound ==
    ASSUME NEW x, Sound(x)
    PROVE  LET y == ReallyBeginPage(x)
           IN  /\ Sound(y) /\ Clear(y) /\ Ink(y) = Ink(x) /\ y.o.must
  <1> DEFINE f == FlushTbuf(x)
             z == IF f.o.begun THEN Put(f, <<"V", PageLength>>) ELSE f
             t == MoveTo(z, 0, 0)
             u == ForgetFonts(t)
             m == MustUpdate(u)
             p == [m EXCEPT !.o.ohpos = 0, !.o.ovpos = 0, !.o.begun = TRUE]
             y == Put(p, <<"p">>)
             r == ReallyBeginPage(x)
  <1>1. r = y
    BY DEF ReallyBeginPage
  <1>2. Sound(f) /\ Clear(f) /\ Ink(f) = Ink(x)
    BY FlushSound
  <1>3. IsBoth(f) /\ Numbered(f)
    BY <1>2, SoundIsBoth DEF Sound, Rest, Typed
  <1> HIDE DEF f
  <1>4. /\ Kept(f, z, {}, {"hpos", "vpos"})
        /\ z.d.hpos \in Int /\ z.d.vpos \in Int
    <2>1. /\ Kept(f, Put(f, <<"V", PageLength>>), {}, {"hpos", "vpos"})
          /\ Put(f, <<"V", PageLength>>).d.hpos = f.d.hpos
          /\ Put(f, <<"V", PageLength>>).d.vpos = PageLength
      BY <1>3, PutToV
    <2>2. PageLength \in Int
      BY OutputFileAssumption
    <2>3. Kept(f, f, {}, {"hpos", "vpos"})
      BY <1>3, KeptSelf
    <2> QED
      BY <1>3, <2>1, <2>2, <2>3 DEF Numbered
  <1> HIDE DEF z, r
  <1>5. IsBoth(z)
    BY <1>4, KeptIsBoth
  <1>6. /\ OnlyOut(z, t, {"hpos", "vpos"}) /\ t.o.hpos = 0 /\ t.o.vpos = 0
    BY <1>5, MoveToKept
  <1> HIDE DEF t
  <1>7. IsBoth(t)
    BY <1>5, <1>6, OnlyOutKept
  <1>8. /\ OnlyOut(t, u, {"tfont", "fontno", "size", "mounted"})
        /\ Forgotten(u.o)
    BY <1>7, ForgetFontsOut
  <1> HIDE DEF u
  <1>9. IsBoth(u)
    BY <1>7, <1>8, OnlyOutKept
  <1>10. OnlyOut(u, m, {"must"}) /\ m.o.must
    BY <1>9, MustUpdateKept
  <1> HIDE DEF m
  <1>11. /\ OutKept(m.o, p.o, {"ohpos", "ovpos", "begun"}) /\ p.d = m.d
         /\ p.o.ohpos = 0 /\ p.o.ovpos = 0 /\ DOMAIN p = {"o", "d"}
    BY <1>10 DEF OnlyOut, OutKept, IsOut, OutNames
  <1> HIDE DEF p
  <1>12. p.d = z.d
    BY <1>6, <1>8, <1>10, <1>11 DEF OnlyOut
  <1>13. IsBoth(p)
    BY <1>5, <1>11, <1>12 DEF IsBoth, OutKept
  <1>14. /\ Kept(p, y, {}, {"hpos", "vpos"})
         /\ y.d.hpos = p.d.hpos /\ y.d.vpos = 0
    BY <1>13, PutPage
  <1> HIDE DEF y
  <1>15. OutKept(f.o, z.o, {}) /\ OutKept(p.o, y.o, {})
    BY <1>4, <1>14 DEF Kept
  <1>16. /\ OutKept(z.o, t.o, {"hpos", "vpos"})
         /\ OutKept(t.o, u.o, {"tfont", "fontno", "size", "mounted"})
         /\ OutKept(u.o, m.o, {"must"})
    BY <1>6, <1>8, <1>10 DEF OnlyOut
  <1>17. OutKept(f.o, y.o, ForgetOuts)
    <2>1. OutKept(f.o, t.o, ForgetOuts)
      BY <1>15, <1>16 DEF OutKept, ForgetOuts, Places
    <2>2. OutKept(f.o, u.o, ForgetOuts)
      BY <1>16, <2>1 DEF OutKept, ForgetOuts, Places
    <2>3. OutKept(f.o, m.o, ForgetOuts)
      BY <1>16, <2>2 DEF OutKept, ForgetOuts, Places
    <2>4. OutKept(f.o, p.o, ForgetOuts)
      BY <1>11, <2>3 DEF OutKept, ForgetOuts, Places
    <2> QED
      BY <1>15, <2>4 DEF OutKept
  <1>18. DrvKept(f.d, y.d, {"hpos", "vpos"}) /\ DOMAIN y = {"o", "d"}
    BY <1>4, <1>12, <1>14 DEF Kept, DrvKept
  <1>19. DrvKept(f.d, y.d, ForgetDrvs) /\ y.d.height = f.d.height
    BY <1>18 DEF DrvKept, ForgetDrvs, DrvNames
  <1>20. Kept(f, y, ForgetOuts, ForgetDrvs)
    BY <1>17, <1>18, <1>19 DEF Kept
  <1>21. \A n \in OutNames : y.o[n] = p.o[n]
    BY <1>15 DEF OutKept
  <1>22. /\ m.o.tfont = u.o.tfont /\ m.o.fontno = u.o.fontno
         /\ m.o.size = u.o.size /\ m.o.mounted = u.o.mounted
         /\ m.o.hpos = u.o.hpos /\ m.o.vpos = u.o.vpos
         /\ u.o.hpos = t.o.hpos /\ u.o.vpos = t.o.vpos
    BY <1>16 DEF OutKept, OutNames
  <1>23. /\ p.o.tfont = m.o.tfont /\ p.o.fontno = m.o.fontno
         /\ p.o.size = m.o.size /\ p.o.mounted = m.o.mounted
         /\ p.o.hpos = m.o.hpos /\ p.o.vpos = m.o.vpos /\ p.o.must
    BY <1>10, <1>11 DEF OutKept, OutNames
  <1>24. /\ y.o.tfont = u.o.tfont /\ y.o.fontno = u.o.fontno
         /\ y.o.size = u.o.size /\ y.o.mounted = u.o.mounted
         /\ y.o.hpos = 0 /\ y.o.vpos = 0 /\ y.o.must
         /\ y.o.ohpos = 0 /\ y.o.ovpos = 0
    BY <1>6, <1>11, <1>21, <1>22, <1>23 DEF OutNames
  <1>25. Forgotten(y.o)
    BY <1>8, <1>24 DEF Forgotten
  <1>26. Numbered(y)
    BY <1>4, <1>12, <1>14, <1>24 DEF Numbered
  <1>27. Sound(y) /\ Clear(y) /\ Ink(y) = Ink(f)
    BY <1>2, <1>19, <1>20, <1>24, <1>25, <1>26, ForgottenSound
  <1> QED
    BY <1>1, <1>2, <1>24, <1>27 DEF r

-----------------------------------------------------------------------------
\* The end of a line, output turned on and off, and copied files.

LEMMA EndPrintLineSound ==
    ASSUME NEW x, Sound(x)
    PROVE  LET y == EndPrintLine(x)
           IN  Sound(y) /\ Ink(y) = Ink(x) /\ y.o.must
  <1> DEFINE f == FlushTbuf(x)
             m == DoMotion(f)
             u == MustUpdate(m)
             p == [u EXCEPT !.o.hpos = 0]
             y == Put(p, <<"n">>)
             r == EndPrintLine(x)
  <1>1. r = y
    BY DEF EndPrintLine
  <1>2. Sound(f) /\ Clear(f) /\ Ink(f) = Ink(x)
    BY FlushSound
  <1> HIDE DEF f
  <1>3. Sound(m) /\ Clear(m) /\ Ink(m) = Ink(f)
    BY <1>2, MotionSound
  <1> HIDE DEF m
  <1>4. /\ Sound(u) /\ Clear(u) /\ u.d = m.d /\ Ink(u) = Ink(m) /\ u.o.must
    BY <1>3, MustUpdateSound
  <1> HIDE DEF u, r
  <1>5. IsBoth(u)
    BY <1>4, SoundIsBoth
  <1>6. OnlyOut(u, p, {"hpos"}) /\ p.o.hpos = 0
    BY <1>5 DEF IsBoth, OnlyOut, OutKept, IsOut, OutNames
  <1> HIDE DEF p
  <1>7. p.o.vpos = u.o.vpos /\ p.o.must = u.o.must
    BY <1>6 DEF OnlyOut, OutKept, OutNames
  <1>8. Sound(p) /\ Ink(p) = Ink(u)
    <2>1. u.o.vpos \in Int
      BY <1>4 DEF Sound, Rest, Typed, Numbered
    <2>2. {"hpos"} \subseteq {"hpos", "vpos", "begun", "selected"}
      OBVIOUS
    <2>3. p.o.hpos \in Int /\ p.o.vpos \in Int
      BY <1>6, <1>7, <2>1
    <2> QED
      BY <1>4, <1>6, <2>2, <2>3, OutOnlySound
  <1>9. Kept(p, y, {}, {}) /\ y.d = p.d
    BY <1>8, SoundIsBoth, PutEndOfLine
  <1> HIDE DEF y
  <1>10. OutKept(p.o, y.o, {})
    BY <1>9 DEF Kept
  <1>11. OnlyOut(p, y, {"hpos"})
    BY <1>9, <1>10 DEF Kept, OnlyOut, OutKept
  <1>12. y.o.hpos = p.o.hpos /\ y.o.vpos = p.o.vpos /\ y.o.must = p.o.must
    BY <1>10 DEF OutKept, OutNames
  <1>13. Sound(y) /\ Ink(y) = Ink(p)
    <2>1. p.o.hpos \in Int /\ p.o.vpos \in Int
      BY <1>8 DEF Sound, Rest, Typed, Numbered
    <2>2. {"hpos"} \subseteq {"hpos", "vpos", "begun", "selected"}
      OBVIOUS
    <2> QED
      BY <1>8, <1>11, <1>12, <2>1, <2>2, OutOnlySound
  <1> QED
    BY <1>1, <1>2, <1>3, <1>4, <1>7, <1>8, <1>12, <1>13 DEF r

LEMMA OnSound ==
    ASSUME NEW x, Sound(x)
    PROVE  LET y == [ReallyOn(x) EXCEPT !.o.on = TRUE]
           IN  /\ Sound(y) /\ Ink(y) = Ink(x)
               /\ y.o.hpos = x.o.hpos /\ y.o.vpos = x.o.vpos
  <1> DEFINE f == FlushTbuf(x)
             u == MustUpdate(f)
             m == DoMotion(u)
             y == [m EXCEPT !.o.on = TRUE]
             r == [ReallyOn(x) EXCEPT !.o.on = TRUE]
  <1>1. r = y
    BY DEF ReallyOn
  <1>2. /\ Sound(f) /\ Clear(f) /\ Ink(f) = Ink(x) /\ Onward(x, f)
        /\ f.o.hpos = x.o.hpos
    BY FlushOnward
  <1> HIDE DEF f
  <1>3. /\ Sound(u) /\ Clear(u) /\ Ink(u) = Ink(f) /\ u.o.must
        /\ OnlyOut(f, u, {"must"})
    BY <1>2, MustUpdateSound
  <1> HIDE DEF u
  <1>4. /\ Sound(m) /\ Clear(m) /\ Ink(m) = Ink(u) /\ Met(m)
        /\ Kept(u, m, {"ohpos", "ovpos", "must"}, {"hpos", "vpos"})
    BY <1>3, MotionSound
  <1> HIDE DEF m, r
  <1>5. IsBoth(m)
    BY <1>4, SoundIsBoth
  <1>6. OnlyOut(m, y, {"on"})
    BY <1>5 DEF IsBoth, OnlyOut, OutKept, IsOut, OutNames
  <1> HIDE DEF y
  <1>7. /\ y.o.hpos = m.o.hpos /\ y.o.vpos = m.o.vpos
        /\ y.o.ohpos = m.o.ohpos /\ y.o.ovpos = m.o.ovpos /\ y.d = m.d
    BY <1>6 DEF OnlyOut, OutKept, OutNames
  <1>8. Numbered(m) /\ IsSeq(m.d.ink)
    BY <1>4 DEF Sound, Rest, Typed
  <1>9. Numbered(y) /\ IsSeq(y.d.ink) /\ Met(y)
    BY <1>4, <1>7, <1>8 DEF Numbered, Met
  <1>10. Kept(m, y, Places, DrvPositions)
    BY <1>5, <1>6 DEF OnlyOut, Kept, OutKept, DrvKept, Places, IsBoth
  <1>11. Sound(y) /\ Ink(y) = y.d.ink
    BY <1>4, <1>9, <1>10, ElsewhereSound
  <1>12. Ink(m) = m.d.ink
    BY <1>4, <1>5, ClearInk
  <1>13. y.o.hpos = x.o.hpos /\ y.o.vpos = x.o.vpos
    <2>1. f.o.vpos = x.o.vpos
      BY <1>2 DEF Onward
    <2>2. u.o.hpos = f.o.hpos /\ u.o.vpos = f.o.vpos
      BY <1>3 DEF OnlyOut, OutKept, OutNames
    <2>3. m.o.hpos = u.o.hpos /\ m.o.vpos = u.o.vpos
      BY <1>4 DEF Kept, OutKept, OutNames
    <2> QED
      BY <1>2, <1>7, <2>1, <2>2, <2>3
  <1> QED
    BY <1>1, <1>2, <1>3, <1>4, <1>7, <1>11, <1>12, <1>13 DEF r

LEMMA OffSound ==
    ASSUME NEW x, Sound(x)
    PROVE  LET y == [FlushTbuf(x) EXCEPT !.o.on = FALSE]
           IN  /\ Sound(y) /\ Ink(y) = Ink(x)
               /\ y.o.hpos = x.o.hpos /\ y.o.vpos = x.o.vpos
  <1> DEFINE f == FlushTbuf(x)
             y == [f EXCEPT !.o.on = FALSE]
  <1>1. /\ Sound(f) /\ Clear(f) /\ Ink(f) = Ink(x) /\ Onward(x, f)
        /\ f.o.hpos = x.o.hpos
    BY FlushOnward
  <1> HIDE DEF f
  <1>2. IsBoth(f)
    BY <1>1, SoundIsBoth
  <1>3. OnlyOut(f, y, {"on"})
    BY <1>2 DEF IsBoth, OnlyOut, OutKept, IsOut, OutNames
  <1>4. y.o.on = FALSE
    BY <1>2 DEF IsBoth, IsOut, OutNames
  <1> HIDE DEF y
  <1>5. /\ y.o.hpos = f.o.hpos /\ y.o.vpos = f.o.vpos
        /\ y.o.ohpos = f.o.ohpos /\ y.o.ovpos = f.o.ovpos
        /\ y.o.must = f.o.must /\ y.d = f.d
    BY <1>3 DEF OnlyOut, OutKept, OutNames
  <1>6. Numbered(f) /\ IsSeq(f.d.ink) /\ Believed(f)
    BY <1>1 DEF Sound, Rest, Typed
  <1>7. Ink(f) = f.d.ink /\ End(f) = <<f.d.hpos, f.d.vpos>>
    BY <1>1, <1>2, ClearInk
  <1>8. Knows(y) => Met(y)
    <2>1. Knows(y) => Knows(f)
      BY <1>4, <1>5 DEF Knows
    <2>2. Knows(f) => Met(f)
      BY <1>6, <1>7 DEF Believed, Met
    <2> QED
      BY <1>5, <2>1, <2>2 DEF Met
  <1>9. Numbered(y) /\ IsSeq(y.d.ink)
    BY <1>5, <1>6 DEF Numbered
  <1>10. Kept(f, y, Places, DrvPositions)
    BY <1>2, <1>3 DEF OnlyOut, Kept, OutKept, DrvKept, Places, IsBoth
  <1>11. Sound(y) /\ Ink(y) = y.d.ink
    BY <1>1, <1>8, <1>9, <1>10, ElsewhereSound
  <1>12. f.o.vpos = x.o.vpos
    BY <1>1 DEF Onward
  <1> QED
    BY <1>1, <1>5, <1>7, <1>11, <1>12 DEF f, y

\* A copied file selects fonts and sizes and leaves the driver anywhere.
CopiedTo(x, tf, to) ==
    LET y == Put(Put(Put(x, <<"x font", tf.pos, tf.name>>), <<"f", tf.pos>>),
                 <<"s", tf.size>>)
    IN  [y EXCEPT !.o = MustUpdate(ForgetFonts(y)).o,
                  !.d = Moved(y.d, to[1], to[2])]

LEMMA CopiedSound ==
    ASSUME NEW x, Sound(x), Clear(x), NEW tf \in Tfonts, NEW to \in RawEnds
    PROVE  LET y == CopiedTo(x, tf, to)
           IN  Sound(y) /\ Ink(y) = Ink(x) /\ y.o.must
  <1> DEFINE a == Put(x, <<"x font", tf.pos, tf.name>>)
             b == Put(a, <<"f", tf.pos>>)
             c == Put(b, <<"s", tf.size>>)
             u == ForgetFonts(c)
             m == MustUpdate(u)
             e == Moved(c.d, to[1], to[2])
             y == [c EXCEPT !.o = m.o, !.d = e]
             r == CopiedTo(x, tf, to)
  <1>1. r = y
    BY DEF CopiedTo
  <1>2. IsBoth(x) /\ tf.pos \in FontPositions /\ tf.size \in Sizes
    BY SoundIsBoth, OutputFileAssumption
  <1>3. Kept(x, a, {}, {"table"})
    BY <1>2, PutMount
  <1> HIDE DEF a, r
  <1>4. IsBoth(a)
    BY <1>3, KeptIsBoth
  <1>5. Kept(a, b, {}, {"fontno"})
    BY <1>4, PutFont
  <1> HIDE DEF b
  <1>6. IsBoth(b)
    BY <1>5, KeptIsBoth
  <1>7. /\ Kept(b, c, {}, {"size", "height"})
        /\ c.d.height = UnlessSize(b.d.height, tf.size)
    BY <1>6, PutSize
  <1> HIDE DEF c
  <1>8. IsBoth(c)
    BY <1>7, KeptIsBoth
  <1>9. OnlyOut(c, u, {"tfont", "fontno", "size", "mounted"})
        /\ Forgotten(u.o)
    BY <1>8, ForgetFontsOut
  <1> HIDE DEF u
  <1>10. OnlyOut(u, m, {"must"}) /\ m.o.must
    BY <1>8, <1>9, OnlyOutKept, MustUpdateKept
  <1> HIDE DEF m
  <1>11. /\ DrvKept(c.d, e, {"hpos", "vpos"})
         /\ e.hpos = to[1] /\ e.vpos = to[2]
    BY <1>8 DEF Moved, IsBoth, DrvKept, IsDriver, DrvNames
  <1> HIDE DEF e
  <1>12. y.o = m.o /\ y.d = e /\ DOMAIN y = {"o", "d"}
    BY <1>8 DEF IsBoth
  <1> HIDE DEF y
  <1>13. OutKept(x.o, y.o, ForgetOuts)
    <2>1. /\ OutKept(x.o, a.o, {}) /\ OutKept(a.o, b.o, {})
          /\ OutKept(b.o, c.o, {})
      BY <1>3, <1>5, <1>7 DEF Kept
    <2>2. OutKept(x.o, c.o, {})
      BY <2>1 DEF OutKept
    <2>3. /\ OutKept(c.o, u.o, {"tfont", "fontno", "size", "mounted"})
          /\ OutKept(u.o, m.o, {"must"})
      BY <1>9, <1>10 DEF OnlyOut
    <2>4. OutKept(x.o, u.o, ForgetOuts)
      BY <2>2, <2>3 DEF OutKept, ForgetOuts, Places
    <2>5. OutKept(x.o, m.o, ForgetOuts)
      BY <2>3, <2>4 DEF OutKept, ForgetOuts, Places
    <2> QED
      BY <1>12, <2>5
  <1>14. DrvKept(x.d, y.d, ForgetDrvs)
    <2>1. /\ DrvKept(x.d, a.d, {"table"}) /\ DrvKept(a.d, b.d, {"fontno"})
          /\ DrvKept(b.d, c.d, {"size", "height"})
      BY <1>3, <1>5, <1>7 DEF Kept
    <2>2. DrvKept(x.d, b.d, ForgetDrvs)
      BY <2>1 DEF DrvKept, ForgetDrvs
    <2>3. DrvKept(x.d, c.d, ForgetDrvs)
      BY <2>1, <2>2 DEF DrvKept, ForgetDrvs
    <2>4. DrvKept(x.d, e, ForgetDrvs)
      BY <1>11, <2>3 DEF DrvKept, ForgetDrvs
    <2> QED
      BY <1>12, <2>4
  <1>15. Kept(x, y, ForgetOuts, ForgetDrvs)
    BY <1>12, <1>13, <1>14 DEF Kept
  <1>16. HeightsApart => y.d.height = x.d.height
    <2>1. a.d.height = x.d.height /\ b.d.height = a.d.height
      BY <1>3, <1>5 DEF Kept, DrvKept, DrvNames
    <2>2. e.height = c.d.height
      BY <1>11 DEF DrvKept, DrvNames
    <2>3. HeightsApart => x.d.height \notin Sizes
      BY DEF Sound, Good, Looks
    <2>4. HeightsApart => x.d.height # tf.size
      BY <1>2, <2>3
    <2> QED
      BY <1>7, <1>12, <2>1, <2>2, <2>4 DEF UnlessSize
  <1>17. /\ m.o.tfont = u.o.tfont /\ m.o.fontno = u.o.fontno
         /\ m.o.size = u.o.size /\ m.o.mounted = u.o.mounted
         /\ m.o.hpos = u.o.hpos /\ m.o.vpos = u.o.vpos
         /\ m.o.ohpos = u.o.ohpos /\ m.o.ovpos = u.o.ovpos
    BY <1>10 DEF OnlyOut, OutKept, OutNames
  <1>18. Forgotten(y.o) /\ y.o.must
    BY <1>9, <1>10, <1>12, <1>17 DEF Forgotten
  <1>19. Numbered(y)
    <2>1. /\ a.o.hpos = x.o.hpos /\ a.o.vpos = x.o.vpos
          /\ a.o.ohpos = x.o.ohpos /\ a.o.ovpos = x.o.ovpos
      BY <1>3 DEF Kept, OutKept, OutNames
    <2>2. /\ b.o.hpos = a.o.hpos /\ b.o.vpos = a.o.vpos
          /\ b.o.ohpos = a.o.ohpos /\ b.o.ovpos = a.o.ovpos
      BY <1>5 DEF Kept, OutKept, OutNames
    <2>3. /\ c.o.hpos = b.o.hpos /\ c.o.vpos = b.o.vpos
          /\ c.o.ohpos = b.o.ohpos /\ c.o.ovpos = b.o.ovpos
      BY <1>7 DEF Kept, OutKept, OutNames
    <2>4. /\ u.o.hpos = c.o.hpos /\ u.o.vpos = c.o.vpos
          /\ u.o.ohpos = c.o.ohpos /\ u.o.ovpos = c.o.ovpos
      BY <1>9 DEF OnlyOut, OutKept, OutNames
    <2>5. Numbered(x)
      BY DEF Sound, Rest, Typed
    <2>6. to[1] \in Int /\ to[2] \in Int
      BY OutputFileAssumption
    <2>7. /\ y.o.hpos = x.o.hpos /\ y.o.vpos = x.o.vpos
          /\ y.o.ohpos = x.o.ohpos /\ y.o.ovpos = x.o.ovpos
          /\ y.d.hpos = to[1] /\ y.d.vpos = to[2]
      BY <1>11, <1>12, <1>17, <2>1, <2>2, <2>3, <2>4
    <2> QED
      BY <2>5, <2>6, <2>7 DEF Numbered
  <1>20. Sound(y) /\ Ink(y) = Ink(x)
    BY <1>15, <1>16, <1>18, <1>19, ForgottenSound
  <1> QED
    BY <1>1, <1>18, <1>20 DEF r

-----------------------------------------------------------------------------
\* What a step makes of the output file and the driver.
Stepped(x, due) == [o |-> x.o, d |-> [x.d EXCEPT !.ink = Astray(@, due)]]

\* The driver made some other marks; nothing else changes.
LEMMA InkSound ==
    ASSUME NEW x, Sound(x), NEW y, Kept(x, y, {}, {"ink"}), IsSeq(y.d.ink)
    PROVE  /\ Sound(y)
           /\ WordMarks(y.d, y.o.kern, y.o.tbuf)
                = WordMarks(x.d, x.o.kern, x.o.tbuf)
  <1>1. IsBoth(x) /\ IsBoth(y)
    BY SoundIsBoth, KeptIsBoth
  <1>2. SameLooks(x, y)
    BY DEF SameLooks, Kept, OutKept, DrvKept, DrvPositions
  <1>3. Good(y)
    BY <1>2, GoodSame DEF Sound
  <1>4. OutKept(x.o, y.o, {}) /\ DrvKept(x.d, y.d, {"ink"})
    BY DEF Kept
  <1>5. /\ y.o.hpos = x.o.hpos /\ y.o.vpos = x.o.vpos
        /\ y.o.ohpos = x.o.ohpos /\ y.o.ovpos = x.o.ovpos
        /\ y.o.kern = x.o.kern /\ y.o.must = x.o.must /\ y.o.on = x.o.on
        /\ y.o.tbuf = x.o.tbuf /\ y.o.tcommand = x.o.tcommand
    BY <1>4 DEF OutKept, OutNames
  <1>6. /\ y.d.hpos = x.d.hpos /\ y.d.vpos = x.d.vpos
        /\ y.d.fontno = x.d.fontno /\ y.d.table = x.d.table
        /\ y.d.size = x.d.size /\ y.d.height = x.d.height
        /\ y.d.slant = x.d.slant /\ y.d.stroke = x.d.stroke
        /\ y.d.fill = x.d.fill
    BY <1>4 DEF DrvKept, DrvNames
  <1>7. /\ WordMarks(y.d, x.o.kern, x.o.tbuf)
             = WordMarks(x.d, x.o.kern, x.o.tbuf)
        /\ WordEnd(y.d, x.o.kern, x.o.tbuf) = WordEnd(x.d, x.o.kern, x.o.tbuf)
    BY <1>6, WordSame
  <1>8. End(y) = End(x)
    BY <1>5, <1>6, <1>7 DEF End
  <1>9. Typed(x) /\ Fitting(x) /\ Believed(x)
    BY DEF Sound, Rest
  <1>10. Typed(y)
    BY <1>5, <1>6, <1>9 DEF Typed, Numbered
  <1>11. Fitting(y)
    BY <1>5, <1>6, <1>9 DEF Fitting, FontSet
  <1>12. Believed(y)
    BY <1>5, <1>8, <1>9 DEF Believed, Knows
  <1> QED
    BY <1>3, <1>5, <1>7, <1>10, <1>11, <1>12 DEF Sound, Rest

LEMMA EmptyFirst ==
    ASSUME NEW s, IsSeq(s)
    PROVE  <<>> \o s = s
  <1> DEFINE e == <<>>
             r == e \o s
  <1>1. IsSeq(e) /\ Len(e) = 0
    BY SeqMade DEF IsSeq
  <1> HIDE DEF e
  <1>2. /\ IsSeq(r) /\ Len(r) = Len(e) + Len(s)
        /\ \A i \in 1..Len(s) : r[Len(e) + i] = s[i]
    BY <1>1, SeqConcat
  <1>3. Len(s) \in Nat
    BY SeqParts
  <1> HIDE DEF r
  <1>4. Len(r) = Len(s) /\ \A i \in 1..Len(s) : r[i] = s[i]
    BY <1>1, <1>2, <1>3
  <1>5. r = s
    BY <1>2, <1>4, SeqEqual
  <1> QED
    BY <1>5 DEF r, e

LEMMA SteppedSound ==
    ASSUME NEW x, Sound(x), NEW due
    PROVE  LET y == Stepped(x, due)
           IN  /\ Sound(y) /\ y.o = x.o
               /\ Ink(x) = due =>
                     /\ IsSeq(StillDue(x.d.ink, due))
                     /\ Ink(y) = StillDue(x.d.ink, due)
  <1> DEFINE left == Astray(x.d.ink, due)
             y == Stepped(x, due)
             s == x.d.ink
             t == WordMarks(x.d, x.o.kern, x.o.tbuf)
  <1>1. IsBoth(x) /\ IsSeq(s) /\ x.o.tbuf \in Seq(Glyphs)
    BY SoundIsBoth DEF Sound, Rest, Typed
  <1>2. IsSeq(left)
    <2>1. IsSeq(<<>>)
      BY SeqMade DEF IsSeq
    <2> QED
      BY <1>1, <2>1 DEF Astray
  <1> HIDE DEF left
  <1>3. Kept(x, y, {}, {"ink"}) /\ y.d.ink = left /\ y.o = x.o
    <2> DEFINE e == [x.d EXCEPT !.ink = left]
    <2>1. y = [o |-> x.o, d |-> e]
      BY DEF Stepped, left
    <2>2. IsDriver(x.d) /\ IsOut(x.o)
      BY <1>1 DEF IsBoth
    <2>3. DrvKept(x.d, e, {"ink"}) /\ e.ink = left
      BY <2>2 DEF DrvKept, IsDriver, DrvNames
    <2>4. OutKept(x.o, x.o, {})
      BY <2>2 DEF OutKept
    <2> HIDE DEF e, y
    <2>5. y.o = x.o /\ y.d = e /\ DOMAIN y = {"o", "d"}
      BY <2>1
    <2> QED
      BY <2>3, <2>4, <2>5 DEF Kept
  <1> HIDE DEF y
  <1>4. Sound(y) /\ WordMarks(y.d, y.o.kern, y.o.tbuf) = t
    BY <1>2, <1>3, InkSound
  <1>5. ASSUME Ink(x) = due
        PROVE  /\ IsSeq(StillDue(s, due))
               /\ Ink(y) = StillDue(s, due)
    <2>1. IsSeq(t)
      BY <1>1, WordMarksSeq
    <2>2. Ink(x) = s \o t
      BY BufferedWord DEF Written
    <2>3. Ink(y) = y.d.ink \o t
      BY <1>4, BufferedWord DEF Written
    <2> HIDE DEF s, t
    <2>4. /\ s = SubSeq(s \o t, 1, Len(s))
          /\ t = SubSeq(s \o t, Len(s) + 1, Len(s \o t))
          /\ Len(s) <= Len(s \o t)
      BY <1>1, <2>1, ConcatRest
    <2>5. due = s \o t
      BY <1>5, <2>2
    <2> HIDE DEF left
    <2>6. IsPaid(s, due)
      BY <2>4, <2>5 DEF IsPaid
    <2>7. StillDue(s, due) = t
      BY <2>4, <2>5, <2>6 DEF StillDue
    <2>8. left = <<>>
      BY <2>6 DEF left, Astray, s
    <2>9. Ink(y) = <<>> \o t
      BY <1>3, <2>3, <2>8
    <2>10. Ink(y) = t
      BY <2>1, <2>9, EmptyFirst
    <2> QED
      BY <2>1, <2>7, <2>10
  <1> QED
    BY <1>3, <1>4, <1>5 DEF y

\* A mark where the pen takes it.
PlacedMark(m) == [m EXCEPT !.h = @ + pen[1], !.v = @ + pen[2]]

LEMMA PlacedNone ==
    ASSUME NEW s, IsSeq(s)
    PROVE  s \o Placed(<<>>) = s
  <1> DEFINE p == Placed(<<>>)
             r == s \o p
  <1>1. p = [i \in 1..0 |-> p[i]]
    BY DEF Placed
  <1>2. IsSeq(p) /\ Len(p) = 0
    BY <1>1, SeqMade
  <1> HIDE DEF p
  <1>3. /\ IsSeq(r) /\ Len(r) = Len(s) + Len(p)
        /\ \A i \in 1..Len(s) : r[i] = s[i]
    BY <1>2, SeqConcat
  <1>4. Len(s) \in Nat
    BY SeqParts
  <1> HIDE DEF r
  <1>5. Len(r) = Len(s)
    BY <1>2, <1>3, <1>4
  <1>6. r = s
    BY <1>3, <1>5, SeqEqual
  <1> QED
    BY <1>6 DEF r, p

LEMMA PlacedOne ==
    ASSUME NEW s, IsSeq(s), NEW m
    PROVE  s \o Placed(<<m>>) = Append(s, PlacedMark(m))
  <1> DEFINE p == Placed(<<m>>)
             q == Append(s, PlacedMark(m))
             r == s \o p
  <1>1. p = [i \in 1..1 |-> p[i]] /\ p[1] = PlacedMark(m)
    <2>1. DOMAIN <<m>> = 1..1 /\ <<m>>[1] = m
      OBVIOUS
    <2>2. p = [i \in 1..1 |-> PlacedMark(<<m>>[i])]
      BY <2>1 DEF Placed, PlacedMark
    <2>3. 1 \in 1..1
      OBVIOUS
    <2> HIDE DEF p
    <2>4. p[1] = PlacedMark(<<m>>[1])
      BY <2>2, <2>3
    <2> QED
      BY <2>1, <2>2, <2>4
  <1>2. IsSeq(p) /\ Len(p) = 1
    BY <1>1, SeqMade
  <1> HIDE DEF p
  <1>3. /\ IsSeq(r) /\ Len(r) = Len(s) + Len(p)
        /\ \A i \in 1..Len(s) : r[i] = s[i]
        /\ \A i \in 1..Len(p) : r[Len(s) + i] = p[i]
    <2>1. IsSeq(p)
      BY <1>2
    <2>2. IsSeq(r) /\ Len(r) = Len(s) + Len(p)
      BY <2>1, SeqConcat
    <2>3. \A i \in 1..Len(s) : r[i] = s[i]
      BY <2>1, SeqConcat
    <2>4. \A i \in 1..Len(p) : r[Len(s) + i] = p[i]
      BY <2>1, SeqConcat
    <2> QED
      BY <2>2, <2>3, <2>4
  <1>4. /\ IsSeq(q) /\ Len(q) = Len(s) + 1
        /\ \A i \in 1..Len(s) : q[i] = s[i]
        /\ q[Len(s) + 1] = PlacedMark(m)
    BY SeqAppend
  <1>5. Len(s) \in Nat
    BY SeqParts
  <1> HIDE DEF q, r
  <1>6. Len(r) = Len(q) /\ r[Len(s) + 1] = q[Len(s) + 1]
    <2>1. 1 \in 1..Len(p)
      BY <1>2
    <2>2. r[Len(s) + 1] = p[1]
      BY <1>3, <2>1
    <2> QED
      BY <1>1, <1>2, <1>3, <1>4, <1>5, <2>2
  <1>7. \A i \in 1..Len(r) : r[i] = q[i]
    <2> TAKE i \in 1..Len(r)
    <2>1. i \in 1..Len(s) \/ i = Len(s) + 1
      BY <1>2, <1>3, <1>5
    <2> QED
      BY <1>3, <1>4, <1>6, <2>1
  <1>8. r = q
    BY <1>3, <1>4, <1>6, <1>7, SeqEqual
  <1> QED
    BY <1>8 DEF r, q, p

LEMMA PlacedTwo ==
    ASSUME NEW s, IsSeq(s), NEW m, NEW n
    PROVE  s \o Placed(<<m, n>>)
             = Append(Append(s, PlacedMark(m)), PlacedMark(n))
  <1> DEFINE p == Placed(<<m, n>>)
             a == Append(s, PlacedMark(m))
             q == Append(a, PlacedMark(n))
             r == s \o p
  <1>1. /\ p = [i \in 1..2 |-> p[i]]
        /\ p[1] = PlacedMark(m) /\ p[2] = PlacedMark(n)
    <2>1. /\ DOMAIN <<m, n>> = 1..2
          /\ <<m, n>>[1] = m /\ <<m, n>>[2] = n
      OBVIOUS
    <2>2. p = [i \in 1..2 |-> PlacedMark(<<m, n>>[i])]
      BY <2>1 DEF Placed, PlacedMark
    <2>3. 1 \in 1..2 /\ 2 \in 1..2
      OBVIOUS
    <2> HIDE DEF p
    <2>4. p[1] = PlacedMark(<<m, n>>[1]) /\ p[2] = PlacedMark(<<m, n>>[2])
      BY <2>2, <2>3
    <2> QED
      BY <2>1, <2>2, <2>4
  <1>2. IsSeq(p) /\ Len(p) = 2
    BY <1>1, SeqMade
  <1> HIDE DEF p
  <1>3. /\ IsSeq(r) /\ Len(r) = Len(s) + Len(p)
        /\ \A i \in 1..Len(s) : r[i] = s[i]
        /\ \A i \in 1..Len(p) : r[Len(s) + i] = p[i]
    <2>1. IsSeq(p)
      BY <1>2
    <2>2. IsSeq(r) /\ Len(r) = Len(s) + Len(p)
      BY <2>1, SeqConcat
    <2>3. \A i \in 1..Len(s) : r[i] = s[i]
      BY <2>1, SeqConcat
    <2>4. \A i \in 1..Len(p) : r[Len(s) + i] = p[i]
      BY <2>1, SeqConcat
    <2> QED
      BY <2>2, <2>3, <2>4
  <1>4. /\ IsSeq(a) /\ Len(a) = Len(s) + 1
        /\ \A i \in 1..Len(s) : a[i] = s[i]
        /\ a[Len(s) + 1] = PlacedMark(m)
    BY SeqAppend
  <1> HIDE DEF a
  <1>5. /\ IsSeq(q) /\ Len(q) = Len(a) + 1
        /\ \A i \in 1..Len(a) : q[i] = a[i]
        /\ q[Len(a) + 1] = PlacedMark(n)
    BY <1>4, SeqAppend
  <1>6. Len(s) \in Nat
    BY SeqParts
  <1> HIDE DEF q, r
  <1>7. /\ Len(r) = Len(q) /\ Len(r) = Len(s) + 2
        /\ r[Len(s) + 1] = q[Len(s) + 1] /\ r[Len(s) + 2] = q[Len(s) + 2]
    <2>1. Len(a) + 1 = Len(s) + 2 /\ Len(a) = Len(s) + 1
      BY <1>4, <1>6
    <2>6. 1 \in 1..Len(p) /\ 2 \in 1..Len(p)
      BY <1>2
    <2>2. r[Len(s) + 1] = p[1] /\ r[Len(s) + 2] = p[2]
      BY <1>3, <2>6
    <2>3. q[Len(s) + 1] = a[Len(s) + 1]
      BY <1>5, <1>6, <2>1
    <2>4. q[Len(s) + 2] = PlacedMark(n)
      BY <1>5, <2>1
    <2>5. Len(r) = Len(s) + 2 /\ Len(q) = Len(s) + 2
      BY <1>2, <1>3, <1>5, <2>1
    <2> QED
      BY <1>1, <1>4, <2>2, <2>3, <2>4, <2>5
  <1>8. \A i \in 1..Len(s) : q[i] = s[i]
    BY <1>4, <1>5, <1>6
  <1>9. \A i \in 1..Len(r) : r[i] = q[i]
    <2> TAKE i \in 1..Len(r)
    <2>1. i \in 1..Len(s) \/ i = Len(s) + 1 \/ i = Len(s) + 2
      BY <1>6, <1>7
    <2> QED
      BY <1>3, <1>7, <1>8, <2>1
  <1>10. r = q
    BY <1>3, <1>5, <1>7, <1>9, SeqEqual
  <1> QED
    BY <1>10 DEF r, q, a, p

-----------------------------------------------------------------------------
\* The inductive invariant.  It says of every document what troff knows, and
\* of those without the extras that every mark asked for is made or waits in
\* the buffer and that the pen is where troff is.
Inv ==
    /\ Sound(Both)
    /\ ~inLine => out.must
    /\ Normal => Ink(Both) = owed /\ IsSeq(owed)
    /\ Normal /\ inLine => pen = <<out.hpos, out.vpos>>

LEMMA StepKeeps ==
    ASSUME NEW x, NEW marks, NEW move, Step(x, marks, move), Sound(x),
           ~inLine' => x.o.must,
           Normal => Ink(x) = owed \o Placed(marks),
           Normal /\ inLine' => From(pen, move) = <<x.o.hpos, x.o.vpos>>
    PROVE  Inv'
  <1> DEFINE due == owed \o Placed(marks)
             y == Stepped(x, due)
  <1>1. /\ out' = x.o /\ drv' = [x.d EXCEPT !.ink = Astray(@, due)]
        /\ owed' = StillDue(x.d.ink, due) /\ pen' = From(pen, move)
    BY DEF Step
  <1>2. Both' = y
    BY <1>1 DEF Both, Stepped
  <1>3. /\ Sound(y) /\ y.o = x.o
        /\ Ink(x) = due => /\ IsSeq(StillDue(x.d.ink, due))
                           /\ Ink(y) = StillDue(x.d.ink, due)
    BY SteppedSound
  <1>4. Normal => Ink(x) = due
    OBVIOUS
  <1> HIDE DEF due, y
  <1>5. Sound(Both')
    BY <1>2, <1>3
  <1>6. ~inLine' => out'.must
    BY <1>1
  <1>7. Normal => Ink(Both') = owed' /\ IsSeq(owed')
    BY <1>1, <1>2, <1>3, <1>4
  <1>8. Normal /\ inLine' => pen' = <<out'.hpos, out'.vpos>>
    BY <1>1
  <1> QED
    BY <1>5, <1>6, <1>7, <1>8 DEF Inv

\* A step that asks for no marks.
LEMMA QuietKeeps ==
    ASSUME Inv, NEW x, NEW move, Step(x, <<>>, move), Sound(x),
           Ink(x) = Ink(Both), ~inLine' => x.o.must,
           Normal /\ inLine' => From(pen, move) = <<x.o.hpos, x.o.vpos>>
    PROVE  Inv'
  <1>1. Normal => Ink(x) = owed \o Placed(<<>>)
    BY PlacedNone DEF Inv
  <1> QED
    BY <1>1, StepKeeps

\* The same between lines or in one, without a move.
LEMMA FromNowhere ==
    ASSUME Inv, Normal, inLine
    PROVE  From(pen, <<0, 0>>) = <<out.hpos, out.vpos>>
  <1>1. out.hpos \in Int /\ out.vpos \in Int
    BY DEF Inv, Sound, Rest, Typed, Numbered, Both
  <1>2. pen = <<out.hpos, out.vpos>>
    BY DEF Inv
  <1> QED
    BY <1>1, <1>2 DEF From

LEMMA PaintsAreColors ==
    ASSUME NEW p \in Paints
    PROVE  p[1] # NoColor /\ p[2] # NoColor
  BY OutputFileAssumption

LEMMA BothFields == Both.o = out /\ Both.d = drv
  BY DEF Both

\* What a node asks for is what troff should print from where it is.
LEMMA WantedIsFor ==
    ASSUME NEW tf, NEW sc, NEW fc, NEW n
    PROVE  /\ WantedLook(tf, sc, fc) = LookFor(Both, Plain(tf), sc, fc)
           /\ WantedShape(n, sc, fc) = ShapeFor(Both, n, sc, fc)
  BY BothFields
  DEF WantedLook, LookFor, Plain, WantedStroke, WantedFill, StrokeFor, FillFor,
      WantedShape, ShapeFor

LEMMA MarkPlaced ==
    ASSUME NEW what, NEW look, NEW h, NEW v
    PROVE  PlacedMark([what |-> what, look |-> look, h |-> h, v |-> v])
             = Mark(what, look, h + pen[1], v + pen[2])
  <1> DEFINE m == [what |-> what, look |-> look, h |-> h, v |-> v]
             a == m.h + pen[1]
             b == m.v + pen[2]
             e == [m EXCEPT !.h = a]
             f == [e EXCEPT !.v = b]
  <1>1. /\ m.h = h /\ m.v = v /\ m.what = what /\ m.look = look
        /\ DOMAIN m = {"what", "look", "h", "v"}
    OBVIOUS
  <1>2. PlacedMark(m) = f
    BY DEF PlacedMark
  <1> HIDE DEF m
  <1>3. a = h + pen[1] /\ b = v + pen[2]
    BY <1>1
  <1> HIDE DEF a, b
  <1>4. e = [k \in {"what", "look", "h", "v"} |-> IF k = "h" THEN a ELSE m[k]]
    BY <1>1
  <1> HIDE DEF e
  <1>5. /\ e.what = what /\ e.look = look /\ e.h = a
        /\ DOMAIN e = {"what", "look", "h", "v"}
    BY <1>1, <1>4
  <1>6. f = [k \in {"what", "look", "h", "v"} |-> IF k = "v" THEN b ELSE e[k]]
    BY <1>5
  <1> HIDE DEF f
  <1>7. f = Mark(what, look, a, b)
    BY <1>5, <1>6 DEF Mark
  <1> QED
    BY <1>2, <1>3, <1>7 DEF m

LEMMA GlyphsPlaced ==
    ASSUME Inv, Normal, inLine, NEW tf \in Tfonts, NEW g \in Glyphs,
           NEW sc, sc # NoColor, NEW fc, fc # NoColor, NEW y,
           Prints(Both, y, g, tf, sc, fc)
    PROVE  Ink(y) = owed \o Placed(WantedGlyphs(g, tf, sc, fc))
  <1> DEFINE look == WantedLook(tf, sc, fc)
             b == Before(g, tf)
             m == Mark(g, look, b, 0)
             n == [m EXCEPT !.h = @ + tf.bold]
  <1>1. /\ out.hpos \in Int /\ out.vpos \in Int /\ b \in Int
        /\ tf.bold \in Int
    BY GlyphTyped DEF Inv, Sound, Rest, Typed, Numbered, Both
  <1>2. pen[1] = out.hpos /\ pen[2] = out.vpos
    BY DEF Inv
  <1>3. Ink(Both) = owed /\ IsSeq(owed)
    BY DEF Inv
  <1>4. look = LookFor(Both, Plain(tf), sc, fc)
    BY WantedIsFor
  <1>5. WantedGlyphs(g, tf, sc, fc)
          = IF ~out.on THEN <<>>
            ELSE IF tf.bold = 0 THEN <<m>> ELSE <<m, n>>
    BY DEF WantedGlyphs
  <1>6. /\ m = [what |-> g, look |-> look, h |-> b, v |-> 0]
        /\ n = [what |-> g, look |-> look, h |-> b + tf.bold, v |-> 0]
    BY DEF Mark
  <1> HIDE DEF look, b, m, n
  <1>7. PlacedMark(m) = Mark(g, look, out.hpos + b, out.vpos)
    <2>1. PlacedMark(m) = Mark(g, look, b + pen[1], 0 + pen[2])
      BY <1>6, MarkPlaced
    <2>2. b + pen[1] = out.hpos + b /\ 0 + pen[2] = out.vpos
      BY <1>1, <1>2
    <2> QED
      BY <2>1, <2>2
  <1>8. PlacedMark(n) = Mark(g, look, out.hpos + b + tf.bold, out.vpos)
    <2>1. PlacedMark(n) = Mark(g, look, (b + tf.bold) + pen[1], 0 + pen[2])
      BY <1>6, MarkPlaced
    <2>2. /\ (b + tf.bold) + pen[1] = out.hpos + b + tf.bold
          /\ 0 + pen[2] = out.vpos
      BY <1>1, <1>2
    <2> QED
      BY <2>1, <2>2
  <1>9. /\ First(Both, g, tf, sc, fc) = PlacedMark(m)
        /\ Second(Both, g, tf, sc, fc) = PlacedMark(n)
    BY <1>4, <1>7, <1>8, BothFields DEF First, Second, b
  <1>10. /\ ~out.on => Ink(y) = owed
         /\ out.on => Ink(y) = IF tf.bold = 0
                               THEN Append(owed, PlacedMark(m))
                               ELSE Append(Append(owed, PlacedMark(m)),
                                           PlacedMark(n))
    BY <1>3, <1>9, BothFields DEF Prints
  <1> DEFINE marks == WantedGlyphs(g, tf, sc, fc)
  <1> HIDE DEF marks
  <1>14. /\ ~out.on => marks = <<>>
         /\ out.on /\ tf.bold = 0 => marks = <<m>>
         /\ out.on /\ tf.bold # 0 => marks = <<m, n>>
    BY <1>5 DEF marks
  <1>15. IsSeq(owed)
    BY <1>3
  <1>11. CASE ~out.on
    <2>1. Ink(y) = owed /\ marks = <<>>
      BY <1>10, <1>11, <1>14
    <2> QED
      BY <1>15, <2>1, PlacedNone DEF marks
  <1>12. CASE out.on /\ tf.bold = 0
    <2>1. Ink(y) = Append(owed, PlacedMark(m)) /\ marks = <<m>>
      BY <1>10, <1>12, <1>14
    <2> QED
      BY <1>15, <2>1, PlacedOne DEF marks
  <1>13. CASE out.on /\ tf.bold # 0
    <2>1. /\ Ink(y) = Append(Append(owed, PlacedMark(m)), PlacedMark(n))
          /\ marks = <<m, n>>
      BY <1>10, <1>13, <1>14
    <2>2. owed \o Placed(<<m, n>>)
            = Append(Append(owed, PlacedMark(m)), PlacedMark(n))
      BY <1>15, PlacedTwo
    <2>3. Placed(marks) = Placed(<<m, n>>)
      BY <2>1
    <2> QED
      BY <2>1, <2>2, <2>3 DEF marks
  <1> QED
    BY <1>11, <1>12, <1>13

LEMMA NotLost ==
    ASSUME ~Lost
    PROVE  Found(Both)
  BY BothFields DEF Lost, Found, Met

LEMMA GlyphKeeps ==
    ASSUME Inv, NEW tf \in Tfonts, NEW p \in Paints, NEW g \in Glyphs,
           Glyph(g, tf, p[1], p[2])
    PROVE  Inv'
  <1> DEFINE y == GlyphTprint(Both, g, tf, p[1], p[2])
             marks == WantedGlyphs(g, tf, p[1], p[2])
             move == <<Advance(g, tf), 0>>
  <1>1. /\ inLine /\ inLine' = inLine
        /\ tf.bold # 0 /\ Lost => "lost" \in Extras
        /\ Step(y, marks, move)
    BY DEF Glyph
  <1>2. Sound(Both)
    BY DEF Inv
  <1>3. tf.bold # 0 /\ Normal => Found(Both)
    BY <1>1, NotLost DEF Normal
  <1>4. /\ Prints(Both, y, g, tf, p[1], p[2])
        /\ y.o.hpos = Both.o.hpos + Advance(g, tf)
    BY <1>2, <1>3, GlyphTprintSound
  <1> HIDE DEF y
  <1>5. Sound(y) /\ y.o.vpos = out.vpos
    BY <1>4, BothFields DEF Prints, Onward
  <1>6. Normal => Ink(y) = owed \o Placed(marks)
    BY <1>1, <1>4, GlyphsPlaced, PaintsAreColors
  <1> HIDE DEF marks
  <1>7. Normal => From(pen, move) = <<y.o.hpos, y.o.vpos>>
    <2> HAVE Normal
    <2>1. pen = <<out.hpos, out.vpos>>
      BY <1>1 DEF Inv
    <2>2. out.vpos \in Int
      BY BothFields DEF Inv, Sound, Rest, Typed, Numbered
    <2>3. From(pen, move) = <<out.hpos + Advance(g, tf), out.vpos + 0>>
      BY <2>1 DEF From
    <2> HIDE DEF move
    <2> QED
      BY <1>4, <1>5, <2>2, <2>3, BothFields
  <1> HIDE DEF move
  <1> QED
    BY <1>1, <1>5, <1>6, <1>7, StepKeeps

LEMMA ZeroWidthGlyphKeeps ==
    ASSUME Inv, NEW tf \in Tfonts, NEW p \in Paints, NEW g \in Glyphs,
           ZeroWidthGlyph(g, tf, p[1], p[2])
    PROVE  Inv'
  <1> DEFINE y == GlyphZeroWidthTprint(Both, g, tf, p[1], p[2])
             marks == WantedGlyphs(g, tf, p[1], p[2])
             move == <<0, 0>>
  <1>1. /\ inLine /\ inLine' = inLine
        /\ Lost => "lost" \in Extras
        /\ Step(y, marks, move)
    BY DEF ZeroWidthGlyph
  <1>2. Sound(Both)
    BY DEF Inv
  <1>3. Normal => Found(Both)
    BY <1>1, NotLost DEF Normal
  <1>4. /\ Prints(Both, y, g, tf, p[1], p[2])
        /\ y.o.hpos = Both.o.hpos
    BY <1>2, <1>3, GlyphZeroWidthTprintSound
  <1> HIDE DEF y
  <1>5. Sound(y) /\ y.o.vpos = out.vpos
    BY <1>4, BothFields DEF Prints, Onward
  <1>6. Normal => Ink(y) = owed \o Placed(marks)
    BY <1>1, <1>4, GlyphsPlaced, PaintsAreColors
  <1> HIDE DEF marks
  <1>7. Normal => From(pen, move) = <<y.o.hpos, y.o.vpos>>
    BY <1>1, <1>4, <1>5, FromNowhere, BothFields
  <1> HIDE DEF move
  <1> QED
    BY <1>1, <1>5, <1>6, <1>7, StepKeeps

-----------------------------------------------------------------------------
\* The nodes of a line keep the invariant.

LEMMA FromBy ==
    ASSUME Inv, Normal, inLine, NEW a, NEW b
    PROVE  From(pen, <<a, b>>) = <<out.hpos + a, out.vpos + b>>
  <1>1. pen = <<out.hpos, out.vpos>>
    BY DEF Inv
  <1> QED
    BY <1>1 DEF From

LEMMA InvSound == ASSUME Inv PROVE Sound(Both)
  BY DEF Inv

LEMMA InvNumbers ==
    ASSUME Inv
    PROVE  out.hpos \in Int /\ out.vpos \in Int
  BY BothFields DEF Inv, Sound, Rest, Typed, Numbered

\* Colors are sent without moving.
LEMMA FillThere ==
    ASSUME Inv, NEW c
    PROVE  LET y == FillColor(Both, c)
           IN  /\ Sound(y) /\ Ink(y) = Ink(Both)
               /\ y.o.hpos = out.hpos /\ y.o.vpos = out.vpos
  <1> DEFINE y == FillColor(Both, c)
  <1>1. /\ Sound(y) /\ Ink(y) = Ink(Both)
        /\ Kept(Both, y, Sent \cup {"fill"}, DrvPositions \cup {"fill"})
    BY InvSound, FillSound
  <1> HIDE DEF y
  <1>2. OutKept(out, y.o, Sent \cup {"fill"})
    BY <1>1, BothFields DEF Kept
  <1>3. y.o.hpos = out.hpos /\ y.o.vpos = out.vpos
    BY <1>2 DEF OutKept, OutNames, Sent
  <1> QED
    BY <1>1, <1>3 DEF y

LEMMA SpaceKeeps ==
    ASSUME Inv, NEW n \in Int, NEW fc, Space(n, fc)
    PROVE  Inv'
  <1> DEFINE y == FillColor(Both, fc)
             z == Right(y, n)
             move == <<n, 0>>
  <1>1. inLine /\ inLine' = inLine /\ Step(z, <<>>, move)
    BY DEF Space
  <1>2. /\ Sound(y) /\ Ink(y) = Ink(Both)
        /\ y.o.hpos = out.hpos /\ y.o.vpos = out.vpos
    BY FillThere
  <1> HIDE DEF y
  <1>3. /\ Sound(z) /\ Ink(z) = Ink(y) /\ OnlyOut(y, z, {"hpos"})
        /\ z.o.hpos = y.o.hpos + n
    BY <1>2, RightSound
  <1> HIDE DEF z
  <1>4. z.o.vpos = y.o.vpos
    BY <1>3 DEF OnlyOut, OutKept, OutNames
  <1>5. Normal => From(pen, move) = <<out.hpos + n, out.vpos + 0>>
    BY <1>1, FromBy
  <1>6. out.vpos + 0 = out.vpos
    BY InvNumbers
  <1> HIDE DEF move
  <1>7. Normal => From(pen, move) = <<z.o.hpos, z.o.vpos>>
    BY <1>2, <1>3, <1>4, <1>5, <1>6
  <1> QED
    BY <1>1, <1>2, <1>3, <1>7, QuietKeeps

LEMMA WordSpaceKeeps ==
    ASSUME Inv, NEW n \in Int, NEW fc, WordSpace(n, fc)
    PROVE  Inv'
  <1> DEFINE w == FillColor(Both, fc)
             y == FlushTbuf(w)
             z == Right(y, n)
             move == <<n, 0>>
  <1>1. inLine /\ inLine' = inLine /\ Step(z, <<>>, move)
    BY DEF WordSpace, WordMarker
  <1>2. /\ Sound(w) /\ Ink(w) = Ink(Both)
        /\ w.o.hpos = out.hpos /\ w.o.vpos = out.vpos
    BY FillThere
  <1> HIDE DEF w
  <1>8. Sound(y) /\ Ink(y) = Ink(w) /\ y.o.hpos = w.o.hpos /\ Onward(w, y)
    BY <1>2, FlushOnward
  <1> HIDE DEF y
  <1>3. /\ Sound(z) /\ Ink(z) = Ink(y) /\ OnlyOut(y, z, {"hpos"})
        /\ z.o.hpos = y.o.hpos + n
    BY <1>8, RightSound
  <1> HIDE DEF z
  <1>4. z.o.vpos = y.o.vpos /\ y.o.vpos = w.o.vpos
    BY <1>3, <1>8 DEF OnlyOut, OutKept, OutNames, Onward
  <1>5. Normal => From(pen, move) = <<out.hpos + n, out.vpos + 0>>
    BY <1>1, FromBy
  <1>6. out.vpos + 0 = out.vpos
    BY InvNumbers
  <1> HIDE DEF move
  <1>7. Normal => From(pen, move) = <<z.o.hpos, z.o.vpos>>
    BY <1>2, <1>3, <1>4, <1>5, <1>6, <1>8
  <1> QED
    BY <1>1, <1>2, <1>3, <1>7, <1>8, QuietKeeps

LEMMA VMotionKeeps ==
    ASSUME Inv, NEW n \in Int, NEW fc, VMotion(n, fc)
    PROVE  Inv'
  <1> DEFINE y == FillColor(Both, fc)
             z == Down(y, n)
             move == <<0, n>>
  <1>1. inLine /\ inLine' = inLine /\ Step(z, <<>>, move)
    BY DEF VMotion
  <1>2. /\ Sound(y) /\ Ink(y) = Ink(Both)
        /\ y.o.hpos = out.hpos /\ y.o.vpos = out.vpos
    BY FillThere
  <1> HIDE DEF y
  <1>3. /\ Sound(z) /\ Ink(z) = Ink(y) /\ OnlyOut(y, z, {"vpos"})
        /\ z.o.vpos = y.o.vpos + n
    BY <1>2, DownSound
  <1> HIDE DEF z
  <1>4. z.o.hpos = y.o.hpos
    BY <1>3 DEF OnlyOut, OutKept, OutNames
  <1>5. Normal => From(pen, move) = <<out.hpos + 0, out.vpos + n>>
    BY <1>1, FromBy
  <1>6. out.hpos + 0 = out.hpos
    BY InvNumbers
  <1> HIDE DEF move
  <1>7. Normal => From(pen, move) = <<z.o.hpos, z.o.vpos>>
    BY <1>2, <1>3, <1>4, <1>5, <1>6
  <1> QED
    BY <1>1, <1>2, <1>3, <1>7, QuietKeeps

\* A mark where the pen is.
LEMMA MarkHere ==
    ASSUME Inv, Normal, inLine, NEW what, NEW look, NEW y,
           Adds(Both, y, Mark(what, look, out.hpos, out.vpos))
    PROVE  Ink(y) = owed \o Placed(<<Mark(what, look, 0, 0)>>)
  <1> DEFINE m == Mark(what, look, 0, 0)
  <1>1. m = [what |-> what, look |-> look, h |-> 0, v |-> 0]
    BY DEF Mark
  <1> HIDE DEF m
  <1>2. PlacedMark(m) = Mark(what, look, 0 + pen[1], 0 + pen[2])
    BY <1>1, MarkPlaced
  <1>3. pen[1] = out.hpos /\ pen[2] = out.vpos
    BY DEF Inv
  <1>4. 0 + pen[1] = out.hpos /\ 0 + pen[2] = out.vpos
    BY <1>3, InvNumbers
  <1>5. PlacedMark(m) = Mark(what, look, out.hpos, out.vpos)
    BY <1>2, <1>4
  <1>6. Ink(Both) = owed /\ IsSeq(owed)
    BY DEF Inv
  <1>7. Ink(y) = Append(owed, PlacedMark(m))
    BY <1>5, <1>6 DEF Adds
  <1>8. owed \o Placed(<<m>>) = Append(owed, PlacedMark(m))
    BY <1>6, PlacedOne
  <1> QED
    BY <1>7, <1>8 DEF m

LEMMA DeviceExtensionKeeps ==
    ASSUME Inv, NEW tf \in Tfonts, NEW p \in Paints,
           DeviceExtension(tf, p[1], p[2])
    PROVE  Inv'
  <1> DEFINE y == Put(StartDeviceExtension(Both, Plain(tf), p[1], p[2]),
                      <<"x X", SpecialText>>)
             look == WantedShape(tf.size, p[1], p[2])
             marks == <<Mark(SpecialText, look, 0, 0)>>
             move == <<0, 0>>
  <1>1. inLine /\ inLine' = inLine /\ Step(y, marks, move)
    BY DEF DeviceExtension
  <1>2. ShapeFor(Both, Plain(tf).size, p[1], p[2]) = look
    <2>1. Plain(tf).size = tf.size
      BY DEF Plain
    <2>2. look = ShapeFor(Both, tf.size, p[1], p[2])
      BY WantedIsFor
    <2> QED
      BY <2>1, <2>2
  <1>3. /\ Sound(y) /\ y.o.hpos = Both.o.hpos /\ y.o.vpos = Both.o.vpos
        /\ Normal /\ p[1] # NoColor /\ p[2] # NoColor =>
              Adds(Both, y, Mark(SpecialText,
                                 ShapeFor(Both, Plain(tf).size, p[1], p[2]),
                                 Both.o.hpos, Both.o.vpos))
    BY InvSound, PlainSelectable, ExtensionSound
  <1> HIDE DEF y, look
  <1>4. Normal => Adds(Both, y, Mark(SpecialText, look, out.hpos, out.vpos))
    BY <1>2, <1>3, PaintsAreColors, BothFields
  <1>5. Normal => Ink(y) = owed \o Placed(marks)
    BY <1>1, <1>4, MarkHere
  <1> HIDE DEF marks
  <1>6. Normal => From(pen, move) = <<y.o.hpos, y.o.vpos>>
    BY <1>1, <1>3, FromNowhere, BothFields
  <1> HIDE DEF move
  <1> QED
    BY <1>1, <1>3, <1>5, <1>6, StepKeeps

LEMMA DrawNodeKeeps ==
    ASSUME Inv, NEW drawing \in Drawings, NEW p \in Paints,
           DrawNode(drawing[1], drawing[2], p[1], p[2])
    PROVE  Inv'
  <1> DEFINE shape == drawing[1]
             n == drawing[2]
             y == DrawShape(Both, shape, n, p[1], p[2])
             look == WantedShape(n, p[1], p[2])
             marks == IF out.on THEN <<Mark(shape, look, 0, 0)>> ELSE <<>>
             move == DrawEnd(shape)
  <1>1. /\ inLine /\ inLine' = inLine
        /\ shape.code = "E" => "ellipse" \in Extras
        /\ ~out.on => "drawing off" \in Extras
        /\ Step(y, marks, move)
    BY DEF DrawNode
  <1>2. /\ n \in Sizes /\ shape.h \in Int /\ shape.v \in Int
        /\ shape.code \in {"c", "C"} => shape.v = 0
    BY OutputFileAssumption
  <1>3. move = <<move[1], move[2]>>
    BY DEF DrawEnd
  <1> HIDE DEF shape, n
  <1>4. Drawable(Both, shape)
    BY <1>1, <1>2, BothFields DEF Drawable
  <1>5. /\ Sound(y)
        /\ Normal => /\ y.o.hpos = Both.o.hpos + DrawEnd(shape)[1]
                     /\ y.o.vpos = Both.o.vpos + DrawEnd(shape)[2]
        /\ ~Both.o.on => Ink(y) = Ink(Both)
        /\ Both.o.on /\ Normal /\ p[1] # NoColor /\ p[2] # NoColor =>
              Adds(Both, y, Mark(shape, ShapeFor(Both, n, p[1], p[2]),
                                 Both.o.hpos, Both.o.vpos))
    BY <1>2, <1>4, InvSound, DrawShapeSound
  <1> HIDE DEF y
  <1>6. /\ Normal => y.o.hpos = out.hpos + move[1]
                     /\ y.o.vpos = out.vpos + move[2]
        /\ ~out.on => Ink(y) = Ink(Both)
        /\ out.on /\ Normal =>
              Adds(Both, y, Mark(shape, look, out.hpos, out.vpos))
    BY <1>5, PaintsAreColors, WantedIsFor, BothFields
  <1> HIDE DEF look, move
  <1>7. out.on /\ Normal => Ink(y) = owed \o Placed(marks)
    BY <1>1, <1>6, MarkHere
  <1>8. ~out.on /\ Normal => Ink(y) = owed \o Placed(marks)
    <2> HAVE ~out.on /\ Normal
    <2>1. Ink(Both) = owed /\ IsSeq(owed)
      BY DEF Inv
    <2>2. marks = <<>>
      OBVIOUS
    <2> HIDE DEF marks
    <2> QED
      BY <1>6, <2>1, <2>2, PlacedNone
  <1> HIDE DEF marks
  <1>9. Normal => From(pen, move) = <<out.hpos + move[1], out.vpos + move[2]>>
    BY <1>1, <1>3, FromBy
  <1>10. Normal => From(pen, move) = <<y.o.hpos, y.o.vpos>>
    BY <1>6, <1>9
  <1> QED
    BY <1>1, <1>5, <1>7, <1>8, <1>10, StepKeeps

-----------------------------------------------------------------------------
\* So does what the top-level diversion does.

LEMMA OnKeeps ==
    ASSUME Inv, On
    PROVE  Inv'
  <1> DEFINE y == [ReallyOn(Both) EXCEPT !.o.on = TRUE]
             move == <<0, 0>>
  <1>1. inLine /\ inLine' = inLine /\ Step(y, <<>>, move)
    BY DEF On, Quietly
  <1>2. /\ Sound(y) /\ Ink(y) = Ink(Both)
        /\ y.o.hpos = Both.o.hpos /\ y.o.vpos = Both.o.vpos
    BY InvSound, OnSound
  <1> HIDE DEF y
  <1>3. Normal => From(pen, move) = <<y.o.hpos, y.o.vpos>>
    BY <1>1, <1>2, FromNowhere, BothFields
  <1> HIDE DEF move
  <1> QED
    BY <1>1, <1>2, <1>3, QuietKeeps

LEMMA OffKeeps ==
    ASSUME Inv, Off
    PROVE  Inv'
  <1> DEFINE y == [FlushTbuf(Both) EXCEPT !.o.on = FALSE]
             move == <<0, 0>>
  <1>1. inLine /\ inLine' = inLine /\ Step(y, <<>>, move)
    BY DEF Off, Quietly
  <1>2. /\ Sound(y) /\ Ink(y) = Ink(Both)
        /\ y.o.hpos = Both.o.hpos /\ y.o.vpos = Both.o.vpos
    BY InvSound, OffSound
  <1> HIDE DEF y
  <1>3. Normal => From(pen, move) = <<y.o.hpos, y.o.vpos>>
    BY <1>1, <1>2, FromNowhere, BothFields
  <1> HIDE DEF move
  <1> QED
    BY <1>1, <1>2, <1>3, QuietKeeps

\* The end of a line leaves the driver lost.
LEMMA EndLineKeeps ==
    ASSUME Inv, EndLine
    PROVE  Inv'
  <1> DEFINE y == EndPrintLine(Both)
             move == <<0, 0>>
  <1>1. ~inLine' /\ Step(y, <<>>, move)
    BY DEF EndLine, Quietly
  <1>2. Sound(y) /\ Ink(y) = Ink(Both) /\ y.o.must
    BY InvSound, EndPrintLineSound
  <1> HIDE DEF y, move
  <1> QED
    BY <1>1, <1>2, QuietKeeps

\* A pair of which only the choice of the page is another.
LEMMA ChosenSound ==
    ASSUME NEW x, Sound(x), NEW b
    PROVE  LET y == [x EXCEPT !.o.selected = b]
           IN  Sound(y) /\ Ink(y) = Ink(x) /\ y.o.must = x.o.must
  <1> DEFINE y == [x EXCEPT !.o.selected = b]
  <1>1. IsBoth(x) /\ x.o.hpos \in Int /\ x.o.vpos \in Int
    BY SoundIsBoth DEF Sound, Rest, Typed, Numbered
  <1>2. /\ OnlyOut(x, y, {"selected"}) /\ y.o.must = x.o.must
        /\ y.o.hpos = x.o.hpos /\ y.o.vpos = x.o.vpos
    BY <1>1 DEF IsBoth, IsOut, OnlyOut, OutKept, OutNames
  <1> HIDE DEF y
  <1>3. Sound(y) /\ Ink(y) = Ink(x)
    BY <1>1, <1>2, OutOnlySound
  <1> QED
    BY <1>2, <1>3 DEF y

LEMMA BeginPageKeeps ==
    ASSUME Inv, NEW selected, BeginPage(selected)
    PROVE  Inv'
  <1> DEFINE x == IF selected THEN ReallyBeginPage(Both) ELSE Both
             y == [x EXCEPT !.o.selected = selected]
             move == <<0, 0>>
  <1>1. ~inLine /\ inLine' = inLine /\ Step(y, <<>>, move)
    BY DEF BeginPage, Quietly
  <1>2. Sound(x) /\ Ink(x) = Ink(Both) /\ x.o.must
    <2>1. Sound(Both) /\ Both.o.must
      BY <1>1, BothFields DEF Inv
    <2>2. LET z == ReallyBeginPage(Both)
          IN  Sound(z) /\ Ink(z) = Ink(Both) /\ z.o.must
      BY <2>1, BeginPageSound
    <2> QED
      BY <2>1, <2>2
  <1> HIDE DEF x
  <1>3. Sound(y) /\ Ink(y) = Ink(x) /\ y.o.must
    BY <1>2, ChosenSound
  <1> HIDE DEF y, move
  <1> QED
    BY <1>1, <1>2, <1>3, QuietKeeps

LEMMA BeginLineKeeps ==
    ASSUME Inv, NEW h \in Int, NEW v \in Int, BeginLine(h, v)
    PROVE  Inv'
  <1> DEFINE y == MoveTo(Both, h, v)
  <1>1. /\ ~inLine /\ inLine' /\ out' = y.o /\ drv' = drv
        /\ pen' = <<h, v>> /\ owed' = owed
    BY DEF BeginLine
  <1>2. /\ Sound(y) /\ Ink(y) = Ink(Both) /\ OnlyOut(Both, y, {"hpos", "vpos"})
        /\ y.o.hpos = h /\ y.o.vpos = v
    BY InvSound, MoveToSound
  <1>3. y = [o |-> y.o, d |-> drv]
    <2> DEFINE a == [out EXCEPT !.hpos = h]
               q == [Both EXCEPT !.o.hpos = h]
    <2>1. y = [q EXCEPT !.o.vpos = v]
      BY DEF MoveTo
    <2>2. q = [o |-> a, d |-> drv]
      BY DEF Both
    <2> HIDE DEF a, q, y
    <2>3. [q EXCEPT !.o.vpos = v] = [o |-> [a EXCEPT !.vpos = v], d |-> drv]
      BY <2>2
    <2>4. y = [o |-> [a EXCEPT !.vpos = v], d |-> drv]
      BY <2>1, <2>3
    <2> QED
      BY <2>4
  <1> HIDE DEF y
  <1>4. Both' = y
    BY <1>1, <1>3 DEF Both
  <1>5. Normal => Ink(Both') = owed' /\ IsSeq(owed')
    BY <1>1, <1>2, <1>4 DEF Inv
  <1>6. Normal /\ inLine' => pen' = <<out'.hpos, out'.vpos>>
    BY <1>1, <1>2
  <1>7. Sound(Both')
    BY <1>2, <1>4
  <1>8. ~inLine' => out'.must
    BY <1>1
  <1> QED
    BY <1>5, <1>6, <1>7, <1>8 DEF Inv

LEMMA CopyFileKeeps ==
    ASSUME Inv, NEW h \in Int, NEW v \in Int, NEW tf \in Tfonts,
           NEW to \in RawEnds, CopyFile(h, v, tf, to)
    PROVE  Inv'
  <1> DEFINE w == MoveTo(Both, h, v)
             f == FlushTbuf(w)
             x == DoMotion(f)
             z == CopiedTo(x, tf, to)
             move == <<0, 0>>
  <1>1. ~inLine /\ inLine' = inLine /\ Step(z, <<>>, move)
    BY DEF CopyFile, Quietly, CopiedTo
  <1>2. Sound(w) /\ Ink(w) = Ink(Both)
    BY InvSound, MoveToSound
  <1> HIDE DEF w
  <1>3. Sound(f) /\ Clear(f) /\ Ink(f) = Ink(w)
    BY <1>2, FlushSound
  <1> HIDE DEF f
  <1>4. Sound(x) /\ Clear(x) /\ Ink(x) = Ink(f)
    BY <1>3, MotionSound
  <1> HIDE DEF x
  <1>5. Sound(z) /\ Ink(z) = Ink(x) /\ z.o.must
    BY <1>4, CopiedSound
  <1> HIDE DEF z, move
  <1>6. Ink(z) = Ink(Both)
    BY <1>2, <1>3, <1>4, <1>5
  <1> QED
    BY <1>1, <1>5, <1>6, QuietKeeps

\* Between lines the buffer is empty.
LEMMA ClearBetween ==
    ASSUME Inv, ~inLine
    PROVE  Clear(Both) /\ Both.o.must
  <1>1. Fitting(Both) /\ Both.o.must
    BY BothFields DEF Inv, Sound, Rest
  <1> QED
    BY <1>1 DEF Fitting, Clear

LEMMA RawOutputKeeps ==
    ASSUME Inv, NEW to \in RawEnds, RawOutput(to)
    PROVE  Inv'
  <1> DEFINE e == Moved(drv, to[1], to[2])
             y == [o |-> out, d |-> e]
  <1>1. /\ ~inLine /\ drv' = e /\ out' = out /\ inLine' = inLine
        /\ pen' = pen /\ owed' = owed
    BY DEF RawOutput
  <1>2. Both' = y
    BY <1>1 DEF Both
  <1>3. IsBoth(Both) /\ Numbered(Both) /\ IsSeq(drv.ink)
    BY InvSound, SoundIsBoth, BothFields DEF Sound, Rest, Typed
  <1>4. /\ DrvKept(drv, e, {"hpos", "vpos"}) /\ e.ink = drv.ink
        /\ e.hpos = to[1] /\ e.vpos = to[2]
    BY <1>3, BothFields DEF Moved, IsBoth, DrvKept, IsDriver, DrvNames
  <1> HIDE DEF e
  <1>5. y.o = out /\ y.d = e /\ DOMAIN y = {"o", "d"}
    OBVIOUS
  <1> HIDE DEF y
  <1>6. OutKept(Both.o, y.o, Places)
    BY <1>3, <1>5, BothFields DEF OutKept, IsBoth
  <1>7. DrvKept(Both.d, y.d, DrvPositions)
    BY <1>4, <1>5, BothFields DEF DrvKept, DrvPositions
  <1>8. Kept(Both, y, Places, DrvPositions)
    BY <1>5, <1>6, <1>7 DEF Kept
  <1>9. Numbered(y)
    <2>1. to[1] \in Int /\ to[2] \in Int
      BY OutputFileAssumption
    <2> QED
      BY <1>3, <1>4, <1>5, <2>1, BothFields DEF Numbered
  <1>10. Clear(Both) /\ y.o.must
    BY <1>1, <1>5, ClearBetween, BothFields
  <1>11. ~Knows(y)
    BY <1>10 DEF Knows
  <1>12. Sound(y) /\ Clear(y) /\ Ink(y) = y.d.ink
    BY <1>3, <1>4, <1>5, <1>8, <1>9, <1>10, <1>11, InvSound, ElsewhereSound
  <1>13. Ink(Both) = drv.ink
    BY <1>3, <1>10, ClearInk, BothFields
  <1>14. Normal => Ink(Both') = owed' /\ IsSeq(owed')
    BY <1>1, <1>2, <1>4, <1>5, <1>12, <1>13 DEF Inv
  <1>15. Sound(Both')
    BY <1>2, <1>12
  <1>16. ~inLine' => out'.must
    BY <1>1 DEF Inv
  <1>17. Normal /\ inLine' => pen' = <<out'.hpos, out'.vpos>>
    BY <1>1
  <1> QED
    BY <1>14, <1>15, <1>16, <1>17 DEF Inv

LEMMA SwitchColorKeeps ==
    ASSUME Inv, SwitchColor
    PROVE  Inv'
  <1> DEFINE p == [out EXCEPT !.color = ~@]
             y == [o |-> p, d |-> drv]
  <1>1. /\ ~inLine /\ drv' = drv /\ out' = p /\ inLine' = inLine
        /\ pen' = pen /\ owed' = owed
        /\ out.color \/ "color" \in Extras
    BY DEF SwitchColor
  <1>2. Both' = y
    BY <1>1 DEF Both
  <1>3. IsBoth(Both) /\ Rest(Both) /\ Good(Both)
    BY InvSound, SoundIsBoth DEF Sound
  <1>4. OutKept(out, p, {"color"}) /\ p.color = ~out.color
    BY <1>3, BothFields DEF IsBoth, OutKept, IsOut, OutNames
  <1> HIDE DEF p
  <1>5. y.o = p /\ y.d = drv /\ DOMAIN y = {"o", "d"}
    OBVIOUS
  <1> HIDE DEF y
  <1>6. OnlyOut(Both, y, {"color"})
    BY <1>4, <1>5, BothFields DEF OnlyOut
  <1>7. Rest(y) /\ Ink(y) = Ink(Both)
    <2>1. {"color"} \subseteq OutLooks
      BY DEF OutLooks
    <2> QED
      BY <1>3, <1>6, <2>1, RestSame
  <1>8. /\ p.tfont = out.tfont /\ p.fontno = out.fontno /\ p.size = out.size
        /\ p.slant = out.slant /\ p.height = out.height
        /\ p.mounted = out.mounted /\ p.must = out.must
    BY <1>4 DEF OutKept, OutNames
  <1>9. IsBoth(y)
    BY <1>3, <1>6, OnlyOutKept, KeptIsBoth
  <1>10. "color" \notin Extras => Colored(y.o, y.d)
    BY <1>1, <1>4, <1>5 DEF Colored
  <1>11. Looks(y)
    BY <1>3, <1>5, <1>8, <1>9, <1>10, BothFields DEF Good, Looks, Mounts
  <1>12. Selects(y.o)
    BY <1>3, <1>5, <1>8, BothFields DEF Good, Selects
  <1>13. Sound(Both')
    BY <1>2, <1>7, <1>11, <1>12 DEF Sound, Good
  <1>14. Normal => Ink(Both') = owed' /\ IsSeq(owed')
    BY <1>1, <1>2, <1>7 DEF Inv
  <1>15. ~inLine' => out'.must
    BY <1>1, <1>8 DEF Inv
  <1>16. Normal /\ inLine' => pen' = <<out'.hpos, out'.vpos>>
    BY <1>1
  <1> QED
    BY <1>13, <1>14, <1>15, <1>16 DEF Inv

-----------------------------------------------------------------------------
\* The invariant holds at the start and is kept by every step.

LEMMA InvInit == ASSUME Init PROVE Inv
  <1>1. PICK dev \in Devices :
          out = [hpos |-> 0, vpos |-> 0, ohpos |-> 0, ovpos |-> 0,
                 must |-> TRUE, tfont |-> NoTfont, fontno |-> NotMounted, size |-> 0,
                 slant |-> 0, height |-> 0, stroke |-> NoColor,
                 fill |-> NoColor,
                 mounted |-> [n \in FontPositions |-> NoFont],
                 tbuf |-> <<>>, kern |-> 0, on |-> TRUE, color |-> dev.color,
                 tcommand |-> dev.tcommand, nroff |-> dev.nroff,
                 switches |-> dev.switches,
                 begun |-> FALSE, selected |-> FALSE]
    BY DEF Init
  <1>2. /\ IsOut(out) /\ out.must /\ out.tbuf = <<>> /\ out.kern = 0
        /\ out.hpos = 0 /\ out.vpos = 0 /\ out.ohpos = 0 /\ out.ovpos = 0
        /\ out.tfont = NoTfont /\ out.fontno = NotMounted /\ out.size = 0
        /\ out.slant = 0 /\ out.height = 0
        /\ out.stroke = NoColor /\ out.fill = NoColor
        /\ out.mounted = [n \in FontPositions |-> NoFont]
    BY <1>1 DEF IsOut, OutNames
  <1>3. /\ IsDriver(drv) /\ drv.hpos = -1 /\ drv.vpos = -1
        /\ drv.height = 0 /\ drv.slant = 0 /\ drv.ink = <<>>
    BY DEF Init, NewDriver, IsDriver, DrvNames
  <1>4. IsBoth(Both)
    BY <1>2, <1>3 DEF Both, IsBoth
  <1>5. 0 \notin Sizes
    BY OutputFileAssumption
  <1>6. Mounts(out, drv)
    BY <1>2 DEF Mounts
  <1>7. Colored(out, drv)
    BY <1>2 DEF Colored
  <1>8. Selects(out)
    BY <1>2 DEF Selects
  <1>9. Good(Both)
    BY <1>2, <1>3, <1>4, <1>5, <1>6, <1>7, <1>8, BothFields DEF Good, Looks
  <1>10. IsSeq(<<>>) /\ <<>> \in Seq(Glyphs) /\ Len(<<>>) = 0
    BY SeqMade DEF IsSeq
  <1>11. Typed(Both)
    <2>1. Numbered(Both)
      BY <1>2, <1>3, BothFields DEF Numbered
    <2>2. Both.o.kern \in Int
      BY <1>2, BothFields
    <2>5. out.tbuf \in Seq(Glyphs)
      BY <1>2, <1>10, ZenonT(30)
    <2>3. Both.o.tbuf \in Seq(Glyphs)
      BY <2>5, BothFields
    <2>4. IsSeq(Both.d.ink)
      BY <1>3, <1>10, BothFields
    <2> QED
      BY <2>1, <2>2, <2>3, <2>4 DEF Typed
  <1>12. Clear(Both) /\ ~Knows(Both)
    BY <1>2, BothFields DEF Clear, Knows
  <1>13. Fitting(Both)
    BY <1>2, <1>10, OutputFileAssumption, BothFields DEF Fitting
  <1>14. Sound(Both)
    BY <1>9, <1>11, <1>12, <1>13 DEF Sound, Rest, Believed
  <1>15. Ink(Both) = owed /\ IsSeq(owed)
    <2>1. owed = <<>>
      BY DEF Init, ImpositionInit
    <2>2. Ink(Both) = drv.ink
      BY <1>4, <1>12, ClearInk, BothFields
    <2> QED
      BY <1>3, <1>10, <2>1, <2>2
  <1>16. ~inLine /\ out.must
    BY <1>2 DEF Init
  <1> QED
    BY <1>14, <1>15, <1>16 DEF Inv

LEMMA StutterKeeps ==
    ASSUME Inv, UNCHANGED vars
    PROVE  Inv'
  <1>1. /\ out' = out /\ drv' = drv /\ inLine' = inLine
        /\ pen' = pen /\ owed' = owed
    BY DEF vars
  <1>2. Both' = Both
    BY <1>1 DEF Both
  <1>3. Sound(Both')
    BY <1>2 DEF Inv
  <1>4. Normal => Ink(Both') = owed' /\ IsSeq(owed')
    BY <1>1, <1>2 DEF Inv
  <1>5. ~inLine' => out'.must
    BY <1>1 DEF Inv
  <1>6. Normal /\ inLine' => pen' = <<out'.hpos, out'.vpos>>
    BY <1>1 DEF Inv
  <1> QED
    BY <1>3, <1>4, <1>5, <1>6 DEF Inv

LEMMA InvNext ==
    ASSUME Inv, [Next]_vars
    PROVE  Inv'
  <1>1. CASE \E tf \in Tfonts, p \in Paints :
                \/ \E g \in Glyphs : \/ Glyph(g, tf, p[1], p[2])
                                     \/ ZeroWidthGlyph(g, tf, p[1], p[2])
                \/ DeviceExtension(tf, p[1], p[2])
    BY <1>1, GlyphKeeps, ZeroWidthGlyphKeeps, DeviceExtensionKeeps
  <1>2. CASE \E move \in Motions, fc \in Colors \cup {NoColor} :
                \/ Space(move[1], fc) \/ WordSpace(move[1], fc)
                \/ VMotion(move[2], fc)
    <2>1. PICK move \in Motions, fc \in Colors \cup {NoColor} :
                \/ Space(move[1], fc) \/ WordSpace(move[1], fc)
                \/ VMotion(move[2], fc)
      BY <1>2
    <2>2. move[1] \in Int /\ move[2] \in Int
      BY OutputFileAssumption
    <2> QED
      BY <2>1, <2>2, SpaceKeeps, WordSpaceKeeps, VMotionKeeps
  <1>3. CASE \E drawing \in Drawings, p \in Paints :
                DrawNode(drawing[1], drawing[2], p[1], p[2])
    BY <1>3, DrawNodeKeeps
  <1>4. CASE On
    BY <1>4, OnKeeps
  <1>5. CASE Off
    BY <1>5, OffKeeps
  <1>6. CASE EndLine
    BY <1>6, EndLineKeeps
  <1>7. CASE SwitchColor
    BY <1>7, SwitchColorKeeps
  <1>8. CASE \E selected \in BOOLEAN : BeginPage(selected)
    BY <1>8, BeginPageKeeps
  <1>9. CASE \E at \in Starts : BeginLine(at[1], at[2])
    <2>1. PICK at \in Starts : BeginLine(at[1], at[2])
      BY <1>9
    <2>2. at[1] \in Int /\ at[2] \in Int
      BY OutputFileAssumption
    <2> QED
      BY <2>1, <2>2, BeginLineKeeps
  <1>10. CASE \E to \in RawEnds : RawOutput(to)
    BY <1>10, RawOutputKeeps
  <1>11. CASE \E to \in RawEnds : \E at \in Starts, tf \in Tfonts :
                 CopyFile(at[1], at[2], tf, to)
    <2>1. PICK to \in RawEnds, at \in Starts, tf \in Tfonts :
             CopyFile(at[1], at[2], tf, to)
      BY <1>11
    <2>2. at[1] \in Int /\ at[2] \in Int
      BY OutputFileAssumption
    <2> QED
      BY <2>1, <2>2, CopyFileKeeps
  <1>12. CASE UNCHANGED vars
    BY <1>12, StutterKeeps
  <1> QED
    BY <1>1, <1>2, <1>3, <1>4, <1>5, <1>6, <1>7, <1>8, <1>9, <1>10, <1>11,
       <1>12
    DEF Next

LEMMA Invariance == Spec => []Inv
  <1>1. Init => Inv
    BY InvInit
  <1>2. Inv /\ [Next]_vars => Inv'
    BY InvNext
  <1> QED
    BY <1>1, <1>2, PTL DEF Spec

-----------------------------------------------------------------------------
\* What the invariant says of the runs' properties.

\* Whatever nodes, pages, copied files and raw output follow each other, what
\* troff_output_file has remembered of the fonts, the size, the height, the
\* slant and the colors of the driver is what the driver has, provided that no
\* fixed height of a font is a size of text and the request color never turns
\* color output on again.
THEOREM LooksAreBelieved ==
    ASSUME HeightsApart, "color" \notin Extras
    PROVE  Spec => []BelievesLooks
  <1>1. Inv => BelievesLooks
    <2> HAVE Inv
    <2>1. Looks(Both) /\ Selects(out)
      BY InvSound, BothFields DEF Sound, Good
    <2>2. Mounts(out, drv) /\ Colored(out, drv)
      BY <2>1, BothFields DEF Looks
    <2>3. Sized(out, drv)
      BY <2>1, BothFields DEF Looks, Sized
    <2> QED
      BY <2>1, <2>2, <2>3 DEF BelievesLooks
  <1> QED
    BY <1>1, Invariance, PTL

\* In every document the buffer of troff_output_file stays within its size,
\* and holds characters only in a line, while output is on, and while troff
\* and the driver agree on where they are.
THEOREM BufferStaysCurrent == Spec => []BufferIsCurrent
  <1>1. Inv => BufferIsCurrent
    <2> HAVE Inv
    <2>1. Fitting(Both) /\ (~inLine => out.must)
      BY DEF Inv, Sound, Rest
    <2> QED
      BY <2>1, BothFields DEF Fitting, BufferIsCurrent
  <1> QED
    BY <1>1, Invariance, PTL

\* Unless a document draws filled ellipses, whose end the driver takes to be
\* elsewhere, the driver is where troff_output_file remembers to have left it
\* whenever troff means to know, what waits in the buffer included.
THEOREM PositionIsBelieved ==
    ASSUME "ellipse" \notin Extras
    PROVE  Spec => []BelievesPosition
  <1>1. Inv => BelievesPosition
    <2> HAVE Inv
    <2>1. SUFFICES ASSUME out.on, ~out.must
                   PROVE  LET d == FlushTbuf(Both).d
                          IN  <<d.hpos, d.vpos>> = <<out.ohpos, out.ovpos>>
      BY DEF BelievesPosition
    <2> DEFINE y == FlushTbuf(Both)
    <2>2. /\ IsBoth(y) /\ Rest(y) /\ Clear(y)
          /\ Kept(Both, y, {"tbuf"}, {"ink", "hpos"})
      BY InvSound, SoundIsBoth, FlushRest, FlushTbufKept DEF Sound
    <2> HIDE DEF y
    <2>3. OutKept(out, y.o, {"tbuf"})
      BY <2>2, BothFields DEF Kept
    <2>4. /\ y.o.on = out.on /\ y.o.must = out.must
          /\ y.o.ohpos = out.ohpos /\ y.o.ovpos = out.ovpos
      BY <2>3 DEF OutKept, OutNames
    <2>5. Knows(y)
      BY <2>1, <2>4 DEF Knows
    <2>6. End(y) = <<out.ohpos, out.ovpos>>
      BY <2>2, <2>4, <2>5 DEF Rest, Believed
    <2>7. End(y) = <<y.d.hpos, y.d.vpos>>
      BY <2>2, ClearInk
    <2> QED
      BY <2>6, <2>7 DEF y
  <1> QED
    BY <1>1, Invariance, PTL

\* What reaches the paper.  In a document with none of the extras, and with no
\* fixed height of a font that is a size of text, every glyph, shape and device
\* extension is made once, in order, where its node asked for it and looking
\* as its node asked, once the buffer is flushed: however the characters were
\* buffered, whatever motions, fonts, sizes and colors were left out as known,
\* and whatever pages, copied files, raw output and suppressed output came
\* between.
THEOREM MarksAreAsAsked ==
    ASSUME Extras = {}, HeightsApart
    PROVE  Spec => []AsAsked
  <1>1. Inv => AsAsked
    BY DEF Inv, Normal, Ink, AsAsked
  <1> QED
    BY <1>1, Invariance, PTL
=============================================================================
