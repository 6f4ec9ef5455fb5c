---------------------------- MODULE MacrosProofs ----------------------------
(* Macros, strings and diversions, for any names, objects, headers, texts   *)
(* and documents: every header is counted as often as macros point to it,   *)
(* and every object as often as names refer to it; texts have their type,   *)
(* their mode tokens alternate, and memory implements the pools.            *)
EXTENDS Macros, FiniteSetTheorems, SequenceTheorems, WellFoundedInduction,
        TLAPS

\* The shapes of memory and macros, whatever the texts are.
IsMem(m) ==
    /\ DOMAIN m = Headers
    /\ \A h \in Headers :
          DOMAIN m[h] = {"count", "cells"} /\ m[h].count \in Nat

IsMac(c) ==
    /\ DOMAIN c = Places
    /\ \A x \in Places :
          /\ DOMAIN c[x] = {"p", "length", "empty"}
          /\ c[x].p \in Headers \cup {NoHeader}

Pointers(c, h) == {x \in Places : c[x].p = h}
Counted(m, c) == \A h \in Headers : m[h].count = Cardinality(Pointers(c, h))
MemoryInv(m, c) == IsMem(m) /\ IsMac(c) /\ Counted(m, c)

\* Every object of the dictionary l is counted in r, with one reference more
\* for o, if o is an object.
Referents == Objects \cup {NoObject, Request}
Referrers(l, o) == {n \in Names : l[n] = o}
Surplus(l, r, o) ==
    /\ l \in [Names -> Referents] /\ r \in [Objects -> Nat]
    /\ \A q \in Objects :
          r[q] = Cardinality(Referrers(l, q)) + IF q = o THEN 1 ELSE 0

Owing(s, o) ==
    /\ DOMAIN s = {"mem", "mac", "names", "refs"}
    /\ MemoryInv(s.mem, s.mac) /\ Surplus(s.names, s.refs, o)

StoreInv(s) == Owing(s, NoObject)

-----------------------------------------------------------------------------
\* There are finitely many places.
LEMMA PlacesFinite == IsFiniteSet(Places)
<1>1. IsFiniteSet({ObjectPlace(o) : o \in Objects})
  <2> DEFINE f == [o \in Objects |-> ObjectPlace(o)]
             T == {ObjectPlace(o) : o \in Objects}
  <2>1. f \in Surjection(Objects, T)
    BY DEF Surjection
  <2>2. IsFiniteSet(Objects)
    BY MacrosAssumption
  <2> QED
    BY <2>1, <2>2, FS_Surjection
<1>2. ASSUME NEW k \in Nat
      PROVE  IsFiniteSet({OpenPlace(i) : i \in 1..k})
  <2> DEFINE f == [i \in 1..k |-> OpenPlace(i)]
             T == {OpenPlace(i) : i \in 1..k}
  <2>1. f \in Surjection(1..k, T)
    BY DEF Surjection
  <2>2. IsFiniteSet(1..k)
    BY FS_Interval
  <2> QED
    BY <2>1, <2>2, FS_Surjection
<1>3. ASSUME NEW k \in Nat
      PROVE  IsFiniteSet({InputPlace(i) : i \in 1..k})
  <2> DEFINE f == [i \in 1..k |-> InputPlace(i)]
             T == {InputPlace(i) : i \in 1..k}
  <2>1. f \in Surjection(1..k, T)
    BY DEF Surjection
  <2>2. IsFiniteSet(1..k)
    BY FS_Interval
  <2> QED
    BY <2>1, <2>2, FS_Surjection
<1>4. MaxOpen \in Nat /\ MaxInput \in Nat
  BY MacrosAssumption
<1>5. IsFiniteSet({Local})
  BY FS_Singleton
<1>6. IsFiniteSet({Local} \cup {ObjectPlace(o) : o \in Objects})
  BY <1>1, <1>5, FS_Union
<1>7. IsFiniteSet(({Local} \cup {ObjectPlace(o) : o \in Objects})
                     \cup {OpenPlace(i) : i \in 1..MaxOpen})
  BY <1>2, <1>4, <1>6, FS_Union
<1> QED
  BY <1>3, <1>4, <1>7, FS_Union DEF Places

\* What becomes of the number of those with value h when x gets another value.
With(S, f, h) == {y \in S : f[y] = h}

LEMMA Recount ==
    ASSUME NEW S, IsFiniteSet(S), NEW x \in S, NEW f, NEW g, NEW h,
           \A y \in S \ {x} : g[y] = f[y]
    PROVE  /\ Cardinality(With(S, f, h)) \in Nat
           /\ f[x] = h => Cardinality(With(S, f, h)) > 0
           /\ Cardinality(With(S, g, h)) =
                  Cardinality(With(S, f, h)) + (IF g[x] = h THEN 1 ELSE 0)
                                             - (IF f[x] = h THEN 1 ELSE 0)
<1> DEFINE F == With(S, f, h)
           G == With(S, g, h)
<1> USE DEF With
<1>1. IsFiniteSet(F) /\ IsFiniteSet(G)
  BY FS_Subset
<1>2. Cardinality(F) \in Nat
  BY <1>1, FS_CardinalityType
<1>3. f[x] = h => Cardinality(F) > 0
  <2>1. f[x] = h => F # {}
    OBVIOUS
  <2> QED
    BY <1>1, <1>2, <2>1, FS_EmptySet
<1>4. CASE (f[x] = h) <=> (g[x] = h)
  <2>1. G = F
    BY <1>4
  <2>2. (IF g[x] = h THEN 1 ELSE 0) = (IF f[x] = h THEN 1 ELSE 0)
    BY <1>4
  <2>3. (IF f[x] = h THEN 1 ELSE 0) \in Int
    OBVIOUS
  <2>4. ASSUME NEW a \in Nat, NEW b \in Int PROVE a = a + b - b
    OBVIOUS
  <2>5. Cardinality(F) = Cardinality(F) + (IF f[x] = h THEN 1 ELSE 0)
                                        - (IF f[x] = h THEN 1 ELSE 0)
    BY <1>2, <2>3, <2>4
  <2> QED
    BY <1>2, <1>3, <2>1, <2>2, <2>5
<1>5. CASE f[x] # h /\ g[x] = h
  <2>1. G = F \cup {x} /\ x \notin F
    BY <1>5
  <2>2. Cardinality(G) = Cardinality(F) + 1
    BY <1>1, <2>1, FS_AddElement
  <2> QED
    BY <1>2, <1>3, <1>5, <2>2
<1>6. CASE f[x] = h /\ g[x] # h
  <2>1. G = F \ {x} /\ x \in F
    BY <1>6
  <2>2. Cardinality(G) = Cardinality(F) - 1
    BY <1>1, <2>1, FS_RemoveElement
  <2> QED
    BY <1>2, <1>3, <1>6, <2>2
<1> QED
  BY <1>4, <1>5, <1>6

\* The same of the pointers to h when the macro at x is another one.
LEMMA Repoint ==
    ASSUME NEW c, IsMac(c), NEW x \in Places, NEW v, NEW h,
           NEW d, d = [c EXCEPT ![x] = v]
    PROVE  /\ Cardinality(Pointers(c, h)) \in Nat
           /\ c[x].p = h => Cardinality(Pointers(c, h)) > 0
           /\ Cardinality(Pointers(d, h)) =
                  Cardinality(Pointers(c, h)) + (IF v.p = h THEN 1 ELSE 0)
                                       - (IF c[x].p = h THEN 1 ELSE 0)
<1> DEFINE f == [y \in Places |-> c[y].p]
           g == [y \in Places |-> d[y].p]
<1>1. d[x] = v /\ \A y \in Places \ {x} : d[y] = c[y]
  BY DEF IsMac
<1>2. Pointers(c, h) = With(Places, f, h)
  BY DEF Pointers, With
<1>3. Pointers(d, h) = With(Places, g, h)
  BY DEF Pointers, With
<1>4. f[x] = c[x].p /\ g[x] = v.p
  BY <1>1
<1>5. \A y \in Places \ {x} : g[y] = f[y]
  BY <1>1
<1> HIDE DEF f, g
<1>6. /\ Cardinality(Pointers(c, h)) \in Nat
      /\ f[x] = h => Cardinality(Pointers(c, h)) > 0
      /\ Cardinality(Pointers(d, h)) =
             Cardinality(Pointers(c, h)) + (IF g[x] = h THEN 1 ELSE 0)
                                         - (IF f[x] = h THEN 1 ELSE 0)
  BY <1>2, <1>3, <1>5, PlacesFinite, Recount
<1> QED
  BY <1>4, <1>6

-----------------------------------------------------------------------------
IsMacro(v) ==
    DOMAIN v = {"p", "length", "empty"} /\ v.p \in Headers \cup {NoHeader}

LEMMA MacAfter ==
    ASSUME NEW c, IsMac(c), NEW x \in Places, NEW v, IsMacro(v)
    PROVE  IsMac([c EXCEPT ![x] = v])
BY DEF IsMac, IsMacro

\* Taking a reference, and dropping one.
LEMMA TookIs ==
    ASSUME NEW m, IsMem(m), NEW k \in Headers \cup {NoHeader}
    PROVE  /\ IsMem(Took(m, k))
           /\ \A h \in Headers : Took(m, k)[h].count =
                  m[h].count + IF h = k THEN 1 ELSE 0
BY MacrosAssumption DEF IsMem, Took

LEMMA DroppedIs ==
    ASSUME NEW m, IsMem(m), NEW k \in Headers \cup {NoHeader},
           k \in Headers => m[k].count > 0
    PROVE  /\ IsMem(Dropped(m, k))
           /\ \A h \in Headers : Dropped(m, k)[h].count =
                  m[h].count - IF h = k THEN 1 ELSE 0
<1>1. CASE k = NoHeader
  BY <1>1, MacrosAssumption DEF IsMem, Dropped
<1>2. CASE k \in Headers /\ m[k].count = 1
  BY <1>2, MacrosAssumption DEF IsMem, Dropped, Unused
<1>3. CASE k \in Headers /\ m[k].count # 1
  BY <1>3, MacrosAssumption DEF IsMem, Dropped
<1> QED
  BY <1>1, <1>2, <1>3

\* macro::operator=
LEMMA Assigned ==
    ASSUME NEW m, NEW c, MemoryInv(m, c), NEW x \in Places, NEW v, IsMacro(v)
    PROVE  MemoryInv(Dropped(Took(m, v.p), c[x].p), [c EXCEPT ![x] = v])
<1> DEFINE t == Took(m, v.p)
           d == [c EXCEPT ![x] = v]
<1> USE DEF MemoryInv, IsMacro
<1>1. IsMac(d)
  BY MacAfter
<1>2. /\ IsMem(t)
      /\ \A h \in Headers : t[h].count = m[h].count + IF h = v.p THEN 1 ELSE 0
  BY TookIs
<1>3. c[x].p \in Headers \cup {NoHeader}
  BY DEF IsMac
<1>4. \A h \in Headers :
          /\ m[h].count \in Nat
          /\ c[x].p = h => m[h].count > 0
          /\ Cardinality(Pointers(d, h)) =
                 m[h].count + (IF v.p = h THEN 1 ELSE 0)
                            - (IF c[x].p = h THEN 1 ELSE 0)
  <2>1. SUFFICES ASSUME NEW h \in Headers
        PROVE  /\ m[h].count \in Nat
               /\ c[x].p = h => m[h].count > 0
               /\ Cardinality(Pointers(d, h)) =
                      m[h].count + (IF v.p = h THEN 1 ELSE 0)
                                 - (IF c[x].p = h THEN 1 ELSE 0)
    OBVIOUS
  <2>2. m[h].count = Cardinality(Pointers(c, h)) /\ m[h].count \in Nat
    BY Zenon DEF Counted, IsMem
  <2>3. /\ c[x].p = h => Cardinality(Pointers(c, h)) > 0
        /\ Cardinality(Pointers(d, h)) =
               Cardinality(Pointers(c, h)) + (IF v.p = h THEN 1 ELSE 0)
                                    - (IF c[x].p = h THEN 1 ELSE 0)
    BY Repoint
  <2> QED
    BY <2>2, <2>3
<1>5. c[x].p \in Headers => t[c[x].p].count > 0
  BY <1>2, <1>4
<1> HIDE DEF t, d
<1>6. /\ IsMem(Dropped(t, c[x].p))
      /\ \A h \in Headers : Dropped(t, c[x].p)[h].count =
             t[h].count - IF h = c[x].p THEN 1 ELSE 0
  BY <1>2, <1>3, <1>5, DroppedIs
<1>7. Counted(Dropped(t, c[x].p), d)
  BY <1>2, <1>4, <1>6 DEF Counted
<1> QED
  BY <1>1, <1>6, <1>7 DEF t, d

\* macro::~macro
LEMMA Released ==
    ASSUME NEW m, NEW c, MemoryInv(m, c), NEW x \in Places
    PROVE  MemoryInv(Dropped(m, c[x].p), [c EXCEPT ![x] = NoMacro])
<1>1. IsMacro(NoMacro) /\ Took(m, NoMacro.p) = m
  BY DEF IsMacro, NoMacro, Took
<1> QED
  BY <1>1, Assigned

\* A free header becomes that of the macro at x.
LEMMA Copied ==
    ASSUME NEW m, NEW c, MemoryInv(m, c), NEW x \in Places, NEW t,
           NEW v, IsMacro(v), v.p \in Headers, m[v.p].count = 0
    PROVE  MemoryInv([Dropped(m, c[x].p) EXCEPT
                          ![v.p] = [count |-> 1, cells |-> t]],
                     [c EXCEPT ![x] = v])
<1> DEFINE d == [c EXCEPT ![x] = v]
           k == c[x].p
           n == [Dropped(m, k) EXCEPT ![v.p] = [count |-> 1, cells |-> t]]
<1> USE DEF MemoryInv, IsMacro
<1>1. IsMac(d)
  BY MacAfter
<1>2. k \in Headers \cup {NoHeader}
  BY DEF IsMac
<1>3. \A h \in Headers :
          /\ m[h].count \in Nat
          /\ k = h => m[h].count > 0
          /\ Cardinality(Pointers(d, h)) =
                 m[h].count + (IF v.p = h THEN 1 ELSE 0)
                            - (IF k = h THEN 1 ELSE 0)
  BY Repoint, SMTT(30) DEF Counted, IsMem
<1>4. k # v.p
  BY <1>3
<1>5. /\ IsMem(Dropped(m, k))
      /\ \A h \in Headers : Dropped(m, k)[h].count =
             m[h].count - IF h = k THEN 1 ELSE 0
  BY <1>2, <1>3, DroppedIs
<1> HIDE DEF d, k
<1>6. /\ IsMem(n)
      /\ n[v.p].count = 1
      /\ \A h \in Headers : h # v.p => n[h].count = Dropped(m, k)[h].count
  BY <1>5 DEF IsMem
<1> HIDE DEF n
<1>7. Counted(n, d)
  BY <1>3, <1>4, <1>5, <1>6 DEF Counted
<1> QED
  BY <1>1, <1>6, <1>7 DEF n, d, k

\* The header of the macro at x gets other characters, and the macro another
\* length.
LEMMA Rewritten ==
    ASSUME NEW m, NEW c, MemoryInv(m, c), NEW x \in Places, NEW n,
           NEW v, IsMacro(v), v.p = c[x].p,
           IsMem(n), \A h \in Headers : n[h].count = m[h].count
    PROVE  MemoryInv(n, [c EXCEPT ![x] = v])
<1> DEFINE d == [c EXCEPT ![x] = v]
<1> USE DEF MemoryInv, IsMacro
<1>1. IsMac(d)
  BY MacAfter
<1>2. \A h \in Headers : Cardinality(Pointers(d, h)) = m[h].count
  BY Repoint DEF Counted, IsMem
<1> QED
  BY <1>1, <1>2 DEF Counted

-----------------------------------------------------------------------------
\* The operations on macros, in a store.
LEMMA AssignKeeps ==
    ASSUME NEW s, NEW o, Owing(s, o), NEW to \in Places, NEW from \in Places
    PROVE  Owing(Assign(s, to, from), o)
<1>1. IsMacro(s.mac[from])
  BY DEF Owing, MemoryInv, IsMac, IsMacro
<1>2. MemoryInv(Dropped(Took(s.mem, s.mac[from].p), s.mac[to].p),
                [s.mac EXCEPT ![to] = s.mac[from]])
  BY <1>1, Assigned DEF Owing
<1> QED
  BY <1>2 DEF Owing, Assign

LEMMA DestroyKeeps ==
    ASSUME NEW s, NEW o, Owing(s, o), NEW x \in Places
    PROVE  Owing(Destroy(s, x), o)
<1>1. MemoryInv(Dropped(s.mem, s.mac[x].p), [s.mac EXCEPT ![x] = NoMacro])
  BY Released DEF Owing
<1> QED
  BY <1>1 DEF Owing, Destroy

LEMMA OnCopyKeeps ==
    ASSUME NEW s, NEW o, Owing(s, o), NEW x \in Places, NEW c, HasFree(s)
    PROVE  Owing(OnCopy(s, x, c), o)
<1> DEFINE h == NewHeader(s)
           t == Append(TextOf(s, x), c)
           v == [p |-> h, length |-> s.mac[x].length + 1,
                 empty |-> s.mac[x].empty /\ c \in Modes]
<1>1. h \in Headers /\ s.mem[h].count = 0
  BY DEF NewHeader, HasFree
<1>2. IsMacro(v) /\ v.p = h
  BY <1>1 DEF IsMacro
<1> HIDE DEF h, t, v
<1>3. MemoryInv([Dropped(s.mem, s.mac[x].p) EXCEPT
                     ![h] = [count |-> 1, cells |-> t]],
                [s.mac EXCEPT ![x] = v])
  BY <1>1, <1>2, Copied DEF Owing
<1>4. /\ OnCopy(s, x, c).mem = [Dropped(s.mem, s.mac[x].p) EXCEPT
                                  ![h] = [count |-> 1, cells |-> t]]
      /\ OnCopy(s, x, c).mac = [s.mac EXCEPT ![x] = v]
      /\ OnCopy(s, x, c).names = s.names /\ OnCopy(s, x, c).refs = s.refs
      /\ DOMAIN OnCopy(s, x, c) = DOMAIN s
  BY DEF OnCopy, h, t, v, Owing, MemoryInv, IsMac
<1> QED
  BY <1>3, <1>4 DEF Owing

LEMMA InPlaceKeeps ==
    ASSUME NEW s, NEW o, Owing(s, o), NEW x \in Places, NEW c, Owns(s, x)
    PROVE  Owing(InPlace(s, x, c), o)
<1> DEFINE h == s.mac[x].p
           n == [s.mem EXCEPT ![h].cells = Append(@, c)]
           v == [p |-> h, length |-> s.mac[x].length + 1,
                 empty |-> s.mac[x].empty /\ c \in Modes]
<1>1. h \in Headers
  BY DEF Owing, MemoryInv, IsMac, Owns
<1>2. IsMacro(v) /\ v.p = h
  BY <1>1 DEF IsMacro
<1>3. IsMem(n) /\ \A k \in Headers : n[k].count = s.mem[k].count
  BY <1>1 DEF Owing, MemoryInv, IsMem
<1> HIDE DEF n, v
<1>4. MemoryInv(n, [s.mac EXCEPT ![x] = v])
  BY <1>2, <1>3, Rewritten DEF Owing
<1>5. /\ InPlace(s, x, c).mem = n
      /\ InPlace(s, x, c).mac = [s.mac EXCEPT ![x] = v]
      /\ InPlace(s, x, c).names = s.names /\ InPlace(s, x, c).refs = s.refs
      /\ DOMAIN InPlace(s, x, c) = DOMAIN s
  BY DEF InPlace, n, v, Owing, MemoryInv, IsMac
<1> QED
  BY <1>4, <1>5 DEF Owing

LEMMA AppendCellKeeps ==
    ASSUME NEW s, NEW o, Owing(s, o), NEW x \in Places, NEW c,
           Owns(s, x) \/ HasFree(s)
    PROVE  Owing(AppendCell(s, x, c), o)
BY OnCopyKeeps, InPlaceKeeps DEF AppendCell

LEMMA FilledKeeps ==
    ASSUME NEW s, NEW o, Owing(s, o), NEW x \in Places, NEW text, HasFree(s)
    PROVE  Owing(Filled(s, x, text), o)
<1> DEFINE h == NewHeader(s)
           v == [p |-> IF text = <<>> THEN NoHeader ELSE h,
                 length |-> Len(text),
                 empty |-> \A i \in DOMAIN text : text[i] \in Modes]
           m == Dropped(s.mem, s.mac[x].p)
           n == IF text = <<>> THEN m
                ELSE [m EXCEPT ![h] = [count |-> 1, cells |-> text]]
<1>1. h \in Headers /\ s.mem[h].count = 0
  BY DEF NewHeader, HasFree
<1>2. IsMacro(v) /\ v.p = IF text = <<>> THEN NoHeader ELSE h
  BY <1>1 DEF IsMacro
<1>3. /\ Filled(s, x, text).mem = n
      /\ Filled(s, x, text).mac = [s.mac EXCEPT ![x] = v]
      /\ Filled(s, x, text).names = s.names /\ Filled(s, x, text).refs = s.refs
      /\ DOMAIN Filled(s, x, text) = DOMAIN s
  BY DEF Filled, Owing, MemoryInv, IsMac
<1> HIDE DEF h, v
<1>4. MemoryInv(n, [s.mac EXCEPT ![x] = v])
  <2>1. CASE text = <<>>
    <3>1. Took(s.mem, v.p) = s.mem
      BY <1>2, <2>1 DEF Took
    <3> QED
      BY <1>2, <2>1, <3>1, Assigned DEF Owing
  <2>2. CASE text # <<>>
    BY <1>1, <1>2, <2>2, Copied, ZenonT(30) DEF Owing
  <2> QED
    BY <2>1, <2>2
<1> QED
  BY <1>3, <1>4 DEF Owing

LEMMA ChopAtKeeps ==
    ASSUME NEW s, NEW o, Owing(s, o), NEW x \in Places, NEW k
    PROVE  Owing(ChopAt(s, x, k), o)
<1> DEFINE h == s.mac[x].p
           v == [s.mac[x] EXCEPT !.length = k - 1]
           n == [s.mem EXCEPT ![h].cells[k - 1] = Pop]
<1>1. IsMacro(v) /\ v.p = h
  BY DEF Owing, MemoryInv, IsMac, IsMacro
<1>2. IsMem(n) /\ \A q \in Headers : n[q].count = s.mem[q].count
  BY DEF Owing, MemoryInv, IsMem
<1>3. MemoryInv(s.mem, [s.mac EXCEPT ![x] = v])
  BY <1>1, Rewritten DEF Owing, MemoryInv
<1>4. MemoryInv(n, [s.mac EXCEPT ![x] = v])
  BY <1>1, <1>2, Rewritten DEF Owing
<1>5. CASE TextOf(s, x)[k] # Pop
  BY <1>3, <1>5 DEF ChopAt, Owing
<1>6. CASE TextOf(s, x)[k] = Pop
  BY <1>4, <1>6 DEF ChopAt, Owing
<1> QED
  BY <1>5, <1>6

-----------------------------------------------------------------------------
\* The request dictionary.
LEMMA Relink ==
    ASSUME NEW l \in [Names -> Referents], NEW n \in Names,
           NEW o \in Referents, NEW q
    PROVE  LET k == [l EXCEPT ![n] = o]
           IN  /\ k \in [Names -> Referents]
               /\ Cardinality(Referrers(l, q)) \in Nat
               /\ l[n] = q => Cardinality(Referrers(l, q)) > 0
               /\ Cardinality(Referrers(k, q)) =
                      Cardinality(Referrers(l, q)) + (IF o = q THEN 1 ELSE 0)
                                          - (IF l[n] = q THEN 1 ELSE 0)
<1> DEFINE k == [l EXCEPT ![n] = o]
<1>1. k \in [Names -> Referents]
  OBVIOUS
<1>2. k[n] = o /\ \A y \in Names \ {n} : k[y] = l[y]
  OBVIOUS
<1>3. Referrers(l, q) = With(Names, l, q) /\ Referrers(k, q) = With(Names, k, q)
  BY DEF Referrers, With
<1>4. IsFiniteSet(Names)
  BY MacrosAssumption
<1> HIDE DEF k
<1>5. /\ Cardinality(With(Names, l, q)) \in Nat
      /\ l[n] = q => Cardinality(With(Names, l, q)) > 0
      /\ Cardinality(With(Names, k, q)) =
             Cardinality(With(Names, l, q)) + (IF k[n] = q THEN 1 ELSE 0)
                                            - (IF l[n] = q THEN 1 ELSE 0)
  BY <1>2, <1>4, Recount
<1> QED
  BY <1>1, <1>2, <1>3, <1>5 DEF k

LEMMA ReferrersAreCounted ==
    ASSUME NEW l, NEW q
    PROVE  Cardinality(Referrers(l, q)) \in Nat
<1>1. IsFiniteSet(Names)
  BY MacrosAssumption
<1>2. IsFiniteSet(Referrers(l, q))
  BY <1>1, FS_Subset DEF Referrers
<1> QED
  BY <1>2, FS_CardinalityType

LEMMA UnnamedKeeps ==
    ASSUME NEW s, NEW o \in Referents, Owing(s, o)
    PROVE  StoreInv(Unnamed(s, o))
<1>1. NoObject \notin Objects
  BY MacrosAssumption
<1>2. CASE o \notin Objects
  BY <1>1, <1>2 DEF Unnamed, StoreInv, Owing, Surplus
<1>3. CASE o \in Objects /\ s.refs[o] = 1
  <2> DEFINE d == Destroy(s, ObjectPlace(o))
  <2>1. ObjectPlace(o) \in Places
    BY <1>3 DEF Places
  <2>2. Owing(d, o) /\ d.refs = s.refs
    BY <2>1, DestroyKeeps DEF Destroy, Owing
  <2> HIDE DEF d
  <2>3. Surplus(d.names, [d.refs EXCEPT ![o] = 0], NoObject)
    <3>1. \A q \in Objects : Cardinality(Referrers(d.names, q)) \in Nat
      BY ReferrersAreCounted
    <3> QED
      BY <1>1, <1>3, <2>2, <3>1 DEF Owing, Surplus
  <2>4. Unnamed(s, o) = [d EXCEPT !.refs[o] = 0]
    BY <1>3 DEF Unnamed, d
  <2> QED
    BY <2>2, <2>3, <2>4 DEF StoreInv, Owing
<1>4. CASE o \in Objects /\ s.refs[o] # 1
  <2> DEFINE r == [s.refs EXCEPT ![o] = @ - 1]
  <2>1. \A q \in Objects : Cardinality(Referrers(s.names, q)) \in Nat
    BY ReferrersAreCounted
  <2>2. Surplus(s.names, r, NoObject)
    BY <1>1, <1>4, <2>1 DEF Owing, Surplus
  <2>3. Unnamed(s, o) = [s EXCEPT !.refs = r]
    BY <1>4 DEF Unnamed
  <2> HIDE DEF r
  <2> QED
    BY <2>2, <2>3 DEF StoreInv, Owing
<1> QED
  BY <1>2, <1>3, <1>4

LEMMA LinkOwes ==
    ASSUME NEW s, NEW n \in Names, NEW o \in Referents, Owing(s, o)
    PROVE  LET t == [s EXCEPT !.names[n] = o]
           IN  /\ Owing(t, s.names[n]) /\ s.names[n] \in Referents
               /\ t.mem = s.mem /\ t.mac = s.mac /\ t.refs = s.refs
               /\ t.names = [s.names EXCEPT ![n] = o]
<1> DEFINE l == s.names
           k == [l EXCEPT ![n] = o]
           t == [s EXCEPT !.names[n] = o]
<1>1. l \in [Names -> Referents] /\ l[n] \in Referents
  BY DEF Owing, Surplus
<1>2. \A q : /\ k \in [Names -> Referents]
             /\ Cardinality(Referrers(l, q)) \in Nat
             /\ Cardinality(Referrers(k, q)) =
                    Cardinality(Referrers(l, q)) + (IF o = q THEN 1 ELSE 0)
                                        - (IF l[n] = q THEN 1 ELSE 0)
  BY <1>1, Relink
<1>3. /\ DOMAIN t = DOMAIN s /\ t.mem = s.mem /\ t.mac = s.mac
      /\ t.refs = s.refs /\ t.names = k
  BY DEF Owing
<1> HIDE DEF k, t
<1>4. Surplus(k, s.refs, l[n])
  BY <1>2 DEF Owing, Surplus
<1>5. Owing(t, l[n])
  BY <1>3, <1>4 DEF Owing
<1> QED
  BY <1>1, <1>3, <1>5 DEF t, k

LEMMA LinkKeeps ==
    ASSUME NEW s, NEW n \in Names, NEW o \in Referents, Owing(s, o)
    PROVE  StoreInv(Link(s, n, o))
BY LinkOwes, UnnamedKeeps DEF Link

LEMMA NamedOwes ==
    ASSUME NEW s, NEW o \in Referents, StoreInv(s)
    PROVE  /\ Owing(Named(s, o), o)
           /\ Named(s, o).mem = s.mem /\ Named(s, o).mac = s.mac
           /\ Named(s, o).names = s.names
           /\ \A q \in Objects : Named(s, o).refs[q] =
                                    s.refs[q] + IF q = o THEN 1 ELSE 0
<1>1. CASE o \notin Objects
  BY <1>1, MacrosAssumption DEF Named, StoreInv, Owing, Surplus
<1>2. CASE o \in Objects
  <2> DEFINE r == [s.refs EXCEPT ![o] = @ + 1]
  <2>1. \A q \in Objects : Cardinality(Referrers(s.names, q)) \in Nat
    BY ReferrersAreCounted
  <2>2. Surplus(s.names, r, o)
    BY <1>2, <2>1, MacrosAssumption DEF StoreInv, Owing, Surplus
  <2>3. \A q \in Objects : r[q] = s.refs[q] + IF q = o THEN 1 ELSE 0
    BY <1>2 DEF StoreInv, Owing, Surplus
  <2>4. Named(s, o) = [s EXCEPT !.refs = r]
    BY <1>2 DEF Named
  <2> HIDE DEF r
  <2> QED
    BY <2>2, <2>3, <2>4 DEF StoreInv, Owing
<1> QED
  BY <1>1, <1>2

LEMMA DefineKeeps ==
    ASSUME NEW s, NEW n \in Names, NEW o \in Referents, StoreInv(s)
    PROVE  StoreInv(Define(s, n, o))
BY NamedOwes, LinkKeeps DEF Define

LEMMA UnlinkKeeps ==
    ASSUME NEW s, NEW n \in Names, StoreInv(s)
    PROVE  /\ Owing(Unlink(s, n), s.names[n]) /\ s.names[n] \in Referents
           /\ Unlink(s, n).mem = s.mem /\ Unlink(s, n).mac = s.mac
           /\ Unlink(s, n).names = [s.names EXCEPT ![n] = NoObject]
           /\ Unlink(s, n).refs = s.refs
<1> DEFINE l == s.names
           k == [l EXCEPT ![n] = NoObject]
           t == [s EXCEPT !.names[n] = NoObject]
<1>1. l \in [Names -> Referents] /\ l[n] \in Referents
  BY DEF StoreInv, Owing, Surplus
<1> NoObject \in Referents
  BY DEF Referents
<1>2. \A q : /\ k \in [Names -> Referents]
             /\ Cardinality(Referrers(l, q)) \in Nat
             /\ Cardinality(Referrers(k, q)) =
                    Cardinality(Referrers(l, q))
                        + (IF NoObject = q THEN 1 ELSE 0)
                        - (IF l[n] = q THEN 1 ELSE 0)
  BY <1>1, Relink
<1>3. /\ DOMAIN t = DOMAIN s /\ t.mem = s.mem /\ t.mac = s.mac
      /\ t.refs = s.refs /\ t.names = k
  BY DEF StoreInv, Owing
<1> HIDE DEF k, t
<1>4. Surplus(k, s.refs, l[n])
  <2>1. NoObject \notin Objects
    BY MacrosAssumption
  <2>2. \A q \in Objects : s.refs[q] = Cardinality(Referrers(l, q))
    BY <1>2, <2>1 DEF StoreInv, Owing, Surplus
  <2>3. \A q \in Objects :
            s.refs[q] = Cardinality(Referrers(k, q)) + IF q = l[n] THEN 1 ELSE 0
    BY <1>2, <2>1, <2>2
  <2> QED
    BY <1>2, <2>3 DEF StoreInv, Owing, Surplus
<1>5. Owing(t, l[n])
  BY <1>3, <1>4 DEF StoreInv, Owing
<1> QED
  BY <1>1, <1>3, <1>5 DEF Unlink, t, k

-----------------------------------------------------------------------------
\* The inductive invariant: the counts are exact, and there is a place for
\* every diversion and iterator.
StackInv ==
    /\ open \in Seq(Names) /\ Len(open) <= MaxOpen
    /\ input \in Seq(Nat) /\ Len(input) <= MaxInput
    /\ draft \in {NoDraft} \cup Drafts

CountInv == StoreInv(Store) /\ StackInv

LEMMA BecomesKeeps ==
    ASSUME NEW s, StoreInv(s), Becomes(s)
    PROVE  StoreInv(Store)'
BY DEF Becomes, StoreInv, Owing, Store

LEMMA SameKeeps ==
    ASSUME StoreInv(Store), UNCHANGED <<mem, mac, names, refs>>
    PROVE  StoreInv(Store)'
BY DEF StoreInv, Owing, Store

LEMMA PlacesAre ==
    ASSUME StackInv
    PROVE  /\ Local \in Places
           /\ \A o \in Objects : ObjectPlace(o) \in Places
           /\ Len(open) < MaxOpen => OpenPlace(Len(open) + 1) \in Places
           /\ Len(input) < MaxInput => InputPlace(Len(input) + 1) \in Places
           /\ open # <<>> => OpenPlace(Len(open)) \in Places
           /\ input # <<>> => InputPlace(Len(input)) \in Places
<1>1. Len(open) \in Nat /\ Len(input) \in Nat
  BY DEF StackInv
<1>2. MaxOpen \in Nat /\ MaxInput \in Nat
  BY MacrosAssumption
<1>3. (open # <<>> => Len(open) > 0) /\ (input # <<>> => Len(input) > 0)
  BY DEF StackInv
<1> QED
  <2>1. Local \in Places /\ \A o \in Objects : ObjectPlace(o) \in Places
    BY Zenon DEF Places
  <2>2. /\ Len(open) < MaxOpen => Len(open) + 1 \in 1..MaxOpen
        /\ Len(input) < MaxInput => Len(input) + 1 \in 1..MaxInput
        /\ open # <<>> => Len(open) \in 1..MaxOpen
        /\ input # <<>> => Len(input) \in 1..MaxInput
    BY <1>1, <1>2, <1>3 DEF StackInv
  <2>3. /\ \A i \in 1..MaxOpen : OpenPlace(i) \in Places
        /\ \A i \in 1..MaxInput : InputPlace(i) \in Places
    BY Zenon DEF Places
  <2> QED
    BY <2>1, <2>2, <2>3, Zenon

LEMMA NamesAre ==
    ASSUME StoreInv(Store), NEW n \in Names
    PROVE  names[n] \in Referents
BY DEF StoreInv, Owing, Surplus, Store

LEMMA NewObjectIs ==
    ASSUME FreeObjects # {}
    PROVE  NewObject \in Objects /\ NewObject \in Referents
BY DEF FreeObjects, NewObject, Referents

LEMMA MovedKeeps ==
    ASSUME NEW s, StoreInv(s), NEW x \in Places, NEW y \in Places
    PROVE  StoreInv(Moved(s, x, y))
BY AssignKeeps, DestroyKeeps DEF Moved, StoreInv

LEMMA StoredKeeps ==
    ASSUME NEW s, StoreInv(s), StackInv, NEW n \in Names, NEW o,
           NEW x \in Places, CanStore(o)
    PROVE  StoreInv(Stored(s, n, o, x))
<1>1. CASE o \in Objects
  BY <1>1, MovedKeeps, PlacesAre DEF Stored
<1>2. CASE o \notin Objects
  <2>1. NewObject \in Objects /\ NewObject \in Referents
    BY <1>2, NewObjectIs DEF CanStore
  <2>2. ObjectPlace(NewObject) \in Places
    BY <2>1, PlacesAre
  <2> DEFINE t == Moved(s, x, ObjectPlace(NewObject))
  <2>3. StoreInv(t)
    BY <2>2, MovedKeeps
  <2> HIDE DEF t
  <2>4. StoreInv(Define(t, n, NewObject))
    BY <2>1, <2>3, DefineKeeps
  <2> QED
    BY <1>2, <2>4 DEF Stored, t
<1> QED
  BY <1>1, <1>2

LEMMA OriginalKeeps ==
    ASSUME CountInv, NEW x \in Places, NEW n \in Names, NEW append \in BOOLEAN
    PROVE  StoreInv(Original(x, n, append))
<1>1. CASE append /\ names[n] \in Objects
  BY <1>1, AssignKeeps, PlacesAre DEF CountInv, Original, StoreInv
<1>2. CASE ~(append /\ names[n] \in Objects)
  BY <1>2 DEF CountInv, Original
<1> QED
  BY <1>1, <1>2

-----------------------------------------------------------------------------
\* At the start nothing is counted.
LEMMA CountInit == Init => CountInv
<1> SUFFICES ASSUME Init PROVE CountInv
  OBVIOUS
<1> USE MacrosAssumption DEF Init
<1>1. MemoryInv(mem, mac)
  <2>1. IsMem(mem)
    BY DEF IsMem, Unused
  <2>2. IsMac(mac)
    BY DEF IsMac, NoMacro
  <2>3. \A h \in Headers : Pointers(mac, h) = {} /\ mem[h].count = 0
    BY DEF Pointers, NoMacro, Unused
  <2> QED
    BY <2>1, <2>2, <2>3, FS_EmptySet DEF MemoryInv, Counted
<1>2. Surplus(names, refs, NoObject)
  <2>1. names \in [Names -> Referents]
    BY DEF Referents
  <2>2. \A o \in Objects : Referrers(names, o) = {} /\ o # NoObject
    BY DEF Referrers
  <2>3. \A o \in Objects : Cardinality(Referrers(names, o)) = 0
    BY <2>2, FS_EmptySet
  <2> QED
    BY <2>1, <2>2, <2>3 DEF Surplus
<1>3. StackInv
  BY DEF StackInv
<1> QED
  BY <1>1, <1>2, <1>3 DEF CountInv, StoreInv, Owing, Store
-----------------------------------------------------------------------------
\* What the actions on the stacks do to them.
LEMMA FrontIs ==
    ASSUME NEW S, NEW q \in Seq(S), q # <<>>
    PROVE  /\ Len(q) \in 1..Len(q) /\ Last(q) \in S
           /\ Front(q) \in Seq(S) /\ Len(Front(q)) = Len(q) - 1
<1>1. Len(q) \in Nat /\ Len(q) > 0
  OBVIOUS
<1>2. Last(q) \in S
  BY <1>1 DEF Last
<1>3. Front(q) = [i \in 1..(Len(q) - 1) |-> q[i]]
  BY <1>1 DEF Front
<1>4. Front(q) \in Seq(S) /\ Len(Front(q)) = Len(q) - 1
  <2>1. \A i \in 1..(Len(q) - 1) : q[i] \in S
    BY <1>1
  <2> QED
    BY <1>1, <1>3, <2>1
<1> QED
  BY <1>1, <1>2, <1>4

LEMMA StacksAfter ==
    ASSUME StackInv
    PROVE  /\ input # <<>> => /\ Len(input) \in 1..Len(input)
                              /\ Front(input) \in Seq(Nat)
                              /\ Len(Front(input)) = Len(input) - 1
           /\ open # <<>> => /\ Last(open) \in Names
                             /\ Front(open) \in Seq(Names)
                             /\ Len(Front(open)) = Len(open) - 1
BY FrontIs DEF StackInv

LEMMA AdvanceKeeps ==
    ASSUME StackInv, MoreInput, Advance, UNCHANGED open,
           draft' = draft
    PROVE  StackInv'
<1>1. Len(input) \in 1..Len(input)
  BY StacksAfter DEF MoreInput
<1>2. input' \in Seq(Nat) /\ Len(input') = Len(input)
  BY <1>1 DEF Advance, StackInv
<1> QED
  BY <1>2 DEF StackInv

\* A text that is changed, or an assertion that fails instead.
LEMMA ContinueKeeps ==
    ASSUME StackInv, UNCHANGED <<draft, open, input>>, NEW s, StoreInv(s),
           Becomes(s)
    PROVE  CountInv'
<1>1. StoreInv(Store)'
  BY BecomesKeeps
<1> QED
  BY <1>1 DEF CountInv, StackInv

LEMMA AbortKeeps ==
    ASSUME CountInv, NEW kind, Abort(kind), UNCHANGED <<draft, open, input>>
    PROVE  CountInv'
<1>1. StoreInv(Store)'
  BY SameKeeps DEF CountInv, Abort
<1> QED
  BY <1>1 DEF CountInv, StackInv

-----------------------------------------------------------------------------
\* Every action keeps the invariant.
LEMMA CountReads ==
    ASSUME CountInv, NEW n,
           \/ n \in Names /\ (Dereference(n) \/ Interpolate(n))
           \/ Read \/ EndOfInput
    PROVE  CountInv'
<1> USE DEF CountInv
<1>1. CASE n \in Names /\ Dereference(n)
  <2>1. StoreInv(Define(Store, n, NewObject))
    BY <1>1, NewObjectIs, DefineKeeps DEF Dereference
  <2> QED
    BY <1>1, <2>1, ContinueKeeps DEF Dereference
<1>2. CASE n \in Names /\ Interpolate(n)
  <2> DEFINE y == InputPlace(Len(input) + 1)
  <2>1. y \in Places /\ ObjectPlace(names[n]) \in Places
    BY <1>2, PlacesAre DEF Interpolate
  <2>2. StoreInv(Assign(Store, y, ObjectPlace(names[n])))
    BY <2>1, AssignKeeps DEF StoreInv
  <2>3. StoreInv(Store)'
    BY <1>2, <2>2, BecomesKeeps DEF Interpolate
  <2>4. StackInv'
    BY <1>2, MacrosAssumption DEF Interpolate, StackInv
  <2> QED
    BY <2>3, <2>4
<1>3. CASE Read
  <2>1. StoreInv(Store)'
    BY <1>3, SameKeeps DEF Read
  <2>2. StackInv'
    BY <1>3, AdvanceKeeps DEF Read
  <2> QED
    BY <2>1, <2>2
<1>4. CASE EndOfInput
  <2>1. StoreInv(Destroy(Store, InputPlace(Len(input))))
    BY <1>4, PlacesAre, DestroyKeeps DEF EndOfInput, StoreInv
  <2>2. StoreInv(Store)'
    BY <1>4, <2>1, BecomesKeeps DEF EndOfInput
  <2>3. input' \in Seq(Nat) /\ Len(input') = Len(input) - 1
    BY <1>4, StacksAfter DEF EndOfInput
  <2>4. StackInv'
    BY <1>4, <2>3, MacrosAssumption DEF EndOfInput, StackInv
  <2> QED
    BY <2>2, <2>4
<1> QED
  BY <1>1, <1>2, <1>3, <1>4

LEMMA CountDefinitions ==
    ASSUME CountInv, NEW n, NEW append \in BOOLEAN,
           NEW comp \in BOOLEAN, NEW c,
           \/ n \in Names /\ BeginDefinition(n, append, comp)
           \/ Collect(c)
           \/ EndDefinition \/ AbandonDefinition
    PROVE  CountInv'
<1> USE DEF CountInv
<1>0. Local \in Places
  BY PlacesAre
<1>1. CASE n \in Names /\ BeginDefinition(n, append, comp)
  <2> DEFINE s == Original(Local, n, append)
  <2>1. StoreInv(s)
    BY <1>0, <1>1, OriginalKeeps
  <2> HIDE DEF s
  <2>2. comp => StoreInv(AppendCell(s, Local, Push))
    BY <1>0, <1>1, <2>1, AppendCellKeeps
       DEF BeginDefinition, StoreInv, CanAppend, s
  <2>3. StoreInv(IF comp THEN AppendCell(s, Local, Push) ELSE s)
    BY <2>1, <2>2
  <2>4. StoreInv(Store)'
    BY <1>1, <2>3, BecomesKeeps DEF BeginDefinition, s
  <2>5. names[n] \in Referents
    BY <1>1, NamesAre
  <2>6. StackInv'
    BY <1>1, <2>5 DEF BeginDefinition, StackInv, Drafts, Referents
  <2> QED
    BY <2>4, <2>6
<1>2. CASE Collect(c)
  <2>1. StoreInv(AppendCell(Store, Local, c))
    BY <1>0, <1>2, AppendCellKeeps DEF Collect, StoreInv, CanAppend
  <2>2. StoreInv(Store)'
    BY <1>2, <2>1, BecomesKeeps DEF Collect
  <2>3. StackInv'
    <3>1. CASE UNCHANGED input
      BY <1>2, <3>1 DEF Collect, StackInv
    <3>2. CASE MoreInput /\ Advance
      BY <1>2, <3>2, AdvanceKeeps DEF Collect
    <3> QED
      BY <1>2, <3>1, <3>2 DEF Collect
  <2> QED
    BY <2>2, <2>3
<1>3. CASE EndDefinition
  <2> DEFINE s == IF draft.comp THEN AppendCell(Store, Local, Pop) ELSE Store
  <2>1. draft.name \in Names /\ draft.comp \in BOOLEAN
    BY <1>3 DEF EndDefinition, StackInv, Drafts
  <2>2. StoreInv(s)
    BY <1>0, <1>3, AppendCellKeeps DEF EndDefinition, StoreInv, CanAppend
  <2> HIDE DEF s
  <2>3. StoreInv(Stored(s, draft.name, draft.object, Local))
    BY <1>0, <1>3, <2>1, <2>2, StoredKeeps DEF EndDefinition
  <2>4. StoreInv(Store)'
    BY <1>3, <2>3, BecomesKeeps DEF EndDefinition, s
  <2> QED
    BY <1>3, <2>4 DEF EndDefinition, StackInv, Drafts
<1>4. CASE AbandonDefinition
  <2>1. StoreInv(Destroy(Store, Local))
    BY <1>0, DestroyKeeps DEF StoreInv
  <2>2. StoreInv(Store)'
    BY <1>4, <2>1, BecomesKeeps DEF AbandonDefinition
  <2> QED
    BY <1>4, <2>2 DEF AbandonDefinition, StackInv
<1> QED
  BY <1>1, <1>2, <1>3, <1>4

LEMMA CountDiversions ==
    ASSUME CountInv, NEW n, NEW append \in BOOLEAN, NEW c,
           \/ n \in Names /\ BeginDiversion(n, append)
           \/ Divert(c) \/ EndDiversion
    PROVE  CountInv'
<1> USE DEF CountInv
<1>1. CASE n \in Names /\ BeginDiversion(n, append)
  <2> DEFINE y == OpenPlace(Len(open) + 1)
  <2>1. y \in Places
    BY <1>1, PlacesAre DEF BeginDiversion
  <2>2. StoreInv(Original(y, n, append))
    BY <1>1, <2>1, OriginalKeeps
  <2>3. StoreInv(Store)'
    BY <1>1, <2>2, BecomesKeeps DEF BeginDiversion
  <2>4. StackInv'
    BY <1>1, MacrosAssumption DEF BeginDiversion, StackInv
  <2> QED
    BY <2>3, <2>4
<1>2. CASE Divert(c)
  <2>1. StoreInv(AppendCell(Store, Innermost, c))
    BY <1>2, PlacesAre, AppendCellKeeps
       DEF Divert, Innermost, StoreInv, CanAppend
  <2> QED
    BY <1>2, <2>1, ContinueKeeps DEF Divert
<1>3. CASE EndDiversion
  <2>1. Last(open) \in Names /\ Innermost \in Places
    BY <1>3, StacksAfter, PlacesAre DEF EndDiversion, Innermost
  <2>2. StoreInv(Stored(Store, Last(open), names[Last(open)], Innermost))
    BY <1>3, <2>1, StoredKeeps DEF EndDiversion
  <2>3. StoreInv(Store)'
    BY <1>3, <2>2, BecomesKeeps DEF EndDiversion
  <2>4. open' \in Seq(Names) /\ Len(open') = Len(open) - 1
    BY <1>3, StacksAfter DEF EndDiversion
  <2>5. StackInv'
    BY <1>3, <2>4, MacrosAssumption DEF EndDiversion, StackInv
  <2> QED
    BY <2>3, <2>5
<1> QED
  BY <1>1, <1>2, <1>3

LEMMA CountChanges ==
    ASSUME CountInv, NEW n \in Names, NEW i, NEW j,
           \/ Chop(n) \/ Substring(n, i, j) \/ Asciify(n) \/ Unformat(n)
           \/ ChangeCase(n)
    PROVE  CountInv'
<1> DEFINE x == ObjectPlace(names[n])
<1> USE DEF CountInv
<1>1. Changes(n)
  BY DEF Chop, Substring, Asciify, Unformat, ChangeCase
<1>2. x \in Places /\ UNCHANGED <<draft, open, input>>
  BY <1>1, PlacesAre DEF Changes
<1> HIDE DEF x
<1>3. \A kind : Abort(kind) => CountInv'
  BY <1>2, AbortKeeps
<1>4. ASSUME NEW text, HasFree(Store), Continue(Filled(Store, x, text))
      PROVE  CountInv'
  BY <1>2, <1>4, FilledKeeps, ContinueKeeps DEF StoreInv, Continue
<1>5. CASE Chop(n)
  <2>1. ASSUME NEW k, Continue(ChopAt(Store, x, k)) PROVE CountInv'
    BY <1>2, <2>1, ChopAtKeeps, ContinueKeeps DEF StoreInv, Continue
  <2> QED
    BY <1>3, <1>5, <2>1 DEF Chop, x
<1>6. CASE Substring(n, i, j)
  BY <1>3, <1>4, <1>6 DEF Substring, x
<1>7. CASE Asciify(n)
  BY <1>4, <1>7 DEF Asciify, x
<1>8. CASE Unformat(n)
  BY <1>4, <1>8 DEF Unformat, x
<1>9. CASE ChangeCase(n)
  <2>1. NewObject \in Objects /\ NewObject \in Referents
    BY <1>9, NewObjectIs DEF ChangeCase
  <2>2. ObjectPlace(NewObject) \in Places
    BY <2>1, PlacesAre
  <2>3. ASSUME NEW text, HasFree(Store),
               Continue(Define(Filled(Store, ObjectPlace(NewObject), text),
                               n, NewObject))
        PROVE  CountInv'
    <3> DEFINE s == Filled(Store, ObjectPlace(NewObject), text)
    <3>1. StoreInv(s)
      BY <2>2, <2>3, FilledKeeps DEF StoreInv
    <3> HIDE DEF s
    <3>2. StoreInv(Define(s, n, NewObject))
      BY <2>1, <3>1, DefineKeeps
    <3> QED
      BY <1>2, <2>3, <3>2, ContinueKeeps DEF Continue, s
  <2> QED
    BY <1>3, <1>9, <2>3 DEF ChangeCase
<1> QED
  BY <1>5, <1>6, <1>7, <1>8, <1>9

LEMMA CountRenames ==
    ASSUME CountInv, NEW a \in Names, NEW b \in Names,
           Rn(a, b) \/ Als(a, b) \/ Rm(a)
    PROVE  CountInv'
<1> USE DEF CountInv
<1>1. /\ names[a] \in Referents /\ names[b] \in Referents
      /\ Store.names[a] = names[a]
  BY NamesAre DEF Store
<1>2. Owing(Unlink(Store, a), names[a])
  BY <1>1, UnlinkKeeps
<1>3. CASE Rn(a, b)
  <2>1. StoreInv(Renamed(Store, a, b))
    BY <1>1, <1>2, LinkKeeps DEF Renamed
  <2> QED
    BY <1>3, <2>1, ContinueKeeps DEF Rn, Continue
<1>4. CASE Als(a, b)
  <2>1. StoreInv(Define(Store, a, names[b]))
    BY <1>1, DefineKeeps
  <2> QED
    BY <1>4, <2>1, ContinueKeeps DEF Als, Continue
<1>5. CASE Rm(a)
  <2>1. StoreInv(Unnamed(Unlink(Store, a), names[a]))
    BY <1>1, <1>2, UnnamedKeeps
  <2> QED
    BY <1>5, <2>1, ContinueKeeps DEF Rm, Continue
<1> QED
  BY <1>3, <1>4, <1>5


LEMMA CountNext == CountInv /\ [Next]_vars => CountInv'
<1> SUFFICES ASSUME CountInv, [Next]_vars PROVE CountInv'
  OBVIOUS
<1>1. ASSUME NEW n \in Names,
             Dereference(n) \/ Interpolate(n) \/ Chop(n) \/ Asciify(n)
                \/ Unformat(n) \/ ChangeCase(n) \/ Rm(n)
      PROVE  CountInv'
  BY <1>1, CountReads, CountChanges, CountRenames
<1>2. ASSUME NEW n \in Names, NEW append \in BOOLEAN, NEW comp \in BOOLEAN,
             BeginDiversion(n, append) \/ BeginDefinition(n, append, comp)
      PROVE  CountInv'
  BY <1>2, CountDefinitions, CountDiversions
<1>3. ASSUME NEW n \in Names, NEW b \in Names, NEW i, NEW j,
             Substring(n, i, j) \/ Rn(n, b) \/ Als(n, b)
      PROVE  CountInv'
  BY <1>3, CountChanges, CountRenames
<1>4. CASE UNCHANGED vars
  <2>1. StoreInv(Store)'
    BY <1>4, SameKeeps DEF CountInv, vars
  <2> QED
    BY <1>4, <2>1 DEF CountInv, StackInv, vars
<1>5. ASSUME NEW c, Collect(c) \/ Divert(c) \/ Read \/ EndOfInput
                \/ EndDefinition \/ AbandonDefinition \/ EndDiversion
      PROVE  CountInv'
  BY <1>5, CountReads, CountDefinitions, CountDiversions
<1> QED
  BY <1>1, <1>2, <1>3, <1>4, <1>5 DEF Next

\* Counts are exact, for ever: no header and no object is freed that is still
\* needed, and none is kept that nobody refers to.
THEOREM CountsStayExact == Spec => []CountsAreExact
<1>1. ASSUME CountInv PROVE CountsAreExact
  <2>1. \A h \in Headers :
            mem[h].count = Cardinality({x \in Places : mac[x].p = h})
    BY <1>1
       DEF CountInv, StoreInv, Owing, MemoryInv, Counted, Pointers, Store
  <2>2. \A o \in Objects : refs[o] = Cardinality({n \in Names : names[n] = o})
    <3> SUFFICES ASSUME NEW o \in Objects
                 PROVE  refs[o] = Cardinality(Referrers(names, o))
      BY DEF Referrers
    <3>1. Surplus(names, refs, NoObject)
      BY <1>1 DEF CountInv, StoreInv, Owing, Store
    <3>2. o # NoObject
      BY MacrosAssumption
    <3>3. Cardinality(Referrers(names, o)) \in Nat
      BY ReferrersAreCounted
    <3> QED
      BY <3>1, <3>2, <3>3 DEF Surplus
  <2> QED
    BY <2>1, <2>2 DEF CountsAreExact
<1> QED
  BY <1>1, CountInit, CountNext, PTL DEF Spec

-----------------------------------------------------------------------------
\* Selected and FlattenSeq, step by step.

\* Induction, on sets of natural numbers.
Smaller == {p \in Nat \X Nat : p[1] < p[2]}

LEMMA Below == IsWellFoundedOn(Smaller, Nat)
<1>1. OpToRel(<, Nat) = Smaller
  BY DEF OpToRel, Smaller
<1> QED
  BY <1>1, NatLessThanWellFounded

LEMMA Least ==
    ASSUME NEW S \in SUBSET Nat, S # {}
    PROVE  \E n \in S : \A m \in S : n <= m
<1>1. PICK n \in S : \A m \in S : <<m, n>> \notin Smaller
  BY WFMin, Below
<1>2. \A m \in S : ~(m < n)
  BY <1>1 DEF Smaller
<1> QED
  BY <1>2

LEMMA Induct ==
    ASSUME NEW S \in SUBSET Nat, 0 \in S, \A n \in S : n + 1 \in S
    PROVE  S = Nat
<1>1. SUFFICES ASSUME Nat \ S # {} PROVE FALSE
  OBVIOUS
<1>2. PICK n \in Nat \ S : \A m \in Nat \ S : n <= m
  BY <1>1, Least
<1>3. n - 1 \in S
  BY <1>2
<1> QED
  BY <1>2, <1>3

\* A function of the numbers up to n can be defined step by step.
IsStepwise(f, n, a, g) ==
    f = [i \in 0..n |-> IF i = 0 THEN a ELSE g[<<f[i - 1], i>>]]

LEMMA StepByStep ==
    ASSUME NEW n \in Nat, NEW a, NEW g
    PROVE  \E f : IsStepwise(f, n, a, g)
<1> USE DEF IsStepwise
<1> DEFINE IsIt(f, m) == IsStepwise(f, m, a, g)
           S == {m \in Nat : \E f : IsIt(f, m)}
<1>1. 0 \in S
  <2> DEFINE f == [i \in 0..0 |-> a]
  <2>1. f = [i \in 0..0 |-> IF i = 0 THEN a ELSE g[<<f[i - 1], i>>]]
    OBVIOUS
  <2>2. IsIt(f, 0)
    BY <2>1
  <2> QED
    BY <2>2
<1>2. ASSUME NEW m \in S PROVE m + 1 \in S
  <2>1. PICK f : IsIt(f, m)
    OBVIOUS
  <2> DEFINE h == [i \in 0..(m + 1) |-> IF i = m + 1 THEN g[<<f[m], i>>]
                                        ELSE f[i]]
  <2>2. \A i \in 0..(m + 1) :
           h[i] = IF i = 0 THEN a ELSE g[<<h[i - 1], i>>]
    <3>1. ASSUME NEW i \in 0..m
          PROVE  h[i] = IF i = 0 THEN a ELSE g[<<h[i - 1], i>>]
      BY <2>1
    <3>2. h[m + 1] = g[<<h[m], m + 1>>]
      OBVIOUS
    <3>3. \A i \in 0..(m + 1) : i \in 0..m \/ i = m + 1
      OBVIOUS
    <3>4. m + 1 # 0 /\ (m + 1) - 1 = m
      OBVIOUS
    <3> HIDE DEF h
    <3> QED
      BY <3>1, <3>2, <3>3, <3>4
  <2>3. h = [i \in 0..(m + 1) |-> h[i]]
    OBVIOUS
  <2> HIDE DEF h
  <2>4. IsIt(h, m + 1)
    BY <2>2, <2>3
  <2>5. \E f1 : IsIt(f1, m + 1)
    <3> WITNESS h
    <3> QED
      BY <2>4
  <2> HIDE DEF IsIt
  <2> QED
    BY <2>5
<1>3. S = Nat
  <2> HIDE DEF S
  <2>1. S \in SUBSET Nat
    BY DEF S
  <2> QED
    BY <1>1, <1>2, <2>1, Induct
<1> QED
  BY <1>3

\* Sequences, step by step: c[i] comes from c[i - 1] by g, where g yields
\* sequences from sequences.
LEMMA StepwiseSequences ==
    ASSUME NEW n \in Nat, NEW T, NEW a \in T, NEW g,
           \A u \in T : \A i \in 1..n : g[<<u, i>>] \in T
    PROVE  \E f : IsStepwise(f, n, a, g) /\ \A i \in 0..n : f[i] \in T
<1>1. PICK f : IsStepwise(f, n, a, g)
  BY StepByStep
<1>2. f[0] = a /\ \A i \in 1..n : f[i] = g[<<f[i - 1], i>>]
  BY <1>1 DEF IsStepwise
<1> DEFINE S == {i \in Nat : i \in 0..n => f[i] \in T}
<1>3. 0 \in S
  BY <1>2
<1>4. ASSUME NEW i \in S PROVE i + 1 \in S
  <2>1. SUFFICES ASSUME i + 1 \in 0..n PROVE f[i + 1] \in T
    OBVIOUS
  <2>2. i \in 0..n /\ i + 1 \in 1..n /\ (i + 1) - 1 = i
    BY <2>1
  <2>3. f[i] \in T
    BY <2>2
  <2>4. f[i + 1] = g[<<f[i], i + 1>>]
    BY <1>2, <2>2
  <2> QED
    BY <2>2, <2>3, <2>4
<1>5. S = Nat
  <2> HIDE DEF S
  <2>1. S \in SUBSET Nat
    BY DEF S
  <2> QED
    BY <1>3, <1>4, <2>1, Induct
<1>6. \A i \in 0..n : f[i] \in T
  BY <1>5
<1> QED
  BY <1>1, <1>6

-----------------------------------------------------------------------------
\* What Selected collects, element by element.
LEMMA ChosenSteps ==
    ASSUME NEW E, NEW t \in Seq(E), NEW S
    PROVE  LET c == ChosenOfFirst(t, S)
           IN  /\ c[0] = <<>>
               /\ \A i \in 1..Len(t) :
                     c[i] = IF t[i] \in S THEN Append(c[i - 1], t[i])
                            ELSE c[i - 1]
<1> DEFINE n == Len(t)
           T == Seq(E)
           c == ChosenOfFirst(t, S)
           step(u, i) == IF t[i] \in S THEN Append(u, t[i]) ELSE u
           g == [p \in T \X (1..n) |-> step(p[1], p[2])]
           IsIt(f) == f = [i \in 0..n |-> IF i = 0 THEN <<>>
                             ELSE IF t[i] \in S THEN Append(f[i - 1], t[i])
                             ELSE f[i - 1]]
<1>1. n \in Nat /\ <<>> \in T /\ \A i \in 1..n : t[i] \in E
  OBVIOUS
<1>2. \A u \in T : \A i \in 1..n : step(u, i) \in T
  BY <1>1
<1>3. \A u \in T : \A i \in 1..n : g[<<u, i>>] = step(u, i)
  <2> HIDE DEF step, T
  <2> QED
    OBVIOUS
<1>4. \A u \in T : \A i \in 1..n : g[<<u, i>>] \in T
  BY <1>2, <1>3
<1>5. PICK f : IsStepwise(f, n, <<>>, g) /\ \A i \in 0..n : f[i] \in T
  <2> HIDE DEF g, n, T
  <2> QED
    BY <1>1, <1>4, StepwiseSequences
<1>6. \A i \in 0..n : i # 0 => g[<<f[i - 1], i>>] = step(f[i - 1], i)
  <2> HIDE DEF g, T, step
  <2> QED
    BY <1>1, <1>3, <1>5
<1>7. IsIt(f)
  <2> HIDE DEF g, T, n
  <2> QED
    BY <1>5, <1>6 DEF IsStepwise
<1>8. c = CHOOSE h : IsIt(h)
  BY DEF ChosenOfFirst
<1>9. IsIt(c)
  <2> HIDE DEF IsIt, c
  <2> QED
    BY <1>7, <1>8
<1> HIDE DEF c
<1>10. 0 \in 0..n /\ \A i \in 1..n : i \in 0..n /\ i # 0
  BY <1>1
<1> HIDE DEF n
<1>11. /\ c[0] = <<>>
       /\ \A i \in 1..n : c[i] = IF t[i] \in S THEN Append(c[i - 1], t[i])
                                 ELSE c[i - 1]
  BY <1>9, <1>10, Zenon
<1> QED
  BY <1>11 DEF c, n

\* What FlattenSeq joins, sequence by sequence.
Joins(q) == LET flatten[i \in 1..Len(q)] ==
                    IF i = 1 THEN q[i] ELSE flatten[i - 1] \o q[i]
            IN  flatten

LEMMA JoinsSteps ==
    ASSUME NEW E, NEW q \in Seq(Seq(E)), q # <<>>
    PROVE  LET f == Joins(q)
           IN  /\ f[1] = q[1]
               /\ \A i \in 2..Len(q) : f[i] = f[i - 1] \o q[i]
<1> DEFINE n == Len(q)
           T == Seq(E)
           c == Joins(q)
           step(u, i) == IF i = 1 THEN q[i] ELSE u \o q[i]
           g == [p \in T \X (1..n) |-> step(p[1], p[2])]
           IsIt(f) == f = [i \in 1..n |-> IF i = 1 THEN q[i]
                                          ELSE f[i - 1] \o q[i]]
<1>1. n \in Nat /\ n > 0 /\ <<>> \in T /\ \A i \in 1..n : q[i] \in T
  OBVIOUS
<1>2. \A u \in T : \A i \in 1..n : step(u, i) \in T
  BY <1>1
<1>3. \A u \in T : \A i \in 1..n : g[<<u, i>>] = step(u, i)
  <2> HIDE DEF step, T
  <2> QED
    OBVIOUS
<1>4. \A u \in T : \A i \in 1..n : g[<<u, i>>] \in T
  BY <1>2, <1>3
<1>5. PICK f : IsStepwise(f, n, <<>>, g) /\ \A i \in 0..n : f[i] \in T
  <2> HIDE DEF g, n, T
  <2> QED
    BY <1>1, <1>4, StepwiseSequences
<1>6. \A i \in 1..n : f[i] = step(f[i - 1], i)
  <2>1. \A i \in 1..n : f[i] = g[<<f[i - 1], i>>]
    <3> HIDE DEF g, T, n
    <3> QED
      BY <1>1, <1>5 DEF IsStepwise
  <2>2. \A i \in 1..n : f[i - 1] \in T
    <3> HIDE DEF g, T, n
    <3> QED
      BY <1>1, <1>5
  <2> HIDE DEF g, T, n, step
  <2> QED
    BY <1>3, <2>1, <2>2
<1> DEFINE r == [i \in 1..n |-> f[i]]
<1>7. IsIt(r)
  <2>1. \A i \in 1..n : r[i] = f[i] /\ (i # 1 => r[i - 1] = f[i - 1])
    <3> HIDE DEF n
    <3> QED
      BY <1>1
  <2>2. \A i \in 1..n : r[i] = IF i = 1 THEN q[i] ELSE r[i - 1] \o q[i]
    <3> HIDE DEF n, r
    <3> QED
      BY <1>6, <2>1, Zenon
  <2>3. r = [i \in 1..n |-> r[i]]
    OBVIOUS
  <2> HIDE DEF n, r
  <2> QED
    BY <2>2, <2>3, Zenon
<1>8. c = CHOOSE h : IsIt(h)
  BY DEF Joins
<1>9. IsIt(c)
  <2> HIDE DEF IsIt, c
  <2> QED
    BY <1>7, <1>8
<1> HIDE DEF c
<1>10. 1 \in 1..n /\ \A i \in 2..n : i \in 1..n /\ i # 1
  BY <1>1
<1> HIDE DEF n
<1>11. c[1] = q[1] /\ \A i \in 2..n : c[i] = c[i - 1] \o q[i]
  BY <1>9, <1>10, Zenon
<1> QED
  BY <1>11 DEF c, n

LEMMA FlattenIs ==
    ASSUME NEW E, NEW q \in Seq(Seq(E))
    PROVE  FlattenSeq(q) = IF q = <<>> THEN <<>> ELSE Joins(q)[Len(q)]
<1>1. Len(q) = 0 <=> q = <<>>
  OBVIOUS
<1> QED
  BY <1>1 DEF FlattenSeq, Joins

\* The mode tokens of t alternate, and the last one is m.
Alternates(t) == \A i \in DOMAIN t : t[i] \in Modes => t[i] # LastMode(t, i)
Ends(t, m) == Alternates(t) /\ LastMode(t, Len(t) + 1) = m

LEMMA MaxIs ==
    ASSUME NEW n \in Nat, NEW S \in SUBSET (1..n), S # {}
    PROVE  Max(S) \in S /\ \A k \in S : k <= Max(S)
<1> DEFINE B == {j \in Nat : \A k \in S : k <= j}
<1>1. n \in B
  OBVIOUS
<1>2. PICK j \in B : \A l \in B : j <= l
  <2>1. B \in SUBSET Nat /\ B # {}
    BY <1>1
  <2> HIDE DEF B
  <2> QED
    BY <2>1, Least
<1>3. j \in S
  <2>1. SUFFICES ASSUME j \notin S PROVE FALSE
    OBVIOUS
  <2>2. PICK k \in S : TRUE
    OBVIOUS
  <2>3. k \in 1..n /\ k <= j
    BY <1>2
  <2>4. j - 1 \in Nat
    BY <1>2, <2>3
  <2>5. \A l \in S : l <= j - 1
    BY <1>2, <2>1
  <2>6. j - 1 \in B
    BY <2>4, <2>5
  <2> QED
    BY <1>2, <2>4, <2>6
<1>4. \E x \in S : \A y \in S : x >= y
  BY <1>2, <1>3
<1>5. Max(S) \in S /\ \A y \in S : Max(S) >= y
  BY <1>4 DEF Max
<1> QED
  BY <1>5

LEMMA LastModeIs ==
    ASSUME NEW t, NEW i \in Nat \ {0}
    PROVE  \/ /\ \A k \in 1..(i - 1) : t[k] \notin Modes
              /\ LastMode(t, i) = Pop
           \/ \E k \in 1..(i - 1) :
                 /\ t[k] \in Modes /\ LastMode(t, i) = t[k]
                 /\ \A j \in (k + 1)..(i - 1) : t[j] \notin Modes
<1> DEFINE B == {k \in 1..(i - 1) : t[k] \in Modes}
<1>1. LastMode(t, i) = IF B = {} THEN Pop ELSE t[Max(B)]
  BY DEF LastMode
<1>2. CASE B = {}
  <2>1. \A k \in 1..(i - 1) : t[k] \notin Modes
    BY <1>2
  <2> QED
    BY <1>1, <1>2, <2>1
<1>3. CASE B # {}
  <2>1. i - 1 \in Nat /\ B \in SUBSET (1..(i - 1))
    OBVIOUS
  <2>2. Max(B) \in B /\ \A k \in B : k <= Max(B)
    <3> HIDE DEF B
    <3> QED
      BY <1>3, <2>1, MaxIs
  <2>3. Max(B) \in 1..(i - 1) /\ t[Max(B)] \in Modes
    BY <2>2
  <2>4. \A j \in (Max(B) + 1)..(i - 1) : t[j] \notin Modes
    <3>1. SUFFICES ASSUME NEW j \in (Max(B) + 1)..(i - 1), t[j] \in Modes
                   PROVE  FALSE
      OBVIOUS
    <3>2. j \in 1..(i - 1)
      BY <2>3, <3>1
    <3>3. j \in B
      BY <3>1, <3>2
    <3> HIDE DEF B
    <3> QED
      BY <2>2, <2>3, <3>1, <3>3
  <2> HIDE DEF B
  <2> QED
    BY <1>1, <1>3, <2>3, <2>4
<1> QED
  BY <1>2, <1>3

LEMMA LastModeFirst ==
    ASSUME NEW t
    PROVE  LastMode(t, 1) = Pop
<1>1. {k \in 1..(1 - 1) : t[k] \in Modes} = {}
  OBVIOUS
<1> QED
  BY <1>1 DEF LastMode

LEMMA LastModeStep ==
    ASSUME NEW t, NEW i \in Nat \ {0}
    PROVE  LastMode(t, i + 1) = IF t[i] \in Modes THEN t[i] ELSE LastMode(t, i)
<1> DEFINE B == {k \in 1..(i - 1) : t[k] \in Modes}
           C == {k \in 1..((i + 1) - 1) : t[k] \in Modes}
<1>1. CASE t[i] \in Modes
  <2>1. i \in C /\ C \in SUBSET (1..i)
    BY <1>1
  <2>2. Max(C) \in C /\ \A k \in C : k <= Max(C)
    <3> HIDE DEF C
    <3> QED
      BY <2>1, MaxIs
  <2>3. Max(C) = i
    <3>1. Max(C) \in 1..i /\ i <= Max(C)
      BY <2>1, <2>2
    <3> QED
      BY <3>1
  <2>4. LastMode(t, i + 1) = IF C = {} THEN Pop ELSE t[Max(C)]
    BY DEF LastMode
  <2> HIDE DEF C
  <2> QED
    BY <1>1, <2>1, <2>3, <2>4
<1>2. CASE t[i] \notin Modes
  <2>1. B = C
    <3>1. \A k \in 1..((i + 1) - 1) : k \in 1..(i - 1) \/ k = i
      OBVIOUS
    <3>2. \A k \in 1..(i - 1) : k \in 1..((i + 1) - 1)
      OBVIOUS
    <3> QED
      BY <1>2, <3>1, <3>2
  <2>2. /\ LastMode(t, i) = IF B = {} THEN Pop ELSE t[Max(B)]
        /\ LastMode(t, i + 1) = IF C = {} THEN Pop ELSE t[Max(C)]
    BY DEF LastMode
  <2> HIDE DEF B, C
  <2> QED
    BY <1>2, <2>1, <2>2
<1> QED
  BY <1>1, <1>2

LEMMA LastModeSame ==
    ASSUME NEW t, NEW u, NEW i \in Nat \ {0}, \A k \in 1..(i - 1) : t[k] = u[k]
    PROVE  LastMode(t, i) = LastMode(u, i)
<1> DEFINE S == {j \in Nat : j + 1 <= i => LastMode(t, j + 1) = LastMode(u, j + 1)}
<1>1. 0 \in S
  <2>1. LastMode(t, 0 + 1) = LastMode(u, 0 + 1)
    BY LastModeFirst
  <2> QED
    BY <2>1
<1>2. ASSUME NEW j \in S PROVE j + 1 \in S
  <2>1. SUFFICES ASSUME (j + 1) + 1 <= i
                 PROVE  LastMode(t, (j + 1) + 1) = LastMode(u, (j + 1) + 1)
    OBVIOUS
  <2>2. j + 1 \in 1..(i - 1) /\ j + 1 \in Nat \ {0} /\ j + 1 <= i
    BY <2>1
  <2>3. t[j + 1] = u[j + 1] /\ LastMode(t, j + 1) = LastMode(u, j + 1)
    BY <2>2
  <2>4. /\ LastMode(t, (j + 1) + 1)
              = IF t[j + 1] \in Modes THEN t[j + 1] ELSE LastMode(t, j + 1)
        /\ LastMode(u, (j + 1) + 1)
              = IF u[j + 1] \in Modes THEN u[j + 1] ELSE LastMode(u, j + 1)
    BY <2>2, LastModeStep
  <2> QED
    BY <2>3, <2>4
<1>3. S = Nat
  <2> HIDE DEF S
  <2>1. S \in SUBSET Nat
    BY DEF S
  <2> QED
    BY <1>1, <1>2, <2>1, Induct
<1>4. i - 1 \in Nat /\ (i - 1) + 1 = i
  OBVIOUS
<1>5. i - 1 \in S
  <2> HIDE DEF S
  <2> QED
    BY <1>3, <1>4
<1> QED
  BY <1>4, <1>5

LEMMA LastModeType ==
    ASSUME NEW t, NEW i \in Nat \ {0}
    PROVE  LastMode(t, i) \in Modes
<1>1. Pop \in Modes
  BY DEF Modes
<1> QED
  BY <1>1, LastModeIs

-----------------------------------------------------------------------------
\* Texts that are put together.
LEMMA EmptyEnds == Ends(<<>>, Pop)
<1>1. LastMode(<<>>, Len(<<>>) + 1) = Pop
  <2>1. Len(<<>>) + 1 = 1
    OBVIOUS
  <2> QED
    BY <2>1, LastModeFirst
<1> QED
  BY <1>1 DEF Ends, Alternates

LEMMA ElementsAre ==
    /\ \A c \in Elements : c \notin Modes /\ c \in Cells
    /\ \A c \in Cells : c \in Elements \/ c \in Modes
    /\ Push \in Modes /\ Pop \in Modes /\ Push # Pop /\ Modes \subseteq Cells
    /\ \A c \in Modes : c = Push \/ c = Pop
BY MacrosAssumption DEF Cells, Modes

\* The first n of a text.
LEMMA PrefixEnds ==
    ASSUME NEW E, NEW t \in Seq(E), Alternates(t), NEW n \in 0..Len(t)
    PROVE  Ends(SubSeq(t, 1, n), LastMode(t, n + 1))
<1> DEFINE u == SubSeq(t, 1, n)
<1>1. Len(t) \in Nat /\ DOMAIN t = 1..Len(t)
  OBVIOUS
<1>2. Len(u) = n /\ DOMAIN u = 1..n /\ \A k \in 1..n : u[k] = t[k]
  OBVIOUS
<1> HIDE DEF u
<1>3. ASSUME NEW i \in 1..(n + 1) PROVE LastMode(u, i) = LastMode(t, i)
  <2>1. i \in Nat \ {0} /\ \A k \in 1..(i - 1) : k \in 1..n
    BY <1>1
  <2> QED
    BY <1>2, <2>1, LastModeSame
<1>4. n + 1 \in 1..(n + 1) /\ \A i \in 1..n : i \in 1..(n + 1) /\ i \in 1..Len(t)
  BY <1>1
<1>5. Alternates(u)
  BY <1>1, <1>2, <1>3, <1>4, Zenon DEF Alternates
<1> QED
  BY <1>2, <1>3, <1>4, <1>5 DEF Ends, u

LEMMA StepEnds ==
    ASSUME NEW t \in Seq(Cells), NEW m, Ends(t, m), NEW c \in Cells,
           c \in Modes => c # m
    PROVE  Ends(Append(t, c), IF c \in Modes THEN c ELSE m)
<1> DEFINE u == Append(t, c)
           n == Len(t)
<1>1. n \in Nat /\ DOMAIN t = 1..n
  OBVIOUS
<1>2. /\ Len(u) = n + 1 /\ DOMAIN u = 1..(n + 1) /\ u[n + 1] = c
      /\ \A k \in 1..n : u[k] = t[k]
  OBVIOUS
<1> HIDE DEF u, n
<1>3. ASSUME NEW i \in 1..(n + 1) PROVE LastMode(u, i) = LastMode(t, i)
  <2>1. i \in Nat \ {0} /\ \A k \in 1..(i - 1) : k \in 1..n
    BY <1>1
  <2> QED
    BY <1>2, <2>1, LastModeSame
<1>4. n + 1 \in 1..(n + 1) /\ n + 1 \in Nat \ {0}
      /\ \A i \in 1..(n + 1) : i \in 1..n \/ i = n + 1
  BY <1>1
<1>5. LastMode(t, n + 1) = m
  BY DEF Ends, n
<1>6. LastMode(u, (n + 1) + 1) = IF c \in Modes THEN c ELSE m
  <2>1. LastMode(u, (n + 1) + 1)
           = IF u[n + 1] \in Modes THEN u[n + 1] ELSE LastMode(u, n + 1)
    BY <1>4, LastModeStep
  <2> QED
    BY <1>2, <1>3, <1>4, <1>5, <2>1
<1>7. Alternates(u)
  <2>1. ASSUME NEW i \in 1..(n + 1), u[i] \in Modes
        PROVE  u[i] # LastMode(u, i)
    <3>1. CASE i = n + 1
      BY <1>2, <1>3, <1>5, <2>1, <3>1
    <3>2. CASE i \in 1..n
      <4>1. t[i] \in Modes => t[i] # LastMode(t, i)
        BY <1>1, <3>2 DEF Ends, Alternates
      <4> QED
        BY <1>2, <1>3, <2>1, <3>2, <4>1
    <3> QED
      BY <1>4, <3>1, <3>2
  <2> QED
    BY <1>2, <2>1 DEF Alternates
<1> QED
  BY <1>2, <1>6, <1>7 DEF Ends, u

LEMMA ElementEnds ==
    ASSUME NEW t \in Seq(Cells), NEW m, Ends(t, m), NEW c \in Elements
    PROVE  Ends(Append(t, c), m)
<1>1. c \in Cells /\ c \notin Modes
  BY ElementsAre
<1>2. Ends(Append(t, c), IF c \in Modes THEN c ELSE m)
  BY <1>1, StepEnds
<1> QED
  BY <1>1, <1>2

\* A text with the modes of another one.
LEMMA MapEnds ==
    ASSUME NEW E, NEW F, NEW t \in Seq(E), NEW u \in Seq(F), Len(u) = Len(t),
           NEW m, Ends(t, m),
           \A i \in 1..Len(t) :
              IF t[i] \in Modes THEN u[i] = t[i] ELSE u[i] \notin Modes
    PROVE  Ends(u, m)
<1> DEFINE n == Len(t)
<1>1. n \in Nat /\ DOMAIN t = 1..n /\ DOMAIN u = 1..n
  OBVIOUS
<1> HIDE DEF n
<1> DEFINE S == {j \in Nat : j <= n => LastMode(u, j + 1) = LastMode(t, j + 1)}
<1>2. 0 \in S
  <2>1. LastMode(t, 0 + 1) = LastMode(u, 0 + 1)
    BY LastModeFirst
  <2> QED
    BY <2>1
<1>3. ASSUME NEW j \in S PROVE j + 1 \in S
  <2>1. SUFFICES ASSUME j + 1 <= n
                 PROVE  LastMode(u, (j + 1) + 1) = LastMode(t, (j + 1) + 1)
    OBVIOUS
  <2>2. j + 1 \in 1..n /\ j + 1 \in Nat \ {0} /\ j <= n
    BY <1>1, <2>1
  <2>3. IF t[j + 1] \in Modes THEN u[j + 1] = t[j + 1] ELSE u[j + 1] \notin Modes
    BY <2>2 DEF n
  <2>4. LastMode(u, j + 1) = LastMode(t, j + 1)
    BY <2>2
  <2>5. /\ LastMode(t, (j + 1) + 1)
              = IF t[j + 1] \in Modes THEN t[j + 1] ELSE LastMode(t, j + 1)
        /\ LastMode(u, (j + 1) + 1)
              = IF u[j + 1] \in Modes THEN u[j + 1] ELSE LastMode(u, j + 1)
    BY <2>2, LastModeStep
  <2> QED
    BY <2>3, <2>4, <2>5
<1>4. S = Nat
  <2> HIDE DEF S
  <2>1. S \in SUBSET Nat
    BY DEF S
  <2> QED
    BY <1>2, <1>3, <2>1, Induct
<1>5. \A j \in 0..n : LastMode(u, j + 1) = LastMode(t, j + 1)
  <2>1. ASSUME NEW j \in 0..n PROVE j \in S /\ j <= n
    <3> HIDE DEF S
    <3> QED
      BY <1>1, <1>4
  <2> QED
    BY <2>1
<1> HIDE DEF S
<1>6. \A i \in 1..n : i - 1 \in 0..n /\ (i - 1) + 1 = i
  BY <1>1
<1>7. \A i \in 1..n : LastMode(u, i) = LastMode(t, i)
  BY <1>5, <1>6
<1>8. Alternates(u)
  BY <1>1, <1>7 DEF Ends, Alternates, n
<1>9. LastMode(u, n + 1) = LastMode(t, n + 1)
  BY <1>1, <1>5
<1> QED
  BY <1>8, <1>9 DEF Ends, n

\* What Selected selects.
LEMMA SelectedIn ==
    ASSUME NEW E, NEW t \in Seq(E), NEW S
    PROVE  Selected(t, S) \in Seq({e \in E : e \in S})
<1> DEFINE n == Len(t)
           c == ChosenOfFirst(t, S)
           F == {e \in E : e \in S}
           P(i) == c[i] \in Seq(F)
           T == {i \in Nat : i <= n => P(i)}
<1>1. n \in Nat /\ \A i \in 1..n : t[i] \in E
  OBVIOUS
<1>2. /\ c[0] = <<>>
      /\ \A i \in 1..n : c[i] = IF t[i] \in S THEN Append(c[i - 1], t[i])
                                ELSE c[i - 1]
  BY ChosenSteps
<1> HIDE DEF n, c
<1>3. 0 \in T
  <2>1. P(0)
    <3> HIDE DEF F
    <3> QED
      BY <1>2
  <2> HIDE DEF P
  <2> QED
    BY <2>1
<1>4. ASSUME NEW i \in T PROVE i + 1 \in T
  <2>0. i \in Nat /\ i + 1 \in Nat
    OBVIOUS
  <2>1. SUFFICES ASSUME i + 1 <= n PROVE P(i + 1)
    BY <2>0, Zenon
  <2>2. i + 1 \in 1..n /\ (i + 1) - 1 = i /\ c[i] \in Seq(F)
    BY <1>1, <2>1
  <2>3. c[i + 1] = IF t[i + 1] \in S THEN Append(c[i], t[i + 1]) ELSE c[i]
    BY <1>2, <2>2
  <2>4. t[i + 1] \in S => t[i + 1] \in F
    BY <1>1, <2>2
  <2> HIDE DEF F
  <2> QED
    BY <2>2, <2>3, <2>4
<1>5. T = Nat
  <2> HIDE DEF T
  <2>1. T \in SUBSET Nat
    BY DEF T
  <2> QED
    BY <1>3, <1>4, <2>1, Induct
<1>6. n \in T
  <2> HIDE DEF T
  <2> QED
    BY <1>1, <1>5
<1>7. P(n)
  BY <1>1, <1>6
<1> QED
  BY <1>7 DEF Selected, c, n

LEMMA SelectedEnds ==
    ASSUME NEW t \in Seq(Cells), NEW m, Ends(t, m), NEW S, Modes \subseteq S
    PROVE  Ends(Selected(t, S), m)
<1> DEFINE n == Len(t)
           c == ChosenOfFirst(t, S)
           P(i) == c[i] \in Seq(Cells) /\ Ends(c[i], LastMode(t, i + 1))
           T == {i \in Nat : i <= n => P(i)}
<1>1. n \in Nat /\ DOMAIN t = 1..n /\ \A i \in 1..n : t[i] \in Cells
  OBVIOUS
<1>2. /\ c[0] = <<>>
      /\ \A i \in 1..n : c[i] = IF t[i] \in S THEN Append(c[i - 1], t[i])
                                ELSE c[i - 1]
  BY ChosenSteps
<1> HIDE DEF n, c
<1>3. 0 \in T
  <2>1. 0 + 1 = 1
    OBVIOUS
  <2>2. P(0)
    BY <1>2, <2>1, EmptyEnds, LastModeFirst
  <2> QED
    BY <2>2
<1>4. ASSUME NEW i \in T PROVE i + 1 \in T
  <2>0. i \in Nat /\ i + 1 \in Nat
    OBVIOUS
  <2>1. SUFFICES ASSUME i + 1 <= n PROVE P(i + 1)
    BY <2>0, Zenon
  <2>2. i + 1 \in 1..n /\ (i + 1) - 1 = i /\ i + 1 \in Nat \ {0} /\ P(i)
    BY <1>1, <2>1
  <2> DEFINE k == LastMode(t, i + 1)
             e == t[i + 1]
  <2>3. c[i + 1] = IF e \in S THEN Append(c[i], e) ELSE c[i]
    BY <1>2, <2>2
  <2>4. e \in Cells /\ (e \in Modes => e # k)
    BY <1>1, <2>2 DEF Ends, Alternates
  <2>5. LastMode(t, (i + 1) + 1) = IF e \in Modes THEN e ELSE k
    BY <2>2, LastModeStep
  <2>6. c[i] \in Seq(Cells) /\ Ends(c[i], k)
    BY <2>2
  <2> HIDE DEF k, e
  <2>7. CASE e \in S
    <3>1. Ends(Append(c[i], e), IF e \in Modes THEN e ELSE k)
      BY <2>4, <2>6, StepEnds
    <3>2. Append(c[i], e) \in Seq(Cells)
      BY <2>4, <2>6
    <3> QED
      BY <2>3, <2>5, <2>7, <3>1, <3>2
  <2>8. CASE e \notin S
    <3>1. e \notin Modes
      BY <2>8
    <3> QED
      BY <2>3, <2>5, <2>6, <2>8, <3>1
  <2> QED
    BY <2>7, <2>8
<1>5. T = Nat
  <2> HIDE DEF T
  <2>1. T \in SUBSET Nat
    BY DEF T
  <2> QED
    BY <1>3, <1>4, <2>1, Induct
<1>6. n \in T
  <2> HIDE DEF T
  <2> QED
    BY <1>1, <1>5
<1>7. P(n)
  BY <1>1, <1>6
<1> QED
  BY <1>7 DEF Selected, c, n, Ends

\* Elements do not change the mode.
LEMMA AppendedIs ==
    ASSUME NEW E, NEW u \in Seq(E), NEW w \in Seq(E), NEW k \in Nat,
           k + 1 <= Len(w)
    PROVE  u \o SubSeq(w, 1, k + 1) = Append(u \o SubSeq(w, 1, k), w[k + 1])
<1>1. Len(u) \in Nat /\ Len(w) \in Nat
  OBVIOUS
<1>2. /\ Len(SubSeq(w, 1, k)) = k /\ Len(SubSeq(w, 1, k + 1)) = k + 1
      /\ SubSeq(w, 1, k) \in Seq(E) /\ SubSeq(w, 1, k + 1) \in Seq(E)
      /\ \A i \in 1..k : SubSeq(w, 1, k)[i] = w[i]
      /\ \A i \in 1..(k + 1) : SubSeq(w, 1, k + 1)[i] = w[i]
  BY <1>1
<1> DEFINE a == SubSeq(w, 1, k)
           b == SubSeq(w, 1, k + 1)
<1> HIDE DEF a, b
<1>3. SubSeq(w, 1, k + 1) = Append(a, w[k + 1])
  BY <1>1, <1>2, SMTT(30) DEF a
<1>4. w[k + 1] \in E /\ a \in Seq(E)
  BY <1>2 DEF a
<1>5. u \o Append(a, w[k + 1]) = Append(u \o a, w[k + 1])
  BY <1>4, SMTT(30)
<1> QED
  BY <1>3, <1>5 DEF a

LEMMA JoinEnds ==
    ASSUME NEW u \in Seq(Cells), NEW m, Ends(u, m), NEW w \in Seq(Elements)
    PROVE  Ends(u \o w, m)
<1> DEFINE n == Len(w)
           P(k) == Ends(u \o SubSeq(w, 1, k), m)
           T == {k \in Nat : k <= n => P(k)}
<1>1. n \in Nat /\ w \in Seq(Cells) /\ \A i \in 1..n : w[i] \in Elements
  BY ElementsAre DEF Cells
<1>2. u \o SubSeq(w, 1, 0) = u /\ u \o SubSeq(w, 1, n) = u \o w
  OBVIOUS
<1>3. \A k \in Nat : k <= n => u \o SubSeq(w, 1, k) \in Seq(Cells)
  BY <1>1
<1>4. 0 \in T
  BY <1>2
<1>5. ASSUME NEW k \in T PROVE k + 1 \in T
  <2>0. k \in Nat /\ k + 1 \in Nat
    OBVIOUS
  <2>1. SUFFICES ASSUME k + 1 <= n PROVE P(k + 1)
    BY <2>0, Zenon
  <2>2. k + 1 \in 1..n /\ k <= n /\ k \in Nat
    BY <1>1, <2>1
  <2>3. P(k)
    BY <2>2
  <2>4. u \o SubSeq(w, 1, k + 1) = Append(u \o SubSeq(w, 1, k), w[k + 1])
    BY <1>1, <2>1, <2>2, AppendedIs
  <2>5. Ends(Append(u \o SubSeq(w, 1, k), w[k + 1]), m)
    <3>1. w[k + 1] \in Elements /\ u \o SubSeq(w, 1, k) \in Seq(Cells)
      BY <1>1, <1>3, <2>2
    <3> HIDE DEF n
    <3> QED
      BY <2>3, <3>1, ElementEnds
  <2> QED
    BY <2>4, <2>5, Zenon
<1>6. T = Nat
  <2> HIDE DEF T
  <2>1. T \in SUBSET Nat
    BY DEF T
  <2> QED
    BY <1>4, <1>5, <2>1, Induct
<1>7. n \in T
  <2> HIDE DEF T
  <2> QED
    BY <1>1, <1>6
<1>8. P(n)
  BY <1>1, <1>7
<1> QED
  BY <1>2, <1>8, Zenon

LEMMA PlainEnds ==
    ASSUME NEW w \in Seq(Elements)
    PROVE  Ends(w, Pop)
<1>1. <<>> \in Seq(Cells) /\ <<>> \o w = w
  OBVIOUS
<1>2. Ends(<<>> \o w, Pop)
  BY <1>1, EmptyEnds, JoinEnds
<1> QED
  BY <1>1, <1>2, Zenon

LEMMA ElementOf ==
    ASSUME NEW E, NEW t \in Seq(E), NEW i \in 1..Len(t)
    PROVE  t[i] \in E
OBVIOUS

\* What FlattenSeq joins.
LEMMA FlattenIn ==
    ASSUME NEW E, NEW q \in Seq(Seq(E))
    PROVE  FlattenSeq(q) \in Seq(E)
<1>1. CASE q = <<>>
  <2>1. Len(<<>>) = 0
    OBVIOUS
  <2>2. FlattenSeq(q) = <<>>
    BY <1>1, <2>1, Zenon DEF FlattenSeq
  <2> QED
    BY <2>2
<1>2. CASE q # <<>>
  <2> DEFINE n == Len(q)
             f == Joins(q)
             P(i) == f[i + 1] \in Seq(E)
             T == {i \in Nat : i + 1 <= n => P(i)}
  <2>1. n \in Nat /\ n >= 1 /\ \A i \in 1..n : q[i] \in Seq(E)
    BY <1>2
  <2>2. f[1] = q[1] /\ \A i \in 2..n : f[i] = f[i - 1] \o q[i]
    BY <1>2, JoinsSteps
  <2> HIDE DEF f, n
  <2>3. 0 \in T
    <3>1. f[0 + 1] \in Seq(E)
      BY <2>1, <2>2
    <3> QED
      BY <3>1
  <2>4. ASSUME NEW i \in T PROVE i + 1 \in T
    <3>0. i \in Nat /\ i + 1 \in Nat
      OBVIOUS
    <3>1. SUFFICES ASSUME (i + 1) + 1 <= n PROVE P(i + 1)
      BY <3>0, Zenon
    <3>2. (i + 1) + 1 \in 2..n /\ ((i + 1) + 1) - 1 = i + 1 /\ P(i)
      BY <2>1, <3>1
    <3>3. f[(i + 1) + 1] = f[i + 1] \o q[(i + 1) + 1]
      BY <2>2, <3>2
    <3>4. q[(i + 1) + 1] \in Seq(E)
      BY <2>1, <3>2
    <3> QED
      BY <3>2, <3>3, <3>4
  <2>5. T = Nat
    <3> HIDE DEF T
    <3>1. T \in SUBSET Nat
      BY DEF T
    <3> QED
      BY <2>3, <2>4, <3>1, Induct
  <2>6. n - 1 \in Nat /\ (n - 1) + 1 = n
    BY <2>1
  <2>7. n - 1 \in T
    <3> HIDE DEF T
    <3> QED
      BY <2>5, <2>6
  <2>8. P(n - 1)
    BY <2>6, <2>7
  <2>9. f[n] \in Seq(E)
    BY <2>6, <2>8
  <2> QED
    BY <1>2, <2>9, FlattenIs DEF f, n
<1> QED
  BY <1>1, <1>2

\* w is what becomes of e: a mode token stays, an element becomes elements.
IsPiece(w, e) ==
    IF e \in Modes THEN w = <<e>> ELSE w \in Seq(Elements)

LEMMA PieceEnds ==
    ASSUME NEW u \in Seq(Cells), NEW k, Ends(u, k), NEW e \in Cells,
           e \in Modes => e # k, NEW w, IsPiece(w, e)
    PROVE  /\ u \o w \in Seq(Cells)
           /\ Ends(u \o w, IF e \in Modes THEN e ELSE k)
<1>1. CASE e \in Modes
  <2>1. w = <<e>>
    BY <1>1 DEF IsPiece
  <2>2. u \o <<e>> = Append(u, e) /\ Append(u, e) \in Seq(Cells)
    OBVIOUS
  <2> QED
    BY <2>1, <2>2, StepEnds
<1>2. CASE e \notin Modes
  <2>1. w \in Seq(Elements) /\ w \in Seq(Cells)
    BY <1>2 DEF IsPiece, Cells
  <2>2. u \o w \in Seq(Cells)
    BY <2>1
  <2>3. Ends(u \o w, k)
    BY <2>1, JoinEnds
  <2> QED
    BY <1>2, <2>2, <2>3
<1> QED
  BY <1>1, <1>2

LEMMA FlattenEnds ==
    ASSUME NEW t \in Seq(Cells), NEW m, Ends(t, m), NEW q \in Seq(Seq(Cells)),
           Len(q) = Len(t), \A i \in 1..Len(t) : IsPiece(q[i], t[i])
    PROVE  Ends(FlattenSeq(q), m)
<1> DEFINE n == Len(t)
<1>1. n \in Nat /\ DOMAIN t = 1..n /\ \A i \in 1..n : t[i] \in Cells
  OBVIOUS
<1>2. LastMode(t, n + 1) = m /\ \A i \in 1..n : t[i] \in Modes => t[i] # LastMode(t, i)
  BY <1>1 DEF Ends, Alternates
<1>3. CASE n = 0
  <2>1. q = <<>> /\ t = <<>>
    BY <1>3
  <2>2. m = Pop
    BY <2>1, EmptyEnds DEF Ends
  <2> QED
    BY <2>1, <2>2, FlattenIs, EmptyEnds
<1>4. CASE n # 0
  <2> DEFINE f == Joins(q)
             K(i) == LastMode(t, (i + 1) + 1)
             P(i) == f[i + 1] \in Seq(Cells) /\ Ends(f[i + 1], K(i))
             T == {i \in Nat : i + 1 <= n => P(i)}
  <2>1. q # <<>> /\ Len(q) = n
    BY <1>4
  <2>2. f[1] = q[1] /\ \A i \in 2..n : f[i] = f[i - 1] \o q[i]
    BY <2>1, JoinsSteps
  <2>3. \A i \in 1..n : IsPiece(q[i], t[i])
    OBVIOUS
  <2>4. \A i \in Nat : LastMode(t, (i + 1) + 1)
             = IF t[i + 1] \in Modes THEN t[i + 1] ELSE LastMode(t, i + 1)
    <3>1. \A i \in Nat : i + 1 \in Nat \ {0}
      OBVIOUS
    <3> QED
      BY <3>1, LastModeStep, Zenon
  <2> HIDE DEF f, n
  <2>5. 0 \in T
    <3>1. 0 + 1 = 1 /\ 1 \in 1..n
      BY <1>1, <1>4
    <3>2. /\ t[1] \in Cells /\ (t[1] \in Modes => t[1] # Pop)
          /\ IsPiece(q[1], t[1])
          /\ K(0) = IF t[1] \in Modes THEN t[1] ELSE Pop
      BY <1>1, <1>2, <2>3, <2>4, <3>1, LastModeFirst
    <3>3. <<>> \in Seq(Cells) /\ q[1] \in Seq(Cells) /\ <<>> \o q[1] = q[1]
      <4>1. q[1] \in Seq(Cells)
        BY <2>1, <3>1, ElementOf
      <4>2. \A w \in Seq(Cells) : <<>> \o w = w
        OBVIOUS
      <4> QED
        BY <4>1, <4>2
    <3>4. Ends(<<>> \o q[1], IF t[1] \in Modes THEN t[1] ELSE Pop)
      BY <3>2, <3>3, EmptyEnds, PieceEnds
    <3>5. P(0)
      BY <2>2, <3>1, <3>2, <3>3, <3>4
    <3> QED
      BY <3>5
  <2>6. ASSUME NEW i \in T PROVE i + 1 \in T
    <3>0. i \in Nat /\ i + 1 \in Nat
      OBVIOUS
    <3>1. SUFFICES ASSUME (i + 1) + 1 <= n PROVE P(i + 1)
      BY <3>0, Zenon
    <3> DEFINE j == (i + 1) + 1
    <3>2. j \in 2..n /\ j \in 1..n /\ j - 1 = i + 1 /\ P(i)
      BY <1>1, <3>1
    <3>3. f[j] = f[i + 1] \o q[j]
      BY <2>2, <3>2
    <3>4. /\ t[j] \in Cells /\ IsPiece(q[j], t[j])
          /\ t[j] \in Modes => t[j] # LastMode(t, j)
          /\ LastMode(t, j + 1) = IF t[j] \in Modes THEN t[j] ELSE LastMode(t, j)
      BY <1>1, <1>2, <2>3, <2>4, <3>0, <3>2
    <3>5. f[i + 1] \in Seq(Cells) /\ Ends(f[i + 1], LastMode(t, j))
      BY <3>2
    <3> HIDE DEF j
    <3>6. /\ f[i + 1] \o q[j] \in Seq(Cells)
          /\ Ends(f[i + 1] \o q[j], IF t[j] \in Modes THEN t[j] ELSE LastMode(t, j))
      BY <3>4, <3>5, PieceEnds
    <3>7. f[j] \in Seq(Cells) /\ Ends(f[j], LastMode(t, j + 1))
      BY <3>3, <3>4, <3>6
    <3> QED
      BY <3>7 DEF j
  <2>7. T = Nat
    <3> HIDE DEF T
    <3>1. T \in SUBSET Nat
      BY DEF T
    <3> QED
      BY <2>5, <2>6, <3>1, Induct
  <2>8. n - 1 \in Nat /\ (n - 1) + 1 = n
    BY <1>1, <1>4
  <2>9. n - 1 \in T
    <3> HIDE DEF T
    <3> QED
      BY <2>7, <2>8
  <2>10. P(n - 1)
    BY <2>8, <2>9
  <2>11. Ends(f[n], m)
    BY <1>2, <2>8, <2>10
  <2> QED
    BY <2>1, <2>11, FlattenIs DEF f, n
<1> QED
  BY <1>3, <1>4

-----------------------------------------------------------------------------
\* What is left without the pairs of mode tokens at the end.
IsPair(t, i) == t[i] = Push /\ t[i + 1] = Pop

\* The text after the first n is pairs.
PairsAfter(t, n) ==
    /\ (Len(t) - n) % 2 = 0
    /\ \A i \in (n + 1)..Len(t) : (i - n) % 2 = 1 => IsPair(t, i)

LEMMA UnpairedIs ==
    ASSUME NEW E, NEW t \in Seq(E)
    PROVE  /\ Unpaired(t) \in 0..Len(t)
           /\ PairsAfter(t, Unpaired(t))
           /\ Unpaired(t) > 1 => ~IsPair(t, Unpaired(t) - 1)
<1> DEFINE l == Len(t)
           B == {n \in 0..l : PairsAfter(t, n)}
           Is(n) == PairsAfter(t, n) /\ (n > 1 => ~IsPair(t, n - 1))
<1>1. l \in Nat
  OBVIOUS
<1>2. l \in B
  BY <1>1 DEF PairsAfter
<1>3. PICK n \in B : \A k \in B : n <= k
  <2>1. B \in SUBSET Nat /\ B # {}
    BY <1>1, <1>2
  <2> HIDE DEF B
  <2> QED
    BY <2>1, Least
<1>4. n \in 0..l /\ PairsAfter(t, n)
  OBVIOUS
<1>5. n > 1 => ~IsPair(t, n - 1)
  <2>1. SUFFICES ASSUME n > 1, IsPair(t, n - 1) PROVE FALSE
    OBVIOUS
  <2>2. n - 2 \in 0..l /\ n \in Nat
    BY <1>1, <1>4, <2>1
  <2>3. (l - (n - 2)) % 2 = 0
    <3>1. (l - n) % 2 = 0
      BY <1>4 DEF PairsAfter
    <3> HIDE DEF l
    <3> QED
      BY <1>1, <2>2, <3>1
  <2>4. ASSUME NEW i \in ((n - 2) + 1)..l, (i - (n - 2)) % 2 = 1
        PROVE  IsPair(t, i)
    <3>1. i = n - 1 \/ i = n \/ i \in (n + 1)..l
      BY <1>1, <2>2, <2>4
    <3>2. i # n
      BY <2>2, <2>4
    <3>3. ASSUME i \in (n + 1)..l PROVE IsPair(t, i)
      <4>1. (i - n) % 2 = 1
        BY <1>1, <2>2, <2>4, <3>3
      <4> QED
        BY <1>4, <3>3, <4>1 DEF PairsAfter
    <3> QED
      BY <2>1, <3>1, <3>2, <3>3
  <2>5. PairsAfter(t, n - 2)
    BY <2>3, <2>4 DEF PairsAfter
  <2>6. n - 2 \in B
    BY <2>2, <2>5
  <2>7. n <= n - 2
    BY <1>3, <2>6
  <2> QED
    BY <2>2, <2>7
<1>6. Is(n)
  BY <1>4, <1>5
<1>7. Unpaired(t) = CHOOSE k \in 0..l : Is(k)
  BY DEF Unpaired, PairsAfter, IsPair
<1> HIDE DEF Is, l
<1>8. Unpaired(t) \in 0..l /\ Is(Unpaired(t))
  BY <1>4, <1>6, <1>7
<1> QED
  BY <1>8 DEF Is, l

\* What is left where the last element goes.
Without(t, n) ==
    IF t[n] # Pop THEN SubSeq(t, 1, n - 1)
    ELSE Append(SubSeq(t, 1, n - 2), Pop)

\* The modes after the last element, in a balanced text.
LEMMA PairsAre ==
    ASSUME NEW t \in Seq(Cells), NEW n \in 0..Len(t), PairsAfter(t, n)
    PROVE  /\ \A i \in (n + 1)..Len(t) : t[i] \notin Elements
           /\ n < Len(t) => t[n + 1] = Push
<1>1. Push \notin Elements /\ Pop \notin Elements
  BY MacrosAssumption
<1>2. Len(t) \in Nat /\ n \in Nat
  OBVIOUS
<1>3. ASSUME NEW i \in (n + 1)..Len(t) PROVE t[i] \notin Elements
  <2>1. CASE (i - n) % 2 = 1
    BY <1>1, <2>1 DEF PairsAfter, IsPair
  <2>2. CASE (i - n) % 2 # 1
    <3>1. i - 1 \in (n + 1)..Len(t) /\ ((i - 1) - n) % 2 = 1 /\ (i - 1) + 1 = i
      BY <1>2, <2>2
    <3>2. t[(i - 1) + 1] = Pop
      BY <3>1 DEF PairsAfter, IsPair
    <3> QED
      BY <1>1, <3>1, <3>2
  <2> QED
    BY <2>1, <2>2
<1>4. ASSUME n < Len(t) PROVE t[n + 1] = Push
  <2>1. n + 1 \in (n + 1)..Len(t) /\ ((n + 1) - n) % 2 = 1
    BY <1>2, <1>4
  <2> QED
    BY <2>1 DEF PairsAfter, IsPair
<1> QED
  BY <1>3, <1>4

LEMMA LastElement ==
    ASSUME NEW t \in Seq(Cells), Ends(t, Pop), NEW n \in 1..Len(t),
           PairsAfter(t, n), n > 1 => ~IsPair(t, n - 1)
    PROVE  /\ LastMode(t, n + 1) = Pop
           /\ t[n] \in Elements \/ (n > 1 /\ t[n] = Pop /\ t[n - 1] \in Elements)
<1>1. /\ Len(t) \in Nat /\ n \in Nat \ {0} /\ DOMAIN t = 1..Len(t)
      /\ \A i \in 1..Len(t) : t[i] \in Cells
  OBVIOUS
<1>2. \A i \in 1..Len(t) : t[i] \in Modes => t[i] # LastMode(t, i)
  BY <1>1 DEF Ends, Alternates
<1>3. LastMode(t, Len(t) + 1) = Pop
  BY DEF Ends
<1>4. LastMode(t, n + 1) = Pop
  <2>1. CASE n = Len(t)
    BY <1>3, <2>1
  <2>2. CASE n # Len(t)
    <3>1. n < Len(t) /\ n + 1 \in 1..Len(t) /\ n + 1 \in Nat \ {0}
      <4>1. n \in 1..Len(t) /\ Len(t) \in Nat
        OBVIOUS
      <4>2. ASSUME NEW l \in Nat, n \in 1..l, n # l
            PROVE  n < l /\ n + 1 \in 1..l /\ n + 1 \in Nat \ {0}
        BY <4>2
      <4> QED
        BY <2>2, <4>1, <4>2
    <3>2. t[n + 1] = Push
      <4>1. n \in 0..Len(t)
        BY <1>1
      <4> QED
        BY <3>1, <4>1, PairsAre
    <3>3. LastMode(t, n + 1) \in Modes
      BY <3>1, LastModeType
    <3>4. LastMode(t, n + 1) # Push
      BY <1>2, <3>1, <3>2, ElementsAre, Zenon
    <3> QED
      BY <3>3, <3>4, ElementsAre, Zenon
  <2> QED
    BY <2>1, <2>2
<1>5. t[n] \in Cells /\ (t[n] \in Modes => t[n] # LastMode(t, n))
  BY <1>1, <1>2
<1>6. LastMode(t, n + 1) = IF t[n] \in Modes THEN t[n] ELSE LastMode(t, n)
  BY <1>1, LastModeStep
<1>7. CASE t[n] \in Elements
  BY <1>4, <1>7
<1>8. CASE t[n] \in Modes
  <2>1. t[n] = Pop /\ LastMode(t, n) # Pop
    BY <1>4, <1>5, <1>6, <1>8
  <2>2. n # 1
    BY <2>1, LastModeFirst
  <2>3. n - 1 \in 1..Len(t) /\ n - 1 \in Nat \ {0} /\ (n - 1) + 1 = n /\ n > 1
    BY <1>1, <2>2
  <2>4. t[n - 1] # Push
    BY <2>1, <2>3 DEF IsPair
  <2>5. t[n - 1] # Pop
    <3>1. LastMode(t, (n - 1) + 1)
             = IF t[n - 1] \in Modes THEN t[n - 1] ELSE LastMode(t, n - 1)
      BY <2>3, LastModeStep
    <3> QED
      BY <2>1, <2>3, <3>1, ElementsAre
  <2>6. t[n - 1] \in Elements
    BY <1>1, <2>3, <2>4, <2>5, ElementsAre
  <2> QED
    BY <1>4, <2>1, <2>3, <2>6
<1> QED
  BY <1>5, <1>7, <1>8, ElementsAre

\* Small facts about sequences.
LEMMA PrefixIs ==
    ASSUME NEW E, NEW t \in Seq(E), NEW n \in 0..Len(t)
    PROVE  /\ SubSeq(t, 1, n) \in Seq(E) /\ Len(SubSeq(t, 1, n)) = n
           /\ \A k \in 1..n : SubSeq(t, 1, n)[k] = t[k]
OBVIOUS

LEMMA AppendIs ==
    ASSUME NEW E, NEW t \in Seq(E), NEW c \in E
    PROVE  /\ Append(t, c) \in Seq(E) /\ Len(Append(t, c)) = Len(t) + 1
           /\ \A k \in 1..Len(t) : Append(t, c)[k] = t[k]
           /\ Append(t, c)[Len(t) + 1] = c
           /\ t \o <<c>> = Append(t, c) /\ t \o <<>> = t
OBVIOUS

LEMMA WithoutEnds ==
    ASSUME NEW t \in Seq(Cells), Ends(t, Pop), NEW n \in 1..Len(t),
           PairsAfter(t, n), n > 1 => ~IsPair(t, n - 1)
    PROVE  /\ Without(t, n) \in Seq(Cells) /\ Len(Without(t, n)) = n - 1
           /\ Ends(Without(t, n), Pop)
<1>1. Len(t) \in Nat /\ n \in Nat \ {0} /\ Alternates(t)
  BY DEF Ends
<1>2. LastMode(t, n + 1) = Pop
  BY LastElement
<1>3. LastMode(t, n + 1) = IF t[n] \in Modes THEN t[n] ELSE LastMode(t, n)
  BY <1>1, LastModeStep
<1>4. CASE t[n] \in Elements
  <2>1. t[n] # Pop /\ LastMode(t, n) = Pop
    BY <1>2, <1>3, <1>4, ElementsAre
  <2>2. n - 1 \in 0..Len(t) /\ (n - 1) + 1 = n
    BY <1>1
  <2>3. Ends(SubSeq(t, 1, n - 1), LastMode(t, (n - 1) + 1))
    BY <1>1, <2>2, PrefixEnds
  <2>4. SubSeq(t, 1, n - 1) \in Seq(Cells) /\ Len(SubSeq(t, 1, n - 1)) = n - 1
    BY <2>2, PrefixIs
  <2> QED
    BY <2>1, <2>2, <2>3, <2>4 DEF Without
<1>5. CASE t[n] = Pop /\ n > 1 /\ t[n - 1] \in Elements
  <2>1. n - 2 \in 0..Len(t) /\ (n - 2) + 1 = n - 1 /\ n - 1 \in Nat \ {0}
        /\ (n - 1) + 1 = n
    BY <1>1, <1>5
  <2>2. LastMode(t, n) # Pop
    <3>1. n \in DOMAIN t /\ t[n] \in Modes
      BY <1>1, <1>5, ElementsAre
    <3> QED
      BY <1>1, <1>5, <3>1 DEF Alternates
  <2>3. LastMode(t, n - 1) # Pop
    <3>1. LastMode(t, (n - 1) + 1)
             = IF t[n - 1] \in Modes THEN t[n - 1] ELSE LastMode(t, n - 1)
      BY <2>1, LastModeStep
    <3> QED
      BY <1>5, <2>1, <2>2, <3>1, ElementsAre
  <2> DEFINE u == SubSeq(t, 1, n - 2)
             m == LastMode(t, n - 1)
  <2>4. Ends(u, LastMode(t, (n - 2) + 1))
    BY <1>1, <2>1, PrefixEnds
  <2>5. u \in Seq(Cells) /\ Len(u) = n - 2
    BY <2>1, PrefixIs
  <2>6. Ends(u, m)
    BY <2>1, <2>4
  <2>7. Pop \in Cells /\ Pop \in Modes /\ Pop # m
    BY <2>3, ElementsAre
  <2>8. Without(t, n) = Append(u, Pop)
    BY <1>5 DEF Without
  <2> HIDE DEF u, m
  <2>9. Ends(Append(u, Pop), IF Pop \in Modes THEN Pop ELSE m)
    BY <2>5, <2>6, <2>7, StepEnds
  <2>10. Append(u, Pop) \in Seq(Cells) /\ Len(Append(u, Pop)) = (n - 2) + 1
    BY <2>5, <2>7, AppendIs
  <2> QED
    BY <2>1, <2>7, <2>8, <2>9, <2>10
<1> QED
  BY <1>4, <1>5, LastElement

\* It is what is promised.
LEMMA WithoutIsChopped ==
    ASSUME NEW t \in Seq(Cells), Ends(t, Pop), NEW n \in 1..Len(t),
           PairsAfter(t, n), n > 1 => ~IsPair(t, n - 1)
    PROVE  /\ Pool!Chopped(t) = Without(t, n)
           /\ \E k \in DOMAIN t : Pool!IsElement(t[k])
<1>1. Len(t) \in Nat /\ n \in Nat \ {0} /\ DOMAIN t = 1..Len(t)
  OBVIOUS
<1>2. \A c : Pool!IsElement(c) <=> c \in Elements
  BY DEF Pool!IsElement, Elements
<1> DEFINE Is(k) == /\ Pool!IsElement(t[k])
                    /\ \A j \in DOMAIN t : j > k => ~Pool!IsElement(t[j])
           i == CHOOSE k \in DOMAIN t : Is(k)
<1>3. Pool!Chopped(t) = SubSeq(t, 1, i - 1)
          \o (IF i < Len(t) /\ t[i + 1] = Pop THEN <<Pop>> ELSE <<>>)
  BY DEF Pool!Chopped
<1>4. ASSUME NEW k \in 1..Len(t), Is(k) PROVE i = k
  <2>1. \A j \in DOMAIN t : Is(j) => j = k
    <3>1. SUFFICES ASSUME NEW j \in 1..Len(t), Is(j) PROVE j = k
      BY <1>1
    <3>2. ~(j > k) /\ ~(k > j)
      BY <1>1, <1>4, <3>1
    <3> QED
      BY <3>2
  <2>2. k \in DOMAIN t
    BY <1>1
  <2> HIDE DEF Is
  <2> QED
    BY <1>4, <2>1, <2>2
<1> HIDE DEF i
<1>5. /\ \A j \in (n + 1)..Len(t) : t[j] \notin Elements
      /\ n < Len(t) => t[n + 1] = Push
  BY <1>1, PairsAre
<1>6. CASE t[n] \in Elements
  <2>1. \A j \in DOMAIN t : j > n => j \in (n + 1)..Len(t)
    BY <1>1
  <2>2. Is(n)
    BY <1>2, <1>5, <1>6, <2>1, Zenon
  <2>3. i = n
    BY <1>4, <2>2
  <2>4. t[n] # Pop /\ ~(n < Len(t) /\ t[n + 1] = Pop)
    BY <1>5, <1>6, ElementsAre
  <2>5. SubSeq(t, 1, n - 1) \o <<>> = SubSeq(t, 1, n - 1)
    <3>1. n - 1 \in 0..Len(t)
      BY <1>1
    <3>2. SubSeq(t, 1, n - 1) \in Seq(Cells)
      BY <3>1, PrefixIs
    <3> QED
      BY <3>2
  <2>6. Pool!Chopped(t) = SubSeq(t, 1, n - 1)
    BY <1>3, <2>3, <2>4, <2>5, Zenon
  <2>7. Without(t, n) = SubSeq(t, 1, n - 1)
    BY <2>4 DEF Without
  <2> QED
    BY <1>1, <1>2, <1>6, <2>6, <2>7
<1>7. CASE t[n] = Pop /\ n > 1 /\ t[n - 1] \in Elements
  <2>1. n - 1 \in 1..Len(t) /\ (n - 1) + 1 = n /\ n - 1 < Len(t)
        /\ (n - 1) - 1 = n - 2 /\ n - 2 \in 0..Len(t)
        /\ \A j \in 1..Len(t) : j > n - 1 => j \in (n + 1)..Len(t) \/ j = n
    BY <1>1, <1>7
  <2>2. Pop \notin Elements
    BY ElementsAre
  <2>3. Is(n - 1)
    BY <1>1, <1>2, <1>5, <1>7, <2>1, <2>2, Zenon
  <2>4. i = n - 1
    BY <1>4, <2>1, <2>3
  <2>5. Pool!Chopped(t) = SubSeq(t, 1, n - 2) \o <<Pop>>
    BY <1>3, <1>7, <2>1, <2>4, Zenon
  <2>6. SubSeq(t, 1, n - 2) \o <<Pop>> = Append(SubSeq(t, 1, n - 2), Pop)
    <3>1. SubSeq(t, 1, n - 2) \in Seq(Cells) /\ Pop \in Cells
      BY <2>1, PrefixIs, ElementsAre
    <3> QED
      BY <3>1, AppendIs
  <2>7. Without(t, n) = Append(SubSeq(t, 1, n - 2), Pop)
    BY <1>7 DEF Without
  <2> QED
    BY <1>1, <1>2, <1>7, <2>1, <2>5, <2>6, <2>7
<1> QED
  BY <1>6, <1>7, LastElement

-----------------------------------------------------------------------------
\* The texts of a store, and what the operations on macros do to them.

\* The texts of a store.
HeaderType == [count : Nat, cells : Seq(Cells)]
MacroType == [p : Headers \cup {NoHeader}, length : Nat, empty : BOOLEAN]
MemType == [Headers -> HeaderType]
MacType == [Places -> MacroType]

\* What the macro v takes for its part of a header is in the header.
Fits(m, v) == v.length <= IF v.p = NoHeader THEN 0 ELSE Len(m[v.p].cells)

TextAt(m, v) ==
    IF v.p = NoHeader THEN <<>> ELSE SubSeq(m[v.p].cells, 1, v.length)

Sound(s) ==
    /\ s.mem \in MemType /\ s.mac \in MacType
    /\ \A x \in Places : Fits(s.mem, s.mac[x])

\* In t, the text at x is u, and the others are those of s.
Alters(s, t, x, u) ==
    /\ Sound(t) /\ TextOf(t, x) = u
    /\ \A y \in Places \ {x} : TextOf(t, y) = TextOf(s, y)

LEMMA TextOfIs ==
    ASSUME NEW s, NEW x
    PROVE  TextOf(s, x) = TextAt(s.mem, s.mac[x])
BY DEF TextOf, TextAt

LEMMA CellsType ==
    ASSUME NEW m \in MemType, NEW h \in Headers
    PROVE  /\ m[h] \in HeaderType /\ m[h].cells \in Seq(Cells)
           /\ m[h].count \in Nat /\ Len(m[h].cells) \in Nat
<1>1. m[h] \in HeaderType
  BY DEF MemType
<1>2. \A r \in HeaderType : r.cells \in Seq(Cells) /\ r.count \in Nat
  BY DEF HeaderType
<1>3. m[h].cells \in Seq(Cells) /\ m[h].count \in Nat
  BY <1>1, <1>2, Zenon
<1>4. \A q \in Seq(Cells) : Len(q) \in Nat
  OBVIOUS
<1> QED
  BY <1>1, <1>3, <1>4, Zenon

LEMMA MacroTypeIs ==
    ASSUME NEW v \in MacroType
    PROVE  /\ v.p \in Headers \cup {NoHeader} /\ v.length \in Nat
           /\ v.empty \in BOOLEAN
BY DEF MacroType

LEMMA SliceIs ==
    ASSUME NEW E, NEW q \in Seq(E), NEW n \in Nat, n <= Len(q)
    PROVE  /\ SubSeq(q, 1, n) \in Seq(E) /\ Len(SubSeq(q, 1, n)) = n
           /\ \A k \in 1..n : SubSeq(q, 1, n)[k] = q[k]
OBVIOUS

LEMMA TextAtIs ==
    ASSUME NEW m \in MemType, NEW v \in MacroType, Fits(m, v)
    PROVE  /\ TextAt(m, v) \in Seq(Cells) /\ Len(TextAt(m, v)) = v.length
           /\ v.length > 0 => v.p \in Headers
           /\ \A k \in 1..v.length : TextAt(m, v)[k] = m[v.p].cells[k]
<1>1. v.p \in Headers \cup {NoHeader} /\ v.length \in Nat
  BY MacroTypeIs
<1>2. CASE v.p = NoHeader
  <2>1. v.length = 0
    BY <1>1, <1>2 DEF Fits
  <2>2. TextAt(m, v) = <<>>
    BY <1>2 DEF TextAt
  <2> QED
    BY <2>1, <2>2
<1>3. CASE v.p # NoHeader
  <2>1. v.p \in Headers
    BY <1>1, <1>3
  <2>2. m[v.p].cells \in Seq(Cells) /\ v.length <= Len(m[v.p].cells)
    BY <1>3, <2>1, CellsType DEF Fits
  <2>3. TextAt(m, v) = SubSeq(m[v.p].cells, 1, v.length)
    BY <1>3 DEF TextAt
  <2>4. /\ SubSeq(m[v.p].cells, 1, v.length) \in Seq(Cells)
        /\ Len(SubSeq(m[v.p].cells, 1, v.length)) = v.length
        /\ \A k \in 1..v.length :
              SubSeq(m[v.p].cells, 1, v.length)[k] = m[v.p].cells[k]
    BY <1>1, <2>2, SliceIs
  <2> QED
    BY <2>1, <2>3, <2>4, Zenon
<1> QED
  BY <1>2, <1>3

LEMMA TextType ==
    ASSUME NEW s, Sound(s), NEW x \in Places
    PROVE  /\ TextOf(s, x) \in Seq(Cells) /\ Len(TextOf(s, x)) = s.mac[x].length
           /\ s.mac[x].length > 0 => s.mac[x].p \in Headers
           /\ \A k \in 1..s.mac[x].length :
                 TextOf(s, x)[k] = s.mem[s.mac[x].p].cells[k]
           /\ s.mac[x].length \in Nat /\ s.mac[x] \in MacroType
<1>1. s.mem \in MemType /\ s.mac[x] \in MacroType /\ Fits(s.mem, s.mac[x])
  BY DEF Sound, MacType
<1>2. s.mac[x].length \in Nat
  BY <1>1, MacroTypeIs
<1> QED
  BY <1>1, <1>2, TextAtIs, TextOfIs

\* One macro changes, and the others keep their part.
LEMMA AltersIs ==
    ASSUME NEW s, Sound(s), NEW t, NEW x \in Places, NEW v \in MacroType,
           t.mac = [s.mac EXCEPT ![x] = v], t.mem \in MemType, Fits(t.mem, v),
           \A y \in Places \ {x} :
              /\ TextAt(t.mem, s.mac[y]) = TextAt(s.mem, s.mac[y])
              /\ Fits(t.mem, s.mac[y])
    PROVE  Alters(s, t, x, TextAt(t.mem, v))
<1>1. s.mac \in MacType
  BY DEF Sound
<1>2. t.mac \in MacType
  BY <1>1 DEF MacType
<1>3. t.mac[x] = v /\ \A y \in Places \ {x} : t.mac[y] = s.mac[y]
  BY <1>1 DEF MacType
<1>4. \A y \in Places : Fits(t.mem, t.mac[y])
  BY <1>3
<1>5. \A y \in Places \ {x} : TextOf(t, y) = TextOf(s, y)
  BY <1>3, TextOfIs
<1>6. TextOf(t, x) = TextAt(t.mem, v)
  BY <1>3, TextOfIs
<1> QED
  BY <1>2, <1>4, <1>5, <1>6 DEF Alters, Sound

-----------------------------------------------------------------------------
\* A header that two macros point to is counted twice.
LEMMA PointedTo ==
    ASSUME NEW m, NEW c, MemoryInv(m, c), NEW x \in Places, c[x].p \in Headers
    PROVE  m[c[x].p].count \in Nat /\ m[c[x].p].count > 0
<1> DEFINE d == [c EXCEPT ![x] = NoMacro]
           h == c[x].p
<1>1. IsMac(c) /\ Counted(m, c)
  BY DEF MemoryInv
<1>2. Cardinality(Pointers(c, h)) \in Nat /\ Cardinality(Pointers(c, h)) > 0
  <2>1. d = [c EXCEPT ![x] = NoMacro]
    OBVIOUS
  <2> HIDE DEF d
  <2> QED
    BY <1>1, <2>1, Repoint, ZenonT(30)
<1> QED
  BY <1>1, <1>2 DEF Counted

LEMMA PointedTwice ==
    ASSUME NEW m, NEW c, MemoryInv(m, c), NEW x \in Places, NEW y \in Places,
           x # y, c[x].p \in Headers, c[y].p = c[x].p
    PROVE  m[c[x].p].count \in Nat /\ m[c[x].p].count > 1
<1> DEFINE h == c[x].p
           T == Pointers(c, h)
<1>1. Cardinality(T) = m[h].count
  BY DEF MemoryInv, Counted
<1>2. IsFiniteSet(T) /\ {x, y} \in SUBSET T
  <2>1. T \in SUBSET Places
    BY DEF Pointers
  <2> QED
    BY <2>1, PlacesFinite, FS_Subset DEF Pointers
<1>3. IsFiniteSet({y}) /\ Cardinality({y}) = 1
  BY FS_Singleton
<1>4. Cardinality({y} \cup {x}) = Cardinality({y}) + 1
  <2>1. x \notin {y}
    OBVIOUS
  <2> QED
    BY <1>3, <2>1, FS_AddElement
<1>5. {y} \cup {x} = {x, y}
  OBVIOUS
<1>6. Cardinality({x, y}) <= Cardinality(T)
  BY <1>2, FS_Subset
<1>7. Cardinality(T) \in Nat
  BY <1>2, FS_CardinalityType
<1> HIDE DEF T
<1>8. Cardinality(T) > 1
  BY <1>3, <1>4, <1>5, <1>6, <1>7
<1> QED
  BY <1>1, <1>7, <1>8

\* Taking and dropping references, the characters stay.
LEMMA TookType ==
    ASSUME NEW m \in MemType, NEW k \in Headers \cup {NoHeader}
    PROVE  /\ Took(m, k) \in MemType
           /\ \A h \in Headers : Took(m, k)[h].cells = m[h].cells
<1>1. CASE k = NoHeader
  BY <1>1 DEF Took
<1>2. CASE k \in Headers /\ k # NoHeader
  <2>1. m[k] \in HeaderType /\ m[k].count + 1 \in Nat
    BY <1>2, CellsType
  <2> DEFINE r == [m[k] EXCEPT !.count = @ + 1]
  <2>2. r \in HeaderType /\ r.cells = m[k].cells
    BY <2>1 DEF HeaderType
  <2>3. Took(m, k) = [m EXCEPT ![k] = r]
    BY <1>2 DEF Took
  <2> HIDE DEF r
  <2> QED
    BY <1>2, <2>2, <2>3 DEF MemType
<1> QED
  BY <1>1, <1>2

LEMMA DroppedType ==
    ASSUME NEW m \in MemType, NEW k \in Headers \cup {NoHeader},
           k \in Headers => m[k].count > 0
    PROVE  /\ Dropped(m, k) \in MemType
           /\ \A h \in Headers : (h # k \/ m[h].count # 1)
                                    => Dropped(m, k)[h].cells = m[h].cells
<1>1. CASE k = NoHeader
  BY <1>1 DEF Dropped
<1>2. CASE k \in Headers /\ k # NoHeader /\ m[k].count = 1
  <2>1. Unused \in HeaderType
    BY DEF Unused, HeaderType
  <2>2. Dropped(m, k) = [m EXCEPT ![k] = Unused]
    BY <1>2 DEF Dropped
  <2> QED
    BY <1>2, <2>1, <2>2 DEF MemType
<1>3. CASE k \in Headers /\ k # NoHeader /\ m[k].count # 1
  <2>1. m[k] \in HeaderType /\ m[k].count - 1 \in Nat
    BY <1>3, CellsType
  <2> DEFINE r == [m[k] EXCEPT !.count = @ - 1]
  <2>2. r \in HeaderType /\ r.cells = m[k].cells
    BY <2>1 DEF HeaderType
  <2>3. Dropped(m, k) = [m EXCEPT ![k] = r]
    BY <1>3 DEF Dropped
  <2> HIDE DEF r
  <2> QED
    BY <1>3, <2>2, <2>3 DEF MemType
<1> QED
  BY <1>1, <1>2, <1>3

\* The macro at x lets go of its header, and the others do not notice.
LEMMA LetGo ==
    ASSUME NEW m \in MemType, NEW c \in MacType, MemoryInv(m, c),
           NEW x \in Places, \A y \in Places : Fits(m, c[y])
    PROVE  /\ Dropped(m, c[x].p) \in MemType
           /\ \A y \in Places \ {x} :
                 /\ TextAt(Dropped(m, c[x].p), c[y]) = TextAt(m, c[y])
                 /\ Fits(Dropped(m, c[x].p), c[y])
<1> DEFINE k == c[x].p
           d == Dropped(m, k)
<1>1. \A y \in Places : c[y].p \in Headers \cup {NoHeader}
  BY DEF MemoryInv, IsMac
<1>2. k \in Headers => m[k].count > 0
  BY PointedTo
<1>3. /\ d \in MemType
      /\ \A h \in Headers : (h # k \/ m[h].count # 1) => d[h].cells = m[h].cells
  <2>1. k \in Headers \cup {NoHeader}
    BY <1>1
  <2> HIDE DEF k
  <2> QED
    BY <1>2, <2>1, DroppedType
<1>4. ASSUME NEW y \in Places \ {x}, c[y].p \in Headers
      PROVE  d[c[y].p].cells = m[c[y].p].cells
  <2>1. CASE c[y].p = k
    <3>1. m[k].count > 1 /\ m[k].count \in Nat
      BY <1>4, <2>1, PointedTwice
    <3>2. m[k].count # 1
      BY <3>1
    <3> QED
      BY <1>3, <1>4, <2>1, <3>2
  <2>2. CASE c[y].p # k
    BY <1>3, <1>4, <2>2
  <2> QED
    BY <2>1, <2>2
<1> HIDE DEF d, k
<1>5. ASSUME NEW y \in Places \ {x}
      PROVE  TextAt(d, c[y]) = TextAt(m, c[y]) /\ Fits(d, c[y])
  <2>1. Fits(m, c[y])
    OBVIOUS
  <2>2. CASE c[y].p = NoHeader
    BY <2>1, <2>2 DEF TextAt, Fits
  <2>3. CASE c[y].p \in Headers
    BY <1>4, <2>1, <2>3 DEF TextAt, Fits
  <2> QED
    BY <1>1, <2>2, <2>3
<1> QED
  BY <1>3, <1>5 DEF d, k

\* What the operations on macros do to the texts.
LEMMA SoundIs ==
    ASSUME NEW s, Sound(s), NEW o, Owing(s, o), NEW x \in Places
    PROVE  /\ s.mem \in MemType /\ s.mac \in MacType /\ MemoryInv(s.mem, s.mac)
           /\ s.mac[x] \in MacroType /\ Fits(s.mem, s.mac[x])
           /\ s.mac[x].p \in Headers \cup {NoHeader}
           /\ DOMAIN s = {"mem", "mac", "names", "refs"}
<1>1. s.mac[x] \in MacroType
  BY DEF Sound, MacType
<1> QED
  BY <1>1, MacroTypeIs DEF Sound, Owing

LEMMA DestroyAlters ==
    ASSUME NEW s, Sound(s), NEW o, Owing(s, o), NEW x \in Places
    PROVE  Alters(s, Destroy(s, x), x, <<>>)
<1> DEFINE t == Destroy(s, x)
           d == Dropped(s.mem, s.mac[x].p)
<1>1. /\ s.mem \in MemType /\ s.mac \in MacType /\ MemoryInv(s.mem, s.mac)
      /\ DOMAIN s = {"mem", "mac", "names", "refs"}
      /\ \A y \in Places : Fits(s.mem, s.mac[y])
  BY SoundIs DEF Sound
<1>2. NoMacro \in MacroType /\ Fits(d, NoMacro) /\ TextAt(d, NoMacro) = <<>>
  BY DEF NoMacro, MacroType, Fits, TextAt
<1>3. /\ d \in MemType
      /\ \A y \in Places \ {x} :
            TextAt(d, s.mac[y]) = TextAt(s.mem, s.mac[y]) /\ Fits(d, s.mac[y])
  BY <1>1, LetGo
<1>4. t.mac = [s.mac EXCEPT ![x] = NoMacro] /\ t.mem = d
  BY <1>1 DEF Destroy
<1> HIDE DEF t, d
<1>5. Alters(s, t, x, TextAt(t.mem, NoMacro))
  BY <1>2, <1>3, <1>4, AltersIs
<1> QED
  BY <1>2, <1>4, <1>5 DEF t

LEMMA AssignAlters ==
    ASSUME NEW s, Sound(s), NEW o, Owing(s, o), NEW to \in Places,
           NEW from \in Places
    PROVE  Alters(s, Assign(s, to, from), to, TextOf(s, from))
<1> DEFINE t == Assign(s, to, from)
           v == s.mac[from]
           k == s.mac[to].p
           m == Took(s.mem, v.p)
           d == Dropped(m, k)
<1>1. /\ s.mem \in MemType /\ s.mac \in MacType /\ MemoryInv(s.mem, s.mac)
      /\ DOMAIN s = {"mem", "mac", "names", "refs"}
      /\ k \in Headers \cup {NoHeader} /\ v.p \in Headers \cup {NoHeader}
      /\ v \in MacroType
  BY SoundIs
<1>2. \A y \in Places : Fits(s.mem, s.mac[y])
                        /\ s.mac[y].p \in Headers \cup {NoHeader}
  BY SoundIs
<1>3. t.mac = [s.mac EXCEPT ![to] = v] /\ t.mem = d
  BY <1>1 DEF Assign
<1>4. m \in MemType /\ \A h \in Headers : m[h].cells = s.mem[h].cells
  BY <1>1, TookType
<1>5. \A h \in Headers : /\ m[h].count = s.mem[h].count + IF h = v.p THEN 1 ELSE 0
                         /\ s.mem[h].count \in Nat
  BY <1>1, TookIs, CellsType, SMTT(30) DEF MemoryInv
<1>6. k \in Headers => s.mem[k].count > 0
  BY <1>1, PointedTo
<1>7. k \in Headers => m[k].count > 0
  BY <1>5, <1>6
<1>8. /\ d \in MemType
      /\ \A h \in Headers : (h # k \/ m[h].count # 1) => d[h].cells = m[h].cells
  <2> HIDE DEF k, m
  <2> QED
    BY <1>1, <1>4, <1>7, DroppedType
\* The header of another macro, and that of the one that is assigned.
<1>9. ASSUME NEW y \in Places, y # to \/ y = from, s.mac[y].p \in Headers
      PROVE  d[s.mac[y].p].cells = s.mem[s.mac[y].p].cells
  <2>1. CASE s.mac[y].p # k
    BY <1>4, <1>8, <1>9, <2>1
  <2>2. CASE s.mac[y].p = k /\ y # to
    <3>1. s.mem[k].count > 1
      BY <1>1, <1>9, <2>2, PointedTwice
    <3>2. m[k].count # 1
      BY <1>5, <1>9, <2>2, <3>1
    <3> QED
      BY <1>4, <1>8, <1>9, <2>2, <3>2
  <2>3. CASE s.mac[y].p = k /\ y = from
    <3>1. m[k].count = s.mem[k].count + 1 /\ s.mem[k].count > 0
      BY <1>5, <1>6, <1>9, <2>3
    <3>2. m[k].count # 1
      BY <1>5, <1>9, <2>3, <3>1
    <3> QED
      BY <1>4, <1>8, <1>9, <2>3, <3>2
  <2> QED
    BY <1>9, <2>1, <2>2, <2>3
<1> HIDE DEF d, m, k
<1>10. ASSUME NEW y \in Places, y # to \/ y = from
       PROVE  TextAt(d, s.mac[y]) = TextAt(s.mem, s.mac[y]) /\ Fits(d, s.mac[y])
  <2>1. CASE s.mac[y].p = NoHeader
    BY <1>2, <2>1 DEF TextAt, Fits
  <2>2. CASE s.mac[y].p \in Headers
    BY <1>2, <1>9, <1>10, <2>2 DEF TextAt, Fits
  <2> QED
    BY <1>2, <2>1, <2>2
<1>11. \A y \in Places \ {to} :
          TextAt(d, s.mac[y]) = TextAt(s.mem, s.mac[y]) /\ Fits(d, s.mac[y])
  BY <1>10
<1>12. TextAt(d, v) = TextOf(s, from) /\ Fits(d, v)
  BY <1>10, TextOfIs
<1> HIDE DEF t, v
<1>13. Alters(s, t, to, TextAt(t.mem, v))
  BY <1>1, <1>3, <1>8, <1>11, <1>12, AltersIs
<1> QED
  BY <1>3, <1>12, <1>13 DEF t

\* A text in a new header.
LEMMA CopiedAlters ==
    ASSUME NEW s, Sound(s), NEW o, Owing(s, o), NEW x \in Places,
           NEW u \in Seq(Cells), NEW h \in Headers, s.mem[h].count = 0,
           NEW b \in BOOLEAN, NEW v, v = [p |-> h, length |-> Len(u), empty |-> b],
           NEW t, t.mac = [s.mac EXCEPT ![x] = v],
           t.mem = [Dropped(s.mem, s.mac[x].p) EXCEPT
                        ![h] = [count |-> 1, cells |-> u]]
    PROVE  Alters(s, t, x, u)
<1> DEFINE d == Dropped(s.mem, s.mac[x].p)
           r == [count |-> 1, cells |-> u]
<1>1. /\ s.mem \in MemType /\ s.mac \in MacType /\ MemoryInv(s.mem, s.mac)
      /\ \A y \in Places : /\ Fits(s.mem, s.mac[y])
                           /\ s.mac[y].p \in Headers \cup {NoHeader}
  BY SoundIs
<1>2. /\ d \in MemType
      /\ \A y \in Places \ {x} :
            TextAt(d, s.mac[y]) = TextAt(s.mem, s.mac[y]) /\ Fits(d, s.mac[y])
  BY <1>1, LetGo
<1>3. r \in HeaderType /\ r.cells = u /\ Len(u) \in Nat
  BY DEF HeaderType
<1>4. \A y \in Places : s.mac[y].p # h
  BY <1>1, PointedTo
<1>5. v \in MacroType /\ v.p = h /\ v.length = Len(u) /\ h # NoHeader
  BY <1>3, MacrosAssumption DEF MacroType
<1>6. t.mem = [d EXCEPT ![h] = r]
  OBVIOUS
<1> HIDE DEF d, r
<1>7. /\ t.mem \in MemType /\ t.mem[h] = r
      /\ \A k \in Headers : k # h => t.mem[k] = d[k]
  BY <1>2, <1>3, <1>6, ZenonT(30) DEF MemType
<1>8. ASSUME NEW y \in Places \ {x}
      PROVE  /\ TextAt(t.mem, s.mac[y]) = TextAt(s.mem, s.mac[y])
             /\ Fits(t.mem, s.mac[y])
  <2>1. CASE s.mac[y].p = NoHeader
    BY <1>2, <1>8, <2>1, SMTT(30) DEF TextAt, Fits
  <2>2. CASE s.mac[y].p \in Headers
    <3>1. t.mem[s.mac[y].p] = d[s.mac[y].p]
      BY <1>4, <1>7, <2>2
    <3> QED
      BY <1>2, <1>8, <2>2, <3>1 DEF TextAt, Fits
  <2> QED
    BY <1>1, <2>1, <2>2
<1>9. Fits(t.mem, v)
  BY <1>3, <1>5, <1>7 DEF Fits
<1>10. TextAt(t.mem, v) = u
  <2>1. SubSeq(u, 1, Len(u)) = u
    OBVIOUS
  <2> QED
    BY <1>3, <1>5, <1>7, <2>1 DEF TextAt
<1>11. Alters(s, t, x, TextAt(t.mem, v))
  BY <1>5, <1>7, <1>8, <1>9, AltersIs
<1> QED
  BY <1>10, <1>11

LEMMA OnCopyAlters ==
    ASSUME NEW s, Sound(s), NEW o, Owing(s, o), NEW x \in Places,
           NEW c \in Cells, HasFree(s)
    PROVE  Alters(s, OnCopy(s, x, c), x, Append(TextOf(s, x), c))
<1> DEFINE h == NewHeader(s)
           u == Append(TextOf(s, x), c)
           b == s.mac[x].empty /\ c \in Modes
           v == [p |-> h, length |-> s.mac[x].length + 1, empty |-> b]
           t == OnCopy(s, x, c)
<1>1. h \in Headers /\ s.mem[h].count = 0
  BY DEF NewHeader, HasFree
<1>2. TextOf(s, x) \in Seq(Cells) /\ Len(TextOf(s, x)) = s.mac[x].length
  BY TextType
<1>3. u \in Seq(Cells) /\ Len(u) = s.mac[x].length + 1
  BY <1>2, AppendIs
<1>4. b \in BOOLEAN
  OBVIOUS
<1>5. DOMAIN s = {"mem", "mac", "names", "refs"} /\ s.mac \in MacType
  BY SoundIs
<1>6. /\ t.mem = [Dropped(s.mem, s.mac[x].p) EXCEPT
                      ![h] = [count |-> 1, cells |-> u]]
      /\ t.mac = [s.mac EXCEPT ![x] = v]
  BY <1>5 DEF OnCopy, MacType
<1>7. v = [p |-> h, length |-> Len(u), empty |-> b]
  BY <1>3
<1> HIDE DEF h, u, v, b, t
<1>8. Alters(s, t, x, u)
  BY <1>1, <1>3, <1>4, <1>6, <1>7, CopiedAlters
<1> QED
  BY <1>8 DEF t, u

LEMMA PrefixOfAppend ==
    ASSUME NEW E, NEW q \in Seq(E), NEW c \in E
    PROVE  /\ SubSeq(Append(q, c), 1, Len(q) + 1) = Append(q, c)
           /\ \A n \in Nat : n <= Len(q) =>
                 SubSeq(Append(q, c), 1, n) = SubSeq(q, 1, n)
OBVIOUS

LEMMA PrefixOfPrefix ==
    ASSUME NEW E, NEW q \in Seq(E), NEW k \in Nat, NEW j \in Nat, k <= j,
           j <= Len(q)
    PROVE  SubSeq(SubSeq(q, 1, j), 1, k) = SubSeq(q, 1, k)
OBVIOUS

LEMMA WholeIs ==
    ASSUME NEW E, NEW q \in Seq(E)
    PROVE  SubSeq(q, 1, Len(q)) = q /\ Len(q) \in Nat
OBVIOUS

LEMMA InPlaceAlters ==
    ASSUME NEW s, Sound(s), NEW o, Owing(s, o), NEW x \in Places,
           NEW c \in Cells, Owns(s, x)
    PROVE  Alters(s, InPlace(s, x, c), x, Append(TextOf(s, x), c))
<1> DEFINE h == s.mac[x].p
           q == s.mem[h].cells
           r == [s.mem[h] EXCEPT !.cells = Append(@, c)]
           b == s.mac[x].empty /\ c \in Modes
           v == [p |-> h, length |-> s.mac[x].length + 1, empty |-> b]
           t == InPlace(s, x, c)
<1>1. /\ s.mem \in MemType /\ s.mac \in MacType
      /\ DOMAIN s = {"mem", "mac", "names", "refs"}
      /\ h \in Headers /\ h # NoHeader
      /\ \A y \in Places : /\ Fits(s.mem, s.mac[y]) /\ s.mac[y] \in MacroType
                           /\ s.mac[y].p \in Headers \cup {NoHeader}
  BY SoundIs DEF Owns
<1>2. /\ s.mem[h] \in HeaderType /\ q \in Seq(Cells) /\ Len(q) = s.mac[x].length
      /\ s.mac[x].length \in Nat
  BY <1>1, CellsType, MacroTypeIs DEF Owns
<1>4. r \in HeaderType /\ r.cells = Append(q, c)
  <2>1. Append(q, c) \in Seq(Cells)
    BY <1>2
  <2>2. r = [s.mem[h] EXCEPT !.cells = Append(q, c)]
    OBVIOUS
  <2>3. \A a \in HeaderType : \A w \in Seq(Cells) :
           /\ [a EXCEPT !.cells = w] \in HeaderType
           /\ [a EXCEPT !.cells = w].cells = w
    BY DEF HeaderType
  <2> HIDE DEF r, q
  <2> QED
    BY <1>2, <2>1, <2>2, <2>3, Zenon
<1>5. t.mem = [s.mem EXCEPT ![h] = r] /\ t.mac = [s.mac EXCEPT ![x] = v]
  BY <1>1, SMTT(30) DEF InPlace, MacType
<1>6. v \in MacroType /\ v.p = h /\ v.length = s.mac[x].length + 1
  BY <1>1, <1>2 DEF MacroType
<1>a. TextOf(s, x) = SubSeq(q, 1, Len(q)) /\ q = s.mem[h].cells
  BY <1>1, <1>2 DEF TextOf
<1> HIDE DEF r, v, b, t, h, q
<1>b. v.length = Len(q) + 1
  BY <1>2, <1>6
<1>3. TextOf(s, x) = q
  BY <1>2, <1>a, WholeIs
<1>7. /\ Append(q, c) \in Seq(Cells) /\ Len(Append(q, c)) = Len(q) + 1
      /\ SubSeq(Append(q, c), 1, Len(q) + 1) = Append(q, c)
      /\ \A n \in Nat : n <= Len(q) => SubSeq(Append(q, c), 1, n) = SubSeq(q, 1, n)
      /\ Len(q) \in Nat
  <2>1. q \in Seq(Cells)
    BY <1>2
  <2>2. Append(q, c) \in Seq(Cells) /\ Len(Append(q, c)) = Len(q) + 1
    BY <2>1, AppendIs
  <2>3. Len(q) \in Nat
    BY <2>1, WholeIs
  <2> QED
    BY <2>1, <2>2, <2>3, PrefixOfAppend, Zenon
<1>8. /\ t.mem \in MemType /\ t.mem[h] = r
      /\ \A k \in Headers : k # h => t.mem[k] = s.mem[k]
  BY <1>1, <1>4, <1>5 DEF MemType
<1>9. ASSUME NEW y \in Places \ {x}
      PROVE  /\ TextAt(t.mem, s.mac[y]) = TextAt(s.mem, s.mac[y])
             /\ Fits(t.mem, s.mac[y])
  <2>1. CASE s.mac[y].p = NoHeader
    BY <1>1, <2>1 DEF TextAt, Fits
  <2>2. CASE s.mac[y].p \in Headers /\ s.mac[y].p # h
    BY <1>1, <1>8, <2>2 DEF TextAt, Fits
  <2>3. CASE s.mac[y].p = h
    <3>1. s.mac[y].length \in Nat /\ s.mac[y].length <= Len(q)
      BY <1>1, <1>a, <2>3, MacroTypeIs DEF Fits
    <3>2. Fits(t.mem, s.mac[y])
      BY <1>1, <1>4, <1>7, <1>8, <2>3, <3>1 DEF Fits
    <3>3. TextAt(t.mem, s.mac[y]) = TextAt(s.mem, s.mac[y])
      BY <1>1, <1>4, <1>7, <1>8, <1>a, <2>3, <3>1, Zenon DEF TextAt
    <3> QED
      BY <3>2, <3>3
  <2> QED
    BY <1>1, <2>1, <2>2, <2>3
<1>10. Fits(t.mem, v) /\ TextAt(t.mem, v) = Append(q, c)
  <2>1. t.mem[v.p].cells = Append(q, c) /\ v.p # NoHeader
    BY <1>1, <1>4, <1>6, <1>8
  <2>2. Fits(t.mem, v)
    BY <1>7, <1>b, <2>1 DEF Fits
  <2>3. TextAt(t.mem, v) = Append(q, c)
    BY <1>7, <1>b, <2>1, Zenon DEF TextAt
  <2> QED
    BY <2>2, <2>3
<1>11. Alters(s, t, x, TextAt(t.mem, v))
  BY <1>5, <1>6, <1>8, <1>9, <1>10, AltersIs
<1>12. Alters(s, t, x, Append(TextOf(s, x), c))
  BY <1>3, <1>10, <1>11, ZenonT(30)
<1> QED
  BY <1>12 DEF t

LEMMA AppendCellAlters ==
    ASSUME NEW s, Sound(s), NEW o, Owing(s, o), NEW x \in Places,
           NEW c \in Cells, CanAppend(s, x)
    PROVE  Alters(s, AppendCell(s, x, c), x, Append(TextOf(s, x), c))
BY OnCopyAlters, InPlaceAlters, Zenon DEF AppendCell, CanAppend

LEMMA FilledAlters ==
    ASSUME NEW s, Sound(s), NEW o, Owing(s, o), NEW x \in Places,
           NEW u \in Seq(Cells), HasFree(s)
    PROVE  Alters(s, Filled(s, x, u), x, u)
<1> DEFINE h == NewHeader(s)
           d == Dropped(s.mem, s.mac[x].p)
           b == \A i \in DOMAIN u : u[i] \in Modes
           v == [p |-> IF u = <<>> THEN NoHeader ELSE h,
                 length |-> Len(u), empty |-> b]
           t == Filled(s, x, u)
<1>1. h \in Headers /\ s.mem[h].count = 0
  BY DEF NewHeader, HasFree
<1>2. /\ s.mem \in MemType /\ s.mac \in MacType /\ MemoryInv(s.mem, s.mac)
      /\ DOMAIN s = {"mem", "mac", "names", "refs"}
      /\ \A y \in Places : Fits(s.mem, s.mac[y])
  BY SoundIs
<1>3. /\ t.mac = [s.mac EXCEPT ![x] = v]
      /\ t.mem = IF u = <<>> THEN d
                 ELSE [d EXCEPT ![h] = [count |-> 1, cells |-> u]]
  BY <1>2 DEF Filled
<1>4. b \in BOOLEAN
  OBVIOUS
<1>5. CASE u # <<>>
  <2>1. v = [p |-> h, length |-> Len(u), empty |-> b]
    BY <1>5
  <2>2. t.mem = [Dropped(s.mem, s.mac[x].p) EXCEPT
                        ![h] = [count |-> 1, cells |-> u]]
    BY <1>3, <1>5
  <2>3. t.mac = [s.mac EXCEPT ![x] = v]
    BY <1>3
  <2> HIDE DEF h, v, b, t, d
  <2>4. Alters(s, t, x, u)
    BY <1>1, <1>4, <2>1, <2>2, <2>3, CopiedAlters
  <2> QED
    BY <2>4 DEF t
<1>6. CASE u = <<>>
  <2>1. v.p = NoHeader /\ v.length = 0 /\ v \in MacroType
    BY <1>6 DEF MacroType
  <2>2. t.mem = d /\ t.mac = [s.mac EXCEPT ![x] = v]
    BY <1>3, <1>6
  <2>3. /\ d \in MemType
        /\ \A y \in Places \ {x} :
              TextAt(d, s.mac[y]) = TextAt(s.mem, s.mac[y]) /\ Fits(d, s.mac[y])
    BY <1>2, LetGo
  <2>4. Fits(d, v) /\ TextAt(d, v) = <<>>
    BY <2>1 DEF Fits, TextAt
  <2> HIDE DEF v, d, t
  <2>5. Alters(s, t, x, TextAt(t.mem, v))
    BY <2>1, <2>2, <2>3, <2>4, AltersIs
  <2> QED
    BY <1>6, <2>2, <2>4, <2>5 DEF t
<1> QED
  BY <1>5, <1>6

\* What goes at the end: only the length of the macro, or also a character in
\* the header, which the macro has alone or shares.
LEMMA LengthAlters ==
    ASSUME NEW s, Sound(s), NEW o, Owing(s, o), NEW x \in Places,
           NEW n \in 1..Len(TextOf(s, x)), NEW t,
           t = [s EXCEPT !.mac[x].length = n - 1]
    PROVE  Alters(s, t, x, SubSeq(TextOf(s, x), 1, n - 1))
<1> DEFINE v == [s.mac[x] EXCEPT !.length = n - 1]
           h == s.mac[x].p
           q == s.mem[h].cells
           l == s.mac[x].length
<1>1. /\ s.mem \in MemType /\ s.mac \in MacType
      /\ DOMAIN s = {"mem", "mac", "names", "refs"}
      /\ s.mac[x] \in MacroType
      /\ \A y \in Places : Fits(s.mem, s.mac[y])
  BY SoundIs
<1>2. Len(TextOf(s, x)) = l /\ l \in Nat /\ (l > 0 => h \in Headers)
  BY TextType
<1>3. h \in Headers /\ h # NoHeader /\ n - 1 \in Nat /\ n - 1 <= l
  BY <1>2, MacrosAssumption, SMTT(30)
<1>4. q \in Seq(Cells) /\ l <= Len(q)
  BY <1>1, <1>3, CellsType DEF Fits
<1>5. v \in MacroType /\ v.p = h /\ v.length = n - 1
  BY <1>1, <1>3 DEF MacroType
<1>6. t.mem = s.mem /\ t.mac = [s.mac EXCEPT ![x] = v]
  BY <1>1 DEF MacType
<1> HIDE DEF v
<1>7. Fits(t.mem, v)
  BY <1>2, <1>3, <1>4, <1>5, <1>6, SMTT(30) DEF Fits
<1>8. TextAt(t.mem, v) = SubSeq(q, 1, n - 1) /\ TextOf(s, x) = SubSeq(q, 1, l)
  BY <1>3, <1>5, <1>6, Zenon DEF TextAt, TextOf
<1> HIDE DEF q, h, l
<1>10. SubSeq(TextOf(s, x), 1, n - 1) = SubSeq(q, 1, n - 1)
  BY <1>2, <1>3, <1>4, <1>8, PrefixOfPrefix
<1>11. Alters(s, t, x, TextAt(t.mem, v))
  BY <1>1, <1>5, <1>6, <1>7, AltersIs
<1> QED
  BY <1>8, <1>10, <1>11, Zenon

LEMMA ReplacedIs ==
    ASSUME NEW E, NEW q \in Seq(E), NEW c \in E, NEW k \in Int
    PROVE  [q EXCEPT ![k] = c] \in Seq(E) /\ Len([q EXCEPT ![k] = c]) = Len(q)
<1> DEFINE n == Len(q)
           r == [i \in 1..n |-> IF i = k THEN c ELSE q[i]]
<1>1. n \in Nat /\ DOMAIN q = 1..n /\ q = [i \in 1..n |-> q[i]]
      /\ \A i \in 1..n : q[i] \in E
  OBVIOUS
<1> HIDE DEF n
<1>2. [q EXCEPT ![k] = c] = r
  BY <1>1
<1>3. r \in Seq(E) /\ Len(r) = n
  BY <1>1
<1> QED
  BY <1>2, <1>3 DEF n

LEMMA SameSequence ==
    ASSUME NEW E, NEW a \in Seq(E), NEW b \in Seq(E), Len(a) = Len(b),
           \A i \in 1..Len(a) : a[i] = b[i]
    PROVE  a = b
OBVIOUS

\* Its macro, its header, and the characters of that.
Shortened(s, x, n) == [s.mac[x] EXCEPT !.length = n - 1]
WithPop(q, n) == [q EXCEPT ![n - 1] = Pop]
Patched(r, n) == [r EXCEPT !.cells = WithPop(r.cells, n)]

LEMMA ReplacedPrefix ==
    ASSUME NEW q \in Seq(Cells), NEW n \in 2..Len(q)
    PROVE  SubSeq(WithPop(q, n), 1, n - 1) = Append(SubSeq(q, 1, n - 2), Pop)
<1> DEFINE E == Cells
           c == Pop
           r == WithPop(q, n)
           a == SubSeq(r, 1, n - 1)
           p == SubSeq(q, 1, n - 2)
           b == Append(p, c)
<1>1. n \in Nat /\ Len(q) \in Nat /\ n - 1 \in Nat /\ n - 2 \in Nat
      /\ n - 1 <= Len(q) /\ n - 2 <= Len(q)
  OBVIOUS
<1>0. c \in E /\ q \in Seq(E)
  BY ElementsAre
<1>2. r \in Seq(E) /\ Len(r) = Len(q)
  BY <1>0, ReplacedIs DEF WithPop
<1>3. /\ \A i \in 1..(n - 2) : r[i] = q[i]
      /\ r[n - 1] = c
  BY <1>1 DEF WithPop
<1> HIDE DEF E, c
<1>4. p \in Seq(E) /\ Len(p) = n - 2 /\ \A i \in 1..(n - 2) : p[i] = q[i]
  BY <1>0, <1>1, SliceIs
<1> HIDE DEF r, p
<1>5. a \in Seq(E) /\ Len(a) = n - 1 /\ \A i \in 1..(n - 1) : a[i] = r[i]
  BY <1>1, <1>2, SliceIs
<1>6. /\ b \in Seq(E) /\ Len(b) = (n - 2) + 1
      /\ \A i \in 1..(n - 2) : b[i] = p[i]
      /\ b[(n - 2) + 1] = c
  <2>1. /\ b \in Seq(E) /\ Len(b) = Len(p) + 1
        /\ \A i \in 1..Len(p) : b[i] = p[i]
        /\ b[Len(p) + 1] = c
    BY <1>0, <1>4, AppendIs
  <2> HIDE DEF b
  <2> QED
    BY <1>4, <2>1, Zenon
<1> HIDE DEF a, b
<1>7. (n - 2) + 1 = n - 1 /\ \A i \in 1..(n - 1) : i \in 1..(n - 2) \/ i = n - 1
  BY <1>1
<1>8. \A i \in 1..(n - 1) : a[i] = b[i]
  BY <1>3, <1>4, <1>5, <1>6, <1>7, Zenon
<1>9. a = b
  BY <1>5, <1>6, <1>7, <1>8, SameSequence
<1> QED
  BY <1>9 DEF a, b, r, p, c

LEMMA SoundAfter ==
    ASSUME NEW s, Sound(s), NEW t, NEW x \in Places, NEW v \in MacroType,
           t.mac = [s.mac EXCEPT ![x] = v], t.mem \in MemType, Fits(t.mem, v),
           \A y \in Places : Fits(t.mem, s.mac[y])
    PROVE  Sound(t)
<1>1. s.mac \in MacType
  BY DEF Sound
<1>2. t.mac \in MacType
  BY <1>1 DEF MacType
<1>3. t.mac[x] = v /\ \A y \in Places \ {x} : t.mac[y] = s.mac[y]
  BY <1>1 DEF MacType
<1>4. \A y \in Places : Fits(t.mem, t.mac[y])
  BY <1>3
<1> QED
  BY <1>2, <1>4 DEF Sound

LEMMA ReplaceAlters ==
    ASSUME NEW s, Sound(s), NEW o, Owing(s, o), NEW x \in Places,
           NEW n \in 1..Len(TextOf(s, x)), NEW t,
           t.mac = [s.mac EXCEPT ![x] = Shortened(s, x, n)],
           t.mem = [s.mem EXCEPT ![s.mac[x].p] = Patched(s.mem[s.mac[x].p], n)]
    PROVE  /\ Sound(t)
           /\ (s.mem[s.mac[x].p].count <= 1 /\ n > 1)
                 => Alters(s, t, x, Append(SubSeq(TextOf(s, x), 1, n - 2), Pop))
<1> DEFINE h == s.mac[x].p
           q == s.mem[h].cells
           l == s.mac[x].length
           v == Shortened(s, x, n)
           w == WithPop(q, n)
           r == Patched(s.mem[h], n)
<1>1. /\ s.mem \in MemType /\ s.mac \in MacType /\ MemoryInv(s.mem, s.mac)
      /\ DOMAIN s = {"mem", "mac", "names", "refs"}
      /\ s.mac[x] \in MacroType
      /\ \A y \in Places : /\ Fits(s.mem, s.mac[y])
                           /\ s.mac[y].p \in Headers \cup {NoHeader}
  BY SoundIs
<1>2. Len(TextOf(s, x)) = l /\ l \in Nat /\ (l > 0 => h \in Headers)
  BY TextType
<1>b. n \in Nat /\ n >= 1 /\ n <= l
  BY <1>2
<1>3. h \in Headers /\ h # NoHeader /\ n - 1 \in Nat /\ n - 1 <= l
  BY <1>2, <1>b, MacrosAssumption
<1>4. q \in Seq(Cells) /\ l <= Len(q) /\ s.mem[h] \in HeaderType
  BY <1>1, <1>3, CellsType DEF Fits
<1>5. w \in Seq(Cells) /\ Len(w) = Len(q)
  <2>1. Pop \in Cells /\ n - 1 \in Int
    BY ElementsAre
  <2> HIDE DEF q
  <2> QED
    BY <1>4, <2>1, ReplacedIs DEF WithPop
<1>6. r \in HeaderType /\ r.cells = w
  <2>1. \A a \in HeaderType : \A e \in Seq(Cells) :
           /\ [a EXCEPT !.cells = e] \in HeaderType
           /\ [a EXCEPT !.cells = e].cells = e
    BY DEF HeaderType
  <2>2. r = [s.mem[h] EXCEPT !.cells = w]
    BY DEF Patched
  <2> HIDE DEF w, r
  <2> QED
    BY <1>4, <1>5, <2>1, <2>2, Zenon
<1>7. v \in MacroType /\ v.p = h /\ v.length = n - 1
  BY <1>1, <1>3 DEF MacroType, Shortened
<1>8. t.mac = [s.mac EXCEPT ![x] = v] /\ t.mem = [s.mem EXCEPT ![h] = r]
  OBVIOUS
<1>9. TextOf(s, x) = SubSeq(q, 1, l)
  BY <1>3 DEF TextOf
<1>a. h = s.mac[x].p /\ q = s.mem[h].cells
  OBVIOUS
<1> HIDE DEF v, w, r, h, q, l
<1>10. /\ t.mem \in MemType /\ t.mem[h] = r
       /\ \A k \in Headers : k # h => t.mem[k] = s.mem[k]
  BY <1>1, <1>3, <1>6, <1>8, ZenonT(30) DEF MemType
<1>11. ASSUME NEW y \in Places PROVE Fits(t.mem, s.mac[y])
  <2>1. CASE s.mac[y].p = NoHeader
    BY <1>1, <2>1 DEF Fits
  <2>2. CASE s.mac[y].p \in Headers /\ s.mac[y].p # h
    BY <1>1, <1>10, <2>2 DEF Fits
  <2>3. CASE s.mac[y].p = h
    <3>1. Len(t.mem[s.mac[y].p].cells) = Len(s.mem[s.mac[y].p].cells)
      BY <1>5, <1>6, <1>10, <1>a, <2>3
    <3>2. Fits(s.mem, s.mac[y])
      BY <1>1
    <3> QED
      BY <3>1, <3>2 DEF Fits
  <2> QED
    BY <1>1, <2>1, <2>2, <2>3
<1>12. Fits(t.mem, v)
  <2>1. t.mem[v.p].cells = w /\ v.p # NoHeader
    BY <1>3, <1>6, <1>7, <1>10
  <2>2. v.length <= Len(w)
    BY <1>2, <1>3, <1>4, <1>5, <1>7
  <2> QED
    BY <2>1, <2>2 DEF Fits
<1>13. Sound(t)
  BY <1>7, <1>8, <1>10, <1>11, <1>12, SoundAfter
<1>14. ASSUME s.mem[s.mac[x].p].count <= 1, n > 1
       PROVE  Alters(s, t, x, Append(SubSeq(TextOf(s, x), 1, n - 2), Pop))
  <2>1. ASSUME NEW y \in Places \ {x} PROVE s.mac[y].p # h
    <3>1. SUFFICES ASSUME s.mac[y].p = s.mac[x].p PROVE FALSE
      BY <1>a
    <3>2. s.mem[s.mac[x].p].count > 1 /\ s.mem[s.mac[x].p].count \in Nat
      <4>1. s.mac[x].p \in Headers
        BY <1>3, <1>a
      <4> QED
        BY <1>1, <3>1, <4>1, PointedTwice
    <3> QED
      BY <1>14, <3>2
  <2>2. ASSUME NEW y \in Places \ {x}
        PROVE  TextAt(t.mem, s.mac[y]) = TextAt(s.mem, s.mac[y])
    <3>1. CASE s.mac[y].p = NoHeader
      BY <3>1 DEF TextAt
    <3>2. CASE s.mac[y].p \in Headers
      BY <1>10, <2>1, <3>2 DEF TextAt
    <3> QED
      BY <1>1, <3>1, <3>2
  <2>3. Alters(s, t, x, TextAt(t.mem, v))
    BY <1>7, <1>8, <1>10, <1>11, <1>12, <2>2, AltersIs
  <2>4. TextAt(t.mem, v) = SubSeq(w, 1, n - 1)
    BY <1>3, <1>6, <1>7, <1>10, Zenon DEF TextAt
  <2>5. SubSeq(w, 1, n - 1) = Append(SubSeq(q, 1, n - 2), Pop)
    <3>1. n \in 2..Len(q) /\ Pop \in Cells
      <4>1. Len(q) \in Nat
        BY <1>4, WholeIs
      <4> QED
        BY <1>2, <1>4, <1>14, <1>b, <4>1, ElementsAre
    <3> QED
      BY <1>4, <3>1, ReplacedPrefix DEF w
  <2>6. SubSeq(TextOf(s, x), 1, n - 2) = SubSeq(q, 1, n - 2)
    <3>1. n - 2 \in Nat /\ n - 2 <= l
      BY <1>2, <1>14, <1>b
    <3> QED
      BY <1>2, <1>4, <1>9, <3>1, PrefixOfPrefix
  <2> QED
    BY <2>3, <2>4, <2>5, <2>6, Zenon
<1> QED
  BY <1>13, <1>14

LEMMA ChopAtIs ==
    ASSUME NEW s, Sound(s), NEW o, Owing(s, o), NEW x \in Places,
           NEW n \in 1..Len(TextOf(s, x)), TextOf(s, x)[n] = Pop
    PROVE  /\ ChopAt(s, x, n).mac = [s.mac EXCEPT ![x] = Shortened(s, x, n)]
           /\ ChopAt(s, x, n).mem =
                 [s.mem EXCEPT ![s.mac[x].p] = Patched(s.mem[s.mac[x].p], n)]
<1> DEFINE t == [s EXCEPT !.mac[x].length = n - 1,
                          !.mem[s.mac[x].p].cells[n - 1] = Pop]
<1>1. DOMAIN s = {"mem", "mac", "names", "refs"}
  BY SoundIs
<1>2. ChopAt(s, x, n) = t
  BY DEF ChopAt
<1>3. t.mac = [s.mac EXCEPT ![x].length = n - 1]
  BY <1>1
<1>4. t.mem = [s.mem EXCEPT ![s.mac[x].p].cells[n - 1] = Pop]
  BY <1>1, SMTT(30)
<1> HIDE DEF t
<1>5. t.mac = [s.mac EXCEPT ![x] = Shortened(s, x, n)]
  BY <1>3 DEF Shortened
<1>6. t.mem = [s.mem EXCEPT ![s.mac[x].p] = Patched(s.mem[s.mac[x].p], n)]
  BY <1>4 DEF Patched, WithPop
<1> QED
  BY <1>2, <1>5, <1>6, Zenon

LEMMA ChopAtSound ==
    ASSUME NEW s, Sound(s), NEW o, Owing(s, o), NEW x \in Places,
           NEW n \in 1..Len(TextOf(s, x))
    PROVE  Sound(ChopAt(s, x, n))
<1>1. CASE TextOf(s, x)[n] # Pop
  <2> DEFINE t == [s EXCEPT !.mac[x].length = n - 1]
  <2>1. ChopAt(s, x, n) = t
    BY <1>1 DEF ChopAt
  <2>2. Sound(t)
    BY LengthAlters, Zenon DEF Alters
  <2> QED
    BY <2>1, <2>2, Zenon
<1>2. CASE TextOf(s, x)[n] = Pop
  <2> DEFINE t == ChopAt(s, x, n)
  <2>1. /\ t.mac = [s.mac EXCEPT ![x] = Shortened(s, x, n)]
        /\ t.mem = [s.mem EXCEPT ![s.mac[x].p] = Patched(s.mem[s.mac[x].p], n)]
    BY <1>2, ChopAtIs
  <2> HIDE DEF t
  <2>3. Sound(t)
    BY <2>1, ReplaceAlters, Zenon
  <2> QED
    BY <2>3 DEF t
<1> QED
  BY <1>1, <1>2

LEMMA ChopAtAlters ==
    ASSUME NEW s, Sound(s), NEW o, Owing(s, o), NEW x \in Places,
           NEW n \in 1..Len(TextOf(s, x)),
           TextOf(s, x)[n] = Pop => n > 1 /\ s.mem[s.mac[x].p].count <= 1
    PROVE  Alters(s, ChopAt(s, x, n), x, Without(TextOf(s, x), n))
<1>1. CASE TextOf(s, x)[n] # Pop
  <2> DEFINE t == [s EXCEPT !.mac[x].length = n - 1]
  <2>1. ChopAt(s, x, n) = t
    BY <1>1 DEF ChopAt
  <2>2. Alters(s, t, x, SubSeq(TextOf(s, x), 1, n - 1))
    BY LengthAlters, Zenon
  <2>3. Without(TextOf(s, x), n) = SubSeq(TextOf(s, x), 1, n - 1)
    BY <1>1 DEF Without
  <2> QED
    BY <2>1, <2>2, <2>3, Zenon
<1>2. CASE TextOf(s, x)[n] = Pop
  <2> DEFINE t == ChopAt(s, x, n)
             u == Append(SubSeq(TextOf(s, x), 1, n - 2), Pop)
  <2>1. /\ t.mac = [s.mac EXCEPT ![x] = Shortened(s, x, n)]
        /\ t.mem = [s.mem EXCEPT ![s.mac[x].p] = Patched(s.mem[s.mac[x].p], n)]
    BY <1>2, ChopAtIs
  <2> HIDE DEF t
  <2>3. Alters(s, t, x, u)
    BY <1>2, <2>1, ReplaceAlters, Zenon
  <2>4. Without(TextOf(s, x), n) = u
    BY <1>2 DEF Without
  <2> QED
    BY <2>3, <2>4, Zenon DEF t
<1> QED
  BY <1>1, <1>2

-----------------------------------------------------------------------------
\* The texts of objects, and names.

\* All the texts of a store, and what is left of texts c where the dictionary
\* is l: the objects without a name have none.
ContentsOf(s) == [x \in Places |-> TextOf(s, x)]

Altered(c, x, u) == [c EXCEPT ![x] = u]

IsLost(l, y) ==
    \E q \in Objects : y = ObjectPlace(q) /\ Referrers(l, q) = {}
Live(l, c) == [y \in Places |-> IF IsLost(l, y) THEN <<>> ELSE c[y]]

\* No object without a reference has a text, except o.
VacantBut(s, o) ==
    \A q \in Objects \ {o} : s.refs[q] = 0 => TextOf(s, ObjectPlace(q)) = <<>>

LEMMA ObjectPlaces ==
    /\ \A o \in Objects : ObjectPlace(o) \in Places /\ ObjectPlace(o) # Local
    /\ \A o, q \in Objects : ObjectPlace(o) = ObjectPlace(q) => o = q
    /\ \A o \in Objects : \A i : ObjectPlace(o) # OpenPlace(i)
                                 /\ ObjectPlace(o) # InputPlace(i)
BY DEF Places, ObjectPlace, Local, OpenPlace, InputPlace

LEMMA ContentsAltered ==
    ASSUME NEW s, NEW t, NEW x \in Places, NEW u, Alters(s, t, x, u)
    PROVE  Sound(t) /\ ContentsOf(t) = Altered(ContentsOf(s), x, u)
<1>1. DOMAIN ContentsOf(s) = Places /\ DOMAIN ContentsOf(t) = Places
  BY DEF ContentsOf
<1>2. \A y \in Places : ContentsOf(t)[y] = IF y = x THEN u ELSE ContentsOf(s)[y]
  BY DEF Alters, ContentsOf
<1>3. ContentsOf(t) = [y \in Places |-> ContentsOf(t)[y]]
  BY DEF ContentsOf
<1>4. ContentsOf(t) = Altered(ContentsOf(s), x, u)
  BY <1>1, <1>2, <1>3, ZenonT(30) DEF Altered
<1> QED
  BY <1>4, Zenon DEF Alters

\* An object has no reference when no name refers to it.
LEMMA CountedNames ==
    ASSUME NEW s, StoreInv(s), NEW q \in Objects
    PROVE  s.refs[q] = 0 <=> Referrers(s.names, q) = {}
<1>1. q # NoObject
  BY MacrosAssumption
<1>2. Surplus(s.names, s.refs, NoObject)
  BY DEF StoreInv, Owing
<1>3. Cardinality(Referrers(s.names, q)) \in Nat
  BY ReferrersAreCounted
<1>4. s.refs[q] = Cardinality(Referrers(s.names, q))
  BY <1>1, <1>2, <1>3 DEF Surplus
<1>5. IsFiniteSet(Referrers(s.names, q))
  BY MacrosAssumption, FS_Subset DEF Referrers
<1> QED
  BY <1>4, <1>5, FS_EmptySet

\* A store with the texts c whose objects without a reference have none.
LEMMA LiveAre ==
    ASSUME NEW s, NEW u, StoreInv(u),
           \A y \in Places :
              \/ \E q \in Objects :
                    /\ y = ObjectPlace(q) /\ u.refs[q] = 0
                    /\ TextOf(u, y) = <<>>
              \/ /\ \A q \in Objects : y = ObjectPlace(q) => u.refs[q] # 0
                 /\ TextOf(u, y) = TextOf(s, y)
    PROVE  ContentsOf(u) = Live(u.names, ContentsOf(s))
<1>1. ASSUME NEW y \in Places
      PROVE  TextOf(u, y) = IF IsLost(u.names, y) THEN <<>> ELSE TextOf(s, y)
  <2>1. CASE \E q \in Objects : /\ y = ObjectPlace(q) /\ u.refs[q] = 0
                                /\ TextOf(u, y) = <<>>
    <3>1. IsLost(u.names, y)
      BY <2>1, CountedNames DEF IsLost
    <3> QED
      BY <2>1, <3>1
  <2>2. CASE /\ \A q \in Objects : y = ObjectPlace(q) => u.refs[q] # 0
             /\ TextOf(u, y) = TextOf(s, y)
    <3>1. ~IsLost(u.names, y)
      BY <2>2, CountedNames DEF IsLost
    <3> QED
      BY <2>2, <3>1
  <2> QED
    BY <2>1, <2>2
<1> QED
  BY <1>1 DEF ContentsOf, Live

\* A reference to o that was owing is gone.
LEMMA UnnamedTexts ==
    ASSUME NEW s, NEW o \in Referents, Owing(s, o), Sound(s),
           VacantBut(s, NoObject)
    PROVE  /\ Sound(Unnamed(s, o)) /\ Unnamed(s, o).names = s.names
           /\ ContentsOf(Unnamed(s, o)) = Live(s.names, ContentsOf(s))
<1> DEFINE u == Unnamed(s, o)
<1>0. NoObject \notin Objects
  BY MacrosAssumption
<1>1. StoreInv(u)
  BY UnnamedKeeps
<1>2. \A q \in Objects : s.refs[q] = 0 => TextOf(s, ObjectPlace(q)) = <<>>
  BY <1>0 DEF VacantBut
<1>3. s.refs \in [Objects -> Nat]
  BY DEF Owing, Surplus
<1>4. /\ Sound(u) /\ u.names = s.names
      /\ \A q \in Objects :
            u.refs[q] = 0 => TextOf(u, ObjectPlace(q)) = <<>>
      /\ \A y \in Places :
            (\A q \in Objects : y = ObjectPlace(q) => u.refs[q] # 0)
                => TextOf(u, y) = TextOf(s, y)
  <2>1. CASE o \notin Objects
    <3>1. u = s
      BY <2>1 DEF Unnamed
    <3> HIDE DEF u
    <3> QED
      BY <1>2, <3>1
  <2>2. CASE o \in Objects /\ s.refs[o] = 1
    <3> DEFINE x == ObjectPlace(o)
               d == Destroy(s, x)
    <3>1. x \in Places
      BY <2>2, ObjectPlaces
    <3>2. Alters(s, d, x, <<>>)
      BY <3>1, DestroyAlters
    <3>3. u.mem = d.mem /\ u.mac = d.mac
      BY <2>2 DEF Unnamed, Destroy
    <3>4. u.names = s.names /\ u.refs = [s.refs EXCEPT ![o] = 0]
      BY <2>2 DEF Unnamed, Destroy, Owing
    <3>5. \A y : TextOf(u, y) = TextOf(d, y)
      BY <3>3 DEF TextOf
    <3>6. Sound(u) = Sound(d)
      BY <3>3 DEF Sound
    <3>7. \A q \in Objects : q # o => ObjectPlace(q) \in Places \ {x}
      BY <2>2, ObjectPlaces
    <3>8. u.refs[o] = 0 /\ \A q \in Objects : q # o => u.refs[q] = s.refs[q]
      BY <1>3, <2>2, <3>4
    <3> HIDE DEF u, d, x
    <3>9. Sound(d) /\ TextOf(d, x) = <<>>
      BY <3>2, Zenon DEF Alters
    <3>10. \A y \in Places \ {x} : TextOf(d, y) = TextOf(s, y)
      BY <3>2, Zenon DEF Alters
    <3>11. \A q \in Objects : u.refs[q] = 0 => TextOf(u, ObjectPlace(q)) = <<>>
      BY <1>2, <3>5, <3>7, <3>8, <3>9, <3>10, Zenon DEF x
    <3>12. \A y \in Places :
              (\A q \in Objects : y = ObjectPlace(q) => u.refs[q] # 0)
                  => TextOf(u, y) = TextOf(s, y)
      BY <2>2, <3>5, <3>8, <3>10, Zenon DEF x
    <3> QED
      BY <3>4, <3>6, <3>9, <3>11, <3>12, Zenon
  <2>3. CASE o \in Objects /\ s.refs[o] # 1
    <3>1. u.mem = s.mem /\ u.mac = s.mac
      BY <2>3 DEF Unnamed
    <3>2. u.names = s.names /\ u.refs = [s.refs EXCEPT ![o] = @ - 1]
      BY <2>3 DEF Unnamed, Owing
    <3>3. \A y : TextOf(u, y) = TextOf(s, y)
      BY <3>1 DEF TextOf
    <3>4. Sound(u) = Sound(s)
      BY <3>1 DEF Sound
    <3>5. \A q \in Objects : u.refs[q] = 0 => s.refs[q] = 0
      BY <1>3, <2>3, <3>2
    <3> HIDE DEF u
    <3> QED
      BY <1>2, <3>2, <3>3, <3>4, <3>5, Zenon
  <2> QED
    BY <2>1, <2>2, <2>3, Zenon
<1> HIDE DEF u
<1>5. \A y \in Places :
         \/ \E q \in Objects :
               /\ y = ObjectPlace(q) /\ u.refs[q] = 0
               /\ TextOf(u, y) = <<>>
         \/ /\ \A q \in Objects : y = ObjectPlace(q) => u.refs[q] # 0
            /\ TextOf(u, y) = TextOf(s, y)
  BY <1>4, Zenon
<1>6. ContentsOf(u) = Live(u.names, ContentsOf(s))
  BY <1>1, <1>5, LiveAre, Zenon
<1> QED
  BY <1>4, <1>6, Zenon DEF u

\* Only macros and memory matter to texts.
LEMMA SameTexts ==
    ASSUME NEW s, NEW t, t.mem = s.mem, t.mac = s.mac
    PROVE  /\ \A y : TextOf(t, y) = TextOf(s, y)
           /\ Sound(t) = Sound(s) /\ ContentsOf(t) = ContentsOf(s)
BY DEF TextOf, Sound, ContentsOf

\* The name n gets another object o, of which a reference was owing.
LEMMA LinkTexts ==
    ASSUME NEW s, NEW n \in Names, NEW o \in Referents, Owing(s, o), Sound(s),
           VacantBut(s, NoObject)
    PROVE  LET l == [s.names EXCEPT ![n] = o]
           IN  /\ Sound(Link(s, n, o)) /\ Link(s, n, o).names = l
               /\ ContentsOf(Link(s, n, o)) = Live(l, ContentsOf(s))
<1> DEFINE t == [s EXCEPT !.names[n] = o]
           l == [s.names EXCEPT ![n] = o]
           k == s.names[n]
<1>1. /\ Owing(t, k) /\ k \in Referents
      /\ t.mem = s.mem /\ t.mac = s.mac /\ t.refs = s.refs /\ t.names = l
  BY LinkOwes
<1>2. Link(s, n, o) = Unnamed(t, k)
  BY DEF Link
<1> HIDE DEF t, l, k
<1>3. Sound(t) /\ ContentsOf(t) = ContentsOf(s)
      /\ \A y : TextOf(t, y) = TextOf(s, y)
  BY <1>1, SameTexts, Zenon
<1>4. VacantBut(t, NoObject)
  BY <1>1, <1>3, Zenon DEF VacantBut
<1>5. /\ Sound(Unnamed(t, k)) /\ Unnamed(t, k).names = t.names
      /\ ContentsOf(Unnamed(t, k)) = Live(t.names, ContentsOf(t))
  BY <1>1, <1>3, <1>4, UnnamedTexts, Zenon
<1> QED
  BY <1>1, <1>2, <1>3, <1>5, Zenon DEF l

\* The name n gets o, which may have a text already.
LEMMA DefineTexts ==
    ASSUME NEW s, NEW n \in Names, NEW o \in Referents, StoreInv(s), Sound(s),
           VacantBut(s, o)
    PROVE  LET l == [s.names EXCEPT ![n] = o]
           IN  /\ Sound(Define(s, n, o)) /\ Define(s, n, o).names = l
               /\ ContentsOf(Define(s, n, o)) = Live(l, ContentsOf(s))
<1> DEFINE t == Named(s, o)
<1>1. /\ Owing(t, o) /\ t.mem = s.mem /\ t.mac = s.mac /\ t.names = s.names
      /\ \A q \in Objects : t.refs[q] = s.refs[q] + IF q = o THEN 1 ELSE 0
  BY NamedOwes
<1>2. Define(s, n, o) = Link(t, n, o)
  BY DEF Define
<1>3. \A q \in Objects : s.refs[q] \in Nat
  BY DEF StoreInv, Owing, Surplus
<1> HIDE DEF t
<1>4. Sound(t) /\ ContentsOf(t) = ContentsOf(s)
      /\ \A y : TextOf(t, y) = TextOf(s, y)
  BY <1>1, SameTexts, Zenon
<1>5. \A q \in Objects : t.refs[q] = 0 => q # o /\ s.refs[q] = 0
  BY <1>1, <1>3
<1>6. VacantBut(t, NoObject)
  BY <1>4, <1>5, Zenon DEF VacantBut
<1>7. LET l == [t.names EXCEPT ![n] = o]
      IN  /\ Sound(Link(t, n, o)) /\ Link(t, n, o).names = l
          /\ ContentsOf(Link(t, n, o)) = Live(l, ContentsOf(t))
  BY <1>1, <1>4, <1>6, LinkTexts, Zenon
<1> QED
  BY <1>1, <1>2, <1>4, <1>7, Zenon

\* The name n gets none.
LEMMA UnlinkTexts ==
    ASSUME NEW s, NEW n \in Names, StoreInv(s), Sound(s),
           VacantBut(s, NoObject)
    PROVE  /\ Sound(Unlink(s, n)) /\ VacantBut(Unlink(s, n), NoObject)
           /\ Unlink(s, n).names = [s.names EXCEPT ![n] = NoObject]
           /\ ContentsOf(Unlink(s, n)) = ContentsOf(s)
<1> DEFINE t == Unlink(s, n)
<1>1. /\ t.mem = s.mem /\ t.mac = s.mac /\ t.refs = s.refs
      /\ t.names = [s.names EXCEPT ![n] = NoObject]
  BY UnlinkKeeps
<1> HIDE DEF t
<1>2. Sound(t) /\ ContentsOf(t) = ContentsOf(s)
      /\ \A y : TextOf(t, y) = TextOf(s, y)
  BY <1>1, SameTexts, Zenon
<1>3. VacantBut(t, NoObject)
  BY <1>1, <1>2, Zenon DEF VacantBut
<1> QED
  BY <1>1, <1>2, <1>3, Zenon DEF t

\* The text at x is moved to y.
LEMMA MovedTexts ==
    ASSUME NEW s, StoreInv(s), Sound(s), NEW x \in Places, NEW y \in Places,
           x # y
    PROVE  LET t == Moved(s, x, y)
           IN  /\ Sound(t) /\ t.names = s.names /\ t.refs = s.refs
               /\ ContentsOf(t) =
                      Altered(Altered(ContentsOf(s), y, TextOf(s, x)), x, <<>>)
<1> DEFINE a == Assign(s, y, x)
           d == Destroy(a, x)
<1>1. Owing(s, NoObject)
  BY DEF StoreInv
<1>2. Alters(s, a, y, TextOf(s, x)) /\ Owing(a, NoObject)
  BY <1>1, AssignAlters, AssignKeeps
<1>3. a.names = s.names /\ a.refs = s.refs
  BY <1>1 DEF Assign, Owing
<1> HIDE DEF a
<1>4. d.names = a.names /\ d.refs = a.refs
  BY <1>2 DEF Destroy, Owing
<1>5. Sound(a) /\ ContentsOf(a) = Altered(ContentsOf(s), y, TextOf(s, x))
  BY <1>2, ContentsAltered
<1>6. Alters(a, d, x, <<>>)
  BY <1>2, <1>5, DestroyAlters
<1> HIDE DEF d
<1>7. Sound(d) /\ ContentsOf(d) = Altered(ContentsOf(a), x, <<>>)
  BY <1>6, ContentsAltered
<1>8. Moved(s, x, y) = d
  BY DEF Moved, d, a
<1> QED
  BY <1>3, <1>4, <1>5, <1>7, <1>8, Zenon

\* A name of an object with a name does not make a difference.
LEMMA VacantAfter ==
    ASSUME NEW s, NEW t, VacantBut(s, NoObject), t.refs = s.refs,
           NEW o, NEW x, NEW w, x \in Places, \A q \in Objects : x # ObjectPlace(q),
           o \in Objects,
           ContentsOf(t) = Altered(Altered(ContentsOf(s), ObjectPlace(o), w), x, <<>>)
    PROVE  VacantBut(t, o)
<1>1. SUFFICES ASSUME NEW q \in Objects \ {o}, s.refs[q] = 0
               PROVE  TextOf(t, ObjectPlace(q)) = <<>>
  BY Zenon DEF VacantBut
<1> DEFINE y == ObjectPlace(q)
<1>2. y \in Places /\ y # ObjectPlace(o) /\ y # x
  BY ObjectPlaces
<1>3. TextOf(s, y) = <<>>
  <2>1. NoObject \notin Objects
    BY MacrosAssumption
  <2> QED
    BY <1>1, <2>1 DEF VacantBut
<1> HIDE DEF y
<1>4. ContentsOf(t)[y] = ContentsOf(s)[y]
  <2>1. DOMAIN ContentsOf(s) = Places
    BY DEF ContentsOf
  <2>2. \A c : DOMAIN c = Places =>
            Altered(Altered(c, ObjectPlace(o), w), x, <<>>)[y] = c[y]
    BY <1>2 DEF Altered
  <2> QED
    BY <2>1, <2>2, Zenon
<1>5. ContentsOf(t)[y] = TextOf(t, y) /\ ContentsOf(s)[y] = TextOf(s, y)
  BY <1>2 DEF ContentsOf
<1> QED
  BY <1>3, <1>4, <1>5, Zenon DEF y

-----------------------------------------------------------------------------
\* What the operations do to the texts of memory.

\* The texts when that at x was moved to y.
Moving(c, x, y) == Altered(Altered(c, y, c[x]), x, <<>>)

LEMMA MovingTexts ==
    ASSUME NEW s, StoreInv(s), Sound(s), NEW x \in Places, NEW y \in Places,
           x # y
    PROVE  /\ Sound(Moved(s, x, y)) /\ Moved(s, x, y).names = s.names
           /\ Moved(s, x, y).refs = s.refs
           /\ ContentsOf(Moved(s, x, y)) = Moving(ContentsOf(s), x, y)
<1>1. ContentsOf(s)[x] = TextOf(s, x)
  BY DEF ContentsOf
<1> QED
  BY <1>1, MovedTexts, Zenon DEF Moving

\* The text at x becomes that of o, or if that is none, of a new object that
\* the name n gets.
LEMMA StoredTexts ==
    ASSUME NEW s, StoreInv(s), Sound(s), VacantBut(s, NoObject), s.refs = refs,
           NEW x \in Places, \A q \in Objects : x # ObjectPlace(q),
           NEW n \in Names, NEW o, CanStore(o)
    PROVE  LET u == Stored(s, n, o, x)
           IN  /\ Sound(u)
               /\ o \in Objects =>
                     /\ u.names = s.names
                     /\ ContentsOf(u) = Moving(ContentsOf(s), x, ObjectPlace(o))
               /\ o \notin Objects =>
                     /\ u.names = [s.names EXCEPT ![n] = NewObject]
                     /\ ContentsOf(u) =
                            Live([s.names EXCEPT ![n] = NewObject],
                                 Moving(ContentsOf(s), x, ObjectPlace(NewObject)))
<1> DEFINE u == Stored(s, n, o, x)
<1>1. CASE o \in Objects
  <2>1. u = Moved(s, x, ObjectPlace(o))
    BY <1>1 DEF Stored
  <2>2. ObjectPlace(o) \in Places /\ x # ObjectPlace(o)
    BY <1>1, ObjectPlaces
  <2> HIDE DEF u
  <2>3. /\ Sound(u) /\ u.names = s.names
        /\ ContentsOf(u) = Moving(ContentsOf(s), x, ObjectPlace(o))
    BY <2>1, <2>2, MovingTexts
  <2> QED
    BY <1>1, <2>3, Zenon DEF u
<1>2. CASE o \notin Objects
  <2> DEFINE p == NewObject
             y == ObjectPlace(p)
             t == Moved(s, x, y)
  <2>1. p \in Objects /\ p \in Referents
    BY <1>2, NewObjectIs DEF CanStore
  <2>2. u = Define(t, n, p)
    BY <1>2 DEF Stored
  <2> HIDE DEF p
  <2>3. y \in Places /\ x # y
    BY <2>1, ObjectPlaces
  <2> HIDE DEF t, u
  <2>4. /\ Sound(t) /\ t.names = s.names /\ t.refs = s.refs
        /\ ContentsOf(t) = Moving(ContentsOf(s), x, y)
    BY <2>3, MovingTexts DEF t
  <2>5. StoreInv(t)
    BY <2>3, MovedKeeps DEF t
  <2>6. VacantBut(t, p)
    BY <2>1, <2>4, VacantAfter DEF Moving
  <2> HIDE DEF y
  <2> DEFINE l == [t.names EXCEPT ![n] = p]
  <2>7. /\ Sound(u) /\ u.names = l /\ ContentsOf(u) = Live(l, ContentsOf(t))
    BY <2>1, <2>2, <2>4, <2>5, <2>6, DefineTexts
  <2>8. l = [s.names EXCEPT ![n] = p]
    BY <2>4
  <2> HIDE DEF l
  <2>9. /\ Sound(u) /\ u.names = [s.names EXCEPT ![n] = p]
        /\ ContentsOf(u) = Live([s.names EXCEPT ![n] = p],
                                Moving(ContentsOf(s), x, y))
    BY <2>4, <2>7, <2>8, Zenon
  <2> QED
    BY <1>2, <2>9, Zenon DEF u, p, y
<1> QED
  BY <1>1, <1>2
-----------------------------------------------------------------------------
\* The texts of memory.
Contents == ContentsOf(Store)

\* A step changes the text at x to w, and nothing else; or the dictionary
\* becomes l, and texts become c, without the objects that have no name.
Changed(x, w) ==
    Sound(Store)' /\ names' = names /\ Contents' = Altered(Contents, x, w)

Relinked(l, c) ==
    Sound(Store)' /\ names' = l /\ Contents' = Live(l, c)

LEMMA ContentsAre ==
    ASSUME NEW x \in Places
    PROVE  Contents[x] = TextOf(Store, x)
BY DEF Contents, ContentsOf

LEMMA SoundBecomes ==
    ASSUME NEW s, Becomes(s), Sound(s)
    PROVE  Sound(Store)'
BY DEF Becomes, Sound, Store

LEMMA ContentsBecome ==
    ASSUME NEW s, Becomes(s)
    PROVE  Contents' = ContentsOf(s)
BY DEF Becomes, Contents, ContentsOf, TextOf, Store

LEMMA AltersChanges ==
    ASSUME NEW s, Becomes(s), s.names = names, NEW x \in Places, NEW w,
           Alters(Store, s, x, w)
    PROVE  Changed(x, w)
<1>1. Sound(s) /\ ContentsOf(s) = Altered(Contents, x, w)
  BY ContentsAltered DEF Contents
<1>2. names' = names
  BY DEF Becomes
<1>3. Sound(Store)'
  BY <1>1, SoundBecomes
<1>4. Contents' = ContentsOf(s)
  BY ContentsBecome
<1> QED
  BY <1>1, <1>2, <1>3, <1>4, Zenon DEF Changed

LEMMA LiveRelinks ==
    ASSUME NEW s, Becomes(s), Sound(s), NEW l, NEW c, s.names = l,
           ContentsOf(s) = Live(l, c)
    PROVE  Relinked(l, c)
<1>1. names' = l
  BY DEF Becomes
<1>2. Sound(Store)'
  BY SoundBecomes
<1>3. Contents' = ContentsOf(s)
  BY ContentsBecome
<1> QED
  BY <1>1, <1>2, <1>3, Zenon DEF Relinked

\* The operations on macros do not change the dictionary.
KeepsNames(s, t) == t.names = s.names /\ t.refs = s.refs

LEMMA NamesKept ==
    ASSUME NEW s, NEW o, Owing(s, o), NEW x, NEW y, NEW c
    PROVE  /\ KeepsNames(s, Assign(s, x, y)) /\ KeepsNames(s, Destroy(s, x))
           /\ KeepsNames(s, AppendCell(s, x, c))
           /\ KeepsNames(s, Filled(s, x, c))
           /\ KeepsNames(s, ChopAt(s, x, c))
<1>0. DOMAIN s = {"mem", "mac", "names", "refs"}
  BY DEF Owing
<1>1. KeepsNames(s, Assign(s, x, y))
  BY <1>0 DEF KeepsNames, Assign
<1>2. KeepsNames(s, Destroy(s, x))
  BY <1>0 DEF KeepsNames, Destroy
<1>3. KeepsNames(s, InPlace(s, x, c)) /\ KeepsNames(s, OnCopy(s, x, c))
  BY <1>0 DEF KeepsNames, InPlace, OnCopy
<1>4. KeepsNames(s, AppendCell(s, x, c))
  BY <1>3, Zenon DEF AppendCell
<1>5. KeepsNames(s, Filled(s, x, c))
  BY <1>0 DEF KeepsNames, Filled
<1>6. KeepsNames(s, ChopAt(s, x, c))
  BY <1>0 DEF KeepsNames, ChopAt
<1> QED
  BY <1>1, <1>2, <1>4, <1>5, <1>6, Zenon

LEMMA AltersTwice ==
    ASSUME NEW s, NEW t, NEW u, NEW x, NEW v, NEW w, Alters(s, t, x, v),
           Alters(t, u, x, w)
    PROVE  Alters(s, u, x, w)
BY Zenon DEF Alters

LEMMA AltersNot ==
    ASSUME NEW s, Sound(s), NEW x
    PROVE  Alters(s, s, x, TextOf(s, x))
BY Zenon DEF Alters

\* What every state has: objects without a name have no text.
Tidy == CountInv /\ Sound(Store) /\ VacantBut(Store, NoObject)

LEMMA StoreIs ==
    ASSUME CountInv
    PROVE  /\ StoreInv(Store) /\ Owing(Store, NoObject)
           /\ Store.names = names /\ Store.refs = refs
BY DEF CountInv, StoreInv, Store

\* One operation on the macro at x.
LEMMA AppendChanges ==
    ASSUME CountInv, Sound(Store), NEW x \in Places, NEW c \in Cells,
           CanAppend(Store, x), Becomes(AppendCell(Store, x, c))
    PROVE  Changed(x, Append(Contents[x], c))
<1> DEFINE t == AppendCell(Store, x, c)
<1>1. Alters(Store, t, x, Append(TextOf(Store, x), c))
  BY StoreIs, AppendCellAlters
<1>2. t.names = names
  BY StoreIs, NamesKept DEF KeepsNames
<1> HIDE DEF t
<1>3. Changed(x, Append(TextOf(Store, x), c))
  BY <1>1, <1>2, AltersChanges, Zenon DEF t
<1> QED
  BY <1>3, ContentsAre, Zenon

LEMMA AssignChanges ==
    ASSUME CountInv, Sound(Store), NEW x \in Places, NEW y \in Places,
           Becomes(Assign(Store, x, y))
    PROVE  Changed(x, Contents[y])
<1> DEFINE t == Assign(Store, x, y)
<1>1. Alters(Store, t, x, TextOf(Store, y))
  BY StoreIs, AssignAlters
<1>2. t.names = names
  BY StoreIs, NamesKept DEF KeepsNames
<1> HIDE DEF t
<1>3. Changed(x, TextOf(Store, y))
  BY <1>1, <1>2, AltersChanges, Zenon DEF t
<1> QED
  BY <1>3, ContentsAre, Zenon

LEMMA DestroyChanges ==
    ASSUME CountInv, Sound(Store), NEW x \in Places,
           Becomes(Destroy(Store, x))
    PROVE  Changed(x, <<>>)
<1> DEFINE t == Destroy(Store, x)
<1>1. Alters(Store, t, x, <<>>)
  BY StoreIs, DestroyAlters
<1>2. t.names = names
  BY StoreIs, NamesKept DEF KeepsNames
<1> HIDE DEF t
<1> QED
  BY <1>1, <1>2, AltersChanges, Zenon DEF t

LEMMA FilledChanges ==
    ASSUME CountInv, Sound(Store), NEW x \in Places, NEW u \in Seq(Cells),
           HasFree(Store), Becomes(Filled(Store, x, u))
    PROVE  Changed(x, u)
<1> DEFINE t == Filled(Store, x, u)
<1>1. Alters(Store, t, x, u)
  BY StoreIs, FilledAlters
<1>2. t.names = names
  BY StoreIs, NamesKept DEF KeepsNames
<1> HIDE DEF t
<1> QED
  BY <1>1, <1>2, AltersChanges, Zenon DEF t

LEMMA ChopAtChanges ==
    ASSUME CountInv, Sound(Store), NEW x \in Places,
           NEW n \in 1..Len(Contents[x]), Becomes(ChopAt(Store, x, n)),
           Contents[x][n] = Pop => n > 1 /\ mem[mac[x].p].count <= 1
    PROVE  Changed(x, Without(Contents[x], n))
<1> DEFINE t == ChopAt(Store, x, n)
<1>0. Contents[x] = TextOf(Store, x) /\ Store.mem = mem /\ Store.mac = mac
  BY ContentsAre DEF Store
<1>1. Alters(Store, t, x, Without(TextOf(Store, x), n))
  BY <1>0, StoreIs, ChopAtAlters
<1>2. t.names = names
  BY StoreIs, NamesKept DEF KeepsNames
<1> HIDE DEF t
<1> QED
  BY <1>0, <1>1, <1>2, AltersChanges, Zenon DEF t

\* A text begins with what there is at x, or with that of the object.
OriginalText(x, n, append) ==
    IF append /\ names[n] \in Objects THEN Contents[ObjectPlace(names[n])]
    ELSE Contents[x]

LEMMA OriginalAlters ==
    ASSUME CountInv, Sound(Store), NEW x \in Places, NEW n, NEW append
    PROVE  /\ Alters(Store, Original(x, n, append), x, OriginalText(x, n, append))
           /\ Original(x, n, append).names = names
<1>1. CASE append /\ names[n] \in Objects
  <2> DEFINE y == ObjectPlace(names[n])
             t == Assign(Store, x, y)
  <2>1. y \in Places
    BY <1>1, ObjectPlaces
  <2>2. Alters(Store, t, x, TextOf(Store, y))
    BY <2>1, StoreIs, AssignAlters
  <2>3. t.names = names
    BY StoreIs, NamesKept DEF KeepsNames
  <2>4. Original(x, n, append) = t
    BY <1>1 DEF Original
  <2>5. OriginalText(x, n, append) = TextOf(Store, y)
    BY <1>1, <2>1, ContentsAre DEF OriginalText
  <2> HIDE DEF t, y
  <2> QED
    BY <2>2, <2>3, <2>4, <2>5, Zenon
<1>2. CASE ~(append /\ names[n] \in Objects)
  <2>1. Original(x, n, append) = Store
    BY <1>2, Zenon DEF Original
  <2>2. OriginalText(x, n, append) = TextOf(Store, x)
    BY <1>2, ContentsAre, Zenon DEF OriginalText
  <2> QED
    BY <2>1, <2>2, StoreIs, AltersNot, Zenon
<1> QED
  BY <1>1, <1>2, Zenon

LEMMA OriginalChanges ==
    ASSUME CountInv, Sound(Store), NEW x \in Places, NEW n, NEW append,
           Becomes(Original(x, n, append))
    PROVE  Changed(x, OriginalText(x, n, append))
BY OriginalAlters, AltersChanges, Zenon

\* ... and perhaps with a token that saves the mode.
LEMMA BeginningChanges ==
    ASSUME CountInv, Sound(Store), NEW x \in Places, NEW n \in Names,
           NEW append \in BOOLEAN,
           CanAppend(Original(x, n, append), x),
           Becomes(AppendCell(Original(x, n, append), x, Push))
    PROVE  Changed(x, Append(OriginalText(x, n, append), Push))
<1> DEFINE s == Original(x, n, append)
           t == AppendCell(s, x, Push)
           w == OriginalText(x, n, append)
<1>1. Alters(Store, s, x, w) /\ s.names = names
  BY OriginalAlters, Zenon
<1>2. StoreInv(s)
  BY OriginalKeeps
<1>3. Owing(s, NoObject)
  BY <1>2 DEF StoreInv
<1>4. Push \in Cells
  BY DEF Cells, Modes
<1> HIDE DEF s, w
<1>5. Sound(s) /\ TextOf(s, x) = w
  BY <1>1, Zenon DEF Alters
<1>6. Alters(s, t, x, Append(TextOf(s, x), Push))
  BY <1>3, <1>4, <1>5, AppendCellAlters, Zenon DEF s
<1>7. t.names = s.names
  BY <1>3, NamesKept DEF KeepsNames
<1>8. Becomes(t)
  BY Zenon DEF s
<1> HIDE DEF t
<1>9. Alters(Store, t, x, Append(w, Push))
  BY <1>1, <1>5, <1>6, AltersTwice, Zenon
<1>10. t.names = names
  BY <1>1, <1>7, Zenon
<1>11. Changed(x, Append(w, Push))
  BY <1>8, <1>9, <1>10, AltersChanges, Zenon
<1> QED
  BY <1>11 DEF w

LEMMA TidyIs ==
    ASSUME Tidy
    PROVE  /\ StoreInv(Store) /\ Sound(Store) /\ Store.names = names
           /\ Store.refs = refs /\ ContentsOf(Store) = Contents
           /\ VacantBut(Store, NoObject) /\ \A o : VacantBut(Store, o)
<1>1. StoreInv(Store) /\ Store.names = names /\ Store.refs = refs
  BY StoreIs, Zenon DEF Tidy
<1>2. VacantBut(Store, NoObject) /\ Sound(Store)
  BY Zenon DEF Tidy
<1>3. NoObject \notin Objects
  BY MacrosAssumption
<1>4. \A o : VacantBut(Store, o)
  BY <1>2, <1>3, Zenon DEF VacantBut
<1> QED
  BY <1>1, <1>2, <1>4, Zenon DEF Contents

LEMMA NewObjectFree ==
    ASSUME FreeObjects # {}
    PROVE  /\ NewObject \in Objects /\ NewObject \in Referents
           /\ refs[NewObject] = 0 /\ ObjectPlace(NewObject) \in Places
BY ObjectPlaces DEF FreeObjects, NewObject, Referents

\* A name gets an object.
LEMMA DefineRelinks ==
    ASSUME Tidy, NEW n \in Names, NEW o \in Referents,
           Becomes(Define(Store, n, o))
    PROVE  Relinked([names EXCEPT ![n] = o], Contents)
<1> DEFINE u == Define(Store, n, o)
           l == [names EXCEPT ![n] = o]
<1>1. Sound(u) /\ u.names = l /\ ContentsOf(u) = Live(l, Contents)
  BY TidyIs, DefineTexts
<1> HIDE DEF u, l
<1>2. Becomes(u)
  BY DEF u
<1>3. Relinked(l, Contents)
  BY <1>1, <1>2, LiveRelinks, Zenon
<1> QED
  BY <1>3 DEF l

\* A name gets a new object with a text.
LEMMA FilledRelinks ==
    ASSUME Tidy, NEW n \in Names, FreeObjects # {}, NEW w \in Seq(Cells),
           HasFree(Store), NEW y, y = ObjectPlace(NewObject),
           Becomes(Define(Filled(Store, y, w), n, NewObject))
    PROVE  Relinked([names EXCEPT ![n] = NewObject], Altered(Contents, y, w))
<1> DEFINE o == NewObject
           t == Filled(Store, y, w)
           u == Define(t, n, o)
           l == [names EXCEPT ![n] = o]
<1>1. o \in Objects /\ o \in Referents /\ y \in Places
  BY NewObjectFree
<1>2. Owing(Store, NoObject) /\ Sound(Store)
  BY StoreIs, Zenon DEF Tidy
<1>3. Alters(Store, t, y, w)
  BY <1>1, <1>2, FilledAlters
<1>4. Owing(t, NoObject)
  BY <1>1, <1>2, FilledKeeps
<1>5. t.names = names /\ t.refs = refs
  BY <1>2, TidyIs, NamesKept DEF KeepsNames
<1> HIDE DEF t, o
<1>6. StoreInv(t)
  BY <1>4 DEF StoreInv
<1>7. Sound(t) /\ ContentsOf(t) = Altered(Contents, y, w)
  BY <1>1, <1>3, ContentsAltered, ZenonT(30) DEF Contents
<1>8. VacantBut(t, o)
  <2>1. SUFFICES ASSUME NEW q \in Objects \ {o}, t.refs[q] = 0
                 PROVE  TextOf(t, ObjectPlace(q)) = <<>>
    BY Zenon DEF VacantBut
  <2>2. ObjectPlace(q) \in Places \ {y}
    BY <1>1, ObjectPlaces DEF o
  <2>3. TextOf(t, ObjectPlace(q)) = TextOf(Store, ObjectPlace(q))
    BY <1>3, <2>2, Zenon DEF Alters
  <2>4. TextOf(Store, ObjectPlace(q)) = <<>>
    <3>1. VacantBut(Store, o) /\ Store.refs = refs
      BY TidyIs, Zenon
    <3> QED
      BY <1>5, <2>1, <3>1, Zenon DEF VacantBut
  <2> QED
    BY <2>3, <2>4, Zenon
<1>9. /\ Sound(u) /\ u.names = [t.names EXCEPT ![n] = o]
      /\ ContentsOf(u) = Live([t.names EXCEPT ![n] = o], ContentsOf(t))
  BY <1>1, <1>6, <1>7, <1>8, DefineTexts
<1>10. Becomes(u)
  BY DEF u, t, o
<1> HIDE DEF u
<1>11. [t.names EXCEPT ![n] = o] = l
  BY <1>5
<1> HIDE DEF l
<1>12. /\ Sound(u) /\ u.names = l
       /\ ContentsOf(u) = Live(l, Altered(Contents, y, w))
  BY <1>7, <1>9, <1>11, Zenon
<1>13. Relinked(l, Altered(Contents, y, w))
  BY <1>10, <1>12, LiveRelinks, Zenon
<1> QED
  BY <1>13, Zenon DEF l, o

\* A name is renamed, or removed.
LEMMA RenamedRelinks ==
    ASSUME Tidy, NEW a \in Names, NEW b \in Names,
           Becomes(Renamed(Store, a, b))
    PROVE  Relinked([[names EXCEPT ![a] = NoObject] EXCEPT ![b] = names[a]],
                    Contents)
<1> DEFINE s == Unlink(Store, a)
           o == names[a]
           u == Link(s, b, o)
           k == [names EXCEPT ![a] = NoObject]
           l == [k EXCEPT ![b] = o]
<1>0. StoreInv(Store) /\ Store.names = names
  BY TidyIs, Zenon
<1>1. Owing(s, o) /\ o \in Referents
  BY <1>0, UnlinkKeeps
<1>2. /\ Sound(s) /\ VacantBut(s, NoObject) /\ s.names = k
      /\ ContentsOf(s) = Contents
  BY <1>0, TidyIs, UnlinkTexts
<1>3. Renamed(Store, a, b) = u
  BY <1>0, Zenon DEF Renamed
<1> HIDE DEF s, o, k
<1>4. /\ Sound(u) /\ u.names = [s.names EXCEPT ![b] = o]
      /\ ContentsOf(u) = Live([s.names EXCEPT ![b] = o], ContentsOf(s))
  BY <1>1, <1>2, LinkTexts
<1>5. [s.names EXCEPT ![b] = o] = l
  BY <1>2
<1> HIDE DEF u, l
<1>6. Sound(u) /\ u.names = l /\ ContentsOf(u) = Live(l, Contents)
  BY <1>2, <1>4, <1>5, Zenon
<1>7. Relinked(l, Contents)
  BY <1>3, <1>6, LiveRelinks, Zenon
<1> QED
  BY <1>7, Zenon DEF l, k, o

LEMMA RemovedRelinks ==
    ASSUME Tidy, NEW n \in Names,
           Becomes(Unnamed(Unlink(Store, n), names[n]))
    PROVE  Relinked([names EXCEPT ![n] = NoObject], Contents)
<1> DEFINE s == Unlink(Store, n)
           o == names[n]
           u == Unnamed(s, o)
           l == [names EXCEPT ![n] = NoObject]
<1>0. StoreInv(Store) /\ Store.names = names
  BY TidyIs, Zenon
<1>1. Owing(s, o) /\ o \in Referents
  BY <1>0, UnlinkKeeps
<1>2. /\ Sound(s) /\ VacantBut(s, NoObject) /\ s.names = l
      /\ ContentsOf(s) = Contents
  BY <1>0, TidyIs, UnlinkTexts
<1>3. Becomes(u)
  BY DEF u, s, o
<1> HIDE DEF s, o, l
<1>4. /\ Sound(u) /\ u.names = s.names
      /\ ContentsOf(u) = Live(s.names, ContentsOf(s))
  BY <1>1, <1>2, UnnamedTexts
<1> HIDE DEF u
<1>5. Sound(u) /\ u.names = l /\ ContentsOf(u) = Live(l, Contents)
  BY <1>2, <1>4, Zenon
<1>6. Relinked(l, Contents)
  BY <1>3, <1>5, LiveRelinks, Zenon
<1> QED
  BY <1>6, Zenon DEF l
-----------------------------------------------------------------------------
\* The text at x became w, and that becomes the text of o, or of a new object
\* of the name n.
Final(x, y, w) == Altered(Altered(Contents, y, w), x, <<>>)

Ended(x, w, n, o) ==
    /\ o \in Objects =>
          /\ Sound(Store)' /\ names' = names
          /\ Contents' = Final(x, ObjectPlace(o), w)
    /\ o \notin Objects =>
          Relinked([names EXCEPT ![n] = NewObject],
                   Final(x, ObjectPlace(NewObject), w))

LEMMA MovingIs ==
    ASSUME NEW x \in Places, NEW y \in Places, x # y, NEW w
    PROVE  /\ Moving(Contents, x, y) = Final(x, y, Contents[x])
           /\ Moving(Altered(Contents, x, w), x, y) = Final(x, y, w)
<1>1. Moving(Contents, x, y) = Final(x, y, Contents[x])
  BY Zenon DEF Moving, Final
<1>2. \A c : DOMAIN c = Places =>
         Moving(Altered(c, x, w), x, y) = Altered(Altered(c, y, w), x, <<>>)
  <2> SUFFICES ASSUME NEW c, DOMAIN c = Places
               PROVE  Moving(Altered(c, x, w), x, y) =
                          Altered(Altered(c, y, w), x, <<>>)
    OBVIOUS
  <2>1. Altered(c, x, w)[x] = w
    BY DEF Altered
  <2>2. Altered(Altered(Altered(c, x, w), y, w), x, <<>>) =
            Altered(Altered(c, y, w), x, <<>>)
    BY DEF Altered
  <2> QED
    BY <2>1, <2>2, Zenon DEF Moving
<1>3. DOMAIN Contents = Places
  BY DEF Contents, ContentsOf
<1> QED
  BY <1>1, <1>2, <1>3, Zenon DEF Final

LEMMA StoredEnds ==
    ASSUME NEW s, StoreInv(s), Sound(s), VacantBut(s, NoObject), s.refs = refs,
           s.names = names,
           NEW x \in Places, \A q \in Objects : x # ObjectPlace(q),
           NEW n \in Names, NEW o, CanStore(o), NEW w,
           \A y \in Places : x # y => Moving(ContentsOf(s), x, y) = Final(x, y, w),
           Becomes(Stored(s, n, o, x))
    PROVE  Ended(x, w, n, o)
<1> DEFINE u == Stored(s, n, o, x)
           l == [names EXCEPT ![n] = NewObject]
<1>1. Becomes(u)
  OBVIOUS
<1>2. /\ Sound(u)
      /\ o \in Objects =>
            /\ u.names = names
            /\ ContentsOf(u) = Moving(ContentsOf(s), x, ObjectPlace(o))
      /\ o \notin Objects =>
            /\ u.names = l
            /\ ContentsOf(u) =
                   Live(l, Moving(ContentsOf(s), x, ObjectPlace(NewObject)))
  BY StoredTexts
<1> HIDE DEF u, l
<1>3. CASE o \in Objects
  <2>1. ObjectPlace(o) \in Places /\ x # ObjectPlace(o)
    BY <1>3, ObjectPlaces
  <2>2. ContentsOf(u) = Final(x, ObjectPlace(o), w)
    BY <1>2, <1>3, <2>1, Zenon
  <2>3. Contents' = ContentsOf(u) /\ Sound(Store)'
    BY <1>1, <1>2, ContentsBecome, SoundBecomes
  <2>4. names' = u.names
    BY <1>1 DEF Becomes
  <2> QED
    BY <1>2, <1>3, <2>2, <2>3, <2>4, Zenon DEF Ended
<1>4. CASE o \notin Objects
  <2>1. NewObject \in Objects
    BY <1>4, NewObjectIs DEF CanStore
  <2>2. ObjectPlace(NewObject) \in Places /\ x # ObjectPlace(NewObject)
    BY <2>1, ObjectPlaces
  <2>3. ContentsOf(u) = Live(l, Final(x, ObjectPlace(NewObject), w))
    BY <1>2, <1>4, <2>2, Zenon
  <2>4. Relinked(l, Final(x, ObjectPlace(NewObject), w))
    BY <1>1, <1>2, <1>4, <2>3, LiveRelinks, Zenon
  <2> QED
    BY <1>4, <2>4, Zenon DEF Ended, l
<1> QED
  BY <1>3, <1>4, Zenon

LEMMA StoredNow ==
    ASSUME Tidy, NEW x \in Places, \A q \in Objects : x # ObjectPlace(q),
           NEW n \in Names, NEW o, CanStore(o),
           Becomes(Stored(Store, n, o, x))
    PROVE  Ended(x, Contents[x], n, o)
<1>1. \A y \in Places : x # y =>
         Moving(ContentsOf(Store), x, y) = Final(x, y, Contents[x])
  BY MovingIs, TidyIs
<1> QED
  BY <1>1, TidyIs, StoredEnds

LEMMA StoredAfter ==
    ASSUME Tidy, NEW x \in Places, \A q \in Objects : x # ObjectPlace(q),
           NEW n \in Names, NEW o, CanStore(o), NEW c \in Cells,
           CanAppend(Store, x),
           Becomes(Stored(AppendCell(Store, x, c), n, o, x))
    PROVE  Ended(x, Append(Contents[x], c), n, o)
<1> DEFINE s == AppendCell(Store, x, c)
           w == Append(Contents[x], c)
<1>0. Owing(Store, NoObject) /\ Sound(Store)
  BY StoreIs, Zenon DEF Tidy
<1>1. Alters(Store, s, x, Append(TextOf(Store, x), c))
  BY <1>0, AppendCellAlters
<1>2. Contents[x] = TextOf(Store, x)
  BY ContentsAre
<1>3. s.names = names /\ s.refs = refs
  BY <1>0, TidyIs, NamesKept DEF KeepsNames
<1>4. StoreInv(s)
  BY <1>0, AppendCellKeeps DEF CanAppend, StoreInv
<1>5. Becomes(Stored(s, n, o, x))
  OBVIOUS
<1> HIDE DEF s, w
<1>6. Alters(Store, s, x, w)
  BY <1>1, <1>2, Zenon DEF w
<1>7. Sound(s) /\ ContentsOf(s) = Altered(Contents, x, w)
  BY <1>6, ContentsAltered, SMTT(30) DEF Contents
<1>8. \A y \in Places : x # y =>
         Moving(ContentsOf(s), x, y) = Final(x, y, w)
  BY <1>7, MovingIs
<1>9. VacantBut(s, NoObject)
  <2>1. \A q \in Objects : TextOf(s, ObjectPlace(q)) = TextOf(Store, ObjectPlace(q))
    BY <1>6, ObjectPlaces DEF Alters
  <2>2. VacantBut(Store, NoObject) /\ Store.refs = refs
    BY TidyIs, Zenon
  <2> QED
    BY <1>3, <2>1, <2>2, Zenon DEF VacantBut
<1>10. Ended(x, w, n, o)
  BY <1>3, <1>4, <1>5, <1>7, <1>8, <1>9, StoredEnds
<1> QED
  BY <1>10 DEF w

-----------------------------------------------------------------------------
\* What is inductive about texts: the parts of TextInv.

IsObjectPlace(x) == \E o \in Objects : x = ObjectPlace(o)
Others == {y \in Places : ~IsObjectPlace(y)}

\* Objects without a name have no text, and no other has the name of the
\* object that a definition is for.  There is no text in the local variable
\* of a request, nor in a diversion, when there is none.  No iterator is
\* beyond the end.
Vacant == \A q \in Objects : Referrers(names, q) = {} => Contents[ObjectPlace(q)] = <<>>
Spare ==
    /\ draft = NoDraft => Contents[Local] = <<>>
    /\ \A i \in 1..MaxOpen : i > Len(open) => Contents[OpenPlace(i)] = <<>>
DraftNamed ==
    draft # NoDraft /\ draft.object \in Objects => names[draft.name] = draft.object
InputFits == \A i \in DOMAIN input : input[i] <= Len(Contents[InputPlace(i)])

TextInv ==
    /\ CountInv /\ Sound(Store) /\ Vacant /\ Spare /\ DraftNamed /\ InputFits
    /\ aborted \in BOOLEAN

LEMMA OthersAre ==
    ASSUME StackInv
    PROVE  /\ Local \in Others
           /\ \A i \in 1..MaxOpen : OpenPlace(i) \in Others
           /\ \A i \in 1..MaxInput : InputPlace(i) \in Others
           /\ \A i \in DOMAIN input : i \in 1..MaxInput
           /\ \A i \in DOMAIN open : i \in 1..MaxOpen
<1>1. /\ Local \in Others
      /\ \A i \in 1..MaxOpen : OpenPlace(i) \in Others
      /\ \A i \in 1..MaxInput : InputPlace(i) \in Others
  BY ObjectPlaces, Zenon DEF Others, IsObjectPlace, Places
<1>2. MaxOpen \in Nat /\ MaxInput \in Nat
  BY MacrosAssumption
<1>3. \A i \in DOMAIN input : i \in 1..MaxInput
  BY <1>2 DEF StackInv
<1>4. \A i \in DOMAIN open : i \in 1..MaxOpen
  BY <1>2 DEF StackInv
<1> QED
  BY <1>1, <1>3, <1>4, Zenon

LEMMA TidyNow ==
    ASSUME TextInv
    PROVE  Tidy
<1>1. StoreInv(Store) /\ Store.names = names
  BY StoreIs, Zenon DEF TextInv
<1>2. ASSUME NEW q \in Objects, Store.refs[q] = 0
      PROVE  TextOf(Store, ObjectPlace(q)) = <<>>
  <2>1. Referrers(names, q) = {}
    BY <1>1, <1>2, CountedNames
  <2>2. Contents[ObjectPlace(q)] = <<>>
    BY <2>1, Zenon DEF TextInv, Vacant
  <2> QED
    BY <2>2, ObjectPlaces, ContentsAre
<1>3. VacantBut(Store, NoObject)
  BY <1>2 DEF VacantBut
<1> QED
  BY <1>3, Zenon DEF TextInv, Tidy

\* Texts have their type.
LEMMA ContentsType ==
    ASSUME Sound(Store), NEW x \in Places
    PROVE  /\ Contents[x] \in Seq(Cells) /\ Len(Contents[x]) \in Nat
           /\ Len(Contents[x]) = mac[x].length
           /\ Len(Contents[x]) = 0 => Contents[x] = <<>>
<1>1. /\ Contents[x] \in Seq(Cells) /\ Len(Contents[x]) = Store.mac[x].length
  BY TextType, ContentsAre
<1>2. \A t \in Seq(Cells) : Len(t) \in Nat /\ (Len(t) = 0 => t = <<>>)
  OBVIOUS
<1>3. Store.mac = mac
  BY DEF Store
<1> QED
  BY <1>1, <1>2, <1>3, Zenon

-----------------------------------------------------------------------------
\* The text at y stays as long as it was.
Stays(y) ==
    /\ Len(Contents'[y]) = Len(Contents[y])
    /\ Contents[y] = <<>> => Contents'[y] = <<>>

LEMMA SameContents ==
    ASSUME UNCHANGED <<mem, mac, names, refs>>
    PROVE  /\ Contents' = Contents /\ names' = names
           /\ Sound(Store) => Sound(Store)'
BY DEF Contents, ContentsOf, TextOf, Sound, Store

LEMMA AlteredIs ==
    ASSUME NEW c, DOMAIN c = Places, NEW x \in Places, NEW w, NEW y
    PROVE  /\ Altered(c, x, w)[x] = w /\ DOMAIN Altered(c, x, w) = Places
           /\ y # x => Altered(c, x, w)[y] = c[y]
BY DEF Altered

LEMMA LiveIs ==
    ASSUME NEW l, NEW c, NEW y \in Places
    PROVE  /\ y \in Others => Live(l, c)[y] = c[y]
           /\ Live(l, c)[y] = c[y] \/ Live(l, c)[y] = <<>>
           /\ ~IsLost(l, y) => Live(l, c)[y] = c[y]
           /\ IsLost(l, y) => Live(l, c)[y] = <<>>
<1>1. y \in Others => ~IsLost(l, y)
  BY Zenon DEF IsLost, Others, IsObjectPlace
<1> QED
  BY <1>1 DEF Live

LEMMA ContentsDomain == DOMAIN Contents = Places
BY DEF Contents, ContentsOf

LEMMA ChangedIs ==
    ASSUME NEW x \in Places, NEW w, Changed(x, w)
    PROVE  /\ Sound(Store)' /\ names' = names /\ Contents'[x] = w
           /\ \A y : y # x => Contents'[y] = Contents[y]
           /\ \A y : y # x => Stays(y)
<1>1. Sound(Store)' /\ names' = names /\ Contents' = Altered(Contents, x, w)
  BY Zenon DEF Changed
<1>2. Contents'[x] = w /\ \A y : y # x => Contents'[y] = Contents[y]
  BY <1>1, AlteredIs, ContentsDomain
<1> QED
  BY <1>1, <1>2, Zenon DEF Stays

LEMMA RelinkedIs ==
    ASSUME NEW l, NEW c, Relinked(l, c)
    PROVE  /\ Sound(Store)' /\ names' = l
           /\ \A y \in Others : Contents'[y] = c[y]
           /\ \A q \in Objects : Contents'[ObjectPlace(q)] =
                 IF Referrers(l, q) = {} THEN <<>> ELSE c[ObjectPlace(q)]
<1>1. Sound(Store)' /\ names' = l /\ Contents' = Live(l, c)
  BY Zenon DEF Relinked
<1>2. \A y \in Others : Contents'[y] = c[y]
  BY <1>1, LiveIs DEF Others
<1>3. \A q \in Objects : IsLost(l, ObjectPlace(q)) <=> Referrers(l, q) = {}
  BY ObjectPlaces, Zenon DEF IsLost
<1>4. \A q \in Objects : Contents'[ObjectPlace(q)] =
         IF Referrers(l, q) = {} THEN <<>> ELSE c[ObjectPlace(q)]
  BY <1>1, <1>3, LiveIs, ObjectPlaces
<1> QED
  BY <1>1, <1>2, <1>4, Zenon

LEMMA FinalIs ==
    ASSUME NEW x \in Places, NEW y \in Places, x # y, NEW w
    PROVE  /\ Final(x, y, w)[x] = <<>> /\ Final(x, y, w)[y] = w
           /\ \A z : z # x /\ z # y => Final(x, y, w)[z] = Contents[z]
BY AlteredIs, ContentsDomain DEF Final

-----------------------------------------------------------------------------
\* Objects without a name have no text, after a change of texts or of names.
LEMMA VacantStays ==
    ASSUME Vacant, names' = names,
           \A q \in Objects : Referrers(names, q) = {} => Stays(ObjectPlace(q))
    PROVE  Vacant'
BY DEF Vacant, Stays

LEMMA VacantRelinked ==
    ASSUME NEW l, NEW c, Relinked(l, c)
    PROVE  Vacant'
<1>1. names' = l /\ \A q \in Objects : Contents'[ObjectPlace(q)] =
                 IF Referrers(l, q) = {} THEN <<>> ELSE c[ObjectPlace(q)]
  BY RelinkedIs
<1> QED
  BY <1>1 DEF Vacant

-----------------------------------------------------------------------------
\* Requests that change the texts of objects, or names.

\* A step that only changes objects.
Steady == Sound(Store)' /\ Vacant' /\ \A y \in Others : Stays(y)

LEMMA StaysSame ==
    ASSUME NEW y, Contents'[y] = Contents[y]
    PROVE  Stays(y)
BY Zenon DEF Stays

LEMMA SteadySame ==
    ASSUME TextInv, UNCHANGED <<mem, mac, names, refs>>
    PROVE  Steady
<1>1. Contents' = Contents /\ names' = names /\ Sound(Store)'
  BY SameContents DEF TextInv
<1>2. \A y : Stays(y)
  BY <1>1, StaysSame, Zenon
<1>3. Vacant'
  BY <1>1, <1>2, VacantStays, Zenon DEF TextInv
<1> QED
  BY <1>1, <1>2, <1>3, Zenon DEF Steady

LEMMA SteadyRelinked ==
    ASSUME TextInv, NEW l, NEW c, Relinked(l, c),
           \A y \in Others : c[y] = Contents[y]
    PROVE  Steady
<1>1. Sound(Store)' /\ \A y \in Others : Contents'[y] = c[y]
  BY RelinkedIs
<1>2. \A y \in Others : Stays(y)
  BY <1>1, StaysSame, Zenon
<1>3. Vacant'
  BY VacantRelinked
<1> QED
  BY <1>1, <1>2, <1>3, Zenon DEF Steady

LEMMA SteadyObject ==
    ASSUME TextInv, NEW n \in Names, names[n] \in Objects, names' = names,
           Sound(Store)', \A y \in Places \ {ObjectPlace(names[n])} : Stays(y)
    PROVE  Steady
<1> DEFINE o == names[n]
<1>1. o \in Objects /\ Referrers(names, o) # {}
  BY DEF Referrers
<1>2. ObjectPlace(o) \notin Others
  BY <1>1, Zenon DEF Others, IsObjectPlace
<1>3. \A q \in Objects : q # o => Stays(ObjectPlace(q))
  BY <1>1, ObjectPlaces
<1> HIDE DEF o
<1>4. \A q \in Objects : Referrers(names, q) = {} => Stays(ObjectPlace(q))
  BY <1>1, <1>3, Zenon
<1>5. Vacant'
  BY <1>4, VacantStays, Zenon DEF TextInv
<1>6. \A y \in Others : Stays(y)
  BY <1>2, Zenon DEF Others, o
<1> QED
  BY <1>5, <1>6, Zenon DEF Steady

LEMMA SteadyChanged ==
    ASSUME TextInv, NEW n \in Names, names[n] \in Objects, NEW w,
           Changed(ObjectPlace(names[n]), w)
    PROVE  Steady
<1>1. ObjectPlace(names[n]) \in Places
  BY ObjectPlaces
<1>2. /\ Sound(Store)' /\ names' = names
      /\ \A y : y # ObjectPlace(names[n]) => Stays(y)
  BY <1>1, ChangedIs
<1> QED
  BY <1>2, SteadyObject

LEMMA SteadyKeeps ==
    ASSUME TextInv, Steady, UNCHANGED <<draft, open, input>>
    PROVE  Spare' /\ InputFits'
<1>1. /\ Local \in Others
      /\ \A i \in 1..MaxOpen : OpenPlace(i) \in Others
      /\ \A i \in DOMAIN input : InputPlace(i) \in Others
  BY OthersAre, Zenon DEF TextInv, CountInv
<1>2. Spare'
  BY <1>1 DEF Steady, Stays, TextInv, Spare
<1>3. InputFits'
  BY <1>1 DEF Steady, Stays, TextInv, InputFits
<1> QED
  BY <1>2, <1>3

-----------------------------------------------------------------------------
\* The requests that change texts of objects, or names.
LEMMA TextFacts ==
    ASSUME TextInv
    PROVE  /\ CountInv /\ Sound(Store) /\ Tidy /\ StackInv
           /\ \A n \in Names : names[n] \in Referents
BY TidyNow, NamesAre, Zenon DEF TextInv, CountInv

LEMMA NoDraftNamed ==
    ASSUME draft = NoDraft, UNCHANGED draft
    PROVE  DraftNamed'
BY DEF DraftNamed

LEMMA DereferenceRelinks ==
    ASSUME TextInv, NEW n \in Names, Dereference(n)
    PROVE  Relinked([names EXCEPT ![n] = NewObject], Contents)
BY TextFacts, NewObjectFree, DefineRelinks DEF Dereference

LEMMA NamesRelink ==
    ASSUME TextInv, NEW a \in Names, NEW b \in Names
    PROVE  /\ Rn(a, b) =>
                 Relinked([[names EXCEPT ![a] = NoObject] EXCEPT ![b] = names[a]],
                          Contents)
           /\ Als(a, b) => Relinked([names EXCEPT ![a] = names[b]], Contents)
           /\ Rm(a) => Relinked([names EXCEPT ![a] = NoObject], Contents)
<1>1. Rn(a, b) => Relinked([[names EXCEPT ![a] = NoObject] EXCEPT ![b] = names[a]],
                           Contents)
  BY TextFacts, RenamedRelinks DEF Rn, Continue
<1>2. Als(a, b) => Relinked([names EXCEPT ![a] = names[b]], Contents)
  BY TextFacts, DefineRelinks DEF Als, Continue
<1>3. Rm(a) => Relinked([names EXCEPT ![a] = NoObject], Contents)
  BY TextFacts, RemovedRelinks DEF Rm, Continue
<1> QED
  BY <1>1, <1>2, <1>3

LEMMA DereferenceSteady ==
    ASSUME TextInv, NEW n \in Names, Dereference(n)
    PROVE  Steady /\ DraftNamed'
<1>1. Relinked([names EXCEPT ![n] = NewObject], Contents)
  BY DereferenceRelinks
<1>2. Steady
  BY <1>1, SteadyRelinked, Zenon
<1>3. names' = [names EXCEPT ![n] = NewObject] /\ draft' = draft
  BY <1>1 DEF Relinked, Dereference
<1>4. draft # NoDraft => draft.name \in Names
  BY DEF TextInv, CountInv, StackInv, Drafts
<1>5. NoObject \notin Objects /\ names[n] = NoObject
  BY MacrosAssumption DEF Dereference
<1>6. draft # NoDraft /\ draft.object \in Objects => names[draft.name] = draft.object
  BY DEF TextInv, DraftNamed
<1>7. \A m \in Names : m # n => names'[m] = names[m]
  BY <1>3
<1> QED
  BY <1>2, <1>3, <1>4, <1>5, <1>6, <1>7 DEF DraftNamed

LEMMA NamesSteady ==
    ASSUME TextInv, NEW a \in Names, NEW b \in Names,
           Rn(a, b) \/ Als(a, b) \/ Rm(a)
    PROVE  Steady /\ DraftNamed'
<1> DEFINE k == [names EXCEPT ![a] = NoObject]
           l == [k EXCEPT ![b] = names[a]]
           m == [names EXCEPT ![a] = names[b]]
<1>1. Relinked(l, Contents) \/ Relinked(m, Contents) \/ Relinked(k, Contents)
  BY NamesRelink
<1> HIDE DEF k, l, m
<1>2. Steady
  BY <1>1, SteadyRelinked, Zenon
<1>3. draft = NoDraft /\ UNCHANGED draft
  BY DEF Rn, Als, Rm, Interpreting
<1> QED
  BY <1>2, <1>3, NoDraftNamed, Zenon

LEMMA SelectedType ==
    ASSUME NEW t \in Seq(Cells), NEW S
    PROVE  Selected(t, S) \in Seq(Cells) /\ Selected(t, S) \in Seq(S)
<1>1. Selected(t, S) \in Seq({e \in Cells : e \in S})
  BY SelectedIn
<1>2. {e \in Cells : e \in S} \subseteq Cells /\ {e \in Cells : e \in S} \subseteq S
  OBVIOUS
<1>3. ASSUME NEW A, NEW B, A \subseteq B, NEW q \in Seq(A) PROVE q \in Seq(B)
  BY <1>3
<1> QED
  BY <1>1, <1>2, <1>3, Zenon

LEMMA SliceType ==
    ASSUME NEW E, NEW q \in Seq(E), NEW i \in Nat \ {0}, NEW j \in Nat,
           j <= Len(q)
    PROVE  SubSeq(q, i, j) \in Seq(E)
OBVIOUS

LEMMA WiderType ==
    ASSUME NEW A, NEW B, A \subseteq B, NEW q \in Seq(A)
    PROVE  q \in Seq(B)
OBVIOUS

Ascii(c) == IF c \in Nodes THEN Plain[c] ELSE <<c>>
Cased(c) == IF c \in Chars THEN Upper[c] ELSE c

LEMMA AsciiType ==
    ASSUME NEW c \in Cells
    PROVE  Ascii(c) \in Seq(Cells) /\ IsPiece(Ascii(c), c)
<1>1. CASE c \in Nodes
  <2>1. Plain[c] \in Seq(Chars)
    BY <1>1, MacrosAssumption
  <2>2. Chars \subseteq Elements /\ Chars \subseteq Cells
    BY DEF Elements, Cells
  <2>3. Plain[c] \in Seq(Elements) /\ Plain[c] \in Seq(Cells)
    BY <2>1, <2>2, WiderType, Zenon
  <2>4. c \notin Modes
    BY <1>1, ElementsAre DEF Elements
  <2> QED
    BY <1>1, <2>3, <2>4, Zenon DEF Ascii, IsPiece
<1>2. CASE c \in Chars /\ c \notin Nodes
  <2>1. c \in Elements /\ c \notin Modes
    BY <1>2, ElementsAre DEF Elements
  <2>2. <<c>> \in Seq(Elements) /\ <<c>> \in Seq(Cells)
    BY <2>1
  <2> QED
    BY <1>2, <2>1, <2>2, Zenon DEF Ascii, IsPiece
<1>3. CASE c \in Modes
  <2>1. c \notin Nodes
    BY <1>3, ElementsAre DEF Elements
  <2>2. <<c>> \in Seq(Cells)
    OBVIOUS
  <2> QED
    BY <1>3, <2>1, <2>2, Zenon DEF Ascii, IsPiece
<1> QED
  BY <1>1, <1>2, <1>3 DEF Cells, Elements

LEMMA CasedType ==
    ASSUME NEW c \in Cells
    PROVE  /\ Cased(c) \in Cells
           /\ IF c \in Modes THEN Cased(c) = c ELSE Cased(c) \notin Modes
<1>1. CASE c \in Chars
  <2>1. Upper[c] \in Chars
    BY <1>1, MacrosAssumption
  <2>2. Chars \subseteq Elements
    BY DEF Elements
  <2> QED
    BY <1>1, <2>1, <2>2, ElementsAre, Zenon DEF Cased
<1>2. CASE c \notin Chars
  BY <1>2, Zenon DEF Cased
<1> QED
  BY <1>1, <1>2

\* Every element of a text becomes another one, or a text.
LEMMA EachBecomes ==
    ASSUME NEW E, NEW F, NEW t \in Seq(E), NEW g,
           \A i \in DOMAIN t : g[i] \in F
    PROVE  LET u == [i \in DOMAIN t |-> g[i]]
           IN  u \in Seq(F) /\ Len(u) = Len(t) /\ \A i \in 1..Len(t) : u[i] = g[i]
OBVIOUS

LEMMA AsciifyIs ==
    ASSUME NEW t \in Seq(Cells)
    PROVE  LET q == [i \in DOMAIN t |-> Ascii(t[i])]
           IN  /\ q \in Seq(Seq(Cells)) /\ Len(q) = Len(t)
               /\ \A i \in 1..Len(t) : IsPiece(q[i], t[i])
<1> DEFINE q == [i \in DOMAIN t |-> Ascii(t[i])]
<1>1. DOMAIN t = 1..Len(t)
  OBVIOUS
<1>2. \A i \in DOMAIN t : t[i] \in Cells
  OBVIOUS
<1>3. \A i \in DOMAIN t : q[i] \in Seq(Cells) /\ IsPiece(q[i], t[i])
  BY <1>2, AsciiType
<1>4. q = [i \in DOMAIN t |-> q[i]]
  OBVIOUS
<1> HIDE DEF q
<1>5. q \in Seq(Seq(Cells)) /\ Len(q) = Len(t)
  BY <1>3, <1>4, EachBecomes, SMTT(30)
<1> QED
  BY <1>1, <1>3, <1>5, Zenon DEF q

LEMMA CasedIs ==
    ASSUME NEW t \in Seq(Cells)
    PROVE  LET u == [i \in DOMAIN t |-> Cased(t[i])]
           IN  /\ u \in Seq(Cells) /\ Len(u) = Len(t)
               /\ \A i \in 1..Len(t) :
                     IF t[i] \in Modes THEN u[i] = t[i] ELSE u[i] \notin Modes
<1> DEFINE u == [i \in DOMAIN t |-> Cased(t[i])]
<1>1. DOMAIN t = 1..Len(t)
  OBVIOUS
<1>2. \A i \in DOMAIN t : t[i] \in Cells
  OBVIOUS
<1>3. \A i \in DOMAIN t :
         u[i] \in Cells /\ IF t[i] \in Modes THEN u[i] = t[i] ELSE u[i] \notin Modes
  BY <1>2, CasedType
<1>4. u = [i \in DOMAIN t |-> u[i]]
  OBVIOUS
<1> HIDE DEF u
<1>5. u \in Seq(Cells) /\ Len(u) = Len(t)
  BY <1>3, <1>4, EachBecomes
<1> QED
  BY <1>1, <1>3, <1>5, Zenon DEF u

\* The texts that requests make of t.
SubstringOf(t, i, j) == SubSeq(Selected(t, Elements), i, j)
AsciiOf(t) == FlattenSeq([i \in DOMAIN t |-> Ascii(t[i])])
UnformattedOf(t) == Selected(t, Chars \cup Kept \cup Modes)
CasedOf(t) == [i \in DOMAIN t |-> Cased(t[i])]

LEMMA SubstringIs ==
    ASSUME NEW t \in Seq(Cells), NEW i \in 1..MaxLength, NEW j \in 1..MaxLength,
           j <= Len(Selected(t, Elements))
    PROVE  SubstringOf(t, i, j) \in Seq(Elements) /\ SubstringOf(t, i, j) \in Seq(Cells)
<1> DEFINE e == Selected(t, Elements)
<1>1. e \in Seq(Elements)
  BY SelectedType
<1>2. MaxLength \in Nat
  BY MacrosAssumption
<1>3. i \in Nat \ {0} /\ j \in Nat
  BY <1>2
<1>4. Elements \subseteq Cells
  BY DEF Cells
<1> HIDE DEF e
<1>5. SubSeq(e, i, j) \in Seq(Elements)
  BY <1>1, <1>3, SliceType DEF e
<1> QED
  BY <1>4, <1>5, WiderType, Zenon DEF SubstringOf, e

LEMMA AsciiOfType ==
    ASSUME NEW t \in Seq(Cells)
    PROVE  AsciiOf(t) \in Seq(Cells)
<1> DEFINE q == [i \in DOMAIN t |-> Ascii(t[i])]
<1>1. q \in Seq(Seq(Cells))
  BY AsciifyIs
<1> HIDE DEF q
<1>2. FlattenSeq(q) \in Seq(Cells)
  BY <1>1, FlattenIn
<1> QED
  BY <1>2 DEF AsciiOf, q

LEMMA CasedOfType ==
    ASSUME NEW t \in Seq(Cells)
    PROVE  CasedOf(t) \in Seq(Cells)
BY CasedIs DEF CasedOf

\* The object that a request changes.
ObjectOf(n) == ObjectPlace(names[n])

LEMMA ObjectOfIs ==
    ASSUME TextInv, NEW n, names[n] \in Objects
    PROVE  /\ ObjectOf(n) \in Places /\ Contents[ObjectOf(n)] \in Seq(Cells)
           /\ TextOf(Store, ObjectPlace(names[n])) = Contents[ObjectOf(n)]
<1>1. ObjectOf(n) \in Places
  BY ObjectPlaces DEF ObjectOf
<1> QED
  BY <1>1, ContentsType, ContentsAre DEF TextInv, ObjectOf

LEMMA AbortSame ==
    ASSUME NEW kind, Abort(kind)
    PROVE  UNCHANGED <<mem, mac, names, refs>> /\ aborted'
BY DEF Abort

LEMMA SubstringChanges ==
    ASSUME TextInv, NEW n \in Names, NEW i \in 1..MaxLength,
           NEW j \in 1..MaxLength, Substring(n, i, j)
    PROVE  \/ UNCHANGED <<mem, mac, names, refs>>
           \/ /\ i <= j /\ j <= Len(Selected(Contents[ObjectOf(n)], Elements))
              /\ Changed(ObjectOf(n), SubstringOf(Contents[ObjectOf(n)], i, j))
<1> DEFINE t == Contents[ObjectOf(n)]
           w == SubstringOf(t, i, j)
<1>1. names[n] \in Objects
  BY DEF Substring, Changes
<1>2. /\ ObjectOf(n) \in Places /\ t \in Seq(Cells)
      /\ TextOf(Store, ObjectPlace(names[n])) = t
  BY <1>1, ObjectOfIs
<1>3. \/ \E kind : Abort(kind)
      \/ /\ i <= j /\ j <= Len(Selected(t, Elements)) /\ HasFree(Store)
         /\ Becomes(Filled(Store, ObjectPlace(names[n]),
                           SubSeq(Selected(t, Elements), i, j)))
  BY <1>2 DEF Substring, Continue
<1> HIDE DEF t
<1>4. CASE \E kind : Abort(kind)
  BY <1>4, AbortSame
<1>5. CASE /\ i <= j /\ j <= Len(Selected(t, Elements)) /\ HasFree(Store)
           /\ Becomes(Filled(Store, ObjectPlace(names[n]),
                             SubSeq(Selected(t, Elements), i, j)))
  <2>1. w \in Seq(Cells)
    BY <1>2, <1>5, SubstringIs
  <2>2. Becomes(Filled(Store, ObjectOf(n), w))
    BY <1>5, Zenon DEF ObjectOf, SubstringOf
  <2> HIDE DEF w
  <2>3. Changed(ObjectOf(n), w)
    BY <1>2, <1>5, <2>1, <2>2, FilledChanges, TextFacts
  <2> QED
    BY <1>5, <2>3, Zenon DEF w, t
<1> QED
  BY <1>3, <1>4, <1>5, Zenon

LEMMA AsciifyChanges ==
    ASSUME TextInv, NEW n \in Names, Asciify(n)
    PROVE  Changed(ObjectOf(n), AsciiOf(Contents[ObjectOf(n)]))
<1> DEFINE t == Contents[ObjectOf(n)]
           w == AsciiOf(t)
<1>1. names[n] \in Objects
  BY DEF Asciify, Changes
<1>2. /\ ObjectOf(n) \in Places /\ t \in Seq(Cells)
      /\ TextOf(Store, ObjectPlace(names[n])) = t
  BY <1>1, ObjectOfIs
<1>3. /\ HasFree(Store)
      /\ Becomes(Filled(Store, ObjectPlace(names[n]),
                   FlattenSeq([i \in DOMAIN t |->
                       IF t[i] \in Nodes THEN Plain[t[i]] ELSE <<t[i]>>])))
  BY <1>2, Zenon DEF Asciify, Continue
<1>4. w = FlattenSeq([i \in DOMAIN t |->
                       IF t[i] \in Nodes THEN Plain[t[i]] ELSE <<t[i]>>])
  BY Zenon DEF AsciiOf, Ascii
<1>5. w \in Seq(Cells)
  BY <1>2, AsciiOfType
<1> HIDE DEF w, t
<1>6. Becomes(Filled(Store, ObjectOf(n), w))
  BY <1>3, <1>4, Zenon DEF ObjectOf
<1>7. Changed(ObjectOf(n), w)
  BY <1>2, <1>3, <1>5, <1>6, FilledChanges, TextFacts
<1> QED
  BY <1>7, Zenon DEF w, t

LEMMA UnformatChanges ==
    ASSUME TextInv, NEW n \in Names, Unformat(n)
    PROVE  Changed(ObjectOf(n), UnformattedOf(Contents[ObjectOf(n)]))
<1> DEFINE t == Contents[ObjectOf(n)]
           w == UnformattedOf(t)
<1>1. names[n] \in Objects
  BY DEF Unformat, Changes
<1>2. /\ ObjectOf(n) \in Places /\ t \in Seq(Cells)
      /\ TextOf(Store, ObjectPlace(names[n])) = t
  BY <1>1, ObjectOfIs
<1>3. /\ HasFree(Store)
      /\ Becomes(Filled(Store, ObjectPlace(names[n]),
                        Selected(t, Chars \cup Kept \cup Modes)))
  BY <1>2, Zenon DEF Unformat, Continue
<1>4. w \in Seq(Cells)
  BY <1>2, SelectedType DEF UnformattedOf
<1>5. Becomes(Filled(Store, ObjectOf(n), w))
  BY <1>3, Zenon DEF ObjectOf, UnformattedOf
<1> HIDE DEF w, t
<1>7. Changed(ObjectOf(n), w)
  BY <1>2, <1>3, <1>4, <1>5, FilledChanges, TextFacts
<1> QED
  BY <1>7, Zenon DEF w, t

LEMMA ChangeCaseChanges ==
    ASSUME TextInv, NEW n \in Names, ChangeCase(n)
    PROVE  \/ UNCHANGED <<mem, mac, names, refs>>
           \/ /\ FreeObjects # {}
              /\ Relinked([names EXCEPT ![n] = NewObject],
                          Altered(Contents, ObjectPlace(NewObject),
                                  CasedOf(Contents[ObjectOf(n)])))
<1> DEFINE t == Contents[ObjectOf(n)]
           w == CasedOf(t)
           y == ObjectPlace(NewObject)
<1>1. names[n] \in Objects
  BY DEF ChangeCase, Changes
<1>2. /\ ObjectOf(n) \in Places /\ t \in Seq(Cells)
      /\ TextOf(Store, ObjectPlace(names[n])) = t
  BY <1>1, ObjectOfIs
<1>3. \/ \E kind : Abort(kind)
      \/ /\ HasFree(Store) /\ FreeObjects # {}
         /\ Becomes(Define(Filled(Store, y,
                      [i \in DOMAIN t |->
                          IF t[i] \in Chars THEN Upper[t[i]] ELSE t[i]]),
                      n, NewObject))
  BY <1>2, Zenon DEF ChangeCase, Continue
<1>4. w = [i \in DOMAIN t |-> IF t[i] \in Chars THEN Upper[t[i]] ELSE t[i]]
  BY Zenon DEF CasedOf, Cased
<1>5. w \in Seq(Cells)
  BY <1>2, CasedOfType
<1> HIDE DEF w, t
<1>6. CASE \E kind : Abort(kind)
  BY <1>6, AbortSame
<1>7. CASE HasFree(Store) /\ FreeObjects # {}
              /\ Becomes(Define(Filled(Store, y, w), n, NewObject))
  <2> HIDE DEF y
  <2>1. Tidy
    BY TextFacts
  <2>2. y = ObjectPlace(NewObject)
    BY DEF y
  <2>3. Relinked([names EXCEPT ![n] = NewObject], Altered(Contents, y, w))
    BY <1>5, <1>7, <2>1, <2>2, FilledRelinks
  <2> QED
    BY <1>7, <2>3, Zenon DEF w, t, y
<1> QED
  BY <1>3, <1>4, <1>6, <1>7, Zenon

\* Some document chops while another macro has the header.
ChopsShared == "chop of shared modes" \in Extras

LEMMA ChopIs ==
    ASSUME TextInv, NEW n \in Names, Chop(n)
    PROVE  LET t == Contents[ObjectOf(n)]
               k == Unpaired(t)
           IN  \/ UNCHANGED <<mem, mac, names, refs>>
               \/ /\ k \in 1..Len(t) /\ PairsAfter(t, k)
                  /\ k > 1 => ~IsPair(t, k - 1)
                  /\ t[k] = Pop /\ mem[mac[ObjectOf(n)].p].count > 1
                        => ChopsShared
                  /\ Becomes(ChopAt(Store, ObjectOf(n), k))
<1> DEFINE t == Contents[ObjectOf(n)]
           k == Unpaired(t)
<1>1. names[n] \in Objects
  BY Zenon DEF Chop, Changes
<1>2. /\ ObjectOf(n) \in Places /\ t \in Seq(Cells)
      /\ TextOf(Store, ObjectPlace(names[n])) = t
  BY <1>1, ObjectOfIs
<1>3. k \in 0..Len(t) /\ PairsAfter(t, k) /\ (k > 1 => ~IsPair(t, k - 1))
  BY <1>2, UnpairedIs
<1>4. \/ \E kind : Abort(kind)
      \/ /\ k > 0
         /\ t[k] = Pop /\ mem[mac[ObjectOf(n)].p].count > 1 => ChopsShared
         /\ Becomes(ChopAt(Store, ObjectOf(n), k))
  BY <1>2, Zenon DEF Chop, Continue, ObjectOf, ChopsShared
<1> HIDE DEF k, t
<1>5. CASE \E kind : Abort(kind)
  <2>1. UNCHANGED <<mem, mac, names, refs>>
    BY <1>5, AbortSame, Zenon
  <2> QED
    BY <2>1, Zenon
<1>6. CASE /\ k > 0
           /\ t[k] = Pop /\ mem[mac[ObjectOf(n)].p].count > 1 => ChopsShared
           /\ Becomes(ChopAt(Store, ObjectOf(n), k))
  <2>1. k \in 1..Len(t)
    <3>1. Len(t) \in Nat
      BY <1>2
    <3> QED
      BY <1>3, <1>6, <3>1
  <2> QED
    BY <1>3, <1>6, <2>1, Zenon DEF k, t
<1> QED
  BY <1>4, <1>5, <1>6, Zenon

\* Whatever it changes, no length but that of the object.
LEMMA ChopSteady ==
    ASSUME TextInv, NEW n \in Names, Chop(n)
    PROVE  Steady
<1> DEFINE x == ObjectOf(n)
           t == Contents[x]
           k == Unpaired(t)
           s == ChopAt(Store, x, k)
<1>1. names[n] \in Objects
  BY Zenon DEF Chop, Changes
<1>2. x \in Places /\ t \in Seq(Cells)
  BY <1>1, ObjectOfIs
<1>3. \/ UNCHANGED <<mem, mac, names, refs>>
      \/ k \in 1..Len(t) /\ Becomes(s)
  BY ChopIs, Zenon
<1>4. CASE UNCHANGED <<mem, mac, names, refs>>
  BY <1>4, SteadySame
<1>5. CASE k \in 1..Len(t) /\ Becomes(s)
  <2>1. /\ CountInv /\ Sound(Store) /\ Owing(Store, NoObject)
    BY TextFacts, StoreIs
  <2>2. t = TextOf(Store, x)
    BY <1>2, ContentsAre
  <2>3. KeepsNames(Store, s) /\ Store.names = names
    BY <2>1, StoreIs, NamesKept
  <2>4. \A y \in Places \ {x} : s.mac[y].length = Store.mac[y].length
    <3>1. \/ s = [Store EXCEPT !.mac[x].length = k - 1]
          \/ s = [Store EXCEPT !.mac[x].length = k - 1,
                               !.mem[Store.mac[x].p].cells[k - 1] = Pop]
      BY DEF ChopAt
    <3>2. \A v : DOMAIN v = Places => \A z : \A y \in Places \ {x} :
             [v EXCEPT ![x].length = z][y] = v[y]
      OBVIOUS
    <3>3. DOMAIN Store = {"mem", "mac", "names", "refs"}
          /\ DOMAIN Store.mac = Places
      BY <2>1 DEF Owing, MemoryInv, IsMac
    <3>4. s.mac = [Store.mac EXCEPT ![x].length = k - 1]
      BY <3>1, <3>3
    <3> HIDE DEF s, x, k
    <3> QED
      BY <3>2, <3>3, <3>4
  <2> HIDE DEF k, s, x, t
  <2>5. Sound(s)
    BY <1>2, <1>5, <2>1, <2>2, ChopAtSound DEF s
  <2>6. ASSUME NEW y \in Places \ {x} PROVE Stays(y)
    <3>1. y \in Places
      OBVIOUS
    <3>2. Len(TextOf(s, y)) = s.mac[y].length /\ TextOf(s, y) \in Seq(Cells)
      BY <2>5, <3>1, TextType
    <3>3. Len(Contents[y]) = Store.mac[y].length
      BY <2>1, <3>1, ContentsType DEF Store
    <3>4. Contents'[y] = TextOf(s, y)
      <4>1. Contents' = ContentsOf(s)
        BY <1>5, ContentsBecome
      <4> QED
        BY <3>1, <4>1 DEF ContentsOf
    <3>5. Len(Contents'[y]) = Len(Contents[y])
      BY <2>4, <3>2, <3>3, <3>4, Zenon
    <3>6. Contents[y] = <<>> => Len(TextOf(s, y)) = 0
      BY <3>4, <3>5
    <3>7. \A q \in Seq(Cells) : Len(q) = 0 => q = <<>>
      OBVIOUS
    <3> QED
      BY <3>2, <3>4, <3>5, <3>6, <3>7, Zenon DEF Stays
  <2>7. names' = names
    BY <1>5, <2>3 DEF Becomes, KeepsNames
  <2>8. Sound(Store)'
    BY <1>5, <2>5, SoundBecomes
  <2> QED
    BY <1>1, <2>6, <2>7, <2>8, SteadyObject DEF x, ObjectOf
<1> QED
  BY <1>3, <1>4, <1>5, Zenon

LEMMA ChopChanges ==
    ASSUME TextInv, NEW n \in Names, Chop(n), ~ChopsShared,
           Ends(Contents[ObjectOf(n)], Pop)
    PROVE  LET t == Contents[ObjectOf(n)]
               k == Unpaired(t)
           IN  \/ UNCHANGED <<mem, mac, names, refs>>
               \/ /\ k \in 1..Len(t) /\ PairsAfter(t, k)
                  /\ k > 1 => ~IsPair(t, k - 1)
                  /\ Changed(ObjectOf(n), Without(t, k))
<1> DEFINE x == ObjectOf(n)
           t == Contents[x]
           k == Unpaired(t)
<1>1. names[n] \in Objects
  BY Zenon DEF Chop, Changes
<1>2. x \in Places /\ t \in Seq(Cells)
  BY <1>1, ObjectOfIs
<1>3. \/ UNCHANGED <<mem, mac, names, refs>>
      \/ /\ k \in 1..Len(t) /\ PairsAfter(t, k)
         /\ k > 1 => ~IsPair(t, k - 1)
         /\ t[k] = Pop /\ mem[mac[x].p].count > 1 => ChopsShared
         /\ Becomes(ChopAt(Store, x, k))
  BY ChopIs, Zenon
<1> HIDE DEF k
<1>4. CASE /\ k \in 1..Len(t) /\ PairsAfter(t, k)
           /\ k > 1 => ~IsPair(t, k - 1)
           /\ t[k] = Pop /\ mem[mac[x].p].count > 1 => ChopsShared
           /\ Becomes(ChopAt(Store, x, k))
  <2>1. CountInv /\ Sound(Store)
    BY TextFacts
  <2>2. t[k] \in Elements \/ (k > 1 /\ t[k] = Pop /\ t[k - 1] \in Elements)
    BY <1>2, <1>4, LastElement
  <2>3. t[k] = Pop => k > 1
    BY <2>2, ElementsAre
  <2>4. mac[x].p \in Headers
    <3>1. Len(t) = mac[x].length /\ Len(t) \in Nat
      BY <1>2, <2>1, ContentsType
    <3>2. mac[x].length > 0
      BY <1>4, <3>1
    <3>3. Store.mac = mac
      BY DEF Store
    <3> QED
      BY <1>2, <2>1, <3>2, <3>3, TextType
  <2>5. mem[mac[x].p].count \in Nat
    <3>1. IsMem(mem)
      BY <2>1 DEF CountInv, StoreInv, Owing, MemoryInv, Store
    <3> QED
      BY <2>4, <3>1 DEF IsMem
  <2>6. t[k] = Pop => k > 1 /\ mem[mac[x].p].count <= 1
    BY <1>4, <2>3, <2>5
  <2>7. Becomes(ChopAt(Store, x, k)) /\ k \in 1..Len(Contents[x])
    BY <1>4
  <2>8. Changed(x, Without(Contents[x], k))
    BY <1>2, <2>1, <2>6, <2>7, ChopAtChanges
  <2> QED
    BY <1>4, <2>8, Zenon DEF k
<1> QED
  BY <1>3, <1>4, Zenon DEF k

-----------------------------------------------------------------------------
\* Definitions, diversions and readers.

LEMMA PlacesDiffer ==
    /\ \A i, j : InputPlace(i) = InputPlace(j) => i = j
    /\ \A i, j : OpenPlace(i) = OpenPlace(j) => i = j
    /\ \A i, j : InputPlace(i) # OpenPlace(j)
    /\ \A i : InputPlace(i) # Local /\ OpenPlace(i) # Local
BY DEF InputPlace, OpenPlace, Local

LEMMA OtherIs ==
    ASSUME NEW x \in Others
    PROVE  x \in Places /\ \A q \in Objects : x # ObjectPlace(q)
BY DEF Others, IsObjectPlace

\* A text changes that is not that of an object.
LEMMA OtherChanged ==
    ASSUME TextInv, NEW x \in Others, NEW w, Changed(x, w)
    PROVE  /\ Sound(Store)' /\ Vacant' /\ names' = names /\ Contents'[x] = w
           /\ \A y : y # x => Contents'[y] = Contents[y]
<1>1. /\ Sound(Store)' /\ names' = names /\ Contents'[x] = w
      /\ \A y : y # x => Contents'[y] = Contents[y]
      /\ \A y : y # x => Stays(y)
  BY ChangedIs, OtherIs
<1>2. Vacant'
  BY <1>1, OtherIs, VacantStays, Zenon DEF TextInv
<1> QED
  BY <1>1, <1>2, Zenon

LEMMA EndedOther ==
    ASSUME TextInv, NEW x \in Others, NEW w, NEW n \in Names, NEW o, CanStore(o),
           o \in Objects => names[n] = o, Ended(x, w, n, o)
    PROVE  /\ Sound(Store)' /\ Vacant' /\ Contents'[x] = <<>>
           /\ \A y \in Others \ {x} : Contents'[y] = Contents[y]
<1>1. CASE o \in Objects
  <2> DEFINE z == ObjectPlace(o)
  <2>1. z \in Places /\ x \in Places /\ x # z /\ z \notin Others
    BY <1>1, ObjectPlaces, OtherIs
  <2>2. Sound(Store)' /\ names' = names /\ Contents' = Final(x, z, w)
    BY <1>1, Zenon DEF Ended
  <2> HIDE DEF z
  <2>3. /\ Contents'[x] = <<>>
        /\ \A y : y # x /\ y # z => Contents'[y] = Contents[y]
    BY <2>1, <2>2, FinalIs
  <2>4. \A q \in Objects : Referrers(names, q) = {} =>
             ObjectPlace(q) # x /\ ObjectPlace(q) # z
    <3>1. Referrers(names, o) # {}
      BY <1>1 DEF Referrers
    <3> QED
      BY <1>1, <3>1, OtherIs, ObjectPlaces, Zenon DEF z
  <2>5. Vacant'
    BY <2>2, <2>3, <2>4, VacantStays, StaysSame, Zenon DEF TextInv
  <2> QED
    BY <2>1, <2>2, <2>3, <2>5, Zenon
<1>2. CASE o \notin Objects
  <2> DEFINE z == ObjectPlace(NewObject)
             c == Final(x, z, w)
             l == [names EXCEPT ![n] = NewObject]
  <2>1. Relinked(l, c)
    BY <1>2, Zenon DEF Ended
  <2>2. z \in Places /\ x \in Places /\ x # z /\ z \notin Others
    <3>1. NewObject \in Objects
      BY <1>2, NewObjectIs DEF CanStore
    <3> QED
      BY <3>1, ObjectPlaces, OtherIs
  <2> HIDE DEF z, l
  <2>3. c[x] = <<>> /\ \A y : y # x /\ y # z => c[y] = Contents[y]
    BY <2>2, FinalIs
  <2> HIDE DEF c
  <2>4. Sound(Store)' /\ \A y \in Others : Contents'[y] = c[y]
    BY <2>1, RelinkedIs
  <2>5. Vacant'
    BY <2>1, VacantRelinked
  <2> QED
    BY <2>2, <2>3, <2>4, <2>5, Zenon
<1> QED
  BY <1>1, <1>2, Zenon

-----------------------------------------------------------------------------
\* The texts of the diversions and iterators that there are.
TextRest == Sound(Store)' /\ Vacant' /\ Spare' /\ DraftNamed' /\ InputFits'

LEMMA RequestSteady ==
    ASSUME TextInv, NEW n \in Names,
           \/ \E i, j \in 1..MaxLength : Substring(n, i, j)
           \/ Chop(n) \/ Asciify(n) \/ Unformat(n) \/ ChangeCase(n)
    PROVE  TextRest
<1>1. names[n] \in Objects /\ draft = NoDraft /\ UNCHANGED <<draft, open, input>>
  <2>1. Changes(n)
    BY Zenon DEF Chop, Substring, Asciify, Unformat, ChangeCase
  <2> QED
    BY <2>1 DEF Changes, Interpreting
<1> SUFFICES Steady
  <2>1. DraftNamed'
    BY <1>1, NoDraftNamed, Zenon
  <2> QED
    BY <1>1, <2>1, SteadyKeeps, Zenon DEF Steady, TextRest
<1>2. CASE UNCHANGED <<mem, mac, names, refs>>
  BY <1>2, SteadySame
<1>3. ASSUME NEW w, Changed(ObjectOf(n), w) PROVE Steady
  BY <1>1, <1>3, SteadyChanged DEF ObjectOf
<1>4. CASE ChangeCase(n)
  <2>1. CASE FreeObjects # {} /\ Relinked([names EXCEPT ![n] = NewObject],
                    Altered(Contents, ObjectPlace(NewObject),
                            CasedOf(Contents[ObjectOf(n)])))
    <3> DEFINE z == ObjectPlace(NewObject)
               c == Altered(Contents, z, CasedOf(Contents[ObjectOf(n)]))
    <3>1. z \in Places /\ z \notin Others
      BY <2>1, NewObjectIs, ObjectPlaces DEF Others, IsObjectPlace
    <3>2. \A y \in Others : c[y] = Contents[y]
      BY <3>1, AlteredIs, ContentsDomain
    <3>3. Relinked([names EXCEPT ![n] = NewObject], c)
      BY <2>1
    <3> HIDE DEF z, c
    <3> QED
      BY <3>2, <3>3, SteadyRelinked
  <2> QED
    BY <1>2, <1>4, <2>1, ChangeCaseChanges, Zenon
<1>5. CASE \E i, j \in 1..MaxLength : Substring(n, i, j)
  <2>1. PICK i \in 1..MaxLength, j \in 1..MaxLength : Substring(n, i, j)
    BY <1>5, Zenon
  <2>2. \/ UNCHANGED <<mem, mac, names, refs>>
        \/ Changed(ObjectOf(n), SubstringOf(Contents[ObjectOf(n)], i, j))
    BY <2>1, SubstringChanges
  <2> QED
    BY <1>2, <1>3, <2>2, Zenon
<1> QED
  BY <1>3, <1>4, <1>5, ChopSteady, AsciifyChanges, UnformatChanges, Zenon

LEMMA NamesRest ==
    ASSUME TextInv, NEW a \in Names, NEW b \in Names,
           Rn(a, b) \/ Als(a, b) \/ Rm(a) \/ Dereference(a)
    PROVE  TextRest
<1>1. Steady /\ DraftNamed'
  BY NamesSteady, DereferenceSteady, Zenon
<1>2. UNCHANGED <<draft, open, input>>
  BY DEF Rn, Als, Rm, Dereference
<1> QED
  BY <1>1, <1>2, SteadyKeeps, Zenon DEF Steady, TextRest

\* Readers.
LEMMA InputSizes ==
    ASSUME TextInv
    PROVE  /\ Len(input) \in Nat /\ input \in Seq(Nat)
           /\ \A i \in DOMAIN input : i \in 1..Len(input)
           /\ input # <<>> =>
                 /\ Len(input) \in DOMAIN input
                 /\ InputPlace(Len(input)) \in Others
                 /\ Reader.length = Len(Contents[InputPlace(Len(input))])
                 /\ Len(Contents[InputPlace(Len(input))]) \in Nat
<1>1. input \in Seq(Nat) /\ Len(input) \in Nat
      /\ \A i \in DOMAIN input : i \in 1..Len(input)
  BY DEF TextInv, CountInv, StackInv
<1>2. input # <<>> => Len(input) \in DOMAIN input
  BY <1>1
<1>3. \A i \in DOMAIN input : InputPlace(i) \in Others
  BY TextFacts, OthersAre, Zenon
<1>4. \A y \in Places : Len(Contents[y]) = mac[y].length /\ Len(Contents[y]) \in Nat
  BY TextFacts, ContentsType
<1>5. input # <<>> =>
         /\ Reader.length = Len(Contents[InputPlace(Len(input))])
         /\ Len(Contents[InputPlace(Len(input))]) \in Nat
  BY <1>2, <1>3, <1>4, OtherIs, Zenon DEF Reader
<1> QED
  BY <1>1, <1>2, <1>3, <1>5, Zenon

LEMMA AdvanceFits ==
    ASSUME TextInv, MoreInput, Advance,
           \A i \in DOMAIN input :
               Contents'[InputPlace(i)] = Contents[InputPlace(i)]
    PROVE  InputFits'
<1>1. \A i \in DOMAIN input : input[i] \in Nat /\ input[i] <= Len(Contents[InputPlace(i)])
  BY InputSizes DEF TextInv, InputFits
<1>2. Len(input) \in DOMAIN input /\ input[Len(input)] < Len(Contents[InputPlace(Len(input))])
      /\ Len(Contents[InputPlace(Len(input))]) \in Nat
  BY InputSizes DEF MoreInput
<1>3. DOMAIN input' = DOMAIN input
      /\ \A i \in DOMAIN input : input'[i] = IF i = Len(input) THEN input[i] + 1 ELSE input[i]
  BY <1>2 DEF Advance
<1> QED
  BY <1>1, <1>2, <1>3 DEF InputFits

\* What the steps on the input do.
LEMMA InterpolateChanges ==
    ASSUME TextInv, NEW n \in Names, Interpolate(n)
    PROVE  LET x == InputPlace(Len(input) + 1)
           IN  /\ names[n] \in Objects /\ x \in Others
               /\ Changed(x, Contents[ObjectPlace(names[n])])
<1> DEFINE x == InputPlace(Len(input) + 1)
<1>1. names[n] \in Objects
  BY Zenon DEF Interpolate
<1>2. x \in Others /\ ObjectPlace(names[n]) \in Places
  <2>1. x \in Places
    BY TextFacts, PlacesAre DEF Interpolate
  <2> QED
    BY <1>1, <2>1, ObjectPlaces DEF Others, IsObjectPlace
<1>3. Changed(x, Contents[ObjectPlace(names[n])])
  BY <1>2, OtherIs, TextFacts, AssignChanges DEF Interpolate
<1> QED
  BY <1>1, <1>2, <1>3

LEMMA EndOfInputChanges ==
    ASSUME TextInv, EndOfInput
    PROVE  LET x == InputPlace(Len(input))
           IN  x \in Others /\ Changed(x, <<>>)
<1> DEFINE x == InputPlace(Len(input))
<1>1. x \in Others
  BY InputSizes DEF EndOfInput
<1>2. Changed(x, <<>>)
  BY <1>1, OtherIs, TextFacts, DestroyChanges DEF EndOfInput
<1> QED
  BY <1>1, <1>2

LEMMA ReadsRest ==
    ASSUME TextInv, NEW n,
           Read \/ EndOfInput \/ (n \in Names /\ Interpolate(n))
    PROVE  TextRest
<1>1. UNCHANGED <<draft, open>>
  BY DEF Read, EndOfInput, Interpolate
<1>2. \A i, j : InputPlace(i) # OpenPlace(j) /\ InputPlace(i) # Local
  BY PlacesDiffer
<1>3. ASSUME \A y : (\A i : y # InputPlace(i)) => Contents'[y] = Contents[y],
             names' = names
      PROVE  Spare' /\ DraftNamed'
  <2>1. Spare'
    BY <1>1, <1>2, <1>3 DEF TextInv, Spare
  <2>2. DraftNamed'
    BY <1>1, <1>3 DEF TextInv, DraftNamed
  <2> QED
    BY <2>1, <2>2
<1>4. CASE Read
  <2>1. Contents' = Contents /\ names' = names /\ Sound(Store)' /\ Vacant'
    BY <1>4, SameContents, SteadySame DEF Read, TextInv, Steady
  <2>2. InputFits'
    BY <1>4, <2>1, AdvanceFits DEF Read
  <2> QED
    BY <1>3, <2>1, <2>2, Zenon DEF TextRest
<1>5. CASE EndOfInput
  <2> DEFINE x == InputPlace(Len(input))
  <2>1. x \in Others
    BY <1>5, EndOfInputChanges
  <2>2. Changed(x, <<>>)
    BY <1>5, EndOfInputChanges
  <2>3. /\ Sound(Store)' /\ Vacant' /\ names' = names
        /\ \A y : y # x => Contents'[y] = Contents[y]
    BY <2>1, <2>2, OtherChanged
  <2>4. InputFits'
    <3>1. input \in Seq(Nat) /\ input # <<>> /\ Len(input) \in Nat
      BY <1>5, InputSizes DEF EndOfInput
    <3>2. Len(input) > 0
      BY <3>1
    <3>3. input' = [i \in 1..(Len(input) - 1) |-> input[i]]
      BY <1>5, <3>1, <3>2 DEF EndOfInput, Front
    <3>4. \A i \in DOMAIN input' :
             i # Len(input) /\ i \in DOMAIN input /\ input'[i] = input[i]
      BY <3>1, <3>2, <3>3
    <3>5. \A i : i # Len(input) => Contents'[InputPlace(i)] = Contents[InputPlace(i)]
      BY <2>3, PlacesDiffer, Zenon
    <3> QED
      BY <3>4, <3>5 DEF TextInv, InputFits
  <2> QED
    BY <1>3, <2>3, <2>4, Zenon DEF TextRest
<1>6. CASE n \in Names /\ Interpolate(n)
  <2> DEFINE x == InputPlace(Len(input) + 1)
             w == Contents[ObjectPlace(names[n])]
  <2>1. x \in Others /\ ObjectPlace(names[n]) \in Places
    BY <1>6, InterpolateChanges, ObjectPlaces
  <2>2. Changed(x, w)
    BY <1>6, InterpolateChanges
  <2>3. Len(w) \in Nat
    BY <2>1, TextFacts, ContentsType
  <2> HIDE DEF w
  <2>4. /\ Sound(Store)' /\ Vacant' /\ names' = names /\ Contents'[x] = w
        /\ \A y : y # x => Contents'[y] = Contents[y]
    BY <2>1, <2>2, OtherChanged
  <2>5. InputFits'
    <3>1. input \in Seq(Nat) /\ Len(input) \in Nat /\ input' = Append(input, 0)
      BY <1>6, InputSizes DEF Interpolate
    <3>2. \A i \in DOMAIN input' :
             \/ i = Len(input) + 1 /\ input'[i] = 0
             \/ i # Len(input) + 1 /\ i \in DOMAIN input /\ input'[i] = input[i]
      BY <3>1
    <3>3. \A i : i # Len(input) + 1 =>
             Contents'[InputPlace(i)] = Contents[InputPlace(i)]
      BY <2>4, PlacesDiffer, Zenon
    <3>4. \A i \in DOMAIN input : input[i] <= Len(Contents[InputPlace(i)])
      BY DEF TextInv, InputFits
    <3>5. 0 <= Len(w)
      BY <2>3
    <3> QED
      BY <2>4, <3>2, <3>3, <3>4, <3>5 DEF InputFits
  <2> QED
    BY <1>3, <2>4, <2>5, Zenon DEF TextRest
<1> QED
  BY <1>4, <1>5, <1>6

LEMMA CellsHave ==
    Push \in Cells /\ Pop \in Cells /\ \A c \in Elements : c \in Cells
BY DEF Cells, Modes

\* What the steps on the local variable of a request, and on diversions, do.
LEMMA BeginDefinitionChanges ==
    ASSUME TextInv, NEW n \in Names, NEW append \in BOOLEAN,
           NEW comp \in BOOLEAN, BeginDefinition(n, append, comp)
    PROVE  Changed(Local, IF comp THEN Append(OriginalText(Local, n, append), Push)
                          ELSE OriginalText(Local, n, append))
<1>1. CountInv /\ Sound(Store) /\ Local \in Places
  BY TextFacts, PlacesAre
<1>2. CASE comp
  <2>1. /\ CanAppend(Original(Local, n, append), Local)
        /\ Becomes(AppendCell(Original(Local, n, append), Local, Push))
    BY <1>2, Zenon DEF BeginDefinition
  <2> QED
    BY <1>1, <1>2, <2>1, BeginningChanges
<1>3. CASE ~comp
  <2>1. Becomes(Original(Local, n, append))
    BY <1>3, Zenon DEF BeginDefinition
  <2> QED
    BY <1>1, <1>3, <2>1, OriginalChanges
<1> QED
  BY <1>2, <1>3

LEMMA CollectChanges ==
    ASSUME TextInv, NEW c \in Elements, Collect(c)
    PROVE  Changed(Local, Append(Contents[Local], c))
<1>1. CountInv /\ Sound(Store) /\ Local \in Places
  BY TextFacts, PlacesAre
<1>2. CanAppend(Store, Local) /\ Becomes(AppendCell(Store, Local, c))
  BY Zenon DEF Collect
<1> QED
  BY <1>1, <1>2, CellsHave, AppendChanges

\* What the definition is of.
DraftText ==
    IF draft.comp THEN Append(Contents[Local], Pop) ELSE Contents[Local]

LEMMA EndDefinitionEnds ==
    ASSUME TextInv, EndDefinition
    PROVE  /\ draft.name \in Names /\ CanStore(draft.object)
           /\ draft.object \in Objects => names[draft.name] = draft.object
           /\ Ended(Local, DraftText, draft.name, draft.object)
<1>1. Tidy /\ Local \in Places /\ \A q \in Objects : Local # ObjectPlace(q)
  BY TextFacts, OthersAre, OtherIs
<1>2. draft # NoDraft /\ CanStore(draft.object)
  BY Zenon DEF EndDefinition
<1>3. draft.name \in Names /\ draft.comp \in BOOLEAN
  BY <1>2, TextFacts DEF StackInv, Drafts
<1>4. draft.object \in Objects => names[draft.name] = draft.object
  BY <1>2, Zenon DEF TextInv, DraftNamed
<1>5. CASE draft.comp
  <2>1. /\ CanAppend(Store, Local)
        /\ Becomes(Stored(AppendCell(Store, Local, Pop), draft.name,
                          draft.object, Local))
    BY <1>5, Zenon DEF EndDefinition
  <2>2. Ended(Local, Append(Contents[Local], Pop), draft.name, draft.object)
    BY <1>1, <1>2, <1>3, <2>1, CellsHave, StoredAfter
  <2> QED
    BY <1>2, <1>3, <1>4, <1>5, <2>2, Zenon DEF DraftText
<1>6. CASE ~draft.comp
  <2>1. Becomes(Stored(Store, draft.name, draft.object, Local))
    BY <1>6, Zenon DEF EndDefinition
  <2>2. Ended(Local, Contents[Local], draft.name, draft.object)
    BY <1>1, <1>2, <1>3, <2>1, StoredNow
  <2> QED
    BY <1>2, <1>3, <1>4, <1>6, <2>2, Zenon DEF DraftText
<1> QED
  BY <1>5, <1>6

LEMMA AbandonChanges ==
    ASSUME TextInv, AbandonDefinition
    PROVE  Changed(Local, <<>>)
<1>1. Local \in Places
  BY TextFacts, PlacesAre
<1>2. Becomes(Destroy(Store, Local))
  BY Zenon DEF AbandonDefinition
<1> QED
  BY <1>1, <1>2, TextFacts, DestroyChanges

LEMMA DraftBegun ==
    ASSUME TextInv, NEW n \in Names, NEW append \in BOOLEAN,
           NEW comp \in BOOLEAN, BeginDefinition(n, append, comp)
    PROVE  /\ draft = NoDraft /\ draft' # NoDraft /\ UNCHANGED <<open, input>>
           /\ draft' = [name |-> n, object |-> names[n], comp |-> comp]
           /\ draft'.comp = comp
<1>1. /\ draft = NoDraft /\ UNCHANGED <<open, input>>
      /\ draft' = [name |-> n, object |-> names[n], comp |-> comp]
  BY Zenon DEF BeginDefinition, Interpreting
<1>2. draft' \in Drafts
  BY <1>1, TextFacts DEF Drafts, Referents
<1> QED
  BY <1>1, <1>2, MacrosAssumption

LEMMA DefinitionsRest ==
    ASSUME TextInv, NEW n, NEW append \in BOOLEAN, NEW comp \in BOOLEAN,
           NEW c,
           \/ n \in Names /\ BeginDefinition(n, append, comp)
           \/ c \in Elements /\ Collect(c)
           \/ EndDefinition \/ AbandonDefinition
    PROVE  TextRest
<1>1. UNCHANGED open
  BY DEF BeginDefinition, Collect, EndDefinition, AbandonDefinition
<1>2. Local \in Others /\ Local \in Places
  BY TextFacts, OthersAre, OtherIs
<1>3. \A i : InputPlace(i) # Local /\ OpenPlace(i) # Local
  BY PlacesDiffer
<1>4. \A i \in 1..MaxOpen : OpenPlace(i) \in Others
  BY TextFacts, OthersAre
<1>5. \A i \in DOMAIN input : InputPlace(i) \in Others
  BY TextFacts, OthersAre, Zenon
<1>6. ASSUME \A y \in Others \ {Local} : Contents'[y] = Contents[y],
             draft' # NoDraft \/ Contents'[Local] = <<>>
      PROVE  Spare'
    BY <1>1, <1>3, <1>4, <1>6 DEF TextInv, Spare
<1>7. ASSUME \A y \in Others \ {Local} : Contents'[y] = Contents[y],
             UNCHANGED input
      PROVE  InputFits'
    BY <1>3, <1>5, <1>7 DEF TextInv, InputFits
<1>8. ASSUME NEW w, Changed(Local, w)
      PROVE  /\ Sound(Store)' /\ Vacant' /\ names' = names
             /\ Contents'[Local] = w
             /\ \A y \in Others \ {Local} : Contents'[y] = Contents[y]
  BY <1>2, <1>8, OtherChanged
<1>9. CASE n \in Names /\ BeginDefinition(n, append, comp)
  <2>1. PICK w : Changed(Local, w)
    BY <1>9, BeginDefinitionChanges
  <2>2. draft' = [name |-> n, object |-> names[n], comp |-> comp]
        /\ UNCHANGED input
    BY <1>9, DraftBegun
  <2>3. draft' # NoDraft
    BY <1>9, DraftBegun
  <2>4. DraftNamed'
    BY <1>8, <1>9, <2>1, <2>2 DEF DraftNamed
  <2> QED
    BY <1>6, <1>7, <1>8, <2>1, <2>2, <2>3, <2>4, Zenon DEF TextRest
<1>10. CASE c \in Elements /\ Collect(c)
  <2>1. Changed(Local, Append(Contents[Local], c))
    BY <1>10, CollectChanges
  <2>2. draft # NoDraft /\ UNCHANGED draft
    BY <1>10 DEF Collect
  <2>3. /\ Sound(Store)' /\ Vacant' /\ names' = names
        /\ \A y \in Others \ {Local} : Contents'[y] = Contents[y]
    BY <1>8, <2>1, Zenon
  <2>4. InputFits'
    <3>1. CASE UNCHANGED input
      BY <1>7, <2>3, <3>1, Zenon
    <3>2. CASE MoreInput /\ Advance
      <4>1. \A i \in DOMAIN input : Contents'[InputPlace(i)] = Contents[InputPlace(i)]
        BY <1>3, <1>5, <2>3
      <4> QED
        BY <3>2, <4>1, AdvanceFits
    <3> QED
      BY <1>10, <3>1, <3>2, Zenon DEF Collect
  <2>5. DraftNamed'
    BY <2>2, <2>3 DEF TextInv, DraftNamed
  <2> QED
    BY <1>6, <2>2, <2>3, <2>4, <2>5, Zenon DEF TextRest
<1>11. CASE EndDefinition
  <2>1. /\ draft.name \in Names /\ CanStore(draft.object)
        /\ draft.object \in Objects => names[draft.name] = draft.object
        /\ Ended(Local, DraftText, draft.name, draft.object)
    BY <1>11, EndDefinitionEnds
  <2>2. /\ Sound(Store)' /\ Vacant' /\ Contents'[Local] = <<>>
        /\ \A y \in Others \ {Local} : Contents'[y] = Contents[y]
    BY <1>2, <2>1, EndedOther
  <2>3. draft' = NoDraft /\ UNCHANGED input
    BY <1>11, Zenon DEF EndDefinition
  <2>4. DraftNamed'
    BY <2>3 DEF DraftNamed
  <2> QED
    BY <1>6, <1>7, <2>2, <2>3, <2>4, Zenon DEF TextRest
<1>12. CASE AbandonDefinition
  <2>1. Changed(Local, <<>>)
    BY <1>12, AbandonChanges
  <2>2. draft' = NoDraft /\ UNCHANGED input
    BY <1>12, Zenon DEF AbandonDefinition
  <2>3. DraftNamed'
    BY <2>2 DEF DraftNamed
  <2> QED
    BY <1>6, <1>7, <1>8, <2>1, <2>2, <2>3, Zenon DEF TextRest
<1> QED
  BY <1>9, <1>10, <1>11, <1>12

LEMMA OpenSizes ==
    ASSUME TextInv
    PROVE  /\ open \in Seq(Names) /\ Len(open) \in Nat /\ MaxOpen \in Nat
           /\ Len(open) <= MaxOpen
           /\ Len(open) < MaxOpen => OpenPlace(Len(open) + 1) \in Others
           /\ open # <<>> => /\ Len(open) \in 1..MaxOpen
                             /\ Innermost \in Others
                             /\ Last(open) = open[Len(open)]
                             /\ Last(open) \in Names
<1>1. open \in Seq(Names) /\ Len(open) <= MaxOpen
  BY DEF TextInv, CountInv, StackInv
<1>2. Len(open) \in Nat /\ (open # <<>> => Len(open) > 0)
  BY <1>1
<1>3. MaxOpen \in Nat
  BY MacrosAssumption
<1>4. \A i \in 1..MaxOpen : OpenPlace(i) \in Others
  BY TextFacts, OthersAre
<1>5. open # <<>> => Len(open) \in 1..MaxOpen
  BY <1>1, <1>2, <1>3
<1>6. Len(open) < MaxOpen => Len(open) + 1 \in 1..MaxOpen
  BY <1>2, <1>3
<1>7. open # <<>> => Last(open) = open[Len(open)]
  BY Zenon DEF Last
<1>8. open # <<>> => Last(open) \in Names
  BY <1>1, FrontIs
<1> QED
  BY <1>1, <1>2, <1>3, <1>4, <1>5, <1>6, <1>7, <1>8, Zenon DEF Innermost

LEMMA BeginDiversionChanges ==
    ASSUME TextInv, NEW n \in Names, NEW append \in BOOLEAN,
           BeginDiversion(n, append)
    PROVE  LET x == OpenPlace(Len(open) + 1)
           IN  x \in Others /\ Changed(x, OriginalText(x, n, append))
<1> DEFINE x == OpenPlace(Len(open) + 1)
<1>1. x \in Others
  BY OpenSizes DEF BeginDiversion
<1>2. CountInv /\ Sound(Store) /\ x \in Places
  BY <1>1, TextFacts, OtherIs
<1>3. Becomes(Original(x, n, append))
  BY Zenon DEF BeginDiversion
<1> HIDE DEF x
<1>4. Changed(x, OriginalText(x, n, append))
  BY <1>2, <1>3, OriginalChanges
<1> QED
  BY <1>1, <1>4, Zenon DEF x

LEMMA DivertChanges ==
    ASSUME TextInv, NEW c \in Elements, Divert(c)
    PROVE  Innermost \in Others /\ Changed(Innermost, Append(Contents[Innermost], c))
<1>1. open # <<>> /\ CanAppend(Store, Innermost)
      /\ Becomes(AppendCell(Store, Innermost, c))
  BY Zenon DEF Divert
<1>2. Innermost \in Others
  BY <1>1, OpenSizes
<1>3. CountInv /\ Sound(Store) /\ Innermost \in Places
  BY <1>2, TextFacts, OtherIs
<1>4. Changed(Innermost, Append(Contents[Innermost], c))
  BY <1>1, <1>3, CellsHave, AppendChanges
<1> QED
  BY <1>2, <1>4

LEMMA EndDiversionEnds ==
    ASSUME TextInv, EndDiversion
    PROVE  /\ open # <<>> /\ Innermost \in Others /\ Last(open) \in Names
           /\ CanStore(names[Last(open)])
           /\ Ended(Innermost, Contents[Innermost], Last(open), names[Last(open)])
<1>1. /\ open # <<>> /\ CanStore(names[Last(open)])
      /\ Becomes(Stored(Store, Last(open), names[Last(open)], Innermost))
  BY Zenon DEF EndDiversion
<1>2. Innermost \in Others /\ Last(open) \in Names
  BY <1>1, OpenSizes
<1>3. Tidy /\ Innermost \in Places /\ \A q \in Objects : Innermost # ObjectPlace(q)
  BY <1>2, TextFacts, OtherIs
<1>4. Ended(Innermost, Contents[Innermost], Last(open), names[Last(open)])
  BY <1>1, <1>2, <1>3, StoredNow
<1> QED
  BY <1>1, <1>2, <1>4

LEMMA DiversionsRest ==
    ASSUME TextInv, NEW n, NEW append \in BOOLEAN, NEW c,
           \/ n \in Names /\ BeginDiversion(n, append)
           \/ c \in Elements /\ Divert(c)
           \/ EndDiversion
    PROVE  TextRest
<1>1. draft = NoDraft /\ UNCHANGED <<draft, input>>
  BY DEF BeginDiversion, Divert, EndDiversion, Interpreting
<1>2. DraftNamed'
  BY <1>1 DEF DraftNamed
<1>3. Local \in Others /\ \A i \in 1..MaxOpen : OpenPlace(i) \in Others
  BY TextFacts, OthersAre
<1>4. \A i \in DOMAIN input : InputPlace(i) \in Others
  BY TextFacts, OthersAre, Zenon
<1>5. /\ \A i, j : InputPlace(i) # OpenPlace(j)
      /\ \A i, j : OpenPlace(i) = OpenPlace(j) => i = j
      /\ \A i : OpenPlace(i) # Local
  BY PlacesDiffer
<1>6. ASSUME NEW k, \A y \in Others \ {OpenPlace(k)} : Contents'[y] = Contents[y],
             \A i \in 1..MaxOpen : i > Len(open') /\ i # k => i > Len(open),
             k > Len(open') => Contents'[OpenPlace(k)] = <<>>
      PROVE  Spare' /\ InputFits'
  <2>1. \A y \in Others : y # OpenPlace(k) => Contents'[y] = Contents[y]
    BY <1>6
  <2>2. Contents'[Local] = <<>>
    BY <1>1, <1>3, <1>5, <2>1, Zenon DEF TextInv, Spare
  <2>3. ASSUME NEW i \in 1..MaxOpen, i > Len(open')
        PROVE  Contents'[OpenPlace(i)] = <<>>
    BY <1>3, <1>5, <1>6, <2>1, <2>3, Zenon DEF TextInv, Spare
  <2>4. Spare'
    BY <2>2, <2>3, Zenon DEF Spare
  <2>5. \A i \in DOMAIN input : Contents'[InputPlace(i)] = Contents[InputPlace(i)]
    BY <1>4, <1>5, <2>1, Zenon
  <2>6. InputFits'
    BY <1>1, <2>5 DEF TextInv, InputFits
  <2> QED
    BY <2>4, <2>6
<1>7. Len(open) \in Nat /\ MaxOpen \in Nat /\ Len(open) <= MaxOpen
      /\ open \in Seq(Names)
  BY OpenSizes
<1>8. CASE n \in Names /\ BeginDiversion(n, append)
  <2> DEFINE k == Len(open) + 1
             x == OpenPlace(k)
             w == OriginalText(x, n, append)
  <2>1. x \in Others /\ Changed(x, w)
    BY <1>8, BeginDiversionChanges
  <2>2. Len(open') = k
    BY <1>7, <1>8 DEF BeginDiversion
  <2>3. /\ \A i \in 1..MaxOpen : i > Len(open') /\ i # k => i > Len(open)
        /\ ~(k > Len(open'))
    BY <1>7, <2>2
  <2> HIDE DEF k, w
  <2>4. /\ Sound(Store)' /\ Vacant' /\ \A y : y # x => Contents'[y] = Contents[y]
    BY <2>1, OtherChanged
  <2>5. Spare' /\ InputFits'
    BY <1>6, <2>3, <2>4, Zenon
  <2> QED
    BY <1>2, <2>4, <2>5, Zenon DEF TextRest
<1>9. CASE c \in Elements /\ Divert(c)
  <2> DEFINE k == Len(open)
             w == Append(Contents[Innermost], c)
  <2>1. Innermost \in Others /\ Changed(Innermost, w)
    BY <1>9, DivertChanges
  <2>2. open' = open /\ Innermost = OpenPlace(k)
    BY <1>9 DEF Divert, Innermost
  <2>3. /\ \A i \in 1..MaxOpen : i > Len(open') /\ i # k => i > Len(open)
        /\ ~(k > Len(open'))
    BY <1>7, <2>2
  <2> HIDE DEF k, w
  <2>4. /\ Sound(Store)' /\ Vacant'
        /\ \A y : y # OpenPlace(k) => Contents'[y] = Contents[y]
    BY <2>1, <2>2, OtherChanged
  <2>5. Spare' /\ InputFits'
    BY <1>6, <2>3, <2>4, Zenon
  <2> QED
    BY <1>2, <2>4, <2>5, Zenon DEF TextRest
<1>10. CASE EndDiversion
  <2> DEFINE k == Len(open)
  <2>1. /\ open # <<>> /\ Innermost \in Others /\ Last(open) \in Names
        /\ CanStore(names[Last(open)])
        /\ Ended(Innermost, Contents[Innermost], Last(open), names[Last(open)])
    BY <1>10, EndDiversionEnds
  <2>2. Len(open') = k - 1
    BY <1>7, <1>10, <2>1, FrontIs DEF EndDiversion
  <2>3. Innermost = OpenPlace(k)
    BY DEF Innermost
  <2>4. /\ \A i \in 1..MaxOpen : i > Len(open') /\ i # k => i > Len(open)
    BY <1>7, <2>2
  <2> HIDE DEF k
  <2>5. /\ Sound(Store)' /\ Vacant' /\ Contents'[Innermost] = <<>>
        /\ \A y \in Others \ {Innermost} : Contents'[y] = Contents[y]
    BY <2>1, EndedOther
  <2>6. Spare' /\ InputFits'
    BY <1>6, <2>3, <2>4, <2>5, Zenon
  <2> QED
    BY <1>2, <2>5, <2>6, Zenon DEF TextRest
<1> QED
  BY <1>8, <1>9, <1>10

-----------------------------------------------------------------------------
LEMMA TextInit == Init => TextInv
<1> SUFFICES ASSUME Init PROVE TextInv
  OBVIOUS
<1>1. CountInv
  BY CountInit
<1>2. \A x : x \in Places => mac[x] = NoMacro
  BY DEF Init
<1>3. \A x \in Places : TextOf(Store, x) = <<>>
  BY <1>2 DEF Store, TextOf, NoMacro
<1>4. \A x \in Places : Contents[x] = <<>>
  BY <1>3, ContentsAre
<1>5. Sound(Store)
  <2>1. mem \in MemType
    BY DEF Init, MemType, HeaderType, Unused
  <2>2. mac \in MacType
    BY DEF Init, MacType, MacroType, NoMacro
  <2>3. \A x \in Places : Fits(mem, mac[x])
    BY <1>2 DEF Fits, NoMacro
  <2> QED
    BY <2>1, <2>2, <2>3 DEF Sound, Store
<1>6. Vacant
  BY <1>4, ObjectPlaces DEF Vacant
<1>7. Spare
  BY <1>1, <1>4, OthersAre, OtherIs DEF Spare, CountInv
<1>8. DraftNamed /\ InputFits /\ aborted \in BOOLEAN
  <2>1. draft = NoDraft /\ aborted = FALSE /\ DOMAIN input = {}
    BY DEF Init
  <2> QED
    BY <2>1, Zenon DEF DraftNamed, InputFits
<1> QED
  BY <1>1, <1>5, <1>6, <1>7, <1>8, Zenon DEF TextInv

\* Whether the program has failed an assertion stays a Boolean.
LEMMA AbortedNext ==
    ASSUME Next
    PROVE  aborted' = aborted \/ aborted' = TRUE
<1>1. ASSUME NEW n,
             \/ Chop(n) \/ Asciify(n) \/ Unformat(n) \/ ChangeCase(n)
             \/ \E i, j \in 1..MaxLength : Substring(n, i, j)
             \/ \E b \in Names : Rn(n, b) \/ Als(n, b)
             \/ Rm(n)
      PROVE  aborted' = aborted \/ aborted' = TRUE
  BY <1>1, Zenon DEF Chop, Asciify, Unformat, ChangeCase, Substring, Rn, Als, Rm,
                     Abort, Continue
<1>2. ASSUME NEW n, NEW append, NEW comp, NEW c,
             \/ Read \/ EndOfInput \/ EndDefinition \/ AbandonDefinition
             \/ EndDiversion \/ Collect(c) \/ Divert(c)
             \/ Dereference(n) \/ Interpolate(n)
             \/ BeginDiversion(n, append) \/ BeginDefinition(n, append, comp)
      PROVE  aborted' = aborted
  BY <1>2 DEF Read, EndOfInput, EndDefinition, AbandonDefinition, EndDiversion,
              Collect, Divert, Dereference, Interpolate, BeginDiversion,
              BeginDefinition
<1> QED
  BY <1>1, <1>2, Zenon DEF Next

\* Every step keeps TextInv: requests, definitions, diversions and readers.
LEMMA TextNext == TextInv /\ [Next]_vars => TextInv'
<1> SUFFICES ASSUME TextInv, [Next]_vars PROVE TextInv'
  OBVIOUS
<1>1. CountInv'
  BY CountNext, Zenon DEF TextInv
<1>2. CASE UNCHANGED vars
  <2>1. Steady /\ UNCHANGED <<draft, open, input>> /\ UNCHANGED <<names, aborted>>
    BY <1>2, SteadySame DEF vars
  <2>2. Spare' /\ InputFits'
    BY <2>1, SteadyKeeps, Zenon
  <2>3. DraftNamed' /\ aborted' \in BOOLEAN
    BY <2>1 DEF TextInv, DraftNamed
  <2> QED
    BY <1>1, <2>1, <2>2, <2>3, Zenon DEF TextInv, Steady
<1>3. CASE Next
  <2>1. ASSUME NEW n \in Names,
               \/ Dereference(n) \/ Interpolate(n) \/ Chop(n) \/ Asciify(n)
               \/ Unformat(n) \/ ChangeCase(n) \/ Rm(n)
        PROVE  TextRest
    BY <2>1, NamesRest, ReadsRest, RequestSteady, Zenon
  <2>2. ASSUME NEW n \in Names, NEW append \in BOOLEAN, NEW comp \in BOOLEAN,
               BeginDiversion(n, append) \/ BeginDefinition(n, append, comp)
        PROVE  TextRest
    BY <2>2, DefinitionsRest, DiversionsRest
  <2>3. ASSUME NEW n \in Names, NEW b \in Names, Rn(n, b) \/ Als(n, b)
        PROVE  TextRest
    BY <2>3, NamesRest, Zenon
  <2>4. ASSUME NEW n \in Names, NEW i \in 1..MaxLength, NEW j \in 1..MaxLength,
               Substring(n, i, j)
        PROVE  TextRest
    BY <2>4, RequestSteady, Zenon
  <2>5. ASSUME NEW c \in Elements, Collect(c) \/ Divert(c)
        PROVE  TextRest
    <3>1. TRUE \in BOOLEAN
      OBVIOUS
    <3> QED
      BY <2>5, <3>1, DefinitionsRest, DiversionsRest
  <2>6. ASSUME Read \/ EndOfInput \/ EndDefinition \/ AbandonDefinition
                  \/ EndDiversion
        PROVE  TextRest
    <3>1. TRUE \in BOOLEAN
      OBVIOUS
    <3> QED
      BY <2>6, <3>1, ReadsRest, DefinitionsRest, DiversionsRest
  <2>7. TextRest
    BY <1>3, <2>1, <2>2, <2>3, <2>4, <2>5, <2>6, Zenon DEF Next
  <2>8. aborted' \in BOOLEAN
    BY <1>3, AbortedNext, Zenon DEF TextInv
  <2> QED
    BY <1>1, <2>7, <2>8, Zenon DEF TextInv, TextRest
<1> QED
  BY <1>2, <1>3

\* Every text has its type, for ever: what a macro, a diversion or an iterator
\* takes for its part of a header lies within the characters of that header,
\* whoever appended, chopped or copied in between.
THEOREM MacrosTyped == Spec => []TypeOK
<1>1. ASSUME TextInv PROVE TypeOK
  <2>1. mem \in MemType /\ mac \in MacType /\ \A x \in Places : Fits(mem, mac[x])
    BY <1>1 DEF TextInv, Sound, Store
  <2>2. names \in [Names -> Referents] /\ refs \in [Objects -> Nat]
    BY <1>1 DEF TextInv, CountInv, StoreInv, Owing, Surplus, Store
  <2>3. StackInv /\ aborted \in BOOLEAN
    BY <1>1, Zenon DEF TextInv, CountInv
  <2>4. ASSUME NEW i \in DOMAIN input PROVE input[i] <= mac[InputPlace(i)].length
    <3>1. InputPlace(i) \in Places
      BY <2>3, OthersAre, OtherIs
    <3>2. Len(Contents[InputPlace(i)]) = mac[InputPlace(i)].length
      BY <1>1, <3>1, ContentsType DEF TextInv
    <3>3. input[i] <= Len(Contents[InputPlace(i)])
      BY <1>1 DEF TextInv, InputFits
    <3> QED
      BY <3>2, <3>3
  <2>5. \A x \in Places : mac[x].length <=
           IF mac[x].p = NoHeader THEN 0 ELSE Len(mem[mac[x].p].cells)
    BY <2>1 DEF Fits
  <2>6. /\ mem \in [Headers -> [count : Nat, cells : Seq(Cells)]]
        /\ mac \in [Places -> [p : Headers \cup {NoHeader}, length : Nat,
                               empty : BOOLEAN]]
        /\ names \in [Names -> Objects \cup {NoObject, Request}]
    BY <2>1, <2>2, Zenon DEF MemType, HeaderType, MacType, MacroType, Referents
  <2> QED
    BY <2>2, <2>3, <2>4, <2>5, <2>6, Zenon DEF TypeOK, StackInv
<1> QED
  BY <1>1, TextInit, TextNext, PTL DEF Spec

-----------------------------------------------------------------------------
\* The modes of texts stay balanced.

\* The tokens of modes alternate in every text, and all texts but that of a
\* definition end in the mode in which they began.
LocalMode == IF draft # NoDraft /\ draft.comp THEN Push ELSE Pop
ModeAt(x, m) == IF x = Local THEN m ELSE Pop
Balances(c, m) == \A x \in Places : Ends(c[x], ModeAt(x, m))
Modal == Balances(Contents, LocalMode)

LEMMA ModeAtObjects ==
    /\ \A q \in Objects : \A m : ModeAt(ObjectPlace(q), m) = Pop
    /\ \A x : \A m : x # Local => ModeAt(x, m) = Pop
    /\ \A m : ModeAt(Local, m) = m
BY ObjectPlaces, Zenon DEF ModeAt

LEMMA ModalAt ==
    ASSUME Modal, NEW x \in Places
    PROVE  /\ Ends(Contents[x], ModeAt(x, LocalMode))
           /\ x # Local => Ends(Contents[x], Pop)
           /\ x = Local => Ends(Contents[x], LocalMode)
<1>1. Ends(Contents[x], ModeAt(x, LocalMode))
  BY Zenon DEF Modal, Balances
<1> QED
  BY <1>1, Zenon DEF ModeAt

LEMMA BalancesAltered ==
    ASSUME NEW c, NEW d, NEW m, NEW k, Balances(c, m), NEW x \in Places, NEW w,
           d[x] = w, \A y : y # x => d[y] = c[y], Ends(w, ModeAt(x, k)),
           x = Local \/ m = k
    PROVE  Balances(d, k)
<1> SUFFICES ASSUME NEW y \in Places PROVE Ends(d[y], ModeAt(y, k))
  BY Zenon DEF Balances
<1>1. CASE y = x
  BY <1>1, Zenon
<1>2. CASE y # x
  <2>1. d[y] = c[y] /\ Ends(c[y], ModeAt(y, m))
    BY <1>2, Zenon DEF Balances
  <2>2. ModeAt(y, m) = ModeAt(y, k)
    BY <1>2, Zenon DEF ModeAt
  <2> QED
    BY <2>1, <2>2, Zenon
<1> QED
  BY <1>1, <1>2, Zenon

LEMMA ModalChanged ==
    ASSUME Modal, NEW x \in Places, NEW w, Changed(x, w),
           Ends(w, ModeAt(x, LocalMode')), x = Local \/ LocalMode' = LocalMode
    PROVE  Modal'
<1>1. Contents'[x] = w /\ \A y : y # x => Contents'[y] = Contents[y]
  BY ChangedIs
<1>2. Balances(Contents', LocalMode')
  BY <1>1, BalancesAltered, Zenon DEF Modal
<1> QED
  BY <1>2, Zenon DEF Modal

LEMMA PlacesSplit ==
    ASSUME NEW x \in Places
    PROVE  x \in Others \/ \E q \in Objects : x = ObjectPlace(q)
BY Zenon DEF Others, IsObjectPlace

LEMMA ModalRelinked ==
    ASSUME NEW l, NEW c, Relinked(l, c), Balances(c, LocalMode')
    PROVE  Modal'
<1>1. /\ \A y \in Others : Contents'[y] = c[y]
      /\ \A q \in Objects : Contents'[ObjectPlace(q)] = <<>>
                              \/ Contents'[ObjectPlace(q)] = c[ObjectPlace(q)]
  BY RelinkedIs
<1>2. ASSUME NEW y \in Places PROVE Ends(Contents'[y], ModeAt(y, LocalMode'))
  <2>1. Ends(c[y], ModeAt(y, LocalMode'))
    BY Zenon DEF Balances
  <2>2. CASE Contents'[y] = c[y]
    BY <2>1, <2>2, Zenon
  <2>3. CASE \E q \in Objects : y = ObjectPlace(q) /\ Contents'[y] = <<>>
    BY <2>3, ModeAtObjects, EmptyEnds, Zenon
  <2> QED
    BY <1>1, <2>2, <2>3, PlacesSplit, Zenon
<1>3. Balances(Contents', LocalMode')
  BY <1>2, Zenon DEF Balances
<1> QED
  BY <1>3, Zenon DEF Modal

LEMMA BalancesFinal ==
    ASSUME Modal, NEW x \in Places, NEW q \in Objects, x # ObjectPlace(q), NEW w,
           Ends(w, Pop), NEW k, k = Pop, x = Local \/ LocalMode = Pop
    PROVE  Balances(Final(x, ObjectPlace(q), w), k)
<1> DEFINE z == ObjectPlace(q)
           c == Final(x, z, w)
<1>1. z \in Places /\ z # Local
  BY ObjectPlaces
<1> HIDE DEF z
<1>2. /\ c[x] = <<>> /\ c[z] = w
      /\ \A y : y # x /\ y # z => c[y] = Contents[y]
  BY <1>1, FinalIs DEF z
<1> HIDE DEF c
<1>3. ASSUME NEW y \in Places PROVE Ends(c[y], ModeAt(y, k))
  <2>1. ModeAt(y, k) = Pop
    BY Zenon DEF ModeAt
  <2>2. CASE y = x \/ y = z
    BY <1>2, <2>1, <2>2, EmptyEnds, Zenon
  <2>3. CASE y # x /\ y # z
    <3>1. Ends(Contents[y], ModeAt(y, LocalMode))
      BY ModalAt, Zenon
    <3>2. ModeAt(y, LocalMode) = Pop
      BY <2>3, Zenon DEF ModeAt
    <3> QED
      BY <1>2, <2>1, <2>3, <3>1, <3>2, Zenon
  <2> QED
    BY <2>2, <2>3, Zenon
<1> QED
  BY <1>3, Zenon DEF Balances, c, z

LEMMA ModalEnded ==
    ASSUME Modal, NEW x \in Others, NEW w, NEW n, NEW o, CanStore(o),
           Ended(x, w, n, o), Ends(w, Pop), LocalMode' = Pop,
           x = Local \/ LocalMode = Pop
    PROVE  Modal'
<1>0. x \in Places /\ \A q \in Objects : x # ObjectPlace(q)
  BY OtherIs
<1>1. CASE o \in Objects
  <2>1. Contents' = Final(x, ObjectPlace(o), w)
    BY <1>1, Zenon DEF Ended
  <2>2. Balances(Final(x, ObjectPlace(o), w), LocalMode')
    BY <1>0, <1>1, BalancesFinal, Zenon
  <2> QED
    BY <2>1, <2>2, Zenon DEF Modal
<1>2. CASE o \notin Objects
  <2>1. NewObject \in Objects
    BY <1>2, NewObjectIs DEF CanStore
  <2>2. Relinked([names EXCEPT ![n] = NewObject], Final(x, ObjectPlace(NewObject), w))
    BY <1>2, Zenon DEF Ended
  <2> DEFINE l == [names EXCEPT ![n] = NewObject]
             p == NewObject
  <2>3. Balances(Final(x, ObjectPlace(p), w), LocalMode')
    BY <1>0, <2>1, BalancesFinal, Zenon
  <2> HIDE DEF l, p
  <2>4. Relinked(l, Final(x, ObjectPlace(p), w))
    BY <2>2, Zenon DEF l, p
  <2> QED
    BY <2>3, <2>4, ModalRelinked, Zenon
<1> QED
  BY <1>1, <1>2, Zenon

LEMMA LocalModeIs ==
    /\ draft = NoDraft => LocalMode = Pop
    /\ draft' = draft => LocalMode' = LocalMode
    /\ draft' = NoDraft => LocalMode' = Pop
BY DEF LocalMode

LEMMA ModalSame ==
    ASSUME Modal, UNCHANGED <<mem, mac, names, refs>>, draft' = draft
    PROVE  Modal'
<1>1. Contents' = Contents /\ LocalMode' = LocalMode
  BY SameContents, LocalModeIs
<1> QED
  BY <1>1, Zenon DEF Modal

\* Requests that change a text, or names.
LEMMA ModalObject ==
    ASSUME TextInv, Modal, NEW n, names[n] \in Objects, NEW w,
           Changed(ObjectOf(n), w), Ends(w, Pop), draft' = draft
    PROVE  Modal'
<1> DEFINE x == ObjectOf(n)
<1>1. x \in Places /\ x # Local
  BY ObjectPlaces DEF ObjectOf
<1> HIDE DEF x
<1>2. LocalMode' = LocalMode
  BY LocalModeIs
<1>3. Ends(w, ModeAt(x, LocalMode'))
  BY <1>1, Zenon DEF ModeAt
<1>4. Changed(x, w)
  BY DEF x
<1> QED
  BY <1>1, <1>2, <1>3, <1>4, ModalChanged, Zenon

LEMMA ObjectBalances ==
    ASSUME TextInv, Modal, NEW n, names[n] \in Objects
    PROVE  /\ Contents[ObjectOf(n)] \in Seq(Cells)
           /\ Ends(Contents[ObjectOf(n)], Pop)
<1>1. ObjectOf(n) \in Places /\ ObjectOf(n) # Local
  BY ObjectPlaces DEF ObjectOf
<1> QED
  BY <1>1, ObjectOfIs, ModalAt, Zenon

LEMMA AsciiEnds ==
    ASSUME NEW t \in Seq(Cells), Ends(t, Pop)
    PROVE  Ends(AsciiOf(t), Pop)
<1> DEFINE q == [i \in DOMAIN t |-> Ascii(t[i])]
<1>1. /\ q \in Seq(Seq(Cells)) /\ Len(q) = Len(t)
      /\ \A i \in 1..Len(t) : IsPiece(q[i], t[i])
  BY AsciifyIs
<1> HIDE DEF q
<1>2. Ends(FlattenSeq(q), Pop)
  BY <1>1, FlattenEnds
<1> QED
  BY <1>2 DEF AsciiOf, q

LEMMA CasedEnds ==
    ASSUME NEW t \in Seq(Cells), Ends(t, Pop)
    PROVE  Ends(CasedOf(t), Pop)
<1> DEFINE u == [i \in DOMAIN t |-> Cased(t[i])]
<1>1. /\ u \in Seq(Cells) /\ Len(u) = Len(t)
      /\ \A i \in 1..Len(t) :
            IF t[i] \in Modes THEN u[i] = t[i] ELSE u[i] \notin Modes
  BY CasedIs
<1> HIDE DEF u
<1>2. Ends(u, Pop)
  BY <1>1, MapEnds
<1> QED
  BY <1>2 DEF CasedOf, u

LEMMA UnformattedEnds ==
    ASSUME NEW t \in Seq(Cells), Ends(t, Pop)
    PROVE  Ends(UnformattedOf(t), Pop)
BY SelectedEnds DEF UnformattedOf

LEMMA ModalRequests ==
    ASSUME TextInv, Modal, ~ChopsShared, NEW n \in Names,
           \/ \E i, j \in 1..MaxLength : Substring(n, i, j)
           \/ Chop(n) \/ Asciify(n) \/ Unformat(n) \/ ChangeCase(n)
    PROVE  Modal'
<1> DEFINE t == Contents[ObjectOf(n)]
<1>1. names[n] \in Objects /\ UNCHANGED draft
  <2>1. Changes(n)
    BY Zenon DEF Chop, Substring, Asciify, Unformat, ChangeCase
  <2> QED
    BY <2>1 DEF Changes
<1>2. t \in Seq(Cells) /\ Ends(t, Pop)
  BY <1>1, ObjectBalances
<1>3. CASE UNCHANGED <<mem, mac, names, refs>>
  BY <1>1, <1>3, ModalSame, Zenon
<1>4. ASSUME NEW w, Changed(ObjectOf(n), w), Ends(w, Pop) PROVE Modal'
  BY <1>1, <1>4, ModalObject, Zenon
<1>5. CASE Chop(n)
  <2> DEFINE k == Unpaired(t)
  <2>1. CASE /\ k \in 1..Len(t) /\ PairsAfter(t, k)
             /\ k > 1 => ~IsPair(t, k - 1)
             /\ Changed(ObjectOf(n), Without(t, k))
    <3> HIDE DEF k, t
    <3>1. Ends(Without(t, k), Pop)
      BY <1>2, <2>1, WithoutEnds
    <3> QED
      BY <1>4, <2>1, <3>1, Zenon
  <2> QED
    BY <1>2, <1>3, <1>5, <2>1, ChopChanges, Zenon
<1>6. CASE \E i, j \in 1..MaxLength : Substring(n, i, j)
  <2>1. PICK i \in 1..MaxLength, j \in 1..MaxLength : Substring(n, i, j)
    BY <1>6, Zenon
  <2>2. CASE /\ i <= j /\ j <= Len(Selected(t, Elements))
             /\ Changed(ObjectOf(n), SubstringOf(t, i, j))
    <3> HIDE DEF t
    <3>1. SubstringOf(t, i, j) \in Seq(Elements)
      BY <1>2, <2>2, SubstringIs
    <3>2. Ends(SubstringOf(t, i, j), Pop)
      BY <3>1, PlainEnds
    <3> QED
      BY <1>4, <2>2, <3>2, Zenon
  <2> QED
    BY <1>3, <2>1, <2>2, SubstringChanges, Zenon
<1>7. CASE Asciify(n)
  <2>1. Changed(ObjectOf(n), AsciiOf(t))
    BY <1>7, AsciifyChanges
  <2> HIDE DEF t
  <2> QED
    BY <1>2, <1>4, <2>1, AsciiEnds, Zenon
<1>8. CASE Unformat(n)
  <2>1. Changed(ObjectOf(n), UnformattedOf(t))
    BY <1>8, UnformatChanges
  <2> HIDE DEF t
  <2> QED
    BY <1>2, <1>4, <2>1, UnformattedEnds, Zenon
<1>9. CASE ChangeCase(n)
  <2> DEFINE l == [names EXCEPT ![n] = NewObject]
             z == ObjectPlace(NewObject)
             w == CasedOf(t)
             c == Altered(Contents, z, w)
  <2>1. CASE FreeObjects # {} /\ Relinked(l, c)
    <3>1. z \in Places /\ z # Local
      BY <2>1, NewObjectIs, ObjectPlaces
    <3>2. Ends(w, Pop)
      BY <1>2, CasedEnds
    <3>3. LocalMode' = LocalMode
      BY <1>1, LocalModeIs
    <3> HIDE DEF z, w, l
    <3>4. c[z] = w /\ \A y : y # z => c[y] = Contents[y]
      BY <3>1, AlteredIs, ContentsDomain
    <3>5. Ends(w, ModeAt(z, LocalMode'))
      BY <3>1, <3>2, Zenon DEF ModeAt
    <3> HIDE DEF c
    <3>6. Balances(c, LocalMode')
      BY <3>1, <3>3, <3>4, <3>5, BalancesAltered, Zenon DEF Modal
    <3> QED
      BY <2>1, <3>6, ModalRelinked, Zenon
  <2> QED
    BY <1>3, <1>9, <2>1, ChangeCaseChanges, Zenon
<1> QED
  BY <1>5, <1>6, <1>7, <1>8, <1>9

LEMMA ModalNames ==
    ASSUME TextInv, Modal, NEW a \in Names, NEW b \in Names,
           Rn(a, b) \/ Als(a, b) \/ Rm(a) \/ Dereference(a)
    PROVE  Modal'
<1>1. PICK l : Relinked(l, Contents)
  BY NamesRelink, DereferenceRelinks, Zenon
<1>2. LocalMode' = LocalMode
  BY LocalModeIs DEF Rn, Als, Rm, Dereference
<1>3. Balances(Contents, LocalMode')
  BY <1>2, Zenon DEF Modal
<1> QED
  BY <1>1, <1>3, ModalRelinked, Zenon

\* A text is copied, or goes.
LEMMA ModalCopied ==
    ASSUME TextInv, Modal, NEW x \in Others, NEW w, Changed(x, w), Ends(w, Pop),
           x # Local, draft' = draft
    PROVE  Modal'
<1>1. x \in Places
  BY OtherIs
<1>2. LocalMode' = LocalMode
  BY LocalModeIs
<1>3. Ends(w, ModeAt(x, LocalMode'))
  BY Zenon DEF ModeAt
<1> QED
  BY <1>1, <1>2, <1>3, ModalChanged, Zenon

LEMMA ModalLocal ==
    ASSUME TextInv, Modal, NEW w, Changed(Local, w), Ends(w, LocalMode')
    PROVE  Modal'
<1>1. Local \in Places
  BY TextFacts, PlacesAre
<1>2. Ends(w, ModeAt(Local, LocalMode'))
  BY Zenon DEF ModeAt
<1> QED
  BY <1>1, <1>2, ModalChanged, Zenon

LEMMA OriginalEnds ==
    ASSUME TextInv, Modal, NEW x \in Others, NEW n, NEW append,
           draft = NoDraft
    PROVE  /\ OriginalText(x, n, append) \in Seq(Cells)
           /\ Ends(OriginalText(x, n, append), Pop)
<1>1. LocalMode = Pop
  BY LocalModeIs
<1>2. ASSUME NEW y \in Places
      PROVE  Contents[y] \in Seq(Cells) /\ Ends(Contents[y], Pop)
  <2>1. Contents[y] \in Seq(Cells)
    BY ContentsType DEF TextInv
  <2> QED
    BY <1>1, <2>1, ModalAt, Zenon
<1>3. x \in Places /\ \A q \in Objects : ObjectPlace(q) \in Places
  BY OtherIs, ObjectPlaces
<1> QED
  BY <1>2, <1>3, Zenon DEF OriginalText

LEMMA ModalReads ==
    ASSUME TextInv, Modal, NEW n,
           Read \/ EndOfInput \/ (n \in Names /\ Interpolate(n))
    PROVE  Modal'
<1>1. UNCHANGED draft /\ Local # InputPlace(Len(input))
      /\ Local # InputPlace(Len(input) + 1)
  BY PlacesDiffer DEF Read, EndOfInput, Interpolate
<1>2. CASE Read
  BY <1>1, <1>2, ModalSame DEF Read
<1>3. CASE EndOfInput
  <2>1. InputPlace(Len(input)) \in Others /\ Changed(InputPlace(Len(input)), <<>>)
    BY <1>3, EndOfInputChanges
  <2> QED
    BY <1>1, <2>1, EmptyEnds, ModalCopied, Zenon
<1>4. CASE n \in Names /\ Interpolate(n)
  <2> DEFINE x == InputPlace(Len(input) + 1)
             w == Contents[ObjectPlace(names[n])]
  <2>1. x \in Others /\ Changed(x, w) /\ names[n] \in Objects
    BY <1>4, InterpolateChanges
  <2>2. Ends(w, Pop)
    BY <2>1, ObjectBalances DEF ObjectOf
  <2>3. x # Local
    BY <1>1
  <2> HIDE DEF x, w
  <2> QED
    BY <1>1, <2>1, <2>2, <2>3, ModalCopied, Zenon
<1> QED
  BY <1>2, <1>3, <1>4

LEMMA ModalBeginning ==
    ASSUME TextInv, Modal, NEW n \in Names, NEW append \in BOOLEAN,
           NEW comp \in BOOLEAN, BeginDefinition(n, append, comp)
    PROVE  Modal'
<1> DEFINE t == OriginalText(Local, n, append)
<1>1. Changed(Local, IF comp THEN Append(t, Push) ELSE t)
  BY BeginDefinitionChanges
<1>2. draft = NoDraft /\ draft' # NoDraft /\ draft'.comp = comp
  BY DraftBegun
<1>3. t \in Seq(Cells) /\ Ends(t, Pop)
  BY <1>2, TextFacts, OthersAre, OriginalEnds
<1> HIDE DEF t
<1>4. LocalMode' = IF comp THEN Push ELSE Pop
  BY <1>2, Zenon DEF LocalMode
<1>5. Ends(Append(t, Push), Push)
  <2>1. Push \in Modes /\ Push \in Cells /\ Push # Pop
    BY MacrosAssumption DEF Modes, Cells
  <2>2. Ends(Append(t, Push), IF Push \in Modes THEN Push ELSE Pop)
    BY <1>3, <2>1, StepEnds
  <2> QED
    BY <2>1, <2>2, Zenon
<1>6. CASE comp
  <2>1. Changed(Local, Append(t, Push)) /\ LocalMode' = Push
    BY <1>1, <1>4, <1>6, Zenon
  <2> QED
    BY <1>5, <2>1, ModalLocal, Zenon
<1>7. CASE ~comp
  <2>1. Changed(Local, t) /\ LocalMode' = Pop
    BY <1>1, <1>4, <1>7, Zenon
  <2> QED
    BY <1>3, <2>1, ModalLocal, Zenon
<1> QED
  BY <1>6, <1>7

LEMMA DraftEnds ==
    ASSUME TextInv, Modal, draft # NoDraft
    PROVE  Ends(DraftText, Pop)
<1>1. Local \in Places
  BY TextFacts, PlacesAre
<1>2. Contents[Local] \in Seq(Cells) /\ Ends(Contents[Local], LocalMode)
  BY <1>1, ContentsType, ModalAt DEF TextInv
<1>3. CASE draft.comp
  <2>1. LocalMode = Push /\ DraftText = Append(Contents[Local], Pop)
    BY <1>3, Zenon DEF LocalMode, DraftText
  <2>2. Pop \in Modes /\ Pop \in Cells /\ Push # Pop
    BY MacrosAssumption DEF Modes, Cells
  <2>3. Ends(Append(Contents[Local], Pop), IF Pop \in Modes THEN Pop ELSE Push)
    BY <1>2, <2>1, <2>2, StepEnds
  <2> QED
    BY <2>1, <2>2, <2>3, Zenon
<1>4. CASE ~draft.comp
  BY <1>2, <1>4, Zenon DEF LocalMode, DraftText
<1> QED
  BY <1>3, <1>4

LEMMA ModalDefinitions ==
    ASSUME TextInv, Modal, NEW c,
           (c \in Elements /\ Collect(c)) \/ EndDefinition \/ AbandonDefinition
    PROVE  Modal'
<1>1. Local \in Others /\ Local \in Places
  BY TextFacts, OthersAre, OtherIs
<1>2. Contents[Local] \in Seq(Cells) /\ Ends(Contents[Local], LocalMode)
  BY <1>1, ContentsType, ModalAt DEF TextInv
<1>3. CASE c \in Elements /\ Collect(c)
  <2>1. Changed(Local, Append(Contents[Local], c))
    BY <1>3, CollectChanges
  <2>2. Ends(Append(Contents[Local], c), LocalMode)
    BY <1>2, <1>3, ElementEnds
  <2>3. draft' = draft
    BY <1>3, Zenon DEF Collect
  <2>4. LocalMode' = LocalMode
    BY <2>3, LocalModeIs
  <2> QED
    BY <2>1, <2>2, <2>4, ModalLocal, Zenon
<1>4. CASE EndDefinition
  <2>1. /\ draft.name \in Names /\ CanStore(draft.object)
        /\ Ended(Local, DraftText, draft.name, draft.object)
    BY <1>4, EndDefinitionEnds
  <2>2. draft # NoDraft /\ draft' = NoDraft
    BY <1>4, Zenon DEF EndDefinition
  <2>3. Ends(DraftText, Pop) /\ LocalMode' = Pop
    BY <2>2, DraftEnds, LocalModeIs
  <2> QED
    BY <1>1, <2>1, <2>3, ModalEnded, Zenon
<1>5. CASE AbandonDefinition
  <2>1. Changed(Local, <<>>)
    BY <1>5, AbandonChanges
  <2>2. draft' = NoDraft
    BY <1>5, Zenon DEF AbandonDefinition
  <2>3. Ends(<<>>, LocalMode')
    BY <2>2, LocalModeIs, EmptyEnds
  <2> QED
    BY <2>1, <2>3, ModalLocal, Zenon
<1> QED
  BY <1>3, <1>4, <1>5

LEMMA ModalDiversions ==
    ASSUME TextInv, Modal, NEW n, NEW append \in BOOLEAN, NEW c,
           \/ n \in Names /\ BeginDiversion(n, append)
           \/ c \in Elements /\ Divert(c)
           \/ EndDiversion
    PROVE  Modal'
<1>1. draft = NoDraft /\ draft' = draft
  BY DEF BeginDiversion, Divert, EndDiversion, Interpreting
<1>2. LocalMode = Pop /\ LocalMode' = Pop
  BY <1>1, LocalModeIs
<1>3. OpenPlace(Len(open)) # Local /\ OpenPlace(Len(open) + 1) # Local
  BY PlacesDiffer
<1>4. CASE n \in Names /\ BeginDiversion(n, append)
  <2> DEFINE x == OpenPlace(Len(open) + 1)
             w == OriginalText(x, n, append)
  <2>1. x \in Others /\ Changed(x, w)
    BY <1>4, BeginDiversionChanges
  <2>2. x # Local
    BY <1>3
  <2> HIDE DEF x
  <2>3. Ends(w, Pop)
    BY <1>1, <2>1, OriginalEnds
  <2> HIDE DEF w
  <2> QED
    BY <1>1, <2>1, <2>2, <2>3, ModalCopied, Zenon
<1>5. CASE c \in Elements /\ Divert(c)
  <2> DEFINE w == Append(Contents[Innermost], c)
  <2>1. Innermost \in Others /\ Changed(Innermost, w)
    BY <1>5, DivertChanges
  <2>2. Innermost # Local
    BY <1>3 DEF Innermost
  <2>3. Innermost \in Places
    BY <2>1, OtherIs
  <2>4. Contents[Innermost] \in Seq(Cells) /\ Ends(Contents[Innermost], Pop)
    BY <2>2, <2>3, ContentsType, ModalAt DEF TextInv
  <2>5. Ends(w, Pop)
    BY <1>5, <2>4, ElementEnds
  <2> HIDE DEF w
  <2> QED
    BY <1>1, <2>1, <2>2, <2>5, ModalCopied, Zenon
<1>6. CASE EndDiversion
  <2>1. /\ Innermost \in Others
        /\ CanStore(names[Last(open)])
        /\ Ended(Innermost, Contents[Innermost], Last(open), names[Last(open)])
    BY <1>6, EndDiversionEnds
  <2>2. Innermost # Local /\ Innermost \in Places
    BY <1>3, <2>1, OtherIs DEF Innermost
  <2>3. Ends(Contents[Innermost], Pop)
    BY <2>2, ModalAt
  <2> QED
    BY <1>2, <2>1, <2>3, ModalEnded, Zenon
<1> QED
  BY <1>4, <1>5, <1>6

LEMMA ModalInit == Init => Modal
<1> SUFFICES ASSUME Init PROVE Modal
  OBVIOUS
<1>1. \A x : x \in Places => mac[x] = NoMacro
  BY DEF Init
<1>2. \A x \in Places : TextOf(Store, x) = <<>>
  BY <1>1 DEF Store, TextOf, NoMacro
<1>3. \A x \in Places : Contents[x] = <<>>
  BY <1>2, ContentsAre
<1>4. LocalMode = Pop
  BY LocalModeIs DEF Init
<1> QED
  BY <1>3, <1>4, EmptyEnds, Zenon DEF Modal, Balances, ModeAt

LEMMA ModalNext ==
    ASSUME TextInv, Modal, ~ChopsShared, [Next]_vars
    PROVE  Modal'
<1>0. TRUE \in BOOLEAN
  OBVIOUS
<1>1. CASE UNCHANGED vars
  BY <1>1, ModalSame, ZenonT(30) DEF vars
<1>2. CASE Next
  <2>1. ASSUME NEW n \in Names,
               \/ Dereference(n) \/ Interpolate(n) \/ Chop(n) \/ Asciify(n)
               \/ Unformat(n) \/ ChangeCase(n) \/ Rm(n)
        PROVE  Modal'
    BY <2>1, ModalNames, ModalReads, ModalRequests, Zenon
  <2>2. ASSUME NEW n \in Names, NEW append \in BOOLEAN, NEW comp \in BOOLEAN,
               BeginDiversion(n, append) \/ BeginDefinition(n, append, comp)
        PROVE  Modal'
    BY <2>2, ModalBeginning, ModalDiversions
  <2>3. ASSUME NEW n \in Names, NEW b \in Names, Rn(n, b) \/ Als(n, b)
        PROVE  Modal'
    BY <2>3, ModalNames, Zenon
  <2>4. ASSUME NEW n \in Names, NEW i \in 1..MaxLength, NEW j \in 1..MaxLength,
               Substring(n, i, j)
        PROVE  Modal'
    BY <2>4, ModalRequests, Zenon
  <2>5. ASSUME NEW c \in Elements, Collect(c) \/ Divert(c)
        PROVE  Modal'
    BY <1>0, <2>5, ModalDefinitions, ModalDiversions
  <2>6. ASSUME Read \/ EndOfInput \/ EndDefinition \/ AbandonDefinition
                  \/ EndDiversion
        PROVE  Modal'
    BY <1>0, <2>6, ModalReads, ModalDefinitions, ModalDiversions
  <2> QED
    BY <1>2, <2>1, <2>2, <2>3, <2>4, <2>5, <2>6, Zenon DEF Next
<1> QED
  BY <1>1, <1>2

\* The tokens that save and restore the mode alternate in every text, and all but
\* the one of an unfinished definition end with the mode restored: no request and
\* no diversion splits a pair, unless a text with such a token is chopped while
\* others share it.
THEOREM ModesStayBalanced ==
    ASSUME "chop of shared modes" \notin Extras
    PROVE  Spec => []ModesBalance
<1>0. ~ChopsShared
  BY Zenon DEF ChopsShared
<1>1. ASSUME Modal PROVE ModesBalance
  <2>1. ASSUME NEW x \in Places \ {Local} PROVE Balanced(TextOf(Store, x))
    <3>1. Ends(Contents[x], Pop) /\ Contents[x] = TextOf(Store, x)
      BY <1>1, ModalAt, ContentsAre, Zenon
    <3> QED
      BY <3>1, Zenon DEF Ends, Alternates, Balanced
  <2> QED
    BY <2>1, Zenon DEF ModesBalance
<1>2. TextInv /\ Modal /\ [Next]_vars => (TextInv /\ Modal)'
  BY <1>0, TextNext, ModalNext, Zenon
<1>3. Init => TextInv /\ Modal
  BY TextInit, ModalInit
<1> QED
  BY <1>1, <1>2, <1>3, PTL DEF Spec

-----------------------------------------------------------------------------
\* Memory implements the pools.

\* The pools that the texts of memory are.
LEMMA PoolTextIs ==
    /\ PoolText = [o \in Objects |-> Contents[ObjectPlace(o)]]
    /\ PoolText' = [o \in Objects |-> Contents'[ObjectPlace(o)]]
<1>1. ASSUME NEW o \in Objects
      PROVE  /\ Contents[ObjectPlace(o)] = TextOf(Store, ObjectPlace(o))
             /\ Contents'[ObjectPlace(o)] = TextOf(Store, ObjectPlace(o))'
  <2>1. ObjectPlace(o) \in Places
    BY ObjectPlaces
  <2> QED
    BY <2>1 DEF Contents, ContentsOf, TextOf, Store
<1> QED
  BY <1>1 DEF PoolText

DraftWith(t) == [name |-> draft.name, object |-> draft.object,
                 comp |-> draft.comp, text |-> t]

LEMMA PoolDraftIs ==
    /\ draft = NoDraft => PoolDraft = NoDraft
    /\ draft # NoDraft => PoolDraft = DraftWith(Contents[Local])
    /\ draft' = NoDraft => PoolDraft' = NoDraft
    /\ draft' # NoDraft => PoolDraft' = [name |-> draft'.name, object |-> draft'.object,
                                         comp |-> draft'.comp, text |-> Contents'[Local]]
<1>1. Local \in Places
  BY DEF Places
<1>2. /\ Contents[Local] = TextOf(Store, Local)
      /\ Contents'[Local] = TextOf(Store, Local)'
  BY <1>1 DEF Contents, ContentsOf, TextOf, Store
<1> QED
  BY <1>2, Zenon DEF PoolDraft, DraftWith

LEMMA PoolDraftIsOne ==
    ASSUME TextInv, draft # NoDraft
    PROVE  PoolDraft \in DraftTexts /\ PoolDraft # NoDraft
<1>1. draft \in Drafts /\ Local \in Places
  BY TextFacts, PlacesAre DEF StackInv
<1>2. Contents[Local] \in Seq(Cells)
  BY <1>1, ContentsType DEF TextInv
<1>3. DraftWith(Contents[Local]) \in DraftTexts
  BY <1>1, <1>2 DEF Drafts, DraftTexts, DraftWith
<1> QED
  BY <1>3, PoolDraftIs, MacrosAssumption

LEMMA PoolOpenIs ==
    /\ TextInv => PoolOpen = [i \in DOMAIN open |->
                                 [name |-> open[i], text |-> Contents[OpenPlace(i)]]]
    /\ TextInv' => PoolOpen' = [i \in DOMAIN open' |->
                                 [name |-> open'[i], text |-> Contents'[OpenPlace(i)]]]
<1>1. ASSUME NEW i \in 1..MaxOpen
      PROVE  /\ Contents[OpenPlace(i)] = TextOf(Store, OpenPlace(i))
             /\ Contents'[OpenPlace(i)] = TextOf(Store, OpenPlace(i))'
  <2>1. OpenPlace(i) \in Places
    BY DEF Places
  <2> QED
    BY <2>1 DEF Contents, ContentsOf, TextOf, Store
<1>2. ASSUME TextInv PROVE \A i \in DOMAIN open : i \in 1..MaxOpen
  BY <1>2, TextFacts, OthersAre
<1>3. ASSUME TextInv' PROVE \A i \in DOMAIN open' : i \in 1..MaxOpen
  <2>1. StackInv'
    BY <1>3 DEF TextInv, CountInv
  <2> QED
    BY <2>1, MacrosAssumption DEF StackInv
<1> QED
  BY <1>1, <1>2, <1>3 DEF PoolOpen

RestOf(t, k) == SubSeq(t, k + 1, Len(t))

LEMMA PoolInputIs ==
    /\ TextInv => PoolInput = [i \in DOMAIN input |->
                                  RestOf(Contents[InputPlace(i)], input[i])]
    /\ TextInv' => PoolInput' = [i \in DOMAIN input' |->
                                  RestOf(Contents'[InputPlace(i)], input'[i])]
<1>1. ASSUME NEW i \in 1..MaxInput
      PROVE  /\ Contents[InputPlace(i)] = TextOf(Store, InputPlace(i))
             /\ Contents'[InputPlace(i)] = TextOf(Store, InputPlace(i))'
  <2>1. InputPlace(i) \in Places
    BY DEF Places
  <2> QED
    BY <2>1 DEF Contents, ContentsOf, TextOf, Store
<1>2. ASSUME TextInv PROVE \A i \in DOMAIN input : i \in 1..MaxInput
  BY <1>2, TextFacts, OthersAre
<1>3. ASSUME TextInv' PROVE \A i \in DOMAIN input' : i \in 1..MaxInput
  <2>1. StackInv'
    BY <1>3 DEF TextInv, CountInv
  <2> QED
    BY <2>1, MacrosAssumption DEF StackInv
<1> QED
  BY <1>1, <1>2, <1>3 DEF PoolInput, RestOf

-----------------------------------------------------------------------------
\* What a step leaves as it is.
LEMMA PoolDraftSame ==
    ASSUME draft' = draft, Contents'[Local] = Contents[Local]
    PROVE  PoolDraft' = PoolDraft
BY PoolDraftIs, Zenon DEF DraftWith

LEMMA PoolOpenSame ==
    ASSUME TextInv, TextInv', open' = open,
           \A i \in 1..MaxOpen : Contents'[OpenPlace(i)] = Contents[OpenPlace(i)]
    PROVE  PoolOpen' = PoolOpen
<1>1. \A i \in DOMAIN open : i \in 1..MaxOpen
  BY TextFacts, OthersAre
<1> QED
  BY <1>1, PoolOpenIs

LEMMA PoolInputSame ==
    ASSUME TextInv, TextInv', input' = input,
           \A i \in 1..MaxInput : Contents'[InputPlace(i)] = Contents[InputPlace(i)]
    PROVE  PoolInput' = PoolInput
<1>1. \A i \in DOMAIN input : i \in 1..MaxInput
  BY TextFacts, OthersAre
<1> QED
  BY <1>1, PoolInputIs

\* ... which is what is not at the place of an object, or only the texts of
\* objects.
LEMMA PlacesOfOthers ==
    ASSUME TextInv
    PROVE  /\ Local \in Others
           /\ \A i \in 1..MaxOpen : OpenPlace(i) \in Others
           /\ \A i \in 1..MaxInput : InputPlace(i) \in Others
BY TextFacts, OthersAre

LEMMA OthersSame ==
    ASSUME TextInv, TextInv', UNCHANGED <<draft, open, input>>,
           \A y \in Others : Contents'[y] = Contents[y]
    PROVE  UNCHANGED <<PoolDraft, PoolOpen, PoolInput>>
<1>1. PoolDraft' = PoolDraft
  BY PlacesOfOthers, PoolDraftSame
<1>2. PoolOpen' = PoolOpen
  BY PlacesOfOthers, PoolOpenSame
<1>3. PoolInput' = PoolInput
  BY PlacesOfOthers, PoolInputSame
<1> QED
  BY <1>1, <1>2, <1>3

LEMMA PoolSame ==
    ASSUME names' = names,
           \A q \in Objects : Contents'[ObjectPlace(q)] = Contents[ObjectPlace(q)]
    PROVE  Pool!Same
<1>1. PoolText' = PoolText
  BY PoolTextIs
<1> QED
  BY <1>1 DEF Pool!Same

LEMMA PoolSameOther ==
    ASSUME TextInv, NEW x \in Others, NEW w, Changed(x, w)
    PROVE  Pool!Same
<1>1. names' = names /\ \A y : y # x => Contents'[y] = Contents[y]
  BY OtherChanged
<1>2. \A q \in Objects : ObjectPlace(q) # x
  BY OtherIs
<1> QED
  BY <1>1, <1>2, PoolSame

LEMMA PoolStutters ==
    ASSUME TextInv, TextInv', UNCHANGED <<mem, mac, names, refs>>,
           UNCHANGED <<draft, open, input>>
    PROVE  UNCHANGED Pool!pvars
<1>1. Contents' = Contents /\ names' = names
  BY SameContents
<1>2. Pool!Same
  BY <1>1, PoolSame
<1>3. UNCHANGED <<PoolDraft, PoolOpen, PoolInput>>
  BY <1>1, OthersSame
<1> QED
  BY <1>2, <1>3 DEF Pool!Same, Pool!pvars

-----------------------------------------------------------------------------
\* What a step on the texts of objects, or on names, is on the pools.
LEMMA PoolWrites ==
    ASSUME NEW o \in Objects, NEW w, names' = names,
           Contents'[ObjectPlace(o)] = w,
           \A q \in Objects : q # o => Contents'[ObjectPlace(q)] = Contents[ObjectPlace(q)]
    PROVE  Pool!Write(o, w)
<1>1. PoolText' = [PoolText EXCEPT ![o] = w]
  BY PoolTextIs
<1> QED
  BY <1>1 DEF Pool!Write

LEMMA PoolNames ==
    ASSUME TextInv', NEW l, NEW c, Relinked(l, c), NEW t,
           \A q \in Objects : t[q] = c[ObjectPlace(q)]
    PROVE  Pool!Pools(l, t)
<1>1. /\ names' = l
      /\ \A q \in Objects : Contents'[ObjectPlace(q)] =
            IF Referrers(l, q) = {} THEN <<>> ELSE c[ObjectPlace(q)]
  BY RelinkedIs
<1>2. DOMAIN l = Names
  BY <1>1 DEF TextInv, CountInv, StoreInv, Owing, Surplus, Store
<1>3. \A q : Pool!HasName(l, q) <=> Referrers(l, q) # {}
  BY <1>2 DEF Pool!HasName, Referrers
<1>4. ASSUME NEW q \in Objects
      PROVE  Contents'[ObjectPlace(q)] = IF Pool!HasName(l, q) THEN t[q] ELSE <<>>
  <2>1. t[q] = c[ObjectPlace(q)]
    OBVIOUS
  <2> QED
    BY <1>1, <1>3, <2>1, Zenon
<1>5. PoolText' = [q \in Objects |-> IF Pool!HasName(l, q) THEN t[q] ELSE <<>>]
  BY <1>4, PoolTextIs
<1> QED
  BY <1>1, <1>5, Zenon DEF Pool!Pools

LEMMA PoolCreates ==
    ASSUME TextInv, TextInv', FreeObjects # {}, NEW n, NEW c, NEW w,
           Relinked([names EXCEPT ![n] = NewObject], c),
           c[ObjectPlace(NewObject)] = w,
           \A q \in Objects : q # NewObject => c[ObjectPlace(q)] = Contents[ObjectPlace(q)]
    PROVE  Pool!Create(n, w)
<1> DEFINE o == NewObject
           t == [PoolText EXCEPT ![o] = w]
           l == [names EXCEPT ![n] = o]
<1>1. o \in Objects /\ refs[o] = 0
  BY DEF FreeObjects, NewObject
<1>2. Pool!IsNew(o)
  <2>1. StoreInv(Store) /\ Store.names = names /\ Store.refs = refs
    BY StoreIs DEF TextInv
  <2>2. Referrers(names, o) = {}
    BY <1>1, <2>1, CountedNames
  <2>3. DOMAIN names = Names
    BY DEF TextInv, CountInv, StoreInv, Owing, Surplus, Store
  <2> QED
    BY <2>2, <2>3 DEF Pool!IsNew, Pool!HasName, Referrers
<1>3. Relinked(l, c)
  OBVIOUS
<1> HIDE DEF o, l
<1>4. ASSUME NEW q \in Objects PROVE t[q] = c[ObjectPlace(q)]
  BY <1>1, PoolTextIs DEF o
<1> HIDE DEF t
<1>5. Pool!Pools(l, t)
  BY <1>3, <1>4, PoolNames
<1> QED
  BY <1>1, <1>2, <1>5, Zenon DEF Pool!Create, l, t

LEMMA PoolStores ==
    ASSUME TextInv, TextInv', NEW x \in Others, NEW w, NEW n \in Names, NEW o,
           CanStore(o), o \in Objects => names[n] = o, Ended(x, w, n, o)
    PROVE  Pool!Store(n, o, w)
<1>1. x \in Places /\ \A q \in Objects : x # ObjectPlace(q)
  BY OtherIs
<1>2. ASSUME NEW q \in Objects
      PROVE  /\ Final(x, ObjectPlace(q), w)[ObjectPlace(q)] = w
             /\ \A p \in Objects : p # q =>
                   Final(x, ObjectPlace(q), w)[ObjectPlace(p)] = Contents[ObjectPlace(p)]
  <2>1. ObjectPlace(q) \in Places /\ x # ObjectPlace(q)
    BY <1>1, ObjectPlaces
  <2>2. \A p \in Objects : p # q => ObjectPlace(p) # ObjectPlace(q)
    BY ObjectPlaces
  <2> QED
    BY <1>1, <2>1, <2>2, FinalIs
<1>3. CASE o \in Objects
  <2>1. names' = names /\ Contents' = Final(x, ObjectPlace(o), w)
    BY <1>3, Zenon DEF Ended
  <2>2. /\ Contents'[ObjectPlace(o)] = w
        /\ \A q \in Objects : q # o => Contents'[ObjectPlace(q)] = Contents[ObjectPlace(q)]
    BY <1>2, <1>3, <2>1
  <2>3. Pool!Write(o, w)
    BY <1>3, <2>1, <2>2, PoolWrites
  <2> QED
    BY <1>3, <2>3, Zenon DEF Pool!Store
<1>4. CASE o \notin Objects
  <2>1. FreeObjects # {} /\ NewObject \in Objects
    BY <1>4, NewObjectIs DEF CanStore
  <2> DEFINE c == Final(x, ObjectPlace(NewObject), w)
  <2>2. Relinked([names EXCEPT ![n] = NewObject], c)
    BY <1>4, Zenon DEF Ended
  <2>3. /\ c[ObjectPlace(NewObject)] = w
        /\ \A q \in Objects : q # NewObject => c[ObjectPlace(q)] = Contents[ObjectPlace(q)]
    BY <1>2, <2>1
  <2> HIDE DEF c
  <2>4. Pool!Create(n, w)
    BY <2>1, <2>2, <2>3, PoolCreates
  <2> QED
    BY <1>4, <2>4, Zenon DEF Pool!Store
<1> QED
  BY <1>3, <1>4

\* What is left of a text when k of it were read.
LEMMA RestIs ==
    ASSUME NEW E, NEW t \in Seq(E), NEW k \in Nat, k <= Len(t)
    PROVE  /\ RestOf(t, k) = <<>> <=> k = Len(t)
           /\ RestOf(t, 0) = t
           /\ k < Len(t) => /\ RestOf(t, k) # <<>>
                            /\ Head(RestOf(t, k)) = t[k + 1]
                            /\ Tail(RestOf(t, k)) = RestOf(t, k + 1)
<1> DEFINE n == Len(t)
<1>1. n \in Nat
  OBVIOUS
<1>2. Len(RestOf(t, k)) = n - k
  BY DEF RestOf
<1>3. RestOf(t, k) \in Seq(E)
  BY DEF RestOf
<1>4. RestOf(t, k) = <<>> <=> k = n
  BY <1>2, <1>3
<1>5. RestOf(t, 0) = t
  BY DEF RestOf
<1>6. CASE k < n
  <2>1. RestOf(t, k) # <<>>
    BY <1>4, <1>6
  <2>2. Head(RestOf(t, k)) = t[k + 1]
    BY <1>6 DEF RestOf
  <2>3. Tail(RestOf(t, k)) = RestOf(t, k + 1)
    BY <1>6 DEF RestOf
  <2> QED
    BY <1>4, <1>5, <2>1, <2>2, <2>3
<1> QED
  BY <1>4, <1>5, <1>6

\* What has one element more is the sequence with this element.
LEMMA AppendsOne ==
    ASSUME NEW E, NEW q \in Seq(E), NEW e \in E, NEW n, n = Len(q) + 1, NEW u,
           u \in [1..n -> E], u[n] = e, \A i \in 1..n : i # n => u[i] = q[i]
    PROVE  u = Append(q, e)
<1> DEFINE v == Append(q, e)
<1>1. /\ n \in Nat /\ Len(v) = n /\ v \in Seq(E) /\ v[n] = e
      /\ \A i \in 1..n : i # n => v[i] = q[i]
  <2>1. Len(q) \in Nat
    OBVIOUS
  <2>2. v \in Seq(E) /\ Len(v) = n /\ v[n] = e
        /\ \A i \in 1..Len(q) : v[i] = q[i]
    BY AppendProperties
  <2> HIDE DEF v
  <2> QED
    BY <2>1, <2>2
<1> HIDE DEF v
<1>2. v \in [1..n -> E]
  BY <1>1
<1>3. \A i \in 1..n : u[i] = v[i]
  BY <1>1, Zenon
<1> QED
  BY <1>2, <1>3 DEF v

LEMMA PoolInputType ==
    ASSUME TextInv
    PROVE  /\ PoolInput \in Seq(Seq(Cells)) /\ Len(PoolInput) = Len(input)
           /\ DOMAIN PoolInput = 1..Len(input)
<1>1. /\ Len(input) \in Nat /\ input \in Seq(Nat)
      /\ DOMAIN input = 1..Len(input)
  BY InputSizes
<1>2. PoolInput = [i \in 1..Len(input) |-> RestOf(Contents[InputPlace(i)], input[i])]
  BY <1>1, PoolInputIs
<1>3. ASSUME NEW i \in 1..Len(input)
      PROVE  RestOf(Contents[InputPlace(i)], input[i]) \in Seq(Cells)
  <2>1. InputPlace(i) \in Places
    BY <1>1, TextFacts, OthersAre, OtherIs
  <2>2. Contents[InputPlace(i)] \in Seq(Cells) /\ input[i] \in Nat
    BY <1>1, <2>1, ContentsType DEF TextInv
  <2>3. input[i] <= Len(Contents[InputPlace(i)])
    BY <1>1 DEF TextInv, InputFits
  <2> QED
    BY <2>2, <2>3 DEF RestOf
<1> QED
  BY <1>1, <1>2, <1>3

\* The topmost iterator.
LEMMA UnreadIs ==
    ASSUME TextInv, input # <<>>
    PROVE  LET k == Len(input)
               t == Contents[InputPlace(k)]
           IN  /\ k \in 1..MaxInput /\ k \in DOMAIN input
               /\ t \in Seq(Cells) /\ input[k] \in Nat /\ input[k] <= Len(t)
               /\ DOMAIN PoolInput = 1..k /\ Len(PoolInput) = k
               /\ PoolInput # <<>> /\ Pool!Unread = RestOf(t, input[k])
               /\ MoreInput <=> input[k] < Len(t)
               /\ MoreInput => NextCell = t[input[k] + 1]
<1> DEFINE k == Len(input)
           x == InputPlace(k)
           t == Contents[x]
<1>1. /\ k \in Nat /\ input \in Seq(Nat) /\ k \in DOMAIN input
      /\ x \in Others /\ Reader.length = Len(t)
  BY InputSizes
<1>2. k \in 1..MaxInput /\ DOMAIN input = 1..k
  BY <1>1, TextFacts, OthersAre
<1>3. x \in Places /\ t \in Seq(Cells)
  BY <1>1, OtherIs, ContentsType DEF TextInv
<1>4. input[k] \in Nat /\ input[k] <= Len(t)
  BY <1>1 DEF TextInv, InputFits
<1>5. PoolInput = [i \in 1..k |-> RestOf(Contents[InputPlace(i)], input[i])]
  BY <1>2, PoolInputIs
<1>6. /\ DOMAIN PoolInput = 1..k /\ Len(PoolInput) = k
      /\ PoolInput[k] = RestOf(t, input[k])
  BY <1>1, <1>2, <1>5
<1>7. PoolInput # <<>>
  BY <1>1, <1>2, <1>6
<1>8. Pool!Unread = RestOf(t, input[k])
  BY <1>6 DEF Pool!Unread
<1>9. MoreInput <=> input[k] < Len(t)
  BY <1>1 DEF MoreInput
<1>10. ASSUME MoreInput PROVE NextCell = t[input[k] + 1]
  <2>1. t = TextOf(Store, x)
    BY <1>3, ContentsAre
  <2>2. input[k] < Len(t)
    BY <1>9, <1>10
  <2>3. mac[x].p # NoHeader /\ t = SubSeq(mem[mac[x].p].cells, 1, mac[x].length)
    <3>1. t # <<>>
      BY <1>3, <1>4, <2>2
    <3> QED
      BY <2>1, <3>1 DEF TextOf, Store
  <2>4. mac[x].length \in Nat /\ Len(t) = mac[x].length
    BY <1>3, ContentsType DEF TextInv
  <2>5. t[input[k] + 1] = mem[mac[x].p].cells[input[k] + 1]
    <3>1. input[k] + 1 \in 1..mac[x].length
      BY <1>4, <2>2, <2>4
    <3> QED
      BY <2>3, <2>4, <3>1
  <2> QED
    BY <2>5 DEF NextCell, Reader
<1> QED
  BY <1>2, <1>3, <1>4, <1>6, <1>7, <1>8, <1>9, <1>10, <1>1

\* An iterator goes on.
LEMMA PoolAdvances ==
    ASSUME TextInv, TextInv', MoreInput, Advance,
           \A i \in 1..MaxInput : Contents'[InputPlace(i)] = Contents[InputPlace(i)]
    PROVE  /\ PoolInput # <<>> /\ Pool!Unread # <<>>
           /\ Head(Pool!Unread) = NextCell /\ Pool!Advance
<1> DEFINE k == Len(input)
           t == Contents[InputPlace(k)]
<1>1. /\ k \in 1..MaxInput /\ k \in DOMAIN input /\ t \in Seq(Cells)
      /\ input[k] \in Nat /\ input[k] <= Len(t)
      /\ DOMAIN PoolInput = 1..k /\ Len(PoolInput) = k
      /\ PoolInput # <<>> /\ Pool!Unread = RestOf(t, input[k])
      /\ input[k] < Len(t) /\ NextCell = t[input[k] + 1]
  BY UnreadIs, Zenon DEF MoreInput
<1>2. /\ RestOf(t, input[k]) # <<>>
      /\ Head(RestOf(t, input[k])) = t[input[k] + 1]
      /\ Tail(RestOf(t, input[k])) = RestOf(t, input[k] + 1)
  BY <1>1, RestIs
<1>3. /\ DOMAIN input' = DOMAIN input /\ input'[k] = input[k] + 1
      /\ \A i \in DOMAIN input : i # k => input'[i] = input[i]
  BY <1>1, InputSizes DEF Advance
<1>4. /\ PoolInput = [i \in DOMAIN input |-> RestOf(Contents[InputPlace(i)], input[i])]
      /\ PoolInput' = [i \in DOMAIN input' |->
                          RestOf(Contents'[InputPlace(i)], input'[i])]
  BY PoolInputIs
<1>5. \A i \in DOMAIN input : i \in 1..MaxInput
  BY TextFacts, OthersAre
<1> HIDE DEF k
<1>6. ASSUME NEW i \in DOMAIN input
      PROVE  PoolInput'[i] = IF i = k THEN Tail(PoolInput[k]) ELSE PoolInput[i]
  <2>1. /\ PoolInput'[i] = RestOf(Contents[InputPlace(i)], input'[i])
        /\ PoolInput[i] = RestOf(Contents[InputPlace(i)], input[i])
    BY <1>3, <1>4, <1>5
  <2>2. PoolInput[k] = RestOf(t, input[k])
    BY <1>1, <1>4
  <2> QED
    BY <1>2, <1>3, <2>1, <2>2, Zenon
<1>7. PoolInput' = [PoolInput EXCEPT ![k] = Tail(@)]
  BY <1>1, <1>3, <1>4, <1>6
<1> QED
  BY <1>1, <1>2, <1>7, Zenon DEF Pool!Advance, k

LEMMA InputsOther ==
    ASSUME TextInv, NEW x \in Others, NEW w, Changed(x, w),
           UNCHANGED <<draft, open>>, \A i : x # OpenPlace(i), x # Local, TextInv'
    PROVE  Pool!Same /\ UNCHANGED <<PoolOpen, PoolDraft>>
<1>1. \A y : y # x => Contents'[y] = Contents[y]
  BY OtherChanged
<1>2. Pool!Same
  BY PoolSameOther
<1>3. PoolDraft' = PoolDraft
  BY <1>1, PoolDraftSame
<1>4. PoolOpen' = PoolOpen
  BY <1>1, PoolOpenSame
<1> QED
  BY <1>2, <1>3, <1>4

LEMMA PoolInterpolates ==
    ASSUME TextInv, TextInv', NEW n \in Names, Interpolate(n)
    PROVE  Pool!Interpolate(n)
<1> DEFINE k == Len(input) + 1
           x == InputPlace(k)
           w == Contents[ObjectPlace(names[n])]
<1>1. names[n] \in Objects /\ x \in Others /\ Changed(x, w)
  BY InterpolateChanges
<1>2. input' = Append(input, 0) /\ UNCHANGED <<draft, open>>
  BY DEF Interpolate
<1>3. Len(input) \in Nat /\ input \in Seq(Nat)
  BY InputSizes
<1>4. Contents'[x] = w /\ \A y : y # x => Contents'[y] = Contents[y]
  BY <1>1, OtherChanged
<1>5. w \in Seq(Cells) /\ w = PoolText[names[n]]
  BY <1>1, ObjectPlaces, ContentsType, PoolTextIs DEF TextInv
<1>6. \A i : i # k => x # InputPlace(i)
  BY PlacesDiffer
<1>7. /\ PoolInput = [i \in DOMAIN input |-> RestOf(Contents[InputPlace(i)], input[i])]
      /\ PoolInput' = [i \in DOMAIN input' |->
                          RestOf(Contents'[InputPlace(i)], input'[i])]
  BY PoolInputIs
<1>8. RestOf(w, 0) = w
  BY <1>5, RestIs
<1>9. PoolInput' = Append(PoolInput, w)
  <2>1. /\ DOMAIN input = 1..(k - 1) /\ DOMAIN input' = 1..k /\ input'[k] = 0
        /\ \A i \in 1..(k - 1) : input'[i] = input[i] /\ i # k
    BY <1>2, <1>3
  <2>2. /\ DOMAIN PoolInput = 1..(k - 1) /\ Len(PoolInput) = k - 1
        /\ DOMAIN PoolInput' = 1..k
    BY <1>3, <1>7, <2>1
  <2>3. k \in 1..k
    BY <1>3
  <2>4. PoolInput'[k] = w
    BY <1>4, <1>7, <1>8, <2>1, <2>3
  <2>5. ASSUME NEW i \in 1..(k - 1) PROVE PoolInput'[i] = PoolInput[i]
    <3>1. i \in 1..k /\ x # InputPlace(i)
      BY <1>3, <1>6, <2>1
    <3> QED
      BY <1>4, <1>7, <2>1, <3>1
  <2>6. \A i \in 1..k : i # k => i \in 1..(k - 1)
    BY <1>3
  <2>7. \A i \in 1..k : i # k => PoolInput'[i] = PoolInput[i]
    BY <2>5, <2>6
  <2>8. k = Len(PoolInput) + 1 /\ PoolInput \in Seq(Seq(Cells)) /\ w \in Seq(Cells)
    BY <1>3, <1>5, <2>2, PoolInputType
  <2>9. PoolInput' \in [1..k -> Seq(Cells)]
    <3>1. \A i \in 1..k : PoolInput'[i] \in Seq(Cells)
      <4>1. \A i \in 1..(k - 1) : PoolInput[i] \in Seq(Cells)
        BY <1>3, <2>8
      <4> QED
        BY <2>4, <2>6, <2>7, <2>8, <4>1, Zenon
    <3> QED
      BY <1>7, <2>1, <3>1
  <2> HIDE DEF k, w
  <2> QED
    BY <2>4, <2>7, <2>8, <2>9, AppendsOne
<1>10. Pool!Same /\ UNCHANGED <<PoolOpen, PoolDraft>>
  BY <1>1, <1>2, PlacesDiffer, InputsOther
<1> QED
  BY <1>1, <1>5, <1>9, <1>10, Zenon DEF Pool!Interpolate

LEMMA PoolReads ==
    ASSUME TextInv, TextInv', Read
    PROVE  Pool!Read
<1>1. MoreInput /\ Advance /\ input # <<>>
      /\ UNCHANGED <<mem, mac, names, refs>> /\ UNCHANGED <<draft, open>>
  BY DEF Read, MoreInput
<1>2. Contents' = Contents /\ names' = names
  BY <1>1, SameContents
<1>3. PoolInput # <<>> /\ Pool!Unread # <<>> /\ Pool!Advance
  BY <1>1, <1>2, PoolAdvances
<1>4. Pool!Same /\ PoolDraft' = PoolDraft /\ PoolOpen' = PoolOpen
  BY <1>1, <1>2, PoolSame, PoolDraftSame, PoolOpenSame
<1> QED
  BY <1>3, <1>4 DEF Pool!Read

LEMMA FrontAs ==
    ASSUME NEW q, NEW k \in Nat, k > 0, Len(q) = k
    PROVE  Front(q) = [i \in 1..(k - 1) |-> q[i]]
BY DEF Front

LEMMA PoolEndsInput ==
    ASSUME TextInv, TextInv', EndOfInput
    PROVE  Pool!EndOfInput
<1> DEFINE k == Len(input)
           x == InputPlace(k)
           t == Contents[x]
<1>1. /\ input # <<>> /\ ~MoreInput /\ input' = Front(input)
      /\ UNCHANGED <<draft, open>>
  BY DEF EndOfInput
<1>2. x \in Others /\ Changed(x, <<>>)
  BY EndOfInputChanges
<1>3. /\ k \in DOMAIN input /\ t \in Seq(Cells)
      /\ input[k] \in Nat /\ input[k] <= Len(t)
      /\ DOMAIN PoolInput = 1..k /\ Len(PoolInput) = k
      /\ PoolInput # <<>> /\ Pool!Unread = RestOf(t, input[k])
      /\ MoreInput <=> input[k] < Len(t)
  BY <1>1, UnreadIs, Zenon
<1>4. Pool!Unread = <<>>
  <2>1. input[k] = Len(t)
    BY <1>1, <1>3
  <2> QED
    BY <1>3, <2>1, RestIs
<1>5. k \in Nat /\ k > 0 /\ input \in Seq(Nat)
  BY <1>1, InputSizes
<1>6. input' = [i \in 1..(k - 1) |-> input[i]] /\ DOMAIN input = 1..k
  BY <1>1, <1>5 DEF Front
<1>7. /\ PoolInput = [i \in DOMAIN input |-> RestOf(Contents[InputPlace(i)], input[i])]
      /\ PoolInput' = [i \in DOMAIN input' |->
                          RestOf(Contents'[InputPlace(i)], input'[i])]
  BY PoolInputIs
<1>8. \A i : i # k => Contents'[InputPlace(i)] = Contents[InputPlace(i)]
  BY <1>2, OtherChanged, PlacesDiffer
<1>9. PoolInput' = Front(PoolInput)
  <2>1. Front(PoolInput) = [i \in 1..(k - 1) |-> PoolInput[i]]
    <3>1. k \in Nat /\ k > 0 /\ Len(PoolInput) = k
      BY <1>3, <1>5, Zenon
    <3> HIDE DEF k
    <3> QED
      BY <3>1, FrontAs, Zenon
  <2>2. ASSUME NEW i \in 1..(k - 1)
        PROVE  RestOf(Contents'[InputPlace(i)], input'[i]) = PoolInput[i]
    <3>1. i \in 1..k /\ i # k
      BY <1>5
    <3> QED
      BY <1>6, <1>7, <1>8, <3>1, Zenon
  <2>3. DOMAIN input' = 1..(k - 1)
    BY <1>6, Zenon
  <2> HIDE DEF k
  <2>4. PoolInput' = [i \in 1..(k - 1) |->
                         RestOf(Contents'[InputPlace(i)], input'[i])]
    BY <1>7, <2>3, Zenon
  <2> QED
    BY <2>1, <2>2, <2>4, Zenon
<1>10. Pool!Same /\ UNCHANGED <<PoolOpen, PoolDraft>>
  BY <1>1, <1>2, PlacesDiffer, InputsOther
<1> QED
  BY <1>3, <1>4, <1>9, <1>10 DEF Pool!EndOfInput, Pool!Front, Front

LEMMA OriginalIs ==
    ASSUME NEW x, Contents[x] = <<>>, NEW n, NEW append
    PROVE  OriginalText(x, n, append) = Pool!Original(n, append)
<1>1. \A q \in Objects : PoolText[q] = Contents[ObjectPlace(q)]
  BY PoolTextIs
<1> QED
  BY <1>1, Zenon DEF OriginalText, Pool!Original

\* What a step on the local variable of a request leaves as it is.
LEMMA LocalOther ==
    ASSUME TextInv, TextInv', open' = open,
           \A y \in Others : y # Local => Contents'[y] = Contents[y]
    PROVE  /\ PoolOpen' = PoolOpen
           /\ \A i \in 1..MaxInput : Contents'[InputPlace(i)] = Contents[InputPlace(i)]
           /\ input' = input => PoolInput' = PoolInput
<1>1. \A i \in 1..MaxOpen : Contents'[OpenPlace(i)] = Contents[OpenPlace(i)]
  BY PlacesOfOthers, PlacesDiffer
<1>2. \A i \in 1..MaxInput : Contents'[InputPlace(i)] = Contents[InputPlace(i)]
  BY PlacesOfOthers, PlacesDiffer
<1> QED
  BY <1>1, <1>2, PoolOpenSame, PoolInputSame

LEMMA LocalChanged ==
    ASSUME TextInv, TextInv', open' = open, NEW w, Changed(Local, w)
    PROVE  /\ PoolOpen' = PoolOpen /\ Pool!Same /\ Contents'[Local] = w
           /\ \A i \in 1..MaxInput : Contents'[InputPlace(i)] = Contents[InputPlace(i)]
           /\ input' = input => PoolInput' = PoolInput
<1>1. Local \in Others
  BY PlacesOfOthers
<1>2. Contents'[Local] = w /\ \A y : y # Local => Contents'[y] = Contents[y]
  BY <1>1, OtherChanged
<1>3. Pool!Same
  BY <1>1, PoolSameOther
<1> QED
  BY <1>2, <1>3, LocalOther

LEMMA PoolBegins ==
    ASSUME TextInv, TextInv', NEW n \in Names, NEW append \in BOOLEAN,
           NEW comp \in BOOLEAN, BeginDefinition(n, append, comp)
    PROVE  Pool!BeginDefinition(n, append, comp)
<1> DEFINE t == OriginalText(Local, n, append)
           w == IF comp THEN Append(t, Push) ELSE t
<1>1. Changed(Local, w)
  BY BeginDefinitionChanges
<1>2. /\ draft = NoDraft /\ draft' # NoDraft /\ UNCHANGED <<open, input>>
      /\ draft' = [name |-> n, object |-> names[n], comp |-> comp]
  BY DraftBegun
<1>3. t = Pool!Original(n, append)
  BY <1>2, OriginalIs DEF TextInv, Spare
<1> HIDE DEF w
<1>4. /\ PoolOpen' = PoolOpen /\ Pool!Same /\ Contents'[Local] = w
      /\ PoolInput' = PoolInput
  BY <1>1, <1>2, LocalChanged
<1>5. PoolDraft = NoDraft /\ PoolDraft' = [name |-> draft'.name,
         object |-> draft'.object, comp |-> draft'.comp, text |-> w]
  BY <1>2, <1>4, PoolDraftIs
<1>6. PoolDraft' = [name |-> n, object |-> names[n], comp |-> comp, text |-> w]
  BY <1>2, <1>5
<1>7. w = IF comp THEN Append(Pool!Original(n, append), Push)
          ELSE Pool!Original(n, append)
  BY <1>3, Zenon DEF w
<1> HIDE DEF t
<1>8. PoolDraft' = [name |-> n, comp |-> comp, object |-> names[n],
                    text |-> IF comp THEN Append(Pool!Original(n, append), Push)
                             ELSE Pool!Original(n, append)]
  BY <1>6, <1>7
<1> QED
  BY <1>4, <1>5, <1>8, Zenon DEF Pool!BeginDefinition

LEMMA PoolCollects ==
    ASSUME TextInv, TextInv', NEW c \in Elements, Collect(c)
    PROVE  Pool!Collect(c)
<1> DEFINE w == Append(Contents[Local], c)
<1>1. Changed(Local, w)
  BY CollectChanges
<1>2. draft # NoDraft /\ draft' = draft /\ open' = open
  BY DEF Collect
<1> HIDE DEF w
<1>3. /\ PoolOpen' = PoolOpen /\ Pool!Same /\ Contents'[Local] = w
      /\ \A i \in 1..MaxInput : Contents'[InputPlace(i)] = Contents[InputPlace(i)]
      /\ input' = input => PoolInput' = PoolInput
  BY <1>1, <1>2, LocalChanged
<1>4. PoolDraft = DraftWith(Contents[Local]) /\ PoolDraft' = DraftWith(w)
  BY <1>2, <1>3, PoolDraftIs, Zenon DEF DraftWith
<1>5. PoolDraft' = [PoolDraft EXCEPT !.text = Append(@, c)]
  <2> DEFINE u == Append(PoolDraft.text, c)
  <2>1. PoolDraft.text = Contents[Local]
    BY <1>4 DEF DraftWith
  <2>2. u = w
    BY <2>1, Zenon DEF w
  <2> HIDE DEF u
  <2>3. [PoolDraft EXCEPT !.text = u] = DraftWith(u)
    BY <1>4 DEF DraftWith
  <2> QED
    BY <1>4, <2>2, <2>3, Zenon DEF u
<1>6. PoolDraft # NoDraft
  BY <1>2, PoolDraftIsOne
<1>7. CASE input = <<>> /\ c \in Chars /\ UNCHANGED input
  <2>1. PoolInput = <<>>
    BY <1>7, PoolInputType
  <2> QED
    BY <1>3, <1>5, <1>6, <1>7, <2>1, Zenon DEF Pool!Collect
<1>8. CASE MoreInput /\ NextCell = c /\ Advance
  <2>1. /\ PoolInput # <<>> /\ Pool!Unread # <<>>
        /\ Head(Pool!Unread) = NextCell /\ Pool!Advance
    BY <1>3, <1>8, PoolAdvances
  <2> QED
    BY <1>3, <1>5, <1>6, <1>8, <2>1, Zenon DEF Pool!Collect
<1> QED
  BY <1>7, <1>8, Zenon DEF Collect

LEMMA PoolEndsDefinition ==
    ASSUME TextInv, TextInv', EndDefinition
    PROVE  Pool!EndDefinition
<1>1. /\ draft.name \in Names /\ CanStore(draft.object)
      /\ draft.object \in Objects => names[draft.name] = draft.object
      /\ Ended(Local, DraftText, draft.name, draft.object)
  BY EndDefinitionEnds
<1>2. draft # NoDraft /\ draft' = NoDraft /\ UNCHANGED <<open, input>>
  BY DEF EndDefinition
<1>3. Local \in Others
  BY PlacesOfOthers
<1>4. Pool!Store(draft.name, draft.object, DraftText)
  BY <1>1, <1>3, PoolStores
<1>5. \A y \in Others \ {Local} : Contents'[y] = Contents[y]
  BY <1>1, <1>3, EndedOther
<1>6. PoolOpen' = PoolOpen /\ PoolInput' = PoolInput
  BY <1>2, <1>5, LocalOther
<1>7. PoolDraft = DraftWith(Contents[Local]) /\ PoolDraft' = NoDraft
      /\ PoolDraft # NoDraft
  BY <1>2, PoolDraftIs, PoolDraftIsOne
<1>8. /\ PoolDraft.name = draft.name /\ PoolDraft.object = draft.object
      /\ PoolDraft.comp = draft.comp /\ PoolDraft.text = Contents[Local]
  BY <1>7 DEF DraftWith
<1>9. DraftText = IF PoolDraft.comp THEN Append(PoolDraft.text, Pop)
                  ELSE PoolDraft.text
  BY <1>8, Zenon DEF DraftText
<1> QED
  BY <1>4, <1>6, <1>7, <1>8, <1>9, Zenon DEF Pool!EndDefinition

LEMMA PoolAbandons ==
    ASSUME TextInv, TextInv', AbandonDefinition
    PROVE  Pool!AbandonDefinition
<1>1. /\ draft # NoDraft /\ draft' = NoDraft /\ input = <<>>
      /\ UNCHANGED <<open, input>>
  BY DEF AbandonDefinition
<1>2. Changed(Local, <<>>)
  BY AbandonChanges
<1>3. PoolOpen' = PoolOpen /\ Pool!Same /\ PoolInput' = PoolInput
  BY <1>1, <1>2, LocalChanged
<1>4. PoolDraft # NoDraft /\ PoolDraft' = NoDraft
  BY <1>1, PoolDraftIs, PoolDraftIsOne
<1>5. PoolInput = <<>>
  BY <1>1, PoolInputType
<1> QED
  BY <1>3, <1>4, <1>5, Zenon DEF Pool!AbandonDefinition

-----------------------------------------------------------------------------
\* Diversions.
OpenAt(i, t) == [name |-> open[i], text |-> t]

LEMMA PoolOpenType ==
    ASSUME TextInv
    PROVE  /\ PoolOpen = [i \in 1..Len(open) |-> OpenAt(i, Contents[OpenPlace(i)])]
           /\ PoolOpen \in Seq([name : Names, text : Seq(Cells)])
           /\ Len(PoolOpen) = Len(open) /\ DOMAIN PoolOpen = 1..Len(open)
<1>1. open \in Seq(Names) /\ Len(open) \in Nat /\ DOMAIN open = 1..Len(open)
  BY OpenSizes
<1>2. PoolOpen = [i \in 1..Len(open) |-> OpenAt(i, Contents[OpenPlace(i)])]
  BY <1>1, PoolOpenIs DEF OpenAt
<1>3. ASSUME NEW i \in 1..Len(open)
      PROVE  OpenAt(i, Contents[OpenPlace(i)]) \in [name : Names, text : Seq(Cells)]
  <2>1. OpenPlace(i) \in Places
    BY <1>1, TextFacts, OthersAre, OtherIs
  <2>2. Contents[OpenPlace(i)] \in Seq(Cells) /\ open[i] \in Names
    BY <1>1, <2>1, ContentsType DEF TextInv
  <2> QED
    BY <2>2 DEF OpenAt
<1> QED
  BY <1>1, <1>2, <1>3

\* What a step on diversion k leaves as it is.
LEMMA OpenOther ==
    ASSUME TextInv, TextInv', UNCHANGED <<draft, input>>, NEW k,
           \A y \in Others : y # OpenPlace(k) => Contents'[y] = Contents[y]
    PROVE  /\ PoolDraft' = PoolDraft /\ PoolInput' = PoolInput
           /\ \A i \in 1..MaxOpen :
                 i # k => Contents'[OpenPlace(i)] = Contents[OpenPlace(i)]
<1>1. Contents'[Local] = Contents[Local]
  BY PlacesOfOthers, PlacesDiffer
<1>2. \A i \in 1..MaxInput : Contents'[InputPlace(i)] = Contents[InputPlace(i)]
  BY PlacesOfOthers, PlacesDiffer
<1>3. \A i \in 1..MaxOpen :
         i # k => Contents'[OpenPlace(i)] = Contents[OpenPlace(i)]
  BY PlacesOfOthers, PlacesDiffer
<1> QED
  BY <1>1, <1>2, <1>3, PoolDraftSame, PoolInputSame

LEMMA PoolBeginsDiversion ==
    ASSUME TextInv, TextInv', NEW n \in Names, NEW append \in BOOLEAN,
           BeginDiversion(n, append)
    PROVE  Pool!BeginDiversion(n, append)
<1> DEFINE k == Len(open) + 1
           x == OpenPlace(k)
           w == OriginalText(x, n, append)
           e == [name |-> n, text |-> w]
<1>1. x \in Others /\ Changed(x, w)
  BY BeginDiversionChanges
<1>2. /\ open' = Append(open, n) /\ UNCHANGED <<draft, input>>
      /\ Len(open) < MaxOpen
  BY DEF BeginDiversion
<1>3. Len(open) \in Nat /\ open \in Seq(Names) /\ MaxOpen \in Nat
  BY OpenSizes
<1>4. Contents[x] = <<>>
  <2>1. k \in 1..MaxOpen /\ k > Len(open)
    BY <1>2, <1>3
  <2> QED
    BY <2>1 DEF TextInv, Spare
<1>5. w = Pool!Original(n, append)
  BY <1>4, OriginalIs
<1>6. w \in Seq(Cells)
  <2>1. x \in Places /\ \A q \in Objects : ObjectPlace(q) \in Places
    BY <1>1, OtherIs, ObjectPlaces
  <2> QED
    BY <2>1, ContentsType DEF TextInv, OriginalText
<1> HIDE DEF w
<1>7. Pool!Same /\ Contents'[x] = w /\ \A y : y # x => Contents'[y] = Contents[y]
  BY <1>1, OtherChanged, PoolSameOther
<1>8. /\ PoolDraft' = PoolDraft /\ PoolInput' = PoolInput
      /\ \A i \in 1..MaxOpen : i # k => Contents'[OpenPlace(i)] = Contents[OpenPlace(i)]
  BY <1>2, <1>7, OpenOther
<1>9. PoolOpen' = Append(PoolOpen, e)
  <2>1. /\ DOMAIN open' = 1..k /\ open'[k] = n
        /\ \A i \in 1..Len(open) : open'[i] = open[i]
    BY <1>2, <1>3
  <2>2. PoolOpen' = [i \in 1..k |-> [name |-> open'[i], text |-> Contents'[OpenPlace(i)]]]
    BY <2>1, PoolOpenIs
  <2>3. /\ PoolOpen \in Seq([name : Names, text : Seq(Cells)])
        /\ Len(PoolOpen) + 1 = k
        /\ \A i \in 1..Len(open) : PoolOpen[i] = OpenAt(i, Contents[OpenPlace(i)])
    BY PoolOpenType
  <2>4. ASSUME NEW i \in 1..k
        PROVE  [name |-> open'[i], text |-> Contents'[OpenPlace(i)]]
                  = IF i = k THEN e ELSE PoolOpen[i]
    <3>1. CASE i = k
      BY <1>7, <2>1, <3>1
    <3>2. CASE i # k
      <4>1. i \in 1..Len(open) /\ i \in 1..MaxOpen
        BY <1>2, <1>3, <3>2
      <4> QED
        BY <1>8, <2>1, <2>3, <3>2, <4>1 DEF OpenAt
    <3> QED
      BY <3>1, <3>2
  <2>5. e \in [name : Names, text : Seq(Cells)]
    BY <1>6
  <2>6. ASSUME NEW i \in 1..k
        PROVE  PoolOpen'[i] = IF i = k THEN e ELSE PoolOpen[i]
    <3> HIDE DEF k, e
    <3>1. PoolOpen'[i] = [name |-> open'[i], text |-> Contents'[OpenPlace(i)]]
      BY <2>2, ZenonT(30)
    <3> QED
      BY <2>4, <3>1, Zenon
  <2>7. k \in 1..k /\ k \in Nat
    BY <1>3
  <2> HIDE DEF e
  <2>8. PoolOpen'[k] = e /\ \A i \in 1..k : i # k => PoolOpen'[i] = PoolOpen[i]
    BY <2>6, <2>7, Zenon
  <2> HIDE DEF k
  <2>9. PoolOpen' \in [1..k -> [name : Names, text : Seq(Cells)]]
    <3>1. \A i \in 1..k : i # k => i \in 1..Len(PoolOpen)
      BY <2>3, <2>7
    <3>2. \A i \in 1..Len(PoolOpen) : PoolOpen[i] \in [name : Names, text : Seq(Cells)]
      BY <2>3, ElementOf, Zenon
    <3>3. \A i \in 1..k : PoolOpen'[i] \in [name : Names, text : Seq(Cells)]
      BY <2>5, <2>8, <3>1, <3>2, Zenon
    <3> QED
      BY <2>2, <3>3
  <2> QED
    BY <2>3, <2>5, <2>8, <2>9, AppendsOne
<1> QED
  BY <1>5, <1>7, <1>8, <1>9, Zenon DEF Pool!BeginDiversion

LEMMA PoolDiverts ==
    ASSUME TextInv, TextInv', NEW c \in Elements, Divert(c)
    PROVE  Pool!Divert(c)
<1> DEFINE k == Len(open)
           w == Append(Contents[Innermost], c)
<1>1. Innermost \in Others /\ Changed(Innermost, w)
  BY DivertChanges
<1>2. /\ open # <<>> /\ UNCHANGED <<draft, open, input>>
      /\ Innermost = OpenPlace(k)
  BY DEF Divert, Innermost
<1>3. k \in 1..MaxOpen /\ k \in 1..k /\ k \in Nat
  BY <1>2, OpenSizes
<1> HIDE DEF w
<1>4. /\ Pool!Same /\ Contents'[OpenPlace(k)] = w
      /\ \A y : y # OpenPlace(k) => Contents'[y] = Contents[y]
  BY <1>1, <1>2, OtherChanged, PoolSameOther
<1>5. /\ PoolDraft' = PoolDraft /\ PoolInput' = PoolInput
      /\ \A i \in 1..MaxOpen : i # k => Contents'[OpenPlace(i)] = Contents[OpenPlace(i)]
  BY <1>2, <1>4, OpenOther
<1>6. /\ PoolOpen = [i \in 1..k |-> OpenAt(i, Contents[OpenPlace(i)])]
      /\ Len(PoolOpen) = k /\ DOMAIN PoolOpen = 1..k
  BY PoolOpenType
<1>7. DOMAIN open = 1..k /\ \A i \in 1..k : i \in 1..MaxOpen
  BY OpenSizes, TextFacts, OthersAre
<1>8. PoolOpen' = [i \in 1..k |-> OpenAt(i, Contents'[OpenPlace(i)])]
  BY <1>2, <1>7, PoolOpenIs DEF OpenAt
<1>9. PoolOpen' = [PoolOpen EXCEPT ![k].text = Append(@, c)]
  <2>1. PoolOpen[k] = OpenAt(k, Contents[OpenPlace(k)]) /\ PoolOpen'[k] = OpenAt(k, w)
    BY <1>3, <1>4, <1>6, <1>8
  <2>2. PoolOpen'[k] = [PoolOpen[k] EXCEPT !.text = Append(@, c)]
    <3> DEFINE r == PoolOpen[k]
               u == Append(r.text, c)
    <3>1. r.text = Contents[Innermost]
      BY <1>2, <2>1 DEF OpenAt
    <3>2. u = w
      BY <3>1, Zenon DEF w
    <3>3. r = OpenAt(k, Contents[OpenPlace(k)])
      BY <2>1
    <3> HIDE DEF u, r
    <3>4. [r EXCEPT !.text = u] = OpenAt(k, u)
      <4> HIDE DEF k
      <4> QED
        BY <3>3, SMTT(30) DEF OpenAt
    <3> QED
      BY <2>1, <3>2, <3>4, Zenon DEF u, r
  <2>3. \A i \in 1..k : i # k => PoolOpen'[i] = PoolOpen[i]
    BY <1>5, <1>6, <1>7, <1>8, Zenon
  <2> HIDE DEF k
  <2> QED
    BY <1>6, <1>8, <2>2, <2>3
<1>10. PoolOpen # <<>>
  BY <1>3, <1>6
<1> QED
  BY <1>4, <1>5, <1>6, <1>9, <1>10, Zenon DEF Pool!Divert

LEMMA PoolEndsDiversion ==
    ASSUME TextInv, TextInv', EndDiversion
    PROVE  Pool!EndDiversion
<1> DEFINE k == Len(open)
           t == Contents[Innermost]
<1>1. /\ open # <<>> /\ Innermost \in Others /\ Last(open) \in Names
      /\ CanStore(names[Last(open)])
      /\ Ended(Innermost, t, Last(open), names[Last(open)])
  BY EndDiversionEnds
<1>2. open' = Front(open) /\ UNCHANGED <<draft, input>> /\ Innermost = OpenPlace(k)
  BY DEF EndDiversion, Innermost
<1>3. k \in 1..MaxOpen /\ k \in Nat /\ k > 0 /\ k \in 1..k /\ Last(open) = open[k]
      /\ open \in Seq(Names)
  BY <1>1, OpenSizes
<1>4. Pool!Store(Last(open), names[Last(open)], t)
  BY <1>1, PoolStores
<1>5. \A y \in Others : y # OpenPlace(k) => Contents'[y] = Contents[y]
  BY <1>1, <1>2, EndedOther
<1>6. /\ PoolDraft' = PoolDraft /\ PoolInput' = PoolInput
      /\ \A i \in 1..MaxOpen : i # k => Contents'[OpenPlace(i)] = Contents[OpenPlace(i)]
  BY <1>2, <1>5, OpenOther
<1>7. /\ PoolOpen = [i \in 1..k |-> OpenAt(i, Contents[OpenPlace(i)])]
      /\ Len(PoolOpen) = k /\ DOMAIN PoolOpen = 1..k
  BY PoolOpenType
<1>8. PoolOpen # <<>> /\ Pool!Innermost = OpenAt(k, t)
  BY <1>2, <1>3, <1>7 DEF Pool!Innermost
<1>9. Pool!Innermost.name = Last(open) /\ Pool!Innermost.text = t
  BY <1>3, <1>8 DEF OpenAt
<1>10. PoolOpen' = Front(PoolOpen)
  <2>1. Front(PoolOpen) = [i \in 1..(k - 1) |-> PoolOpen[i]]
    BY <1>3, <1>7 DEF Front
  <2>2. open' = [i \in 1..(k - 1) |-> open[i]]
    BY <1>2, <1>3 DEF Front
  <2>3. PoolOpen' = [i \in 1..(k - 1) |->
                        [name |-> open'[i], text |-> Contents'[OpenPlace(i)]]]
    BY <2>2, PoolOpenIs
  <2>4. ASSUME NEW i \in 1..(k - 1)
        PROVE  [name |-> open'[i], text |-> Contents'[OpenPlace(i)]] = PoolOpen[i]
    <3>1. i \in 1..k /\ i # k /\ i \in 1..MaxOpen
      BY <1>3, OpenSizes
    <3> QED
      BY <1>6, <1>7, <2>2, <3>1 DEF OpenAt
  <2> HIDE DEF k
  <2> QED
    BY <2>1, <2>3, <2>4
<1>11. PoolOpen' = Pool!Front(PoolOpen)
  BY <1>10, Zenon DEF Pool!Front, Front
<1> QED
  BY <1>4, <1>6, <1>8, <1>9, <1>11, Zenon DEF Pool!EndDiversion

\* The same operators in the abstract specification.
LEMMA SameOperators ==
    /\ \A t, S : Pool!Selected(t, S) = Selected(t, S)
    /\ \A q : Pool!FlattenSeq(q) = FlattenSeq(q)
    /\ \A c : Pool!Ascii(c) = Ascii(c) /\ Pool!Cased(c) = Cased(c)
<1>1. ASSUME NEW t, NEW S PROVE Pool!Selected(t, S) = Selected(t, S)
  BY Zenon DEF Pool!Selected, Selected, Pool!ChosenOfFirst, ChosenOfFirst
<1>2. ASSUME NEW q PROVE Pool!FlattenSeq(q) = FlattenSeq(q)
  BY Zenon DEF Pool!FlattenSeq, FlattenSeq
<1>3. ASSUME NEW c PROVE Pool!Ascii(c) = Ascii(c) /\ Pool!Cased(c) = Cased(c)
  BY Zenon DEF Pool!Ascii, Ascii, Pool!Cased, Cased
<1> QED
  BY <1>1, <1>2, <1>3, Zenon

\* A request writes a text to the object of a name.
LEMMA ObjectWritten ==
    ASSUME TextInv, NEW n, names[n] \in Objects, NEW w, Changed(ObjectOf(n), w)
    PROVE  /\ Pool!Write(names[n], w)
           /\ \A y \in Others : Contents'[y] = Contents[y]
<1>1. ObjectOf(n) \in Places /\ ObjectOf(n) = ObjectPlace(names[n])
  BY ObjectPlaces DEF ObjectOf
<1>2. /\ names' = names /\ Contents'[ObjectPlace(names[n])] = w
      /\ \A y : y # ObjectPlace(names[n]) => Contents'[y] = Contents[y]
  BY <1>1, ChangedIs
<1>3. \A q \in Objects : q # names[n] => ObjectPlace(q) # ObjectPlace(names[n])
  BY ObjectPlaces
<1>4. Pool!Write(names[n], w)
  BY <1>2, <1>3, PoolWrites
<1>5. \A y \in Others : y # ObjectPlace(names[n])
  BY OtherIs
<1> QED
  BY <1>2, <1>4, <1>5

\* What a request may make of the text t of the object o of a name n.
IsChange(n, o, t) ==
    LET e == Pool!Selected(t, Chars \cup Nodes)
    IN  \/ (\E k \in DOMAIN t : Pool!IsElement(t[k])) /\ Pool!Write(o, Pool!Chopped(t))
        \/ \E i \in DOMAIN e : \E j \in i..Len(e) :
               Pool!Write(o, SubSeq(e, i, j))
        \/ Pool!Write(o, Pool!FlattenSeq([i \in DOMAIN t |-> Pool!Ascii(t[i])]))
        \/ Pool!Write(o, Pool!Selected(t, Chars \cup Kept \cup {Push, Pop}))
        \/ Pool!Create(n, [i \in DOMAIN t |-> Pool!Cased(t[i])])

LEMMA ChangeIs ==
    ASSUME NEW n \in Names, names[n] \in Objects,
           IsChange(n, names[n], PoolText[names[n]]),
           UNCHANGED <<PoolInput, PoolOpen, PoolDraft>>
    PROVE  Pool!ChangeText
<1>1. n \in {m \in Names : names[m] \in Objects}
  OBVIOUS
<1> QED
  BY <1>1, Zenon DEF Pool!ChangeText, IsChange

LEMMA ChopIsOne ==
    ASSUME TextInv, Modal, ~ChopsShared, NEW n \in Names, Chop(n),
           names[n] \in Objects
    PROVE  \/ UNCHANGED <<mem, mac, names, refs>>
           \/ \E w : Changed(ObjectOf(n), w)
                     /\ w = Pool!Chopped(Contents[ObjectOf(n)])
                     /\ \E k \in DOMAIN Contents[ObjectOf(n)] :
                            Pool!IsElement(Contents[ObjectOf(n)][k])
<1> DEFINE t == Contents[ObjectOf(n)]
           k == Unpaired(t)
<1>1. t \in Seq(Cells) /\ Ends(t, Pop)
  BY ObjectBalances
<1>2. ASSUME k \in 1..Len(t), PairsAfter(t, k), k > 1 => ~IsPair(t, k - 1)
      PROVE  /\ Pool!Chopped(t) = Without(t, k)
             /\ \E i \in DOMAIN t : Pool!IsElement(t[i])
  <2> HIDE DEF t, k
  <2> QED
    BY <1>1, <1>2, WithoutIsChopped
<1>3. \/ UNCHANGED <<mem, mac, names, refs>>
      \/ /\ k \in 1..Len(t) /\ PairsAfter(t, k)
         /\ k > 1 => ~IsPair(t, k - 1)
         /\ Changed(ObjectOf(n), Without(t, k))
  BY <1>1, ChopChanges
<1> HIDE DEF t, k
<1> QED
  BY <1>2, <1>3, Zenon DEF t

LEMMA PoolChanges ==
    ASSUME TextInv, TextInv', Modal, ~ChopsShared, NEW n \in Names,
           \/ \E i, j \in 1..MaxLength : Substring(n, i, j)
           \/ Chop(n) \/ Asciify(n) \/ Unformat(n) \/ ChangeCase(n)
    PROVE  Pool!ChangeText \/ UNCHANGED Pool!pvars
<1> DEFINE o == names[n]
           t == Contents[ObjectOf(n)]
<1>1. o \in Objects /\ UNCHANGED <<draft, open, input>>
  <2>1. Changes(n)
    BY Zenon DEF Chop, Substring, Asciify, Unformat, ChangeCase
  <2> QED
    BY <2>1 DEF Changes
<1>2. t \in Seq(Cells) /\ PoolText[o] = t
  BY <1>1, ObjectBalances, PoolTextIs DEF ObjectOf
<1>3. CASE UNCHANGED <<mem, mac, names, refs>>
  BY <1>1, <1>3, PoolStutters, Zenon
<1>4. ASSUME IsChange(n, o, t), \A y \in Others : Contents'[y] = Contents[y]
      PROVE  Pool!ChangeText
  <2>1. UNCHANGED <<PoolInput, PoolOpen, PoolDraft>>
    BY <1>1, <1>4, OthersSame
  <2> QED
    BY <1>1, <1>2, <1>4, <2>1, ChangeIs
<1>5. ASSUME NEW w, Changed(ObjectOf(n), w),
             Pool!Write(o, w) => IsChange(n, o, t)
      PROVE  Pool!ChangeText
  <2>1. Pool!Write(o, w) /\ \A y \in Others : Contents'[y] = Contents[y]
    BY <1>1, <1>5, ObjectWritten
  <2> QED
    BY <1>4, <1>5, <2>1
<1> HIDE DEF o
<1>6. CASE Chop(n)
  <2>1. ASSUME NEW w, Changed(ObjectOf(n), w), w = Pool!Chopped(t),
               \E k \in DOMAIN t : Pool!IsElement(t[k])
        PROVE  Pool!ChangeText
    <3>1. Pool!Write(o, w) => IsChange(n, o, t)
      <4> HIDE DEF t
      <4> QED
        BY <2>1, Zenon DEF IsChange
    <3> QED
      BY <1>5, <2>1, <3>1
  <2> QED
    BY <1>1, <1>3, <1>6, <2>1, ChopIsOne, Zenon DEF o
<1>7. CASE \E i, j \in 1..MaxLength : Substring(n, i, j)
  <2>1. PICK i \in 1..MaxLength, j \in 1..MaxLength : Substring(n, i, j)
    BY <1>7, Zenon
  <2>2. CASE /\ i <= j /\ j <= Len(Selected(t, Elements))
             /\ Changed(ObjectOf(n), SubstringOf(t, i, j))
    <3> DEFINE e == Selected(t, Elements)
    <3>1. e \in Seq(Elements) /\ e = Pool!Selected(t, Chars \cup Nodes)
      BY <1>2, SelectedType, SameOperators DEF Elements
    <3>2. i \in DOMAIN e /\ j \in i..Len(e)
      <4>1. i \in Nat \ {0} /\ j \in Nat
        BY MacrosAssumption
      <4> HIDE DEF e
      <4> QED
        BY <2>2, <3>1, <4>1 DEF e
    <3>3. SubstringOf(t, i, j) = SubSeq(e, i, j)
      BY DEF SubstringOf
    <3>4. Pool!Write(o, SubstringOf(t, i, j)) => IsChange(n, o, t)
      <4> HIDE DEF e, t
      <4> QED
        BY <3>1, <3>2, <3>3, Zenon DEF IsChange
    <3> QED
      BY <1>5, <2>2, <3>4
  <2> QED
    BY <1>3, <2>1, <2>2, SubstringChanges, Zenon
<1>8. CASE Asciify(n)
  <2>1. Changed(ObjectOf(n), AsciiOf(t))
    BY <1>8, AsciifyChanges
  <2>2. AsciiOf(t) = Pool!FlattenSeq([i \in DOMAIN t |-> Pool!Ascii(t[i])])
    <3> HIDE DEF t
    <3>1. [i \in DOMAIN t |-> Pool!Ascii(t[i])] = [i \in DOMAIN t |-> Ascii(t[i])]
      BY SameOperators
    <3> QED
      BY <3>1, SameOperators, Zenon DEF AsciiOf
  <2>3. Pool!Write(o, AsciiOf(t)) => IsChange(n, o, t)
    <3> HIDE DEF t
    <3> QED
      BY <2>2, Zenon DEF IsChange
  <2> QED
    BY <1>5, <2>1, <2>3
<1>9. CASE Unformat(n)
  <2>1. Changed(ObjectOf(n), UnformattedOf(t))
    BY <1>9, UnformatChanges
  <2>2. UnformattedOf(t) = Pool!Selected(t, Chars \cup Kept \cup {Push, Pop})
    BY SameOperators, Zenon DEF UnformattedOf, Modes
  <2>3. Pool!Write(o, UnformattedOf(t)) => IsChange(n, o, t)
    <3> HIDE DEF t
    <3> QED
      BY <2>2, Zenon DEF IsChange
  <2> QED
    BY <1>5, <2>1, <2>3
<1>10. CASE ChangeCase(n)
  <2> DEFINE z == ObjectPlace(NewObject)
             c == Altered(Contents, z, CasedOf(t))
  <2>1. CASE /\ FreeObjects # {}
             /\ Relinked([names EXCEPT ![n] = NewObject], c)
    <3>1. NewObject \in Objects /\ z \in Places
      BY <2>1, NewObjectIs, ObjectPlaces
    <3>2. c[z] = CasedOf(t) /\ \A y : y # z => c[y] = Contents[y]
      BY <3>1, AlteredIs, ContentsDomain
    <3>3. \A q \in Objects : q # NewObject => ObjectPlace(q) # z
      BY <3>1, ObjectPlaces
    <3>4. \A y \in Others : y # z
      BY <3>1, OtherIs
    <3>5. \A q \in Objects : q # NewObject => c[ObjectPlace(q)] = Contents[ObjectPlace(q)]
      BY <3>2, <3>3
    <3> HIDE DEF c, t
    <3>6. Pool!Create(n, CasedOf(t))
      BY <2>1, <3>2, <3>5, PoolCreates
    <3>7. \A y \in Others : Contents'[y] = Contents[y]
      BY <2>1, <3>2, <3>4, RelinkedIs
    <3>8. CasedOf(t) = [i \in DOMAIN t |-> Pool!Cased(t[i])]
      BY SameOperators DEF CasedOf
    <3>9. IsChange(n, o, t)
      BY <3>6, <3>8, Zenon DEF IsChange
    <3> QED
      BY <1>4, <3>7, <3>9
  <2> QED
    BY <1>3, <1>10, <2>1, ChangeCaseChanges, Zenon
<1> QED
  BY <1>6, <1>7, <1>8, <1>9, <1>10

LEMMA NamesOthers ==
    ASSUME TextInv, TextInv', NEW l, Relinked(l, Contents),
           UNCHANGED <<draft, open, input>>
    PROVE  /\ Pool!Pools(l, PoolText)
           /\ UNCHANGED <<PoolInput, PoolOpen, PoolDraft>>
<1>1. \A q \in Objects : PoolText[q] = Contents[ObjectPlace(q)]
  BY PoolTextIs
<1>2. Pool!Pools(l, PoolText)
  BY <1>1, PoolNames
<1>3. \A y \in Others : Contents'[y] = Contents[y]
  BY RelinkedIs
<1> QED
  BY <1>2, <1>3, OthersSame

LEMMA PoolRenames ==
    ASSUME TextInv, TextInv', NEW a \in Names, NEW b \in Names,
           Rn(a, b) \/ Als(a, b) \/ Rm(a)
    PROVE  Pool!ChangeNames
<1> DEFINE u == [names EXCEPT ![a] = NoObject]
           r == [u EXCEPT ![b] = names[a]]
           m == [names EXCEPT ![a] = names[b]]
<1>1. /\ Rn(a, b) => Relinked(r, Contents) /\ names[a] # NoObject
      /\ Als(a, b) => Relinked(m, Contents) /\ names[b] # NoObject
      /\ Rm(a) => Relinked(u, Contents)
  BY NamesRelink DEF Rn, Als
<1>2. UNCHANGED <<draft, open, input>>
  BY DEF Rn, Als, Rm
<1>3. /\ Pool!Unlink(a) = u
      /\ [Pool!Unlink(a) EXCEPT ![b] = names[a]] = r
  BY DEF Pool!Unlink
<1> HIDE DEF u, r, m
<1>4. CASE Rn(a, b)
  <2>1. /\ Pool!Pools(r, PoolText) /\ names[a] # NoObject
        /\ UNCHANGED <<PoolInput, PoolOpen, PoolDraft>>
    BY <1>1, <1>2, <1>4, NamesOthers
  <2>2. Pool!Pools([Pool!Unlink(a) EXCEPT ![b] = names[a]], PoolText)
    BY <1>3, <2>1
  <2> QED
    BY <2>1, <2>2, Zenon DEF Pool!ChangeNames
<1>5. CASE Als(a, b)
  <2>1. /\ Pool!Pools(m, PoolText) /\ names[b] # NoObject
        /\ UNCHANGED <<PoolInput, PoolOpen, PoolDraft>>
    BY <1>1, <1>2, <1>5, NamesOthers
  <2> QED
    BY <2>1, Zenon DEF Pool!ChangeNames, m
<1>6. CASE Rm(a)
  <2>1. /\ Pool!Pools(u, PoolText)
        /\ UNCHANGED <<PoolInput, PoolOpen, PoolDraft>>
    BY <1>1, <1>2, <1>6, NamesOthers
  <2>2. Pool!Pools(Pool!Unlink(a), PoolText)
    BY <1>3, <2>1
  <2> QED
    BY <2>1, <2>2, Zenon DEF Pool!ChangeNames
<1> QED
  BY <1>4, <1>5, <1>6

LEMMA PoolDereferences ==
    ASSUME TextInv, TextInv', NEW n \in Names, Dereference(n)
    PROVE  Pool!Dereference(n)
<1>1. /\ names[n] = NoObject /\ FreeObjects # {}
      /\ UNCHANGED <<draft, open, input>>
  BY DEF Dereference
<1>2. Relinked([names EXCEPT ![n] = NewObject], Contents)
  BY DereferenceRelinks
<1>3. NewObject \in Objects /\ refs[NewObject] = 0
  BY <1>1 DEF FreeObjects, NewObject
<1>4. Contents[ObjectPlace(NewObject)] = <<>>
  <2>1. StoreInv(Store) /\ Store.names = names /\ Store.refs = refs
    BY StoreIs DEF TextInv
  <2>2. Referrers(names, NewObject) = {}
    BY <1>3, <2>1, CountedNames
  <2> QED
    BY <1>3, <2>2, Zenon DEF TextInv, Vacant
<1>5. Pool!Create(n, <<>>)
  BY <1>1, <1>2, <1>4, PoolCreates
<1>6. UNCHANGED <<PoolInput, PoolOpen, PoolDraft>>
  <2>1. \A y \in Others : Contents'[y] = Contents[y]
    BY <1>2, RelinkedIs
  <2> QED
    BY <1>1, <2>1, OthersSame
<1> QED
  BY <1>1, <1>5, <1>6, Zenon DEF Pool!Dereference

LEMMA PoolsBegin == Init => Pool!PoolsInit
<1> SUFFICES ASSUME Init PROVE Pool!PoolsInit
  OBVIOUS
<1>1. /\ names \in [Names -> {Request, NoObject}]
      /\ draft = NoDraft /\ open = <<>> /\ input = <<>>
  BY DEF Init
<1>2. \A x : x \in Places => mac[x] = NoMacro
  BY DEF Init
<1>3. \A x \in Places : TextOf(Store, x) = <<>>
  BY <1>2 DEF Store, TextOf, NoMacro
<1>4. PoolText = [o \in Objects |-> <<>>]
  BY <1>3, ObjectPlaces DEF PoolText
<1>5. PoolDraft = NoDraft
  BY <1>1, PoolDraftIs
<1>6. PoolOpen = <<>> /\ PoolInput = <<>>
  <2>1. TextInv
    BY TextInit
  <2> QED
    BY <1>1, <2>1, PoolOpenType, PoolInputType
<1> QED
  BY <1>1, <1>4, <1>5, <1>6, Zenon DEF Pool!PoolsInit

\* Every step is one of the abstract specification, or changes none of its
\* variables.
LEMMA PoolsStep ==
    ASSUME TextInv, TextInv', Modal, ~ChopsShared, [Next]_vars
    PROVE  Pool!PoolsNext \/ UNCHANGED Pool!pvars
<1>1. CASE UNCHANGED vars
  BY <1>1, PoolStutters, Zenon DEF vars
<1>2. CASE Read \/ EndOfInput \/ EndDefinition \/ AbandonDefinition \/ EndDiversion
  <2>1. \/ Pool!Read \/ Pool!EndOfInput \/ Pool!EndDefinition
        \/ Pool!AbandonDefinition \/ Pool!EndDiversion
    BY <1>2, PoolReads, PoolEndsInput, PoolEndsDefinition, PoolAbandons,
       PoolEndsDiversion
  <2> QED
    BY <2>1, Zenon DEF Pool!PoolsNext
<1>3. ASSUME NEW c \in Elements, Collect(c) \/ Divert(c)
      PROVE  Pool!PoolsNext
  <2>1. Pool!Collect(c) \/ Pool!Divert(c)
    BY <1>3, PoolCollects, PoolDiverts
  <2>2. c \in Chars \cup Nodes
    BY DEF Elements
  <2> QED
    BY <2>1, <2>2, Zenon DEF Pool!PoolsNext
<1>4. ASSUME NEW n \in Names, Dereference(n) \/ Interpolate(n)
      PROVE  Pool!PoolsNext
  <2>1. Pool!Dereference(n) \/ Pool!Interpolate(n)
    BY <1>4, PoolDereferences, PoolInterpolates
  <2> QED
    BY <2>1, Zenon DEF Pool!PoolsNext
<1>5. ASSUME NEW n \in Names, NEW append \in BOOLEAN, NEW comp \in BOOLEAN,
             BeginDefinition(n, append, comp)
      PROVE  Pool!PoolsNext
  <2>1. Pool!BeginDefinition(n, append, comp)
    BY <1>5, PoolBegins
  <2> QED
    BY <2>1, Zenon DEF Pool!PoolsNext
<1>6. ASSUME NEW n \in Names, NEW append \in BOOLEAN, BeginDiversion(n, append)
      PROVE  Pool!PoolsNext
  <2>1. Pool!BeginDiversion(n, append)
    BY <1>6, PoolBeginsDiversion
  <2> QED
    BY <2>1, Zenon DEF Pool!PoolsNext
<1>7. ASSUME NEW n \in Names,
             \/ Chop(n) \/ Asciify(n) \/ Unformat(n) \/ ChangeCase(n)
             \/ \E i, j \in 1..MaxLength : Substring(n, i, j)
      PROVE  Pool!PoolsNext \/ UNCHANGED Pool!pvars
  <2>1. Pool!ChangeText \/ UNCHANGED Pool!pvars
    BY <1>7, PoolChanges, Zenon
  <2> QED
    BY <2>1, Zenon DEF Pool!PoolsNext
<1>8. ASSUME NEW n \in Names, NEW b \in Names, Rn(n, b) \/ Als(n, b) \/ Rm(n)
      PROVE  Pool!PoolsNext
  <2>1. Pool!ChangeNames
    BY <1>8, PoolRenames
  <2> QED
    BY <2>1, Zenon DEF Pool!PoolsNext
<1>9. CASE Next
  BY <1>2, <1>3, <1>4, <1>5, <1>6, <1>7, <1>8, <1>9, Zenon DEF Next
<1> QED
  BY <1>1, <1>9

\* Objects are pools of text of their own, although they share headers: who
\* appends to a text, redefines, chops, renames or removes it while others read
\* or extend it changes no text but his.
THEOREM ObjectsArePools ==
    ASSUME "chop of shared modes" \notin Extras
    PROVE  Spec => Implements
<1>0. ~ChopsShared
  BY Zenon DEF ChopsShared
<1>1. Init => TextInv /\ Modal /\ Pool!PoolsInit
  BY TextInit, ModalInit, PoolsBegin
<1>2. TextInv /\ Modal /\ [Next]_vars => (TextInv /\ Modal)'
  BY <1>0, TextNext, ModalNext, Zenon
<1>3. TextInv /\ Modal /\ TextInv' /\ [Next]_vars => [Pool!PoolsNext]_(Pool!pvars)
  BY <1>0, PoolsStep, Zenon
<1>4. Spec => Pool!PoolsSpec
  BY <1>1, <1>2, <1>3, PTL DEF Spec, Pool!PoolsSpec
<1> QED
  BY <1>4 DEF Implements
=============================================================================
