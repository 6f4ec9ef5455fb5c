--------------------------- MODULE PipelineProofs ---------------------------
(* Proofs about run_pipeline, for any number of commands, any limit on      *)
(* descriptors and any of them open at the start.                           *)
EXTENDS Pipeline, FiniteSetTheorems, WellFoundedInduction, TLAPS

\* What a descriptor may stand for; an end of a pipe is not a closed descriptor.
LEMMA TableValues ==
    /\ Closed \in Files
    /\ \A n \in Nat : /\ ReadEnd(n) \in Files /\ WriteEnd(n) \in Files
                      /\ Inherited(n) \in Files
                      /\ ReadEnd(n) # Closed /\ WriteEnd(n) # Closed
                      /\ Inherited(n) # Closed
  BY DEF Closed, ReadEnd, WriteEnd, Inherited, File, Files

\* Descriptors are numbers, and the standard input and output are among them.
LEMMA FdsAreNat == Fds \subseteq Nat /\ 0 \in Fds /\ 1 \in Fds
  BY DescriptorsAssumption DEF Fds

\* A set of descriptors that is not empty has a least element.
LEMMA LeastElement ==
    ASSUME NEW D \in SUBSET Fds, D # {}
    PROVE  \E d \in D : \A e \in D : d <= e
<1>1. D \in SUBSET Nat
  BY FdsAreNat
<1>2. \E d \in D : \A e \in D : ~ (<<e, d>> \in OpToRel(<, Nat))
  BY <1>1, WFMin, NatLessThanWellFounded
<1>3. \A d \in D, e \in D : ~ (<<e, d>> \in OpToRel(<, Nat)) => d <= e
  BY <1>1 DEF OpToRel
<1> QED
  BY <1>2, <1>3

\* The least free descriptor is what dup and pipe take.
LEMMA LowestIsFree ==
    ASSUME NEW t, Free(t) # {}
    PROVE  Lowest(t) \in Free(t) /\ \A e \in Free(t) : Lowest(t) <= e
<1>1. \E d \in Free(t) : \A e \in Free(t) : d <= e
  BY LeastElement DEF Free
<1> QED
  BY <1>1 DEF Lowest

\* It is the only one that has no free descriptor below it.
LEMMA LeastFree ==
    ASSUME NEW t \in Tables, NEW d \in Free(t),
           \A e \in Free(t) : d <= e
    PROVE  Lowest(t) = d
<1>1. Lowest(t) \in Free(t) /\ \A e \in Free(t) : Lowest(t) <= e
  BY DEF Lowest
<1>2. Free(t) \subseteq Nat
  BY FdsAreNat DEF Free
<1> QED
  BY <1>1, <1>2

\* close, dup and close put a descriptor in the place of another when all
\* those below that are open.
LEMMA RedirectWorks ==
    ASSUME NEW t \in Tables, NEW from \in Fds, NEW to \in Fds, from # to,
           t[from] # Closed, t[to] # Closed,
           \A d \in Fds : d < to => t[d] # Closed
    PROVE  Redirect(Calls(t), from, to)
              = Calls([t EXCEPT ![to] = t[from], ![from] = Closed])
<1> DEFINE t1 == [t EXCEPT ![to] = Closed]
           t2 == [t1 EXCEPT ![to] = t1[from]]
           t3 == [t2 EXCEPT ![from] = Closed]
<1>1. Close(Calls(t), to) = Calls(t1)
  BY DEF Close, Calls
<1>2. t1 \in Tables /\ t2 \in Tables
  BY TableValues DEF Tables
<1>3. to \in Free(t1) /\ \A e \in Free(t1) : to <= e
  BY FdsAreNat DEF Free, Tables
<1>4. Lowest(t1) = to
  BY <1>2, <1>3, LeastFree
<1>5. Dup(Calls(t1), from) = Calls(t2)
  <2>1. t1[from] # Closed /\ Free(t1) # {}
    BY <1>3 DEF Tables
  <2> QED
    BY <2>1, <1>4 DEF Dup, Calls
<1>6. t2[from] # Closed
  BY DEF Tables
<1>7. Close(Calls(t2), from) = Calls(t3)
  BY <1>6 DEF Close, Calls
<1>8. t3 = [t EXCEPT ![to] = t[from], ![from] = Closed]
  BY DEF Tables
<1> QED
  BY <1>1, <1>5, <1>7, <1>8 DEF Redirect

-----------------------------------------------------------------------------
(* The descriptors of groff when it is about to start command j, and after   *)
(* it has forked, as its memory m has them.                                  *)

StartOpen == start[0] # Closed /\ start[1] # Closed

Follows(j) == j # 1 /\ ~noPipe

Before(j, m) ==
    IF Follows(j) THEN [start EXCEPT ![m.last] = ReadEnd(j - 1)] ELSE start

Inherits(j, m) ==
    IF Follows(j) THEN m.last \in Free(start) ELSE m.last = 0

HasPipe(j, m) ==
    Piped(j) => /\ m.r \in Free(start) /\ m.w \in Free(start) /\ m.r # m.w
                /\ Follows(j) => m.last # m.r /\ m.last # m.w

After(j, m) ==
    IF Piped(j) THEN [Before(j, m) EXCEPT ![m.r] = ReadEnd(j), ![m.w] = WriteEnd(j)]
    ELSE Before(j, m)

Memories == [last : Fds, r : Fds, w : Fds]

\* The table groff has before it starts a command is one.
LEMMA BeforeType ==
    ASSUME start \in Tables, NEW j \in Commands, NEW m \in Memories
    PROVE  Before(j, m) \in Tables
<1>1. Follows(j) => j - 1 \in Nat
  BY DEF Commands, Follows
<1> QED
  BY <1>1, TableValues DEF Before, Tables

\* pipe takes two descriptors that were free at the start and are not the end
\* of the pipe before.
LEMMA PipeTakesFree ==
    ASSUME start \in Tables, NEW j \in Commands, NEW m \in Memories,
           Inherits(j, m), NEW r, NEW w,
           CanPipe(Before(j, m)),
           r = Lowest(Before(j, m)),
           w = Lowest([Before(j, m) EXCEPT ![r] = ReadEnd(j)])
    PROVE  /\ r \in Free(start) /\ w \in Free(start) /\ r # w
           /\ Follows(j) => m.last # r /\ m.last # w
<1> DEFINE t == Before(j, m)
           u == [t EXCEPT ![r] = ReadEnd(j)]
<1>1. t \in Tables /\ j \in Nat
  BY BeforeType DEF Commands
<1>2. r \in Free(t)
  BY LowestIsFree DEF CanPipe
<1>3. Free(u) = Free(t) \ {r}
  BY <1>1, <1>2, TableValues DEF Free, Tables
<1>4. Free(u) # {}
  <2>1. \E d \in Free(t) : d # r
    BY DEF CanPipe
  <2> QED
    BY <2>1, <1>3
<1>5. w \in Free(t) /\ w # r
  BY <1>3, <1>4, LowestIsFree
<1>6. Free(t) \subseteq Free(start) /\ (Follows(j) => m.last \notin Free(t))
  <2>1. CASE Follows(j)
    <3>1. ReadEnd(j - 1) # Closed
      BY <2>1, <1>1, TableValues DEF Follows, Commands
    <3> QED
      BY <2>1, <3>1 DEF Before, Free, Tables, Memories
  <2>2. CASE ~Follows(j)
    BY <2>2 DEF Before
  <2> QED
    BY <2>1, <2>2
<1> QED
  BY <1>2, <1>5, <1>6

\* The child arranges its descriptors as they are intended.
LEMMA SetUpWorks ==
    ASSUME start \in Tables, StartOpen, NEW j \in Commands,
           mem[j] \in Memories, Inherits(j, mem[j]), HasPipe(j, mem[j])
    PROVE  SetUp(j, Calls(After(j, mem[j]))) = Calls(Intended(j))
<1> DEFINE m == mem[j]
           t == After(j, m)
           u == IF Follows(j)
                THEN [t EXCEPT ![0] = ReadEnd(j - 1), ![m.last] = Closed]
                ELSE t
           v == [u EXCEPT ![1] = WriteEnd(j), ![m.w] = Closed]
<1>1. /\ j \in Nat /\ (Follows(j) => j - 1 \in Nat)
      /\ 0 \in Fds /\ 1 \in Fds /\ Fds \subseteq Nat
  BY FdsAreNat DEF Commands, Follows
<1>2. 0 \notin Free(start) /\ 1 \notin Free(start) /\ Free(start) \subseteq Fds
  BY DEF StartOpen, Free
<1>3. t \in Tables
  BY <1>1, BeforeType, TableValues DEF After, Tables
<1>4. t[0] = start[0] /\ t[1] = start[1]
  BY <1>1, <1>2, BeforeType DEF After, Before, HasPipe, Inherits, Tables
<1>5. (IF m.last # 0 THEN Redirect(Calls(t), m.last, 0) ELSE Calls(t)) = Calls(u)
  <2>1. CASE Follows(j)
    <3>1. m.last \in Fds /\ m.last # 0 /\ t[m.last] = ReadEnd(j - 1)
      BY <2>1, <1>1, <1>2 DEF After, Before, HasPipe, Inherits, Tables
    <3>2. \A d \in Fds : d < 0 => t[d] # Closed
      BY <1>1
    <3>3. Redirect(Calls(t), m.last, 0)
            = Calls([t EXCEPT ![0] = t[m.last], ![m.last] = Closed])
      BY <2>1, <3>1, <3>2, <1>1, <1>3, <1>4, TableValues, RedirectWorks
         DEF StartOpen
    <3> QED
      BY <2>1, <3>1, <3>3
  <2>2. CASE ~Follows(j)
    BY <2>2 DEF Inherits
  <2> QED
    BY <2>1, <2>2
<1>6. CASE ~Piped(j)
  <2>1. u = Intended(j)
    BY <1>6, <1>1, <1>2 DEF Intended, After, Before, Follows, Inherits, Tables, Free
  <2> QED
    BY <1>6, <1>5, <2>1 DEF SetUp
<1>7. CASE Piped(j)
  <2>1. /\ m.r \in Fds /\ m.w \in Fds /\ m.r # m.w
        /\ m.r \notin {0, 1} /\ m.w \notin {0, 1}
        /\ Follows(j) => m.last # m.r /\ m.last # m.w
    BY <1>7, <1>2 DEF HasPipe
  <2>2. u \in Tables
    BY <1>1, <1>3, TableValues DEF Tables
  <2>3. u[m.w] = WriteEnd(j) /\ u[m.r] = ReadEnd(j)
    BY <1>7, <2>1, <1>1, <1>2, BeforeType DEF After, Tables, Inherits
  <2>4. u[0] # Closed /\ u[1] # Closed
    BY <1>1, <1>2, <1>3, <1>4, TableValues DEF StartOpen, Inherits, Tables
  <2>5. \A d \in Fds : d < 1 => d = 0
    BY <1>1
  <2>6. Redirect(Calls(u), m.w, 1) = Calls(v)
    <3>1. WriteEnd(j) # Closed
      BY <1>1, TableValues
    <3> HIDE DEF u, m
    <3> QED
      BY <2>1, <2>2, <2>3, <2>4, <2>5, <3>1, <1>1, RedirectWorks
  <2>7. v[m.r] # Closed
    BY <2>1, <2>2, <2>3, <1>1, TableValues DEF Tables
  <2>8. Close(Calls(v), m.r) = Calls([v EXCEPT ![m.r] = Closed])
    BY <2>7 DEF Close, Calls
  <2>9. [v EXCEPT ![m.r] = Closed] = Intended(j)
    <3>1. /\ start[m.r] = Closed /\ start[m.w] = Closed
          /\ Follows(j) => start[m.last] = Closed /\ m.last \in Fds
                             /\ m.last # 0 /\ m.last # 1
      BY <1>7, <1>2 DEF HasPipe, Inherits, Free
    <3>2. CASE Follows(j)
      <4> DEFINE x == [v EXCEPT ![m.r] = Closed]
      <4>1. t = [[start EXCEPT ![m.last] = ReadEnd(j - 1)]
                    EXCEPT ![m.r] = ReadEnd(j), ![m.w] = WriteEnd(j)]
        BY <3>2, <1>7 DEF After, Before
      <4>2. u = [t EXCEPT ![0] = ReadEnd(j - 1), ![m.last] = Closed]
        BY <3>2
      <4>3. \A d \in Fds : u[d] = IF d = 0 THEN ReadEnd(j - 1)
                                 ELSE IF d = m.w THEN WriteEnd(j)
                                 ELSE IF d = m.r THEN ReadEnd(j)
                                 ELSE start[d]
        BY <4>1, <4>2, <3>1, <3>2, <2>1, <1>1 DEF Tables
      <4> HIDE DEF u, m
      <4>4. \A d \in Fds : x[d] = IF d = 0 THEN ReadEnd(j - 1)
                                 ELSE IF d = 1 THEN WriteEnd(j)
                                 ELSE start[d]
        BY <4>3, <3>1, <2>1, <2>2, <1>1 DEF Tables
      <4>5. x \in [Fds -> Files]
        BY <2>2, <1>1, TableValues DEF Tables
      <4>6. Intended(j) = [d \in Fds |-> IF d = 0 THEN ReadEnd(j - 1)
                                        ELSE IF d = 1 THEN WriteEnd(j)
                                        ELSE start[d]]
        BY <3>2, <1>7 DEF Intended, Follows
      <4> QED
        BY <4>4, <4>5, <4>6
    <3>3. CASE ~Follows(j)
      BY <3>1, <3>3, <1>7, <2>1, <1>1 DEF Intended, After, Before, Follows, Tables
    <3> QED
      BY <3>2, <3>3
  <2> QED
    BY <1>5, <1>7, <2>6, <2>8, <2>9 DEF SetUp
<1> QED
  BY <1>6, <1>7

\* groff, having forked, closes what the next command is not to inherit.
LEMMA ParentClosesWorks ==
    ASSUME start \in Tables, i \in Commands, NEW m \in Memories,
           Inherits(i, m), HasPipe(i, m), StartOpen
    PROVE  LET c == ParentCloses(Calls(After(i, m)), m)
           IN  /\ c.ok
               /\ Piped(i) =>
                     /\ c.table = Before(i + 1, [m EXCEPT !.last = m.r])
                     /\ Inherits(i + 1, [m EXCEPT !.last = m.r])
                     /\ Follows(i + 1)
               /\ ~Piped(i) => c.table = start
<1> DEFINE t == After(i, m)
           u == IF Follows(i) THEN [t EXCEPT ![m.last] = Closed] ELSE t
<1>1. /\ i \in Nat /\ (Follows(i) => i - 1 \in Nat)
      /\ 0 \in Fds /\ 1 \in Fds /\ Fds \subseteq Nat
  BY FdsAreNat DEF Commands, Follows
<1>2. 0 \notin Free(start) /\ 1 \notin Free(start) /\ Free(start) \subseteq Fds
  BY DEF StartOpen, Free
<1>3. t \in Tables
  BY <1>1, BeforeType, TableValues DEF After, Tables
<1>4. (IF m.last # 0 THEN Close(Calls(t), m.last) ELSE Calls(t)) = Calls(u)
  <2>1. CASE Follows(i)
    <3>1. m.last \in Fds /\ m.last # 0 /\ t[m.last] = ReadEnd(i - 1)
      BY <2>1, <1>1, <1>2 DEF After, Before, HasPipe, Inherits, Tables
    <3> QED
      BY <2>1, <3>1, <1>1, TableValues DEF Close, Calls
  <2>2. CASE ~Follows(i)
    BY <2>2 DEF Inherits
  <2> QED
    BY <2>1, <2>2
<1>5. CASE ~Piped(i)
  <2>1. u = start
    BY <1>5, <1>1, <1>2 DEF After, Before, Inherits, Tables, Free
  <2> QED
    BY <1>4, <1>5, <2>1 DEF ParentCloses, Calls
<1>6. CASE Piped(i)
  <2>1. /\ m.r \in Free(start) /\ m.w \in Free(start) /\ m.r # m.w
        /\ Follows(i) => m.last # m.r /\ m.last # m.w
    BY <1>6 DEF HasPipe
  <2>2. u[m.w] = WriteEnd(i)
    BY <1>6, <2>1, <1>1, <1>2, BeforeType DEF After, Tables, Inherits
  <2>3. Close(Calls(u), m.w) = Calls([u EXCEPT ![m.w] = Closed])
    BY <2>2, <1>1, TableValues DEF Close, Calls
  <2>4. [u EXCEPT ![m.w] = Closed] = [start EXCEPT ![m.r] = ReadEnd(i)]
    BY <1>6, <2>1, <1>1, <1>2 DEF After, Before, Inherits, Tables, Free
  <2>5. Follows(i + 1) /\ (i + 1) - 1 = i
    BY <1>1, <1>6 DEF Follows, Piped, Commands
  <2>6. Before(i + 1, [m EXCEPT !.last = m.r]) = [start EXCEPT ![m.r] = ReadEnd(i)]
    BY <2>5 DEF Before, Memories
  <2> QED
    BY <1>4, <1>6, <2>1, <2>3, <2>4, <2>5, <2>6
       DEF ParentCloses, Calls, Inherits, Memories
<1> QED
  BY <1>5, <1>6

-----------------------------------------------------------------------------
(* Types.                                                                  *)

States == [table : Tables, ok : BOOLEAN]

\* close and dup keep a table a table.
LEMMA CallsType ==
    ASSUME NEW c \in States, NEW d \in Fds
    PROVE  Close(c, d) \in States /\ Dup(c, d) \in States
<1>1. Closed \in Files
  BY TableValues
<1>2. Close(c, d) \in States
  BY <1>1 DEF Close, Failed, States, Tables
<1>3. Dup(c, d) \in States
  <2>1. CASE c.ok /\ c.table[d] # Closed /\ Free(c.table) # {}
    <3>1. Lowest(c.table) \in Fds
      BY <2>1, LowestIsFree DEF Free
    <3>2. c.table \in Tables /\ c.table[d] \in Files
      BY DEF States, Tables
    <3> QED
      BY <2>1, <3>1, <3>2 DEF Dup, States, Tables
  <2>2. CASE ~(c.ok /\ c.table[d] # Closed /\ Free(c.table) # {})
    BY <2>2 DEF Dup, Failed, States
  <2> QED
    BY <2>1, <2>2
<1> QED
  BY <1>2, <1>3

\* What a child does to its descriptors does, too, ...
LEMMA SetUpType ==
    ASSUME NEW j \in Commands, mem[j] \in Memories, NEW c \in States
    PROVE  SetUp(j, c) \in States
<1>1. mem[j].last \in Fds /\ mem[j].r \in Fds /\ mem[j].w \in Fds
  BY DEF Memories
<1>2. 0 \in Fds /\ 1 \in Fds
  BY FdsAreNat
<1>3. \A b \in States, from \in Fds, to \in Fds : Redirect(b, from, to) \in States
  BY CallsType DEF Redirect
<1> QED
  BY <1>1, <1>2, <1>3, CallsType DEF SetUp

\* ... and what groff does to its own.
LEMMA ParentClosesType ==
    ASSUME NEW m \in Memories, NEW c \in States
    PROVE  ParentCloses(c, m) \in States
<1>1. m.last \in Fds /\ m.w \in Fds
  BY DEF Memories
<1> QED
  BY <1>1, CallsType DEF ParentCloses

\* While groff starts commands, there is one to start.
TypeInv == TypeOK /\ (phase \in {"start", "forked"} => i \in Commands)

WaitStatuses == [how : {"not yet", "exit", "signal"}, value : Nat]

\* The parts of the type invariant that the steps below use.
LEMMA TypeParts ==
    ASSUME TypeOK
    PROVE  /\ mem \in [0..N -> Memories] /\ fds \in [0..N -> Tables]
           /\ outcome \in [Commands -> WaitStatuses]
           /\ N \in Nat /\ 0 \in 0..N /\ Commands \subseteq 0..N
           /\ Commands \subseteq Nat /\ 0 \notin Commands
           /\ \A j \in 0..N : mem[j] \in Memories /\ fds[j] \in Tables
<1>1. mem \in [0..N -> Memories] /\ fds \in [0..N -> Tables]
  BY DEF TypeOK, Memories
<1>2. outcome \in [Commands -> WaitStatuses]
  BY DEF TypeOK, WaitStatuses
<1>3. /\ N \in Nat /\ 0 \in 0..N /\ Commands \subseteq 0..N
      /\ Commands \subseteq Nat /\ 0 \notin Commands
  BY PipelineAssumption DEF Commands
<1> QED
  BY <1>1, <1>2, <1>3

\* Commands that end keep the types.
LEMMA EndType ==
    ASSUME TypeOK, NEW J, NEW how \in WaitStatuses, End(J, how)
    PROVE  /\ state' \in [Commands -> {"none", "forked", "running", "ended", "reaped"}]
           /\ outcome' \in [Commands -> WaitStatuses]
           /\ fds' \in [0..N -> Tables]
<1>1. NoFiles \in Tables
  BY TableValues DEF NoFiles, Tables
<1> QED
  BY <1>1 DEF End, TypeOK, WaitStatuses

\* pipe takes descriptors.
LEMMA PipeType ==
    ASSUME TypeOK, i \in Commands, CanPipe(fds[0])
    PROVE  PipeFds.r \in Fds /\ PipeFds.w \in Fds
<1>1. fds[0] \in Tables /\ i \in Nat
  BY TypeParts
<1>2. Lowest(fds[0]) \in Free(fds[0])
  BY LowestIsFree DEF CanPipe
<1> DEFINE r == Lowest(fds[0])
           u == [fds[0] EXCEPT ![r] = ReadEnd(i)]
<1>3. Free(u) = Free(fds[0]) \ {r}
  BY <1>1, <1>2, TableValues DEF Free, Tables
<1>4. Free(u) # {}
  <2>1. \E d \in Free(fds[0]) : d # r
    BY DEF CanPipe
  <2> QED
    BY <2>1, <1>3
<1>5. Lowest(u) \in Free(u)
  BY <1>4, LowestIsFree
<1> QED
  BY <1>2, <1>5 DEF PipeFds, Free

\* The types hold at the start ...
LEMMA StartType == Init => TypeInv
<1> SUFFICES ASSUME Init PROVE TypeInv
  OBVIOUS
<1>1. start \in Tables /\ NoFiles \in Tables
  BY TableValues, FdsAreNat DEF Init, Tables, NoFiles
<1>2. 0 \in Fds /\ NotYet \in WaitStatuses /\ N \in Nat /\ 1 \in Commands
  BY FdsAreNat, PipelineAssumption DEF NotYet, WaitStatuses, Commands
<1>3. mem \in [0..N -> Memories] /\ fds \in [0..N -> Tables]
  BY <1>1, <1>2 DEF Init, Memories
<1>4. buffer \in [Commands -> 0..Capacity]
  BY PipelineAssumption DEF Init
<1>5. /\ state \in [Commands -> {"none", "forked", "running", "ended", "reaped"}]
      /\ outcome \in [Commands -> WaitStatuses]
      /\ busy \in [Commands -> BOOLEAN]
  BY <1>2 DEF Init
<1>6. i \in 1..(N + 1) /\ i \in Commands /\ count \in 0..N /\ strangers \in 0..1
  BY <1>2 DEF Init
<1> QED
  BY <1>1, <1>3, <1>4, <1>5, <1>6
     DEF Init, TypeInv, TypeOK, Memories, WaitStatuses

\* ... and after every step.
LEMMA StepType == TypeInv /\ [Next]_vars => TypeInv'
<1> SUFFICES ASSUME TypeInv, [Next]_vars PROVE TypeInv'
  OBVIOUS
<1> USE PipelineAssumption
<1>t. TypeOK /\ NoFiles \in Tables /\ 0 \in 0..N /\ Commands \subseteq 0..N
      /\ Commands \subseteq Nat
  BY TableValues DEF TypeInv, NoFiles, Tables, Commands
<1>p. /\ mem \in [0..N -> Memories] /\ fds \in [0..N -> Tables]
      /\ outcome \in [Commands -> WaitStatuses]
      /\ \A j \in 0..N : mem[j] \in Memories /\ fds[j] \in Tables
  BY <1>t, TypeParts
<1>e. \A n \in Nat : Exited(n) \in WaitStatuses /\ KilledBy(n) \in WaitStatuses
  BY DEF Exited, KilledBy, WaitStatuses
<1>1. CASE Spawn
  <2>1. i \in Commands /\ i \in Nat
    BY <1>1, <1>t DEF Spawn, TypeInv
  <2>2. ASSUME NEW m \in Memories, NEW t \in Tables, Fork(m, t)
        PROVE  /\ mem' \in [0..N -> Memories] /\ fds' \in [0..N -> Tables]
               /\ state' \in [Commands -> {"none", "forked", "running", "ended", "reaped"}]
               /\ phase' = "forked"
    BY <2>1, <2>2, <1>t DEF Fork, TypeOK, Memories
  <2>3. \E m \in Memories, t \in Tables : Fork(m, t)
    <3>1. mem[0] \in Memories /\ fds[0] \in Tables
      BY <1>t, <1>p
    <3>2. CASE Piped(i) /\ CanPipe(fds[0])
      <4> DEFINE m == [mem[0] EXCEPT !.r = PipeFds.r, !.w = PipeFds.w]
      <4>1. PipeFds.r \in Fds /\ PipeFds.w \in Fds
        BY <2>1, <3>2, <1>t, PipeType
      <4>2. m \in Memories
        BY <3>1, <4>1 DEF Memories
      <4>3. WithPipe(m) \in Tables
        BY <2>1, <3>1, <4>2, TableValues DEF WithPipe, Tables
      <4> QED
        BY <1>1, <3>2, <4>2, <4>3 DEF Spawn
    <3>3. CASE ~Piped(i)
      BY <1>1, <3>1, <3>3 DEF Spawn
    <3> QED
      BY <1>1, <3>2, <3>3 DEF Spawn
  <2> QED
    BY <1>1, <1>t, <2>1, <2>2, <2>3
       DEF Spawn, TypeInv, TypeOK, Memories, kernel
<1>2. CASE SpawnFails
  BY <1>2, <1>t DEF SpawnFails, Fatal, TypeInv, TypeOK, kernel
<1>3. CASE Record
  <2> DEFINE c == ParentCloses(Calls(fds[0]), mem[0])
  <2>1. i \in Commands /\ mem[0] \in Memories /\ Calls(fds[0]) \in States
    BY <1>3, <1>t, <1>p DEF Record, TypeInv, Calls, States
  <2>2. c \in States
    BY <2>1, ParentClosesType
  <2> HIDE DEF c
  <2>3. CASE /\ c.ok
             /\ fds' = [fds EXCEPT ![0] = c.table]
             /\ mem' = [mem EXCEPT ![0].last = IF Piped(i) THEN mem[0].r ELSE @]
             /\ pids' = pids \cup {i}
             /\ i' = i + 1
             /\ phase' = IF IsLast(i) THEN "wait" ELSE "start"
    <3>1. fds' \in [0..N -> Tables]
      BY <2>2, <2>3, <1>t DEF TypeOK, States
    <3>2. mem' \in [0..N -> Memories]
      BY <2>1, <2>3, <1>t DEF TypeOK, Memories
    <3>3. i' \in 1..(N + 1) /\ (phase' \in {"start", "forked"} => i' \in Commands)
      BY <2>1, <2>3 DEF Commands, IsLast
    <3> QED
      BY <1>3, <1>t, <2>1, <2>3, <3>1, <3>2, <3>3
         DEF Record, TypeInv, TypeOK, Memories, kernel
  <2>4. CASE ~c.ok /\ Fatal /\ UNCHANGED <<mem, pids, i>>
    BY <1>3, <1>t, <2>4 DEF Record, Fatal, TypeInv, TypeOK, kernel
  <2> QED
    BY <1>3, <2>3, <2>4 DEF Record, c
<1>4. CASE Return
  BY <1>4, <1>t DEF Return, TypeInv, TypeOK, kernel
<1>5. ASSUME NEW j \in Commands, Reap(j)
      PROVE  TypeInv'
  <2>1. ret' \subseteq {1, 2, 4}
    BY <1>5, <1>t DEF Reap, Bits, TypeOK
  <2>2. KilledBy(SIGPIPE) \in WaitStatuses
    BY <1>e DEF SIGPIPE
  <2>3. outcome' \in [Commands -> WaitStatuses]
    BY <1>5, <1>t, <2>2 DEF Reap, TypeOK, WaitStatuses
  <2>4. /\ state' \in [Commands -> {"none", "forked", "running", "ended", "reaped"}]
        /\ fds' \in [0..N -> Tables]
        /\ pids' \subseteq Commands /\ count' \in 0..N
    <3>1. state' \in [Commands -> {"none", "forked", "running", "ended", "reaped"}]
      BY <1>5, <1>t DEF Reap, TypeOK
    <3>2. fds' \in [0..N -> Tables]
      BY <1>5, <1>t, <1>p DEF Reap
    <3>3. pids' \subseteq Commands
      BY <1>5, <1>t DEF Reap, TypeOK, Forget
    <3>4. count > 0 /\ count' = count - 1 /\ count \in 0..N
      BY <1>5, <1>t DEF Reap, TypeOK
    <3> QED
      BY <3>1, <3>2, <3>3, <3>4
  <2>5. /\ start \in Tables /\ noPipe \in BOOLEAN
        /\ i \in 1..(N + 1) /\ ran \subseteq Commands /\ strangers \in 0..1
        /\ buffer \in [Commands -> 0..Capacity] /\ busy \in [Commands -> BOOLEAN]
        /\ mem \in [0..N -> Memories]
    BY <1>t, <1>p DEF TypeOK
  <2>6. UNCHANGED <<start, noPipe, phase, i, mem, strangers, ran, buffer, busy>>
        /\ phase = "wait"
    BY <1>5 DEF Reap, kernel
  <2> QED
    BY <2>1, <2>3, <2>4, <2>5, <2>6 DEF TypeInv, TypeOK, Memories, WaitStatuses
<1>6. CASE ReapStranger
  <2>0. strangers > 0 /\ strangers' = strangers - 1 /\ count' = count
    BY <1>6 DEF ReapStranger, CountAfterStranger
  <2>1. strangers' \in 0..1 /\ count' = count
    <3>1. strangers \in 0..1
      BY <1>t DEF TypeOK
    <3> QED
      BY <2>0, <3>1
  <2>2. UNCHANGED <<start, noPipe, phase, i, pids, ret, mem, fds, state, outcome,
                    ran, buffer, busy>>
    BY <1>6 DEF ReapStranger, kernel
  <2> QED
    BY <2>1, <2>2, <1>t DEF TypeInv, TypeOK
<1>7. ASSUME NEW j \in Commands, Exec(j)
      PROVE  TypeInv'
  <2> DEFINE c == SetUp(j, Calls(fds[j]))
  <2>1. mem[j] \in Memories /\ Calls(fds[j]) \in States
    BY <1>t, <1>p DEF Calls, States
  <2>2. c \in States
    BY <2>1, SetUpType
  <2> HIDE DEF c
  <2>3. fds' = [fds EXCEPT ![j] = c.table]
    BY <1>7 DEF Exec, c
  <2>4. fds' \in [0..N -> Tables]
    BY <2>2, <2>3, <1>t DEF TypeOK, States
  <2> QED
    BY <1>7, <1>t, <2>4 DEF Exec, TypeInv, TypeOK, parent, kernel
<1>8. ASSUME NEW j \in Commands, NEW how \in WaitStatuses, End({j}, how),
             UNCHANGED <<start, noPipe, parent, mem, ran, kernel>>
      PROVE  TypeInv'
  <2>1. /\ state' \in [Commands -> {"none", "forked", "running", "ended", "reaped"}]
        /\ outcome' \in [Commands -> WaitStatuses]
        /\ fds' \in [0..N -> Tables]
    BY <1>8, <1>t, EndType
  <2> QED
    BY <1>8, <1>t, <2>1 DEF TypeInv, TypeOK, parent, kernel, WaitStatuses
<1>9. ASSUME buffer' \in [Commands -> 0..Capacity],
             busy' \in [Commands -> BOOLEAN],
             UNCHANGED <<fds, state, outcome>>,
             UNCHANGED <<start, noPipe, parent, mem, ran>>
      PROVE  TypeInv'
  BY <1>9, <1>t DEF TypeInv, TypeOK, parent
<1>10. ASSUME NEW j \in Commands, ExecFails(j)
       PROVE  TypeInv'
  <2>1. Exited(EXEC_FAILED_EXIT_STATUS) \in WaitStatuses
        /\ Exited(FATAL_ERROR_EXIT_CODE) \in WaitStatuses
    BY <1>e DEF EXEC_FAILED_EXIT_STATUS, FATAL_ERROR_EXIT_CODE
  <2> QED
    BY <1>10, <1>8, <2>1 DEF ExecFails
<1>b. buffer \in [Commands -> 0..Capacity] /\ Capacity \in Nat
  BY <1>t DEF TypeOK
<1>11. ASSUME NEW j \in Commands, Read(j)
       PROVE  TypeInv'
  <2> DEFINE n == fds[j][0].n
  <2>1. CASE End({j}, Exited(IF fds[j][0] = Closed /\ j # 1 THEN 1 ELSE 0))
             /\ UNCHANGED kernel
    <3>1. Exited(0) \in WaitStatuses /\ Exited(1) \in WaitStatuses
      BY <1>e
    <3> QED
      BY <1>11, <1>8, <2>1, <3>1 DEF Read
  <2>2. CASE /\ fds[j][0].end = "read" => buffer[n] > 0
             /\ buffer' = IF fds[j][0].end = "read"
                          THEN [buffer EXCEPT ![n] = @ - 1] ELSE buffer
             /\ busy' = [busy EXCEPT ![j] = TRUE]
             /\ UNCHANGED <<fds, state, outcome>>
    <3>1. fds[j][0].end = "read" => buffer[n] > 0
      BY <1>11, <2>2 DEF Read, ReadReturns
    <3>2. \A x \in Commands : buffer[x] > 0 => buffer[x] - 1 \in 0..Capacity
      BY <1>b
    <3>3. buffer' \in [Commands -> 0..Capacity]
      BY <2>2, <3>1, <3>2, <1>b
    <3>4. busy' \in [Commands -> BOOLEAN]
      BY <2>2, <1>t DEF TypeOK
    <3> QED
      BY <1>11, <2>2, <3>3, <3>4, <1>9 DEF Read
  <2> QED
    BY <1>11, <2>1, <2>2 DEF Read
<1>12. ASSUME NEW j \in Commands, Write(j)
       PROVE  TypeInv'
  <2> DEFINE n == fds[j][1].n
  <2>1. CASE End({j}, IF fds[j][1].end = "write" \/ fds[j][1].end = "inherited"
                      THEN KilledBy(SIGPIPE) ELSE Exited(1))
             /\ UNCHANGED kernel
    <3>1. KilledBy(SIGPIPE) \in WaitStatuses /\ Exited(1) \in WaitStatuses
      BY <1>e DEF SIGPIPE
    <3> QED
      BY <1>12, <1>8, <2>1, <3>1 DEF Write
  <2>2. CASE /\ fds[j][1].end = "write" => Held(ReadEnd(n))
             /\ buffer' = IF fds[j][1].end = "write"
                          THEN [buffer EXCEPT ![n] = @ + 1] ELSE buffer
             /\ busy' = [busy EXCEPT ![j] = FALSE]
             /\ UNCHANGED <<fds, state, outcome>>
    <3>1. fds[j][1].end = "write" => buffer[n] < Capacity
      BY <1>12, <2>2 DEF Write, WriteReturns
    <3>2. \A x \in Commands : buffer[x] < Capacity => buffer[x] + 1 \in 0..Capacity
      BY <1>b
    <3>3. buffer' \in [Commands -> 0..Capacity]
      BY <2>2, <3>1, <3>2, <1>b
    <3>4. busy' \in [Commands -> BOOLEAN]
      BY <2>2, <1>t DEF TypeOK
    <3> QED
      BY <1>12, <2>2, <3>3, <3>4, <1>9 DEF Write
  <2> QED
    BY <1>12, <2>1, <2>2 DEF Write
<1>13. ASSUME NEW j \in Commands, Quit(j)
       PROVE  TypeInv'
  <2>1. /\ \A status \in ExitStatuses : Exited(status) \in WaitStatuses
        /\ \A signal \in Signals : KilledBy(signal) \in WaitStatuses
    BY <1>e
  <2>2. ASSUME NEW status \in ExitStatuses, End({j}, Exited(status))
        PROVE  TypeInv'
    BY <1>13, <1>8, <2>1, <2>2 DEF Quit
  <2>3. ASSUME NEW signal \in Signals, End({j}, KilledBy(signal))
        PROVE  TypeInv'
    BY <1>13, <1>8, <2>1, <2>3 DEF Quit
  <2> QED
    BY <1>13, <2>2, <2>3 DEF Quit
<1>14. CASE UNCHANGED vars
  BY <1>14 DEF TypeInv, TypeOK, vars, parent, kernel
<1> QED
  BY <1>1, <1>2, <1>3, <1>4, <1>5, <1>6, <1>7, <1>10, <1>11, <1>12, <1>13, <1>14
     DEF Next, Groff, Command

-----------------------------------------------------------------------------
(* The plumbing.                                                           *)

\* Where groff is in its loop tells what its descriptors are; a command that
\* has not set up its own yet has those of groff at its fork.
ForkInv ==
    StartOpen =>
        /\ phase = "start" => Inherits(i, mem[0]) /\ fds[0] = Before(i, mem[0])
        /\ phase = "forked" => /\ Inherits(i, mem[0]) /\ HasPipe(i, mem[0])
                               /\ fds[0] = After(i, mem[0])
        /\ \A j \in Commands :
              state[j] = "forked" => /\ Inherits(j, mem[j]) /\ HasPipe(j, mem[j])
                                     /\ fds[j] = After(j, mem[j])

PlumbInv == TypeInv /\ ForkInv /\ Plumbed

\* The plumbing is right at the start, when there is none.
LEMMA StartPlumbed == Init => ForkInv /\ Plumbed
  BY PipelineAssumption
     DEF Init, ForkInv, Plumbed, Inherits, Before, Follows, Commands

\* What a table is to be depends on how groff was started alone.
LEMMA TablesStay ==
    ASSUME UNCHANGED <<start, noPipe>>, NEW j, NEW m
    PROVE  /\ StartOpen' <=> StartOpen
           /\ Inherits(j, m)' <=> Inherits(j, m)
           /\ HasPipe(j, m)' <=> HasPipe(j, m)
           /\ Before(j, m)' = Before(j, m)
           /\ After(j, m)' = After(j, m)
           /\ Intended(j)' = Intended(j)
BY DEF StartOpen, Inherits, HasPipe, Before, After, Intended, Follows, Piped

\* A step that leaves the descriptors of groff alone, and at most ends some
\* commands, does not disturb the plumbing.
LEMMA EndingKeeps ==
    ASSUME PlumbInv, UNCHANGED <<start, noPipe, mem, i>>, phase' = phase,
           fds'[0] = fds[0],
           \A j \in Commands : \/ state'[j] = state[j] /\ fds'[j] = fds[j]
                               \/ state'[j] \in {"ended", "reaped"}
    PROVE  ForkInv' /\ Plumbed'
<1>1. \A j \in Commands : state'[j] \in {"forked", "running"}
                             => state'[j] = state[j] /\ fds'[j] = fds[j]
  OBVIOUS
<1>2. ForkInv'
  BY <1>1, TablesStay DEF PlumbInv, ForkInv
<1>3. Plumbed'
  BY <1>1, TablesStay DEF PlumbInv, Plumbed
<1> QED
  BY <1>2, <1>3

\* groff starts a command.
LEMMA SpawnKeeps == PlumbInv /\ Spawn => ForkInv' /\ Plumbed'
<1> SUFFICES ASSUME PlumbInv, Spawn PROVE ForkInv' /\ Plumbed'
  OBVIOUS
<1>1. /\ TypeOK /\ phase = "start" /\ i \in Commands
      /\ UNCHANGED <<start, noPipe, i>>
  BY DEF PlumbInv, TypeInv, Spawn
<1>2. /\ mem \in [0..N -> Memories] /\ fds \in [0..N -> Tables]
      /\ state \in [Commands -> {"none", "forked", "running", "ended", "reaped"}]
      /\ start \in Tables /\ 0 \in 0..N /\ 0 \notin Commands
      /\ Commands \subseteq 0..N /\ mem[0] \in Memories
  <2>1. /\ start \in Tables
        /\ state \in [Commands -> {"none", "forked", "running", "ended", "reaped"}]
    BY <1>1 DEF TypeOK
  <2> QED
    BY <1>1, <2>1, TypeParts
<1>3. PICK m, t : /\ Fork(m, t)
                  /\ StartOpen => /\ Inherits(i, m) /\ HasPipe(i, m)
                                  /\ t = After(i, m)
  <2>1. StartOpen => Inherits(i, mem[0]) /\ fds[0] = Before(i, mem[0])
    BY <1>1 DEF PlumbInv, ForkInv
  <2>2. CASE Piped(i) /\ CanPipe(fds[0])
    <3> DEFINE m == [mem[0] EXCEPT !.r = PipeFds.r, !.w = PipeFds.w]
    <3>1. Fork(m, WithPipe(m))
      BY <2>2 DEF Spawn
    <3>2. m.last = mem[0].last /\ m.r = PipeFds.r /\ m.w = PipeFds.w
      BY <1>2 DEF Memories
    <3>3. ASSUME StartOpen
          PROVE  /\ Inherits(i, m) /\ HasPipe(i, m)
                 /\ WithPipe(m) = After(i, m)
      <4>1. Before(i, m) = fds[0] /\ Inherits(i, m)
        BY <2>1, <3>2, <3>3 DEF Before, Inherits
      <4>2. /\ PipeFds.r = Lowest(fds[0])
            /\ PipeFds.w = Lowest([fds[0] EXCEPT ![PipeFds.r] = ReadEnd(i)])
        BY DEF PipeFds
      <4>3. /\ PipeFds.r \in Free(start) /\ PipeFds.w \in Free(start)
            /\ PipeFds.r # PipeFds.w
            /\ Follows(i) => mem[0].last # PipeFds.r /\ mem[0].last # PipeFds.w
        <5>1. fds[0] = Before(i, mem[0]) /\ Inherits(i, mem[0])
              /\ CanPipe(Before(i, mem[0]))
          BY <2>1, <2>2, <3>3
        <5> QED
          BY <5>1, <4>2, <1>1, <1>2, PipeTakesFree
      <4>4. HasPipe(i, m)
        BY <4>3, <3>2 DEF HasPipe
      <4>5. WithPipe(m) = After(i, m)
        BY <4>1, <2>2 DEF WithPipe, After
      <4> QED
        BY <4>1, <4>4, <4>5
    <3> QED
      BY <3>1, <3>3
  <2>3. CASE ~Piped(i)
    <3>1. Fork(mem[0], fds[0])
      BY <2>3 DEF Spawn
    <3> QED
      BY <3>1, <2>1, <2>3 DEF HasPipe, After
  <2> QED
    BY <2>2, <2>3 DEF Spawn
<1>4. /\ mem'[0] = m /\ mem'[i] = m /\ fds'[0] = t /\ fds'[i] = t
      /\ state'[i] = "forked" /\ phase' = "forked"
      /\ \A j \in Commands : j # i => /\ mem'[j] = mem[j] /\ fds'[j] = fds[j]
                                      /\ state'[j] = state[j]
  BY <1>1, <1>2, <1>3 DEF Fork
<1>5. ForkInv'
  BY <1>1, <1>3, <1>4, TablesStay DEF PlumbInv, ForkInv
<1>6. Plumbed'
  BY <1>1, <1>4, TablesStay DEF PlumbInv, Plumbed
<1> QED
  BY <1>5, <1>6

\* groff records the command and closes what it has no use for.
LEMMA RecordKeeps == PlumbInv /\ Record => ForkInv' /\ Plumbed'
<1> SUFFICES ASSUME PlumbInv, Record PROVE ForkInv' /\ Plumbed'
  OBVIOUS
<1> DEFINE c == ParentCloses(Calls(fds[0]), mem[0])
<1>1. /\ TypeOK /\ phase = "forked" /\ i \in Commands
      /\ UNCHANGED <<start, noPipe, state>>
  BY DEF PlumbInv, TypeInv, Record
<1>2. /\ mem \in [0..N -> Memories] /\ fds \in [0..N -> Tables]
      /\ start \in Tables /\ 0 \in 0..N /\ 0 \notin Commands
      /\ Commands \subseteq 0..N /\ mem[0] \in Memories
      /\ N \in Nat /\ i \in Nat
  <2>1. start \in Tables
    BY <1>1 DEF TypeOK
  <2> QED
    BY <1>1, <2>1, TypeParts
<1>3. CASE ~StartOpen
  BY <1>1, <1>3, TablesStay DEF ForkInv, Plumbed, StartOpen
<1>4. CASE StartOpen
  <2>1. Inherits(i, mem[0]) /\ HasPipe(i, mem[0]) /\ fds[0] = After(i, mem[0])
    BY <1>1, <1>4 DEF PlumbInv, ForkInv
  <2> DEFINE m == [mem[0] EXCEPT !.last = mem[0].r]
  <2>2. /\ c.ok
        /\ Piped(i) => /\ c.table = Before(i + 1, m) /\ Inherits(i + 1, m)
        /\ ~Piped(i) => c.table = start
    BY <1>1, <1>2, <1>4, <2>1, ParentClosesWorks
  <2>3. /\ fds' = [fds EXCEPT ![0] = c.table]
        /\ mem' = [mem EXCEPT ![0].last = IF Piped(i) THEN mem[0].r ELSE @]
        /\ i' = i + 1
        /\ phase' = IF IsLast(i) THEN "wait" ELSE "start"
    BY <2>2 DEF Record
  <2> HIDE DEF c
  <2>4. /\ fds'[0] = c.table
        /\ mem'[0] = IF Piped(i) THEN m ELSE mem[0]
        /\ \A j \in Commands : mem'[j] = mem[j] /\ fds'[j] = fds[j]
    BY <2>3, <1>2 DEF Memories
  <2>5. phase' = "start" => Inherits(i', mem'[0]) /\ fds'[0] = Before(i', mem'[0])
    <3>1. CASE Piped(i)
      BY <3>1, <2>2, <2>3, <2>4
    <3>2. CASE ~Piped(i)
      <4>1. phase' = "start" => noPipe /\ ~Follows(i) /\ ~Follows(i + 1)
        BY <3>2, <2>3 DEF IsLast, Piped, Follows
      <4> QED
        BY <4>1, <3>2, <2>1, <2>2, <2>3, <2>4 DEF Inherits, Before
    <3> QED
      BY <3>1, <3>2
  <2>6. phase' = "wait" => fds'[0] = start
    <3>1. phase' = "wait" => ~Piped(i)
      BY <2>3 DEF IsLast, Piped
    <3> QED
      BY <3>1, <2>2, <2>4
  <2>7. phase' # "forked"
    BY <2>3
  <2>8. ForkInv'
    BY <1>1, <1>4, <2>4, <2>5, <2>7, TablesStay DEF PlumbInv, ForkInv
  <2>9. Plumbed'
    BY <1>1, <1>4, <2>4, <2>6, TablesStay DEF PlumbInv, Plumbed
  <2> QED
    BY <2>8, <2>9
<1> QED
  BY <1>3, <1>4

\* A command gets its descriptors.
LEMMA ExecKeeps ==
    ASSUME PlumbInv, NEW j \in Commands, Exec(j)
    PROVE  ForkInv' /\ Plumbed'
<1> DEFINE c == SetUp(j, Calls(fds[j]))
<1>1. /\ TypeOK /\ state[j] = "forked"
      /\ state' = [state EXCEPT ![j] = "running"]
      /\ fds' = [fds EXCEPT ![j] = c.table]
      /\ UNCHANGED <<start, noPipe, phase, i, mem>>
  BY DEF PlumbInv, TypeInv, Exec, parent
<1>2. /\ start \in Tables /\ 0 \notin Commands /\ Commands \subseteq 0..N
      /\ 0 \in 0..N /\ mem[j] \in Memories
      /\ fds \in [0..N -> Tables] /\ DOMAIN state = Commands
  <2>1. start \in Tables /\ DOMAIN state = Commands
    BY <1>1 DEF TypeOK
  <2> QED
    BY <1>1, <2>1, TypeParts
<1>3. StartOpen => c.table = Intended(j)
  <2>1. StartOpen => /\ Inherits(j, mem[j]) /\ HasPipe(j, mem[j])
                     /\ fds[j] = After(j, mem[j])
    BY <1>1 DEF PlumbInv, ForkInv
  <2>2. StartOpen => c = Calls(Intended(j))
    BY <1>2, <2>1, SetUpWorks
  <2> QED
    BY <2>2 DEF Calls
<1> HIDE DEF c
<1>4. /\ fds'[0] = fds[0] /\ fds'[j] = c.table /\ state'[j] = "running"
      /\ \A k \in Commands : k # j => fds'[k] = fds[k] /\ state'[k] = state[k]
  BY <1>1, <1>2
<1>5. ForkInv'
  BY <1>1, <1>4, TablesStay DEF PlumbInv, ForkInv
<1>6. Plumbed'
  <2> SUFFICES ASSUME StartOpen
               PROVE  /\ \A k \in Commands : state'[k] = "running"
                                                => fds'[k] = Intended(k)
                      /\ phase' = "wait" => fds'[0] = start
    BY <1>1, TablesStay DEF Plumbed, StartOpen
  <2>1. \A k \in Commands : state[k] = "running" => fds[k] = Intended(k)
    BY DEF PlumbInv, Plumbed, StartOpen
  <2>2. phase = "wait" => fds[0] = start
    BY DEF PlumbInv, Plumbed, StartOpen
  <2> QED
    BY <1>1, <1>3, <1>4, <2>1, <2>2
<1> QED
  BY <1>5, <1>6

\* groff stops: it has died, or returns.
LEMMA StoppingKeeps ==
    ASSUME PlumbInv, UNCHANGED <<start, noPipe, mem, i, state>>,
           phase' \in {"fatal", "returned"},
           fds' = [fds EXCEPT ![0] = NoFiles]
    PROVE  ForkInv' /\ Plumbed'
<1>1. \A j \in Commands : fds'[j] = fds[j] /\ state'[j] = state[j]
  BY TypeParts DEF PlumbInv, TypeInv
<1>2. ForkInv'
  BY <1>1, TablesStay DEF PlumbInv, ForkInv
<1>3. Plumbed'
  BY <1>1, TablesStay DEF PlumbInv, Plumbed
<1> QED
  BY <1>2, <1>3

\* Every step keeps the plumbing.
LEMMA StepPlumbed == PlumbInv /\ [Next]_vars => ForkInv' /\ Plumbed'
<1> SUFFICES ASSUME PlumbInv, [Next]_vars PROVE ForkInv' /\ Plumbed'
  OBVIOUS
<1>t. TypeOK /\ 0 \in 0..N /\ Commands \subseteq 0..N /\ 0 \notin Commands
  BY TypeParts DEF PlumbInv, TypeInv
<1>1. CASE Spawn
  BY <1>1, SpawnKeeps
<1>2. CASE SpawnFails
  BY <1>2, StoppingKeeps DEF SpawnFails, Fatal
<1>3. CASE Record
  BY <1>3, RecordKeeps
<1>4. CASE Return
  BY <1>4, StoppingKeeps DEF Return
<1>5. ASSUME NEW j \in Commands, Reap(j)
      PROVE  ForkInv' /\ Plumbed'
  <2>1. PICK killed \in SUBSET Commands :
           /\ state' = [k \in Commands |-> IF k = j THEN "reaped"
                                           ELSE IF k \in killed THEN "ended"
                                           ELSE state[k]]
           /\ fds' = [k \in 0..N |-> IF k \in killed THEN NoFiles ELSE fds[k]]
    <3> DEFINE K == IF IsLast(j) /\ outcome[j] = KilledBy(SIGPIPE)
                    THEN {k \in pids' : state[k] \in {"forked", "running"}}
                    ELSE {}
    <3>1. K \in SUBSET Commands
      BY <1>5, <1>t DEF Reap, Forget, TypeOK
    <3>2. /\ state' = [k \in Commands |-> IF k = j THEN "reaped"
                                          ELSE IF k \in K THEN "ended"
                                          ELSE state[k]]
          /\ fds' = [k \in 0..N |-> IF k \in K THEN NoFiles ELSE fds[k]]
      BY <1>5 DEF Reap
    <3> HIDE DEF K
    <3> QED
      BY <3>1, <3>2
  <2>2. /\ fds'[0] = fds[0]
        /\ \A k \in Commands : \/ state'[k] = state[k] /\ fds'[k] = fds[k]
                               \/ state'[k] \in {"ended", "reaped"}
    BY <2>1, <1>t
  <2>3. UNCHANGED <<start, noPipe, mem, i>> /\ phase' = phase
    BY <1>5 DEF Reap
  <2> QED
    BY <2>2, <2>3, EndingKeeps
<1>6. CASE ReapStranger
  BY <1>6, EndingKeeps DEF ReapStranger
<1>7. ASSUME NEW j \in Commands, Exec(j)
      PROVE  ForkInv' /\ Plumbed'
  BY <1>7, ExecKeeps
<1>8. ASSUME NEW j \in Commands, NEW how, End({j}, how),
             UNCHANGED <<start, noPipe, parent, mem>>
      PROVE  ForkInv' /\ Plumbed'
  <2>1. /\ fds'[0] = fds[0]
        /\ \A k \in Commands : \/ state'[k] = state[k] /\ fds'[k] = fds[k]
                               \/ state'[k] \in {"ended", "reaped"}
    BY <1>8, <1>t DEF End
  <2> QED
    BY <1>8, <2>1, EndingKeeps DEF parent
<1>9. ASSUME UNCHANGED <<fds, state, start, noPipe, parent, mem>>
      PROVE  ForkInv' /\ Plumbed'
  BY <1>9, EndingKeeps DEF parent
<1>10. ASSUME NEW j \in Commands, ExecFails(j)
       PROVE  ForkInv' /\ Plumbed'
  BY <1>8, <1>10 DEF ExecFails
<1>11. ASSUME NEW j \in Commands, Read(j)
       PROVE  ForkInv' /\ Plumbed'
  BY <1>8, <1>9, <1>11 DEF Read
<1>12. ASSUME NEW j \in Commands, Write(j)
       PROVE  ForkInv' /\ Plumbed'
  BY <1>8, <1>9, <1>12 DEF Write
<1>13. ASSUME NEW j \in Commands, Quit(j)
       PROVE  ForkInv' /\ Plumbed'
  BY <1>8, <1>13 DEF Quit
<1>14. CASE UNCHANGED vars
  BY <1>9, <1>14 DEF vars
<1> QED
  BY <1>1, <1>2, <1>3, <1>4, <1>5, <1>6, <1>7, <1>10, <1>11, <1>12, <1>13, <1>14
     DEF Next, Groff, Command

-----------------------------------------------------------------------------
(* The pids.                                                               *)

\* While groff starts commands it has reaped none, and has recorded those
\* before the one it is at.
PidInv ==
    /\ PidsAreLive
    /\ phase \in {"start", "forked"} => \A j \in Commands : state[j] # "reaped"

\* Every step keeps the recorded pids those of commands not reaped.
LEMMA StepPids == TypeInv /\ PidInv /\ [Next]_vars => PidInv'
<1> SUFFICES ASSUME TypeInv, PidInv, [Next]_vars PROVE PidInv'
  OBVIOUS
<1>t. TypeOK /\ pids \subseteq Commands /\ DOMAIN state = Commands
      /\ (phase \in {"start", "forked"} => i \in Commands)
  BY DEF TypeInv, TypeOK
<1>1. CASE Spawn
  <2>1. PICK m, t : Fork(m, t)
    BY <1>1 DEF Spawn
  <2>2. state' = [state EXCEPT ![i] = "forked"] /\ pids' = pids /\ i \in Commands
        /\ phase = "start"
    BY <1>1, <1>t, <2>1 DEF Spawn, Fork
  <2> QED
    BY <2>2, <1>t DEF PidInv, PidsAreLive
<1>2. CASE SpawnFails
  BY <1>2 DEF SpawnFails, Fatal, PidInv, PidsAreLive
<1>3. CASE Record
  <2>1. state' = state /\ i \in Commands /\ phase = "forked"
        /\ (pids' = pids \cup {i} \/ pids' = pids)
    BY <1>3, <1>t DEF Record
  <2> QED
    BY <2>1, <1>t DEF PidInv, PidsAreLive
<1>4. CASE Return
  BY <1>4 DEF Return, PidInv, PidsAreLive
<1>5. ASSUME NEW j \in Commands, Reap(j)
      PROVE  PidInv'
  <2>1. /\ phase' = "wait" /\ pids' = pids \ {j}
        /\ \A k \in Commands : k # j => state'[k] = state[k] \/ state'[k] = "ended"
    BY <1>5 DEF Reap, Forget
  <2> QED
    BY <2>1, <1>t DEF PidInv, PidsAreLive
<1>6. CASE ReapStranger
  BY <1>6 DEF ReapStranger, PidInv, PidsAreLive
<1>7. ASSUME NEW j \in Commands, Exec(j)
      PROVE  PidInv'
  <2>1. state' = [state EXCEPT ![j] = "running"] /\ UNCHANGED <<phase, pids>>
    BY <1>7 DEF Exec, parent
  <2> QED
    BY <2>1, <1>t DEF PidInv, PidsAreLive
<1>8. ASSUME NEW j \in Commands, NEW how, End({j}, how), UNCHANGED parent
      PROVE  PidInv'
  <2>1. /\ UNCHANGED <<phase, pids>>
        /\ \A k \in Commands : state'[k] = state[k] \/ state'[k] = "ended"
    BY <1>8 DEF End, parent
  <2> QED
    BY <2>1, <1>t DEF PidInv, PidsAreLive
<1>9. ASSUME UNCHANGED <<state, parent>>
      PROVE  PidInv'
  BY <1>9 DEF PidInv, PidsAreLive, parent
<1>10. ASSUME NEW j \in Commands, Command(j) \/ Quit(j)
       PROVE  PidInv'
  BY <1>7, <1>8, <1>9, <1>10 DEF Command, ExecFails, Read, Write, Quit
<1>11. CASE UNCHANGED vars
  BY <1>9, <1>11 DEF vars
<1> QED
  BY <1>1, <1>2, <1>3, <1>4, <1>5, <1>6, <1>10, <1>11 DEF Next, Groff

-----------------------------------------------------------------------------
(* Who holds what, how commands end, and what groff makes of it.           *)

Gone == {"none", "ended", "reaped"}

\* Nobody who does not exist holds an end of a pipe, and who was given none
\* by groff has none; and groff starts the commands in their order.
HeldInv ==
    /\ \A d \in Fds : start[d].end \notin {"read", "write"}
    /\ phase \in {"fatal", "returned"} => fds[0] = NoFiles
    /\ \A j \in Commands : state[j] \in Gone => fds[j] = NoFiles
    /\ phase = "start" => \A j \in Commands : state[j] = "none" <=> j >= i
    /\ phase = "forked" => \A j \in Commands : state[j] = "none" <=> j > i
    /\ phase \in {"wait", "returned"} => \A j \in Commands : state[j] # "none"

Unreaped == {j \in Commands : state[j] # "reaped"}

\* groff has counted and summarised the commands it has reaped.
ReapInv ==
    /\ count = Cardinality(Unreaped)
    /\ phase = "returned" => count = 0
    /\ \A b : b \in ret <=>
                 \E j \in Commands : state[j] = "reaped" /\ b \in Bits(outcome[j])

\* A command that was executed does not exit with the status that says it was
\* not, and one that was not exits with that one or is killed.
Ends(j, how, executed) ==
    \/ how.how = "signal"
    \/ IF j \in executed
       THEN how.how = "exit" /\ how.value # EXEC_FAILED_EXIT_STATUS
       ELSE how = Exited(EXEC_FAILED_EXIT_STATUS)

StatusesApart == EXEC_FAILED_EXIT_STATUS \notin ExitStatuses

OutcomeInv ==
    StartOpen /\ StatusesApart =>
        \A j \in Commands :
            /\ state[j] \in {"none", "forked"} => j \notin ran
            /\ state[j] = "running" => j \in ran
            /\ state[j] \in {"ended", "reaped"} => Ends(j, outcome[j], ran)

\* A step that leaves groff where it is, and starts or ends commands that
\* exist.
LEMMA HeldKeeps ==
    ASSUME HeldInv, UNCHANGED <<start, phase, i>>, fds'[0] = fds[0],
           \A j \in Commands :
              \/ state'[j] = state[j] /\ fds'[j] = fds[j]
              \/ /\ state[j] # "none" /\ state'[j] \in {"ended", "reaped"}
                 /\ fds'[j] = NoFiles
              \/ state[j] = "forked" /\ state'[j] = "running"
    PROVE  HeldInv'
BY DEF HeldInv, Gone

\* A step that reaps nobody.
LEMMA ReapKeeps ==
    ASSUME ReapInv, UNCHANGED <<count, ret>>,
           phase' = "returned" => phase = "returned" \/ count = 0,
           \A j \in Commands :
              /\ state'[j] = "reaped" <=> state[j] = "reaped"
              /\ state[j] = "reaped" => outcome'[j] = outcome[j]
    PROVE  ReapInv'
<1>1. Unreaped' = Unreaped
  BY DEF Unreaped
<1> QED
  BY <1>1 DEF ReapInv

\* What may become of a command in a step.
LEMMA OutcomeKeeps ==
    ASSUME OutcomeInv, UNCHANGED start,
           StartOpen /\ StatusesApart =>
             \A j \in Commands :
              \/ /\ state'[j] = state[j] /\ outcome'[j] = outcome[j]
                 /\ j \in ran' <=> j \in ran
              \/ /\ state[j] = "ended" /\ state'[j] = "reaped"
                 /\ outcome'[j] = outcome[j]
                 /\ j \in ran' <=> j \in ran
              \/ state'[j] = "ended" /\ Ends(j, outcome'[j], ran')
              \/ /\ state[j] = "none" /\ state'[j] = "forked"
                 /\ j \in ran' <=> j \in ran
              \/ state'[j] = "running" /\ j \in ran'
    PROVE  OutcomeInv'
BY DEF OutcomeInv, StartOpen, Ends

EndInv == HeldInv /\ ReapInv /\ OutcomeInv

PipelineInv == PlumbInv /\ PidInv /\ EndInv

LEMMA StartEnds == Init => EndInv
<1> SUFFICES ASSUME Init PROVE EndInv
  OBVIOUS
<1>1. N \in Nat /\ Commands \subseteq Nat /\ 0 \notin Commands
      /\ \A j \in Commands : j >= 1
  BY PipelineAssumption DEF Commands
<1>2. \A d \in Fds : start[d].end \notin {"read", "write"}
  BY DEF Init, Inherited, Closed, File
<1>3. HeldInv
  BY <1>1, <1>2, PipelineAssumption DEF Init, HeldInv, Gone, Commands
<1>4. ReapInv
  <2>1. Unreaped = 1..N
    BY DEF Init, Unreaped, Commands
  <2>2. Cardinality(1..N) = N
    BY <1>1, PipelineAssumption, FS_Interval
  <2> QED
    BY <2>1, <2>2 DEF Init, ReapInv
<1>5. OutcomeInv
  BY DEF Init, OutcomeInv
<1> QED
  BY <1>3, <1>4, <1>5 DEF EndInv

\* A command that runs, or is about to, ends.
LEMMA EndingEnds ==
    ASSUME PipelineInv, NEW j \in Commands, state[j] \in {"forked", "running"},
           NEW how, End({j}, how),
           StartOpen /\ StatusesApart => Ends(j, how, ran),
           UNCHANGED <<start, parent, ran>>
    PROVE  EndInv'
<1>1. /\ 0 \notin Commands /\ Commands \subseteq 0..N /\ 0 \in 0..N
      /\ EndInv
  BY TypeParts DEF PipelineInv, PlumbInv, TypeInv
<1>2. /\ fds'[0] = fds[0]
      /\ state'[j] = "ended" /\ outcome'[j] = how /\ fds'[j] = NoFiles
      /\ \A k \in Commands : k # j => /\ state'[k] = state[k] /\ fds'[k] = fds[k]
                                      /\ outcome'[k] = outcome[k]
  BY <1>1 DEF End
<1>3. HeldInv'
  <2>1. \A k \in Commands :
           \/ state'[k] = state[k] /\ fds'[k] = fds[k]
           \/ /\ state[k] # "none" /\ state'[k] \in {"ended", "reaped"}
              /\ fds'[k] = NoFiles
    BY <1>2
  <2> QED
    BY <1>1, <1>2, <2>1, HeldKeeps DEF EndInv, parent
<1>4. ReapInv'
  <2>1. \A k \in Commands :
           /\ state'[k] = "reaped" <=> state[k] = "reaped"
           /\ state[k] = "reaped" => outcome'[k] = outcome[k]
    BY <1>2
  <2> QED
    BY <1>1, <2>1, ReapKeeps DEF EndInv, parent
<1>5. OutcomeInv'
  BY <1>1, <1>2, OutcomeKeeps DEF EndInv
<1> QED
  BY <1>3, <1>4, <1>5 DEF EndInv

\* A step that is none of a command's life.
LEMMA NobodyEnds ==
    ASSUME EndInv, UNCHANGED <<start, fds, state, outcome, ran, phase, i, count, ret>>
    PROVE  EndInv'
<1>1. HeldInv'
  BY HeldKeeps DEF EndInv
<1>2. ReapInv'
  BY ReapKeeps DEF EndInv
<1>3. OutcomeInv'
  BY OutcomeKeeps DEF EndInv
<1> QED
  BY <1>1, <1>2, <1>3 DEF EndInv

\* What groff does before it waits, and when it stops.
LEMMA GroffEnds ==
    ASSUME PipelineInv, Spawn \/ SpawnFails \/ Record \/ Return
    PROVE  EndInv'
<1>1. /\ EndInv /\ TypeOK /\ 0 \notin Commands /\ Commands \subseteq Nat
      /\ 0 \in 0..N /\ DOMAIN fds = 0..N /\ DOMAIN state = Commands
      /\ Commands \subseteq 0..N /\ N \in Nat
      /\ (phase \in {"start", "forked"} => i \in Commands)
  BY TypeParts DEF PipelineInv, PlumbInv, TypeInv, TypeOK
<1>2. CASE Spawn
  <2>1. PICK m, t : Fork(m, t)
    BY <1>2 DEF Spawn
  <2>2. /\ phase = "start" /\ phase' = "forked" /\ i \in Commands
        /\ UNCHANGED <<start, i, count, ret, outcome, ran>>
        /\ state[i] = "none" /\ state'[i] = "forked"
        /\ \A j \in Commands : j # i => state'[j] = state[j] /\ fds'[j] = fds[j]
    BY <1>1, <1>2, <2>1 DEF Spawn, Fork, EndInv, HeldInv
  <2>3. HeldInv'
    <3>1. \A j \in Commands : state'[j] = "none" <=> j > i
      <4>1. i \in Nat
        BY <1>1, <2>2
      <4>2. \A j \in Nat : j > i <=> j >= i /\ j # i
        BY <4>1
      <4>3. \A j \in Commands : state[j] = "none" <=> j >= i
        BY <1>1, <2>2 DEF EndInv, HeldInv
      <4> QED
        BY <1>1, <2>2, <4>2, <4>3
    <3> QED
      BY <1>1, <2>2, <3>1 DEF EndInv, HeldInv, Gone
  <2>4. ReapInv'
    BY <1>1, <2>2, ReapKeeps DEF EndInv
  <2>5. OutcomeInv'
    BY <1>1, <2>2, OutcomeKeeps DEF EndInv
  <2> QED
    BY <2>3, <2>4, <2>5 DEF EndInv
<1>3. ASSUME UNCHANGED <<start, count, ret, outcome, ran, state>>,
             phase' # "returned", HeldInv'
      PROVE  EndInv'
  <2>1. ReapInv'
    BY <1>1, <1>3, ReapKeeps DEF EndInv
  <2>2. OutcomeInv'
    BY <1>1, <1>3, OutcomeKeeps DEF EndInv
  <2> QED
    BY <1>3, <2>1, <2>2 DEF EndInv
<1>4. ASSUME Fatal, UNCHANGED <<start, state>>
      PROVE  HeldInv' /\ phase' # "returned"
  BY <1>1, <1>4 DEF Fatal, EndInv, HeldInv
<1>5. CASE SpawnFails
  BY <1>3, <1>4, <1>5 DEF SpawnFails
<1>6. CASE Record
  <2>1. UNCHANGED <<start, count, ret, outcome, ran, state>> /\ phase = "forked"
    BY <1>6 DEF Record
  <2>2. CASE Fatal
    BY <1>3, <1>4, <2>1, <2>2
  <2>3. CASE /\ fds' = [fds EXCEPT ![0] = ParentCloses(Calls(fds[0]), mem[0]).table]
             /\ i' = i + 1
             /\ phase' = IF IsLast(i) THEN "wait" ELSE "start"
    <3>1. \A j \in Commands : fds'[j] = fds[j] /\ state'[j] = state[j]
      BY <1>1, <2>1, <2>3
    <3>2. \A j \in Commands : state[j] = "none" <=> j >= i'
      <4>0. i \in Nat
        BY <1>1, <2>1
      <4>1. i' = i + 1 /\ \A j \in Nat : j >= i + 1 <=> j > i
        BY <2>3, <4>0
      <4>2. \A j \in Commands : state[j] = "none" <=> j > i
        BY <1>1, <2>1 DEF EndInv, HeldInv
      <4> QED
        BY <1>1, <4>0, <4>1, <4>2
    <3>3. IsLast(i) => \A j \in Commands : state[j] # "none"
      BY <1>1, <2>3, <3>2 DEF IsLast, Commands
    <3>4. HeldInv'
      BY <1>1, <2>1, <2>3, <3>1, <3>2, <3>3 DEF EndInv, HeldInv
    <3> QED
      BY <1>3, <2>1, <2>3, <3>4
  <2> QED
    BY <1>6, <2>2, <2>3 DEF Record
<1>7. CASE Return
  <2>1. /\ UNCHANGED <<start, count, ret, outcome, ran, state>>
        /\ phase = "wait" /\ phase' = "returned" /\ count = 0
        /\ fds' = [fds EXCEPT ![0] = NoFiles]
    BY <1>7 DEF Return
  <2>2. HeldInv'
    BY <1>1, <2>1 DEF EndInv, HeldInv
  <2>3. ReapInv'
    BY <1>1, <2>1, ReapKeeps DEF EndInv
  <2>4. OutcomeInv'
    BY <1>1, <2>1, OutcomeKeeps DEF EndInv
  <2> QED
    BY <2>2, <2>3, <2>4 DEF EndInv
<1> QED
  BY <1>2, <1>5, <1>6, <1>7

\* wait returns for a command.
LEMMA ReapingEnds ==
    ASSUME PipelineInv, NEW j \in Commands, Reap(j)
    PROVE  EndInv'
<1>1. /\ EndInv /\ TypeOK /\ 0 \notin Commands /\ Commands \subseteq 0..N
      /\ 0 \in 0..N /\ N \in Nat /\ count \in 0..N
  BY TypeParts DEF PipelineInv, PlumbInv, TypeInv, TypeOK
<1>2. PICK killed \in SUBSET (Commands \ {j}) :
         /\ \A k \in killed : state[k] \in {"forked", "running"}
         /\ state' = [k \in Commands |-> IF k = j THEN "reaped"
                                         ELSE IF k \in killed THEN "ended"
                                         ELSE state[k]]
         /\ outcome' = [k \in Commands |-> IF k \in killed
                                           THEN KilledBy(SIGPIPE)
                                           ELSE outcome[k]]
         /\ fds' = [k \in 0..N |-> IF k \in killed THEN NoFiles ELSE fds[k]]
  <2> DEFINE K == IF IsLast(j) /\ outcome[j] = KilledBy(SIGPIPE)
                  THEN {k \in pids' : state[k] \in {"forked", "running"}}
                  ELSE {}
  <2>1. K \in SUBSET (Commands \ {j})
    BY <1>1 DEF Reap, Forget, TypeOK
  <2>2. \A k \in K : state[k] \in {"forked", "running"}
    OBVIOUS
  <2>3. /\ state' = [k \in Commands |-> IF k = j THEN "reaped"
                                        ELSE IF k \in K THEN "ended"
                                        ELSE state[k]]
        /\ outcome' = [k \in Commands |-> IF k \in K THEN KilledBy(SIGPIPE)
                                          ELSE outcome[k]]
        /\ fds' = [k \in 0..N |-> IF k \in K THEN NoFiles ELSE fds[k]]
    BY DEF Reap
  <2> HIDE DEF K
  <2> QED
    BY <2>1, <2>2, <2>3
<1>3. /\ state[j] = "ended" /\ phase = "wait"
      /\ UNCHANGED <<start, phase, i, ran>>
      /\ count > 0 /\ count' = count - 1 /\ ret' = ret \cup Bits(outcome[j])
  BY DEF Reap
<1>4. /\ fds'[0] = fds[0] /\ state'[j] = "reaped" /\ outcome'[j] = outcome[j]
      /\ fds'[j] = fds[j]
      /\ \A k \in killed : /\ state'[k] = "ended" /\ fds'[k] = NoFiles
                           /\ outcome'[k] = KilledBy(SIGPIPE)
      /\ \A k \in Commands \ (killed \cup {j}) :
             /\ state'[k] = state[k] /\ fds'[k] = fds[k]
             /\ outcome'[k] = outcome[k]
  BY <1>1, <1>2
<1>5. HeldInv'
  <2>1. fds'[j] = NoFiles
    BY <1>1, <1>3, <1>4 DEF EndInv, HeldInv, Gone
  <2>2. \A k \in Commands :
           \/ state'[k] = state[k] /\ fds'[k] = fds[k]
           \/ /\ state[k] # "none" /\ state'[k] \in {"ended", "reaped"}
              /\ fds'[k] = NoFiles
    BY <1>2, <1>3, <1>4, <2>1
  <2> QED
    BY <1>1, <1>3, <1>4, <2>2, HeldKeeps DEF EndInv
<1>6. ReapInv'
  <2>1. Unreaped' = Unreaped \ {j} /\ j \in Unreaped
    BY <1>2, <1>3, <1>4 DEF Unreaped
  <2>2. IsFiniteSet(Unreaped)
    <3>1. IsFiniteSet(Commands)
      BY <1>1, FS_Interval DEF Commands
    <3> QED
      BY <3>1, FS_Subset DEF Unreaped
  <2>3. count' = Cardinality(Unreaped')
    BY <1>1, <1>3, <2>1, <2>2, FS_RemoveElement DEF EndInv, ReapInv
  <2>4. \A b : b \in ret' <=>
                  \E k \in Commands : state'[k] = "reaped" /\ b \in Bits(outcome'[k])
    <3>1. \A k \in Commands \ {j} :
             /\ state'[k] = "reaped" <=> state[k] = "reaped"
             /\ state[k] = "reaped" => outcome'[k] = outcome[k]
      BY <1>2, <1>4
    <3> QED
      BY <1>1, <1>3, <1>4, <3>1 DEF EndInv, ReapInv
  <2> QED
    BY <1>3, <2>3, <2>4 DEF ReapInv
<1>7. OutcomeInv'
  <2>1. \A k \in Commands : \A r : Ends(k, KilledBy(SIGPIPE), r)
    BY DEF Ends, KilledBy
  <2> QED
    BY <1>1, <1>3, <1>4, <2>1, OutcomeKeeps DEF EndInv
<1> QED
  BY <1>5, <1>6, <1>7 DEF EndInv

\* What a command does.
LEMMA CommandEnds ==
    ASSUME PipelineInv, NEW j \in Commands, Command(j) \/ Quit(j)
    PROVE  EndInv'
<1>1. /\ EndInv /\ TypeOK /\ 0 \notin Commands /\ Commands \subseteq 0..N
      /\ 0 \in 0..N /\ DOMAIN state = Commands /\ DOMAIN fds = 0..N
      /\ start \in Tables /\ mem[j] \in Memories
  BY TypeParts DEF PipelineInv, PlumbInv, TypeInv, TypeOK
<1>2. /\ \A signal : Ends(j, KilledBy(signal), ran)
      /\ (StartOpen /\ StatusesApart /\ state[j] = "running") =>
            \A status : status # EXEC_FAILED_EXIT_STATUS
                           => Ends(j, Exited(status), ran)
  BY <1>1 DEF Ends, KilledBy, Exited, EndInv, OutcomeInv
<1>3. CASE Exec(j)
  <2>1. /\ state[j] = "forked" /\ state'[j] = "running"
        /\ fds'[0] = fds[0] /\ ran' = ran \cup {j}
        /\ UNCHANGED <<start, parent, outcome>>
        /\ \A k \in Commands : k # j => state'[k] = state[k] /\ fds'[k] = fds[k]
    BY <1>1, <1>3 DEF Exec
  <2>2. HeldInv'
    BY <1>1, <2>1, HeldKeeps DEF EndInv, parent
  <2>3. ReapInv'
    BY <1>1, <2>1, ReapKeeps DEF EndInv, parent
  <2>4. OutcomeInv'
    BY <1>1, <2>1, OutcomeKeeps DEF EndInv
  <2> QED
    BY <2>2, <2>3, <2>4 DEF EndInv
<1>4. CASE ExecFails(j)
  <2> DEFINE how == IF SetUp(j, Calls(fds[j])).ok
                    THEN Exited(EXEC_FAILED_EXIT_STATUS)
                    ELSE Exited(FATAL_ERROR_EXIT_CODE)
  <2>1. state[j] = "forked" /\ End({j}, how) /\ UNCHANGED <<start, parent, ran>>
    BY <1>4 DEF ExecFails
  <2>2. StartOpen /\ StatusesApart => Ends(j, how, ran)
    <3> SUFFICES ASSUME StartOpen, StatusesApart PROVE Ends(j, how, ran)
      OBVIOUS
    <3>1. /\ Inherits(j, mem[j]) /\ HasPipe(j, mem[j])
          /\ fds[j] = After(j, mem[j])
      BY <2>1 DEF PipelineInv, PlumbInv, ForkInv
    <3>2. SetUp(j, Calls(fds[j])) = Calls(Intended(j))
      BY <1>1, <3>1, SetUpWorks
    <3>3. how = Exited(EXEC_FAILED_EXIT_STATUS)
      BY <3>2 DEF Calls
    <3>4. j \notin ran
      BY <1>1, <2>1 DEF EndInv, OutcomeInv
    <3> QED
      BY <3>3, <3>4 DEF Ends
  <2> HIDE DEF how
  <2> QED
    BY <2>1, <2>2, EndingEnds
<1>5. ASSUME state[j] = "running", UNCHANGED <<start, parent, ran>>,
             NEW how, End({j}, how),
             StartOpen /\ StatusesApart => Ends(j, how, ran)
      PROVE  EndInv'
  BY <1>5, EndingEnds
<1>6. ASSUME UNCHANGED <<start, parent, ran, fds, state, outcome>>
      PROVE  EndInv'
  BY <1>1, <1>6, NobodyEnds DEF parent
<1>7. CASE Read(j)
  <2>1. StartOpen /\ StatusesApart =>
           Ends(j, Exited(IF fds[j][0] = Closed /\ j # 1 THEN 1 ELSE 0), ran)
    BY <1>2, <1>7 DEF Read, EXEC_FAILED_EXIT_STATUS
  <2> QED
    BY <1>5, <1>6, <1>7, <2>1 DEF Read
<1>8. CASE Write(j)
  <2>1. StartOpen /\ StatusesApart =>
           Ends(j, IF fds[j][1].end = "write" \/ fds[j][1].end = "inherited"
                   THEN KilledBy(SIGPIPE) ELSE Exited(1), ran)
    BY <1>2, <1>8 DEF Write, EXEC_FAILED_EXIT_STATUS
  <2> QED
    BY <1>5, <1>6, <1>8, <2>1 DEF Write
<1>9. CASE Quit(j)
  <2>1. ASSUME NEW status \in ExitStatuses, End({j}, Exited(status))
        PROVE  EndInv'
    <3>1. StartOpen /\ StatusesApart => Ends(j, Exited(status), ran)
      BY <1>2, <1>9 DEF Quit, StatusesApart
    <3> QED
      BY <1>5, <1>9, <2>1, <3>1 DEF Quit
  <2>2. ASSUME NEW signal \in Signals, End({j}, KilledBy(signal))
        PROVE  EndInv'
    BY <1>2, <1>5, <1>9, <2>2 DEF Quit
  <2> QED
    BY <1>9, <2>1, <2>2 DEF Quit
<1> QED
  BY <1>3, <1>4, <1>7, <1>8, <1>9 DEF Command

\* Every step keeps the invariant.
LEMMA StepEnds ==
    ASSUME PipelineInv, [Next]_vars
    PROVE  PipelineInv'
<1>1. PlumbInv' /\ PidInv'
  BY StepType, StepPlumbed, StepPids DEF PipelineInv, PlumbInv
<1>2. EndInv
  BY DEF PipelineInv
<1>3. CASE ReapStranger
  <2>1. UNCHANGED <<start, fds, state, outcome, ran, phase, i, count, ret>>
    BY <1>3 DEF ReapStranger, CountAfterStranger
  <2> QED
    BY <1>1, <1>2, <2>1, NobodyEnds DEF PipelineInv
<1>4. CASE UNCHANGED vars
  <2>1. UNCHANGED <<start, fds, state, outcome, ran, phase, i, count, ret>>
    BY <1>4 DEF vars, parent
  <2> QED
    BY <1>1, <1>2, <2>1, NobodyEnds DEF PipelineInv
<1>5. CASE Spawn \/ SpawnFails \/ Record \/ Return
  BY <1>1, <1>5, GroffEnds DEF PipelineInv
<1>6. ASSUME NEW j \in Commands, Reap(j) PROVE PipelineInv'
  BY <1>1, <1>6, ReapingEnds DEF PipelineInv
<1>7. ASSUME NEW j \in Commands, Command(j) \/ Quit(j) PROVE PipelineInv'
  BY <1>1, <1>7, CommandEnds DEF PipelineInv
<1> QED
  BY <1>3, <1>4, <1>5, <1>6, <1>7 DEF Next, Groff

LEMMA PipelineHolds == Spec => []PipelineInv
<1>1. Init => PipelineInv
  <2>1. Init => PidInv
    BY DEF Init, PidInv, PidsAreLive
  <2> QED
    BY <2>1, StartType, StartPlumbed, StartEnds DEF PipelineInv, PlumbInv
<1>2. PipelineInv /\ [Next]_vars => PipelineInv'
  BY StepEnds
<1> QED
  BY <1>1, <1>2, PTL DEF Spec

-----------------------------------------------------------------------------
(* Nobody is stuck.                                                        *)

\* A set of commands that is not empty has a first and a last.
LEMMA FirstAndLast ==
    ASSUME NEW J \in SUBSET Commands, J # {}
    PROVE  /\ \E j \in J : \A k \in J : j <= k
           /\ \E j \in J : \A k \in J : k <= j
<1>1. N \in Nat /\ J \in SUBSET Nat /\ \A j \in J : j <= N
  BY PipelineAssumption DEF Commands
<1>2. ASSUME NEW D \in SUBSET Nat, D # {}
      PROVE  \E d \in D : \A e \in D : d <= e
  <2>1. \E d \in D : \A e \in D : ~ (<<e, d>> \in OpToRel(<, Nat))
    BY <1>2, WFMin, NatLessThanWellFounded
  <2>2. \A d \in D, e \in D : ~ (<<e, d>> \in OpToRel(<, Nat)) => d <= e
    BY DEF OpToRel
  <2> QED
    BY <2>1, <2>2
<1>3. \E j \in J : \A k \in J : j <= k
  BY <1>1, <1>2
<1>4. \E j \in J : \A k \in J : k <= j
  <2> DEFINE D == {N - j : j \in J}
  <2>1. D \in SUBSET Nat /\ D # {}
    <3>1. \A j \in J : N - j \in Nat
      BY <1>1
    <3> QED
      BY <3>1
  <2>2. PICK d \in D : \A e \in D : d <= e
    BY <1>2, <2>1
  <2>3. PICK j \in J : d = N - j
    BY <2>2
  <2>4. \A k \in J : N - j <= N - k
    BY <2>2, <2>3
  <2> QED
    BY <1>1, <2>3, <2>4
<1> QED
  BY <1>3, <1>4

\* Once groff has started all commands, or has died, the ends of a pipe are
\* held by the two commands beside it, if no command is about to be executed.
LEMMA HoldersAre ==
    ASSUME PipelineInv, StartOpen, phase \in {"wait", "fatal"},
           \A j \in Commands : state[j] # "forked", NEW n \in Nat
    PROVE  /\ Held(ReadEnd(n)) =>
                  n + 1 \in Commands /\ state[n + 1] = "running"
           /\ Held(WriteEnd(n)) => n \in Commands /\ state[n] = "running"
<1>1. /\ TypeOK /\ HeldInv /\ N \in Nat /\ Commands \subseteq Nat
      /\ 0..N = {0} \cup Commands
  BY TypeParts DEF PipelineInv, PlumbInv, TypeInv, EndInv, Commands
<1>2. \A d \in Fds : /\ start[d] # ReadEnd(n) /\ start[d] # WriteEnd(n)
                     /\ NoFiles[d] # ReadEnd(n) /\ NoFiles[d] # WriteEnd(n)
  BY <1>1 DEF HeldInv, ReadEnd, WriteEnd, File, NoFiles, Closed
<1>3. fds[0] = start \/ fds[0] = NoFiles
  BY <1>1 DEF HeldInv, PipelineInv, PlumbInv, Plumbed, StartOpen
<1>4. \A j \in Commands :
         fds[j] = NoFiles \/ (state[j] = "running" /\ fds[j] = Intended(j))
  BY <1>1, ZenonT(30)
  DEF HeldInv, Gone, PipelineInv, PlumbInv, Plumbed, StartOpen, TypeOK
<1>5. ASSUME NEW j \in 0..N, NEW d \in Fds,
             fds[j][d] \in {ReadEnd(n), WriteEnd(n)}
      PROVE  j \in Commands /\ state[j] = "running" /\ Intended(j)[d] = fds[j][d]
  BY <1>1, <1>2, <1>3, <1>4, <1>5
<1>6. \A j \in Commands, d \in Fds :
         /\ Intended(j)[d] = ReadEnd(n) => j = n + 1
         /\ Intended(j)[d] = WriteEnd(n) => j = n
  BY <1>1, <1>2 DEF Intended, ReadEnd, WriteEnd, File
<1>7. ASSUME Held(ReadEnd(n))
      PROVE  n + 1 \in Commands /\ state[n + 1] = "running"
  <2>1. PICK j \in 0..N, d \in Fds : fds[j][d] = ReadEnd(n)
    BY <1>7 DEF Held
  <2> QED
    BY <1>5, <1>6, <2>1
<1>8. ASSUME Held(WriteEnd(n)) PROVE n \in Commands /\ state[n] = "running"
  <2>1. PICK j \in 0..N, d \in Fds : fds[j][d] = WriteEnd(n)
    BY <1>8 DEF Held
  <2> QED
    BY <1>5, <1>6, <2>1
<1> QED
  BY <1>7, <1>8

\* A command that waits to write waits for its successor to read, and one that
\* waits to read for its predecessor to write.
LEMMA WaitsAre ==
    ASSUME PipelineInv, StartOpen, NEW j \in Commands, state[j] = "running",
           ~CommandGoes(j)
    PROVE  IF busy[j] THEN buffer[j] = Capacity /\ Held(ReadEnd(j))
           ELSE /\ j - 1 \in Commands /\ buffer[j - 1] = 0
                /\ Held(WriteEnd(j - 1))
<1>1. /\ TypeOK /\ HeldInv /\ N \in Nat /\ Commands \subseteq Nat
      /\ 0 \in Fds /\ 1 \in Fds /\ fds[j] = Intended(j)
  BY TypeParts, FdsAreNat
     DEF PipelineInv, PlumbInv, TypeInv, EndInv, Plumbed, StartOpen
<1>2. start[0].end # "read" /\ start[1].end # "write"
  BY <1>1 DEF HeldInv
<1>3. CASE busy[j]
  <2>1. /\ fds[j][1].end = "write" /\ ~(buffer[fds[j][1].n] < Capacity)
        /\ Held(ReadEnd(fds[j][1].n))
    BY <1>3 DEF CommandGoes, WriteReturns
  <2>2. fds[j][1] = IF Piped(j) THEN WriteEnd(j) ELSE start[1]
    BY <1>1 DEF Intended
  <2>3. fds[j][1].n = j
    BY <1>2, <2>1, <2>2 DEF WriteEnd, File
  <2>4. buffer[j] \in 0..Capacity /\ Capacity \in Nat
    BY <1>1, PipelineAssumption DEF TypeOK
  <2> QED
    BY <1>3, <2>1, <2>3, <2>4
<1>4. CASE ~busy[j]
  <2>1. /\ fds[j][0].end = "read" /\ ~(buffer[fds[j][0].n] > 0)
        /\ Held(WriteEnd(fds[j][0].n))
    BY <1>4 DEF CommandGoes, ReadReturns
  <2>2. fds[j][0] = IF j # 1 /\ ~noPipe THEN ReadEnd(j - 1) ELSE start[0]
    BY <1>1 DEF Intended
  <2>3. fds[j][0].n = j - 1 /\ j # 1
    BY <1>2, <2>1, <2>2 DEF ReadEnd, File
  <2>4. j - 1 \in Commands
    BY <1>1, <2>3 DEF Commands
  <2>5. buffer[j - 1] \in 0..Capacity
    BY <1>1, <2>4 DEF TypeOK
  <2> QED
    BY <1>4, <2>1, <2>3, <2>4, <2>5
<1> QED
  BY <1>3, <1>4

\* The last command that waits to write would wait for one that waits to read
\* what there is; and the first of those that wait to read, for nobody.
LEMMA SomeoneGoes ==
    ASSUME PipelineInv, StartOpen, phase \in {"wait", "fatal"},
           \A j \in Commands : ~CommandGoes(j)
    PROVE  \A j \in Commands : state[j] # "running" /\ state[j] # "forked"
<1>1. \A j \in Commands : state[j] # "forked"
  BY DEF CommandGoes
<1>2. Commands \subseteq Nat /\ Capacity \in Nat \ {0}
  BY PipelineAssumption DEF Commands
<1> DEFINE R == {j \in Commands : state[j] = "running"}
           B == {j \in R : busy[j]}
<1>3. B = {}
  <2> SUFFICES ASSUME B # {} PROVE FALSE
    OBVIOUS
  <2>1. PICK k \in B : \A j \in B : j <= k
    BY FirstAndLast
  <2>2. buffer[k] = Capacity /\ Held(ReadEnd(k))
    BY <2>1, WaitsAre
  <2>3. k + 1 \in R
    BY <1>1, <1>2, <2>1, <2>2, HoldersAre
  <2>4. k + 1 \notin B
    BY <1>2, <2>1
  <2>5. buffer[(k + 1) - 1] = 0
    BY <2>3, <2>4, WaitsAre
  <2> QED
    BY <1>2, <2>1, <2>2, <2>5
<1>4. R = {}
  <2> SUFFICES ASSUME R # {} PROVE FALSE
    OBVIOUS
  <2>1. PICK k \in R : \A j \in R : k <= j
    BY FirstAndLast
  <2>2. k - 1 \in Commands /\ Held(WriteEnd(k - 1))
    BY <1>3, <2>1, WaitsAre
  <2>3. k - 1 \in R
    BY <1>1, <1>2, <2>2, HoldersAre
  <2> QED
    BY <1>2, <2>1, <2>3
<1> QED
  BY <1>1, <1>4

\* When nobody is counted any more, all were reaped.
LEMMA CountedOut ==
    ASSUME PipelineInv, count = 0
    PROVE  \A j \in Commands : state[j] = "reaped"
<1>1. count = Cardinality(Unreaped)
  BY DEF PipelineInv, EndInv, ReapInv
<1>2. N \in Nat
  BY PipelineAssumption
<1>3. IsFiniteSet(Commands)
  BY <1>2, FS_Interval DEF Commands
<1>4. IsFiniteSet(Unreaped)
  BY <1>3, FS_Subset DEF Unreaped
<1>5. Unreaped = {}
  BY <1>1, <1>4, FS_EmptySet
<1> QED
  BY <1>5 DEF Unreaped

LEMMA NobodyIsStuck == PipelineInv /\ StartOpen => NoneIsStuck
<1> SUFFICES ASSUME PipelineInv, StartOpen, ~GroffGoes,
                    \A j \in Commands : ~CommandGoes(j)
             PROVE  AllOver
  BY DEF NoneIsStuck
<1>1. /\ phase \in {"wait", "returned", "fatal"}
      /\ state \in [Commands -> {"none", "forked", "running", "ended", "reaped"}]
      /\ count \in Nat
  <2>1. TypeOK /\ phase \notin {"start", "forked"}
    BY DEF GroffGoes, PipelineInv, PlumbInv, TypeInv
  <2>2. phase \in {"wait", "returned", "fatal"}
    BY <2>1 DEF TypeOK
  <2>3. state \in [Commands -> {"none", "forked", "running", "ended", "reaped"}]
    BY <2>1 DEF TypeOK
  <2>4. count \in Nat
    <3>1. count \in 0..N
      BY <2>1 DEF TypeOK
    <3> QED
      BY <3>1
  <2> QED
    BY <2>2, <2>3, <2>4
<1>2. CASE phase = "returned"
  <2>1. count = 0
    BY <1>2 DEF PipelineInv, EndInv, ReapInv
  <2> QED
    BY <1>2, <2>1, CountedOut DEF AllOver
<1>3. CASE phase = "fatal"
  BY <1>1, <1>3, SomeoneGoes DEF AllOver
<1>4. CASE phase = "wait"
  <2>1. \A j \in Commands : state[j] = "reaped"
    <3>1. \A j \in Commands : state[j] # "running" /\ state[j] # "forked"
      BY <1>4, SomeoneGoes
    <3>2. \A j \in Commands : state[j] # "none"
      BY <1>4 DEF PipelineInv, EndInv, HeldInv
    <3>3. \A j \in Commands : state[j] # "ended"
      BY <1>4 DEF GroffGoes
    <3> QED
      BY <1>1, <3>1, <3>2, <3>3
  <2>2. Unreaped = {}
    BY <2>1 DEF Unreaped
  <2>3. count = 0
    BY <2>2, FS_EmptySet DEF PipelineInv, EndInv, ReapInv
  <2> QED
    BY <1>4, <2>3 DEF GroffGoes
<1> QED
  BY <1>1, <1>2, <1>3, <1>4

\* What groff returns is what became of its commands.
LEMMA SummaryIsRight ==
    PipelineInv /\ StartOpen /\ StatusesApart => StatusSummarises
<1> SUFFICES ASSUME PipelineInv, StartOpen, StatusesApart, phase = "returned"
             PROVE  /\ \A j \in Commands : state[j] = "reaped"
                    /\ ret = HowTheyEnded
  BY DEF StatusSummarises
<1>1. \A j \in Commands : state[j] = "reaped"
  BY CountedOut DEF PipelineInv, EndInv, ReapInv
<1>2. \A b : b \in ret <=> \E j \in Commands : b \in Bits(outcome[j])
  BY <1>1 DEF PipelineInv, EndInv, ReapInv
<1>3. \A j \in Commands : Ends(j, outcome[j], ran)
  BY <1>1 DEF PipelineInv, EndInv, OutcomeInv
<1> DEFINE failed(j) == outcome[j].how = "exit" /\ outcome[j].value # 0
<1>4. ASSUME NEW j \in Commands
      PROVE  /\ 1 \in Bits(outcome[j]) <=> failed(j) /\ j \in ran
             /\ 2 \in Bits(outcome[j]) <=> outcome[j].how = "signal"
             /\ 4 \in Bits(outcome[j]) <=> failed(j) /\ j \notin ran
             /\ Bits(outcome[j]) \subseteq {1, 2, 4}
  <2>1. outcome[j] \in WaitStatuses
    BY TypeParts DEF PipelineInv, PlumbInv, TypeInv
  <2>2. outcome[j] = [how |-> outcome[j].how, value |-> outcome[j].value]
    BY <2>1 DEF WaitStatuses
  <2>3. CASE outcome[j].how = "signal"
    <3>1. outcome[j] # Exited(EXEC_FAILED_EXIT_STATUS) /\ outcome[j] # Exited(0)
      BY <2>3 DEF Exited
    <3> QED
      BY <2>3, <3>1 DEF Bits
  <2>4. CASE outcome[j].how = "exit" /\ j \in ran
    <3>1. /\ outcome[j].value # EXEC_FAILED_EXIT_STATUS
          /\ outcome[j] # Exited(EXEC_FAILED_EXIT_STATUS)
      BY <1>3, <2>4 DEF Ends, Exited
    <3>2. outcome[j] = Exited(0) <=> outcome[j].value = 0
      BY <2>2, <2>4 DEF Exited
    <3> QED
      BY <2>4, <3>1, <3>2 DEF Bits
  <2>5. CASE outcome[j].how = "exit" /\ j \notin ran
    <3>1. outcome[j] = Exited(EXEC_FAILED_EXIT_STATUS)
      BY <1>3, <2>5 DEF Ends
    <3> QED
      BY <2>5, <3>1 DEF Bits, Exited, EXEC_FAILED_EXIT_STATUS
  <2>6. outcome[j].how \in {"signal", "exit"}
    BY <1>3 DEF Ends, Exited
  <2> QED
    BY <2>3, <2>4, <2>5, <2>6
<1>5. \A b : b \in ret <=> b \in HowTheyEnded
  <2>1. HowTheyEnded =
           {b \in {1, 2, 4} : \E j \in Commands : b \in Bits(outcome[j])}
    BY <1>4, ZenonT(30) DEF HowTheyEnded
  <2> QED
    BY <1>2, <1>4, <2>1
<1> QED
  BY <1>1, <1>5

-----------------------------------------------------------------------------
\* run_pipeline keeps its memory, its descriptors and its counters within
\* their bounds, however its commands behave.
THEOREM PipelineTyped == Spec => []TypeOK
<1>1. Spec => []TypeInv
  BY StartType, StepType, PTL DEF Spec
<1>2. TypeInv => TypeOK
  BY DEF TypeInv
<1> QED
  BY <1>1, <1>2, PTL

\* Every command reads from its predecessor, writes to its successor and holds
\* no other end of a pipe, and groff holds none when it waits, for any number
\* of commands and any descriptors open when groff was started, if the first
\* two are.
THEOREM CommandsArePlumbed == Spec => []Plumbed
<1>1. Init => PlumbInv
  BY StartType, StartPlumbed DEF PlumbInv
<1>2. PlumbInv /\ [Next]_vars => PlumbInv'
  BY StepType, StepPlumbed DEF PlumbInv
<1>3. PlumbInv => Plumbed
  BY DEF PlumbInv
<1> QED
  BY <1>1, <1>2, <1>3, PTL DEF Spec

\* The pids groff may send a signal to are those of commands it has not
\* reaped, for any number of commands.
THEOREM SignalsHitCommands == Spec => []PidsAreLive
<1> DEFINE PInv == TypeInv /\ PidInv
<1>1. Init => PInv
  <2>1. Init => PidInv
    BY DEF Init, PidInv, PidsAreLive
  <2> QED
    BY <2>1, StartType
<1>2. PInv /\ [Next]_vars => PInv'
  BY StepType, StepPids
<1>3. PInv => PidsAreLive
  BY DEF PidInv
<1> QED
  BY <1>1, <1>2, <1>3, PTL DEF Spec

\* If groff was started with its standard input and output open, groff and its
\* commands never all wait for one another, for any number of commands and any
\* size of pipes, wherever groff is when they end.
THEOREM NobodyWaitsForEver == Spec => [](StartOpen => NoneIsStuck)
BY PipelineHolds, NobodyIsStuck, PTL

\* If moreover no command that was executed exits with the status that stands
\* for "could not be executed", the exit status of groff summarises how its
\* commands have ended, in whatever order they did.
THEOREM StatusIsSummary ==
    Spec => [](StartOpen /\ StatusesApart => StatusSummarises)
BY PipelineHolds, SummaryIsRight, PTL
=============================================================================
