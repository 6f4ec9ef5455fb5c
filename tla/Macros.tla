------------------------------- MODULE Macros -------------------------------
(* Macros, strings and diversions of GNU troff: the objects that their      *)
(* names refer to, and the text that objects share.                         *)
(*                                                                          *)
(* A C++ macro is a pointer to a macro_header, which has characters and     *)
(* nodes, and the length of the part that is its own.  To copy a macro      *)
(* copies the pointer.  Who appends does so in place if nothing follows     *)
(* his part, and on a copy of it if something does; so the others that      *)
(* share the header see nothing of it, as long as they heed their lengths.  *)
(*                                                                          *)
(* There is a macro at every place of memory that has one: at the objects   *)
(* of the request dictionary, in the local variable of a request that       *)
(* defines one, and in every open diversion and iterator on the input stack.*)
EXTENDS Texts, FiniteSets

CONSTANTS
    Names, Objects, Headers,
    NoObject,          \* names nothing
    Request,           \* the object of a name that is a request
    NoHeader, NoDraft, \* the null pointer, and no macro being defined
    Chars, Nodes,      \* the elements of text
    Push, Pop,         \* the tokens that save the compatibility mode and
                       \* restore it
    Upper,             \* cmupper
    Plain,             \* what asciify makes of a node
    Kept,              \* the nodes that unformat keeps
    MaxLength,         \* bound on the length of a text
    MaxInput, MaxOpen, \* bounds on iterators and open diversions
    Extras             \* what the document does, see below

Modes == {Push, Pop}
Elements == Chars \cup Nodes
Cells == Elements \cup Modes

\* Some documents: chop what was chopped until it is empty, chop while
\* another one has the same header, transform the case of nodes, or take a
\* node that follows a mode token into a substring.
ExtraKinds == {"chop of nothing", "chop of shared modes", "case of a node",
               "node after a mode"}

Drafts ==
    [name : Names, object : Objects \cup {NoObject, Request}, comp : BOOLEAN]
DraftTexts ==
    [name : Names, object : Objects \cup {NoObject, Request}, comp : BOOLEAN,
     text : Seq(Cells)]

ASSUME MacrosAssumption ==
    /\ IsFiniteSet(Objects) /\ IsFiniteSet(Names)
    /\ NoObject \notin Objects /\ Request \notin Objects
    /\ NoObject # Request /\ NoHeader \notin Headers
    /\ NoDraft \notin Drafts /\ NoDraft \notin DraftTexts
    /\ Push # Pop /\ Push \notin Elements /\ Pop \notin Elements
    /\ Chars \cap Nodes = {}
    /\ Upper \in [Chars -> Chars] /\ Plain \in [Nodes -> Seq(Chars)]
    /\ Kept \subseteq Nodes
    /\ MaxLength \in Nat /\ MaxInput \in Nat /\ MaxOpen \in Nat
    /\ Extras \subseteq ExtraKinds

VARIABLES
    mem,       \* [count, cells] of every macro_header
    mac,       \* [p, length, empty] of the macro at every place
    names,     \* the request dictionary
    refs,      \* the reference counts of its objects
    draft,     \* [name, object, comp]: other local variables of ds, as, de
               \* or am, while they read the text
    open,      \* the names of the open diversions, the innermost last
    input,     \* how far each iterator is, the topmost last
    aborted    \* an assertion has failed

vars == <<mem, mac, names, refs, draft, open, input, aborted>>

Local == <<"local", 1>>
OpenPlace(i) == <<"diversion", i>>
InputPlace(i) == <<"iterator", i>>
ObjectPlace(o) == <<"object", o>>

Places ==
    {Local} \cup {ObjectPlace(o) : o \in Objects}
        \cup {OpenPlace(i) : i \in 1..MaxOpen}
        \cup {InputPlace(i) : i \in 1..MaxInput}

NoMacro == [p |-> NoHeader, length |-> 0, empty |-> TRUE]
Unused == [count |-> 0, cells |-> <<>>]

Init ==
    /\ mem = [h \in Headers |-> Unused]
    /\ mac = [x \in Places |-> NoMacro]
    /\ names \in [Names -> {Request, NoObject}]
    /\ refs = [o \in Objects |-> 0]
    /\ draft = NoDraft /\ open = <<>> /\ input = <<>> /\ aborted = FALSE

-----------------------------------------------------------------------------
\* Constructors, assignment and destructor of macro, on a store of headers,
\* macros, and the request dictionary.

Store == [mem |-> mem, mac |-> mac, names |-> names, refs |-> refs]

TextOf(s, x) ==
    IF s.mac[x].p = NoHeader THEN <<>>
    ELSE SubSeq(s.mem[s.mac[x].p].cells, 1, s.mac[x].length)

Took(m, h) == IF h = NoHeader THEN m ELSE [m EXCEPT ![h].count = @ + 1]

Dropped(m, h) ==
    IF h = NoHeader THEN m
    ELSE IF m[h].count = 1 THEN [m EXCEPT ![h] = Unused]
    ELSE [m EXCEPT ![h].count = @ - 1]

\* Slip: the header is not counted once more.
AssignUncounted(s, to, from) ==
    [s EXCEPT !.mem = Dropped(@, s.mac[to].p), !.mac[to] = s.mac[from]]

Assign(s, to, from) ==
    [s EXCEPT !.mem = Dropped(Took(@, s.mac[from].p), s.mac[to].p),
              !.mac[to] = s.mac[from]]

Destroy(s, x) ==
    [s EXCEPT !.mem = Dropped(@, s.mac[x].p), !.mac[x] = NoMacro]

HasFree(s) == \E h \in Headers : s.mem[h].count = 0
NewHeader(s) == CHOOSE h \in Headers : s.mem[h].count = 0

\* macro::append, in place or, where the header goes on, on a copy.
Owns(s, x) ==
    /\ s.mac[x].p # NoHeader
    /\ Len(s.mem[s.mac[x].p].cells) = s.mac[x].length

InPlace(s, x, c) ==
    [s EXCEPT !.mem[s.mac[x].p].cells = Append(@, c),
              !.mac[x] = [p |-> @.p, length |-> @.length + 1,
                          empty |-> @.empty /\ c \in Modes]]

\* Slip: macro_header::copy stops one character too soon.
OnCopyShort(s, x, c) ==
    LET h == NewHeader(s)
        t == TextOf(s, x)
    IN  [s EXCEPT !.mem = [Dropped(@, s.mac[x].p) EXCEPT
                     ![h] = [count |-> 1,
                             cells |-> Append(SubSeq(t, 1, Len(t) - 1), c)]],
                  !.mac[x] = [p |-> h, length |-> @.length + 1,
                              empty |-> @.empty /\ c \in Modes]]

OnCopy(s, x, c) ==
    LET h == NewHeader(s)
    IN  [s EXCEPT !.mem = [Dropped(@, s.mac[x].p) EXCEPT
                     ![h] = [count |-> 1, cells |-> Append(TextOf(s, x), c)]],
                  !.mac[x] = [p |-> h, length |-> @.length + 1,
                              empty |-> @.empty /\ c \in Modes]]

\* Slip: what follows in the header is not looked for.
AppendCellUnchecked(s, x, c) ==
    IF s.mac[x].p # NoHeader THEN InPlace(s, x, c) ELSE OnCopy(s, x, c)

AppendCell(s, x, c) ==
    IF Owns(s, x) THEN InPlace(s, x, c) ELSE OnCopy(s, x, c)

\* A new macro to which a text was appended is assigned.
Filled(s, x, text) ==
    LET h == NewHeader(s)
        m == Dropped(s.mem, s.mac[x].p)
    IN  [s EXCEPT !.mem = IF text = <<>> THEN m
                          ELSE [m EXCEPT ![h] = [count |-> 1, cells |-> text]],
                  !.mac[x] = [p |-> IF text = <<>> THEN NoHeader ELSE h,
                              length |-> Len(text),
                              empty |-> \A i \in DOMAIN text : text[i] \in Modes]]

-----------------------------------------------------------------------------
\* object_dictionary: objects live as long as they have a name.

Unnamed(s, o) ==
    IF o \notin Objects THEN s
    ELSE IF s.refs[o] = 1 THEN [Destroy(s, ObjectPlace(o)) EXCEPT !.refs[o] = 0]
    ELSE [s EXCEPT !.refs[o] = @ - 1]

Named(s, o) == IF o \in Objects THEN [s EXCEPT !.refs[o] = @ + 1] ELSE s

Link(s, n, o) == Unnamed([s EXCEPT !.names[n] = o], s.names[n])

Define(s, n, o) == Link(Named(s, o), n, o)

Unlink(s, n) == [s EXCEPT !.names[n] = NoObject]

Renamed(s, a, b) == Link(Unlink(s, a), b, s.names[a])

FreeObjects == {o \in Objects : refs[o] = 0}
NewObject == CHOOSE o \in Objects : refs[o] = 0

\* A macro is moved into the object that n refers to, or into a new one.
Moved(s, x, y) == Destroy(Assign(s, y, x), x)

Stored(s, n, o, x) ==
    IF o \in Objects THEN Moved(s, x, ObjectPlace(o))
    ELSE Define(Moved(s, x, ObjectPlace(NewObject)), n, NewObject)

-----------------------------------------------------------------------------
Becomes(s) ==
    mem' = s.mem /\ mac' = s.mac /\ names' = s.names /\ refs' = s.refs

\* Only text is read while a string or macro is being defined.
Interpreting == ~aborted /\ draft = NoDraft

\* Memory that an action takes is there.
CanAppend(s, x) == Owns(s, x) \/ HasFree(s)
CanStore(o) == o \in Objects \/ FreeObjects # {}

\* lookup_request: a name that is not defined is from then on, as empty.
Dereference(n) ==
    /\ ~aborted /\ names[n] = NoObject /\ FreeObjects # {}
    /\ Becomes(Define(Store, n, NewObject))
    /\ UNCHANGED <<draft, open, input, aborted>>

\* A macro, string or diversion is read.
Interpolate(n) ==
    /\ ~aborted /\ names[n] \in Objects /\ Len(input) < MaxInput
    /\ Becomes(Assign(Store, InputPlace(Len(input) + 1), ObjectPlace(names[n])))
    /\ input' = Append(input, 0) /\ UNCHANGED <<draft, open, aborted>>

Reader == mac[InputPlace(Len(input))]
MoreInput == input # <<>> /\ input[Len(input)] < Reader.length
NextCell == mem[Reader.p].cells[input[Len(input)] + 1]
Advance == input' = [input EXCEPT ![Len(input)] = @ + 1]

\* Input that is interpreted, or a mode token.
Read ==
    /\ ~aborted /\ MoreInput /\ (draft = NoDraft \/ NextCell \in Modes)
    /\ Advance /\ UNCHANGED <<mem, mac, names, refs, draft, open, aborted>>

EndOfInput ==
    /\ ~aborted /\ input # <<>> /\ ~MoreInput
    /\ Becomes(Destroy(Store, InputPlace(Len(input))))
    /\ input' = Front(input) /\ UNCHANGED <<draft, open, aborted>>

\* ds, as, de and am read a text in copy mode, into a local macro.
Original(x, n, append) ==
    IF append /\ names[n] \in Objects THEN Assign(Store, x, ObjectPlace(names[n]))
    ELSE Store

BeginDefinition(n, append, comp) ==
    /\ Interpreting
    /\ LET s == Original(Local, n, append)
       IN  /\ s.mac[Local].length < MaxLength
           /\ comp => CanAppend(s, Local)
           /\ Becomes(IF comp THEN AppendCell(s, Local, Push) ELSE s)
    /\ draft' = [name |-> n, object |-> names[n], comp |-> comp]
    /\ UNCHANGED <<open, input, aborted>>

Collect(c) ==
    /\ ~aborted /\ draft # NoDraft
    /\ mac[Local].length < MaxLength /\ CanAppend(Store, Local)
    /\ \/ input = <<>> /\ c \in Chars /\ UNCHANGED input
       \/ MoreInput /\ NextCell = c /\ Advance
    /\ Becomes(AppendCell(Store, Local, c))
    /\ UNCHANGED <<draft, open, aborted>>

\* The object that was looked up before the text was read.
EndDefinition ==
    /\ ~aborted /\ draft # NoDraft
    /\ draft.comp => CanAppend(Store, Local)
    /\ CanStore(draft.object)
    /\ LET s == IF draft.comp THEN AppendCell(Store, Local, Pop) ELSE Store
       IN  Becomes(Stored(s, draft.name, draft.object, Local))
    /\ draft' = NoDraft /\ UNCHANGED <<open, input, aborted>>

\* The input ends before a macro does.
AbandonDefinition ==
    /\ ~aborted /\ draft # NoDraft /\ input = <<>>
    /\ Becomes(Destroy(Store, Local))
    /\ draft' = NoDraft /\ UNCHANGED <<open, input, aborted>>

\* di and da with a name; what is diverted; and di without one, which looks
\* the name up again.
BeginDiversion(n, append) ==
    /\ Interpreting /\ Len(open) < MaxOpen
    /\ Becomes(Original(OpenPlace(Len(open) + 1), n, append))
    /\ open' = Append(open, n) /\ UNCHANGED <<draft, input, aborted>>

Innermost == OpenPlace(Len(open))

Divert(c) ==
    /\ Interpreting /\ open # <<>>
    /\ mac[Innermost].length < MaxLength /\ CanAppend(Store, Innermost)
    /\ Becomes(AppendCell(Store, Innermost, c))
    /\ UNCHANGED <<draft, open, input, aborted>>

EndDiversion ==
    /\ Interpreting /\ open # <<>>
    /\ LET n == Last(open)
       IN  CanStore(names[n]) /\ Becomes(Stored(Store, n, names[n], Innermost))
    /\ open' = Front(open) /\ UNCHANGED <<draft, input, aborted>>

-----------------------------------------------------------------------------
\* Requests that change the text of an object.

Changes(n) ==
    Interpreting /\ names[n] \in Objects /\ UNCHANGED <<draft, open, input>>

\* An assertion fails.
Abort(kind) ==
    /\ kind \in Extras
    /\ aborted' = TRUE /\ UNCHANGED <<mem, mac, names, refs>>

Continue(s) == Becomes(s) /\ UNCHANGED aborted

\* How much is left without the pairs of mode tokens at the end that have
\* nothing between them.
Unpaired(t) ==
    LET IsPair(i) == t[i] = Push /\ t[i + 1] = Pop
    IN  CHOOSE n \in 0..Len(t) :
            /\ (Len(t) - n) % 2 = 0
            /\ \A i \in (n + 1)..Len(t) : (i - n) % 2 = 1 => IsPair(i)
            /\ n > 1 => ~IsPair(n - 1)

\* The last character goes, and a mode token that is the last of all takes its
\* place in the header; the macro is not marked as empty.
\* Slip: only the mode token goes.
ChopLastCell(s, x, n) == [s EXCEPT !.mac[x].length = @ - 1]

ChopAt(s, x, n) ==
    IF TextOf(s, x)[n] # Pop THEN [s EXCEPT !.mac[x].length = n - 1]
    ELSE [s EXCEPT !.mac[x].length = n - 1,
                   !.mem[s.mac[x].p].cells[n - 1] = Pop]

Chop(n) ==
    LET x == ObjectPlace(names[n])
        t == TextOf(Store, x)
    IN  /\ Changes(n) /\ ~mac[x].empty
        /\ \/ Unpaired(t) = 0 /\ Abort("chop of nothing")
           \/ /\ Unpaired(t) > 0
              /\ (t[Unpaired(t)] = Pop /\ mem[mac[x].p].count > 1) =>
                     "chop of shared modes" \in Extras
              /\ Continue(ChopAt(Store, x, Unpaired(t)))

\* The elements i to j of the text.
Substring(n, i, j) ==
    LET whole == TextOf(Store, ObjectPlace(names[n]))
        t == Selected(whole, Elements)
        follows(k) == k > 1 /\ whole[k] \in Nodes /\ whole[k - 1] \in Modes
        taken(k) == Len(Selected(SubSeq(whole, 1, k), Elements)) \in i..j
        lost == \E k \in DOMAIN whole : follows(k) /\ taken(k)
    IN  /\ Changes(n) /\ i <= j /\ j <= Len(t) /\ HasFree(Store)
        /\ \/ lost /\ Abort("node after a mode")
           \/ ~lost /\ Continue(Filled(Store, ObjectPlace(names[n]), SubSeq(t, i, j)))

Asciify(n) ==
    LET ascii(c) == IF c \in Nodes THEN Plain[c] ELSE <<c>>
        t == TextOf(Store, ObjectPlace(names[n]))
    IN  /\ Changes(n) /\ HasFree(Store)
        /\ Continue(Filled(Store, ObjectPlace(names[n]),
                           FlattenSeq([i \in DOMAIN t |-> ascii(t[i])])))

Unformat(n) ==
    /\ Changes(n) /\ HasFree(Store)
    /\ Continue(Filled(Store, ObjectPlace(names[n]),
                       Selected(TextOf(Store, ObjectPlace(names[n])),
                                Chars \cup Kept \cup Modes)))

\* stringdown and stringup make a new object, whatever other names the old
\* one has.
ChangeCase(n) ==
    LET t == TextOf(Store, ObjectPlace(names[n]))
        changed(c) == IF c \in Chars THEN Upper[c] ELSE c
        new == Filled(Store, ObjectPlace(NewObject), [i \in DOMAIN t |-> changed(t[i])])
    IN  /\ Changes(n) /\ HasFree(Store) /\ FreeObjects # {}
        /\ \/ /\ \E i \in DOMAIN t : t[i] \in Nodes
              /\ Abort("case of a node")
           \/ /\ \A i \in DOMAIN t : t[i] \notin Nodes
              /\ Continue(Define(new, n, NewObject))

\* Requests that change what names refer to.
Rn(a, b) ==
    /\ Interpreting /\ names[a] # NoObject
    /\ Continue(Renamed(Store, a, b))
    /\ UNCHANGED <<draft, open, input>>

Rm(n) ==
    /\ Interpreting /\ Continue(Unnamed(Unlink(Store, n), names[n]))
    /\ UNCHANGED <<draft, open, input>>

Als(a, b) ==
    /\ Interpreting /\ names[b] # NoObject
    /\ Continue(Define(Store, a, names[b]))
    /\ UNCHANGED <<draft, open, input>>

Next ==
    \/ Read \/ EndOfInput \/ EndDefinition \/ AbandonDefinition \/ EndDiversion
    \/ \E c \in Elements : Collect(c) \/ Divert(c)
    \/ \E n \in Names :
          \/ Dereference(n) \/ Interpolate(n) \/ Chop(n) \/ Asciify(n)
          \/ Unformat(n) \/ ChangeCase(n) \/ Rm(n)
          \/ \E append \in BOOLEAN :
                \/ BeginDiversion(n, append)
                \/ \E comp \in BOOLEAN : BeginDefinition(n, append, comp)
          \/ \E i, j \in 1..MaxLength : Substring(n, i, j)
          \/ \E b \in Names : Rn(n, b) \/ Als(n, b)

Spec == Init /\ [][Next]_vars

-----------------------------------------------------------------------------
\* The variables have their types, and what a macro takes for its part of a
\* header is in the header.
TypeOK ==
    /\ mem \in [Headers -> [count : Nat, cells : Seq(Cells)]]
    /\ mac \in [Places -> [p : Headers \cup {NoHeader}, length : Nat,
                           empty : BOOLEAN]]
    /\ names \in [Names -> Objects \cup {NoObject, Request}]
    /\ refs \in [Objects -> Nat]
    /\ \A x \in Places :
          mac[x].length <= IF mac[x].p = NoHeader THEN 0
                           ELSE Len(mem[mac[x].p].cells)
    /\ open \in Seq(Names) /\ Len(open) <= MaxOpen
    /\ input \in Seq(Nat) /\ Len(input) <= MaxInput
    /\ \A i \in DOMAIN input : input[i] <= mac[InputPlace(i)].length
    /\ draft \in {NoDraft} \cup Drafts
    /\ aborted \in BOOLEAN

\* Every header is counted as often as macros point to it, and every object
\* as often as names refer to it; so what is freed is what nobody needs.
CountsAreExact ==
    /\ \A h \in Headers :
          mem[h].count = Cardinality({x \in Places : mac[x].p = h})
    /\ \A o \in Objects :
          refs[o] = Cardinality({n \in Names : names[n] = o})

\* In what is not being defined, every token that saves the compatibility mode
\* has one that restores it, and nothing saves it twice: they alternate, and the
\* last one restores.
LastMode(t, i) ==
    LET before == {k \in 1..(i - 1) : t[k] \in Modes}
    IN  IF before = {} THEN Pop ELSE t[Max(before)]

Balanced(t) ==
    /\ \A i \in DOMAIN t : t[i] \in Modes => t[i] # LastMode(t, i)
    /\ LastMode(t, Len(t) + 1) = Pop

ModesBalance == \A x \in Places \ {Local} : Balanced(TextOf(Store, x))

\* No assertion of the code fails.
NothingAborts == ~aborted

\* The storage pools of names and objects, of which every reader and writer
\* has a copy.
PoolText == [o \in Objects |-> TextOf(Store, ObjectPlace(o))]

PoolDraft ==
    IF draft = NoDraft THEN NoDraft
    ELSE [name |-> draft.name, object |-> draft.object,
          comp |-> draft.comp, text |-> TextOf(Store, Local)]

PoolOpen ==
    [i \in DOMAIN open |->
        [name |-> open[i], text |-> TextOf(Store, OpenPlace(i))]]

PoolInput ==
    [i \in DOMAIN input |->
        LET t == TextOf(Store, InputPlace(i))
        IN  SubSeq(t, input[i] + 1, Len(t))]

Pool == INSTANCE Pools WITH
    text <- PoolText, draft <- PoolDraft, open <- PoolOpen, input <- PoolInput

Implements == Pool!PoolsSpec
=============================================================================
