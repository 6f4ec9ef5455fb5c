------------------------------- MODULE Pools --------------------------------
(* What names, strings, macros and diversions promise: there is a pool of   *)
(* names and a pool of objects, several names may refer to one object, and  *)
(* whoever reads a text, appends to it or collects a new one has a copy of  *)
(* his own until he puts it back.                                           *)
EXTENDS Texts

CONSTANTS
    Names, Objects,
    NoObject, Request, \* what else a name may refer to
    NoDraft,           \* no string is being defined
    Chars, Nodes, Push, Pop,
    Upper, Plain, Kept

VARIABLES
    names,   \* the object of every name
    text,    \* the text of every object that has a name
    draft,   \* [name, object, comp, text] of the string being defined
    open,    \* [name, text] of the diversions being collected
    input    \* what is left of the texts that are read

pvars == <<names, text, draft, open, input>>

HasName(l, o) == \E n \in DOMAIN l : l[n] = o

IsNew(o) == ~HasName(names, o)

\* The pools become l and t, without the objects that have no name.
Pools(l, t) ==
    /\ names' = l
    /\ text' = [o \in Objects |-> IF HasName(l, o) THEN t[o] ELSE <<>>]

Same == UNCHANGED <<names, text>>

\* n gets an object of its own, or the one it has gets another text.
Create(n, t) ==
    \E o \in Objects :
        /\ IsNew(o)
        /\ Pools([names EXCEPT ![n] = o], [text EXCEPT ![o] = t])

Write(o, t) == names' = names /\ text' = [text EXCEPT ![o] = t]

PoolsInit ==
    /\ names \in [Names -> {Request, NoObject}]
    /\ text = [o \in Objects |-> <<>>]
    /\ draft = NoDraft /\ open = <<>> /\ input = <<>>

Dereference(n) ==
    names[n] = NoObject /\ Create(n, <<>>) /\ UNCHANGED <<input, open, draft>>

Interpolate(n) ==
    /\ names[n] \in Objects /\ input' = Append(input, text[names[n]])
    /\ Same /\ UNCHANGED <<open, draft>>

Unread == input[Len(input)]
Advance == input' = [input EXCEPT ![Len(input)] = Tail(@)]

Read ==
    /\ input # <<>> /\ Unread # <<>> /\ Advance
    /\ Same /\ UNCHANGED <<open, draft>>

EndOfInput ==
    /\ input # <<>> /\ Unread = <<>> /\ input' = Front(input)
    /\ Same /\ UNCHANGED <<open, draft>>

Original(n, append) ==
    IF append /\ names[n] \in Objects THEN text[names[n]] ELSE <<>>

BeginDefinition(n, append, comp) ==
    /\ draft = NoDraft
    /\ draft' = [name |-> n, comp |-> comp,
                 object |-> names[n],
                 text |-> IF comp THEN Append(Original(n, append), Push)
                          ELSE Original(n, append)]
    /\ Same /\ UNCHANGED <<input, open>>

Collect(c) ==
    /\ draft # NoDraft /\ draft' = [draft EXCEPT !.text = Append(@, c)]
    /\ \/ input = <<>> /\ c \in Chars /\ UNCHANGED input
       \/ input # <<>> /\ Unread # <<>> /\ c = Head(Unread) /\ Advance
    /\ Same /\ UNCHANGED open

\* The object gets the text, or if there is none, n gets a new one.
Store(n, o, t) == IF o \in Objects THEN Write(o, t) ELSE Create(n, t)

\* The object that the name had when the definition began, under whatever
\* other names it has.
EndDefinition ==
    /\ draft # NoDraft /\ draft' = NoDraft
    /\ Store(draft.name, draft.object,
             IF draft.comp THEN Append(draft.text, Pop) ELSE draft.text)
    /\ UNCHANGED <<input, open>>

AbandonDefinition ==
    /\ draft # NoDraft /\ input = <<>> /\ draft' = NoDraft
    /\ Same /\ UNCHANGED <<input, open>>

BeginDiversion(n, append) ==
    /\ open' = Append(open, [name |-> n, text |-> Original(n, append)])
    /\ Same /\ UNCHANGED <<input, draft>>

Innermost == open[Len(open)]

Divert(c) ==
    /\ open # <<>> /\ open' = [open EXCEPT ![Len(open)].text = Append(@, c)]
    /\ Same /\ UNCHANGED <<input, draft>>

EndDiversion ==
    /\ open # <<>> /\ open' = Front(open)
    /\ Store(Innermost.name, names[Innermost.name], Innermost.text)
    /\ UNCHANGED <<input, draft>>

-----------------------------------------------------------------------------
IsElement(c) == c \in Chars \cup Nodes

\* A text without its last element, where modes stay as they were for the
\* others.
Chopped(t) ==
    LET i == CHOOSE k \in DOMAIN t :
                 /\ IsElement(t[k])
                 /\ \A j \in DOMAIN t : j > k => ~IsElement(t[j])
    IN  SubSeq(t, 1, i - 1)
            \o (IF i < Len(t) /\ t[i + 1] = Pop THEN <<Pop>> ELSE <<>>)

Ascii(c) == IF c \in Nodes THEN Plain[c] ELSE <<c>>
Cased(c) == IF c \in Chars THEN Upper[c] ELSE c

\* The case is changed in a new object.
ChangeText ==
    /\ UNCHANGED <<input, open, draft>>
    /\ \E n \in {m \in Names : names[m] \in Objects} :
          LET o == names[n]
              t == text[o]
              e == Selected(t, Chars \cup Nodes)
          IN  \/ (\E k \in DOMAIN t : IsElement(t[k])) /\ Write(o, Chopped(t))
              \/ \E i \in DOMAIN e : \E j \in i..Len(e) :
                     Write(o, SubSeq(e, i, j))
              \/ Write(o, FlattenSeq([i \in DOMAIN t |-> Ascii(t[i])]))
              \/ Write(o, Selected(t, Chars \cup Kept \cup {Push, Pop}))
              \/ Create(n, [i \in DOMAIN t |-> Cased(t[i])])

Unlink(n) == [names EXCEPT ![n] = NoObject]

ChangeNames ==
    /\ UNCHANGED <<input, open, draft>>
    /\ \E a, b \in Names :
          \/ Pools(Unlink(a), text)
          \/ names[a] # NoObject /\ Pools([Unlink(a) EXCEPT ![b] = names[a]], text)
          \/ names[b] # NoObject /\ Pools([names EXCEPT ![a] = names[b]], text)

PoolsNext ==
    \/ ChangeNames \/ ChangeText
    \/ Read \/ EndOfInput \/ EndDefinition \/ AbandonDefinition \/ EndDiversion
    \/ \E c \in Chars \cup Nodes : Collect(c) \/ Divert(c)
    \/ \E n \in Names :
          \/ Dereference(n) \/ Interpolate(n)
          \/ \E append \in BOOLEAN :
                \/ BeginDiversion(n, append)
                \/ \E comp \in BOOLEAN : BeginDefinition(n, append, comp)

PoolsSpec == PoolsInit /\ [][PoolsNext]_pvars
=============================================================================
