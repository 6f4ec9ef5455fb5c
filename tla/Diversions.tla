----------------------------- MODULE Diversions -----------------------------
(* Diversions, boxes and environments of GNU troff: which line the text of a *)
(* document is collected in, which diversion the line is written to, and how  *)
(* the traps of a diversion, those of input lines and the lines that wait for *)
(* them come between.  A step interprets one input line, of the document or   *)
(* of a macro that a trap calls, which may contain any request; or a token.   *)
(*                                                                            *)
(* A word is one unit wide and a line one unit high.  The page, which Page    *)
(* has in detail, is the outermost diversion here, and a trap of it the next  *)
(* one below.  What becomes of the text of a diversion is told by Macros.     *)
EXTENDS Integers, Sequences, SequencesExt

CONSTANTS
    Envs,          \* the environments
    InitialEnv,    \* the one named 0
    Filled,        \* those that fill, at first
    Width,         \* words on a filled line
    Lengths,       \* into how many parts a word may be hyphenated
    MaxWords,      \* bound on the parts of words
    MaxOpen,       \* bound on the diversions that are begun and the traps
                   \* that are planted or under way, together
    MaxEvs,        \* bound on the environment stack
    Extras         \* what the document does, see below

\* Some documents begin or end a box while lines that were broken before wait
\* for a trap, end a box with di or in another environment, end with text left
\* in a box or an environment, have a macro that does not return to the
\* environment it was called in, or spring a trap in the macro of another one
\* in another environment.
ExtraKinds == {"box and waiting lines", "box ended elsewhere", "text left",
               "macro ends elsewhere", "trap in a trap"}

ASSUME DiversionsAssumption ==
    /\ InitialEnv \in Envs /\ Filled \subseteq Envs /\ Width \in Nat \ {0} /\ Lengths \subseteq Nat \ {0}
    /\ MaxWords \in Nat /\ MaxOpen \in Nat
    /\ MaxEvs \in Nat /\ Extras \subseteq ExtraKinds

VARIABLES
    envs,          \* the environments: [line, width, pending, filling, it]
    cur, evs,      \* curenv and env_stack
    divs,          \* the diversions, curdiv first, the page last
    input,         \* what was pushed onto the input by traps
    traps,         \* trap_accepting_control_character_stack: the environments
                   \* in which the macros were called
    phase,         \* "document", "final break", "done" or "fatal"
    count,         \* words read
    written        \* history: the words that were written

vars == <<envs, cur, evs, divs, input, traps, phase, count, written>>

\* A line is a list of nodes, words and the node that a line starts with; the
\* empty list is a null pointer.
LineStart == 0
WordsOf(line) == SelectSeq(line, LAMBDA w : w # LineStart)

NewEnv(filling) ==
    [line |-> <<>>, width |-> 0, pending |-> <<>>, filling |-> filling,
     it |-> 0]

\* A diversion: what it has set aside and for which environment, and how far
\* its trap is ahead, 0 for none.
Diversion(box, env, e) ==
    [box |-> box, env |-> env, ahead |-> 0,
     line |-> IF box THEN e.line ELSE <<>>, width |-> IF box THEN e.width ELSE 0]

ThePage == Diversion(FALSE, InitialEnv, NewEnv(TRUE))

Init ==
    /\ envs = [e \in Envs |-> NewEnv(e \in Filled)]
    /\ cur = InitialEnv /\ evs = <<>> /\ divs = <<ThePage>>
    /\ input = <<>> /\ traps = <<>> /\ phase = "document"
    /\ count = 0 /\ written = {}

-----------------------------------------------------------------------------
\* What a step changes while it is under way: g has the environments, the
\* diversions, the input, the words written and whether a trap was sprung.

State == [envs |-> envs, divs |-> divs, input |-> input, written |-> written,
          sprung |-> FALSE]

Become(g) ==
    /\ envs' = g.envs /\ divs' = g.divs /\ input' = g.input
    /\ written' = g.written

Env(g) == g.envs[cur]

\* spring_trap
SpringTrap(g) ==
    [g EXCEPT !.sprung = TRUE, !.input = <<"begin trap", "macro", "end trap">> \o @]

\* The next line, or space, reaches the trap, if it is that far ahead.
MoveDown(g) ==
    LET ahead == g.divs[1].ahead
        h     == [g EXCEPT !.divs[1].ahead = IF ahead > 0 THEN ahead - 1 ELSE 0]
    IN  IF ahead = 1 THEN SpringTrap(h) ELSE h

\* macro_diversion::output and top_level_diversion::output
Write(g, line) ==
    MoveDown([g EXCEPT !.written = @ \cup ToSet(WordsOf(line))])

\* environment::output_pending_lines, which stops at a trap.
OutputPending(g) ==
    FoldLeft(LAMBDA h, line :
                IF h.sprung THEN h
                ELSE Write([h EXCEPT !.envs[cur].pending = Tail(@)], line),
             g, Env(g).pending)

\* environment::output.
\* Slip: the lines that wait are not looked at.
OutputAtOnce(g, line) ==
    IF ~g.sprung THEN Write(g, line)
    ELSE [g EXCEPT !.envs[cur].pending = Append(@, line)]

Output(g, line) ==
    LET h == OutputPending(g)
    IN  IF ~h.sprung /\ Env(h).pending = <<>> THEN Write(h, line)
        ELSE [h EXCEPT !.envs[cur].pending = Append(@, line)]

\* environment::start_line
StartLine(e) == [e EXCEPT !.line = <<LineStart>>, !.width = 0]

\* environment::add_char
AddWord(e, n) ==
    LET s == IF e.line = <<>> THEN StartLine(e) ELSE e
    IN  [s EXCEPT !.line = @ \o [i \in 1..n |-> count + i], !.width = @ + n]

\* environment::possibly_break_line: as many full lines as there are.  The
\* first one has the node a line starts with.
PossiblyBreakLine(g) ==
    LET full == (Env(g).width - 1) \div Width
        Break(h, i) ==
            LET e == Env(h)
                n == IF e.line[1] = LineStart THEN Width + 1 ELSE Width
            IN  Output([h EXCEPT !.envs[cur].line = SubSeq(@, n + 1, Len(@)),
                                 !.envs[cur].width = @ - Width],
                       SubSeq(e.line, 1, n))
    IN  FoldLeft(Break, g, [i \in 1..full |-> i])

\* environment::newline, and the trap of the input line.
NewLine(g) ==
    LET h == IF Env(g).filling THEN PossiblyBreakLine(g)
             ELSE Output([g EXCEPT !.envs[cur].line = <<>>], Env(g).line)
    IN  IF Env(h).it = 1 THEN SpringTrap([h EXCEPT !.envs[cur].it = 0])
        ELSE h

\* environment::do_break
DoBreak(g) ==
    IF Env(g).line = <<>> THEN g
    ELSE Output([g EXCEPT !.envs[cur].line = <<>>], Env(g).line)

-----------------------------------------------------------------------------
\* Input lines.

Interpreting == phase \in {"document", "final break"}

\* The next line is one of the document or of a macro a trap calls.
AtLine ==
    Interpreting /\ IF input = <<>> THEN phase = "document"
                    ELSE Head(input) = "macro"

\* A trap that is sprung in the macro of another one makes lines of another
\* environment wait only for who asks for it.
Sheltered(g) ==
    \/ \A i \in DOMAIN traps : i = Len(traps) => traps[i] = cur
    \/ Env(g).pending = <<>> \/ "trap in a trap" \in Extras

Does(g) ==
    /\ AtLine /\ Sheltered(g) /\ Become(g)
    /\ UNCHANGED <<cur, evs, traps, phase>>

Text(n) ==
    /\ count + n <= MaxWords /\ count' = count + n
    /\ Does(NewLine([State EXCEPT !.envs[cur] = AddWord(@, n)]))

Br == Does(DoBreak(State)) /\ UNCHANGED count

\* space_request
Sp ==
    LET g == DoBreak(State)
    IN  Does(IF g.sprung THEN g ELSE MoveDown(g)) /\ UNCHANGED count

Open ==
    Len(divs) - 1 + Cardinality({e \in Envs : envs[e].it = 1}) +
    Cardinality({i \in DOMAIN divs : divs[i].ahead = 1}) +
    Cardinality({i \in DOMAIN input : input[i] = "end trap"})

\* it, and dt or, on the page, wh and ch.
It ==
    /\ Open < MaxOpen
    /\ Does([State EXCEPT !.envs[cur].it = 1]) /\ UNCHANGED count

Dt ==
    /\ Open < MaxOpen
    /\ Does([State EXCEPT !.divs[1].ahead = 1]) /\ UNCHANGED count

\* do_divert with a name: di and da, and box and boxa, which start a line.
SetAside(box, e) == IF box THEN StartLine(e) ELSE e

Divert(box) ==
    LET e == envs[cur]
    IN  /\ AtLine /\ Open < MaxOpen
        /\ box => e.pending = <<>> \/ "box and waiting lines" \in Extras
        /\ divs' = <<Diversion(box, cur, e)>> \o divs
        /\ envs' = [envs EXCEPT ![cur] = SetAside(box, e)]
        /\ UNCHANGED <<cur, evs, input, traps, phase, count, written>>

\* do_divert without a name: box restores what was set aside, wherever it is;
\* that the diversion is no box is fatal.  That di ends a box is an error, and
\* it ends.
\* Slip: the width of the line is not restored.
RestoredLine(d, e) == [e EXCEPT !.line = d.line]

Restored(d, e) == [e EXCEPT !.line = d.line, !.width = d.width]

EndDiversion(box) ==
    LET d == Head(divs)
        e == envs[cur]
    IN  /\ AtLine /\ Len(divs) > 1
        /\ d.box => \/ box /\ cur = d.env
                    \/ "box ended elsewhere" \in Extras
        /\ d.box => e.pending = <<>> \/ "box and waiting lines" \in Extras
        /\ IF box /\ ~d.box
           THEN phase' = "fatal" /\ UNCHANGED <<envs, divs>>
           ELSE /\ divs' = Tail(divs) /\ UNCHANGED phase
                /\ envs' = [envs EXCEPT ![cur] = IF box THEN Restored(d, e) ELSE e]
        /\ UNCHANGED <<cur, evs, input, traps, count, written>>

\* environment_switch
Ev(e) ==
    /\ AtLine /\ Len(evs) < MaxEvs /\ e # cur
    /\ cur' = e /\ evs' = <<cur>> \o evs
    /\ UNCHANGED <<envs, divs, input, traps, phase, count, written>>

EvBack ==
    /\ AtLine /\ evs # <<>>
    /\ cur' = Head(evs) /\ evs' = Tail(evs)
    /\ UNCHANGED <<envs, divs, input, traps, phase, count, written>>

\* environment_copy
Evc(e) ==
    Does([State EXCEPT !.envs[cur] = NewEnv(envs[e].filling)]) /\ UNCHANGED count

-----------------------------------------------------------------------------
\* The tokens of traps, and the end.

At(token) == Interpreting /\ input # <<>> /\ Head(input) = token

BeginTrap ==
    /\ At("begin trap")
    /\ input' = Tail(input) /\ traps' = <<cur>> \o traps
    /\ UNCHANGED <<envs, cur, evs, divs, phase, count, written>>

MacroEnds ==
    /\ At("macro") /\ (cur = traps[1] \/ "macro ends elsewhere" \in Extras)
    /\ input' = Tail(input)
    /\ UNCHANGED <<envs, cur, evs, divs, traps, phase, count, written>>

\* The lines that wait are written when no trap is left.
\* Slip: they wait for the next line.
FlushNothing(g) == g

Flush(g) == IF Len(traps) = 1 THEN OutputPending(g) ELSE g

EndTrap ==
    /\ At("end trap")
    /\ traps' = Tail(traps)
    /\ Become(Flush([State EXCEPT !.input = Tail(@)]))
    /\ UNCHANGED <<cur, evs, phase, count>>

NoTextLeft(es) ==
    \/ /\ \A d \in ToSet(divs) : ~d.box
       /\ \A e \in es : WordsOf(envs[e].line) = <<>> /\ envs[e].pending = <<>>
    \/ "text left" \in Extras

\* exit_troff
FinalBreak ==
    /\ phase = "document" /\ input = <<>> /\ NoTextLeft(Envs \ {cur})
    /\ Become(DoBreak(State)) /\ phase' = "final break"
    /\ UNCHANGED <<cur, evs, traps, count>>

\* end_diversions; the page is ejected.
EndDiversions ==
    /\ phase = "final break" /\ input = <<>> /\ NoTextLeft(Envs)
    /\ divs' = <<Last(divs)>> /\ phase' = "done"
    /\ UNCHANGED <<envs, cur, evs, input, traps, count, written>>

Next ==
    \/ \E n \in Lengths : Text(n)
    \/ Br \/ Sp \/ It \/ Dt
    \/ \E box \in BOOLEAN : Divert(box) \/ EndDiversion(box)
    \/ \E e \in Envs : Ev(e) \/ Evc(e)
    \/ EvBack \/ BeginTrap \/ MacroEnds \/ EndTrap \/ FinalBreak \/ EndDiversions

Spec == Init /\ [][Next]_vars

-----------------------------------------------------------------------------
\* Wherever a line is, in its environment or set aside by a box, the width that
\* is kept with it is that of its words: it decides where the line is broken.
TypeOK ==
    /\ cur \in Envs /\ evs \in Seq(Envs) /\ traps \in Seq(Envs)
    /\ \A e \in Envs :
          /\ envs[e].it \in 0..1 /\ envs[e].filling \in BOOLEAN
          /\ envs[e].line # <<>> => envs[e].width = Len(WordsOf(envs[e].line))
    /\ divs # <<>>
    /\ \A i \in DOMAIN divs :
          /\ divs[i].box \in BOOLEAN /\ divs[i].env \in Envs
          /\ divs[i].ahead \in 0..1
          /\ divs[i].box /\ divs[i].line # <<>> =>
                divs[i].width = Len(WordsOf(divs[i].line))

\* Once the macros of traps have ended, no line waits any more, in whatever
\* environment it was broken: the end of the last trap writes them.
NothingWaits ==
    input = <<>> => \A e \in Envs : envs[e].pending = <<>>

\* What an environment has now, and what the boxes begun in it have set aside.
GalleysOf(e) ==
    LET boxes == SelectSeq(divs, LAMBDA d : d.box /\ d.env = e)
    IN  <<WordsOf(FlattenSeq(envs[e].pending) \o envs[e].line)>>
            \o [i \in DOMAIN boxes |-> WordsOf(boxes[i].line)]

G == INSTANCE Galleys WITH held <- [e \in Envs |-> GalleysOf(e)],
                           ended <- phase = "done",
                           MaxLength <- MaxWords

\* Every word is written once and in order, in the environment and the box it
\* was read in, whatever boxes, environments and traps come between.
Implements == G!GalleysSpec
=============================================================================
