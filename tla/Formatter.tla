----------------------------- MODULE Formatter ------------------------------
(***************************************************************************)
(* GNU troff from the first token to its end: process_input_stack, the     *)
(* requests that move down the page, the filling and breaking of lines in  *)
(* one environment, the traps they spring, and exit_troff.                 *)
(*                                                                         *)
(* One step interprets one item of the input: a token the formatter put    *)
(* there itself, or an input line of the document or of a macro, written   *)
(* as an item of kind "line" that names a request or text.  The document   *)
(* is any sequence of lines; macros have the bodies given at the start.    *)
(*                                                                         *)
(* The record f of the page has these fields more:                         *)
(*                                                                         *)
(*   line        the words of the partially collected line                 *)
(*   pending     pending_lines of the environment                          *)
(*   filling     is_filling                                                *)
(*   collected   history: the number of words read                         *)
(*   depth       the size of trap_accepting_control_character_stack        *)
(*   phase       how far exit_troff has come                               *)
(***************************************************************************)
EXTENDS TLC, Integers, FiniteSets, Sequences, SequencesExt

CONSTANTS
    Header, Footer, End,   \* names of macros
    NoMacro, NoNumber,
    Lines,           \* the input lines of documents
    Setups,          \* the lists of traps and the bodies of macros
    EndMacros,       \* what em may name: End or NoMacro
    PageLength,      \* in vees
    Width,           \* words on a filled line
    MaxLines,        \* bound on the lines of the document
    MaxCount         \* bound on the pages

Macros == {Header, Footer, End}

\* environment::is_empty
NoText(f) == f.line = <<>> /\ f.pending = <<>>

INSTANCE Page WITH LastPageNumber <- 0, IsEmpty <- NoText

\* The input lines modelled: one text line of a word, one whose words fill
\* more than a line at once, a blank one, and the requests, those in quotes
\* with the no-break control character.
InputLines == {"word", "long", "blank", "br", "fi", "nf", "sp", "'sp", "bp",
               "'bp", "ne", "ns", "tl", "ex"}

ASSUME FormatterAssumption ==
    /\ Lines \subseteq InputLines
    /\ PageLength \in Nat \ {0} /\ Width \in Nat \ {0}
    /\ MaxLines \in Nat /\ MaxCount \in Nat
    /\ NoMacro \notin Macros
    /\ \A s \in Setups :
          /\ s.traps \in Seq([nm : Macros \cup {NoMacro}, position : Int])
          /\ s.body \in [Macros -> Seq(InputLines)]
    /\ EndMacros \subseteq {End, NoMacro}

VARIABLES
    f,         \* the formatter
    body,      \* the macros
    em,        \* end_of_input_macro_name
    left       \* how many more lines the document may have

vars == <<f, body, em, left>>

Vee == [pre |-> 1, extra |-> 0, post |-> 0]

\* The page and the environment before anything is read.
NewFormatter(traps) ==
    LET page == [NewPage(PageLength) EXCEPT !.traps = traps]
        text == [line |-> <<>>, pending |-> <<>>, filling |-> TRUE,
                 collected |-> 0, depth |-> 0, phase |-> "document"]
    IN  [x \in DOMAIN page \cup DOMAIN text |->
            IF x \in DOMAIN page THEN page[x] ELSE text[x]]

Init ==
    /\ \E s \in Setups :
          /\ f = NewFormatter(s.traps)
          /\ body = s.body
    /\ em \in EndMacros
    /\ left = MaxLines

-----------------------------------------------------------------------------
(* The environment.                                                        *)

\* environment::output_pending_lines, which stops at a trap.
OutputNext(g) ==
    IF g.pending = <<>> \/ g.sprung \/ ~Running(g) THEN g
    ELSE [OutputLine(g, Head(g.pending), Vee) EXCEPT !.pending = Tail(@)]

OutputPending(g) ==
    LET after[n \in 0..Len(g.pending)] ==
            IF n = 0 THEN g ELSE OutputNext(after[n - 1])
    IN  after[Len(g.pending)]

\* A line waits behind the trap that was sprung and the lines that wait for
\* it already.
WriteOrHold(g, words) ==
    IF ~Running(g) THEN g
    ELSE IF ~g.sprung /\ g.pending = <<>> THEN OutputLine(g, words, Vee)
    ELSE [g EXCEPT !.pending = Append(@, words)]

\* Slip: the lines that wait already are not looked at.
EnvOutputAtOnce(g, words) ==
    IF g.sprung THEN WriteOrHold(g, words) ELSE OutputLine(g, words, Vee)

\* environment::output
EnvOutput(g, words) == WriteOrHold(OutputPending(g), words)

\* environment::possibly_break_line: as long as there is more than a line.
BreakFull(g) ==
    IF Len(g.line) <= Width THEN g
    ELSE EnvOutput([g EXCEPT !.line = SubSeq(@, Width + 1, Len(@))],
                   SubSeq(g.line, 1, Width))

PossiblyBreakLine(g) ==
    LET after[n \in 0..Len(g.line)] ==
            IF n = 0 THEN g ELSE BreakFull(after[n - 1])
    IN  after[Len(g.line)]

\* environment::do_break
DoBreak(g) ==
    IF g.before > 0 THEN BeginPage(g)
    ELSE IF g.line = <<>> THEN g
    ELSE EnvOutput([g EXCEPT !.line = <<>>], g.line)

\* environment::output_title: a title, which has no words of the text, does
\* not wait behind the lines that do.
OutputTitle(g) ==
    IF ~g.sprung THEN OutputLine(g, <<>>, Vee)
    ELSE [g EXCEPT !.pending = <<<<>>>> \o @]

-----------------------------------------------------------------------------
(* Input lines.  A line is interpreted after it was taken off the input.   *)

Line(nm) == Item("line", nm)

\* Text of one word or five, and the newline after it.  On the first page,
\* the token goes back to the input and the page begins.
Text(g, nm) ==
    LET n     == IF nm = "word" THEN 1 ELSE 5
        words == [i \in 1..n |-> g.collected + i]
        h     == [g EXCEPT !.collected = @ + n, !.line = @ \o words]
    IN  IF g.before > 0 THEN BeginPage(PushInput(g, <<Line(nm)>>))
        ELSE IF g.filling THEN PossiblyBreakLine(h)
        ELSE EnvOutput([h EXCEPT !.line = <<>>], h.line)

\* Slip: the trap stays postponed after it was sprung.
UnpostponeKept(g) ==
    LET h == [g EXCEPT !.postponing = FALSE]
    IN  IF h.postponed = NoMacro THEN h ELSE SpringTrap(h, h.postponed)

\* unpostpone_traps
Unpostpone(g) ==
    LET h == [g EXCEPT !.postponing = FALSE]
    IN  IF h.postponed = NoMacro THEN h
        ELSE [SpringTrap(h, h.postponed) EXCEPT !.postponed = NoMacro]

\* The second half of space_request, after the break: the trap that the break
\* has sprung is called instead of spacing.
SpaceAfterBreak(g) ==
    LET u == Unpostpone(g)
    IN  IF g.postponed # NoMacro \/ u.noSpace THEN u ELSE Space(u, 1, FALSE)

\* space_request.  A trap sprung by the break waits for the end of the
\* request.
SpaceRequest(g, breaks) ==
    LET h == [g EXCEPT !.postponing = TRUE]
    IN  IF breaks THEN SpaceAfterBreak(DoBreak(h))
        ELSE IF g.before > 0 THEN h
        ELSE SpaceAfterBreak(h)

\* blank_line
SpaceUnlessSprung(g) == IF g.sprung \/ g.noSpace THEN g ELSE Space(g, 1, FALSE)

BlankLine(g) == SpaceUnlessSprung(DoBreak(g))

\* begin_page_request without an argument: on a page, and before the first
EjectUnlessNoSpace(g) == IF g.noSpace THEN g ELSE SetEjecting(g)

EjectFirstPage(g, breaks) ==
    IF ~breaks THEN IF g.noSpace THEN g ELSE BeginPage(g)
    ELSE IF g.noSpace THEN BeginPage(g)
    ELSE SetEjecting(BeginPage(PushPageEjector(g)))

BeginPageRequest(g, breaks) ==
    LET p == PushPageEjector(g)
    IN  IF g.before > 0 THEN EjectFirstPage(g, breaks)
        ELSE EjectUnlessNoSpace(IF breaks THEN DoBreak(p) ELSE p)

\* title, and handle_initial_title on the first page
Title(g) ==
    IF g.before > 0 THEN BeginPage(PushInput(g, <<Line("tl")>>))
    ELSE OutputTitle(g)

\* br, fi and nf
Filling(g, nm) ==
    CASE nm = "br" -> g
      [] nm = "fi" -> [g EXCEPT !.filling = TRUE]
      [] nm = "nf" -> [g EXCEPT !.filling = FALSE]

Interpret(g, nm) ==
    CASE nm \in {"word", "long"}     -> Text(g, nm)
      [] nm = "blank"               -> BlankLine(g)
      [] nm \in {"br", "fi", "nf"}  -> Filling(DoBreak(g), nm)
      [] nm \in {"sp", "'sp"}       -> SpaceRequest(g, nm = "sp")
      [] nm \in {"bp", "'bp"}       -> BeginPageRequest(g, nm = "bp")
      [] nm = "ne"                  -> Need(g, 2)
      [] nm = "ns"                  -> [g EXCEPT !.noSpace = TRUE]
      [] nm = "tl"                  -> Title(g)
      [] nm = "ex"                  -> [g EXCEPT !.input = <<>>]

\* Slip: the end of a trap is not recorded.
EndOfTrapKept(g) == IF g.depth = 0 THEN OutputPending(g) ELSE g

\* TOKEN_END_TRAP: the lines that waited for the trap go out when no other
\* trap is being served.
EndOfTrap(g) ==
    LET h == [g EXCEPT !.depth = IF @ > 0 THEN @ - 1 ELSE 0]
    IN  IF h.depth = 0 THEN OutputPending(h) ELSE h

\* What process_input_stack does with an item of the input.
Process(g, item) ==
    CASE item.kind = "line"    -> Interpret(g, item.nm)
      [] item.kind = "call"    -> PushInput(g, [i \in DOMAIN body[item.nm] |->
                                                  Line(body[item.nm][i])])
      [] item.kind = "begin"   -> [g EXCEPT !.depth = @ + 1]
      [] item.kind = "end"     -> EndOfTrap(g)
      [] item.kind = "ejector" -> ContinuePageEject(g)
      [] item.kind = "last"    -> ContinuePageEject([g EXCEPT !.seenLast = TRUE])

-----------------------------------------------------------------------------
Bounded == Running(f) /\ f.count < MaxCount

\* What the input stack has next: an item that was pushed, or else any line
\* of the document.
NextItems ==
    IF f.input # <<>> THEN {Head(f.input)}
    ELSE IF f.phase = "document" /\ left > 0 THEN {Line(nm) : nm \in Lines}
    ELSE {}

\* An iteration of process_input_stack; the flag of sprung traps lasts no
\* longer.  After ex the document is not read further.
ReadInput(item) ==
    /\ Bounded
    /\ f' = [Process([f EXCEPT !.input = IF @ = <<>> THEN @ ELSE Tail(@)], item)
               EXCEPT !.sprung = FALSE]
    /\ left' = IF item = Line("ex") THEN 0
               ELSE IF f.input = <<>> THEN left - 1 ELSE left
    /\ UNCHANGED <<body, em>>

\* Each part of exit_troff runs until the input is exhausted.
Exits(from) == Bounded /\ f.input = <<>> /\ f.phase = from

Enter(g, phase) ==
    /\ f' = [g EXCEPT !.phase = phase, !.depth = 0]
    /\ left' = 0
    /\ UNCHANGED <<body, em>>

\* The document ends; its end macro is called if it has one.
EndDocument ==
    /\ Exits("document")
    /\ LET g == [f EXCEPT !.exiting = TRUE, !.lastCount = f.count]
       IN  Enter(IF em = NoMacro THEN g ELSE SpringTrap(g, em), "end_macro")

FinalBreak == Exits("end_macro") /\ Enter(DoBreak(f), "final_break")

\* The last page is ejected ...
EjectLastPage ==
    /\ Exits("final_break")
    /\ LET g == SetEjecting([f EXCEPT !.eoiFinished = TRUE])
       IN  Enter(Space(PushInput(g, <<LastPageEjector>>), g.length, TRUE),
                 "last_page")

\* ... and whatever that has put on another page.
EjectWhatFollows ==
    /\ Exits("last_page")
    /\ LET g == SetEjecting([f EXCEPT !.seenLast = TRUE])
       IN  Enter(Space(PushPageEjector(g), g.length, TRUE), "trailer")

\* write_any_trailer_and_exit, when no page break came to it before.
Exit == Exits("trailer") /\ Enter([f EXCEPT !.status = "done"], "trailer")

Next ==
    \/ \E item \in NextItems : ReadInput(item)
    \/ EndDocument \/ FinalBreak \/ EjectLastPage \/ EjectWhatFollows \/ Exit

\* The program goes on as long as it can: WF_vars(Next), with the states in
\* which a step is possible named instead of computed.
Fairness == []<><<Next>>_vars \/ []<>~Bounded

Spec == Init /\ [][Next]_vars /\ Fairness

-----------------------------------------------------------------------------
TypeOK ==
    /\ f.vpos \in Nat /\ f.nl \in -1..(PageLength - 1)
    /\ f.line \in Seq(Nat) /\ f.pending \in Seq(Seq(Nat))
    /\ f.depth \in Nat /\ f.collected \in Nat
    /\ f.input \in Seq([kind : {"begin", "end", "ejector", "last", "call",
                                "line"},
                        nm : Macros \cup {NoMacro} \cup InputLines])
    /\ left \in 0..MaxLines

\* The words the formatter holds: those of the lines that wait, then those of
\* the line being collected.
Held(g) == FlattenSeq(g.pending) \o g.line

\* A footer that exits gives up the lines that wait for its end.
FooterExits == \E i \in DOMAIN body[Footer] : body[Footer][i] = "ex"

\* Whatever traps are sprung while lines are written, every word of the text
\* is written once and in order, and the program does not end before.
T == INSTANCE Typesetter WITH written <- f.written, held <- Held(f),
                              ended <- f.status = "done" /\ ~FooterExits

ImplementsTypesetter == T!Spec

\* Traps are postponed only while a request is read.
PostponingIsBrief == ~f.postponing /\ f.postponed = NoMacro

\* No end of a trap is read that has no beginning.
TrapsNest ==
    LET tokens(kind) ==
            Cardinality({i \in DOMAIN f.input : f.input[i].kind = kind})
    IN  Running(f) /\ f.input # <<>> => tokens("end") = f.depth + tokens("begin")

\* An ejection is not forgotten while macros run on its way: as long as there
\* is something to read, the token that continues it is there too.  Only ex
\* clears it off the input, and the end of the document asks for it again.
EjectionContinues ==
    /\ f.ejecting /\ Running(f)
    /\ left > 0 \/ (f.eoiFinished /\ f.input # <<>>)
    => \E i \in DOMAIN f.input : f.input[i].kind \in {"ejector", "last"}

\* The formatter ends: no ejection, trap or last page keeps it going.
Terminates == <>(f.status # "running")
=============================================================================
