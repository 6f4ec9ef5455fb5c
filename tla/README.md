# Specifications of groff

TLA+ modules that describe parts of groff as its sources define them, TLC
configurations that check them on small instances, and TLAPS proofs for every
value of the constants.  `PROJECT.json` lists the runs, the source lines each
definition stands for, a plausible slip in the code that each property detects,
the theorems, and the hazards the properties are about.

    tlc -workers 2 -config PipelineAll.cfg MCPipeline     check a run
    tlapm PipelineProofs.tla                              check the proofs

Source paths below are relative to the root of the repository.

## 1. The system

groff is a pipeline of programs.  The program *groff* chooses preprocessors, the
formatter *troff* and an output driver, and joins them by pipes.  All but groff
are sequential; what makes them hard is re-entrancy: writing one line of text in
troff can begin a page, spring traps, push macros on the input, end the program
or call the same function again two frames further down.

| Component | State it keeps | Operations | Talks to | Hard behaviour |
|---|---|---|---|---|
| running the pipeline, `src/roff/groff/pipeline.c` | descriptors, `last_input`, `pdes`, `pids`, `proc_count`, `ret` | `run_pipeline`: pipe, fork, close, dup, exec, wait, kill | kernel, commands | processes in any order; an end of a pipe held too long; failures half way; processes it did not start |
| input stack, `troff/input.cpp` | iterators for files, macros, arguments and pushed tokens; `tok` | `process_input_stack`, `interpolate_macro`, `while`, `so`, `ex` | everything | operations push input that runs later |
| page, `troff/div.cpp` | position, page length and number, `ejecting_page`, no-space mode, trap list | `output`, `space`, `begin_page`, `need`, `continue_page_eject`; `wh ch bp ne sp ns rs sv os mk rt pl pn vpt` | input stack (traps), environment | an ejection is a flag and a token; `begin_page` may end the program |
| page traps, `troff/div.cpp` | `page_trap_list`, emptied slots included | `add_trap`, `remove_trap_at`, `change_trap`, `find_next_trap` | page | positions relative to a bottom that moves, slots reused |
| macros, strings and diversions as objects, `troff/input.cpp`, `dictionary.cpp`, `div.cpp` | `macro_header` with its count, pointer and length of every macro, names and objects of the request dictionary | `macro::append`, `chop`, assignment; `ds as de am di da rn rm als chop substring asciify unformat stringdown`; interpolation | input stack, diversions | texts are shared, and copied only where someone writes who does not own the end |
| diversions, `troff/div.cpp` | macro collected, its traps, what is restored at the end | `di da box boxa dt` | environment, page | nested; ended at the end of input |
| environment, `troff/env.cpp` | line collected, pending lines, fill and adjustment state, counters, tabs, control characters, the stack of `ev` | `possibly_break_line`, `do_break`, `output`, `output_title`, `final_break` | page, diversions | lines that wait for a trap; state of one environment seen in another |
| control characters, `troff/input.cpp`, `env.cpp` | `escape_char` (global), control characters (per environment) | `ec eo ecs ecr cc c2`, `ev evc` | environment | they must differ, and are kept in two places |
| end of the document, `troff/input.cpp` | four flags | `exit_troff`, `write_any_trailer_and_exit` | all of the above | macros run, break and eject while it ends |
| numbers, registers, dictionaries | `number.cpp`, `reg.cpp`, `dictionary.cpp`, libgroff | expressions, `nr`, lookups | all | overflow; removal in hash tables |
| nodes and device-independent output, `node.cpp`, `mtsm.cpp` | lines of glyphs, the state of the driver, a buffer of a word | `troff_output_file::*`, `tprint` | driver | what troff thinks the driver knows |
| libdriver, `src/libs/libdriver/input.cpp` | environment and font table of the driver | one command after another | troff | it never answers |
| drivers, preprocessors, libbib, utilities | each a translator of a language or format | one pass over a file | pipes | formats rather than states |
| macro packages | traps, diversions, registers | documents to troff | troff | – |

What makes the components correct:

* Pipeline: each command reads from its predecessor and writes to its successor
  and nobody else holds an end of their pipe; when one ends, all end; the exit
  status says how they ended; signals go only to commands.
* Page traps: a location holds the macro the document last planted there; the
  next trap is the nearest visible one.
* Page: the position stays on the page; no trap is passed without its call; an
  ejection that was asked for is completed; `nl` is the position.
* Formatter: every word that is read is written once and in order, whatever
  traps are sprung in between; trap tokens nest; the program ends.
* Control characters: they differ from each other and from the escape character.
* Input stack: the functions that interpret the bodies of loops return where the
  document leaves the loop and nowhere else; traps end after they have begun.
* Objects: who appends to a text changes nobody else's; nothing is freed that is
  in use; what is read back is what was collected.
* Diversions and environments: every word is written once and in order, in the
  environment and the box it was read in; the text a box found collected goes on
  when it ends; no line waits for a trap that is over.
* Expressions: the value is that of unbounded integers, or an error.
* Output: every glyph and shape is where and as its node asked; font, size,
  position and colour of the driver are what troff believes them to be.

## 2. Modules

    Descriptors <- Pipeline <- MCPipeline, PipelineProofs
    ControlChars <- MCControlChars, ControlCharsProofs
    TrapSlots <- PageTraps (refines PlantedTraps) <- MCPageTraps, PageTrapsProofs
        |
        +- Page <- TopDiversion <- MCTopDiversion, TopDiversionProofs
             +---- Formatter (refines Typesetter) <- MCFormatter, FormatterProofs
    InputStack (refines Blocks) <- InputStackProofs
    Texts <- Macros (refines Pools) <- MCMacros, MacrosProofs
    Diversions (refines Galleys)
    Driver, Imposition <- OutputFile <- MCOutputFile, OutputFileProofs

**ControlChars** has the global escape character, the control and no-break
control characters of every environment, and the environment stack.  An action
is one request with any argument: none, a character, or something that is not a
character.  `Wanted` is what `ec` assigns, after comparing its argument as the
code does, with 0 for an invalid one; `SetUnlessTaken` is the setter of an
environment, which refuses; `aborted` says that an assertion has failed.

**TrapSlots** has the list of `trap` objects as a sequence of slots, with the
four functions on it and the search for the next trap, once as what it means
(`NextTrap`) and once as the one-pass loop of the code (`NextTrapLoop`).
**PageTraps** has the requests `wh` and `ch`, **PlantedTraps** the table of
locations `wh` promises.

**Page** has the member functions of `top_level_diversion` as operators on a
record.  They call one another as in the code, so that a request is one
composition of them and one step.  The input stack is the sequence of tokens and
calls they push on it.  After the program has ended the record does not change.
**TopDiversion** is the page as an object: any operation in any order.  A
document is a set of lengths, positions, line sizes and distances it may use.

**Formatter** composes Page with filling, pending lines, postponed traps,
`process_input_stack` and `exit_troff`.  A step interprets one item of input: a
token or a line of the document or of a macro.  A document is any sequence of
lines.  `phase` is how far `exit_troff` has come.  The history `written` holds
the words put out.  **Typesetter** says what is owed to a document: words held
and written, in the order of reading, none held at the end.

**Descriptors** has a table of descriptors and `close`, `dup` and `pipe`, which
take the lowest free ones.  **Pipeline** has groff (process 0) and its commands.
A step of groff is what it does between two points at which the order of
processes matters: `Spawn` (pipe and fork), `Record` (its closes), `Reap`,
`Return`; a child's is `Exec` (its closes and dups, then execvp).  The closes of
one process between forks are one step because nobody else sees them but by
waiting longer.  Commands are external: each reads a part of its input and
writes something, in turn, and may end or be killed at any time.

**InputStack** has the iterators of `input_stack`, the token read ahead, the
calls of `process_input_stack` that are active, and `want_loop_break`.  Text is
counted in lines: a line is any request the state allows, and a step interprets
one line and reads the token after it, as the code does.  `While` pushes the body
on a boundary and calls; `LoopReturns` is the return of that call.  A file, a
string, a macro and a trap are pushed by `Enter`, `Interpolate` and `Spring`.
**Blocks** is what the document means: a stack of blocks, each a file, a macro, a
string or a loop, which `break`, `continue`, `return`, `nx` and `ex` leave.  It
has neither boundaries nor calls; in the refinement a boundary is a loop unless
it was returned out of or the flag is set.

**Macros** has the objects of the request dictionary and their text.  `mem` is
the table of `macro_header`s, with `count` 0 for those that are free; `mac` the
C++ `macro` (header, length, `empty_macro`) at every place that has one: objects,
the local variable of `do_define_macro` and `do_define_string`, open diversions
and string iterators.  Constructors, assignment, destructor, `append`, `chop` and
the functions of `object_dictionary` are operators on the store, so that a
request is one composition of them.  Memory is finite: an action that would need
a header or an object waits for a free one (`HasFree`, `CanStore`).  **Pools** is
what the requests mean: every object has a text, and every reader and writer a
copy of his own.  **Texts** says which elements of a text a request selects, with
a recursive function, about which proofs can reason by induction on its length.

**Diversions** has the environments, with the line each collects and those that
wait for a trap, the stack of `ev`, the diversions, with what a box has set aside,
and the macros and tokens that traps have pushed.  A line is a list of words and
the node a line starts with, which `box` makes at once.  A step is one request or
one line of text, in the document or in the macro of a trap, which may use any of
them; its functions are composed on a record (`Output` on `Write` on `MoveDown` on
`SpringTrap`), as in Page.  A diversion trap is as many lines ahead as `dt` says,
here one.  The histories are `written` and the environment of each box.
**Galleys** is what the text is owed: each environment has one galley of words
for each box begun in it and one below; words are read into the last and written
from its front; the end of a box and `evc` are all that discards any.

**OutputFile** is `troff_output_file` (`out`) and the driver it writes to
(`drv`).  **Driver** obeys commands as libdriver does and makes marks;
**Imposition** holds what the nodes ask for: `pen`, where the next one goes, and
`owed`, the marks asked for and not yet made.  Both advance with each node: what
the driver would have made with the buffer flushed must be what is owed.  A
node's `tprint` is a step.  Positions are relative to the line; a line has any
nodes in any order.

## 3. Runs

Each passing run checks every state or behaviour of its instance; nothing is
cut off but by the bounds, which are guards.

| Run | Instance | Shows |
|---|---|---|
| `control_chars` | four characters (three defaults and one more), two environments, stack of one | `ControlsDistinct`; `ChecksSuffice`: until the document changes environment, gives an invalid argument or uses `ecr`, the escape character differs from both others |
| `control_chars_invalid` | the same | **violated** `AssertionHolds`: `.cc @`, `.c2 .`, then `.cc` with an invalid argument fails the assertion at `input.cpp:324` |
| `page_traps` | two macros, two positions from the top and two from the bottom, three slots, pages of two to five units | `OneTrapAPosition`, `LoopFindsNearest` (at every position of every page), `ImplementsPlantedTraps` |
| `top_diversion` | two documents: plain (one length, lines no taller than the gap between traps) and wild (moves up, two lengths, `vpt`, `pl`, `.nr nl -1`); two slots, two pages | `NlFollowsPosition`, `StaysOnPage`, `NoTrapSkipped` |
| `formatter` | documents of up to three of 13 kinds of lines, 100 sets of header, footer and end macros and two with a footer at two locations, pages of four lines of two words | `ImplementsTypesetter`, `TrapsNest`, `PostponingIsBrief`, `EjectionContinues`, `Terminates` |
| `pipeline` | three commands, seven descriptors, three tables at the start, pipes of one unit | `Plumbed`, `PidsAreLive`, `StatusSummarises`, `NoneIsStuck`, `PipelineDrains` |
| `pipeline_no_input` | two commands, standard input closed | **violated** `NoneIsStuck`: groff keeps the reading end it got as descriptor 0 |
| `output` | two fonts, three looks, two sizes, two colours, one ordinary and one special glyph, motions by one, lines of two units, a buffer of two; devices with and without `u`, nroff mode, and a document that switches colours | `AsAsked`, `BelievesLooks`, `BelievesPosition`, `BufferIsCurrent` |
| `input_stack` | two files, macros and strings of none or two lines, loops of one or two, one argument, a limit of four iterators | `BoundariesMatchLoops`, `ReturnsUnwind`, `EndsMatchBegins`, `Implements` (Blocks), `KeepsPromises`, `Terminates` |
| `macros` | two names, two objects and two headers, one character and one node, texts of two cells, one definition, one diversion and one reader at a time | `TypeOK`, `CountsAreExact`, `ModesBalance`, `Implements` (Pools) |
| `macros_chop` | the same, nobody reads or diverts | **violated** `NothingAborts`: `chop` of what `chop` has emptied |
| `diversions` | two environments, one that fills lines of one word and one that does not fill, three words read one or two at a time, up to three diversions, boxes and traps open at once, a stack of one environment | `Implements` (Galleys), `NothingWaits`, `TypeOK` |

Why the bounds are enough. A slot is hidden by one emptied slot in front of it:
two macros and three slots have every order of two visible and one emptied. A
page of four units with traps at the top and two above the bottom has room for a
position before, at, between and after them; what the code compares is only the
order of positions. Two pages suffice to begin, eject and number a page and to
do so again with the flags the first has left. In `formatter`, three lines make
a document that fills, waits behind a trap and ends with text pending; the
macros take turns that go through every branch of `exit_troff`. No document
reaches `MaxCount`: a behaviour stopped by it would violate `Terminates`. Three
commands are the first, a middle one and the last, the only ones `run_pipeline`
tells apart, with the two pipes that a descriptor kept too long can confuse. One
unit in a pipe makes full and empty both reachable; an unlimited supply of input
keeps the first command reading.

In `output`, two of each suffice for "the same" and "another", which is all that
troff compares; the font mounted over the other one makes a belief about the font
table go stale, and a buffer of two fills.  In `input_stack`, four iterators are a
loop in a macro in a loop, or a trap in a loop with both its tokens; a limit of
five, and of six with one file, were checked as well and show nothing new.  In
`macros`, two headers are one that is shared and the copy made of it; with three
texts could differ pairwise, which no condition in the code asks for.  A
definition, a diversion, a reader and two names contend for them.  Symmetry is
sound there: free headers and objects are all alike, and which one is chosen is
forgotten.

In `diversions`, two words on a line of one are what it takes to break a line, and
three to have one wait behind the trap that another has sprung; three things open
at once are, among others, two boxes and a trap, a box in the macro of a trap in
that of another one, and a trap in a trap in a trap.

`Extras` in OutputFile, InputStack, Macros and Diversions are things a document may do that
break a property; each is one of the disagreements below, and left out of the
passing runs unless it only ends the program.

Deadlock is not checked where the program really ends (`formatter`,
`top_diversion`, `pipeline`, `control_chars`, `input_stack`, `diversions`) or where a bound
stops the instance (`output`, `macros`); for the pipeline `NoneIsStuck` is
the check: commands may quit at any time, and a deadlock check would count on it.

### Fairness

*Formatter*: the program goes on as long as it can.  *InputStack*: troff keeps
interpreting, and in a loop whose condition is tested again and again at the same
depth, the condition fails some time (strong fairness of `TestFails` for every
depth): an assumption on documents, without which `while 1` runs for ever.  That
nothing else does is what `Terminates` says; recursion ends at the limit.  *Pipeline*: the kernel runs
every process that does not wait; groff takes a step infinitely often unless it
waits for children infinitely often, and so does each command unless it waits
for a pipe.  Nothing makes a command quit, a call fail, a signal arrive or an
inherited child end.  Both are weak fairness with the states in which the
process can go on named (`Bounded`, `GroffGoes`, `CommandGoes`) rather than
computed as ENABLED, which TLC evaluates slowly.  `PipelineDrains` therefore
says that SIGPIPE and end of file reach everyone, not that commands are polite.

### What the disagreements mean

The three violated properties are stated in the words of a document, a comment or
a test; `PROJECT.json` quotes them.  Met on the way and not made runs:

Page and traps

* `ch` moves the first instance of a macro in the list, which need not be the
  earliest planted (`doc/groff.texi.in:19997`), since emptied slots are reused.
* After `.wh 1 a`, `.wh 2 b`, `.wh 1`, `.ch b 1`, the request `.wh 1` empties the
  slot that is empty already and leaves the trap (`div.cpp:617`;
  `doc/groff.texi.in:19801`).
* A line that crosses a trap and the bottom begins the page and calls nothing
  (`div.cpp:475`; `doc/groff.texi.in:19722`).
* `'sp` before the first page returns early and leaves traps postponed, which
  `div.cpp:874` says is until the argument is read: the macros of later traps are
  not called until another `sp` (`div.cpp:886`).  `PostponingIsBrief` holds of the
  documents of `formatter`, which do not use it there.
* After `pl` has made the page shorter than the position, `ne` moves up.
* A footer that moves up to its own location, or past the bottom, runs for ever.
* Text that a trap macro leaves in a partial line while the last page is ejected
  is not written; `ex` in a footer gives up the lines that wait for its end.
* `bp` after a line that fills the page ejects the page that follows as well.

Control characters and the pipeline

* `ec` with an invalid argument compares 0 with the control characters, and then
  assigns the default (`doc/groff.texi.in:8952`).
* A command that itself exits with 255 sets bit 4 of the status, which says that
  it could not be executed (`pipeline.c:536`; `groff.1.man:1761`).
* groff's own fatal errors exit with 3, where groff(1) has status 1.

Input

* `nx` with a file name in a macro takes the first character of the line that
  follows it (`input.cpp:991`); in the last line of an included file it reads the
  new file in place of the including one (`doc/groff.texi.in:21981`).
* After `ex` in a loop, `break` and `continue` find `while_loop_depth` as it was
  and act on a loop that is gone (`input.cpp:7587`).
* `return` in a macro that nothing is below of does nothing (`input.cpp:951`;
  `doc/groff.texi.in:18061`).  With an argument in a trap macro, as `break` in one
  sprung in a loop, it removes the token that ends the trap.
* `rd` reads to the first newline (`input.cpp:5155`; `doc/groff.texi.in:21995`).

Objects

* `chop` writes a mode token into a header that others may share
  (`input.cpp:4262`): with `"chop of shared modes"` in `Extras` their text changes.
* `stringup` and `stringdown` make a new object, so that an alias keeps the old
  text (`doc/groff.texi.in:17072`); with a node in the text an assertion fails, as
  it does in `substring` for a node that follows a mode token.

Diversions and environments

* A box that a trap macro begins while lines wait takes them in at the next line
  (`div.cpp:156`; `doc/groff.texi.in:20716`); one that ends then gives them to the
  outer diversion.
* `di` that ends a box is an error, and ends it: the text of the box goes on in the
  line, and what was set aside is lost (`div.cpp:130`).  `box` in another
  environment gives that one the line.
* `box` starts a line, so that a break before any text writes an empty one, which
  `di` does not (`div.cpp:166`; `doc/groff.texi.in:20739`).
* `box` restores neither the position at which the input line starts, so that `hp`
  is off after it (`div.cpp:130`; `doc/groff.texi.in:18955`).
* A macro that ends in another environment than it was called in, or a trap that
  is sprung in another environment within the macro of a trap, leaves lines
  waiting, which nothing but a later line of their environment writes
  (`input.cpp:3871`).
* Text left in an environment that is not current at the end is not written.

Output

* A fixed height equal to a size is forgotten by the driver when that size is
  selected, and troff does not send it again (`node.cpp:1314`,
  `libdriver/input.cpp:1778`; `doc/groff.texi.in:15005`).
* A colour selected while colours are disabled is remembered as sent
  (`node.cpp:1329`, `1386`; `doc/groff.texi.in:16252`).
* After a solid ellipse troff adds its height to the position, the driver does not
  (`node.cpp:1580`; `groff_out.5.man:1032`).
* A shape drawn while output is off moves the position (`node.cpp:1577`), and a
  glyph put without a width does not heed that the position is unknown
  (`node.cpp:1236`).
* For a word in a font that lacks one of its glyphs, libdriver advances by a width
  it has not initialised (`libdriver/input.cpp:1783`).

## 4. Proofs

The theorems hold for all values of the constants that satisfy the assumptions
named in the modules (`PipelineAssumption` and so on), which only say that bounds
are numbers and that names are distinct.

* **ControlCharsProofs.** `TypeCorrect`; `ControlsStayDistinct` is inductive
  with the type, because the setters refuse whatever the requests ask for.
  `ChecksAreEnough` is about the comparisons of `ec`, `cc` and `c2` themselves:
  with valid arguments in one environment, what they compare is what they assign
  (`ComparedIsWanted`), so no setter ever has to refuse.
* **PageTrapsProofs** has what each list function does to the slots, `TrapsTyped`, `OneTrap` and the refinement
  `WhImplementsPlantedTraps`.  The invariant `WhInv` adds to
  `OneTrapAPosition` that an emptied slot is not in front of a trap at its
  position, which is what `ch` breaks and what `remove_trap_at` silently needs.
  `LoopIsNextTrap` is about any list: after i slots the loop
  has the best of the first i (`BestOfFirst`), by induction on i; a later slot
  replaces it only if it is strictly nearer (`Better`), so that the first of
  several at one location stays.  `LoopAlwaysFindsNearest` applies it.
* **TopDiversionProofs.** Each function of Page is given a lemma with its type
  and its effect on position, `nl` and flags; a request is then a composition of
  lemmas.  `PageIsWellFormed`, `NlFollowsThePosition` and the action property
  `PositionStaysOnPage` follow.  The positions of traps play no part in the last
  but for this: the trap ahead lies on the page.  They matter for
  `NoTrapIsSkipped`, which needs what `find_next_trap` returns to be the nearest
  trap and the visible one there (`NearestAhead`), that no trap is postponed and
  that traps stay enabled (`Settled`); `space` then meets one trap at most, at its
  place (`SpaceMeets`).  `output` may go farther than the trap it springs, and may
  begin a page instead: it misses no trap in documents whose lines are no taller
  than what separates the traps from each other and from the bottom of the page
  (`Gentle`, and of non-negative sizes).  That is the only assumption, and it
  cannot be left out: TLC finds the trap that a tall line misses above the bottom.
* **PipelineProofs.** `PipelineTyped`, `CommandsArePlumbed`,
  `SignalsHitCommands`, `NobodyWaitsForEver`, `StatusIsSummary`.  `Plumbed` is not inductive: it says nothing of groff
  between two forks, nor of a child before execvp.  `ForkInv` does: before
  command j groff has its initial table and one reading end, at a descriptor that
  was free at the start (`Before`, `Inherits`); after the fork it and the child
  have the two ends of the next pipe, too, at other such descriptors (`After`,
  `HasPipe`).  `PipeTakesFree`, `SetUpWorks` and `ParentClosesWorks` are the three
  facts about `pipe`, the child and the parent.  That descriptors 0 and 1 are open
  at the start is used twice: 0 cannot then be an end of a pipe, so that
  `last_input != 0` means what it should, and `dup` returns the descriptor just
  closed since all below it are open (`RedirectWorks`).  The theorem fails without
  it, as `pipeline_no_input` shows.  For the last two, `PipelineInv` adds to that
  who holds descriptors in each phase (`HeldInv`), that `count` is the number of
  commands not reaped and `ret` has the bits of those that were (`ReapInv`), and how
  a command can have ended (`OutcomeInv`).  Suppose nobody can go.  The last command
  that waits to write waits for a reader of its pipe: `HoldersAre` says that it is
  its successor, and runs; the successor does not write, so it waits to read, and
  from an empty pipe, while the writer waits for a full one.  So all wait to read,
  and the first of them has no predecessor that could still write (`SomeoneGoes`).
  If no command is left, `count` is 0 and groff is not waiting.  `StatusIsSummary`
  assumes `StatusesApart`, that a program does not exit with the status 255 by which
  groff recognises that execvp has failed.
* **OutputFileProofs.** The invariant is about the pair of `troff_output_file`
  and its driver.  `LooksAreBelieved`: what troff believes of the fonts, the size,
  the height, the slant and the colours of the driver is so.  It assumes, as the
  code requires, that no fixed height is a size (`HeightsApart`), that drawings
  have the size of some text, and that colours are not enabled again.  The
  invariant adds that the remembered height is no size: otherwise a change of size
  would make the driver forget it.  `BufferStaysCurrent` and `PositionIsBelieved`
  need `Sound`: the buffer has one font, one kerning and at most its size, and the
  driver will be where troff thinks once it has read it.  `MarksAreAsAsked` adds
  `Ink`: what the driver has marked and what it would mark on reading the buffer
  are what the nodes have asked for, in order.  A word is put glyph by glyph and
  read back glyph by glyph, and the two agree by induction over the word.  Each
  function of the class has a lemma that says which of these it keeps, and what
  it restores before a glyph is put.
* **InputStackProofs.** None of the three invariants is inductive: `pop_macro`,
  `nx` and `ex` rearrange the stack, and what they leave is right only in view of
  what all active calls of `process_input_stack` still expect.  The stack is
  looked at from its bottom (`Low`), where what lies below keeps its number;
  `Depth` counts boundaries up to an iterator, and `Ends(s, d)` the ends of traps
  with d boundaries below them.  The invariant `IInv` says that there are as many
  boundaries as loops; that `Ends(s, d)` is at most the number of beginnings which
  the run with d loops below it has read (one more where a beginning is the token
  read ahead); that in the document return boundaries are on top of everything
  else; and that the bottom of the stack on the way out is what `ex` has left
  (`Sealed`), as many return boundaries as loops were active, x - 2 where x is the
  place of `exit_troff` among the runs.  Every function on the stack keeps the
  boundaries and adds no end without its beginning (`Keeps`), so that each request
  is one lemma.  `RunsOwnBoundaries` is that invariant, `ReturnsAlwaysUnwind` and
  `EndsAlwaysMatch` follow from it for every document; `BoundariesAlwaysMatch` for
  all documents but those that use `nx` with a file name where `ex` has left only
  return boundaries: there the new file goes below them, and
  `exit_troff` finds it under the boundaries of its loops.
* **InputStackProofs, second part.** `StackImplementsBlocks` and `RequestsKeepPromises`: what a
  document sees of the input stack are nested blocks.  `Base(s)` are the blocks of
  a stack on which nothing is being tested or broken out of, joined from those of
  its iterators, so that an operation at the top leaves those of the rest alone;
  the flag and the test change only the first of them.  `Walls(s)` are the
  boundaries among them.  Each function of `input_stack` has a lemma with what it
  makes of both: `pop_macro` drops the first block and the boundaries over it, `nx`
  everything to the first file, `break` and `continue` empty the body and leave the
  rest.  Which block a boundary stands for depends on what is on top of it, and
  this is what `JInv` (`Steady`) adds to `IInv`: what may be on top of what (what is
  left of a body on its boundary, `Piled`), that boundaries have the sizes of the
  loops that are being interpreted (`Sized`), that loops which were returned from are
  left at once (`Unwinding`), and that the flag is set only until the loop it is
  about has returned.  Every step, those that only read a token or return from a
  loop included, is a step of Blocks (`BlocksStep`).  Both theorems suppose a
  document without `Extras`, as the run does.  Of the five kinds TLC finds that
  "return_of_the_last", "nx_in_a_macro" and "nx_in_the_last_line" break both and
  "break_after_ex" breaks the second: the request then acts on another loop or file
  than the one the document sees.  With "nx_after_ex" both hold in the instance, but
  not the fact they are proved from, `BoundariesMatchLoops`.
* **FormatterProofs.** `FormatterTypes`, `TrapsStayNested`, `EjectionsContinue`,
  `PostponedTrapsAreSprung` and `TextIsKept`.  Operators are proved about in layers, as they call one
  another.  A page operation is `Turns` or `Writes`: what it pushes on the input, what
  it does to the position, the ejection and the words.  Those of the environment and
  the requests are `Goes` or `Does`, made of these; a loop over the lines that wait, or
  over full lines, keeps what each pass keeps (`Repeated`).  An item of input
  `Follows` if it takes what it reads off the input and leaves it balanced, and
  `EnterInvariant` does the same for the parts of `exit_troff`.

  The invariants say little of what is further down the input, and are not inductive.
  `IInv` adds: the input is `Nested`, not just equal in number of beginnings and ends
  of traps (with as many ends as beginnings in the wrong order the next end would find
  no trap); the position is above the bottom of the page while the program runs
  (`OnPage`); an ejection has a token, or the document has been read to its end
  and the last page is not yet asked for, or the input is empty
  (`EjectionHasToken`); and how far `exit_troff` has come fits what it has set
  (`Phased`).

  `PostponedTrapsAreSprung` supposes `Careful`, that neither the document nor its end
  macro uses `'sp`, as is so in the run: before the first page this request returns
  before it comes to `unpostpone_traps` (div.cpp:886).  In the macros of
  traps it may be used, and `NoneWaits` shows why: before the first page the input
  holds nothing of them.

  `TextIsKept` is the refinement: Formatter implements Typesetter.  The operators get a
  second layer of contracts, about the words.  `Total(g)` is what was written,
  then what is in the lines that wait, then the line being collected; an operation that
  reads no words `Saves` them: it leaves `Total` as it is, extends what was written
  (`Grows`), and ends the program only with nothing held or after the final break.  An
  operation `Waits` if lines it leaves waiting have the end of a trap on the input to
  wait for, and `Pushes` says what it may put there.  `DoBreakHandles` is the lemma that
  most depends on the order of calls in env.cpp: a break written out in the middle of a
  trap keeps the order because the lines that wait are emptied before it
  (`OutputPending`) and it waits behind those that are left.  An item of input is
  `Reading` if it adds up to five words at the end of `Total` and otherwise saves them.

  The invariant is `IInv`, `NoneWaits` and `Keeping(f)`: lines wait only while the end of
  a trap is on the input, a trap is recorded as sprung only then and at depth 0
  (`Waiting`); from the final break on no text is collected and none is on the input, and
  from the ejection of the last page on none is held (`Finishing`); `ex` can be on the
  input only in an end macro that finds nothing waiting, or in a footer (`Exiting`).
  The last two are what `write_any_trailer_and_exit` relies on: nothing there looks for
  text that is left.

  It supposes `Careful` and `Ordinary`: that the macros of traps write no text, only the
  footer's may exit, the end macro is not the macro of a trap, and an end macro does not
  both write text and exit.  The setups of the run are such.  Without it the
  words are lost, as TLC shows on small setups of each kind: a word in a
  trap at the foot of the last page is collected and never written, and `ex` after text
  in the end macro, or in a header placed at two locations at the foot, leaves the text
  where it was.  For a footer that exits, Typesetter asks for the order of the words only.
  That the end macro is no trap's is a simplification: it separates the two places it
  could be called from.
* **MacrosProofs.** `CountsStayExact`: every header is counted as often as macros
  point to it and every object as often as names refer to it.  `Recount` says how
  the number of those with a value changes when one of them gets another; from it
  follow lemmas about assignment (`Assigned`), copy on append (`Copied`) and the
  dictionary (`Relink`).  Between the steps of a request an object has one
  reference too many, taken before the name is linked and dropped after another is
  unlinked; `Owing(s, o)` is the invariant with that one, and `Define` and
  `Unnamed` lead from one form to the other.  The invariant `CountInv` adds that
  there is a place for every diversion and iterator.

  The texts need more.  `TypeOK` alone is not inductive: that an append in place
  disturbs nobody follows from `Sound`, by which the part of every macro lies within
  the characters of its header, and that the object of a name just created is
  empty from `Vacant`, by which an object that no name refers to has no text.
  `TextInv` has these two, the counts, and the same for the places of definitions,
  diversions and iterators (`Spare`, `DraftNamed`, `InputFits`); it gives
  `MacrosTyped`.  Each operator on the store has a lemma of the form
  `Alters(s, t, x, u)`: in t the text at place x is u, and all the others are those of s,
  whether they share the header or not (`AppendCellAlters`, `ChopAtAlters`,
  `OnCopyAlters`); a request then is `Changed(x, u)` or `Relinked(l, c)`, one text or
  the names.  `ModesStayBalanced` adds `Modal`: every text is `Ends(t, m)`, its mode
  tokens alternate and the last one is m, with lemmas about what selecting,
  joining, mapping and chopping make of m.  `ObjectsArePools` is the refinement:
  by the same lemmas every action of Macros is the action of Pools of the same name, or
  leaves all variables of Pools as they are.

  The last two suppose that no document chops a text with a mode token while
  another macro shares it (`"chop of shared modes"` is not in `Extras`, as in the run):
  there `macro::chop` writes into the shared header, and others see it.  That is
  the only place where sharing shows; `CountsStayExact` and `MacrosTyped` hold with it.

The library's induction theorems take an operator, which the provers cannot
instantiate; where an induction is needed (over the slots of a list, a word, a
stack) it is one on sets of numbers, `Induct`, from the fact that the natural
numbers are well founded.

Only model-checked: the properties of Diversions, which breaks lines and empties its
lists with folds, in two environments that diversions and traps change under one
another; and liveness (`Terminates` of Formatter and of InputStack, `PipelineDrains`),
which the prover does not treat.

## 5. Not modelled

The layout of lines, hyphenation and formats of numbers: no property depends on
them.  In Formatter
all words have one width, there is one environment and no diversion (Diversions has them), no
centring, hyphenation or input trap.  `.nr nl` with a value that is not negative,
the horizontal page offset and the registers about the last trap are left out of
Page.  In Diversions the page is a diversion without a bottom, an input trap is one
of a single line, and adjustment, centring, indentation, tabs and fields, which move
words along their line, are left out, as are vertical sizes and the marks for
grohtml.  Of groff, its options and the versions of `run_pipeline` for systems
without fork are left out, and it starts with default signal dispositions.
Of the input stack, copy mode, the reading of arguments and conditional blocks are
left out; of macros, which cells copy mode makes of the input, how a definition
finds its end, and the hash table of the dictionary; of output, the nodes that are
composed of others, the boxes reported by `\O` and the tags for grohtml; of
libdriver, the prologue, polygons and splines, `w`, which does nothing, and the
stack of environments (`N` is `C`, and `t` is `u` without kerning).
Drivers, preprocessors and utilities are one pass over a file each.
`column.cpp` is compiled by no build.  `PROJECT.json` lists every component with
the reason.

## 6. Plan

Done: control characters, page traps, page, formatter, pipeline, output and
driver, input stack, macros, diversions and environments, in this order of writing; Page before Formatter
because every request is a composition of it.

Next, each with an MC module and a run:

1. *Numeric expressions* (`Expressions`): the evaluator as functions, with width
   w, against unbounded integers; checked over all expressions of a few tokens.
2. *Hash tables* (`Dictionary`, `PTable`): open addressing with removal and
   growth; refines a map.  Theorem: lookups agree with the map.

And more proofs: of Diversions `TypeOK`, with the width of a line as a lemma about
lists, then `Implements`, along the argument of `TextIsKept` with a text for each
environment.
The number of runs is kept small.  A component that is added has one passing run;
a disagreement that later work confirms without a run of its own is moved to the
list in section 3.
