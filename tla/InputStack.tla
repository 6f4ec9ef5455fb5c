----------------------------- MODULE InputStack -----------------------------
(* The input stack of GNU troff and the requests that direct the flow of    *)
(* input.  A loop is a C++ function, while_request, that interprets its     *)
(* body with a process_input_stack of its own, which returns where it reads *)
(* the boundary under the body; so break and return cannot leave a loop at  *)
(* once, they must make the functions return.                               *)
(*                                                                          *)
(* The text of files, macros and strings is counted in lines, and a line    *)
(* may be any request.  The token tok is read ahead: it is the first of     *)
(* the line to be interpreted.                                              *)
EXTENDS Integers, Sequences, FiniteSets, SequencesExt

CONSTANTS
    Sizes,         \* how many lines a file, a macro or a string may have
    LoopSizes,     \* how many lines the body of a loop may have
    Counts,        \* how many arguments a macro may be called with
    MaxFiles,      \* bound on the files that are read
    Limit,         \* the register slimit
    Exits,         \* how often exit_troff calls process_input_stack: twice if
                   \* the page length is 0, else four times
    Extras         \* what the document does, see below

\* Some documents: break or continue or nx after an ex inside of a loop,
\* return from a macro that nothing is below of, nx with a file name where
\* something else than the file is read, or in the last line of a file that
\* another one includes.
ExtraKinds == {"break_after_ex", "nx_after_ex", "return_of_the_last",
               "nx_in_a_macro", "nx_in_the_last_line"}

ASSUME InputStackAssumption ==
    /\ Sizes \subseteq Nat /\ LoopSizes \subseteq Nat \ {0}
    /\ Counts \subseteq Nat /\ MaxFiles \in Nat
    /\ Limit \in Nat \ {0} /\ Exits \in {2, 4} /\ Extras \subseteq ExtraKinds

VARIABLES
    stack,         \* the iterators, the top first: [kind, left, args, size]
    tok,           \* "line", "cut" for a line that lacks its first character,
                   \* "begin_trap", "end_trap", "eof", or "test" where
                   \* while_request is about to test the condition
    runs,          \* the calls of process_input_stack, the innermost first:
                   \* [kind, size, traps, left], where traps is the size of
                   \* trap_accepting_control_character_stack
    want_loop_break,
    files,         \* how many more files may be read
    phase          \* "document", "exit", "done" or "fatal"

vars == <<stack, tok, runs, want_loop_break, files, phase>>

Iterator(kind, left, args, size) ==
    [kind |-> kind, left |-> left, args |-> args, size |-> size]

Boundary(size) == Iterator("boundary", 0, 0, size)
ReturnBoundary == Iterator("return_boundary", 0, 0, 0)
IsBoundary(it) == it.kind \in {"boundary", "return_boundary"}

Run(kind, size, left) ==
    [kind |-> kind, size |-> size, traps |-> 0, left |-> left]

Init ==
    /\ stack = <<>> /\ tok = "eof" /\ runs = <<Run("main", 0, 0)>>
    /\ want_loop_break = FALSE /\ files \in 0..MaxFiles /\ phase = "document"

-----------------------------------------------------------------------------
\* The operations of input_stack.

FromTop(s, i) == SubSeq(s, i, Len(s))

FirstIn(s, Is(_)) ==
    CHOOSE i \in 1..(Len(s) + 1) :
        /\ i <= Len(s) => Is(s[i])
        /\ \A j \in 1..(i - 1) : ~Is(s[j])

Has(s, Is(_)) == FirstIn(s, Is) <= Len(s)
IsFile(it) == it.kind = "file"

\* Slip: the body of a loop counts as one.
IsMacroOrBody(it) == it.kind \in {"macro", "loop"}

IsMacro(it) == it.kind = "macro"

\* input_stack::get pops what was read, down to a boundary.
Stops(it) == IsBoundary(it) \/ it.left > 0
Unread(s) == FromTop(s, FirstIn(s, Stops))

TokenOf(s) ==
    IF s = <<>> \/ IsBoundary(s[1]) THEN "eof"
    ELSE IF s[1].kind \in {"begin_trap", "end_trap"} THEN s[1].kind
    ELSE "line"

Next_token(s) ==
    stack' = Unread(s) /\ tok' = TokenOf(Unread(s))

Took(s, n) == [s EXCEPT ![1].left = @ - n]

\* "while (input_stack::get(0) != EOF)"
Drained(s) == FromTop(s, FirstIn(s, IsBoundary))

Boundaries(s) == Cardinality({i \in DOMAIN s : IsBoundary(s[i])})

ReturnBoundaries(n) == [i \in 1..n |-> ReturnBoundary]

Cleared(s) == ReturnBoundaries(Boundaries(s))

\* pop_macro never pops the bottom of the stack, and keeps while_request happy.
\* Slip: the boundaries are gone.
PopMacroUnhappy(s) ==
    FromTop(s, Min({FirstIn(s, IsMacro), Len(s) - 1}) + 1)

PopMacro(s) ==
    LET n == Min({FirstIn(s, IsMacro), Len(s) - 1})
    IN  ReturnBoundaries(Boundaries(SubSeq(s, 1, n))) \o FromTop(s, n + 1)

EndFile(s) ==
    LET i == FirstIn(s, IsFile) IN SubSeq(s, 1, i - 1) \o FromTop(s, i + 1)

\* Where there is no file, the new one goes below everything.
\* Slip: it goes on top of everything.
NextFileOnTop(s, size) ==
    LET i == FirstIn(s, IsFile)
    IN  <<Iterator("file", size, 0, size)>> \o SubSeq(s, 1, i - 1)
            \o FromTop(s, i + 1)

NextFile(s, size) ==
    LET i == FirstIn(s, IsFile)
    IN  SubSeq(s, 1, i - 1) \o <<Iterator("file", size, 0, size)>>
            \o FromTop(s, i + 1)

\* Arguments are those of the topmost macro, boundaries or not.
ArgsOf(s) ==
    LET i == FirstIn(s, IsMacro) IN IF i <= Len(s) THEN s[i].args ELSE 0

Shifted(s, n) ==
    LET i == FirstIn(s, IsMacro)
    IN  IF i > Len(s) THEN s
        ELSE [s EXCEPT ![i].args = IF n < @ THEN @ - n ELSE 0]

\* input_stack::push, of some iterators; an infinite recursion ends here.
\* Slip: what was read is popped first, and a recursion that is the last
\* line of a macro never ends.
PushPopping(items, s) ==
    IF Len(items \o Unread(s)) <= Limit
    THEN Next_token(items \o Unread(s)) /\ UNCHANGED phase
    ELSE phase' = "fatal" /\ UNCHANGED <<stack, tok>>

Push(items, s) ==
    IF Len(items \o s) <= Limit
    THEN Next_token(items \o s) /\ UNCHANGED phase
    ELSE phase' = "fatal" /\ UNCHANGED <<stack, tok>>

-----------------------------------------------------------------------------
\* The lines that the innermost process_input_stack may read.

Interpreting == phase \in {"document", "exit"}
Reading == Interpreting /\ tok = "line"

\* The stack once the line was read.
Rest == Took(stack, 1)

Loops == Cardinality({i \in DOMAIN runs : runs[i].kind = "while"})

Line ==
    /\ Interpreting /\ tok \in {"line", "cut"}
    /\ Next_token(Rest)
    /\ UNCHANGED <<runs, want_loop_break, files, phase>>

\* A file with so or mso, a macro with its arguments, a string, or a macro
\* interpolated like a string, which gets the arguments of its caller.
Enter(kind, size, args) ==
    /\ Reading /\ Push(<<Iterator(kind, size, args, size)>>, Rest)
    /\ UNCHANGED <<runs, want_loop_break, files>>

Interpolate(size) == Enter("macro", size, ArgsOf(stack))

\* spring_trap, after a line of text.
\* Slip: the end goes onto the stack last.
TrapEndFirst(size) ==
    <<Iterator("end_trap", 1, 0, 1), Iterator("macro", size, 0, size),
      Iterator("begin_trap", 1, 0, 1)>>

Trap(size) ==
    <<Iterator("begin_trap", 1, 0, 1), Iterator("macro", size, 0, size),
      Iterator("end_trap", 1, 0, 1)>>

Spring(size) ==
    /\ Reading /\ Push(Trap(size), Rest)
    /\ UNCHANGED <<runs, want_loop_break, files>>

Traps(n) ==
    /\ Next_token(Rest)
    /\ runs' = [runs EXCEPT ![1].traps = @ + n]
    /\ UNCHANGED <<want_loop_break, files, phase>>

BeginTrap == Interpreting /\ tok = "begin_trap" /\ Traps(1)

\* A spurious end of a trap is an error.
EndTrap ==
    /\ Interpreting /\ tok = "end_trap"
    /\ Traps(IF runs[1].traps = 0 THEN 0 ELSE -1)

\* while_request puts its body aside, below it a boundary, and the body is
\* there to be read when the condition is tested.
Body(size) == Iterator("loop", size, 0, size)

Test(items, s) ==
    IF Len(items \o s) <= Limit
    THEN stack' = items \o s /\ tok' = "test" /\ UNCHANGED phase
    ELSE phase' = "fatal" /\ UNCHANGED <<stack, tok>>

While(size) ==
    /\ Reading /\ size <= stack[1].left
    /\ Test(<<Body(size), Boundary(size)>>, Took(stack, size))
    /\ runs' = <<Run("while", size, 0)>> \o runs
    /\ UNCHANGED <<want_loop_break, files>>

\* The condition holds, and a new process_input_stack interprets the body.
TestHolds ==
    /\ Interpreting /\ tok = "test"
    /\ Next_token(stack)
    /\ UNCHANGED <<runs, want_loop_break, files, phase>>

LeaveLoop(s) ==
    Next_token(Tail(s)) /\ runs' = Tail(runs)

TestFails ==
    /\ Interpreting /\ tok = "test"
    /\ LeaveLoop(Drained(stack))
    /\ UNCHANGED <<want_loop_break, files, phase>>

\* process_input_stack has returned to what called it.
Returns(kind) ==
    Interpreting /\ tok = "eof" /\ runs[1].kind = kind

\* Slip: want_loop_break is not reset.
LoopReturnsBroken ==
    /\ Returns("while")
    /\ \/ /\ want_loop_break \/ stack[1].kind = "return_boundary"
          /\ LeaveLoop(stack) /\ UNCHANGED <<want_loop_break, phase>>
       \/ /\ ~want_loop_break /\ stack[1].kind # "return_boundary"
          /\ Test(<<Body(runs[1].size)>>, stack)
          /\ runs' = [runs EXCEPT ![1].traps = 0]
          /\ UNCHANGED want_loop_break
    /\ UNCHANGED files

LoopReturns ==
    /\ Returns("while")
    /\ \/ /\ want_loop_break \/ stack[1].kind = "return_boundary"
          /\ LeaveLoop(stack) /\ want_loop_break' = FALSE /\ UNCHANGED phase
       \/ /\ ~want_loop_break /\ stack[1].kind # "return_boundary"
          /\ Test(<<Body(runs[1].size)>>, stack)
          /\ runs' = [runs EXCEPT ![1].traps = 0]
          /\ UNCHANGED want_loop_break
    /\ UNCHANGED files

\* After an ex inside of a loop, while_loop_depth still counts the loop.
LoopIsLive == Has(stack, LAMBDA it : it.kind = "boundary")

BreakOrContinue(break) ==
    /\ Reading /\ Loops > 0
    /\ \/ LoopIsLive
       \/ "break_after_ex" \in Extras
    /\ stack' = Drained(stack) /\ tok' = "eof"
    /\ want_loop_break' = (want_loop_break \/ break)
    /\ UNCHANGED <<runs, files, phase>>

\* Outside of loops they are errors, and the line is skipped.
While_break_request == BreakOrContinue(TRUE)
While_continue_request == BreakOrContinue(FALSE)

\* Whether the macro to return from is not the last thing on the stack.
HasBelow(s) == FirstIn(s, IsMacro) # Len(s)

Return(n) ==
    LET once == PopMacro(Rest)
    IN  /\ Reading
        /\ \/ HasBelow(stack) /\ (n = 2 => HasBelow(once))
           \/ "return_of_the_last" \in Extras
        /\ Next_token(IF n = 1 THEN once ELSE PopMacro(once))
        /\ UNCHANGED <<runs, want_loop_break, files, phase>>

Shift(n) ==
    /\ Reading /\ Next_token(Shifted(Rest, n))
    /\ UNCHANGED <<runs, want_loop_break, files, phase>>

Nx ==
    /\ Reading /\ Next_token(EndFile(Rest))
    /\ UNCHANGED <<runs, want_loop_break, files, phase>>

\* With a file name, a token is read before the file is changed and another
\* one after it: where that is no character of the old file, it is lost, be
\* it the first of a line, a line that is blank, or the end of a trap.  And
\* where the file has no more lines, it is not the file that is changed, but
\* the one that includes it.
NxFile(size, blank) ==
    LET ahead == Unread(Rest)
        read == NextFile(ahead, size)
        lost == ahead # <<>> /\ ~IsBoundary(ahead[1]) /\ ~IsFile(ahead[1])
    IN  /\ Reading /\ files > 0 /\ files' = files - 1
        /\ lost => "nx_in_a_macro" \in Extras
        /\ \/ FirstIn(Rest, IsFile) > Len(Rest) - Len(ahead)
           \/ ~Has(ahead, IsFile)
           \/ "nx_in_the_last_line" \in Extras
        /\ \/ Has(ahead, IsFile)
           \/ \A i \in DOMAIN ahead : ahead[i].kind # "return_boundary"
           \/ "nx_after_ex" \in Extras
        /\ IF Len(read) > Limit
           THEN phase' = "fatal" /\ UNCHANGED <<stack, tok>>
           ELSE /\ IF lost /\ (blank \/ TokenOf(ahead) = "end_trap")
                   THEN Next_token(Took(read, 1))
                   ELSE /\ stack' = Unread(read)
                        /\ tok' = IF lost THEN "cut" ELSE TokenOf(Unread(read))
                /\ UNCHANGED phase
        /\ UNCHANGED <<runs, want_loop_break>>

\* ex clears the stack and calls exit_troff, which never returns.
Ex ==
    /\ Reading
    /\ stack' = Cleared(stack) /\ tok' = "eof" /\ phase' = "exit"
    /\ runs' = IF phase = "exit" THEN runs ELSE <<Run("exit", 0, Exits)>> \o runs
    /\ UNCHANGED <<want_loop_break, files>>

\* The files of the command line, then exit_troff.
MainReturns ==
    /\ Returns("main")
    /\ \/ /\ files > 0 /\ files' = files - 1
          /\ \E size \in Sizes :
                Push(<<Iterator("file", size, 0, size)>>, stack)
          /\ runs' = <<Run("main", 0, 0)>>
       \/ /\ files = 0 /\ phase' = "exit"
          /\ runs' = <<Run("exit", 0, Exits)>> \o runs
          /\ UNCHANGED <<stack, tok, files>>
    /\ UNCHANGED want_loop_break

\* The end-of-input macro, the final break, the ejection of the last page and
\* what comes after it may each spring a trap, and are each followed by
\* process_input_stack.
ExitReturns ==
    /\ Returns("exit")
    /\ \/ /\ runs[1].left > 0
          /\ runs' = <<Run("exit", 0, runs[1].left - 1)>> \o Tail(runs)
          /\ \/ \E size \in Sizes : Push(Trap(size), stack)
             \/ Next_token(stack) /\ UNCHANGED phase
       \/ /\ runs[1].left = 0 /\ phase' = "done"
          /\ UNCHANGED <<stack, tok, runs>>
    /\ UNCHANGED <<want_loop_break, files>>

Next ==
    \/ Line \/ BeginTrap \/ EndTrap \/ TestHolds \/ TestFails \/ LoopReturns
    \/ While_break_request \/ While_continue_request \/ Nx \/ Ex
    \/ MainReturns \/ ExitReturns
    \/ \E size \in Sizes :
          \/ Enter("file", size, 0) \/ Enter("string", size, 0)
          \/ \E args \in Counts : Enter("macro", size, args)
          \/ Interpolate(size) \/ Spring(size)
          \/ \E blank \in BOOLEAN : NxFile(size, blank)
    \/ \E size \in LoopSizes : While(size)
    \/ \E n \in 1..2 : Return(n) \/ Shift(n)

\* troff keeps interpreting, and no loop has a condition that always holds.
Fairness ==
    /\ WF_vars(Next)
    /\ \A n \in 1..Limit : SF_vars(TestFails /\ Loops = n)

Spec == Init /\ [][Next]_vars
FairSpec == Spec /\ Fairness

-----------------------------------------------------------------------------
\* Every while_request has its boundary on the stack, and the innermost one
\* finds it on top when its process_input_stack returns (the assertion of
\* remove_boundary); the others find the stack empty (the assertion that the
\* level is 0), or, on the way out, nothing above what ex has left.
BoundariesMatchLoops ==
    Interpreting =>
        /\ Boundaries(stack) = Loops
        /\ Returns("while") => stack # <<>> /\ IsBoundary(stack[1])
        /\ Returns("main") => stack = <<>>
        /\ Returns("exit") => \A i \in DOMAIN stack : IsBoundary(stack[i])

\* In the document, where return boundaries are, nothing is interpreted until
\* their loops have returned.
ReturnsUnwind ==
    phase = "document" /\ (\E i \in DOMAIN stack :
                              stack[i].kind = "return_boundary") =>
        tok = "eof" /\ stack[1].kind = "return_boundary" /\ ~want_loop_break

\* An end of a trap that is to be read belongs to a trap whose beginning the
\* same process_input_stack has read, so it never is spurious.
EndsMatchBegins ==
    LET Count(kind, n) == Cardinality({i \in 1..n : stack[i].kind = kind})
        boundary == FirstIn(stack, IsBoundary)
    IN  Interpreting =>
            \A n \in 1..(boundary - 1) :
                Count("end_trap", n) <= Count("begin_trap", n) + runs[1].traps

\* Whatever the document does, the formatter comes to an end, be it because
\* the stack has grown to its limit.
Terminates == <>(phase \in {"done", "fatal"})

-----------------------------------------------------------------------------
\* The blocks: a boundary is a loop, unless it was returned or broken out of,
\* and what is left of its body is above it.
IsLoop(s, i) ==
    /\ s[i].kind = "boundary"
    /\ ~(want_loop_break /\ \A j \in 1..(i - 1) : ~IsBoundary(s[j]))

AsBlock(s, i) ==
    IF s[i].kind = "boundary"
    THEN [s[i] EXCEPT !.kind = "loop",
             !.left = IF i = 1 \/ s[i - 1].kind # "loop" \/ (tok = "test" /\ i = 2)
                      THEN 0 ELSE s[i - 1].left]
    ELSE s[i]

Block(s, i) ==
    IF s[i].kind \in {"file", "macro", "string"} \/ IsLoop(s, i)
    THEN <<AsBlock(s, i)>>
    ELSE <<>>

BlocksOf(s) == FlattenSeq([i \in 1..Len(s) |-> Block(s, i)])

Promise == INSTANCE Blocks WITH blocks <- BlocksOf(stack)

\* The boundaries and the functions that return at them do what the requests
\* promise.
Implements == Promise!BlocksSpec

\* Each of them does what that very request promises, or there are too many
\* blocks.
KeepsPromises ==
    [][/\ While_break_request => Promise!Break
       /\ While_continue_request => Promise!Continue
       /\ \A n \in 1..2 : /\ Return(n) => Promise!Return(n)
                          /\ Shift(n) => Promise!Shift(n)
       /\ Nx \/ (\E size \in Sizes, blank \in BOOLEAN : NxFile(size, blank)) =>
              Promise!Nx \/ Promise!Fail]_vars
=============================================================================
