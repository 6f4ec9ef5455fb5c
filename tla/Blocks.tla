------------------------------- MODULE Blocks -------------------------------
(* What the requests that direct the flow of input promise, in terms of the *)
(* blocks of text that are being interpreted: files, macros, strings and    *)
(* the bodies of loops, each inside the next.  There are no boundaries, no  *)
(* read-ahead and no C++ functions that must return here.                   *)
EXTENDS Integers, Sequences

CONSTANTS
    Sizes,         \* how many lines a file, a macro or a string may have
    LoopSizes,     \* how many lines the body of a loop may have
    Counts         \* how many arguments a macro may be called with

VARIABLES
    blocks,        \* the innermost first: [kind, left, args, size]
    files,         \* how many more files may be read
    phase          \* "document", "exit", "done" or "fatal"

bvars == <<blocks, files, phase>>

Block(kind, left, args, size) ==
    [kind |-> kind, left |-> left, args |-> args, size |-> size]

From(b, i) == SubSeq(b, i, Len(b))

\* The first block of a kind, or the place behind the last block.
FirstOf(b, kind) ==
    CHOOSE i \in 1..(Len(b) + 1) :
        /\ i <= Len(b) => b[i].kind = kind
        /\ \A j \in 1..(i - 1) : b[j].kind # kind

\* The innermost blocks may be left once nothing of them is left.
IsRead(block) == block.kind # "loop" /\ block.left = 0

Left(b) ==
    {From(b, i) : i \in {j \in 1..(Len(b) + 1) :
                            \A k \in 1..(j - 1) : IsRead(b[k])}}

Becomes(b) == blocks' \in Left(b)

Reading ==
    blocks # <<>> /\ blocks[1].left > 0 /\ phase \in {"document", "exit"}

\* The blocks once n lines of the innermost one were read.
After(n) == [blocks EXCEPT ![1].left = @ - n]

Line ==
    /\ Reading /\ Becomes(After(1))
    /\ UNCHANGED <<files, phase>>

\* The arguments are those of the innermost macro.
ArgsOf(b) ==
    LET i == FirstOf(b, "macro") IN IF i <= Len(b) THEN b[i].args ELSE 0

\* A call, an interpolation, a sprung trap, or so.
Enter(kind, size, args) ==
    /\ Reading /\ Becomes(<<Block(kind, size, args, size)>> \o After(1))
    /\ UNCHANGED <<files, phase>>

While(size) ==
    /\ Reading /\ size <= blocks[1].left
    /\ Becomes(<<Block("loop", 0, 0, size)>> \o After(size))
    /\ UNCHANGED <<files, phase>>

AtTest == blocks # <<>> /\ blocks[1].kind = "loop" /\ blocks[1].left = 0

Repeat ==
    /\ AtTest /\ blocks' = [blocks EXCEPT ![1].left = blocks[1].size]
    /\ UNCHANGED <<files, phase>>

Finish ==
    /\ AtTest /\ Becomes(Tail(blocks))
    /\ UNCHANGED <<files, phase>>

\* break leaves the innermost loop, and what was called in it; continue
\* has its condition tested.
InLoop == FirstOf(blocks, "loop") <= Len(blocks)

Break ==
    /\ Reading /\ InLoop
    /\ Becomes(From(blocks, FirstOf(blocks, "loop") + 1))
    /\ UNCHANGED <<files, phase>>

Continue ==
    /\ Reading /\ InLoop
    /\ blocks' = [From(blocks, FirstOf(blocks, "loop")) EXCEPT ![1].left = 0]
    /\ UNCHANGED <<files, phase>>

\* return leaves the innermost macro, and every loop of it; outside of macros
\* it leaves everything but the outermost block, a loop to be tested.
Returned(b) ==
    LET i == FirstOf(b, "macro")
        Outermost == b[Len(b)]
    IN  IF i <= Len(b) \/ b = <<>> THEN From(b, i + 1)
        ELSE IF Outermost.kind = "loop" THEN <<[Outermost EXCEPT !.left = 0]>>
        ELSE <<Outermost>>

Return(n) ==
    /\ Reading
    /\ \/ n = 1 /\ Becomes(Returned(After(1)))
       \/ n = 2 /\ Becomes(Returned(Returned(After(1))))
    /\ UNCHANGED <<files, phase>>

\* shift drops the first arguments of the innermost macro.
Shift(n) ==
    /\ Reading
    /\ LET i == FirstOf(blocks, "macro")
       IN  IF i > Len(blocks) THEN Becomes(After(1))
           ELSE Becomes([After(1) EXCEPT ![i].args = IF n < @ THEN @ - n ELSE 0])
    /\ UNCHANGED <<files, phase>>

\* nx ends the innermost file, or reads another one in its place.
EndFile(b) ==
    LET i == FirstOf(b, "file")
    IN  SubSeq(b, 1, i - 1) \o From(b, i + 1)

NextFile(b, size) ==
    LET i == FirstOf(b, "file")
    IN  SubSeq(b, 1, i - 1) \o <<Block("file", size, 0, size)>> \o From(b, i + 1)

Nx ==
    /\ Reading
    /\ \/ Becomes(EndFile(After(1))) /\ files' = files
       \/ /\ files > 0 /\ files' = files - 1
          /\ \E b \in Left(After(1)), size \in Sizes :
                /\ \/ FirstOf(After(1), "file") > Len(blocks) - Len(b)
                   \/ FirstOf(b, "file") > Len(b)
                /\ Becomes(NextFile(b, size))
    /\ UNCHANGED phase

\* ex, in the document, starts the exit; then it leaves everything.
Ex == Reading /\ blocks' = <<>> /\ phase' = "exit" /\ UNCHANGED files

\* A file of the command line, and, when all were read, the traps that are
\* sprung on the way out.
Open ==
    /\ blocks = <<>> /\ phase = "document" /\ files > 0
    /\ files' = files - 1
    /\ \E size \in Sizes : Becomes(<<Block("file", size, 0, size)>>)
    /\ UNCHANGED phase

Exit ==
    /\ blocks = <<>> /\ phase' \in {"exit", "done"}
    /\ phase = "exit" \/ (phase = "document" /\ files = 0)
    /\ \/ UNCHANGED blocks
       \/ \E size \in Sizes : Becomes(<<Block("macro", size, 0, size)>>)
    /\ UNCHANGED files

\* There are too many blocks.
Fail ==
    /\ phase \in {"document", "exit"} /\ phase' = "fatal"
    /\ UNCHANGED <<blocks, files>>

Leave ==
    /\ Becomes(blocks) /\ UNCHANGED <<files, phase>>

BlocksInit == blocks = <<>> /\ phase = "document" /\ files \in Nat

BlocksNext ==
    \/ Line \/ Repeat \/ Finish \/ Break \/ Continue \/ Nx
    \/ Ex \/ Open \/ Exit \/ Leave \/ Fail
    \/ \E n \in 1..2 : Return(n) \/ Shift(n)
    \/ \E size \in Sizes :
          \/ Enter("file", size, 0) \/ Enter("string", size, 0)
          \/ \E args \in Counts \cup {0, ArgsOf(blocks)} :
                Enter("macro", size, args)
    \/ \E size \in LoopSizes : While(size)

BlocksSpec == BlocksInit /\ [][BlocksNext]_bvars
=============================================================================
