----------------------------- MODULE Descriptors ----------------------------
(***************************************************************************)
(* The table of file descriptors of a process, and the calls by which      *)
(* run_pipeline (src/roff/groff/pipeline.c) arranges it: close, dup and    *)
(* pipe, which all take the lowest descriptors that are free.              *)
(***************************************************************************)
EXTENDS Integers

CONSTANT MaxFd         \* the greatest descriptor a process may have

ASSUME DescriptorsAssumption == MaxFd \in Nat /\ MaxFd >= 1

Fds == 0..MaxFd

\* What a descriptor may stand for: the end of a pipe, or a file the program
\* was started with.
File(end, n) == [end |-> end, n |-> n]
ReadEnd(p) == File("read", p)
WriteEnd(p) == File("write", p)
Inherited(d) == File("inherited", d)
Closed == File("closed", 0)

Files == [end : {"read", "write", "inherited", "closed"}, n : Nat]
Tables == [Fds -> Files]

\* The table of a process that has ended, or that does not exist yet.
NoFiles == [d \in Fds |-> Closed]

Free(t) == {d \in Fds : t[d] = Closed}

Lowest(t) == CHOOSE d \in Free(t) : \A e \in Free(t) : d <= e

\* pipe: two free descriptors, or an error.
CanPipe(t) == \E d, e \in Free(t) : d # e

\* A sequence of calls on a table, up to the first that fails.
Calls(t) == [table |-> t, ok |-> TRUE]

Failed(c) == [c EXCEPT !.ok = FALSE]

Close(c, d) ==
    IF c.ok /\ c.table[d] # Closed
    THEN [c EXCEPT !.table[d] = Closed]
    ELSE Failed(c)

Dup(c, d) ==
    IF c.ok /\ c.table[d] # Closed /\ Free(c.table) # {}
    THEN [c EXCEPT !.table[Lowest(c.table)] = c.table[d]]
    ELSE Failed(c)

\* close(to); dup(from); close(from): the idiom that puts a descriptor in the
\* place of the standard input or output.
Redirect(c, from, to) == Close(Dup(Close(c, to), from), from)
=============================================================================
