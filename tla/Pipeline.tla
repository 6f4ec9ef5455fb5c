------------------------------ MODULE Pipeline ------------------------------
(***************************************************************************)
(* groff runs the commands of a document, preprocessors, troff, output     *)
(* driver and spooler, as processes joined by pipes, waits for them and    *)
(* summarises how they ended (run_pipeline, src/roff/groff/pipeline.c).    *)
(*                                                                         *)
(* Process 0 is groff, process j the j-th command; pipe j leads from       *)
(* command j to command j + 1.  What the commands do with their input is   *)
(* theirs: here each reads and writes in turn and may end at any time.     *)
(***************************************************************************)
EXTENDS Descriptors, FiniteSets

CONSTANTS
    N,             \* the number of commands
    Capacity,      \* what a pipe holds before a writer must wait
    Starts,        \* the descriptors groff may be started with
    ExitStatuses,  \* with which a command may exit
    Signals        \* that may end a command, besides SIGPIPE

SIGPIPE == 13
EXEC_FAILED_EXIT_STATUS == 255
FATAL_ERROR_EXIT_CODE == 3

ASSUME PipelineAssumption ==
    /\ N \in Nat \ {0} /\ Capacity \in Nat \ {0}
    /\ Starts \subseteq SUBSET Fds
    /\ ExitStatuses \subseteq 0..255
    /\ Signals \subseteq Nat

Commands == 1..N

VARIABLES
    start,      \* the table groff was started with
    noPipe,     \* no_pipe: the commands only report their versions
    phase,      \* where groff is in run_pipeline
    i,          \* the command it starts next
    mem,        \* last_input and pdes in the memory of each process
    fds,        \* the descriptors of each process
    state,      \* of each command
    outcome,    \* its wait status
    pids,       \* the commands whose pid groff has recorded
    count,      \* proc_count
    ret,        \* the bits of ret
    strangers,  \* children groff has without having started them
    ran,        \* history: the commands that were executed
    buffer,     \* what each pipe holds
    busy        \* whether a command has read something it will write

kernel == <<buffer, busy>>
parent == <<phase, i, pids, count, ret, strangers>>
vars == <<start, noPipe, parent, mem, fds, state, outcome, ran, kernel>>

Exited(status) == [how |-> "exit", value |-> status]
KilledBy(signal) == [how |-> "signal", value |-> signal]
NotYet == [how |-> "not yet", value |-> 0]

Init ==
    /\ \E S \in Starts :
          start = [d \in Fds |-> IF d \in S THEN Inherited(d) ELSE Closed]
    /\ noPipe \in BOOLEAN
    /\ phase = "start" /\ i = 1
    /\ mem = [j \in 0..N |-> [last |-> 0, r |-> 0, w |-> 0]]
    /\ fds = [j \in 0..N |-> IF j = 0 THEN start ELSE NoFiles]
    /\ state = [j \in Commands |-> "none"]
    /\ outcome = [j \in Commands |-> NotYet]
    /\ pids = {} /\ count = N /\ ret = {}
    /\ strangers \in 0..1
    /\ ran = {}
    /\ buffer = [j \in Commands |-> 0]
    /\ busy = [j \in Commands |-> FALSE]

-----------------------------------------------------------------------------
(* groff starts the commands.                                              *)

\* A pipe follows each command but the last.
Piped(j) == j # N /\ ~noPipe

\* The table of groff with the pipe that follows command i.
PipeFds ==
    LET r == Lowest(fds[0])
    IN  [r |-> r, w |-> Lowest([fds[0] EXCEPT ![r] = ReadEnd(i)])]

WithPipe(m) == [fds[0] EXCEPT ![m.r] = ReadEnd(i), ![m.w] = WriteEnd(i)]

\* groff dies of an error, and the kernel closes its descriptors.
Fatal ==
    /\ phase' = "fatal"
    /\ fds' = [fds EXCEPT ![0] = NoFiles]

\* The memory and the descriptors of groff as they are when it forks.
Fork(m, t) ==
    /\ mem' = [mem EXCEPT ![0] = m, ![i] = m]
    /\ fds' = [fds EXCEPT ![0] = t, ![i] = t]
    /\ state' = [state EXCEPT ![i] = "forked"]
    /\ phase' = "forked"

\* pipe and fork.
Spawn ==
    /\ phase = "start"
    /\ \/ /\ Piped(i) /\ CanPipe(fds[0])
          /\ LET m == [mem[0] EXCEPT !.r = PipeFds.r, !.w = PipeFds.w]
             IN  Fork(m, WithPipe(m))
       \/ ~Piped(i) /\ Fork(mem[0], fds[0])
    /\ UNCHANGED <<start, noPipe, i, pids, count, ret, strangers, outcome, ran,
                   kernel>>

\* pipe or fork fails.
SpawnFails ==
    /\ phase = "start"
    /\ Fatal
    /\ UNCHANGED <<start, noPipe, i, pids, count, ret, strangers, mem, state,
                   outcome, ran, kernel>>

\* Slip: the last command is looked for too late.
IsLastLate(j) == j > N

IsLast(j) == j = N

\* Slip: the reading end of the pipe before the command stays open.
ParentClosesWriteEnd(c, m) == IF Piped(i) THEN Close(c, m.w) ELSE c

\* What groff closes after the fork.
ParentCloses(c, m) ==
    LET b == IF m.last # 0 THEN Close(c, m.last) ELSE c
    IN  IF Piped(i) THEN Close(b, m.w) ELSE b

Record ==
    LET c == ParentCloses(Calls(fds[0]), mem[0])
    IN  /\ phase = "forked"
        /\ \/ /\ c.ok
              /\ fds' = [fds EXCEPT ![0] = c.table]
              /\ mem' = [mem EXCEPT ![0].last = IF Piped(i) THEN mem[0].r ELSE @]
              /\ pids' = pids \cup {i}
              /\ i' = i + 1
              /\ phase' = IF IsLast(i) THEN "wait" ELSE "start"
           \/ ~c.ok /\ Fatal /\ UNCHANGED <<mem, pids, i>>
        /\ UNCHANGED <<start, noPipe, count, ret, strangers, state, outcome, ran,
                       kernel>>

-----------------------------------------------------------------------------
(* A command.                                                              *)

\* How the commands J end; the kernel closes their descriptors.
End(J, how) ==
    /\ state' = [j \in Commands |-> IF j \in J THEN "ended" ELSE state[j]]
    /\ outcome' = [j \in Commands |-> IF j \in J THEN how ELSE outcome[j]]
    /\ fds' = [j \in 0..N |-> IF j \in J THEN NoFiles ELSE fds[j]]

\* Slip: the child keeps the reading end of the pipe that follows it.
SetUpKeepsReadEnd(j, c) ==
    LET b == IF mem[j].last # 0 THEN Redirect(c, mem[j].last, 0) ELSE c
    IN  IF Piped(j) THEN Redirect(b, mem[j].w, 1) ELSE b

\* What the child does with its descriptors before it becomes the command.
SetUp(j, c) ==
    LET b == IF mem[j].last # 0 THEN Redirect(c, mem[j].last, 0) ELSE c
    IN  IF Piped(j) THEN Close(Redirect(b, mem[j].w, 1), mem[j].r) ELSE b

\* execvp succeeds, ...
Exec(j) ==
    LET c == SetUp(j, Calls(fds[j]))
    IN  /\ state[j] = "forked" /\ c.ok
        /\ state' = [state EXCEPT ![j] = "running"]
        /\ fds' = [fds EXCEPT ![j] = c.table]
        /\ ran' = ran \cup {j}
        /\ UNCHANGED <<start, noPipe, parent, mem, outcome, kernel>>

\* ... or it fails, or a call before it does.
ExecFails(j) ==
    /\ state[j] = "forked"
    /\ End({j}, IF SetUp(j, Calls(fds[j])).ok
                THEN Exited(EXEC_FAILED_EXIT_STATUS)
                ELSE Exited(FATAL_ERROR_EXIT_CODE))
    /\ UNCHANGED <<start, noPipe, parent, mem, ran, kernel>>

Held(file) == \E j \in 0..N, d \in Fds : fds[j][d] = file

\* A read returns when there is data or nobody is left to write any, a write
\* when there is room or nobody is left to read.
ReadReturns(file) ==
    file.end = "read" => buffer[file.n] > 0 \/ ~Held(WriteEnd(file.n))

WriteReturns(file) ==
    file.end = "write" => buffer[file.n] < Capacity \/ ~Held(ReadEnd(file.n))

\* A command reads a part of its input, or ends when there is no more or it
\* cannot read.  The first command reads the files it is given, or the
\* standard input of groff.
Read(j) ==
    LET file == fds[j][0]
        piped == file.end = "read"
    IN  /\ state[j] = "running" /\ ~busy[j] /\ ReadReturns(file)
        /\ \/ /\ piped => buffer[file.n] > 0
              /\ piped \/ file.end = "inherited" \/ j = 1
              /\ buffer' = IF piped THEN [buffer EXCEPT ![file.n] = @ - 1]
                           ELSE buffer
              /\ busy' = [busy EXCEPT ![j] = TRUE]
              /\ UNCHANGED <<fds, state, outcome>>
           \/ /\ piped => buffer[file.n] = 0
              /\ End({j}, Exited(IF file = Closed /\ j # 1 THEN 1 ELSE 0))
              /\ UNCHANGED kernel
        /\ UNCHANGED <<start, noPipe, parent, mem, ran>>

\* A command writes what it made of it, or is killed by SIGPIPE when nobody
\* can read that; who reads the output of groff may have gone, too.
Write(j) ==
    LET file == fds[j][1]
        piped == file.end = "write"
    IN  /\ state[j] = "running" /\ busy[j] /\ WriteReturns(file)
        /\ \/ /\ piped => Held(ReadEnd(file.n))
              /\ piped \/ file.end = "inherited"
              /\ buffer' = IF piped THEN [buffer EXCEPT ![file.n] = @ + 1]
                           ELSE buffer
              /\ busy' = [busy EXCEPT ![j] = FALSE]
              /\ UNCHANGED <<fds, state, outcome>>
           \/ /\ piped => ~Held(ReadEnd(file.n))
              /\ End({j}, IF piped \/ file.end = "inherited"
                          THEN KilledBy(SIGPIPE) ELSE Exited(1))
              /\ UNCHANGED kernel
        /\ UNCHANGED <<start, noPipe, parent, mem, ran>>

\* A command ends of itself, or is killed.
Quit(j) ==
    /\ state[j] = "running"
    /\ \/ \E status \in ExitStatuses : End({j}, Exited(status))
       \/ \E signal \in Signals : End({j}, KilledBy(signal))
    /\ UNCHANGED <<start, noPipe, parent, mem, ran, kernel>>

-----------------------------------------------------------------------------
(* groff waits for the commands.                                           *)

\* The bits of ret: 1 for a command that exited unsuccessfully, 2 for one
\* that was killed, 4 for one that could not be executed.
Bits(how) ==
    CASE how.how = "signal"                    -> {2}
      [] how = Exited(EXEC_FAILED_EXIT_STATUS) -> {4}
      [] how = Exited(0)                       -> {}
      [] OTHER                                 -> {1}

\* Slip: the pid stays in the array.
ForgetNot(j) == pids

\* pids[i] = -1
Forget(j) == pids \ {j}

\* wait returns for a command: if it is the last and was ended by SIGPIPE,
\* SIGPIPE is sent to all the others that are recorded.
Reap(j) ==
    /\ phase = "wait" /\ count > 0
    /\ state[j] = "ended"
    /\ pids' = Forget(j)
    /\ count' = count - 1
    /\ ret' = ret \cup Bits(outcome[j])
    /\ LET killed == IF IsLast(j) /\ outcome[j] = KilledBy(SIGPIPE)
                     THEN {k \in pids' : state[k] \in {"forked", "running"}}
                     ELSE {}
       IN  /\ state' = [k \in Commands |-> IF k = j THEN "reaped"
                                           ELSE IF k \in killed THEN "ended"
                                           ELSE state[k]]
           /\ outcome' = [k \in Commands |-> IF k \in killed
                                             THEN KilledBy(SIGPIPE)
                                             ELSE outcome[k]]
           /\ fds' = [k \in 0..N |-> IF k \in killed THEN NoFiles ELSE fds[k]]
    /\ UNCHANGED <<start, noPipe, phase, i, mem, strangers, ran, kernel>>

\* Slip: any child is counted.
CountOfStranger == count - 1

\* wait returns for a child groff has inherited from the program that became
\* groff: it is not in pids.
CountAfterStranger == count

ReapStranger ==
    /\ phase = "wait" /\ count > 0
    /\ strangers > 0
    /\ strangers' = strangers - 1
    /\ count' = CountAfterStranger
    /\ UNCHANGED <<start, noPipe, phase, i, pids, ret, mem, fds, state, outcome,
                   ran, kernel>>

\* groff exits with ret shifted by two.
Return ==
    /\ phase = "wait" /\ count = 0
    /\ phase' = "returned"
    /\ fds' = [fds EXCEPT ![0] = NoFiles]
    /\ UNCHANGED <<start, noPipe, i, pids, count, ret, strangers, mem, state,
                   outcome, ran, kernel>>

Groff == Spawn \/ SpawnFails \/ Record \/ Return \/ \E j \in Commands : Reap(j)

Command(j) == Exec(j) \/ ExecFails(j) \/ Read(j) \/ Write(j)

Next ==
    \/ Groff \/ ReapStranger
    \/ \E j \in Commands : Command(j) \/ Quit(j)

\* The kernel runs every process that does not wait: WF_vars(Groff) and
\* WF_vars(Command(j)), with the states in which they can go on named instead
\* of computed.  Nothing makes a command quit or a stranger end.
GroffGoes ==
    \/ phase \in {"start", "forked"}
    \/ phase = "wait" /\ (count = 0 \/ \E j \in Commands : state[j] = "ended")

CommandGoes(j) ==
    \/ state[j] = "forked"
    \/ /\ state[j] = "running"
       /\ IF busy[j] THEN WriteReturns(fds[j][1]) ELSE ReadReturns(fds[j][0])

Fairness ==
    /\ []<><<Groff>>_vars \/ []<>~GroffGoes
    /\ \A j \in Commands : []<><<Command(j)>>_vars \/ []<>~CommandGoes(j)

Spec == Init /\ [][Next]_vars /\ Fairness

-----------------------------------------------------------------------------
TypeOK ==
    /\ start \in Tables
    /\ noPipe \in BOOLEAN
    /\ phase \in {"start", "forked", "wait", "returned", "fatal"}
    /\ i \in 1..(N + 1)
    /\ mem \in [0..N -> [last : Fds, r : Fds, w : Fds]]
    /\ fds \in [0..N -> Tables]
    /\ state \in [Commands -> {"none", "forked", "running", "ended", "reaped"}]
    /\ outcome \in [Commands -> [how : {"not yet", "exit", "signal"}, value : Nat]]
    /\ pids \subseteq Commands
    /\ ran \subseteq Commands
    /\ count \in 0..N
    /\ ret \subseteq {1, 2, 4}
    /\ strangers \in 0..1
    /\ buffer \in [Commands -> 0..Capacity]
    /\ busy \in [Commands -> BOOLEAN]

\* The descriptors command j is to run with.
Intended(j) ==
    [d \in Fds |-> IF d = 0 /\ j # 1 /\ ~noPipe THEN ReadEnd(j - 1)
                   ELSE IF d = 1 /\ Piped(j) THEN WriteEnd(j)
                   ELSE start[d]]

\* Whatever the order of forks, closes and setups, if groff was started with
\* its standard input and output open, a command reads from its predecessor,
\* writes to its successor and has no other end of a pipe; once all are
\* started, neither has groff.
Plumbed ==
    start[0] # Closed /\ start[1] # Closed =>
        /\ \A j \in Commands : state[j] = "running" => fds[j] = Intended(j)
        /\ phase = "wait" => fds[0] = start

\* groff sends signals only to commands it has not reaped: their pids are
\* still theirs.
PidsAreLive == \A j \in pids : state[j] # "reaped"

\* The problems there were, as bits.
HowTheyEnded ==
    LET exited(j) == outcome[j].how = "exit" /\ outcome[j].value # 0
    IN  {b \in {1, 2, 4} :
           \E j \in Commands : CASE b = 1 -> exited(j) /\ j \in ran
                                 [] b = 2 -> outcome[j].how = "signal"
                                 [] b = 4 -> exited(j) /\ j \notin ran}

\* When groff returns, every command has ended, and the exit status "encodes
\* a summary of problems encountered", one bit each for "a command exited with
\* a failure status", "was terminated by a signal" and "could not be executed".
StatusSummarises ==
    phase = "returned" =>
        /\ \A j \in Commands : state[j] = "reaped"
        /\ ret = HowTheyEnded

AllOver ==
    /\ phase \in {"returned", "fatal"}
    /\ \A j \in Commands : state[j] \in {"none", "ended", "reaped"}

\* Until groff and all commands have ended, one of them can go on: they never
\* all wait for one another.
NoneIsStuck == AllOver \/ GroffGoes \/ \E j \in Commands : CommandGoes(j)

Breaks == phase = "fatal" \/ \E j \in Commands : state[j] = "ended"

\* Once a command has ended, or groff has given up, all of them end: none
\* waits for ever to write to a command that is gone or to read what nobody
\* will write.
PipelineDrains == ~noPipe /\ Breaks ~> AllOver
=============================================================================
