------------------------------ MODULE TptbmSync ------------------------------
(***************************************************************************)
(* The shared-memory handshake of the classic tptbm.c benchmark: a parent  *)
(* process (0) and the children it has forked agree, through one 'state'   *)
(* word per child, on when to start, when to measure and when to stop, and *)
(* the parent adds up the transaction counts the children left in shared   *)
(* memory.  There is no lock: parent and child both write a child's word.  *)
(*                                                                         *)
(* An action is the code of one process between two accesses to the shared *)
(* words that the other side could come between.  A loop of the parent     *)
(* over its children is one action: each child touches only its own word.  *)
(***************************************************************************)
EXTENDS Integers

CONSTANTS
    NProc,      \* -proc
    Args,       \* the option sets to start with: [duration, rampup, rampdown]
    NumXacts,   \* -xact
    MaxXacts,   \* bound: transactions a process counts in duration mode
    MaxErrors,  \* bound: database errors and warnings that processes meet
    CtrlC,      \* may the user interrupt the benchmark?
    Prompt      \* does a child look at its word within a phase of the parent?

ASSUME TptbmAssumption ==
    /\ NProc \in Nat /\ NProc >= 2
    /\ Args \subseteq [duration : BOOLEAN, rampup : BOOLEAN, rampdown : BOOLEAN]
    /\ \A a \in Args : ~a.duration => ~a.rampup /\ ~a.rampdown
    /\ NumXacts \in Nat \ {0}
    /\ MaxXacts \in Nat
    /\ MaxErrors \in Nat
    /\ CtrlC \in BOOLEAN /\ Prompt \in BOOLEAN

Procs    == 0..(NProc - 1)
Children == 1..(NProc - 1)

INITIALIZED == 0
READY       == 1
SET         == 2
GO          == 3
RUNNING     == 4
STARTBENCH  == 5
MEASURING   == 6
STOPBENCH   == 7
STOPPING    == 8
STOP        == 9
END         == 10
ERROR       == 11

VARIABLES
    args,         \* the options the benchmark was started with
    state, xacts, \* shared memory: shmhdr[p].state and shmhdr[p].xacts
    i,            \* the transaction counter of each process
    pc,           \* where each process is
    seen,         \* the command a child has read and not yet answered
    phase,        \* parent: "rampup", "measure", "over" or "rampdown"
    timeup,       \* is duration_target over?
    fatalerror,   \* parent: a child failed, do not report
    reported,     \* parent: the rate has been printed
    interrupted,  \* sigReceived # 0: Ctrl-C reaches every process
    errors,       \* errors and warnings met
    warned,       \* history: processes that said ERROR and went on
    mark          \* history: transactions executed in phase "measure", while
                  \* nothing goes wrong

shared  == <<state, xacts>>
parent  == <<phase, timeup, fatalerror, reported>>
world   == <<args, interrupted, errors, warned>>
vars    == <<args, state, xacts, i, pc, seen, phase, timeup, fatalerror,
             reported, interrupted, errors, warned, mark>>

NoMark == [p \in Procs |-> 0]

Init ==
    /\ args \in Args
    /\ state = [p \in Procs |-> INITIALIZED] /\ xacts = [p \in Procs |-> 0]
    /\ i = [p \in Procs |-> 0]
    /\ pc = [p \in Procs |-> "init"]
    /\ seen = [p \in Procs |-> INITIALIZED]
    /\ phase = IF args.rampup THEN "rampup" ELSE "measure"
    /\ timeup = FALSE /\ fatalerror = FALSE /\ reported = FALSE
    /\ interrupted = FALSE /\ errors = 0 /\ warned = {}
    /\ mark = NoMark

At(p, where)   == pc[p] = where
GoTo(p, where) == pc' = [pc EXCEPT ![p] = where]

\* What the parent writes to every child.
Tell(command) ==
    state' = [p \in Procs |-> IF p \in Children THEN command ELSE state[p]]

ChildFailed == \E c \in Children : state[c] = ERROR

-----------------------------------------------------------------------------
(* Starting.                                                               *)

\* Connect and prepare.
Initialise(p) ==
    /\ At(p, "init")
    /\ GoTo(p, "barrier")
    /\ UNCHANGED <<shared, i, seen, parent, world, mark>>

\* The parent gives up: skip to finish_loop without a report.
GiveUp ==
    /\ fatalerror' = TRUE
    /\ GoTo(0, "finish")
    /\ UNCHANGED <<shared, i, seen, phase, timeup, reported, world, mark>>

CheckChildren ==
    /\ At(0, "barrier")
    /\ IF ChildFailed THEN GiveUp
       ELSE GoTo(0, "ready") /\ UNCHANGED <<shared, i, seen, parent, world, mark>>

ReadyChildren ==
    /\ At(0, "ready")
    /\ Tell(READY)
    /\ GoTo(0, "pollset")
    /\ UNCHANGED <<xacts, i, seen, parent, world, mark>>

\* A child waits to be readied, then answers.
AnswerReady(c) ==
    /\ At(c, "barrier") /\ state[c] >= READY
    /\ state' = [state EXCEPT ![c] = SET]
    /\ GoTo(c, "set")
    /\ UNCHANGED <<xacts, i, seen, parent, world, mark>>

\* Mutant: the parent is content with one child.
AnySet == \E c \in Children : state[c] = SET

AllSet == \A c \in Children : state[c] = SET

PollSet ==
    /\ At(0, "pollset")
    /\ ChildFailed \/ AllSet
    /\ IF ChildFailed THEN GiveUp
       ELSE GoTo(0, "go") /\ UNCHANGED <<shared, i, seen, parent, world, mark>>

StartChildren ==
    /\ At(0, "go")
    /\ Tell(IF args.rampup THEN GO ELSE STARTBENCH)
    /\ GoTo(0, "top")
    /\ UNCHANGED <<xacts, i, seen, parent, world, mark>>

\* A child waits to be started; if it is told GO it will answer RUNNING.
SeeGo(c) ==
    /\ At(c, "set") /\ state[c] >= GO
    /\ GoTo(c, IF state[c] = GO THEN "running" ELSE "top")
    /\ UNCHANGED <<shared, i, seen, parent, world, mark>>

AnswerRunning(c) ==
    /\ At(c, "running")
    /\ state' = [state EXCEPT ![c] = RUNNING]
    /\ GoTo(c, "top")
    /\ UNCHANGED <<xacts, i, seen, parent, world, mark>>

-----------------------------------------------------------------------------
(* The transaction loop.                                                   *)

\* Transaction mode: the counter is published at the top of the loop.
TopXact(p) ==
    /\ At(p, "top") /\ ~args.duration
    /\ IF i[p] < NumXacts
       THEN GoTo(p, "work") /\ xacts' = [xacts EXCEPT ![p] = i[p]]
       ELSE GoTo(p, "finish") /\ UNCHANGED xacts
    /\ UNCHANGED <<state, i, seen, parent, world, mark>>

\* Mutant: the counter keeps the ramp-up transactions.
KeptCounter(c) == i

ResetCounter(c) == [i EXCEPT ![c] = 0]

\* Mutant: a child does not look for STOP.
BenchCommands == {STARTBENCH, STOPBENCH}

\* What a child looks for in the loop.
Commands == {STARTBENCH, STOPBENCH, STOP}

\* Duration mode: a child reads its word; STARTBENCH resets its counter,
\* STOPBENCH publishes it.  The answer is a later write.
ChildPoll(c) ==
    /\ At(c, "top") /\ args.duration
    /\ seen' = [seen EXCEPT ![c] = state[c]]
    /\ i' = IF state[c] = STARTBENCH THEN ResetCounter(c) ELSE i
    /\ xacts' = IF state[c] = STOPBENCH THEN [xacts EXCEPT ![c] = i[c]] ELSE xacts
    /\ GoTo(c, IF state[c] \in Commands THEN "answer" ELSE "work")
    /\ UNCHANGED <<state, parent, world, mark>>

ChildAnswer(c) ==
    /\ At(c, "answer")
    /\ state' = [state EXCEPT ![c] = IF seen[c] = STARTBENCH THEN MEASURING
                                                             ELSE STOPPING]
    /\ GoTo(c, IF seen[c] = STOP THEN "finish" ELSE "work")
    /\ UNCHANGED <<xacts, i, seen, parent, world, mark>>

\* The parent looks at the clock.  When a phase is over it checks the
\* children, and then tells them.
ParentPoll ==
    /\ At(0, "top") /\ args.duration
    /\ IF timeup /\ ChildFailed THEN GiveUp
       ELSE /\ i' = IF timeup /\ phase = "rampup" THEN [i EXCEPT ![0] = 0] ELSE i
            /\ state' = IF timeup /\ phase = "rampup"
                        THEN [state EXCEPT ![0] = MEASURING] ELSE state
            /\ xacts' = IF timeup /\ phase = "measure"
                        THEN [xacts EXCEPT ![0] = i[0]] ELSE xacts
            /\ GoTo(0, CASE ~timeup                        -> "work"
                         [] timeup /\ phase = "rampup"     -> "startbench"
                         [] timeup /\ phase = "measure"    -> "stopbench"
                         [] OTHER                          -> "stop")
            /\ UNCHANGED <<seen, parent, world, mark>>

StartBench ==
    /\ At(0, "startbench")
    /\ Tell(STARTBENCH)
    /\ phase' = "measure"
    /\ timeup' = FALSE
    /\ mark' = NoMark
    /\ GoTo(0, "work")
    /\ UNCHANGED <<xacts, i, seen, fatalerror, reported, world>>

\* Without a ramp-down the children are told to stop at once.
StopBench ==
    /\ At(0, "stopbench")
    /\ Tell(STOPBENCH)
    /\ IF args.rampdown
       THEN phase' = "rampdown" /\ timeup' = FALSE /\ GoTo(0, "work")
       ELSE phase' = "over" /\ GoTo(0, "stop") /\ UNCHANGED timeup
    /\ UNCHANGED <<xacts, i, seen, fatalerror, reported, world, mark>>

StopChildren ==
    /\ At(0, "stop")
    /\ Tell(STOP)
    /\ GoTo(0, "finish")
    /\ UNCHANGED <<xacts, i, seen, parent, world, mark>>

\* One transaction.  At the bound MaxXacts a process idles, as it may when
\* throttled, and still goes round its loop.
Work(p) ==
    /\ At(p, "work") /\ ~interrupted
    /\ IF args.duration /\ i[p] >= MaxXacts THEN UNCHANGED <<i, mark>>
       ELSE /\ i' = [i EXCEPT ![p] = @ + 1]
            /\ mark' = IF phase = "measure" /\ errors = 0 THEN [mark EXCEPT ![p] = @ + 1]
                       ELSE mark
    /\ GoTo(p, "top")
    /\ UNCHANGED <<shared, seen, parent, world>>

-----------------------------------------------------------------------------
(* Ending.                                                                 *)

\* finish_loop
Finish(p) ==
    /\ At(p, "finish")
    /\ state' = [state EXCEPT ![p] = IF @ = ERROR THEN ERROR ELSE END]
    /\ GoTo(p, IF p = 0 THEN "wait" ELSE "cleanup")
    /\ UNCHANGED <<xacts, i, seen, parent, world, mark>>

\* Mutant: the comparison is one command too low.
ChildStopping(c) == At(c, "gone") \/ state[c] >= STOP

\* Has waitpid returned the child, or has the child said that it is done?
ChildDone(c) == At(c, "gone") \/ state[c] >= END

WaitChildren ==
    /\ At(0, "wait")
    /\ \A c \in Children : ChildDone(c)
    /\ reported' = ~fatalerror
    /\ GoTo(0, "cleanup")
    /\ UNCHANGED <<shared, i, seen, phase, timeup, fatalerror, world, mark>>

Cleanup(p) ==
    /\ At(p, "cleanup")
    /\ GoTo(p, "gone")
    /\ UNCHANGED <<shared, i, seen, parent, world, mark>>

\* Mutant: a child that waits to be readied does not look for a signal.
FewerStopChecks == {"init", "pollset", "set", "work"}

\* Where a process calls StopRequested().
StopChecks == {"init", "barrier", "pollset", "set", "work"}

\* StopRequested() is true where the process looks: it goes to 'cleanup'.
Leave(p) ==
    /\ interrupted
    /\ pc[p] \in StopChecks
    /\ GoTo(p, "cleanup")
    /\ UNCHANGED <<shared, i, seen, parent, world, mark>>

\* The places where a process calls the database.
Calling == {"init", "work", "cleanup"}

\* A database call does not return SQL_SUCCESS: PROC_ERROR is left in the word.
SaysError(p) ==
    /\ errors < MaxErrors /\ errors' = errors + 1
    /\ pc[p] \in Calling
    /\ state' = [state EXCEPT ![p] = ERROR]
    /\ mark' = NoMark
    /\ UNCHANGED <<xacts, i, seen, parent, args, interrupted>>

\* It was an error: handle_errors exits.
Fail(p) == SaysError(p) /\ GoTo(p, "gone") /\ UNCHANGED warned

\* It was a warning, or no row: handle_errors returns, and the process goes on
\* with PROC_ERROR in its word.
Warn(p) ==
    /\ SaysError(p) /\ ~interrupted
    /\ warned' = warned \cup {p}
    /\ UNCHANGED pc

Interrupt ==
    /\ CtrlC /\ ~interrupted
    /\ interrupted' = TRUE
    /\ mark' = NoMark
    /\ UNCHANGED <<shared, i, pc, seen, parent, args, errors, warned>>

\* A child that is Prompt has answered before the phase is over.
Answered(c) == At(c, "gone") \/ state[c] \notin {GO, STARTBENCH, STOPBENCH}

\* Time passes: duration_diff reaches duration_target.
Tick ==
    /\ args.duration /\ ~timeup /\ pc[0] \in {"top", "work"}
    /\ Prompt => \A c \in Children : Answered(c)
    /\ timeup' = TRUE
    /\ UNCHANGED <<shared, i, pc, seen, phase, fatalerror, reported, world, mark>>

Child(c) ==
    \/ Initialise(c) \/ AnswerReady(c) \/ SeeGo(c) \/ AnswerRunning(c)
    \/ TopXact(c) \/ ChildPoll(c) \/ ChildAnswer(c) \/ Work(c)
    \/ Finish(c) \/ Cleanup(c) \/ Leave(c)

Parent ==
    \/ Initialise(0) \/ CheckChildren \/ ReadyChildren \/ PollSet \/ StartChildren
    \/ TopXact(0) \/ ParentPoll \/ StartBench \/ StopBench \/ StopChildren
    \/ Work(0) \/ Finish(0) \/ WaitChildren \/ Cleanup(0) \/ Leave(0)

AllGone == \A p \in Procs : At(p, "gone")
Ended   == AllGone /\ UNCHANGED vars

Next ==
    \/ Parent
    \/ \E c \in Children : Child(c)
    \/ \E p \in Procs : Fail(p) \/ Warn(p)
    \/ Interrupt \/ Tick \/ Ended

Spec == Init /\ [][Next]_vars

\* The operating system runs every process, and time passes.
FairSpec ==
    /\ Spec
    /\ WF_vars(Parent)
    /\ \A c \in Children : WF_vars(Child(c))
    /\ WF_vars(Tick)

-----------------------------------------------------------------------------
(* Properties.                                                             *)

Running == {"running", "top", "answer", "work", "startbench", "stopbench",
            "stop", "finish", "wait"}

\* Every variable has its type.  The parent's own word is never a command:
\* its loops over the children begin at 1.
TypeOK ==
    /\ args \in Args
    /\ state \in [Procs -> INITIALIZED..ERROR]
    /\ state[0] \in {INITIALIZED, MEASURING, END, ERROR}
    /\ xacts \in [Procs -> Nat] /\ i \in [Procs -> Nat]
    /\ mark \in [Procs -> Nat]
    /\ pc \in [Procs -> Running \cup
                 {"init", "barrier", "ready", "pollset", "set", "go", "cleanup",
                  "gone"}]
    /\ seen \in [Procs -> INITIALIZED..ERROR]
    /\ phase \in {"rampup", "measure", "over", "rampdown"}
    /\ timeup \in BOOLEAN /\ fatalerror \in BOOLEAN
    /\ reported \in BOOLEAN /\ interrupted \in BOOLEAN
    /\ errors \in 0..MaxErrors /\ warned \subseteq Procs

\* The barrier: no process executes a transaction while a child is still
\* connecting or has not seen READY, whatever child failed and although the
\* parent's writes may wipe out a child's.
StartTogether ==
    \A p \in Procs, c \in Children :
        pc[p] \in Running \ {"finish", "wait"} => pc[c] \notin {"init", "barrier"}

\* The parent reports only after every child that has not met a warning has
\* left its loop, even when a command of the parent has overwritten what a
\* child had written, and whatever the other processes said.
ReportAfterAll ==
    reported => \A c \in Children \ warned : pc[c] \in {"cleanup", "gone"}

\* "main/parent process waits for all sub-processes to complete" (comment in
\* finish_loop), also for those that met a warning.
WaitsForAll ==
    reported => \A c \in Children : pc[c] \in {"cleanup", "gone"}

\* The count a process contributes to the report is the number of
\* transactions it executed while the parent was measuring, up to one at
\* each end of the window: ramp-up and ramp-down transactions are not
\* counted, and no process is left out.
WindowCounted ==
    reported /\ ~interrupted /\ errors = 0 =>
        \A p \in Procs : xacts[p] \in (mark[p] - 1)..(mark[p] + 1)

\* If no process meets an error the benchmark ends.
Terminates == <>(AllGone \/ errors > 0)

\* Ctrl-C ends every process, whatever failed before or fails after.
InterruptEnds == interrupted ~> AllGone

\* "PROC_ERROR: C -> P: finished, ERROR": a child that failed is a child that
\* completed, so the parent ends.
ParentEnds == <>At(0, "gone")

\* "-xact: the number of transactions that each process should run": the
\* reported rate counts them all.
AllXactsCounted ==
    reported /\ ~args.duration /\ ~interrupted /\ errors = 0 =>
        \A p \in Procs : xacts[p] = NumXacts
=============================================================================
