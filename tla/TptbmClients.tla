---------------------------- MODULE TptbmClients ----------------------------
(***************************************************************************)
(* tptbmOCI.c and tptbmODPI.c: the benchmark of tptbm.c through OCI and    *)
(* through ODPI-C.  A parent forks its children after it has created a     *)
(* segment of shared memory with a word for every process; it sets the     *)
(* words to 1 to start the benchmark, and a process sets its own back to 0 *)
(* at the end.                                                             *)
(*                                                                         *)
(* The program is run several times in a row, with the same options.  The  *)
(* OCI program finds its segment by a key that is the same in every run,   *)
(* and leaves it behind unless it ends well; its children may outlive it.  *)
(* A process is <<run, number>>, number 0 the parent.                      *)
(***************************************************************************)
EXTENDS Integers, FiniteSets

CONSTANTS
    Options,       \* the programs and their command lines
    NumRuns,
    MaxErrors      \* bound: calls that fail

Kinds == {"read", "insert", "update", "delete"}

ASSUME ClientsAssumption ==
    /\ Options \subseteq
           [api : {"oci", "odpi"}, procs : Nat \ {0}, key : Nat \ {0},
            xacts : Nat \ {0}, min : Nat \ {0}, max : Nat \ {0},
            share : [Kinds -> 0..100], multiop : BOOLEAN,
            build : {"default", "build", "nobuild"}]
    /\ NumRuns \in Nat \ {0} /\ MaxErrors \in Nat

\* There is a greatest number of processes (num_processes is an int).
ASSUME ProcsAssumption ==
    \E n \in {o.procs : o \in Options} : \A o \in Options : o.procs <= n

MaxProcs == CHOOSE n \in {o.procs : o \in Options} : \A o \in Options : o.procs <= n

Runs      == 1..NumRuns
Processes == Runs \X (0..(MaxProcs - 1))
Parents   == Runs \X {0}
Children  == Processes \ Parents

VARIABLES
    opt,           \* of all runs; -ops of ODPI is opt.max
    pc,            \* of each process
    keyed,         \* the segment that the key finds, 0: none
    seg,           \* the segment of each run, 0: none
    shm,           \* the words of each segment
    at,            \* of each run: the child the parent's loop is at
    left,          \* operations left in the transaction
    xact,          \* transactions executed
    insertAt,      \* <<insert_start, insert_present>>
    deleteAt,      \* <<delete_start, delete_present>>
    touched,       \* rows each process has inserted and deleted
    dirty,         \* its session has uncommitted changes
    started, reported,   \* runs whose parent has set the words, and reported
    errors

memory  == <<keyed, seg, shm>>
work    == <<left, xact, insertAt, deleteAt, touched, dirty>>
history == <<started, reported>>
vars    == <<opt, pc, memory, at, work, history, errors>>

\* -multiop: 1 insert, 3 reads, 1 update.
MultiopShare == [k \in Kinds |->
    CASE k = "read" -> 60 [] k = "delete" -> 0 [] OTHER -> 20]

\* "If 100% reads then no commit is executed" (tptbmODPI.c:119).
DefaultShare == [k \in Kinds |->
    CASE k = "read" -> 80 [] k = "update" -> 20 [] OTHER -> 0]

InsertMod == IF opt.procs # 1 THEN opt.procs ELSE 1

\* Its place in the shared memory: the parent comes last in OCI.
OciSlot(p) == IF p \in Parents THEN opt.procs ELSE p[2]
DpiSlot(p) == p[2]
Slot(p)    == IF opt.api = "oci" THEN OciSlot(p) ELSE DpiSlot(p)

OciRows(p) == [insert |-> opt.key - 1 + OciSlot(p), delete |-> OciSlot(p) - 1]
DpiRows(p) == [insert |-> opt.key + DpiSlot(p), delete |-> DpiSlot(p)]
Rows(p)    == IF opt.api = "oci" THEN OciRows(p) ELSE DpiRows(p)

Init ==
    /\ opt \in Options
    /\ pc = [p \in Processes |-> "none"]
    /\ keyed = 0 /\ seg = [r \in Runs |-> 0]
    /\ shm = [s \in Runs |-> [w \in 0..MaxProcs |-> 0]]
    /\ at = [r \in Runs |-> 1]
    /\ left = [p \in Processes |-> 0] /\ xact = [p \in Processes |-> 0]
    /\ insertAt = [p \in Processes |-> <<0, 0>>]
    /\ deleteAt = [p \in Processes |-> <<0, 0>>]
    /\ touched = [p \in Processes |-> {}]
    /\ dirty = [p \in Processes |-> FALSE]
    /\ started = {} /\ reported = {} /\ errors = 0

Ended == {"done", "failed", "killed"}
At(p, place)   == pc[p] = place
Goto(p, place) == pc' = [pc EXCEPT ![p] = place]

Exit(p, code) == Goto(p, IF code = 0 THEN "done" ELSE "failed")

\* A call fails: a message, and exit(1).
Fails(p) ==
    /\ errors < MaxErrors
    /\ errors' = errors + 1
    /\ Exit(p, 1)

\* checkerrReally: the first error that is no lock timeout ends the process.
OciError(p) == opt.api = "oci" /\ Fails(p)

\* dpiHandleError with JUST_EXIT and DISCONNECT_EXIT.
DpiError(p) == opt.api = "odpi" /\ Fails(p)

Error(p) == OciError(p) \/ DpiError(p)

-----------------------------------------------------------------------------
(* main(), up to the children.                                             *)

\* From a shell, one after the other.
Start(r) ==
    /\ At(<<r, 0>>, "none")
    /\ \A s \in Runs : s < r => pc[<<s, 0>>] \in Ended
    /\ Goto(<<r, 0>>, "parse_args")
    /\ UNCHANGED <<opt, memory, at, work, history, errors>>

Sum(s) == s["read"] + s["insert"] + s["update"] + s["delete"]

\* A wrong option, -h and -V.
OciUsage(p) == opt.api = "oci" /\ Exit(p, 1)
DpiUsage(p) == opt.api = "odpi" /\ Exit(p, 1)

Usage(r) ==
    /\ At(<<r, 0>>, "parse_args")
    /\ OciUsage(<<r, 0>>) \/ DpiUsage(<<r, 0>>)
    /\ UNCHANGED <<opt, memory, at, work, history, errors>>

\* The percentages after parse_args; num_xacts/100 is an integer division.
Percentages == IF opt.multiop THEN MultiopShare
               ELSE IF Sum(opt.share) = 0 THEN DefaultShare ELSE opt.share

OciRefuses(s) ==
    \/ Sum(s) # 100
    \/ ~opt.multiop /\ InsertMod * ((opt.xacts \div 100) * s["insert"]) > opt.key * opt.key

DpiRefuses(s) ==
    \/ Sum(s) # 100
    \/ ~opt.multiop /\ InsertMod * ((opt.xacts \div 100) * s["insert"]) > opt.key * opt.key

OciParseArgs(p) ==
    /\ opt.api = "oci"
    /\ IF OciRefuses(Percentages) THEN Exit(p, 1) ELSE Goto(p, "populate")

DpiParseArgs(p) ==
    /\ opt.api = "odpi"
    /\ IF DpiRefuses(Percentages) THEN Exit(p, 1) ELSE Goto(p, "populate")

ParseArgs(r) ==
    /\ At(<<r, 0>>, "parse_args")
    /\ OciParseArgs(<<r, 0>>) \/ DpiParseArgs(<<r, 0>>)
    /\ UNCHANGED <<opt, memory, at, work, history, errors>>

\* A new table, or only that with -build; -nobuild is asked first.
Built(p) ==
    IF opt.build = "build" THEN Exit(p, 0) ELSE Goto(p, "shm")

OciPopulate(p) ==
    /\ opt.api = "oci"
    /\ \/ Built(p) /\ UNCHANGED errors
       \/ opt.build # "nobuild" /\ OciError(p)

DpiPopulate(p) ==
    /\ opt.api = "odpi"
    /\ \/ Built(p) /\ UNCHANGED errors
       \/ opt.build # "nobuild" /\ DpiError(p)

Populate(r) ==
    /\ At(<<r, 0>>, "populate")
    /\ OciPopulate(<<r, 0>>) \/ DpiPopulate(<<r, 0>>)
    /\ UNCHANGED <<opt, memory, at, work, history>>

\* The words are 0, except that of num_processes.
Cleared == [w \in 0..MaxProcs |-> IF w = 0 THEN opt.procs ELSE 0]

\* ftok("ctest", seed): the segment of an earlier run, if it is still there.
OciOpenShm(r) ==
    LET s == IF keyed # 0 THEN keyed ELSE r
    IN  /\ opt.api = "oci"
        /\ keyed' = s /\ seg' = [seg EXCEPT ![r] = s]
        /\ shm' = [shm EXCEPT ![s] = Cleared]

\* A key of a temporary file; the segment is removed as soon as all processes
\* have detached.
OpenShmSeg(r) ==
    /\ opt.api = "odpi"
    /\ seg' = [seg EXCEPT ![r] = r]
    /\ shm' = [shm EXCEPT ![r] = Cleared]
    /\ UNCHANGED keyed

OpenShm(r) ==
    /\ At(<<r, 0>>, "shm") /\ opt.procs > 1
    /\ \/ (OciOpenShm(r) \/ OpenShmSeg(r)) /\ Goto(<<r, 0>>, "fork") /\ UNCHANGED errors
       \/ Error(<<r, 0>>) /\ UNCHANGED memory
    /\ UNCHANGED <<opt, at, work, history>>

OneProcess(r) ==
    /\ At(<<r, 0>>, "shm") /\ opt.procs = 1
    /\ Goto(<<r, 0>>, "connect")
    /\ UNCHANGED <<opt, memory, at, work, history, errors>>

\* The loop that creates the children.  A fork that fails ends the parent
\* only.
Fork(r, api) ==
    /\ opt.api = api
    /\ at[r] < opt.procs
    /\ \/ /\ pc' = [pc EXCEPT ![<<r, at[r]>>] = "connect",
                              ![<<r, 0>>] = IF at[r] + 1 = opt.procs THEN "connect" ELSE @]
          /\ at' = [at EXCEPT ![r] = @ + 1]
          /\ UNCHANGED errors
       \/ Error(<<r, 0>>) /\ UNCHANGED at

OciFork(r)          == Fork(r, "oci")
CreateChildProcs(r) == Fork(r, "odpi")

Spawn(r) ==
    /\ At(<<r, 0>>, "fork")
    /\ OciFork(r) \/ CreateChildProcs(r)
    /\ UNCHANGED <<opt, memory, work, history>>

-----------------------------------------------------------------------------
(* The workload of a process.                                              *)

AfterConnect(p) == IF p \in Parents THEN "begin" ELSE "poll"

\* A connection of its own, statements, bindings; in OCI, a lock timeout of 0
\* and a commit.
OciConnect(p) ==
    /\ opt.api = "oci"
    /\ \/ Goto(p, AfterConnect(p)) /\ UNCHANGED errors
       \/ OciError(p)

DpiConnect(p) ==
    /\ opt.api = "odpi"
    /\ \/ Goto(p, AfterConnect(p)) /\ UNCHANGED errors
       \/ DpiError(p)

Connect(p) ==
    /\ At(p, "connect")
    /\ OciConnect(p) \/ DpiConnect(p)
    /\ UNCHANGED <<opt, memory, at, work, history>>

OciWords == 1..opt.procs
DpiWords == 0..(opt.procs - 1)
Words    == IF opt.api = "oci" THEN OciWords ELSE DpiWords

\* The parent does not know whether the children are ready: sleep(10) in
\* ODPI, nothing in OCI.
Begin(r) ==
    /\ At(<<r, 0>>, "begin")
    /\ started' = started \cup {r}
    /\ IF opt.procs > 1
       THEN shm' = [shm EXCEPT ![seg[r]] =
                       [w \in 0..MaxProcs |-> IF w \in Words THEN 1 ELSE @[w]]]
       ELSE UNCHANGED shm
    /\ Goto(<<r, 0>>, "poll")
    /\ UNCHANGED <<opt, keyed, seg, at, work, reported, errors>>

\* Mutant: the word is read once, and what it says is ignored.
DoNotPoll(p) == TRUE

\* "the child polls for a value of 1" (tptbmODPI.c:1226).
Polled(p) == opt.procs > 1 => shm[seg[p[1]]][Slot(p)] # 0

Poll(p) ==
    /\ At(p, "poll") /\ Polled(p)
    /\ insertAt' = [insertAt EXCEPT ![p] = <<Rows(p).insert, 0>>]
    /\ deleteAt' = [deleteAt EXCEPT ![p] = <<Rows(p).delete, 0>>]
    /\ Goto(p, "work")
    /\ UNCHANGED <<opt, memory, at, left, xact, touched, dirty, history, errors>>

\* Randomly between -min and -max, whichever is greater; -ops.
OciOps == {n \in 1..(opt.min + opt.max) : 
                \/ opt.min <= n /\ n <= opt.max
                \/ opt.max <= n /\ n <= opt.min}
DpiOps == {opt.max}
Ops    == IF opt.api = "oci" THEN OciOps ELSE DpiOps

BeginTxn(p) ==
    /\ At(p, "work") /\ left[p] = 0 /\ xact[p] < opt.xacts
    /\ \E n \in Ops : left' = [left EXCEPT ![p] = IF opt.multiop THEN 5 * n ELSE n]
    /\ UNCHANGED <<opt, pc, memory, at, xact, insertAt, deleteAt, touched,
                   dirty, history, errors>>

\* What the next operation may be.
MultiopPath(n) == CASE n % 5 = 4 -> "insert" [] n % 5 = 0 -> "update" [] OTHER -> "read"
Paths(p) == IF opt.multiop THEN {MultiopPath(left[p] - 1)}
            ELSE {k \in Kinds : Percentages[k] > 0}

\* Mutant: a process goes on with the next block of keys.
NextBlock(row) == IF row[2] + 1 = opt.key THEN <<row[1] + 1, 0>> ELSE <<row[1], row[2] + 1>>

\* Blocks of Key rows, InsertMod apart.
NextRow(row) ==
    IF row[2] + 1 = opt.key THEN <<row[1] + InsertMod, 0>> ELSE <<row[1], row[2] + 1>>

Touch(p, k) ==
    /\ insertAt' = IF k = "insert" THEN [insertAt EXCEPT ![p] = NextRow(@)] ELSE insertAt
    /\ deleteAt' = IF k = "delete" THEN [deleteAt EXCEPT ![p] = NextRow(@)] ELSE deleteAt
    /\ touched'  = CASE k = "insert" -> [touched EXCEPT ![p] = @ \cup {<<k, insertAt[p]>>}]
                     [] k = "delete" -> [touched EXCEPT ![p] = @ \cup {<<k, deleteAt[p]>>}]
                     [] OTHER -> touched

\* A write as the last operation commits as it executes; a read as the last
\* operation commits nothing, and neither does a lock timeout, which is no
\* error.
OciExecute(p, k) ==
    /\ opt.api = "oci"
    /\ \/ /\ dirty' = [dirty EXCEPT ![p] = IF k = "read" THEN @ ELSE left[p] > 1]
          /\ UNCHANGED <<pc, errors>>
       \/ k # "read" /\ UNCHANGED <<dirty, pc, errors>>
       \/ OciError(p) /\ UNCHANGED dirty

\* Mutant: the commit comes before the last operation.
CommitEarly(p) == Percentages["read"] # 100 /\ left[p] = 2

\* "commit xact once all operations have finished" (tptbmODPI.c:1365).
CommitDue(p) == Percentages["read"] # 100 /\ left[p] = 1

\* An operation that fails is reported, and that is all; a commit that fails
\* ends the process.
DpiExecute(p, k) ==
    /\ opt.api = "odpi"
    /\ IF CommitDue(p)
       THEN \/ dirty' = [dirty EXCEPT ![p] = FALSE] /\ UNCHANGED <<pc, errors>>
            \/ DpiError(p) /\ UNCHANGED dirty
       ELSE /\ dirty' \in {dirty, [dirty EXCEPT ![p] = @ \/ k # "read"]}
            /\ UNCHANGED <<pc, errors>>

Operation(p) ==
    /\ At(p, "work") /\ left[p] > 0
    /\ \E k \in Paths(p) : Touch(p, k) /\ (OciExecute(p, k) \/ DpiExecute(p, k))
    /\ left' = [left EXCEPT ![p] = @ - 1]
    /\ xact' = [xact EXCEPT ![p] = IF left[p] = 1 THEN @ + 1 ELSE @]
    /\ UNCHANGED <<opt, memory, at, history>>

\* "each process indicates completion of run"
Complete(p) ==
    /\ At(p, "work") /\ left[p] = 0 /\ xact[p] = opt.xacts
    /\ shm' = IF opt.procs > 1 THEN [shm EXCEPT ![seg[p[1]]][Slot(p)] = 0] ELSE shm
    /\ at' = IF p \in Parents THEN [at EXCEPT ![p[1]] = 1] ELSE at
    /\ Goto(p, IF p \in Parents THEN "wait" ELSE "commit")
    /\ UNCHANGED <<opt, keyed, seg, work, history, errors>>

-----------------------------------------------------------------------------
(* The end of the run.                                                     *)

WordSet(r) == shm[seg[r]][at[r]] = 1

\* Mutant: only the word is looked at.
WordCleared(r) == ~WordSet(r)

\* waitpid returns the child, or its word is 0 again; both are looked at in
\* every turn of the loop.
Over(r) == ~WordSet(r) \/ pc[<<r, at[r]>>] \in Ended

DpiWaitChild(r) ==
    /\ opt.api = "odpi"
    /\ At(<<r, 0>>, "wait") /\ at[r] < opt.procs /\ Over(r)
    /\ at' = [at EXCEPT ![r] = @ + 1] /\ UNCHANGED pc

\* waitpid is called once, before the loop that looks at the word.
OciWaitChild(r) ==
    /\ opt.api = "oci" /\ at[r] < opt.procs
    /\ \/ At(<<r, 0>>, "wait") /\ pc[<<r, at[r]>>] \notin Ended
          /\ Goto(<<r, 0>>, "waitWord") /\ UNCHANGED at
       \/ At(<<r, 0>>, "wait") /\ pc[<<r, at[r]>>] \in Ended
          /\ at' = [at EXCEPT ![r] = @ + 1] /\ UNCHANGED pc
       \/ At(<<r, 0>>, "waitWord") /\ ~WordSet(r)
          /\ at' = [at EXCEPT ![r] = @ + 1] /\ Goto(<<r, 0>>, "wait")

WaitChild(r) ==
    /\ OciWaitChild(r) \/ DpiWaitChild(r)
    /\ UNCHANGED <<opt, memory, work, history, errors>>

Report(r) ==
    /\ At(<<r, 0>>, "wait") /\ at[r] = opt.procs
    /\ reported' = reported \cup {r}
    /\ Goto(<<r, 0>>, IF opt.api = "oci" /\ opt.procs > 1 THEN "removeShm" ELSE "commit")
    /\ UNCHANGED <<opt, memory, at, work, started, errors>>

\* "parent process removes shared memory segment" (tptbmOCI.c:1879): only
\* here.
RemoveShm(r) ==
    /\ At(<<r, 0>>, "removeShm")
    /\ keyed' = IF keyed = seg[r] THEN 0 ELSE keyed
    /\ Goto(<<r, 0>>, "commit")
    /\ UNCHANGED <<opt, seg, shm, at, work, history, errors>>

\* The last commit, and everything is freed.
OciCleanup(p) ==
    /\ opt.api = "oci"
    /\ \/ Exit(p, 0) /\ dirty' = [dirty EXCEPT ![p] = FALSE] /\ UNCHANGED errors
       \/ OciError(p) /\ UNCHANGED dirty

DpiCleanup(p) ==
    /\ opt.api = "odpi"
    /\ \/ Exit(p, 0) /\ dirty' = [dirty EXCEPT ![p] = FALSE] /\ UNCHANGED errors
       \/ DpiError(p) /\ UNCHANGED dirty

Cleanup(p) ==
    /\ At(p, "commit")
    /\ OciCleanup(p) \/ DpiCleanup(p)
    /\ UNCHANGED <<opt, memory, at, left, xact, insertAt, deleteAt, touched, history>>

\* Ctrl-C reaches the processes of the run that is in the foreground.
Interrupt(r) ==
    /\ pc[<<r, 0>>] \notin Ended \cup {"none"}
    /\ pc' = [p \in Processes |->
                 IF p[1] = r /\ pc[p] \notin Ended \cup {"none"} THEN "killed" ELSE pc[p]]
    /\ UNCHANGED <<opt, memory, at, work, history, errors>>

Parent(r) ==
    \/ Start(r) \/ ParseArgs(r) \/ Usage(r) \/ Populate(r) \/ OpenShm(r) \/ OneProcess(r)
    \/ Spawn(r) \/ Begin(r) \/ WaitChild(r) \/ Report(r) \/ RemoveShm(r)

Process(p) ==
    \/ Connect(p) \/ Poll(p) \/ BeginTxn(p) \/ Operation(p) \/ Complete(p) \/ Cleanup(p)

Next ==
    \/ \E r \in Runs : Parent(r) \/ Interrupt(r)
    \/ \E p \in Processes : Process(p)

\* The operating system runs every process.
Spec ==
    /\ Init /\ [][Next]_vars
    /\ \A r \in Runs : WF_vars(Parent(r))
    /\ \A p \in Processes : WF_vars(Process(p))

-----------------------------------------------------------------------------
(* Properties.                                                             *)

\* No other run has the segment of run r, but one that Ctrl-C has ended.
Alone(r) ==
    \A s \in Runs \ {r} : seg[r] # 0 /\ seg[s] = seg[r] => s < r /\ At(<<s, 0>>, "killed")

\* No process of a run that has a segment to itself executes before its own
\* parent has started the benchmark.
StartedByParent ==
    \A p \in Processes : At(p, "work") /\ Alone(p[1]) => p[1] \in started

\* The processes of a run insert rows of their own, outside the rows that are
\* populated, and delete rows of their own.
OwnRows ==
    \A p \in Processes :
        /\ \A q \in Processes : q[1] = p[1] /\ q # p => touched[p] \cap touched[q] = {}
        /\ \A t \in touched[p] : t[1] = "insert" => t[2][1] >= opt.key

\* "main/parent process waits for all sub-processes to complete": the rate is
\* reported when every process that has not failed has executed all its
\* transactions; in ODPI they are committed, too.
ReportAfterAll ==
    \A p \in Processes : p[1] \in reported /\ p[2] < opt.procs /\ Alone(p[1]) =>
        \/ pc[p] \in {"failed", "killed"}
        \/ /\ xact[p] = opt.xacts /\ left[p] = 0
           /\ opt.api = "odpi" /\ Percentages["read"] # 100 => ~dirty[p]

AllEnded(r) == \A p \in Processes : p[1] = r => pc[p] \in Ended \cup {"none"}

ChildFailed(r) == \E c \in Children : c[1] = r /\ At(c, "failed")

\* A benchmark that was started comes to an end, whichever calls fail; in OCI
\* if no child fails.
Ends ==
    \A r \in Runs : r \in started ~>
        AllEnded(r) \/ ~Alone(r) \/ (opt.api = "oci" /\ ChildFailed(r))

\* "Waiting for %d child processes to synchronize" (tptbmOCI.c:1331): the
\* parent starts the benchmark when all the children are connected.
StartTogether ==
    [][\A r \in Runs : r \in started' \ started =>
          \A c \in Children : c[1] = r /\ c[2] < opt.procs => pc[c] # "connect"]_vars

\* "the child polls for a value of 1" (tptbmOCI.c:1571) that its parent sets.
StartedByOwnParent ==
    \A p \in Processes : At(p, "work") => p[1] \in started

\* "code to check if any children are dead" (tptbmOCI.c:1758): the parent ends
\* also when a child has failed.
ParentEnds ==
    \A r \in Runs : r \in started ~> pc[<<r, 0>>] \in Ended

\* No child outlives its parent for good.
ChildrenEnd ==
    \A r \in Runs : pc[<<r, 0>>] \in Ended ~> AllEnded(r)
=============================================================================
