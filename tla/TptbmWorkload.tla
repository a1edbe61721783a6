---------------------------- MODULE TptbmWorkload ----------------------------
(***************************************************************************)
(* What the processes of tptbm.c, in its scaleout variant, do to the table *)
(* VPN_USERS in transaction mode (-xact): the parent populates it, forks   *)
(* the children, and every process executes NumXacts operations of a       *)
(* random mix, through one connection or, with '-scaleout routing', one    *)
(* per element.  The inserts and the deletes of a process walk through     *)
(* blocks of keys of its own.  SQL_NO_DATA_FOUND and a warning leave       *)
(* PROC_ERROR in the process's word like an error does, but handle_errors  *)
(* returns and the process carries on.                                     *)
(*                                                                         *)
(* TptbmSync has the handshake step by step and the duration mode; here it *)
(* is kept only as far as PROC_ERROR reaches into it.                      *)
(***************************************************************************)
EXTENDS Integers, FiniteSets

CONSTANTS
    NProc,          \* -proc
    Key,            \* -key
    NumXacts,       \* -xact
    NElements,      \* elements of the database
    PopCommitIntvl, \* POP_COMMIT_INTVL
    Args,           \* the option sets: [mode, ops, mix, nobuild]
    MaxErrors,      \* bound: database errors and failed forks
    Warnings,       \* may connecting return SQL_SUCCESS_WITH_INFO?
    CtrlC           \* may the user interrupt the benchmark?

Kinds == {"read", "update", "insert", "delete"}
Modes == {"scaleout", "local", "routing"}

ASSUME WorkloadAssumption ==
    /\ NProc \in Nat \ {0, 1} /\ Key \in Nat \ {0, 1} /\ NumXacts \in Nat \ {0}
    /\ NElements \in Nat \ {0} /\ PopCommitIntvl \in Nat \ {0}
    /\ Args \subseteq [mode : Modes, ops : Nat, mix : SUBSET Kinds, nobuild : BOOLEAN]
    /\ MaxErrors \in Nat /\ Warnings \in BOOLEAN /\ CtrlC \in BOOLEAN

Procs    == 0..(NProc - 1)
Children == 1..(NProc - 1)
Elements == 1..NElements

INITIALIZED == 0
READY       == 1
SET         == 2
STARTBENCH  == 5
END         == 10
ERROR       == 11

VARIABLES
    args,             \* the options
    table,            \* committed rows <<vpn_id, vpn_nb>>
    pending,          \* per process: changes not yet committed
    opCount,          \* op_count
    insertAt,         \* insert_start and insert_present, as one position
    deleteAt,         \* delete_start and delete_present
    element,          \* the element a process is connected to
    i, place, state, xacts, fatalerror, reported,  \* as in TptbmSync
    rowcount,         \* rows populated
    interrupted, errors, warned

word  == <<state, xacts, fatalerror, reported>>
work  == <<opCount, insertAt, deleteAt, i>>
data  == <<table, pending>>
world == <<args, interrupted, errors, warned>>
workloadVars ==
    <<args, table, pending, opCount, insertAt, deleteAt, element, i, place, state,
      xacts, fatalerror, reported, rowcount, interrupted, errors, warned>>

-----------------------------------------------------------------------------
(* Keys.                                                                   *)

\* Mutant: every process moves on to the next block.
NextBlock == 1

\* -insertmod is the number of processes.
InsertMod == NProc

\* Where a position of a process is: Key rows of a block, then the block
\* InsertMod further on.
Row(p, first, n) == <<first + p + (n \div Key) * InsertMod, n % Key>>

InsertRow(p, n) == Row(p, Key, n)
DeleteRow(p, n) == Row(p, 0, n)

Populated(n) == {<<k \div Key, k % Key>> : k \in 0..(n - 1)}
AllRows      == Populated(Key * Key)

\* The hash distribution of the table.
ElementOf(row) == ((row[1] + row[2]) % NElements) + 1

\* '-scaleout local': rows of other elements are passed over.
IsLocal(p, row) == args.mode = "local" => ElementOf(row) = element[p]

\* The first position from 'n' on that the process may use.  The rows of a
\* block lie on different elements, so one is never far if a block has as many
\* rows as there are elements.
LocalFrom(p, first, n) ==
    CHOOSE m \in n..(n + Key * NElements) :
        /\ IsLocal(p, Row(p, first, m))
        /\ \A k \in n..(m - 1) : ~IsLocal(p, Row(p, first, k))

-----------------------------------------------------------------------------
(* The options.                                                            *)

Writes(a) == a.mix # {"read"}

RoutingOps(a) ==
    a.mode = "routing" => a.ops <= 1 /\ ~(Writes(a) /\ a.ops = 0)

\* parse_args.  A percentage is at least 1, and num_xacts / 100 is an
\* integer division.
Accepted(a) ==
    /\ RoutingOps(a)
    /\ a.nobuild => a.mix \cap {"insert", "delete"} = {}
    /\ a.mix \cap {"insert", "delete"} # {} =>
           InsertMod * (NumXacts \div 100) <= Key * Key

\* What an earlier populate has left: the whole table, or what it had
\* committed when it was stopped.
Built == {Populated(n) : n \in {k \in 0..(Key * Key) :
                                   k % PopCommitIntvl = 0 \/ k = Key * Key}}

WorkloadInit ==
    /\ args \in {a \in Args : Accepted(a)}
    /\ table \in Built
    /\ pending = [p \in Procs |-> {}]
    /\ opCount = [p \in Procs |-> 0] /\ i = [p \in Procs |-> 0]
    /\ insertAt = [p \in Procs |-> 0] /\ deleteAt = [p \in Procs |-> 0]
    /\ element \in [Procs -> Elements]
    /\ args.mode # "local" => element = [p \in Procs |-> 1]
    /\ place = [p \in Procs |-> IF p = 0 THEN "build" ELSE "unborn"]
    /\ state = [p \in Procs |-> INITIALIZED] /\ xacts = [p \in Procs |-> 0]
    /\ fatalerror = FALSE /\ reported = FALSE
    /\ rowcount = 0
    /\ interrupted = FALSE /\ errors = 0 /\ warned = FALSE

InPlace(p, where) == place[p] = where
GoTo(p, where)    == place' = [place EXCEPT ![p] = where]

-----------------------------------------------------------------------------
(* Changes and transactions.                                               *)

\* routingAPI_getConn: an operation goes to the element that has its row.
ConnFor(row) == IF args.mode = "routing" THEN ElementOf(row) ELSE 0

RowsOf(changes, kind) == {c.row : c \in {d \in changes : d.kind = kind}}

Apply(rows, changes) ==
    (rows \cup RowsOf(changes, "insert")) \ RowsOf(changes, "delete")

\* What the statements of a process see.
Seen(p) == Apply(table, pending[p])

Finds(p, kind, row) == IF kind = "insert" THEN row \notin Seen(p) ELSE row \in Seen(p)

\* Another process has changed the row and not committed.
Locked(p, row) == \E q \in Procs \ {p} : \E c \in pending[q] : c.row = row

\* Does the operation that makes op_count 'count' end the transaction?  A
\* read alone needs no commit.
Commits(kind, count) ==
    IF kind = "read" /\ args.ops = 1 THEN FALSE ELSE count >= args.ops

\* The operation on 'row': one more change on its connection, and a commit
\* of this connection if it is due.
Operate(p, kind, row) ==
    LET conn  == ConnFor(row)
        own   == IF kind = "read" \/ ~Finds(p, kind, row) THEN {}
                 ELSE {[conn |-> conn, kind |-> kind, row |-> row]}
        open  == pending[p] \cup own
        mine  == {c \in open : c.conn = conn}
        ended == Commits(kind, opCount[p] + 1)
    IN /\ table' = IF ended THEN Apply(table, mine) ELSE table
       /\ pending' = [pending EXCEPT ![p] = IF ended THEN open \ mine ELSE open]
       /\ opCount' = [opCount EXCEPT ![p] = IF ended THEN 0 ELSE @ + 1]

-----------------------------------------------------------------------------
(* The parent: populate and fork.                                          *)

\* The table is dropped and created, and the row of metadata is committed.
CreateTable ==
    /\ InPlace(0, "build") /\ ~args.nobuild /\ ~interrupted
    /\ table' = {}
    /\ GoTo(0, "populate")
    /\ UNCHANGED <<pending, work, element, word, rowcount, world>>

\* One row of populate, with the commit of every PopCommitIntvl rows and of
\* the last one.
Populate ==
    /\ InPlace(0, "populate") /\ ~interrupted
    /\ LET open == pending[0] \cup {[conn |-> 0, kind |-> "insert",
                       row |-> <<rowcount \div Key, rowcount % Key>>]}
           last == rowcount + 1 = Key * Key
       IN IF last \/ (rowcount + 1) % PopCommitIntvl = 0
          THEN /\ table' = Apply(table, open)
               /\ pending' = [pending EXCEPT ![0] = {}]
               /\ IF last THEN GoTo(0, "fork") ELSE UNCHANGED place
          ELSE pending' = [pending EXCEPT ![0] = open] /\ UNCHANGED <<table, place>>
    /\ rowcount' = rowcount + 1
    /\ UNCHANGED <<work, element, word, world>>

\* -nobuild: the metadata are there and fit.  They do not tell whether the
\* rows are there.
CheckBuild ==
    /\ InPlace(0, "build") /\ args.nobuild /\ ~interrupted
    /\ GoTo(0, "fork")
    /\ UNCHANGED <<data, work, element, word, rowcount, world>>

\* CreateChildProcs: a failed fork ends the parent, and leaves the children
\* that it had before.
Fork ==
    /\ InPlace(0, "fork") /\ ~interrupted
    /\ \E n \in 0..(NProc - 1) :
        /\ n < NProc - 1 => errors < MaxErrors
        /\ errors' = IF n < NProc - 1 THEN errors + 1 ELSE errors
        /\ place' = [p \in Procs |->
                    IF p = 0 THEN IF n < NProc - 1 THEN "gone" ELSE "connect"
                    ELSE IF p <= n THEN "connect" ELSE "unborn"]
    /\ UNCHANGED <<data, work, element, word, rowcount, args, interrupted, warned>>

\* The parent has connected in populate.
Connect(p) ==
    /\ InPlace(p, "connect")
    /\ GoTo(p, IF args.mode = "scaleout" THEN "prepare" ELSE "routing")
    /\ UNCHANGED <<data, work, element, word, rowcount, world>>

\* The grid map, and the element the process is connected to.
InitRouting(p) ==
    /\ InPlace(p, "routing")
    /\ GoTo(p, IF args.mode = "routing" THEN "elements" ELSE "prepare")
    /\ UNCHANGED <<data, work, element, word, rowcount, world>>

\* One connection to each element, with its own statements.
ConnectElements(p) ==
    /\ InPlace(p, "elements")
    /\ GoTo(p, "prepare")
    /\ UNCHANGED <<data, work, element, word, rowcount, world>>

\* Select, update, delete and insert: on every connection,
PrepareOnElements(p) ==
    /\ InPlace(p, "prepare") /\ args.mode = "routing"
    /\ GoTo(p, "barrier")
    /\ UNCHANGED <<data, work, element, word, rowcount, world>>

\* or on the one there is.
Prepare(p) ==
    /\ InPlace(p, "prepare") /\ args.mode # "routing"
    /\ GoTo(p, "barrier")
    /\ UNCHANGED <<data, work, element, word, rowcount, world>>

\* SQLDriverConnect returns SQL_SUCCESS_WITH_INFO: PROC_ERROR, and on it goes.
ConnectWithInfo(c) ==
    /\ Warnings /\ InPlace(c, "connect")
    /\ state' = [state EXCEPT ![c] = ERROR]
    /\ warned' = TRUE
    /\ GoTo(c, IF args.mode = "scaleout" THEN "prepare" ELSE "routing")
    /\ UNCHANGED <<data, work, element, xacts, fatalerror, reported, rowcount,
                   args, interrupted, errors>>

Tell(command) ==
    state' = [p \in Procs |-> IF p \in Children THEN command ELSE state[p]]

ChildFailed == \E c \in Children : state[c] = ERROR

\* The parent's loops over its children; a child that failed ends them.
GiveUp ==
    /\ place[0] \in {"barrier", "pollset"} /\ ChildFailed
    /\ fatalerror' = TRUE
    /\ GoTo(0, "finish")
    /\ UNCHANGED <<data, work, element, state, xacts, reported, rowcount, world>>

ReadyChildren ==
    /\ InPlace(0, "barrier") /\ ~ChildFailed
    /\ Tell(READY)
    /\ GoTo(0, "pollset")
    /\ UNCHANGED <<data, work, element, xacts, fatalerror, reported, rowcount, world>>

StartChildren ==
    /\ InPlace(0, "pollset") /\ \A c \in Children : state[c] = SET
    /\ Tell(STARTBENCH)
    /\ GoTo(0, "run")
    /\ UNCHANGED <<data, work, element, xacts, fatalerror, reported, rowcount, world>>

AnswerReady(c) ==
    /\ InPlace(c, "barrier") /\ state[c] >= READY
    /\ state' = [state EXCEPT ![c] = SET]
    /\ GoTo(c, "set")
    /\ UNCHANGED <<data, work, element, xacts, fatalerror, reported, rowcount, world>>

SeeGo(c) ==
    /\ InPlace(c, "set") /\ state[c] >= STARTBENCH
    /\ GoTo(c, "run")
    /\ UNCHANGED <<data, work, element, word, rowcount, world>>

-----------------------------------------------------------------------------
(* The transaction loop.                                                   *)

\* One iteration.  No row found: PROC_ERROR, and on it goes.
Iterate(p, kind, row) ==
    /\ InPlace(p, "run") /\ i[p] < NumXacts /\ ~interrupted
    /\ kind \in args.mix
    /\ kind # "read" => ~Locked(p, row)
    /\ Operate(p, kind, row)
    /\ i' = [i EXCEPT ![p] = @ + 1]
    /\ xacts' = [xacts EXCEPT ![p] = i[p]]
    /\ state' = IF Finds(p, kind, row) THEN state ELSE [state EXCEPT ![p] = ERROR]
    /\ UNCHANGED <<element, place, fatalerror, reported, rowcount, world>>

\* Reads and updates pick a random key of the populated ones.
Access(p) ==
    /\ \E kind \in {"read", "update"}, row \in AllRows :
           IsLocal(p, row) /\ Iterate(p, kind, row)
    /\ UNCHANGED <<insertAt, deleteAt>>

Insert(p) ==
    LET n == LocalFrom(p, Key, insertAt[p])
    IN /\ Iterate(p, "insert", InsertRow(p, n))
       /\ insertAt' = [insertAt EXCEPT ![p] = n + 1]
       /\ UNCHANGED deleteAt

Delete(p) ==
    LET n == LocalFrom(p, 0, deleteAt[p])
    IN /\ Iterate(p, "delete", DeleteRow(p, n))
       /\ deleteAt' = [deleteAt EXCEPT ![p] = n + 1]
       /\ UNCHANGED insertAt

XactsDone(p) ==
    /\ InPlace(p, "run") /\ i[p] >= NumXacts
    /\ GoTo(p, "finish")
    /\ UNCHANGED <<data, work, element, word, rowcount, world>>

-----------------------------------------------------------------------------
(* Ending.                                                                 *)

\* finish_loop
Finish(p) ==
    /\ InPlace(p, "finish")
    /\ state' = [state EXCEPT ![p] = IF @ = ERROR THEN ERROR ELSE END]
    /\ GoTo(p, IF p = 0 THEN "wait" ELSE "cleanup")
    /\ UNCHANGED <<data, work, element, xacts, fatalerror, reported, rowcount, world>>

\* Mutant: only the word is looked at, and only for END.
SaysEnd(c) == state[c] = END

ChildDone(c) == InPlace(c, "gone") \/ state[c] >= END

Report ==
    /\ InPlace(0, "wait") /\ \A c \in Children : ChildDone(c)
    /\ reported' = ~fatalerror
    /\ GoTo(0, "cleanup")
    /\ UNCHANGED <<data, work, element, state, xacts, fatalerror, rowcount, world>>

\* Whatever is open on any connection is committed, the part of a
\* transaction that Ctrl-C has left included.
Cleanup(p) ==
    /\ InPlace(p, "cleanup")
    /\ table' = Apply(table, pending[p])
    /\ pending' = [pending EXCEPT ![p] = {}]
    /\ GoTo(p, "gone")
    /\ UNCHANGED <<work, element, word, rowcount, world>>

\* StopRequested() is true.  populate leaves without a commit.
Leave(p) ==
    /\ interrupted
    /\ place[p] \in {"build", "populate", "fork", "connect", "prepare", "barrier",
                 "pollset", "set", "run"}
    /\ IF place[p] \in {"build", "populate", "fork"}
       THEN pending' = [pending EXCEPT ![p] = {}] /\ GoTo(p, "gone")
       ELSE GoTo(p, "cleanup") /\ UNCHANGED pending
    /\ UNCHANGED <<table, work, element, word, rowcount, world>>

\* handle_errors with SQL_ERROR: roll back, disconnect, exit.
Abort(p) ==
    /\ state' = IF place[p] \in {"build", "populate"} THEN state ELSE [state EXCEPT ![p] = ERROR]
    /\ pending' = [pending EXCEPT ![p] = {}]
    /\ errors' = errors + 1
    /\ GoTo(p, "gone")
    /\ UNCHANGED <<table, work, element, xacts, fatalerror, reported, rowcount,
                   args, interrupted, warned>>

Fail(p) ==
    /\ errors < MaxErrors
    /\ place[p] \in {"build", "populate", "connect", "routing", "elements", "prepare",
                 "run", "cleanup"}
    /\ Abort(p)

\* The row stays locked for too long, or the locks are in a cycle.
LockTimeout(p) ==
    /\ InPlace(p, "run") /\ i[p] < NumXacts /\ ~interrupted
    /\ \E row \in AllRows \cup {DeleteRow(p, LocalFrom(p, 0, deleteAt[p]))} :
           Locked(p, row)
    /\ args.mix \cap {"update", "delete"} # {}
    /\ Abort(p)

Interrupt ==
    /\ CtrlC /\ ~interrupted
    /\ interrupted' = TRUE
    /\ UNCHANGED <<data, work, element, place, word, rowcount, args, errors, warned>>

Process(p) ==
    \/ Connect(p) \/ InitRouting(p) \/ ConnectElements(p)
    \/ PrepareOnElements(p) \/ Prepare(p)
    \/ Access(p) \/ Insert(p) \/ Delete(p) \/ XactsDone(p) \/ LockTimeout(p)
    \/ Finish(p) \/ Cleanup(p) \/ Leave(p)

Parent ==
    \/ CreateTable \/ Populate \/ CheckBuild \/ Fork
    \/ GiveUp \/ ReadyChildren \/ StartChildren \/ Report
    \/ Process(0)

Child(c) == AnswerReady(c) \/ SeeGo(c) \/ Process(c)

AllGone == \A p \in Procs : place[p] \in {"gone", "unborn"}

\* Everybody is gone, or waits for a process that a failed fork, an error or
\* a warning has taken away.
Waiting ==
    /\ \A p \in Procs : place[p] \in {"gone", "unborn", "barrier", "pollset", "set", "wait"}
    /\ UNCHANGED workloadVars

WorkloadNext ==
    \/ Parent
    \/ \E c \in Children : Child(c) \/ ConnectWithInfo(c)
    \/ \E p \in Procs : Fail(p)
    \/ Interrupt \/ Waiting

WorkloadSpec == WorkloadInit /\ [][WorkloadNext]_workloadVars

\* The operating system runs every process.
FairWorkload == WorkloadSpec /\ WF_workloadVars(Parent) /\ \A c \in Children : WF_workloadVars(Child(c))

-----------------------------------------------------------------------------
(* Properties.                                                             *)

Rows == Nat \X (0..(Key - 1))

\* Every variable has its type.
WorkloadTypes ==
    /\ args \in Args
    /\ table \subseteq Rows
    /\ pending \in [Procs -> SUBSET [conn : 0..NElements, kind : Kinds, row : Rows]]
    /\ opCount \in [Procs -> 0..NumXacts]
    /\ insertAt \in [Procs -> Nat] /\ deleteAt \in [Procs -> Nat]
    /\ element \in [Procs -> Elements]
    /\ i \in [Procs -> 0..NumXacts] /\ xacts \in [Procs -> 0..NumXacts]
    /\ place \in [Procs -> {"build", "populate", "fork", "unborn", "connect",
                  "routing", "elements", "prepare", "barrier", "pollset", "set",
                  "run", "finish", "wait", "cleanup", "gone"}]
    /\ state \in [Procs -> {INITIALIZED, READY, SET, STARTBENCH, END, ERROR}]
    /\ fatalerror \in BOOLEAN /\ reported \in BOOLEAN
    /\ rowcount \in 0..(Key * Key)
    /\ interrupted \in BOOLEAN /\ warned \in BOOLEAN /\ errors \in Nat

\* The blocks of the processes never meet: a row that a process is about to
\* insert is not in the table and not in anybody's open transaction, so that
\* no insert ends the benchmark with a unique constraint violation.
InsertsFresh ==
    \A p \in Procs :
        LET row == InsertRow(p, LocalFrom(p, Key, insertAt[p]))
        IN row \notin table /\ \A q \in Procs : row \notin RowsOf(pending[q], "insert")

\* op_count counts every change that is open, on whatever connections the
\* operations went to, and a transaction is ended before it holds 'ops' of
\* them: none waits on one element for a commit that was spent on another.
TransactionSize ==
    \A p \in Procs : InPlace(p, "run") /\ pending[p] # {} =>
        Cardinality(pending[p]) <= opCount[p] /\ opCount[p] < args.ops

\* Missing rows, which leave PROC_ERROR in a word and do not stop anybody,
\* and lock waits do not keep the benchmark from ending.
Ends == <>(AllGone \/ errors > 0 \/ warned)

\* "main/parent  process waits for all sub-processes to complete" (comment
\* in finish_loop): the report is made when every child has left its loop.
ReportAfterAll == reported => \A c \in Children : place[c] \in {"cleanup", "gone"}
=============================================================================
