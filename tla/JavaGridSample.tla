--------------------------- MODULE JavaGridSample ---------------------------
(***************************************************************************)
(* GridSample in Java: the same workload as the C program, over JDBC.      *)
(* Errors are exceptions.  A wrapper around every JDBC call (GSDbStatement,*)
(* GSDbResultSet, GSDbConnection) rolls back and throws a                  *)
(* GSGridRetryException or a GSConnectionFailoverException, or closes the  *)
(* connection when the error is fatal to the database; executeTxnGrid      *)
(* catches the two and tries the transaction again.                        *)
(*                                                                         *)
(* rollback() and close() call each other: their frames are 'stack', which *)
(* is empty while the driver is in control.  Two threads: main, and the    *)
(* shutdown hook that waits until main says that it has shut down.         *)
(***************************************************************************)
EXTENDS Integers, Sequences

CONSTANTS
    Workload,       \* the transaction types of the mix
    DoCleanup,      \* FALSE if -nocleanup was given
    RetryLimit,     \* DFLT_RETRY_LIMIT
    FailoverLimit,  \* DFLT_FAILOVER_LIMIT
    RunNumTxn,      \* -numtxn
    MaxDepth        \* bound: frames of rollback() and close() on the stack

ASSUME JavaAssumption ==
    /\ Workload \subseteq {"authorize", "query", "charge", "topup", "purge"}
    /\ DoCleanup \in BOOLEAN
    /\ RetryLimit \in Nat \ {0} /\ FailoverLimit \in Nat \ {0}
    /\ RunNumTxn \in Nat \ {0}
    /\ MaxDepth \in Nat \ {0}

VARIABLES
    jvm,           \* "up", "stopping", "down"
    hook,          \* the shutdown hook: "none", "ready", "run", "wait", "ended"
    shuttingDown, shutdownDone,
    pc,            \* the main thread; "dead" after an uncaught exception
    pos,           \* position in InitPlan, or in the calls of a transaction
    cur,           \* the transaction executeTxnGrid works on
    needReprepare, rtCount, foCount,
    stack,         \* frames of rollback() and close()
    ret,           \* what the last call returned or threw
    grid,          \* is the database a grid?
    ttConn,        \* is GSDbConnection.ttConn not null?
    prepared,      \* dbStmts: the transactions, and "eid", that are prepared
    stale,         \* the connection has moved since they were
    rs,            \* a result set of executeTxnGrid is open
    stats,         \* the counters of GSGlobal
    work, db,      \* balance updates and history rows: open, and committed
    completed,     \* history: transactions that were completed
    hidden,        \* history: updates of commits that were done but reported failed
    leftOpen,      \* history: has a rollback been refused, with work open?
    exit           \* exit status, -1 before

threads == <<jvm, hook, shuttingDown, shutdownDone>>
retry   == <<needReprepare, rtCount, foCount>>
handles == <<prepared, stale, rs>>
history == <<completed, hidden, leftOpen>>
vars    == <<threads, pc, pos, cur, retry, stack, ret, grid, ttConn, handles,
             stats, work, db, history, exit>>

Nothing == [upd |-> 0, ins |-> 0]
Plus(a, b) == [upd |-> a.upd + b.upd, ins |-> a.ins + b.ins]

Init ==
    /\ jvm = "up" /\ hook = "none"
    /\ shuttingDown = FALSE /\ shutdownDone = FALSE
    /\ pc = "args" /\ pos = 0 /\ cur = "none"
    /\ needReprepare = FALSE /\ rtCount = 0 /\ foCount = 0
    /\ stack = <<>> /\ ret = "none"
    /\ grid \in BOOLEAN
    /\ ttConn = FALSE /\ prepared = {} /\ stale = FALSE /\ rs = FALSE
    /\ stats = [executed |-> 0, updates |-> 0, retries |-> 0, failovers |-> 0]
    /\ work = Nothing /\ db = Nothing
    /\ completed = 0 /\ hidden = 0 /\ leftOpen = FALSE
    /\ exit = -1

\* The main thread is in its driver, at 'place'.
At(place)   == jvm # "down" /\ pc = place /\ stack = <<>>
GoTo(place) == pc' = place

Optional(wanted, t) == IF wanted THEN <<t>> ELSE << >>

\* The transactions in the order dbConnect initialises them.
InitPlan == <<"counts">> \o Optional(DoCleanup, "clear")
            \o <<"authorize", "query", "charge", "topup", "purge">>

\* The calls of a transaction that can fail, in order.  Authorize and Query
\* return a result set that executeTxnGrid reads.
AuthorizeCalls == <<"select">>
QueryCalls     == <<"select">>
ChargeCalls    == <<"select", "update", "insert", "commit">>
TopupCalls     == <<"select", "update", "insert", "commit">>
PurgeCalls     == <<"delete", "commit">>

Calls(t) == CASE t = "authorize" -> AuthorizeCalls
              [] t = "query"     -> QueryCalls
              [] t = "charge"    -> ChargeCalls
              [] t = "topup"     -> TopupCalls
              [] t = "purge"     -> PurgeCalls

ReturnsResultSet(t) == t \in {"authorize", "query"}

-----------------------------------------------------------------------------
(* Errors.                                                                 *)

\* TT005, 6002, 6003; 47137, S1000; 846, 994; any other.
Classes == {"retry", "failover", "fatal", "error"}

\* A call on a statement of a connection that has moved says so, or fails
\* in some other way.
Possible(class) == stale => class \in {"failover", "error"}

\* handleException: what runs before the exception, or FALSE, is returned.
Unwinding(class) ==
    CASE class \in {"retry", "failover"} -> <<"rollback">>
      [] class = "fatal"                 -> <<"close">>
      [] class = "error"                 -> <<>>

\* commitEx handles a fatal error itself.
CommitUnwinding(class) == IF class = "fatal" THEN <<"close", "rollback">>
                          ELSE Unwinding(class)

Thrown(class) == IF class \in {"retry", "failover"} THEN class ELSE "false"

\* What the error does to the session: a failover prepares nothing anew, and
\* the work that was not committed is gone.
SessionAfter(class) ==
    /\ stale' = (stale \/ class = "failover")
    /\ work' = IF class \in {"failover", "fatal"} THEN Nothing ELSE work

-----------------------------------------------------------------------------
(* rollback() and close(true).                                             *)

Top   == stack[Len(stack)]
Below == SubSeq(stack, 1, Len(stack) - 1)
On(frame) == jvm # "down" /\ pc # "dead" /\ stack # <<>> /\ Top = frame

Pop == stack' = Below /\ UNCHANGED pc

\* An uncaught exception ends the main thread.
Die == pc' = "dead" /\ stack' = <<>>

\* Call 'next', and then go on in this frame as 'rest'.
Nest(rest, next) == IF Len(stack) >= MaxDepth THEN Die
                    ELSE stack' = Below \o <<rest, next>> /\ UNCHANGED pc

\* Mutant: rollback() closes the result sets and no more.
NotRolledBack == work

RolledBack == Nothing

\* rollback() closes the result sets first.  A failover is not noticed: the
\* work went with the connection.
Rollback ==
    /\ On("rollback") /\ ttConn
    /\ rs' = FALSE
    /\ work' = RolledBack
    /\ \/ Pop /\ UNCHANGED stale
       \/ Pop /\ stale' = TRUE
       \/ Nest("rollbackEnd", "close") /\ UNCHANGED stale
    /\ UNCHANGED <<threads, pos, cur, retry, ret, grid, ttConn, prepared,
                   stats, db, history, exit>>

\* The driver refuses and the error is not fatal to the database: errMsg is
\* set, which no caller looks at, and the work is still open.
RollbackRefused ==
    /\ On("rollback") /\ ttConn
    /\ rs' = FALSE
    /\ leftOpen' = (leftOpen \/ work # Nothing)
    /\ Pop
    /\ UNCHANGED <<threads, pos, cur, retry, ret, grid, ttConn, prepared,
                   stale, stats, work, db, completed, hidden, exit>>

\* Nothing to do for a connection that is not open, or after close() has
\* returned to rollback().
NothingToDo ==
    /\ \/ On("rollback") /\ ~ttConn
       \/ On("close") /\ ~ttConn
       \/ On("rollbackEnd")
    /\ Pop
    /\ UNCHANGED <<threads, pos, cur, retry, ret, grid, ttConn, handles,
                   stats, work, db, history, exit>>

Close ==
    /\ On("close") /\ ttConn
    /\ Nest("closeRest", "rollback")
    /\ UNCHANGED <<threads, pos, cur, retry, ret, grid, ttConn, handles,
                   stats, work, db, history, exit>>

StatementsLeft == {}

\* The statements are closed, then the connection: if the rollback has
\* closed it already this is a call on null.
CloseRest ==
    /\ On("closeRest")
    /\ prepared' = StatementsLeft /\ rs' = FALSE
    /\ IF ~ttConn THEN Die /\ UNCHANGED ttConn
       ELSE \/ Pop /\ ttConn' = FALSE
            \/ Nest("closeEnd", "rollback") /\ UNCHANGED ttConn
    /\ UNCHANGED <<threads, pos, cur, retry, ret, grid, stale, stats, work,
                   db, history, exit>>

CloseEnd ==
    /\ On("closeEnd")
    /\ ttConn' = FALSE
    /\ Pop
    /\ UNCHANGED <<threads, pos, cur, retry, ret, grid, handles, stats, work,
                   db, history, exit>>

\* ttConn.close() of connect().
TtConnClose ==
    /\ On("ttConnClose")
    /\ IF ttConn THEN Pop ELSE Die
    /\ ttConn' = FALSE
    /\ UNCHANGED <<threads, pos, cur, retry, ret, grid, handles, stats, work,
                   db, history, exit>>

Unwind == Rollback \/ RollbackRefused \/ NothingToDo \/ Close \/ CloseRest
          \/ CloseEnd \/ TtConnClose

-----------------------------------------------------------------------------
(* main, until the workload begins.                                        *)

\* gsCleanup(status) closes a connection that is open.
Cleanup(status, frames) ==
    /\ GoTo("sysexit") /\ exit' = status
    /\ stack' = <<"close">> \o frames

ParseArgs ==
    /\ At("args")
    /\ GoTo("connect")
    /\ UNCHANGED <<threads, pos, cur, retry, stack, ret, grid, ttConn, handles,
                   stats, work, db, history, exit>>

\* An option given twice, one that excludes another, a value that is missing
\* or out of its range; a mix that does not add up to 100.
BadArgs == At("args") /\ Cleanup(1, <<>>)

HelpAsked == At("args") /\ Cleanup(2, <<>>)

ParseArgsFails ==
    /\ BadArgs \/ HelpAsked
    /\ UNCHANGED <<threads, pos, cur, retry, ret, grid, ttConn, handles,
                   stats, work, db, history>>

\* connect(): the connection, the query for TTGridEnable.
Connect ==
    /\ At("connect")
    /\ \/ GoTo(IF grid THEN "eid" ELSE "init") /\ ttConn' = TRUE
          /\ pos' = 1 /\ UNCHANGED <<stack, exit>>
       \/ Cleanup(3, <<>>) /\ UNCHANGED <<ttConn, pos>>
    /\ UNCHANGED <<threads, cur, retry, ret, grid, handles, stats, work, db, history>>

\* connect(): the elementid# query is prepared and executed.  After an error
\* the connection is closed, which fails on null if the error has closed it;
\* prepare() may also return null, and null is executed.
PrepareEid ==
    /\ At("eid")
    /\ \/ GoTo("init") /\ prepared' = {"eid"} /\ UNCHANGED <<stack, exit, stale>>
       \/ \E class \in Classes :
            /\ Cleanup(3, <<"ttConnClose">> \o Unwinding(class))
            /\ stale' = (class = "failover")
            /\ UNCHANGED prepared
       \/ Die /\ UNCHANGED <<prepared, exit, stale>>
    /\ UNCHANGED <<threads, pos, cur, retry, ret, grid, ttConn, rs, stats,
                   work, db, history>>

\* dbConnect: any failure, also one that could be retried, is fatal.
InitTxn ==
    /\ At("init")
    /\ prepared' = prepared \cup {InitPlan[pos]}
    /\ IF pos < Len(InitPlan) THEN pos' = pos + 1 /\ UNCHANGED pc
                              ELSE pos' = 0 /\ GoTo("counts")
    /\ UNCHANGED <<threads, cur, retry, stack, ret, grid, ttConn, stale, rs,
                   stats, work, db, history, exit>>

StartupStatus == CASE pc = "init" -> 3 [] pc = "counts" -> 4 [] pc = "clear" -> 5

StartupFails ==
    /\ At("init") \/ At("counts") \/ At("clear")
    /\ \E class \in Classes :
        /\ Cleanup(StartupStatus, Unwinding(class))
        /\ SessionAfter(class)
    /\ UNCHANGED <<threads, pos, cur, retry, ret, grid, ttConn, prepared, rs,
                   stats, db, history>>

\* The counts do not fit together.
DataError ==
    /\ At("counts")
    /\ Cleanup(4, <<>>)
    /\ UNCHANGED <<threads, pos, cur, retry, ret, grid, ttConn, handles,
                   stats, work, db, history>>

\* The statements of the two transactions are closed when they have run.
GetTableData ==
    /\ At("counts")
    /\ prepared' = prepared \ {"counts"}
    /\ GoTo(IF DoCleanup THEN "clear" ELSE "hook")
    /\ UNCHANGED <<threads, pos, cur, retry, stack, ret, grid, ttConn, stale,
                   rs, stats, work, db, history, exit>>

CleanupHistory ==
    /\ At("clear")
    /\ prepared' = prepared \ {"clear"}
    /\ GoTo("hook")
    /\ UNCHANGED <<threads, pos, cur, retry, stack, ret, grid, ttConn, stale,
                   rs, stats, work, db, history, exit>>

SetShutdownHook ==
    /\ At("hook")
    /\ hook' = "ready"
    /\ GoTo("check")
    /\ UNCHANGED <<jvm, shuttingDown, shutdownDone, pos, cur, retry, stack,
                   ret, grid, ttConn, handles, stats, work, db, history, exit>>

-----------------------------------------------------------------------------
(* runWorkload and executeTxnGrid.                                         *)

ShouldTerminate == shuttingDown \/ stats.executed >= RunNumTxn

EndWorkload ==
    /\ At("check") /\ ShouldTerminate
    /\ GoTo("disconnect")
    /\ UNCHANGED <<threads, pos, cur, retry, stack, ret, grid, ttConn,
                   handles, stats, work, db, history, exit>>

BeginTxn(t) ==
    /\ At("check") /\ ~ShouldTerminate
    /\ cur' = t
    /\ needReprepare' = FALSE
    /\ rtCount' = RetryLimit /\ foCount' = FailoverLimit
    /\ GoTo("attempt")
    /\ UNCHANGED <<threads, pos, stack, ret, grid, ttConn, handles, stats,
                   work, db, history, exit>>

Attempt ==
    /\ At("attempt")
    /\ pos' = 1 /\ ret' = "none"
    /\ GoTo(IF rtCount = 0 \/ foCount = 0 THEN "disconnect"
            ELSE IF needReprepare THEN "reprepare" ELSE "execute")
    /\ UNCHANGED <<threads, cur, retry, stack, grid, ttConn, handles, stats,
                   work, db, history, exit>>

\* reprepareAll() has nothing to do, and succeeds, if an error on the way
\* has closed the connection and its statements.
ReprepareAll ==
    /\ At("reprepare")
    /\ stale' = FALSE
    /\ needReprepare' = FALSE
    /\ stats' = [stats EXCEPT !.failovers = @ + 1]
    /\ GoTo("gridinfo")
    /\ UNCHANGED <<threads, pos, cur, rtCount, foCount, stack, ret, grid,
                   ttConn, prepared, rs, work, db, history, exit>>

\* Whatever goes wrong in it ends the workload.
ReprepareAllFails ==
    /\ At("reprepare") /\ prepared # {}
    /\ \E class \in Classes :
        /\ stack' = Unwinding(class)
        /\ SessionAfter(class)
    /\ GoTo("disconnect")
    /\ UNCHANGED <<threads, pos, cur, retry, ret, grid, ttConn, prepared, rs,
                   stats, db, history, exit>>

\* updateGridInfoEx() fails if the database is not a grid; the statement is
\* null if the connection was closed.
UpdateGridInfoEx ==
    /\ At("gridinfo") /\ ret = "none"
    /\ CASE ~grid -> GoTo("disconnect") /\ UNCHANGED stack
         [] grid /\ "eid" \notin prepared -> Die
         [] OTHER -> GoTo("execute") /\ UNCHANGED stack
    /\ UNCHANGED <<threads, pos, cur, retry, ret, grid, ttConn, handles,
                   stats, work, db, history, exit>>

UpdateGridInfoFails ==
    /\ At("gridinfo") /\ ret = "none" /\ grid /\ "eid" \in prepared
    /\ \E class \in Classes :
        /\ Possible(class)
        /\ stack' = Unwinding(class) /\ ret' = Thrown(class)
        /\ SessionAfter(class)
    /\ UNCHANGED <<threads, pc, pos, cur, retry, grid, ttConn, prepared, rs,
                   stats, db, history, exit>>

Call == Calls(cur)[pos]

Effect == CASE Call = "update" -> [upd |-> 1, ins |-> 0]
            [] Call = "insert" -> [upd |-> 0, ins |-> 1]
            [] OTHER           -> Nothing

\* A statement whose connection was closed is refused.
Usable == ttConn /\ cur \in prepared

CountsUpdate(t) == t \in {"charge", "topup"}

Counted == [stats EXCEPT !.executed = @ + 1,
                         !.updates = @ + (IF CountsUpdate(cur) THEN 1 ELSE 0)]

\* A call of the transaction succeeds; the last one has it counted.
ExecuteCall ==
    /\ At("execute") /\ ret = "none" /\ Usable /\ ~stale
    /\ IF Call = "commit" THEN db' = Plus(db, work) /\ work' = Nothing
       ELSE work' = Plus(work, Effect) /\ UNCHANGED db
    /\ IF pos < Len(Calls(cur))
       THEN pos' = pos + 1 /\ UNCHANGED <<pc, rs, stats, completed>>
       ELSE /\ stats' = Counted
            /\ IF ReturnsResultSet(cur)
               THEN GoTo("fetch") /\ rs' = TRUE /\ UNCHANGED completed
               ELSE GoTo("check") /\ completed' = completed + 1 /\ UNCHANGED rs
            /\ UNCHANGED pos
    /\ UNCHANGED <<threads, cur, retry, stack, ret, grid, ttConn, prepared,
                   stale, hidden, leftOpen, exit>>

Refused ==
    /\ At("execute") /\ ret = "none" /\ ~Usable
    /\ ret' = "false"
    /\ UNCHANGED <<threads, pc, pos, cur, retry, stack, grid, ttConn, handles,
                   stats, work, db, history, exit>>

\* The frames that a failed call leaves: Charge, TopUp and Purge roll back
\* whatever the error was, unless it was in commitEx.
FailedCall(class) ==
    IF Call = "commit" THEN CommitUnwinding(class)
    ELSE IF cur \in {"charge", "topup", "purge"} /\ class \in {"fatal", "error"}
    THEN <<"rollback">> \o Unwinding(class)
    ELSE Unwinding(class)

ExecuteFails ==
    /\ At("execute") /\ ret = "none" /\ Usable
    /\ \E class \in Classes :
        /\ Possible(class)
        /\ stack' = FailedCall(class) /\ ret' = Thrown(class)
        /\ SessionAfter(class)
    /\ UNCHANGED <<threads, pc, pos, cur, retry, grid, ttConn, prepared, rs,
                   stats, db, history, exit>>

\* The commit was done, on an element that is lost or with a warning that
\* handleWarningsConn throws, and commitEx takes it for failed.  Only the
\* errors that are retried say that it was not.
CommitReportedFailed ==
    /\ At("execute") /\ ret = "none" /\ Usable /\ ~stale /\ Call = "commit"
    /\ db' = Plus(db, work) /\ work' = Nothing
    /\ hidden' = hidden + work.upd
    /\ \E class \in Classes \ {"retry"} :
        /\ stack' = CommitUnwinding(class) /\ ret' = Thrown(class)
        /\ stale' = (class = "failover")
    /\ UNCHANGED <<threads, pc, pos, cur, retry, grid, ttConn, prepared, rs,
                   stats, completed, leftOpen, exit>>

AfterTxnClose == FALSE

\* while ( rs.next() ) ; then txn.close().
FetchAll ==
    /\ At("fetch") /\ ret = "none"
    /\ rs' = AfterTxnClose
    /\ completed' = completed + 1
    /\ GoTo("check")
    /\ UNCHANGED <<threads, pos, cur, retry, stack, ret, grid, ttConn,
                   prepared, stale, stats, work, db, hidden, leftOpen, exit>>

FetchFails ==
    /\ At("fetch") /\ ret = "none"
    /\ \E class \in Classes :
        /\ stack' = Unwinding(class) /\ ret' = Thrown(class)
        /\ SessionAfter(class)
    /\ UNCHANGED <<threads, pc, pos, cur, retry, grid, ttConn, prepared, rs,
                   stats, db, history, exit>>

InTxn == At("execute") \/ At("fetch") \/ At("gridinfo")

ConnectionFailoverException ==
    /\ InTxn /\ ret = "failover"
    /\ foCount' = foCount - 1
    /\ needReprepare' = TRUE
    /\ rs' = FALSE
    /\ GoTo("attempt")
    /\ UNCHANGED <<threads, pos, cur, rtCount, stack, ret, grid, ttConn,
                   prepared, stale, stats, work, db, history, exit>>

GridRetryException ==
    /\ InTxn /\ ret = "retry"
    /\ rtCount' = rtCount - 1
    /\ stats' = [stats EXCEPT !.retries = @ + 1]
    /\ rs' = FALSE
    /\ GoTo("attempt")
    /\ UNCHANGED <<threads, pos, cur, needReprepare, foCount, stack, ret,
                   grid, ttConn, prepared, stale, work, db, history, exit>>

\* executeTxnGrid returns FALSE.
TxnFails ==
    /\ InTxn /\ ret = "false"
    /\ rs' = FALSE
    /\ GoTo("disconnect")
    /\ UNCHANGED <<threads, pos, cur, retry, stack, ret, grid, ttConn,
                   prepared, stale, stats, work, db, history, exit>>

-----------------------------------------------------------------------------
(* The end.                                                                *)

DisconnectFrames == <<"close">>

DbDisconnect ==
    /\ At("disconnect")
    /\ stack' = DisconnectFrames
    /\ GoTo("summary")
    /\ UNCHANGED <<threads, pos, cur, retry, ret, grid, ttConn, handles,
                   stats, work, db, history, exit>>

\* Mutant: the hook is never told.
NotShutDown == shutdownDone

HasShutDown == TRUE

\* displaySummary, setShutdown, and the exit status is 0 in any case.
SetShutdown ==
    /\ At("summary")
    /\ shutdownDone' = HasShutDown
    /\ GoTo("sysexit") /\ exit' = 0
    /\ UNCHANGED <<jvm, hook, shuttingDown, pos, cur, retry, stack, ret, grid,
                   ttConn, handles, stats, work, db, history>>

\* The virtual machine starts the hook when it ends, if there is one.
BeginExit == IF hook = "ready" THEN jvm' = "stopping" /\ hook' = "run"
             ELSE IF jvm = "up" THEN jvm' = "down" /\ UNCHANGED hook
             ELSE UNCHANGED <<jvm, hook>>

SystemExit ==
    /\ At("sysexit")
    /\ BeginExit
    /\ GoTo("over")
    /\ UNCHANGED <<shuttingDown, shutdownDone, pos, cur, retry, stack, ret,
                   grid, ttConn, handles, stats, work, db, history, exit>>

\* No thread is left after an uncaught exception.
MainEnded ==
    /\ jvm = "up" /\ pc = "dead"
    /\ BeginExit
    /\ UNCHANGED <<shuttingDown, shutdownDone, pc, pos, cur, retry, stack,
                   ret, grid, ttConn, handles, stats, work, db, history, exit>>

Interrupt ==
    /\ jvm = "up" /\ pc # "dead"
    /\ BeginExit
    /\ UNCHANGED <<shuttingDown, shutdownDone, pc, pos, cur, retry, stack,
                   ret, grid, ttConn, handles, stats, work, db, history, exit>>

HookRun ==
    /\ jvm = "stopping" /\ hook = "run"
    /\ shuttingDown' = TRUE
    /\ hook' = "wait"
    /\ UNCHANGED <<jvm, shutdownDone, pc, pos, cur, retry, stack, ret, grid,
                   ttConn, handles, stats, work, db, history, exit>>

\* while ( ! isShutdown() ) sleep; then the machine halts.
HookEnds ==
    /\ jvm = "stopping" /\ hook = "wait" /\ shutdownDone
    /\ hook' = "ended" /\ jvm' = "down"
    /\ UNCHANGED <<shuttingDown, shutdownDone, pc, pos, cur, retry, stack,
                   ret, grid, ttConn, handles, stats, work, db, history, exit>>

\* Down; or the hook waits for a thread that is gone.
Stuck == jvm = "stopping" /\ hook = "wait" /\ pc = "dead"
Ended == (jvm = "down" \/ Stuck) /\ UNCHANGED vars

Main ==
    \/ Unwind
    \/ ParseArgs \/ ParseArgsFails \/ Connect \/ PrepareEid \/ InitTxn \/ StartupFails
    \/ DataError \/ GetTableData \/ CleanupHistory \/ SetShutdownHook
    \/ EndWorkload \/ \E t \in Workload : BeginTxn(t)
    \/ Attempt \/ ReprepareAll \/ ReprepareAllFails
    \/ UpdateGridInfoEx \/ UpdateGridInfoFails
    \/ ExecuteCall \/ Refused \/ ExecuteFails \/ CommitReportedFailed
    \/ FetchAll \/ FetchFails
    \/ ConnectionFailoverException \/ GridRetryException \/ TxnFails
    \/ DbDisconnect \/ SetShutdown \/ SystemExit

Machine == MainEnded \/ HookRun \/ HookEnds

Next == Main \/ Machine \/ Interrupt \/ Ended

\* The virtual machine runs both threads.
Spec     == Init /\ [][Next]_vars
FairSpec == Spec /\ WF_vars(Main) /\ WF_vars(Machine)

-----------------------------------------------------------------------------
(* Properties.                                                             *)

Frames == {"rollback", "rollbackEnd", "close", "closeRest", "closeEnd", "ttConnClose"}
Labels == Workload \cup {InitPlan[i] : i \in 1..Len(InitPlan)} \cup {"eid"}

\* Every variable has its type; statements are prepared and result sets open
\* only on an open connection.
TypeOK ==
    /\ jvm \in {"up", "stopping", "down"}
    /\ hook \in {"none", "ready", "run", "wait", "ended"}
    /\ shuttingDown \in BOOLEAN /\ shutdownDone \in BOOLEAN
    /\ pc \in {"args", "connect", "eid", "init", "counts", "clear", "hook",
               "check", "attempt", "reprepare", "gridinfo", "execute", "fetch",
               "disconnect", "summary", "sysexit", "over", "dead"}
    /\ pos \in 0..Len(InitPlan) /\ cur \in Workload \cup {"none"}
    /\ needReprepare \in BOOLEAN
    /\ rtCount \in 0..RetryLimit /\ foCount \in 0..FailoverLimit
    /\ stack \in Seq(Frames)
    /\ ret \in {"none", "false", "retry", "failover"}
    /\ grid \in BOOLEAN /\ ttConn \in BOOLEAN /\ stale \in BOOLEAN
    /\ prepared \subseteq Labels /\ (prepared # {} \/ rs => ttConn)
    /\ rs \in BOOLEAN
    /\ stats \in [executed : Nat, updates : Nat, retries : Nat, failovers : Nat]
    /\ work \in [upd : Nat, ins : Nat] /\ db \in [upd : Nat, ins : Nat]
    /\ completed \in Nat /\ hidden \in Nat /\ leftOpen \in BOOLEAN
    /\ exit \in {-1, 0, 1, 2, 3, 4, 5}

\* The counters of the summary tell what is in the database, however often
\* a transaction was rolled back and tried again: a balance update has its
\* history row, and is counted once unless its commit was done and reported
\* as failed.  When the driver has refused to roll back, work of a failed
\* attempt goes into a later commit; even then no update is counted that
\* was not made.
Accounting ==
    /\ db.upd >= stats.updates + hidden
    /\ ~leftOpen => db.upd = db.ins /\ db.upd = stats.updates + hidden

\* When executeTxnGrid begins a transaction the connection is open, every
\* statement is prepared in its present session, no result set is open and
\* nothing is left uncommitted that the driver did not refuse to roll back,
\* whatever went wrong before.
ReadyBetweenTxns ==
    At("check") => /\ ttConn /\ ~stale /\ Workload \subseteq prepared
                   /\ ~rs /\ (work = Nothing \/ leftOpen)

\* The machine halts for Ctrl-C, and the program exits, only when the
\* transaction in progress is over and the connection closed.
CleanExit ==
    hook = "ended" \/ (pc = "over" /\ stack = <<>>) =>
        ~ttConn /\ (work = Nothing \/ leftOpen) /\ prepared = {}

\* The retry loop ends, the rollbacks that call each other end, and the
\* machine halts, unless an exception that nobody catches ends the main
\* thread (the hook then waits for good).
Ends == <>(jvm = "down" \/ pc = "dead")

\* "Rollback; don't throw any exceptions." (GSDbConnection.java:486): none
\* leaves a rollback() that is under way (an overflow of the stack, at the
\* bound MaxDepth, aside).
RollbackThrowsNothing ==
    [][ pc' = "dead" /\ pc # "dead" /\ Len(stack) < MaxDepth =>
        \A i \in DOMAIN stack : stack[i] # "rollbackEnd" ]_vars

\* "The workload will run until it has completed 't' transactions"
\* (GridSample.java:1166).
NumTxnCompleted ==
    At("disconnect") /\ stats.executed >= RunNumTxn => completed >= RunNumTxn
=============================================================================
