----------------------------- MODULE GridSample -----------------------------
(***************************************************************************)
(* The scaleout GridSample program (C, ODBC): one process that connects,   *)
(* prepares its transactions, runs a workload of them and disconnects,     *)
(* while the database answers every ODBC call with success, a transient    *)
(* ("retryable") error, a client connection failover or any other error.   *)
(*                                                                         *)
(* An action is one ODBC call of a transaction function, or one decision   *)
(* of the driver between two such functions.  The call that is active is   *)
(* 'call'; when call.at is 0 the function has returned 'ret' and the       *)
(* driver is in control.                                                   *)
(*                                                                         *)
(* The database is external and modelled by what the program can see of    *)
(* it.  When the connection is moved to another element, the statements    *)
(* prepared so far become stale (unusable) and the work that was not       *)
(* committed is gone.  ODBCCommit takes every answer but SQL_SUCCESS for a *)
(* failure, a warning too: the work may be committed all the same.  After  *)
(* a failover it may, too (CommitInDoubt); a transient error says that the *)
(* transaction was rolled back.                                            *)
(***************************************************************************)
EXTENDS GridTransactions

CONSTANTS
    RetryLimit,      \* context_t.retryLimit, DFLT_RETRY_LIMIT in the code
    FailoverLimit,   \* context_t.failoverLimit, DFLT_FAILOVER_LIMIT
    RunNumTxn,       \* -numtxn, 0 when not given
    LimitByTime,     \* TRUE if -duration was given
    MaxTxn,          \* bound: transactions started when RunNumTxn is 0
    MaxRows,         \* bound: rows of a query result
    OldRows,         \* rows in the history table when the program starts
    ChargeCents,     \* the amounts a charge may have
    TopUpCents,      \* DFLT_TOPUP_VALUE
    CommitInDoubt    \* may a failover hide that a COMMIT was done?

ASSUME LimitAssumption ==
    /\ RetryLimit \in Nat \ {0}
    /\ FailoverLimit \in Nat \ {0}
    /\ RunNumTxn \in Nat
    /\ LimitByTime \in BOOLEAN
    /\ MaxTxn \in Nat
    /\ MaxRows \in Nat
    /\ OldRows \in Nat
    /\ ChargeCents \subseteq Nat
    /\ TopUpCents \in Nat
    /\ CommitInDoubt \in BOOLEAN

Running == -1    \* no exit status yet
Crashed == 139   \* killed by SIGSEGV

VARIABLES
    pc,          \* what the driver is doing
    pos,         \* position in StartupPlan or ReprepPlan
    cur,         \* the workload transaction being executed
    needReprepare, rtCount, foCount,      \* executeTxnGrid
    call, ret,   \* active function, result of the last one
    charge,      \* ctxn->adjustAmount
    topup,       \* ttxn->adjustAmount
    stats,       \* the counters of the context
    stmt,        \* "null", or prepared: "live", or "stale" after a move
    cursor,      \* cursor[t]: is t's 'cursor' not NULL?
    rows,        \* rows left in the result set being fetched
    rowCount,    \* static rowCount of GSTxnPurge.c
    connected, open,   \* the connection: connected?, in a transaction?
    work, db,    \* effects not yet committed, effects committed
    elem,        \* is ctxt->currElementID the element connected to?
    sig,         \* sigReceived
    exit         \* exit status: Running before, Crashed for a NULL pointer

driver == <<pc, pos, cur, needReprepare, rtCount, foCount>>
frame  == <<call, ret>>
amounts == <<charge, topup>>
handles == <<stmt, cursor, rows, rowCount>>
server == <<connected, open, work, db>>
outer  == <<sig, exit>>
vars   == <<driver, frame, amounts, stats, handles, server, elem, outer>>

-----------------------------------------------------------------------------
(* Effects on the database: balance updates, history rows inserted and     *)
(* deleted, and the sums of the amounts added to balances and written to   *)
(* the history.                                                            *)

NoWork == [upd |-> 0, ins |-> 0, del |-> 0, bal |-> 0, hist |-> 0]

BalanceUpdate(a) == [upd |-> 1, ins |-> 0, del |-> 0, bal |-> a, hist |-> 0]
HistoryRow(a)    == [upd |-> 0, ins |-> 1, del |-> 0, bal |-> 0, hist |-> a]

Add(a, b) == [upd  |-> a.upd + b.upd,  ins  |-> a.ins + b.ins,
              del  |-> a.del + b.del,  bal  |-> a.bal + b.bal,
              hist |-> a.hist + b.hist]

\* History rows the open transaction can see.
RowsSeen == OldRows + db.ins + work.ins - db.del - work.del

Amount == IF call.txn = "charge" THEN charge ELSE topup

Idle == call.at = 0

\* The ODBC calls of the active function, and the one it is at.
Body == Script(call.fn, call.txn, stmt["localElement"] # "null")
Op   == Body[call.at]

\* A statement survives only as long as the connection it was prepared on.
Usable(s) == s # OnConn => stmt[s] = "live"

\* The statements after the connection has moved.
Stale(st) == [s \in Stmts |-> IF st[s] = "live" THEN "stale" ELSE st[s]]

\* dbConnect, after the connection is made.
StartupPlan ==
    LET Call(f, t) == [fn |-> f, txn |-> t]
    IN  <<Call("init", "ugi"), Call("execute", "ugi"),
          Call("init", "counts"), Call("execute", "counts")>>
        \o [i \in 1..(Len(AppTxns) - 2) |-> Call("init", AppTxns[i + 2])]

\* Mutant: the loop over the list stops before the last transaction.
ReprepAllButLast ==
    [i \in 1..(Len(AppTxns) - 1) |-> [fn |-> "init", txn |-> AppTxns[i]]]
    \o <<[fn |-> "execute", txn |-> "ugi"]>>

\* executeTxnGrid after a failover: every transaction of the list, then the
\* grid information.
ReprepPlan ==
    [i \in 1..Len(AppTxns) |-> [fn |-> "init", txn |-> AppTxns[i]]]
    \o <<[fn |-> "execute", txn |-> "ugi"]>>

-----------------------------------------------------------------------------
Init ==
    /\ pc = "args" /\ pos = 0 /\ cur = "none"
    /\ needReprepare = FALSE /\ rtCount = 0 /\ foCount = 0
    /\ call = [fn |-> "none", txn |-> "none", at |-> 0] /\ ret = "success"
    /\ charge = 0 /\ topup = 0
    /\ stats = [executed |-> 0, updates |-> 0, deletes |-> 0,
                failovers |-> 0]
    /\ stmt = [s \in Stmts |-> "null"] /\ cursor = [t \in Txns |-> FALSE]
    /\ rows = 0 /\ rowCount = -1
    /\ connected = FALSE /\ open = FALSE
    /\ work = NoWork /\ db = NoWork
    /\ elem = FALSE /\ sig = FALSE /\ exit = Running

-----------------------------------------------------------------------------
(* Entering and leaving a transaction function.                            *)

\* The checks at the head of the execute, fetch and close functions.
Entry(f, t) ==
    LET missing == \E s \in InitStmts(t) \ {"localElement"} : stmt[s] = "null"
    IN  CASE f = "execute" ->
               IF missing \/ (t \in {"ugi", "counts", "query", "authorize"}
                              /\ cursor[t])
               THEN "state" ELSE "go"
          [] f = "fetch"   -> IF missing \/ ~cursor[t] THEN "state" ELSE "go"
          [] f = "close"   -> IF missing \/ ~cursor[t] THEN "success" ELSE "go"
          [] OTHER         -> "go"

Enter(f, t) ==
    /\ call' = [fn |-> f, txn |-> t, at |-> IF Entry(f, t) = "go" THEN 1 ELSE 0]
    /\ ret' = IF Entry(f, t) = "go" THEN "none" ELSE Entry(f, t)

Return(r) ==
    /\ call' = [call EXCEPT !.at = 0]
    /\ ret' = r

\* The call succeeded: go on to the next one, or return SUCCESS.
Advance ==
    IF call.at < Len(Body)
    THEN /\ call' = [call EXCEPT !.at = @ + 1]
         /\ UNCHANGED ret
    ELSE Return("success")

Calls(op) == ~Idle /\ call.fn # "init" /\ Op.op = op /\ Usable(Op.stmt)

-----------------------------------------------------------------------------
(* init functions: free what is left of the statements, then allocate,     *)
(* prepare and bind them again.                                            *)

\* A "real" error while preparing the elementid# query leaves that
\* statement NULL and is not an error of the function.
InitSucceeds ==
    /\ ~Idle /\ call.fn = "init"
    /\ \E local \in {"null", "live"} :
         stmt' = [s \in Stmts |->
                    IF s \notin InitStmts(call.txn) THEN stmt[s]
                    ELSE IF s = "localElement" THEN local ELSE "live"]
    /\ Return("success")
    /\ UNCHANGED <<driver, amounts, stats, cursor, rows, rowCount, server,
                   elem, outer>>

\* Mutant: the work survives the rollback.
NotRolledBack == work

\* What ODBCRollback leaves of the open transaction.
RolledBack == NoWork

\* The error path of a function: classify, roll back, return.
\* 'moved': the failing call found the connection on another element;
\* 'silent': the ODBCRollback of the error path did, and its result is
\* ignored; 'kept': the work is committed although the call is an error;
\* 'left': the statements the function leaves.
ErrorPath(class, moved, silent, kept, left) ==
    /\ moved => class = "failover"
    /\ Return(class)
    /\ stmt' = IF moved \/ silent THEN Stale(left) ELSE left
    /\ elem' = (elem /\ ~moved /\ ~silent)
    /\ open' = FALSE
    /\ work' = RolledBack
    /\ db' = IF kept THEN Add(db, work) ELSE db
    /\ UNCHANGED <<driver, amounts, stats, rows, rowCount, connected, outer>>

ErrorClass == {"retryable", "failover", "fatal"}

InitFails ==
    /\ ~Idle /\ call.fn = "init"
    /\ LET freed == [s \in Stmts |->
                       IF s \in InitStmts(call.txn) THEN "null" ELSE stmt[s]]
       IN  \E class \in ErrorClass, moved, silent \in BOOLEAN :
             ErrorPath(class, moved, silent, FALSE, freed)
    /\ UNCHANGED cursor

-----------------------------------------------------------------------------
(* execute, fetch and close functions: one action per kind of ODBC call.   *)

ExecuteSelect ==
    /\ Calls("select")
    /\ cursor' = [cursor EXCEPT ![call.txn] = TRUE]
    /\ \E n \in 0..MaxRows : rows' = IF HasFetch(call.txn) THEN n ELSE 0
    /\ open' = TRUE
    /\ Advance
    /\ UNCHANGED <<driver, amounts, stats, stmt, rowCount, connected, work,
                   db, elem, outer>>

FetchRow ==
    /\ Calls("fetch")
    /\ Advance
    /\ UNCHANGED <<driver, amounts, stats, handles, server, elem, outer>>

\* fetchTxnQuery, fetchTxnAuthorize
FetchNextRow ==
    /\ Calls("next")
    /\ IF rows > 0 THEN rows' = rows - 1 /\ Return("success")
                   ELSE rows' = 0 /\ Return("nodata")
    /\ UNCHANGED <<driver, amounts, stats, stmt, cursor, rowCount, server,
                   elem, outer>>

CloseCursor ==
    /\ Calls("close")
    /\ cursor' = [cursor EXCEPT ![call.txn] = FALSE]
    /\ elem' = IF Op.stmt = "localElement" THEN TRUE ELSE elem
    /\ Advance
    /\ UNCHANGED <<driver, amounts, stats, stmt, rows, rowCount, server, outer>>

ExecuteUpdate ==
    /\ Calls("update")
    /\ work' = Add(work, BalanceUpdate(Amount))
    /\ open' = TRUE
    /\ Advance
    /\ UNCHANGED <<driver, amounts, stats, handles, connected, db, elem,
                   outer>>

ExecuteInsert ==
    /\ Calls("insert")
    /\ work' = Add(work, HistoryRow(Amount))
    /\ open' = TRUE
    /\ Advance
    /\ UNCHANGED <<driver, amounts, stats, handles, connected, db, elem,
                   outer>>

\* ClearHistory deletes every row; Purge those that are old enough.
ExecuteDelete ==
    /\ Calls("delete") \/ Calls("truncate")
    /\ \E n \in 0..RowsSeen :
         /\ Op.op = "truncate" => n = RowsSeen
         /\ work' = [work EXCEPT !.del = @ + n]
    /\ open' = TRUE
    /\ Advance
    /\ UNCHANGED <<driver, amounts, stats, handles, connected, db, elem,
                   outer>>

GetRowCount ==
    /\ Calls("rowcount")
    /\ rowCount' = work.del
    /\ Advance
    /\ UNCHANGED <<driver, amounts, stats, stmt, cursor, rows, server, elem,
                   outer>>

ODBCCommit ==
    /\ Calls("commit")
    /\ db' = Add(db, work)
    /\ work' = NoWork
    /\ open' = FALSE
    /\ Advance
    /\ UNCHANGED <<driver, amounts, stats, handles, connected, elem,
                   outer>>

\* The error path of an execute, fetch or close function sets the cursor of
\* its transaction to NULL.
ClearedCursor(t) == [cursor EXCEPT ![t] = FALSE]

\* Any call may fail; one on a stale statement always does,
\* with SQLSTATE S1000 (classified as a failover) or another real error.
\* A COMMIT that has committed is a failure if it comes with a warning.
CallFails ==
    /\ ~Idle /\ call.fn # "init"
    /\ \E class \in ErrorClass, moved, silent, kept \in BOOLEAN :
         /\ ~Usable(Op.stmt) => class # "retryable" /\ ~moved
         /\ kept => /\ Op.op = "commit" /\ class # "retryable"
                    /\ class = "failover" => CommitInDoubt
         /\ ErrorPath(class, moved, silent, kept, stmt)
    /\ cursor' = ClearedCursor(call.txn)

TxnFunction ==
    \/ InitSucceeds \/ InitFails
    \/ ExecuteSelect \/ FetchRow \/ FetchNextRow \/ CloseCursor
    \/ ExecuteUpdate \/ ExecuteInsert \/ ExecuteDelete \/ GetRowCount
    \/ ODBCCommit \/ CallFails

-----------------------------------------------------------------------------
(* main and dbConnect.                                                     *)

GoTo(where) == pc' = where /\ UNCHANGED <<pos, cur, needReprepare, rtCount, foCount>>

\* cleanup( &ctxt, status ): freeContext, then exit.
Cleanup(status) == GoTo("cleanup") /\ exit' = status /\ UNCHANGED sig

\* allocContext, parseArgs and installSignalHandlers: 1 for a parameter
\* error, 2 for help, 4 if the context or the handlers cannot be set up.
ParseArgs ==
    /\ pc = "args"
    /\ \/ GoTo("connect") /\ UNCHANGED outer
       \/ \E status \in {1, 2, 4} : Cleanup(status)
    /\ UNCHANGED <<frame, amounts, stats, handles, server, elem>>

Connect ==
    /\ pc = "connect"
    /\ \/ /\ connected' = TRUE
          /\ pc' = "startup"
          /\ pos' = 1
          /\ Enter(StartupPlan[1].fn, StartupPlan[1].txn)
          /\ UNCHANGED <<cur, needReprepare, rtCount, foCount, outer>>
       \/ Cleanup(4) /\ UNCHANGED <<frame, connected>>
    /\ UNCHANGED <<amounts, stats, handles, open, work, db, elem>>

\* dbConnect goes through its plan; any error, transient or not, ends the
\* program with EXIT_ERROR.
StartupStep ==
    /\ pc = "startup" /\ Idle
    /\ IF ret # "success" THEN Cleanup(4) /\ UNCHANGED frame
       ELSE IF pos < Len(StartupPlan)
       THEN /\ pos' = pos + 1
            /\ Enter(StartupPlan[pos + 1].fn, StartupPlan[pos + 1].txn)
            /\ UNCHANGED <<pc, cur, needReprepare, rtCount, foCount, outer>>
       ELSE GoTo("connected") /\ UNCHANGED <<frame, outer>>
    /\ UNCHANGED <<amounts, stats, handles, server, elem>>

\* After dbConnect: interrupted already?  Then ClearHistory, if wanted.
Connected ==
    /\ pc = "connected"
    /\ CASE sig                -> Cleanup(3) /\ UNCHANGED frame
         [] ~sig /\ DoCleanup  -> GoTo("clear") /\ Enter("execute", "clear")
                                  /\ UNCHANGED outer
         [] OTHER              -> GoTo("check") /\ UNCHANGED <<frame, outer>>
    /\ UNCHANGED <<amounts, stats, handles, server, elem>>

ClearDone ==
    /\ pc = "clear" /\ Idle
    /\ IF ret = "success" THEN GoTo("check") /\ UNCHANGED outer ELSE Cleanup(4)
    /\ UNCHANGED <<frame, amounts, stats, handles, server, elem>>

-----------------------------------------------------------------------------
(* runWorkload and executeTxnGrid.                                         *)

\* Mutant: the signal is looked at before the first transaction only.
InterruptedBefore == sig /\ stats.executed = 0

Interrupted == sig

\* -numtxn
LimitReached == RunNumTxn > 0 /\ stats.executed >= RunNumTxn
MayContinue  == ~Interrupted /\ ~LimitReached

ShouldTerminate ==
    /\ pc = "check"
    /\ Interrupted \/ LimitReached
    /\ GoTo("disconnect")
    /\ UNCHANGED <<frame, amounts, stats, handles, server, elem, outer>>

\* -duration: the time is up at some check, as late as the user wants.
TimeUp ==
    /\ pc = "check" /\ RunNumTxn = 0 /\ LimitByTime
    /\ GoTo("disconnect")
    /\ UNCHANGED <<frame, amounts, stats, handles, server, elem, outer>>

\* Choose a transaction and its inputs.  A top-up writes its amount to the
\* charge transaction, which does not exist if the workload has no charges.
BeginTxn(t) ==
    /\ pc = "check" /\ MayContinue
    /\ RunNumTxn = 0 => stats.executed < MaxTxn
    /\ IF t = "topup" /\ "charge" \notin Created
       THEN /\ pc' = "exit" /\ exit' = Crashed
            /\ UNCHANGED <<pos, cur, needReprepare, rtCount, foCount, amounts, sig>>
       ELSE /\ pc' = "attempt"
            /\ cur' = t
            /\ CASE t = "charge" -> \E c \in ChargeCents : charge' = -c
                 [] t = "topup"  -> charge' = TopUpCents
                 [] OTHER        -> UNCHANGED charge
            /\ needReprepare' = FALSE
            /\ rtCount' = RetryLimit
            /\ foCount' = FailoverLimit
            /\ UNCHANGED <<pos, topup, outer>>
    /\ UNCHANGED <<frame, stats, handles, server, elem>>

\* Mutant: only one of the two counters ends the loop.
RetriesExhausted == rtCount = 0

Exhausted == rtCount = 0 \/ foCount = 0

\* Head of the retry loop.
Attempt ==
    /\ pc = "attempt"
    /\ CASE Exhausted ->
               GoTo("disconnect") /\ UNCHANGED frame
         [] ~Exhausted /\ needReprepare ->
               /\ pc' = "reprepare" /\ pos' = 1
               /\ Enter(ReprepPlan[1].fn, ReprepPlan[1].txn)
               /\ UNCHANGED <<cur, needReprepare, rtCount, foCount>>
         [] OTHER -> GoTo("run") /\ Enter("execute", cur)
    /\ UNCHANGED <<amounts, stats, handles, server, elem, outer>>

\* Re-prepare every transaction, then update the grid information.
ReprepareStep ==
    /\ pc = "reprepare" /\ Idle /\ ret = "success"
    /\ IF pos < Len(ReprepPlan)
       THEN /\ pos' = pos + 1
            /\ Enter(ReprepPlan[pos + 1].fn, ReprepPlan[pos + 1].txn)
            /\ UNCHANGED <<pc, cur, needReprepare, rtCount, foCount>>
       ELSE /\ pc' = "run" /\ needReprepare' = FALSE
            /\ Enter("execute", cur)
            /\ UNCHANGED <<pos, cur, rtCount, foCount>>
    /\ UNCHANGED <<amounts, stats, handles, server, elem, outer>>

\* Fetch until there is no more data, then close.
FetchOrClose ==
    /\ pc = "run" /\ Idle /\ HasFetch(cur)
    /\ \/ ret = "success" /\ call.fn \in {"execute", "fetch"} /\ Enter("fetch", cur)
       \/ ret = "nodata" /\ call.fn = "fetch" /\ Enter("close", cur)
    /\ UNCHANGED <<driver, amounts, stats, handles, server, elem, outer>>

\* Mutant: a top-up is not counted.
CountsCharge(t) == t = "charge"

\* The transactions that count as an account update and a history insert.
CountsUpdate(t) == t \in {"charge", "topup"}

\* The rows the last DELETE of Purge removed, from apptxn->rowcount.
RowsPurged == IF cur = "purge" /\ stmt["purge"] # "null" /\ rowCount > 0
              THEN rowCount ELSE 0

incrementCounters ==
    stats' = [executed  |-> stats.executed + 1,
              updates   |-> stats.updates + (IF CountsUpdate(cur) THEN 1 ELSE 0),
              deletes   |-> stats.deletes + RowsPurged,
              failovers |-> stats.failovers]

TxnSucceeded ==
    /\ pc = "run" /\ Idle /\ ret = "success"
    /\ HasFetch(cur) => call.fn = "close"
    /\ incrementCounters
    /\ GoTo("check")
    /\ UNCHANGED <<frame, amounts, handles, server, elem, outer>>

InTxn == pc \in {"reprepare", "run"} /\ Idle

\* Mutant: a retry is not charged to the limit.
AllRetriesLeft == rtCount

RetriesLeft == rtCount - 1

Retry ==
    /\ InTxn /\ ret = "retryable"
    /\ rtCount' = RetriesLeft
    /\ pc' = "attempt"
    /\ UNCHANGED <<pos, cur, needReprepare, foCount, frame, amounts, stats,
                   handles, server, elem, outer>>

Failover ==
    /\ InTxn /\ ret = "failover"
    /\ stats' = [stats EXCEPT !.failovers = @ + 1]
    /\ needReprepare' = TRUE
    /\ foCount' = foCount - 1
    /\ pc' = "attempt"
    /\ UNCHANGED <<pos, cur, rtCount, frame, amounts, handles, server, elem,
                   outer>>

\* A fatal error ends the workload, like exhausted retries; the program
\* then disconnects as if the workload were complete.
TxnFailed ==
    /\ InTxn /\ ret \in {"fatal", "state"}
    /\ GoTo("disconnect")
    /\ UNCHANGED <<frame, amounts, stats, handles, server, elem, outer>>

-----------------------------------------------------------------------------
\* Is the connection still connected after ODBCDisconnect?  SQLDisconnect
\* refuses to end a connection that has an open transaction.
StillConnected(rollback) == connected /\ open /\ ~rollback

\* dbDisconnect( ctxt, false ), then cleanup( &ctxt, SUCCESS ); the result
\* of ODBCDisconnect is ignored.
dbDisconnect ==
    /\ pc = "disconnect"
    /\ connected' = StillConnected(FALSE)
    /\ Cleanup(0)
    /\ UNCHANGED <<frame, amounts, stats, handles, open, work, db, elem>>

\* Free the transactions, then roll back and disconnect if still connected.
freeContext ==
    /\ pc = "cleanup"
    /\ GoTo("exit")
    /\ stmt' = [s \in Stmts |-> "null"]
    /\ cursor' = [cursor EXCEPT !["ugi"] = FALSE]
    /\ connected' = StillConnected(TRUE)
    /\ open' = (open /\ ~connected)
    /\ work' = IF connected THEN RolledBack ELSE work
    /\ UNCHANGED <<frame, amounts, stats, rows, rowCount, db, elem, outer>>

\* sigHandler, once the handlers are installed.
SignalArrives ==
    /\ pc \notin {"args", "exit"} /\ ~sig
    /\ sig' = TRUE
    /\ UNCHANGED <<driver, frame, amounts, stats, handles, server, elem, exit>>

Exited == pc = "exit" /\ UNCHANGED vars

\* Bound: the transactions beyond MaxTxn of a workload that has no limit.
WorkloadGoesOn ==
    /\ pc = "check" /\ RunNumTxn = 0 /\ stats.executed >= MaxTxn
    /\ UNCHANGED vars

Program ==
    \/ TxnFunction
    \/ ParseArgs \/ Connect \/ StartupStep \/ Connected \/ ClearDone
    \/ ShouldTerminate
    \/ \E t \in Workload : BeginTxn(t)
    \/ Attempt \/ ReprepareStep \/ FetchOrClose \/ TxnSucceeded
    \/ Retry \/ Failover \/ TxnFailed
    \/ dbDisconnect \/ freeContext

Next == Program \/ TimeUp \/ SignalArrives \/ WorkloadGoesOn \/ Exited

\* The one process of the program runs; the user's time limit may never come.
Spec     == Init /\ [][Next]_vars
FairSpec == Spec /\ WF_vars(Program)

-----------------------------------------------------------------------------
(* Properties.                                                             *)

Results == {"none", "success", "nodata", "retryable", "failover", "state",
            "fatal"}

PCs == {"args", "connect", "startup", "connected", "clear", "check", "attempt",
        "reprepare", "run", "disconnect", "cleanup", "exit"}

Calling == [fn : {"none", "init", "execute", "fetch", "close"},
            txn : Txns \cup {"none"}, at : Nat]

Effects == [upd : Nat, ins : Nat, del : Nat, bal : Int, hist : Int]

DriverOK ==
    /\ pc \in PCs /\ pos \in Nat /\ cur \in Workload \cup {"none"}
    /\ needReprepare \in BOOLEAN
    /\ rtCount \in 0..RetryLimit /\ foCount \in 0..FailoverLimit

DataOK ==
    /\ charge \in Int /\ topup \in Int
    /\ stats \in [executed : Nat, updates : Nat, deletes : Nat, failovers : Nat]
    /\ rows \in Nat /\ rowCount \in Int

HandlesOK ==
    /\ stmt \in [Stmts -> {"null", "live", "stale"}]
    /\ cursor \in [Txns -> BOOLEAN]

ServerOK ==
    /\ connected \in BOOLEAN /\ open \in BOOLEAN
    /\ work \in Effects /\ db \in Effects

OuterOK ==
    /\ elem \in BOOLEAN /\ sig \in BOOLEAN
    /\ exit \in {Running, Crashed} \cup 0..4

\* Every variable has the type the C declarations give it, and the retry
\* counters of executeTxnGrid stay within their limits.
TypeOK ==
    /\ DriverOK
    /\ call \in Calling /\ ret \in Results
    /\ DataOK /\ HandlesOK /\ ServerOK /\ OuterOK

\* A committed balance change always has its history row, and the balances
\* agree with the history, whatever call of the charge or top-up failed and
\* however often the transaction was retried (GSTxnCharge, GSTxnTopup).
Ledger == db.upd = db.ins /\ db.bal = db.hist

\* Postings committed but not yet counted: at most the current one.
Landed == IF pc = "run" /\ Idle /\ ret = "success" /\ cur \in {"charge", "topup"}
          THEN 1 ELSE 0

\* Failovers that may have hidden a successful commit.
HiddenByFailover ==
    IF CommitInDoubt
    THEN stats.failovers + (IF pc = "run" /\ Idle /\ ret = "failover" THEN 1 ELSE 0)
    ELSE 0

\* The posting was the last one, and was reported as failed.
PostingFailed ==
    Idle /\ call.fn = "execute" /\ call.txn \in {"charge", "topup"} /\ ret = "fatal"

InDoubt == HiddenByFailover + (IF PostingFailed THEN 1 ELSE 0)

\* The counters of the summary tell what is in the database: a counted
\* account update is committed, an update committed is counted once, except
\* that each failover may have left one behind (executeTxnGrid runs the
\* transaction again after a failover of its commit), and that the posting
\* whose error ended the workload may be there (its commit came with a
\* warning).
Accounting ==
    /\ stats.updates + Landed <= db.upd
    /\ db.upd <= stats.updates + Landed + InDoubt
    /\ stats.deletes <= db.del

\* Whenever the driver is about to choose a transaction, every transaction
\* of the program is prepared on the connection now in use, no cursor is
\* left open, and the element reported is the one connected to: a failover
\* in the middle of an earlier transaction, of its error path or of the
\* re-preparation itself leaves nothing behind.
ReadyBetweenTxns ==
    (pc = "check" /\ GridRow # "none") =>
       /\ \A t \in Created : ~cursor[t]
       /\ \A t \in Created : \A s \in InitStmts(t) \ {"localElement"} : stmt[s] = "live"
       /\ stmt["localElement"] # "stale"
       /\ (GridRow = "on" /\ stmt["localElement"] = "live") => elem

\* The internal checks at the head of the transaction functions never fire:
\* no function is entered with a statement missing or its cursor still set.
NeverRefused == ret # "state"

\* However the program ends, short of a crash, the connection is closed, no
\* transaction is left open on it and no statement handle is left.
CleanExit ==
    pc = "exit" /\ exit # Crashed =>
        ~connected /\ ~open /\ \A s \in Stmts : stmt[s] = "null"

\* The retry loop always ends, and with it the program, once the number of
\* transactions is limited.
Terminates == RunNumTxn > 0 => <>(pc = "exit")

\* "the program will run until it is manually terminated using Ctrl-C"
\* (GSUsage.c:96): an interrupt ends the program whatever it is doing, also in
\* a workload that would go on for ever.
SignalStops == sig ~> (pc = "exit")

\* The program implements the payment ledger.  (A top-up posts 0 where it
\* should post TopUpCents: see TopUpAddsItsAmount.)
Abstract == INSTANCE PaymentLedger WITH
                Amounts <- {-c : c \in ChargeCents} \cup {0},
                ledger <- db, counted <- stats.updates
ImplementsLedger == Abstract!LedgerSpec

\* README.md: "TopUp - Add $10.00 to an account's balance."
TopUpAddsItsAmount ==
    [][(cur = "topup" /\ db'.upd > db.upd) => db'.bal - db.bal = TopUpCents]_vars

\* README.md: "Exit status: 0 - Success ... >2 - Fatal error encountered".
FatalErrorReported == pc = "exit" /\ exit = 0 => ret # "fatal"
=============================================================================
