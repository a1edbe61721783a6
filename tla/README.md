# TLA+ verification of the TimesTen samples

The repository holds sample programs for Oracle TimesTen: benchmarks, API
demonstrations and two "best practice" programs, in C, C++, Java, Python,
JavaScript and shell, plus container scripts. Much of it is sequential code that
shows one API. The logic worth verifying is in the programs that retry, fail over,
synchronise processes or threads, resume after a crash, parse a command line in an
order-dependent way, or keep several tables in step. Those are modelled here.

## 1. Inventory

| Component | State it keeps | Hard behaviour | What makes it correct |
|---|---|---|---|
| **GridSample, C** (`scaleout/sample_code/odbc/GS*.c`) | context (limits, counters, element), transactions with statements and a cursor each, connection | transient error or failover at any ODBC call, also in the error path and while recovering; commit with unknown outcome; signal | updates and history agree; counters tell what is committed; every transaction ready again after recovery; always ends |
| **its ODBC layer** (`GSOdbc.c`) | handles, statements, bound buffers, error lists per handle | the driver refuses to free a handle; a diagnostic is lost; an old error list is read for a new error | bound memory is live; an error is classified by the call that failed; no write past a buffer |
| **its command line** (`GSArgs.c`, `GSUtil.c`) | options, cumulative percentages | boundaries of `-txnmix` | only a prepared transaction is chosen |
| **GridSample, Java** | as in C, plus a shutdown hook | exceptions; `rollback()` and `close()` calling each other; the hook waits for main | counters agree with the database; always ends |
| **tptbm.c**, classic | one state word and one counter per process in shared memory, no lock | two writers per word, lost commands, a process that fails, Ctrl-C | barrier holds; only measured transactions are reported; report after the last child; ends |
| **tptbm.c**, scaleout | blocks of keys per process, a connection per element | processes inserting and deleting in one table; an error word that is not an error | nobody inserts another's key; ends |
| **tptbmOCI.c, tptbmODPI.c** | a word per process in a segment found by a key | segment and children of an earlier run; a child that dies | started by its own parent; report after the last |
| **Tptbm.java** | ready/go/done flags under monitors | notification before the wait; a thread that fails | execute together; all joined |
| **pooltest.cpp** | connection pool | invalid database while connections are out; fewer connections than threads | connection returned on every path |
| **XLA subscribers** (`xlaSimple.c`, `xlasubscriber1/2.cpp`) | persistent bookmark, batch being handled | crash between handling and acknowledging; transactions spanning batches | nothing lost; redelivery only after a crash; log released |
| **JMS subscribers** (`jdbc/jms`) | flags shared by listener, main and shutdown hook | notify before wait, kill, acknowledgement before printing | at most the message in hand lost; shutdown ends |
| **bulkinsert.c, tpcb.c, wiscbm.c** | tables, an open transaction, counters | a failure, signal or kill between any two statements; the tables an earlier run has left; batches and commits that do not divide | rows in order; balances agree; tables as asked |
| **ttgetopt.c** | option list, cursor in `argv`, messages | abbreviation, negation, bundling; precedence of four sources of a connection string | the option meant is found; connects as told |
| Others | none, or none shared | | not modelled, section 8 |

How they interact. All programs are clients of a TimesTen database, which is external
here: each model has as much of it as its program can see (committed and open work,
handles, a transaction log with bookmarks, lock waits). The processes of a `tptbm`
program are forked by the parent, inherit its options and talk through shared memory
only. GridSample's driver calls its transactions through a table of function pointers;
these call `GSOdbc.c`. The classic programs call `ttc_getoptions` once and then
`handle_errors` and `QuitTest` of `common/utils.c` after every ODBC call. Runs of
the same program meet through what they leave behind: a bookmark, a segment, tables.

`PROJECT.json` lists the components and, under `hazards`, each thing in this code that
a test would hardly reach, at its line, with the property that watches it.

## 2. Modules

| Module | Models | Composes |
|---|---|---|
| `GridTransactions` | `GSTxn*.c` as data: statements prepared and ODBC calls of each function, in order | |
| `GridSample` | driver, retry loop, failover, signal, disconnect | `GridTransactions` |
| `PaymentLedger` | abstract: what the workload promises about balances and history | refined by `GridSample` |
| `OdbcBindings` | `odbcTypeCompatible` and the setters as operators | |
| `GsOdbc` | the layer `GSOdbc.c` under three transactions | `OdbcBindings` |
| `JavaGridSample` | the Java program: main thread, stack of `rollback`/`close`, hook | |
| `TptbmSync` | the handshake of `tptbm.c` | |
| `TptbmWorkload` | population, connections, operations, commits of the scaleout `tptbm.c` | |
| `TptbmClients` | `tptbmOCI.c` and `tptbmODPI.c`, several runs in a row | |
| `TptbmThreads` | `Tptbm.java` | |
| `ConnectionPool` | `pooltest.cpp` | |
| `ChangeFeed` | abstract: a subscriber to a log with acknowledgement | refined by `XlaSubscriber` |
| `XlaSubscriber` | the three XLA programs | |
| `JmsSubscriber` | `asyncJMS`, `syncJMS` (and their `2` variants) | |
| `TtGetopt`, `GsArgs` | the two parsers as operators on the state of a parse | |
| `CommandLines` | a parse as a behaviour, and what a program does with its result | `TtGetopt`, `GsArgs` |
| `OdbcProgram` | statement, commit, error, signal and kill of a classic program | |
| `Bulkinsert`, `Tpcb`, `Wiscbm` | the work of each benchmark | `OdbcProgram` |
| `ClassicBenchmarks` | from the command line through the work to the exit and the next run | `CommandLines` and the three |
| `MC*` | the sets of the instances | |
| `GridSampleProofs`, `ScaleoutOdbcProofs`, `JavaGridProofs`, `SubscriberProofs`, `ClassicSampleProofs`, `TptbmSyncProofs`, `TptbmClientsProofs`, `TptbmThreadsProofs` | theorems and proofs | |

## 3. How state and actions correspond to the code

**GridSample.** An action is one ODBC call of a transaction function, or one decision of
the driver between two functions. `call` is the active function and the position in
its script; `call.at = 0` means that it has returned `ret`. `ExecuteSelect`, `FetchRow`,
`FetchNextRow`, `CloseCursor`, `ExecuteUpdate`, `ExecuteInsert`, `ExecuteDelete`,
`GetRowCount` and `ODBCCommit` are the successful calls; `CallFails` is the `error:` label
(classify, `ODBCRollback` with its result ignored, clear the cursor, return). An `init`
function allocates and prepares only its own statements, so it is one step that succeeds
or fails. `BeginTxn`, `Attempt`, `ReprepareStep`, `FetchOrClose`, `TxnSucceeded`, `Retry`,
`Failover` and `TxnFailed` are the parts of `executeTxnGrid`; `ParseArgs` to `ClearDone`,
`dbDisconnect` and `freeContext` are `main`. `stmt[s]` is `"null"`, `"live"` or `"stale"`
(prepared on a lost connection); `work` and `db` are the open and committed effects. A
failing call may be transient, a failover that moved the connection, an S1000 that did not,
or fatal; the rollback of the error path may itself find a failover; with `CommitInDoubt`
a failover of a `COMMIT` may have committed. `ODBCCommit` takes every return but `SQL_SUCCESS` for an
error, `SQL_SUCCESS_WITH_INFO` too, so a `COMMIT` that is reported as a fatal error may have committed in any instance.
`TimeUp` is the end of `-duration`, which may be as late as the user wants; `WorkloadGoesOn` stands for the
transactions beyond `MaxTxn`. `GridRow` is what the TTGridEnable query
answers, `"none"` being the code's `ERR_ODBC_NO_DATA` branch. Assumed of the database: no
transaction is open after the error path; a result is not larger than `MaxRows`; an
account looked up exists.

**GsOdbc.** An action is one call of the layer (`ODBCConnect`, `ODBCPrepare`,
`ODBCBindParameter`, `ODBCSetParam_*`, ...) with all it does to `conn`, `stmt` (the structures)
and `drv` (what the driver holds: handles and the buffers bound to them). The driver
answers success, success with information, no data or an error, with diagnostics
that say retry, failover or neither. `odbcGetErrors` reads them up to the first that it cannot read, and says
so only if that is the very first: an error may be classified by part of its diagnostics. `cause` remembers why the
driver refused, and whether all of it was read; `lost` collects what is no longer reachable. `Buffer` sizes are in bytes, a
number is abstracted to the bits it needs.

**JavaGridSample.** `pc` and `pos` are the main thread; `stack` has a frame for each active
`rollback()` and `close()`, which call each other; `ret` is the value or exception of the
last call. A commit may take effect and be thrown as an error, because of a warning (`CommitReportedFailed`; `hidden`
counts the postings), and a rollback may be refused (`RollbackRefused`, `leftOpen`). `hook` is the thread that sets `shuttingDown` and waits for `shutdownDone`.
`MaxDepth` stands for the size of the Java stack.

**TptbmSync.** An action is the code of one process between two accesses to the shared
words that another process could come between: a child that reads its word and answers
takes two steps (`ChildPoll`, `ChildAnswer`), and so does a parent that checks the children
and then writes to them. A loop of the parent over the children is one action: each child
touches its own word only, so the loop commutes with the others' steps. `Fail` is an ODBC
error, after which `handle_errors` exits; `Warn` is a warning or a missing row, after which it returns and the process goes on
with `PROC_ERROR` in its word (`warned` remembers who has). `Leave` is `StopRequested()`, `Tick` is the clock.

**TptbmWorkload.** The table is a set of committed rows; `pending` has the open changes of each
process, and with them its locks: an operation on a row that another process has
changed waits. `SQL_NO_DATA_FOUND` and warnings write `PROC_ERROR` and go on, as
`handle_errors` does. The handshake is kept only as far as that word reaches into it.

**TptbmClients.** A process is `<<run, number>>`. `keyed` is the segment that `ftok` finds, which
survives a run that failed (OCI), and finds nothing in ODPI-C, where each run has a segment of its own; the words in `shm`
go to 1 at the start and to 0 at the end. Children of one run may live into the next.

**TptbmThreads, ConnectionPool.** One `pc` (`tpc`) per thread; the wait set of each monitor is explicit, so
that a notification before a wait is lost as it is in Java. In `ConnectionPool` checkout
blocks while `free` is empty, and an exception that nobody catches aborts the process. `TypesPassword` and
`TypesFirstPassword` are the user's: the program waits for the terminal there, with SIGINT blocked.

**XlaSubscriber, JmsSubscriber.** `bookmark` is what the database keeps across runs: existence,
position, tracked tables. A kill is possible between any two calls and drops everything
else. `handled` is history. The XLA programs map to `ChangeFeed`: deliver the next update, acknowledge
delivered ones, crash back to the last acknowledgement. `UserAnswers` is the user who names the table to
`xlasubscriber1`. With JMS it is the provider that acknowledges; what can be wrong in the programs is which acknowledged
messages they have not printed (`received`, `handled`). `ReceiveMore` stands for the updates beyond `MaxLog`.

**TtGetopt, GsArgs, CommandLines.** A word of a command line is a sequence of tokens, enough
of them apart to tell names, abbreviations, `no`, `=`, numbers and a connection string. A
parse is a record of the parser's variables, a step of `CommandLines` one pass through
the loop of `parse_args` (or the whole of `parseArgs` of GridSample for one word). `p` is
what an uninitialised pointer happens to point to (`ttgetopt.c:903`), one of three
outcomes; there are `Wrap` ints (2^w for w bits), and a counter that exceeds them wraps around.

**Bulkinsert, Tpcb, Wiscbm.** `txn` is what the program sees of the tables, `db` what is
committed; `Statement`, `Ddl`, `Commit`, `Calls` and `Ignored` of `OdbcProgram` are an ODBC call
together with the `handle_errors` after it. Any call may fail, a signal is noticed after
the next call, a kill may come anywhere, and a commit that fails may have committed. An
exit rolls back. The next run starts with the tables it finds.

## 4. Runs

| Run | Instance | Shows |
|---|---|---|
| `grid_scaleout` | five transaction types, `-numtxn 2`, grid, clean-up, `-commitrotxn`, 2 retries, 2 failovers | `TypeOK`; `Ledger`: committed balance changes and history rows agree; `ReadyBetweenTxns`: after any recovery every statement, cursor and the element number are right again; `Terminates`; `ImplementsLedger` |
| `grid_duration` | `-duration`, `-nocleanup`, not a grid, a failover may hide a commit; the workload goes on until the time is up or a signal | `Accounting`: the summary's counters tell what is in the database, but for a posting whose commit was reported as a failover or an error; `SignalStops`: an interrupt ends the program whatever it is doing, though nothing else does |
| `gs_odbc` | a query with parameters and columns, a two-statement transaction, one that reads a row count; 2 driver faults anywhere; bindings at the thresholds of `odbcTypeCompatible` | `BoundBuffersLive`, `ClassifiedAsItFailed`, `Prepared`, `WritesFit` |
| `java_grid` | a read, a posting and a purge transaction, 2 retries, 2 failovers, a warning at a commit, a refused rollback, Ctrl-C | `Accounting`, `Ends` |
| `command_lines` | every command line of up to three words (four for GridSample) over each program's vocabulary; 19 command lines followed through the work of the benchmarks, two runs on the same tables, one fault | `ConnectsAsTold`, `FindsTheOption`, `ChosenPrepared`; `RowsLoadedInOrder`, `BranchesBalance`, `TablesLeft` |
| `tptbm_sync` | 3 processes, 2 transactions each, one error or warning and one Ctrl-C anywhere, with and without ramp-up, transaction mode | `StartTogether`, `ReportAfterAll`, `WindowCounted`, `Terminates`, `InterruptEnds` |
| `tptbm_workload` | 2 processes, 2 elements, all option sets of `-scaleout`, one error, warnings, Ctrl-C | `InsertsFresh`, `Ends` |
| `tptbm_clients` | OCI and ODPI-C, two runs, one or two processes, one failing call | `StartedByParent`, `ReportAfterAll`, `Ends` |
| `tptbm_threads` | 2 threads, three modes, any call failing | `ExecuteTogether`, `InsertsDisjoint`, `Terminates` |
| `connection_pool` | 3 insert threads and a fetch thread on 2 connections, the database becomes invalid once | `AllReturned`, `Ends` |
| `xla_subscribers` | each program, 2 starts, batches of 2, log of 4 | `AtLeastOnce`, `ImplementsFeed`; `LogReleased`: what is handled is acknowledged; `StopsCleanly`: Ctrl-C ends each program, without a bookmark or a tracked table left behind |
| `jms_subscribers` | both styles, 3 starts, log of 3, then updates without end | `LostMessages`: what is acknowledged and not printed; `ShutdownEnds` |

`PROJECT.json` has, for every property of every run, a mutant: a plausible bug in a
mapped definition (a dropped guard, a missing reset, a swapped order) that makes
TLC find the property violated.

The same instances also satisfy properties that are not in the standing runs, kept
in the modules for use while changing them: `CleanExit` and `NeverRefused` (GridSample),
`ValuesSurvive` and `Released` (GsOdbc), `TypeOK`, `ReadyBetweenTxns` and `CleanExit`
(JavaGridSample), `TypeOK` (TptbmSync), `TransactionSize` (TptbmWorkload), `OwnRows`
(TptbmClients), `RowsThere` (ConnectionPool), `TypeOK`, `PositionKept` and `Delivered` (XlaSubscriber), `Delivered` and `CleanShutdown` (JmsSubscriber).

**Bounds.** Retry and failover limits are 2: enough to fail, recover and fail again in the
recovery, and for each counter to end the loop while the other has not. Two
transactions: the interesting histories are what one leaves to the next, and any pair of
types occurs. `MaxRows` and `OldRows` 1 give empty and non-empty fetch loops and deletions.
One charge amount is enough because sums are compared. Two driver faults in `GsOdbc`:
one to break something and one to hit its repair. Three `tptbm_sync` processes give two
children in different places; 2 transactions distinguish a process that is one off the
window from one that counts nothing. The bounds of `xla_subscribers` let a transaction
span a batch and a restart meet an unacknowledged batch; a third JMS start meets a
bookmark that a clean start has used. Two runs of a benchmark or of a `tptbm` program
show all that one leaves to the next. Three words of a command line hold an option, its
argument and the connection string; two messages fill `errmsgbuf`. A width of 8 bits
lets a counter of `bulkinsert` reach its limit. The generators of `wiscbm`'s random columns
are replaced by smaller primes, and `GeneratorsGenerate` checks of the real ones
what the model relies on, that each number comes once.

**Fairness.** A single process has weak fairness of its next step: the operating system goes
on running it and an ODBC call returns. Which result a call has is not fair at all.
Processes, threads, provider, hook and virtual machine have weak fairness each, because
each is scheduled independently, and every wait of the code is a polling loop, a monitor
or a lock that its holder's progress frees. `WF_vars(Tick)` says that time passes. Errors,
kills, restarts and Ctrl-C have none; a signal is not forced to come. Nor has the user at a prompt (the password of
`pooltest`, the table of `xlasubscriber1`), whom Ctrl-C does not wake: `Ends` and `StopsCleanly` except who waits there. Nor has the
end of `-duration`, so that `SignalStops` has to get by without it; and nothing makes other programs stop committing, so that
`ShutdownEnds` excepts a `syncJMS` that is never without a message. `ClassicBenchmarks` states
no fairness: its properties are invariants, and the check for deadlock says that no
parse and no benchmark gets stuck before its end.

**Timing.** With `Prompt` a phase of `tptbm.c` (seconds) lasts longer than a child's pass through
its loop (one transaction): a child has seen the last command before the next phase is
over. Without it no property of the window could hold. The conjunct is only in `Tick`, so
two commands without a phase between them (no ramp-down) are not excused. `StartTogether`
and `ReportAfterAll` do not need `Prompt` (section 6 proves them without it); `WindowCounted` (proved from it) and
`Terminates` do.

`CHECK_DEADLOCK FALSE` is said of `tptbm_clients` only: a child of a parent that failed
polls its word forever, and its process takes no step that changes anything.

## 5. Statements that do not hold

`findings` in `PROJECT.json` quotes each comment, usage text or document that the code
contradicts, at its line. Where the module states it as a property, adding that
property to the cfg named here (with the constants changed as said) makes TLC print
the behaviour.

| Property | Add to | What the trace shows |
|---|---|---|
| `TopUpAddsItsAmount` | `grid_scaleout` | a TopUp posts 0: `GridSample.c:428` writes to the Charge transaction |
| `FatalErrorReported` | `grid_scaleout` | exit status 0 after a fatal error |
| `NeverRefused` | `grid_scaleout`, `GridRow = "none"` | without a TTGridEnable row a failover is never survived |
| `ColumnsFreed` | `gs_odbc` | each re-preparation loses all column bindings but the first |
| `RollbackThrowsNothing`, `NumTxnCompleted` | `java_grid` | an exception out of `rollback()`; a transaction counted twice |
| `WindowCounted`, `Terminates` | `tptbm_sync`, `Args <- NoRampDownArgs` | STOP overwrites STOPBENCH, or a late STOPPING wipes out STOP |
| `WaitsForAll` | `tptbm_sync` | a child that met a warning works on with `PROC_ERROR` in its word, and the parent reports without it |
| `ParentEnds` | `tptbm_sync`, `Args <- XactArgs` | a child that fails before the start leaves all waiting |
| `AllXactsCounted` | `tptbm_sync`, `Args <- XactArgs` | one transaction less than `-xact` is reported per process |
| `ReportAfterAll` | `tptbm_workload`, `Args <- ReadDeleteArgs` | a missing row makes the parent report before a child is done |
| `StartTogether`, `StartedByOwnParent`, `ParentEnds`, `ChildrenEnd` | `tptbm_clients` | no barrier; a start by the segment of an earlier run; a parent waiting for a dead child; children of a parent that failed |
| `ExitAfterDone` | `tptbm_threads` | main leaves while threads execute |
| `StopEnds` | `connection_pool` | Ctrl-C does not end a program that asks for a password |
| `AckAtBoundary` | `xla_subscribers`, `Programs <- OnlySub1` | a batch is acknowledged in the middle of a transaction |
| `TrackedWhileDown`, `BookmarkDeleted` | `xla_subscribers` | after an exit of its own `xlaSimple` tracks no table while it is down; its bookmark is never deleted |
| `ShutdownAlwaysEnds` | `jms_subscribers` | `syncJMS` stays in `get()` while messages keep coming, and its hook waits |
| `NumbersKept`, `NegationNegates`, `IndexInArgv`, `AbbreviationFound`, `NeverCrashes`, `OneMessageEach` | `command_lines` | each in a parse of one to three words |
| `AnyNumberLoaded`, `SuccessIsLoaded`, `AnyScaleRuns`, `NobuildAgain` | `command_lines` | an overflowing counter; success after a failed load; a division by zero; rows of an interrupted run |

The remaining findings are read off the code and have no property: a wrong unit, a
comment about a variable nobody sets, a statement prepared twice.

## 6. Proofs

Each theorem holds for every value of the constants that the named assumptions of its
module allow; TLC evaluates these assumptions on every run. There is no axiom.

`GridSampleProofs`: `TypeCorrect == Spec => []TypeOK`. `TypeOK` is not inductive: that
`Retry` leaves `rtCount` at 0 or more needs to know that the counters are above 0
while an attempt is under way (`CountersLeft`, which the head of the loop establishes),
and that the transaction being executed is one of the workload (`HasCurrent`). `TInv` is
the conjunction, and each action has a lemma.

In the same module, `LedgerSafe == Spec => []Ledger`. The induction needs the position in
the script: between the `UPDATE` and the `INSERT` of a posting the uncommitted work is
half a posting, everywhere else it is balanced. `LInv` says so: `InScript` (`call.at` is
a position of the script), `IdleOutside` (no function is active where the driver
decides), `WorkInv` (the work is balanced, or half posted exactly at call 5 of a Charge or
TopUp) and `Ledger`. A commit, which is never at call 5, adds balanced work; an
error path drops the work or, when a commit took effect and was reported otherwise, keeps it at a
commit. The argument does not use the limits: it holds for any number of retries.

`AccountingSafe == Spec => []Accounting` and `ImplementsPaymentLedger == Spec => ImplementsLedger`
need more: not only that the open work is balanced but exactly what it is. `CInv` says
which function runs for which transaction (`RunsCurrent`), what that function has done
before its call at `call.at` (`WorkShape`), what the last statement reported to the
program (`AmountsKnown`, `RowsCounted`), and how far the counters lag behind the database:
a transaction that has committed but is not yet counted (`Landed`, `ToCount`), and what
may be there without being counted (`InDoubt`): one posting per failover if that can hide a commit
(`HiddenByFailover`), and the posting whose commit was reported as an error, after which the workload ends (`PostingFailed`). Each
commit is then a `Post` or `Purge` of the ledger, each `TxnSucceeded` a `Count`, and every
other step a stutter; there is one lemma per group of actions (`TxnFunctionRefines`,
`DriverRefines`).

`ReadySafe == Spec => []ReadyBetweenTxns`. `PInv` follows the two plans, of startup and of
re-preparation: what lies before `pos` is prepared on the present connection (`Followed`).
What makes it inductive is what can be true between the failover and the end of the
re-preparation: when a function of the workload runs, either every statement is live, or
none is and the function has made no call or has been refused, so that the driver is about to see
it (`PreparedWorkload`). A second failover in the middle of the plan sets `needReprepare` again and
puts `pos` back. `CursorsClosed` adds that a cursor belongs to the function that is
reading it and to no other, `ElementKnown` that where the element is not known the
plan still has the grid information to come.

`ScaleoutOdbcProofs`: `BoundBuffersLiveSafe == Spec => []BoundBuffersLive`, `ClassifiedSafe == Spec =>
[]ClassifiedAsItFailed`, `PreparedSafe == Spec => []Prepared` and `WritesFitSafe == Spec => []WritesFit`, from one
invariant, `OInv`, for any bindings, setters and values and any number of faults. None of the
four properties says what holds between two calls of an init function, and that is what has to be
known. `Placed` follows each statement through the script of all three functions by position: from its
`reset` to its allocation the driver holds none of its buffers, then it has its handle, then
its text, then each of its bindings, so that all is there when the script is over (`Complete`)
and stays there until a failover sends the program back to the script. `Owned` says that what the driver
has an address of is a binding of a live statement (`Safe`), and in the list of bindings
unless the call that should have linked it has just been refused (`Linked`); a
handle the driver refuses to free keeps addresses of freed memory, but its structure has gone and no
call can use it. `Told` says that after a refusal the error list that the error path
reads is what the driver posted for that call, on the statement or on the connection, or the part of it that
could be read (`AsRead`), and nothing older: `odbcGetErrors` empties a list before it fills it. `Session` is the connection: it is open and does not
commit by itself from the end of `ODBCConnect` to the disconnect. `WritesFit` needs of this only that a
bound parameter has a buffer `odbcTypeCompatible` accepted (`Structures`); the rest is arithmetic on sizes.
Each action has a lemma, and the lemmas `StepToScript`, `StepToTxn` and `StepAway` say what it
takes to keep `OInv` by where a step leads.

The last theorem there is about the other program of these sources, `tptbm.c` and the blocks of keys its processes
walk through: `InsertsFreshSafe == ASSUME EnoughRows PROVE WorkloadSpec => []InsertsFresh`, for
any number of processes, elements and rows. `WorkInv` says that every row in the table or in an
open insert is `Taken`: populated, or one that its process has passed. That a position is taken by one process
only is arithmetic (`RowsDiffer`: a number has one quotient and one remainder). With `-scaleout local` a
process passes over rows of other elements, and that its search ends (`LocalNear`, `LocalFromForward`) needs the one
hypothesis that is not in the module, `EnoughRows`: no more elements than `-key`. With more of
them the rows of a process may, by the distribution the model assumes, all lie elsewhere, and the program searches for ever.

`JavaGridProofs`: `JavaAccountingSafe == Spec => []Accounting`. Here the error path is not one
step: the exception leaves frames on the stack, which run later and may call each
other to any depth. `JInv` (`WorkKnown`) says that the open work is the calls already
made (`Before`); that after an exception which has the transaction tried again it is gone, or
the one frame on the stack is its `rollback()` on an open connection; and that the only work left over
belongs to a transaction that returns false, after which no transaction begins and nothing is
committed. Each part excepts a run in which the driver has refused a rollback that should have undone something (`leftOpen`): the next
transaction then commits what was left, and all that can be said is that nothing is counted that is not there. `UndoesOrLeaves` is all that has to be known of the six frame actions.

`SubscriberProofs`: the inductive invariant of the XLA programs is `XInv`. `LogOK` orders the positions
(`since <= acked`, `next <= todo`, all within the log); `Position` says that while the program
reads, what it has been handed begins at its bookmark and everything from there to
`next` has been handled; `TableCount` keeps the loops over the tables in range. From `XInv`
follow `XlaTypeCorrect == Spec => []TypeOK`; `XlaAtLeastOnce == Spec => []AtLeastOnce`, because an
acknowledgement takes the bookmark to `next = todo`; and `XlaImplementsFeed == Spec =>
ImplementsFeed`, by a simulation with one case per action (`StepFeed`): creating the bookmark
subscribes, a handler handles, an acknowledgement acknowledges, and everything else, a
kill included, changes nothing the feed can see. `FeedSafe`, in the same module and about variables of
its own (`Any`), says of every subscriber that behaves as `ChangeFeed` says that it acknowledges
only what has been handled; `FInv` adds to that where the positions lie: `since <= acked <=
committed`. So the promise of the feed is worth keeping, and the three programs keep it for any batch size,
log and number of restarts.

With JMS the provider acknowledges. `JInv` says that while
the subscriber is open everything from the bookmark to the message in hand has been
received (`TakenInOrder`), and which thread can have a message in hand where (`InHand`): the listener
runs beside the main thread, so a message of his is not acknowledged yet; what `receive()` returned is.
`JmsLosesAtMostOne == Jms!Spec => []Jms!LostMessages` counts: `LostInv` bounds what was received and
not printed, the message in hand left out, by the number of earlier starts that a failure or a kill ended. That a start which Ctrl-C
ended is not among them is due to the shutdown hook: `CleanInv` ties the end of the hook to
`done`, and `done` to a main thread that has closed everything or met a failure, so that the machine does not halt while a message
is in hand. `JmsShutsDownClean == Jms!Spec => []Jms!CleanShutdown` follows from it too; that property
holds in the run's instance, but is not among its standing properties.

`ClassicSampleProofs` has two parts. The one about `pooltest` proves `PoolComplete == PoolSpec => []AllReturned`. That the
pool is whole when main disconnects it needs the whole life of a connection: a thread has one exactly while it works
with one (`Holding`), nobody else has it and the pool does not (`Exclusive`), and what is not
in the pool somebody has (`Accounted`). `Stage` then says how far main's loops over the
threads are, so that no thread is at work when they are over.

The other is about the benchmarks, from the command line to the last run: `ParsingSafe == BenchSpec =>
[]Parsing`, `ChosenPreparedSafe == BenchSpec => []ChosenPrepared`, `RowsLoadedInOrderSafe == BenchSpec =>
[]RowsLoadedInOrder`, `BranchesBalanceSafe == BenchSpec => []BranchesBalance`, `FindsTheOptionSafe ==
BenchSpec => []FindsTheOption` and `ConnectsAsToldSafe == BenchSpec => []ConnectsAsTold`, for any vocabulary, any specifiers,
any command lines and any number of faults and runs.
`Parsing` is what the others start from: while a program is at work its options do not change and lie in the ranges
that `main()` checks, which takes a walk through every handler of the parser to see that none of them accepts a command line by itself
(`Moves`). From it `ChosenPreparedSafe` is arithmetic on the boundaries of the percentages.
`BulkInv` relates three counts that the code does not compare: rows committed, rows inserted, and the loop's `i`. Between
two batches `i` is the number of inserted rows, and `toCommit` what is left of the interval (`Looping`); where `i` would
exceed the largest int it wraps to a negative number, all rows are there, and the program can only be refused (`BatchIs`,
`DeniedStops`). `TpcbInv` says that the open work holds a prefix of the posting of one row (`Posting`):
accounts, then tellers, then branches, then the history, so that between two transactions, and in what is committed at any time, each balance is the
sum of its part of the history (`Agrees`). The sums are folds over a sequence. What the prover cannot do is take a
property of numbers as a parameter of an induction theorem; it can take a set, so that the lemmas `SumAt` to `SumAppend` argue with the
least counterexample: the smallest set of rows whose sum is not what it should be, less one of its rows.
`BenchAssumption` has the ranges of `main()`, `GsAssumption` that what parses as a number is one.

`FindsTheOptionSafe` is about two algorithms, in four steps. `strcmp` is a strict total order on words
(`BeforeTransitive`, `BeforeTotal`), and words that are cut off after `k` characters are still in that order, though no longer strictly
(`CutInOrder`). `MakeSorted` gives each normal option the number of those before it as its place; that this is a bijection onto
`1..n` is counting (`Places`), and so a list is in order (`AddedInOrder`). A search that halves finds a place that is neither
before nor after what is sought, if there is one, in any sequence where those before precede those after (`SearchFinds`); that the recursive function of
the search exists at all is proved too (`SearchExists`). The names that begin with a word lie next to each other (`BetweenSame`), so that to look at the two
neighbours is enough. That case folds on one side only does no harm but for an option of a single
capital, which is stored as it is (`StoredLowered`): hence the proviso in the property. `WordsAssumption` says that words and names are sequences of tokens, `GetoptAssumption` that
a token in lower case is not a capital.

The domain of that function was wrong in the model: it had a bound too many, for which the search would have gone outside
its own domain. TLC never got there.

`ConnectsAsToldSafe` follows what a parse has in hand (`Connecting`). As long as nothing was refused, the DSN and the
connection string are empty or come from a word after `-dsn` or `-connstr`, and until one is given each word that reads like one of the
two was the argument of another option (`Told`, which every handler keeps); a parse in which something was refused never reaches the connection. What
is left is the last step, the order of precedence in `HandleConnstr`, and the search: that `-dsn`, `-DSN` and `--dsn` find
the special option and not a normal one before it. This needs a hypothesis on the vocabulary, `ConnectAssumption`: the
specifiers are flags, numbers, strings and `<HELP>`, `<VERSION>`, `<CONNSTR>`, `<DSN>`, the mode is `TTC_OPT_NO_CONNSTR_OK` alone, and the
variables of the connection are no other option's. It is so in the six calls of `ttc_getoptions` it is about (`tpcb.c:200`,
`updatelob.c:105`, `bulkinsert.c:154`, `wiscbm.c:720`, `plsqlODBC.c:167`, `xlaSimple.c:233`).

The property had to be corrected on the way, for it was not true of words that the vocabularies of the run did not have. An empty
word after `-dsn` or `-connstr` counts for nothing, but hides `TT_CONNSTR`: the program connects with the default. And `--dsn`, `-DSN` and the
like name the connection as `-dsn` does. The property says so now, and `updatelob` has these words in the run.

The first attempt at `RowsLoadedInOrderSafe` failed for a good reason: with a batch of more than a quarter of the ints the counter, once
wrapped, can be negative and still leave room for a batch, and rows with negative keys would be loaded. The code rules that out, by
`MAX_BATCH_SIZE` (`bulkinsert.c:186`), the model's instance did not; its ranges are now in that proportion,
and `BenchAssumption` says so.

`TptbmSyncProofs`: `SyncStartTogether == Spec => []StartTogether` and `SyncReportAfterAll == Spec =>
[]ReportAfterAll`, for any number of processes and without `Prompt`. The words have no lock, so
the argument is about what can be in them: a child that has not answered `READY` has
a word no higher than `READY`, hence `SET` is its own answer (`BeforeReady`); a word that is a
command or an answer to one was written after all had answered (`Started`); `END` and
`ERROR` are written by a child only when it is past its loop or has met a warning (`LastWords`), and a command
of the parent can hide them but not bring them about. A child that has met a warning carries on with
`ERROR` in its word, and the parent does not wait for it (`WaitsForAll`, section 5); `ReportAfterAll` is about the others, which it
does not mistake for one that has, whatever it has overwritten.

In the same module, `SyncWindowCounted == ASSUME Ramped PROVE Spec => []WindowCounted`. `Ramped` is
`Prompt` and a ramp-down for every duration run, as in the run; section 5 has the behaviour that
breaks the property without a ramp-down. `WInv` goes through the phases of the parent and says for each where a child can be, what it has been
told and not yet answered, and how far its counter is from what it has executed since the measurement
began: equal before the start (`Beginning`), whatever it likes during the ramp-up
(`RampingUp`), at most one behind once it has reset it (`Measuring`), at most one off when it
publishes it (`RampingDown`), and then no more written (`Stopped`). That the clock ends a phase only when every child has answered
(`TickWInv`, the one use of `Prompt`) is what keeps a command from being overwritten by the next.
In transaction mode there is no window, and `XactWindow` bounds the count by the loop's counter.

`TptbmClientsProofs`: `ClientsStartedByParent == Spec => []StartedByParent`. The invariant `CInv` says
that until a run's parent has started it the words of its children are 0, also in a segment that an
earlier run left behind, as long as no other run uses that segment (`WordsZero`); that runs do not overlap except for
children left alone (`InOrder`); and that a run has its segment before its children
(`Segments`). That a run is alone on its segment is lost and never won back (`AloneBefore`).
`ProcsAssumption` is the one assumption on the sets: there is a greatest number of processes.

In the same module, `ReportAfterAllSafe == Spec => []ReportAfterAll`. `RInv` adds to `CInv` the life of a
child from the fork to its end: the word of a started child stays 1 until the child itself
sets it to 0 (`WordsOne`), which it does after its last operation (`Counted`, `WorksDone`);
the parent's loop over the children has passed only children that are over (`Waited`); and
a Ctrl-C takes parent and children together (`KilledTogether`). `Alone` is needed here too:
in a segment that two runs share, one run's reset answers for the other.

`TptbmThreadsProofs`: `InsertsDisjointSafe == Spec => []InsertsDisjoint` gives each thread the columns
`Key + t + k * NumThreads` (`OwnRows`); that no column has two owners (`OneOwner`) is the
arithmetic of the stride. `ExecuteTogetherSafe == Spec => []ExecuteTogether`: `TogetherInv` says how
far each loop of the controller over its threads has come and what it knows of those it has passed (`Loops`), and what
a thread that may execute has told and been told (`Signals`): a thread that has been told to go was
ready before, and the controller tells the first one only after it has waited for the last.

The proofs found three flaws of the model, none of them in the code. A `CASE` whose guards overlap has no definite value in
TLA+ (TLC takes the first arm that holds), and `InitSucceeds` of `GridSample` had one; it, and
the like in `GsArgs`, `CommandLines` and `GsOdbc`, are now nested `IF`s or disjoint. `InitAll` of `GsOdbc`
folded the scripts over an unordered set, so that their order was TLC's choice; it is now the
source's, written out. And `SUBSET A \ B`, which the two parsers group differently, has parentheses.

Model-checked only: liveness and everything under fairness, which is out of this
prover's reach, and one invariant. `TablesLeft` counts what loops of
random numbers have left in three tables of `wiscbm`; it would need a full cycle of the generator as an assumption.

## 7. Plan

1. `-duration` in `JavaGridSample`.
2. The measurement window in `TptbmWorkload`.

## 8. Not modelled

- `ttXlaAdmin.cpp`: one call per option. `level4.java`: threads that share nothing.
  `ocimtquery.c`: threads with handles of their own, joined at the end.
- `plsqlODBC.c`, `updatelob.c`, `addemp`, `bulktest`, `bulkcp`, `TTJdbcExamples` and the like: one
  API each, straight through; only the command lines of the ODBC ones are in `CommandLines`.
- `ttTime.c`, `ttRand.c`, `GSUtil.c`'s clock and random generator: arithmetic on clocks. Two
  observations from reading: `getRandomLong` never returns its documented maximum, and
  `sleepMs` takes a fraction of a second for nanoseconds.
- `ttgetopt.c` 2051-2428 (options from files and strings): no sample calls it.
- Container and sample set-up scripts: what an interrupted step leaves is decided by the
  TimesTen utilities, which are not in the repository.
- ORM/J2EE, PL/SQL, Pro\*C, ODP.NET, ODPI-C demonstrations, Node.js, Python, documentation,
  Kubernetes examples, data: configuration and single calls, no protocol.
- In the modelled programs: formatting, logging, reports' wording, memory exhaustion,
  Windows branches, GridSample's prompt for a password.
