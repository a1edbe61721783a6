------------------------------- MODULE GsOdbc -------------------------------
(***************************************************************************)
(* The ODBC layer of the scaleout GridSample program, GSOdbc.c, driven the *)
(* way the program drives it: one connection, and three transactions that  *)
(* stand for the modules GSTxn*.c: a query with parameters and columns     *)
(* (GSTxnQuery.c), one with two statements (GSTxnCharge.c) and one that    *)
(* reads a row count (GSTxnPurge.c).                                       *)
(*                                                                         *)
(* GridSample has what the transactions do to the data; here is what the   *)
(* layer does to handles, buffers and error lists when the driver answers  *)
(* anything it may answer.                                                 *)
(***************************************************************************)
EXTENDS OdbcBindings, Sequences, SequencesExt, FiniteSets

CONSTANTS
    ParamTypes,  \* the combinations the query may bind its parameter with:
                 \* records [c, db, w, d]
    ColBindings, \* the ones it may bind its first column with: [c, len]
    Setters,     \* the ODBCSetParam_* functions it may use
    Values,      \* the numbers it may set, by the bits they need
    MaxFaults    \* bound: how often the driver answers anything but success

ASSUME OdbcAssumption ==
    /\ ParamTypes \subseteq [c : CTypes, db : DbTypes, w : Nat, d : Nat]
    /\ ColBindings \subseteq [c : CTypes, len : Nat]
    /\ Setters \subseteq ColTypes
    /\ Values \subseteq Nat
    /\ MaxFaults \in Nat

VARIABLES
    pc,      \* what the program is doing
    at,      \* the call it is at in the script of pc, from 1
    started, \* TRUE once dbConnect has prepared every transaction
    conn,    \* the dbconnection_t, or None
    stmt,    \* the sqlstmt_t of each statement, or None
    drv,     \* what the driver has: handles, and buffers bound to them
    ret,     \* what the last call of the layer returned
    cause,   \* why the driver refused it, with "unread" if not all was read
    lost,    \* what nothing points to any more: memory, handles
    faults   \* how often the driver has not answered SQL_SUCCESS

vars == <<pc, at, started, conn, stmt, drv, ret, cause, lost, faults>>

None  == [null |-> TRUE]
Stmts == {"query", "select", "update", "purge"}
Txns  == {"query", "charge", "purge"}

StmtsOf(t) == CASE t = "query"  -> <<"query">>
                [] t = "charge" -> <<"select", "update">>
                [] t = "purge"  -> <<"purge">>

Diags   == {"retry", "failover", "other"}
NoError == {}

-----------------------------------------------------------------------------
(* Scripts: the calls of each function, in order.                          *)

On(op, s, n) == [op |-> op, s |-> s, n |-> n]
OnConn(op)   == [op |-> op, s |-> "query", n |-> 0]

\* An init function starts by freeing the statements its transaction still has.
initTxn(t) ==
    CASE t = "query"  -> << On("reset", "query", 0),
                            On("alloc", "query", 0), On("prepare", "query", 0),
                            On("param", "query", 1), On("col", "query", 1),
                            On("col", "query", 2) >>
      [] t = "charge" -> << On("reset", "select", 0),
                            On("alloc", "select", 0), On("alloc", "update", 0),
                            On("prepare", "select", 0), On("param", "select", 1),
                            On("prepare", "update", 0), On("param", "update", 1) >>
      [] t = "purge"  -> << On("reset", "purge", 0),
                            On("alloc", "purge", 0), On("prepare", "purge", 0),
                            On("param", "purge", 1) >>

executeTxn(t) ==
    CASE t = "query"  -> << On("set", "query", 1), On("execute", "query", 0),
                            On("fetch", "query", 0), On("close", "query", 0) >>
      [] t = "charge" -> << On("set", "select", 1), On("set", "update", 1),
                            On("execute", "select", 0), On("fetch", "select", 0),
                            On("close", "select", 0), On("execute", "update", 0),
                            OnConn("commit") >>
      [] t = "purge"  -> << On("set", "purge", 1), On("execute", "purge", 0),
                            On("rowcount", "purge", 0), OnConn("commit") >>

\* dbConnect and the re-preparation after a failover initialise every
\* transaction, in the order of the list.
InitAll == initTxn("purge") \o initTxn("query") \o initTxn("charge")

Script == CASE pc = "init" -> InitAll
            [] pc \in Txns -> executeTxn(pc)
            [] OTHER       -> << >>

Call == Script[at]

\* The transaction a statement belongs to.
Owner(s) == CHOOSE t \in Txns : \E i \in DOMAIN StmtsOf(t) : StmtsOf(t)[i] = s

-----------------------------------------------------------------------------
(* The driver.                                                             *)

\* drv.live: the statement handles in use; drv.orphans: TRUE if the driver has
\* statement handles nothing points to; drv.bound: the buffers it writes to and
\* reads from.  A handle the driver knows gets any answer, another one only
\* SQL_INVALID_HANDLE.
Answers(known) == IF known THEN {"success", "info", "error"} ELSE {"invalid"}

\* The answers that are the driver's choice, and not SQL_SUCCESS, are bounded.
Answered(rc) ==
    IF rc \in {"success", "nodata", "invalid", "notopen"} THEN UNCHANGED faults
    ELSE faults < MaxFaults /\ faults' = faults + 1

NoBuffers == [params |-> {}, cols |-> {}]

Init ==
    /\ pc = "allocContext"
    /\ at = 1
    /\ started = FALSE
    /\ conn = None
    /\ stmt = [s \in Stmts |-> None]
    /\ drv = [env |-> FALSE, dbc |-> FALSE, open |-> FALSE, auto |-> TRUE,
              live |-> {}, orphans |-> FALSE, bound |-> [s \in Stmts |-> NoBuffers]]
    /\ ret = "success"
    /\ cause = NoError
    /\ lost = {}
    /\ faults = 0

\* The diagnostics the driver posts with an answer: a warning is never one of the
\* errors the program knows how to handle.
Posted(rc) == IF rc \in {"info", "notopen"} THEN {{"other"}} ELSE (SUBSET Diags) \ {NoError}

\* Why the driver refused a call, and whether all of it was read.
Why(d, read) == IF read = d THEN d ELSE d \cup {"unread"}

\* Mutant: odbcGetErrors without odbcFreeErrors.
AppendErrors(errors, d) ==
    {[ret |-> IF read = NoError THEN "noinfo" ELSE "normal",
      errors |-> errors \cup read, cause |-> Why(d, read)] : read \in SUBSET d}

\* odbcGetErrors: the list is emptied and filled with the diagnostics d, up to
\* the first that cannot be read (a text too long for the buffer, no memory).
\* Only without the very first does it say so.
odbcGetErrors(errors, d) ==
    {[ret |-> IF read = NoError THEN "noinfo" ELSE "normal",
      errors |-> read, cause |-> Why(d, read)] : read \in SUBSET d}

\* What becomes of a call by the driver's answer, and of the error list of the
\* object it is about.
Outcomes(rc, errors) ==
    CASE rc = "success" -> {[ret |-> "success", errors |-> errors, cause |-> NoError]}
      [] rc = "nodata"  -> {[ret |-> "nodata",  errors |-> errors, cause |-> NoError]}
      [] rc = "invalid" -> {[ret |-> "noinfo",  errors |-> errors, cause |-> NoError]}
      [] OTHER          -> UNION {odbcGetErrors(errors, d) : d \in Posted(rc)}

isRetryable(r, errors) == r = "normal" /\ "retry" \in errors
isFailover(r, errors)  == r = "normal" /\ "failover" \in errors

Classified(r, errors) ==
    IF isRetryable(r, errors) THEN "retryable"
    ELSE IF isFailover(r, errors) THEN "failover" ELSE "fatal"

-----------------------------------------------------------------------------
(* Freeing.                                                                *)

\* The structures of some statements, with the texts and buffers they own, all
\* parameters and, for want of a loop, only the first column.
odbcFreeParam(params) == {}
odbcFreeCol(cols)     == IF Cardinality(cols) > 1 THEN {"columns"} ELSE {}

Unfreed(some) == UNION {odbcFreeParam(DOMAIN stmt[s].params)
                        \cup odbcFreeCol(DOMAIN stmt[s].cols) : s \in some}

\* Mutant: A statement is kept if its handle could not be freed: its buffers are not.
KeepIfRefused(ss, kept) ==
    LET some == {s \in ss : stmt[s] # None}
    IN  /\ kept \subseteq some \cap drv.live
        /\ stmt' = [s \in Stmts |->
                       IF s \in kept THEN [stmt[s] EXCEPT !.params = << >>, !.cols = << >>]
                       ELSE IF s \in some THEN None ELSE stmt[s]]
        /\ drv' = [drv EXCEPT !.live = @ \ (some \ kept),
                              !.bound = [s \in Stmts |->
                                            IF s \in some \ kept THEN NoBuffers ELSE @[s]]]
        /\ lost' = lost \cup Unfreed(some)

\* ODBCFreeStmt for a set of statements: the structure is freed whether or not
\* the driver frees the handle; kept has the handles it refuses to free.
ODBCFreeStmt(ss, kept) ==
    LET some == {s \in ss : stmt[s] # None}
        live == some \cap drv.live
    IN  /\ kept \subseteq live
        /\ stmt' = [s \in Stmts |-> IF s \in some THEN None ELSE stmt[s]]
        /\ drv' = [drv EXCEPT !.live = @ \ some,
                              !.orphans = @ \/ kept # {},
                              !.bound = [s \in Stmts |-> IF s \in some THEN NoBuffers
                                                         ELSE @[s]]]
        /\ lost' = lost \cup Unfreed(some) \cup (IF kept = {} THEN {} ELSE {"handle"})

-----------------------------------------------------------------------------
(* The connection.                                                         *)

Goto(where) == pc' = where /\ at' = 1

NewConn == [connected |-> FALSE, errors |-> NoError]

\* allocContext.  If SQLSetEnvAttr fails the environment handle is forgotten; if
\* the connection handle cannot be allocated it is freed.
ODBCAllocConn ==
    /\ pc = "allocContext"
    /\ \E rc \in {"success", "noenv", "noattr", "nodbc"} :
          /\ Answered(rc)
          /\ drv' = [drv EXCEPT !.env = rc \in {"success", "noattr"},
                                !.dbc = rc = "success"]
          /\ lost' = IF rc = "noattr" THEN lost \cup {"env"} ELSE lost
          /\ conn' = IF rc = "success" THEN NewConn ELSE None
          /\ Goto(IF rc = "success" THEN "dbConnect" ELSE "exit")
    /\ UNCHANGED <<started, stmt, ret, cause>>

\* ODBCConnect opens the connection, ...  A warning is an error to it, and the
\* connection the driver has opened is not closed.
ODBCConnect ==
    /\ pc = "dbConnect"
    /\ \E rc \in Answers(drv.dbc) : \E o \in Outcomes(rc, NoError) :
          /\ Answered(rc)
          /\ drv' = [drv EXCEPT !.open = rc \in {"success", "info"}]
          /\ lost' = IF rc = "info" THEN lost \cup {"connection"} ELSE lost
          /\ conn' = [connected |-> rc = "success", errors |-> o.errors]
          /\ cause' = o.cause
          /\ Goto(IF rc = "success" THEN "autocommit" ELSE "freeStmts")
    /\ UNCHANGED <<started, stmt, ret>>

\* SQLDisconnect frees the statements the connection still has.
Disconnected == [drv EXCEPT !.open = FALSE, !.auto = TRUE, !.live = {},
                            !.orphans = FALSE,
                            !.bound = [s \in Stmts |-> NoBuffers]]

\* ... and turns autocommit off: if it cannot it closes the connection again,
\* or tries to.
SetAutocommitOff ==
    /\ pc = "autocommit"
    /\ \E rc \in Answers(drv.open) : \E o \in Outcomes(rc, conn.errors) :
          \E closed \in BOOLEAN :
             /\ Answered(rc)
             /\ rc = "success" => ~closed
             /\ conn' = [connected |-> ~closed, errors |-> o.errors]
             /\ drv' = IF closed THEN Disconnected ELSE [drv EXCEPT !.auto = rc = "error"]
             /\ cause' = o.cause
             /\ Goto(IF rc = "success" THEN "init" ELSE "freeStmts")
    /\ UNCHANGED <<started, stmt, ret, lost>>

\* A warning is an error here too: the connection is closed and still counts as
\* connected.
ODBCDisconnect(next) ==
    IF ~conn.connected
    THEN /\ conn' = [conn EXCEPT !.errors = NoError]
         /\ Goto(next)
         /\ UNCHANGED <<drv, faults>>
    ELSE \E rc \in IF drv.open THEN Answers(TRUE) ELSE {"notopen"} :
         \E o \in Outcomes(rc, NoError) :
            /\ Answered(rc)
            /\ conn' = [connected |-> rc # "success", errors |-> o.errors]
            /\ drv' = IF rc = "error" THEN drv ELSE Disconnected
            /\ Goto(next)

\* ODBCFreeConn refuses while it believes the connection open; it does not look
\* at what the driver says of the two handles.
ODBCFreeConn ==
    /\ pc = "freeConn"
    /\ IF conn.connected
       THEN /\ lost' = lost \cup {"connection"}
            /\ UNCHANGED <<conn, drv, faults>>
       ELSE \E rc \in {"success", "error"} :
               /\ Answered(rc)
               /\ LET kept == rc = "error" \/ drv.open
                  IN  /\ drv' = [drv EXCEPT !.env = kept, !.dbc = kept]
                      /\ lost' = IF rc = "error" THEN lost \cup {"connection"} ELSE lost
               /\ conn' = None
    /\ Goto("exit")
    /\ UNCHANGED <<started, stmt, ret, cause>>

-----------------------------------------------------------------------------
(* The calls of the scripts.                                               *)

At(ops) == pc \in Txns \cup {"init"} /\ ret = "success" /\ Call.op \in ops

\* A call has succeeded: on to the next one, or to the end of the script.
Onward ==
    IF at < Len(Script) THEN at' = at + 1 /\ UNCHANGED pc ELSE Goto("ready")

\* A call has returned r: one that has not succeeded stops the function.
Returned(r, why) ==
    /\ ret' = r
    /\ cause' = why
    /\ IF r = "success" THEN Onward ELSE UNCHANGED <<pc, at>>

\* The driver may refuse to free one handle.
Free(ss) ==
    \E kept \in SUBSET drv.live :
       /\ Cardinality(kept) <= 1
       /\ kept # {} => faults < MaxFaults
       /\ faults' = faults + Cardinality(kept)
       /\ ODBCFreeStmt(ss, kept)

\* An init function first frees the statements its transaction has.
Reset ==
    /\ At({"reset"})
    /\ Free(Range(StmtsOf(Owner(Call.s))))
    /\ Onward
    /\ UNCHANGED <<started, conn, ret, cause>>

NewStmt == [hStmt |-> FALSE, text |-> FALSE, params |-> << >>, cols |-> << >>,
            errors |-> NoError]

\* The structure stays when the handle cannot be had.
ODBCAllocStmt ==
    /\ At({"alloc"})
    /\ \E rc \in Answers(drv.dbc) : \E o \in Outcomes(rc, conn.errors) :
          /\ Answered(rc)
          /\ stmt' = [stmt EXCEPT ![Call.s] = [NewStmt EXCEPT !.hStmt = rc = "success"]]
          /\ drv' = IF rc = "success" THEN [drv EXCEPT !.live = @ \cup {Call.s}] ELSE drv
          /\ conn' = [conn EXCEPT !.errors = o.errors]
          /\ Returned(o.ret, o.cause)
    /\ UNCHANGED <<started, lost>>

S == stmt[Call.s]

\* A statement the layer lets be used.
HasHandle(s) == stmt[s] # None /\ stmt[s].hStmt

\* A call on a statement changes its error list; more than that if it succeeds.
OnStmt(rc, cleared, done) ==
    \E o \in Outcomes(rc, cleared) :
       /\ Answered(rc)
       /\ stmt' = [stmt EXCEPT ![Call.s] =
                      IF rc = "success" THEN [done EXCEPT !.errors = o.errors]
                      ELSE [S EXCEPT !.errors = o.errors]]
       /\ Returned(o.ret, o.cause)

\* The text of a statement that cannot be prepared is not freed.
ODBCPrepare ==
    /\ At({"prepare"})
    /\ \E rc \in Answers(Call.s \in drv.live) :
          /\ OnStmt(rc, NoError, [S EXCEPT !.text = TRUE])
          /\ lost' = IF rc = "success" THEN lost ELSE lost \cup {"text"}
    /\ UNCHANGED <<started, conn, drv>>

Mismatch == Returned("mismatch", NoError) /\ UNCHANGED <<stmt, drv, lost, faults>>

\* odbcGetParameter: the parameter with that number, if it is bound.
odbcGetParameter(s, n) == n \in DOMAIN stmt[s].params
odbcGetColumn(s, n)    == n \in DOMAIN stmt[s].cols

\* The list of the bindings, with one more.
Link(list, n, b) == [m \in {n} \cup DOMAIN list |-> IF m = n THEN b ELSE list[m]]

odbcAllocParam(b) == odbcTypeCompatible(b.c, b.db, b.w, b.d)
odbcAllocCol(b)   == odbcValidColType(b.c, b.len)

\* The other parameters and columns are bound as the sources bind them.
ParamBindings(s) == IF s = "query" THEN ParamTypes
                    ELSE {[c |-> "SBIGINT", db |-> "NUMERIC", w |-> 10, d |-> 0]}
ColumnBindings(n) == IF n = 1 THEN ColBindings ELSE {[c |-> "CHAR", len |-> 30]}

\* The buffer of a binding the driver refuses is linked nowhere.
ODBCBindParameter ==
    /\ At({"param"})
    /\ ~odbcGetParameter(Call.s, Call.n)
    /\ \E b \in ParamBindings(Call.s) :
          LET buf == odbcAllocParam(b)
              p   == [c |-> b.c, size |-> buf.size]
          IN  IF ~buf.ok THEN Mismatch
              ELSE \E rc \in Answers(Call.s \in drv.live) :
                      /\ OnStmt(rc, S.errors, [S EXCEPT !.params = Link(@, Call.n, p)])
                      /\ drv' = IF rc = "error" THEN drv
                                ELSE [drv EXCEPT !.bound[Call.s].params = @ \cup {Call.n}]
                      /\ lost' = IF rc = "success" THEN lost ELSE lost \cup {"binding"}
    /\ UNCHANGED <<started, conn>>

ODBCBindColumn ==
    /\ At({"col"})
    /\ ~odbcGetColumn(Call.s, Call.n)
    /\ \E b \in ColumnBindings(Call.n) :
          LET buf == odbcAllocCol(b)
              c   == [c |-> b.c, size |-> buf.size]
          IN  IF ~buf.ok THEN Mismatch
              ELSE \E rc \in Answers(Call.s \in drv.live) :
                      /\ OnStmt(rc, S.errors, [S EXCEPT !.cols = Link(@, Call.n, c)])
                      /\ drv' = IF rc = "error" THEN drv
                                ELSE [drv EXCEPT !.bound[Call.s].cols = @ \cup {Call.n}]
                      /\ lost' = IF rc = "success" THEN lost ELSE lost \cup {"binding"}
    /\ UNCHANGED <<started, conn>>

Lengths(size) == {0, size - 1, size, size + 1} \cap Nat

\* The values a setter may be given: numbers of its type, or strings.
Settable(t, size) ==
    IF t = "CHAR" THEN Lengths(size) ELSE {v \in Values : Exact(t, v)}

SettersOf(s) == IF s = "query" THEN Setters ELSE {"SBIGINT"}

\* A string that does not fit is refused, like a type with no case.
SetParameter ==
    /\ At({"set"})
    /\ odbcGetParameter(Call.s, Call.n)
    /\ LET p == S.params[Call.n]
       IN  \E t \in SettersOf(Call.s) : \E v \in Settable(t, p.size) :
              IF SetParam(t, p.c, p.size, v).ok
              THEN Returned("success", NoError) /\ UNCHANGED <<stmt, drv, lost, faults>>
              ELSE Mismatch
    /\ UNCHANGED <<started, conn>>

\* The calls that do nothing but pass the driver's answer on.
PassOn(op) ==
    /\ At({op})
    /\ HasHandle(Call.s)
    /\ \E rc \in Answers(Call.s \in drv.live) : OnStmt(rc, NoError, S)
    /\ UNCHANGED <<started, conn, drv, lost>>

ODBCExecute     == PassOn("execute")
ODBCRowCount    == PassOn("rowcount")
ODBCCloseCursor == PassOn("close")

\* The query is fetched to its end, and only its end is no error.
ODBCFetch ==
    /\ At({"fetch"})
    /\ HasHandle(Call.s)
    /\ \E rc \in Answers(Call.s \in drv.live) \cup {"nodata"} :
          IF rc = (IF pc = "query" THEN "nodata" ELSE "success")
          THEN /\ stmt' = [stmt EXCEPT ![Call.s].errors = NoError]
               /\ Returned("success", NoError)
               /\ UNCHANGED faults
          ELSE /\ rc # "success"
               /\ OnStmt(rc, NoError, S)
    /\ UNCHANGED <<started, conn, drv, lost>>

ODBCCommit ==
    /\ At({"commit"})
    /\ \E rc \in Answers(drv.dbc) : \E o \in Outcomes(rc, NoError) :
          /\ Answered(rc)
          /\ conn' = [conn EXCEPT !.errors = o.errors]
          /\ Returned(o.ret, o.cause)
    /\ UNCHANGED <<started, stmt, drv, lost>>

-----------------------------------------------------------------------------
(* The error path of the functions, and the program.                       *)

\* The list errStack points to.
ErrStack == CASE Call.op \in {"alloc", "commit"} -> conn.errors
              [] Call.op = "set"                 -> NoError
              [] OTHER                           -> S.errors

\* ODBCRollback: its answer changes only the error list, and is not counted.
ODBCRollback ==
    \E rc \in Answers(drv.dbc) : \E o \in Outcomes(rc, NoError) :
       conn' = [conn EXCEPT !.errors = o.errors]

\* Mutant: needReprepare is cleared before the re-preparation instead of after it.
ForgetReprepare(class) ==
    IF ~started THEN {"freeStmts"}
    ELSE {"dbDisconnect"} \cup
         CASE class = "fatal"     -> {}
           [] class = "retryable" -> {IF pc = "init" THEN "ready" ELSE pc}
           [] class = "failover"  -> {"init"}

\* Where executeTxnGrid goes on: a failover re-prepares everything, and so does
\* any error while it is re-preparing.  dbConnect gives up at once.
After(class) ==
    IF ~started THEN {"freeStmts"}
    ELSE {"dbDisconnect"} \cup CASE class = "fatal"     -> {}
                                 [] class = "retryable" -> {pc}
                                 [] class = "failover"  -> {"init"}

ErrorPath ==
    /\ pc \in Txns \cup {"init"}
    /\ ret # "success"
    /\ \E where \in After(Classified(ret, ErrStack)) : Goto(where)
    /\ ODBCRollback
    /\ ret' = "success"
    /\ cause' = NoError
    /\ IF pc = "init" THEN Free(Range(StmtsOf(Owner(Call.s))))
       ELSE UNCHANGED <<stmt, drv, lost, faults>>
    /\ UNCHANGED started

\* executeTxnGrid chooses the next transaction, or the workload is over.
RunWorkload ==
    /\ pc = "ready"
    /\ started' = TRUE
    /\ \E where \in Txns \cup {"dbDisconnect"} : Goto(where)
    /\ UNCHANGED <<conn, stmt, drv, ret, cause, lost, faults>>

dbDisconnect ==
    /\ pc = "dbDisconnect"
    /\ ODBCDisconnect("freeStmts")
    /\ UNCHANGED <<started, stmt, ret, cause, lost>>

\* freeContext: the statements, the connection if it is still open (after a
\* rollback that may fail), and the connection's handles.
FreeStatements ==
    /\ pc = "freeStmts"
    /\ Free(Stmts)
    /\ Goto("disconnect")
    /\ UNCHANGED <<started, conn, ret, cause>>

Disconnect ==
    /\ pc = "disconnect"
    /\ ODBCDisconnect("freeConn")
    /\ UNCHANGED <<started, stmt, ret, cause, lost>>

Exited == pc = "exit" /\ UNCHANGED vars

Next ==
    \/ ODBCAllocConn \/ ODBCConnect \/ SetAutocommitOff
    \/ Reset \/ ODBCAllocStmt \/ ODBCPrepare \/ ODBCBindParameter \/ ODBCBindColumn
    \/ SetParameter \/ ODBCExecute \/ ODBCFetch \/ ODBCRowCount \/ ODBCCloseCursor
    \/ ODBCCommit
    \/ ErrorPath \/ RunWorkload
    \/ dbDisconnect \/ FreeStatements \/ Disconnect \/ ODBCFreeConn
    \/ Exited

Spec == Init /\ [][Next]_vars

-----------------------------------------------------------------------------
(* Properties.                                                             *)

PCs == Txns \cup {"allocContext", "dbConnect", "autocommit", "init", "ready",
                  "dbDisconnect", "freeStmts", "disconnect", "freeConn", "exit"}

\* The type of the state: a sqlstmt_t and a dbconnection_t exist or not.
TypeOK ==
    /\ pc \in PCs
    /\ at \in Nat \ {0}
    /\ started \in BOOLEAN
    /\ conn = None \/ /\ conn.connected \in BOOLEAN
                      /\ conn.errors \subseteq Diags
    /\ \A s \in Stmts : stmt[s] # None =>
          /\ DOMAIN stmt[s].params \subseteq {1}
          /\ DOMAIN stmt[s].cols \subseteq {1, 2}
          /\ stmt[s].errors \subseteq Diags
    /\ drv.live \subseteq Stmts
    /\ \A s \in Stmts : /\ drv.bound[s].params \subseteq {1}
                        /\ drv.bound[s].cols \subseteq {1, 2}
    /\ ret \in {"success", "normal", "noinfo", "nodata", "mismatch"}
    /\ cause \subseteq Diags \cup {"unread"}
    /\ lost \subseteq {"env", "connection", "handle", "text", "binding", "columns"}
    /\ faults \in 0..MaxFaults

\* Whatever the driver may read or write through a statement the program can still
\* execute or fetch from is memory the layer has not freed: SQLBindParameter and
\* SQLBindCol give it addresses, and odbcFreeStmt frees the buffers even when
\* the driver has refused to free the handle.
BoundBuffersLive ==
    \A s \in Stmts : drv.bound[s].params \cup drv.bound[s].cols # {} =>
        /\ s \in drv.live
        /\ stmt[s] # None
        /\ stmt[s].hStmt
        /\ ret = "success" => /\ drv.bound[s].params \subseteq DOMAIN stmt[s].params
                              /\ drv.bound[s].cols \subseteq DOMAIN stmt[s].cols

\* An error path takes an error for retryable or for a failover only if the call
\* that failed is the one that was refused for it, however many error lists
\* earlier calls have left.  It takes an error that may be retried for another
\* only if some of its diagnostics could not be read.
ClassifiedAsItFailed ==
    ret # "success" =>
        LET class == Classified(ret, ErrStack)
        IN  /\ class = "retryable" => "retry" \in cause
            /\ class = "failover" =>
                  "failover" \in cause /\ ("retry" \notin cause \/ "unread" \in cause)
            /\ class = "fatal" /\ ret = "normal" =>
                  "other" \in cause /\ (cause = {"other"} \/ "unread" \in cause)

\* Before a transaction is chosen every statement of every transaction has its
\* handle, its text and its bindings, after any sequence of failovers and of
\* re-preparations that failed half way, and the connection does not commit by
\* itself.
Prepared ==
    pc = "ready" =>
        /\ conn.connected /\ drv.open /\ ~drv.auto
        /\ \A s \in Stmts :
              /\ stmt[s] # None /\ stmt[s].hStmt /\ s \in drv.live
              /\ stmt[s].text
              /\ DOMAIN stmt[s].params = {1}
              /\ s = "query" => DOMAIN stmt[s].cols = {1, 2}

\* cleanup leaves the driver nothing, on every path, if no answer was one of those
\* the layer ignores.
Released ==
    pc = "exit" /\ lost \cap {"env", "connection", "handle"} = {} =>
        /\ ~drv.env /\ ~drv.dbc /\ ~drv.open
        /\ drv.live = {} /\ ~drv.orphans
        /\ conn = None
        /\ \A s \in Stmts : stmt[s] = None

\* No binding makes an ODBCSetParam_* function write past its buffer: what
\* odbcTypeCompatible allocates is enough for every setter that accepts the
\* type, and for the longest string ODBCSetParam_CHAR copies, with its NUL.
WritesFit ==
    At({"set"}) =>
        LET p == S.params[Call.n]
        IN  \A t \in ColTypes : \A v \in Settable(t, p.size) :
                SetParam(t, p.c, p.size, v).ok => Written(p.c, v) <= p.size

\* A number that was set, and any number that was fetched, is read back as it is
\* by every getter that accepts the type, unless a floating-point type that is too
\* short for it is involved: no conversion narrows.
Narrow(c, v) == c \in {"FLOAT", "DOUBLE"} /\ ~Exact(c, v)

ValuesSurvive ==
    pc = "query" =>
        /\ \A n \in DOMAIN stmt["query"].params :
              LET p == stmt["query"].params[n]
              IN  \A t, u \in ColTypes : \A v \in Settable(t, p.size) :
                     LET in  == SetParam(t, p.c, p.size, v)
                         out == GetParam(u, p.c, in.val)
                     IN  in.ok /\ out.ok => out.val = v \/ Narrow(p.c, v) \/ Narrow(u, v)
        /\ \A n \in DOMAIN stmt["query"].cols :
              LET c == stmt["query"].cols[n].c
              IN  \A u \in ColTypes : \A v \in Settable(c, 0) :
                     LET out == GetCol(u, c, v)
                     IN  out.ok => out.val = v \/ Narrow(u, v)

\* odbcFreeStmt frees "any columns associated with the statement" (GSOdbc.c:925):
\* it frees one.
ColumnsFreed == "columns" \notin lost
=============================================================================
