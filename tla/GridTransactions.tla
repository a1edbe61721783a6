-------------------------- MODULE GridTransactions --------------------------
(***************************************************************************)
(* The transaction modules GSTxn*.c of the scaleout GridSample program, as *)
(* data: which statements each one prepares, and the ODBC calls each of    *)
(* its functions makes, in order.  GridSample gives the calls their        *)
(* meaning and adds the error path all the functions share.                *)
(***************************************************************************)
EXTENDS Integers, Sequences

CONSTANTS
    Workload,       \* the transaction types whose percentage is not 0
    DoCleanup,      \* FALSE if -nocleanup was given
    CommitReadTxn,  \* TRUE if -commitrotxn was given
    GridRow         \* what ttConfiguration('TTGridEnable') answers:
                    \* "on" (value 1), "off" (another value), "none" (no row)

TxnTypes == {"authorize", "query", "charge", "topup", "purge"}
Txns     == TxnTypes \cup {"ugi", "counts", "clear"}

ASSUME ConfigAssumption ==
    /\ Workload \subseteq TxnTypes
    /\ Workload # {}
    /\ DoCleanup \in BOOLEAN
    /\ CommitReadTxn \in BOOLEAN
    /\ GridRow \in {"on", "off", "none"}

-----------------------------------------------------------------------------
(* The application transactions, in the order dbConnect creates them and   *)
(* links them into the list 'apptxns'.                                     *)

Opt(wanted, t) == IF wanted THEN <<t>> ELSE << >>

AppTxns ==
    <<"ugi", "counts">>
    \o Opt(DoCleanup, "clear")
    \o Opt("purge" \in Workload, "purge")
    \o Opt("query" \in Workload, "query")
    \o Opt("authorize" \in Workload, "authorize")
    \o Opt("charge" \in Workload, "charge")
    \o Opt("topup" \in Workload, "topup")

Created == {AppTxns[i] : i \in 1..Len(AppTxns)}

-----------------------------------------------------------------------------
(* The statements each init function prepares.                             *)

initTxnUpdateGridInfo == {"isGrid", "localElement"}
initTxnGetCounts      == {"countCustomers", "countAccounts"}
initTxnClearHistory   == {"truncate"}
initTxnPurge          == {"purge"}
initTxnQuery          == {"query"}
initTxnAuthorize      == {"authorize"}
initTxnCharge         == {"chargeSelect", "chargeUpdate", "chargeInsert"}
initTxnTopup          == {"topupSelect", "topupUpdate", "topupInsert"}

InitStmts(t) ==
    CASE t = "ugi"       -> initTxnUpdateGridInfo
      [] t = "counts"    -> initTxnGetCounts
      [] t = "clear"     -> initTxnClearHistory
      [] t = "purge"     -> initTxnPurge
      [] t = "query"     -> initTxnQuery
      [] t = "authorize" -> initTxnAuthorize
      [] t = "charge"    -> initTxnCharge
      [] t = "topup"     -> initTxnTopup

Stmts == UNION {InitStmts(t) : t \in Txns}

-----------------------------------------------------------------------------
(* An ODBC call: the operation and the statement (or the connection) it is *)
(* made on.                                                                *)

OnConn == "connection"

Select(s)    == [op |-> "select",   stmt |-> s]  \* SQLExecute of a query
Fetch(s)     == [op |-> "fetch",    stmt |-> s]  \* SQLFetch of one row
FetchNext(s) == [op |-> "next",     stmt |-> s]  \* SQLFetch in a fetch loop
Close(s)     == [op |-> "close",    stmt |-> s]  \* SQLCloseCursor
Update(s)    == [op |-> "update",   stmt |-> s]  \* SQLExecute of an UPDATE
Insert(s)    == [op |-> "insert",   stmt |-> s]  \* SQLExecute of an INSERT
DeleteOld(s) == [op |-> "delete",   stmt |-> s]  \* SQLExecute of Purge's DELETE
DeleteAll(s) == [op |-> "truncate", stmt |-> s]  \* SQLExecute of ClearHistory's
RowCount(s)  == [op |-> "rowcount", stmt |-> s]  \* SQLRowCount
Commit       == [op |-> "commit",   stmt |-> OnConn]

CommitRead == IF CommitReadTxn THEN <<Commit>> ELSE << >>

\* 'hasLocal': the elementid# query could be prepared.  Without a row for
\* TTGridEnable the function returns at once and leaves its cursor set.
executeTxnUpdateGridInfo(hasLocal) ==
    CASE GridRow = "none" -> <<Select("isGrid"), Fetch("isGrid")>>
      [] GridRow = "off"  -> <<Select("isGrid"), Fetch("isGrid"), Close("isGrid")>>
      [] GridRow = "on"   ->
            <<Select("isGrid"), Fetch("isGrid"), Close("isGrid")>>
            \o (IF hasLocal
                THEN <<Select("localElement"), Fetch("localElement"),
                       Close("localElement")>>
                ELSE << >>)
            \o CommitRead

executeTxnGetCounts ==
    <<Select("countCustomers"), Fetch("countCustomers"), Close("countCustomers"),
      Select("countAccounts"), Fetch("countAccounts"), Close("countAccounts")>>
    \o CommitRead

executeTxnClearHistory == <<DeleteAll("truncate"), Commit>>

executeTxnPurge == <<DeleteOld("purge"), RowCount("purge"), Commit>>

executeTxnQuery == <<Select("query")>>
fetchTxnQuery   == <<FetchNext("query")>>
closeTxnQuery   == <<Close("query")>> \o CommitRead

executeTxnAuthorize == <<Select("authorize")>>
fetchTxnAuthorize   == <<FetchNext("authorize")>>
closeTxnAuthorize   == <<Close("authorize")>> \o CommitRead

\* Mutant: the balance is committed before the history row is inserted.
executeTxnChargeCommitsTwice ==
    <<Select("chargeSelect"), Fetch("chargeSelect"), Close("chargeSelect"),
      Update("chargeUpdate"), Commit, Insert("chargeInsert"), Commit>>

executeTxnCharge ==
    <<Select("chargeSelect"), Fetch("chargeSelect"), Close("chargeSelect"),
      Update("chargeUpdate"), Insert("chargeInsert"), Commit>>

executeTxnTopup ==
    <<Select("topupSelect"), Fetch("topupSelect"), Close("topupSelect"),
      Update("topupUpdate"), Insert("topupInsert"), Commit>>

\* Only Query and Authorize have fetch and close functions.
HasFetch(t) == t \in {"query", "authorize"}

Script(fn, t, hasLocal) ==
    CASE fn = "execute" /\ t = "ugi"       -> executeTxnUpdateGridInfo(hasLocal)
      [] fn = "execute" /\ t = "counts"    -> executeTxnGetCounts
      [] fn = "execute" /\ t = "clear"     -> executeTxnClearHistory
      [] fn = "execute" /\ t = "purge"     -> executeTxnPurge
      [] fn = "execute" /\ t = "query"     -> executeTxnQuery
      [] fn = "fetch"   /\ t = "query"     -> fetchTxnQuery
      [] fn = "close"   /\ t = "query"     -> closeTxnQuery
      [] fn = "execute" /\ t = "authorize" -> executeTxnAuthorize
      [] fn = "fetch"   /\ t = "authorize" -> fetchTxnAuthorize
      [] fn = "close"   /\ t = "authorize" -> closeTxnAuthorize
      [] fn = "execute" /\ t = "charge"    -> executeTxnCharge
      [] fn = "execute" /\ t = "topup"     -> executeTxnTopup
      [] OTHER                             -> << >>
=============================================================================
