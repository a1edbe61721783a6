--------------------------- MODULE JavaGridProofs ---------------------------
(***************************************************************************)
(* GridSample in Java: the proof that the counters of the summary tell     *)
(* what is in the database (Accounting).                                   *)
(*                                                                         *)
(* Accounting speaks of committed work only.  What has to be known for it  *)
(* is which work is open when a commit is reached, and for that where work *)
(* can be left over: nowhere but under an exception, and there only until  *)
(* the rollback that the exception has queued has run, or for good if      *)
(* executeTxnGrid is about to return false and will begin no transaction,  *)
(* or if the driver refused that rollback (leftOpen).                      *)
(***************************************************************************)
EXTENDS JavaGridSample, TLAPS

\* What a transaction has done before its call p.
Before(t, p) ==
    IF t \in {"charge", "topup"}
    THEN [upd |-> IF p >= 3 THEN 1 ELSE 0, ins |-> IF p >= 4 THEN 1 ELSE 0]
    ELSE Nothing

\* The main thread is not in a call of a transaction: no work is open and no
\* frame of rollback() or close() is left.
Outside == {"args", "connect", "eid", "init", "counts", "clear", "hook",
            "check", "attempt", "reprepare"}

\* The places from which no transaction can be reached any more.
Leaving == {"disconnect", "summary", "sysexit", "over", "dead"}

Typed ==
    /\ pc \in Outside \cup Leaving \cup {"execute", "fetch", "gridinfo"}
    /\ ret \in {"none", "false", "retry", "failover"}
    /\ work \in [upd : Nat, ins : Nat] /\ db \in [upd : Nat, ins : Nat]
    /\ stats \in [executed : Nat, updates : Nat, retries : Nat, failovers : Nat]
    /\ hidden \in Nat /\ leftOpen \in BOOLEAN

\* The transaction in progress is one of the mix, at one of its calls.
InPlan ==
    /\ pc \in {"attempt", "reprepare", "gridinfo", "execute", "fetch"} => cur \in Workload
    /\ pc \in {"reprepare", "gridinfo"} => pos = 1
    /\ pc = "execute" => pos \in 1..Len(Calls(cur))

\* The open work is that of the calls already made; after an exception that
\* has the transaction tried again it is gone, or its rollback is the one
\* frame on the stack.  A rollback that was refused adds to it.
WorkKnown ==
    /\ pc \in Outside => stack = <<>> /\ (leftOpen \/ work = Nothing)
    /\ pc \in {"fetch", "gridinfo"} => leftOpen \/ work = Nothing
    /\ pc = "execute" /\ ret = "none" =>
           /\ stack = <<>>
           /\ work.upd >= Before(cur, pos).upd
           /\ leftOpen \/ work = Before(cur, pos)
    /\ pc = "execute" /\ ret \in {"retry", "failover"} =>
           \/ leftOpen \/ work = Nothing
           \/ stack = <<"rollback">> /\ ttConn

JInv == Typed /\ InPlan /\ WorkKnown /\ Accounting

-----------------------------------------------------------------------------
(* rollback() and close().                                                 *)

\* What a frame may do: count nothing and commit nothing, undo the open work
\* or leave it; the frame that an exception queued undoes it or says that it
\* was refused.
UndoesOrLeaves ==
    /\ pos' = pos /\ cur' = cur /\ ret' = ret
    /\ db' = db /\ stats' = stats /\ hidden' = hidden
    /\ pc' = pc \/ pc' = "dead"
    /\ work' = work \/ work' = Nothing
    /\ leftOpen' \in BOOLEAN /\ (leftOpen => leftOpen')
    /\ stack # <<>>
    /\ stack = <<"rollback">> /\ ttConn => leftOpen' \/ work' = Nothing

LEMMA OnlyFrame == stack = <<"rollback">> => Top = "rollback"
  BY DEF Top

LEMMA UnwindStep == ASSUME leftOpen \in BOOLEAN, Unwind PROVE UndoesOrLeaves
<1> USE OnlyFrame DEF On, UndoesOrLeaves
<1>1. CASE Rollback
  BY <1>1 DEF Rollback, RolledBack, Pop, Nest, Die, retry, history
<1>2. CASE NothingToDo
  BY <1>2 DEF NothingToDo, Pop, retry, handles, history
<1>3. CASE Close
  BY <1>3 DEF Close, Nest, Die, retry, handles, history
<1>4. CASE CloseRest
  BY <1>4 DEF CloseRest, Pop, Nest, Die, retry, history
<1>5. CASE CloseEnd
  BY <1>5 DEF CloseEnd, Pop, retry, handles, history
<1>6. CASE TtConnClose
  BY <1>6 DEF TtConnClose, Pop, Die, retry, handles, history
<1>7. CASE RollbackRefused
  BY <1>7 DEF RollbackRefused, Pop, retry
<1> QED BY <1>1, <1>2, <1>3, <1>4, <1>5, <1>6, <1>7 DEF Unwind

LEMMA UnwindKeeps == ASSUME JInv, Unwind PROVE JInv'
<1>1. UndoesOrLeaves
  BY UnwindStep DEF JInv, Typed
<1>2. Typed'
  BY <1>1 DEF JInv, Typed, UndoesOrLeaves, Outside, Leaving, Nothing
<1>3. InPlan'
  BY <1>1 DEF JInv, InPlan, UndoesOrLeaves
<1>4. WorkKnown'
  BY <1>1 DEF JInv, WorkKnown, UndoesOrLeaves, Outside
<1>5. Accounting'
  BY <1>1 DEF JInv, Accounting, UndoesOrLeaves
<1> QED BY <1>2, <1>3, <1>4, <1>5 DEF JInv

LEMMA InitJ == ASSUME JavaAssumption, Init PROVE JInv
<1>1. Typed
  BY DEF Init, Typed, Outside, Nothing
<1>2. InPlan
  BY DEF Init, InPlan
<1>3. WorkKnown
  BY DEF Init, WorkKnown, Outside
<1>4. Accounting
  <2>1. db.upd = 0 /\ db.ins = 0 /\ stats.updates = 0 /\ hidden = 0
    BY DEF Init, Nothing
  <2> QED BY <2>1 DEF Accounting
<1> QED BY <1>1, <1>2, <1>3, <1>4 DEF JInv

-----------------------------------------------------------------------------
(* The steps in which no call of a transaction is made.                    *)

\* Nothing is counted, committed or opened; main stays outside, with an empty
\* stack, or is on its way out.
StaysOutside ==
    /\ ret' = ret
    /\ db' = db /\ hidden' = hidden /\ leftOpen' = leftOpen /\ stats' = stats
    /\ work' = work \/ work' = Nothing
    /\ leftOpen \/ work' = Nothing
    /\ \/ pc' \in {"connect", "eid", "init", "counts", "clear", "hook", "check"} /\ stack' = <<>>
       \/ pc' \in Leaving

LEMMA StaysOutsideKeeps == ASSUME JInv, StaysOutside PROVE JInv'
<1>1. Typed'
  BY DEF StaysOutside, JInv, Typed, Outside, Leaving, Nothing
<1>2. InPlan'
  BY DEF StaysOutside, InPlan, Leaving
<1>3. WorkKnown'
  BY DEF StaysOutside, WorkKnown, Outside, Leaving
<1>4. Accounting'
  BY DEF StaysOutside, JInv, Accounting
<1> QED BY <1>1, <1>2, <1>3, <1>4 DEF JInv

Startup ==
    \/ ParseArgs \/ ParseArgsFails \/ Connect \/ PrepareEid \/ InitTxn \/ StartupFails
    \/ DataError \/ GetTableData \/ CleanupHistory \/ SetShutdownHook

LEMMA StartupStep == ASSUME JInv, Startup PROVE StaysOutside
<1> USE DEF JInv, WorkKnown, StaysOutside, Outside, Leaving, At, GoTo, Cleanup,
            Die, retry, handles, history
<1>1. CASE ParseArgs
  BY <1>1 DEF ParseArgs
<1>2. CASE ParseArgsFails
  BY <1>2 DEF ParseArgsFails, BadArgs, HelpAsked
<1>3. CASE Connect
  BY <1>3 DEF Connect
<1>4. CASE PrepareEid
  BY <1>4 DEF PrepareEid
<1>5. CASE InitTxn
  BY <1>5 DEF InitTxn
<1>6. CASE StartupFails
  BY <1>6 DEF StartupFails, SessionAfter
<1>7. CASE DataError
  BY <1>7 DEF DataError
<1>8. CASE GetTableData
  BY <1>8 DEF GetTableData
<1>9. CASE CleanupHistory
  BY <1>9 DEF CleanupHistory
<1>10. CASE SetShutdownHook
  BY <1>10 DEF SetShutdownHook
<1> QED BY <1>1, <1>2, <1>3, <1>4, <1>5, <1>6, <1>7, <1>8, <1>9, <1>10 DEF Startup

\* What goes on around main: its own state does not change.
Around == MainEnded \/ HookRun \/ HookEnds \/ Interrupt \/ Ended \/ UNCHANGED vars

LEMMA AroundKeeps == ASSUME JInv, Around PROVE JInv'
<1>1. /\ pc' = pc /\ pos' = pos /\ cur' = cur /\ stack' = stack /\ ret' = ret
      /\ ttConn' = ttConn /\ stats' = stats /\ work' = work /\ db' = db
      /\ hidden' = hidden /\ leftOpen' = leftOpen
  BY DEF Around, MainEnded, HookRun, HookEnds, Interrupt, Ended, vars, history
<1>2. Typed'
  BY <1>1 DEF JInv, Typed
<1>3. InPlan'
  BY <1>1 DEF JInv, InPlan
<1>4. WorkKnown'
  BY <1>1 DEF JInv, WorkKnown
<1>5. Accounting'
  BY <1>1 DEF JInv, Accounting
<1> QED BY <1>2, <1>3, <1>4, <1>5 DEF JInv

\* The way out: whatever work is left stays open and is never committed.
Leaves ==
    /\ pc' \in Leaving
    /\ ret' = ret
    /\ db' = db /\ hidden' = hidden /\ leftOpen' = leftOpen /\ stats' = stats
    /\ work' = work \/ work' = Nothing

LEMMA LeavesKeeps == ASSUME JInv, Leaves PROVE JInv'
<1>1. Typed'
  BY DEF Leaves, JInv, Typed, Leaving, Nothing
<1>2. InPlan'
  BY DEF Leaves, InPlan, Leaving
<1>3. WorkKnown'
  BY DEF Leaves, WorkKnown, Outside, Leaving
<1>4. Accounting'
  BY DEF Leaves, JInv, Accounting
<1> QED BY <1>1, <1>2, <1>3, <1>4 DEF JInv

WayOut == EndWorkload \/ ReprepareAllFails \/ TxnFails \/ DbDisconnect
          \/ SetShutdown \/ SystemExit

LEMMA WayOutStep == ASSUME WayOut PROVE Leaves
<1> USE DEF Leaves, Leaving, At, GoTo, retry, handles, history
<1>1. CASE EndWorkload
  BY <1>1 DEF EndWorkload
<1>2. CASE ReprepareAllFails
  BY <1>2 DEF ReprepareAllFails, SessionAfter
<1>3. CASE TxnFails
  BY <1>3 DEF TxnFails
<1>4. CASE DbDisconnect
  BY <1>4 DEF DbDisconnect
<1>5. CASE SetShutdown
  BY <1>5 DEF SetShutdown
<1>6. CASE SystemExit
  BY <1>6 DEF SystemExit
<1> QED BY <1>1, <1>2, <1>3, <1>4, <1>5, <1>6 DEF WayOut

-----------------------------------------------------------------------------
(* executeTxnGrid: the loop around the calls of a transaction.             *)

\* Each transaction has between one and four calls.  The commit is the last
\* one; when it is reached the update and its history row are both open.
LEMMA CallsOf ==
    ASSUME JavaAssumption, NEW t \in Workload
    PROVE  /\ Len(Calls(t)) \in 1..4
           /\ \A p \in 1..Len(Calls(t)) :
                Calls(t)[p] = "commit" => /\ p = Len(Calls(t))
                                          /\ ~ReturnsResultSet(t)
                                          /\ Before(t, p) = [upd |-> IF CountsUpdate(t) THEN 1 ELSE 0,
                                                             ins |-> IF CountsUpdate(t) THEN 1 ELSE 0]
<1> USE DEF Calls, Before, ReturnsResultSet, CountsUpdate, Nothing
<1>1. CASE t = "authorize"
  BY <1>1 DEF AuthorizeCalls
<1>2. CASE t = "query"
  BY <1>2 DEF QueryCalls
<1>3. CASE t = "charge"
  BY <1>3 DEF ChargeCalls
<1>4. CASE t = "topup"
  BY <1>4 DEF TopupCalls
<1>5. CASE t = "purge"
  BY <1>5 DEF PurgeCalls
<1> QED BY <1>1, <1>2, <1>3, <1>4, <1>5 DEF JavaAssumption

\* No work is open at the first call.
LEMMA NothingBefore == ASSUME NEW t PROVE Before(t, 1) = Nothing
  BY DEF Before, Nothing

\* The loop moves to the place of an attempt with no work open, or with what
\* the driver refused to roll back.
Prepares ==
    /\ pc' \in {"attempt", "reprepare", "gridinfo", "execute", "disconnect", "dead"}
    /\ db' = db /\ hidden' = hidden /\ leftOpen' = leftOpen
    /\ stats'.updates = stats.updates
    /\ stats' \in [executed : Nat, updates : Nat, retries : Nat, failovers : Nat]
    /\ work' \in [upd : Nat, ins : Nat] /\ (leftOpen \/ work' = Nothing)
    /\ ret' \in {"none", "false", "retry", "failover"}
    /\ cur' \in Workload
    /\ pc' \in {"reprepare", "gridinfo", "execute"} => pos' = 1
    /\ pc' \in {"attempt", "reprepare", "execute"} => stack' = <<>>

LEMMA PreparesKeeps == ASSUME JavaAssumption, JInv, Prepares PROVE JInv'
<1>1. Typed'
  BY DEF Prepares, JInv, Typed, Outside, Leaving, Nothing
<1>2. InPlan'
  <2>1. 1 \in 1..Len(Calls(cur'))
    BY CallsOf, SMTT(20) DEF Prepares
  <2>2. pc' = "execute" => pos' \in 1..Len(Calls(cur'))
    BY <2>1 DEF Prepares
  <2>3. pc' \in {"reprepare", "gridinfo"} => pos' = 1
    BY DEF Prepares
  <2> QED BY <2>2, <2>3 DEF Prepares, InPlan
<1>3. WorkKnown'
  <2>1. pc' = "execute" => Before(cur', pos') = Nothing
    BY NothingBefore DEF Prepares
  <2>2. work'.upd >= 0
    BY DEF Prepares
  <2> QED BY <2>1, <2>2 DEF Nothing, Prepares, WorkKnown, Outside
<1>4. Accounting'
  BY DEF Prepares, JInv, Accounting
<1> QED BY <1>1, <1>2, <1>3, <1>4 DEF JInv

Loop == (\E t \in Workload : BeginTxn(t)) \/ Attempt \/ ReprepareAll \/ UpdateGridInfoEx
        \/ UpdateGridInfoFails \/ ConnectionFailoverException \/ GridRetryException

\* An exception reaches executeTxnGrid when its rollback has run.
LEMMA Tried ==
    ASSUME JInv, InTxn, ret \in {"retry", "failover"}
    PROVE  (leftOpen \/ work = Nothing) /\ cur \in Workload /\ stack = <<>>
<1>1. stack = <<>> /\ pc \in {"execute", "fetch", "gridinfo"}
  BY DEF InTxn, At
<1>2. stack # <<"rollback">>
  BY <1>1
<1> QED BY <1>1, <1>2 DEF JInv, InPlan, WorkKnown

LEMMA LoopStep == ASSUME JInv, Loop PROVE Prepares
<1> USE DEF JInv, Typed, InPlan, WorkKnown, Prepares, Outside, At, GoTo, retry,
            handles, history
<1>1. CASE \E t \in Workload : BeginTxn(t)
  BY <1>1 DEF BeginTxn
<1>2. CASE Attempt
  BY <1>2 DEF Attempt
<1>3. CASE ReprepareAll
  BY <1>3 DEF ReprepareAll
<1>4. CASE UpdateGridInfoEx
  BY <1>4 DEF UpdateGridInfoEx, Die
<1>5. CASE UpdateGridInfoFails
  <2>1. PICK class \in Classes : ret' = Thrown(class) /\ SessionAfter(class)
    BY <1>5 DEF UpdateGridInfoFails
  <2>2. work' = work \/ work' = Nothing
    BY <2>1 DEF SessionAfter
  <2>3. work' \in [upd : Nat, ins : Nat] /\ (leftOpen \/ work' = Nothing)
    BY <1>5, <2>2 DEF UpdateGridInfoFails, Nothing
  <2>4. ret' \in {"none", "false", "retry", "failover"}
    BY <2>1 DEF Thrown
  <2> QED BY <1>5, <2>3, <2>4 DEF UpdateGridInfoFails
<1>6. CASE ConnectionFailoverException
  <2>1. InTxn /\ ret \in {"retry", "failover"}
    BY <1>6 DEF ConnectionFailoverException
  <2>2. (leftOpen \/ work = Nothing) /\ cur \in Workload /\ stack = <<>>
    BY <2>1, Tried
  <2> QED BY <1>6, <2>2 DEF ConnectionFailoverException
<1>7. CASE GridRetryException
  <2>1. InTxn /\ ret \in {"retry", "failover"}
    BY <1>7 DEF GridRetryException
  <2>2. (leftOpen \/ work = Nothing) /\ cur \in Workload /\ stack = <<>>
    BY <2>1, Tried
  <2> QED BY <1>7, <2>2 DEF GridRetryException
<1> QED BY <1>1, <1>2, <1>3, <1>4, <1>5, <1>6, <1>7 DEF Loop

-----------------------------------------------------------------------------
(* The calls of a transaction.                                             *)

\* A call that fails, in the select, the update, the commit or the fetch:
\* nothing is committed or counted, and if the transaction is to be tried
\* again its work is gone or about to be rolled back.
Fails ==
    /\ pc' = pc /\ pc \in {"execute", "fetch"} /\ pos' = pos /\ cur' = cur
    /\ db' = db /\ hidden' = hidden /\ leftOpen' = leftOpen /\ stats' = stats
    /\ ret' \in {"false", "retry", "failover"}
    /\ work' = work \/ work' = Nothing
    /\ pc = "execute" /\ ret' \in {"retry", "failover"} =>
           \/ work' = Nothing
           \/ stack' = <<"rollback">> /\ ttConn'

LEMMA FailsKeeps == ASSUME JInv, Fails PROVE JInv'
<1>1. Typed'
  BY DEF Fails, JInv, Typed, Nothing
<1>2. InPlan'
  BY DEF Fails, JInv, InPlan
<1>3. WorkKnown'
  BY DEF Fails, JInv, WorkKnown, Outside
<1>4. Accounting'
  BY DEF Fails, JInv, Accounting
<1> QED BY <1>1, <1>2, <1>3, <1>4 DEF JInv

LEMMA FailsStep == ASSUME JInv, Refused \/ ExecuteFails \/ FetchFails PROVE Fails
<1> USE DEF Fails, At, handles, history
<1>1. CASE Refused
  BY <1>1 DEF Refused
<1>2. CASE ExecuteFails
  <2>1. PICK class \in Classes :
            /\ stack' = FailedCall(class) /\ ret' = Thrown(class)
            /\ SessionAfter(class)
    BY <1>2 DEF ExecuteFails
  <2>2. class = "retry" => FailedCall(class) = <<"rollback">>
    BY DEF FailedCall, CommitUnwinding, Unwinding
  <2>3. ttConn' = ttConn /\ ttConn /\ pc = "execute" /\ pc' = pc /\ pos' = pos /\ cur' = cur
    BY <1>2 DEF ExecuteFails, Usable
  <2>4. db' = db /\ hidden' = hidden /\ leftOpen' = leftOpen /\ stats' = stats
    BY <1>2 DEF ExecuteFails
  <2> QED BY <2>1, <2>2, <2>3, <2>4 DEF Classes, Thrown, SessionAfter
<1>3. CASE FetchFails
  BY <1>3 DEF FetchFails, Thrown, SessionAfter
<1> QED BY <1>1, <1>2, <1>3

\* The commit is reached with the update of the transaction open, and with no
\* other unless a rollback was refused.
LEMMA OpenAtCommit ==
    ASSUME JavaAssumption, JInv, pc = "execute", ret = "none", Call = "commit"
    PROVE  LET one == IF CountsUpdate(cur) THEN 1 ELSE 0
           IN  work.upd >= one /\ (leftOpen \/ work = [upd |-> one, ins |-> one])
<1>1. cur \in Workload /\ pos \in 1..Len(Calls(cur)) /\ Calls(cur)[pos] = "commit"
  BY DEF JInv, InPlan, Call
<1>2. Before(cur, pos) = [upd |-> IF CountsUpdate(cur) THEN 1 ELSE 0,
                          ins |-> IF CountsUpdate(cur) THEN 1 ELSE 0]
  BY <1>1, CallsOf
<1> QED BY <1>2 DEF JInv, WorkKnown

LEMMA CommitReportedFailedKeeps ==
    ASSUME JavaAssumption, JInv, CommitReportedFailed PROVE JInv'
<1>1. /\ pc = "execute" /\ pc' = pc /\ pos' = pos /\ cur' = cur /\ stats' = stats
      /\ ret = "none" /\ work' = Nothing /\ Call = "commit" /\ leftOpen' = leftOpen
      /\ db' = [upd |-> db.upd + work.upd, ins |-> db.ins + work.ins]
      /\ hidden' = hidden + work.upd
  BY DEF CommitReportedFailed, At, Plus
<1>2. ret' \in {"false", "failover"}
  BY DEF CommitReportedFailed, Thrown, Classes
<1>3. /\ db.upd \in Nat /\ db.ins \in Nat /\ work.upd \in Nat /\ work.ins \in Nat
      /\ stats.updates \in Nat /\ hidden \in Nat
  BY DEF JInv, Typed
<1>4. Typed'
  BY <1>1, <1>2, <1>3 DEF JInv, Typed, Nothing
<1>5. InPlan'
  BY <1>1 DEF JInv, InPlan
<1>6. WorkKnown'
  BY <1>1, <1>2 DEF WorkKnown, Outside
<1>7. Accounting'
  <2>1. leftOpen \/ work.upd = work.ins
    <3> DEFINE one == IF CountsUpdate(cur) THEN 1 ELSE 0
    <3>1. leftOpen \/ work = [upd |-> one, ins |-> one]
      BY <1>1, OpenAtCommit
    <3> HIDE DEF one
    <3> QED BY <3>1
  <2>2. db'.upd = db.upd + work.upd /\ db'.ins = db.ins + work.ins
    BY <1>1
  <2>3. /\ db.upd >= stats.updates + hidden
        /\ ~leftOpen => db.upd = db.ins /\ db.upd = stats.updates + hidden
    BY DEF JInv, Accounting
  <2>4. db'.upd >= stats.updates + hidden'
    BY <1>1, <1>3, <2>2, <2>3
  <2>5. ~leftOpen => db'.upd = db'.ins /\ db'.upd = stats.updates + hidden'
    BY <1>1, <1>3, <2>1, <2>2, <2>3
  <2> QED BY <1>1, <2>4, <2>5 DEF Accounting
<1> QED BY <1>4, <1>5, <1>6, <1>7 DEF JInv

\* What a call other than the commit does to the open work.
LEMMA CallDone ==
    ASSUME JavaAssumption, cur \in Workload, pos \in 1..Len(Calls(cur)), Call # "commit"
    PROVE  /\ pos < Len(Calls(cur)) => Plus(Before(cur, pos), Effect) = Before(cur, pos + 1)
           /\ ~(pos < Len(Calls(cur))) => /\ ReturnsResultSet(cur)
                                          /\ Plus(Before(cur, pos), Effect) = Nothing
           /\ ReturnsResultSet(cur) => ~CountsUpdate(cur)
<1> USE DEF Calls, Before, ReturnsResultSet, CountsUpdate, Nothing, Plus, Call, Effect
<1>1. CASE cur = "authorize"
  BY <1>1 DEF AuthorizeCalls
<1>2. CASE cur = "query"
  BY <1>2 DEF QueryCalls
<1>3. CASE cur = "charge"
  <2>1. Len(Calls(cur)) = 4 /\ pos \in {1, 2, 3}
    BY <1>3 DEF ChargeCalls
  <2> QED BY <1>3, <2>1 DEF ChargeCalls
<1>4. CASE cur = "topup"
  <2>1. Len(Calls(cur)) = 4 /\ pos \in {1, 2, 3}
    BY <1>4 DEF TopupCalls
  <2> QED BY <1>4, <2>1 DEF TopupCalls
<1>5. CASE cur = "purge"
  <2>1. Len(Calls(cur)) = 2 /\ pos = 1
    BY <1>5 DEF PurgeCalls
  <2> QED BY <1>5, <2>1 DEF PurgeCalls
<1> QED BY <1>1, <1>2, <1>3, <1>4, <1>5 DEF JavaAssumption

\* What a transaction that is over adds to the counters.
LEMMA CountedTyped ==
    ASSUME stats \in [executed : Nat, updates : Nat, retries : Nat, failovers : Nat]
    PROVE  /\ Counted \in [executed : Nat, updates : Nat, retries : Nat, failovers : Nat]
           /\ Counted.updates = stats.updates + (IF CountsUpdate(cur) THEN 1 ELSE 0)
<1> DEFINE one == IF CountsUpdate(cur) THEN 1 ELSE 0
<1>1. one \in Nat
  OBVIOUS
<1>2. Counted = [stats EXCEPT !.executed = @ + 1, !.updates = @ + one]
  BY DEF Counted
<1> HIDE DEF one
<1>3. Counted = [executed |-> stats.executed + 1, updates |-> stats.updates + one,
                 retries |-> stats.retries, failovers |-> stats.failovers]
  BY <1>2
<1>4. Counted.updates = stats.updates + one
  BY <1>3
<1>5. Counted \in [executed : Nat, updates : Nat, retries : Nat, failovers : Nat]
  BY <1>1, <1>3
<1> QED BY <1>4, <1>5 DEF one

LEMMA ExecuteCallKeeps == ASSUME JavaAssumption, JInv, ExecuteCall PROVE JInv'
<1> DEFINE one == IF CountsUpdate(cur) THEN 1 ELSE 0
<1>1. /\ pc = "execute" /\ ret = "none" /\ stack = <<>> /\ cur \in Workload
      /\ pos \in 1..Len(Calls(cur))
      /\ work.upd >= Before(cur, pos).upd /\ (leftOpen \/ work = Before(cur, pos))
  BY DEF ExecuteCall, At, JInv, InPlan, WorkKnown
<1>2. /\ ret' = ret /\ stack' = stack /\ cur' = cur /\ hidden' = hidden
      /\ leftOpen' = leftOpen
  BY DEF ExecuteCall
<1>3. one \in Nat /\ Len(Calls(cur)) \in Nat /\ pos \in Nat
  BY <1>1, CallsOf
<1>4. /\ db.upd \in Nat /\ db.ins \in Nat /\ stats.updates \in Nat /\ hidden \in Nat
      /\ work.upd \in Nat /\ work.ins \in Nat
      /\ stats \in [executed : Nat, updates : Nat, retries : Nat, failovers : Nat]
      /\ db \in [upd : Nat, ins : Nat] /\ work \in [upd : Nat, ins : Nat]
  BY DEF JInv, Typed
<1>5. /\ Counted \in [executed : Nat, updates : Nat, retries : Nat, failovers : Nat]
      /\ Counted.updates = stats.updates + one
  BY <1>4, CountedTyped
<1>6. /\ db.upd >= stats.updates + hidden
      /\ ~leftOpen => db.upd = db.ins /\ db.upd = stats.updates + hidden
  BY DEF JInv, Accounting
<1>7. CASE Call = "commit"
  <2>1. /\ work.upd >= one /\ (leftOpen \/ work = [upd |-> one, ins |-> one])
        /\ ~(pos < Len(Calls(cur))) /\ ~ReturnsResultSet(cur)
    <3>1. work.upd >= one /\ (leftOpen \/ work = [upd |-> one, ins |-> one])
      BY <1>1, <1>7, OpenAtCommit
    <3>2. pos = Len(Calls(cur)) /\ ~ReturnsResultSet(cur)
      BY <1>1, <1>7, CallsOf DEF Call
    <3> QED BY <1>3, <3>1, <3>2
  <2>2. pc' = "check" /\ pos' = pos /\ stats' = Counted
    BY <2>1 DEF ExecuteCall, GoTo
  <2>3. work' = Nothing /\ db' = [upd |-> db.upd + work.upd, ins |-> db.ins + work.ins]
    BY <1>7 DEF ExecuteCall, Plus
  <2> HIDE DEF one
  <2>4. /\ stats' \in [executed : Nat, updates : Nat, retries : Nat, failovers : Nat]
        /\ stats'.updates = stats.updates + one
    BY <1>3, <1>4, <1>5, <2>2
  <2>5. Typed'
    BY <1>1, <1>2, <1>3, <1>4, <2>2, <2>3, <2>4, SMTT(20) DEF JInv, Typed, Outside, Nothing
  <2>6. InPlan'
    BY <2>2 DEF InPlan
  <2>7. WorkKnown'
    BY <1>1, <1>2, <2>2, <2>3 DEF WorkKnown, Outside
  <2>8. Accounting'
    <3>1. db'.upd = db.upd + work.upd /\ db'.ins = db.ins + work.ins
      BY <2>3
    <3>2. db'.upd >= stats'.updates + hidden'
      <4>1. hidden' = hidden /\ stats'.updates = stats.updates + one
        BY <1>2, <2>4
      <4>2. work.upd >= one /\ db.upd >= stats.updates + hidden
        BY <1>6, <2>1
      <4> QED BY <1>3, <1>4, <3>1, <4>1, <4>2
    <3>3. ~leftOpen => work.upd = one /\ work.ins = one
      BY <2>1
    <3>4. ~leftOpen => db'.upd = db'.ins /\ db'.upd = stats'.updates + hidden'
      BY <1>2, <1>3, <1>4, <1>6, <2>4, <3>1, <3>3
    <3> QED BY <1>2, <3>2, <3>4 DEF Accounting
  <2> QED BY <2>5, <2>6, <2>7, <2>8 DEF JInv
<1>8. CASE Call # "commit"
  <2>1. db' = db /\ work' = Plus(work, Effect)
    BY <1>8 DEF ExecuteCall
  <2>2. /\ work' = [upd |-> work.upd + Effect.upd, ins |-> work.ins + Effect.ins]
        /\ Effect.upd \in Nat /\ Effect.ins \in Nat
    BY <2>1 DEF Plus, Effect, Nothing
  <2>3. work' \in [upd : Nat, ins : Nat]
    BY <1>4, <2>2
  <2>4. CASE pos < Len(Calls(cur))
    <3>1. pc' = pc /\ pos' = pos + 1 /\ stats' = stats
      BY <2>4 DEF ExecuteCall
    <3>2. Plus(Before(cur, pos), Effect) = Before(cur, pos + 1)
      BY <1>1, <1>8, <2>4, CallDone
    <3>3. /\ Before(cur, pos + 1).upd = Before(cur, pos).upd + Effect.upd
          /\ leftOpen \/ work' = Before(cur, pos + 1)
      BY <1>1, <2>1, <3>2 DEF Plus
    <3>4. work'.upd >= Before(cur, pos + 1).upd
      <4>1. Before(cur, pos).upd \in Nat
        BY DEF Before, Nothing
      <4> QED BY <1>1, <1>4, <2>2, <3>3, <4>1
    <3>5. Typed'
      BY <1>1, <1>2, <1>4, <2>1, <2>3, <3>1 DEF JInv, Typed
    <3>6. InPlan'
      BY <1>1, <1>2, <1>3, <2>4, <3>1 DEF InPlan
    <3>7. WorkKnown'
      BY <1>1, <1>2, <3>1, <3>3, <3>4 DEF WorkKnown, Outside
    <3>8. Accounting'
      BY <1>2, <2>1, <3>1 DEF JInv, Accounting
    <3> QED BY <3>5, <3>6, <3>7, <3>8 DEF JInv
  <2>5. CASE ~(pos < Len(Calls(cur)))
    <3>1. /\ Plus(Before(cur, pos), Effect) = Nothing
          /\ ReturnsResultSet(cur) /\ one = 0
      BY <1>1, <1>8, <2>5, CallDone
    <3>2. pc' = "fetch" /\ pos' = pos /\ stats' = Counted
      BY <2>5, <3>1 DEF ExecuteCall, GoTo
    <3>3. leftOpen \/ work' = Nothing
      BY <1>1, <2>1, <3>1
    <3> HIDE DEF one
    <3>4. /\ stats' \in [executed : Nat, updates : Nat, retries : Nat, failovers : Nat]
          /\ stats'.updates = stats.updates
      BY <1>4, <1>5, <3>1, <3>2
    <3>5. Typed'
      BY <1>1, <1>2, <1>4, <2>1, <2>3, <3>2, <3>4 DEF JInv, Typed
    <3>6. InPlan'
      BY <1>1, <1>2, <3>2 DEF InPlan
    <3>7. WorkKnown'
      BY <1>2, <3>2, <3>3 DEF WorkKnown, Outside
    <3>8. Accounting'
      BY <1>2, <2>1, <3>4 DEF JInv, Accounting
    <3> QED BY <3>5, <3>6, <3>7, <3>8 DEF JInv
  <2> QED BY <2>4, <2>5
<1> QED BY <1>7, <1>8

LEMMA FetchAllStep == ASSUME JInv, FetchAll PROVE JInv'
<1>1. /\ ret' = ret /\ db' = db /\ hidden' = hidden /\ leftOpen' = leftOpen
      /\ stats' = stats /\ work' = work
      /\ pc = "fetch" /\ pc' = "check" /\ stack = <<>> /\ stack' = stack
  BY DEF FetchAll, At, GoTo
<1>2. StaysOutside
  BY <1>1 DEF StaysOutside, JInv, WorkKnown
<1> QED BY <1>2, StaysOutsideKeeps

-----------------------------------------------------------------------------
(* The theorem.                                                            *)

\* JInv is inductive.
LEMMA NextJ == ASSUME JavaAssumption, JInv, [Next]_vars PROVE JInv'
<1>1. CASE Unwind
  BY <1>1, UnwindKeeps
<1>2. CASE Startup
  BY <1>2, StartupStep, StaysOutsideKeeps
<1>3. CASE Loop
  BY <1>3, LoopStep, PreparesKeeps
<1>4. CASE ExecuteCall
  BY <1>4, ExecuteCallKeeps
<1>5. CASE Refused \/ ExecuteFails \/ FetchFails
  BY <1>5, FailsStep, FailsKeeps
<1>6. CASE CommitReportedFailed
  BY <1>6, CommitReportedFailedKeeps
<1>7. CASE FetchAll
  BY <1>7, FetchAllStep
<1>8. CASE WayOut
  BY <1>8, WayOutStep, LeavesKeeps
<1>9. CASE Around
  BY <1>9, AroundKeeps
<1> QED
  BY <1>1, <1>2, <1>3, <1>4, <1>5, <1>6, <1>7, <1>8, <1>9
     DEF Next, Main, Machine, Startup, Loop, WayOut, Around

\* For every workload, retry and failover limit, number of transactions and
\* depth of the stack, whichever JDBC call fails and in whatever order the
\* rollbacks that call each other run: a committed balance update has its
\* history row, and the summary's count of updates is short of them by
\* exactly those whose commit was done and then reported as failed, by a
\* failover or by a warning.  If the driver ever refused to roll back, the
\* summary still counts no update that was not made.
THEOREM JavaAccountingSafe == Spec => []Accounting
<1>1. Init => JInv
  BY JavaAssumption, InitJ
<1>2. JInv /\ [Next]_vars => JInv'
  BY JavaAssumption, NextJ
<1>3. JInv => Accounting
  BY DEF JInv
<1> QED BY <1>1, <1>2, <1>3, PTL DEF Spec
=============================================================================
