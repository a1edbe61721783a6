-------------------------- MODULE GridSampleProofs --------------------------
(***************************************************************************)
(* What holds of GridSample for every workload, every limit, any amounts   *)
(* and any number of failures:                                             *)
(*   - type correctness, with the retry counters in their range (TInv);    *)
(*   - the balances agree with the transaction history (LInv);             *)
(*   - the summary agrees with the database (CInv), and the program        *)
(*     implements PaymentLedger;                                           *)
(*   - between two transactions everything is prepared (PInv).             *)
(* Each invariant is inductive with those before it.  Ledger alone is not  *)
(* inductive: it says nothing of the open transaction, which the next      *)
(* commit adds to the database.  LInv says where in the scripts of Charge  *)
(* and TopUp the open transaction may be unbalanced (between the UPDATE    *)
(* and the INSERT, the fifth call), and that no function of another        *)
(* transaction ever unbalances it.  CInv says exactly what it holds.       *)
(* PInv follows the two plans, statement by statement.                     *)
(***************************************************************************)
EXTENDS GridSample, SequenceTheorems, TLAPS

-----------------------------------------------------------------------------
(* The plans and the scripts.                                              *)

PlanCall == [fn : {"init", "execute"}, txn : Txns]

LEMMA OptType == ASSUME NEW w \in BOOLEAN, NEW t \in Txns
                 PROVE  Opt(w, t) \in Seq(Txns)
  BY DEF Opt

LEMMA AppTxnsType == AppTxns \in Seq(Txns) /\ Len(AppTxns) >= 2
  <1>1. <<"ugi", "counts">> \in Seq(Txns) /\ Len(<<"ugi", "counts">>) = 2
    BY DEF Txns, TxnTypes
  <1>2. Opt(DoCleanup, "clear") \in Seq(Txns)
    <2>1. "clear" \in Txns /\ DoCleanup \in BOOLEAN
      BY ConfigAssumption DEF Txns
    <2>2. QED
      BY <2>1, OptType
  <1>3. ASSUME NEW t \in TxnTypes
        PROVE  Opt(t \in Workload, t) \in Seq(Txns)
    <2>1. t \in Txns /\ (t \in Workload) \in BOOLEAN
      BY DEF Txns
    <2>2. QED
      BY <2>1, OptType
  <1>4. QED
    BY <1>1, <1>2, <1>3 DEF AppTxns, TxnTypes

LEMMA StartupPlanType == StartupPlan \in Seq(PlanCall) /\ Len(StartupPlan) >= 4
  BY AppTxnsType DEF StartupPlan, PlanCall, Txns, TxnTypes

LEMMA ReprepPlanType == ReprepPlan \in Seq(PlanCall) /\ Len(ReprepPlan) >= 1
  BY AppTxnsType DEF ReprepPlan, PlanCall, Txns, TxnTypes

LEMMA EntryType == ASSUME NEW f, NEW t
                   PROVE  Entry(f, t) \in {"go", "state", "success"}
  BY DEF Entry

LEMMA EnterType ==
    ASSUME NEW f \in {"init", "execute", "fetch", "close"}, NEW t \in Txns \cup {"none"},
           Enter(f, t)
    PROVE  /\ call' \in [fn : {"init", "execute", "fetch", "close"},
                          txn : Txns \cup {"none"}, at : {0, 1}]
           /\ call'.fn = f /\ call'.txn = t
           /\ ret' \in Results
  BY EntryType DEF Enter, Results

-----------------------------------------------------------------------------
(* Type correctness.  The retry counters stay in their range because a     *)
(* transaction is only attempted while both are positive, and the plans    *)
(* are only followed inside their bounds.                                  *)

CountersLeft == pc \in {"reprepare", "run"} => rtCount > 0 /\ foCount > 0

HasCurrent == pc \in {"attempt", "reprepare", "run"} => cur \in Workload

TInv == TypeOK /\ CountersLeft /\ HasCurrent

LEMMA InitTInv == Init => TInv
  <1> SUFFICES ASSUME Init
               PROVE  TInv
    OBVIOUS
  <1> USE ConfigAssumption, LimitAssumption DEF Init
  <1>1. DriverOK
    <2>1. needReprepare \in BOOLEAN
      BY Zenon
    <2>2. rtCount \in 0..RetryLimit /\ foCount \in 0..FailoverLimit
      OBVIOUS
    <2>3. QED
      BY <2>1, <2>2 DEF DriverOK, PCs
  <1>2. call \in Calling /\ ret \in Results
    BY DEF Calling, Results
  <1>3. DataOK
    BY DEF DataOK
  <1>4. HandlesOK
    BY DEF HandlesOK
  <1>5. ServerOK
    <2>1. connected \in BOOLEAN /\ open \in BOOLEAN
      BY Zenon
    <2>2. NoWork \in Effects
      BY DEF NoWork, Effects
    <2>3. QED
      BY <2>1, <2>2 DEF ServerOK
  <1>6. OuterOK
    BY DEF OuterOK, Running
  <1>7. CountersLeft /\ HasCurrent
    BY DEF CountersLeft, HasCurrent
  <1>8. QED
    BY <1>1, <1>2, <1>3, <1>4, <1>5, <1>6, <1>7 DEF TInv, TypeOK

LEMMA AddType == ASSUME NEW a \in Effects, NEW b \in Effects
                 PROVE  Add(a, b) \in Effects
  BY DEF Add, Effects

LEMMA AmountType == TypeOK => Amount \in Int
  BY DEF TypeOK, DataOK, Amount

LEMMA PostType == ASSUME NEW a \in Int
                  PROVE  BalanceUpdate(a) \in Effects /\ HistoryRow(a) \in Effects
  BY DEF BalanceUpdate, HistoryRow, Effects

LEMMA AdvanceType ==
    ASSUME TypeOK, Advance
    PROVE  call' \in Calling /\ ret' \in Results
  BY DEF TypeOK, Advance, Return, Calling, Results

\* The functions of the transactions leave the driver alone.
LEMMA TxnFunctionFrame ==
    ASSUME TInv, TxnFunction
    PROVE  /\ UNCHANGED <<driver, amounts, stats, connected, outer>>
           /\ call' \in Calling /\ ret' \in Results
           /\ rows' \in Nat /\ rowCount' \in Int
  <1> USE ConfigAssumption, LimitAssumption DEF TInv
  <1>1. CASE InitSucceeds
    BY <1>1 DEF InitSucceeds, Return, TypeOK, DataOK, Calling, Results, server
  <1>2. CASE InitFails
    BY <1>2 DEF InitFails, ErrorPath, ErrorClass, Return, TypeOK, DataOK, Calling, Results
  <1>3. CASE ExecuteSelect
    BY <1>3, AdvanceType DEF ExecuteSelect, TypeOK, DataOK
  <1>4. CASE FetchRow
    BY <1>4, AdvanceType DEF FetchRow, TypeOK, DataOK, handles, server
  <1>5. CASE FetchNextRow
    BY <1>5 DEF FetchNextRow, Return, TypeOK, DataOK, Calling, Results, server
  <1>6. CASE CloseCursor
    BY <1>6, AdvanceType DEF CloseCursor, TypeOK, DataOK, server
  <1>7. CASE ExecuteUpdate
    BY <1>7, AdvanceType DEF ExecuteUpdate, TypeOK, DataOK, handles
  <1>8. CASE ExecuteInsert
    BY <1>8, AdvanceType DEF ExecuteInsert, TypeOK, DataOK, handles
  <1>9. CASE ExecuteDelete
    BY <1>9, AdvanceType DEF ExecuteDelete, TypeOK, DataOK, handles
  <1>10. CASE GetRowCount
    BY <1>10, AdvanceType DEF GetRowCount, TypeOK, DataOK, ServerOK, Effects, server
  <1>11. CASE ODBCCommit
    BY <1>11, AdvanceType DEF ODBCCommit, TypeOK, DataOK, handles
  <1>12. CASE CallFails
    BY <1>12 DEF CallFails, ErrorPath, ErrorClass, Return, TypeOK, DataOK, Calling, Results
  <1>13. QED
    BY <1>1, <1>2, <1>3, <1>4, <1>5, <1>6, <1>7, <1>8, <1>9, <1>10, <1>11, <1>12
    DEF TxnFunction

LEMMA StaleType ==
    ASSUME NEW st \in [Stmts -> {"null", "live", "stale"}]
    PROVE  Stale(st) \in [Stmts -> {"null", "live", "stale"}]
  BY DEF Stale

LEMMA ErrorPathType ==
    ASSUME TypeOK,
           NEW class, NEW moved \in BOOLEAN, NEW silent \in BOOLEAN, NEW kept \in BOOLEAN,
           NEW left \in [Stmts -> {"null", "live", "stale"}],
           ErrorPath(class, moved, silent, kept, left)
    PROVE  /\ stmt' \in [Stmts -> {"null", "live", "stale"}]
           /\ open' \in BOOLEAN /\ work' \in Effects /\ db' \in Effects
           /\ elem' \in BOOLEAN
  <1>1. stmt' \in [Stmts -> {"null", "live", "stale"}]
    BY StaleType DEF ErrorPath
  <1>2. work' \in Effects
    BY DEF ErrorPath, RolledBack, NoWork, Effects
  <1>3. Add(db, work) \in Effects
    BY AddType DEF TypeOK, ServerOK
  <1>4. db' \in Effects
    BY <1>3 DEF ErrorPath, TypeOK, ServerOK
  <1>5. open' \in BOOLEAN
    BY DEF ErrorPath
  <1>6. elem' \in BOOLEAN
    BY DEF ErrorPath
  <1>7. QED
    BY <1>1, <1>2, <1>4, <1>5, <1>6

LEMMA TxnFunctionHandles ==
    ASSUME TInv, TxnFunction
    PROVE  HandlesOK'
  <1> USE DEF TInv, TypeOK, HandlesOK
  <1>1. CASE InitSucceeds
    BY <1>1 DEF InitSucceeds
  <1>2. CASE InitFails
    <2> DEFINE freed == [s \in Stmts |-> IF s \in InitStmts(call.txn) THEN "null"
                                                                      ELSE stmt[s]]
    <2>1. freed \in [Stmts -> {"null", "live", "stale"}]
      OBVIOUS
    <2>2. PICK class \in ErrorClass, moved \in BOOLEAN, silent \in BOOLEAN :
               ErrorPath(class, moved, silent, FALSE, freed)
      BY <1>2 DEF InitFails
    <2> HIDE DEF freed
    <2>3. stmt' \in [Stmts -> {"null", "live", "stale"}]
      BY <2>1, <2>2, ErrorPathType
    <2>4. QED
      BY <1>2, <2>3 DEF InitFails
  <1>3. CASE ExecuteSelect
    BY <1>3 DEF ExecuteSelect
  <1>4. CASE FetchRow
    BY <1>4 DEF FetchRow, handles
  <1>5. CASE FetchNextRow
    BY <1>5 DEF FetchNextRow
  <1>6. CASE CloseCursor
    BY <1>6 DEF CloseCursor
  <1>7. CASE ExecuteUpdate \/ ExecuteInsert \/ ExecuteDelete \/ ODBCCommit
    BY <1>7 DEF ExecuteUpdate, ExecuteInsert, ExecuteDelete, ODBCCommit, handles
  <1>8. CASE GetRowCount
    BY <1>8 DEF GetRowCount
  <1>9. CASE CallFails
    <2>1. PICK class \in ErrorClass, moved \in BOOLEAN, silent \in BOOLEAN,
               kept \in BOOLEAN : ErrorPath(class, moved, silent, kept, stmt)
      BY <1>9 DEF CallFails
    <2>2. stmt' \in [Stmts -> {"null", "live", "stale"}]
      BY <2>1, ErrorPathType
    <2>3. QED
      BY <1>9, <2>2 DEF CallFails, ClearedCursor
  <1>10. QED
    BY <1>1, <1>2, <1>3, <1>4, <1>5, <1>6, <1>7, <1>8, <1>9 DEF TxnFunction

LEMMA TxnFunctionServer ==
    ASSUME TInv, TxnFunction
    PROVE  /\ open' \in BOOLEAN /\ elem' \in BOOLEAN
           /\ work' \in Effects /\ db' \in Effects
  <1>0. TypeOK /\ Amount \in Int
    BY AmountType DEF TInv
  <1> USE DEF TInv, TypeOK, ServerOK, OuterOK
  <1>1. CASE InitSucceeds
    BY <1>1 DEF InitSucceeds, server
  <1>2. CASE InitFails
    <2> DEFINE freed == [s \in Stmts |-> IF s \in InitStmts(call.txn) THEN "null"
                                                                      ELSE stmt[s]]
    <2>1. freed \in [Stmts -> {"null", "live", "stale"}]
      BY DEF HandlesOK
    <2>2. PICK class \in ErrorClass, moved \in BOOLEAN, silent \in BOOLEAN :
               ErrorPath(class, moved, silent, FALSE, freed)
      BY <1>2 DEF InitFails
    <2> HIDE DEF freed
    <2>3. QED
      BY <2>1, <2>2, ErrorPathType
  <1>3. CASE ExecuteSelect
    BY <1>3 DEF ExecuteSelect
  <1>4. CASE FetchRow \/ FetchNextRow \/ GetRowCount
    BY <1>4 DEF FetchRow, FetchNextRow, GetRowCount, server
  <1>5. CASE CloseCursor
    BY <1>5 DEF CloseCursor, server
  <1>6. CASE ExecuteUpdate
    <2>1. work' \in Effects
      BY <1>6, <1>0, PostType, AddType DEF ExecuteUpdate
    <2>2. QED
      BY <1>6, <2>1 DEF ExecuteUpdate
  <1>7. CASE ExecuteInsert
    <2>1. work' \in Effects
      BY <1>7, <1>0, PostType, AddType DEF ExecuteInsert
    <2>2. QED
      BY <1>7, <2>1 DEF ExecuteInsert
  <1>8. CASE ExecuteDelete
    <2>1. PICK n \in 0..RowsSeen : work' = [work EXCEPT !.del = @ + n]
      BY <1>8 DEF ExecuteDelete
    <2>2. RowsSeen \in Int
      BY LimitAssumption DEF RowsSeen, Effects
    <2>3. n \in Nat
      BY <2>1, <2>2
    <2>4. work' \in Effects
      BY <2>1, <2>3 DEF Effects
    <2>5. QED
      BY <1>8, <2>4 DEF ExecuteDelete
  <1>9. CASE ODBCCommit
    <2>1. work' \in Effects
      BY <1>9 DEF ODBCCommit, NoWork, Effects
    <2>2. db' \in Effects
      BY <1>9, AddType DEF ODBCCommit
    <2>3. QED
      BY <1>9, <2>1, <2>2 DEF ODBCCommit
  <1>10. CASE CallFails
    <2>1. PICK class \in ErrorClass, moved \in BOOLEAN, silent \in BOOLEAN,
               kept \in BOOLEAN : ErrorPath(class, moved, silent, kept, stmt)
      BY <1>10 DEF CallFails
    <2>2. QED
      BY <2>1, ErrorPathType DEF HandlesOK
  <1>11. QED
    BY <1>1, <1>2, <1>3, <1>4, <1>5, <1>6, <1>7, <1>8, <1>9, <1>10 DEF TxnFunction

LEMMA TxnFunctionTInv ==
    ASSUME TInv, TxnFunction
    PROVE  TInv'
  <1>1. DriverOK' /\ DataOK' /\ CountersLeft' /\ HasCurrent'
    BY TxnFunctionFrame
    DEF TInv, TypeOK, DriverOK, DataOK, CountersLeft, HasCurrent, driver, amounts
  <1>2. ServerOK'
    BY TxnFunctionFrame, TxnFunctionServer DEF TInv, TypeOK, ServerOK
  <1>3. OuterOK'
    BY TxnFunctionFrame, TxnFunctionServer DEF TInv, TypeOK, OuterOK, outer
  <1>4. QED
    BY <1>1, <1>2, <1>3, TxnFunctionFrame, TxnFunctionHandles DEF TInv, TypeOK

\* What most driver actions leave alone.
LEMMA DataUnchanged ==
    ASSUME TypeOK, UNCHANGED <<amounts, stats, handles, server, elem>>
    PROVE  /\ DataOK' /\ HandlesOK' /\ ServerOK' /\ elem' \in BOOLEAN
  BY DEF TypeOK, DataOK, HandlesOK, ServerOK, OuterOK, amounts, handles, server

LEMMA CallType ==
    ASSUME NEW f \in {"init", "execute", "fetch", "close"}, NEW t \in Txns \cup {"none"},
           Enter(f, t)
    PROVE  call' \in Calling /\ ret' \in Results
  BY EnterType DEF Calling

LEMMA WorkloadTxns == Workload \subseteq Txns
  BY ConfigAssumption DEF Txns

\* The steps before and after the workload.
LEMMA StartupTInv ==
    ASSUME TInv, ParseArgs \/ Connect \/ StartupStep \/ Connected \/ ClearDone
    PROVE  TInv'
  <1> USE LimitAssumption DEF TInv, TypeOK
  <1>1. CASE ParseArgs
    <2>1. DataOK' /\ HandlesOK' /\ ServerOK' /\ elem' \in BOOLEAN
      BY <1>1, DataUnchanged DEF ParseArgs
    <2>2. QED
      BY <1>1, <2>1
      DEF ParseArgs, GoTo, Cleanup, DriverOK, PCs, OuterOK, frame, outer,
          CountersLeft, HasCurrent
  <1>2. CASE Connect
    <2>1. DataOK' /\ HandlesOK'
      BY <1>2 DEF Connect, DataOK, HandlesOK, amounts, handles
    <2>2. ServerOK'
      BY <1>2 DEF Connect, Cleanup, GoTo, ServerOK
    <2>3. StartupPlan[1] \in PlanCall
      BY StartupPlanType
    <2>4. call' \in Calling /\ ret' \in Results
      BY <1>2, <2>3, CallType DEF Connect, Cleanup, GoTo, PlanCall, frame
    <2>5. DriverOK' /\ OuterOK' /\ CountersLeft' /\ HasCurrent'
      BY <1>2
      DEF Connect, GoTo, Cleanup, DriverOK, PCs, OuterOK, outer, CountersLeft, HasCurrent
    <2>6. QED
      BY <2>1, <2>2, <2>4, <2>5
  <1>3. CASE StartupStep
    <2>1. DataOK' /\ HandlesOK' /\ ServerOK' /\ elem' \in BOOLEAN
      BY <1>3, DataUnchanged DEF StartupStep
    <2>2. pos < Len(StartupPlan) => StartupPlan[pos + 1] \in PlanCall
      BY StartupPlanType DEF DriverOK
    <2>3. call' \in Calling /\ ret' \in Results
      BY <1>3, <2>2, CallType DEF StartupStep, PlanCall, frame
    <2>4. DriverOK' /\ CountersLeft' /\ HasCurrent'
      BY <1>3 DEF StartupStep, GoTo, Cleanup, DriverOK, PCs, CountersLeft, HasCurrent
    <2>5. OuterOK'
      BY <1>3, <2>1 DEF StartupStep, Cleanup, OuterOK, outer
    <2>6. QED
      BY <2>1, <2>3, <2>4, <2>5
  <1>4. CASE Connected
    <2>1. DataOK' /\ HandlesOK' /\ ServerOK' /\ elem' \in BOOLEAN
      BY <1>4, DataUnchanged DEF Connected
    <2>2. call' \in Calling /\ ret' \in Results
      BY <1>4, CallType DEF Connected, frame, Txns
    <2>3. DriverOK' /\ CountersLeft' /\ HasCurrent'
      BY <1>4 DEF Connected, GoTo, Cleanup, DriverOK, PCs, CountersLeft, HasCurrent
    <2>4. OuterOK'
      BY <1>4, <2>1 DEF Connected, Cleanup, OuterOK, outer
    <2>5. QED
      BY <2>1, <2>2, <2>3, <2>4
  <1>5. CASE ClearDone
    <2>1. DataOK' /\ HandlesOK' /\ ServerOK' /\ elem' \in BOOLEAN
      BY <1>5, DataUnchanged DEF ClearDone
    <2>2. QED
      BY <1>5, <2>1
      DEF ClearDone, GoTo, Cleanup, DriverOK, PCs, OuterOK, frame, outer,
          CountersLeft, HasCurrent
  <1>6. QED
    BY <1>1, <1>2, <1>3, <1>4, <1>5

LEMMA EndTInv ==
    ASSUME TInv, dbDisconnect \/ freeContext \/ SignalArrives \/ UNCHANGED vars
    PROVE  TInv'
  <1> USE LimitAssumption DEF TInv, TypeOK
  <1>1. CASE dbDisconnect
    <2>1. ServerOK'
      BY <1>1 DEF dbDisconnect, ServerOK, StillConnected
    <2>2. DataOK' /\ HandlesOK'
      BY <1>1 DEF dbDisconnect, DataOK, HandlesOK, amounts, handles
    <2>3. QED
      BY <1>1, <2>1, <2>2
      DEF dbDisconnect, GoTo, Cleanup, DriverOK, PCs, OuterOK, frame, CountersLeft,
          HasCurrent
  <1>2. CASE freeContext
    <2>1. RolledBack \in Effects
      BY DEF RolledBack, NoWork, Effects
    <2>2. ServerOK'
      BY <1>2, <2>1 DEF freeContext, ServerOK, StillConnected
    <2>3. DataOK' /\ HandlesOK'
      BY <1>2 DEF freeContext, DataOK, HandlesOK, amounts
    <2>4. QED
      BY <1>2, <2>2, <2>3
      DEF freeContext, GoTo, DriverOK, PCs, OuterOK, frame, outer, CountersLeft,
          HasCurrent
  <1>3. CASE SignalArrives
    <2>1. DataOK' /\ HandlesOK' /\ ServerOK' /\ elem' \in BOOLEAN
      BY <1>3, DataUnchanged DEF SignalArrives
    <2>2. QED
      BY <1>3, <2>1
      DEF SignalArrives, DriverOK, OuterOK, driver, frame, CountersLeft, HasCurrent
  <1>4. CASE UNCHANGED vars
    <2>1. DataOK' /\ HandlesOK' /\ ServerOK' /\ elem' \in BOOLEAN
      BY <1>4, DataUnchanged DEF vars
    <2>2. QED
      BY <1>4, <2>1
      DEF vars, DriverOK, OuterOK, driver, frame, outer, CountersLeft, HasCurrent
  <1>5. QED
    BY <1>1, <1>2, <1>3, <1>4

\* The steps of runWorkload and executeTxnGrid.
LEMMA WorkloadTInv ==
    ASSUME TInv,
           \/ ShouldTerminate \/ TimeUp \/ (\E t \in Workload : BeginTxn(t))
           \/ Attempt \/ ReprepareStep \/ FetchOrClose \/ TxnSucceeded
           \/ Retry \/ Failover \/ TxnFailed
    PROVE  TInv'
  <1> USE LimitAssumption DEF TInv, TypeOK
  <1>1. CASE ShouldTerminate \/ TimeUp
    <2>1. DataOK' /\ HandlesOK' /\ ServerOK' /\ elem' \in BOOLEAN
      BY <1>1, DataUnchanged DEF ShouldTerminate, TimeUp
    <2>2. QED
      BY <1>1, <2>1
      DEF ShouldTerminate, TimeUp, GoTo, DriverOK, PCs, OuterOK, frame, outer,
          CountersLeft, HasCurrent
  <1>2. ASSUME NEW t \in Workload, BeginTxn(t)
        PROVE  TInv'
    <2>1. HandlesOK' /\ ServerOK' /\ elem' \in BOOLEAN
      BY <1>2 DEF BeginTxn, HandlesOK, ServerOK, OuterOK, handles, server
    <2>2. call' \in Calling /\ ret' \in Results
      BY <1>2 DEF BeginTxn, frame
    <2>3. charge' \in Int /\ topup' \in Int
      BY <1>2 DEF BeginTxn, DataOK, amounts
    <2>4. DataOK'
      BY <1>2, <2>3 DEF BeginTxn, DataOK, handles
    <2>5. DriverOK' /\ CountersLeft' /\ HasCurrent'
      <3>1. /\ pc = "check" /\ pc' \in {"exit", "attempt"} /\ pos' = pos
            /\ cur' \in Workload \cup {"none"} /\ (pc' = "attempt" => cur' = t)
        BY <1>2 DEF BeginTxn, DriverOK
      <3>2. rtCount' \in 0..RetryLimit /\ foCount' \in 0..FailoverLimit
        BY <1>2 DEF BeginTxn, DriverOK
      <3>3. needReprepare' = FALSE \/ needReprepare' = needReprepare
        BY <1>2, Zenon DEF BeginTxn
      <3>4. needReprepare' \in BOOLEAN
        BY <3>3, Zenon DEF DriverOK
      <3>5. QED
        BY <3>1, <3>2, <3>4 DEF DriverOK, PCs, CountersLeft, HasCurrent
    <2>6. OuterOK'
      BY <1>2, <2>1 DEF BeginTxn, OuterOK, outer
    <2>7. QED
      BY <2>1, <2>2, <2>4, <2>5, <2>6
  <1>3. CASE Attempt
    <2>1. DataOK' /\ HandlesOK' /\ ServerOK' /\ elem' \in BOOLEAN
      BY <1>3, DataUnchanged DEF Attempt
    <2>2. ReprepPlan[1] \in PlanCall
      BY ReprepPlanType
    <2>3. cur \in Txns \cup {"none"}
      BY WorkloadTxns DEF DriverOK
    <2>4. call' \in Calling /\ ret' \in Results
      BY <1>3, <2>2, <2>3, CallType DEF Attempt, PlanCall, frame
    <2>5. DriverOK' /\ CountersLeft' /\ HasCurrent'
      <3>1. /\ pc' \in {"disconnect", "reprepare", "run"} /\ pos' \in Nat
            /\ pc' # "disconnect" => ~Exhausted
        BY <1>3 DEF Attempt, GoTo, DriverOK
      <3>2. UNCHANGED <<cur, needReprepare, rtCount, foCount>>
        BY <1>3 DEF Attempt, GoTo
      <3>3. pc = "attempt"
        BY <1>3 DEF Attempt
      <3>4. QED
        BY <3>1, <3>2, <3>3 DEF Exhausted, DriverOK, PCs, CountersLeft, HasCurrent
    <2>6. OuterOK'
      BY <1>3, <2>1 DEF Attempt, OuterOK, outer
    <2>7. QED
      BY <2>1, <2>4, <2>5, <2>6
  <1>4. CASE ReprepareStep
    <2>1. DataOK' /\ HandlesOK' /\ ServerOK' /\ elem' \in BOOLEAN
      BY <1>4, DataUnchanged DEF ReprepareStep
    <2>2. pos < Len(ReprepPlan) => ReprepPlan[pos + 1] \in PlanCall
      BY ReprepPlanType DEF DriverOK
    <2>3. cur \in Txns \cup {"none"}
      BY WorkloadTxns DEF DriverOK
    <2>4. call' \in Calling /\ ret' \in Results
      BY <1>4, <2>2, <2>3, CallType DEF ReprepareStep, PlanCall
    <2>5. DriverOK' /\ CountersLeft' /\ HasCurrent'
      <3>1. /\ pc = "reprepare" /\ pc' \in {"reprepare", "run"} /\ pos' \in Nat
            /\ UNCHANGED <<cur, rtCount, foCount>>
        BY <1>4 DEF ReprepareStep, DriverOK
      <3>2. needReprepare' \in BOOLEAN
        BY <1>4 DEF ReprepareStep, DriverOK
      <3>3. QED
        BY <3>1, <3>2 DEF DriverOK, PCs, CountersLeft, HasCurrent
    <2>6. OuterOK'
      BY <1>4, <2>1 DEF ReprepareStep, OuterOK, outer
    <2>7. QED
      BY <2>1, <2>4, <2>5, <2>6
  <1>5. CASE FetchOrClose
    <2>1. DataOK' /\ HandlesOK' /\ ServerOK' /\ elem' \in BOOLEAN
      BY <1>5, DataUnchanged DEF FetchOrClose
    <2>2. cur \in Txns \cup {"none"}
      BY WorkloadTxns DEF DriverOK
    <2>3. call' \in Calling /\ ret' \in Results
      BY <1>5, <2>2, CallType DEF FetchOrClose
    <2>4. QED
      BY <1>5, <2>1, <2>3
      DEF FetchOrClose, DriverOK, OuterOK, driver, outer, CountersLeft, HasCurrent
  <1>6. CASE TxnSucceeded
    <2>1. stats' \in [executed : Nat, updates : Nat, deletes : Nat, failovers : Nat]
      <3>1. RowsPurged \in Nat /\ (IF CountsUpdate(cur) THEN 1 ELSE 0) \in Nat
        BY DEF RowsPurged, DataOK
      <3>2. QED
        BY <1>6, <3>1 DEF TxnSucceeded, incrementCounters, DataOK
    <2>2. DataOK' /\ HandlesOK' /\ ServerOK'
      BY <1>6, <2>1
      DEF TxnSucceeded, DataOK, HandlesOK, ServerOK, amounts, handles, server
    <2>3. QED
      BY <1>6, <2>2
      DEF TxnSucceeded, GoTo, DriverOK, PCs, OuterOK, frame, outer, CountersLeft,
          HasCurrent
  <1>7. CASE Retry
    <2>1. DataOK' /\ HandlesOK' /\ ServerOK' /\ elem' \in BOOLEAN
      BY <1>7, DataUnchanged DEF Retry
    <2>2. DriverOK' /\ CountersLeft' /\ HasCurrent'
      BY <1>7
      DEF Retry, RetriesLeft, InTxn, DriverOK, PCs, CountersLeft, HasCurrent
    <2>3. QED
      BY <1>7, <2>1, <2>2 DEF Retry, OuterOK, frame, outer
  <1>8. CASE Failover
    <2>1. stats' \in [executed : Nat, updates : Nat, deletes : Nat, failovers : Nat]
      BY <1>8 DEF Failover, DataOK
    <2>2. DataOK' /\ HandlesOK' /\ ServerOK'
      BY <1>8, <2>1 DEF Failover, DataOK, HandlesOK, ServerOK, amounts, handles, server
    <2>3. DriverOK' /\ CountersLeft' /\ HasCurrent'
      BY <1>8 DEF Failover, InTxn, DriverOK, PCs, CountersLeft, HasCurrent
    <2>4. QED
      BY <1>8, <2>2, <2>3 DEF Failover, OuterOK, frame, outer
  <1>9. CASE TxnFailed
    <2>1. DataOK' /\ HandlesOK' /\ ServerOK' /\ elem' \in BOOLEAN
      BY <1>9, DataUnchanged DEF TxnFailed
    <2>2. QED
      BY <1>9, <2>1
      DEF TxnFailed, GoTo, DriverOK, PCs, OuterOK, frame, outer, CountersLeft,
          HasCurrent
  <1>10. QED
    BY <1>1, <1>2, <1>3, <1>4, <1>5, <1>6, <1>7, <1>8, <1>9

LEMMA NextTInv == TInv /\ [Next]_vars => TInv'
  <1> SUFFICES ASSUME TInv, [Next]_vars
               PROVE  TInv'
    OBVIOUS
  <1>1. CASE TxnFunction
    BY <1>1, TxnFunctionTInv
  <1>2. CASE ParseArgs \/ Connect \/ StartupStep \/ Connected \/ ClearDone
    BY <1>2, StartupTInv
  <1>3. CASE \/ ShouldTerminate \/ TimeUp \/ (\E t \in Workload : BeginTxn(t))
             \/ Attempt \/ ReprepareStep \/ FetchOrClose \/ TxnSucceeded
             \/ Retry \/ Failover \/ TxnFailed
    BY <1>3, WorkloadTInv
  <1>4. CASE dbDisconnect \/ freeContext \/ SignalArrives \/ UNCHANGED vars
    BY <1>4, EndTInv
  <1>5. QED
    BY <1>1, <1>2, <1>3, <1>4 DEF Next, Program, WorkloadGoesOn, Exited

\* Every reachable state is well typed: in particular a transaction is never
\* attempted more often than retryLimit and failoverLimit allow.
THEOREM TypeCorrect == Spec => []TypeOK
  <1>1. TInv => TypeOK
    BY DEF TInv
  <1>2. QED
    BY InitTInv, NextTInv, <1>1, PTL DEF Spec

-----------------------------------------------------------------------------
(* The scripts: only Charge and TopUp update balances or insert history    *)
(* rows, in their fourth and fifth calls, and commit with their sixth;     *)
(* only Purge and ClearHistory delete rows, with their first call, and     *)
(* commit with their last.                                                 *)

StmtNames == {"isGrid", "localElement", "countCustomers", "countAccounts",
              "query", "authorize", "connection"}

\* The calls that change no row.
QuietCall ==
    [op : {"select", "fetch", "next", "close", "commit"}, stmt : StmtNames]

LEMMA QuietCalls ==
    /\ \A s \in StmtNames : /\ Select(s) \in QuietCall /\ Fetch(s) \in QuietCall
                            /\ FetchNext(s) \in QuietCall /\ Close(s) \in QuietCall
    /\ Commit \in QuietCall
  BY DEF QuietCall, Select, Fetch, FetchNext, Close, Commit, OnConn, StmtNames

LEMMA QuietConcat ==
    ASSUME NEW s \in Seq(QuietCall), NEW u \in Seq(QuietCall)
    PROVE  s \o u \in Seq(QuietCall) /\ Len(s \o u) >= Len(s)
  <1>1. Len(u) \in Nat /\ Len(s) \in Nat
    OBVIOUS
  <1> HIDE DEF QuietCall
  <1>2. s \o u \in Seq(QuietCall) /\ Len(s \o u) = Len(s) + Len(u)
    BY ConcatProperties
  <1>3. QED
    BY <1>1, <1>2

LEMMA CommitReadQuiet == CommitRead \in Seq(QuietCall)
  BY QuietCalls DEF CommitRead

LEMMA GridInfoQuiet ==
    ASSUME NEW l \in BOOLEAN
    PROVE  /\ executeTxnUpdateGridInfo(l) \in Seq(QuietCall)
           /\ Len(executeTxnUpdateGridInfo(l)) >= 1
  <1> DEFINE head == <<Select("isGrid"), Fetch("isGrid"), Close("isGrid")>>
             body == IF l THEN <<Select("localElement"), Fetch("localElement"),
                                Close("localElement")>> ELSE << >>
             none == <<Select("isGrid"), Fetch("isGrid")>>
             all  == executeTxnUpdateGridInfo(l)
  <1>1. /\ head \in Seq(QuietCall) /\ Len(head) = 3
        /\ none \in Seq(QuietCall) /\ Len(none) = 2
    BY QuietCalls DEF StmtNames
  <1>2. body \in Seq(QuietCall)
    BY QuietCalls DEF StmtNames
  <1>3. /\ GridRow = "on" => all = head \o body \o CommitRead
        /\ GridRow = "off" => all = head
        /\ GridRow = "none" => all = none
    BY DEF executeTxnUpdateGridInfo
  <1> HIDE DEF head, body, none, all
  <1>4. head \o body \in Seq(QuietCall) /\ Len(head \o body) >= 3
    BY <1>1, <1>2, QuietConcat
  <1>5. /\ head \o body \o CommitRead \in Seq(QuietCall)
        /\ Len(head \o body \o CommitRead) >= Len(head \o body)
    BY <1>4, CommitReadQuiet, QuietConcat
  <1>6. all \in Seq(QuietCall) /\ Len(all) >= 1
    <2>1. CASE GridRow = "on"
      <3>1. Len(head \o body) \in Nat /\ Len(head \o body \o CommitRead) \in Nat
        BY <1>4, <1>5
      <3>2. Len(head \o body \o CommitRead) >= 1
        BY <1>4, <1>5, <3>1
      <3>3. all = head \o body \o CommitRead
        BY <2>1, <1>3
      <3>4. QED
        BY <1>5, <3>2, <3>3
    <2>2. CASE GridRow = "off"
      <3>1. all = head
        BY <2>2, <1>3, Zenon
      <3>2. QED
        BY <3>1, <1>1
    <2>3. CASE GridRow = "none"
      BY <2>3, <1>1, <1>3
    <2>4. QED
      BY <2>1, <2>2, <2>3, ConfigAssumption
  <1>7. QED
    BY <1>6 DEF all

LEMMA CountsQuiet ==
    executeTxnGetCounts \in Seq(QuietCall) /\ Len(executeTxnGetCounts) >= 1
  <1> DEFINE head == <<Select("countCustomers"), Fetch("countCustomers"),
                       Close("countCustomers"), Select("countAccounts"),
                       Fetch("countAccounts"), Close("countAccounts")>>
  <1>1. head \in Seq(QuietCall) /\ Len(head) = 6
    BY QuietCalls DEF StmtNames
  <1>2. executeTxnGetCounts = head \o CommitRead
    BY DEF executeTxnGetCounts
  <1> HIDE DEF head
  <1>3. head \o CommitRead \in Seq(QuietCall) /\ Len(head \o CommitRead) >= Len(head)
    BY <1>1, CommitReadQuiet, QuietConcat
  <1>4. Len(head \o CommitRead) \in Nat
    BY <1>3
  <1>5. QED
    BY <1>1, <1>2, <1>3, <1>4

LEMMA CloseQuiet ==
    ASSUME NEW s \in StmtNames
    PROVE  <<Close(s)>> \o CommitRead \in Seq(QuietCall)
           /\ Len(<<Close(s)>> \o CommitRead) >= 1
  BY QuietCalls, CommitReadQuiet

\* The functions that post to the ledger.
Posts(fn, t) == fn = "execute" /\ t \in {"charge", "topup"}

\* The functions that delete rows of the history.
Deletes(fn, t) == fn = "execute" /\ t \in {"purge", "clear"}

LEMMA OtherScripts ==
    ASSUME NEW fn \in {"execute", "fetch", "close"}, NEW t \in Txns, NEW l \in BOOLEAN,
           ~Posts(fn, t), ~Deletes(fn, t)
    PROVE  Script(fn, t, l) \in Seq(QuietCall)
  <1>1. CASE fn = "execute" /\ t = "ugi"
    BY <1>1, GridInfoQuiet DEF Script
  <1>2. CASE fn = "execute" /\ t = "counts"
    BY <1>2, CountsQuiet DEF Script
  <1>3. CASE fn = "execute" /\ t \in {"query", "authorize"}
    BY <1>3, QuietCalls
    DEF Script, StmtNames, executeTxnQuery, executeTxnAuthorize
  <1>4. CASE fn = "fetch" /\ t \in {"query", "authorize"}
    BY <1>4, QuietCalls DEF Script, StmtNames, fetchTxnQuery, fetchTxnAuthorize
  <1>5. CASE fn = "close" /\ t \in {"query", "authorize"}
    BY <1>5, CloseQuiet DEF Script, StmtNames, closeTxnQuery, closeTxnAuthorize
  <1>6. CASE fn # "execute" /\ t \notin {"query", "authorize"}
    BY <1>6 DEF Script
  <1>7. QED
    BY <1>1, <1>2, <1>3, <1>4, <1>5, <1>6 DEF Posts, Deletes, Txns, TxnTypes

LEMMA PostingScripts ==
    ASSUME NEW t \in {"charge", "topup"}, NEW l, NEW b, b = Script("execute", t, l)
    PROVE  /\ Len(b) = 6
           /\ \A k \in 1..6 : /\ (b[k].op = "update") <=> (k = 4)
                              /\ (b[k].op = "insert") <=> (k = 5)
                              /\ (b[k].op = "commit") <=> (k = 6)
                              /\ b[k].op \notin {"delete", "truncate", "rowcount", "next"}
  <1> USE DEF Select, Fetch, Close, Update, Insert, Commit
  <1>1. CASE t = "charge"
    <2>1. b = executeTxnCharge
      BY <1>1 DEF Script
    <2>2. QED
      BY <2>1 DEF executeTxnCharge
  <1>2. CASE t = "topup"
    <2>1. b = executeTxnTopup
      BY <1>2 DEF Script
    <2>2. QED
      BY <2>1 DEF executeTxnTopup
  <1>3. QED
    BY <1>1, <1>2

LEMMA DeletingScripts ==
    ASSUME NEW t \in {"purge", "clear"}, NEW l, NEW b, b = Script("execute", t, l)
    PROVE  /\ t = "purge" => /\ Len(b) = 3
                             /\ b[1].op = "delete" /\ b[2].op = "rowcount"
                             /\ b[3].op = "commit"
           /\ t = "clear" => /\ Len(b) = 2
                             /\ b[1].op = "truncate" /\ b[2].op = "commit"
  <1> USE DEF DeleteOld, DeleteAll, RowCount, Commit
  <1>1. CASE t = "purge"
    <2>1. b = executeTxnPurge
      BY <1>1 DEF Script
    <2>2. QED
      BY <1>1, <2>1 DEF executeTxnPurge
  <1>2. CASE t = "clear"
    <2>1. b = executeTxnClearHistory
      BY <1>2 DEF Script
    <2>2. QED
      BY <1>2, <2>1 DEF executeTxnClearHistory
  <1>3. QED
    BY <1>1, <1>2

LEMMA ScriptNotEmpty ==
    ASSUME NEW t \in Txns, NEW l \in BOOLEAN
    PROVE  /\ Len(Script("execute", t, l)) >= 1
           /\ HasFetch(t) => /\ Len(Script("fetch", t, l)) >= 1
                             /\ Len(Script("close", t, l)) >= 1
  <1>1. CASE t = "ugi"
    BY <1>1, GridInfoQuiet DEF Script, HasFetch
  <1>2. CASE t = "counts"
    BY <1>2, CountsQuiet DEF Script, HasFetch
  <1>3. CASE t \in {"clear", "purge"}
    BY <1>3 DEF Script, HasFetch, executeTxnClearHistory, executeTxnPurge
  <1>4. CASE t \in {"query", "authorize"}
    BY <1>4, CloseQuiet
    DEF Script, StmtNames, executeTxnQuery, executeTxnAuthorize, fetchTxnQuery,
        fetchTxnAuthorize, closeTxnQuery, closeTxnAuthorize
  <1>5. CASE t \in {"charge", "topup"}
    <2>1. Len(Script("execute", t, l)) = 6
      BY <1>5, PostingScripts
    <2>2. QED
      BY <1>5, <2>1 DEF HasFetch
  <1>6. QED
    BY <1>1, <1>2, <1>3, <1>4, <1>5 DEF Txns, TxnTypes

-----------------------------------------------------------------------------
(* The invariant.                                                          *)

Functions == {"execute", "fetch", "close"}

\* A transaction function is somewhere in its script.
InScript ==
    ~Idle /\ call.fn # "init" =>
        call.fn \in Functions /\ call.txn \in Txns /\ call.at <= Len(Body)

\* No function is active while the driver is between transactions.
IdleOutside ==
    pc \in {"args", "connect", "connected", "check", "attempt", "disconnect",
           "cleanup", "exit"} => Idle

\* The balance is updated and the history row is still to come.
HalfPosted == Posts(call.fn, call.txn) /\ call.at = 5

WorkInv ==
    IF HalfPosted
    THEN work.upd = work.ins + 1 /\ work.bal = work.hist + Amount
    ELSE work.upd = work.ins /\ work.bal = work.hist

LInv == InScript /\ IdleOutside /\ WorkInv /\ Ledger

LEMMA InitLInv == Init => LInv
  BY DEF Init, LInv, InScript, IdleOutside, WorkInv, HalfPosted, Ledger, NoWork, Idle

\* What the script of the active function does at each of its calls.
LEMMA BodyCalls ==
    ASSUME TypeOK, InScript, ~Idle, call.fn # "init"
    PROVE  /\ call.at \in 1..Len(Body)
           /\ Op.op = "update" <=> Posts(call.fn, call.txn) /\ call.at = 4
           /\ Op.op = "insert" <=> HalfPosted
           /\ Posts(call.fn, call.txn) =>
                 Len(Body) = 6 /\ (Op.op = "commit" <=> call.at = 6)
           /\ Op.op \in {"delete", "truncate"} <=>
                 Deletes(call.fn, call.txn) /\ call.at = 1
           /\ Op.op = "rowcount" <=>
                 Deletes(call.fn, call.txn) /\ call.txn = "purge" /\ call.at = 2
           /\ Deletes(call.fn, call.txn) =>
                 /\ Len(Body) = IF call.txn = "purge" THEN 3 ELSE 2
                 /\ Op.op = "commit" <=> call.at = Len(Body)
           /\ Op.op = "next" => ~Posts(call.fn, call.txn) /\ ~Deletes(call.fn, call.txn)
  <1> DEFINE l == stmt["localElement"] # "null"
  <1>1. l \in BOOLEAN
    OBVIOUS
  <1>2. call.fn \in Functions /\ call.txn \in Txns
    BY DEF InScript
  <1>3. Body = Script(call.fn, call.txn, l)
    BY DEF Body
  <1> HIDE DEF l
  <1>4. call.at \in Nat /\ call.at # 0 /\ call.at <= Len(Body)
    BY DEF InScript, Idle, TypeOK, Calling
  <1>5. CASE ~Posts(call.fn, call.txn) /\ ~Deletes(call.fn, call.txn)
    <2>1. Body \in Seq(QuietCall)
      BY <1>1, <1>2, <1>3, <1>5, OtherScripts DEF Functions
    <2>2. Len(Body) \in Nat
      BY <2>1
    <2>3. call.at \in 1..Len(Body)
      BY <1>4, <2>2
    <2>4. Op \in QuietCall
      BY <2>1, <2>3 DEF Op
    <2>5. Op.op \notin {"update", "insert", "delete", "truncate", "rowcount"}
      BY <2>4 DEF QuietCall
    <2>6. QED
      BY <1>5, <2>3, <2>5 DEF HalfPosted
  <1>6. CASE Posts(call.fn, call.txn)
    <2>1. /\ Len(Body) = 6
          /\ \A k \in 1..6 : /\ (Body[k].op = "update") <=> (k = 4)
                             /\ (Body[k].op = "insert") <=> (k = 5)
                             /\ (Body[k].op = "commit") <=> (k = 6)
                             /\ Body[k].op \notin {"delete", "truncate", "rowcount",
                                                  "next"}
      <3>1. Body = Script("execute", call.txn, l) /\ call.txn \in {"charge", "topup"}
        BY <1>3, <1>6, Zenon DEF Posts
      <3>2. QED
        BY <3>1, PostingScripts
    <2>2. call.at \in 1..6
      BY <1>4, <2>1
    <2>3. /\ (Op.op = "update") <=> (call.at = 4)
          /\ (Op.op = "insert") <=> (call.at = 5)
          /\ (Op.op = "commit") <=> (call.at = 6)
          /\ Op.op \notin {"delete", "truncate", "rowcount", "next"}
      BY <2>1, <2>2 DEF Op
    <2>4. ~Deletes(call.fn, call.txn)
      BY <1>6 DEF Posts, Deletes
    <2>5. QED
      BY <1>6, <2>1, <2>2, <2>3, <2>4 DEF HalfPosted
  <1>7. CASE Deletes(call.fn, call.txn)
    <2>1. /\ Body = Script("execute", call.txn, l)
          /\ call.txn \in {"purge", "clear"}
      BY <1>3, <1>7, Zenon DEF Deletes
    <2>2. /\ call.txn = "purge" => /\ Len(Body) = 3 /\ Body[1].op = "delete"
                                  /\ Body[2].op = "rowcount" /\ Body[3].op = "commit"
          /\ call.txn = "clear" => /\ Len(Body) = 2 /\ Body[1].op = "truncate"
                                  /\ Body[2].op = "commit"
      BY <2>1, DeletingScripts
    <2>3. /\ call.at \in 1..Len(Body)
          /\ Len(Body) = IF call.txn = "purge" THEN 3 ELSE 2
          /\ (Op.op \in {"delete", "truncate"}) <=> (call.at = 1)
          /\ (Op.op = "rowcount") <=> (call.txn = "purge" /\ call.at = 2)
          /\ (Op.op = "commit") <=> (call.at = Len(Body))
          /\ Op.op \notin {"update", "insert", "next"}
      <3>1. CASE call.txn = "purge"
        <4>1. /\ Len(Body) = 3 /\ Body[1].op = "delete"
              /\ Body[2].op = "rowcount" /\ Body[3].op = "commit"
          BY <2>2, <3>1, Zenon
        <4>2. call.at \in 1..3
          BY <1>4, <4>1
        <4>3. QED
          BY <3>1, <4>1, <4>2 DEF Op
      <3>2. CASE call.txn = "clear"
        <4>1. /\ Len(Body) = 2 /\ Body[1].op = "truncate" /\ Body[2].op = "commit"
          BY <2>2, <3>2, Zenon
        <4>2. call.at \in 1..2
          BY <1>4, <4>1
        <4>3. QED
          BY <3>2, <4>1, <4>2 DEF Op
      <3>3. QED
        BY <2>1, <3>1, <3>2
    <2>4. ~Posts(call.fn, call.txn)
      BY <1>7 DEF Posts, Deletes
    <2>5. QED
      BY <1>7, <2>3, <2>4 DEF HalfPosted
  <1>8. QED
    BY <1>5, <1>6, <1>7

LEMMA ReturnIdle == ASSUME TypeOK, NEW r, Return(r)
                    PROVE  Idle'
  BY DEF Return, Idle, TypeOK, Calling

LEMMA AdvanceInScript ==
    ASSUME TypeOK, InScript, ~Idle, call.fn # "init", Advance, stmt' = stmt
    PROVE  /\ InScript'
           /\ ~Idle' => /\ call'.fn = call.fn /\ call'.txn = call.txn
                       /\ call'.at = call.at + 1
           /\ call.at < Len(Body) => ~Idle'
  <1>1. CASE call.at < Len(Body)
    <2>1. /\ call' = [call EXCEPT !.at = @ + 1]
          /\ call.at \in 1..Len(Body)
      BY <1>1, BodyCalls DEF Advance
    <2>2. /\ call'.fn = call.fn /\ call'.txn = call.txn /\ call'.at = call.at + 1
          /\ call'.at <= Len(Body) /\ call'.at # 0
      BY <1>1, <2>1 DEF TypeOK, Calling
    <2>3. Body' = Body
      BY <2>2, Zenon DEF Body
    <2>4. QED
      BY <2>2, <2>3 DEF InScript, Idle
  <1>2. CASE ~(call.at < Len(Body))
    <2>1. Idle'
      BY <1>2, ReturnIdle DEF Advance
    <2>2. QED
      BY <1>2, <2>1 DEF InScript
  <1>3. QED
    BY <1>1, <1>2

\* A call that posts nothing is made, and followed, with the work balanced.
LEMMA QuietAdvance ==
    ASSUME TypeOK, InScript, ~Idle, call.fn # "init", Advance, stmt' = stmt,
           Op.op \notin {"update", "insert"}
    PROVE  InScript' /\ ~HalfPosted /\ ~HalfPosted'
  <1>1. /\ ~HalfPosted /\ ~(Posts(call.fn, call.txn) /\ call.at = 4)
        /\ call.at \in 1..Len(Body)
    BY BodyCalls
  <1>2. HalfPosted' => ~Idle'
    BY DEF HalfPosted, Idle
  <1>3. QED
    BY <1>1, <1>2, AdvanceInScript DEF HalfPosted, Posts

LEMMA NoneHalfPosted == ASSUME Idle' PROVE ~HalfPosted'
  BY DEF Idle, HalfPosted

LEMMA ErrorPathLInv ==
    ASSUME TInv, LInv, ~Idle, NEW class, NEW moved, NEW silent, NEW kept \in BOOLEAN, NEW left,
           kept => ~HalfPosted,
           ErrorPath(class, moved, silent, kept, left)
    PROVE  LInv'
  <1>1. Idle' /\ pc' = pc
    BY ReturnIdle DEF ErrorPath, TInv, driver
  <1>2. work' = NoWork
    BY DEF ErrorPath, RolledBack
  <1>3. Ledger'
    <2>1. CASE kept
      <3>1. /\ work.upd = work.ins /\ work.bal = work.hist
            /\ db' = Add(db, work)
        BY <2>1 DEF LInv, WorkInv, ErrorPath
      <3>2. QED
        BY <3>1 DEF LInv, Ledger, Add
    <2>2. CASE ~kept
      BY <2>2 DEF ErrorPath, LInv, Ledger
    <2>3. QED
      BY <2>1, <2>2
  <1>4. WorkInv'
    BY <1>1, <1>2, NoneHalfPosted DEF WorkInv, NoWork
  <1>5. QED
    BY <1>1, <1>3, <1>4 DEF LInv, InScript, IdleOutside

LEMMA TxnFunctionLInv ==
    ASSUME TInv, LInv, TxnFunction
    PROVE  LInv'
  <1>0. TypeOK /\ InScript
    BY DEF TInv, LInv
  <1>1. ~Idle /\ pc' = pc
    <2>1. ~Idle
      BY DEF TxnFunction, InitSucceeds, InitFails, ExecuteSelect, FetchRow, FetchNextRow,
             CloseCursor, ExecuteUpdate, ExecuteInsert, ExecuteDelete, GetRowCount,
             ODBCCommit, CallFails, Calls
    <2>2. pc' = pc
      BY TxnFunctionFrame DEF driver
    <2>3. QED
      BY <2>1, <2>2
  <1>2. IdleOutside'
    BY <1>1 DEF LInv, IdleOutside
  <1>3. CASE InitSucceeds
    <2>1. Idle' /\ UNCHANGED server
      BY <1>0, <1>3, ReturnIdle DEF InitSucceeds
    <2>2. ~HalfPosted
      BY <1>3 DEF InitSucceeds, HalfPosted, Posts
    <2>3. QED
      BY <1>2, <2>1, <2>2, NoneHalfPosted DEF LInv, InScript, WorkInv, Ledger, server
  <1>4. CASE InitFails
    BY <1>1, <1>4, ErrorPathLInv DEF InitFails
  <1>5. CASE ExecuteSelect \/ FetchRow \/ CloseCursor \/ GetRowCount
    <2>1. /\ call.fn # "init" /\ Advance /\ stmt' = stmt
          /\ Op.op \notin {"update", "insert"}
          /\ UNCHANGED <<work, db>>
      BY <1>5
      DEF ExecuteSelect, FetchRow, CloseCursor, GetRowCount, Calls, handles, server
    <2>2. InScript' /\ ~HalfPosted /\ ~HalfPosted'
      BY <1>0, <1>1, <2>1, QuietAdvance
    <2>3. QED
      BY <1>2, <2>1, <2>2 DEF LInv, WorkInv, Ledger
  <1>6. CASE FetchNextRow
    <2>1. Idle' /\ UNCHANGED <<work, db>>
      BY <1>0, <1>6, ReturnIdle DEF FetchNextRow, server
    <2>2. ~HalfPosted
      BY <1>0, <1>6, BodyCalls DEF FetchNextRow, Calls
    <2>3. QED
      BY <1>2, <2>1, <2>2, NoneHalfPosted DEF LInv, InScript, WorkInv, Ledger
  <1>7. CASE ExecuteUpdate
    <2>1. /\ call.fn # "init" /\ Advance /\ stmt' = stmt /\ Op.op = "update"
          /\ db' = db /\ work' = Add(work, BalanceUpdate(Amount))
      BY <1>7 DEF ExecuteUpdate, Calls, handles
    <2>2. /\ ~HalfPosted /\ Posts(call.fn, call.txn) /\ call.at = 4
          /\ Len(Body) = 6
      BY <1>0, <1>1, <2>1, BodyCalls DEF HalfPosted
    <2>3. InScript' /\ HalfPosted' /\ call'.txn = call.txn
      BY <1>0, <1>1, <2>1, <2>2, AdvanceInScript DEF HalfPosted, Posts
    <2>4. work'.upd = work'.ins + 1 /\ work'.bal = work'.hist + Amount
      BY <2>1, <2>2, AmountType
      DEF LInv, WorkInv, Add, BalanceUpdate, TInv, TypeOK, ServerOK, Effects
    <2>5. Amount' = Amount
      BY <2>3, TxnFunctionFrame DEF Amount, amounts
    <2>6. QED
      BY <1>2, <2>1, <2>3, <2>4, <2>5 DEF LInv, WorkInv, Ledger
  <1>8. CASE ExecuteInsert
    <2>1. /\ call.fn # "init" /\ Advance /\ stmt' = stmt /\ Op.op = "insert"
          /\ db' = db /\ work' = Add(work, HistoryRow(Amount))
      BY <1>8 DEF ExecuteInsert, Calls, handles
    <2>2. HalfPosted
      BY <1>0, <1>1, <2>1, BodyCalls
    <2>3. InScript' /\ ~HalfPosted'
      BY <1>0, <1>1, <2>1, <2>2, AdvanceInScript DEF HalfPosted, Idle
    <2>4. work'.upd = work'.ins /\ work'.bal = work'.hist
      BY <2>1, <2>2, AmountType
      DEF LInv, WorkInv, Add, HistoryRow, TInv, TypeOK, ServerOK, Effects
    <2>5. QED
      BY <1>2, <2>1, <2>3, <2>4 DEF LInv, WorkInv, Ledger
  <1>9. CASE ExecuteDelete
    <2>1. /\ call.fn # "init" /\ Advance /\ stmt' = stmt
          /\ Op.op \notin {"update", "insert"} /\ db' = db
      BY <1>9 DEF ExecuteDelete, Calls, handles
    <2>2. InScript' /\ ~HalfPosted /\ ~HalfPosted'
      BY <1>0, <1>1, <2>1, QuietAdvance
    <2>3. PICK n \in 0..RowsSeen : work' = [work EXCEPT !.del = @ + n]
      BY <1>9 DEF ExecuteDelete
    <2>4. /\ work'.upd = work.upd /\ work'.ins = work.ins
          /\ work'.bal = work.bal /\ work'.hist = work.hist
      BY <2>3 DEF TInv, TypeOK, ServerOK, Effects
    <2>5. QED
      BY <1>2, <2>1, <2>2, <2>4 DEF LInv, WorkInv, Ledger
  <1>10. CASE ODBCCommit
    <2>1. /\ call.fn # "init" /\ Advance /\ stmt' = stmt
          /\ Op.op \notin {"update", "insert"}
          /\ db' = Add(db, work) /\ work' = NoWork
      BY <1>10 DEF ODBCCommit, Calls, handles
    <2>2. InScript' /\ ~HalfPosted /\ ~HalfPosted'
      BY <1>0, <1>1, <2>1, QuietAdvance
    <2>3. work.upd = work.ins /\ work.bal = work.hist
      BY <2>2 DEF LInv, WorkInv
    <2>4. QED
      BY <1>2, <2>1, <2>2, <2>3 DEF LInv, WorkInv, Ledger, Add, NoWork
  <1>11. CASE CallFails
    <2>1. PICK class \in ErrorClass, moved \in BOOLEAN, silent \in BOOLEAN,
               kept \in BOOLEAN :
                 /\ kept => Op.op = "commit"
                 /\ ErrorPath(class, moved, silent, kept, stmt)
      BY <1>11 DEF CallFails
    <2>2. kept => ~HalfPosted
      BY <1>0, <1>11, <2>1, BodyCalls DEF CallFails
    <2>3. QED
      BY <1>1, <2>1, <2>2, ErrorPathLInv
  <1>12. QED
    BY <1>3, <1>4, <1>5, <1>6, <1>7, <1>8, <1>9, <1>10, <1>11 DEF TxnFunction

\* Entering a function leaves the work alone and starts at its first call.
LEMMA EnterLInv ==
    ASSUME TInv, LInv, Idle, NEW f \in {"init", "execute", "fetch", "close"},
           NEW t \in Txns, f \in {"fetch", "close"} => HasFetch(t), Enter(f, t),
           stmt' = stmt
    PROVE  InScript' /\ ~HalfPosted /\ ~HalfPosted'
  <1>1. call'.fn = f /\ call'.txn = t /\ call'.at \in {0, 1}
    BY EnterType
  <1>2. ~HalfPosted /\ ~HalfPosted'
    BY <1>1 DEF HalfPosted, Idle
  <1>3. CASE f = "init"
    BY <1>1, <1>2, <1>3 DEF InScript
  <1>4. CASE f # "init"
    <2> DEFINE l == stmt["localElement"] # "null"
    <2>1. l \in BOOLEAN
      OBVIOUS
    <2>2. Body' = Script(f, t, l)
      BY <1>1, Zenon DEF Body
    <2> HIDE DEF l
    <2>3. Len(Script(f, t, l)) >= 1
      BY <1>4, <2>1, ScriptNotEmpty
    <2>4. 1 <= Len(Body') /\ 0 <= Len(Body')
      BY <2>2, <2>3
    <2>5. QED
      BY <1>1, <1>2, <1>4, <2>4 DEF InScript, Functions
  <1>5. QED
    BY <1>3, <1>4

\* The steps that only move the driver on.
LEMMA FrameLInv ==
    ASSUME LInv, UNCHANGED <<frame, stmt, work, db>>,
           HalfPosted => Amount' = Amount
    PROVE  InScript' /\ WorkInv' /\ Ledger'
  <1>1. call' = call /\ stmt' = stmt
    BY DEF frame
  <1>2. Body' = Body
    BY <1>1, Zenon DEF Body
  <1>3. QED
    BY <1>1, <1>2 DEF LInv, InScript, Idle, WorkInv, HalfPosted, Ledger

LEMMA EnterWork ==
    ASSUME LInv, ~HalfPosted, ~HalfPosted', UNCHANGED <<work, db>>
    PROVE  WorkInv' /\ Ledger'
  BY DEF LInv, WorkInv, Ledger

LEMMA DriverLInv ==
    ASSUME TInv, LInv,
           \/ ParseArgs \/ StartupStep \/ Connect \/ Connected \/ ClearDone
           \/ ShouldTerminate \/ TimeUp \/ (\E t \in Workload : BeginTxn(t))
           \/ Attempt \/ ReprepareStep \/ FetchOrClose \/ TxnSucceeded
           \/ Retry \/ Failover \/ TxnFailed
    PROVE  LInv'
  <1>1. CASE ParseArgs \/ ClearDone \/ ShouldTerminate \/ TimeUp \/ TxnSucceeded \/ Retry
             \/ Failover \/ TxnFailed
    <2>1. UNCHANGED <<frame, stmt, work, db>> /\ UNCHANGED amounts
      BY <1>1
      DEF ParseArgs, ClearDone, ShouldTerminate, TimeUp, TxnSucceeded, Retry, Failover,
          TxnFailed, handles, server
    <2>2. Idle /\ Idle'
      BY <1>1, <2>1
      DEF ParseArgs, ClearDone, ShouldTerminate, TimeUp, TxnSucceeded, Retry, Failover,
          TxnFailed, InTxn, LInv, IdleOutside, Idle, frame
    <2>3. Amount' = Amount
      BY <2>1 DEF Amount, amounts, frame
    <2>4. QED
      BY <2>1, <2>2, <2>3, FrameLInv DEF LInv, IdleOutside
  <1>2. ASSUME NEW t \in Workload, BeginTxn(t)
        PROVE  LInv'
    <2>1. UNCHANGED <<frame, stmt, work, db>>
      BY <1>2 DEF BeginTxn, handles, server
    <2>2. Idle /\ Idle'
      BY <1>2, <2>1 DEF BeginTxn, LInv, IdleOutside, Idle, frame
    <2>3. ~HalfPosted
      BY <2>2 DEF HalfPosted, Idle
    <2>4. QED
      BY <2>1, <2>2, <2>3, FrameLInv DEF LInv, IdleOutside
  <1>3. CASE Connect
    <2>1. Idle /\ UNCHANGED <<stmt, work, db>>
      BY <1>3 DEF Connect, LInv, IdleOutside, handles
    <2>2. StartupPlan[1] \in PlanCall
      BY StartupPlanType
    <2>3. CASE Enter(StartupPlan[1].fn, StartupPlan[1].txn) /\ pc' = "startup"
      <3>1. InScript' /\ ~HalfPosted /\ ~HalfPosted'
        BY <2>1, <2>2, <2>3, EnterLInv DEF PlanCall
      <3>2. QED
        BY <2>1, <2>3, <3>1, EnterWork DEF LInv, IdleOutside
    <2>4. CASE UNCHANGED frame
      <3>1. Idle' /\ ~HalfPosted
        BY <2>1, <2>4 DEF Idle, HalfPosted, frame
      <3>2. QED
        BY <2>1, <2>4, <3>1, FrameLInv DEF LInv, IdleOutside
    <2>5. QED
      BY <1>3, <2>3, <2>4 DEF Connect, Cleanup, frame
  <1>4. CASE StartupStep
    <2>1. Idle /\ UNCHANGED <<stmt, work, db>>
      BY <1>4 DEF StartupStep, handles, server
    <2>2. CASE /\ pos < Len(StartupPlan) /\ pc' = pc /\ pc = "startup"
               /\ Enter(StartupPlan[pos + 1].fn, StartupPlan[pos + 1].txn)
      <3>1. StartupPlan[pos + 1] \in PlanCall
        BY <2>2, StartupPlanType DEF TInv, TypeOK, DriverOK
      <3>2. InScript' /\ ~HalfPosted /\ ~HalfPosted'
        BY <2>1, <2>2, <3>1, EnterLInv DEF PlanCall
      <3>3. QED
        BY <2>1, <2>2, <3>2, EnterWork DEF LInv, IdleOutside
    <2>3. CASE UNCHANGED frame
      <3>1. Idle' /\ ~HalfPosted
        BY <2>1, <2>3 DEF Idle, HalfPosted, frame
      <3>2. QED
        BY <2>1, <2>3, <3>1, FrameLInv DEF LInv, IdleOutside
    <2>4. QED
      BY <1>4, <2>2, <2>3 DEF StartupStep, frame
  <1>5. CASE Connected
    <2>1. Idle /\ UNCHANGED <<stmt, work, db>>
      BY <1>5 DEF Connected, LInv, IdleOutside, handles, server
    <2>2. CASE Enter("execute", "clear") /\ pc' = "clear"
      <3>1. InScript' /\ ~HalfPosted /\ ~HalfPosted'
        BY <2>1, <2>2, EnterLInv DEF Txns
      <3>2. QED
        BY <2>1, <2>2, <3>1, EnterWork DEF LInv, IdleOutside
    <2>3. CASE UNCHANGED frame
      <3>1. Idle' /\ ~HalfPosted
        BY <2>1, <2>3 DEF Idle, HalfPosted, frame
      <3>2. QED
        BY <2>1, <2>3, <3>1, FrameLInv DEF LInv, IdleOutside
    <2>4. QED
      BY <1>5, <2>2, <2>3 DEF Connected, GoTo, frame
  <1>6. CASE Attempt
    <2>1. Idle /\ UNCHANGED <<stmt, work, db>>
      BY <1>6 DEF Attempt, LInv, IdleOutside, handles, server
    <2>2. cur \in Txns /\ ReprepPlan[1] \in PlanCall
      BY <1>6, WorkloadTxns, ReprepPlanType DEF TInv, HasCurrent, Attempt
    <2>3. CASE pc' = "reprepare" /\ Enter(ReprepPlan[1].fn, ReprepPlan[1].txn)
      <3>1. InScript' /\ ~HalfPosted /\ ~HalfPosted'
        BY <2>1, <2>2, <2>3, EnterLInv DEF PlanCall
      <3>2. QED
        BY <2>1, <2>3, <3>1, EnterWork DEF LInv, IdleOutside
    <2>4. CASE pc' = "run" /\ Enter("execute", cur)
      <3>1. InScript' /\ ~HalfPosted /\ ~HalfPosted'
        BY <2>1, <2>2, <2>4, EnterLInv
      <3>2. QED
        BY <2>1, <2>4, <3>1, EnterWork DEF LInv, IdleOutside
    <2>5. CASE UNCHANGED frame
      <3>1. Idle' /\ ~HalfPosted
        BY <2>1, <2>5 DEF Idle, HalfPosted, frame
      <3>2. QED
        BY <2>1, <2>5, <3>1, FrameLInv DEF LInv, IdleOutside
    <2>6. QED
      BY <1>6, <2>3, <2>4, <2>5 DEF Attempt, GoTo
  <1>7. CASE ReprepareStep
    <2>1. Idle /\ pc = "reprepare" /\ UNCHANGED <<stmt, work, db>>
      BY <1>7 DEF ReprepareStep, handles, server
    <2>2. cur \in Txns
      BY <2>1, WorkloadTxns DEF TInv, HasCurrent
    <2>3. CASE /\ pos < Len(ReprepPlan) /\ pc' = pc
               /\ Enter(ReprepPlan[pos + 1].fn, ReprepPlan[pos + 1].txn)
      <3>1. ReprepPlan[pos + 1] \in PlanCall
        BY <2>3, ReprepPlanType DEF TInv, TypeOK, DriverOK
      <3>2. InScript' /\ ~HalfPosted /\ ~HalfPosted'
        BY <2>1, <2>3, <3>1, EnterLInv DEF PlanCall
      <3>3. QED
        BY <2>1, <2>3, <3>2, EnterWork DEF LInv, IdleOutside
    <2>4. CASE pc' = "run" /\ Enter("execute", cur)
      <3>1. InScript' /\ ~HalfPosted /\ ~HalfPosted'
        BY <2>1, <2>2, <2>4, EnterLInv
      <3>2. QED
        BY <2>1, <2>4, <3>1, EnterWork DEF LInv, IdleOutside
    <2>5. QED
      BY <1>7, <2>3, <2>4 DEF ReprepareStep
  <1>8. CASE FetchOrClose
    <2>1. /\ Idle /\ pc = "run" /\ pc' = pc /\ HasFetch(cur)
          /\ UNCHANGED <<stmt, work, db>>
      BY <1>8 DEF FetchOrClose, driver, handles, server
    <2>2. cur \in Txns
      BY <2>1, WorkloadTxns DEF TInv, HasCurrent
    <2>3. Enter("fetch", cur) \/ Enter("close", cur)
      BY <1>8 DEF FetchOrClose
    <2>4. InScript' /\ ~HalfPosted /\ ~HalfPosted'
      BY <2>1, <2>2, <2>3, EnterLInv
    <2>5. QED
      BY <2>1, <2>4, EnterWork DEF LInv, IdleOutside
  <1>9. QED
    BY <1>1, <1>2, <1>3, <1>4, <1>5, <1>6, <1>7, <1>8

LEMMA EndLInv ==
    ASSUME TInv, LInv, dbDisconnect \/ freeContext \/ SignalArrives \/ UNCHANGED vars
    PROVE  LInv'
  <1>1. CASE dbDisconnect \/ SignalArrives \/ UNCHANGED vars
    <2>1. UNCHANGED <<frame, stmt, work, db>> /\ UNCHANGED amounts
      BY <1>1 DEF dbDisconnect, SignalArrives, vars, handles, server
    <2>2. Amount' = Amount
      BY <2>1 DEF Amount, amounts, frame
    <2>3. IdleOutside'
      BY <1>1, <2>1
      DEF dbDisconnect, Cleanup, GoTo, SignalArrives, vars, driver, LInv,
          IdleOutside, Idle, frame
    <2>4. QED
      BY <2>1, <2>2, <2>3, FrameLInv DEF LInv
  <1>2. CASE freeContext
    <2>1. /\ Idle /\ Idle' /\ pc' = "exit" /\ db' = db
          /\ work' = NoWork \/ work' = work
      BY <1>2 DEF freeContext, GoTo, LInv, IdleOutside, Idle, frame, RolledBack
    <2>2. ~HalfPosted /\ ~HalfPosted'
      BY <2>1, NoneHalfPosted DEF HalfPosted, Idle
    <2>3. WorkInv'
      BY <2>1, <2>2 DEF LInv, WorkInv, NoWork
    <2>4. QED
      BY <2>1, <2>3 DEF LInv, InScript, IdleOutside, Ledger
  <1>3. QED
    BY <1>1, <1>2

LEMMA NextLInv == TInv /\ LInv /\ [Next]_vars => LInv'
  <1> SUFFICES ASSUME TInv, LInv, [Next]_vars
               PROVE  LInv'
    OBVIOUS
  <1>1. CASE TxnFunction
    BY <1>1, TxnFunctionLInv
  <1>2. CASE \/ ParseArgs \/ StartupStep \/ Connect \/ Connected \/ ClearDone
             \/ ShouldTerminate \/ TimeUp \/ (\E t \in Workload : BeginTxn(t))
             \/ Attempt \/ ReprepareStep \/ FetchOrClose \/ TxnSucceeded
             \/ Retry \/ Failover \/ TxnFailed
    BY <1>2, DriverLInv
  <1>3. CASE dbDisconnect \/ freeContext \/ SignalArrives \/ UNCHANGED vars
    BY <1>3, EndLInv
  <1>4. QED
    BY <1>1, <1>2, <1>3 DEF Next, Program, WorkloadGoesOn, Exited

\* A committed balance change always has its history row and the balances
\* agree with the history, for every workload, every retry and failover limit
\* and any errors of the ODBC calls of GSTxnCharge.c and GSTxnTopup.c.
THEOREM LedgerSafe == Spec => []Ledger
  <1>1. LInv => Ledger
    BY DEF LInv
  <1>2. Init => TInv /\ LInv
    BY InitTInv, InitLInv
  <1>3. TInv /\ LInv /\ [Next]_vars => TInv' /\ LInv'
    BY NextTInv, NextLInv
  <1>4. QED
    BY <1>1, <1>2, <1>3, PTL DEF Spec

-----------------------------------------------------------------------------
(* The summary agrees with the database.  Accounting is not inductive: it  *)
(* has to know what the open transaction will add when it commits.  CInv   *)
(* says which function the driver is running, that the open transaction of *)
(* Charge and TopUp holds exactly one posting from its fifth call on, that *)
(* of Purge and ClearHistory the rows deleted since their second, any      *)
(* other nothing, and that Purge's rowCount is what it deleted; FatalEnds  *)
(* that a posting reported as failed is the last one.                      *)

RunsCurrent ==
    /\ pc = "run" => /\ call.txn = cur
                     /\ call.fn = "execute" \/ HasFetch(cur)
    /\ pc = "clear" => call.txn = "clear"
    /\ pc \in {"startup", "reprepare"} =>
          call.fn = "init" \/ call.txn \in {"ugi", "counts"}

\* The balance is updated and not yet committed.
Posting == Posts(call.fn, call.txn) /\ call.at \in {5, 6}

WorkShape ==
    /\ work.upd = IF Posting THEN 1 ELSE 0
    /\ work.bal = IF Posting THEN Amount ELSE 0
    /\ work.del # 0 => Deletes(call.fn, call.txn) /\ call.at >= 2

\* The amounts BeginTxn leaves for the transactions that post.
AmountsKnown ==
    /\ topup = 0
    /\ cur = "charge" /\ pc \in {"attempt", "reprepare", "run"} =>
          charge \in {-c : c \in ChargeCents}

RowsCounted ==
    call.fn = "execute" /\ call.txn = "purge" /\ call.at = 3 => rowCount = work.del

\* Deletions committed but not yet counted.
ToCount == IF pc = "run" /\ Idle /\ ret = "success" /\ cur = "purge" /\ rowCount > 0
           THEN rowCount ELSE 0

DeletesCounted == stats.deletes + ToCount <= db.del

PostsCounted ==
    /\ stats.updates + Landed <= db.upd
    /\ db.upd <= stats.updates + Landed + InDoubt

\* A posting reported as failed is the last function of the workload.
FatalEnds == PostingFailed => pc \in {"run", "disconnect", "cleanup", "exit"}

CInv == /\ RunsCurrent /\ WorkShape /\ AmountsKnown
        /\ RowsCounted /\ DeletesCounted /\ PostsCounted

LEMMA InitCInv == Init => CInv
  <1> SUFFICES ASSUME Init
               PROVE  CInv
    OBVIOUS
  <1> USE DEF Init, NoWork
  <1>1. RunsCurrent /\ AmountsKnown /\ RowsCounted
    BY DEF RunsCurrent, AmountsKnown, RowsCounted
  <1>2. WorkShape
    BY DEF WorkShape, Posting, Posts
  <1>3. Landed = 0 /\ ToCount = 0 /\ InDoubt = 0
    BY DEF Landed, ToCount, InDoubt, HiddenByFailover, PostingFailed
  <1>4. DeletesCounted /\ PostsCounted
    BY <1>3 DEF DeletesCounted, PostsCounted
  <1>5. QED
    BY <1>1, <1>2, <1>4 DEF CInv

LEMMA CInvImpliesAccounting == TypeOK /\ CInv => Accounting
  BY DEF TypeOK, DataOK, ServerOK, Effects, CInv, DeletesCounted, PostsCounted, ToCount,
         Accounting

\* A function never changes which function it is.
LEMMA SameFunction ==
    ASSUME TypeOK, TxnFunction
    PROVE  ~Idle /\ call'.fn = call.fn /\ call'.txn = call.txn
  <1>1. ASSUME NEW r, Return(r)
        PROVE  call'.fn = call.fn /\ call'.txn = call.txn
    BY <1>1 DEF Return, TypeOK, Calling
  <1>2. ASSUME Advance
        PROVE  call'.fn = call.fn /\ call'.txn = call.txn
    BY <1>1, <1>2 DEF Advance, TypeOK, Calling
  <1>3. ~Idle
    BY DEF TxnFunction, InitSucceeds, InitFails, ExecuteSelect, FetchRow, FetchNextRow,
           CloseCursor, ExecuteUpdate, ExecuteInsert, ExecuteDelete, GetRowCount,
           ODBCCommit, CallFails, Calls
  <1>4. (\E r : Return(r)) \/ Advance
    BY DEF TxnFunction, InitSucceeds, InitFails, ExecuteSelect, FetchRow, FetchNextRow,
           CloseCursor, ExecuteUpdate, ExecuteInsert, ExecuteDelete, GetRowCount,
           ODBCCommit, CallFails, ErrorPath
  <1>5. QED
    BY <1>1, <1>2, <1>3, <1>4

LEMMA ActiveDriver ==
    ASSUME LInv, ~Idle
    PROVE  pc \notin {"args", "connect", "connected", "check", "attempt", "disconnect",
                      "cleanup", "exit"}
  BY DEF LInv, IdleOutside

\* Only the workload posts, and only it runs Purge.
LEMMA WhoPosts ==
    ASSUME TInv, LInv, CInv, ~Idle, Posts(call.fn, call.txn) \/ call.txn = "purge",
           call.fn # "init"
    PROVE  pc = "run" /\ cur = call.txn /\ call.fn = "execute"
  <1>1. pc \in {"startup", "clear", "reprepare", "run"}
    BY ActiveDriver DEF TInv, TypeOK, DriverOK, PCs
  <1>2. call.txn \in {"charge", "topup", "purge"}
    BY DEF Posts
  <1>3. pc = "run" /\ cur = call.txn
    BY <1>1, <1>2 DEF CInv, RunsCurrent
  <1>4. QED
    BY <1>2, <1>3 DEF CInv, RunsCurrent, HasFetch

\* While a function is active nothing waits to be counted.
LEMMA ActiveCounts ==
    ASSUME TypeOK, ~Idle
    PROVE  /\ Landed = 0 /\ ToCount = 0
           /\ InDoubt = IF CommitInDoubt THEN stats.failovers ELSE 0
  BY DEF Landed, ToCount, InDoubt, HiddenByFailover, PostingFailed, TypeOK, DataOK

\* A step of a function that commits nothing and does not complete a posting
\* or a purge leaves the counts as they are.
LEMMA NothingCommitted ==
    ASSUME TInv, CInv, ~Idle, UNCHANGED <<stats, db>>, Landed' = 0, ToCount' = 0
    PROVE  DeletesCounted' /\ PostsCounted'
  <1>1. /\ Landed = 0 /\ ToCount = 0
        /\ InDoubt = IF CommitInDoubt THEN stats.failovers ELSE 0
    BY ActiveCounts DEF TInv
  <1>2. InDoubt' >= InDoubt
    BY <1>1 DEF InDoubt, HiddenByFailover, PostingFailed, TInv, TypeOK, DataOK
  <1>3. InDoubt \in Nat /\ InDoubt' \in Nat
    BY <1>1 DEF InDoubt, HiddenByFailover, PostingFailed, TInv, TypeOK, DataOK
  <1>4. QED
    BY <1>1, <1>2, <1>3
    DEF CInv, DeletesCounted, PostsCounted, TInv, TypeOK, DataOK, ServerOK, Effects

\* Before its last call a posting or a purge does not succeed.
LEMMA NotLast ==
    ASSUME TInv, LInv, CInv, TxnFunction, Idle' => call.fn = "init" \/ ret' # "success" \/
              (~Posts(call.fn, call.txn) /\ call.txn # "purge")
    PROVE  Landed' = 0 /\ ToCount' = 0
  <1>1. /\ ~Idle /\ call'.txn = call.txn /\ pc' = pc /\ cur' = cur
    BY SameFunction, TxnFunctionFrame DEF TInv, driver
  <1>2. ASSUME pc = "run", cur \in {"charge", "topup", "purge"}
        PROVE  call.fn = "execute" /\ call.txn = cur
    BY <1>2 DEF CInv, RunsCurrent, HasFetch
  <1>3. Idle' /\ ret' = "success" /\ pc = "run" => cur \notin {"charge", "topup", "purge"}
    BY <1>2 DEF Posts
  <1>4. QED
    BY <1>1, <1>3 DEF Landed, ToCount

LEMMA Stepping ==
    ASSUME TypeOK, InScript, ~Idle, call.fn # "init", Advance
    PROVE  /\ call'.fn = call.fn /\ call'.txn = call.txn
           /\ \/ call.at < Len(Body) /\ call'.at = call.at + 1 /\ ret' = ret
              \/ call.at = Len(Body) /\ call'.at = 0 /\ ret' = "success"
  <1>1. call.at \in 1..Len(Body)
    BY BodyCalls
  <1>2. CASE call.at < Len(Body)
    BY <1>2 DEF Advance, TypeOK, Calling
  <1>3. CASE ~(call.at < Len(Body))
    <2>1. call' = [call EXCEPT !.at = 0] /\ ret' = "success"
      BY <1>3 DEF Advance, Return
    <2>2. Len(Body) \in Nat /\ call.at = Len(Body)
      BY <1>1, <1>3
    <2>3. QED
      BY <2>1, <2>2 DEF TypeOK, Calling
  <1>4. QED
    BY <1>2, <1>3

\* What the open transaction holds at each kind of call.
LEMMA WorkAt ==
    ASSUME TypeOK, InScript, WorkShape, ~Idle, call.fn # "init"
    PROVE  /\ Op.op \notin {"insert", "commit"} => work.upd = 0 /\ work.bal = 0
           /\ Op.op \notin {"rowcount", "commit"} => work.del = 0
           /\ Op.op \in {"update", "insert"} => work.del = 0
  <1>1. Posting => Op.op \in {"insert", "commit"}
    BY BodyCalls DEF Posting, HalfPosted
  <1>2. ASSUME Deletes(call.fn, call.txn), call.at >= 2
        PROVE  Op.op \in {"rowcount", "commit"}
    <2>1. /\ call.at \in 1..Len(Body)
          /\ Len(Body) = IF call.txn = "purge" THEN 3 ELSE 2
          /\ Op.op = "commit" <=> call.at = Len(Body)
          /\ Op.op = "rowcount" <=> call.txn = "purge" /\ call.at = 2
      BY <1>2, BodyCalls
    <2>2. CASE call.txn = "purge"
      BY <1>2, <2>1, <2>2
    <2>3. CASE call.txn # "purge"
      BY <1>2, <2>1, <2>3
    <2>4. QED
      BY <2>2, <2>3
  <1>3. QED
    BY <1>1, <1>2 DEF WorkShape

\* A function that has returned has left nothing in the open transaction.
LEMMA IdleWork ==
    ASSUME WorkShape, ~Posting, ~(Deletes(call.fn, call.txn) /\ call.at >= 2),
           work' = work \/ work' = NoWork, call'.at \in {0, 1}
    PROVE  WorkShape' /\ RowsCounted'
  <1>1. work'.upd = 0 /\ work'.bal = 0 /\ work'.del = 0
    BY DEF WorkShape, NoWork
  <1>2. ~Posting' /\ call'.at # 3
    BY DEF Posting
  <1>3. QED
    BY <1>1, <1>2 DEF WorkShape, RowsCounted

LEMMA TxnFunctionWork ==
    ASSUME TInv, LInv, CInv, TxnFunction
    PROVE  WorkShape' /\ RowsCounted'
  <1>0. /\ TypeOK /\ InScript /\ WorkShape /\ ~Idle
        /\ call'.fn = call.fn /\ call'.txn = call.txn
    BY SameFunction DEF TInv, LInv, CInv
  <1>1. CASE InitSucceeds
    <2>1. call.fn = "init" /\ work' = work /\ call'.at = 0
      BY <1>0, <1>1 DEF InitSucceeds, Return, server, TypeOK, Calling
    <2>2. ~Posting /\ ~Deletes(call.fn, call.txn)
      BY <2>1 DEF Posting, Posts, Deletes
    <2>3. QED
      BY <1>0, <2>1, <2>2, IdleWork
  <1>2. CASE InitFails \/ CallFails
    <2>1. call'.at = 0 /\ work' = NoWork
      BY <1>0, <1>2
      DEF InitFails, CallFails, ErrorPath, Return, RolledBack, TypeOK, Calling
    <2>2. ~Posting' /\ call'.at # 3
      BY <2>1 DEF Posting
    <2>3. QED
      BY <2>1, <2>2 DEF WorkShape, RowsCounted, NoWork
  <1>3. CASE FetchNextRow
    <2>1. /\ call.fn # "init" /\ Op.op = "next" /\ work' = work /\ call'.at = 0
      BY <1>0, <1>3 DEF FetchNextRow, Calls, Return, server, TypeOK, Calling
    <2>2. ~Posting /\ ~Deletes(call.fn, call.txn)
      BY <1>0, <2>1, BodyCalls DEF Posting
    <2>3. QED
      BY <1>0, <2>1, <2>2, IdleWork
  <1>4. CASE ExecuteSelect \/ FetchRow \/ CloseCursor
    <2>1. /\ call.fn # "init" /\ Op.op \in {"select", "fetch", "close"} /\ work' = work
          /\ Advance
      BY <1>4 DEF ExecuteSelect, FetchRow, CloseCursor, Calls, server
    <2>2. work.upd = 0 /\ work.bal = 0 /\ work.del = 0
      BY <1>0, <2>1, WorkAt
    <2>3. /\ Posts(call.fn, call.txn) => call.at \notin {4, 5}
          /\ Deletes(call.fn, call.txn) /\ call.txn = "purge" => call.at # 2
      BY <1>0, <2>1, BodyCalls DEF HalfPosted
    <2>4. call'.at = 0 \/ call'.at = call.at + 1
      BY <1>0, <2>1, Stepping
    <2>5. ~Posting'
      BY <1>0, <2>3, <2>4 DEF Posting, TypeOK, Calling
    <2>6. RowsCounted'
      BY <1>0, <2>3, <2>4 DEF RowsCounted, Deletes, TypeOK, Calling
    <2>7. QED
      BY <2>1, <2>2, <2>5, <2>6 DEF WorkShape
  <1>5. CASE GetRowCount
    <2>1. /\ call.fn # "init" /\ Op.op = "rowcount" /\ work' = work
          /\ rowCount' = work.del /\ Advance
      BY <1>5 DEF GetRowCount, Calls, server
    <2>2. /\ Deletes(call.fn, call.txn) /\ call.txn = "purge" /\ call.at = 2
          /\ Len(Body) = 3
      BY <1>0, <2>1, BodyCalls
    <2>3. call'.at = 3 /\ Deletes(call'.fn, call'.txn)
      BY <1>0, <2>1, <2>2, Stepping
    <2>4. work.upd = 0 /\ work.bal = 0
      BY <1>0, <2>1, WorkAt
    <2>5. ~Posting'
      BY <2>3 DEF Posting, Posts, Deletes
    <2>6. QED
      BY <2>1, <2>3, <2>4, <2>5 DEF WorkShape, RowsCounted
  <1>6. CASE ExecuteUpdate
    <2>1. /\ call.fn # "init" /\ Op.op = "update" /\ Advance
          /\ work' = Add(work, BalanceUpdate(Amount))
      BY <1>6 DEF ExecuteUpdate, Calls
    <2>2. Posts(call.fn, call.txn) /\ call.at = 4 /\ Len(Body) = 6
      BY <1>0, <2>1, BodyCalls
    <2>3. call'.at = 5 /\ Posts(call'.fn, call'.txn)
      BY <1>0, <2>1, <2>2, Stepping
    <2>4. work.upd = 0 /\ work.bal = 0 /\ work.del = 0
      BY <1>0, <2>1, WorkAt
    <2>5. work'.upd = 1 /\ work'.bal = Amount /\ work'.del = 0
      BY <1>0, <2>1, <2>4, AmountType DEF Add, BalanceUpdate
    <2>6. Amount' = Amount
      BY <1>0, TxnFunctionFrame DEF Amount, amounts
    <2>7. Posting' /\ call'.at # 3
      BY <2>3 DEF Posting
    <2>8. QED
      BY <2>5, <2>6, <2>7 DEF WorkShape, RowsCounted
  <1>7. CASE ExecuteInsert
    <2>1. /\ call.fn # "init" /\ Op.op = "insert" /\ Advance
          /\ work' = Add(work, HistoryRow(Amount))
      BY <1>7 DEF ExecuteInsert, Calls
    <2>2. Posts(call.fn, call.txn) /\ call.at = 5 /\ Len(Body) = 6
      BY <1>0, <2>1, BodyCalls DEF HalfPosted
    <2>3. call'.at = 6 /\ Posts(call'.fn, call'.txn)
      BY <1>0, <2>1, <2>2, Stepping
    <2>4. work.upd = 1 /\ work.bal = Amount /\ work.del = 0
      <3>1. work.del = 0
        BY <1>0, <2>1, WorkAt
      <3>2. Posting
        BY <2>2 DEF Posting
      <3>3. QED
        BY <1>0, <3>1, <3>2 DEF WorkShape
    <2>5. work'.upd = 1 /\ work'.bal = Amount /\ work'.del = 0
      BY <1>0, <2>1, <2>4, AmountType DEF Add, HistoryRow
    <2>6. Amount' = Amount
      BY <1>0, TxnFunctionFrame DEF Amount, amounts
    <2>7. Posting' /\ call'.at # 3
      BY <2>3 DEF Posting
    <2>8. QED
      BY <2>5, <2>6, <2>7 DEF WorkShape, RowsCounted
  <1>8. CASE ExecuteDelete
    <2>1. call.fn # "init" /\ Op.op \in {"delete", "truncate"} /\ Advance
      BY <1>8 DEF ExecuteDelete, Calls
    <2>2. Deletes(call.fn, call.txn) /\ call.at = 1 /\ call.at # Len(Body)
      BY <1>0, <2>1, BodyCalls
    <2>3. call'.at = 2 /\ Deletes(call'.fn, call'.txn)
      <3>1. call'.at = call.at + 1
        BY <1>0, <2>1, <2>2, Stepping
      <3>2. QED
        BY <1>0, <2>2, <3>1
    <2>4. work.upd = 0 /\ work.bal = 0
      BY <1>0, <2>1, WorkAt
    <2>5. PICK n \in 0..RowsSeen : work' = [work EXCEPT !.del = @ + n]
      BY <1>8 DEF ExecuteDelete
    <2>6. work'.upd = 0 /\ work'.bal = 0
      BY <1>0, <2>4, <2>5 DEF TypeOK, ServerOK, Effects
    <2>7. ~Posting'
      BY <2>3 DEF Posting
    <2>8. QED
      BY <2>3, <2>6, <2>7 DEF WorkShape, RowsCounted
  <1>9. CASE ODBCCommit
    <2>1. call.fn # "init" /\ Op.op = "commit" /\ Advance /\ work' = NoWork
      BY <1>9 DEF ODBCCommit, Calls
    <2>2. /\ Posts(call.fn, call.txn) => call.at \notin {4, 5}
          /\ Deletes(call.fn, call.txn) /\ call.txn = "purge" => call.at # 2
      BY <1>0, <2>1, BodyCalls DEF HalfPosted
    <2>3. call'.at = 0 \/ call'.at = call.at + 1
      BY <1>0, <2>1, Stepping
    <2>4. ~Posting'
      BY <1>0, <2>2, <2>3 DEF Posting, TypeOK, Calling
    <2>5. RowsCounted'
      BY <1>0, <2>2, <2>3 DEF RowsCounted, Deletes, TypeOK, Calling
    <2>6. QED
      BY <2>1, <2>4, <2>5 DEF WorkShape, NoWork
  <1>10. QED
    BY <1>1, <1>2, <1>3, <1>4, <1>5, <1>6, <1>7, <1>8, <1>9 DEF TxnFunction

\* A COMMIT, or a failover that hides one, adds the open transaction to the
\* database; the posting it may hold waits to be counted, or is in doubt.
LEMMA TxnFunctionCounts ==
    ASSUME TInv, LInv, CInv, TxnFunction
    PROVE  DeletesCounted' /\ PostsCounted'
  <1>0. /\ TypeOK /\ InScript /\ WorkShape /\ ~Idle
        /\ call'.fn = call.fn /\ call'.txn = call.txn
    BY SameFunction DEF TInv, LInv, CInv
  <1>1. /\ pc' = pc /\ cur' = cur /\ stats' = stats
        /\ Landed = 0 /\ ToCount = 0
        /\ InDoubt = IF CommitInDoubt THEN stats.failovers ELSE 0
    BY <1>0, ActiveCounts, TxnFunctionFrame DEF driver
  <1>2. /\ stats.updates <= db.upd /\ db.upd <= stats.updates + InDoubt
        /\ stats.deletes <= db.del
    BY <1>0, <1>1
    DEF CInv, DeletesCounted, PostsCounted, TypeOK, DataOK, ServerOK, Effects
  <1>3. /\ work.upd \in Nat /\ work.del \in Nat /\ db.upd \in Nat /\ db.del \in Nat
        /\ stats.updates \in Nat /\ stats.deletes \in Nat /\ stats.failovers \in Nat
        /\ rowCount \in Int
    BY <1>0 DEF TypeOK, DataOK, ServerOK, Effects
  <1>4. CASE InitSucceeds
    <2>1. call.fn = "init" /\ UNCHANGED <<stats, db>>
      BY <1>1, <1>4 DEF InitSucceeds, server
    <2>2. QED
      BY <1>0, <2>1, NotLast, NothingCommitted
  <1>5. CASE InitFails
    <2>1. call.fn = "init" /\ UNCHANGED <<stats, db>>
      BY <1>1, <1>5 DEF InitFails, ErrorPath
    <2>2. QED
      BY <1>0, <2>1, NotLast, NothingCommitted
  <1>6. CASE FetchNextRow
    <2>1. call.fn # "init" /\ Op.op = "next" /\ UNCHANGED <<stats, db>>
      BY <1>1, <1>6 DEF FetchNextRow, Calls, server
    <2>2. ~Posts(call.fn, call.txn) /\ ~Deletes(call.fn, call.txn)
      BY <1>0, <2>1, BodyCalls
    <2>3. call.txn # "purge"
      BY <1>0, <2>1, <2>2, WhoPosts DEF Deletes
    <2>4. QED
      BY <1>0, <2>1, <2>2, <2>3, NotLast, NothingCommitted
  <1>7. CASE \/ ExecuteSelect \/ FetchRow \/ CloseCursor \/ ExecuteUpdate
             \/ ExecuteInsert \/ ExecuteDelete \/ GetRowCount
    <2>1. call.fn # "init" /\ Op.op # "commit" /\ Advance /\ UNCHANGED <<stats, db>>
      BY <1>1, <1>7
      DEF ExecuteSelect, FetchRow, CloseCursor, ExecuteUpdate, ExecuteInsert,
          ExecuteDelete, GetRowCount, Calls, server
    <2>2. Posts(call.fn, call.txn) \/ Deletes(call.fn, call.txn) =>
             call.at # Len(Body)
      BY <1>0, <2>1, BodyCalls
    <2>3. Idle' => call.at = Len(Body)
      BY <1>0, <2>1, Stepping DEF Idle, TypeOK, Calling
    <2>4. call.txn = "purge" => Deletes(call.fn, call.txn)
      BY <1>0, <2>1, WhoPosts DEF Deletes
    <2>5. QED
      BY <1>0, <2>1, <2>2, <2>3, <2>4, NotLast, NothingCommitted
  <1>8. CASE ODBCCommit
    <2>1. /\ call.fn # "init" /\ Op.op = "commit" /\ Advance
          /\ db' = Add(db, work) /\ rowCount' = rowCount
      BY <1>8 DEF ODBCCommit, Calls, handles
    <2>2. db'.upd = db.upd + work.upd /\ db'.del = db.del + work.del
      BY <2>1 DEF Add
    <2>3. CASE Posts(call.fn, call.txn)
      <3>1. call.at = Len(Body) /\ call.at = 6
        BY <1>0, <2>1, <2>3, BodyCalls
      <3>2. Idle' /\ ret' = "success"
        BY <1>0, <2>1, <3>1, Stepping DEF Idle, TypeOK, Calling
      <3>3. pc = "run" /\ cur = call.txn /\ cur \in {"charge", "topup"}
        BY <1>0, <2>1, <2>3, WhoPosts DEF Posts
      <3>4. work.upd = 1
        BY <1>0, <2>3, <3>1 DEF WorkShape, Posting
      <3>5. Landed' = 1 /\ ToCount' = 0 /\ InDoubt' = InDoubt
        BY <1>1, <1>3, <3>2, <3>3 DEF Landed, ToCount, InDoubt, HiddenByFailover, PostingFailed
      <3>6. InDoubt \in Nat
        BY <1>1, <1>3
      <3>7. QED
        BY <1>1, <1>2, <1>3, <2>2, <3>4, <3>5, <3>6 DEF DeletesCounted, PostsCounted
    <2>4. CASE ~Posts(call.fn, call.txn)
      <3>1. work.upd = 0
        BY <1>0, <2>4 DEF WorkShape, Posting
      <3>2. Landed' = 0
        <4>1. ASSUME pc = "run", cur \in {"charge", "topup"}
              PROVE  FALSE
          BY <2>4, <4>1 DEF CInv, RunsCurrent, HasFetch, Posts
        <4>2. QED
          BY <1>1, <4>1 DEF Landed
      <3>3. InDoubt' >= InDoubt /\ InDoubt \in Nat /\ InDoubt' \in Nat
        BY <1>1, <1>3 DEF InDoubt, HiddenByFailover, PostingFailed
      <3>4. PostsCounted'
        BY <1>1, <1>2, <1>3, <2>2, <3>1, <3>2, <3>3 DEF PostsCounted
      <3>5. ToCount' \in Nat /\ ToCount' <= work.del
        <4>1. CASE call.txn = "purge"
          <5>1. Deletes(call.fn, call.txn)
            BY <1>0, <2>1, <4>1, WhoPosts DEF Deletes
          <5>2. call.at = 3
            BY <1>0, <2>1, <4>1, <5>1, BodyCalls
          <5>3. rowCount = work.del
            BY <4>1, <5>1, <5>2 DEF CInv, RowsCounted, Deletes
          <5>4. QED
            BY <1>3, <2>1, <5>3 DEF ToCount
        <4>2. CASE call.txn # "purge"
          <5>1. pc = "run" => cur # "purge"
            BY <4>2 DEF CInv, RunsCurrent
          <5>2. ToCount' = 0
            BY <1>1, <5>1 DEF ToCount
          <5>3. QED
            BY <1>3, <5>2
        <4>3. QED
          BY <4>1, <4>2
      <3>6. QED
        BY <1>1, <1>2, <1>3, <2>2, <3>4, <3>5 DEF DeletesCounted
    <2>5. QED
      BY <2>3, <2>4
  <1>9. CASE CallFails
    <2>1. PICK class \in ErrorClass, moved \in BOOLEAN, silent \in BOOLEAN,
               kept \in BOOLEAN :
                 /\ kept => Op.op = "commit" /\ class # "retryable"
                 /\ kept /\ class = "failover" => CommitInDoubt
                 /\ ErrorPath(class, moved, silent, kept, stmt)
      BY <1>9 DEF CallFails
    <2>2. /\ Idle' /\ ret' = class /\ ret' # "success"
          /\ kept => class # "retryable"
          /\ db' = IF kept THEN Add(db, work) ELSE db
      BY <1>0, <2>1, ReturnIdle DEF ErrorPath, Return, ErrorClass
    <2>3. Landed' = 0 /\ ToCount' = 0
      BY <2>1, <2>2 DEF Landed, ToCount, ErrorPath, Return, ErrorClass
    <2>4. CASE ~kept
      BY <1>0, <1>1, <2>2, <2>3, <2>4, NothingCommitted
    <2>5. CASE kept
      <3>1. db'.upd = db.upd + work.upd /\ db'.del = db.del + work.del
        BY <2>2, <2>5 DEF Add
      <3>2. work.upd = 0 \/ (work.upd = 1 /\ pc = "run")
        BY <1>0, <1>9, WhoPosts DEF WorkShape, Posting, CallFails
      <3>3. /\ (ret' = "failover" /\ CommitInDoubt) \/ ret' = "fatal"
            /\ Idle'
        BY <2>1, <2>2, <2>5 DEF ErrorClass
      <3>4. InDoubt' >= InDoubt + work.upd /\ InDoubt \in Nat /\ InDoubt' \in Nat
        <4>1. work.upd = 1 => call'.fn = "execute" /\ call'.txn \in {"charge", "topup"}
          BY <1>0, <1>9, WhoPosts DEF WorkShape, Posting, Posts, CallFails
        <4>2. QED
          BY <1>1, <1>3, <3>2, <3>3, <4>1 DEF InDoubt, HiddenByFailover, PostingFailed
      <3>5. PostsCounted'
        BY <1>1, <1>2, <1>3, <2>3, <3>1, <3>2, <3>4 DEF PostsCounted
      <3>6. QED
        BY <1>1, <1>2, <1>3, <2>3, <3>1, <3>5 DEF DeletesCounted
    <2>6. QED
      BY <2>4, <2>5
  <1>10. QED
    BY <1>4, <1>5, <1>6, <1>7, <1>8, <1>9 DEF TxnFunction

LEMMA TxnFunctionCInv ==
    ASSUME TInv, LInv, CInv, TxnFunction
    PROVE  CInv'
  <1>1. call'.fn = call.fn /\ call'.txn = call.txn
    BY SameFunction DEF TInv
  <1>2. UNCHANGED <<pc, cur, charge, topup>>
    BY TxnFunctionFrame DEF driver, amounts
  <1>3. RunsCurrent' /\ AmountsKnown'
    BY <1>1, <1>2 DEF CInv, RunsCurrent, AmountsKnown
  <1>4. QED
    BY <1>3, TxnFunctionWork, TxnFunctionCounts DEF CInv

\* dbConnect executes only the grid information and the counts; a
\* re-preparation only the grid information.
LEMMA StartupExecutes ==
    ASSUME NEW i \in 1..Len(StartupPlan)
    PROVE  StartupPlan[i].fn = "init" \/ StartupPlan[i].txn \in {"ugi", "counts"}
  <1> DEFINE head == <<[fn |-> "init", txn |-> "ugi"], [fn |-> "execute", txn |-> "ugi"],
                       [fn |-> "init", txn |-> "counts"],
                       [fn |-> "execute", txn |-> "counts"]>>
             tail == [j \in 1..(Len(AppTxns) - 2) |-> [fn |-> "init", txn |-> AppTxns[j + 2]]]
             Plain(c) == c.fn = "init" \/ c.txn \in {"ugi", "counts"}
  <1>1. StartupPlan = head \o tail
    BY DEF StartupPlan
  <1>2. Len(AppTxns) - 2 \in Nat
    BY AppTxnsType
  <1>3. head \in Seq(PlanCall) /\ tail \in Seq(PlanCall)
    BY <1>2, AppTxnsType DEF PlanCall, Txns, TxnTypes
  <1>4. Len(head) = 4 /\ \A j \in 1..4 : Plain(head[j])
    OBVIOUS
  <1>5. Len(tail) = Len(AppTxns) - 2 /\ \A j \in 1..Len(tail) : Plain(tail[j])
    BY <1>2
  <1> HIDE DEF head, tail, Plain
  <1>6. Plain((head \o tail)[i])
    <2>1. i \in 1..(Len(head) + Len(tail))
      BY <1>1, <1>3, ConcatProperties
    <2>2. CASE i <= Len(head)
      <3>1. (head \o tail)[i] = head[i]
        BY <1>3, <2>1, <2>2, ConcatProperties
      <3>2. i \in 1..4
        BY <1>4, <2>1, <2>2
      <3>3. QED
        BY <1>4, <3>1, <3>2
    <2>3. CASE i > Len(head)
      <3>1. (head \o tail)[i] = tail[i - Len(head)]
        BY <1>3, <2>1, <2>3, ConcatProperties
      <3>2. i - Len(head) \in 1..Len(tail)
        BY <1>3, <2>1, <2>3
      <3>3. QED
        BY <1>5, <3>1, <3>2
    <2>4. QED
      BY <1>3, <2>1, <2>2, <2>3
  <1>7. QED
    BY <1>1, <1>6 DEF Plain

LEMMA ReprepExecutes ==
    ASSUME NEW i \in 1..Len(ReprepPlan)
    PROVE  ReprepPlan[i].fn = "init" \/ ReprepPlan[i].txn \in {"ugi", "counts"}
  <1> DEFINE head == [j \in 1..Len(AppTxns) |-> [fn |-> "init", txn |-> AppTxns[j]]]
             tail == <<[fn |-> "execute", txn |-> "ugi"]>>
  <1>1. ReprepPlan = head \o tail
    BY DEF ReprepPlan
  <1>2. head \in Seq(PlanCall) /\ tail \in Seq(PlanCall) /\ Len(tail) = 1
    BY AppTxnsType DEF PlanCall, Txns, TxnTypes
  <1>3. Len(head) = Len(AppTxns) /\ \A j \in 1..Len(head) : head[j].fn = "init"
    BY AppTxnsType
  <1>4. tail[1].txn = "ugi"
    OBVIOUS
  <1> HIDE DEF head, tail
  <1>5. i \in 1..(Len(head) + 1)
    BY <1>1, <1>2, ConcatProperties
  <1>6. CASE i <= Len(head)
    BY <1>1, <1>2, <1>3, <1>5, <1>6
  <1>7. CASE i = Len(head) + 1
    BY <1>1, <1>2, <1>4, <1>7
  <1>8. QED
    BY <1>2, <1>5, <1>6, <1>7

\* A step of the driver enters a function or moves on after one; the open
\* transaction is empty and stays so.
LEMMA DriverWork ==
    ASSUME CInv, Idle, work' = work \/ work' = NoWork, call'.at \in {0, 1}
    PROVE  WorkShape' /\ RowsCounted'
  <1>1. ~Posting /\ ~(Deletes(call.fn, call.txn) /\ call.at >= 2)
    BY DEF Idle, Posting
  <1>2. QED
    BY <1>1, IdleWork DEF CInv

LEMMA DriverCounts ==
    ASSUME TInv, CInv, UNCHANGED <<stats, db>>,
           Landed = 0, Landed' = 0, ToCount' = 0,
           ~(pc = "run" /\ Idle /\ ret = "failover"), PostingFailed => PostingFailed'
    PROVE  DeletesCounted' /\ PostsCounted'
  <1>1. InDoubt' >= InDoubt /\ InDoubt \in Nat /\ InDoubt' \in Nat
    BY DEF InDoubt, HiddenByFailover, PostingFailed, TInv, TypeOK, DataOK
  <1>2. ToCount \in Nat
    BY DEF ToCount, TInv, TypeOK, DataOK
  <1>3. QED
    BY <1>1, <1>2
    DEF CInv, DeletesCounted, PostsCounted, TInv, TypeOK, DataOK, ServerOK, Effects

\* Entering an execute function, nothing has succeeded yet.
LEMMA EnterExecute ==
    ASSUME NEW t, Enter("execute", t)
    PROVE  ret' # "success"
  BY DEF Enter, Entry

LEMMA NotRunning ==
    ASSUME pc # "run"
    PROVE  Landed = 0 /\ ToCount = 0
  BY DEF Landed, ToCount

LEMMA NotRunningNext ==
    ASSUME pc' # "run" \/ ret' # "success" \/ HasFetch(cur')
    PROVE  Landed' = 0 /\ ToCount' = 0
  BY DEF Landed, ToCount, HasFetch

\* The start of the program, up to the workload.
LEMMA StartupCInv ==
    ASSUME TInv, LInv, CInv, FatalEnds,
           ParseArgs \/ Connect \/ StartupStep \/ Connected \/ ClearDone
    PROVE  CInv'
  <1>1. /\ Idle /\ pc # "run" /\ pc' \notin {"run", "attempt", "reprepare"}
        /\ UNCHANGED <<amounts, stats, work, db, rowCount>> /\ ~PostingFailed
    BY DEF ParseArgs, Connect, StartupStep, Connected, ClearDone, GoTo, Cleanup, LInv,
           IdleOutside, handles, server, FatalEnds
  <1>2. DeletesCounted' /\ PostsCounted'
    BY <1>1, NotRunning, NotRunningNext, DriverCounts
  <1>3. AmountsKnown'
    BY <1>1 DEF CInv, AmountsKnown, amounts
  <1>4. CASE UNCHANGED frame /\ pc' \notin {"startup", "clear"}
    <2>1. call'.at \in {0, 1}
      BY <1>1, <1>4 DEF frame, Idle
    <2>2. RunsCurrent'
      BY <1>1, <1>4 DEF RunsCurrent
    <2>3. QED
      BY <1>1, <1>2, <1>3, <2>1, <2>2, DriverWork DEF CInv
  <1>5. ASSUME NEW c \in PlanCall, Enter(c.fn, c.txn),
               pc' = "startup", c.fn = "init" \/ c.txn \in {"ugi", "counts"}
        PROVE  CInv'
    <2>1. call'.at \in {0, 1} /\ call'.fn = c.fn /\ call'.txn = c.txn
      BY <1>5, EnterType DEF PlanCall
    <2>2. RunsCurrent'
      BY <1>5, <2>1 DEF RunsCurrent
    <2>3. QED
      BY <1>1, <1>2, <1>3, <2>1, <2>2, DriverWork DEF CInv
  <1>6. CASE Enter("execute", "clear") /\ pc' = "clear"
    <2>1. call'.at \in {0, 1} /\ call'.txn = "clear"
      BY <1>6, EnterType DEF Txns
    <2>2. RunsCurrent'
      BY <1>6, <2>1 DEF RunsCurrent
    <2>3. QED
      BY <1>1, <1>2, <1>3, <2>1, <2>2, DriverWork DEF CInv
  <1>7. CASE ParseArgs \/ ClearDone
    <2>1. UNCHANGED frame /\ pc' \notin {"startup", "clear"}
      BY <1>7 DEF ParseArgs, ClearDone, GoTo, Cleanup
    <2>2. QED
      BY <1>4, <2>1
  <1>8. CASE Connect
    <2>1. StartupPlan[1] \in PlanCall
      BY StartupPlanType
    <2>2. StartupPlan[1].fn = "init" \/ StartupPlan[1].txn \in {"ugi", "counts"}
      BY StartupExecutes, StartupPlanType
    <2>3. QED
      BY <1>4, <1>5, <1>8, <2>1, <2>2 DEF Connect, Cleanup, GoTo
  <1>9. CASE StartupStep
    <2>1. pos < Len(StartupPlan) => pos + 1 \in 1..Len(StartupPlan)
      BY StartupPlanType DEF TInv, TypeOK, DriverOK
    <2>2. pos < Len(StartupPlan) =>
            /\ StartupPlan[pos + 1] \in PlanCall
            /\ \/ StartupPlan[pos + 1].fn = "init"
               \/ StartupPlan[pos + 1].txn \in {"ugi", "counts"}
      BY <2>1, StartupExecutes, StartupPlanType
    <2>3. QED
      BY <1>4, <1>5, <1>9, <2>2 DEF StartupStep, Cleanup, GoTo
  <1>10. CASE Connected
    BY <1>4, <1>6, <1>10 DEF Connected, Cleanup, GoTo
  <1>11. QED
    BY <1>7, <1>8, <1>9, <1>10

\* The steps of runWorkload and executeTxnGrid that count nothing.
LEMMA WorkloadCInv ==
    ASSUME TInv, LInv, CInv, FatalEnds,
           \/ ShouldTerminate \/ TimeUp \/ (\E t \in Workload : BeginTxn(t))
           \/ Attempt \/ ReprepareStep \/ FetchOrClose \/ Retry \/ TxnFailed
    PROVE  CInv'
  <1>1. /\ Idle /\ UNCHANGED <<stats, work, db, rowCount, topup>>
    BY DEF ShouldTerminate, TimeUp, BeginTxn, Attempt, ReprepareStep, FetchOrClose, Retry,
           TxnFailed, InTxn, LInv, IdleOutside, handles, server, amounts
  <1>2. CASE ShouldTerminate \/ TimeUp \/ Retry \/ TxnFailed
    <2>1. /\ call' = call /\ charge' = charge /\ cur' = cur
          /\ pc' \in {"disconnect", "attempt"} /\ (pc' = "attempt" => pc \in {"reprepare", "run"})
      BY <1>2 DEF ShouldTerminate, TimeUp, Retry, TxnFailed, InTxn, GoTo, frame, amounts
    <2>2. call'.at \in {0, 1}
      BY <1>1, <2>1 DEF Idle
    <2>3. RunsCurrent' /\ AmountsKnown'
      BY <1>1, <2>1 DEF CInv, RunsCurrent, AmountsKnown
    <2>4. pc = "run" => ret \notin {"success", "failover"}
      BY <1>2 DEF ShouldTerminate, TimeUp, Retry, TxnFailed
    <2>5. /\ Landed = 0 /\ Landed' = 0 /\ ToCount' = 0
          /\ PostingFailed => PostingFailed'
      BY <1>2, <2>1, <2>4, NotRunningNext
      DEF Landed, PostingFailed, Idle, frame, ShouldTerminate, TimeUp, Retry, TxnFailed
    <2>6. QED
      BY <1>1, <2>2, <2>3, <2>4, <2>5, DriverWork, DriverCounts DEF CInv
  <1>3. ASSUME NEW t \in Workload, BeginTxn(t)
        PROVE  CInv'
    <2>1. /\ call' = call /\ pc = "check" /\ pc' \in {"attempt", "exit"}
          /\ ~PostingFailed
      BY <1>3 DEF BeginTxn, frame, FatalEnds
    <2>2. call'.at \in {0, 1}
      BY <1>1, <2>1 DEF Idle
    <2>3. pc' = "attempt" /\ cur' = "charge" => charge' \in {-c : c \in ChargeCents}
      BY <1>3 DEF BeginTxn
    <2>4. RunsCurrent' /\ AmountsKnown'
      BY <1>1, <2>1, <2>3 DEF CInv, RunsCurrent, AmountsKnown
    <2>5. Landed = 0 /\ Landed' = 0 /\ ToCount' = 0
      BY <2>1, NotRunning, NotRunningNext
    <2>6. QED
      BY <1>1, <2>1, <2>2, <2>4, <2>5, DriverWork, DriverCounts DEF CInv
  <1>4. ASSUME pc \in {"attempt", "reprepare"}, pc' = "run", cur' = cur, charge' = charge,
               cur \in Txns, Enter("execute", cur)
        PROVE  CInv'
    <2>1. call'.at \in {0, 1} /\ call'.fn = "execute" /\ call'.txn = cur
      BY <1>4, EnterType
    <2>2. RunsCurrent' /\ AmountsKnown'
      BY <1>1, <1>4, <2>1 DEF CInv, RunsCurrent, AmountsKnown
    <2>3. Landed = 0 /\ Landed' = 0 /\ ToCount' = 0 /\ ~PostingFailed
      BY <1>4, NotRunning, NotRunningNext, EnterExecute DEF FatalEnds
    <2>4. QED
      BY <1>1, <1>4, <2>1, <2>2, <2>3, DriverWork, DriverCounts DEF CInv
  <1>5. ASSUME pc \in {"attempt", "reprepare"}, pc' = "reprepare", cur' = cur,
               charge' = charge, NEW c \in PlanCall, Enter(c.fn, c.txn),
               c.fn = "init" \/ c.txn \in {"ugi", "counts"}
        PROVE  CInv'
    <2>1. call'.at \in {0, 1} /\ call'.fn = c.fn /\ call'.txn = c.txn
      BY <1>5, EnterType DEF PlanCall
    <2>2. RunsCurrent' /\ AmountsKnown'
      BY <1>1, <1>5, <2>1 DEF CInv, RunsCurrent, AmountsKnown
    <2>3. Landed = 0 /\ Landed' = 0 /\ ToCount' = 0 /\ ~PostingFailed
      BY <1>5, NotRunning, NotRunningNext DEF FatalEnds
    <2>4. QED
      BY <1>1, <1>5, <2>1, <2>2, <2>3, DriverWork, DriverCounts DEF CInv
  <1>6. CASE Attempt
    <2>1. pc = "attempt" /\ charge' = charge /\ cur' = cur /\ cur \in Txns
      BY <1>6, WorkloadTxns DEF Attempt, GoTo, amounts, TInv, HasCurrent
    <2>2. CASE UNCHANGED frame /\ pc' = "disconnect"
      <3>1. call'.at \in {0, 1}
        BY <1>1, <2>2 DEF frame, Idle
      <3>2. RunsCurrent' /\ AmountsKnown'
        BY <1>1, <2>2 DEF CInv, RunsCurrent, AmountsKnown
      <3>3. Landed = 0 /\ Landed' = 0 /\ ToCount' = 0 /\ ~PostingFailed
        BY <2>1, <2>2, NotRunning, NotRunningNext DEF FatalEnds
      <3>4. QED
        BY <1>1, <2>1, <2>2, <3>1, <3>2, <3>3, DriverWork, DriverCounts DEF CInv
    <2>3. ReprepPlan[1] \in PlanCall /\
            (ReprepPlan[1].fn = "init" \/ ReprepPlan[1].txn \in {"ugi", "counts"})
      BY ReprepPlanType, ReprepExecutes
    <2>4. CASE pc' = "reprepare" /\ Enter(ReprepPlan[1].fn, ReprepPlan[1].txn)
      BY <1>5, <2>1, <2>3, <2>4
    <2>5. CASE pc' = "run" /\ Enter("execute", cur)
      BY <1>4, <2>1, <2>5
    <2>6. QED
      BY <1>6, <2>2, <2>4, <2>5 DEF Attempt, GoTo
  <1>7. CASE ReprepareStep
    <2>1. pc = "reprepare" /\ charge' = charge /\ cur' = cur /\ cur \in Txns
      BY <1>7, WorkloadTxns DEF ReprepareStep, amounts, TInv, HasCurrent
    <2>2. pos < Len(ReprepPlan) => pos + 1 \in 1..Len(ReprepPlan)
      BY ReprepPlanType DEF TInv, TypeOK, DriverOK
    <2>3. pos < Len(ReprepPlan) =>
            /\ ReprepPlan[pos + 1] \in PlanCall
            /\ \/ ReprepPlan[pos + 1].fn = "init"
               \/ ReprepPlan[pos + 1].txn \in {"ugi", "counts"}
      BY <2>2, ReprepExecutes, ReprepPlanType
    <2>4. CASE /\ pos < Len(ReprepPlan) /\ pc' = pc
               /\ Enter(ReprepPlan[pos + 1].fn, ReprepPlan[pos + 1].txn)
      BY <1>5, <2>1, <2>3, <2>4
    <2>5. CASE pc' = "run" /\ Enter("execute", cur)
      BY <1>4, <2>1, <2>5
    <2>6. QED
      BY <1>7, <2>4, <2>5 DEF ReprepareStep
  <1>8. CASE FetchOrClose
    <2>1. /\ pc = "run" /\ UNCHANGED <<pc, cur, charge>> /\ HasFetch(cur)
          /\ ret \in {"success", "nodata"}
      BY <1>8 DEF FetchOrClose, driver, amounts
    <2>2. Enter("fetch", cur) \/ Enter("close", cur)
      BY <1>8 DEF FetchOrClose
    <2>3. call'.at \in {0, 1} /\ call'.txn = cur
      BY <2>2 DEF Enter
    <2>4. RunsCurrent' /\ AmountsKnown'
      BY <1>1, <2>1, <2>3 DEF CInv, RunsCurrent, AmountsKnown
    <2>5. Landed = 0 /\ Landed' = 0 /\ ToCount' = 0 /\ ~PostingFailed
      BY <2>1, NotRunningNext DEF Landed, HasFetch, PostingFailed
    <2>6. QED
      BY <1>1, <2>1, <2>3, <2>4, <2>5, DriverWork, DriverCounts DEF CInv
  <1>9. QED
    BY <1>2, <1>3, <1>6, <1>7, <1>8

\* incrementCounters counts the posting that has landed and the rows that
\* Purge has deleted; a failover is counted as a doubt.
LEMMA CountingCInv ==
    ASSUME TInv, LInv, CInv, TxnSucceeded \/ Failover
    PROVE  CInv'
  <1>1. /\ Idle /\ UNCHANGED <<call, cur, work, db, rowCount, topup, charge>>
        /\ pc \in {"reprepare", "run"} /\ pc' \in {"check", "attempt"}
    BY DEF TxnSucceeded, Failover, InTxn, GoTo, handles, server, amounts, frame
  <1>2. call'.at \in {0, 1}
    BY <1>1 DEF Idle
  <1>3. WorkShape' /\ RowsCounted'
    BY <1>1, <1>2, DriverWork
  <1>4. RunsCurrent' /\ AmountsKnown'
    BY <1>1 DEF CInv, RunsCurrent, AmountsKnown
  <1>5. /\ stats.updates \in Nat /\ stats.deletes \in Nat /\ stats.failovers \in Nat
        /\ db.upd \in Nat /\ db.del \in Nat /\ rowCount \in Int
    BY DEF TInv, TypeOK, DataOK, ServerOK, Effects
  <1>6. Landed' = 0 /\ ToCount' = 0
    BY <1>1, NotRunningNext
  <1>7. CASE TxnSucceeded
    <2>1. /\ stats'.updates = stats.updates + (IF CountsUpdate(cur) THEN 1 ELSE 0)
          /\ stats'.deletes = stats.deletes + RowsPurged
          /\ stats'.failovers = stats.failovers
          /\ pc = "run" /\ ret = "success" /\ pc' = "check" /\ ret' = ret
      BY <1>7 DEF TxnSucceeded, incrementCounters, GoTo, frame
    <2>2. Landed = IF CountsUpdate(cur) THEN 1 ELSE 0
      BY <1>1, <2>1 DEF Landed, CountsUpdate
    <2>3. InDoubt = InDoubt' /\ InDoubt \in Nat
      BY <1>5, <2>1 DEF InDoubt, HiddenByFailover, PostingFailed
    <2>4. RowsPurged \in Nat /\ RowsPurged <= ToCount /\ ToCount \in Nat
      BY <1>1, <1>5, <2>1 DEF RowsPurged, ToCount
    <2>5. PostsCounted'
      BY <1>1, <1>5, <1>6, <2>1, <2>2, <2>3 DEF CInv, PostsCounted
    <2>6. DeletesCounted'
      BY <1>1, <1>5, <1>6, <2>1, <2>4 DEF CInv, DeletesCounted
    <2>7. QED
      BY <1>3, <1>4, <2>5, <2>6 DEF CInv
  <1>8. CASE Failover
    <2>1. /\ stats'.updates = stats.updates /\ stats'.deletes = stats.deletes
          /\ stats'.failovers = stats.failovers + 1
          /\ ret = "failover" /\ pc' = "attempt" /\ ret' = ret
      BY <1>8 DEF Failover, TInv, TypeOK, DataOK, frame
    <2>2. Landed = 0 /\ ToCount = 0
      BY <2>1 DEF Landed, ToCount
    <2>3. InDoubt' >= InDoubt /\ InDoubt \in Nat /\ InDoubt' \in Nat
      BY <1>5, <2>1 DEF InDoubt, HiddenByFailover, PostingFailed
    <2>4. PostsCounted'
      BY <1>1, <1>5, <1>6, <2>1, <2>2, <2>3 DEF CInv, PostsCounted
    <2>5. DeletesCounted'
      BY <1>1, <1>5, <1>6, <2>1, <2>2 DEF CInv, DeletesCounted
    <2>6. QED
      BY <1>3, <1>4, <2>4, <2>5 DEF CInv
  <1>9. QED
    BY <1>7, <1>8

LEMMA EndCInv ==
    ASSUME TInv, LInv, CInv, dbDisconnect \/ freeContext \/ SignalArrives \/ UNCHANGED vars
    PROVE  CInv'
  <1>1. CASE dbDisconnect \/ freeContext
    <2>1. /\ Idle /\ UNCHANGED <<call, ret, stats, db, rowCount, topup>>
          /\ pc \notin {"run", "attempt"} /\ pc' \in {"cleanup", "exit"}
          /\ work' = work \/ work' = NoWork
      BY <1>1 DEF dbDisconnect, freeContext, Cleanup, GoTo, LInv, IdleOutside, frame,
                  amounts, handles, RolledBack
    <2>2. call'.at \in {0, 1}
      BY <2>1 DEF Idle
    <2>3. RunsCurrent' /\ AmountsKnown'
      BY <2>1 DEF CInv, RunsCurrent, AmountsKnown
    <2>4. /\ Landed = 0 /\ Landed' = 0 /\ ToCount' = 0
          /\ PostingFailed => PostingFailed'
      BY <2>1, NotRunning, NotRunningNext DEF PostingFailed, Idle
    <2>5. QED
      BY <2>1, <2>2, <2>3, <2>4, DriverWork, DriverCounts DEF CInv
  <1>2. CASE SignalArrives \/ UNCHANGED vars
    <2>1. UNCHANGED <<pc, cur, call, ret, charge, topup, stats, work, db, rowCount>>
      BY <1>2 DEF SignalArrives, vars, driver, frame, amounts, handles, server
    <2>2. Landed' = Landed /\ ToCount' = ToCount /\ InDoubt' = InDoubt
      BY <2>1 DEF Landed, ToCount, InDoubt, HiddenByFailover, PostingFailed, Idle
    <2>3. DeletesCounted' /\ PostsCounted'
      BY <2>1, <2>2 DEF CInv, DeletesCounted, PostsCounted
    <2>4. Posting' = Posting /\ Amount' = Amount
      BY <2>1 DEF Posting, Amount
    <2>5. QED
      BY <2>1, <2>3, <2>4 DEF CInv, RunsCurrent, WorkShape, AmountsKnown, RowsCounted
  <1>3. QED
    BY <1>1, <1>2

LEMMA InitFatalEnds == Init => FatalEnds
  BY DEF Init, FatalEnds, PostingFailed

\* Nothing leads back to the workload from there.
LEMMA NextFatalEnds == TInv /\ LInv /\ CInv /\ FatalEnds /\ [Next]_vars => FatalEnds'
  <1> SUFFICES ASSUME TInv, LInv, CInv, FatalEnds, [Next]_vars
               PROVE  FatalEnds'
    OBVIOUS
  <1>1. ASSUME NEW f, NEW t, Enter(f, t)
        PROVE  ~PostingFailed'
    BY <1>1 DEF Enter, Entry, PostingFailed
  <1>2. CASE TxnFunction
    <2>1. /\ ~Idle /\ call'.fn = call.fn /\ call'.txn = call.txn /\ pc' = pc
      BY <1>2, SameFunction, TxnFunctionFrame DEF TInv, driver
    <2>2. PostingFailed' => pc = "run"
      BY <2>1, WhoPosts DEF PostingFailed, Posts
    <2>3. QED
      BY <2>1, <2>2 DEF FatalEnds
  <1>3. CASE UNCHANGED frame
    <2>1. PostingFailed' <=> PostingFailed
      BY <1>3 DEF frame, PostingFailed, Idle
    <2>2. PostingFailed => pc' \in {"run", "disconnect", "cleanup", "exit"} \/ TxnFunction
      BY <1>3
      DEF FatalEnds, PostingFailed, Next, Program, WorkloadGoesOn, Exited, vars, driver,
          ParseArgs, Connect, StartupStep, Connected, ClearDone, ShouldTerminate, TimeUp,
          BeginTxn, Attempt, ReprepareStep, FetchOrClose, TxnSucceeded, Retry, Failover,
          TxnFailed, dbDisconnect, freeContext, SignalArrives, GoTo, Cleanup, InTxn
    <2>3. QED
      BY <1>2, <2>1, <2>2 DEF FatalEnds
  <1>4. CASE ~TxnFunction /\ ~UNCHANGED frame
    <2>1. \E f, t : Enter(f, t)
      BY <1>4
      DEF Next, Program, WorkloadGoesOn, Exited, vars, ParseArgs, Connect, StartupStep,
          Connected, ClearDone, ShouldTerminate, TimeUp, BeginTxn, Attempt, ReprepareStep,
          FetchOrClose, TxnSucceeded, Retry, Failover, TxnFailed, dbDisconnect,
          freeContext, SignalArrives
    <2>2. QED
      BY <1>1, <2>1 DEF FatalEnds
  <1>5. QED
    BY <1>2, <1>3, <1>4

LEMMA NextCInv == TInv /\ LInv /\ CInv /\ FatalEnds /\ [Next]_vars => CInv'
  <1> SUFFICES ASSUME TInv, LInv, CInv, FatalEnds, [Next]_vars
               PROVE  CInv'
    OBVIOUS
  <1>1. CASE TxnFunction
    BY <1>1, TxnFunctionCInv
  <1>2. CASE ParseArgs \/ Connect \/ StartupStep \/ Connected \/ ClearDone
    BY <1>2, StartupCInv
  <1>3. CASE \/ ShouldTerminate \/ TimeUp \/ (\E t \in Workload : BeginTxn(t))
             \/ Attempt \/ ReprepareStep \/ FetchOrClose \/ Retry \/ TxnFailed
    BY <1>3, WorkloadCInv
  <1>4. CASE TxnSucceeded \/ Failover
    BY <1>4, CountingCInv
  <1>5. CASE dbDisconnect \/ freeContext \/ SignalArrives \/ UNCHANGED vars
    BY <1>5, EndCInv
  <1>6. QED
    BY <1>1, <1>2, <1>3, <1>4, <1>5 DEF Next, Program, WorkloadGoesOn, Exited

\* The account updates that the summary of executeTxnGrid counts are
\* committed, and what is committed is counted but for one posting per
\* failover and the last one, if its commit was reported as an error; the
\* rows Purge counts are deleted.
THEOREM AccountingSafe == Spec => []Accounting
  <1>1. TInv /\ CInv => Accounting
    BY CInvImpliesAccounting DEF TInv
  <1>2. Init => TInv /\ LInv /\ CInv /\ FatalEnds
    BY InitTInv, InitLInv, InitCInv, InitFatalEnds
  <1>3. TInv /\ LInv /\ CInv /\ FatalEnds /\ [Next]_vars =>
          TInv' /\ LInv' /\ CInv' /\ FatalEnds'
    BY NextTInv, NextLInv, NextCInv, NextFatalEnds
  <1>4. QED
    BY <1>1, <1>2, <1>3, PTL DEF Spec

-----------------------------------------------------------------------------
(* The program implements PaymentLedger: the COMMIT of Charge or TopUp is  *)
(* Post, that of a transaction that deleted rows is Purge, incrementing    *)
(* the counters of the summary is Count; every other step changes nothing  *)
(* the ledger knows of.                                                    *)

LEMMA InitRefines == Init => Abstract!LedgerInit
  BY DEF Init, NoWork, Abstract!LedgerInit

\* The amount of the posting that is about to be committed.
LEMMA AmountPosted ==
    ASSUME TInv, LInv, CInv, ~Idle, Posts(call.fn, call.txn)
    PROVE  Amount \in {-c : c \in ChargeCents} \cup {0}
  <1>1. pc = "run" /\ cur = call.txn
    BY WhoPosts DEF Posts
  <1>2. QED
    BY <1>1 DEF CInv, AmountsKnown, Amount, Posts

\* Committing the open transaction, with or without telling the program.
LEMMA CommitRefines ==
    ASSUME TInv, LInv, CInv, ~Idle, call.fn # "init", Op.op = "commit",
           db' = Add(db, work), stats' = stats
    PROVE  Abstract!LedgerNext \/ UNCHANGED Abstract!LedgerVars
  <1>0. TypeOK /\ InScript /\ WorkShape /\ WorkInv
    BY DEF TInv, LInv, CInv
  <1>1. /\ db \in Effects /\ work \in Effects /\ db' \in Effects
    BY <1>0, AddType DEF TypeOK, ServerOK
  <1>2. ~HalfPosted
    BY <1>0, BodyCalls
  <1>3. work.ins = work.upd /\ work.hist = work.bal
    BY <1>0, <1>2 DEF WorkInv
  <1>4. /\ db'.upd = db.upd + work.upd /\ db'.ins = db.ins + work.upd
        /\ db'.del = db.del + work.del
        /\ db'.bal = db.bal + work.bal /\ db'.hist = db.hist + work.bal
    BY <1>3 DEF Add
  <1>5. CASE Posts(call.fn, call.txn)
    <2>1. call.at = 6
      BY <1>0, <1>5, BodyCalls
    <2>2. work.upd = 1 /\ work.bal = Amount /\ work.del = 0
      BY <1>0, <1>5, <2>1 DEF WorkShape, Posting, Posts, Deletes
    <2>3. ~CommitInDoubt => stats.updates = db.upd
      <3>1. Landed = 0 /\ InDoubt = IF CommitInDoubt THEN stats.failovers ELSE 0
        BY <1>0, ActiveCounts
      <3>2. stats.updates \in Nat /\ db.upd \in Nat
        BY <1>0, <1>1 DEF TypeOK, DataOK, Effects
      <3>3. stats.updates <= db.upd /\ db.upd <= stats.updates + InDoubt
        BY <3>1, <3>2 DEF CInv, PostsCounted, InDoubt, HiddenByFailover, TInv, TypeOK, DataOK
      <3>4. QED
        BY <3>1, <3>2, <3>3
    <2>4. db' = [db EXCEPT !.upd = @ + 1, !.ins = @ + 1,
                           !.bal = @ + Amount, !.hist = @ + Amount]
      <3>1. /\ db'.upd = db.upd + 1 /\ db'.ins = db.ins + 1 /\ db'.del = db.del
            /\ db'.bal = db.bal + Amount /\ db'.hist = db.hist + Amount
        BY <1>1, <1>4, <2>2 DEF Effects
      <3>2. QED
        BY <1>1, <3>1 DEF Effects
    <2>5. Abstract!Post(Amount)
      BY <2>3, <2>4 DEF Abstract!Post
    <2>6. QED
      BY <1>5, <2>5, AmountPosted DEF Abstract!LedgerNext
  <1>6. CASE ~Posts(call.fn, call.txn)
    <2>1. work.upd = 0 /\ work.bal = 0 /\ work.del \in Nat
      BY <1>0, <1>1, <1>6 DEF WorkShape, Posting, Effects
    <2>2. /\ db'.upd = db.upd /\ db'.ins = db.ins
          /\ db'.bal = db.bal /\ db'.hist = db.hist
      BY <1>1, <1>4, <2>1 DEF Effects
    <2>3. CASE work.del = 0
      <3>1. db'.del = db.del
        BY <1>1, <1>4, <2>3 DEF Effects
      <3>2. db' = db
        BY <1>1, <2>2, <3>1 DEF Effects
      <3>3. QED
        BY <3>2 DEF Abstract!LedgerVars
    <2>4. CASE work.del # 0
      <3>1. db' = [db EXCEPT !.del = db'.del]
        BY <1>1, <2>2 DEF Effects
      <3>2. db'.del > db.del
        BY <1>1, <1>4, <2>1, <2>4 DEF Effects
      <3>3. QED
        BY <3>1, <3>2 DEF Abstract!LedgerNext, Abstract!Purge
    <2>5. QED
      BY <2>3, <2>4
  <1>7. QED
    BY <1>5, <1>6

LEMMA TxnFunctionRefines ==
    ASSUME TInv, LInv, CInv, TxnFunction
    PROVE  Abstract!LedgerNext \/ UNCHANGED Abstract!LedgerVars
  <1>1. ~Idle /\ stats' = stats
    BY SameFunction, TxnFunctionFrame DEF TInv
  <1>2. CASE ODBCCommit
    <2>1. call.fn # "init" /\ Op.op = "commit" /\ db' = Add(db, work)
      BY <1>2 DEF ODBCCommit, Calls
    <2>2. QED
      BY <1>1, <2>1, CommitRefines
  <1>3. CASE CallFails
    <2>1. PICK class \in ErrorClass, moved \in BOOLEAN, silent \in BOOLEAN,
               kept \in BOOLEAN :
                 /\ kept => Op.op = "commit" /\ class # "retryable"
                 /\ kept /\ class = "failover" => CommitInDoubt
                 /\ ErrorPath(class, moved, silent, kept, stmt)
      BY <1>3 DEF CallFails
    <2>2. call.fn # "init" /\ db' = IF kept THEN Add(db, work) ELSE db
      BY <1>3, <2>1 DEF CallFails, ErrorPath
    <2>3. CASE kept
      BY <1>1, <2>1, <2>2, <2>3, CommitRefines
    <2>4. CASE ~kept
      BY <1>1, <2>2, <2>4 DEF Abstract!LedgerVars
    <2>5. QED
      BY <2>3, <2>4
  <1>4. CASE ~ODBCCommit /\ ~CallFails
    <2>1. db' = db
      BY <1>4 DEF TxnFunction, InitSucceeds, InitFails, ErrorPath, ExecuteSelect,
                  FetchRow, FetchNextRow, CloseCursor, ExecuteUpdate, ExecuteInsert,
                  ExecuteDelete, GetRowCount, server
    <2>2. QED
      BY <1>1, <2>1 DEF Abstract!LedgerVars
  <1>5. QED
    BY <1>2, <1>3, <1>4

LEMMA DriverRefines ==
    ASSUME TInv, LInv, CInv, [Next]_vars, ~TxnFunction
    PROVE  Abstract!LedgerNext \/ UNCHANGED Abstract!LedgerVars
  <1>1. CASE TxnSucceeded
    <2>1. db' = db /\ Idle /\ pc = "run" /\ ret = "success"
          /\ stats'.updates = stats.updates + (IF CountsUpdate(cur) THEN 1 ELSE 0)
      BY <1>1 DEF TxnSucceeded, incrementCounters, server
    <2>2. stats.updates \in Nat /\ db.upd \in Nat
      BY DEF TInv, TypeOK, DataOK, ServerOK, Effects
    <2>3. CASE CountsUpdate(cur)
      <3>1. Landed = 1
        BY <2>1, <2>3 DEF Landed, CountsUpdate
      <3>2. stats.updates < db.upd
        BY <2>2, <3>1 DEF CInv, PostsCounted
      <3>3. Abstract!Count
        BY <2>1, <2>3, <3>2 DEF Abstract!Count
      <3>4. QED
        BY <3>3 DEF Abstract!LedgerNext
    <2>4. CASE ~CountsUpdate(cur)
      BY <2>1, <2>2, <2>4 DEF Abstract!LedgerVars
    <2>5. QED
      BY <2>3, <2>4
  <1>2. CASE Failover
    <2>1. db' = db /\ stats'.updates = stats.updates
      BY <1>2 DEF Failover, server, TInv, TypeOK, DataOK
    <2>2. QED
      BY <2>1 DEF Abstract!LedgerVars
  <1>3. CASE ~TxnSucceeded /\ ~Failover
    <2>1. db' = db /\ stats' = stats
      BY <1>3
      DEF Next, Program, WorkloadGoesOn, Exited, vars, ParseArgs, Connect, StartupStep, Connected,
          ClearDone, ShouldTerminate, TimeUp, BeginTxn, Attempt, ReprepareStep, FetchOrClose,
          Retry, TxnFailed, dbDisconnect, freeContext, SignalArrives, server
    <2>2. QED
      BY <2>1 DEF Abstract!LedgerVars
  <1>4. QED
    BY <1>1, <1>2, <1>3

\* The workload of executeTxnGrid implements the payment ledger: an account
\* update and its history row are posted together and counted at most once,
\* and without a failover hiding a commit none is posted twice.
THEOREM ImplementsPaymentLedger == Spec => ImplementsLedger
  <1>1. Init => TInv /\ LInv /\ CInv /\ FatalEnds
    BY InitTInv, InitLInv, InitCInv, InitFatalEnds
  <1>2. TInv /\ LInv /\ CInv /\ FatalEnds /\ [Next]_vars =>
          TInv' /\ LInv' /\ CInv' /\ FatalEnds'
    BY NextTInv, NextLInv, NextCInv, NextFatalEnds
  <1>3. TInv /\ LInv /\ CInv /\ [Next]_vars =>
          [Abstract!LedgerNext]_Abstract!LedgerVars
    BY TxnFunctionRefines, DriverRefines
  <1>4. QED
    BY <1>1, <1>2, <1>3, InitRefines, PTL
    DEF Spec, ImplementsLedger, Abstract!LedgerSpec

-----------------------------------------------------------------------------
(* The program is ready between two transactions.  Where TTGridEnable has  *)
(* no row the grid information leaves its cursor open, and nothing is      *)
(* claimed; everywhere else PInv below is inductive.                       *)

\* The statements of t are prepared on the connection now in use.
Ready(t) == \A s \in InitStmts(t) :
    IF s = "localElement" THEN stmt[s] # "stale" ELSE stmt[s] = "live"

AllReady == \A t \in Created : Ready(t)

\* Every statement was lost when the connection moved.
NoneLive == \A s \in Stmts : stmt[s] # "live"

\* No error has ended the function that is active or was the last one.
Working == ~Idle \/ ret = "success"

InPlan(plan) == /\ pos \in 1..Len(plan)
                /\ call.fn = plan[pos].fn /\ call.txn = plan[pos].txn

\* What the plan has prepared so far.
Followed(plan) ==
    \A j \in 1..Len(plan) :
        plan[j].fn = "init" /\ (j < pos \/ (j = pos /\ Idle)) => Ready(plan[j].txn)

\* An execute function that has not made a call.
Untouched == call.fn = "execute" /\ call.at = 1

Refused == Idle /\ ret \notin {"success", "nodata"}

PreparedStartup ==
    /\ pc = "startup" =>
          InPlan(StartupPlan) /\ (Working => Followed(StartupPlan))
    /\ pc \in {"connected", "check"} => AllReady
    /\ pc = "clear" => call.fn = "execute" /\ (Working => AllReady)

PreparedWorkload ==
    /\ pc = "attempt" => needReprepare \/ AllReady \/ NoneLive
    /\ pc = "reprepare" =>
          needReprepare /\ InPlan(ReprepPlan) /\ (Working => Followed(ReprepPlan))
    /\ pc = "run" => /\ call.fn # "init"
                     /\ AllReady \/ (NoneLive /\ (Untouched \/ Refused))

Prepared == PreparedStartup /\ PreparedWorkload

\* A result set is being read: between the calls of a function, or between
\* the functions of Query and Authorize.
Reading ==
    IF Idle
    THEN /\ pc = "run" /\ HasFetch(cur) /\ call.fn \in {"execute", "fetch"}
         /\ ret \in {"success", "nodata", "state"}
    ELSE call.fn # "init" /\ Op.op \in {"fetch", "next", "close"}

CursorsClosed ==
    pc \notin {"disconnect", "cleanup", "exit"} =>
        \A t \in Txns : cursor[t] => t = call.txn /\ Reading

\* The element is still to be learnt: the driver has not come to the end of
\* the grid information it executes last, or will go through its plan again.
ToLearn ==
    \/ pc = "startup" /\ (pos = 1 \/ (pos = 2 /\ ~Idle /\ call.at <= 6))
    \/ pc = "reprepare" /\ (pos < Len(ReprepPlan) \/ (~Idle /\ call.at <= 6))
    \/ pc \in {"startup", "reprepare"} /\ ~Working
    \/ pc = "attempt" /\ needReprepare
    \/ pc \in {"disconnect", "cleanup", "exit"}

ElementKnown == GridRow = "on" /\ stmt["localElement"] = "live" => elem \/ ToLearn

PInv == Prepared /\ CursorsClosed /\ ElementKnown

\* The lists of transactions and the plans made from them.

Elements(s) == {s[i] : i \in 1..Len(s)}

\* A list that begins as dbConnect begins it.
Listed(s) == /\ s \in Seq(Txns) /\ Len(s) >= 2 /\ s[1] = "ugi" /\ s[2] = "counts"
             /\ \A i \in 1..Len(s) : s[i] = "ugi" => i = 1

LEMMA ListMore ==
    ASSUME NEW s, Listed(s), NEW w \in BOOLEAN, NEW t \in Txns, t # "ugi"
    PROVE  /\ Listed(s \o Opt(w, t))
           /\ Elements(s) \subseteq Elements(s \o Opt(w, t))
           /\ w => t \in Elements(s \o Opt(w, t))
  <1>1. CASE ~w
    <2>1. s \o Opt(w, t) = s
      BY <1>1 DEF Opt, Listed
    <2>2. QED
      BY <1>1, <2>1
  <1>2. CASE w
    <2> DEFINE u == s \o <<t>>
    <2>1. Opt(w, t) = <<t>>
      BY <1>2 DEF Opt
    <2>2. /\ u \in Seq(Txns) /\ Len(u) = Len(s) + 1 /\ u[Len(s) + 1] = t
          /\ \A i \in 1..Len(s) : u[i] = s[i]
      BY DEF Listed
    <2> HIDE DEF u
    <2>3. Len(s) \in Nat
      BY DEF Listed
    <2>4. Listed(u)
      BY <2>2, <2>3 DEF Listed
    <2>5. Elements(s) \subseteq Elements(u) /\ t \in Elements(u)
      BY <2>2, <2>3 DEF Elements
    <2>6. QED
      BY <2>1, <2>4, <2>5 DEF u
  <1>3. QED
    BY <1>1, <1>2

LEMMA ListWanted ==
    ASSUME NEW s, Listed(s), NEW t \in TxnTypes
    PROVE  /\ Listed(s \o Opt(t \in Workload, t))
           /\ Elements(s) \subseteq Elements(s \o Opt(t \in Workload, t))
           /\ t \in Workload => t \in Elements(s \o Opt(t \in Workload, t))
  <1>1. (t \in Workload) \in BOOLEAN /\ t \in Txns /\ t # "ugi"
    BY DEF Txns, TxnTypes
  <1>2. QED
    BY <1>1, ListMore

LEMMA AppTxnsListed ==
    /\ Listed(AppTxns)
    /\ Workload \subseteq Created /\ Created \subseteq Txns
  <1> DEFINE s0 == <<"ugi", "counts">>
             s1 == s0 \o Opt(DoCleanup, "clear")
             s2 == s1 \o Opt("purge" \in Workload, "purge")
             s3 == s2 \o Opt("query" \in Workload, "query")
             s4 == s3 \o Opt("authorize" \in Workload, "authorize")
             s5 == s4 \o Opt("charge" \in Workload, "charge")
             s6 == s5 \o Opt("topup" \in Workload, "topup")
  <1>1. AppTxns = s6
    BY DEF AppTxns
  <1>2. Listed(s0)
    BY DEF Listed, Txns, TxnTypes
  <1>3. /\ "clear" \in Txns /\ DoCleanup \in BOOLEAN
        /\ TxnTypes = {"purge", "query", "authorize", "charge", "topup"}
    BY ConfigAssumption DEF Txns, TxnTypes
  <1> HIDE DEF s0
  <1>4. Listed(s1)
    BY <1>2, <1>3, ListMore
  <1> HIDE DEF s1
  <1>5. Listed(s2) /\ ("purge" \in Workload => "purge" \in Elements(s2))
    BY <1>3, <1>4, ListWanted
  <1> HIDE DEF s2
  <1>6. /\ Listed(s3) /\ Elements(s2) \subseteq Elements(s3)
        /\ "query" \in Workload => "query" \in Elements(s3)
    BY <1>3, <1>5, ListWanted
  <1> HIDE DEF s3
  <1>7. /\ Listed(s4) /\ Elements(s3) \subseteq Elements(s4)
        /\ "authorize" \in Workload => "authorize" \in Elements(s4)
    BY <1>3, <1>6, ListWanted
  <1> HIDE DEF s4
  <1>8. /\ Listed(s5) /\ Elements(s4) \subseteq Elements(s5)
        /\ "charge" \in Workload => "charge" \in Elements(s5)
    BY <1>3, <1>7, ListWanted
  <1> HIDE DEF s5
  <1>9. /\ Listed(s6) /\ Elements(s5) \subseteq Elements(s6)
        /\ "topup" \in Workload => "topup" \in Elements(s6)
    BY <1>3, <1>8, ListWanted
  <1> HIDE DEF s6
  <1>10. Created = Elements(s6)
    BY <1>1 DEF Created, Elements
  <1>11. Workload \subseteq Created
    BY <1>5, <1>6, <1>7, <1>8, <1>9, <1>10, ConfigAssumption DEF TxnTypes
  <1>12. Created \subseteq Txns
    BY <1>9, <1>10 DEF Listed, Elements
  <1>13. QED
    BY <1>1, <1>9, <1>11, <1>12

LEMMA ReprepPlanFacts ==
    /\ Len(ReprepPlan) \in Nat /\ Len(ReprepPlan) >= 3
    /\ \A j \in 1..Len(ReprepPlan) : ReprepPlan[j].fn = "init" <=> j # Len(ReprepPlan)
    /\ ReprepPlan[Len(ReprepPlan)] = [fn |-> "execute", txn |-> "ugi"]
    /\ \A t \in Created : \E j \in 1..Len(ReprepPlan) :
          ReprepPlan[j].fn = "init" /\ ReprepPlan[j].txn = t
  <1> DEFINE n    == Len(AppTxns)
             head == [j \in 1..n |-> [fn |-> "init", txn |-> AppTxns[j]]]
             tail == <<[fn |-> "execute", txn |-> "ugi"]>>
  <1>1. ReprepPlan = head \o tail
    BY DEF ReprepPlan
  <1>2. n \in Nat /\ n >= 2
    BY AppTxnsType
  <1>3. head \in Seq(PlanCall) /\ tail \in Seq(PlanCall) /\ Len(tail) = 1 /\ Len(head) = n
    BY AppTxnsType DEF PlanCall, Txns, TxnTypes
  <1>4. /\ \A j \in 1..n : head[j].fn = "init" /\ head[j].txn = AppTxns[j]
        /\ tail[1] = [fn |-> "execute", txn |-> "ugi"]
    OBVIOUS
  <1>5. \A t \in Created : \E j \in 1..n : AppTxns[j] = t
    BY DEF Created
  <1> HIDE DEF n, head, tail
  <1>6. /\ Len(ReprepPlan) = n + 1
        /\ \A j \in 1..n : ReprepPlan[j] = head[j]
        /\ ReprepPlan[n + 1] = tail[1]
    BY <1>1, <1>2, <1>3, ConcatProperties
  <1>7. \A j \in 1..Len(ReprepPlan) : ReprepPlan[j].fn = "init" <=> j # Len(ReprepPlan)
    BY <1>2, <1>4, <1>6
  <1>8. \A t \in Created : \E j \in 1..Len(ReprepPlan) :
            ReprepPlan[j].fn = "init" /\ ReprepPlan[j].txn = t
    BY <1>2, <1>4, <1>5, <1>6
  <1>9. QED
    BY <1>2, <1>4, <1>6, <1>7, <1>8

LEMMA StartupPlanFacts ==
    /\ Len(StartupPlan) \in Nat /\ Len(StartupPlan) >= 4
    /\ StartupPlan[1] = [fn |-> "init", txn |-> "ugi"]
    /\ StartupPlan[2] = [fn |-> "execute", txn |-> "ugi"]
    /\ \A j \in 1..Len(StartupPlan) :
          StartupPlan[j].fn = "init" /\ StartupPlan[j].txn = "ugi" => j = 1
    /\ \A t \in Created : \E j \in 1..Len(StartupPlan) :
          StartupPlan[j].fn = "init" /\ StartupPlan[j].txn = t
  <1> DEFINE n    == Len(AppTxns)
             head == <<[fn |-> "init", txn |-> "ugi"], [fn |-> "execute", txn |-> "ugi"],
                       [fn |-> "init", txn |-> "counts"],
                       [fn |-> "execute", txn |-> "counts"]>>
             tail == [j \in 1..(n - 2) |-> [fn |-> "init", txn |-> AppTxns[j + 2]]]
  <1>1. StartupPlan = head \o tail
    BY DEF StartupPlan
  <1>2. n \in Nat /\ n >= 2 /\ n - 2 \in Nat
    BY AppTxnsType
  <1>3. head \in Seq(PlanCall) /\ tail \in Seq(PlanCall) /\ Len(head) = 4
    BY <1>2, AppTxnsType DEF PlanCall, Txns, TxnTypes
  <1>4. /\ head[1] = [fn |-> "init", txn |-> "ugi"]
        /\ head[2] = [fn |-> "execute", txn |-> "ugi"]
        /\ head[3] = [fn |-> "init", txn |-> "counts"]
        /\ head[4] = [fn |-> "execute", txn |-> "counts"]
    OBVIOUS
  <1>5. /\ Len(tail) = n - 2
        /\ \A j \in 1..(n - 2) : tail[j].fn = "init" /\ tail[j].txn = AppTxns[j + 2]
    BY <1>2
  <1>6. \A t \in Created : \E j \in 1..n : AppTxns[j] = t
    BY DEF Created
  <1>7. /\ AppTxns[1] = "ugi" /\ AppTxns[2] = "counts"
        /\ \A j \in 1..(n - 2) : AppTxns[j + 2] # "ugi"
    BY <1>2, AppTxnsListed DEF Listed
  <1> HIDE DEF n, head, tail
  <1>8. /\ Len(StartupPlan) = n + 2
        /\ \A j \in 1..4 : StartupPlan[j] = head[j]
        /\ \A j \in 1..(n - 2) : StartupPlan[j + 4] = tail[j]
    <2>1. /\ Len(head \o tail) = Len(head) + Len(tail)
          /\ \A j \in 1..(Len(head) + Len(tail)) :
                (head \o tail)[j] = IF j <= Len(head) THEN head[j] ELSE tail[j - Len(head)]
      BY <1>3, ConcatProperties
    <2>2. QED
      BY <1>1, <1>2, <1>3, <1>5, <2>1
  <1>9. ASSUME NEW j \in 1..Len(StartupPlan), StartupPlan[j].fn = "init",
               StartupPlan[j].txn = "ugi"
        PROVE  j = 1
    <2>1. CASE j \in 1..4
      BY <1>4, <1>8, <1>9, <2>1
    <2>2. CASE j \notin 1..4
      <3>1. j - 4 \in 1..(n - 2) /\ j = (j - 4) + 4
        BY <1>2, <1>8, <2>2
      <3>2. StartupPlan[j].txn = AppTxns[(j - 4) + 2]
        BY <1>5, <1>8, <3>1
      <3>3. QED
        BY <1>7, <1>9, <3>1, <3>2
    <2>3. QED
      BY <2>1, <2>2
  <1>10. ASSUME NEW t \in Created
         PROVE  \E j \in 1..Len(StartupPlan) :
                    StartupPlan[j].fn = "init" /\ StartupPlan[j].txn = t
    <2>1. PICK i \in 1..n : AppTxns[i] = t
      BY <1>6
    <2>2. CASE i = 1
      BY <1>2, <1>4, <1>7, <1>8, <2>1, <2>2
    <2>3. CASE i = 2
      BY <1>2, <1>4, <1>7, <1>8, <2>1, <2>3
    <2>4. CASE i \notin {1, 2}
      <3>1. i - 2 \in 1..(n - 2) /\ (i - 2) + 2 = i
        BY <1>2, <2>4
      <3>2. StartupPlan[(i - 2) + 4].fn = "init" /\ StartupPlan[(i - 2) + 4].txn = t
        BY <1>5, <1>8, <2>1, <3>1
      <3>3. (i - 2) + 4 \in 1..Len(StartupPlan)
        BY <1>2, <1>8, <3>1
      <3>4. QED
        BY <3>2, <3>3
    <2>5. QED
      BY <2>2, <2>3, <2>4
  <1>11. QED
    BY <1>2, <1>4, <1>8, <1>9, <1>10

\* A query is fetched from by the next call, and closed by the one after
\* it, except in Query and Authorize, which do so in their other functions.
ReadsInOrder(b, fn, t) ==
    \A k \in 1..Len(b) :
        /\ b[k].op = "select" => IF k < Len(b) THEN b[k + 1].op = "fetch"
                                               ELSE fn = "execute" /\ HasFetch(t)
        /\ b[k].op = "fetch" => k < Len(b) /\ b[k + 1].op = "close"
        /\ b[k].op = "next" => fn = "fetch"

LEMMA ReadsConcat ==
    ASSUME NEW a \in Seq(QuietCall), NEW b \in Seq(QuietCall),
           Len(a) >= 1, a[Len(a)].op = "close",
           NEW fn, NEW t, ReadsInOrder(a, fn, t), ReadsInOrder(b, fn, t)
    PROVE  /\ a \o b \in Seq(QuietCall) /\ Len(a \o b) = Len(a) + Len(b)
           /\ \A k \in 1..Len(a) : (a \o b)[k] = a[k]
           /\ \A k \in 1..Len(b) : (a \o b)[Len(a) + k] = b[k]
           /\ ReadsInOrder(a \o b, fn, t)
  <1> DEFINE u == a \o b
  <1>1. /\ u \in Seq(QuietCall) /\ Len(u) = Len(a) + Len(b)
        /\ Len(a) \in Nat /\ Len(b) \in Nat /\ Len(u) \in Nat
        /\ \A k \in 1..Len(a) : u[k] = a[k]
        /\ \A k \in 1..Len(b) : u[Len(a) + k] = b[k]
    <2> HIDE DEF QuietCall
    <2>1. /\ u \in Seq(QuietCall) /\ Len(u) = Len(a) + Len(b)
          /\ \A k \in 1..(Len(a) + Len(b)) :
                u[k] = IF k <= Len(a) THEN a[k] ELSE b[k - Len(a)]
      BY ConcatProperties
    <2>2. QED
      BY <2>1
  <1> HIDE DEF u
  <1>2. ReadsInOrder(u, fn, t)
    <2> SUFFICES ASSUME NEW k \in 1..Len(u)
                 PROVE  /\ u[k].op = "select" => IF k < Len(u) THEN u[k + 1].op = "fetch"
                                                      ELSE fn = "execute" /\ HasFetch(t)
                        /\ u[k].op = "fetch" => k < Len(u) /\ u[k + 1].op = "close"
                        /\ u[k].op = "next" => fn = "fetch"
      BY DEF ReadsInOrder
    <2>1. CASE k = Len(a)
      BY <1>1, <2>1
    <2>2. CASE k < Len(a)
      <3>1. k \in 1..Len(a) /\ k + 1 \in 1..Len(a) /\ k < Len(u)
        BY <1>1, <2>2
      <3>2. u[k] = a[k] /\ u[k + 1] = a[k + 1]
        BY <1>1, <3>1
      <3>3. QED
        BY <2>2, <3>1, <3>2 DEF ReadsInOrder
    <2>3. CASE k > Len(a)
      <3> DEFINE m == k - Len(a)
      <3>1. /\ k \in Nat /\ Len(a) \in Nat /\ Len(b) \in Nat
            /\ k <= Len(a) + Len(b) /\ Len(u) = Len(a) + Len(b)
        BY <1>1
      <3>2. m \in 1..Len(b) /\ k = Len(a) + m
        BY <2>3, <3>1
      <3>3. k < Len(u) <=> m < Len(b)
        BY <3>1
      <3>4. m < Len(b) => m + 1 \in 1..Len(b) /\ k + 1 = Len(a) + (m + 1)
        BY <3>1, <3>2
      <3> HIDE DEF m
      <3>5. u[k] = b[m] /\ (m < Len(b) => u[k + 1] = b[m + 1])
        BY <1>1, <3>2, <3>4
      <3>6. QED
        BY <3>2, <3>3, <3>5 DEF ReadsInOrder
    <2>4. QED
      BY <1>1, <2>1, <2>2, <2>3
  <1>3. QED
    BY <1>1, <1>2 DEF u

LEMMA CommitReads ==
    ASSUME NEW fn, NEW t
    PROVE  CommitRead \in Seq(QuietCall) /\ ReadsInOrder(CommitRead, fn, t)
  <1>1. ReadsInOrder(<<Commit>>, fn, t) /\ ReadsInOrder(<< >>, fn, t)
    BY DEF ReadsInOrder, Commit
  <1>2. QED
    BY <1>1, CommitReadQuiet DEF CommitRead

\* Select, fetch one row, close.
LEMMA ReadOne ==
    ASSUME NEW s \in StmtNames, NEW fn, NEW t,
           NEW b, b = <<Select(s), Fetch(s), Close(s)>>
    PROVE  /\ b \in Seq(QuietCall) /\ Len(b) = 3 /\ b[3].op = "close"
           /\ b[1] = Select(s) /\ b[3] = Close(s)
           /\ ReadsInOrder(b, fn, t)
  BY QuietCalls DEF ReadsInOrder, Select, Fetch, Close

\* The grid information, where TTGridEnable has a row.
LEMMA GridInfoReads ==
    ASSUME NEW l \in BOOLEAN, GridRow # "none",
           NEW b, b = Script("execute", "ugi", l)
    PROVE  /\ ReadsInOrder(b, "execute", "ugi")
           /\ Len(b) >= 1 /\ b[1] = Select("isGrid")
           /\ GridRow = "on" /\ l => Len(b) >= 6 /\ b[6] = Close("localElement")
  <1> DEFINE short == <<Select("isGrid"), Fetch("isGrid"), Close("isGrid")>>
             local == <<Select("localElement"), Fetch("localElement"),
                        Close("localElement")>>
             rest  == IF l THEN local ELSE << >>
  <1>1. b = executeTxnUpdateGridInfo(l)
    BY DEF Script
  <1>2. /\ GridRow = "on" => b = short \o rest \o CommitRead
        /\ GridRow # "on" => b = short
    BY <1>1, ConfigAssumption DEF executeTxnUpdateGridInfo
  <1>3. /\ short \in Seq(QuietCall) /\ Len(short) = 3 /\ short[3].op = "close"
        /\ short[1] = Select("isGrid") /\ ReadsInOrder(short, "execute", "ugi")
    BY ReadOne DEF StmtNames
  <1>4. /\ local \in Seq(QuietCall) /\ Len(local) = 3 /\ local[3].op = "close"
        /\ local[3] = Close("localElement") /\ ReadsInOrder(local, "execute", "ugi")
    BY ReadOne DEF StmtNames
  <1>5. /\ << >> \in Seq(QuietCall) /\ Len(<< >>) = 0
        /\ ReadsInOrder(<< >>, "execute", "ugi")
    BY DEF ReadsInOrder
  <1>6. /\ l => rest = local
        /\ ~l => rest = << >>
    BY Zenon
  <1> HIDE DEF short, local, rest
  <1>7. rest \in Seq(QuietCall) /\ ReadsInOrder(rest, "execute", "ugi")
    <2>1. CASE l
      BY <1>4, <1>6, <2>1, Zenon
    <2>2. CASE ~l
      BY <1>5, <1>6, <2>2, Zenon
    <2>3. QED
      BY <2>1, <2>2
  <1> DEFINE most == short \o rest
  <1>8. /\ most \in Seq(QuietCall) /\ Len(most) = Len(short) + Len(rest)
        /\ \A k \in 1..Len(short) : most[k] = short[k]
        /\ \A k \in 1..Len(rest) : most[Len(short) + k] = rest[k]
        /\ ReadsInOrder(most, "execute", "ugi")
    <2>1. Len(short) >= 1 /\ short[Len(short)].op = "close"
      BY <1>3
    <2>2. QED
      BY <1>3, <1>7, <2>1, ReadsConcat, Zenon
  <1>9. most[1] = Select("isGrid")
    BY <1>3, <1>8
  <1>10. l => Len(most) = 6 /\ most[6] = Close("localElement")
    <2> SUFFICES ASSUME l
                 PROVE  Len(most) = 6 /\ most[6] = Close("localElement")
      OBVIOUS
    <2>1. rest = local /\ Len(rest) = 3
      BY <1>4, <1>6
    <2>2. most[3 + 3] = rest[3]
      BY <1>3, <1>8, <2>1
    <2>3. QED
      BY <1>3, <1>4, <1>8, <2>1, <2>2
  <1>11. ~l => Len(most) = 3 /\ most = short
    <2> SUFFICES ASSUME ~l
                 PROVE  Len(most) = 3 /\ most = short
      OBVIOUS
    <2>1. rest = << >>
      BY <1>6
    <2>2. QED
      BY <1>3, <2>1
  <1>12. Len(most) \in Nat /\ Len(most) >= 1 /\ most[Len(most)].op = "close"
    BY <1>3, <1>10, <1>11 DEF Close
  <1> HIDE DEF most
  <1>13. CASE GridRow = "on"
    <2>1. b = most \o CommitRead
      BY <1>2, <1>13 DEF most
    <2>2. CommitRead \in Seq(QuietCall) /\ ReadsInOrder(CommitRead, "execute", "ugi")
      BY CommitReads
    <2>3. /\ b \in Seq(QuietCall) /\ Len(b) = Len(most) + Len(CommitRead)
          /\ \A k \in 1..Len(most) : b[k] = most[k]
          /\ ReadsInOrder(b, "execute", "ugi")
      <3> DEFINE all == most \o CommitRead
      <3>1. /\ all \in Seq(QuietCall) /\ Len(all) = Len(most) + Len(CommitRead)
            /\ \A k \in 1..Len(most) : all[k] = most[k]
            /\ ReadsInOrder(all, "execute", "ugi")
        BY <1>8, <1>12, <2>2, ReadsConcat, Zenon
      <3>2. b = all
        BY <2>1
      <3> HIDE DEF all
      <3>3. QED
        BY <3>1, <3>2
    <2>4. Len(CommitRead) \in Nat
      BY <2>2
    <2>5. Len(b) \in Nat /\ 1 \in 1..Len(most) /\ Len(b) >= 1
      BY <1>12, <2>3, <2>4
    <2>6. Len(most) = 6 => Len(b) >= 6 /\ b[6] = most[6]
      BY <2>3, <2>4, <2>5
    <2>7. b[1] = most[1]
      BY <2>3, <2>5
    <2>8. l => Len(b) >= 6 /\ b[6] = Close("localElement")
      BY <1>10, <2>6, Zenon
    <2>9. QED
      BY <1>9, <2>3, <2>5, <2>7, <2>8
  <1>14. CASE GridRow # "on"
    BY <1>2, <1>3, <1>14
  <1>15. QED
    BY <1>13, <1>14

LEMMA CountsReads ==
    ASSUME NEW b, b = executeTxnGetCounts
    PROVE  /\ ReadsInOrder(b, "execute", "counts")
           /\ Len(b) >= 1 /\ b[1] = Select("countCustomers")
  <1> DEFINE head == <<Select("countCustomers"), Fetch("countCustomers"),
                       Close("countCustomers"), Select("countAccounts"),
                       Fetch("countAccounts"), Close("countAccounts")>>
  <1>1. b = head \o CommitRead
    BY DEF executeTxnGetCounts
  <1>2. /\ head \in Seq(QuietCall) /\ Len(head) = 6 /\ head[6].op = "close"
        /\ head[1] = Select("countCustomers")
    BY QuietCalls DEF StmtNames, Close
  <1>3. /\ head[1].op = "select" /\ head[2].op = "fetch" /\ head[3].op = "close"
        /\ head[4].op = "select" /\ head[5].op = "fetch" /\ head[6].op = "close"
    BY DEF Select, Fetch, Close
  <1> HIDE DEF head
  <1>4. ReadsInOrder(head, "execute", "counts")
    BY <1>2, <1>3 DEF ReadsInOrder
  <1>5. CommitRead \in Seq(QuietCall) /\ ReadsInOrder(CommitRead, "execute", "counts")
    BY CommitReads
  <1>6. /\ Len(b) = Len(head) + Len(CommitRead)
        /\ \A k \in 1..Len(head) : b[k] = head[k]
        /\ ReadsInOrder(b, "execute", "counts")
    <2>1. Len(head) >= 1 /\ head[Len(head)].op = "close"
      BY <1>2
    <2>2. QED
      <3> DEFINE all == head \o CommitRead
      <3>1. /\ Len(all) = Len(head) + Len(CommitRead)
            /\ \A k \in 1..Len(head) : all[k] = head[k]
            /\ ReadsInOrder(all, "execute", "counts")
        BY <1>2, <1>4, <1>5, <2>1, ReadsConcat, Zenon
      <3>2. b = all
        BY <1>1
      <3> HIDE DEF all
      <3>3. QED
        BY <3>1, <3>2
  <1>7. Len(CommitRead) \in Nat
    BY <1>5
  <1>8. QED
    BY <1>2, <1>6, <1>7

LEMMA CloseReads ==
    ASSUME NEW s \in StmtNames, NEW t, NEW b, b = <<Close(s)>> \o CommitRead
    PROVE  ReadsInOrder(b, "close", t) /\ Len(b) >= 1 /\ b[1] = Close(s)
  <1> DEFINE head == <<Close(s)>>
  <1>1. /\ head \in Seq(QuietCall) /\ Len(head) = 1 /\ head[1].op = "close"
        /\ head[1] = Close(s)
    BY QuietCalls DEF Close
  <1>2. b = head \o CommitRead
    OBVIOUS
  <1> HIDE DEF head
  <1>3. ReadsInOrder(head, "close", t)
    BY <1>1 DEF ReadsInOrder
  <1>4. CommitRead \in Seq(QuietCall) /\ ReadsInOrder(CommitRead, "close", t)
    BY CommitReads
  <1>5. /\ Len(b) = Len(head) + Len(CommitRead)
        /\ \A k \in 1..Len(head) : b[k] = head[k]
        /\ ReadsInOrder(b, "close", t)
    BY <1>1, <1>2, <1>3, <1>4, ReadsConcat
  <1>6. Len(CommitRead) \in Nat
    BY <1>4
  <1>7. QED
    BY <1>1, <1>5, <1>6

LEMMA ScriptReads ==
    ASSUME NEW fn \in Functions, NEW t \in Txns, NEW l \in BOOLEAN, GridRow # "none",
           NEW b, b = Script(fn, t, l)
    PROVE  /\ ReadsInOrder(b, fn, t)
           /\ fn = "execute" => Len(b) >= 1 /\ b[1].stmt \in Stmts \ {OnConn}
           /\ fn = "fetch" /\ HasFetch(t) => Len(b) >= 1 /\ b[1].op = "next"
           /\ fn = "close" /\ HasFetch(t) => Len(b) >= 1 /\ b[1].op = "close"
  <1> DEFINE Names == {"isGrid", "countCustomers", "truncate", "purge", "query",
                       "authorize", "chargeSelect", "topupSelect"}
  <1>0. Names \subseteq Stmts \ {OnConn}
    BY DEF Stmts, Txns, TxnTypes, InitStmts, OnConn, initTxnUpdateGridInfo, initTxnGetCounts,
           initTxnClearHistory, initTxnPurge, initTxnQuery, initTxnAuthorize,
           initTxnCharge, initTxnTopup
  <1>1. CASE fn = "execute" /\ t = "ugi"
    <2>1. ReadsInOrder(b, fn, t) /\ Len(b) >= 1 /\ b[1] = Select("isGrid")
      BY <1>1, GridInfoReads
    <2>2. QED
      BY <1>0, <1>1, <2>1 DEF Select
  <1>2. CASE fn = "execute" /\ t = "counts"
    <2>1. b = executeTxnGetCounts
      BY <1>2 DEF Script
    <2>2. ReadsInOrder(b, fn, t) /\ Len(b) >= 1 /\ b[1] = Select("countCustomers")
      BY <1>2, <2>1, CountsReads
    <2>3. QED
      BY <1>0, <1>2, <2>2 DEF Select
  <1>3. CASE fn = "execute" /\ t \in {"clear", "purge", "query", "authorize"}
    <2>1. /\ t = "clear" => b = executeTxnClearHistory
          /\ t = "purge" => b = executeTxnPurge
          /\ t = "query" => b = executeTxnQuery
          /\ t = "authorize" => b = executeTxnAuthorize
      BY <1>3 DEF Script
    <2>2. CASE t = "clear"
      BY <1>0, <1>3, <2>1, <2>2
      DEF ReadsInOrder, executeTxnClearHistory, DeleteAll, Commit
    <2>3. CASE t = "purge"
      BY <1>0, <1>3, <2>1, <2>3
      DEF ReadsInOrder, executeTxnPurge, DeleteOld, RowCount, Commit
    <2>4. CASE t = "query"
      BY <1>0, <1>3, <2>1, <2>4 DEF ReadsInOrder, HasFetch, executeTxnQuery, Select
    <2>5. CASE t = "authorize"
      BY <1>0, <1>3, <2>1, <2>5 DEF ReadsInOrder, HasFetch, executeTxnAuthorize, Select
    <2>6. QED
      BY <1>3, <2>2, <2>3, <2>4, <2>5
  <1>4. CASE fn = "execute" /\ t \in {"charge", "topup"}
    <2>1. /\ t = "charge" => b = executeTxnCharge
          /\ t = "topup" => b = executeTxnTopup
      BY <1>4 DEF Script
    <2>2. CASE t = "charge"
      <3>1. /\ Len(b) = 6 /\ b[1].stmt = "chargeSelect"
            /\ b[1].op = "select" /\ b[2].op = "fetch" /\ b[3].op = "close"
            /\ b[4].op = "update" /\ b[5].op = "insert" /\ b[6].op = "commit"
        BY <2>1, <2>2 DEF executeTxnCharge, Select, Fetch, Close, Update, Insert, Commit
      <3>2. ReadsInOrder(b, fn, t)
        BY <3>1 DEF ReadsInOrder
      <3>3. QED
        BY <1>0, <1>4, <3>1, <3>2
    <2>3. CASE t = "topup"
      <3>1. /\ Len(b) = 6 /\ b[1].stmt = "topupSelect"
            /\ b[1].op = "select" /\ b[2].op = "fetch" /\ b[3].op = "close"
            /\ b[4].op = "update" /\ b[5].op = "insert" /\ b[6].op = "commit"
        BY <2>1, <2>3 DEF executeTxnTopup, Select, Fetch, Close, Update, Insert, Commit
      <3>2. ReadsInOrder(b, fn, t)
        BY <3>1 DEF ReadsInOrder
      <3>3. QED
        BY <1>0, <1>4, <3>1, <3>2
    <2>4. QED
      BY <1>4, <2>2, <2>3
  <1>5. CASE fn = "fetch" /\ t \in {"query", "authorize"}
    BY <1>5
    DEF Script, ReadsInOrder, HasFetch, fetchTxnQuery, fetchTxnAuthorize, FetchNext
  <1>6. CASE fn = "close" /\ t \in {"query", "authorize"}
    <2>1. b = <<Close(t)>> \o CommitRead /\ t \in StmtNames
      BY <1>6 DEF Script, StmtNames, closeTxnQuery, closeTxnAuthorize
    <2>2. ReadsInOrder(b, fn, t) /\ Len(b) >= 1 /\ b[1] = Close(t)
      BY <1>6, <2>1, CloseReads
    <2>3. QED
      BY <1>6, <2>2 DEF Close
  <1>7. CASE fn # "execute" /\ t \notin {"query", "authorize"}
    BY <1>7 DEF Script, ReadsInOrder, HasFetch, Functions
  <1>8. QED
    BY <1>1, <1>2, <1>3, <1>4, <1>5, <1>6, <1>7 DEF Txns, TxnTypes, Functions

-----------------------------------------------------------------------------
\* The steps of a function: it succeeds, it fails, or it goes on.

LEMMA StmtsApart ==
    ASSUME NEW t \in Txns, NEW u \in Txns, t # u, NEW s \in InitStmts(t)
    PROVE  s \notin InitStmts(u)
  <1> USE DEF InitStmts, Txns, TxnTypes, initTxnUpdateGridInfo, initTxnGetCounts,
              initTxnClearHistory, initTxnPurge, initTxnQuery, initTxnAuthorize,
              initTxnCharge, initTxnTopup
  <1>1. CASE t \in {"ugi", "counts", "clear"}
    BY <1>1
  <1>2. CASE t \in {"purge", "query", "authorize"}
    BY <1>2
  <1>3. CASE t \in {"charge", "topup"}
    BY <1>3
  <1>4. QED
    BY <1>1, <1>2, <1>3

LEMMA StmtOf == /\ \A t \in Txns : InitStmts(t) \subseteq Stmts
                /\ "localElement" \in InitStmts("ugi") /\ "ugi" \in Txns
  BY DEF Stmts, InitStmts, initTxnUpdateGridInfo, Txns, TxnTypes

LEMMA InitReady ==
    ASSUME TInv, InitSucceeds, NEW u \in Txns, u = call.txn
    PROVE  /\ Ready(u)'
           /\ \A t \in Txns : Ready(t) => Ready(t)'
           /\ u # "ugi" => stmt'["localElement"] = stmt["localElement"]
  <1>1. PICK local \in {"null", "live"} :
               stmt' = [s \in Stmts |->
                          IF s \notin InitStmts(u) THEN stmt[s]
                          ELSE IF s = "localElement" THEN local ELSE "live"]
    BY DEF InitSucceeds
  <1>2. \A s \in InitStmts(u) : stmt'[s] = IF s = "localElement" THEN local ELSE "live"
    <2>1. InitStmts(u) \subseteq Stmts
      BY StmtOf
    <2>2. QED
      BY <1>1, <2>1
  <1>3. \A s \in Stmts : s \notin InitStmts(u) => stmt'[s] = stmt[s]
    BY <1>1
  <1>4. Ready(u)'
    BY <1>1, <1>2 DEF Ready
  <1>5. ASSUME NEW t \in Txns, Ready(t)
        PROVE  Ready(t)'
    <2>1. CASE t = u
      BY <1>4, <2>1
    <2>2. CASE t # u
      <3>1. \A s \in InitStmts(t) : s \in Stmts /\ s \notin InitStmts(u)
        BY <2>2, StmtsApart, StmtOf
      <3>2. QED
        BY <1>3, <1>5, <3>1 DEF Ready
    <2>3. QED
      BY <2>1, <2>2
  <1>6. u # "ugi" => stmt'["localElement"] = stmt["localElement"]
    <2> SUFFICES ASSUME u # "ugi"
                 PROVE  stmt'["localElement"] = stmt["localElement"]
      OBVIOUS
    <2>1. "localElement" \in Stmts /\ "localElement" \notin InitStmts(u)
      BY StmtOf, StmtsApart
    <2>2. QED
      BY <1>3, <2>1
  <1>7. QED
    BY <1>4, <1>5, <1>6

LEMMA NoneStale ==
    ASSUME NEW st \in [Stmts -> {"null", "live", "stale"}], stmt' = Stale(st)
    PROVE  NoneLive'
  BY DEF Stale, NoneLive

LEMMA FailedStep ==
    ASSUME TInv, InitFails \/ CallFails
    PROVE  /\ Idle' /\ ret' \in ErrorClass
           /\ \/ NoneLive'
              \/ /\ elem' = elem
                 /\ stmt' = stmt \/ call.fn = "init"
                 /\ stmt'["localElement"] \in {stmt["localElement"], "null"}
  <1> USE DEF TInv, TypeOK, HandlesOK
  <1>0. "localElement" \in Stmts
    BY StmtOf
  <1>1. ASSUME NEW class \in ErrorClass, NEW moved \in BOOLEAN, NEW silent \in BOOLEAN,
               NEW kept, NEW left \in [Stmts -> {"null", "live", "stale"}],
               ErrorPath(class, moved, silent, kept, left)
        PROVE  /\ Idle' /\ ret' \in ErrorClass
               /\ NoneLive' \/ (elem' = elem /\ stmt' = left)
    <2>1. Idle'
      BY <1>1, ReturnIdle DEF ErrorPath
    <2>2. ret' \in ErrorClass
      BY <1>1 DEF ErrorPath, Return
    <2>3. CASE moved \/ silent
      <3>1. stmt' = Stale(left)
        BY <1>1, <2>3 DEF ErrorPath
      <3>2. QED
        BY <2>1, <2>2, <3>1, NoneStale
    <2>4. CASE ~moved /\ ~silent
      <3>1. stmt' = left
        BY <1>1, <2>4 DEF ErrorPath
      <3>2. elem' = elem
        BY <1>1, <2>4 DEF ErrorPath, OuterOK
      <3>3. QED
        BY <2>1, <2>2, <3>1, <3>2
    <2>5. QED
      BY <2>3, <2>4
  <1>2. CASE InitFails
    <2> DEFINE freed == [s \in Stmts |-> IF s \in InitStmts(call.txn) THEN "null"
                                                                      ELSE stmt[s]]
    <2>1. /\ freed \in [Stmts -> {"null", "live", "stale"}]
          /\ freed["localElement"] \in {stmt["localElement"], "null"}
      BY <1>0
    <2>2. PICK class \in ErrorClass, moved \in BOOLEAN, silent \in BOOLEAN :
               ErrorPath(class, moved, silent, FALSE, freed)
      BY <1>2 DEF InitFails
    <2>3. call.fn = "init"
      BY <1>2 DEF InitFails
    <2> HIDE DEF freed
    <2>4. /\ Idle' /\ ret' \in ErrorClass
          /\ NoneLive' \/ (elem' = elem /\ stmt' = freed)
      BY <1>1, <2>1, <2>2
    <2>5. QED
      BY <2>1, <2>3, <2>4
  <1>3. CASE CallFails
    <2>1. PICK class \in ErrorClass, moved \in BOOLEAN, silent \in BOOLEAN,
               kept \in BOOLEAN : ErrorPath(class, moved, silent, kept, stmt)
      BY <1>3 DEF CallFails
    <2>2. /\ Idle' /\ ret' \in ErrorClass
          /\ NoneLive' \/ (elem' = elem /\ stmt' = stmt)
      BY <1>1, <2>1
    <2>3. QED
      BY <2>2
  <1>4. QED
    BY <1>2, <1>3

LEMMA SucceededStep ==
    ASSUME TInv, TxnFunction, ~InitSucceeds, ~InitFails, ~CallFails
    PROVE  /\ call.fn # "init" /\ stmt' = stmt /\ Usable(Op.stmt)
           /\ elem' = elem \/ elem' = TRUE
           /\ Op.op = "close" /\ Op.stmt = "localElement" => elem' = TRUE
           /\ \/ Advance
              \/ Op.op = "next" /\ Idle' /\ ret' \in {"success", "nodata"}
  <1>1. CASE ExecuteSelect \/ FetchRow \/ GetRowCount
    BY <1>1 DEF ExecuteSelect, FetchRow, GetRowCount, Calls, handles
  <1>2. CASE FetchNextRow
    <2>1. Op.op = "next" /\ call.fn # "init" /\ Usable(Op.stmt) /\ stmt' = stmt /\ elem' = elem
      BY <1>2 DEF FetchNextRow, Calls
    <2>2. Return("success") \/ Return("nodata")
      BY <1>2 DEF FetchNextRow
    <2>3. Idle' /\ ret' \in {"success", "nodata"}
      BY <2>2, ReturnIdle DEF Return, TInv
    <2>4. QED
      BY <2>1, <2>3
  <1>3. CASE CloseCursor
    BY <1>3 DEF CloseCursor, Calls
  <1>4. CASE ExecuteUpdate \/ ExecuteInsert \/ ODBCCommit
    BY <1>4 DEF ExecuteUpdate, ExecuteInsert, ODBCCommit, Calls, handles
  <1>5. CASE ExecuteDelete
    BY <1>5 DEF ExecuteDelete, Calls, handles
  <1>6. QED
    BY <1>1, <1>2, <1>3, <1>4, <1>5 DEF TxnFunction

\* What a call that reads is followed by.
LEMMA OpReads ==
    ASSUME TypeOK, InScript, ~Idle, call.fn # "init", GridRow # "none"
    PROVE  /\ call.at \in 1..Len(Body)
           /\ Op.op = "select" => IF call.at < Len(Body)
                                  THEN Body[call.at + 1].op = "fetch"
                                  ELSE call.fn = "execute" /\ HasFetch(call.txn)
           /\ Op.op = "fetch" => call.at < Len(Body) /\ Body[call.at + 1].op = "close"
           /\ Op.op = "next" => call.fn = "fetch"
           /\ call.fn = "execute" /\ call.at = 1 => Op.stmt \in Stmts \ {OnConn}
           /\ call.fn = "execute" /\ call.txn = "ugi" /\ GridRow = "on"
                 /\ stmt["localElement"] # "null" =>
                 Len(Body) >= 6 /\ Body[6] = Close("localElement")
  <1> DEFINE l == stmt["localElement"] # "null"
  <1>1. call.at \in 1..Len(Body)
    BY BodyCalls
  <1>2. l \in BOOLEAN /\ call.fn \in Functions /\ call.txn \in Txns
    BY DEF InScript
  <1>3. Body = Script(call.fn, call.txn, l)
    BY DEF Body
  <1>4. /\ ReadsInOrder(Body, call.fn, call.txn)
        /\ call.fn = "execute" => Body[1].stmt \in Stmts \ {OnConn}
    BY <1>2, <1>3, ScriptReads
  <1>5. call.fn = "execute" /\ call.txn = "ugi" /\ GridRow = "on" /\ l =>
            Len(Body) >= 6 /\ Body[6] = Close("localElement")
    <2> SUFFICES ASSUME call.fn = "execute", call.txn = "ugi", GridRow = "on", l
                 PROVE  Len(Body) >= 6 /\ Body[6] = Close("localElement")
      BY Zenon
    <2>1. Body = Script("execute", "ugi", l)
      BY <1>3
    <2>2. QED
      BY <1>2, <2>1, GridInfoReads
  <1>6. QED
    BY <1>1, <1>4, <1>5 DEF ReadsInOrder, Op

-----------------------------------------------------------------------------
\* The invariant and the functions of the transactions.

LEMMA PlanCalls ==
    /\ InPlan(StartupPlan) => call.fn \in {"init", "execute"} /\ call.txn \in Txns
    /\ InPlan(ReprepPlan) => call.fn \in {"init", "execute"} /\ call.txn \in Txns
  <1>1. ASSUME NEW plan \in Seq(PlanCall), InPlan(plan)
        PROVE  call.fn \in {"init", "execute"} /\ call.txn \in Txns
    <2>1. plan[pos] \in PlanCall
      BY <1>1 DEF InPlan
    <2>2. QED
      BY <1>1, <2>1 DEF InPlan, PlanCall
  <1>2. QED
    BY <1>1, StartupPlanType, ReprepPlanType

\* The transaction of the active function; where it is read from a plan.
LEMMA ActiveTxn ==
    ASSUME TInv, LInv, CInv, Prepared, ~Idle
    PROVE  /\ call.txn \in Txns
           /\ call.fn = "init" => pc \in {"startup", "reprepare"}
  <1>1. pc \in {"startup", "clear", "reprepare", "run"}
    BY ActiveDriver DEF TInv, TypeOK, DriverOK, PCs
  <1>2. call.fn = "init" => pc \in {"startup", "reprepare"}
    BY <1>1 DEF Prepared, PreparedStartup, PreparedWorkload
  <1>3. CASE pc = "startup"
    BY <1>2, <1>3, PlanCalls DEF Prepared, PreparedStartup
  <1>4. CASE pc = "reprepare"
    BY <1>2, <1>4, PlanCalls DEF Prepared, PreparedWorkload
  <1>5. CASE pc \in {"clear", "run"}
    <2>1. call.fn # "init"
      BY <1>2, <1>5
    <2>2. QED
      BY <1>2, <2>1 DEF LInv, InScript
  <1>6. QED
    BY <1>1, <1>3, <1>4, <1>5

\* Where the script goes next, the call is the one behind.
LEMMA NextOp ==
    ASSUME TypeOK, InScript, ~Idle, call.fn # "init", Advance, stmt' = stmt,
           call.at < Len(Body)
    PROVE  ~Idle' /\ call'.fn # "init" /\ Op' = Body[call.at + 1]
  <1>1. /\ ~Idle' /\ call'.fn = call.fn /\ call'.txn = call.txn
        /\ call'.at = call.at + 1
    BY AdvanceInScript
  <1>2. Body' = Body
    BY <1>1, Zenon DEF Body
  <1>3. QED
    BY <1>1, <1>2 DEF Op

LEMMA TxnFunctionCursors ==
    ASSUME TInv, LInv, CInv, PInv, TxnFunction, GridRow # "none"
    PROVE  CursorsClosed'
  <1> USE DEF TInv, TypeOK, HandlesOK, LInv, PInv
  <1>1. /\ ~Idle /\ call'.fn = call.fn /\ call'.txn = call.txn
        /\ pc' = pc /\ cur' = cur
    BY SameFunction, TxnFunctionFrame DEF driver
  <1>2. pc \notin {"disconnect", "cleanup", "exit"}
    BY <1>1, ActiveDriver
  <1>3. /\ call.txn \in Txns
        /\ call.fn = "init" => pc \in {"startup", "reprepare"}
    BY <1>1, ActiveTxn
  <1>4. \A t \in Txns : cursor[t] => /\ t = call.txn /\ call.fn # "init"
                                     /\ Op.op \in {"fetch", "next", "close"}
    BY <1>1, <1>2 DEF CursorsClosed, Reading
  <1>5. ASSUME \A t \in Txns : ~cursor'[t]
        PROVE  CursorsClosed'
    BY <1>5 DEF CursorsClosed
  <1>6. CASE InitSucceeds \/ InitFails
    <2>1. cursor' = cursor /\ call.fn = "init"
      BY <1>6 DEF InitSucceeds, InitFails
    <2>2. QED
      BY <1>4, <1>5, <2>1
  <1>7. CASE CallFails
    <2>1. \A t \in Txns : cursor'[t] => cursor[t] /\ t # call.txn
      BY <1>7 DEF CallFails, ClearedCursor
    <2>2. QED
      BY <1>4, <1>5, <2>1
  <1>8. CASE CloseCursor
    <2>1. \A t \in Txns : cursor'[t] => cursor[t] /\ t # call.txn
      BY <1>8 DEF CloseCursor
    <2>2. QED
      BY <1>4, <1>5, <2>1
  <1>9. CASE ExecuteUpdate \/ ExecuteInsert \/ ExecuteDelete \/ GetRowCount \/ ODBCCommit
    <2>1. cursor' = cursor /\ Op.op \notin {"fetch", "next", "close"}
      BY <1>9 DEF ExecuteUpdate, ExecuteInsert, ExecuteDelete, GetRowCount, ODBCCommit,
                  Calls, handles
    <2>2. QED
      BY <1>4, <1>5, <2>1
  <1>10. ASSUME call.fn # "init", \A t \in Txns : cursor'[t] => t = call.txn, Reading'
         PROVE  CursorsClosed'
    BY <1>1, <1>10 DEF CursorsClosed
  <1>11. CASE ExecuteSelect
    <2>1. /\ Op.op = "select" /\ call.fn # "init" /\ Advance /\ stmt' = stmt
          /\ cursor' = [cursor EXCEPT ![call.txn] = TRUE]
      BY <1>11 DEF ExecuteSelect, Calls
    <2>2. \A t \in Txns : cursor'[t] => t = call.txn
      BY <1>4, <2>1
    <2>3. CASE call.at < Len(Body)
      <3>1. Body[call.at + 1].op = "fetch"
        BY <1>1, <2>1, <2>3, OpReads
      <3>2. ~Idle' /\ call'.fn # "init" /\ Op' = Body[call.at + 1]
        BY <1>1, <2>1, <2>3, NextOp
      <3>3. Op'.op = "fetch"
        BY <3>1, <3>2
      <3>4. Reading'
        BY <3>2, <3>3 DEF Reading
      <3>5. QED
        BY <1>10, <2>1, <2>2, <3>4
    <2>4. CASE ~(call.at < Len(Body))
      <3>1. call.fn = "execute" /\ HasFetch(call.txn)
        BY <1>1, <2>1, <2>4, OpReads
      <3>2. Idle' /\ ret' = "success"
        BY <1>1, <2>1, <2>4, Stepping DEF Idle
      <3>3. pc = "run"
        <4>1. pc \in {"startup", "clear", "reprepare", "run"}
          BY <1>1, ActiveDriver DEF DriverOK, PCs
        <4>2. call.txn \notin {"ugi", "counts", "clear"}
          BY <3>1 DEF HasFetch
        <4>3. QED
          BY <3>1, <4>1, <4>2 DEF CInv, RunsCurrent
      <3>4. cur = call.txn
        BY <3>3 DEF CInv, RunsCurrent
      <3>5. Reading'
        BY <1>1, <3>1, <3>2, <3>3, <3>4 DEF Reading
      <3>6. QED
        BY <1>10, <2>1, <2>2, <3>5
    <2>5. QED
      BY <2>3, <2>4
  <1>12. CASE FetchRow
    <2>1. /\ Op.op = "fetch" /\ call.fn # "init" /\ Advance /\ stmt' = stmt
          /\ cursor' = cursor
      BY <1>12 DEF FetchRow, Calls, handles
    <2>2. call.at < Len(Body) /\ Body[call.at + 1].op = "close"
      BY <1>1, <2>1, OpReads
    <2>3. ~Idle' /\ call'.fn # "init" /\ Op' = Body[call.at + 1]
      BY <1>1, <2>1, <2>2, NextOp
    <2>4. Op'.op = "close"
      BY <2>2, <2>3
    <2>5. Reading'
      BY <2>3, <2>4 DEF Reading
    <2>6. QED
      BY <1>4, <1>10, <2>1, <2>5
  <1>13. CASE FetchNextRow
    <2>1. /\ Op.op = "next" /\ call.fn # "init" /\ cursor' = cursor
          /\ Return("success") \/ Return("nodata")
      BY <1>13 DEF FetchNextRow, Calls
    <2>2. Idle' /\ ret' \in {"success", "nodata"}
      BY <2>1, ReturnIdle DEF Return
    <2>3. call.fn = "fetch"
      BY <1>1, <2>1, OpReads
    <2>4. pc = "run" /\ HasFetch(cur)
      <3>1. pc \in {"startup", "clear", "reprepare", "run"}
        BY <1>1, ActiveDriver DEF DriverOK, PCs
      <3>2. pc \notin {"clear", "startup", "reprepare"}
        <4>1. pc # "clear"
          BY <2>3 DEF Prepared, PreparedStartup
        <4>2. pc # "startup"
          BY <2>3, PlanCalls DEF Prepared, PreparedStartup
        <4>3. pc # "reprepare"
          BY <2>3, PlanCalls DEF Prepared, PreparedWorkload
        <4>4. QED
          BY <4>1, <4>2, <4>3
      <3>3. QED
        BY <2>3, <3>1, <3>2 DEF CInv, RunsCurrent
    <2>5. Reading'
      BY <1>1, <2>2, <2>3, <2>4 DEF Reading
    <2>6. QED
      BY <1>4, <1>10, <2>1, <2>5
  <1>14. QED
    BY <1>6, <1>7, <1>8, <1>9, <1>11, <1>12, <1>13 DEF TxnFunction

LEMMA StmtKept ==
    ASSUME stmt' = stmt
    PROVE  /\ \A t : Ready(t)' <=> Ready(t)
           /\ AllReady' <=> AllReady
           /\ NoneLive' <=> NoneLive
  BY DEF AllReady, Ready, NoneLive

\* A function that fails ends the plan it was in.
LEMMA FailedPrepared ==
    ASSUME TInv, LInv, CInv, Prepared, TxnFunction, InitFails \/ CallFails
    PROVE  Prepared'
  <1>1. /\ ~Idle /\ call'.fn = call.fn /\ call'.txn = call.txn
        /\ pc' = pc /\ pos' = pos /\ needReprepare' = needReprepare
    BY SameFunction, TxnFunctionFrame DEF TInv, driver
  <1>2. pc \in {"startup", "clear", "reprepare", "run"}
    BY <1>1, ActiveDriver DEF TInv, TypeOK, DriverOK, PCs
  <1>3. /\ Idle' /\ ret' \in ErrorClass
        /\ NoneLive' \/ stmt' = stmt \/ call.fn = "init"
    BY FailedStep
  <1>4. ~Working' /\ Refused'
    BY <1>3 DEF Working, Refused, ErrorClass
  <1>5. PreparedStartup'
    BY <1>1, <1>2, <1>4 DEF Prepared, PreparedStartup, InPlan
  <1>6. CASE pc # "run"
    BY <1>1, <1>2, <1>4, <1>5, <1>6 DEF Prepared, PreparedWorkload, InPlan
  <1>7. CASE pc = "run"
    <2>1. call.fn # "init" /\ (AllReady \/ NoneLive)
      BY <1>7 DEF Prepared, PreparedWorkload
    <2>2. AllReady' \/ NoneLive'
      BY <1>3, <2>1, StmtKept
    <2>3. QED
      BY <1>1, <1>4, <1>5, <1>7, <2>1, <2>2 DEF Prepared, PreparedWorkload
  <1>8. QED
    BY <1>6, <1>7

\* A function that does not fail keeps what is prepared.
LEMMA WorkingPlan ==
    ASSUME TInv, TxnFunction, ~InitFails, ~CallFails, call.txn \in Txns,
           NEW plan \in Seq(PlanCall), InPlan(plan), Followed(plan)
    PROVE  InPlan(plan)' /\ Followed(plan)'
  <1>1. /\ ~Idle /\ call'.fn = call.fn /\ call'.txn = call.txn /\ pos' = pos
    BY SameFunction, TxnFunctionFrame DEF TInv, driver
  <1>2. InPlan(plan)'
    BY <1>1 DEF InPlan
  <1>3. \A t \in Txns : Ready(t) => Ready(t)'
    <2>1. CASE InitSucceeds
      BY <2>1, InitReady
    <2>2. CASE ~InitSucceeds
      BY <2>2, SucceededStep, StmtKept
    <2>3. QED
      BY <2>1, <2>2
  <1>4. ASSUME NEW t \in Txns, t = call.txn, call.fn = "init"
        PROVE  Ready(t)'
    <2>1. InitSucceeds
      BY <1>4, SucceededStep
    <2>2. QED
      BY <1>4, <2>1, InitReady
  <1>5. Followed(plan)'
    <2> SUFFICES ASSUME NEW j \in 1..Len(plan), plan[j].fn = "init",
                        j < pos' \/ (j = pos' /\ Idle')
                 PROVE  Ready(plan[j].txn)'
      BY DEF Followed
    <2>1. plan[j].txn \in Txns
      <3>1. plan[j] \in PlanCall
        OBVIOUS
      <3>2. QED
        BY <3>1 DEF PlanCall
    <2> DEFINE t == plan[j].txn
    <2>2. t \in Txns
      BY <2>1
    <2>3. CASE j < pos
      <3>1. Ready(t)
        BY <2>3 DEF Followed
      <3> HIDE DEF t
      <3>2. Ready(t)'
        BY <1>3, <2>2, <3>1
      <3>3. QED
        BY <3>2 DEF t
    <2>4. CASE j = pos
      <3>1. t = call.txn /\ call.fn = "init"
        BY <2>4 DEF InPlan
      <3> HIDE DEF t
      <3>2. Ready(t)'
        BY <1>4, <2>2, <3>1
      <3>3. QED
        BY <3>2 DEF t
    <2>5. QED
      BY <1>1, <2>3, <2>4
  <1>6. QED
    BY <1>2, <1>5

LEMMA SucceededPrepared ==
    ASSUME TInv, LInv, CInv, Prepared, TxnFunction, ~InitFails, ~CallFails,
           GridRow # "none"
    PROVE  Prepared'
  <1>1. /\ ~Idle /\ call'.fn = call.fn /\ call'.txn = call.txn
        /\ pc' = pc /\ needReprepare' = needReprepare
    BY SameFunction, TxnFunctionFrame DEF TInv, driver
  <1>2. pc \in {"startup", "clear", "reprepare", "run"}
    BY <1>1, ActiveDriver DEF TInv, TypeOK, DriverOK, PCs
  <1>3. call.txn \in Txns /\ (call.fn = "init" => pc \in {"startup", "reprepare"})
    BY <1>1, ActiveTxn
  <1>4. Working
    BY <1>1 DEF Working
  <1>5. CASE pc = "startup"
    <2>1. InPlan(StartupPlan) /\ Followed(StartupPlan)
      BY <1>4, <1>5 DEF Prepared, PreparedStartup
    <2>2. InPlan(StartupPlan)' /\ Followed(StartupPlan)'
      BY <1>3, <2>1, StartupPlanType, WorkingPlan
    <2>3. QED
      BY <1>1, <1>5, <2>2 DEF Prepared, PreparedStartup, PreparedWorkload
  <1>6. CASE pc = "reprepare"
    <2>1. needReprepare /\ InPlan(ReprepPlan) /\ Followed(ReprepPlan)
      BY <1>4, <1>6 DEF Prepared, PreparedWorkload
    <2>2. InPlan(ReprepPlan)' /\ Followed(ReprepPlan)'
      BY <1>3, <2>1, ReprepPlanType, WorkingPlan
    <2>3. QED
      BY <1>1, <1>6, <2>1, <2>2 DEF Prepared, PreparedStartup, PreparedWorkload
  <1>7. CASE pc \in {"clear", "run"}
    <2>1. call.fn # "init" /\ ~InitSucceeds
      BY <1>3, <1>7 DEF InitSucceeds
    <2>2. stmt' = stmt /\ Usable(Op.stmt)
      BY <2>1, SucceededStep
    <2>3. AllReady' <=> AllReady
      BY <2>2, StmtKept
    <2>4. CASE pc = "clear"
      BY <1>1, <1>4, <2>3, <2>4 DEF Prepared, PreparedStartup, PreparedWorkload
    <2>5. CASE pc = "run"
      <3>1. AllReady \/ (NoneLive /\ Untouched)
        BY <1>1, <2>5 DEF Prepared, PreparedWorkload, Refused
      <3>2. ~(NoneLive /\ Untouched)
        <4>1. call.fn = "execute" /\ call.at = 1 => Op.stmt \in Stmts \ {OnConn}
          BY <1>1, <2>1, OpReads DEF TInv, LInv
        <4>2. QED
          BY <2>2, <4>1 DEF Untouched, NoneLive, Usable
      <3>3. AllReady'
        BY <2>3, <3>1, <3>2
      <3>4. QED
        BY <1>1, <2>1, <2>5, <3>3 DEF Prepared, PreparedStartup, PreparedWorkload
    <2>6. QED
      BY <1>7, <2>4, <2>5
  <1>8. QED
    BY <1>2, <1>5, <1>6, <1>7

LEMMA TxnFunctionPrepared ==
    ASSUME TInv, LInv, CInv, Prepared, TxnFunction, GridRow # "none"
    PROVE  Prepared'
  BY FailedPrepared, SucceededPrepared

LEMMA TxnFunctionElement ==
    ASSUME TInv, LInv, CInv, PInv, TxnFunction, GridRow # "none"
    PROVE  ElementKnown'
  <1> USE DEF PInv
  <1>1. /\ ~Idle /\ call'.fn = call.fn /\ call'.txn = call.txn
        /\ pc' = pc /\ pos' = pos
    BY SameFunction, TxnFunctionFrame DEF TInv, driver
  <1>2. pc \in {"startup", "clear", "reprepare", "run"}
    BY <1>1, ActiveDriver DEF TInv, TypeOK, DriverOK, PCs
  <1>3. call.txn \in Txns /\ (call.fn = "init" => pc \in {"startup", "reprepare"})
    BY <1>1, ActiveTxn
  <1>4. "localElement" \in Stmts
    BY StmtOf
  <1>5. SUFFICES ASSUME GridRow = "on", stmt'["localElement"] = "live"
                 PROVE  elem' \/ ToLearn'
    BY DEF ElementKnown
  <1>6. CASE InitFails \/ CallFails
    <2>1. /\ Idle' /\ ret' \in ErrorClass
          /\ elem' = elem /\ stmt'["localElement"] \in {stmt["localElement"], "null"}
      BY <1>4, <1>5, <1>6, FailedStep DEF NoneLive
    <2>2. elem \/ ToLearn
      BY <1>5, <2>1 DEF ElementKnown
    <2>3. CASE ToLearn
      <3>1. pc \in {"startup", "reprepare"}
        BY <1>2, <2>3 DEF ToLearn
      <3>2. ~Working'
        BY <2>1 DEF Working, ErrorClass
      <3>3. QED
        BY <1>1, <3>1, <3>2 DEF ToLearn
    <2>4. QED
      BY <2>1, <2>2, <2>3
  <1>7. CASE InitSucceeds
    <2>1. call.fn = "init" /\ elem' = elem
      BY <1>7 DEF InitSucceeds
    <2>2. CASE pc = "startup"
      <3>1. InPlan(StartupPlan)
        BY <2>2 DEF Prepared, PreparedStartup
      <3>2. CASE call.txn = "ugi"
        <4>1. pos = 1
          BY <2>1, <3>1, <3>2, StartupPlanFacts DEF InPlan
        <4>2. QED
          BY <1>1, <2>2, <4>1 DEF ToLearn
      <3>3. CASE call.txn # "ugi"
        <4>1. stmt["localElement"] = "live"
          BY <1>3, <1>5, <1>7, <3>3, InitReady
        <4>2. pos # 2
          BY <2>1, <3>1, StartupPlanFacts DEF InPlan
        <4>3. elem \/ pos = 1
          BY <1>1, <1>5, <2>2, <4>1, <4>2 DEF ElementKnown, ToLearn, Working
        <4>4. QED
          BY <1>1, <2>1, <2>2, <4>3 DEF ToLearn
      <3>4. QED
        BY <3>2, <3>3
    <2>3. CASE pc = "reprepare"
      <3>1. InPlan(ReprepPlan)
        BY <2>3 DEF Prepared, PreparedWorkload
      <3>2. pos < Len(ReprepPlan)
        BY <2>1, <3>1, ReprepPlanFacts DEF InPlan
      <3>3. QED
        BY <1>1, <2>3, <3>2 DEF ToLearn
    <2>4. QED
      BY <1>3, <2>1, <2>2, <2>3
  <1>8. CASE ~InitFails /\ ~CallFails /\ ~InitSucceeds
    <2>1. /\ call.fn # "init" /\ stmt' = stmt
          /\ elem' = elem \/ elem' = TRUE
          /\ Op.op = "close" /\ Op.stmt = "localElement" => elem' = TRUE
          /\ Advance \/ Op.op = "next"
      BY <1>8, SucceededStep
    <2>2. TypeOK /\ InScript
      BY DEF TInv, LInv
    <2>3. SUFFICES ASSUME ~elem'
                   PROVE  ToLearn'
      OBVIOUS
    <2>4. ToLearn
      BY <1>5, <2>1, <2>3 DEF ElementKnown
    <2>5. ASSUME call.txn = "ugi", call.fn = "execute", call.at <= 6
          PROVE  ~Idle' /\ call'.at <= 6
      <3>1. Len(Body) >= 6 /\ Body[6] = Close("localElement") /\ call.at \in 1..Len(Body)
        BY <1>1, <1>5, <2>1, <2>2, <2>5, OpReads
      <3>2. Op.op # "next"
        BY <1>1, <1>5, <2>1, <2>2, <2>5, OpReads
      <3>3. Advance
        BY <2>1, <3>2
      <3>4. call.at # 6
        BY <2>1, <2>3, <3>1 DEF Op, Close
      <3>5. call.at < 6 /\ call.at \in Nat
        BY <2>5, <3>1, <3>4
      <3>6. \/ call.at < Len(Body) /\ call'.at = call.at + 1
            \/ call.at = Len(Body)
        BY <1>1, <2>1, <2>2, <3>3, Stepping
      <3>7. call'.at = call.at + 1
        BY <3>1, <3>5, <3>6
      <3>8. QED
        BY <3>5, <3>7 DEF Idle
    <2>6. CASE pc = "startup"
      <3>1. InPlan(StartupPlan)
        BY <2>6 DEF Prepared, PreparedStartup
      <3>2. pos = 1 \/ (pos = 2 /\ call.at <= 6)
        BY <1>1, <2>4, <2>6 DEF ToLearn, Working
      <3>3. pos # 1
        BY <2>1, <3>1, StartupPlanFacts DEF InPlan
      <3>4. call.txn = "ugi" /\ call.fn = "execute"
        BY <3>1, <3>2, <3>3, StartupPlanFacts DEF InPlan
      <3>5. QED
        BY <1>1, <2>5, <2>6, <3>2, <3>3, <3>4 DEF ToLearn
    <2>7. CASE pc = "reprepare"
      <3>1. InPlan(ReprepPlan)
        BY <2>7 DEF Prepared, PreparedWorkload
      <3>2. pos = Len(ReprepPlan)
        BY <2>1, <3>1, ReprepPlanFacts DEF InPlan
      <3>3. call.txn = "ugi" /\ call.fn = "execute"
        BY <3>1, <3>2, ReprepPlanFacts DEF InPlan
      <3>4. call.at <= 6
        BY <1>1, <2>4, <2>7, <3>2, ReprepPlanFacts DEF ToLearn, Working
      <3>5. QED
        BY <1>1, <2>5, <2>7, <3>3, <3>4 DEF ToLearn
    <2>8. QED
      BY <1>2, <2>4, <2>6, <2>7 DEF ToLearn
  <1>9. QED
    BY <1>6, <1>7, <1>8

-----------------------------------------------------------------------------
\* The invariant and the driver.

LEMMA InitPInv == Init => PInv
  <1> SUFFICES ASSUME Init
               PROVE  PInv
    OBVIOUS
  <1>1. pc = "args" /\ stmt["localElement"] = "null" /\ \A t \in Txns : ~cursor[t]
    BY StmtOf DEF Init
  <1>2. QED
    BY <1>1
    DEF PInv, Prepared, PreparedStartup, PreparedWorkload, CursorsClosed, ElementKnown

\* Outside the fetch loop of executeTxnGrid no cursor is open.
LEMMA IdleCursors ==
    ASSUME CursorsClosed, Idle, pc \notin {"disconnect", "cleanup", "exit"},
           pc # "run" \/ ret \notin {"success", "nodata", "state"} \/ call.fn = "close"
              \/ ~HasFetch(cur)
    PROVE  \A t \in Txns : ~cursor[t]
  BY DEF CursorsClosed, Reading

LEMMA NoCursors ==
    ASSUME \A t \in Txns : ~cursor[t], cursor' = cursor
    PROVE  CursorsClosed'
  BY DEF CursorsClosed

\* Entering a function: an execute function may be refused, an init function
\* is not.
LEMMA Entered ==
    ASSUME NEW f \in {"init", "execute", "fetch", "close"}, NEW t \in Txns, Enter(f, t)
    PROVE  /\ call'.fn = f /\ call'.txn = t
           /\ \/ ~Idle' /\ call'.at = 1
              \/ Idle' /\ ret' = Entry(f, t) /\ Entry(f, t) # "go" /\ f # "init"
           /\ f \in {"init", "execute"} /\ Working' => ~Idle' /\ call'.at = 1
  <1>1. Entry("init", t) = "go" /\ Entry("execute", t) # "success"
    BY DEF Entry
  <1>2. /\ call'.fn = f /\ call'.txn = t
        /\ call'.at = (IF Entry(f, t) = "go" THEN 1 ELSE 0)
        /\ Entry(f, t) # "go" => ret' = Entry(f, t)
    BY DEF Enter
  <1>3. QED
    BY <1>1, <1>2 DEF Idle, Working

\* A step of a plan: what has been prepared so far stays prepared.
LEMMA PlanStep ==
    ASSUME NEW plan \in Seq(PlanCall), pos \in Nat, pos' = pos + 1, pos' \in 1..Len(plan),
           \A j \in 1..Len(plan) : plan[j].fn = "init" /\ j <= pos => Ready(plan[j].txn),
           Enter(plan[pos + 1].fn, plan[pos + 1].txn), stmt' = stmt
    PROVE  InPlan(plan)' /\ (Working' => Followed(plan)' /\ ~Idle' /\ call'.at = 1)
  <1> DEFINE c == plan[pos + 1]
  <1>1. c \in PlanCall
    OBVIOUS
  <1>2. c.fn \in {"init", "execute"} /\ c.txn \in Txns
    BY <1>1 DEF PlanCall
  <1>3. /\ call'.fn = c.fn /\ call'.txn = c.txn
        /\ Working' => ~Idle' /\ call'.at = 1
    BY <1>2, Entered
  <1>4. InPlan(plan)'
    BY <1>3 DEF InPlan
  <1>5. ASSUME Working'
        PROVE  Followed(plan)'
    <2> SUFFICES ASSUME NEW j \in 1..Len(plan), plan[j].fn = "init",
                        j < pos' \/ (j = pos' /\ Idle')
                 PROVE  Ready(plan[j].txn)'
      BY DEF Followed
    <2>1. j <= pos
      BY <1>3, <1>5
    <2>2. Ready(plan[j].txn)
      BY <2>1
    <2>3. QED
      BY <2>2, StmtKept DEF Ready
  <1>6. QED
    BY <1>3, <1>4, <1>5

\* A plan followed to its end has prepared every transaction.
LEMMA PlanDone ==
    ASSUME NEW plan \in Seq(PlanCall), pos \in Nat, InPlan(plan), Followed(plan), Idle,
           ~(pos < Len(plan)),
           \A t \in Created : \E j \in 1..Len(plan) : plan[j].fn = "init" /\ plan[j].txn = t
    PROVE  AllReady
  <1> SUFFICES ASSUME NEW t \in Created
               PROVE  Ready(t)
    BY DEF AllReady
  <1>1. PICK j \in 1..Len(plan) : plan[j].fn = "init" /\ plan[j].txn = t
    OBVIOUS
  <1>2. j < pos \/ (j = pos /\ Idle)
    BY DEF InPlan
  <1>3. QED
    BY <1>1, <1>2 DEF Followed

LEMMA StartupPInv ==
    ASSUME TInv, LInv, CInv, PInv, GridRow # "none",
           ParseArgs \/ Connect \/ StartupStep \/ Connected \/ ClearDone
    PROVE  PInv'
  <1> USE DEF PInv
  <1>1. /\ Idle /\ pc \in {"args", "connect", "startup", "connected", "clear"}
        /\ UNCHANGED <<stmt, cursor, elem>>
    BY DEF ParseArgs, Connect, StartupStep, Connected, ClearDone, GoTo, Cleanup, LInv,
           IdleOutside, handles, server
  <1>2. CursorsClosed'
    BY <1>1, IdleCursors, NoCursors
  <1>3. AllReady' <=> AllReady
    BY <1>1, StmtKept
  <1>4. pos \in Nat
    BY DEF TInv, TypeOK, DriverOK
  <1>5. \/ elem' \/ ~(GridRow = "on" /\ stmt'["localElement"] = "live")
        \/ ToLearn
    BY <1>1 DEF ElementKnown
  <1>6. ASSUME pc' \in {"connect", "cleanup"}
        PROVE  Prepared'
    BY <1>6 DEF Prepared, PreparedStartup, PreparedWorkload
  <1>7. CASE ParseArgs
    <2>1. pc = "args" /\ pc' \in {"connect", "cleanup"}
      BY <1>7 DEF ParseArgs, GoTo, Cleanup
    <2>2. ElementKnown'
      BY <1>5, <2>1 DEF ElementKnown, ToLearn
    <2>3. QED
      BY <1>2, <1>6, <2>1, <2>2
  <1>8. CASE Connect
    <2>1. \/ pc' = "cleanup"
          \/ pc' = "startup" /\ pos' = 1 /\ Enter(StartupPlan[1].fn, StartupPlan[1].txn)
      BY <1>8 DEF Connect, GoTo, Cleanup
    <2>2. ElementKnown'
      BY <2>1 DEF ElementKnown, ToLearn
    <2>3. CASE pc' = "startup"
      <3>1. pos' = 1 /\ Enter("init", "ugi")
        BY <2>1, <2>3, StartupPlanFacts
      <3>2. ~Idle' /\ call'.fn = "init" /\ call'.txn = "ugi"
        BY <3>1, StmtOf, Entered
      <3>3. InPlan(StartupPlan)'
        BY <3>1, <3>2, StartupPlanFacts DEF InPlan
      <3>4. Followed(StartupPlan)'
        BY <3>1, <3>2 DEF Followed
      <3>5. Prepared'
        BY <2>3, <3>3, <3>4 DEF Prepared, PreparedStartup, PreparedWorkload
      <3>6. QED
        BY <1>2, <2>2, <3>5
    <2>4. QED
      BY <1>2, <1>6, <2>1, <2>2, <2>3
  <1>9. CASE StartupStep
    <2>1. pc = "startup"
      BY <1>9 DEF StartupStep
    <2>2. CASE ret # "success"
      <3>1. pc' = "cleanup"
        BY <1>9, <2>2 DEF StartupStep, Cleanup, GoTo
      <3>2. QED
        BY <1>2, <1>6, <3>1 DEF ElementKnown, ToLearn
    <2>3. CASE ret = "success"
      <3>1. Working
        BY <2>3 DEF Working
      <3>2. InPlan(StartupPlan) /\ Followed(StartupPlan)
        BY <2>1, <3>1 DEF Prepared, PreparedStartup
      <3>3. CASE pos < Len(StartupPlan)
        <4>1. /\ pc' = "startup" /\ pos' = pos + 1 /\ pos' \in 1..Len(StartupPlan)
              /\ Enter(StartupPlan[pos + 1].fn, StartupPlan[pos + 1].txn)
          BY <1>4, <1>9, <2>1, <2>3, <3>3, StartupPlanFacts DEF StartupStep
        <4>2. \A j \in 1..Len(StartupPlan) :
                  StartupPlan[j].fn = "init" /\ j <= pos => Ready(StartupPlan[j].txn)
          BY <1>1, <1>4, <3>2 DEF Followed
        <4>3. /\ InPlan(StartupPlan)'
              /\ Working' => Followed(StartupPlan)' /\ ~Idle' /\ call'.at = 1
          BY <1>1, <1>4, <4>1, <4>2, PlanStep, StartupPlanType
        <4>4. Prepared'
          BY <4>1, <4>3 DEF Prepared, PreparedStartup, PreparedWorkload
        <4>5. ToLearn => pos = 1
          BY <1>1, <2>1, <3>1 DEF ToLearn
        <4>6. ToLearn => ToLearn'
          BY <4>1, <4>3, <4>5 DEF ToLearn
        <4>7. QED
          BY <1>2, <1>5, <4>4, <4>6 DEF ElementKnown
      <3>4. CASE ~(pos < Len(StartupPlan))
        <4>1. pc' = "connected"
          BY <1>9, <2>3, <3>4 DEF StartupStep, GoTo
        <4>2. AllReady
          BY <1>1, <1>4, <3>2, <3>4, PlanDone, StartupPlanFacts, StartupPlanType
        <4>3. Prepared'
          BY <1>3, <4>1, <4>2 DEF Prepared, PreparedStartup, PreparedWorkload
        <4>4. ~ToLearn
          BY <1>1, <1>4, <2>1, <3>1, <3>4, StartupPlanFacts DEF ToLearn
        <4>5. QED
          BY <1>2, <1>5, <4>3, <4>4 DEF ElementKnown
      <3>5. QED
        BY <3>3, <3>4
    <2>4. QED
      BY <2>2, <2>3
  <1>10. CASE Connected
    <2>1. /\ pc = "connected"
          /\ \/ pc' = "cleanup"
             \/ pc' = "clear" /\ Enter("execute", "clear")
             \/ pc' = "check"
      BY <1>10 DEF Connected, Cleanup, GoTo
    <2>2. AllReady
      BY <2>1 DEF Prepared, PreparedStartup
    <2>3. pc' = "clear" => call'.fn = "execute"
      <3>1. "clear" \in Txns
        BY DEF Txns
      <3>2. QED
        BY <2>1, <3>1, Entered
    <2>4. Prepared'
      BY <1>3, <2>1, <2>2, <2>3 DEF Prepared, PreparedStartup, PreparedWorkload
    <2>5. QED
      BY <1>2, <1>5, <2>1, <2>4 DEF ElementKnown, ToLearn
  <1>11. CASE ClearDone
    <2>1. pc = "clear" /\ (pc' = "cleanup" \/ (pc' = "check" /\ ret = "success"))
      BY <1>11 DEF ClearDone, Cleanup, GoTo
    <2>2. ret = "success" => AllReady
      BY <2>1 DEF Prepared, PreparedStartup, Working
    <2>3. Prepared'
      BY <1>3, <2>1, <2>2 DEF Prepared, PreparedStartup, PreparedWorkload
    <2>4. QED
      BY <1>2, <1>5, <2>1, <2>3 DEF ElementKnown, ToLearn
  <1>12. QED
    BY <1>7, <1>8, <1>9, <1>10, <1>11

\* The driver between the functions of a workload transaction.
LEMMA WorkloadPInv ==
    ASSUME TInv, LInv, CInv, PInv, GridRow # "none",
           \/ ShouldTerminate \/ TimeUp \/ (\E t \in Workload : BeginTxn(t))
           \/ Attempt \/ ReprepareStep \/ FetchOrClose \/ TxnSucceeded
           \/ Retry \/ Failover \/ TxnFailed
    PROVE  PInv'
  <1> USE DEF PInv
  <1>1. /\ Idle /\ pc \in {"check", "attempt", "reprepare", "run"}
        /\ UNCHANGED <<stmt, cursor, elem>>
    BY DEF ShouldTerminate, TimeUp, BeginTxn, Attempt, ReprepareStep, FetchOrClose, TxnSucceeded,
           Retry, Failover, TxnFailed, InTxn, GoTo, LInv, IdleOutside, handles, driver
  <1>2. /\ AllReady' <=> AllReady
        /\ NoneLive' <=> NoneLive
    BY <1>1, StmtKept
  <1>3. pos \in Nat /\ (pc \in {"attempt", "reprepare", "run"} => cur \in Workload)
    BY DEF TInv, TypeOK, DriverOK, HasCurrent
  <1>4. \/ elem' \/ ~(GridRow = "on" /\ stmt'["localElement"] = "live")
        \/ ToLearn
    BY <1>1 DEF ElementKnown
  <1>5. pc # "run" => CursorsClosed'
    BY <1>1, IdleCursors, NoCursors
  <1>6. cur \in Workload => cur \in Txns /\ cur \in Created
    BY AppTxnsListed
  <1>7. CASE ShouldTerminate \/ TimeUp \/ TxnFailed
    <2>1. pc' = "disconnect"
      BY <1>7 DEF ShouldTerminate, TimeUp, TxnFailed, GoTo
    <2>2. QED
      BY <2>1
      DEF Prepared, PreparedStartup, PreparedWorkload, CursorsClosed, ElementKnown, ToLearn
  <1>8. ASSUME NEW t \in Workload, BeginTxn(t)
        PROVE  PInv'
    <2>1. pc = "check" /\ pc' \in {"exit", "attempt"}
      BY <1>8 DEF BeginTxn
    <2>2. AllReady'
      BY <1>2, <2>1 DEF Prepared, PreparedStartup
    <2>3. Prepared'
      BY <2>1, <2>2 DEF Prepared, PreparedStartup, PreparedWorkload
    <2>4. ~ToLearn
      BY <2>1 DEF ToLearn
    <2>5. QED
      BY <1>4, <1>5, <2>1, <2>3, <2>4 DEF ElementKnown
  <1>9. CASE Attempt
    <2>1. pc = "attempt" /\ (needReprepare \/ AllReady \/ NoneLive)
      BY <1>9 DEF Attempt, Prepared, PreparedWorkload
    <2>2. CASE Exhausted
      <3>1. pc' = "disconnect"
        BY <1>9, <2>2 DEF Attempt, GoTo
      <3>2. QED
        BY <3>1
        DEF Prepared, PreparedStartup, PreparedWorkload, CursorsClosed, ElementKnown,
            ToLearn
    <2>3. CASE ~Exhausted /\ needReprepare
      <3>1. /\ pc' = "reprepare" /\ pos' = 1 /\ needReprepare' = needReprepare
            /\ Enter(ReprepPlan[1].fn, ReprepPlan[1].txn)
        BY <1>9, <2>3 DEF Attempt
      <3>2. 1 \in 1..Len(ReprepPlan) /\ 1 < Len(ReprepPlan)
        BY ReprepPlanFacts
      <3>3. ReprepPlan[1] \in PlanCall /\ ReprepPlan[1].fn = "init"
        BY <3>2, ReprepPlanFacts, ReprepPlanType
      <3>4. /\ ~Idle' /\ call'.fn = ReprepPlan[1].fn /\ call'.txn = ReprepPlan[1].txn
        BY <3>1, <3>3, Entered DEF PlanCall
      <3>5. InPlan(ReprepPlan)' /\ Followed(ReprepPlan)'
        BY <3>1, <3>2, <3>4 DEF InPlan, Followed
      <3>6. Prepared'
        BY <2>3, <3>1, <3>5 DEF Prepared, PreparedStartup, PreparedWorkload
      <3>7. ToLearn'
        BY <3>1, <3>2 DEF ToLearn
      <3>8. QED
        BY <1>5, <2>1, <3>6, <3>7 DEF ElementKnown
    <2>4. CASE ~Exhausted /\ ~needReprepare
      <3>1. pc' = "run" /\ Enter("execute", cur)
        BY <1>9, <2>4 DEF Attempt, GoTo
      <3>2. /\ call'.fn = "execute"
            /\ \/ call'.at = 1
               \/ Idle' /\ ret' = Entry("execute", cur) /\ Entry("execute", cur) # "go"
        BY <1>3, <1>6, <2>1, <3>1, Entered
      <3>3. Untouched' \/ Refused'
        BY <3>2 DEF Untouched, Refused, Entry
      <3>4. Prepared'
        BY <1>2, <2>1, <2>4, <3>1, <3>2, <3>3
        DEF Prepared, PreparedStartup, PreparedWorkload
      <3>5. ~ToLearn
        BY <2>1, <2>4 DEF ToLearn
      <3>6. QED
        BY <1>4, <1>5, <2>1, <3>4, <3>5 DEF ElementKnown
    <2>5. QED
      BY <2>2, <2>3, <2>4
  <1>10. CASE ReprepareStep
    <2>1. pc = "reprepare" /\ ret = "success" /\ Working
      BY <1>10 DEF ReprepareStep, Working
    <2>2. needReprepare /\ InPlan(ReprepPlan) /\ Followed(ReprepPlan)
      BY <2>1 DEF Prepared, PreparedWorkload
    <2>3. CASE pos < Len(ReprepPlan)
      <3>1. /\ pc' = "reprepare" /\ pos' = pos + 1 /\ pos' \in 1..Len(ReprepPlan)
            /\ needReprepare' = needReprepare
            /\ Enter(ReprepPlan[pos + 1].fn, ReprepPlan[pos + 1].txn)
        BY <1>3, <1>10, <2>1, <2>3, ReprepPlanFacts DEF ReprepareStep
      <3>2. \A j \in 1..Len(ReprepPlan) :
                ReprepPlan[j].fn = "init" /\ j <= pos => Ready(ReprepPlan[j].txn)
        BY <1>1, <1>3, <2>2 DEF Followed
      <3>3. /\ InPlan(ReprepPlan)'
            /\ Working' => Followed(ReprepPlan)' /\ ~Idle' /\ call'.at = 1
        BY <1>1, <1>3, <3>1, <3>2, PlanStep, ReprepPlanType
      <3>4. Prepared'
        BY <2>2, <3>1, <3>3 DEF Prepared, PreparedStartup, PreparedWorkload
      <3>5. ToLearn'
        BY <3>1, <3>3 DEF ToLearn
      <3>6. QED
        BY <1>5, <2>1, <3>4, <3>5 DEF ElementKnown
    <2>4. CASE ~(pos < Len(ReprepPlan))
      <3>1. pc' = "run" /\ Enter("execute", cur)
        BY <1>10, <2>4 DEF ReprepareStep
      <3>2. call'.fn = "execute"
        BY <1>3, <1>6, <2>1, <3>1, Entered
      <3>3. AllReady
        BY <1>1, <1>3, <2>2, <2>4, PlanDone, ReprepPlanFacts, ReprepPlanType
      <3>4. Prepared'
        BY <1>2, <3>1, <3>2, <3>3 DEF Prepared, PreparedStartup, PreparedWorkload
      <3>5. ~ToLearn
        BY <1>1, <2>1, <2>4 DEF ToLearn
      <3>6. QED
        BY <1>4, <1>5, <2>1, <3>4, <3>5 DEF ElementKnown
    <2>5. QED
      BY <2>3, <2>4
  <1>11. CASE FetchOrClose
    <2>1. /\ pc = "run" /\ pc' = "run" /\ cur' = cur /\ HasFetch(cur)
          /\ \/ ret = "success" /\ call.fn \in {"execute", "fetch"} /\ Enter("fetch", cur)
             \/ ret = "nodata" /\ call.fn = "fetch" /\ Enter("close", cur)
      BY <1>11 DEF FetchOrClose, driver
    <2>2. AllReady
      BY <1>1, <2>1 DEF Prepared, PreparedWorkload, Untouched, Refused, Idle
    <2>3. call.txn = cur /\ cur \in Txns
      BY <1>3, <1>6, <2>1 DEF CInv, RunsCurrent
    <2>4. call'.txn = cur /\ call'.fn \in {"fetch", "close"}
      BY <2>1, <2>3, Entered
    <2>5. Prepared'
      BY <1>2, <2>1, <2>2, <2>4 DEF Prepared, PreparedStartup, PreparedWorkload
    <2>6. Ready(cur) /\ cur \in {"query", "authorize"}
      BY <1>3, <1>6, <2>1, <2>2 DEF AllReady, HasFetch
    <2>7. \A s \in InitStmts(cur) \ {"localElement"} : stmt[s] # "null"
      BY <2>6 DEF Ready
    <2>8. CursorsClosed'
      <3>1. \A t \in Txns : cursor'[t] => t = cur
        BY <1>1, <2>1, <2>3 DEF CursorsClosed
      <3>2. CASE ~cursor[cur]
        BY <1>1, <3>1, <3>2 DEF CursorsClosed
      <3>3. CASE cursor[cur]
        <4>1. Entry("fetch", cur) = "go" /\ Entry("close", cur) = "go"
          BY <2>7, <3>3 DEF Entry
        <4>2. ~Idle' /\ call'.at = 1
          BY <2>1, <2>3, <4>1, Entered
        <4>3. Body' = Script(call'.fn, cur, stmt'["localElement"] # "null")
          BY <2>4 DEF Body
        <4>4. (stmt'["localElement"] # "null") \in BOOLEAN
          OBVIOUS
        <4>5. Op'.op \in {"next", "close"}
          <5>1. Op' = Body'[1]
            BY <4>2 DEF Op
          <5>2. CASE call'.fn = "fetch"
            BY <2>1, <2>3, <4>3, <4>4, <5>1, <5>2, ScriptReads DEF Functions
          <5>3. CASE call'.fn = "close"
            BY <2>1, <2>3, <4>3, <4>4, <5>1, <5>3, ScriptReads DEF Functions
          <5>4. QED
            BY <2>4, <5>2, <5>3
        <4>6. Reading'
          BY <2>4, <4>2, <4>5 DEF Reading
        <4>7. QED
          BY <2>4, <3>1, <4>6 DEF CursorsClosed
      <3>4. QED
        BY <3>2, <3>3
    <2>9. ~ToLearn
      BY <2>1 DEF ToLearn
    <2>10. QED
      BY <1>4, <2>5, <2>8, <2>9 DEF ElementKnown
  <1>12. CASE TxnSucceeded
    <2>1. /\ pc = "run" /\ pc' = "check" /\ ret = "success"
          /\ HasFetch(cur) => call.fn = "close"
      BY <1>12 DEF TxnSucceeded, GoTo
    <2>2. AllReady
      BY <1>1, <2>1 DEF Prepared, PreparedWorkload, Untouched, Refused, Idle
    <2>3. Prepared'
      BY <1>2, <2>1, <2>2 DEF Prepared, PreparedStartup, PreparedWorkload
    <2>4. CursorsClosed'
      BY <1>1, <2>1, IdleCursors, NoCursors
    <2>5. ~ToLearn
      BY <2>1 DEF ToLearn
    <2>6. QED
      BY <1>4, <2>3, <2>4, <2>5 DEF ElementKnown
  <1>13. CASE Retry \/ Failover
    <2>1. /\ pc \in {"reprepare", "run"} /\ pc' = "attempt"
          /\ ret \in {"retryable", "failover"}
          /\ needReprepare' = TRUE \/ needReprepare' = needReprepare
      BY <1>13 DEF Retry, Failover, InTxn
    <2>2. CursorsClosed'
      BY <1>1, <2>1, IdleCursors, NoCursors
    <2>3. CASE pc = "reprepare"
      <3>1. needReprepare
        BY <2>3 DEF Prepared, PreparedWorkload
      <3>2. needReprepare'
        BY <2>1, <3>1, Zenon
      <3>3. QED
        BY <2>1, <2>2, <3>2
        DEF Prepared, PreparedStartup, PreparedWorkload, ElementKnown, ToLearn
    <2>4. CASE pc = "run"
      <3>1. AllReady' \/ NoneLive'
        BY <1>2, <2>4 DEF Prepared, PreparedWorkload
      <3>2. ~ToLearn
        BY <2>4 DEF ToLearn
      <3>3. QED
        BY <1>4, <2>1, <2>2, <3>1, <3>2
        DEF Prepared, PreparedStartup, PreparedWorkload, ElementKnown
    <2>5. QED
      BY <2>1, <2>3, <2>4
  <1>14. QED
    BY <1>7, <1>8, <1>9, <1>10, <1>11, <1>12, <1>13

LEMMA EndPInv ==
    ASSUME PInv, dbDisconnect \/ freeContext \/ SignalArrives \/ UNCHANGED vars
    PROVE  PInv'
  <1>1. CASE dbDisconnect \/ freeContext
    <2>1. pc' \in {"cleanup", "exit"}
      BY <1>1 DEF dbDisconnect, freeContext, Cleanup, GoTo
    <2>2. QED
      BY <2>1
      DEF PInv, Prepared, PreparedStartup, PreparedWorkload, CursorsClosed, ElementKnown,
          ToLearn
  <1>2. CASE SignalArrives \/ UNCHANGED vars
    <2>1. UNCHANGED <<pc, pos, cur, needReprepare, call, ret, stmt, cursor, elem>>
      BY <1>2 DEF SignalArrives, vars, driver, frame, handles
    <2>2. /\ AllReady' <=> AllReady
          /\ NoneLive' <=> NoneLive
          /\ \A t : Ready(t)' <=> Ready(t)
      BY <2>1, StmtKept
    <2>3. /\ Idle' <=> Idle
          /\ Working' <=> Working
          /\ Untouched' <=> Untouched
          /\ Refused' <=> Refused
      BY <2>1 DEF Idle, Working, Untouched, Refused
    <2>4. ASSUME NEW plan
          PROVE  /\ InPlan(plan)' <=> InPlan(plan)
                 /\ Followed(plan)' <=> Followed(plan)
      BY <2>1, <2>2, <2>3 DEF InPlan, Followed, Ready
    <2>5. Prepared'
      BY <2>1, <2>2, <2>3, <2>4 DEF PInv, Prepared, PreparedStartup, PreparedWorkload
    <2>6. Op' = Op
      BY <2>1 DEF Op, Body
    <2>7. CursorsClosed' /\ ElementKnown'
      BY <2>1, <2>3, <2>6 DEF PInv, CursorsClosed, ElementKnown, Reading, ToLearn
    <2>8. QED
      BY <2>5, <2>7 DEF PInv
  <1>3. QED
    BY <1>1, <1>2

LEMMA NextPInv ==
    TInv /\ LInv /\ CInv /\ GridRow # "none" /\ PInv /\ [Next]_vars => PInv'
  <1> SUFFICES ASSUME TInv, LInv, CInv, GridRow # "none", PInv, [Next]_vars
               PROVE  PInv'
    OBVIOUS
  <1>1. CASE TxnFunction
    <2>1. Prepared
      BY DEF PInv
    <2>2. Prepared'
      BY <1>1, <2>1, TxnFunctionPrepared
    <2>3. QED
      BY <1>1, <2>2, TxnFunctionCursors, TxnFunctionElement DEF PInv
  <1>2. CASE ParseArgs \/ Connect \/ StartupStep \/ Connected \/ ClearDone
    BY <1>2, StartupPInv
  <1>3. CASE \/ ShouldTerminate \/ TimeUp \/ (\E t \in Workload : BeginTxn(t))
             \/ Attempt \/ ReprepareStep \/ FetchOrClose \/ TxnSucceeded
             \/ Retry \/ Failover \/ TxnFailed
    BY <1>3, WorkloadPInv
  <1>4. CASE dbDisconnect \/ freeContext \/ SignalArrives \/ UNCHANGED vars
    BY <1>4, EndPInv
  <1>5. QED
    BY <1>1, <1>2, <1>3, <1>4 DEF Next, Program, WorkloadGoesOn, Exited

LEMMA PInvImpliesReady ==
    TInv /\ LInv /\ (GridRow # "none" => PInv) => ReadyBetweenTxns
  <1> SUFFICES ASSUME TInv, LInv, PInv, pc = "check", GridRow # "none"
               PROVE  /\ \A t \in Created : ~cursor[t]
                      /\ \A t \in Created : \A s \in InitStmts(t) \ {"localElement"} :
                            stmt[s] = "live"
                      /\ stmt["localElement"] # "stale"
                      /\ (GridRow = "on" /\ stmt["localElement"] = "live") => elem
    BY DEF ReadyBetweenTxns
  <1>1. Idle
    BY DEF LInv, IdleOutside
  <1>2. AllReady
    BY DEF PInv, Prepared, PreparedStartup
  <1>3. "ugi" \in Created
    BY AppTxnsListed DEF Listed, Created
  <1>4. stmt["localElement"] # "stale"
    BY <1>2, <1>3, StmtOf DEF AllReady, Ready
  <1>5. \A t \in Created : ~cursor[t]
    BY <1>1, AppTxnsListed, IdleCursors DEF PInv
  <1>6. \A t \in Created : \A s \in InitStmts(t) \ {"localElement"} : stmt[s] = "live"
    BY <1>2 DEF AllReady, Ready
  <1>7. (GridRow = "on" /\ stmt["localElement"] = "live") => elem
    BY DEF PInv, ElementKnown, ToLearn
  <1>8. QED
    BY <1>4, <1>5, <1>6, <1>7

\* Whenever the driver chooses a transaction, everything is prepared on the
\* connection now in use, no cursor is open and the element is known,
\* whatever failed over on the way and however often.
THEOREM ReadySafe == Spec => []ReadyBetweenTxns
  <1> DEFINE Inv == TInv /\ LInv /\ CInv /\ FatalEnds /\ (GridRow # "none" => PInv)
  <1>1. Init => Inv
    BY InitTInv, InitLInv, InitCInv, InitFatalEnds, InitPInv
  <1>2. Inv /\ [Next]_vars => Inv'
    BY NextTInv, NextLInv, NextCInv, NextFatalEnds, NextPInv
  <1>3. Inv => ReadyBetweenTxns
    BY PInvImpliesReady
  <1>4. QED
    BY <1>1, <1>2, <1>3, PTL DEF Spec
=============================================================================
