----------------------------- MODULE OdbcProgram -----------------------------
(***************************************************************************)
(* A classic ODBC sample program at work on its tables: the connection,    *)
(* the transaction, and what handle_errors and QuitTest of common/utils.c  *)
(* make of the result of a call and of a signal.  Calls without an effect  *)
(* of their own that end the program in the same way are one step.         *)
(*                                                                         *)
(* SQL is external: DDL commits, and what is not committed when the        *)
(* process ends is rolled back, whether QuitTest asks for it or not.  At   *)
(* most MaxFaults calls of a run fail or signals arrive.                   *)
(***************************************************************************)
EXTENDS Integers, Sequences, FiniteSets, Functions

CONSTANTS MaxFaults, NumRuns

VARIABLES
    pc,        \* what the program does next: "idle" before, "exit" after its work
    v,         \* its local variables
    db,        \* the committed tables: name -> contents
    txn,       \* the tables as the program sees them
    sig,       \* sigReceived
    faults,    \* failed calls and signals of this run
    runs,
    status     \* of the exit

work == <<pc, v, db, txn, sig, faults, runs, status>>

ASSUME ProgramAssumption == MaxFaults \in Nat /\ NumRuns \in Nat \ {0}

Put(d, table, contents) ==
    [t \in DOMAIN d \cup {table} |-> IF t = table THEN contents ELSE d[t]]
Without(d, tables) == Restrict(d, DOMAIN d \ tables)

IdleLocals == [program |-> "none"]

WorkInit ==
    /\ pc = "idle" /\ v = IdleLocals /\ db = <<>> /\ txn = <<>>
    /\ sig = FALSE /\ faults = 0 /\ runs = 1 /\ status = 0

Running == pc \notin {"idle", "exit"}

\* The process is gone, and its transaction with it; d is committed.
QuitTest(code, d) ==
    /\ pc' = "exit" /\ status' = code
    /\ db' = d /\ txn' = d /\ sig' = FALSE
    /\ UNCHANGED v

\* After a call with the result rc that leaves d committed and t to be seen:
\* a signal that has arrived comes first.  SQL_SUCCESS, SQL_NO_DATA_FOUND and
\* warnings are "success"; abort is the action of the call for an error.
handle_errors(rc, abort, d, t, next, locals) ==
    IF sig THEN QuitTest(IF abort = "ABORT_DISCONNECT_EXIT" THEN 2 ELSE 3, d)
    ELSE IF rc = "error" THEN QuitTest(1, d)
    ELSE /\ pc' = next /\ v' = locals /\ db' = d /\ txn' = t
         /\ UNCHANGED <<sig, status>>

Fault == faults < MaxFaults /\ faults' = faults + 1

Fails(abort) == Fault /\ handle_errors("error", abort, db, txn, pc, v)

\* A call that the database refuses.
Denied(abort) == UNCHANGED faults /\ handle_errors("error", abort, db, txn, pc, v)

\* A statement in the transaction; a statement that commits; a call without
\* effect on the tables.
Statement(t, next, locals) ==
    \/ UNCHANGED faults /\ handle_errors("success", "ABORT_DISCONNECT_EXIT", db, t, next, locals)
    \/ Fails("ABORT_DISCONNECT_EXIT")

Ddl(d, next, locals) ==
    \/ UNCHANGED faults /\ handle_errors("success", "ABORT_DISCONNECT_EXIT", d, d, next, locals)
    \/ Fails("ABORT_DISCONNECT_EXIT")

Calls(abort, next, locals) ==
    \/ UNCHANGED faults /\ handle_errors("success", abort, db, txn, next, locals)
    \/ Fails(abort)

\* No call at all.
Silent(next, locals) == pc' = next /\ v' = locals /\ UNCHANGED <<db, txn, sig, faults, status>>

\* SQLTransact(SQL_COMMIT): when it fails, the work may be committed or not.
Commit(abort, next, locals) ==
    \/ UNCHANGED faults /\ handle_errors("success", abort, txn, txn, next, locals)
    \/ \E d \in {db, txn} : Fault /\ handle_errors("error", abort, d, d, pc, v)

\* A statement that commits, whose result is not looked at.
Ignored(d, next) ==
    /\ pc' = next
    /\ \/ db' = d /\ txn' = d /\ UNCHANGED faults
       \/ Fault /\ UNCHANGED <<db, txn>>
    /\ UNCHANGED <<v, sig, status>>

\* SIGINT, SIGTERM, SIGHUP or SIGPIPE; it is looked at after the next call.
Signal ==
    /\ Running /\ ~sig /\ Fault
    /\ sig' = TRUE
    /\ UNCHANGED <<pc, v, db, txn, status>>

Kill ==
    /\ Running /\ Fault
    /\ QuitTest(9, db)
=============================================================================
