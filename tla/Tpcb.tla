--------------------------------- MODULE Tpcb ---------------------------------
(***************************************************************************)
(* tpcb.c: the tables of the TPC-B benchmark are created and filled, and   *)
(* opt.xact transactions add an amount to an account, to a teller and to   *)
(* the teller's branch, and record it in History.  An UPDATE that finds no *)
(* row is no error (SQL_NO_DATA_FOUND).                                    *)
(***************************************************************************)
EXTENDS OdbcProgram, FiniteSetsExt

CONSTANTS
    TellersPerBranch,
    AccountsPerBranch,
    Deltas         \* the amounts

ASSUME TpcbAssumption ==
    /\ TellersPerBranch \in Nat \ {0} /\ AccountsPerBranch \in Nat \ {0}
    /\ Deltas \subseteq Int

TpcbTables == <<"branches", "tellers", "accounts", "History">>

\* numBranchTups, numTellerTups, numAccountTups, numNonLocalAccountTups
Branches(opt) == opt.scale
Tellers(opt)  == TellersPerBranch * opt.scale
Accounts(opt) == AccountsPerBranch * opt.scale
NonLocal(opt) == AccountsPerBranch * (opt.scale - 1)

\* What the INSERTs leave.
Populated(opt, k) ==
    CASE k = 1 -> [n \in 0..(Branches(opt) - 1) |-> 0]
      [] k = 2 -> [n \in 0..(Tellers(opt) - 1) |-> 0]
      [] k = 3 -> [n \in 0..(Accounts(opt) - 1) |-> 0]

NoXact == [teller |-> 0, branch |-> 0, account |-> 0, delta |-> 0]

TpcbLocals == [program |-> "tpcb", i |-> 0, k |-> 1, x |-> NoXact, ready |-> FALSE]

TpConnect ==
    /\ pc = "tpConnect"
    /\ Calls("DISCONNECT_EXIT", "tpDrop", v)

TpDrop ==
    /\ pc = "tpDrop"
    /\ Ignored(Without(db, {TpcbTables[v.k]}), "tpCreate")

TpCreate ==
    /\ pc = "tpCreate"
    /\ IF TpcbTables[v.k] \in DOMAIN db THEN Denied("ABORT_DISCONNECT_EXIT")
       ELSE Ddl(Put(db, TpcbTables[v.k], <<>>), IF v.k = 4 THEN "tpPopulate" ELSE "tpDrop",
                [v EXCEPT !.k = IF v.k = 4 THEN 1 ELSE @ + 1])

\* The three tables in one transaction.
TpPopulate(opt) ==
    /\ pc = "tpPopulate"
    /\ Statement(Put(txn, TpcbTables[v.k], Populated(opt, v.k)),
                 IF v.k = 3 THEN "tpPrepare" ELSE "tpPopulate", [v EXCEPT !.k = @ + 1])

\* The statements are prepared, and the transaction is committed.
TpPrepare ==
    /\ pc = "tpPrepare"
    /\ \/ Commit("ERROR_EXIT", "tpBind", [v EXCEPT !.ready = TRUE])
       \/ Fails("ABORT_DISCONNECT_EXIT")

TpBind ==
    /\ pc = "tpBind"
    /\ Calls("ABORT_DISCONNECT_EXIT", "tpChoose", v)

\* "increment account number by AccountsPerBranch to skip over local accounts"
SkipLocal(branch, n) ==
    IF n \div AccountsPerBranch >= branch THEN n + AccountsPerBranch ELSE n

\* A teller, an account of its branch or, when there are others, of another
\* one, and an amount.  The teller is a remainder by the number of tellers.
TpChoose(opt) ==
    /\ pc = "tpChoose" /\ v.i < opt.xact
    /\ UNCHANGED faults
    /\ \/ Tellers(opt) = 0 /\ QuitTest(8, db)
       \/ \E teller \in 0..(Tellers(opt) - 1), delta \in Deltas :
              LET branch == teller \div TellersPerBranch
                  local  == {branch * AccountsPerBranch + n : n \in 0..(AccountsPerBranch - 1)}
                  remote == IF Branches(opt) = 1 THEN {}
                            ELSE {SkipLocal(branch, n) : n \in 0..(NonLocal(opt) - 1)}
              IN  \E account \in local \cup remote :
                      /\ pc' = "tpXact"
                      /\ v' = [v EXCEPT !.k = 1, !.x = [teller |-> teller, branch |-> branch,
                                                        account |-> account, delta |-> delta]]
                      /\ UNCHANGED <<db, txn, sig, status>>

\* update ... set balance = balance + ? where number = ?
AddTo(t, table, n, delta) ==
    IF n \in DOMAIN t[table] THEN Put(t, table, [t[table] EXCEPT ![n] = @ + delta]) ELSE t

\* Mutant: the branch is found by the number of the teller.
BranchOfTeller(t, x) == AddTo(t, "branches", x.teller, x.delta)

UpdateBranch(t, x) == AddTo(t, "branches", x.branch, x.delta)

\* The five statements of tpcbXactStmt; the second is a SELECT.
XactStmt(k, t, x) ==
    CASE k = 1 -> AddTo(t, "accounts", x.account, x.delta)
      [] k = 2 -> t
      [] k = 3 -> AddTo(t, "tellers", x.teller, x.delta)
      [] k = 4 -> UpdateBranch(t, x)
      [] k = 5 -> Put(t, "History", Append(t["History"], x))

TpXact ==
    /\ pc = "tpXact"
    /\ Statement(XactStmt(v.k, txn, v.x), IF v.k = 5 THEN "tpCommit" ELSE "tpXact",
                 [v EXCEPT !.k = @ + 1])

TpCommit ==
    /\ pc = "tpCommit"
    /\ Commit("ERROR_EXIT", "tpChoose", [v EXCEPT !.i = @ + 1, !.x = NoXact])

\* Freeing the handles and disconnecting.
TpEnd(opt) ==
    /\ pc = "tpChoose" /\ v.i >= opt.xact
    /\ \/ UNCHANGED faults /\ QuitTest(IF sig THEN 2 ELSE 0, db)
       \/ Fails("ABORT_DISCONNECT_EXIT")

TpcbStep(opt) ==
    /\ \/ TpConnect \/ TpDrop \/ TpCreate \/ TpPopulate(opt) \/ TpPrepare \/ TpBind
       \/ TpChoose(opt) \/ TpXact \/ TpCommit \/ TpEnd(opt)
    /\ UNCHANGED runs

-----------------------------------------------------------------------------
(* Properties.                                                             *)

\* The sum of the amounts that Who says are n's in the history of d.
SumOf(history, Who(_), n) ==
    LET mine == {i \in DOMAIN history : Who(history[i]) = n}
    IN  MapThenSumSet(LAMBDA i : history[i].delta, mine)

\* From the first committed population on, whatever fails and wherever the
\* program is interrupted, the committed balance of every account, teller and
\* branch is the sum of the committed history rows that name it, every one of
\* those rows names rows that exist, and a teller posts to its own branch only
\* (the transaction loop of main() in tpcb.c).
BalancesAgree(opt) ==
    v.program = "tpcb" /\ v.ready =>
        LET h == db["History"]
        IN  /\ \A n \in DOMAIN db["accounts"] :
                  db["accounts"][n] = SumOf(h, LAMBDA r : r.account, n)
            /\ \A n \in DOMAIN db["tellers"] :
                  db["tellers"][n] = SumOf(h, LAMBDA r : r.teller, n)
            /\ \A n \in DOMAIN db["branches"] :
                  db["branches"][n] = SumOf(h, LAMBDA r : r.branch, n)
            /\ \A i \in DOMAIN h : /\ h[i].account \in DOMAIN db["accounts"]
                                   /\ h[i].branch = h[i].teller \div TellersPerBranch

\* "-scale option value should be >= 0" (tpcb.c:233): a scale that is accepted
\* can be run.
AcceptedScaleRuns(opt) ==
    v.program = "tpcb" /\ pc = "exit" /\ faults = 0 => status = 0
=============================================================================
