---------------------------- MODULE PaymentLedger ----------------------------
(***************************************************************************)
(* What the GridSample workload promises about the Mobile Payments         *)
(* database, without connections, statements or retries.  An account       *)
(* update and its history row are posted together; a posting is counted by *)
(* the program at most once; and the program never starts another posting  *)
(* while one is uncounted, unless the outcome of a commit may be hidden    *)
(* from it, in which case the transaction may be posted again.             *)
(***************************************************************************)
EXTENDS Integers

CONSTANTS Amounts,       \* what a posting may add to a balance
          CommitInDoubt  \* may the outcome of a commit be hidden?

VARIABLES ledger,   \* committed effects: updates, rows, deletions, two sums
          counted   \* postings the program has counted

LedgerVars == <<ledger, counted>>

LedgerInit ==
    /\ ledger = [upd |-> 0, ins |-> 0, del |-> 0, bal |-> 0, hist |-> 0]
    /\ counted = 0

\* Charge and TopUp: the balance and the history change in one transaction.
Post(a) ==
    /\ ~CommitInDoubt => counted = ledger.upd
    /\ ledger' = [ledger EXCEPT !.upd = @ + 1, !.ins = @ + 1,
                                !.bal = @ + a, !.hist = @ + a]
    /\ UNCHANGED counted

\* The program learns that its transaction is posted.
Count ==
    /\ counted < ledger.upd
    /\ counted' = counted + 1
    /\ UNCHANGED ledger

\* Purge and ClearHistory delete rows and touch no balance.
Purge ==
    /\ ledger' = [ledger EXCEPT !.del = ledger'.del]
    /\ ledger'.del > ledger.del
    /\ UNCHANGED counted

LedgerNext == (\E a \in Amounts : Post(a)) \/ Count \/ Purge

LedgerSpec == LedgerInit /\ [][LedgerNext]_LedgerVars
=============================================================================
