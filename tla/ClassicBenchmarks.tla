-------------------------- MODULE ClassicBenchmarks --------------------------
(***************************************************************************)
(* wiscbm, tpcb and bulkinsert from their command lines to their exits:    *)
(* what CommandLines makes of the words is what Wiscbm, Tpcb and           *)
(* Bulkinsert do their work with.  A program runs up to NumRuns times,     *)
(* each time with another command line of Worked and with the tables that  *)
(* the runs before have left.  Of the other inputs only the parse is       *)
(* followed.                                                               *)
(***************************************************************************)
EXTENDS CommandLines, Bulkinsert, Tpcb, Wiscbm

CONSTANT Worked    \* inputs

\* The benchmarks are programs of ttgetopt.c, with the ranges that main() checks;
\* MAX_BATCH_SIZE of bulkinsert.c is 1024, far below a quarter of the ints.
ASSUME BenchAssumption ==
    /\ Worked \subseteq Inputs
    /\ \A w \in Worked : w.prog \in {"wiscbm", "bulkinsert", "tpcb"} \cap DOMAIN Programs
    /\ "bulkinsert" \in DOMAIN Programs =>
           LET ranges == Programs["bulkinsert"].ranges
           IN  /\ {"records", "batchsize", "commitsize"} \subseteq DOMAIN ranges
               /\ ranges["records"] \subseteq 1..(Wrap \div 2 - 1)
               /\ ranges["batchsize"] \subseteq 1..(Wrap \div 4)
               /\ ranges["commitsize"] \subseteq 0..(Wrap \div 2 - 1)
    /\ "tpcb" \in DOMAIN Programs =>
           LET ranges == Programs["tpcb"].ranges
           IN  "scale" \in DOMAIN ranges /\ ranges["scale"] \subseteq Nat

benchVars == <<input, ol, st, work>>

BenchInit == Init /\ WorkInit

opt == st.values

\* main() after its command line.
Begin ==
    /\ At("run") /\ input \in Worked /\ pc = "idle"
    /\ \/ input.prog = "wiscbm" /\ pc' = "wiConnect" /\ v' = WiscbmLocals(opt)
       \/ input.prog = "bulkinsert" /\ pc' = "biConnect" /\ v' = BulkinsertLocals(opt)
       \/ input.prog = "tpcb" /\ pc' = "tpConnect" /\ v' = TpcbLocals
    /\ UNCHANGED <<db, txn, sig, faults, runs, status>>

Step ==
    \/ Begin
    \/ BulkinsertStep(opt) \/ TpcbStep(opt) \/ WiscbmStep(opt)
    \/ (Signal \/ Kill) /\ UNCHANGED runs

\* The program is run again.
Again ==
    /\ pc = "exit" /\ runs < NumRuns
    /\ \E next \in Worked : next.prog = input.prog /\ input' = next
    /\ ol' = EmptyList(Program.mode)
    /\ st' = [Start(Program.values) EXCEPT !.place = "options"]
    /\ pc' = "idle" /\ v' = IdleLocals /\ runs' = runs + 1 /\ status' = 0
    /\ UNCHANGED <<db, txn, sig, faults>>

BenchNext ==
    \/ ~Running /\ Next /\ UNCHANGED work
    \/ Step /\ UNCHANGED <<input, ol, st>>
    \/ Again

BenchSpec == BenchInit /\ [][BenchNext]_benchVars

-----------------------------------------------------------------------------
(* Properties: those of the programs, for the command line of the run.     *)

\* LoadedInOrder (Bulkinsert), with what bulkinsert was told on its command line.
RowsLoadedInOrder == LoadedInOrder(opt)

\* BalancesAgree (Tpcb), with what tpcb was told on its command line.
BranchesBalance == BalancesAgree(opt)

\* TablesAsAsked and NothingLeftOver (Wiscbm), with what wiscbm was told on its
\* command line, whatever the run before it left.
TablesLeft == TablesAsAsked(opt) /\ NothingLeftOver(opt)

\* What does not hold: the statements of Bulkinsert, Tpcb and Wiscbm.
AnyNumberLoaded == LoadsAnyNumber(opt)
SuccessIsLoaded == SuccessMeansLoaded(opt)
AnyScaleRuns    == AcceptedScaleRuns(opt)
NobuildAgain    == NobuildRuns(opt)
=============================================================================
