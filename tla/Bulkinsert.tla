------------------------------ MODULE Bulkinsert ------------------------------
(***************************************************************************)
(* bulkinsert.c: LOAD is dropped and created, and filled in batches that   *)
(* are committed every commitsize rows.  A row is its counter; the random  *)
(* columns and the sizes of the arrays are left out.  opt holds the        *)
(* options, ints of which there are Wrap.                                  *)
(***************************************************************************)
EXTENDS OdbcProgram, TtGetopt

\* "default commitsize to records if set to t0"
CommitSize(opt) == IF opt.commitsize = 0 THEN opt.records ELSE opt.commitsize

BulkinsertLocals(opt) ==
    [program |-> "bulkinsert", i |-> 0, toCommit |-> CommitSize(opt), short |-> FALSE]

BiConnect ==
    /\ pc = "biConnect"
    /\ Calls("DISCONNECT_EXIT", "biDrop", v)

BiDrop ==
    /\ pc = "biDrop"
    /\ Ignored(Without(db, {"LOAD"}), "biCreate")

BiCreate ==
    /\ pc = "biCreate"
    /\ IF "LOAD" \in DOMAIN db THEN Denied("ABORT_DISCONNECT_EXIT")
       ELSE Ddl(Put(db, "LOAD", <<>>), "biPrepare", v)

\* Preparing, binding, autocommit off, the batch size; -b.
BiPrepare(opt) ==
    /\ pc = "biPrepare"
    /\ Calls("ABORT_DISCONNECT_EXIT", IF opt.indexcount > 0 /\ opt.indexbefore = 1
                                      THEN "biIndexBefore" ELSE "biLoop", v)

\* makeindex: statements that commit, and a commit.
MakeIndex(next) ==
    \/ Calls("ABORT_DISCONNECT_EXIT", next, v)
    \/ Fails("ERROR_EXIT")

BiIndexBefore == pc = "biIndexBefore" /\ MakeIndex("biLoop")

Counters(i, n) == [k \in 1..n |-> i + k - 1]

\* "i + batchsize > records" is a comparison of unsigned longs.
Ulong(n) == n % (Wrap * Wrap)
IsPartial(opt, i) == Ulong(i + opt.batchsize) > opt.records

\* Mutant: the last batch is as long as the others.
FullBatch(opt, i) == opt.batchsize

CurBatchsize(opt, i) ==
    IF IsPartial(opt, i) THEN Signed(opt.records - i) ELSE opt.batchsize

\* One turn of the loop, up to the commit.  No batch has a negative size.  The
\* driver may report that it has inserted fewer rows.
BiBatch(opt) ==
    /\ pc = "biLoop" /\ v.i < opt.records
    /\ LET cur  == CurBatchsize(opt, v.i)
           next == [v EXCEPT !.i = Signed(@ + opt.batchsize), !.toCommit = @ - cur]
           Loaded(n) == Put(txn, "LOAD", txn["LOAD"] \o Counters(v.i, n))
       IN  IF cur <= 0 THEN Denied("ABORT_DISCONNECT_EXIT")
           ELSE IF opt.testmode = 1
           THEN LET tested == [next EXCEPT !.toCommit = v.toCommit]
                IN  IF IsPartial(opt, v.i) THEN Calls("ABORT_DISCONNECT_EXIT", "biLoop", tested)
                    ELSE Silent("biLoop", tested)
           ELSE \/ Statement(Loaded(cur), IF next.toCommit <= 0 THEN "biCommit" ELSE "biLoop", next)
                \/ /\ Fault
                   /\ handle_errors("success", "ABORT_DISCONNECT_EXIT", db, Loaded(cur - 1),
                                    "biFinal", [v EXCEPT !.short = TRUE])

BiCommit(opt) ==
    /\ pc = "biCommit"
    /\ Commit("ERROR_EXIT", "biLoop", [v EXCEPT !.toCommit = CommitSize(opt)])

BiLoaded(opt) ==
    /\ pc = "biLoop" /\ v.i >= opt.records
    /\ Silent("biFinal", v)

BiFinal(opt) ==
    /\ pc = "biFinal"
    /\ Commit("ERROR_EXIT", IF opt.indexcount > 0 /\ opt.indexbefore = 0
                            THEN "biIndexAfter" ELSE "biStats", v)

BiIndexAfter == pc = "biIndexAfter" /\ MakeIndex("biStats")

BiStats(opt) ==
    /\ pc = "biStats"
    /\ IF opt.dostatsupdate = 1 THEN Calls("ABORT_DISCONNECT_EXIT", "biEnd", v)
       ELSE Silent("biEnd", v)

\* Freeing the handles and disconnecting.
BiEnd ==
    /\ pc = "biEnd"
    /\ \/ UNCHANGED faults /\ QuitTest(IF sig THEN 3 ELSE 0, db)
       \/ Fails("DISCONNECT_EXIT")

BulkinsertStep(opt) ==
    /\ \/ BiConnect \/ BiDrop \/ BiCreate \/ BiPrepare(opt) \/ BiIndexBefore
       \/ BiBatch(opt) \/ BiCommit(opt) \/ BiLoaded(opt) \/ BiFinal(opt)
       \/ BiIndexAfter \/ BiStats(opt) \/ BiEnd
    /\ UNCHANGED runs

-----------------------------------------------------------------------------
(* Properties.                                                             *)

\* Whatever fails, and at whatever point the program is interrupted, what is
\* committed in LOAD is the rows 0, 1, 2, ... without a gap or a double, at
\* most one interval and one batch behind what has been inserted; and all the
\* rows are there when it exits with 0, unless the driver reported fewer rows
\* (the batches and commits of main() in bulkinsert.c).
LoadedInOrder(opt) ==
    v.program = "bulkinsert" /\ "LOAD" \in DOMAIN db =>
        LET n == Len(db["LOAD"])
        IN  /\ db["LOAD"] = Counters(0, n)
            /\ Len(txn["LOAD"]) - n < CommitSize(opt) + opt.batchsize
            /\ pc = "exit" /\ status = 0 /\ opt.testmode = 0 /\ ~v.short => n = opt.records

\* "records (-r option) must be [1..INT_MAX]" (bulkinsert.c:180): the program
\* loads any such number.
LoadsAnyNumber(opt) ==
    v.program = "bulkinsert" /\ pc = "exit" /\ faults = 0 => status = 0

\* "sanity check: irow and the SQLRowCount result should match" (bulkinsert.c:465):
\* a program that exits with 0 has loaded all the rows.
SuccessMeansLoaded(opt) ==
    v.program = "bulkinsert" /\ pc = "exit" /\ status = 0 /\ opt.testmode = 0 =>
        Len(db["LOAD"]) = opt.records
=============================================================================
