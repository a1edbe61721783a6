-------------------------------- MODULE Wiscbm --------------------------------
(***************************************************************************)
(* wiscbm.c: four tables are created, or emptied, and filled; the queries  *)
(* of the Wisconsin benchmark run without indexes and then with them, and  *)
(* the tables are emptied or dropped if asked.  The inserts, deletes and   *)
(* updates of the queries, each a transaction, are meant to cancel out.    *)
(* Of a row there are unique1 and unique2; the SELECTs have no effect, and *)
(* all of them run (there is no -q).                                       *)
(***************************************************************************)
EXTENDS OdbcProgram, SequencesExt

CONSTANTS
    SmallRows, PrimeRows, BigRows,   \* SmlTblRowCnt, BigTblRowCnt/10, BigTblRowCnt
    Repeats,                         \* 10 * RPTS
    Generators     \* of randNum: [upto, generator, prime], in the order of upto

ASSUME WiscbmAssumption ==
    /\ {SmallRows, PrimeRows, BigRows} \subseteq Nat /\ PrimeRows <= BigRows
    /\ Repeats \in Nat /\ Repeats % 4 = 0

WiscTables    == <<"small", "big1", "big2", "Bprime">>
PopulateOrder == <<"small", "Bprime", "big1", "big2">>

NumTups(table)  == CASE table = "small" -> SmallRows [] table = "Bprime" -> PrimeRows [] OTHER -> BigRows
ValRange(table) == IF table = "small" THEN SmallRows ELSE BigRows

\* -nobuild implies -nocreate; the default of commitSize.
Create(opt)    == opt.build = 1 /\ opt.create = 1
WiscCommit(opt) == IF opt.commit = -1 THEN opt.batch ELSE opt.commit
RowByRow(opt)  == opt.nobind = 1 \/ opt.nobatch = 1

Source(table) == Generators[CHOOSE k \in DOMAIN Generators :
    /\ ValRange(table) <= Generators[k].upto
    /\ \A j \in 1..(k - 1) : Generators[j].upto < ValRange(table)]

randNum(table, seed) ==
    LET g == Source(table)
        Step(s) == (g.generator * s) % g.prime
        draw[s \in 0..g.prime] == IF Step(s) > ValRange(table) THEN draw[Step(s)] ELSE Step(s)
    IN  draw[seed]

\* The seeds of n rows, after one.
Seeds(table, seed, n) ==
    LET s[k \in 0..n] == IF k = 0 THEN seed ELSE randNum(table, s[k - 1]) IN s

\* The rows from `from` on.
NewRows(table, from, seed, n) ==
    [k \in 1..n |-> <<Seeds(table, seed, n)[k] - 1, from + k - 1>>]

\* What populateTable leaves.
PopulatedRows(table) == NewRows(table, 0, Source(table).generator, NumTups(table))

-----------------------------------------------------------------------------
(* Tables, with the columns that are unique.                               *)

EmptyTable(compat) == [rows |-> <<>>, unique |-> IF compat THEN {1} ELSE {}]
Truncated(d, table) ==
    IF table \in DOMAIN d THEN Put(d, table, [d[table] EXCEPT !.rows = <<>>]) ELSE d

IsUnique(rows, column) ==
    \A i, j \in DOMAIN rows : rows[i][column] = rows[j][column] => i = j
Accepts(tbl) == \A column \in tbl.unique : IsUnique(tbl.rows, column)

WithRows(t, table, rows) == Put(t, table, [t[table] EXCEPT !.rows = rows])
Inserted(t, table, rows) == WithRows(t, table, t[table].rows \o rows)
Deleted(t, table, val)   == WithRows(t, table, SelectSeq(t[table].rows, LAMBDA r : r[1] # val))
Updated(t, table, column, new, old) ==
    WithRows(t, table, [i \in DOMAIN t[table].rows |->
        IF t[table].rows[i][column] = old THEN [t[table].rows[i] EXCEPT ![column] = new]
        ELSE t[table].rows[i]])

\* A statement on a table, which must be there and accept what becomes of it.
OnTable(table, t, next, locals) ==
    IF table \notin DOMAIN txn \/ ~Accepts(t[table]) THEN Denied("ABORT_DISCONNECT_EXIT")
    ELSE Statement(t, next, locals)

-----------------------------------------------------------------------------
(* BuildDatabase                                                           *)

\* t: the table; n: rows inserted; left: tupsCommitCount; seed; q: the place in
\* Queries, i: the statement; compat: grid_compat; earlier: faults of the runs
\* before.
WiscbmLocals(opt) ==
    [program |-> "wiscbm", t |-> 1, n |-> 0, left |-> 0, seed |-> 0, q |-> 1, i |-> 0,
     compat |-> opt.grid_compat = 1, earlier |-> faults]

\* A connection to a grid sets grid_compat.
WiConnect(opt) ==
    /\ pc = "wiConnect"
    /\ \E grid \in BOOLEAN :
           Calls("DISCONNECT_EXIT", IF Create(opt) THEN "wiDrop"
                                    ELSE IF opt.build = 1 THEN "wiTruncate" ELSE "wiQuery",
                 [v EXCEPT !.compat = @ \/ grid])

Table == WiscTables[v.t]
NextTable == [v EXCEPT !.t = IF @ = 4 THEN 1 ELSE @ + 1]
Loop(again, after) == IF v.t = 4 THEN after ELSE again

WiDrop ==
    /\ pc = "wiDrop"
    /\ Ignored(Without(db, {Table}), "wiCreate")

WiCreate ==
    /\ pc = "wiCreate"
    /\ IF Table \in DOMAIN db THEN Denied("ABORT_DISCONNECT_EXIT")
       ELSE Ddl(Put(db, Table, EmptyTable(v.compat)), Loop("wiDrop", "wiBuilt"), NextTable)

\* TruncateTables: "Ignore errors if they did not exist".
Emptied(here, after) ==
    /\ pc = here
    /\ pc' = Loop(here, after) /\ v' = NextTable
    /\ \/ db' = Truncated(db, Table) /\ txn' = db' /\ UNCHANGED faults
       \/ Fault /\ UNCHANGED <<db, txn>>
    /\ UNCHANGED <<sig, status>>

WiTruncate == Emptied("wiTruncate", "wiBuilt")

WiBuilt(opt) ==
    /\ pc = "wiBuilt"
    /\ Calls("ABORT_DISCONNECT_EXIT", IF opt.truncate = 1 THEN "wiStats" ELSE "wiStart", v)

-----------------------------------------------------------------------------
(* populateTable, populateTableNoBatch, populateTableNoBind                *)

Filling == PopulateOrder[v.t]

WiStart(opt) ==
    /\ pc = "wiStart"
    /\ OnTable(Filling, txn, "wiInsert",
               [v EXCEPT !.n = 0, !.left = WiscCommit(opt), !.seed = Source(Filling).generator])

\* One batch, or one row.
WiInsert(opt) ==
    /\ pc = "wiInsert" /\ v.n < NumTups(Filling)
    /\ LET remain == NumTups(Filling) - v.n
           n    == IF RowByRow(opt) THEN 1 ELSE IF opt.batch > remain THEN remain ELSE opt.batch
           left == IF RowByRow(opt) THEN v.left ELSE v.left - n
           next == [v EXCEPT !.n = @ + n, !.left = left,
                             !.seed = Seeds(Filling, v.seed, n)[n]]
       IN  OnTable(Filling, Inserted(txn, Filling, NewRows(Filling, v.n, v.seed, n)),
                   IF ~RowByRow(opt) /\ left <= 0 THEN "wiCommit" ELSE "wiInsert", next)

WiCommit(opt) ==
    /\ pc = "wiCommit"
    /\ Commit("ERROR_EXIT", "wiInsert", [v EXCEPT !.left = WiscCommit(opt)])

WiFilled ==
    /\ pc = "wiInsert" /\ v.n = NumTups(Filling)
    /\ Commit("ERROR_EXIT", Loop("wiStart", "wiStats"), NextTable)

\* Resetting the parameters, closing the statement, the statistics.
WiStats ==
    /\ pc = "wiStats"
    /\ Calls("ABORT_DISCONNECT_EXIT", "wiQuery", v)

-----------------------------------------------------------------------------
(* The queries that write, and the indexes between them.                   *)

Indexing == 0
Queries == <<26, 27, 28, Indexing, 29, 30, 31, 32>>
Query == Queries[v.q]

QueryNonIndexed == {26, 27, 28}
IsQueryEnabled(opt, q) ==
    /\ Create(opt) \/ q \notin QueryNonIndexed
    /\ ~(v.compat /\ q = 32)

Runs(opt, q) ==
    IF q = Indexing THEN Create(opt) ELSE opt.queries = 1 /\ IsQueryEnabled(opt, q)

NextQuery == [v EXCEPT !.q = @ + 1, !.i = 0]

\* The SELECTs before a query and its preparation need the tables.  Between the
\* queries the statement handle is closed.
WiQuery(opt) ==
    /\ pc = "wiQuery" /\ v.q <= Len(Queries)
    /\ IF Query = Indexing /\ ~Create(opt) THEN Calls("ABORT_DISCONNECT_EXIT", "wiQuery", NextQuery)
       ELSE IF ~Runs(opt, Query) THEN Silent("wiQuery", NextQuery)
       ELSE IF ~(Range(WiscTables) \subseteq DOMAIN db) THEN Denied("ABORT_DISCONNECT_EXIT")
       ELSE Calls("ABORT_DISCONNECT_EXIT", IF Query = Indexing THEN "wiIndex" ELSE "wiExec", v)

Big == IF v.i % 2 = 0 THEN "big1" ELSE "big2"

\* Mutant: the second update of a table is like the first.
UpdateAgain(t, column) ==
    Updated(t, Big, column, BigRows + 1 + v.i \div 4, BigRows \div 2 + v.i \div 4)

\* Statement i of doUpdate: there, on both tables, and back.
UpdateStmt(t, column) ==
    LET val1 == BigRows + 1 + v.i \div 4
        val2 == BigRows \div 2 + v.i \div 4
    IN  IF v.i % 4 < 2 THEN Updated(t, Big, column, val1, val2)
        ELSE Updated(t, Big, column, val2, val1)

\* Statement i of doInsert, doDelete and doUpdate.
WiscStmt(t) ==
    LET val == BigRows + 1 + v.i \div 2
    IN  CASE Query \in {26, 29} -> Inserted(t, Big, <<<<val, val>>>>)
          [] Query \in {27, 30} -> Deleted(t, Big, val)
          [] Query \in {28, 31} -> UpdateStmt(t, 2)
          [] Query = 32         -> UpdateStmt(t, 1)

WiExec ==
    /\ pc = "wiExec" /\ v.i < Repeats
    /\ OnTable(Big, WiscStmt(txn), "wiExecuted", v)

WiExecuted ==
    /\ pc = "wiExecuted"
    /\ Commit("ERROR_EXIT", "wiExec", [v EXCEPT !.i = @ + 1])

\* The handles are freed.
WiQueried ==
    /\ pc = "wiExec" /\ v.i = Repeats
    /\ Calls("ABORT_DISCONNECT_EXIT", "wiQuery", NextQuery)

Indexes == <<<<"small", 1>>, <<"small", 2>>, <<"big1", 1>>, <<"big1", 2>>, <<"big2", 1>>, <<"big2", 2>>>>

\* crIxStmts: unique1 is the primary key already with grid_compat.
WiIndex ==
    /\ pc = "wiIndex" /\ v.i < Len(Indexes)
    /\ LET table  == Indexes[v.i + 1][1]
           column == Indexes[v.i + 1][2]
           next   == [v EXCEPT !.i = @ + 1]
       IN  IF v.compat /\ column = 1 THEN Silent("wiIndex", next)
           ELSE IF ~IsUnique(db[table].rows, column) THEN Denied("ABORT_DISCONNECT_EXIT")
           ELSE Ddl(Put(db, table, [db[table] EXCEPT !.unique = @ \cup {column}]), "wiIndex", next)

WiIndexed ==
    /\ pc = "wiIndex" /\ v.i = Len(Indexes)
    /\ Commit("ERROR_EXIT", "wiQuery", NextQuery)

-----------------------------------------------------------------------------
(* The end.                                                                *)

WiFinish(opt) ==
    /\ pc = "wiQuery" /\ v.q > Len(Queries)
    /\ Silent(IF opt.truncate = 1 THEN "wiTruncateAll" ELSE IF opt.drop = 1 THEN "wiDropAll"
              ELSE "wiEnd", v)

WiTruncateAll == Emptied("wiTruncateAll", "wiEmptied")

WiEmptied(opt) ==
    /\ pc = "wiEmptied"
    /\ Calls("ABORT_DISCONNECT_EXIT", IF opt.drop = 1 THEN "wiDropAll" ELSE "wiEnd", v)

WiDropAll ==
    /\ pc = "wiDropAll"
    /\ pc' = Loop("wiDropAll", "wiDropped") /\ v' = NextTable
    /\ \/ db' = Without(db, {Table}) /\ txn' = db' /\ UNCHANGED faults
       \/ Fault /\ UNCHANGED <<db, txn>>
    /\ UNCHANGED <<sig, status>>

WiDropped ==
    /\ pc = "wiDropped"
    /\ Calls("ABORT_DISCONNECT_EXIT", "wiEnd", v)

WiEnd ==
    /\ pc = "wiEnd"
    /\ UNCHANGED faults /\ QuitTest(0, db)

WiscbmStep(opt) ==
    /\ \/ WiConnect(opt) \/ WiDrop \/ WiCreate \/ WiTruncate \/ WiBuilt(opt)
       \/ WiStart(opt) \/ WiInsert(opt) \/ WiCommit(opt) \/ WiFilled \/ WiStats
       \/ WiQuery(opt) \/ WiExec \/ WiExecuted \/ WiQueried \/ WiIndex \/ WiIndexed
       \/ WiFinish(opt) \/ WiTruncateAll \/ WiEmptied(opt) \/ WiDropAll \/ WiDropped
       \/ WiEnd
    /\ UNCHANGED runs

-----------------------------------------------------------------------------
(* Properties.                                                             *)

\* The rows of a table are those of populateTable, which has unique columns.
AsPopulated(tbl, table) ==
    /\ tbl.rows = PopulatedRows(table)
    /\ \A column \in 1..2 : IsUnique(tbl.rows, column)
    /\ \A i \in DOMAIN tbl.rows : \A column \in 1..2 : tbl.rows[i][column] \in 0..(ValRange(table) - 1)

\* Whatever earlier runs left, of which each may have failed or been interrupted
\* anywhere: a run without a fault that builds and creates ends with 0; and one
\* that builds and ends with 0 leaves the tables exactly as they were populated,
\* in spite of its inserts, deletes and updates, or emptied or dropped if it was
\* asked to (BuildDatabase and main() of wiscbm.c).
TablesAsAsked(opt) ==
    v.program = "wiscbm" /\ pc = "exit" /\ faults = v.earlier /\ opt.build = 1 =>
        /\ Create(opt) => status = 0
        /\ status = 0 =>
              \A table \in Range(WiscTables) :
                  IF opt.drop = 1 THEN table \notin DOMAIN db
                  ELSE /\ table \in DOMAIN db \/ (opt.truncate = 1 /\ ~Create(opt))
                       /\ table \in DOMAIN db =>
                              IF opt.truncate = 1 THEN db[table].rows = <<>>
                              ELSE AsPopulated(db[table], table)

\* A run on the tables of an earlier one (-nobuild) that ends with 0 leaves no
\* value in them that the queries have put there.
NothingLeftOver(opt) ==
    v.program = "wiscbm" /\ pc = "exit" /\ status = 0 /\ opt.build = 0 /\ opt.queries = 1 =>
        \A table \in DOMAIN db : \A i \in DOMAIN db[table].rows : \A column \in 1..2 :
            db[table].rows[i][column] \in 0..(ValRange(table) - 1)

\* "execute the insert statement 10*RPT times" (wiscbm.c:2316), on tables that are
\* there: a run on the tables of an earlier one ends with 0.
NobuildRuns(opt) ==
    v.program = "wiscbm" /\ pc = "exit" /\ faults = v.earlier /\ opt.build = 0
    /\ Range(WiscTables) \subseteq DOMAIN db => status = 0
=============================================================================
