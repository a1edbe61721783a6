------------------------- MODULE ScaleoutOdbcProofs -------------------------
(***************************************************************************)
(* The layer GSOdbc.c keeps its handles, buffers and error lists in order, *)
(* for any bindings, any setters and values, and any number of answers of  *)
(* the driver that are not SQL_SUCCESS.                                    *)
(*                                                                         *)
(* OInv follows a statement through the script that initialises every      *)
(* transaction: which of its handle, its text and its bindings are there   *)
(* by the position in the script (Placed), so that all are when the script *)
(* is over (Complete).  What the driver has the address of is then what    *)
(* the layer still owns (Owned), but for a binding the driver has just     *)
(* refused, which the error path frees.  Told ties the error list that the *)
(* error path reads to the refusal it is about.                            *)
(*                                                                         *)
(* The last theorem is about the other program of these sources, tptbm.c:  *)
(* its processes insert rows in blocks of keys that never meet.            *)
(***************************************************************************)
EXTENDS GsOdbc, TptbmWorkload, WellFoundedInduction, TLAPS

-----------------------------------------------------------------------------
(* The invariant.                                                          *)

\* The buffers the layer allocates: a number has room in its own.
Buffers == {b \in [c : CTypes, size : Nat] : b.c # "CHAR" => Bytes(b.c) <= b.size}

Bindings(numbers) == UNION {[some -> Buffers] : some \in SUBSET numbers}

Structures == [hStmt : BOOLEAN, text : BOOLEAN, params : Bindings({1}),
               cols : Bindings({1, 2}), errors : SUBSET Diags]

Connections == [connected : BOOLEAN, errors : SUBSET Diags]

Driver == [env : BOOLEAN, dbc : BOOLEAN, open : BOOLEAN, auto : BOOLEAN,
           live : SUBSET Stmts, orphans : BOOLEAN,
           bound : [Stmts -> [params : SUBSET {1}, cols : SUBSET {1, 2}]]]

Reasons == Diags \cup {"unread"}

\* The list holds diagnostics the driver posted, all of them unless some could not
\* be read.
AsRead(list, why) ==
    /\ list # {} /\ list \subseteq why \cap Diags
    /\ list = why \/ "unread" \in why

Typed ==
    /\ pc \in PCs
    /\ at \in Nat /\ (pc \in Txns \cup {"init"} => at \in 1..Len(Script))
    /\ stmt \in [Stmts -> {None} \cup Structures]
    /\ conn \in {None} \cup Connections
    /\ drv \in Driver
    /\ ret \in {"success", "normal", "noinfo", "nodata", "mismatch"}
    /\ cause \in SUBSET Reasons

\* Where the script begins with a statement, has its handle, prepares it and
\* binds its parameter.
ResetAt(s) == CASE s = "purge" -> 1 [] s = "query" -> 5 [] s \in {"select", "update"} -> 11
AllocAt(s) == CASE s = "purge" -> 2 [] s = "query" -> 6 [] s = "select" -> 12 [] s = "update" -> 13
PrepAt(s)  == CASE s = "purge" -> 3 [] s = "query" -> 7 [] s = "select" -> 14 [] s = "update" -> 16
ParamAt(s) == CASE s = "purge" -> 4 [] s = "query" -> 8 [] s = "select" -> 15 [] s = "update" -> 17

\* What the calls before position a have made of statement s; st and d are
\* the statements and the driver, before or after a step.
Usable(st, s) == st[s] # None /\ st[s].hStmt

Reached(st, d, s, a) ==
    /\ ResetAt(s) < a /\ a <= AllocAt(s) => d.bound[s] = NoBuffers
    /\ AllocAt(s) < a => Usable(st, s) /\ s \in d.live
    /\ PrepAt(s) < a  => st[s].text
    /\ ParamAt(s) < a => DOMAIN st[s].params = {1}
    /\ s = "query" /\ 9 < a  => 1 \in DOMAIN st[s].cols
    /\ s = "query" /\ 10 < a => 2 \in DOMAIN st[s].cols

Placed == pc = "init" => \A s \in Stmts : Reached(stmt, drv, s, at)

\* The end of the script.
Over == 18

Complete == pc \in Txns \cup {"ready"} => \A s \in Stmts : Reached(stmt, drv, s, Over)

\* The connection, from the call that opens it on.
Session ==
    /\ pc \notin {"allocContext", "exit"} => conn # None
    /\ pc = "autocommit" => drv.open
    /\ pc \in Txns \cup {"init", "ready"} => conn.connected /\ drv.open /\ ~drv.auto

\* The driver has no address the layer has freed.
Safe(st, d, s) == d.bound[s] # NoBuffers => s \in d.live /\ Usable(st, s)

Linked(st, d, s) ==
    d.bound[s] # NoBuffers => /\ d.bound[s].params \subseteq DOMAIN st[s].params
                              /\ d.bound[s].cols \subseteq DOMAIN st[s].cols

Owned ==
    \A s \in Stmts : /\ Safe(stmt, drv, s)
                     /\ Linked(stmt, drv, s) \/ (ret # "success" /\ pc = "init" /\ Call.s = s)

\* The error list the error path reads holds what the driver posted last.
Told ==
    ret # "success" =>
        /\ pc \in Txns \cup {"init"}
        /\ Call.op # "reset"
        /\ ret = "normal" => AsRead(ErrStack, cause)

OInv == Typed /\ Placed /\ Complete /\ Session /\ Owned /\ Told

-----------------------------------------------------------------------------
(* The scripts.                                                            *)

LEMMA Concatenated ==
    ASSUME NEW a1, NEW a2, NEW a3, NEW a4,
           NEW b1, NEW b2, NEW b3, NEW b4, NEW b5, NEW b6,
           NEW c1, NEW c2, NEW c3, NEW c4, NEW c5, NEW c6, NEW c7, NEW s,
           s = <<a1, a2, a3, a4>> \o <<b1, b2, b3, b4, b5, b6>>
               \o <<c1, c2, c3, c4, c5, c6, c7>>
    PROVE  /\ Len(s) = 17
           /\ s[1] = a1 /\ s[2] = a2 /\ s[3] = a3 /\ s[4] = a4
           /\ s[5] = b1 /\ s[6] = b2 /\ s[7] = b3 /\ s[8] = b4 /\ s[9] = b5 /\ s[10] = b6
           /\ s[11] = c1 /\ s[12] = c2 /\ s[13] = c3 /\ s[14] = c4 /\ s[15] = c5
           /\ s[16] = c6 /\ s[17] = c7
  OBVIOUS

LEMMA InitCalls ==
    /\ Len(InitAll) = 17
    /\ InitAll[1] = On("reset", "purge", 0)    /\ InitAll[2] = On("alloc", "purge", 0)
    /\ InitAll[3] = On("prepare", "purge", 0)  /\ InitAll[4] = On("param", "purge", 1)
    /\ InitAll[5] = On("reset", "query", 0)    /\ InitAll[6] = On("alloc", "query", 0)
    /\ InitAll[7] = On("prepare", "query", 0)  /\ InitAll[8] = On("param", "query", 1)
    /\ InitAll[9] = On("col", "query", 1)      /\ InitAll[10] = On("col", "query", 2)
    /\ InitAll[11] = On("reset", "select", 0)  /\ InitAll[12] = On("alloc", "select", 0)
    /\ InitAll[13] = On("alloc", "update", 0)  /\ InitAll[14] = On("prepare", "select", 0)
    /\ InitAll[15] = On("param", "select", 1)  /\ InitAll[16] = On("prepare", "update", 0)
    /\ InitAll[17] = On("param", "update", 1)
  BY Concatenated DEF InitAll, initTxn

LEMMA Owners ==
    /\ Owner("purge") = "purge" /\ Owner("query") = "query"
    /\ Owner("select") = "charge" /\ Owner("update") = "charge"
  <1>1. /\ StmtsOf("purge") = <<"purge">> /\ StmtsOf("query") = <<"query">>
        /\ StmtsOf("charge") = <<"select", "update">>
    BY DEF StmtsOf
  <1>2. \A t \in Txns, s \in Stmts : (\E n \in DOMAIN StmtsOf(t) : StmtsOf(t)[n] = s) <=>
             \/ t = "purge" /\ s = "purge"
             \/ t = "query" /\ s = "query"
             \/ t = "charge" /\ s \in {"select", "update"}
    BY <1>1 DEF Txns, Stmts
  <1> HIDE DEF Stmts
  <1>3. QED
    BY <1>2 DEF Owner, Txns, Stmts


\* Where each kind of call is in the script.
LEMMA InitCall ==
    ASSUME pc = "init", at \in 1..17
    PROVE  /\ Script = InitAll
           /\ Call.s \in Stmts
           /\ Call.op \in {"reset", "alloc", "prepare", "param", "col"}
           /\ Call.op = "reset" => at = ResetAt(Call.s) /\ Call.s # "update"
           /\ Call.op = "alloc" => at = AllocAt(Call.s)
           /\ Call.op = "prepare" => at = PrepAt(Call.s)
           /\ Call.op = "param" => at = ParamAt(Call.s) /\ Call.n = 1
           /\ Call.op = "col" => Call.s = "query" /\ at = 8 + Call.n /\ Call.n \in {1, 2}
  <1>1. Script = InitAll
    BY DEF Script, Txns
  <1>2. Call = InitAll[at]
    BY <1>1 DEF Call
  <1>3. \/ at = 1 \/ at = 2 \/ at = 3 \/ at = 4 \/ at = 5 \/ at = 6 \/ at = 7 \/ at = 8 \/ at = 9
        \/ at = 10 \/ at = 11 \/ at = 12 \/ at = 13 \/ at = 14 \/ at = 15 \/ at = 16 \/ at = 17
    OBVIOUS
  <1>4. QED
    BY <1>1, <1>2, <1>3, InitCalls DEF On, Stmts, ResetAt, AllocAt, PrepAt, ParamAt

\* The transactions use what the script has made, and set parameter 1 only.
LEMMA TxnCall ==
    ASSUME pc \in Txns, at \in 1..Len(Script)
    PROVE  /\ Call.s \in Stmts
           /\ Call.op \in {"set", "execute", "fetch", "close", "rowcount", "commit"}
           /\ Call.op = "set" => Call.n = 1
           /\ Len(Script) \in Nat
  <1>1. CASE pc = "query"
    BY <1>1 DEF Call, Script, executeTxn, On, Stmts
  <1>2. CASE pc = "charge"
    BY <1>2 DEF Call, Script, executeTxn, On, OnConn, Stmts
  <1>3. CASE pc = "purge"
    BY <1>3 DEF Call, Script, executeTxn, On, OnConn, Stmts
  <1>4. QED
    BY <1>1, <1>2, <1>3 DEF Txns

LEMMA OwnerStmts ==
    ASSUME NEW s \in Stmts
    PROVE  /\ s \in Range(StmtsOf(Owner(s))) /\ Range(StmtsOf(Owner(s))) \subseteq Stmts
           /\ \A r \in Stmts : r \in Range(StmtsOf(Owner(s))) <=> ResetAt(r) = ResetAt(s)
  BY Owners DEF Range, StmtsOf, Stmts, ResetAt

LEMMA NoBindings ==
    << >> \in Bindings({1}) /\ << >> \in Bindings({1, 2}) /\ DOMAIN << >> = {}
  <1>1. << >> \in [{} -> Buffers]
    OBVIOUS
  <1>2. QED
    BY <1>1 DEF Bindings

\* A call of the script leaves the other statements as far as they are.
LEMMA OthersReached ==
    ASSUME pc = "init", at \in 1..17, Call.op # "reset",
           NEW st, NEW d, NEW s \in Stmts, s # Call.s, Reached(st, d, s, at)
    PROVE  Reached(st, d, s, at + 1)
  <1>1. Call = InitAll[at]
    BY DEF Call, Script, Txns
  <1>2. \/ at = 1 \/ at = 2 \/ at = 3 \/ at = 4 \/ at = 5 \/ at = 6 \/ at = 7 \/ at = 8 \/ at = 9
        \/ at = 10 \/ at = 11 \/ at = 12 \/ at = 13 \/ at = 14 \/ at = 15 \/ at = 16 \/ at = 17
    OBVIOUS
  <1>3. /\ at \notin {ResetAt(s), AllocAt(s), PrepAt(s), ParamAt(s)}
        /\ s = "query" => at \notin {9, 10}
    BY <1>1, <1>2, InitCalls DEF On, Stmts, ResetAt, AllocAt, PrepAt, ParamAt
  <1>4. ResetAt(s) \in Nat /\ AllocAt(s) \in Nat /\ PrepAt(s) \in Nat /\ ParamAt(s) \in Nat
    BY DEF Stmts, ResetAt, AllocAt, PrepAt, ParamAt
  <1>5. QED
    BY <1>3, <1>4 DEF Reached

\* The order of the calls of one statement.
LEMMA Order ==
    ASSUME NEW s \in Stmts
    PROVE  /\ ResetAt(s) \in Nat /\ AllocAt(s) \in Nat /\ PrepAt(s) \in Nat /\ ParamAt(s) \in Nat
           /\ ResetAt(s) < AllocAt(s) /\ AllocAt(s) < PrepAt(s) /\ PrepAt(s) < ParamAt(s)
           /\ ParamAt(s) < Over /\ (s = "query" => ParamAt(s) = 8)
  BY DEF Stmts, ResetAt, AllocAt, PrepAt, ParamAt, Over

-----------------------------------------------------------------------------
(* Statements a step leaves as they are, but for their error list.         *)

Kept(s) ==
    /\ \/ stmt'[s] = stmt[s]
       \/ /\ stmt[s] # None /\ stmt'[s] # None
          /\ stmt'[s].hStmt = stmt[s].hStmt /\ stmt'[s].text = stmt[s].text
          /\ stmt'[s].params = stmt[s].params /\ stmt'[s].cols = stmt[s].cols
    /\ drv'.bound[s] = drv.bound[s]
    /\ s \in drv.live => s \in drv'.live

LEMMA KeptReached ==
    ASSUME NEW s \in Stmts, NEW a, Kept(s), Reached(stmt, drv, s, a)
    PROVE  Reached(stmt', drv', s, a)
  BY DEF Kept, Reached, Usable

LEMMA KeptSafe ==
    ASSUME NEW s \in Stmts, Kept(s)
    PROVE  /\ Safe(stmt, drv, s) => Safe(stmt', drv', s)
           /\ Linked(stmt, drv, s) => Linked(stmt', drv', s)
  BY DEF Kept, Safe, Linked, Usable

LEMMA StructureIsNotNone == ASSUME NEW r \in Structures PROVE r # None
  <1>1. DOMAIN r # DOMAIN None
    BY DEF Structures, None
  <1>2. QED
    BY <1>1

LEMMA ConnectionIsNotNone == ASSUME NEW c \in Connections PROVE c # None
  <1>1. DOMAIN c # DOMAIN None
    BY DEF Connections, None
  <1>2. QED
    BY <1>1

-----------------------------------------------------------------------------
(* Answers of the driver.                                                  *)

Codes == {"success", "info", "error", "invalid", "nodata", "notopen"}

LEMMA Outcome ==
    ASSUME NEW rc \in Codes, NEW diags \in SUBSET Diags, NEW o \in Outcomes(rc, diags)
    PROVE  /\ o.ret \in {"success", "normal", "noinfo", "nodata"}
           /\ o.ret = "success" <=> rc = "success"
           /\ o.errors \in SUBSET Diags /\ o.cause \in SUBSET Reasons
           /\ o.ret = "normal" => AsRead(o.errors, o.cause)
           /\ rc = "success" => o.errors = diags
  <1>1. CASE rc \in {"success", "nodata", "invalid"}
    BY <1>1 DEF Outcomes, NoError
  <1>2. CASE rc \in {"info", "error", "notopen"}
    <2>1. PICK d \in Posted(rc) : o \in odbcGetErrors(diags, d)
      BY <1>2 DEF Outcomes
    <2>2. d \in SUBSET Diags /\ d # {}
      BY <2>1 DEF Posted, Diags, NoError
    <2>3. PICK read \in SUBSET d :
             o = [ret |-> IF read = {} THEN "noinfo" ELSE "normal",
                  errors |-> read, cause |-> Why(d, read)]
      BY <2>1 DEF odbcGetErrors, NoError
    <2>4. Why(d, read) \subseteq Reasons
          /\ read \subseteq Why(d, read) /\ (read = Why(d, read) \/ "unread" \in Why(d, read))
      BY <2>2 DEF Why, Reasons
    <2>5. QED
      BY <1>2, <2>2, <2>3, <2>4 DEF AsRead
  <1>3. QED
    BY <1>1, <1>2 DEF Codes

-----------------------------------------------------------------------------
(* Structures a call changes.                                              *)

LEMMA Fields ==
    ASSUME NEW r \in Structures
    PROVE  /\ r = [hStmt |-> r.hStmt, text |-> r.text, params |-> r.params, cols |-> r.cols,
                   errors |-> r.errors]
           /\ r.hStmt \in BOOLEAN /\ r.text \in BOOLEAN /\ r.params \in Bindings({1})
           /\ r.cols \in Bindings({1, 2}) /\ r.errors \in SUBSET Diags
  BY DEF Structures

LEMMA WithErrors ==
    ASSUME NEW r \in Structures, NEW e \in SUBSET Diags
    PROVE  /\ [r EXCEPT !.errors = e] \in Structures
           /\ [r EXCEPT !.errors = e] = [hStmt |-> r.hStmt, text |-> r.text, params |-> r.params,
                                         cols |-> r.cols, errors |-> e]
  BY Fields DEF Structures

LEMMA WithText ==
    ASSUME NEW r \in Structures
    PROVE  /\ [r EXCEPT !.text = TRUE] \in Structures
           /\ [r EXCEPT !.text = TRUE] = [hStmt |-> r.hStmt, text |-> TRUE, params |-> r.params,
                                          cols |-> r.cols, errors |-> r.errors]
  BY Fields DEF Structures

LEMMA WithParams ==
    ASSUME NEW r \in Structures, NEW ps \in Bindings({1})
    PROVE  /\ [r EXCEPT !.params = ps] \in Structures
           /\ [r EXCEPT !.params = ps] = [hStmt |-> r.hStmt, text |-> r.text, params |-> ps,
                                          cols |-> r.cols, errors |-> r.errors]
  BY Fields DEF Structures

LEMMA WithCols ==
    ASSUME NEW r \in Structures, NEW cs \in Bindings({1, 2})
    PROVE  /\ [r EXCEPT !.cols = cs] \in Structures
           /\ [r EXCEPT !.cols = cs] = [hStmt |-> r.hStmt, text |-> r.text, params |-> r.params,
                                        cols |-> cs, errors |-> r.errors]
  BY Fields DEF Structures

LEMMA OneMoreBinding ==
    ASSUME NEW numbers, NEW f \in Bindings(numbers), NEW n \in numbers, NEW b \in Buffers
    PROVE  /\ Link(f, n, b) \in Bindings(numbers)
           /\ DOMAIN Link(f, n, b) = {n} \cup DOMAIN f
  <1>1. PICK some \in SUBSET numbers : f \in [some -> Buffers]
    BY DEF Bindings
  <1>2. Link(f, n, b) \in [{n} \cup some -> Buffers]
    BY <1>1 DEF Link
  <1>3. QED
    BY <1>1, <1>2 DEF Bindings, Link

LEMMA BindsParam ==
    ASSUME NEW d \in Driver, NEW s \in Stmts, NEW n, n = 1
    PROVE  LET e == [d EXCEPT !.bound[s].params = @ \cup {n}]
           IN  /\ e \in Driver /\ e.live = d.live /\ e.open = d.open /\ e.auto = d.auto
               /\ \A r \in Stmts \ {s} : e.bound[r] = d.bound[r]
               /\ e.bound[s] = [params |-> d.bound[s].params \cup {n}, cols |-> d.bound[s].cols]
  BY DEF Driver

LEMMA BindsCol ==
    ASSUME NEW d \in Driver, NEW s \in Stmts, NEW n, n \in {1, 2}
    PROVE  LET e == [d EXCEPT !.bound[s].cols = @ \cup {n}]
           IN  /\ e \in Driver /\ e.live = d.live /\ e.open = d.open /\ e.auto = d.auto
               /\ \A r \in Stmts \ {s} : e.bound[r] = d.bound[r]
               /\ e.bound[s] = [params |-> d.bound[s].params, cols |-> d.bound[s].cols \cup {n}]
  BY DEF Driver

LEMMA ParamBuffer ==
    ASSUME NEW b \in [c : CTypes, db : DbTypes, w : Nat, d : Nat], odbcAllocParam(b).ok
    PROVE  [c |-> b.c, size |-> odbcAllocParam(b).size] \in Buffers
  <1> DEFINE size == odbcAllocParam(b).size
  <1>1. b.c \in CTypes /\ b.db \in DbTypes /\ b.w \in Nat /\ b.d \in Nat
    OBVIOUS
  <1>2. size \in {Bytes(b.c), Bytes("DOUBLE")} \/ (b.c = "CHAR" /\ size \in Nat)
    <2> USE DEF odbcAllocParam, odbcTypeCompatible, If, No, Natural, Buffer
    <2>1. CASE b.db = "CHAR"
      BY <1>1, <2>1 DEF CharParam
    <2>2. CASE b.db = "TINYINT"
      BY <1>1, <2>2 DEF TinyintParam
    <2>3. CASE b.db = "SMALLINT"
      BY <1>1, <2>3 DEF SmallintParam
    <2>4. CASE b.db = "INTEGER"
      BY <1>1, <2>4 DEF IntegerParam
    <2>5. CASE b.db = "BIGINT"
      BY <1>1, <2>5 DEF BigintParam
    <2>6. CASE b.db = "NUMERIC"
      BY <1>1, <2>6 DEF NumericParam
    <2>7. CASE b.db \in {"REAL", "DOUBLE"}
      BY <1>1, <2>7 DEF FloatParam
    <2>8. QED
      BY <1>1, <2>1, <2>2, <2>3, <2>4, <2>5, <2>6, <2>7 DEF DbTypes
  <1>3. Bytes(b.c) \in Nat /\ Bytes(b.c) <= Bytes("DOUBLE") /\ Bytes("DOUBLE") \in Nat
    BY <1>1 DEF Bytes, CTypes, Integral
  <1>4. QED
    BY <1>1, <1>2, <1>3 DEF Buffers

LEMMA ColBuffer ==
    ASSUME NEW b \in [c : CTypes, len : Nat], odbcAllocCol(b).ok
    PROVE  [c |-> b.c, size |-> odbcAllocCol(b).size] \in Buffers
  <1> USE DEF If, No, Natural, Buffer
  <1>1. \/ odbcAllocCol(b) = Natural(b.c)
        \/ b.c = "CHAR" /\ odbcAllocCol(b) = Buffer(4 * b.len + 1)
    BY DEF odbcAllocCol, odbcValidColType, ColTypes
  <1>2. Bytes(b.c) \in Nat
    BY DEF Bytes, CTypes, Integral
  <1>3. QED
    BY <1>1, <1>2 DEF Buffers

-----------------------------------------------------------------------------
(* The scripts go on, or stop.                                             *)

InScript == pc \in Txns \cup {"init"}

LEMMA CallTyped ==
    ASSUME Typed, InScript
    PROVE  /\ Call.s \in Stmts /\ Len(Script) \in Nat /\ at \in 1..Len(Script)
           /\ pc = "init" => Len(Script) = 17
           /\ pc \in Txns => pc # "init"
  <1>1. CASE pc = "init"
    <2>1. Script = InitAll
      BY <1>1 DEF Script, Txns
    <2>2. QED
      BY <1>1, <2>1, InitCall, InitCalls DEF Typed, Txns
  <1>2. CASE pc \in Txns
    BY <1>2, TxnCall DEF Typed, Txns
  <1>3. QED
    BY <1>1, <1>2 DEF InScript

LEMMA SameScript ==
    /\ pc' = pc => Script' = Script
    /\ pc' = pc /\ at' = at => Call' = Call
  BY DEF Script, Call

LEMMA FirstCall == pc' \in Txns \cup {"init"} => Len(Script') \in Nat /\ 1 \in 1..Len(Script')
  <1>1. CASE pc' = "init"
    <2>1. Script' = InitAll
      BY <1>1 DEF Script, Txns
    <2>2. QED
      BY <2>1, InitCalls
  <1>2. CASE pc' = "query"
    BY <1>2 DEF Script, executeTxn, Txns
  <1>3. CASE pc' = "charge"
    BY <1>3 DEF Script, executeTxn, Txns
  <1>4. CASE pc' = "purge"
    BY <1>4 DEF Script, executeTxn, Txns
  <1>5. QED
    BY <1>1, <1>2, <1>3, <1>4 DEF Txns

\* What every step keeps: the types of what it changes, and the connection as a
\* session.
TypedStep ==
    /\ stmt' \in [Stmts -> {None} \cup Structures]
    /\ conn' \in {None} \cup Connections
    /\ drv' \in Driver
    /\ ret' \in {"success", "normal", "noinfo", "nodata", "mismatch"}
    /\ cause' \in SUBSET Reasons

SameSession ==
    /\ conn' # None /\ conn'.connected = conn.connected
    /\ drv'.open = drv.open /\ drv'.auto = drv.auto

\* A call that has not succeeded: the others are as they were, its own statement is
\* as far as it was, and the driver has no address the layer has freed.
LEMMA CallFailed ==
    ASSUME OInv, InScript, Call.op # "reset", TypedStep, SameSession,
           pc' = pc, at' = at, ret' # "success",
           ret' = "normal" => AsRead(ErrStack', cause'),
           \A r \in Stmts \ {Call.s} : Kept(r),
           pc \in Txns => Kept(Call.s),
           ret = "success",
           pc = "init" => Reached(stmt', drv', Call.s, at),
           Safe(stmt', drv', Call.s)
    PROVE  OInv'
  <1> USE CallTyped DEF OInv
  <1>1. Call' = Call /\ Script' = Script
    BY SameScript
  <1>2. Typed'
    BY <1>1 DEF Typed, TypedStep
  <1>3. Placed'
    BY KeptReached DEF Placed
  <1>4. Complete'
    BY KeptReached DEF Complete, InScript
  <1>5. Session'
    BY DEF Session, SameSession
  <1>6. Owned'
    BY <1>1, KeptSafe DEF Owned, InScript
  <1>7. Told'
    BY <1>1 DEF Told, InScript
  <1>8. QED
    BY <1>2, <1>3, <1>4, <1>5, <1>6, <1>7

\* A call that has succeeded, of a function that goes on behind it.
LEMMA CallSucceeded ==
    ASSUME OInv, InScript, TypedStep, SameSession, Onward, ret' = "success",
           pc \in Txns => \A r \in Stmts : Kept(r),
           pc = "init" => \A r \in Stmts : Reached(stmt', drv', r, at + 1),
           \A r \in Stmts : Safe(stmt', drv', r) /\ Linked(stmt', drv', r)
    PROVE  OInv'
  <1> USE CallTyped DEF OInv
  <1>1. \/ pc' = pc /\ at' = at + 1 /\ at + 1 \in 1..Len(Script) /\ Script' = Script
        \/ pc' = "ready" /\ at' = 1 /\ at = Len(Script)
    BY SameScript DEF Onward, Goto
  <1>2. Typed'
    BY <1>1 DEF Typed, TypedStep, PCs, Txns
  <1>3. Placed'
    BY <1>1 DEF Placed, Txns
  <1>4. Complete'
    <2>1. CASE pc \in Txns
      BY <2>1, KeptReached DEF Complete
    <2>2. CASE pc = "init"
      <3>1. ASSUME pc' = "ready" PROVE at + 1 = Over
        <4>1. at = 17
          BY <1>1, <2>2, <3>1
        <4>2. QED
          BY <4>1 DEF Over
      <3>2. pc' \in Txns \cup {"ready"} => pc' = "ready"
        BY <1>1, <2>2 DEF Txns
      <3>3. QED
        BY <2>2, <3>1, <3>2 DEF Complete
    <2>3. QED
      BY <2>1, <2>2 DEF InScript
  <1>5. Session'
    BY <1>1 DEF Session, SameSession, InScript, Txns
  <1>6. Owned'
    BY DEF Owned
  <1>7. Told'
    BY DEF Told
  <1>8. QED
    BY <1>2, <1>3, <1>4, <1>5, <1>6, <1>7

\* The same, for a call that changes one statement.
LEMMA CallSucceededOn ==
    ASSUME OInv, InScript, ret = "success", Call.op # "reset", TypedStep, SameSession, Onward,
           ret' = "success",
           \A r \in Stmts \ {Call.s} : Kept(r),
           pc \in Txns => Kept(Call.s),
           pc = "init" => /\ Reached(stmt', drv', Call.s, at + 1)
                          /\ Safe(stmt', drv', Call.s) /\ Linked(stmt', drv', Call.s)
    PROVE  OInv'
  <1> USE CallTyped DEF OInv
  <1>1. \A r \in Stmts : Safe(stmt, drv, r) /\ Linked(stmt, drv, r)
    BY DEF Owned
  <1>2. \A r \in Stmts : Safe(stmt', drv', r) /\ Linked(stmt', drv', r)
    BY <1>1, KeptSafe DEF InScript
  <1>3. pc = "init" => \A r \in Stmts : Reached(stmt', drv', r, at + 1)
    BY KeptReached, OthersReached DEF Placed
  <1>4. QED
    BY <1>2, <1>3, CallSucceeded

-----------------------------------------------------------------------------
(* Freeing, and the reset an init function begins with.                    *)

LEMMA Freed ==
    ASSUME Typed, \A s \in Stmts : Safe(stmt, drv, s), NEW ss \in SUBSET Stmts, Free(ss)
    PROVE  /\ stmt' \in [Stmts -> {None} \cup Structures]
           /\ drv' \in Driver /\ drv'.open = drv.open /\ drv'.auto = drv.auto
           /\ \A s \in ss : drv'.bound[s] = NoBuffers
           /\ \A s \in Stmts \ ss : Kept(s)
  <1> DEFINE some == {s \in ss : stmt[s] # None}
  <1>1. PICK kept \in SUBSET drv.live : ODBCFreeStmt(ss, kept)
    BY DEF Free
  <1>2. stmt' = [s \in Stmts |-> IF s \in some THEN None ELSE stmt[s]]
    BY <1>1 DEF ODBCFreeStmt
  <1> DEFINE live    == drv.live \ some
             orphans == drv.orphans \/ kept # {}
             bound   == [s \in Stmts |-> IF s \in some THEN NoBuffers ELSE drv.bound[s]]
  <1>3. drv' = [drv EXCEPT !.live = live, !.orphans = orphans, !.bound = bound]
    BY <1>1 DEF ODBCFreeStmt
  <1>4. drv \in Driver
    BY DEF Typed
  <1>5. NoBuffers \in [params : SUBSET {1}, cols : SUBSET {1, 2}]
    BY DEF NoBuffers
  <1>6. bound \in [Stmts -> [params : SUBSET {1}, cols : SUBSET {1, 2}]]
    BY <1>4, <1>5 DEF Driver
  <1>7. live \in SUBSET Stmts /\ orphans \in BOOLEAN
    BY <1>4 DEF Driver
  <1> HIDE DEF live, orphans, bound
  <1>8. drv' = [env |-> drv.env, dbc |-> drv.dbc, open |-> drv.open, auto |-> drv.auto,
                live |-> live, orphans |-> orphans, bound |-> bound]
    BY <1>3, <1>4 DEF Driver
  <1>9. drv' \in Driver
    BY <1>4, <1>6, <1>7, <1>8 DEF Driver
  <1>10. \A s \in ss : drv'.bound[s] = NoBuffers
    BY <1>8 DEF bound, Safe, Usable
  <1>11. \A s \in Stmts \ ss : Kept(s)
    BY <1>2, <1>8 DEF bound, live, Kept
  <1>12. stmt' \in [Stmts -> {None} \cup Structures]
    BY <1>2 DEF Typed
  <1>13. QED
    BY <1>8, <1>9, <1>10, <1>11, <1>12

LEMMA AllSafe == ASSUME OInv PROVE \A s \in Stmts : Safe(stmt, drv, s)
  BY DEF OInv, Owned

LEMMA StepReset == ASSUME OInv, Reset PROVE OInv'
  <1> DEFINE ss == Range(StmtsOf(Owner(Call.s)))
  <1>1. /\ InScript /\ ret = "success" /\ Call.op = "reset" /\ Free(ss) /\ Onward
        /\ conn' = conn /\ ret' = ret /\ cause' = cause
    BY DEF Reset, At, InScript
  <1>2. Typed /\ Placed /\ Session
    BY DEF OInv
  <1>3. pc = "init" /\ at \in 1..17
    BY <1>1, <1>2, CallTyped, TxnCall DEF InScript, Typed
  <1>4. /\ Call.s \in Stmts /\ at = ResetAt(Call.s) /\ ss \in SUBSET Stmts
        /\ \A r \in Stmts : r \in ss <=> ResetAt(r) = at
    <2>1. Call.s \in Stmts /\ at = ResetAt(Call.s)
      BY <1>1, <1>3, InitCall
    <2> DEFINE s == Call.s
    <2>2. s \in Stmts /\ at = ResetAt(s)
      BY <2>1
    <2> HIDE DEF s
    <2>3. /\ Range(StmtsOf(Owner(s))) \in SUBSET Stmts
          /\ \A r \in Stmts : r \in Range(StmtsOf(Owner(s))) <=> ResetAt(r) = at
      BY <2>2, OwnerStmts
    <2>4. QED
      BY <2>1, <2>3 DEF s
  <1> HIDE DEF ss
  <1>5. /\ stmt' \in [Stmts -> {None} \cup Structures]
        /\ drv' \in Driver /\ drv'.open = drv.open /\ drv'.auto = drv.auto
        /\ \A s \in ss : drv'.bound[s] = NoBuffers
        /\ \A s \in Stmts \ ss : Kept(s)
    BY <1>1, <1>2, <1>4, Freed, AllSafe
  <1>6. TypedStep /\ SameSession
    BY <1>1, <1>2, <1>3, <1>5 DEF TypedStep, SameSession, Typed, Session
  <1>7. ASSUME NEW r \in Stmts PROVE Reached(stmt', drv', r, at + 1)
    <2>1. CASE r \in ss
      BY <1>4, <1>5, <2>1, Order DEF Reached
    <2>2. CASE r \notin ss
      <3>1. Reached(stmt', drv', r, at)
        BY <1>2, <1>3, <1>5, <2>2, KeptReached DEF Placed
      <3>2. at \in {1, 5, 11}
        BY <1>4 DEF ResetAt, Stmts
      <3>3. at \notin {ResetAt(r), AllocAt(r), PrepAt(r), ParamAt(r)}
        BY <1>4, <2>2, <3>2 DEF AllocAt, PrepAt, ParamAt, Stmts
      <3>4. QED
        BY <3>1, <3>2, <3>3, Order DEF Reached
    <2>3. QED
      BY <2>1, <2>2
  <1>8. \A r \in Stmts : Safe(stmt', drv', r) /\ Linked(stmt', drv', r)
    <2>1. \A r \in Stmts : Safe(stmt, drv, r) /\ Linked(stmt, drv, r)
      BY <1>1 DEF OInv, Owned
    <2>2. \A r \in Stmts \ ss : Safe(stmt', drv', r) /\ Linked(stmt', drv', r)
      BY <1>5, <2>1, KeptSafe
    <2>3. \A r \in ss : Safe(stmt', drv', r) /\ Linked(stmt', drv', r)
      BY <1>5 DEF Safe, Linked
    <2>4. QED
      BY <2>2, <2>3
  <1>9. QED
    BY <1>1, <1>3, <1>6, <1>7, <1>8, CallSucceeded DEF Txns

-----------------------------------------------------------------------------
(* Calls on a statement.                                                   *)

Like(x, y) == /\ x.hStmt = y.hStmt /\ x.text = y.text
              /\ x.params = y.params /\ x.cols = y.cols

LEMMA StmtCall ==
    ASSUME Typed, InScript, stmt[Call.s] # None,
           NEW rc \in Codes, NEW e \in SUBSET Diags, NEW done \in Structures, OnStmt(rc, e, done)
    PROVE  /\ stmt' \in [Stmts -> {None} \cup Structures]
           /\ \A r \in Stmts \ {Call.s} : stmt'[r] = stmt[r]
           /\ stmt'[Call.s] \in Structures
           /\ ret' \in {"success", "normal", "noinfo", "nodata"} /\ cause' \in SUBSET Reasons
           /\ ret' = "success" <=> rc = "success"
           /\ ret' = "normal" => AsRead(stmt'[Call.s].errors, cause')
           /\ rc = "success" => Like(stmt'[Call.s], done) /\ Onward
           /\ rc # "success" => Like(stmt'[Call.s], stmt[Call.s]) /\ pc' = pc /\ at' = at
  <1>1. PICK o \in Outcomes(rc, e) :
          /\ stmt' = [stmt EXCEPT ![Call.s] = IF rc = "success" THEN [done EXCEPT !.errors = o.errors]
                                              ELSE [S EXCEPT !.errors = o.errors]]
          /\ Returned(o.ret, o.cause)
    BY DEF OnStmt
  <1>2. /\ o.ret \in {"success", "normal", "noinfo", "nodata"}
        /\ o.ret = "success" <=> rc = "success"
        /\ o.errors \in SUBSET Diags /\ o.cause \in SUBSET Reasons
        /\ o.ret = "normal" => AsRead(o.errors, o.cause)
    BY <1>1, Outcome
  <1>3. Call.s \in Stmts /\ S \in Structures /\ stmt \in [Stmts -> {None} \cup Structures]
    BY CallTyped DEF Typed, S
  <1> DEFINE x == IF rc = "success" THEN [done EXCEPT !.errors = o.errors]
                  ELSE [S EXCEPT !.errors = o.errors]
  <1>4. /\ x \in Structures /\ x.errors = o.errors
        /\ rc = "success" => Like(x, done)
        /\ rc # "success" => Like(x, S)
    <2>1. ASSUME NEW r \in Structures, NEW y, y = [r EXCEPT !.errors = o.errors]
          PROVE  y \in Structures /\ y.errors = o.errors /\ Like(y, r)
      <3>1. /\ y = [hStmt |-> r.hStmt, text |-> r.text, params |-> r.params, cols |-> r.cols,
                    errors |-> o.errors]
            /\ y \in Structures
        BY <1>2, <2>1, WithErrors
      <3>2. QED
        BY <3>1 DEF Like
    <2>2. /\ rc = "success" => x = [done EXCEPT !.errors = o.errors]
          /\ rc # "success" => x = [S EXCEPT !.errors = o.errors]
      OBVIOUS
    <2> HIDE DEF x
    <2>3. CASE rc = "success"
      BY <2>1, <2>2, <2>3
    <2>4. CASE rc # "success"
      BY <1>3, <2>1, <2>2, <2>4
    <2>5. QED
      BY <2>3, <2>4
  <1>5. stmt' = [stmt EXCEPT ![Call.s] = x]
    BY <1>1
  <1> HIDE DEF x
  <1>6. /\ stmt' \in [Stmts -> {None} \cup Structures] /\ stmt'[Call.s] = x
        /\ \A r \in Stmts \ {Call.s} : stmt'[r] = stmt[r]
    BY <1>3, <1>4, <1>5
  <1>7. /\ ret' = o.ret /\ cause' = o.cause
        /\ rc = "success" => Onward
        /\ rc # "success" => pc' = pc /\ at' = at
    BY <1>1, <1>2 DEF Returned
  <1>8. QED
    BY <1>2, <1>4, <1>6, <1>7 DEF S

LEMMA LikeKept ==
    ASSUME NEW s \in Stmts, stmt[s] \in Structures, stmt'[s] \in Structures,
           Like(stmt'[s], stmt[s]), drv'.bound[s] = drv.bound[s], drv'.live = drv.live
    PROVE  Kept(s)
  BY StructureIsNotNone DEF Kept, Like

\* While a transaction runs every statement is complete.
LEMMA Completed ==
    ASSUME OInv, pc \in Txns
    PROVE  /\ \A s \in Stmts : stmt[s] \in Structures /\ stmt[s] # None
                               /\ DOMAIN stmt[s].params = {1} /\ s \in drv.live
           /\ conn \in Connections /\ conn # None
  <1>1. ASSUME NEW s \in Stmts
        PROVE  /\ stmt[s] \in Structures /\ stmt[s] # None
               /\ DOMAIN stmt[s].params = {1} /\ s \in drv.live
    <2>1. Reached(stmt, drv, s, Over)
      BY DEF OInv, Complete
    <2>2. stmt[s] \in {None} \cup Structures
      BY DEF OInv, Typed
    <2>3. QED
      BY <2>1, <2>2, Order DEF Reached, Usable, Over
  <1>2. conn \in Connections /\ conn # None
    BY DEF OInv, Typed, Session, Txns
  <1>3. QED
    BY <1>1, <1>2

\* The calls that change nothing but the error list.
LEMMA StepPassOn ==
    ASSUME OInv, pc \in Txns, ret = "success", Call.op \notin {"set", "commit"},
           NEW rc \in Codes, OnStmt(rc, NoError, S), conn' = conn, drv' = drv
    PROVE  OInv'
  <1>1. Typed /\ Session /\ InScript /\ Call.s \in Stmts /\ S \in Structures /\ stmt[Call.s] # None
    BY Completed, CallTyped DEF OInv, InScript, S
  <1>2. NoError \in SUBSET Diags
    BY DEF NoError
  <1>3. /\ stmt' \in [Stmts -> {None} \cup Structures]
        /\ \A r \in Stmts \ {Call.s} : stmt'[r] = stmt[r]
        /\ stmt'[Call.s] \in Structures
        /\ ret' \in {"success", "normal", "noinfo", "nodata"} /\ cause' \in SUBSET Reasons
        /\ ret' = "success" <=> rc = "success"
        /\ ret' = "normal" => AsRead(stmt'[Call.s].errors, cause')
        /\ rc = "success" => Like(stmt'[Call.s], S) /\ Onward
        /\ rc # "success" => Like(stmt'[Call.s], stmt[Call.s]) /\ pc' = pc /\ at' = at
    BY <1>1, <1>2, StmtCall
  <1>4. \A r \in Stmts : Kept(r)
    <2>1. Kept(Call.s)
      BY <1>1, <1>3, LikeKept DEF S
    <2>2. \A r \in Stmts \ {Call.s} : Kept(r)
      BY <1>3 DEF Kept
    <2>3. QED
      BY <2>1, <2>2
  <1>5. TypedStep /\ SameSession
    BY <1>1, <1>3, Completed DEF TypedStep, SameSession, Typed
  <1>6. pc # "init" /\ Call.op \notin {"reset", "alloc"}
    BY <1>1, TxnCall DEF Txns, Typed
  <1>7. CASE rc = "success"
    BY <1>1, <1>3, <1>4, <1>5, <1>6, <1>7, CallSucceededOn
  <1>8. CASE rc # "success"
    <2>1. Safe(stmt', drv', Call.s)
      BY <1>1, <1>4, KeptSafe, AllSafe
    <2>2. ErrStack' = stmt'[Call.s].errors
      BY <1>1, <1>3, <1>6, <1>8, SameScript DEF ErrStack, S
    <2>3. QED
      BY <1>1, <1>3, <1>4, <1>5, <1>6, <1>8, <2>1, <2>2, CallFailed
  <1>9. QED
    BY <1>7, <1>8

LEMMA WhichScript ==
    ASSUME Typed, InScript
    PROVE  /\ Call.op \in {"reset", "alloc", "prepare", "param", "col"} => pc = "init"
           /\ Call.op \in {"set", "execute", "fetch", "close", "rowcount", "commit"} => pc \in Txns
  <1>1. pc = "init" => Call.op \in {"reset", "alloc", "prepare", "param", "col"}
    BY InitCall, CallTyped
  <1>2. pc \in Txns => Call.op \in {"set", "execute", "fetch", "close", "rowcount", "commit"}
    BY TxnCall, CallTyped
  <1>3. QED
    BY <1>1, <1>2 DEF InScript

LEMMA AnswerCodes == \A known : Answers(known) \subseteq Codes
  BY DEF Answers, Codes

LEMMA StepTxnStmt ==
    ASSUME OInv, ODBCExecute \/ ODBCRowCount \/ ODBCCloseCursor
    PROVE  OInv'
  <1>1. PICK op \in {"execute", "rowcount", "close"} : PassOn(op)
    BY DEF ODBCExecute, ODBCRowCount, ODBCCloseCursor
  <1>2. InScript /\ ret = "success" /\ Call.op = op /\ conn' = conn /\ drv' = drv
    BY <1>1 DEF PassOn, At, InScript
  <1>3. PICK rc \in Codes : OnStmt(rc, NoError, S)
    BY <1>1, AnswerCodes DEF PassOn
  <1>4. pc \in Txns
    BY <1>2, WhichScript DEF OInv
  <1>5. QED
    BY <1>2, <1>3, <1>4, StepPassOn

LEMMA StepFetch == ASSUME OInv, ODBCFetch PROVE OInv'
  <1>1. InScript /\ ret = "success" /\ Call.op = "fetch" /\ conn' = conn /\ drv' = drv
    BY DEF ODBCFetch, At, InScript
  <1>2. pc \in Txns /\ Typed
    BY <1>1, WhichScript DEF OInv
  <1>3. PICK rc \in Codes :
           IF rc = (IF pc = "query" THEN "nodata" ELSE "success")
           THEN /\ stmt' = [stmt EXCEPT ![Call.s].errors = NoError]
                /\ Returned("success", NoError)
           ELSE OnStmt(rc, NoError, S)
    BY AnswerCodes DEF ODBCFetch, Codes
  <1>4. CASE /\ stmt' = [stmt EXCEPT ![Call.s].errors = NoError]
             /\ Returned("success", NoError)
    <2>1. /\ Call.s \in Stmts /\ stmt[Call.s] \in Structures
          /\ stmt \in [Stmts -> {None} \cup Structures] /\ NoError \in SUBSET Diags
      BY <1>1, <1>2, CallTyped, Completed DEF Typed, NoError
    <2> DEFINE x == [stmt[Call.s] EXCEPT !.errors = NoError]
    <2>2. LET r == stmt[Call.s]
          IN  /\ x \in Structures
              /\ x = [hStmt |-> r.hStmt, text |-> r.text, params |-> r.params, cols |-> r.cols,
                      errors |-> NoError]
      BY <2>1, WithErrors
    <2>3. stmt' = [stmt EXCEPT ![Call.s] = x]
      BY <1>4
    <2> HIDE DEF x
    <2>4. /\ stmt' \in [Stmts -> {None} \cup Structures] /\ stmt'[Call.s] = x
          /\ \A r \in Stmts \ {Call.s} : stmt'[r] = stmt[r]
      BY <2>1, <2>2, <2>3
    <2>5. \A r \in Stmts : Kept(r)
      <3>1. Kept(Call.s)
        BY <1>1, <2>1, <2>2, <2>4, LikeKept DEF Like
      <3>2. QED
        BY <1>1, <2>4, <3>1 DEF Kept
    <2>6. ret' = "success" /\ cause' = NoError /\ Onward
      BY <1>4 DEF Returned
    <2>7. TypedStep /\ SameSession
      BY <1>1, <1>2, <2>1, <2>4, <2>6, Completed DEF TypedStep, SameSession, Typed, NoError
    <2>8. QED
      BY <1>1, <1>2, <2>5, <2>6, <2>7, CallSucceededOn, CallTyped
  <1>5. CASE OnStmt(rc, NoError, S)
    BY <1>1, <1>2, <1>5, StepPassOn
  <1>6. QED
    BY <1>3, <1>4, <1>5

LEMMA StepSet == ASSUME OInv, SetParameter PROVE OInv'
  <1>1. InScript /\ ret = "success" /\ Call.op = "set" /\ conn' = conn /\ drv' = drv /\ stmt' = stmt
    BY DEF SetParameter, At, InScript, Mismatch
  <1>2. PICK r \in {"success", "mismatch"} : Returned(r, NoError)
    BY DEF SetParameter, Mismatch
  <1>3. pc \in Txns /\ Typed /\ Call.s \in Stmts
    BY <1>1, WhichScript, CallTyped DEF OInv
  <1>4. \A s \in Stmts : Kept(s)
    BY <1>1 DEF Kept
  <1>5. TypedStep /\ SameSession /\ ret' = r
    BY <1>1, <1>2, <1>3, Completed DEF TypedStep, SameSession, Typed, Returned, NoError
  <1>6. pc # "init"
    BY <1>1, <1>3, CallTyped
  <1>7. CASE r = "success"
    <2>1. Onward
      BY <1>2, <1>7 DEF Returned
    <2>2. QED
      BY <1>1, <1>3, <1>4, <1>5, <1>6, <1>7, <2>1, CallSucceededOn
  <1>8. CASE r = "mismatch"
    <2>1. pc' = pc /\ at' = at
      BY <1>2, <1>8 DEF Returned
    <2>2. Safe(stmt', drv', Call.s)
      BY <1>3, <1>4, KeptSafe, AllSafe
    <2>3. QED
      BY <1>1, <1>3, <1>4, <1>5, <1>6, <1>8, <2>1, <2>2, CallFailed
  <1>9. QED
    BY <1>7, <1>8

LEMMA StepCommit == ASSUME OInv, ODBCCommit PROVE OInv'
  <1>1. InScript /\ ret = "success" /\ Call.op = "commit" /\ stmt' = stmt /\ drv' = drv
    BY DEF ODBCCommit, At, InScript
  <1>2. PICK rc \in Codes : \E o \in Outcomes(rc, NoError) :
           conn' = [conn EXCEPT !.errors = o.errors] /\ Returned(o.ret, o.cause)
    BY AnswerCodes DEF ODBCCommit
  <1>3. PICK o \in Outcomes(rc, NoError) :
           conn' = [conn EXCEPT !.errors = o.errors] /\ Returned(o.ret, o.cause)
    BY <1>2
  <1>4. /\ o.ret \in {"success", "normal", "noinfo", "nodata"}
        /\ o.errors \in SUBSET Diags /\ o.cause \in SUBSET Reasons
        /\ o.ret = "normal" => AsRead(o.errors, o.cause)
    BY <1>2, <1>3, Outcome DEF NoError
  <1>5. pc \in Txns /\ Typed /\ Call.s \in Stmts /\ pc # "init"
    BY <1>1, WhichScript, CallTyped DEF OInv
  <1>6. \A s \in Stmts : Kept(s)
    BY <1>1 DEF Kept
  <1>7. /\ conn' \in Connections /\ conn'.connected = conn.connected
        /\ conn'.errors = o.errors
    BY <1>3, <1>4, <1>5, Completed DEF Connections
  <1>8. TypedStep /\ SameSession /\ ret' = o.ret /\ cause' = o.cause
    BY <1>1, <1>3, <1>4, <1>5, <1>7, ConnectionIsNotNone DEF TypedStep, SameSession, Typed, Returned
  <1>9. CASE o.ret = "success"
    <2>1. Onward
      BY <1>3, <1>9 DEF Returned
    <2>2. QED
      BY <1>1, <1>5, <1>6, <1>8, <1>9, <2>1, CallSucceededOn
  <1>10. CASE o.ret # "success"
    <2>1. pc' = pc /\ at' = at
      BY <1>3, <1>10 DEF Returned
    <2>2. Safe(stmt', drv', Call.s)
      BY <1>5, <1>6, KeptSafe, AllSafe
    <2>3. ErrStack' = o.errors
      BY <1>1, <1>7, <2>1, SameScript DEF ErrStack
    <2>4. QED
      BY <1>1, <1>4, <1>5, <1>6, <1>8, <1>10, <2>1, <2>2, <2>3, CallFailed
  <1>11. QED
    BY <1>9, <1>10

-----------------------------------------------------------------------------
(* The script that initialises every transaction.                          *)

\* Its calls on statement s come after the one that allocates it.
LEMMA InitStmt ==
    ASSUME OInv, InScript, Call.op \in {"prepare", "param", "col"}
    PROVE  /\ pc = "init" /\ Call.s \in Stmts /\ at \in 1..17 /\ AllocAt(Call.s) < at
           /\ Reached(stmt, drv, Call.s, at)
           /\ Usable(stmt, Call.s) /\ Call.s \in drv.live /\ S \in Structures
           /\ conn \in Connections /\ conn # None
  <1>1. Typed /\ pc = "init" /\ Call.s \in Stmts
    BY WhichScript, CallTyped DEF OInv
  <1>2. at \in 1..17
    BY <1>1, CallTyped
  <1>3. AllocAt(Call.s) < at
    <2>1. CASE Call.op = "prepare"
      BY <1>1, <1>2, <2>1, InitCall, Order
    <2>2. CASE Call.op = "param"
      BY <1>1, <1>2, <2>2, InitCall, Order
    <2>3. CASE Call.op = "col"
      BY <1>1, <1>2, <2>3, InitCall, Order
    <2>4. QED
      BY <2>1, <2>2, <2>3
  <1>4. Reached(stmt, drv, Call.s, at)
    BY <1>1 DEF OInv, Placed
  <1>5. Usable(stmt, Call.s) /\ Call.s \in drv.live
    BY <1>3, <1>4 DEF Reached
  <1>6. S \in Structures
    BY <1>1, <1>5 DEF Typed, Usable, S
  <1>7. conn \in Connections /\ conn # None
    BY <1>1 DEF OInv, Typed, Session
  <1>8. QED
    BY <1>1, <1>2, <1>3, <1>4, <1>5, <1>6, <1>7

\* What makes a structure complete up to position a of the script.
Made(r, s, a) ==
    /\ PrepAt(s) < a  => r.text
    /\ ParamAt(s) < a => DOMAIN r.params = {1}
    /\ s = "query" /\ 9 < a  => 1 \in DOMAIN r.cols
    /\ s = "query" /\ 10 < a => 2 \in DOMAIN r.cols

LEMMA StepInitStmt ==
    ASSUME OInv, InScript, ret = "success", Call.op \in {"prepare", "param", "col"}, conn' = conn,
           NEW rc \in Codes, NEW e \in SUBSET Diags, NEW done \in Structures, OnStmt(rc, e, done),
           drv' \in Driver, drv'.live = drv.live, drv'.open = drv.open, drv'.auto = drv.auto,
           \A r \in Stmts \ {Call.s} : drv'.bound[r] = drv.bound[r],
           done.hStmt = S.hStmt,
           rc = "success" => /\ Made(done, Call.s, at + 1)
                             /\ drv'.bound[Call.s] # NoBuffers =>
                                   /\ drv'.bound[Call.s].params \subseteq DOMAIN done.params
                                   /\ drv'.bound[Call.s].cols \subseteq DOMAIN done.cols
    PROVE  OInv'
  <1> DEFINE s == Call.s
  <1>1. /\ Typed /\ pc = "init" /\ s \in Stmts /\ at \in 1..17 /\ AllocAt(s) < at
        /\ Reached(stmt, drv, s, at)
        /\ Usable(stmt, s) /\ s \in drv.live /\ S \in Structures
        /\ conn \in Connections /\ conn # None
    BY InitStmt DEF OInv
  <1>2. /\ stmt' \in [Stmts -> {None} \cup Structures]
        /\ \A r \in Stmts \ {s} : stmt'[r] = stmt[r]
        /\ stmt'[s] \in Structures
        /\ ret' \in {"success", "normal", "noinfo", "nodata"} /\ cause' \in SUBSET Reasons
        /\ ret' = "success" <=> rc = "success"
        /\ ret' = "normal" => AsRead(stmt'[s].errors, cause')
        /\ rc = "success" => Like(stmt'[s], done) /\ Onward
        /\ rc # "success" => Like(stmt'[s], stmt[s]) /\ pc' = pc /\ at' = at
    BY <1>1, StmtCall DEF Usable
  <1>3. \A r \in Stmts \ {s} : Kept(r)
    BY <1>2 DEF Kept
  <1>4. TypedStep /\ SameSession
    BY <1>1, <1>2 DEF TypedStep, SameSession
  <1>5. Usable(stmt', s) /\ s \in drv'.live
    BY <1>1, <1>2, StructureIsNotNone DEF Usable, Like, S
  <1>6. pc \notin Txns /\ Safe(stmt', drv', s)
    BY <1>1, <1>5 DEF Txns, Safe
  <1>7. CASE rc = "success"
    <2>1. Reached(stmt', drv', s, at + 1)
      BY <1>1, <1>2, <1>5, <1>7, Order DEF Reached, Made, Like
    <2>2. Linked(stmt', drv', s)
      BY <1>2, <1>7 DEF Linked, Like
    <2>3. QED
      BY <1>2, <1>3, <1>4, <1>6, <1>7, <2>1, <2>2, CallSucceededOn
  <1>8. CASE rc # "success"
    <2>1. Reached(stmt', drv', s, at)
      BY <1>1, <1>2, <1>5, <1>8, Order DEF Reached, Like
    <2>2. ErrStack' = stmt'[s].errors
      BY <1>2, <1>8, SameScript DEF ErrStack, S
    <2>3. QED
      BY <1>1, <1>2, <1>3, <1>4, <1>6, <1>8, <2>1, <2>2, CallFailed
  <1>9. QED
    BY <1>7, <1>8

\* What was made before is there at the next position, unless this call makes it.
LEMMA StillMade ==
    ASSUME OInv, InScript, Call.op \in {"prepare", "param", "col"}
    PROVE  Made(S, Call.s, at)
  BY InitStmt DEF Reached, Made, S

LEMMA OwnLinked ==
    ASSUME OInv, ret = "success", NEW s \in Stmts, drv.bound[s] # NoBuffers
    PROVE  /\ drv.bound[s].params \subseteq DOMAIN stmt[s].params
           /\ drv.bound[s].cols \subseteq DOMAIN stmt[s].cols
  BY DEF OInv, Owned, Linked

LEMMA StepPrepare == ASSUME OInv, ODBCPrepare PROVE OInv'
  <1>1. /\ InScript /\ ret = "success" /\ Call.op = "prepare" /\ conn' = conn /\ drv' = drv
    BY DEF ODBCPrepare, At, InScript
  <1> DEFINE done == [S EXCEPT !.text = TRUE]
  <1>2. PICK rc \in Codes : OnStmt(rc, NoError, done)
    BY AnswerCodes DEF ODBCPrepare
  <1>3. /\ pc = "init" /\ Call.s \in Stmts /\ at \in 1..17 /\ S \in Structures /\ drv \in Driver
    BY <1>1, InitStmt DEF OInv, Typed
  <1>4. at = PrepAt(Call.s)
    BY <1>1, <1>3, InitCall
  <1>5. /\ done \in Structures
        /\ done = [hStmt |-> S.hStmt, text |-> TRUE, params |-> S.params, cols |-> S.cols,
                   errors |-> S.errors]
    BY <1>3, WithText
  <1> HIDE DEF done
  <1>6. Made(done, Call.s, at + 1)
    BY <1>3, <1>4, <1>5, Order DEF Made
  <1>7. drv.bound[Call.s] # NoBuffers =>
            /\ drv.bound[Call.s].params \subseteq DOMAIN done.params
            /\ drv.bound[Call.s].cols \subseteq DOMAIN done.cols
    BY <1>1, <1>3, <1>5, OwnLinked DEF S
  <1>8. done.hStmt = S.hStmt /\ NoError \in SUBSET Diags
    BY <1>5 DEF NoError
  <1>9. QED
    BY <1>1, <1>2, <1>3, <1>5, <1>6, <1>7, <1>8, StepInitStmt

\* A binding of the wrong type, and nothing else, is refused by the layer itself.
LEMMA StepMismatch ==
    ASSUME OInv, InScript, ret = "success", Call.op \in {"param", "col"}, conn' = conn, Mismatch
    PROVE  OInv'
  <1>1. /\ ret' = "mismatch" /\ cause' = NoError /\ pc' = pc /\ at' = at
        /\ stmt' = stmt /\ drv' = drv
    BY DEF Mismatch, Returned
  <1>2. /\ Typed /\ pc = "init" /\ Call.s \in Stmts /\ Reached(stmt, drv, Call.s, at)
        /\ conn # None
    BY InitStmt DEF OInv
  <1>3. \A r \in Stmts : Kept(r)
    BY <1>1 DEF Kept
  <1>4. TypedStep /\ SameSession
    BY <1>1, <1>2 DEF TypedStep, SameSession, Typed, NoError
  <1>5. Safe(stmt', drv', Call.s) /\ Reached(stmt', drv', Call.s, at) /\ pc \notin Txns
    BY <1>1, <1>2, AllSafe DEF Txns
  <1>6. QED
    BY <1>1, <1>2, <1>3, <1>4, <1>5, CallFailed

LEMMA StepParam == ASSUME OInv, ODBCBindParameter PROVE OInv'
  <1>1. InScript /\ ret = "success" /\ Call.op = "param" /\ conn' = conn
    BY DEF ODBCBindParameter, At, InScript
  <1>2. /\ pc = "init" /\ Call.s \in Stmts /\ at \in 1..17 /\ S \in Structures /\ drv \in Driver
    BY <1>1, InitStmt DEF OInv, Typed
  <1>3. at = ParamAt(Call.s) /\ Call.n = 1
    BY <1>1, <1>2, InitCall
  <1> DEFINE p(b)    == [c |-> b.c, size |-> odbcAllocParam(b).size]
             done(b) == [S EXCEPT !.params = Link(@, Call.n, p(b))]
             bound   == [drv EXCEPT !.bound[Call.s].params = @ \cup {Call.n}]
  <1>4. PICK b \in ParamBindings(Call.s) :
           IF ~odbcAllocParam(b).ok THEN Mismatch
           ELSE \E rc \in Answers(Call.s \in drv.live) :
                   /\ OnStmt(rc, S.errors, done(b))
                   /\ drv' = IF rc = "error" THEN drv ELSE bound
    BY DEF ODBCBindParameter
  <1>5. CASE ~odbcAllocParam(b).ok
    BY <1>1, <1>4, <1>5, StepMismatch
  <1>6. CASE odbcAllocParam(b).ok
    <2>1. PICK rc \in Codes : /\ OnStmt(rc, S.errors, done(b))
                              /\ drv' = IF rc = "error" THEN drv ELSE bound
      BY <1>4, <1>6, AnswerCodes
    <2>2. p(b) \in Buffers
      <3>1. b \in [c : CTypes, db : DbTypes, w : Nat, d : Nat]
        BY OdbcAssumption DEF ParamBindings, CTypes, Integral, DbTypes
      <3>2. QED
        BY <1>6, <3>1, ParamBuffer
    <2> DEFINE ps == Link(S.params, Call.n, p(b))
    <2>3. S.params \in Bindings({1}) /\ S.errors \in SUBSET Diags
      BY <1>2, Fields
    <2>4. ps \in Bindings({1}) /\ DOMAIN ps = {1} \cup DOMAIN S.params
      BY <1>3, <2>2, <2>3, OneMoreBinding
    <2>5. DOMAIN S.params \subseteq {1}
      BY <2>3 DEF Bindings
    <2>6. done(b) = [S EXCEPT !.params = ps]
      OBVIOUS
    <2> HIDE DEF p, ps, done
    <2>7. /\ done(b) \in Structures
          /\ done(b) = [hStmt |-> S.hStmt, text |-> S.text, params |-> ps, cols |-> S.cols,
                        errors |-> S.errors]
      BY <1>2, <2>4, <2>6, WithParams
    <2>8. Made(done(b), Call.s, at + 1)
      BY <1>1, <1>2, <1>3, <2>4, <2>5, <2>7, StillMade, Order DEF Made
    <2>9. /\ drv' \in Driver /\ drv'.live = drv.live /\ drv'.open = drv.open /\ drv'.auto = drv.auto
          /\ \A r \in Stmts \ {Call.s} : drv'.bound[r] = drv.bound[r]
          /\ drv'.bound[Call.s] \in
                {drv.bound[Call.s],
                 [params |-> drv.bound[Call.s].params \cup {1}, cols |-> drv.bound[Call.s].cols]}
      <3>1. /\ bound \in Driver /\ bound.live = drv.live /\ bound.open = drv.open
            /\ bound.auto = drv.auto
            /\ \A r \in Stmts \ {Call.s} : bound.bound[r] = drv.bound[r]
            /\ bound.bound[Call.s] = [params |-> drv.bound[Call.s].params \cup {Call.n},
                                      cols   |-> drv.bound[Call.s].cols]
        BY <1>2, <1>3, BindsParam
      <3> HIDE DEF bound
      <3>2. QED
        BY <1>2, <1>3, <2>1, <3>1
    <2>10. /\ drv'.bound[Call.s].params \subseteq drv.bound[Call.s].params \cup {1}
           /\ drv'.bound[Call.s].cols = drv.bound[Call.s].cols
           /\ drv.bound[Call.s].params \subseteq DOMAIN S.params
           /\ drv.bound[Call.s].cols \subseteq DOMAIN S.cols
      <3>1. CASE drv.bound[Call.s] = NoBuffers
        BY <2>9, <3>1 DEF NoBuffers
      <3>2. CASE drv.bound[Call.s] # NoBuffers
        BY <1>1, <1>2, <2>9, <3>2, OwnLinked DEF S
      <3>3. QED
        BY <3>1, <3>2
    <2>11. /\ drv'.bound[Call.s].params \subseteq DOMAIN done(b).params
           /\ drv'.bound[Call.s].cols \subseteq DOMAIN done(b).cols
      BY <2>4, <2>7, <2>10
    <2> HIDE DEF bound
    <2>12. QED
      BY <1>1, <2>1, <2>3, <2>7, <2>8, <2>9, <2>11, StepInitStmt
  <1>7. QED
    BY <1>5, <1>6

LEMMA StepCol == ASSUME OInv, ODBCBindColumn PROVE OInv'
  <1>1. InScript /\ ret = "success" /\ Call.op = "col" /\ conn' = conn
    BY DEF ODBCBindColumn, At, InScript
  <1>2. /\ pc = "init" /\ Call.s \in Stmts /\ at \in 1..17 /\ S \in Structures /\ drv \in Driver
    BY <1>1, InitStmt DEF OInv, Typed
  <1>3. Call.s = "query" /\ at = 8 + Call.n /\ Call.n \in {1, 2}
    BY <1>1, <1>2, InitCall
  <1> DEFINE c(b)    == [c |-> b.c, size |-> odbcAllocCol(b).size]
             done(b) == [S EXCEPT !.cols = Link(@, Call.n, c(b))]
             bound   == [drv EXCEPT !.bound[Call.s].cols = @ \cup {Call.n}]
  <1>4. PICK b \in ColumnBindings(Call.n) :
           IF ~odbcAllocCol(b).ok THEN Mismatch
           ELSE \E rc \in Answers(Call.s \in drv.live) :
                   /\ OnStmt(rc, S.errors, done(b))
                   /\ drv' = IF rc = "error" THEN drv ELSE bound
    BY DEF ODBCBindColumn
  <1>5. CASE ~odbcAllocCol(b).ok
    BY <1>1, <1>4, <1>5, StepMismatch
  <1>6. CASE odbcAllocCol(b).ok
    <2>1. PICK rc \in Codes : /\ OnStmt(rc, S.errors, done(b))
                              /\ drv' = IF rc = "error" THEN drv ELSE bound
      BY <1>4, <1>6, AnswerCodes
    <2>2. c(b) \in Buffers
      <3>1. b \in [c : CTypes, len : Nat]
        BY OdbcAssumption DEF ColumnBindings, CTypes
      <3>2. QED
        BY <1>6, <3>1, ColBuffer
    <2> HIDE DEF c
    <2> DEFINE cs == Link(S.cols, Call.n, c(b))
    <2>3. S.cols \in Bindings({1, 2}) /\ S.errors \in SUBSET Diags
      BY <1>2, Fields
    <2>4. cs \in Bindings({1, 2}) /\ DOMAIN cs = {Call.n} \cup DOMAIN S.cols
      <3>1. \A n \in {1, 2}, q \in Buffers :
                Link(S.cols, n, q) \in Bindings({1, 2}) /\ DOMAIN Link(S.cols, n, q) = {n} \cup DOMAIN S.cols
        BY <2>3, OneMoreBinding
      <3>2. QED
        BY <1>3, <2>2, <3>1
    <2>5. done(b) = [S EXCEPT !.cols = cs]
      OBVIOUS
    <2> HIDE DEF cs, done
    <2>6. /\ done(b) \in Structures
          /\ done(b) = [hStmt |-> S.hStmt, text |-> S.text, params |-> S.params, cols |-> cs,
                        errors |-> S.errors]
      BY <1>2, <2>4, <2>5, WithCols
    <2>7. Made(done(b), Call.s, at + 1)
      BY <1>1, <1>2, <1>3, <2>4, <2>6, StillMade, Order DEF Made
    <2>8. /\ drv' \in Driver /\ drv'.live = drv.live /\ drv'.open = drv.open /\ drv'.auto = drv.auto
          /\ \A r \in Stmts \ {Call.s} : drv'.bound[r] = drv.bound[r]
          /\ drv'.bound[Call.s] \in
                {drv.bound[Call.s],
                 [params |-> drv.bound[Call.s].params,
                  cols   |-> drv.bound[Call.s].cols \cup {Call.n}]}
      <3>1. /\ bound \in Driver /\ bound.live = drv.live /\ bound.open = drv.open
            /\ bound.auto = drv.auto
            /\ \A r \in Stmts \ {Call.s} : bound.bound[r] = drv.bound[r]
            /\ bound.bound[Call.s] = [params |-> drv.bound[Call.s].params,
                                      cols   |-> drv.bound[Call.s].cols \cup {Call.n}]
        BY <1>2, <1>3, BindsCol
      <3> HIDE DEF bound
      <3>2. QED
        BY <1>2, <2>1, <3>1
    <2>9. /\ drv'.bound[Call.s].cols \subseteq drv.bound[Call.s].cols \cup {Call.n}
          /\ drv'.bound[Call.s].params = drv.bound[Call.s].params
          /\ drv.bound[Call.s].params \subseteq DOMAIN S.params
          /\ drv.bound[Call.s].cols \subseteq DOMAIN S.cols
      <3>1. CASE drv.bound[Call.s] = NoBuffers
        BY <2>8, <3>1 DEF NoBuffers
      <3>2. CASE drv.bound[Call.s] # NoBuffers
        BY <1>1, <1>2, <2>8, <3>2, OwnLinked DEF S
      <3>3. QED
        BY <3>1, <3>2
    <2>10. /\ drv'.bound[Call.s].params \subseteq DOMAIN done(b).params
           /\ drv'.bound[Call.s].cols \subseteq DOMAIN done(b).cols
      BY <2>4, <2>6, <2>9
    <2> HIDE DEF bound
    <2>11. QED
      BY <1>1, <2>1, <2>3, <2>6, <2>7, <2>8, <2>10, StepInitStmt
  <1>7. QED
    BY <1>5, <1>6

LEMMA StepAlloc == ASSUME OInv, ODBCAllocStmt PROVE OInv'
  <1> DEFINE s == Call.s
             x(rc) == [NewStmt EXCEPT !.hStmt = rc = "success"]
  <1>1. InScript /\ ret = "success" /\ Call.op = "alloc"
    BY DEF ODBCAllocStmt, At, InScript
  <1>2. /\ Typed /\ pc = "init" /\ s \in Stmts /\ at \in 1..17 /\ drv \in Driver
        /\ stmt \in [Stmts -> {None} \cup Structures]
        /\ conn \in Connections /\ conn # None
    BY <1>1, WhichScript, CallTyped DEF OInv, Typed, Session
  <1>3. at = AllocAt(s) /\ drv.bound[s] = NoBuffers
    <2>1. at = AllocAt(s)
      BY <1>1, <1>2, InitCall
    <2>2. Reached(stmt, drv, s, at)
      BY <1>2 DEF OInv, Placed
    <2>3. QED
      BY <1>2, <2>1, <2>2, Order DEF Reached
  <1>4. PICK rc \in Codes : \E o \in Outcomes(rc, conn.errors) :
          /\ stmt' = [stmt EXCEPT ![s] = x(rc)]
          /\ drv' = IF rc = "success" THEN [drv EXCEPT !.live = @ \cup {s}] ELSE drv
          /\ conn' = [conn EXCEPT !.errors = o.errors]
          /\ Returned(o.ret, o.cause)
    BY AnswerCodes DEF ODBCAllocStmt
  <1>5. PICK o \in Outcomes(rc, conn.errors) :
          /\ stmt' = [stmt EXCEPT ![s] = x(rc)]
          /\ drv' = IF rc = "success" THEN [drv EXCEPT !.live = @ \cup {s}] ELSE drv
          /\ conn' = [conn EXCEPT !.errors = o.errors]
          /\ Returned(o.ret, o.cause)
    BY <1>4
  <1>6. /\ o.ret \in {"success", "normal", "noinfo", "nodata"}
        /\ o.ret = "success" <=> rc = "success"
        /\ o.errors \in SUBSET Diags /\ o.cause \in SUBSET Reasons
        /\ o.ret = "normal" => AsRead(o.errors, o.cause)
    <2>1. conn.errors \in SUBSET Diags
      BY <1>2 DEF Connections
    <2>2. QED
      BY <1>5, <2>1, Outcome
  <1>7. /\ x(rc) \in Structures /\ x(rc) # None
        /\ rc = "success" => x(rc).hStmt
    <2> DEFINE h == rc = "success"
    <2>1. x(rc) = [NewStmt EXCEPT !.hStmt = h]
      OBVIOUS
    <2>2. h \in BOOLEAN /\ (rc = "success" => h)
      OBVIOUS
    <2> HIDE DEF h, x
    <2>3. x(rc) = [hStmt |-> h, text |-> FALSE, params |-> << >>, cols |-> << >>, errors |-> NoError]
      BY <2>1 DEF NewStmt
    <2>4. x(rc) \in Structures
      BY <2>2, <2>3, NoBindings DEF Structures, NoError
    <2>5. x(rc) # None
      BY <2>4, StructureIsNotNone
    <2>6. ASSUME rc = "success" PROVE x(rc).hStmt
      <3>1. x(rc).hStmt = h
        BY <2>3
      <3>2. QED
        BY <2>2, <2>6, <3>1, Zenon
    <2>7. QED
      BY <2>4, <2>5, <2>6
  <1> HIDE DEF x
  <1>8. /\ stmt' \in [Stmts -> {None} \cup Structures] /\ stmt'[s] = x(rc)
        /\ \A r \in Stmts \ {s} : stmt'[r] = stmt[r]
    BY <1>2, <1>5, <1>7
  <1>9. /\ drv' \in Driver /\ drv'.open = drv.open /\ drv'.auto = drv.auto
        /\ drv'.bound = drv.bound /\ drv.live \subseteq drv'.live
        /\ rc = "success" => s \in drv'.live
    <2> DEFINE live == drv.live \cup {s}
               d    == [drv EXCEPT !.live = live]
    <2>0. live \in SUBSET Stmts /\ s \in live /\ drv.live \subseteq live
      BY <1>2 DEF Driver
    <2> HIDE DEF live
    <2>1. d = [env |-> drv.env, dbc |-> drv.dbc, open |-> drv.open, auto |-> drv.auto,
               live |-> live, orphans |-> drv.orphans, bound |-> drv.bound]
      BY <1>2 DEF Driver
    <2>2. d \in Driver
      BY <1>2, <2>0, <2>1 DEF Driver
    <2> HIDE DEF d
    <2>3. drv' = d \/ (drv' = drv /\ rc # "success")
      BY <1>5 DEF d, live
    <2>4. QED
      BY <1>2, <2>0, <2>1, <2>2, <2>3
  <1>10. /\ conn' \in Connections /\ conn'.connected = conn.connected
        /\ conn'.errors = o.errors
    BY <1>2, <1>5, <1>6 DEF Connections
  <1>11. /\ ret' = o.ret /\ cause' = o.cause
         /\ rc = "success" => Onward
         /\ rc # "success" => pc' = pc /\ at' = at
    BY <1>5, <1>6 DEF Returned
  <1>12. TypedStep /\ SameSession
    BY <1>6, <1>8, <1>9, <1>10, <1>11, ConnectionIsNotNone DEF TypedStep, SameSession
  <1>13. \A r \in Stmts \ {s} : Kept(r)
    BY <1>8, <1>9 DEF Kept
  <1>14. pc \notin Txns /\ Safe(stmt', drv', s) /\ Linked(stmt', drv', s)
    BY <1>2, <1>3, <1>9 DEF Txns, Safe, Linked
  <1>15. CASE rc = "success"
    <2>1. Reached(stmt', drv', s, at + 1)
      BY <1>2, <1>3, <1>7, <1>8, <1>9, <1>15, Order DEF Reached, Usable
    <2>2. QED
      BY <1>1, <1>6, <1>11, <1>12, <1>13, <1>14, <1>15, <2>1, CallSucceededOn
  <1>16. CASE rc # "success"
    <2>1. Reached(stmt', drv', s, at)
      BY <1>2, <1>3, <1>9, Order DEF Reached
    <2>2. ErrStack' = o.errors
      BY <1>1, <1>10, <1>11, <1>16, SameScript DEF ErrStack
    <2>3. QED
      BY <1>1, <1>6, <1>11, <1>12, <1>13, <1>14, <1>16, <2>1, <2>2, CallFailed
  <1>17. QED
    BY <1>15, <1>16

-----------------------------------------------------------------------------
(* The rest of the program.                                                *)

\* Outside of the scripts nothing is left of an error.
LEMMA Idle ==
    ASSUME OInv, ~InScript
    PROVE  /\ ret = "success"
           /\ \A s \in Stmts : Safe(stmt, drv, s) /\ Linked(stmt, drv, s)
  BY DEF OInv, Told, Owned, InScript

\* A step to a place where no statement needs to be there.
LEMMA StepAway ==
    ASSUME OInv, TypedStep, pc' \in PCs \ (Txns \cup {"init", "ready"}), at' = 1, ret' = "success",
           \A s \in Stmts : Safe(stmt', drv', s) /\ Linked(stmt', drv', s),
           pc' \notin {"allocContext", "exit"} => conn' # None,
           pc' = "autocommit" => drv'.open
    PROVE  OInv'
  <1>1. Typed'
    BY DEF Typed, TypedStep
  <1>2. Placed' /\ Complete'
    BY DEF Placed, Complete
  <1>3. Session' /\ Owned' /\ Told'
    BY DEF Session, Owned, Told
  <1>4. QED
    BY <1>1, <1>2, <1>3 DEF OInv

LEMMA StepToScript ==
    ASSUME OInv, TypedStep, pc' = "init", at' = 1, ret' = "success",
           \A s \in Stmts : Safe(stmt', drv', s) /\ Linked(stmt', drv', s),
           conn' # None, conn'.connected, drv'.open, ~drv'.auto
    PROVE  OInv'
  <1>1. Typed'
    BY FirstCall DEF Typed, TypedStep, PCs
  <1>2. Placed'
    BY Order DEF Placed, Reached, Stmts, ResetAt, AllocAt, PrepAt, ParamAt
  <1>3. Complete' /\ Session' /\ Owned' /\ Told'
    BY DEF Complete, Session, Owned, Told, Txns
  <1>4. QED
    BY <1>1, <1>2, <1>3 DEF OInv

\* The beginning of a transaction: every statement is as it was.
LEMMA StepToTxn ==
    ASSUME OInv, TypedStep, SameSession, pc \in Txns \cup {"ready"}, pc' \in Txns, at' = 1,
           ret' = "success", stmt' = stmt, drv' = drv
    PROVE  OInv'
  <1>1. Typed'
    BY FirstCall DEF Typed, TypedStep, PCs
  <1>2. Placed' /\ Complete'
    BY DEF OInv, Placed, Complete, Txns
  <1>3. Session' /\ Told'
    BY DEF OInv, Session, SameSession, Told, Txns
  <1>4. Owned'
    BY DEF OInv, Owned, Txns
  <1>5. QED
    BY <1>1, <1>2, <1>3, <1>4 DEF OInv

LEMMA StepWorkload == ASSUME OInv, RunWorkload PROVE OInv'
  <1>1. /\ pc = "ready" /\ pc' \in Txns \cup {"dbDisconnect"} /\ at' = 1
        /\ conn' = conn /\ stmt' = stmt /\ drv' = drv /\ ret' = ret /\ cause' = cause
    BY DEF RunWorkload, Goto
  <1>2. /\ ret = "success" /\ conn # None
        /\ \A s \in Stmts : Safe(stmt, drv, s) /\ Linked(stmt, drv, s)
    BY <1>1, Idle DEF InScript, Txns, OInv, Session
  <1>3. TypedStep /\ SameSession
    BY <1>1, <1>2 DEF TypedStep, SameSession, OInv, Typed
  <1>4. CASE pc' \in Txns
    BY <1>1, <1>2, <1>3, <1>4, StepToTxn
  <1>5. CASE pc' = "dbDisconnect"
    BY <1>1, <1>2, <1>3, <1>5, StepAway DEF PCs, Txns
  <1>6. QED
    BY <1>1, <1>4, <1>5

LEMMA StepError == ASSUME OInv, ErrorPath PROVE OInv'
  <1> DEFINE ss == Range(StmtsOf(Owner(Call.s)))
  <1>1. /\ InScript /\ ret # "success" /\ ret' = "success" /\ cause' = NoError
        /\ IF pc = "init" THEN Free(ss) ELSE stmt' = stmt /\ drv' = drv
    BY DEF ErrorPath, InScript
  <1>2. Typed /\ Call.s \in Stmts /\ ss \in SUBSET Stmts /\ Call.s \in ss
    BY <1>1, CallTyped, OwnerStmts DEF OInv
  <1>3. /\ conn \in Connections /\ conn # None /\ conn.connected /\ drv.open /\ ~drv.auto
    BY <1>1, <1>2 DEF OInv, Session, InScript, Typed, Txns
  <1> HIDE DEF ss
  <1>4. /\ stmt' \in [Stmts -> {None} \cup Structures]
        /\ drv' \in Driver /\ drv'.open = drv.open /\ drv'.auto = drv.auto
    BY <1>1, <1>2, Freed, AllSafe DEF Typed
  <1>5. \A s \in Stmts : Safe(stmt', drv', s) /\ Linked(stmt', drv', s)
    <2>1. CASE pc = "init"
      <3>1. /\ \A s \in ss : drv'.bound[s] = NoBuffers
            /\ \A s \in Stmts \ ss : Kept(s)
        BY <1>1, <1>2, <2>1, Freed, AllSafe
      <3>2. \A s \in Stmts \ ss : Safe(stmt, drv, s) /\ Linked(stmt, drv, s)
        BY <1>2 DEF OInv, Owned
      <3>3. \A s \in Stmts \ ss : Safe(stmt', drv', s) /\ Linked(stmt', drv', s)
        BY <3>1, <3>2, KeptSafe
      <3>4. \A s \in ss : Safe(stmt', drv', s) /\ Linked(stmt', drv', s)
        BY <3>1 DEF Safe, Linked
      <3>5. QED
        BY <3>3, <3>4
    <2>2. CASE pc # "init"
      BY <1>1, <2>2 DEF OInv, Owned
    <2>3. QED
      BY <2>1, <2>2
  <1>6. conn' \in Connections /\ conn'.connected = conn.connected
    <2>1. PICK rc \in Codes : \E o \in Outcomes(rc, NoError) : conn' = [conn EXCEPT !.errors = o.errors]
      BY AnswerCodes DEF ErrorPath, ODBCRollback
    <2>2. PICK o \in Outcomes(rc, NoError) : conn' = [conn EXCEPT !.errors = o.errors]
      BY <2>1
    <2>3. o.errors \in SUBSET Diags
      BY <2>2, Outcome DEF NoError
    <2>4. QED
      BY <1>3, <2>2, <2>3 DEF Connections
  <1>7. TypedStep /\ SameSession
    BY <1>1, <1>4, <1>6, ConnectionIsNotNone DEF TypedStep, SameSession, NoError
  <1>8. at' = 1 /\ pc' \in {"freeStmts", "dbDisconnect", "init", pc}
    <2>1. PICK where \in After(Classified(ret, ErrStack)) : Goto(where)
      BY DEF ErrorPath
    <2>2. Classified(ret, ErrStack) \in {"fatal", "retryable", "failover"}
      BY DEF Classified
    <2>3. QED
      BY <2>1, <2>2 DEF After, Goto
  <1>9. CASE pc' \in {"freeStmts", "dbDisconnect"}
    BY <1>1, <1>5, <1>7, <1>8, <1>9, StepAway DEF PCs, Txns, SameSession
  <1>10. CASE pc' = "init"
    BY <1>1, <1>3, <1>5, <1>7, <1>8, <1>10, StepToScript DEF SameSession
  <1>11. CASE pc' = pc /\ pc # "init"
    BY <1>1, <1>7, <1>8, <1>11, StepToTxn DEF InScript
  <1>12. QED
    BY <1>8, <1>9, <1>10, <1>11

-----------------------------------------------------------------------------
(* The connection.                                                         *)

SameStmts == drv'.bound = drv.bound /\ drv'.live = drv.live

LEMMA Flags ==
    ASSUME NEW d \in Driver, NEW a \in BOOLEAN, NEW b \in BOOLEAN
    PROVE  LET same(e) == e \in Driver /\ e.bound = d.bound /\ e.live = d.live
           IN  /\ same([d EXCEPT !.open = a])
               /\ same([d EXCEPT !.auto = a])
               /\ same([d EXCEPT !.env = a, !.dbc = b])
  <1> DEFINE with(env, dbc, open, auto) ==
                 [env |-> env, dbc |-> dbc, open |-> open, auto |-> auto, live |-> d.live,
                  orphans |-> d.orphans, bound |-> d.bound]
             same(e) == e \in Driver /\ e.bound = d.bound /\ e.live = d.live
  <1>1. \A env, dbc, open, auto \in BOOLEAN : same(with(env, dbc, open, auto))
    BY DEF Driver
  <1>2. d.env \in BOOLEAN /\ d.dbc \in BOOLEAN /\ d.open \in BOOLEAN /\ d.auto \in BOOLEAN
    BY DEF Driver
  <1>3. /\ [d EXCEPT !.open = a] = with(d.env, d.dbc, a, d.auto)
        /\ [d EXCEPT !.auto = a] = with(d.env, d.dbc, d.open, a)
        /\ [d EXCEPT !.env = a, !.dbc = b] = with(a, b, d.open, d.auto)
    <2>1. d = with(d.env, d.dbc, d.open, d.auto)
      BY DEF Driver
    <2>2. [d EXCEPT !.open = a] = with(d.env, d.dbc, a, d.auto)
      BY <2>1
    <2>3. [d EXCEPT !.auto = a] = with(d.env, d.dbc, d.open, a)
      BY <2>1
    <2>4. [d EXCEPT !.env = a, !.dbc = b] = with(a, b, d.open, d.auto)
      <3>1. d = [env |-> d.env, dbc |-> d.dbc, open |-> d.open, auto |-> d.auto,
                 live |-> d.live, orphans |-> d.orphans, bound |-> d.bound]
        BY DEF Driver
      <3> SUFFICES ASSUME NEW e, e = [d EXCEPT !.env = a, !.dbc = b]
                   PROVE  e = [env |-> a, dbc |-> b, open |-> d.open, auto |-> d.auto,
                               live |-> d.live, orphans |-> d.orphans, bound |-> d.bound]
        OBVIOUS
      <3>2. QED
        BY <3>1
    <2>5. QED
      BY <2>2, <2>3, <2>4
  <1> HIDE DEF with, same
  <1>4. /\ same([d EXCEPT !.open = a])
        /\ same([d EXCEPT !.auto = a])
        /\ same([d EXCEPT !.env = a, !.dbc = b])
    BY <1>1, <1>2, <1>3
  <1>5. QED
    BY <1>4 DEF same

\* Disconnecting leaves the driver no buffer.
LEMMA Cleared ==
    ASSUME drv \in Driver
    PROVE  Disconnected \in Driver /\ \A s \in Stmts : Disconnected.bound[s] = NoBuffers
  <1> DEFINE none == [s \in Stmts |-> NoBuffers]
  <1>1. none \in [Stmts -> [params : SUBSET {1}, cols : SUBSET {1, 2}]]
    BY DEF NoBuffers
  <1>2. Disconnected = [drv EXCEPT !.open = FALSE, !.auto = TRUE, !.live = {}, !.orphans = FALSE,
                                   !.bound = none]
    BY DEF Disconnected
  <1>3. \A s \in Stmts : none[s] = NoBuffers
    OBVIOUS
  <1> HIDE DEF none
  <1>4. Disconnected = [env |-> drv.env, dbc |-> drv.dbc, open |-> FALSE, auto |-> TRUE, live |-> {},
                        orphans |-> FALSE, bound |-> none]
    BY <1>2 DEF Driver
  <1>5. QED
    BY <1>1, <1>3, <1>4 DEF Driver

\* The driver's side of the connection changes, or all of it goes.
LEMMA StillSafe ==
    ASSUME OInv, ~InScript, stmt' = stmt, SameStmts \/ drv' = Disconnected
    PROVE  \A s \in Stmts : Safe(stmt', drv', s) /\ Linked(stmt', drv', s)
  <1>1. CASE SameStmts
    BY <1>1, Idle DEF SameStmts, Safe, Linked
  <1>2. CASE drv' = Disconnected
    BY <1>2, Cleared DEF OInv, Typed, Safe, Linked
  <1>3. QED
    BY <1>1, <1>2

LEMMA MadeConnection ==
    ASSUME NEW rc \in Codes, NEW e \in SUBSET Diags, NEW o \in Outcomes(rc, e), NEW c \in BOOLEAN
    PROVE  LET x == [connected |-> c, errors |-> o.errors]
           IN  x \in Connections /\ x # None /\ x.connected = c /\ o.cause \in SUBSET Reasons
  <1>1. o.errors \in SUBSET Diags /\ o.cause \in SUBSET Reasons
    BY Outcome
  <1>2. QED
    BY <1>1, ConnectionIsNotNone DEF Connections

LEMMA StepAllocConn == ASSUME OInv, ODBCAllocConn PROVE OInv'
  <1>1. pc = "allocContext" /\ stmt' = stmt /\ ret' = ret /\ cause' = cause
    BY DEF ODBCAllocConn
  <1>2. ~InScript /\ ret = "success" /\ Typed
    BY <1>1, Idle DEF InScript, Txns, OInv
  <1>3. PICK rc \in {"success", "noenv", "noattr", "nodbc"} :
          /\ drv' = [drv EXCEPT !.env = rc \in {"success", "noattr"}, !.dbc = rc = "success"]
          /\ conn' = IF rc = "success" THEN NewConn ELSE None
          /\ Goto(IF rc = "success" THEN "dbConnect" ELSE "exit")
    BY DEF ODBCAllocConn
  <1>4. drv' \in Driver /\ SameStmts
    <2> DEFINE a == rc \in {"success", "noattr"}
               b == rc = "success"
    <2>1. drv' = [drv EXCEPT !.env = a, !.dbc = b] /\ a \in BOOLEAN /\ b \in BOOLEAN
      BY <1>3
    <2> HIDE DEF a, b
    <2>2. QED
      BY <1>2, <2>1, Flags DEF Typed, SameStmts
  <1>5. NewConn \in Connections /\ NewConn # None
    BY ConnectionIsNotNone DEF NewConn, Connections, NoError
  <1>6. TypedStep /\ (pc' # "exit" => conn' # None)
    BY <1>1, <1>2, <1>3, <1>4, <1>5 DEF TypedStep, Typed, Goto
  <1>7. pc' \in {"dbConnect", "exit"} /\ at' = 1
    BY <1>3 DEF Goto
  <1>8. QED
    BY <1>1, <1>2, <1>4, <1>6, <1>7, StillSafe, StepAway DEF PCs, Txns

LEMMA StepConnect == ASSUME OInv, ODBCConnect PROVE OInv'
  <1>1. pc = "dbConnect" /\ stmt' = stmt /\ ret' = ret
    BY DEF ODBCConnect
  <1>2. ~InScript /\ ret = "success" /\ Typed
    BY <1>1, Idle DEF InScript, Txns, OInv
  <1>3. PICK rc \in Codes : \E o \in Outcomes(rc, NoError) :
          /\ drv' = [drv EXCEPT !.open = rc \in {"success", "info"}]
          /\ conn' = [connected |-> rc = "success", errors |-> o.errors]
          /\ cause' = o.cause
          /\ Goto(IF rc = "success" THEN "autocommit" ELSE "freeStmts")
    BY AnswerCodes DEF ODBCConnect
  <1>4. PICK o \in Outcomes(rc, NoError) :
          /\ drv' = [drv EXCEPT !.open = rc \in {"success", "info"}]
          /\ conn' = [connected |-> rc = "success", errors |-> o.errors]
          /\ cause' = o.cause
          /\ Goto(IF rc = "success" THEN "autocommit" ELSE "freeStmts")
    BY <1>3
  <1>5. drv' \in Driver /\ SameStmts /\ (rc = "success" => drv'.open)
    <2> DEFINE a == rc \in {"success", "info"}
    <2>1. drv' = [drv EXCEPT !.open = a] /\ a \in BOOLEAN /\ (rc = "success" => a)
      BY <1>4
    <2> HIDE DEF a
    <2>2. drv' \in Driver /\ SameStmts
      BY <1>2, <2>1, Flags DEF Typed, SameStmts
    <2>3. drv'.open = a
      BY <1>2, <2>1 DEF Typed, Driver
    <2>4. QED
      BY <2>1, <2>2, <2>3, Zenon
  <1>6. conn' \in Connections /\ conn' # None /\ cause' \in SUBSET Reasons
    <2> DEFINE c == rc = "success"
    <2>1. conn' = [connected |-> c, errors |-> o.errors] /\ c \in BOOLEAN
      BY <1>4
    <2> HIDE DEF c
    <2>2. NoError \in SUBSET Diags
      BY DEF NoError
    <2>3. QED
      BY <1>4, <2>1, <2>2, MadeConnection
  <1>7. TypedStep
    BY <1>1, <1>2, <1>5, <1>6 DEF TypedStep, Typed
  <1>8. /\ pc' \in {"autocommit", "freeStmts"} /\ at' = 1
        /\ pc' = "autocommit" => drv'.open
    BY <1>4, <1>5 DEF Goto
  <1>9. QED
    BY <1>1, <1>2, <1>5, <1>6, <1>7, <1>8, StillSafe, StepAway DEF PCs, Txns

LEMMA StepAutocommit == ASSUME OInv, SetAutocommitOff PROVE OInv'
  <1>1. pc = "autocommit" /\ stmt' = stmt /\ ret' = ret
    BY DEF SetAutocommitOff
  <1>2. /\ ~InScript /\ ret = "success" /\ Typed /\ conn \in Connections /\ drv \in Driver
        /\ drv.open
    BY <1>1, Idle DEF InScript, Txns, OInv, Typed, Session
  <1>3. PICK rc \in Codes : \E o \in Outcomes(rc, conn.errors) : \E closed \in BOOLEAN :
          /\ rc = "success" => ~closed
          /\ conn' = [connected |-> ~closed, errors |-> o.errors]
          /\ drv' = IF closed THEN Disconnected ELSE [drv EXCEPT !.auto = rc = "error"]
          /\ cause' = o.cause
          /\ Goto(IF rc = "success" THEN "init" ELSE "freeStmts")
    BY AnswerCodes DEF SetAutocommitOff
  <1>4. PICK o \in Outcomes(rc, conn.errors), closed \in BOOLEAN :
          /\ rc = "success" => ~closed
          /\ conn' = [connected |-> ~closed, errors |-> o.errors]
          /\ drv' = IF closed THEN Disconnected ELSE [drv EXCEPT !.auto = rc = "error"]
          /\ cause' = o.cause
          /\ Goto(IF rc = "success" THEN "init" ELSE "freeStmts")
    BY <1>3
  <1>5. /\ drv' \in Driver /\ (SameStmts \/ drv' = Disconnected)
        /\ ~closed => drv'.open = drv.open /\ drv'.auto = (rc = "error")
    <2> DEFINE a == rc = "error"
               d == [drv EXCEPT !.auto = a]
    <2>1. drv' = (IF closed THEN Disconnected ELSE d) /\ a \in BOOLEAN
      BY <1>4
    <2>2. d \in Driver /\ d.bound = drv.bound /\ d.live = drv.live
      BY <1>2, <2>1, Flags
    <2>3. d.open = drv.open /\ d.auto = a
      BY <1>2 DEF Driver
    <2> HIDE DEF d
    <2>4. CASE closed
      BY <1>2, <2>1, <2>4, Cleared
    <2>5. CASE ~closed
      BY <2>1, <2>2, <2>3, <2>5 DEF SameStmts
    <2>6. QED
      BY <2>4, <2>5
  <1>6. conn' \in Connections /\ conn' # None /\ conn'.connected = ~closed /\ cause' \in SUBSET Reasons
    <2>1. conn.errors \in SUBSET Diags
      BY <1>2 DEF Connections
    <2> DEFINE c == ~closed
    <2>2. conn' = [connected |-> c, errors |-> o.errors] /\ c \in BOOLEAN
      BY <1>4
    <2> HIDE DEF c
    <2>3. conn' \in Connections /\ conn' # None /\ conn'.connected = c /\ cause' \in SUBSET Reasons
      BY <1>4, <2>1, <2>2, MadeConnection
    <2>4. QED
      BY <2>3 DEF c
  <1>7. TypedStep
    BY <1>1, <1>2, <1>5, <1>6 DEF TypedStep, Typed
  <1>8. CASE rc = "success"
    BY <1>1, <1>2, <1>4, <1>5, <1>6, <1>7, <1>8, StillSafe, StepToScript DEF Goto
  <1>9. CASE rc # "success"
    BY <1>1, <1>2, <1>4, <1>5, <1>6, <1>7, <1>9, StillSafe, StepAway DEF Goto, PCs, Txns
  <1>10. QED
    BY <1>8, <1>9

LEMMA StepDisconnect == ASSUME OInv, dbDisconnect \/ Disconnect PROVE OInv'
  <1>1. PICK next \in {"freeStmts", "freeConn"} :
          /\ pc \in {"dbDisconnect", "disconnect"} /\ stmt' = stmt /\ ret' = ret /\ cause' = cause
          /\ ODBCDisconnect(next)
    BY DEF dbDisconnect, Disconnect
  <1>2. /\ ~InScript /\ ret = "success" /\ Typed /\ conn \in Connections /\ conn # None
        /\ drv \in Driver
    BY <1>1, Idle DEF InScript, Txns, OInv, Typed, Session
  <1>3. NoError \in SUBSET Diags
    BY DEF NoError
  <1>4. pc' = next /\ at' = 1
    BY <1>1 DEF ODBCDisconnect, Goto
  <1>5. drv' \in Driver /\ (SameStmts \/ drv' = Disconnected)
    BY <1>1, <1>2, Cleared DEF ODBCDisconnect, SameStmts
  <1>6. conn' \in Connections /\ conn' # None
    <2>1. CASE ~conn.connected
      <3>1. conn' = [conn EXCEPT !.errors = NoError]
        BY <1>1, <2>1 DEF ODBCDisconnect
      <3>2. QED
        BY <1>2, <1>3, <3>1, ConnectionIsNotNone DEF Connections
    <2>2. CASE conn.connected
      <3>1. PICK rc \in Codes : \E o \in Outcomes(rc, NoError) :
                conn' = [connected |-> rc # "success", errors |-> o.errors]
        BY <1>1, <2>2, AnswerCodes DEF ODBCDisconnect, Codes
      <3>2. PICK o \in Outcomes(rc, NoError) :
                conn' = [connected |-> rc # "success", errors |-> o.errors]
        BY <3>1
      <3> DEFINE c == rc # "success"
      <3>3. conn' = [connected |-> c, errors |-> o.errors] /\ c \in BOOLEAN
        BY <3>2
      <3> HIDE DEF c
      <3>4. QED
        BY <1>3, <3>3, MadeConnection
    <2>3. QED
      BY <2>1, <2>2
  <1>7. TypedStep
    BY <1>1, <1>2, <1>5, <1>6 DEF TypedStep, Typed
  <1>8. QED
    BY <1>1, <1>2, <1>4, <1>5, <1>6, <1>7, StillSafe, StepAway DEF PCs, Txns

LEMMA StepFreeStmts == ASSUME OInv, FreeStatements PROVE OInv'
  <1>1. /\ pc = "freeStmts" /\ pc' = "disconnect" /\ at' = 1 /\ Free(Stmts)
        /\ conn' = conn /\ ret' = ret /\ cause' = cause
    BY DEF FreeStatements, Goto
  <1>2. ~InScript /\ ret = "success" /\ Typed /\ conn # None
    BY <1>1, Idle DEF InScript, Txns, OInv, Session
  <1>3. /\ stmt' \in [Stmts -> {None} \cup Structures] /\ drv' \in Driver
        /\ \A s \in Stmts : drv'.bound[s] = NoBuffers
    BY <1>1, <1>2, Freed, AllSafe
  <1>4. TypedStep
    BY <1>1, <1>2, <1>3 DEF TypedStep, Typed
  <1>5. \A s \in Stmts : Safe(stmt', drv', s) /\ Linked(stmt', drv', s)
    BY <1>3 DEF Safe, Linked
  <1>6. QED
    BY <1>1, <1>2, <1>4, <1>5, StepAway DEF PCs, Txns

LEMMA StepFreeConn == ASSUME OInv, ODBCFreeConn PROVE OInv'
  <1>1. pc = "freeConn" /\ pc' = "exit" /\ at' = 1 /\ stmt' = stmt /\ ret' = ret /\ cause' = cause
    BY DEF ODBCFreeConn, Goto
  <1>2. ~InScript /\ ret = "success" /\ Typed
    BY <1>1, Idle DEF InScript, Txns, OInv
  <1>3. \/ conn' = conn /\ drv' = drv
        \/ conn' = None /\ \E kept \in BOOLEAN : drv' = [drv EXCEPT !.env = kept, !.dbc = kept]
    <2>1. CASE conn.connected
      BY <2>1 DEF ODBCFreeConn
    <2>2. CASE ~conn.connected
      <3>1. PICK rc \in {"success", "error"} :
               /\ drv' = [drv EXCEPT !.env = (rc = "error" \/ drv.open),
                                     !.dbc = (rc = "error" \/ drv.open)]
               /\ conn' = None
        BY <2>2 DEF ODBCFreeConn
      <3>2. (rc = "error" \/ drv.open) \in BOOLEAN
        BY <1>2 DEF Typed, Driver
      <3>3. QED
        BY <3>1, <3>2
    <2>3. QED
      BY <2>1, <2>2
  <1>4. drv' \in Driver /\ SameStmts
    <2>1. ASSUME NEW kept \in BOOLEAN, drv' = [drv EXCEPT !.env = kept, !.dbc = kept]
          PROVE  drv' \in Driver /\ SameStmts
      BY <1>2, <2>1, Flags DEF Typed, SameStmts
    <2>2. CASE drv' = drv
      BY <1>2, <2>2 DEF Typed, SameStmts
    <2>3. QED
      BY <1>3, <2>1, <2>2
  <1>5. TypedStep
    BY <1>1, <1>2, <1>3, <1>4 DEF TypedStep, Typed
  <1>6. QED
    BY <1>1, <1>2, <1>4, <1>5, StillSafe, StepAway DEF PCs, Txns

-----------------------------------------------------------------------------
(* The invariant holds.                                                    *)

LEMMA InitOInv == Init => OInv
  <1> SUFFICES ASSUME Init PROVE OInv
    OBVIOUS
  <1> USE DEF Init
  <1>1. Typed
    <2>1. [s \in Stmts |-> NoBuffers] \in [Stmts -> [params : SUBSET {1}, cols : SUBSET {1, 2}]]
      BY DEF NoBuffers
    <2>2. drv \in Driver
      BY <2>1 DEF Driver
    <2>3. QED
      BY <2>2 DEF Typed, PCs, Txns, NoError
  <1>2. Placed /\ Complete /\ Session /\ Told
    BY DEF Placed, Complete, Session, Told, Txns
  <1>3. Owned
    BY DEF Owned, Safe, Linked
  <1>4. QED
    BY <1>1, <1>2, <1>3 DEF OInv

LEMMA NextOInv == OInv /\ [Next]_vars => OInv'
  <1>1. ASSUME OInv, UNCHANGED vars PROVE OInv'
    <2>1. Script' = Script /\ Call' = Call /\ S' = S /\ ErrStack' = ErrStack
      BY <1>1 DEF vars, Script, Call, S, ErrStack
    <2>2. QED
      BY <1>1, <2>1 DEF vars, OInv, Typed, Placed, Complete, Session, Owned, Told
  <1>2. ASSUME OInv, Next PROVE OInv'
    <2>1. CASE ODBCAllocConn \/ ODBCConnect \/ SetAutocommitOff
      BY <1>2, <2>1, StepAllocConn, StepConnect, StepAutocommit
    <2>2. CASE Reset \/ ODBCAllocStmt \/ ODBCPrepare \/ ODBCBindParameter \/ ODBCBindColumn
      BY <1>2, <2>2, StepReset, StepAlloc, StepPrepare, StepParam, StepCol
    <2>3. CASE SetParameter \/ ODBCExecute \/ ODBCFetch \/ ODBCRowCount \/ ODBCCloseCursor
               \/ ODBCCommit
      BY <1>2, <2>3, StepSet, StepTxnStmt, StepFetch, StepCommit
    <2>4. CASE ErrorPath \/ RunWorkload
      BY <1>2, <2>4, StepError, StepWorkload
    <2>5. CASE dbDisconnect \/ FreeStatements \/ Disconnect \/ ODBCFreeConn
      BY <1>2, <2>5, StepDisconnect, StepFreeStmts, StepFreeConn
    <2>6. CASE Exited
      BY <1>1, <1>2, <2>6 DEF Exited
    <2>7. QED
      BY <1>2, <2>1, <2>2, <2>3, <2>4, <2>5, <2>6 DEF Next
  <1>3. QED
    BY <1>1, <1>2

LEMMA SpecOInv == Spec => []OInv
  BY InitOInv, NextOInv, PTL DEF Spec

-----------------------------------------------------------------------------
(* The properties.                                                         *)

\* Whatever the driver may read or write through a statement is memory the layer
\* still owns, for any bindings and any number of refusals: the buffers are freed
\* with the structure, and then the driver's handle has gone or nothing uses it.
THEOREM BoundBuffersLiveSafe == Spec => []BoundBuffersLive
  <1>1. OInv => BoundBuffersLive
    <2> SUFFICES ASSUME OInv, NEW s \in Stmts, drv.bound[s].params \cup drv.bound[s].cols # {}
                 PROVE  /\ s \in drv.live /\ stmt[s] # None /\ stmt[s].hStmt
                        /\ ret = "success" => /\ drv.bound[s].params \subseteq DOMAIN stmt[s].params
                                              /\ drv.bound[s].cols \subseteq DOMAIN stmt[s].cols
      BY DEF BoundBuffersLive
    <2>1. drv.bound[s] # NoBuffers
      BY DEF NoBuffers
    <2>2. Safe(stmt, drv, s)
      BY AllSafe
    <2>3. QED
      BY <2>1, <2>2, OwnLinked DEF Safe, Usable
  <1>2. QED
    BY <1>1, SpecOInv, PTL

\* The error path classifies an error by what the call that failed was refused
\* for, whatever lists earlier calls have left behind.
THEOREM ClassifiedSafe == Spec => []ClassifiedAsItFailed
  <1>1. OInv => ClassifiedAsItFailed
    <2>1. ASSUME OInv, ret = "normal" PROVE AsRead(ErrStack, cause) /\ cause \subseteq Reasons
      BY <2>1 DEF OInv, Told, Typed
    <2>2. QED
      BY <2>1 DEF ClassifiedAsItFailed, Classified, isRetryable, isFailover, Diags, Reasons,
                  AsRead
  <1>2. QED
    BY <1>1, SpecOInv, PTL

\* Before a transaction is chosen everything it uses is there, after any sequence
\* of failovers and of re-preparations that failed half way.
THEOREM PreparedSafe == Spec => []Prepared
  <1>1. OInv => Prepared
    <2> SUFFICES ASSUME OInv, pc = "ready" PROVE Prepared
      BY DEF Prepared
    <2>1. conn.connected /\ drv.open /\ ~drv.auto
      BY DEF OInv, Session
    <2>2. ASSUME NEW s \in Stmts
          PROVE  /\ stmt[s] # None /\ stmt[s].hStmt /\ s \in drv.live
                 /\ stmt[s].text
                 /\ DOMAIN stmt[s].params = {1}
                 /\ s = "query" => DOMAIN stmt[s].cols = {1, 2}
      <3>1. Reached(stmt, drv, s, Over)
        BY DEF OInv, Complete
      <3>2. /\ Usable(stmt, s) /\ s \in drv.live /\ stmt[s].text /\ DOMAIN stmt[s].params = {1}
            /\ s = "query" => 1 \in DOMAIN stmt[s].cols /\ 2 \in DOMAIN stmt[s].cols
        BY <3>1, Order DEF Reached, Over
      <3>3. stmt[s] \in Structures
        BY <3>2 DEF OInv, Typed, Usable
      <3>4. DOMAIN stmt[s].cols \subseteq {1, 2}
        <4>1. stmt[s].cols \in Bindings({1, 2})
          BY <3>3, Fields
        <4>2. QED
          BY <4>1 DEF Bindings
      <3>5. QED
        BY <3>2, <3>4 DEF Usable
    <2>3. QED
      BY <2>1, <2>2 DEF Prepared
  <1>2. QED
    BY <1>1, SpecOInv, PTL

LEMMA StoredFits ==
    ASSUME NEW t \in ColTypes, NEW p \in Buffers, NEW v \in Settable(t, p.size),
           SetParam(t, p.c, p.size, v).ok
    PROVE  Written(p.c, v) <= p.size
  <1>1. p.c \in CTypes /\ p.size \in Nat /\ (p.c # "CHAR" => Bytes(p.c) <= p.size)
    BY DEF Buffers
  <1>2. CASE p.c # "CHAR"
    BY <1>1, <1>2 DEF Written
  <1>3. CASE p.c = "CHAR"
    <2>1. t = "CHAR"
      BY <1>3 DEF SetParam, ColTypes, ODBCSetParam_TINYINT, ODBCSetParam_SMALLINT,
         ODBCSetParam_INTEGER, ODBCSetParam_BIGINT, ODBCSetParam_FLOAT, ODBCSetParam_DOUBLE, Store,
         From, Numeric, Refused
    <2>2. v \in Nat /\ v < p.size
      BY <1>1, <1>3, <2>1 DEF SetParam, ODBCSetParam_CHAR, Refused, Settable, Lengths
    <2>3. QED
      BY <1>1, <1>3, <2>2 DEF Written
  <1>4. QED
    BY <1>2, <1>3

\* No binding makes an ODBCSetParam_* function write past its buffer, for any
\* column size and any number of decimal digits.
THEOREM WritesFitSafe == Spec => []WritesFit
  <1>1. OInv => WritesFit
    <2> SUFFICES ASSUME OInv, At({"set"}) PROVE WritesFit
      BY DEF WritesFit
    <2>1. pc \in Txns /\ Call.s \in Stmts /\ Call.n = 1
      <3>1. Typed /\ InScript /\ Call.op = "set"
        BY DEF At, InScript, OInv
      <3>2. pc \in Txns /\ Call.s \in Stmts
        BY <3>1, WhichScript, CallTyped
      <3>3. QED
        BY <3>1, <3>2, TxnCall, CallTyped
    <2>2. S \in Structures /\ DOMAIN S.params = {1}
      BY <2>1, Completed DEF S
    <2>3. S.params[Call.n] \in Buffers
      <3>1. S.params \in Bindings({1})
        BY <2>2, Fields
      <3>2. QED
        BY <2>1, <2>2, <3>1 DEF Bindings
    <2>4. QED
      BY <2>3, StoredFits DEF WritesFit
  <1>2. QED
    BY <1>1, SpecOInv, PTL

-----------------------------------------------------------------------------
(* The rows that the processes of tptbm.c insert in transaction mode.      *)

\* What the theorem needs of the constants.  With fewer rows in a block than
\* there are elements, '-scaleout local' may never come to a row of its element.
EnoughRows == NElements <= Key

\* With what the module assumes.
Sizes ==
    /\ NProc \in Nat \ {0, 1} /\ Key \in Nat \ {0, 1} /\ NElements \in Nat \ {0}
    /\ EnoughRows

LEMMA Multiple ==
    ASSUME NEW a \in Nat, NEW n \in Nat, a >= 1
    PROVE  a * n >= n
  <1>1. PICK b \in Nat : a = b + 1
    <2>1. a - 1 \in Nat /\ a = (a - 1) + 1
      OBVIOUS
    <2>2. QED
      BY <2>1
  <1>2. b * n \in Nat /\ a * n = b * n + n
    BY <1>1
  <1>3. QED
    BY <1>2

\* Two numbers of the form k * n + d with d below n differ in k or in d.
LEMMA Digits ==
    ASSUME NEW n \in Nat \ {0}, NEW a \in Nat, NEW b \in Nat,
           NEW c \in 0..(n - 1), NEW d \in 0..(n - 1), a * n + c = b * n + d
    PROVE  a = b /\ c = d
  <1>1. a * n \in Nat /\ b * n \in Nat
    OBVIOUS
  <1>2. ASSUME NEW k \in Nat, NEW m \in Nat, k > m
        PROVE  k * n \in Nat /\ m * n \in Nat /\ k * n >= m * n + n
    <2>1. k - m \in Nat /\ k - m >= 1
      BY <1>2
    <2>2. (k - m) * n >= n
      BY <2>1, Multiple
    <2>3. (k - m) * n = k * n - m * n /\ k * n \in Nat /\ m * n \in Nat
      OBVIOUS
    <2>4. QED
      BY <2>2, <2>3
  <1>3. ~(a > b)
    BY <1>1, <1>2
  <1>4. ~(b > a)
    BY <1>1, <1>2
  <1>5. a = b
    BY <1>3, <1>4
  <1>6. QED
    BY <1>1, <1>5

\* A position is a block and a place in it.
LEMMA Division ==
    ASSUME NEW n \in Nat \ {0}, NEW x \in Nat
    PROVE  /\ x \div n \in Nat /\ x % n \in 0..(n - 1)
           /\ x = (x \div n) * n + (x % n)
  <1>1. x \div n \in Int /\ x \div n >= 0
    OBVIOUS
  <1>2. x % n \in 0..(n - 1)
    OBVIOUS
  <1>3. x = n * (x \div n) + (x % n)
    OBVIOUS
  <1>4. n * (x \div n) = (x \div n) * n
    BY <1>1
  <1>5. QED
    BY <1>1, <1>2, <1>3, <1>4

LEMMA DivisionOf ==
    ASSUME NEW n \in Nat \ {0}, NEW q \in Nat, NEW d \in 0..(n - 1)
    PROVE  (q * n + d) \div n = q /\ (q * n + d) % n = d
  <1> DEFINE x == q * n + d
  <1>1. x \in Nat
    OBVIOUS
  <1>2. x \div n \in Nat /\ x % n \in 0..(n - 1) /\ x = (x \div n) * n + (x % n)
    BY <1>1, Division
  <1> HIDE DEF x
  <1>3. (x \div n) * n + (x % n) = q * n + d
    BY <1>2 DEF x
  <1>4. x \div n = q /\ x % n = d
    BY <1>2, <1>3, Digits
  <1>5. QED
    BY <1>4 DEF x

\* Different positions, and positions of different processes, are different rows.
LEMMA RowsDiffer ==
    ASSUME Sizes, NEW p \in Procs, NEW q \in Procs, NEW m \in Nat, NEW n \in Nat,
           InsertRow(p, m) = InsertRow(q, n)
    PROVE  p = q /\ m = n
  <1>1. /\ NProc \in Nat \ {0} /\ Key \in Nat \ {0}
        /\ p \in 0..(NProc - 1) /\ q \in 0..(NProc - 1)
    BY DEF Sizes, Procs
  <1> DEFINE a == m \div Key
             b == n \div Key
  <1>2. /\ a \in Nat /\ m % Key \in 0..(Key - 1) /\ m = a * Key + (m % Key)
        /\ b \in Nat /\ n % Key \in 0..(Key - 1) /\ n = b * Key + (n % Key)
    BY <1>1, Division
  <1>3. Key + p + a * NProc = Key + q + b * NProc /\ m % Key = n % Key
    BY DEF InsertRow, Row, InsertMod
  <1> HIDE DEF a, b
  <1>4. a * NProc \in Nat /\ b * NProc \in Nat
    BY <1>1, <1>2
  <1>5. a * NProc + p = b * NProc + q
    BY <1>1, <1>3, <1>4
  <1>6. a = b /\ p = q
    BY <1>1, <1>2, <1>5, Digits
  <1>7. a * Key = b * Key
    BY <1>6
  <1>8. m = n
    BY <1>2, <1>3, <1>7
  <1>9. QED
    BY <1>6, <1>8

\* They lie behind the rows that populate inserts.
LEMMA RowsBehind ==
    ASSUME Sizes, NEW p \in Procs, NEW n \in Nat
    PROVE  InsertRow(p, n)[1] >= Key /\ InsertRow(p, n)[1] \in Nat
  <1>1. Key \in Nat \ {0} /\ NProc \in Nat /\ p \in Nat
    BY DEF Sizes, Procs
  <1>2. n \div Key \in Nat
    BY <1>1, Division
  <1>3. (n \div Key) * NProc \in Nat
    BY <1>1, <1>2
  <1>4. InsertRow(p, n)[1] = Key + p + (n \div Key) * NProc
    BY DEF InsertRow, Row, InsertMod
  <1>5. QED
    BY <1>1, <1>3, <1>4

\* Every block has rows of every element.
LEMMA LocalNear ==
    ASSUME Sizes, NEW p \in Procs, element[p] \in Elements, NEW first \in Nat, NEW n \in Nat
    PROVE  \E m \in n..(n + Key * NElements) : IsLocal(p, Row(p, first, m))
  <1>1. /\ NProc \in Nat \ {0} /\ Key \in Nat \ {0} /\ NElements \in Nat \ {0}
        /\ NElements <= Key /\ p \in Nat /\ element[p] \in 1..NElements
    BY DEF Sizes, EnoughRows, Procs, Elements
  <1> DEFINE b == (n \div Key) + 1
             c == first + p + b * NProc
             r == c % NElements
             e == element[p] - 1
             j == IF e >= r THEN e - r ELSE (e - r) + NElements
             m == b * Key + j
  <1>2. /\ b \in Nat /\ b >= 1 /\ n % Key \in 0..(Key - 1)
        /\ n = (b - 1) * Key + (n % Key)
    <2>1. /\ n \div Key \in Nat /\ n % Key \in 0..(Key - 1)
          /\ n = (n \div Key) * Key + (n % Key)
      BY <1>1, Division
    <2>2. b - 1 = n \div Key /\ b \in Nat /\ b >= 1
      BY <2>1
    <2>3. QED
      BY <2>1, <2>2
  <1>3. c \in Nat
    <2>1. b * NProc \in Nat
      BY <1>1, <1>2
    <2>2. QED
      BY <1>1, <2>1
  <1>4. /\ c \div NElements \in Nat /\ r \in 0..(NElements - 1)
        /\ c = (c \div NElements) * NElements + r
    BY <1>1, <1>3, Division
  <1>5. e \in 0..(NElements - 1) /\ e + 1 = element[p]
    BY <1>1
  <1>6. /\ j \in 0..(NElements - 1) /\ j \in 0..(Key - 1)
        /\ r + j = e \/ r + j = NElements + e
    <2> HIDE DEF r, e
    <2>1. QED
      BY <1>1, <1>4, <1>5
  <1>7. (c + j) % NElements = e
    <2> HIDE DEF c, r, e, j
    <2>1. (c \div NElements) * NElements \in Nat
      BY <1>1, <1>4
    <2>2. ((c \div NElements) + 1) * NElements = (c \div NElements) * NElements + NElements
      BY <1>1, <1>4
    <2>3. CASE r + j = e
      <3>1. c + j = (c \div NElements) * NElements + e
        BY <1>1, <1>3, <1>4, <1>5, <1>6, <2>1, <2>3
      <3>2. QED
        BY <1>1, <1>4, <1>5, <3>1, DivisionOf
    <2>4. CASE r + j = NElements + e
      <3>1. c + j = ((c \div NElements) + 1) * NElements + e
        BY <1>1, <1>3, <1>4, <1>5, <1>6, <2>1, <2>2, <2>4
      <3>2. (c \div NElements) + 1 \in Nat
        BY <1>4
      <3>3. QED
        BY <1>1, <1>5, <3>1, <3>2, DivisionOf
    <2>5. QED
      BY <1>6, <2>3, <2>4
  <1>8. Row(p, first, m) = <<c, j>>
    <2> HIDE DEF b, j
    <2>1. m \div Key = b /\ m % Key = j
      BY <1>1, <1>2, <1>6, DivisionOf
    <2> HIDE DEF m
    <2>2. QED
      BY <2>1 DEF Row, InsertMod
  <1>9. IsLocal(p, Row(p, first, m))
    <2> HIDE DEF c, j, m, e
    <2>1. ElementOf(<<c, j>>) = element[p]
      BY <1>5, <1>7 DEF ElementOf
    <2>2. QED
      BY <1>8, <2>1 DEF IsLocal
  <1>10. CASE NElements = 1
    <2>1. Row(p, first, n) = <<first + p + (n \div Key) * NProc, n % Key>>
      BY DEF Row, InsertMod
    <2> DEFINE x == (first + p + (n \div Key) * NProc) + (n % Key)
    <2>2. x \in Nat
      <3>1. n \div Key \in Nat /\ n % Key \in Nat
        <4>1. n \div Key \in Nat /\ n % Key \in 0..(Key - 1)
          BY <1>1, Division
        <4>2. QED
          BY <1>1, <4>1
      <3>2. (n \div Key) * NProc \in Nat
        BY <1>1, <3>1
      <3>3. QED
        BY <1>1, <3>1, <3>2
    <2>3. ElementOf(Row(p, first, n)) = (x % NElements) + 1
      BY <2>1 DEF ElementOf
    <2> HIDE DEF x
    <2>4. x % NElements = 0
      BY <1>10, <2>2
    <2>5. IsLocal(p, Row(p, first, n))
      BY <1>1, <1>10, <2>3, <2>4 DEF IsLocal
    <2>6. n \in n..(n + Key * NElements)
      BY <1>1, <1>10
    <2>7. QED
      BY <2>5, <2>6
  <1>11. CASE NElements >= 2
    <2> HIDE DEF b, c, r, e, j
    <2>1. (NElements - 1) * Key >= Key
      BY <1>1, <1>11, Multiple
    <2>2. Key * NElements = (NElements - 1) * Key + Key
      BY <1>1
    <2>3. (NElements - 1) * Key \in Int /\ Key * NElements \in Int
      BY <1>1
    <2>4. b * Key = (b - 1) * Key + Key /\ (b - 1) * Key \in Int
      BY <1>1, <1>2
    <2>5. m \in n..(n + Key * NElements)
      BY <1>1, <1>2, <1>6, <2>1, <2>2, <2>3, <2>4
    <2>6. QED
      BY <1>9, <2>5
  <1>12. QED
    BY <1>1, <1>10, <1>11

\* The search of insert and delete goes forward and ends.
LEMMA LocalFromForward ==
    ASSUME Sizes, NEW p \in Procs, element[p] \in Elements, NEW first \in Nat, NEW n \in Nat
    PROVE  LocalFrom(p, first, n) \in Nat /\ LocalFrom(p, first, n) >= n
  <1> DEFINE near == {m \in n..(n + Key * NElements) : IsLocal(p, Row(p, first, m))}
  <1>1. Key \in Nat /\ NElements \in Nat /\ Key * NElements \in Nat
    BY DEF Sizes
  <1>2. near # {} /\ near \subseteq Nat
    <2>1. PICK m \in n..(n + Key * NElements) : IsLocal(p, Row(p, first, m))
      BY LocalNear
    <2>2. m \in near
      BY <2>1
    <2>3. near \subseteq Nat
      BY <1>1
    <2>4. QED
      BY <2>2, <2>3
  <1>3. PICK x \in near : \A y \in near : ~ (<<y, x>> \in OpToRel(<, Nat))
    BY <1>2, NatLessThanWellFounded, WFMin
  <1>4. \A y \in near : ~(y < x)
    BY <1>2, <1>3 DEF OpToRel
  <1>5. \A k \in n..(x - 1) : ~IsLocal(p, Row(p, first, k))
    <2> SUFFICES ASSUME NEW k \in n..(x - 1), IsLocal(p, Row(p, first, k)) PROVE FALSE
      OBVIOUS
    <2>1. x \in n..(n + Key * NElements)
      OBVIOUS
    <2>2. k \in n..(n + Key * NElements) /\ k < x
      BY <1>1, <2>1
    <2>3. QED
      BY <1>4, <2>2
  <1>6. LocalFrom(p, first, n) \in n..(n + Key * NElements)
    BY <1>5 DEF LocalFrom
  <1>7. QED
    BY <1>1, <1>6

-----------------------------------------------------------------------------
\* The rows in the table or about to be.
Used == table \cup UNION {RowsOf(pending[q], "insert") : q \in Procs}

\* populate has inserted the row, or the process it belongs to has passed it.
Taken(row) ==
    \/ row[1] < Key
    \/ \E q \in Procs : \E m \in 0..(insertAt[q] - 1) : row = InsertRow(q, m)

\* rowcount is a row to populate as long as populate runs.
Populating ==
    /\ rowcount \in Nat
    /\ place[0] = "build" => rowcount = 0
    /\ place[0] = "populate" => rowcount < Key * Key

WorkTypes ==
    /\ insertAt \in [Procs -> Nat] /\ element \in [Procs -> Elements]
    /\ pending = [q \in Procs |-> pending[q]]
    /\ place = [q \in Procs |-> place[q]]

WorkInv == WorkTypes /\ Populating /\ \A row \in Used : Taken(row)

LEMMA PopulatedRow ==
    ASSUME Sizes, NEW k \in Nat, k < Key * Key
    PROVE  k \div Key < Key
  <1> DEFINE d == k \div Key
  <1>1. Key \in Nat \ {0}
    BY DEF Sizes
  <1>2. d \in Nat /\ k % Key \in 0..(Key - 1) /\ k = d * Key + (k % Key)
    BY <1>1, Division
  <1> HIDE DEF d
  <1>3. ASSUME d >= Key PROVE FALSE
    <2>1. (d - Key) * Key \in Nat
      BY <1>1, <1>2, <1>3
    <2>2. (d - Key) * Key = d * Key - Key * Key
      BY <1>1, <1>2
    <2>3. d * Key \in Nat /\ Key * Key \in Nat
      BY <1>1, <1>2
    <2>4. QED
      BY <1>2, <2>1, <2>2, <2>3
  <1>4. QED
    BY <1>1, <1>2, <1>3 DEF d

LEMMA InitWork == Sizes /\ WorkloadInit => WorkInv
  <1> SUFFICES ASSUME Sizes, WorkloadInit PROVE WorkInv
    OBVIOUS
  <1>1. WorkTypes
    BY DEF WorkloadInit, WorkTypes
  <1>2. 0 \in Procs
    BY DEF Sizes, Procs
  <1>3. Populating
    BY <1>2 DEF WorkloadInit, Populating
  <1>4. Used = table
    BY DEF WorkloadInit, Used, RowsOf
  <1>5. ASSUME NEW row \in table PROVE Taken(row)
    <2>1. Key * Key \in Nat
      BY DEF Sizes
    <2>2. PICK n \in 0..(Key * Key) : table = Populated(n)
      BY DEF WorkloadInit, Built
    <2>3. PICK k \in 0..(n - 1) : row = <<k \div Key, k % Key>>
      BY <1>5, <2>2 DEF Populated
    <2>4. k \in Nat /\ k < Key * Key
      BY <2>1
    <2>5. QED
      BY <2>3, <2>4, PopulatedRow DEF Taken
  <1>6. QED
    BY <1>1, <1>3, <1>4, <1>5 DEF WorkInv

\* A step that uses no row anew.
LEMMA NothingNew ==
    ASSUME WorkInv, UNCHANGED <<insertAt, element, rowcount>>, Used' \subseteq Used,
           pending' = [q \in Procs |-> pending'[q]], place' = [q \in Procs |-> place'[q]],
           place'[0] \in {"build", "populate"} => place'[0] = place[0]
    PROVE  WorkInv'
  <1>1. WorkTypes'
    BY DEF WorkInv, WorkTypes
  <1>2. Populating'
    BY DEF WorkInv, Populating
  <1>3. \A row \in Used' : Taken(row)'
    BY DEF WorkInv, Taken
  <1>4. QED
    BY <1>1, <1>2, <1>3 DEF WorkInv

LEMMA Goes ==
    ASSUME WorkInv, Sizes, NEW p \in Procs, NEW where, where \notin {"build", "populate"},
           GoTo(p, where)
    PROVE  /\ place' = [q \in Procs |-> place'[q]]
           /\ place'[0] \in {"build", "populate"} => place'[0] = place[0]
  <1>1. 0 \in Procs
    BY DEF Sizes, Procs
  <1>2. place' = [q \in Procs |-> IF q = p THEN where ELSE place[q]]
    BY DEF WorkInv, WorkTypes, GoTo
  <1>3. QED
    BY <1>1, <1>2

\* A process whose changes are committed or rolled back, all of them.
LEMMA Emptied ==
    ASSUME WorkInv, NEW p \in Procs, pending' = [pending EXCEPT ![p] = {}],
           table' \subseteq table \cup RowsOf(pending[p], "insert")
    PROVE  Used' \subseteq Used /\ pending' = [q \in Procs |-> pending'[q]]
  <1>1. pending' = [q \in Procs |-> IF q = p THEN {} ELSE pending[q]]
    BY DEF WorkInv, WorkTypes
  <1>2. \A q \in Procs : RowsOf(pending'[q], "insert") \subseteq RowsOf(pending[q], "insert")
    BY <1>1 DEF RowsOf
  <1>3. Used' \subseteq Used
    BY <1>2 DEF Used
  <1>4. QED
    BY <1>1, <1>3

\* Only an insert uses a row that was not used, its own.
LEMMA Operated ==
    ASSUME WorkInv, NEW p \in Procs, NEW kind, NEW row, Operate(p, kind, row)
    PROVE  /\ Used' \subseteq Used \cup (IF kind = "insert" THEN {row} ELSE {})
           /\ pending' = [q \in Procs |-> pending'[q]]
  <1> DEFINE own == IF kind = "read" \/ ~Finds(p, kind, row) THEN {}
                    ELSE {[conn |-> ConnFor(row), kind |-> kind, row |-> row]}
             open == pending[p] \cup own
             new == IF kind = "insert" THEN {row} ELSE {}
  <1>1. PICK mine \in SUBSET open, left \in SUBSET open :
           /\ table' = Apply(table, mine) \/ table' = table
           /\ pending' = [pending EXCEPT ![p] = left]
    <2> DEFINE due == {c \in open : c.conn = ConnFor(row)}
    <2>1. due \in SUBSET open /\ open \ due \in SUBSET open /\ open \in SUBSET open
      OBVIOUS
    <2>2. CASE Commits(kind, opCount[p] + 1)
      <3>1. table' = Apply(table, due) /\ pending' = [pending EXCEPT ![p] = open \ due]
        BY <2>2 DEF Operate
      <3>2. QED
        BY <2>1, <3>1
    <2>3. CASE ~Commits(kind, opCount[p] + 1)
      <3>1. table' = table /\ pending' = [pending EXCEPT ![p] = open]
        BY <2>3 DEF Operate
      <3>2. QED
        BY <2>1, <3>1
    <2>4. QED
      BY <2>2, <2>3
  <1>2. RowsOf(open, "insert") \subseteq RowsOf(pending[p], "insert") \cup new
    BY DEF RowsOf
  <1> HIDE DEF own, open
  <1>3. \A changes \in SUBSET open :
            RowsOf(changes, "insert") \subseteq RowsOf(open, "insert")
    BY DEF RowsOf
  <1>4. table' \subseteq table \cup RowsOf(open, "insert")
    BY <1>1, <1>3 DEF Apply
  <1>5. pending' = [q \in Procs |-> IF q = p THEN left ELSE pending[q]]
    BY <1>1 DEF WorkInv, WorkTypes
  <1>6. \A q \in Procs : RowsOf(pending'[q], "insert") \subseteq
            RowsOf(pending[q], "insert") \cup new
    <2> SUFFICES ASSUME NEW q \in Procs
                 PROVE  RowsOf(pending'[q], "insert") \subseteq
                            RowsOf(pending[q], "insert") \cup new
      OBVIOUS
    <2>1. CASE q = p
      <3>1. pending'[q] \in SUBSET open
        BY <1>5, <2>1
      <3>2. QED
        BY <1>2, <1>3, <2>1, <3>1
    <2>2. CASE q # p
      BY <1>5, <2>2
    <2>3. QED
      BY <2>1, <2>2
  <1>7. RowsOf(pending[p], "insert") \subseteq Used
    BY DEF Used
  <1>8. Used' \subseteq Used \cup new
    <2> HIDE DEF new
    <2>1. table' \subseteq Used \cup new
      BY <1>2, <1>4, <1>7 DEF Used
    <2>2. \A q \in Procs : RowsOf(pending'[q], "insert") \subseteq Used \cup new
      BY <1>6 DEF Used
    <2>3. QED
      BY <2>1, <2>2 DEF Used
  <1>9. QED
    BY <1>5, <1>8

\* The steps that leave the table and the open changes alone.
LEMMA Elsewhere ==
    ASSUME Sizes, WorkInv, UNCHANGED <<table, pending, insertAt, element, rowcount>>,
           \/ UNCHANGED place
           \/ \E p \in Procs : \E where :
                  where \notin {"build", "populate"} /\ GoTo(p, where)
    PROVE  WorkInv'
  <1>1. Used' = Used /\ pending' = [q \in Procs |-> pending'[q]]
    BY DEF Used, WorkInv, WorkTypes
  <1>2. CASE UNCHANGED place
    <2>1. place' = [q \in Procs |-> place'[q]]
      BY <1>2 DEF WorkInv, WorkTypes
    <2>2. QED
      BY <1>1, <1>2, <2>1, NothingNew
  <1>3. CASE \E p \in Procs : \E where :
                 where \notin {"build", "populate"} /\ GoTo(p, where)
    <2>1. PICK p \in Procs : \E where :
              where \notin {"build", "populate"} /\ GoTo(p, where)
      BY <1>3
    <2>2. PICK where : where \notin {"build", "populate"} /\ GoTo(p, where)
      BY <2>1
    <2>3. QED
      BY <1>1, <2>2, Goes, NothingNew
  <1>4. QED
    BY <1>2, <1>3

LEMMA CreateWork == ASSUME Sizes, WorkInv, CreateTable PROVE WorkInv'
  <1>1. 0 \in Procs /\ Key * Key > 0
    <2>1. Key * Key >= Key
      BY Multiple DEF Sizes
    <2>2. QED
      BY <2>1 DEF Sizes, Procs
  <1>2. /\ table' = {} /\ UNCHANGED <<pending, insertAt, element, rowcount>>
        /\ place[0] = "build" /\ place' = [place EXCEPT ![0] = "populate"]
    BY DEF CreateTable, InPlace, GoTo, work
  <1>3. Used' \subseteq Used
    BY <1>2 DEF Used
  <1>4. WorkTypes'
    BY <1>2 DEF WorkInv, WorkTypes
  <1>5. Populating'
    BY <1>1, <1>2 DEF WorkInv, WorkTypes, Populating
  <1>6. \A row \in Used' : Taken(row)'
    BY <1>2, <1>3 DEF WorkInv, Taken
  <1>7. QED
    BY <1>4, <1>5, <1>6 DEF WorkInv

LEMMA PopulateWork == ASSUME Sizes, WorkInv, Populate PROVE WorkInv'
  <1>0. PICK row : row = <<rowcount \div Key, rowcount % Key>>
    OBVIOUS
  <1> DEFINE open == pending[0] \cup {[conn |-> 0, kind |-> "insert", row |-> row]}
  <1>1. 0 \in Procs /\ Key * Key \in Nat
    BY DEF Sizes, Procs
  <1>2. place[0] = "populate" /\ rowcount \in Nat /\ rowcount < Key * Key
    BY DEF Populate, InPlace, WorkInv, Populating
  <1>3. /\ rowcount' = rowcount + 1 /\ UNCHANGED <<insertAt, element>>
        /\ table' = table \/ table' = Apply(table, open)
        /\ pending' = [pending EXCEPT ![0] = {}] \/ pending' = [pending EXCEPT ![0] = open]
    BY <1>0 DEF Populate, work
  <1>4. \/ place' = [place EXCEPT ![0] = "fork"]
        \/ place' = place /\ rowcount + 1 # Key * Key
    BY DEF Populate, GoTo
  <1>5. RowsOf(open, "insert") \subseteq RowsOf(pending[0], "insert") \cup {row}
    BY DEF RowsOf
  <1>6. Taken(row)'
    BY <1>0, <1>2, PopulatedRow DEF Taken
  <1> HIDE DEF open
  <1>7. pending' = [q \in Procs |-> pending'[q]]
    BY <1>3 DEF WorkInv, WorkTypes
  <1>8. Used' \subseteq Used \cup {row}
    <2>1. RowsOf({}, "insert") = {}
      BY DEF RowsOf
    <2>2. \A q \in Procs : q # 0 => pending'[q] = pending[q]
      BY <1>3 DEF WorkInv, WorkTypes
    <2>3. pending'[0] = {} \/ pending'[0] = open
      BY <1>1, <1>3 DEF WorkInv, WorkTypes
    <2>4. RowsOf(pending[0], "insert") \subseteq Used
      BY <1>1 DEF Used
    <2>5. \A q \in Procs : RowsOf(pending'[q], "insert") \subseteq Used \cup {row}
      BY <1>5, <2>1, <2>2, <2>3, <2>4 DEF Used
    <2>6. table' \subseteq Used \cup {row}
      BY <1>3, <1>5, <2>4 DEF Apply, Used
    <2>7. QED
      BY <2>5, <2>6 DEF Used
  <1>9. WorkTypes'
    BY <1>3, <1>4, <1>7 DEF WorkInv, WorkTypes
  <1>10. Populating'
    <2>1. place'[0] = "fork" \/ (place'[0] = "populate" /\ rowcount + 1 # Key * Key)
      BY <1>1, <1>2, <1>4 DEF WorkInv, WorkTypes
    <2>2. QED
      BY <1>1, <1>2, <1>3, <2>1 DEF Populating
  <1>11. \A r \in Used' : Taken(r)'
    <2>1. \A r \in Used : Taken(r)'
      BY <1>3 DEF WorkInv, Taken
    <2>2. QED
      BY <1>6, <1>8, <2>1
  <1>12. QED
    BY <1>9, <1>10, <1>11 DEF WorkInv

LEMMA AccessWork ==
    ASSUME Sizes, WorkInv, NEW p \in Procs, Access(p) \/ Delete(p)
    PROVE  WorkInv'
  <1>1. PICK kind \in {"read", "update", "delete"} : \E row : Iterate(p, kind, row)
    <2>1. CASE Access(p)
      <3>1. PICK kind \in {"read", "update"}, row \in AllRows : Iterate(p, kind, row)
        BY <2>1 DEF Access
      <3>2. QED
        BY <3>1
    <2>2. CASE Delete(p)
      <3>1. Iterate(p, "delete", DeleteRow(p, LocalFrom(p, 0, deleteAt[p])))
        BY <2>2 DEF Delete
      <3>2. QED
        BY <3>1
    <2>3. QED
      BY <2>1, <2>2
  <1>2. PICK row : Iterate(p, kind, row)
    BY <1>1
  <1>3. Used' \subseteq Used /\ pending' = [q \in Procs |-> pending'[q]]
    BY <1>1, <1>2, Operated DEF Iterate
  <1>4. UNCHANGED <<insertAt, element, rowcount, place>>
    BY <1>2 DEF Access, Delete, Iterate
  <1>5. place' = [q \in Procs |-> place'[q]]
    BY <1>4 DEF WorkInv, WorkTypes
  <1>6. QED
    BY <1>3, <1>4, <1>5, NothingNew

\* The process has the row in its blocks, and goes on behind it.
LEMMA InsertWork ==
    ASSUME Sizes, WorkInv, NEW p \in Procs, Insert(p)
    PROVE  WorkInv'
  <1>0. PICK n : n = LocalFrom(p, Key, insertAt[p])
    OBVIOUS
  <1>r. PICK row : row = InsertRow(p, n)
    OBVIOUS
  <1>1. /\ Operate(p, "insert", row) /\ UNCHANGED <<element, rowcount, place>>
        /\ insertAt' = [insertAt EXCEPT ![p] = n + 1]
    BY <1>0, <1>r DEF Insert, Iterate
  <1>2. insertAt \in [Procs -> Nat] /\ element[p] \in Elements /\ Key \in Nat
    BY DEF WorkInv, WorkTypes, Sizes
  <1>3. n \in Nat /\ n >= insertAt[p]
    BY <1>0, <1>2, LocalFromForward
  <1>4. Used' \subseteq Used \cup {row} /\ pending' = [q \in Procs |-> pending'[q]]
    BY <1>1, Operated
  <1>5. insertAt' \in [Procs -> Nat] /\ insertAt'[p] = n + 1
        /\ \A q \in Procs : insertAt'[q] >= insertAt[q]
    BY <1>1, <1>2, <1>3
  <1>6. WorkTypes'
    BY <1>1, <1>4, <1>5 DEF WorkInv, WorkTypes
  <1>7. Populating'
    BY <1>1 DEF WorkInv, Populating
  <1>8. Taken(row)'
    <2>1. n \in 0..(insertAt'[p] - 1)
      BY <1>3, <1>5
    <2>2. QED
      BY <1>r, <2>1 DEF Taken
  <1>9. ASSUME NEW r \in Used PROVE Taken(r)'
    <2>1. CASE r[1] < Key
      BY <2>1 DEF Taken
    <2>2. CASE \E q \in Procs : \E m \in 0..(insertAt[q] - 1) : r = InsertRow(q, m)
      <3>1. PICK q \in Procs : \E m \in 0..(insertAt[q] - 1) : r = InsertRow(q, m)
        BY <2>2
      <3>2. PICK m \in 0..(insertAt[q] - 1) : r = InsertRow(q, m)
        BY <3>1
      <3>3. m \in 0..(insertAt'[q] - 1)
        BY <1>2, <1>5
      <3>4. QED
        BY <3>2, <3>3 DEF Taken
    <2>3. QED
      BY <1>9, <2>1, <2>2 DEF WorkInv, Taken
  <1>10. QED
    BY <1>4, <1>6, <1>7, <1>8, <1>9 DEF WorkInv

\* The ends: what is open is committed or rolled back.
LEMMA EndWork ==
    ASSUME Sizes, WorkInv, NEW p \in Procs, Cleanup(p) \/ Leave(p) \/ Abort(p)
    PROVE  WorkInv'
  <1>1. /\ UNCHANGED <<insertAt, element, rowcount>>
        /\ \E where : where \notin {"build", "populate"} /\ GoTo(p, where)
    <2>1. UNCHANGED <<insertAt, element, rowcount>>
      BY DEF Cleanup, Leave, Abort, work
    <2>2. GoTo(p, "gone") \/ GoTo(p, "cleanup")
      BY DEF Cleanup, Leave, Abort
    <2>3. QED
      BY <2>1, <2>2
  <1>2. CASE table' = table /\ pending' = pending
    BY <1>1, <1>2, Elsewhere
  <1>3. CASE /\ table' \subseteq table \cup RowsOf(pending[p], "insert")
             /\ pending' = [pending EXCEPT ![p] = {}]
    BY <1>1, <1>3, Emptied, Goes, NothingNew
  <1>4. QED
    BY <1>2, <1>3 DEF Cleanup, Leave, Abort, Apply

LEMMA ForkWork == ASSUME Sizes, WorkInv, Fork PROVE WorkInv'
  <1>1. 0 \in Procs
    BY DEF Sizes, Procs
  <1>2. UNCHANGED <<table, pending, insertAt, element, rowcount>>
    BY DEF Fork, data, work
  <1>3. PICK n \in 0..(NProc - 1) :
            place' = [p \in Procs |->
                     IF p = 0 THEN IF n < NProc - 1 THEN "gone" ELSE "connect"
                     ELSE IF p <= n THEN "connect" ELSE "unborn"]
    BY DEF Fork
  <1>4. place' = [q \in Procs |-> place'[q]] /\ place'[0] \notin {"build", "populate"}
    BY <1>1, <1>3
  <1>5. Used' = Used /\ pending' = [q \in Procs |-> pending'[q]]
    BY <1>2 DEF Used, WorkInv, WorkTypes
  <1>6. QED
    BY <1>2, <1>4, <1>5, NothingNew

LEMMA ProcessWork ==
    ASSUME Sizes, WorkInv, NEW p \in Procs, Process(p)
    PROVE  WorkInv'
  <1>1. CASE \/ Connect(p) \/ InitRouting(p) \/ ConnectElements(p)
             \/ PrepareOnElements(p) \/ Prepare(p) \/ XactsDone(p) \/ Finish(p)
    <2>1. UNCHANGED <<table, pending, insertAt, element, rowcount>>
      BY <1>1 DEF Connect, InitRouting, ConnectElements, PrepareOnElements,
         Prepare, XactsDone, Finish, data, work
    <2>2. \/ GoTo(p, "prepare") \/ GoTo(p, "routing") \/ GoTo(p, "elements")
          \/ GoTo(p, "barrier") \/ GoTo(p, "finish") \/ GoTo(p, "wait")
          \/ GoTo(p, "cleanup")
      BY <1>1 DEF Connect, InitRouting, ConnectElements, PrepareOnElements,
         Prepare, XactsDone, Finish, GoTo
    <2>3. \E where : where \notin {"build", "populate"} /\ GoTo(p, where)
      BY <2>2
    <2>4. QED
      BY <2>1, <2>3, Elsewhere
  <1>2. CASE Access(p) \/ Delete(p)
    BY <1>2, AccessWork
  <1>3. CASE Insert(p)
    BY <1>3, InsertWork
  <1>4. CASE LockTimeout(p) \/ Cleanup(p) \/ Leave(p)
    BY <1>4, EndWork DEF LockTimeout
  <1>5. QED
    BY <1>1, <1>2, <1>3, <1>4 DEF Process

LEMMA NextWork == Sizes /\ WorkInv /\ [WorkloadNext]_workloadVars => WorkInv'
  <1> SUFFICES ASSUME Sizes, WorkInv, [WorkloadNext]_workloadVars PROVE WorkInv'
    OBVIOUS
  <1>1. 0 \in Procs /\ Children \subseteq Procs
    BY DEF Sizes, Procs, Children
  <1>2. CASE Interrupt \/ Waiting \/ UNCHANGED workloadVars
    <2>1. UNCHANGED <<table, pending, insertAt, element, rowcount, place>>
      BY <1>2 DEF Interrupt, Waiting, workloadVars, data, work
    <2>2. QED
      BY <2>1, Elsewhere
  <1>3. CASE GiveUp \/ ReadyChildren \/ StartChildren \/ Report \/ CheckBuild
    <2>1. UNCHANGED <<table, pending, insertAt, element, rowcount>>
      BY <1>3 DEF GiveUp, ReadyChildren, StartChildren, Report, CheckBuild,
         data, work
    <2>2. \/ GoTo(0, "finish") \/ GoTo(0, "pollset") \/ GoTo(0, "run")
          \/ GoTo(0, "cleanup") \/ GoTo(0, "fork")
      BY <1>3 DEF GiveUp, ReadyChildren, StartChildren, Report, CheckBuild
    <2>3. \E where : where \notin {"build", "populate"} /\ GoTo(0, where)
      BY <2>2
    <2>4. QED
      BY <1>1, <2>1, <2>3, Elsewhere
  <1>4. CASE CreateTable \/ Populate \/ Fork
    BY <1>4, CreateWork, PopulateWork, ForkWork
  <1>5. CASE Process(0)
    BY <1>1, <1>5, ProcessWork
  <1>6. ASSUME NEW c \in Children, Child(c) \/ ConnectWithInfo(c) PROVE WorkInv'
    <2>1. CASE Process(c)
      BY <1>1, <2>1, ProcessWork
    <2>2. CASE AnswerReady(c) \/ SeeGo(c) \/ ConnectWithInfo(c)
      <3>1. UNCHANGED <<table, pending, insertAt, element, rowcount>>
        BY <2>2 DEF AnswerReady, SeeGo, ConnectWithInfo, data, work
      <3>2. \/ GoTo(c, "set") \/ GoTo(c, "run") \/ GoTo(c, "prepare")
            \/ GoTo(c, "routing")
        BY <2>2 DEF AnswerReady, SeeGo, ConnectWithInfo, GoTo
      <3>3. \E where : where \notin {"build", "populate"} /\ GoTo(c, where)
        BY <3>2
      <3>4. QED
        BY <1>1, <3>1, <3>3, Elsewhere
    <2>3. QED
      BY <1>6, <2>1, <2>2 DEF Child
  <1>7. ASSUME NEW p \in Procs, Fail(p) PROVE WorkInv'
    BY <1>7, EndWork DEF Fail
  <1>8. QED
    BY <1>2, <1>3, <1>4, <1>5, <1>6, <1>7 DEF WorkloadNext, Parent

\* The blocks of the processes of tptbm.c never meet, in each mode and mix, in
\* every interleaving, after any earlier populate and whatever call fails: the
\* walk of insert_start and insert_present never leads to a row that is in the
\* table or in an open transaction.
THEOREM InsertsFreshSafe == ASSUME EnoughRows PROVE WorkloadSpec => []InsertsFresh
  <1> Sizes
    BY WorkloadAssumption DEF Sizes, EnoughRows
  <1>1. WorkInv => InsertsFresh
    <2> SUFFICES ASSUME WorkInv, NEW p \in Procs
                 PROVE  LET row == InsertRow(p, LocalFrom(p, Key, insertAt[p]))
                        IN  row \notin table /\
                            \A q \in Procs : row \notin RowsOf(pending[q], "insert")
      BY DEF InsertsFresh
    <2> DEFINE n == LocalFrom(p, Key, insertAt[p])
               row == InsertRow(p, n)
    <2>1. insertAt \in [Procs -> Nat] /\ element[p] \in Elements /\ Key \in Nat
      BY DEF WorkInv, WorkTypes, Sizes
    <2>2. n \in Nat /\ n >= insertAt[p]
      BY <2>1, LocalFromForward
    <2> HIDE DEF n
    <2>3. ~Taken(row)
      <3>1. ~(row[1] < Key)
        BY <2>1, <2>2, RowsBehind
      <3>2. ASSUME NEW q \in Procs, NEW m \in 0..(insertAt[q] - 1), row = InsertRow(q, m)
            PROVE  FALSE
        <4>1. m \in Nat /\ m < insertAt[q]
          BY <2>1
        <4>2. p = q /\ n = m
          BY <2>2, <3>2, <4>1, RowsDiffer
        <4>3. QED
          BY <2>1, <2>2, <4>1, <4>2
      <3>3. QED
        BY <3>1, <3>2 DEF Taken
    <2>4. row \notin Used
      BY <2>3 DEF WorkInv
    <2>5. QED
      BY <2>4 DEF Used, n
  <1>2. QED
    BY <1>1, InitWork, NextWork, PTL DEF WorkloadSpec
=============================================================================
