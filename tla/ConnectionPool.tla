--------------------------- MODULE ConnectionPool ---------------------------
(***************************************************************************)
(* pooltest.cpp: insert threads, and then fetch threads, share the         *)
(* connections of a TTConnectionPool.  Any call to the database may fail,  *)
(* and the database may become invalid, which every connection then says   *)
(* until it is opened again.  An exception that nobody catches in a thread *)
(* aborts the process.                                                     *)
(***************************************************************************)
EXTENDS Integers, FiniteSets

CONSTANTS
    NInserters, NFetchers,   \* -insert, -fetch
    NConn,                   \* -conn
    Inserts,                 \* -iter: rows of an insert thread
    LoopCount,               \* loopCount of insertTestThread
    Iterations,              \* bound: fetches of a thread (1000000)
    MaxInvalid               \* bound: how often the database becomes invalid

ASSUME PoolAssumption ==
    /\ NInserters \in Nat \ {0} /\ NFetchers \in Nat \ {0}
    /\ NConn \in Nat \ {0} /\ Inserts \in Nat \ {0}
    /\ LoopCount \in Nat /\ Iterations \in Nat /\ MaxInvalid \in Nat

Inserters == 0..(NInserters - 1)
Fetchers  == NInserters..(NInserters + NFetchers - 1)
Threads   == Inserters \cup Fetchers
Conns     == 1..NConn
Ids       == 0..(NInserters * Inserts - 1)

NoConn == 0

VARIABLES
    pool,        \* connections added to the pool
    free,        \* those that are in it
    cP,          \* the connection of each thread
    invalid,     \* connections whose database was invalidated
    losses,      \* how often that happened
    tpc,         \* of each thread
    iter,        \* loop counter of each thread
    insertNum,   \* insert_num
    rows,        \* rows of tbl
    failed,      \* history: ids whose insert has failed
    stop,        \* StopRequested()
    seen,        \* history: a thread or main has seen it
    mpc, tid     \* main, and its loop variable

places   == <<pool, free, cP>>
table    == <<rows, failed>>
main     == <<mpc, tid>>
poolVars == <<places, invalid, losses, tpc, iter, insertNum, table, stop, seen, main>>

PoolInit ==
    /\ pool = {} /\ free = {}
    /\ cP = [t \in Threads |-> NoConn]
    /\ invalid = {} /\ losses = 0
    /\ tpc = [t \in Threads |-> "none"]
    /\ iter = [t \in Threads |-> 0]
    /\ insertNum = [t \in Inserters |-> t * Inserts]
    /\ rows = {} /\ failed = {}
    /\ stop = FALSE /\ seen = FALSE
    /\ mpc = "args" /\ tid = 0

Alive == mpc \notin {"exited", "aborted"}

Goto(t, place) == tpc' = [tpc EXCEPT ![t] = place]

\* Exit, abort and crash end every thread.
Abort == mpc' = "aborted" /\ UNCHANGED tid

-----------------------------------------------------------------------------
(* The threads.                                                            *)

SeesStop(t) ==
    /\ Alive /\ tpc[t] = "loop" /\ stop
    /\ Goto(t, "ended") /\ seen' = TRUE
    /\ UNCHANGED <<places, invalid, losses, iter, insertNum, table, stop, main>>

LastInsert(t) == t * Inserts + Inserts - 1

WorkLeft(t) == IF t \in Inserters THEN insertNum[t] <= LastInsert(t)
               ELSE iter[t] < Iterations

WorkDone(t) ==
    /\ Alive /\ tpc[t] = "loop" /\ ~WorkLeft(t)
    /\ Goto(t, "ended")
    /\ UNCHANGED <<places, invalid, losses, iter, insertNum, table, stop, seen, main>>

\* getConnection(timeout); if it returns null the thread sleeps and tries
\* again, which changes nothing.
GetConnection(t) ==
    /\ Alive /\ tpc[t] = "loop" /\ WorkLeft(t) /\ ~stop
    /\ \E c \in free :
        /\ cP' = [cP EXCEPT ![t] = c]
        /\ free' = free \ {c}
    /\ iter' = IF t \in Inserters THEN [iter EXCEPT ![t] = 0] ELSE iter
    /\ Goto(t, "use")
    /\ UNCHANGED <<pool, invalid, losses, insertNum, table, stop, seen, main>>

\* for (i = 0; i <= loopCount; i++), left when the last row is inserted.
InsertLeft(t) == iter[t] <= LoopCount /\ insertNum[t] <= LastInsert(t)

\* insert_num is incremented before the call, whatever becomes of it.
TakeRow(t) ==
    /\ Alive /\ t \in Inserters /\ tpc[t] = "use" /\ InsertLeft(t)
    /\ insertNum' = [insertNum EXCEPT ![t] = @ + 1]
    /\ iter' = [iter EXCEPT ![t] = @ + 1]

InsertRow(t) ==
    /\ TakeRow(t) /\ cP[t] \notin invalid
    /\ rows' = rows \cup {insertNum[t]}
    /\ UNCHANGED <<places, invalid, losses, tpc, failed, stop, seen, main>>

InsertRowFails(t) ==
    /\ TakeRow(t)
    /\ failed' = failed \cup {insertNum[t]}
    /\ Goto(t, IF cP[t] \in invalid THEN "handleInvalid" ELSE "use")
    /\ UNCHANGED <<places, invalid, losses, rows, stop, seen, main>>

\* Roll back and disconnect; it throws on what fails.
HandleInvalidDatabase(t) ==
    /\ Alive /\ tpc[t] = "handleInvalid"
    /\ \/ Goto(t, "password") /\ UNCHANGED main
       \/ Abort /\ UNCHANGED tpc
    /\ UNCHANGED <<places, invalid, losses, iter, insertNum, table, stop, seen>>

\* getPassword: the thread reads the terminal.  SIGINT is blocked in every
\* thread but the one that waits for it: only the user ends the read, who
\* need not do so.
TypesPassword(t) ==
    /\ Alive /\ tpc[t] = "password"
    /\ Goto(t, "reconnect")
    /\ UNCHANGED <<places, invalid, losses, iter, insertNum, table, stop, seen, main>>

\* Connect again, with a password that may be wrong.
Reconnect(t) ==
    /\ Alive /\ tpc[t] = "reconnect"
    /\ \/ Goto(t, "use") /\ invalid' = invalid \ {cP[t]} /\ UNCHANGED main
       \/ Abort /\ UNCHANGED <<tpc, invalid>>
    /\ UNCHANGED <<places, losses, iter, insertNum, table, stop, seen>>

\* The row is found or not, or the call fails, also on an invalid
\* connection: the exception ends in fetchTestThread.
FetchRow(t) ==
    /\ Alive /\ t \in Fetchers /\ tpc[t] = "use"
    /\ Goto(t, "free")
    /\ iter' = [iter EXCEPT ![t] = @ + 1]
    /\ UNCHANGED <<places, invalid, losses, insertNum, table, stop, seen, main>>

\* Mutant: after an error the connection is not given back.
FreeAfterSuccess(t) ==
    IF \E id \in failed : id \div Inserts = t THEN free ELSE free \cup {cP[t]}

FreeAgain(t) == free \cup {cP[t]}

FreeConnection(t) ==
    /\ Alive
    /\ tpc[t] = "free" \/ (t \in Inserters /\ tpc[t] = "use" /\ ~InsertLeft(t))
    /\ free' = FreeAgain(t)
    /\ cP' = [cP EXCEPT ![t] = NoConn]
    /\ Goto(t, "loop")
    /\ UNCHANGED <<pool, invalid, losses, iter, insertNum, table, stop, seen, main>>

PoolThread(t) ==
    \/ SeesStop(t) \/ WorkDone(t) \/ GetConnection(t)
    \/ InsertRow(t) \/ InsertRowFails(t) \/ HandleInvalidDatabase(t) \/ Reconnect(t)
    \/ FetchRow(t) \/ FreeConnection(t)

-----------------------------------------------------------------------------
(* main.                                                                   *)

\* A parameter or signal error exits; so does a connection that fails, and a
\* table that can be neither created nor emptied aborts.
Startup ==
    /\ mpc = "args"
    /\ mpc' = "password" \/ mpc' = "exited"
    /\ UNCHANGED <<places, invalid, losses, tpc, iter, insertNum, table, stop, seen, tid>>

\* main asks for the password, with SIGINT blocked as well.
TypesFirstPassword ==
    /\ mpc = "password"
    /\ mpc' = "table"
    /\ UNCHANGED <<places, invalid, losses, tpc, iter, insertNum, table, stop, seen, tid>>

CreateTable ==
    /\ mpc = "table"
    /\ mpc' \in {"pool", "exited", "aborted"}
    /\ UNCHANGED <<places, invalid, losses, tpc, iter, insertNum, table, stop, seen, tid>>

\* The first connection that cannot be added ends the loop.  ConnectAll()
\* may throw.
ConnectAll ==
    /\ mpc = "pool"
    /\ \/ \E n \in 0..NConn : pool' = 1..n /\ free' = 1..n
          /\ mpc' = "spawn" /\ UNCHANGED tid
       \/ Abort /\ UNCHANGED <<pool, free>>
    /\ UNCHANGED <<cP, invalid, losses, tpc, iter, insertNum, table, stop, seen>>

Spawn(t, next, last) ==
    /\ tid = t
    /\ Goto(t, "loop")
    /\ IF t = last THEN mpc' = next /\ tid' = IF next = "join" THEN 0 ELSE NInserters
       ELSE tid' = t + 1 /\ UNCHANGED mpc
    /\ UNCHANGED <<places, invalid, losses, iter, insertNum, table, stop, seen>>

SpawnInserter ==
    /\ mpc = "spawn"
    /\ \E t \in Inserters : Spawn(t, "join", NInserters - 1)

SpawnFetcher ==
    /\ mpc = "spawnFetch" /\ ~stop
    /\ \E t \in Fetchers : Spawn(t, "joinFetch", NInserters + NFetchers - 1)

\* A thread that cannot be created, and a stop request, end the loop early.
SpawnEndsEarly ==
    /\ mpc \in {"spawn", "spawnFetch"}
    /\ IF mpc = "spawn" THEN mpc' = "join" /\ tid' = 0
                        ELSE mpc' = "joinFetch" /\ tid' = NInserters
    /\ seen' = (seen \/ stop)
    /\ UNCHANGED <<places, invalid, losses, tpc, iter, insertNum, table, stop>>

HasEnded(t) == tpc[t] = "ended"

Joined ==
    CASE mpc = "join" /\ tid < NInserters - 1 -> tid' = tid + 1 /\ UNCHANGED mpc
      [] mpc = "join" /\ tid = NInserters - 1 ->
            mpc' = "spawnFetch" /\ tid' = NInserters
      [] mpc = "joinFetch" /\ tid < NInserters + NFetchers - 1 ->
            tid' = tid + 1 /\ UNCHANGED mpc
      [] OTHER -> mpc' = "disconnect" /\ UNCHANGED tid

Join ==
    /\ mpc \in {"join", "joinFetch"} /\ HasEnded(tid)
    /\ Joined
    /\ UNCHANGED <<places, invalid, losses, tpc, iter, insertNum, table, stop, seen>>

\* tid[i] of a thread that was not created is an uninitialised value: the
\* join reports an error, or crashes.
JoinUninitialized ==
    /\ mpc \in {"join", "joinFetch"} /\ tpc[tid] = "none"
    /\ Joined \/ Abort
    /\ UNCHANGED <<places, invalid, losses, tpc, iter, insertNum, table, stop, seen>>

DisconnectAll ==
    /\ mpc = "disconnect"
    /\ mpc' = "exited" \/ mpc' = "aborted"
    /\ UNCHANGED <<places, invalid, losses, tpc, iter, insertNum, table, stop, seen, tid>>

Main ==
    \/ Startup \/ CreateTable \/ ConnectAll \/ SpawnInserter \/ SpawnFetcher
    \/ SpawnEndsEarly \/ Join \/ JoinUninitialized \/ DisconnectAll

\* Ctrl-C: sigwaitThread.
RequestStop ==
    /\ Alive /\ mpc # "args" /\ ~stop
    /\ stop' = TRUE
    /\ UNCHANGED <<places, invalid, losses, tpc, iter, insertNum, table, seen, main>>

\* The database becomes invalid for every connection.
Invalidate ==
    /\ Alive /\ losses < MaxInvalid
    /\ invalid' = pool /\ losses' = losses + 1
    /\ UNCHANGED <<places, tpc, iter, insertNum, table, stop, seen, main>>

PoolOver == ~Alive /\ UNCHANGED poolVars

\* No connection could be added: the threads try until a stop request.
NoConnections ==
    /\ pool = {} /\ mpc = "join" /\ ~stop
    /\ UNCHANGED poolVars

User == TypesFirstPassword \/ \E t \in Threads : TypesPassword(t)

PoolNext == Main \/ (\E t \in Threads : PoolThread(t)) \/ User \/ RequestStop \/ Invalidate
        \/ PoolOver \/ NoConnections

\* The operating system runs every thread; nothing makes the user answer.
PoolSpec     == PoolInit /\ [][PoolNext]_poolVars
FairPoolSpec == PoolSpec /\ WF_poolVars(Main) /\ \A t \in Threads : WF_poolVars(PoolThread(t))

-----------------------------------------------------------------------------
(* Properties.                                                             *)

\* Every variable has its type.
TypeOK ==
    /\ pool \subseteq Conns /\ free \subseteq pool /\ invalid \subseteq pool
    /\ cP \in [Threads -> pool \cup {NoConn}]
    /\ losses \in 0..MaxInvalid
    /\ tpc \in [Threads -> {"none", "loop", "use", "handleInvalid", "password",
                          "reconnect", "free", "ended"}]
    /\ iter \in [Threads -> Nat]
    /\ \A t \in Inserters : insertNum[t] \in (t * Inserts)..((t + 1) * Inserts)
    /\ rows \subseteq Ids /\ failed \subseteq Ids
    /\ stop \in BOOLEAN /\ seen \in BOOLEAN
    /\ mpc \in {"args", "password", "table", "pool", "spawn", "join", "spawnFetch",
                "joinFetch", "disconnect", "exited", "aborted"}
    /\ tid \in Threads

\* Whatever fails while a thread works with a connection, the connection is
\* in the pool or with one thread; and all are back when main disconnects
\* them.
AllReturned ==
    /\ \A c \in pool : IF c \in free THEN \A t \in Threads : cP[t] # c
                       ELSE Cardinality({t \in Threads : cP[t] = c}) = 1
    /\ mpc = "disconnect" => free = pool

\* "Each thread (making inserts) inserted 'inserts' rows ... thus, we can
\* query ids in the range [0..(inserts*inserters)-1]" (pooltest.cpp:277):
\* but for the inserts that failed, if no thread was stopped.
RowsThere ==
    mpc = "spawnFetch" /\ ~seen /\ (\A t \in Inserters : tpc[t] = "ended") =>
        rows \cup failed = Ids

\* The user is asked for a password.
Asking == mpc = "password" \/ \E t \in Threads : tpc[t] = "password"

\* "Subsequent calls to StopRequested() ... stop the execution loops"
\* (pooltest.cpp:523): Ctrl-C ends the process.  Not so while a password is
\* asked for.
StopEnds == stop ~> ~Alive

\* After Ctrl-C the process ends, whatever the threads were waiting for, and
\* the insert threads end of themselves if there is a connection to share,
\* unless the user is asked for a password.
Ends ==
    /\ stop ~> (~Alive \/ Asking)
    /\ (mpc = "join" /\ pool # {}) ~> (mpc # "join" \/ Asking)
=============================================================================
