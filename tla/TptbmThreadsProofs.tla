------------------------- MODULE TptbmThreadsProofs -------------------------
(***************************************************************************)
(* The threads of Tptbm.java execute together and never run into each      *)
(* other's rows, for any number of threads, any size of the table, any     *)
(* mode and whichever calls to the database throw.                         *)
(*                                                                         *)
(* RowsInv names the columns of the table that belong to a thread.         *)
(* TogetherInv says how far each loop of the controller over its threads   *)
(* has come (Loops), what it knows of the threads it has passed, and what  *)
(* a thread that may execute has told and been told (Signals).             *)
(***************************************************************************)
EXTENDS TptbmThreads, TLAPS

-----------------------------------------------------------------------------
(* The rows.                                                               *)

Rows == Nat \X (0..(Key - 1))

\* The rows of a thread: those of every NumThreads-th column after the
\* populated ones, from its own on.
Own(t, row) == \E k \in Nat : row[1] = Key + t + k * NumThreads

OwnRows ==
    \A t \in Threads : /\ Own(t, insertAt[t])
                       /\ \A row \in inserted[t] : Own(t, row)

LEMMA Multiple ==
    ASSUME NEW a \in Nat, NEW n \in Nat, a >= 1
    PROVE  a * n >= n
  <1>1. PICK b \in Nat : a = b + 1
    <2>1. a - 1 \in Nat /\ a = (a - 1) + 1
      OBVIOUS
    <2>2. QED
      BY <2>1
  <1>2. b * n \in Nat /\ a * n = b * n + n
    BY <1>1
  <1>3. QED
    BY <1>2

\* No column belongs to two threads.
LEMMA OneOwner ==
    ASSUME NEW s \in Threads, NEW t \in Threads, NEW row, Own(s, row), Own(t, row)
    PROVE  s = t
  <1>1. NumThreads \in Nat /\ Key \in Nat /\ s \in 0..(NumThreads - 1)
        /\ t \in 0..(NumThreads - 1)
    BY ThreadsAssumption DEF Threads
  <1>2. PICK k \in Nat : row[1] = Key + s + k * NumThreads
    BY DEF Own
  <1>3. PICK m \in Nat : row[1] = Key + t + m * NumThreads
    BY DEF Own
  <1>4. k * NumThreads \in Nat /\ m * NumThreads \in Nat
    BY <1>1
  <1>5. s + k * NumThreads = t + m * NumThreads
    BY <1>1, <1>2, <1>3, <1>4
  <1>6. ASSUME NEW a \in Nat, NEW b \in Nat, a > b
        PROVE  a * NumThreads >= b * NumThreads + NumThreads
    <2>1. a - b \in Nat /\ a - b >= 1
      BY <1>6
    <2>2. (a - b) * NumThreads >= NumThreads
      BY <1>1, <2>1, Multiple
    <2>3. (a - b) * NumThreads = a * NumThreads - b * NumThreads
      BY <1>1
    <2>4. a * NumThreads \in Nat /\ b * NumThreads \in Nat
      BY <1>1
    <2>5. QED
      BY <1>1, <2>2, <2>3, <2>4
  <1>7. CASE k > m
    <2>1. k * NumThreads >= m * NumThreads + NumThreads
      BY <1>6, <1>7
    <2>2. QED
      BY <1>1, <1>4, <1>5, <2>1
  <1>8. CASE m > k
    <2>1. m * NumThreads >= k * NumThreads + NumThreads
      BY <1>6, <1>8
    <2>2. QED
      BY <1>1, <1>4, <1>5, <2>1
  <1>9. CASE k = m
    BY <1>1, <1>4, <1>5, <1>9
  <1>10. QED
    BY <1>7, <1>8, <1>9

\* The next row of a thread is one of its own, whether or not its block of
\* keys is full.
LEMMA AfterOwn ==
    ASSUME NEW t \in Threads, NEW row \in Rows, Own(t, row)
    PROVE  After(row) \in Rows /\ Own(t, After(row))
  <1>1. /\ NumThreads \in Nat /\ Key \in Nat \ {0} /\ t \in Nat
        /\ row[1] \in Nat /\ row[2] \in 0..(Key - 1)
    BY ThreadsAssumption DEF Threads, Rows
  <1>2. CASE BlockFull(row)
    <2>1. After(row) = <<row[1] + NumThreads, 0>>
      BY <1>2 DEF After, OwnNextBlock
    <2>2. PICK k \in Nat : row[1] = Key + t + k * NumThreads
      BY DEF Own
    <2>3. k + 1 \in Nat /\ row[1] + NumThreads = Key + t + (k + 1) * NumThreads
      <3>1. k * NumThreads \in Nat /\ (k + 1) * NumThreads = k * NumThreads + NumThreads
        BY <1>1
      <3>2. QED
        BY <1>1, <2>2, <3>1
    <2>4. QED
      BY <1>1, <2>1, <2>3 DEF Own, Rows
  <1>3. CASE ~BlockFull(row)
    <2>1. After(row) = <<row[1], row[2] + 1>>
      BY <1>3 DEF After
    <2>2. row[2] + 1 \in 0..(Key - 1)
      BY <1>1, <1>3 DEF BlockFull
    <2>3. QED
      BY <1>1, <2>1, <2>2 DEF Own, Rows
  <1>4. QED
    BY <1>2, <1>3

RowTypes == insertAt \in [Threads -> Rows] /\ inserted \in [Threads -> SUBSET Rows]

RowsInv == RowTypes /\ OwnRows

LEMMA InitRows == Init => RowsInv
  <1> SUFFICES ASSUME Init
               PROVE  RowsInv
    OBVIOUS
  <1>1. \A t \in Threads : <<Key + t, 0>> \in Rows /\ Own(t, <<Key + t, 0>>)
    <2> TAKE t \in Threads
    <2>1. Key \in Nat \ {0} /\ t \in Nat /\ NumThreads \in Nat
      BY ThreadsAssumption DEF Threads
    <2>2. <<Key + t, 0>>[1] = Key + t + 0 * NumThreads
      BY <2>1
    <2>3. QED
      BY <2>1, <2>2 DEF Own, Rows
  <1>2. QED
    BY <1>1 DEF Init, RowsInv, RowTypes, OwnRows

LEMMA InsertRows ==
    ASSUME RowsInv, NEW t \in Threads, Insert(t)
    PROVE  RowsInv'
  <1>1. insertAt[t] \in Rows /\ Own(t, insertAt[t])
    BY DEF RowsInv, RowTypes, OwnRows
  <1>2. PICK row \in {insertAt[t], After(insertAt[t])} :
          /\ inserted' = [inserted EXCEPT ![t] = @ \cup {row}]
          /\ insertAt' = [insertAt EXCEPT ![t] = After(row)]
    BY DEF Insert
  <1>3. row \in Rows /\ Own(t, row)
    BY <1>1, <1>2, AfterOwn
  <1>4. After(row) \in Rows /\ Own(t, After(row))
    BY <1>3, AfterOwn
  <1>5. RowTypes'
    BY <1>2, <1>3, <1>4 DEF RowsInv, RowTypes
  <1>6. ASSUME NEW u \in Threads
        PROVE  Own(u, insertAt'[u]) /\ \A r \in inserted'[u] : Own(u, r)
    <2>1. CASE u = t
      <3>1. insertAt'[u] = After(row) /\ inserted'[u] = inserted[t] \cup {row}
        BY <1>2, <2>1 DEF RowsInv, RowTypes
      <3>2. QED
        BY <1>3, <1>4, <2>1, <3>1 DEF RowsInv, OwnRows
    <2>2. CASE u # t
      <3>1. insertAt'[u] = insertAt[u] /\ inserted'[u] = inserted[u]
        BY <1>2, <2>2 DEF RowsInv, RowTypes
      <3>2. QED
        BY <3>1 DEF RowsInv, OwnRows
    <2>3. QED
      BY <2>1, <2>2
  <1>7. QED
    BY <1>5, <1>6 DEF RowsInv, OwnRows, Own

LEMMA NextRows == RowsInv /\ [Next]_vars => RowsInv'
  <1> SUFFICES ASSUME RowsInv, [Next]_vars
               PROVE  RowsInv'
    OBVIOUS
  <1>1. CASE \E t \in Threads : Insert(t)
    BY <1>1, InsertRows
  <1>2. CASE UNCHANGED <<insertAt, inserted>>
    BY <1>2 DEF RowsInv, RowTypes, OwnRows, Own
  <1>3. UNCHANGED <<insertAt, inserted>> \/ \E t \in Threads : Insert(t)
    <2>1. CASE Controller
      BY <2>1
      DEF Controller, ParseArgs, Usage, CheckArgs, Connect, GetDbType, Populate,
          CheckDbParams, Report, StartThread, ReadyYet, AllReady, SetGo, PeriodEnds,
          ThreadError, TimingStart, RampStart, TimingStop, RampStop, DoneYet,
          StopThreads, Cleanup, counters
    <2>2. ASSUME NEW t \in Threads, TptbmThread(t), ~Insert(t)
          PROVE  UNCHANGED <<insertAt, inserted>>
      BY <2>2
      DEF TptbmThread, Initialize, InitializeFails, SetReady, GoYet, EndExecute,
          BeginXact, Operation, ExecuteFails, RoutingFails, SetDone, counters
    <2>3. CASE Stuck \/ UNCHANGED vars
      BY <2>3 DEF Stuck, vars, counters
    <2>4. QED
      BY <2>1, <2>2, <2>3 DEF Next
  <1>4. QED
    BY <1>1, <1>2, <1>3

\* "Each thread insert in a perticular area of the table so they do not run
\* into each other" (Tptbm.java:1500): no two threads ever insert the same
\* row, and none inserts a row that populate() has written.
THEOREM InsertsDisjointSafe == Spec => []InsertsDisjoint
  <1>1. RowsInv => InsertsDisjoint
    <2> SUFFICES ASSUME RowsInv
                 PROVE  InsertsDisjoint
      OBVIOUS
    <2>1. ASSUME NEW s \in Threads, NEW t \in Threads, s # t
          PROVE  inserted[s] \cap inserted[t] = {}
      BY <2>1, OneOwner DEF RowsInv, OwnRows
    <2>2. ASSUME NEW t \in Threads, NEW row \in inserted[t]
          PROVE  row[1] >= Key
      <3>1. PICK k \in Nat : row[1] = Key + t + k * NumThreads
        BY DEF RowsInv, OwnRows, Own
      <3>2. Key \in Nat /\ t \in Nat /\ k * NumThreads \in Nat
        BY ThreadsAssumption DEF Threads
      <3>3. QED
        BY <3>1, <3>2
    <2>3. QED
      BY <2>1, <2>2 DEF InsertsDisjoint
  <1>2. QED
    BY <1>1, InitRows, NextRows, PTL DEF Spec

-----------------------------------------------------------------------------
(* The controller and its threads.                                         *)

Places == {"new", "init", "setReady", "goYet", "execute", "finally", "setDone", "ended"}

\* The controller has not started a thread yet.
Before == {"parseArgs", "checkArgs", "connect", "populate"}

\* It waits for a period to end.
Periods == {"rampUp", "measure", "rampDown"}

\* It has found every thread ready.
AfterReady == {"ready", "go", "timingStart", "rampStart", "timingStop", "rampStop",
               "doneYet", "stopThreads", "cleanup", "report", "dead"} \cup Periods

Types ==
    /\ mode \in Modes
    /\ pc \in [Threads -> Places]
    /\ conn \in [Threads -> {"none", "partial", "open", "closed"}]
    /\ ready \subseteq Threads /\ done \subseteq Threads /\ mustStop \subseteq Threads
    /\ at \in Threads
    /\ mpc \in Before \cup {"start", "readyYet", "exited"} \cup AfterReady

\* The threads the current loop has passed.
Passed == 0..(at - 1)

Loops ==
    /\ mpc \in Before \cup {"ready"} \cup Periods => at = 0
    /\ mpc \in Before => \A t \in Threads : pc[t] = "new"
    /\ mpc = "start" => \A t \in Threads \ Passed : pc[t] = "new"
    /\ mpc = "readyYet" => Passed \subseteq ready
    /\ mpc \in AfterReady => ready = Threads
    /\ mpc = "doneYet" => Passed \subseteq done
    /\ mpc = "stopThreads" => Passed \subseteq mustStop
    /\ mpc \in {"cleanup", "report"} => done = Threads \/ mustStop = Threads

\* What a thread has been told and has told.
Signals ==
    /\ go # {} => ready = Threads
    /\ \A t \in Threads : pc[t] = "execute" => t \in go
    /\ \A t \in done : pc[t] = "ended"
    /\ \A t \in Threads : pc[t] \in {"setReady", "goYet", "execute"} =>
          conn[t] = "open" \/ t \in mustStop

TogetherInv == Types /\ Loops /\ Signals

LEMMA AtType == 0 \in Threads /\ \A i \in Threads : i < NumThreads - 1 => i + 1 \in Threads
  BY ThreadsAssumption DEF Threads

LEMMA InitTogether == Init => TogetherInv
  <1> SUFFICES ASSUME Init
               PROVE  TogetherInv
    OBVIOUS
  <1> USE DEF Init
  <1>1. Types
    BY AtType DEF Types, Places, Before
  <1>2. Loops
    BY DEF Loops, Before, AfterReady, Periods
  <1>3. Signals
    BY DEF Signals
  <1>4. QED
    BY <1>1, <1>2, <1>3 DEF TogetherInv

\* One turn of a loop: after the last thread the loop has passed them all.
LEMMA Turn ==
    ASSUME at \in Threads, NEW next, Advance(next)
    PROVE  \/ /\ mpc' = mpc /\ at' = at + 1 /\ at' \in Threads
              /\ 0..(at' - 1) = Passed \cup {at}
           \/ mpc' = next /\ at' = 0 /\ at' \in Threads /\ Threads = Passed \cup {at}
  <1>1. at \in Nat /\ NumThreads \in Nat \ {0} /\ at <= NumThreads - 1
    BY ThreadsAssumption DEF Threads
  <1>2. CASE at < NumThreads - 1
    BY <1>1, <1>2 DEF Advance, Passed, Threads
  <1>3. CASE ~(at < NumThreads - 1)
    <2>1. at = NumThreads - 1 /\ mpc' = next /\ at' = 0
      BY <1>1, <1>3 DEF Advance
    <2>2. QED
      BY <1>1, <2>1, AtType DEF Passed, Threads
  <1>4. QED
    BY <1>2, <1>3

-----------------------------------------------------------------------------
(* The steps of a thread.  It never goes back to "new", and it only raises *)
(* its flags.                                                              *)

LEMMA ThreadLoops ==
    ASSUME TogetherInv, NEW t \in Threads, pc[t] # "new", NEW p \in Places \ {"new"},
           pc' = pc \/ pc' = [pc EXCEPT ![t] = p],
           UNCHANGED <<mpc, at, mustStop>>, ready \subseteq ready', done \subseteq done',
           ready' \subseteq Threads, done' \subseteq Threads
    PROVE  Loops' /\ pc' \in [Threads -> Places]
  <1>1. pc \in [Threads -> Places] /\ ready \subseteq Threads /\ done \subseteq Threads
    BY DEF TogetherInv, Types
  <1>2. \A u \in Threads : pc[u] = "new" => pc'[u] = "new"
    BY <1>1
  <1>3. pc' \in [Threads -> Places]
    BY <1>1
  <1>4. Passed' = Passed
    BY DEF Passed
  <1>5. (ready = Threads => ready' = Threads) /\ (done = Threads => done' = Threads)
    OBVIOUS
  <1>6. QED
    BY <1>2, <1>3, <1>4, <1>5 DEF TogetherInv, Loops

LEMMA ThreadTogether ==
    ASSUME TogetherInv, NEW t \in Threads, TptbmThread(t)
    PROVE  TogetherInv'
  <1>0. /\ pc \in [Threads -> Places] /\ ready \subseteq Threads /\ done \subseteq Threads
        /\ conn \in [Threads -> {"none", "partial", "open", "closed"}]
        /\ \A u \in done : pc[u] = "ended"
    BY DEF TogetherInv, Types, Signals
  <1>1. UNCHANGED <<mode, mpc, at, mustStop, go>>
    BY DEF TptbmThread, Initialize, InitializeFails, SetReady, GoYet, EndExecute,
           BeginXact, Operation, Insert, ExecuteFails, RoutingFails, SetDone, Fails,
           flags, main
  \* A step that changes neither a flag nor the connection.
  <1>2. ASSUME NEW p \in {"finally", "execute", "goYet"},
               pc' = pc \/ pc' = [pc EXCEPT ![t] = p],
               p = "goYet" => pc[t] = "setReady",
               p = "execute" => pc[t] = "goYet" /\ t \in go,
               pc[t] \in Places \ {"new", "ended"},
               UNCHANGED <<done, conn>>,
               ready \subseteq ready', ready' \subseteq Threads
        PROVE  TogetherInv'
    <2>1. Loops' /\ pc' \in [Threads -> Places]
      BY <1>0, <1>1, <1>2, ThreadLoops DEF Places
    <2>2. Types'
      BY <1>0, <1>1, <1>2, <2>1 DEF TogetherInv, Types
    <2>3. \A u \in Threads : pc'[u] = pc[u] \/ (u = t /\ pc'[u] = p)
      BY <1>0, <1>2
    <2>4. go # {} => ready' = Threads
      BY <1>2 DEF TogetherInv, Signals
    <2>5. \A u \in Threads : pc'[u] = "execute" => u \in go
      BY <1>2, <2>3 DEF TogetherInv, Signals
    <2>6. \A u \in done : pc'[u] = "ended"
      BY <1>0, <1>2, <2>3
    <2>7. \A u \in Threads : pc'[u] \in {"setReady", "goYet", "execute"} =>
            conn[u] = "open" \/ u \in mustStop
      BY <1>2, <2>3 DEF TogetherInv, Signals
    <2>8. Signals'
      BY <1>1, <1>2, <2>4, <2>5, <2>6, <2>7 DEF Signals
    <2>9. QED
      BY <2>1, <2>2, <2>8 DEF TogetherInv
  <1>3. CASE EndExecute(t) \/ BeginXact(t) \/ Operation(t) \/ Insert(t)
             \/ ExecuteFails(t) \/ RoutingFails(t)
    <2>1. /\ pc[t] = "execute" /\ UNCHANGED <<ready, done, conn>>
          /\ pc' = pc \/ pc' = [pc EXCEPT ![t] = "finally"]
      BY <1>3 DEF EndExecute, BeginXact, Operation, Insert, ExecuteFails, RoutingFails,
                  Fails, Thread, Goto, flags
    <2>2. QED
      BY <1>0, <1>2, <2>1 DEF Places
  <1>4. CASE GoYet(t)
    <2>1. /\ pc[t] = "goYet" /\ UNCHANGED <<ready, done, conn>>
          /\ pc' = pc \/ (pc' = [pc EXCEPT ![t] = "execute"] /\ t \in go)
      BY <1>4 DEF GoYet, Thread, Goto, flags
    <2>2. CASE pc' = pc
      BY <1>0, <1>2, <2>1, <2>2 DEF Places
    <2>3. CASE pc' = [pc EXCEPT ![t] = "execute"] /\ t \in go
      BY <1>0, <1>2, <2>1, <2>3 DEF Places
    <2>4. QED
      BY <2>1, <2>2, <2>3
  <1>5. CASE SetReady(t)
    <2>1. ready' = ready \cup {t} /\ UNCHANGED <<done, conn>>
      BY <1>5 DEF SetReady
    <2>2. CASE pc[t] = "setReady" /\ pc' = [pc EXCEPT ![t] = "goYet"]
      BY <1>0, <1>2, <2>1, <2>2 DEF Places
    <2>3. CASE pc[t] = "finally" /\ pc' = [pc EXCEPT ![t] = "setDone"]
      <3>1. Loops' /\ pc' \in [Threads -> Places]
        BY <1>0, <1>1, <2>1, <2>3, ThreadLoops DEF Places
      <3>2. Types'
        BY <1>0, <1>1, <2>1, <3>1 DEF TogetherInv, Types
      <3>3. \A u \in Threads : pc'[u] = pc[u] \/ (u = t /\ pc'[u] = "setDone")
        BY <1>0, <2>3
      <3>4. Signals'
        BY <1>0, <1>1, <2>1, <2>3, <3>3 DEF TogetherInv, Signals
      <3>5. QED
        BY <3>1, <3>2, <3>4 DEF TogetherInv
    <2>4. QED
      BY <1>5, <2>2, <2>3 DEF SetReady, Thread, Goto
  <1>6. CASE Initialize(t) \/ InitializeFails(t)
    <2>1. PICK p \in {"setReady", "finally"}, c \in {"none", "partial", "open"} :
            /\ pc[t] = "init" /\ pc' = [pc EXCEPT ![t] = p] /\ conn' = [conn EXCEPT ![t] = c]
            /\ p = "setReady" => c = "open"
            /\ UNCHANGED <<ready, done>>
      BY <1>6 DEF Initialize, InitializeFails, Fails, Thread, Goto, flags
    <2>2. Loops' /\ pc' \in [Threads -> Places]
      BY <1>0, <1>1, <2>1, ThreadLoops DEF Places
    <2>3. Types'
      BY <1>0, <1>1, <2>1, <2>2 DEF TogetherInv, Types
    <2>4. \A u \in Threads : u # t => pc'[u] = pc[u] /\ conn'[u] = conn[u]
      BY <1>0, <2>1
    <2>5. pc'[t] = p /\ conn'[t] = c
      BY <1>0, <2>1
    <2>6. Signals'
      BY <1>0, <1>1, <2>1, <2>4, <2>5 DEF TogetherInv, Signals
    <2>7. QED
      BY <2>2, <2>3, <2>6 DEF TogetherInv
  <1>7. CASE SetDone(t)
    <2>1. /\ pc[t] = "setDone" /\ pc' = [pc EXCEPT ![t] = "ended"]
          /\ done' = done \cup {t} /\ UNCHANGED <<ready, conn>>
      BY <1>7 DEF SetDone, Thread, Goto
    <2>2. Loops' /\ pc' \in [Threads -> Places]
      BY <1>0, <1>1, <2>1, ThreadLoops DEF Places
    <2>3. Types'
      BY <1>0, <1>1, <2>1, <2>2 DEF TogetherInv, Types
    <2>4. \A u \in Threads : pc'[u] = pc[u] \/ (u = t /\ pc'[u] = "ended")
      BY <1>0, <2>1
    <2>5. pc'[t] = "ended"
      BY <1>0, <2>1
    <2>6. Signals'
      BY <1>0, <1>1, <2>1, <2>4, <2>5 DEF TogetherInv, Signals
    <2>7. QED
      BY <2>2, <2>3, <2>6 DEF TogetherInv
  <1>8. QED
    BY <1>3, <1>4, <1>5, <1>6, <1>7 DEF TptbmThread

-----------------------------------------------------------------------------
(* The steps of the controller.                                            *)

\* The threads, their connections and what they have told stay as they are.
LEMMA ControllerSignals ==
    ASSUME TogetherInv, UNCHANGED <<pc, conn, ready, done>>,
           go' = go \/ ready = Threads, go \subseteq go', mustStop \subseteq mustStop'
    PROVE  Signals'
  BY DEF TogetherInv, Signals

LEMMA ControllerTypes ==
    ASSUME TogetherInv, UNCHANGED <<mode, pc, conn, ready, done>>,
           mustStop' \subseteq Threads, at' \in Threads,
           mpc' \in Before \cup {"start", "readyYet", "exited"} \cup AfterReady
    PROVE  Types'
  BY DEF TogetherInv, Types

\* Before the threads are started.
LEMMA SetUpTogether ==
    ASSUME TogetherInv,
           \/ ParseArgs \/ Usage \/ CheckArgs \/ Connect \/ GetDbType
           \/ Populate \/ CheckDbParams \/ Report
    PROVE  TogetherInv'
  <1>1. /\ UNCHANGED <<mode, pc, conn, ready, done, go, mustStop, at>>
        /\ mpc \in Before \cup {"report"}
        /\ mpc' \in Before \cup {"start", "exited"}
        /\ mpc' \in Before \cup {"start"} => mpc \in Before
    BY DEF ParseArgs, Usage, CheckArgs, Connect, GetDbType, Populate, CheckDbParams,
           Report, GoOn, Exit, flags, Before
  <1>2. Signals' /\ Types'
    BY <1>1, ControllerSignals, ControllerTypes DEF TogetherInv, Types
  <1>3. Loops'
    BY <1>1 DEF TogetherInv, Loops, Before, AfterReady, Periods
  <1>4. QED
    BY <1>2, <1>3 DEF TogetherInv

LEMMA StartTogether ==
    ASSUME TogetherInv, StartThread
    PROVE  TogetherInv'
  <1>1. /\ mpc = "start" /\ pc' = [pc EXCEPT ![at] = "init"] /\ Advance("readyYet")
        /\ UNCHANGED <<mode, conn, ready, done, go, mustStop>>
    BY DEF StartThread, Goto, flags
  <1>2. /\ at \in Threads /\ pc \in [Threads -> Places]
        /\ \A t \in Threads \ Passed : pc[t] = "new"
        /\ at \notin Passed
    <2>1. at \in Threads /\ pc \in [Threads -> Places]
      BY DEF TogetherInv, Types
    <2>2. at \notin Passed
      BY <2>1, ThreadsAssumption DEF Passed, Threads
    <2>3. QED
      BY <1>1, <2>1, <2>2 DEF TogetherInv, Loops
  <1>3. pc[at] = "new"
    BY <1>2
  <1>4. /\ pc' \in [Threads -> Places]
        /\ \A t \in Threads : t # at => pc'[t] = pc[t]
        /\ pc'[at] = "init"
    BY <1>1, <1>2 DEF Places
  <1>5. Signals'
    BY <1>1, <1>2, <1>3, <1>4 DEF TogetherInv, Signals
  <1>6. \/ mpc' = mpc /\ at' \in Threads /\ 0..(at' - 1) = Passed \cup {at}
        \/ mpc' = "readyYet" /\ at' = 0
    BY <1>1, <1>2, Turn
  <1>7. Types'
    BY <1>1, <1>4, <1>6, AtType DEF TogetherInv, Types
  <1>8. Loops'
    <2>1. CASE mpc' = mpc /\ 0..(at' - 1) = Passed \cup {at}
      <3>1. \A t \in Threads \ Passed' : pc'[t] = "new"
        BY <1>2, <1>4, <2>1 DEF Passed
      <3>2. QED
        BY <1>1, <2>1, <3>1 DEF Loops, Before, AfterReady, Periods
    <2>2. CASE mpc' = "readyYet" /\ at' = 0
      <3>1. Passed' = {}
        BY <2>2 DEF Passed
      <3>2. QED
        BY <2>2, <3>1 DEF Loops, Before, AfterReady, Periods
    <2>3. QED
      BY <1>6, <2>1, <2>2
  <1>9. QED
    BY <1>5, <1>7, <1>8 DEF TogetherInv

\* The loops that wait until each thread is ready, or done.
LEMMA ReadyYetTogether ==
    ASSUME TogetherInv, ReadyYet
    PROVE  TogetherInv'
  <1>1. /\ mpc = "readyYet" /\ UNCHANGED <<mode, pc, conn, ready, done, go, mustStop>>
        /\ \/ at \in ready /\ Advance("ready")
           \/ UNCHANGED <<mpc, at>>
    BY DEF ReadyYet, IsReady, flags
  <1>2. at \in Threads /\ ready \subseteq Threads /\ Passed \subseteq ready
    BY <1>1 DEF TogetherInv, Types, Loops
  <1>3. \/ mpc' = mpc /\ at' \in Threads /\ Passed' \subseteq ready
        \/ mpc' = "ready" /\ at' = 0 /\ at' \in Threads /\ ready = Threads
    <2>1. CASE at \in ready /\ Advance("ready")
      <3>1. \/ mpc' = mpc /\ at' \in Threads /\ 0..(at' - 1) = Passed \cup {at}
            \/ mpc' = "ready" /\ at' = 0 /\ at' \in Threads /\ Threads = Passed \cup {at}
        BY <1>2, <2>1, Turn
      <3>2. QED
        BY <1>2, <2>1, <3>1 DEF Passed
    <2>2. CASE UNCHANGED <<mpc, at>>
      BY <1>2, <2>2 DEF Passed
    <2>3. QED
      BY <1>1, <2>1, <2>2
  <1>4. Signals' /\ Types'
    BY <1>1, <1>3, ControllerSignals, ControllerTypes DEF TogetherInv, Types, AfterReady
  <1>5. Loops'
    BY <1>1, <1>3 DEF Loops, Before, AfterReady, Periods
  <1>6. QED
    BY <1>4, <1>5 DEF TogetherInv

LEMMA DoneYetTogether ==
    ASSUME TogetherInv, DoneYet
    PROVE  TogetherInv'
  <1>1. /\ mpc = "doneYet" /\ UNCHANGED <<mode, pc, conn, ready, done, go, mustStop>>
        /\ \/ at \in done /\ Advance("cleanup")
           \/ UNCHANGED <<mpc, at>>
    BY DEF DoneYet, flags
  <1>2. /\ at \in Threads /\ done \subseteq Threads /\ Passed \subseteq done
        /\ ready = Threads
    BY <1>1 DEF TogetherInv, Types, Loops, AfterReady
  <1>3. \/ mpc' = mpc /\ at' \in Threads /\ Passed' \subseteq done
        \/ mpc' = "cleanup" /\ at' \in Threads /\ done = Threads
    <2>1. CASE at \in done /\ Advance("cleanup")
      <3>1. \/ mpc' = mpc /\ at' \in Threads /\ 0..(at' - 1) = Passed \cup {at}
            \/ mpc' = "cleanup" /\ at' \in Threads /\ Threads = Passed \cup {at}
        BY <1>2, <2>1, Turn
      <3>2. QED
        BY <1>2, <2>1, <3>1 DEF Passed
    <2>2. CASE UNCHANGED <<mpc, at>>
      BY <1>2, <2>2 DEF Passed
    <2>3. QED
      BY <1>1, <2>1, <2>2
  <1>4. Signals' /\ Types'
    BY <1>1, <1>3, ControllerSignals, ControllerTypes DEF TogetherInv, Types, AfterReady
  <1>5. Loops'
    BY <1>1, <1>2, <1>3 DEF Loops, Before, AfterReady, Periods
  <1>6. QED
    BY <1>4, <1>5 DEF TogetherInv

LEMMA StopTogether ==
    ASSUME TogetherInv, StopThreads
    PROVE  TogetherInv'
  <1>1. /\ mpc = "stopThreads" /\ UNCHANGED <<mode, pc, conn, ready, done, go>>
        /\ mustStop' = mustStop \cup {at} /\ Advance("cleanup")
    BY DEF StopThreads
  <1>2. /\ at \in Threads /\ mustStop \subseteq Threads /\ Passed \subseteq mustStop
        /\ ready = Threads
    BY <1>1 DEF TogetherInv, Types, Loops, AfterReady
  <1>3. \/ mpc' = mpc /\ at' \in Threads /\ Passed' \subseteq mustStop'
        \/ mpc' = "cleanup" /\ at' \in Threads /\ mustStop' = Threads
    <2>1. \/ mpc' = mpc /\ at' \in Threads /\ 0..(at' - 1) = Passed \cup {at}
          \/ mpc' = "cleanup" /\ at' = 0 /\ at' \in Threads /\ Threads = Passed \cup {at}
      BY <1>1, <1>2, Turn
    <2>2. QED
      BY <1>1, <1>2, <2>1 DEF Passed
  <1>4. mustStop' \subseteq Threads
    BY <1>1, <1>2
  <1>5. Signals' /\ Types'
    BY <1>1, <1>3, <1>4, ControllerSignals, ControllerTypes
    DEF TogetherInv, Types, AfterReady
  <1>6. Loops'
    BY <1>1, <1>2, <1>3 DEF Loops, Before, AfterReady, Periods
  <1>7. QED
    BY <1>5, <1>6 DEF TogetherInv

\* The loops that only tell the threads something, and what is between them.
LEMMA TellTogether ==
    ASSUME TogetherInv,
           \/ AllReady \/ SetGo \/ PeriodEnds \/ ThreadError
           \/ TimingStart \/ RampStart \/ TimingStop \/ RampStop
    PROVE  TogetherInv'
  <1> DEFINE Telling == {"go", "timingStart", "rampStart", "timingStop", "rampStop"}
  <1>1. /\ UNCHANGED <<mode, pc, conn, ready, done, mustStop>> /\ go \subseteq go'
        /\ mpc \in AfterReady
    BY DEF AllReady, SetGo, PeriodEnds, ThreadError, TimingStart, RampStart, TimingStop,
           RampStop, flags, AfterReady, Periods
  <1>2. ready = Threads /\ at \in Threads /\ mustStop \subseteq Threads
    BY <1>1 DEF TogetherInv, Types, Loops
  <1>3. CASE AllReady \/ PeriodEnds \/ ThreadError
    <2>1. at' = at /\ mpc' \in Telling \cup {"stopThreads"}
          /\ mpc \in {"ready"} \cup Periods
      BY <1>3
      DEF AllReady, PeriodEnds, ThreadError, AfterPeriod, Periods
    <2>2. at = 0
      BY <2>1 DEF TogetherInv, Loops
    <2>3. Passed' = {}
      BY <2>1, <2>2 DEF Passed
    <2>4. Loops'
      BY <1>1, <1>2, <2>1, <2>2, <2>3 DEF Loops, Before, AfterReady, Periods
    <2>5. mpc' \in AfterReady
      BY <2>1 DEF AfterReady, Periods
    <2>6. Signals' /\ Types'
      BY <1>1, <1>2, <2>1, <2>5, ControllerSignals, ControllerTypes
    <2>7. QED
      BY <2>4, <2>6 DEF TogetherInv
  <1>4. CASE SetGo \/ TimingStart \/ RampStart \/ TimingStop \/ RampStop
    <2>1. PICK next \in Periods \cup {"doneYet", "timingStop"} : Advance(next)
      <3>1. mode \in {"xact", "sec", "ramp"}
        BY ThreadsAssumption DEF TogetherInv, Types
      <3>2. CASE SetGo
        <4>1. Advance("doneYet") \/ Advance("measure") \/ Advance("rampUp")
          BY <3>1, <3>2 DEF SetGo
        <4>2. QED
          BY <4>1 DEF Periods
      <3>3. CASE TimingStop
        <4>1. Advance("doneYet") \/ Advance("rampDown")
          BY <3>3 DEF TimingStop
        <4>2. QED
          BY <4>1 DEF Periods
      <3>4. CASE TimingStart \/ RampStart \/ RampStop
        BY <3>4 DEF TimingStart, RampStart, RampStop, Periods
      <3>5. QED
        BY <1>4, <3>2, <3>3, <3>4
    <2>2. mpc \in Telling
      BY <1>4 DEF SetGo, TimingStart, RampStart, TimingStop, RampStop
    <2>3. \/ mpc' = mpc /\ at' \in Threads
          \/ mpc' = next /\ at' = 0 /\ at' \in Threads
      BY <1>2, <2>1, Turn
    <2>4. at' = 0 => Passed' = {}
      BY DEF Passed
    <2>5. Loops'
      BY <1>1, <1>2, <2>2, <2>3, <2>4 DEF Loops, Before, AfterReady, Periods
    <2>6. mpc' \in AfterReady /\ at' \in Threads
      BY <2>2, <2>3 DEF AfterReady, Periods
    <2>7. Signals' /\ Types'
      BY <1>1, <1>2, <2>6, ControllerSignals, ControllerTypes
    <2>8. QED
      BY <2>5, <2>7 DEF TogetherInv
  <1>5. QED
    BY <1>3, <1>4

\* Only threads that are done or told to stop are cleaned up.
LEMMA CleanupTogether ==
    ASSUME TogetherInv, Cleanup
    PROVE  TogetherInv'
  <1>1. /\ mpc = "cleanup" /\ UNCHANGED <<mode, pc, ready, done, go, mustStop>>
        /\ conn' = conn \/ conn' = [conn EXCEPT ![at] = "closed"]
        /\ Advance("report") \/ (mpc' = "dead" /\ at' = at)
    BY DEF Cleanup
  <1>2. /\ at \in Threads /\ ready = Threads
        /\ done = Threads \/ mustStop = Threads
        /\ conn \in [Threads -> {"none", "partial", "open", "closed"}]
    BY <1>1 DEF TogetherInv, Types, Loops, AfterReady
  <1>3. mpc' \in {"cleanup", "report", "dead"} /\ at' \in Threads
    BY <1>1, <1>2, Turn
  <1>4. \A t \in Threads : pc[t] \in {"setReady", "goYet", "execute"} =>
          conn'[t] = "open" \/ t \in mustStop
    <2>1. CASE mustStop = Threads
      BY <2>1
    <2>2. CASE done = Threads
      BY <2>2 DEF TogetherInv, Signals
    <2>3. QED
      BY <1>2, <2>1, <2>2
  <1>5. Signals'
    BY <1>1, <1>4 DEF TogetherInv, Signals
  <1>6. conn' \in [Threads -> {"none", "partial", "open", "closed"}]
    BY <1>1, <1>2
  <1>7. Types'
    BY <1>1, <1>3, <1>6 DEF TogetherInv, Types, AfterReady
  <1>8. Loops'
    BY <1>1, <1>2, <1>3 DEF Loops, Before, AfterReady, Periods
  <1>9. QED
    BY <1>5, <1>7, <1>8 DEF TogetherInv

LEMMA NextTogether == TogetherInv /\ [Next]_vars => TogetherInv'
  <1> SUFFICES ASSUME TogetherInv, [Next]_vars
               PROVE  TogetherInv'
    OBVIOUS
  <1>1. CASE Controller
    BY <1>1, SetUpTogether, StartTogether, ReadyYetTogether, DoneYetTogether,
       StopTogether, TellTogether, CleanupTogether DEF Controller
  <1>2. CASE \E t \in Threads : TptbmThread(t)
    BY <1>2, ThreadTogether
  <1>3. CASE Stuck \/ UNCHANGED vars
    <2>1. UNCHANGED <<mode, pc, conn, ready, done, go, mustStop, at, mpc>>
      BY <1>3 DEF Stuck, vars, flags, main
    <2>2. Passed' = Passed
      BY <2>1 DEF Passed
    <2>3. QED
      BY <2>1, <2>2 DEF TogetherInv, Types, Loops, Signals
  <1>4. QED
    BY <1>1, <1>2, <1>3 DEF Next

\* A thread executes transactions only once TptbmThreadController has found
\* all of them ready, and its connection is open unless it was told to stop:
\* start() of the controller and run() of the threads agree on both.
THEOREM ExecuteTogetherSafe == Spec => []ExecuteTogether
  <1>1. TogetherInv => ExecuteTogether
    <2> SUFFICES ASSUME TogetherInv, NEW t \in Threads, pc[t] = "execute"
                 PROVE  ready = Threads /\ (conn[t] = "open" \/ t \in mustStop)
      BY DEF ExecuteTogether
    <2>1. t \in go
      BY DEF TogetherInv, Signals
    <2>2. QED
      BY <2>1 DEF TogetherInv, Signals
  <1>2. QED
    BY <1>1, InitTogether, NextTogether, PTL DEF Spec
=============================================================================
