---------------------------- MODULE TptbmThreads ----------------------------
(***************************************************************************)
(* Tptbm.java: the benchmark of tptbm.c with one thread per connection.    *)
(* TptbmThreadController starts the threads, waits until each is ready,    *)
(* lets all of them go, times them and waits until each is done, through   *)
(* the monitors of the TptbmThread objects (wait and notify).  Any call to *)
(* the database may throw an SQLException.                                 *)
(*                                                                         *)
(* Flags of the threads are sets of threads.                               *)
(***************************************************************************)
EXTENDS Integers, FiniteSets

CONSTANTS
    NumThreads,    \* -threads
    Key,           \* -key: rows 0..Key-1 x 0..Key-1 are populated
    Xacts,         \* -xact
    OpsInXact,     \* operations of a transaction
    Modes,         \* "xact", "sec" (-ramp 0), "ramp"
    MaxCount       \* bound: transactions of a thread in duration mode

ASSUME ThreadsAssumption ==
    /\ NumThreads \in Nat \ {0} /\ Key \in Nat \ {0}
    /\ Xacts \in Nat \ {0} /\ OpsInXact \in Nat \ {0}
    /\ Modes \subseteq {"xact", "sec", "ramp"}
    /\ MaxCount \in Nat /\ Xacts <= MaxCount

Threads == 0..(NumThreads - 1)

VARIABLES
    mode,
    pc,            \* of each thread
    waiters,       \* wait set of each monitor: "thread", "controller"
    error, mustStop, go, ready, done,
    timing, doneTiming, doneRamping,
    totalXacts,
    jj,            \* operations left in the transaction
    insertAt,      \* <<insert_start, insert_present>>
    inserted,      \* rows each thread has inserted
    conn,          \* "none", "partial": statements missing, "open", "closed"
    mpc,           \* the main thread, and the controller it runs
    at,            \* the thread its loop is at
    status         \* exit status, -1 before

flags    == <<error, mustStop, go, ready, done>>
clocks   == <<timing, doneTiming, doneRamping>>
counters == <<totalXacts, jj, insertAt, inserted>>
main     == <<mpc, at, status>>
vars     == <<mode, pc, waiters, flags, clocks, counters, conn, main>>

Init ==
    /\ mode \in Modes
    /\ pc = [t \in Threads |-> "new"]
    /\ waiters = [t \in Threads |-> {}]
    /\ error = {} /\ mustStop = {} /\ go = {} /\ ready = {} /\ done = {}
    /\ timing = {} /\ doneTiming = {} /\ doneRamping = {}
    /\ totalXacts = [t \in Threads |-> 0]
    /\ jj = [t \in Threads |-> 0]
    /\ insertAt = [t \in Threads |-> <<Key + t, 0>>]
    /\ inserted = [t \in Threads |-> {}]
    /\ conn = [t \in Threads |-> "none"]
    /\ mpc = "parseArgs" /\ at = 0 /\ status = -1

\* System.exit, or the last thread has ended.
Down == mpc = "exited" \/ (mpc = "dead" /\ \A t \in Threads : pc[t] = "ended")

\* notify() wakes one of the threads that wait on the monitor, if any.
Notify(t) ==
    \/ waiters[t] = {} /\ UNCHANGED waiters
    \/ \E w \in waiters[t] : waiters' = [waiters EXCEPT ![t] = @ \ {w}]

Wait(t, who) == waiters' = [waiters EXCEPT ![t] = @ \cup {who}]

-----------------------------------------------------------------------------
(* TptbmThread.                                                            *)

Thread(t, place) == ~Down /\ pc[t] = place
Goto(t, place)   == pc' = [pc EXCEPT ![t] = place]

\* The exception leaves run() for the finally block.
Fails(t) == error' = error \cup {t} /\ Goto(t, "finally")

\* initialize: connect, prepare, commit.
Initialize(t) ==
    /\ Thread(t, "init")
    /\ conn' = [conn EXCEPT ![t] = "open"]
    /\ Goto(t, "setReady")
    /\ UNCHANGED <<mode, waiters, flags, clocks, counters, main>>

InitializeFails(t) ==
    /\ Thread(t, "init")
    /\ \E c \in {"none", "partial", "open"} : conn' = [conn EXCEPT ![t] = c]
    /\ Fails(t)
    /\ UNCHANGED <<mode, waiters, mustStop, go, ready, done, clocks, counters, main>>

\* In run(), and again in its finally block.
SetReady(t) ==
    /\ \/ Thread(t, "setReady") /\ Goto(t, "goYet")
       \/ Thread(t, "finally") /\ Goto(t, "setDone")
    /\ ready' = ready \cup {t}
    /\ Notify(t)
    /\ UNCHANGED <<mode, error, mustStop, go, done, clocks, counters, conn, main>>

GoYet(t) ==
    /\ Thread(t, "goYet") /\ "thread" \notin waiters[t]
    /\ IF t \in go THEN Goto(t, "execute") /\ UNCHANGED waiters
                   ELSE Wait(t, "thread") /\ UNCHANGED pc
    /\ UNCHANGED <<mode, flags, clocks, counters, conn, main>>

RunFinished(t) ==
    \/ t \in error \cup mustStop
    \/ IF mode = "xact" THEN totalXacts[t] >= Xacts
       ELSE t \in doneTiming /\ t \in doneRamping

\* runFinished() is asked between two transactions only.
EndExecute(t) ==
    /\ Thread(t, "execute") /\ jj[t] = 0 /\ RunFinished(t)
    /\ Goto(t, "finally")
    /\ UNCHANGED <<mode, waiters, flags, clocks, counters, conn, main>>

BeginXact(t) ==
    /\ Thread(t, "execute") /\ jj[t] = 0 /\ ~RunFinished(t)
    /\ totalXacts[t] < MaxCount
    /\ jj' = [jj EXCEPT ![t] = OpsInXact]
    /\ UNCHANGED <<mode, pc, waiters, flags, clocks, totalXacts, insertAt,
                   inserted, conn, main>>

\* The last operation commits the transaction, and it is counted.
OperationDone(t) ==
    /\ jj' = [jj EXCEPT ![t] = @ - 1]
    /\ totalXacts' = IF jj[t] > 1 THEN totalXacts
                     ELSE [totalXacts EXCEPT ![t] = @ + 1]

\* A read, an update or a delete.
Operation(t) ==
    /\ Thread(t, "execute") /\ jj[t] > 0 /\ conn[t] = "open"
    /\ OperationDone(t)
    /\ UNCHANGED <<mode, pc, waiters, flags, clocks, insertAt, inserted,
                   conn, main>>

\* Mutant: a thread goes on with the next block of keys.
NextBlock(start) == start + 1

\* The next block of keys of the same thread.
OwnNextBlock(start) == start + NumThreads

BlockFull(row) == row[2] + 1 = Key

After(row) == IF BlockFull(row) THEN <<OwnNextBlock(row[1]), 0>>
              ELSE <<row[1], row[2] + 1>>

\* -insert and -multiop are refused in duration mode.  '-scaleout local'
\* passes over the keys of other replica sets: here over one at most.
Insert(t) ==
    /\ Thread(t, "execute") /\ jj[t] > 0 /\ conn[t] = "open" /\ mode = "xact"
    /\ \E row \in {insertAt[t], After(insertAt[t])} :
        /\ inserted' = [inserted EXCEPT ![t] = @ \cup {row}]
        /\ insertAt' = [insertAt EXCEPT ![t] = After(row)]
    /\ OperationDone(t)
    /\ UNCHANGED <<mode, pc, waiters, flags, clocks, conn, main>>

\* Also what every call on a closed connection comes to.
ExecuteFails(t) ==
    /\ Thread(t, "execute") /\ jj[t] > 0
    /\ Fails(t)
    /\ jj' = [jj EXCEPT ![t] = 0]
    /\ UNCHANGED <<mode, waiters, mustStop, go, ready, done, clocks, totalXacts,
                   insertAt, inserted, conn, main>>

\* Replica set ids with a gap: an unchecked exception leaves run(), and no
\* error is recorded.
RoutingFails(t) ==
    /\ Thread(t, "execute") /\ jj[t] > 0
    /\ Goto(t, "finally")
    /\ jj' = [jj EXCEPT ![t] = 0]
    /\ UNCHANGED <<mode, waiters, flags, clocks, totalXacts, insertAt, inserted,
                   conn, main>>

SetDone(t) ==
    /\ Thread(t, "setDone")
    /\ done' = done \cup {t}
    /\ Notify(t)
    /\ Goto(t, "ended")
    /\ UNCHANGED <<mode, error, mustStop, go, ready, clocks, counters, conn, main>>

TptbmThread(t) ==
    \/ Initialize(t) \/ InitializeFails(t) \/ SetReady(t) \/ GoYet(t)
    \/ EndExecute(t) \/ BeginXact(t) \/ Operation(t) \/ Insert(t)
    \/ ExecuteFails(t) \/ RoutingFails(t) \/ SetDone(t)

-----------------------------------------------------------------------------
(* main().                                                                 *)

Exit(code)  == mpc' = "exited" /\ status' = code
GoOn(place) == mpc' = place /\ UNCHANGED status

ParseArgs ==
    /\ mpc = "parseArgs"
    /\ GoOn("checkArgs")
    /\ UNCHANGED <<mode, pc, waiters, flags, clocks, counters, conn, at>>

\* A wrong option, and -help.
Usage ==
    /\ mpc = "parseArgs"
    /\ Exit(1)
    /\ UNCHANGED <<mode, pc, waiters, flags, clocks, counters, conn, at>>

\* Options that do not go together.
CheckArgs ==
    /\ mpc = "checkArgs"
    /\ GoOn("connect") \/ Exit(1)
    /\ UNCHANGED <<mode, pc, waiters, flags, clocks, counters, conn, at>>

Connect ==
    /\ mpc = "connect"
    /\ GoOn("populate") \/ Exit(2)
    /\ UNCHANGED <<mode, pc, waiters, flags, clocks, counters, conn, at>>

\* -scaleout on a classic database, or its type cannot be read.
GetDbType ==
    /\ mpc = "connect"
    /\ Exit(1)
    /\ UNCHANGED <<mode, pc, waiters, flags, clocks, counters, conn, at>>

\* The table is built; with -build the program ends here.
Populate ==
    /\ mpc = "populate"
    /\ GoOn("start") \/ Exit(0) \/ Exit(2)
    /\ UNCHANGED <<mode, pc, waiters, flags, clocks, counters, conn, at>>

\* -nobuild: the parameters that the table was built with are read.
CheckDbParams ==
    /\ mpc = "populate"
    /\ GoOn("start") \/ Exit(2)
    /\ UNCHANGED <<mode, pc, waiters, flags, clocks, counters, conn, at>>

\* Exit status 0, also after an error.
Report ==
    /\ mpc = "report"
    /\ Exit(0) \/ Exit(2)
    /\ UNCHANGED <<mode, pc, waiters, flags, clocks, counters, conn, at>>

-----------------------------------------------------------------------------
(* TptbmThreadController.start().                                          *)

\* One turn of a loop over the threads; after the last the controller is at
\* 'next'.
Advance(next) ==
    IF at < NumThreads - 1 THEN at' = at + 1 /\ UNCHANGED mpc
                           ELSE at' = 0 /\ mpc' = next

StartThread ==
    /\ mpc = "start"
    /\ Goto(at, "init")
    /\ Advance("readyYet")
    /\ UNCHANGED <<mode, waiters, flags, clocks, counters, conn, status>>

\* Mutant: one thread that is ready is enough.
AnyReady == ready # {}

IsReady == at \in ready

ReadyYet ==
    /\ mpc = "readyYet" /\ "controller" \notin waiters[at]
    /\ IF IsReady THEN Advance("ready") /\ UNCHANGED waiters
                  ELSE Wait(at, "controller") /\ UNCHANGED <<mpc, at>>
    /\ UNCHANGED <<mode, pc, flags, clocks, counters, conn, status>>

AllReady ==
    /\ mpc = "ready"
    /\ mpc' = IF error # {} THEN "stopThreads" ELSE "go"
    /\ UNCHANGED <<mode, pc, waiters, flags, clocks, counters, conn, at, status>>

\* rampStart() or timingStart(), and setGo().
SetGo ==
    /\ mpc = "go"
    /\ doneRamping' = CASE mode = "sec"  -> doneRamping \cup {at}
                        [] mode = "ramp" -> doneRamping \ {at}
                        [] mode = "xact" -> doneRamping
    /\ timing' = IF mode = "sec" THEN timing \cup {at} ELSE timing
    /\ go' = go \cup {at}
    /\ Notify(at)
    /\ Advance(CASE mode = "xact" -> "doneYet"
                 [] mode = "sec"  -> "measure"
                 [] mode = "ramp" -> "rampUp")
    /\ UNCHANGED <<mode, pc, error, mustStop, ready, done, doneTiming, counters, conn, status>>

\* The end of a period; the loop that waits for it looks for errors.
AfterPeriod == CASE mpc = "rampUp"   -> "timingStart"
                 [] mpc = "measure"  -> IF mode = "ramp" THEN "rampStart"
                                        ELSE "timingStop"
                 [] mpc = "rampDown" -> "rampStop"

PeriodEnds ==
    /\ mpc \in {"rampUp", "measure", "rampDown"}
    /\ mpc' = AfterPeriod
    /\ UNCHANGED <<mode, pc, waiters, flags, clocks, counters, conn, at, status>>

ThreadError ==
    /\ mpc \in {"rampUp", "measure", "rampDown"} /\ error # {}
    /\ mpc' = "stopThreads"
    /\ UNCHANGED <<mode, pc, waiters, flags, clocks, counters, conn, at, status>>

TimingStart ==
    /\ mpc = "timingStart"
    /\ timing' = timing \cup {at}
    /\ doneTiming' = doneTiming \ {at}
    /\ doneRamping' = doneRamping \cup {at}
    /\ Advance("measure")
    /\ UNCHANGED <<mode, pc, waiters, flags, counters, conn, status>>

RampStart ==
    /\ mpc = "rampStart"
    /\ doneRamping' = doneRamping \ {at}
    /\ Advance("timingStop")
    /\ UNCHANGED <<mode, pc, waiters, flags, timing, doneTiming, counters, conn, status>>

TimingStop ==
    /\ mpc = "timingStop"
    /\ timing' = timing \ {at}
    /\ doneTiming' = doneTiming \cup {at}
    /\ Advance(IF mode = "ramp" THEN "rampDown" ELSE "doneYet")
    /\ UNCHANGED <<mode, pc, waiters, flags, doneRamping, counters, conn, status>>

\* Mutant: the last period never ends for the threads.
StillRamping == doneRamping

RampedDown == doneRamping \cup {at}

RampStop ==
    /\ mpc = "rampStop"
    /\ doneRamping' = RampedDown
    /\ Advance("doneYet")
    /\ UNCHANGED <<mode, pc, waiters, flags, timing, doneTiming, counters, conn, status>>

DoneYet ==
    /\ mpc = "doneYet" /\ "controller" \notin waiters[at]
    /\ IF at \in done THEN Advance("cleanup") /\ UNCHANGED waiters
                      ELSE Wait(at, "controller") /\ UNCHANGED <<mpc, at>>
    /\ UNCHANGED <<mode, pc, flags, clocks, counters, conn, status>>

StopThreads ==
    /\ mpc = "stopThreads"
    /\ mustStop' = mustStop \cup {at}
    /\ Advance("cleanup")
    /\ UNCHANGED <<mode, pc, waiters, error, go, ready, done, clocks, counters, conn, status>>

\* cleanup() of a thread, which may still be running: commit, and close.  A
\* connection or a statement that is null ends the main thread.
Cleanup ==
    /\ mpc = "cleanup"
    /\ \/ conn[at] = "open" /\ conn' = [conn EXCEPT ![at] = "closed"]
          /\ Advance("report") /\ UNCHANGED error
       \/ conn[at] # "none" /\ error' = error \cup {at}
          /\ Advance("report") /\ UNCHANGED conn
       \/ conn[at] \in {"none", "partial"} /\ mpc' = "dead"
          /\ UNCHANGED <<conn, error, at>>
    /\ UNCHANGED <<mode, pc, waiters, mustStop, go, ready, done, clocks, counters, status>>

Controller ==
    \/ ParseArgs \/ Usage \/ CheckArgs \/ Connect \/ GetDbType
    \/ Populate \/ CheckDbParams \/ Report
    \/ StartThread \/ ReadyYet \/ AllReady \/ SetGo
    \/ PeriodEnds \/ ThreadError
    \/ TimingStart \/ RampStart \/ TimingStop \/ RampStop
    \/ DoneYet \/ StopThreads \/ Cleanup

\* The machine is down; or the threads wait for a controller that is gone;
\* or they have reached the bound.
Stuck ==
    /\ mpc \in {"exited", "dead"}
    /\ UNCHANGED vars

Next == Controller \/ (\E t \in Threads : TptbmThread(t)) \/ Stuck

\* The virtual machine runs every thread.
Spec     == Init /\ [][Next]_vars
FairSpec == Spec /\ WF_vars(Controller) /\ \A t \in Threads : WF_vars(TptbmThread(t))

-----------------------------------------------------------------------------
(* Properties.                                                             *)

\* Every variable has its type, and who waits on a monitor is at the call
\* that waits on it.
TypeOK ==
    /\ mode \in Modes
    /\ pc \in [Threads -> {"new", "init", "setReady", "goYet", "execute",
                           "finally", "setDone", "ended"}]
    /\ waiters \in [Threads -> SUBSET {"thread", "controller"}]
    /\ \A t \in Threads :
        /\ "thread" \in waiters[t] => pc[t] = "goYet"
        /\ "controller" \in waiters[t] => at = t /\ mpc \in {"readyYet", "doneYet"}
    /\ \A f \in {error, mustStop, go, ready, done, timing, doneTiming, doneRamping} :
        f \subseteq Threads
    /\ totalXacts \in [Threads -> 0..MaxCount]
    /\ jj \in [Threads -> 0..OpsInXact]
    /\ insertAt \in [Threads -> Nat \X (0..(Key - 1))]
    /\ conn \in [Threads -> {"none", "partial", "open", "closed"}]
    /\ status \in {-1, 0, 1, 2} /\ (status = -1 <=> mpc # "exited")
    /\ mpc \in {"parseArgs", "checkArgs", "connect", "populate", "start", "readyYet", "ready",
                "go", "rampUp", "timingStart",
                "measure", "rampStart", "timingStop", "rampDown", "rampStop",
                "doneYet", "stopThreads", "cleanup", "report", "exited", "dead"}
    /\ at \in Threads

\* All the threads are ready before one of them executes a transaction, and
\* a thread that executes is not cleaned up unless it was told to stop.
ExecuteTogether ==
    \A t \in Threads : pc[t] = "execute" =>
        /\ ready = Threads
        /\ conn[t] = "open" \/ t \in mustStop

\* "Each thread insert in a perticular area of the table so they do not run
\* into each other" (Tptbm.java:1500), nor into the rows of populate().
InsertsDisjoint ==
    /\ \A s, t \in Threads : s # t => inserted[s] \cap inserted[t] = {}
    /\ \A t \in Threads : \A row \in inserted[t] : row[1] >= Key

\* Whichever threads fail once they are connected, and whenever, the program
\* ends: no thread waits for a go, and the controller for no flag, that was
\* given before.  (A cleanup() of a thread that has failed in initialize()
\* may end the controller alone.)
Terminates == <>(Down \/ mpc = "dead")

\* "keeping program from exiting before all the threads are done"
\* (Tptbm.java:2102).
ExitAfterDone ==
    mpc = "exited" /\ (\E t \in Threads : pc[t] # "new") => done = Threads
=============================================================================
