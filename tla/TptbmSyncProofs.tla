---------------------------- MODULE TptbmSyncProofs ----------------------------
(***************************************************************************)
(* The barrier of tptbm.c and the order of its end, for any number of      *)
(* processes, transactions and errors, with or without ramps, and however  *)
(* slow a child is to look at its word; and its measurement window, if a   *)
(* phase lasts longer than a child's pass and there is a ramp-down.        *)
(***************************************************************************)
EXTENDS TptbmSync, TLAPS

Places == Running \cup {"init", "barrier", "ready", "pollset", "set", "go", "cleanup", "gone"}

Typed == state \in [Procs -> INITIALIZED..ERROR] /\ pc \in [Procs -> Places]

\* Where the parent is before it has seen every child answer, and after its loop.
Before == {"init", "barrier", "ready", "pollset"}
After  == {"finish", "wait", "cleanup", "gone"}

Past(c) == pc[c] \notin {"init", "barrier"}
AllPast == \A c \in Children : Past(c)

\* A child that has not answered READY has not written SET, but perhaps ERROR.
BeforeReady == \A c \in Children : ~Past(c) => state[c] \in {INITIALIZED, READY, ERROR}

\* The parent starts the children when all have answered, and nobody writes a
\* command, or answers one, before that.
Started ==
    /\ pc[0] \notin Before \cup After => AllPast
    /\ \A c \in Children :
        /\ state[c] \in GO..STOP => AllPast
        /\ pc[c] \notin {"init", "barrier", "set", "cleanup", "gone"} => AllPast

\* END and ERROR are the last words of a child, although not always the last in
\* its place; unless it has met a warning.
LastWords ==
    /\ \A c \in Children \ warned : state[c] >= END => pc[c] \in {"cleanup", "gone"}
    /\ \A c \in Children : pc[c] = "set" => state[c] < END
    /\ ReportAfterAll

SInv == Typed /\ BeforeReady /\ Started /\ LastWords

-----------------------------------------------------------------------------
LEMMA ProcSets ==
    /\ 0 \in Procs /\ 0 \notin Children
    /\ \A c \in Children : c \in Procs /\ c # 0
    /\ \A p \in Procs : p # 0 => p \in Children
  BY TptbmAssumption DEF Procs, Children

LEMMA Words ==
    /\ INITIALIZED = 0 /\ READY = 1 /\ SET = 2 /\ GO = 3 /\ RUNNING = 4 /\ STARTBENCH = 5
    /\ MEASURING = 6 /\ STOPBENCH = 7 /\ STOPPING = 8 /\ STOP = 9 /\ END = 10 /\ ERROR = 11
  BY DEF INITIALIZED, READY, SET, GO, RUNNING, STARTBENCH, MEASURING, STOPBENCH, STOPPING,
         STOP, END, ERROR

LEMMA InitSInv == Init => SInv
  BY ProcSets, Words DEF Init, SInv, Typed, BeforeReady, Started, LastWords, ReportAfterAll,
     Past, AllPast, Places, Before

\* A step of a child to another place, with its word as it was or the answer w.
ChildMoves(c, x, w) ==
    /\ x \in Places /\ w \in INITIALIZED..ERROR
    /\ pc' = [pc EXCEPT ![c] = x] /\ state' = [state EXCEPT ![c] = w] /\ UNCHANGED <<reported, warned>>
    /\ pc[c] # "gone" /\ (pc[c] = "cleanup" => x = "gone")
    /\ x \in {"init", "barrier"} => pc[c] \in {"init", "barrier"} /\ w \in {state[c], READY}
    /\ x \notin {"init", "barrier", "set", "cleanup", "gone"} => AllPast
    /\ w \in GO..STOP => AllPast
    /\ w >= END => x \in {"cleanup", "gone"} \/ (c \in warned /\ x # "set")

LEMMA ChildStep ==
    ASSUME SInv, NEW c \in Children, NEW x, NEW w, ChildMoves(c, x, w)
    PROVE  SInv'
  <1> USE ProcSets, Words DEF SInv, ChildMoves
  <1>1. Typed'
    BY DEF Typed
  <1>2. \A d \in Procs : d # c => pc'[d] = pc[d] /\ state'[d] = state[d]
    BY DEF Typed
  <1>3. pc'[c] = x /\ state'[c] = w
    BY DEF Typed
  <1>4. AllPast => AllPast'
    BY <1>2, <1>3 DEF AllPast, Past
  <1>5. BeforeReady'
    BY <1>2, <1>3 DEF BeforeReady, Past
  <1>6. Started'
    BY <1>2, <1>3, <1>4 DEF Started
  <1>7. LastWords'
    BY <1>2, <1>3 DEF LastWords, ReportAfterAll
  <1>8. QED
    BY <1>1, <1>5, <1>6, <1>7

LEMMA ChildSInv == ASSUME SInv, NEW c \in Children, Child(c) PROVE SInv'
  <1> USE ProcSets, Words
  <1>0. /\ state \in [Procs -> INITIALIZED..ERROR] /\ state[c] \in INITIALIZED..ERROR
        /\ state = [state EXCEPT ![c] = state[c]]
        /\ pc \in [Procs -> Places]
    BY DEF SInv, Typed
  <1>a. /\ pc[c] \notin {"cleanup", "gone"} => state[c] < END \/ c \in warned
        /\ pc[c] = "set" => state[c] < END
        /\ pc[c] \notin {"init", "barrier", "set", "cleanup", "gone"} => AllPast
        /\ state[c] \in GO..STOP => AllPast
    BY <1>0 DEF SInv, Started, LastWords
  <1>1. CASE Initialise(c)
    <2>1. ChildMoves(c, "barrier", state[c])
      BY <1>0, <1>a, <1>1 DEF Initialise, At, GoTo, shared, parent, world, Places, ChildMoves
    <2>2. QED
      BY <2>1, ChildStep
  <1>2. CASE AnswerReady(c)
    <2>1. ChildMoves(c, "set", SET)
      BY <1>0, <1>a, <1>2 DEF AnswerReady, At, GoTo, parent, world, Places, ChildMoves
    <2>2. QED
      BY <2>1, ChildStep
  <1>3. CASE SeeGo(c)
    <2>1. PICK x \in {"running", "top"} : pc' = [pc EXCEPT ![c] = x]
      BY <1>3, Zenon DEF SeeGo, GoTo
    <2>2. pc[c] = "set" /\ state[c] >= GO /\ state' = state /\ UNCHANGED <<reported, warned>>
      BY <1>3 DEF SeeGo, At, shared, parent, world
    <2>3. AllPast /\ state[c] < END
      BY <1>0, <1>a, <2>2
    <2>4. ChildMoves(c, x, state[c])
      BY <1>0, <2>1, <2>2, <2>3 DEF ChildMoves, Places, Running
    <2>5. QED
      BY <2>4, ChildStep
  <1>4. CASE AnswerRunning(c) \/ ChildAnswer(c)
    <2>1. PICK x \in {"top", "finish", "work"} : pc' = [pc EXCEPT ![c] = x]
      BY <1>4, Zenon DEF AnswerRunning, ChildAnswer, GoTo
    <2>2. PICK w \in {RUNNING, MEASURING, STOPPING} : state' = [state EXCEPT ![c] = w]
      <3>1. CASE AnswerRunning(c)
        BY <3>1 DEF AnswerRunning
      <3>2. CASE ChildAnswer(c)
        BY <3>2, Zenon DEF ChildAnswer
      <3>3. QED
        BY <1>4, <3>1, <3>2
    <2>3. pc[c] \in {"running", "answer"} /\ UNCHANGED <<reported, warned>>
      BY <1>4 DEF AnswerRunning, ChildAnswer, At, parent, world
    <2>4. ChildMoves(c, x, w)
      BY <1>a, <2>1, <2>2, <2>3 DEF ChildMoves, Places, Running
    <2>5. QED
      BY <2>4, ChildStep
  <1>5. CASE TopXact(c) \/ ChildPoll(c) \/ Work(c)
    <2>1. PICK x \in {"top", "finish", "work", "answer"} : pc' = [pc EXCEPT ![c] = x]
      BY <1>5, Zenon DEF TopXact, ChildPoll, Work, GoTo
    <2>2. pc[c] \in {"top", "work"} /\ state' = state /\ UNCHANGED <<reported, warned>>
      BY <1>5 DEF TopXact, ChildPoll, Work, At, shared, parent, world
    <2>3. ChildMoves(c, x, state[c])
      BY <1>0, <1>a, <2>1, <2>2 DEF ChildMoves, Places, Running
    <2>4. QED
      BY <2>3, ChildStep
  <1>6. CASE Finish(c)
    <2>1. PICK w \in {END, ERROR} : state' = [state EXCEPT ![c] = w]
      BY <1>6, Zenon DEF Finish
    <2>2. ChildMoves(c, "cleanup", w)
      <3>1. pc' = [pc EXCEPT ![c] = "cleanup"] /\ pc[c] = "finish" /\ UNCHANGED <<reported, warned>>
        BY <1>6 DEF Finish, At, GoTo, parent, world
      <3>2. QED
        BY <2>1, <3>1 DEF ChildMoves, Places
    <2>3. QED
      BY <2>2, ChildStep
  <1>7. CASE Cleanup(c)
    <2>1. ChildMoves(c, "gone", state[c])
      BY <1>0, <1>a, <1>7 DEF Cleanup, At, GoTo, shared, parent, world, Places, ChildMoves
    <2>2. QED
      BY <2>1, ChildStep
  <1>8. CASE Leave(c)
    <2>1. ChildMoves(c, "cleanup", state[c])
      BY <1>0, <1>a, <1>8 DEF Leave, StopChecks, GoTo, shared, parent, world, Places, ChildMoves
    <2>2. QED
      BY <2>1, ChildStep
  <1>9. QED
    BY <1>1, <1>2, <1>3, <1>4, <1>5, <1>6, <1>7, <1>8 DEF Child

-----------------------------------------------------------------------------
\* A step of the parent that leaves the words of its children alone.
ParentMoves(x) ==
    /\ x \in Places /\ pc' = [pc EXCEPT ![0] = x]
    /\ state' \in [Procs -> INITIALIZED..ERROR]
    /\ \A c \in Children : state'[c] = state[c]
    /\ x \notin Before \cup After => AllPast
    /\ reported' => reported \/ \A c \in Children : ChildDone(c)
    /\ warned' = warned

LEMMA ParentStep == ASSUME SInv, NEW x, ParentMoves(x) PROVE SInv'
  <1> USE ProcSets, Words DEF SInv, ParentMoves
  <1>1. Typed'
    BY DEF Typed
  <1>2. \A c \in Children : pc'[c] = pc[c]
    BY DEF Typed
  <1>3. pc'[0] = x
    BY DEF Typed
  <1>4. AllPast' <=> AllPast
    BY <1>2 DEF AllPast, Past
  <1>5. BeforeReady' /\ Started'
    BY <1>2, <1>3, <1>4 DEF BeforeReady, Started, Past
  <1>6. LastWords'
    BY <1>2 DEF LastWords, ReportAfterAll, ChildDone, At
  <1>7. QED
    BY <1>1, <1>5, <1>6

\* A step of the parent that writes a command to all of them.
ParentTells(x, w) ==
    /\ x \in Places /\ pc' = [pc EXCEPT ![0] = x]
    /\ w \in {READY, GO, STARTBENCH, STOPBENCH, STOP} /\ Tell(w)
    /\ w # READY \/ x # "pollset" => AllPast
    /\ UNCHANGED <<reported, warned>>

LEMMA TellStep == ASSUME SInv, NEW x, NEW w, ParentTells(x, w) PROVE SInv'
  <1> USE ProcSets, Words DEF SInv, ParentTells
  <1>1. Typed' /\ \A c \in Children : state'[c] = w
    BY DEF Typed, Tell
  <1>2. \A c \in Children : pc'[c] = pc[c]
    BY DEF Typed
  <1>3. pc'[0] = x
    BY DEF Typed
  <1>4. AllPast' <=> AllPast
    BY <1>2 DEF AllPast, Past
  <1>5. BeforeReady'
    BY <1>1, <1>2, <1>4 DEF BeforeReady, Past, AllPast
  <1>6. Started'
    BY <1>1, <1>2, <1>3, <1>4 DEF Started, Before, After
  <1>7. LastWords'
    BY <1>1, <1>2 DEF LastWords, ReportAfterAll
  <1>8. QED
    BY <1>1, <1>5, <1>6, <1>7

LEMMA ParentSInv == ASSUME SInv, Parent PROVE SInv'
  <1> USE ProcSets, Words DEF Before, After
  <1>0. /\ state \in [Procs -> INITIALIZED..ERROR]
        /\ pc[0] \notin Before \cup After => AllPast
    BY DEF SInv, Typed, Started
  <1>1. CASE Initialise(0) \/ Cleanup(0) \/ Leave(0)
    <2>1. PICK x \in {"barrier", "gone", "cleanup"} : pc' = [pc EXCEPT ![0] = x]
      BY <1>1 DEF Initialise, Cleanup, Leave, GoTo
    <2>2. state' = state /\ UNCHANGED <<reported, warned>>
      BY <1>1 DEF Initialise, Cleanup, Leave, shared, parent, world
    <2>3. ParentMoves(x)
      BY <1>0, <2>1, <2>2 DEF ParentMoves, Places
    <2>4. QED
      BY <2>3, ParentStep
  <1>2. CASE CheckChildren
    <2>1. PICK x \in {"finish", "ready"} : pc' = [pc EXCEPT ![0] = x]
      BY <1>2, Zenon DEF CheckChildren, GiveUp, GoTo
    <2>2. state' = state /\ UNCHANGED <<reported, warned>>
      BY <1>2 DEF CheckChildren, GiveUp, shared, parent, world
    <2>3. ParentMoves(x)
      BY <1>0, <2>1, <2>2 DEF ParentMoves, Places, Running
    <2>4. QED
      BY <2>3, ParentStep
  <1>3. CASE ReadyChildren
    <2>1. ParentTells("pollset", READY)
      BY <1>3 DEF ReadyChildren, GoTo, parent, world, Places, ParentTells
    <2>2. QED
      BY <2>1, TellStep
  <1>4. CASE PollSet
    <2>1. PICK x \in {"finish", "go"} : pc' = [pc EXCEPT ![0] = x]
      BY <1>4, Zenon DEF PollSet, GiveUp, GoTo
    <2>2. x = "go" => AllSet
      <3>1. CASE ChildFailed
        <4>1. pc' = [pc EXCEPT ![0] = "finish"]
          BY <1>4, <3>1 DEF PollSet, GiveUp, GoTo
        <4>2. x = "finish"
          BY <2>1, <4>1 DEF SInv, Typed
        <4>3. QED
          BY <4>2
      <3>2. CASE ~ChildFailed
        BY <1>4, <3>2 DEF PollSet
      <3>3. QED
        BY <3>1, <3>2
    <2>3. state' = state /\ UNCHANGED <<reported, warned>>
      BY <1>4 DEF PollSet, GiveUp, shared, parent, world
    <2>4. AllSet => AllPast
      BY DEF AllSet, AllPast, SInv, BeforeReady
    <2>5. ParentMoves(x)
      BY <1>0, <2>1, <2>2, <2>3, <2>4 DEF ParentMoves, Places, Running
    <2>6. QED
      BY <2>5, ParentStep
  <1>5. CASE StartChildren
    <2>1. PICK w \in {GO, STARTBENCH} : Tell(w)
      BY <1>5, Zenon DEF StartChildren
    <2>2. ParentTells("top", w)
      BY <1>0, <1>5, <2>1 DEF StartChildren, At, GoTo, parent, world, Places, Running, ParentTells
    <2>3. QED
      BY <2>2, TellStep
  <1>6. CASE StartBench
    <2>1. ParentTells("work", STARTBENCH)
      BY <1>0, <1>6 DEF StartBench, At, GoTo, world, Places, Running, ParentTells
    <2>2. QED
      BY <2>1, TellStep
  <1>7. CASE StopBench
    <2>1. PICK x \in {"work", "stop"} : pc' = [pc EXCEPT ![0] = x]
      BY <1>7 DEF StopBench, GoTo
    <2>2. ParentTells(x, STOPBENCH)
      BY <1>0, <1>7, <2>1 DEF StopBench, At, world, Places, Running, ParentTells
    <2>3. QED
      BY <2>2, TellStep
  <1>8. CASE StopChildren
    <2>1. ParentTells("finish", STOP)
      BY <1>0, <1>8 DEF StopChildren, At, GoTo, parent, world, Places, Running, ParentTells
    <2>2. QED
      BY <2>1, TellStep
  <1>9. CASE TopXact(0) \/ Work(0)
    <2>1. PICK x \in {"work", "finish", "top"} : pc' = [pc EXCEPT ![0] = x]
      BY <1>9, Zenon DEF TopXact, Work, GoTo
    <2>2. pc[0] \in {"top", "work"} /\ state' = state /\ UNCHANGED <<reported, warned>>
      BY <1>9 DEF TopXact, Work, At, shared, parent, world
    <2>3. ParentMoves(x)
      BY <1>0, <2>1, <2>2 DEF ParentMoves, Places, Running
    <2>4. QED
      BY <2>3, ParentStep
  <1>10. CASE ParentPoll
    <2>1. PICK x \in {"finish", "work", "startbench", "stopbench", "stop"} :
             pc' = [pc EXCEPT ![0] = x]
      BY <1>10, Zenon DEF ParentPoll, GiveUp, GoTo
    <2>2. pc[0] = "top" /\ UNCHANGED <<reported, warned>>
      BY <1>10 DEF ParentPoll, GiveUp, At, parent, world
    <2>3. state' = state \/ state' = [state EXCEPT ![0] = MEASURING]
      BY <1>10, Zenon DEF ParentPoll, GiveUp, shared
    <2>4. state' \in [Procs -> INITIALIZED..ERROR] /\ \A c \in Children : state'[c] = state[c]
      BY <1>0, <2>3
    <2>5. ParentMoves(x)
      BY <1>0, <2>1, <2>2, <2>4 DEF ParentMoves, Places, Running
    <2>6. QED
      BY <2>5, ParentStep
  <1>11. CASE Finish(0)
    <2>1. PICK w \in {END, ERROR} : state' = [state EXCEPT ![0] = w]
      BY <1>11, Zenon DEF Finish
    <2>2. ParentMoves("wait")
      BY <1>0, <1>11, <2>1 DEF Finish, GoTo, parent, world, Places, Running, ParentMoves
    <2>3. QED
      BY <2>2, ParentStep
  <1>12. CASE WaitChildren
    <2>1. ParentMoves("cleanup")
      BY <1>0, <1>12 DEF WaitChildren, GoTo, shared, world, Places, ParentMoves
    <2>2. QED
      BY <2>1, ParentStep
  <1>13. QED
    BY <1>1, <1>2, <1>3, <1>4, <1>5, <1>6, <1>7, <1>8, <1>9, <1>10, <1>11, <1>12 DEF Parent

LEMMA FailSInv == ASSUME SInv, NEW p \in Procs, Fail(p) PROVE SInv'
  <1> USE ProcSets, Words DEF Before, After
  <1>1. /\ pc' = [pc EXCEPT ![p] = "gone"] /\ state' = [state EXCEPT ![p] = ERROR]
        /\ UNCHANGED <<reported, warned>> /\ pc[p] # "gone"
    BY DEF Fail, SaysError, Calling, GoTo, parent, world
  <1>2. CASE p = 0
    <2>1. ParentMoves("gone")
      BY <1>1, <1>2 DEF Places, SInv, Typed, ParentMoves
    <2>2. QED
      BY <2>1, ParentStep
  <1>3. CASE p \in Children
    <2>1. ChildMoves(p, "gone", ERROR)
      BY <1>1 DEF Places, ChildMoves
    <2>2. QED
      BY <1>3, <2>1, ChildStep
  <1>4. QED
    BY <1>2, <1>3

\* A warning leaves ERROR in the word of a process that goes on.
LEMMA WarnSInv == ASSUME SInv, NEW p \in Procs, Warn(p) PROVE SInv'
  <1> USE ProcSets, Words
  <1>1. /\ pc' = pc /\ state' = [state EXCEPT ![p] = ERROR] /\ reported' = reported
        /\ warned' = warned \cup {p} /\ pc[p] \in Calling
    BY DEF Warn, SaysError, parent
  <1>2. Typed'
    BY <1>1 DEF SInv, Typed
  <1>3. /\ state'[p] = ERROR
        /\ \A c \in Children : c # p => state'[c] = state[c]
    BY <1>1 DEF SInv, Typed
  <1>4. BeforeReady'
    BY <1>1, <1>3 DEF SInv, BeforeReady, Past
  <1>5. AllPast' <=> AllPast
    BY <1>1 DEF AllPast, Past
  <1>6. Started'
    BY <1>1, <1>3, <1>5 DEF SInv, Started
  <1>7. LastWords'
    BY <1>1, <1>3 DEF SInv, LastWords, ReportAfterAll, Calling
  <1>8. QED
    BY <1>2, <1>4, <1>6, <1>7 DEF SInv

LEMMA NextSInv == SInv /\ [Next]_vars => SInv'
  <1>1. ASSUME SInv, UNCHANGED <<state, pc, reported, warned>> PROVE SInv'
    BY <1>1 DEF SInv, Typed, BeforeReady, Started, LastWords, ReportAfterAll, Past, AllPast
  <1>2. ASSUME Interrupt \/ Tick \/ UNCHANGED vars
        PROVE  UNCHANGED <<state, pc, reported, warned>>
    BY <1>2 DEF Interrupt, Tick, vars, shared, parent, world
  <1>3. QED
    BY <1>1, <1>2, ParentSInv, ChildSInv, FailSInv, WarnSInv DEF Next, Ended

LEMMA SpecSInv == Spec => []SInv
  BY InitSInv, NextSInv, PTL DEF Spec

-----------------------------------------------------------------------------
\* No process of tptbm.c executes a transaction while a child is still
\* connecting or has not seen PROC_READY, whoever fails and although parent and
\* child write the same word without a lock.
THEOREM SyncStartTogether == Spec => []StartTogether
  <1>1. SInv => StartTogether
    <2> SUFFICES ASSUME SInv, NEW p \in Procs, NEW c \in Children,
                        pc[p] \in Running \ {"finish", "wait"}
                 PROVE  Past(c)
      BY DEF StartTogether, Past
    <2>1. AllPast
      BY ProcSets DEF SInv, Started, Running, Before, After
    <2>2. QED
      BY <2>1 DEF AllPast
  <1>2. QED
    BY <1>1, SpecSInv, PTL

\* The parent prints the rate only after every child that has not met a warning
\* has left its loop, however often one has overwritten what the other wrote, and
\* whatever other children have said of errors and warnings (finish_loop).
THEOREM SyncReportAfterAll == Spec => []ReportAfterAll
  <1>1. SInv => ReportAfterAll
    BY DEF SInv, LastWords
  <1>2. QED
    BY <1>1, SpecSInv, PTL
-----------------------------------------------------------------------------
(* The measurement window.                                                 *)

\* The phases last long enough for a child to look at its word, and the children
\* are told the end of the measurement before they are told to stop.
Ramped == Prompt /\ \A a \in Args : a.duration => a.rampdown

Counters ==
    /\ args \in Args /\ timeup \in BOOLEAN /\ interrupted \in BOOLEAN /\ errors \in Nat
    /\ seen \in [Procs -> INITIALIZED..ERROR]
    /\ xacts \in [Procs -> Nat] /\ i \in [Procs -> Nat] /\ mark \in [Procs -> Nat]

\* In transaction mode everything is measured, and the counter is published one
\* transaction late at most.
XactWindow ==
    /\ phase = "measure" /\ pc[0] \notin {"startbench", "stopbench", "stop"}
    /\ \A p \in Procs : /\ mark[p] = i[p] /\ xacts[p] \in (i[p] - 1)..i[p]
                        /\ pc[p] # "answer"
                        /\ pc[p] = "work" => xacts[p] = i[p]

Calm == ~interrupted /\ errors = 0

Near(p) == xacts[p] \in (mark[p] - 1)..(mark[p] + 1)

\* Where the parent is before the children are started.
Waiting == Before \cup {"go"}

ParentWindow ==
    /\ pc[0] \in Waiting => /\ phase = (IF args.rampup THEN "rampup" ELSE "measure")
                            /\ ~timeup /\ i[0] = 0 /\ mark[0] = 0
    /\ pc[0] = "startbench" => phase = "rampup" /\ timeup /\ i[0] = 0
    /\ pc[0] = "stopbench" => phase = "measure" /\ timeup /\ xacts[0] = mark[0]
    /\ pc[0] = "stop" => phase = "rampdown" /\ timeup
    /\ pc[0] \in After => phase = "rampdown"
    /\ phase \in {"rampup", "measure", "rampdown"}
    /\ phase = "measure" => mark[0] = i[0]
    /\ phase = "rampdown" => xacts[0] = mark[0]
    /\ reported => pc[0] \in After

\* A child in each phase of the parent: what it has been told and not yet
\* answered, and how far its counter is from what it has executed in the window.
Beginning(c) ==
    /\ pc[c] \in {"init", "barrier", "set"} /\ state[c] \in {INITIALIZED, READY, SET}
    /\ state[c] = SET => pc[c] = "set"
    /\ pc[0] = "go" => state[c] = SET
    /\ i[c] = 0 /\ mark[c] = 0

RampingUp(c) ==
    \/ ~timeup /\ state[c] = GO /\ pc[c] \in {"set", "running"}
    \/ state[c] = RUNNING /\ pc[c] \in {"top", "work"}

Measuring(c) ==
    \/ /\ ~timeup /\ state[c] = STARTBENCH
       /\ \/ pc[c] \in {"set", "work"} /\ mark[c] = 0
          \/ pc[c] = "top" /\ mark[c] \in 0..1
          \/ pc[c] = "answer" /\ seen[c] = STARTBENCH /\ i[c] = 0 /\ mark[c] \in 0..1
    \/ state[c] = MEASURING /\ pc[c] \in {"top", "work"} /\ mark[c] \in i[c]..(i[c] + 1)

RampingDown(c) ==
    \/ /\ ~timeup /\ state[c] = STOPBENCH
       /\ \/ pc[c] = "work" /\ mark[c] \in i[c]..(i[c] + 1)
          \/ pc[c] = "top" /\ i[c] \in (mark[c] - 1)..(mark[c] + 1)
          \/ pc[c] = "answer" /\ seen[c] = STOPBENCH /\ Near(c)
    \/ state[c] = STOPPING /\ pc[c] \in {"top", "work"} /\ Near(c)

Stopped(c) == Near(c) /\ state[c] # STOPBENCH

ChildWindow(c) ==
    /\ pc[0] \in Waiting => Beginning(c)
    /\ pc[0] \notin Waiting /\ phase = "rampup" => RampingUp(c)
    /\ pc[0] \notin Waiting /\ phase = "measure" => Measuring(c)
    /\ phase = "rampdown" => IF pc[0] \in After THEN Stopped(c) ELSE RampingDown(c)

\* The window is right in each phase, as long as nobody has failed or pressed Ctrl-C.
WInv ==
    /\ Typed /\ Counters
    /\ ~args.duration /\ Calm => XactWindow
    /\ args.duration /\ Calm => ParentWindow /\ \A c \in Children : ChildWindow(c)


LEMMA InitWInv == ASSUME Ramped, Init PROVE WInv
  <1> USE ProcSets, Words, TptbmAssumption DEF Init, NoMark
  <1>1. Typed
    BY InitSInv DEF SInv
  <1>2. Counters
    <2>1. seen \in [Procs -> INITIALIZED..ERROR]
      OBVIOUS
    <2>2. xacts \in [Procs -> Nat] /\ i \in [Procs -> Nat] /\ mark \in [Procs -> Nat]
      OBVIOUS
    <2>3. QED
      BY <2>1, <2>2 DEF Counters
  <1>3. ~args.duration => XactWindow
    BY DEF XactWindow
  <1>4. ParentWindow /\ \A c \in Children : ChildWindow(c)
    <2>1. /\ pc[0] = "init" /\ i[0] = 0 /\ mark[0] = 0 /\ pc[0] \in Waiting \ After
          /\ \A c \in Children : /\ pc[c] = "init" /\ state[c] = INITIALIZED
                                /\ i[c] = 0 /\ mark[c] = 0
      BY DEF Waiting, Before, After
    <2>2. phase \in {"rampup", "measure"} /\ phase # "rampdown"
      OBVIOUS
    <2>3. ParentWindow
      BY <2>1, <2>2 DEF ParentWindow
    <2>4. \A c \in Children : ChildWindow(c)
      BY <2>1, <2>2 DEF ChildWindow, Beginning
    <2>5. QED
      BY <2>3, <2>4
  <1>5. QED
    BY <1>1, <1>2, <1>3, <1>4 DEF WInv

\* Nothing of process q changes.
Same(q) ==
    /\ pc'[q] = pc[q] /\ state'[q] = state[q] /\ seen'[q] = seen[q]
    /\ i'[q] = i[q] /\ xacts'[q] = xacts[q] /\ mark'[q] = mark[q]

\* A step of process p takes it to x, with the word w, having read r, and with the
\* counters n, k and m.
Goes(p, x, w, r, n, k, m) ==
    /\ pc' = [pc EXCEPT ![p] = x] /\ state' = [state EXCEPT ![p] = w]
    /\ seen' = [seen EXCEPT ![p] = r]
    /\ i' = [i EXCEPT ![p] = n] /\ xacts' = [xacts EXCEPT ![p] = k] /\ mark' = [mark EXCEPT ![p] = m]

LEMMA Moved ==
    ASSUME Typed, Counters, NEW p \in Procs, NEW x, NEW w, NEW r, NEW n, NEW k, NEW m,
           Goes(p, x, w, r, n, k, m)
    PROVE  /\ pc'[p] = x /\ state'[p] = w /\ seen'[p] = r
           /\ i'[p] = n /\ xacts'[p] = k /\ mark'[p] = m
           /\ \A q \in Procs : q # p => Same(q)
           /\ UNCHANGED <<args, timeup, interrupted, errors>>
              /\ r \in INITIALIZED..ERROR /\ n \in Nat /\ k \in Nat /\ m \in Nat => Counters'
  BY DEF Goes, Typed, Counters, Same

\* What the other processes are promised by a step that leaves the phase alone.
SamePhase == UNCHANGED <<args, phase, timeup, interrupted, errors, reported>>

LEMMA OthersKept ==
    ASSUME SamePhase, NEW c \in Children, Same(0), Same(c)
    PROVE  ChildWindow(c) => ChildWindow(c)'
  BY DEF SamePhase, Same, ChildWindow, Beginning, RampingUp, Measuring,
         RampingDown, Stopped, Near

-----------------------------------------------------------------------------
(* A step of a child.                                                      *)

LEMMA ChildGoes ==
    ASSUME Typed, Counters, NEW c \in Children, NEW x, NEW w, NEW r, NEW n, NEW k, NEW m,
           x \in Places, w \in INITIALIZED..ERROR, r \in INITIALIZED..ERROR,
           n \in Nat, k \in Nat, m \in Nat,
           Goes(c, x, w, r, n, k, m), SamePhase, WInv,
           ~args.duration /\ Calm /\ XactWindow => m = n /\ k \in (n - 1)..n /\ x # "answer" /\ (x = "work" => k = n),
           args.duration /\ Calm /\ ParentWindow /\ ChildWindow(c) => ChildWindow(c)'
    PROVE  WInv'
  <1>1. /\ \A q \in Procs : q # c => Same(q)
        /\ Counters'
    BY ProcSets, Moved DEF SamePhase
  <1>2. Typed'
    BY ProcSets DEF Typed, Goes
  <1>3. ASSUME args.duration, Calm PROVE ParentWindow' /\ \A d \in Children : ChildWindow(d)'
    <2>1. Same(0) /\ ParentWindow /\ \A d \in Children : ChildWindow(d)
      BY <1>1, <1>3, ProcSets DEF WInv
    <2>2. ParentWindow'
      BY <2>1 DEF Same, SamePhase, ParentWindow
    <2>3. ASSUME NEW d \in Children PROVE ChildWindow(d)'
      <3>1. CASE d = c
        BY <1>3, <2>1, <3>1
      <3>2. CASE d # c
        <4>1. Same(d)
          BY <1>1, <3>2, ProcSets
        <4>2. QED
          BY <2>1, <4>1, OthersKept
      <3>3. QED
        BY <3>1, <3>2
    <2>4. QED
      BY <2>2, <2>3
  <1>4. args' = args /\ (Calm' <=> Calm)
    BY DEF SamePhase, Calm
  <1>5. ASSUME ~args.duration, Calm PROVE XactWindow'
    <2>1. XactWindow
      BY <1>5 DEF WInv
    <2>2. pc'[c] = x /\ i'[c] = n /\ xacts'[c] = k /\ mark'[c] = m
      BY Moved, ProcSets
    <2>3. QED
      BY <1>1, <1>5, <2>1, <2>2, ProcSets DEF XactWindow, Same, SamePhase
  <1>6. QED
    BY <1>1, <1>2, <1>3, <1>4, <1>5 DEF WInv

LEMMA ChildWInv == ASSUME WInv, NEW c \in Children, Child(c) PROVE WInv'
  <1> USE ProcSets, Words
  <1>0. /\ pc = [pc EXCEPT ![c] = pc[c]] /\ state = [state EXCEPT ![c] = state[c]]
        /\ seen = [seen EXCEPT ![c] = seen[c]] /\ i = [i EXCEPT ![c] = i[c]]
        /\ xacts = [xacts EXCEPT ![c] = xacts[c]] /\ mark = [mark EXCEPT ![c] = mark[c]]
    BY DEF WInv, Typed, Counters
  <1>t. /\ Typed /\ Counters
        /\ pc[c] \in Places /\ state[c] \in INITIALIZED..ERROR /\ seen[c] \in INITIALIZED..ERROR
        /\ i[c] \in Nat /\ xacts[c] \in Nat /\ mark[c] \in Nat
    BY DEF WInv, Typed, Counters
  <1>x. ~args.duration /\ Calm /\ XactWindow =>
           /\ mark[c] = i[c] /\ xacts[c] \in (i[c] - 1)..i[c]
           /\ pc[c] # "answer"
           /\ pc[c] = "work" => xacts[c] = i[c]
    BY DEF XactWindow
  <1> DEFINE Answer(x, w) == Goes(c, x, w, seen[c], i[c], xacts[c], mark[c]) /\ SamePhase
             Kept == Calm /\ args.duration /\ ChildWindow(c) => ChildWindow(c)'
  <1>1. CASE Initialise(c)
    <2>1. Answer("barrier", state[c]) /\ pc[c] = "init"
      BY <1>0, <1>1 DEF Initialise, At, GoTo, shared, parent, world, Goes, SamePhase
    <2>2. Kept
      BY <1>t, <2>1, Moved DEF Same, SamePhase, ChildWindow, Beginning,
         RampingUp, Measuring, RampingDown, Stopped, Near, Waiting, Before, After
    <2>3. QED
      BY <1>t, <1>x, <2>1, <2>2, ChildGoes DEF Places
  <1>2. CASE AnswerReady(c)
    <2>1. Answer("set", SET) /\ pc[c] = "barrier" /\ state[c] >= READY
      BY <1>0, <1>2 DEF AnswerReady, At, GoTo, shared, parent, world, Goes, SamePhase
    <2>2. Kept
      BY <1>t, <2>1, Moved DEF Same, SamePhase, ChildWindow, Beginning,
         RampingUp, Measuring, RampingDown, Stopped, Near, Waiting, Before, After
    <2>3. QED
      BY <1>t, <1>x, <2>1, <2>2, ChildGoes DEF Places
  <1>3. CASE SeeGo(c)
    <2>1. PICK x \in {"running", "top"} : pc' = [pc EXCEPT ![c] = x] /\ (x = "running" <=> state[c] = GO)
      <3>1. CASE state[c] = GO
        BY <1>3, <3>1 DEF SeeGo, GoTo
      <3>2. CASE state[c] # GO
        BY <1>3, <3>2 DEF SeeGo, GoTo
      <3>3. QED
        BY <3>1, <3>2
    <2>2. Answer(x, state[c]) /\ pc[c] = "set" /\ state[c] >= GO
      BY <1>0, <1>3, <2>1 DEF SeeGo, At, shared, parent, world, Goes, SamePhase
    <2>3. Kept
      BY <1>t, <2>1, <2>2, Moved DEF Same, SamePhase, ChildWindow, Beginning,
         RampingUp, Measuring, RampingDown, Stopped, Near, Waiting, Before, After
    <2>4. QED
      BY <1>t, <1>x, <2>1, <2>2, <2>3, ChildGoes DEF Places, Running
  <1>4. CASE AnswerRunning(c)
    <2>1. Answer("top", RUNNING) /\ pc[c] = "running"
      BY <1>0, <1>4 DEF AnswerRunning, At, GoTo, shared, parent, world, Goes, SamePhase
    <2>2. Kept
      BY <1>t, <2>1, Moved DEF Same, SamePhase, ChildWindow, Beginning,
         RampingUp, Measuring, RampingDown, Stopped, Near, Waiting, Before, After
    <2>3. QED
      BY <1>t, <1>x, <2>1, <2>2, ChildGoes DEF Places, Running
  <1>5. CASE TopXact(c)
    <2>1. PICK x \in {"work", "finish"}, k \in Nat :
             /\ Goes(c, x, state[c], seen[c], i[c], k, mark[c])
             /\ (x = "work" /\ k = i[c]) \/ (x = "finish" /\ k = xacts[c])
      <3>0. /\ state' = [state EXCEPT ![c] = state[c]] /\ mark' = [mark EXCEPT ![c] = mark[c]]
            /\ seen' = [seen EXCEPT ![c] = seen[c]] /\ i' = [i EXCEPT ![c] = i[c]]
        BY <1>0, <1>5 DEF TopXact
      <3>1. CASE i[c] < NumXacts
        <4>1. Goes(c, "work", state[c], seen[c], i[c], i[c], mark[c])
          BY <1>5, <3>0, <3>1 DEF TopXact, GoTo, Goes
        <4>2. QED
          BY <1>t, <4>1
      <3>2. CASE ~(i[c] < NumXacts)
        <4>1. Goes(c, "finish", state[c], seen[c], i[c], xacts[c], mark[c])
          BY <1>0, <1>5, <3>0, <3>2 DEF TopXact, GoTo, Goes
        <4>2. QED
          BY <1>t, <4>1
      <3>3. QED
        BY <3>1, <3>2
    <2>2. SamePhase /\ ~args.duration
      BY <1>5 DEF TopXact, SamePhase, parent, world
    <2>3. QED
      BY <1>t, <1>x, <2>1, <2>2, ChildGoes DEF Places, Running
  <1>6. CASE ChildPoll(c)
    <2>1. PICK x \in {"answer", "work"}, n, k \in Nat :
             /\ Goes(c, x, state[c], state[c], n, k, mark[c])
             /\ x = "answer" <=> state[c] \in Commands
             /\ n = IF state[c] = STARTBENCH THEN 0 ELSE i[c]
             /\ k = IF state[c] = STOPBENCH THEN i[c] ELSE xacts[c]
      <3>1. PICK x \in {"answer", "work"} :
               pc' = [pc EXCEPT ![c] = x] /\ (x = "answer" <=> state[c] \in Commands)
        BY <1>6, Zenon DEF ChildPoll, GoTo
      <3>2. PICK n \in Nat :
               i' = [i EXCEPT ![c] = n] /\ n = IF state[c] = STARTBENCH THEN 0 ELSE i[c]
        <4>1. CASE state[c] = STARTBENCH
          BY <1>6, <4>1 DEF ChildPoll, ResetCounter
        <4>2. CASE state[c] # STARTBENCH
          BY <1>0, <1>t, <1>6, <4>2 DEF ChildPoll
        <4>3. QED
          BY <4>1, <4>2
      <3>3. PICK k \in Nat :
               xacts' = [xacts EXCEPT ![c] = k] /\ k = IF state[c] = STOPBENCH THEN i[c] ELSE xacts[c]
        <4>1. CASE state[c] = STOPBENCH
          BY <1>t, <1>6, <4>1 DEF ChildPoll
        <4>2. CASE state[c] # STOPBENCH
          BY <1>0, <1>t, <1>6, <4>2 DEF ChildPoll
        <4>3. QED
          BY <4>1, <4>2
      <3>4. /\ state' = [state EXCEPT ![c] = state[c]] /\ mark' = [mark EXCEPT ![c] = mark[c]]
            /\ seen' = [seen EXCEPT ![c] = state[c]]
        BY <1>0, <1>6 DEF ChildPoll
      <3>5. QED
        BY <3>1, <3>2, <3>3, <3>4 DEF Goes
    <2>2. SamePhase /\ args.duration /\ pc[c] = "top"
      BY <1>6 DEF ChildPoll, At, SamePhase, parent, world
    <2>3. Kept
      BY <1>t, <2>1, <2>2, Moved DEF Commands, Same, SamePhase, ChildWindow, Beginning,
         RampingUp, Measuring, RampingDown, Stopped, Near, Waiting, Before, After
    <2>4. QED
      BY <1>t, <1>x, <2>1, <2>2, <2>3, ChildGoes DEF Places, Running
  <1>7. CASE ChildAnswer(c)
    <2>1. PICK x \in {"finish", "work"}, w \in {MEASURING, STOPPING} :
             /\ pc' = [pc EXCEPT ![c] = x] /\ state' = [state EXCEPT ![c] = w]
             /\ x = "finish" <=> seen[c] = STOP
             /\ w = MEASURING <=> seen[c] = STARTBENCH
      <3>1. /\ pc' = [pc EXCEPT ![c] = IF seen[c] = STOP THEN "finish" ELSE "work"]
            /\ state' = [state EXCEPT ![c] = IF seen[c] = STARTBENCH THEN MEASURING ELSE STOPPING]
        BY <1>7 DEF ChildAnswer, GoTo
      <3>2. (IF seen[c] = STARTBENCH THEN MEASURING ELSE STOPPING) = MEASURING <=> seen[c] = STARTBENCH
        OBVIOUS
      <3>3. QED
        BY <3>1, <3>2, Zenon
    <2>2. Answer(x, w) /\ pc[c] = "answer"
      BY <1>0, <1>7, <2>1 DEF ChildAnswer, At, parent, world, Goes, SamePhase
    <2>3. Kept
      BY <1>t, <2>1, <2>2, Moved DEF Same, SamePhase, ChildWindow, Beginning,
         RampingUp, Measuring, RampingDown, Stopped, Near, Waiting, Before, After
    <2>4. QED
      BY <1>t, <1>x, <2>1, <2>2, <2>3, ChildGoes DEF Places, Running
  <1>8. CASE Work(c)
    <2>1. PICK n, m \in Nat :
             /\ Goes(c, "top", state[c], seen[c], n, xacts[c], m)
             /\ ~args.duration => n = i[c] + 1
             /\ \/ n = i[c] /\ m = mark[c]
                \/ n = i[c] + 1 /\ m = mark[c] + 1 /\ phase = "measure"
                \/ n = i[c] + 1 /\ m = mark[c] /\ (phase # "measure" \/ ~Calm)
      <3>1. CASE args.duration /\ i[c] >= MaxXacts
        BY <1>0, <1>t, <1>8, <3>1 DEF Work, GoTo, shared, Goes
      <3>2. CASE ~(args.duration /\ i[c] >= MaxXacts)
        <4>1. /\ i' = [i EXCEPT ![c] = i[c] + 1]
              /\ mark' = IF phase = "measure" /\ errors = 0
                         THEN [mark EXCEPT ![c] = mark[c] + 1] ELSE mark
          BY <1>8, <3>2 DEF Work
        <4>2. \A m : mark' = [mark EXCEPT ![c] = m] => Goes(c, "top", state[c], seen[c], i[c] + 1, xacts[c], m)
          BY <1>0, <1>8, <4>1 DEF Work, GoTo, shared, Goes
        <4>3. CASE phase = "measure" /\ errors = 0
          <5>1. Goes(c, "top", state[c], seen[c], i[c] + 1, xacts[c], mark[c] + 1)
            BY <4>1, <4>2, <4>3
          <5>2. QED
            BY <1>t, <4>3, <5>1
        <4>4. CASE ~(phase = "measure" /\ errors = 0)
          <5>1. Goes(c, "top", state[c], seen[c], i[c] + 1, xacts[c], mark[c])
            BY <1>0, <4>1, <4>2, <4>4
          <5>2. QED
            BY <1>t, <4>4, <5>1 DEF Calm
        <4>5. QED
          BY <4>3, <4>4
      <3>3. QED
        BY <3>1, <3>2
    <2>2. SamePhase /\ pc[c] = "work"
      BY <1>8 DEF Work, At, SamePhase, parent, world
    <2>3. Kept
      BY <1>t, <2>1, <2>2, Moved DEF Same, SamePhase, ChildWindow, Beginning,
         RampingUp, Measuring, RampingDown, Stopped, Near, Waiting, Before, After
    <2>4. XactWindow => phase = "measure"
      BY DEF XactWindow
    <2>5. QED
      BY <1>t, <1>x, <2>1, <2>2, <2>3, <2>4, ChildGoes DEF Places, Running
  <1>9. CASE Finish(c)
    <2>1. PICK w \in {END, ERROR} : state' = [state EXCEPT ![c] = w]
      BY <1>9, Zenon DEF Finish
    <2>2. Answer("cleanup", w) /\ pc[c] = "finish"
      BY <1>0, <1>9, <2>1 DEF Finish, At, GoTo, parent, world, Goes, SamePhase
    <2>3. Kept
      BY <1>t, <2>1, <2>2, Moved DEF Same, SamePhase, ChildWindow, Beginning,
         RampingUp, Measuring, RampingDown, Stopped, Near, Waiting, Before, After
    <2>4. QED
      BY <1>t, <1>x, <2>1, <2>2, <2>3, ChildGoes DEF Places
  <1>10. CASE Cleanup(c)
    <2>1. Answer("gone", state[c]) /\ pc[c] = "cleanup"
      BY <1>0, <1>10 DEF Cleanup, At, GoTo, shared, parent, world, Goes, SamePhase
    <2>2. Kept
      BY <1>t, <2>1, Moved DEF Same, SamePhase, ChildWindow, Beginning,
         RampingUp, Measuring, RampingDown, Stopped, Near, Waiting, Before, After
    <2>3. QED
      BY <1>t, <1>x, <2>1, <2>2, ChildGoes DEF Places
  <1>11. CASE Leave(c)
    <2>1. Answer("cleanup", state[c]) /\ interrupted
      BY <1>0, <1>11 DEF Leave, GoTo, shared, parent, world, Goes, SamePhase
    <2>2. Kept
      BY <2>1 DEF Calm
    <2>3. QED
      BY <1>t, <1>x, <2>1, <2>2, ChildGoes DEF Places
  <1>12. QED
    BY <1>1, <1>2, <1>3, <1>4, <1>5, <1>6, <1>7, <1>8, <1>9, <1>10, <1>11 DEF Child

-----------------------------------------------------------------------------
(* A step of the parent.                                                   *)

\* While nobody fails the parent finds no child that has.
LEMMA NoneFailed ==
    ASSUME WInv, args.duration, Calm, pc[0] \notin After
    PROVE  ~ChildFailed
  BY Words DEF WInv, ParentWindow, ChildFailed, ChildWindow, Beginning, RampingUp, Measuring,
     RampingDown, Waiting, Before, After

\* A step that writes to no child.
LEMMA ParentGoes ==
    ASSUME WInv, NEW x, NEW w, NEW n, NEW k, NEW m,
           x \in Places, w \in INITIALIZED..ERROR, n \in Nat, k \in Nat, m \in Nat,
           Goes(0, x, w, seen[0], n, k, m), UNCHANGED <<args, phase, timeup, interrupted, errors>>,
           ~args.duration /\ Calm /\ XactWindow =>
               /\ m = n /\ k \in (n - 1)..n /\ (x = "work" => k = n)
               /\ x \notin {"startbench", "stopbench", "stop", "answer"},
           args.duration /\ Calm =>
               /\ x \in Waiting <=> pc[0] \in Waiting
               /\ x \in After <=> pc[0] \in After
               /\ x = "go" => pc[0] = "go" \/ AllSet,
           args.duration /\ Calm /\ ParentWindow => ParentWindow'
    PROVE  WInv'
  <1> USE ProcSets
  <1>0. Typed /\ Counters
    BY DEF WInv
  <1>1. \A q \in Procs : q # 0 => Same(q)
    BY <1>0, Moved
  <1>2. pc'[0] = x /\ i'[0] = n /\ xacts'[0] = k /\ mark'[0] = m
    BY <1>0, Moved
  <1>3. Counters'
    BY <1>0, Moved DEF Counters
  <1>4. Typed'
    BY <1>0 DEF Typed, Goes
  <1>5. ASSUME args.duration, Calm PROVE ParentWindow' /\ \A d \in Children : ChildWindow(d)'
    <2>1. ParentWindow'
      BY <1>5 DEF WInv
    <2>2. ASSUME NEW d \in Children PROVE ChildWindow(d)'
      <3>1. Same(d) /\ ChildWindow(d)
        BY <1>1, <1>5 DEF WInv
      <3>2. x = "go" => pc[0] = "go" \/ state[d] = SET
        BY <1>5 DEF AllSet
      <3>3. QED
        BY <1>2, <1>5, <3>1, <3>2 DEF Same, ChildWindow, Beginning,
         RampingUp, Measuring, RampingDown, Stopped, Near
    <2>3. QED
      BY <2>1, <2>2
  <1>6. ASSUME ~args.duration, Calm PROVE XactWindow'
    <2>1. XactWindow
      BY <1>6 DEF WInv
    <2>2. QED
      BY <1>1, <1>2, <1>6, <2>1 DEF XactWindow, Same
  <1>7. args' = args /\ (Calm' <=> Calm)
    BY DEF Calm
  <1>8. QED
    BY <1>3, <1>4, <1>5, <1>6, <1>7 DEF WInv

\* A step that writes a command to all of them.
LEMMA TellGoes ==
    ASSUME WInv, NEW x \in Places, NEW w \in INITIALIZED..ERROR,
           pc' = [pc EXCEPT ![0] = x], Tell(w), mark' \in [Procs -> Nat], timeup' \in BOOLEAN,
           UNCHANGED <<args, interrupted, errors, seen, i, xacts>>,
           ~args.duration /\ Calm /\ XactWindow =>
               /\ UNCHANGED <<phase, mark>>
               /\ x \notin {"startbench", "stopbench", "stop", "answer", "work"},
           args.duration /\ Calm /\ ParentWindow => ParentWindow',
           \A c \in Children :
               args.duration /\ Calm /\ ParentWindow /\ ChildWindow(c) => ChildWindow(c)'
    PROVE  WInv'
  <1> USE ProcSets
  <1>1. Typed'
    BY DEF WInv, Typed, Tell
  <1>2. Counters'
    BY DEF WInv, Counters
  <1>3. ASSUME ~args.duration, Calm PROVE XactWindow'
    BY <1>3 DEF WInv, XactWindow, Typed
  <1>4. args' = args /\ (Calm' <=> Calm)
    BY DEF Calm
  <1>5. QED
    BY <1>1, <1>2, <1>3, <1>4 DEF WInv

LEMMA ParentWInv == ASSUME WInv, Ramped, Parent PROVE WInv'
  <1> USE ProcSets, Words
  <1>0. /\ pc = [pc EXCEPT ![0] = pc[0]] /\ state = [state EXCEPT ![0] = state[0]]
        /\ seen = [seen EXCEPT ![0] = seen[0]] /\ i = [i EXCEPT ![0] = i[0]]
        /\ xacts = [xacts EXCEPT ![0] = xacts[0]] /\ mark = [mark EXCEPT ![0] = mark[0]]
    BY DEF WInv, Typed, Counters
  <1>t. /\ Typed /\ Counters
        /\ pc[0] \in Places /\ state[0] \in INITIALIZED..ERROR /\ seen[0] \in INITIALIZED..ERROR
        /\ i[0] \in Nat /\ xacts[0] \in Nat /\ mark[0] \in Nat
    BY DEF WInv, Typed, Counters
  <1>x. ~args.duration /\ Calm /\ XactWindow => /\ mark[0] = i[0] /\ xacts[0] \in (i[0] - 1)..i[0]
                                        /\ pc[0] # "answer" /\ (pc[0] = "work" => xacts[0] = i[0])
                                        /\ pc[0] \notin {"startbench", "stopbench", "stop"}
    BY DEF XactWindow
  <1>n. args.duration /\ Calm /\ pc[0] \notin After => ~ChildFailed
    BY NoneFailed
  <1> DEFINE Steady == UNCHANGED <<args, phase, timeup, interrupted, errors>>
             Stands(x, w) == Goes(0, x, w, seen[0], i[0], xacts[0], mark[0]) /\ Steady
             Kept == args.duration /\ Calm /\ ParentWindow => ParentWindow'
  <1>1. CASE Initialise(0)
    <2>1. Stands("barrier", state[0]) /\ pc[0] = "init" /\ reported' = reported
      BY <1>0, <1>1 DEF Initialise, At, GoTo, shared, parent, world, Goes
    <2>2. Kept
      BY <1>t, <1>n, <2>1, Moved DEF ParentWindow, Waiting, Before, After
    <2>3. QED
      BY <1>t, <1>x, <1>n, <2>1, <2>2, ParentGoes DEF Places, Running, Waiting, Before, After
  <1>2. CASE CheckChildren
    <2>1. PICK x \in {"finish", "ready"} : pc' = [pc EXCEPT ![0] = x] /\ (x = "finish" => ChildFailed)
      <3>1. CASE ChildFailed
        BY <1>2, <3>1 DEF CheckChildren, GiveUp, GoTo
      <3>2. CASE ~ChildFailed
        BY <1>2, <3>2 DEF CheckChildren, GoTo
      <3>3. QED
        BY <3>1, <3>2
    <2>2. Stands(x, state[0]) /\ pc[0] = "barrier" /\ reported' = reported
      BY <1>0, <1>2, <2>1 DEF CheckChildren, GiveUp, At, shared, parent, world, Goes
    <2>3. Kept
      BY <1>t, <1>n, <2>1, <2>2, Moved DEF ParentWindow, Waiting, Before, After
    <2>4. QED
      BY <1>t, <1>x, <1>n, <2>1, <2>2, <2>3, ParentGoes DEF Places, Running, Waiting, Before, After
  <1>3. CASE ReadyChildren
    <2>1. /\ pc[0] = "ready" /\ pc' = [pc EXCEPT ![0] = "pollset"] /\ Tell(READY)
          /\ UNCHANGED <<args, interrupted, errors, seen, i, xacts, mark, phase, timeup, reported>>
      BY <1>3 DEF ReadyChildren, At, GoTo, parent, world
    <2>2. /\ pc'[0] = "pollset" /\ \A c \in Children : pc'[c] = pc[c] /\ state'[c] = READY
      BY <1>t, <2>1 DEF Typed, Tell
    <2>3. Kept
      BY <2>1, <2>2 DEF ParentWindow, Waiting, Before, After
    <2>4. ASSUME NEW c \in Children, ChildWindow(c), ParentWindow PROVE ChildWindow(c)'
      BY <2>1, <2>2, <2>4 DEF ChildWindow, Beginning, RampingUp,
         Measuring, RampingDown, Stopped, Near, ParentWindow, Waiting, Before, After
    <2>5. mark' \in [Procs -> Nat] /\ timeup' \in BOOLEAN
      BY <1>t, <2>1 DEF Counters
    <2>6. QED
      <3>1. "pollset" \in Places /\ READY \in INITIALIZED..ERROR
        BY DEF Places
      <3>2. QED
        BY <2>1, <2>3, <2>4, <2>5, <3>1, TellGoes
  <1>4. CASE PollSet
    <2>1. PICK x \in {"finish", "go"} :
             /\ pc' = [pc EXCEPT ![0] = x] /\ (x = "finish" => ChildFailed)
             /\ x = "go" => AllSet
      <3>1. CASE ChildFailed
        BY <1>4, <3>1 DEF PollSet, GiveUp, GoTo
      <3>2. CASE ~ChildFailed
        BY <1>4, <3>2 DEF PollSet, GoTo
      <3>3. QED
        BY <3>1, <3>2
    <2>2. Stands(x, state[0]) /\ pc[0] = "pollset" /\ reported' = reported
      BY <1>0, <1>4, <2>1 DEF PollSet, GiveUp, At, shared, parent, world, Goes
    <2>3. Kept
      BY <1>t, <1>n, <2>1, <2>2, Moved DEF ParentWindow, Waiting, Before, After
    <2>4. QED
      BY <1>t, <1>x, <1>n, <2>1, <2>2, <2>3, ParentGoes DEF Places, Running, Waiting, Before, After
  <1>5. CASE StartChildren
    <2>1. PICK w \in {GO, STARTBENCH} : Tell(w) /\ (w = GO <=> args.rampup)
      <3>1. CASE args.rampup
        BY <1>5, <3>1 DEF StartChildren
      <3>2. CASE ~args.rampup
        BY <1>5, <3>2 DEF StartChildren
      <3>3. QED
        BY <3>1, <3>2
    <2>2. /\ pc[0] = "go" /\ pc' = [pc EXCEPT ![0] = "top"]
          /\ UNCHANGED <<args, interrupted, errors, seen, i, xacts, mark, phase, timeup, reported>>
      BY <1>5 DEF StartChildren, At, GoTo, parent, world
    <2>3. /\ pc'[0] = "top" /\ \A c \in Children : pc'[c] = pc[c] /\ state'[c] = w
      BY <1>t, <2>1, <2>2 DEF Typed, Tell
    <2>4. Kept
      BY <2>2, <2>3 DEF ParentWindow, Waiting, Before, After
    <2>5. ASSUME NEW c \in Children, ChildWindow(c), ParentWindow PROVE ChildWindow(c)'
      BY <1>t, <2>1, <2>2, <2>3, <2>5 DEF ChildWindow, Beginning, RampingUp,
         Measuring, RampingDown, Stopped, Near, ParentWindow, Waiting, Before, After
    <2>6. mark' \in [Procs -> Nat] /\ timeup' \in BOOLEAN
      BY <1>t, <2>2 DEF Counters
    <2>7. QED
      BY <2>1, <2>2, <2>4, <2>5, <2>6, TellGoes DEF Places, Running
  <1>6. CASE TopXact(0)
    <2>1. PICK x \in {"work", "finish"}, k \in Nat :
             /\ Goes(0, x, state[0], seen[0], i[0], k, mark[0])
             /\ (x = "work" /\ k = i[0]) \/ (x = "finish" /\ k = xacts[0])
      <3>0. /\ state' = [state EXCEPT ![0] = state[0]] /\ mark' = [mark EXCEPT ![0] = mark[0]]
            /\ seen' = [seen EXCEPT ![0] = seen[0]] /\ i' = [i EXCEPT ![0] = i[0]]
        BY <1>0, <1>6 DEF TopXact
      <3>1. CASE i[0] < NumXacts
        <4>1. Goes(0, "work", state[0], seen[0], i[0], i[0], mark[0])
          BY <1>6, <3>0, <3>1 DEF TopXact, GoTo, Goes
        <4>2. QED
          BY <1>t, <4>1
      <3>2. CASE ~(i[0] < NumXacts)
        <4>1. Goes(0, "finish", state[0], seen[0], i[0], xacts[0], mark[0])
          BY <1>0, <1>6, <3>0, <3>2 DEF TopXact, GoTo, Goes
        <4>2. QED
          BY <1>t, <4>1
      <3>3. QED
        BY <3>1, <3>2
    <2>2. Steady /\ ~args.duration
      BY <1>6 DEF TopXact, parent, world
    <2>3. QED
      BY <1>t, <1>x, <2>1, <2>2, ParentGoes DEF Places, Running
  <1>7. CASE ParentPoll
    <2>0. /\ args.duration /\ pc[0] = "top" /\ Steady /\ reported' = reported
          /\ seen' = [seen EXCEPT ![0] = seen[0]] /\ mark' = [mark EXCEPT ![0] = mark[0]]
      BY <1>0, <1>7, Zenon DEF ParentPoll, GiveUp, At, shared, parent, world
    <2>1. CASE timeup /\ ChildFailed
      <3>1. Stands("finish", state[0])
        BY <1>0, <1>7, <2>0, <2>1 DEF ParentPoll, GiveUp, GoTo, shared, Goes
      <3>2. Kept
        BY <1>n, <2>0, <2>1 DEF After
      <3>3. QED
        BY <1>t, <1>n, <2>0, <2>1, <3>1, <3>2, ParentGoes DEF Places, Running, Waiting, Before, After
    <2>2. CASE ~timeup
      <3>1. Stands("work", state[0])
        BY <1>0, <1>7, <2>0, <2>2 DEF ParentPoll, GoTo, Goes
      <3>2. Kept
        BY <1>t, <2>0, <3>1, Moved DEF ParentWindow, Waiting, Before, After
      <3>3. QED
        BY <1>t, <2>0, <3>1, <3>2, ParentGoes DEF Places, Running, Waiting, Before, After
    <2>3. CASE timeup /\ ~ChildFailed /\ phase = "rampup"
      <3>1. Goes(0, "startbench", MEASURING, seen[0], 0, xacts[0], mark[0])
        BY <1>0, <1>7, <2>0, <2>3 DEF ParentPoll, GoTo, Goes
      <3>2. Kept
        BY <1>t, <2>0, <2>3, <3>1, Moved DEF ParentWindow, Waiting, Before, After
      <3>3. QED
        BY <1>t, <2>0, <3>1, <3>2, ParentGoes DEF Places, Running, Waiting, Before, After
    <2>4. CASE timeup /\ ~ChildFailed /\ phase = "measure"
      <3>1. Goes(0, "stopbench", state[0], seen[0], i[0], i[0], mark[0])
        BY <1>0, <1>7, <2>0, <2>4 DEF ParentPoll, GoTo, Goes
      <3>2. Kept
        BY <1>t, <2>0, <2>4, <3>1, Moved DEF ParentWindow, Waiting, Before, After
      <3>3. QED
        BY <1>t, <2>0, <3>1, <3>2, ParentGoes DEF Places, Running, Waiting, Before, After
    <2>5. CASE timeup /\ ~ChildFailed /\ phase \notin {"rampup", "measure"}
      <3>1. Stands("stop", state[0])
        BY <1>0, <1>7, <2>0, <2>5 DEF ParentPoll, GoTo, Goes
      <3>2. Kept
        BY <1>t, <2>0, <2>5, <3>1, Moved DEF ParentWindow, Waiting, Before, After
      <3>3. QED
        BY <1>t, <2>0, <3>1, <3>2, ParentGoes DEF Places, Running, Waiting, Before, After
    <2>6. QED
      BY <2>1, <2>2, <2>3, <2>4, <2>5
  <1>8. CASE StartBench
    <2>1. /\ pc[0] = "startbench" /\ pc' = [pc EXCEPT ![0] = "work"] /\ Tell(STARTBENCH)
          /\ mark' = [p \in Procs |-> 0] /\ phase' = "measure" /\ timeup' = FALSE
          /\ UNCHANGED <<args, interrupted, errors, seen, i, xacts, reported>>
      BY <1>8 DEF StartBench, NoMark, At, GoTo, world
    <2>2. /\ pc'[0] = "work" /\ mark'[0] = 0
          /\ \A c \in Children : pc'[c] = pc[c] /\ state'[c] = STARTBENCH /\ mark'[c] = 0
      BY <1>t, <2>1 DEF Typed, Tell
    <2>3. Kept
      BY <2>1, <2>2 DEF ParentWindow, Waiting, Before, After
    <2>4. ASSUME NEW c \in Children, ChildWindow(c), ParentWindow PROVE ChildWindow(c)'
      BY <1>t, <2>1, <2>2, <2>4 DEF ChildWindow, Beginning, RampingUp,
         Measuring, RampingDown, Stopped, Near, ParentWindow, Waiting, Before, After
    <2>5. mark' \in [Procs -> Nat] /\ timeup' \in BOOLEAN
      BY <2>1
    <2>6. QED
      BY <1>x, <2>1, <2>3, <2>4, <2>5, TellGoes DEF Places, Running
  <1>9. CASE StopBench
    <2>1. PICK x \in {"work", "stop"} :
             /\ pc' = [pc EXCEPT ![0] = x]
             /\ args.rampdown => x = "work" /\ phase' = "rampdown" /\ timeup' = FALSE
      BY <1>9 DEF StopBench, GoTo
    <2>2. /\ pc[0] = "stopbench" /\ Tell(STOPBENCH) /\ timeup' \in {FALSE, timeup}
          /\ UNCHANGED <<args, interrupted, errors, seen, i, xacts, mark, reported>>
      BY <1>9 DEF StopBench, At, world
    <2>3. /\ pc'[0] = x /\ \A c \in Children : pc'[c] = pc[c] /\ state'[c] = STOPBENCH
      BY <1>t, <2>1, <2>2 DEF Typed, Tell
    <2>4. args.duration => args.rampdown
      BY <1>t DEF Counters, Ramped
    <2>5. Kept
      BY <2>1, <2>2, <2>3, <2>4 DEF ParentWindow, Waiting, Before, After
    <2>6. ASSUME args.duration, NEW c \in Children, ChildWindow(c), ParentWindow PROVE ChildWindow(c)'
      <3>1. state[c] = MEASURING /\ pc[c] \in {"top", "work"} /\ mark[c] \in i[c]..(i[c] + 1)
        BY <2>2, <2>6 DEF ChildWindow, Measuring, ParentWindow, Waiting, Before
      <3>2. /\ pc'[0] = "work" /\ phase' = "rampdown" /\ ~timeup'
            /\ pc'[c] = pc[c] /\ state'[c] = STOPBENCH /\ i'[c] = i[c] /\ mark'[c] = mark[c]
        BY <2>1, <2>2, <2>3, <2>4, <2>6
      <3>3. i[c] \in Nat /\ mark[c] \in Nat
        BY <1>t DEF Counters
      <3>4. RampingDown(c)'
        BY <3>1, <3>2, <3>3 DEF RampingDown
      <3>5. QED
        BY <3>2, <3>4 DEF ChildWindow, Waiting, Before, After
    <2>7. mark' \in [Procs -> Nat] /\ timeup' \in BOOLEAN
      BY <1>t, <2>2 DEF Counters
    <2>8. x \in Places /\ STOPBENCH \in INITIALIZED..ERROR /\ ~(~args.duration /\ Calm /\ XactWindow)
      BY <1>x, <2>2 DEF Places, Running
    <2>9. QED
      BY <2>1, <2>2, <2>5, <2>6, <2>7, <2>8, TellGoes
  <1>10. CASE StopChildren
    <2>1. /\ pc[0] = "stop" /\ pc' = [pc EXCEPT ![0] = "finish"] /\ Tell(STOP)
          /\ UNCHANGED <<args, interrupted, errors, seen, i, xacts, mark, phase, timeup, reported>>
      BY <1>10 DEF StopChildren, At, GoTo, parent, world
    <2>2. /\ pc'[0] = "finish" /\ \A c \in Children : pc'[c] = pc[c] /\ state'[c] = STOP
      BY <1>t, <2>1 DEF Typed, Tell
    <2>3. Kept
      BY <2>1, <2>2 DEF ParentWindow, Waiting, Before, After
    <2>4. ASSUME NEW c \in Children, ChildWindow(c), ParentWindow PROVE ChildWindow(c)'
      BY <2>1, <2>2, <2>4 DEF ChildWindow, Beginning, RampingUp,
         Measuring, RampingDown, Stopped, Near, ParentWindow, Waiting, Before, After
    <2>5. mark' \in [Procs -> Nat] /\ timeup' \in BOOLEAN
      BY <1>t, <2>1 DEF Counters
    <2>6. QED
      BY <2>1, <2>3, <2>4, <2>5, TellGoes DEF Places, Running
  <1>11. CASE Work(0)
    <2>1. PICK n, m \in Nat :
             /\ Goes(0, "top", state[0], seen[0], n, xacts[0], m)
             /\ ~args.duration => n = i[0] + 1
             /\ \/ n = i[0] /\ m = mark[0]
                \/ n = i[0] + 1 /\ m = mark[0] + 1 /\ phase = "measure"
                \/ n = i[0] + 1 /\ m = mark[0] /\ (phase # "measure" \/ ~Calm)
      <3>1. CASE args.duration /\ i[0] >= MaxXacts
        BY <1>0, <1>t, <1>11, <3>1 DEF Work, GoTo, shared, Goes
      <3>2. CASE ~(args.duration /\ i[0] >= MaxXacts)
        <4>1. /\ i' = [i EXCEPT ![0] = i[0] + 1]
              /\ mark' = IF phase = "measure" /\ errors = 0
                         THEN [mark EXCEPT ![0] = mark[0] + 1] ELSE mark
          BY <1>11, <3>2 DEF Work
        <4>2. \A m : mark' = [mark EXCEPT ![0] = m] => Goes(0, "top", state[0], seen[0], i[0] + 1, xacts[0], m)
          BY <1>0, <1>11, <4>1 DEF Work, GoTo, shared, Goes
        <4>3. CASE phase = "measure" /\ errors = 0
          <5>1. Goes(0, "top", state[0], seen[0], i[0] + 1, xacts[0], mark[0] + 1)
            BY <4>1, <4>2, <4>3
          <5>2. QED
            BY <1>t, <4>3, <5>1
        <4>4. CASE ~(phase = "measure" /\ errors = 0)
          <5>1. Goes(0, "top", state[0], seen[0], i[0] + 1, xacts[0], mark[0])
            BY <1>0, <4>1, <4>2, <4>4
          <5>2. QED
            BY <1>t, <4>4, <5>1 DEF Calm
        <4>5. QED
          BY <4>3, <4>4
      <3>3. QED
        BY <3>1, <3>2
    <2>2. Steady /\ pc[0] = "work" /\ reported' = reported
      BY <1>11 DEF Work, At, parent, world
    <2>3. Kept
      BY <1>t, <2>1, <2>2, Moved DEF ParentWindow, Waiting, Before, After
    <2>4. XactWindow => phase = "measure"
      BY DEF XactWindow
    <2>5. QED
      BY <1>t, <1>x, <2>1, <2>2, <2>3, <2>4, ParentGoes DEF Places, Running, Waiting, Before, After
  <1>12. CASE Finish(0)
    <2>1. PICK w \in {END, ERROR} : state' = [state EXCEPT ![0] = w]
      BY <1>12, Zenon DEF Finish
    <2>2. Stands("wait", w) /\ pc[0] = "finish" /\ reported' = reported
      BY <1>0, <1>12, <2>1 DEF Finish, At, GoTo, parent, world, Goes
    <2>3. Kept
      BY <1>t, <2>1, <2>2, Moved DEF ParentWindow, Waiting, Before, After
    <2>4. QED
      BY <1>t, <1>x, <2>1, <2>2, <2>3, ParentGoes DEF Places, Running, Waiting, Before, After
  <1>13. CASE WaitChildren
    <2>1. Stands("cleanup", state[0]) /\ pc[0] = "wait"
      BY <1>0, <1>13 DEF WaitChildren, At, GoTo, shared, parent, world, Goes
    <2>2. Kept
      BY <1>t, <1>n, <2>1, Moved DEF ParentWindow, Waiting, Before, After
    <2>3. QED
      BY <1>t, <1>x, <1>n, <2>1, <2>2, ParentGoes DEF Places, Running, Waiting, Before, After
  <1>14. CASE Cleanup(0)
    <2>1. Stands("gone", state[0]) /\ pc[0] = "cleanup" /\ reported' = reported
      BY <1>0, <1>14 DEF Cleanup, At, GoTo, shared, parent, world, Goes
    <2>2. Kept
      BY <1>t, <1>n, <2>1, Moved DEF ParentWindow, Waiting, Before, After
    <2>3. QED
      BY <1>t, <1>x, <1>n, <2>1, <2>2, ParentGoes DEF Places, Running, Waiting, Before, After
  <1>15. CASE Leave(0)
    <2>1. Stands("cleanup", state[0]) /\ ~Calm
      BY <1>0, <1>15 DEF Leave, GoTo, shared, parent, world, Goes, Calm
    <2>2. QED
      BY <1>t, <1>x, <2>1, ParentGoes DEF Places
  <1>16. QED
    BY <1>1, <1>2, <1>3, <1>4, <1>5, <1>6, <1>7, <1>8, <1>9, <1>10, <1>11, <1>12, <1>13, <1>14,
       <1>15 DEF Parent

-----------------------------------------------------------------------------

\* Time passes for the parent when every child has answered.
LEMMA TickWInv == ASSUME WInv, Ramped, Tick PROVE WInv'
  <1> USE ProcSets, Words
  <1>1. /\ timeup' = TRUE /\ args.duration /\ pc[0] \in {"top", "work"}
        /\ \A c \in Children : Answered(c)
        /\ UNCHANGED <<args, state, xacts, i, pc, seen, phase, reported, interrupted, errors, mark>>
    BY DEF Tick, Ramped, shared, world
  <1>2. Typed' /\ Counters'
    BY <1>1 DEF WInv, Typed, Counters
  <1>3. ASSUME ParentWindow PROVE ParentWindow'
    BY <1>1, <1>3 DEF ParentWindow, Waiting, Before, After
  <1>4. ASSUME NEW c \in Children, ChildWindow(c) PROVE ChildWindow(c)'
    BY <1>1, <1>4 DEF Answered, At, ChildWindow, Beginning, RampingUp,
         Measuring, RampingDown, Stopped, Near, Waiting, Before, After
  <1>5. Calm' => Calm
    BY <1>1 DEF Calm
  <1>6. QED
    BY <1>1, <1>2, <1>3, <1>4, <1>5 DEF WInv

\* Something went wrong: nothing is measured any more.
LEMMA DisturbedWInv ==
    ASSUME WInv, state' \in [Procs -> INITIALIZED..ERROR], pc' \in [Procs -> Places],
           mark' = NoMark, errors' \in Nat, interrupted' \in BOOLEAN, ~Calm',
           UNCHANGED <<args, xacts, i, seen, timeup>>
    PROVE  WInv'
  BY DEF WInv, Typed, Counters, NoMark

LEMMA FailWInv == ASSUME WInv, NEW p \in Procs, Fail(p) \/ Warn(p) PROVE WInv'
  <1>1. /\ state' = [state EXCEPT ![p] = ERROR] /\ errors' = errors + 1 /\ mark' = NoMark
        /\ pc' = pc \/ pc' = [pc EXCEPT ![p] = "gone"]
        /\ UNCHANGED <<args, xacts, i, seen, timeup, interrupted>>
    BY DEF Fail, Warn, SaysError, GoTo, parent
  <1>2. /\ state' \in [Procs -> INITIALIZED..ERROR] /\ pc' \in [Procs -> Places]
        /\ errors' \in Nat /\ interrupted' \in BOOLEAN /\ ~Calm'
    BY <1>1, Words DEF WInv, Typed, Counters, Calm, Places
  <1>3. QED
    BY <1>1, <1>2, DisturbedWInv

LEMMA InterruptWInv == ASSUME WInv, Interrupt PROVE WInv'
  <1>1. /\ interrupted' = TRUE /\ mark' = NoMark
        /\ UNCHANGED <<args, state, xacts, i, pc, seen, timeup, errors>>
    BY DEF Interrupt, shared, parent
  <1>2. /\ state' \in [Procs -> INITIALIZED..ERROR] /\ pc' \in [Procs -> Places]
        /\ errors' \in Nat /\ interrupted' \in BOOLEAN /\ ~Calm'
    BY <1>1 DEF WInv, Typed, Counters, Calm
  <1>3. QED
    BY <1>1, <1>2, DisturbedWInv

LEMMA StutterWInv == ASSUME WInv, UNCHANGED vars PROVE WInv'
  <1>1. UNCHANGED <<args, state, xacts, i, pc, seen, phase, timeup, reported, interrupted,
                    errors, mark>>
    BY DEF vars
  <1>2. Typed' /\ Counters' /\ (XactWindow => XactWindow') /\ (Calm' <=> Calm)
    BY <1>1 DEF WInv, Typed, Counters, XactWindow, Calm
  <1>3. ASSUME ParentWindow PROVE ParentWindow'
    BY <1>1, <1>3 DEF ParentWindow
  <1>4. ASSUME NEW c \in Children, ChildWindow(c) PROVE ChildWindow(c)'
    BY <1>1, <1>4 DEF ChildWindow, Beginning, RampingUp,
         Measuring, RampingDown, Stopped, Near
  <1>5. QED
    BY <1>1, <1>2, <1>3, <1>4 DEF WInv

LEMMA NextWInv == ASSUME Ramped PROVE WInv /\ [Next]_vars => WInv'
  BY ParentWInv, ChildWInv, FailWInv, InterruptWInv, TickWInv, StutterWInv DEF Next, Ended

\* For any number of processes, with or without ramp-up: what tptbm.c reports is
\* what every process has executed while the parent measured, up to one transaction
\* at each end, although nobody waits for a child to notice a command.
THEOREM SyncWindowCounted == ASSUME Ramped PROVE Spec => []WindowCounted
  <1>1. Init => WInv
    BY InitWInv
  <1>2. WInv /\ [Next]_vars => WInv'
    BY NextWInv
  <1>3. WInv => WindowCounted
    <2> SUFFICES ASSUME WInv, reported, Calm, NEW p \in Procs
                 PROVE  Near(p)
      BY DEF WindowCounted, Calm, Near
    <2>0. xacts[p] \in Nat /\ mark[p] \in Nat
      BY DEF WInv, Counters
    <2>1. CASE ~args.duration
      BY <2>0, <2>1 DEF WInv, Counters, XactWindow, Near
    <2>2. CASE args.duration
      <3>1. pc[0] \in After /\ phase = "rampdown" /\ xacts[0] = mark[0]
            /\ \A c \in Children : Near(c)
        BY <2>2 DEF WInv, ParentWindow, ChildWindow, Stopped
      <3>2. QED
        BY <2>0, <3>1, ProcSets DEF Near
    <2>3. QED
      BY <2>1, <2>2
  <1>4. QED
    BY <1>1, <1>2, <1>3, PTL DEF Spec
=============================================================================
