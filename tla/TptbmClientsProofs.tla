--------------------------- MODULE TptbmClientsProofs ---------------------------
(***************************************************************************)
(* No process of tptbmOCI or tptbmODPI executes before its parent has      *)
(* started the benchmark, and its parent reports the rate only when every  *)
(* process has executed all its transactions, for any number of processes, *)
(* runs and errors, also when a run finds the segment that an earlier one  *)
(* has left behind.                                                        *)
(***************************************************************************)
EXTENDS TptbmClients, TLAPS

Places == {"none", "parse_args", "populate", "shm", "fork", "connect", "begin", "poll",
           "work", "wait", "waitWord", "removeShm", "commit"} \cup Ended

Typed ==
    /\ opt \in Options
    /\ pc \in [Processes -> Places]
    /\ keyed \in Runs \cup {0} /\ seg \in [Runs -> Runs \cup {0}]
    /\ shm \in [Runs -> [0..MaxProcs -> Nat]]
    /\ at \in [Runs -> Nat \ {0}]
    /\ started \subseteq Runs

Top(r) == pc[<<r, 0>>]

\* One run after the other.
InOrder == \A r, s \in Runs : s < r /\ Top(r) # "none" => Top(s) \in Ended

\* A run gets its segment before its children.
Segments == \A r \in Runs :
    /\ Top(r) \in {"none", "parse_args", "populate", "shm"} => seg[r] = 0
    /\ Top(r) = "fork" => seg[r] # 0 /\ opt.procs > 1
    /\ \A c \in Children : c[1] = r /\ pc[c] # "none" => seg[r] # 0 /\ opt.procs > 1

\* A parent that is past its start has started the benchmark.
Begun == \A r \in Runs :
    Top(r) \in {"poll", "work", "wait", "waitWord", "removeShm", "commit"} => r \in started

\* Until then the words of its children are 0, whatever an earlier run left.
WordsZero == \A c \in Children :
    seg[c[1]] # 0 /\ Alone(c[1]) /\ c[1] \notin started => shm[seg[c[1]]][c[2]] = 0

ChildStarted == \A c \in Children : At(c, "work") /\ Alone(c[1]) => c[1] \in started

CInv == Typed /\ InOrder /\ Segments /\ Begun /\ WordsZero /\ ChildStarted

-----------------------------------------------------------------------------
LEMMA Sets ==
    /\ MaxProcs \in Nat \ {0}
    /\ \A p \in Processes : p[1] \in Runs /\ p[2] \in Nat /\ p[2] \in 0..MaxProcs /\ p = <<p[1], p[2]>>
    /\ \A r \in Runs : <<r, 0>> \in Processes /\ <<r, 0>> \in Parents
    /\ \A c \in Children : c \in Processes /\ c[2] # 0
    /\ \A p \in Processes : p \notin Children => p = <<p[1], 0>>
    /\ \A r \in Runs : r \in Nat /\ r # 0
  <1>1. MaxProcs \in {o.procs : o \in Options}
    BY ProcsAssumption DEF MaxProcs
  <1>2. MaxProcs \in Nat \ {0}
    BY <1>1, ClientsAssumption
  <1>3. QED
    BY <1>2, ClientsAssumption DEF Processes, Parents, Children, Runs

LEMMA InitCInv == Init => CInv
  BY Sets DEF Init, CInv, Typed, InOrder, Segments, Begun, WordsZero, ChildStarted, Top, At,
     Places, Ended

LEMMA OnePlace == ASSUME pc \in [Processes -> Places], NEW p \in Processes, NEW x \in Places,
                         pc[p] \notin Ended, pc' = pc \/ pc' = [pc EXCEPT ![p] = x]
                  PROVE  /\ pc' \in [Processes -> Places]
                         /\ \A q \in Processes : pc[q] \in Ended => pc'[q] = pc[q]
  OBVIOUS

\* What each step may do to the place of a process and to the memory.
LEMMA StepPlaces == ASSUME CInv, Next
    PROVE  /\ opt' = opt /\ pc' \in [Processes -> Places]
           /\ \A s \in Runs : Top(s) \in Ended => pc'[<<s, 0>>] = Top(s)
           /\ \A r \in Runs : seg[r] # 0 => seg'[r] = seg[r]
           /\ started \subseteq started' /\ started' \subseteq Runs
  <1> USE Sets DEF CInv, Typed, Goto, At, Exit, Fails, Error, OciError, DpiError,
          memory, work, history, Places, Ended, Top
  <1>1. ASSUME NEW r \in Runs, Start(r) \/ ParseArgs(r) \/ Usage(r)
        PROVE  /\ opt' = opt /\ UNCHANGED <<seg, started>>
               /\ \E x \in Places : pc' = [pc EXCEPT ![<<r, 0>>] = x]
               /\ Top(r) \notin Ended
    BY <1>1 DEF Start, ParseArgs, Usage, OciUsage, DpiUsage, OciParseArgs, DpiParseArgs, Top
  <1>2. ASSUME NEW r \in Runs, Populate(r) \/ OneProcess(r) 
        PROVE  /\ opt' = opt /\ UNCHANGED <<seg, started>>
               /\ \E x \in Places : pc' = [pc EXCEPT ![<<r, 0>>] = x]
               /\ Top(r) \notin Ended
    BY <1>2 DEF Populate, OneProcess, OciPopulate, DpiPopulate, Built, Top
  <1>3. ASSUME NEW r \in Runs, OpenShm(r)
        PROVE  /\ opt' = opt /\ UNCHANGED started
               /\ \E x \in Places : pc' = [pc EXCEPT ![<<r, 0>>] = x]
               /\ Top(r) \notin Ended
               /\ seg[r] = 0 /\ \A s \in Runs : s # r => seg'[s] = seg[s]
    BY <1>3 DEF OpenShm, OciOpenShm, OpenShmSeg, Top, Segments
  <1>4. ASSUME NEW r \in Runs, Spawn(r)
        PROVE  /\ opt' = opt /\ UNCHANGED <<seg, started>>
               /\ pc' \in [Processes -> Places]
               /\ \A s \in Runs : Top(s) \in Ended => pc'[<<s, 0>>] = Top(s)
    BY <1>4 DEF Spawn, OciFork, CreateChildProcs, Fork, Top
  <1>5. ASSUME NEW r \in Runs, Begin(r) \/ WaitChild(r) \/ Report(r) \/ RemoveShm(r)
        PROVE  /\ opt' = opt /\ UNCHANGED seg /\ started \subseteq started' /\ started' \subseteq Runs
               /\ \E x \in Places : pc' = pc \/ pc' = [pc EXCEPT ![<<r, 0>>] = x]
               /\ Top(r) \notin Ended
    BY <1>5 DEF Begin, WaitChild, OciWaitChild, DpiWaitChild, Report, RemoveShm, Top
  <1>6. ASSUME NEW r \in Runs, Interrupt(r)
        PROVE  /\ opt' = opt /\ UNCHANGED <<seg, started>>
               /\ pc' \in [Processes -> Places]
               /\ \A s \in Runs : Top(s) \in Ended => pc'[<<s, 0>>] = Top(s)
    BY <1>6 DEF Interrupt
  <1>7. ASSUME NEW p \in Processes, Process(p)
        PROVE  /\ opt' = opt /\ UNCHANGED <<seg, started>>
               /\ \E x \in Places : pc' = pc \/ pc' = [pc EXCEPT ![p] = x]
               /\ pc[p] \notin Ended
    BY <1>7 DEF Process, Connect, OciConnect, DpiConnect, AfterConnect, Poll, BeginTxn, Operation, OciExecute,
       DpiExecute, Complete, Cleanup, OciCleanup, DpiCleanup
  <1>8. ASSUME NEW p \in Processes, NEW x \in Places, pc[p] \notin Ended,
               pc' = pc \/ pc' = [pc EXCEPT ![p] = x]
        PROVE  /\ pc' \in [Processes -> Places]
               /\ \A s \in Runs : Top(s) \in Ended => pc'[<<s, 0>>] = Top(s)
    <2>1. /\ pc' \in [Processes -> Places]
          /\ \A q \in Processes : pc[q] \in Ended => pc'[q] = pc[q]
      BY <1>8, OnePlace
    <2>2. QED
      BY <2>1
  <1>9. CASE \E r \in Runs : Parent(r)
    <2>1. PICK r \in Runs : Parent(r)
      BY <1>9
    <2>2. CASE Spawn(r)
      BY <1>4, <2>2
    <2>3. CASE ~Spawn(r)
      <3>1. /\ opt' = opt /\ started \subseteq started' /\ started' \subseteq Runs
            /\ \A s \in Runs : seg[s] # 0 => seg'[s] = seg[s]
            /\ \E x \in Places : pc' = pc \/ pc' = [pc EXCEPT ![<<r, 0>>] = x]
            /\ pc[<<r, 0>>] \notin Ended
        BY <1>1, <1>2, <1>3, <1>5, <2>1, <2>3, Zenon DEF Parent, Top
      <3>2. QED
        BY <1>8, <3>1
    <2>4. QED
      BY <2>2, <2>3
  <1>10. CASE \E r \in Runs : Interrupt(r)
    BY <1>6, <1>10
  <1>11. CASE \E p \in Processes : Process(p)
    BY <1>7, <1>8, <1>11
  <1>12. QED
    BY <1>9, <1>10, <1>11 DEF Next

\* That nobody else has its segment is lost once a run has begun, never won.
LEMMA AloneBefore == ASSUME CInv, Next, NEW r \in Runs, seg[r] # 0, Alone(r)'
                     PROVE  Alone(r)
  <1>1. ASSUME NEW s \in Runs, s # r, seg[s] = seg[r]
        PROVE  s < r /\ At(<<s, 0>>, "killed")
    <2>1. seg'[s] = seg'[r] /\ seg'[r] # 0
      BY <1>1, StepPlaces
    <2>2. s < r /\ pc'[<<s, 0>>] = "killed"
      BY <1>1, <2>1 DEF Alone, At
    <2>3. Top(r) # "none"
      BY DEF CInv, Segments
    <2>4. Top(s) \in Ended
      BY <2>2, <2>3 DEF CInv, InOrder
    <2>5. QED
      BY <2>2, <2>4, StepPlaces DEF Top, At
  <1>2. QED
    BY <1>1 DEF Alone

-----------------------------------------------------------------------------
\* What each step may do to the shared memory.
LEMMA StepMemory == ASSUME Typed, Next
    PROVE  \/ UNCHANGED <<seg, shm>> /\ keyed' \in {keyed, 0}
           \/ \E r \in Runs : \E s \in {r, keyed} \ {0} :
                /\ Top(r) = "shm" /\ keyed' \in {keyed, s} /\ opt.procs > 1
                /\ seg' = [seg EXCEPT ![r] = s]
                /\ shm' = [shm EXCEPT ![s] = Cleared]
                /\ pc' = [pc EXCEPT ![<<r, 0>>] = "fork"]
           \/ \E r \in Runs :
                /\ Top(r) = "begin" /\ r \in started' /\ UNCHANGED <<seg, keyed>>
                /\ shm' = [shm EXCEPT ![seg[r]] =
                       [w \in 0..MaxProcs |-> IF w \in Words THEN 1 ELSE @[w]]]
           \/ \E p \in Processes :
                /\ Complete(p) /\ UNCHANGED <<seg, keyed>>
                /\ shm' = [shm EXCEPT ![seg[p[1]]][Slot(p)] = 0]
  <1>1. ASSUME NEW r \in Runs,
               Start(r) \/ ParseArgs(r) \/ Usage(r) \/ Populate(r) \/ OneProcess(r) \/ Spawn(r)
               \/ WaitChild(r) \/ Report(r) \/ RemoveShm(r) \/ Interrupt(r)
        PROVE  UNCHANGED <<seg, shm>> /\ keyed' \in {keyed, 0}
    BY <1>1 DEF Start, ParseArgs, Usage, Populate, OneProcess, Spawn, WaitChild, Report,
       RemoveShm, Interrupt, memory
  <1>2. ASSUME NEW p \in Processes,
               Connect(p) \/ Poll(p) \/ BeginTxn(p) \/ Operation(p) \/ Cleanup(p)
        PROVE  UNCHANGED memory
    BY <1>2 DEF Connect, Poll, BeginTxn, Operation, Cleanup
  <1>3. ASSUME NEW p \in Processes, Complete(p)
        PROVE  /\ UNCHANGED <<seg, keyed>>
               /\ shm' = shm \/ shm' = [shm EXCEPT ![seg[p[1]]][Slot(p)] = 0]
    BY <1>3 DEF Complete
  <1>4. ASSUME NEW r \in Runs, Begin(r)
        PROVE  /\ Top(r) = "begin" /\ r \in started' /\ UNCHANGED <<seg, keyed>>
               /\ \/ shm' = shm
                  \/ shm' = [shm EXCEPT ![seg[r]] =
                                [w \in 0..MaxProcs |-> IF w \in Words THEN 1 ELSE @[w]]]
    BY <1>4 DEF Begin, At, Top
  <1>5. ASSUME NEW r \in Runs, OpenShm(r)
        PROVE  \/ UNCHANGED memory
               \/ \E s \in {r, keyed} \ {0} :
                    /\ Top(r) = "shm" /\ keyed' \in {keyed, s} /\ opt.procs > 1
                    /\ seg' = [seg EXCEPT ![r] = s]
                    /\ shm' = [shm EXCEPT ![s] = Cleared]
                    /\ pc' = [pc EXCEPT ![<<r, 0>>] = "fork"]
    BY <1>5, Sets DEF OpenShm, OciOpenShm, OpenShmSeg, At, Top, Goto
  <1>6. QED
    BY <1>1, <1>2, <1>3, <1>4, <1>5 DEF Next, Parent, Process, memory

LEMMA WordSets == ASSUME Typed
    PROVE  /\ Cleared \in [0..MaxProcs -> Nat]
           /\ \A w \in 1..MaxProcs : Cleared[w] = 0
  BY Sets, ClientsAssumption DEF Typed, Cleared

LEMMA NextTyped == ASSUME CInv, Next PROVE Typed'
  <1> USE StepPlaces, Sets DEF CInv, Typed
  <1>1. keyed' \in Runs \cup {0} /\ seg' \in [Runs -> Runs \cup {0}]
    <2>1. ASSUME NEW r \in Runs, NEW k \in {r, keyed} \ {0}, keyed' \in {keyed, k},
                 seg' = [seg EXCEPT ![r] = k]
          PROVE  keyed' \in Runs \cup {0} /\ seg' \in [Runs -> Runs \cup {0}]
      BY <2>1
    <2>2. QED
      BY StepMemory, <2>1
  <1>2. shm' \in [Runs -> [0..MaxProcs -> Nat]]
    <2>1. ASSUME NEW r \in Runs, shm' = [shm EXCEPT ![seg[r]] =
                       [w \in 0..MaxProcs |-> IF w \in Words THEN 1 ELSE @[w]]]
          PROVE  shm' \in [Runs -> [0..MaxProcs -> Nat]]
      <3>1. ASSUME NEW q \in Runs
            PROVE  [w \in 0..MaxProcs |-> IF w \in Words THEN 1 ELSE shm[q][w]]
                       \in [0..MaxProcs -> Nat]
        <4>1. shm[q] \in [0..MaxProcs -> Nat]
          OBVIOUS
        <4>2. QED
          BY <4>1
      <3>2. /\ DOMAIN shm = Runs /\ shm' \in [Runs -> {shm'[q] : q \in Runs}]
            /\ \A q \in Runs : shm'[q] = IF q = seg[r]
                   THEN [w \in 0..MaxProcs |-> IF w \in Words THEN 1 ELSE shm[q][w]]
                   ELSE shm[q]
        BY <2>1
      <3>3. ASSUME NEW q \in Runs
            PROVE  shm'[q] \in [0..MaxProcs -> Nat]
        <4>1. CASE q = seg[r]
          BY <3>1, <3>2, <4>1, ZenonT(20)
        <4>2. CASE q # seg[r]
          <5>1. shm'[q] = shm[q] /\ shm[q] \in [0..MaxProcs -> Nat]
            BY <3>2, <4>2
          <5>2. QED
            BY <5>1
        <4>3. QED
          BY <4>1, <4>2
      <3>4. QED
        BY <3>2, <3>3
    <2>2. ASSUME NEW p \in Processes, shm' = [shm EXCEPT ![seg[p[1]]][Slot(p)] = 0]
          PROVE  shm' \in [Runs -> [0..MaxProcs -> Nat]]
      BY <2>2
    <2>3. ASSUME NEW s \in Runs, shm' = [shm EXCEPT ![s] = Cleared]
          PROVE  shm' \in [Runs -> [0..MaxProcs -> Nat]]
      BY <2>3, WordSets
    <2>4. keyed \in Runs \cup {0}
      OBVIOUS
    <2>5. QED
      BY StepMemory, <2>1, <2>2, <2>3, <2>4
  <1>3. at' \in [Runs -> Nat \ {0}]
    <2>1. ASSUME NEW r \in Runs, Parent(r) \/ Interrupt(r)
          PROVE  at' = at \/ at' = [at EXCEPT ![r] = @ + 1]
      BY <2>1 DEF Parent, Start, ParseArgs, Usage, Populate, OpenShm, OneProcess, Spawn, OciFork,
         CreateChildProcs, Fork, Begin, WaitChild, OciWaitChild, DpiWaitChild, Report, RemoveShm,
         Interrupt
    <2>2. ASSUME NEW p \in Processes, Process(p)
          PROVE  at' = at \/ at' = [at EXCEPT ![p[1]] = 1]
      BY <2>2 DEF Process, Connect, Poll, BeginTxn, Operation, Complete, Cleanup
    <2>3. QED
      BY <2>1, <2>2 DEF Next
  <1>4. QED
    BY <1>1, <1>2, <1>3

-----------------------------------------------------------------------------
Early == {"none", "parse_args", "populate", "shm"}
Late  == {"poll", "work", "wait", "waitWord", "removeShm", "commit"}

\* The way of a parent, and what starts a child and sets it to work.
Moves(r) ==
    /\ Top(r)' \in Early => Top(r) \in Early
    /\ Top(r) = "none" /\ Top(r)' # "none" => Start(r)
    /\ Top(r)' = "fork" => Top(r) = "fork" \/ (seg'[r] # 0 /\ opt.procs > 1)
    /\ Top(r)' \in Late => Top(r) \in Late \/ r \in started'
    /\ Top(r)' \in Early => seg'[r] = seg[r]

ChildMoves(c) ==
    /\ pc'[c] # "none" => pc[c] # "none" \/ Top(c[1]) = "fork"
    /\ pc'[c] = "work" => pc[c] = "work" \/ Poll(c)

LEMMA StepMoves == ASSUME CInv, Next
                   PROVE  (\A r \in Runs : Moves(r)) /\ (\A c \in Children : ChildMoves(c))
  <1> USE Sets DEF CInv, Typed, Moves, ChildMoves, Early, Late, Top, At, Goto, Exit, Fails,
          Error, OciError, DpiError, memory, history, Ended
  <1>1. ASSUME NEW r \in Runs, Start(r)
        PROVE  (\A q \in Runs : Moves(q)) /\ (\A c \in Children : ChildMoves(c))
    <2>1. /\ pc[<<r, 0>>] = "none" /\ pc' = [pc EXCEPT ![<<r, 0>>] = "parse_args"]
          /\ seg' = seg /\ started' = started
      BY <1>1 DEF Start
    <2>2. \A q \in Runs : Top(q)' = Top(q) \/ (q = r /\ Top(q)' = "parse_args" /\ Top(q) = "none")
      BY <2>1
    <2>3. \A q \in Runs : Moves(q)
      BY <1>1, <2>1, <2>2
    <2>4. \A c \in Children : ChildMoves(c)
      BY <2>1
    <2>5. QED
      BY <2>3, <2>4
  <1>2. ASSUME NEW r \in Runs, ParseArgs(r) \/ Usage(r)
        PROVE  (\A q \in Runs : Moves(q)) /\ (\A c \in Children : ChildMoves(c))
    <2>1. CASE ParseArgs(r)
      BY <2>1, ZenonT(40) DEF ParseArgs, OciParseArgs, DpiParseArgs
    <2>2. CASE Usage(r)
      BY <2>2 DEF Usage, OciUsage, DpiUsage
    <2>3. QED
      BY <1>2, <2>1, <2>2
  <1>3. ASSUME NEW r \in Runs, Populate(r) \/ OneProcess(r)
        PROVE  (\A q \in Runs : Moves(q)) /\ (\A c \in Children : ChildMoves(c))
    BY <1>3, ZenonT(40) DEF Populate, OneProcess, OciPopulate, DpiPopulate, Built
  <1>4. ASSUME NEW r \in Runs, OpenShm(r)
        PROVE  (\A q \in Runs : Moves(q)) /\ (\A c \in Children : ChildMoves(c))
    BY <1>4, ZenonT(40) DEF OpenShm, OciOpenShm, OpenShmSeg
  <1>5. ASSUME NEW r \in Runs, Spawn(r)
        PROVE  (\A q \in Runs : Moves(q)) /\ (\A c \in Children : ChildMoves(c))
    <2>1. /\ pc[<<r, 0>>] = "fork" /\ seg' = seg
          /\ \/ pc' = [pc EXCEPT ![<<r, at[r]>>] = "connect", ![<<r, 0>>] = "connect"]
             \/ pc' = [pc EXCEPT ![<<r, at[r]>>] = "connect", ![<<r, 0>>] = "fork"]
             \/ pc' = [pc EXCEPT ![<<r, 0>>] = "failed"]
      BY <1>5 DEF Spawn, OciFork, CreateChildProcs, Fork
    <2>2. \A q \in Runs : pc'[<<q, 0>>] = pc[<<q, 0>>]
                           \/ (q = r /\ pc'[<<q, 0>>] \in {"connect", "fork", "failed"})
      BY <2>1
    <2>3. ASSUME NEW c \in Children
          PROVE  pc'[c] = pc[c] \/ (c[1] = r /\ pc'[c] = "connect")
      <3>1. c \in Processes /\ c # <<r, 0>>
        OBVIOUS
      <3>2. CASE c = <<r, at[r]>>
        BY <2>1, <3>1, <3>2
      <3>3. CASE c # <<r, at[r]>>
        BY <2>1, <3>1, <3>3
      <3>4. QED
        BY <3>2, <3>3
    <2>4. \A q \in Runs : Moves(q)
      BY <2>1, <2>2
    <2>5. \A c \in Children : ChildMoves(c)
      BY <2>1, <2>3
    <2>6. QED
      BY <2>4, <2>5
  <1>6. ASSUME NEW r \in Runs, Begin(r)
        PROVE  (\A q \in Runs : Moves(q)) /\ (\A c \in Children : ChildMoves(c))
    BY <1>6 DEF Begin
  <1>7. ASSUME NEW r \in Runs, WaitChild(r) \/ Report(r) \/ RemoveShm(r)
        PROVE  (\A q \in Runs : Moves(q)) /\ (\A c \in Children : ChildMoves(c))
    BY <1>7, ZenonT(40) DEF WaitChild, OciWaitChild, DpiWaitChild, Report, RemoveShm
  <1>8. ASSUME NEW r \in Runs, Interrupt(r)
        PROVE  (\A q \in Runs : Moves(q)) /\ (\A c \in Children : ChildMoves(c))
    BY <1>8 DEF Interrupt
  <1>9. ASSUME NEW p \in Processes, Poll(p)
        PROVE  (\A q \in Runs : Moves(q)) /\ (\A c \in Children : ChildMoves(c))
    BY <1>9 DEF Poll
  <1>10. ASSUME NEW p \in Processes, Connect(p)
        PROVE  (\A q \in Runs : Moves(q)) /\ (\A c \in Children : ChildMoves(c))
    <2>1. /\ pc[p] = "connect" /\ UNCHANGED <<seg, started>>
          /\ pc' = [pc EXCEPT ![p] = IF p \in Parents THEN "begin" ELSE "poll"]
             \/ pc' = [pc EXCEPT ![p] = "failed"]
      BY <1>10 DEF Connect, OciConnect, DpiConnect, AfterConnect
    <2>2. ASSUME NEW q \in Runs
          PROVE  pc'[<<q, 0>>] \in {pc[<<q, 0>>], "begin", "failed"}
      <3>1. <<q, 0>> \in Processes /\ <<q, 0>> \in Parents
        OBVIOUS
      <3>2. CASE p = <<q, 0>>
        BY <2>1, <3>1, <3>2
      <3>3. CASE p # <<q, 0>>
        BY <2>1, <3>1, <3>3
      <3>4. QED
        BY <3>2, <3>3
    <2>3. \A c \in Children : pc'[c] = pc[c] \/ (pc[c] = "connect" /\ pc'[c] \in {"begin", "poll", "failed"})
      BY <2>1
    <2>4. \A q \in Runs : pc[<<q, 0>>] = "none" => pc'[<<q, 0>>] = "none"
      BY <2>1
    <2>5. \A q \in Runs : Moves(q)
      BY <2>1, <2>2, <2>4
    <2>6. \A c \in Children : ChildMoves(c)
      BY <2>3
    <2>7. QED
      BY <2>5, <2>6
  <1>11. ASSUME NEW p \in Processes, BeginTxn(p) \/ Operation(p)
        PROVE  (\A q \in Runs : Moves(q)) /\ (\A c \in Children : ChildMoves(c))
    <2>1. /\ pc[p] = "work" /\ seg' = seg
          /\ pc' = pc \/ pc' = [pc EXCEPT ![p] = "failed"]
      BY <1>11 DEF BeginTxn, Operation, OciExecute, DpiExecute
    <2>2. \A q \in Runs : Top(q)' = Top(q) \/ (Top(q) = "work" /\ Top(q)' = "failed")
      BY <2>1
    <2>3. \A q \in Runs : Moves(q)
      BY <2>1, <2>2
    <2>4. \A c \in Children : ChildMoves(c)
      BY <2>1
    <2>5. QED
      BY <2>3, <2>4
  <1>12. ASSUME NEW p \in Processes, Complete(p) \/ Cleanup(p)
        PROVE  (\A q \in Runs : Moves(q)) /\ (\A c \in Children : ChildMoves(c))
    BY <1>12 DEF Complete, Cleanup, OciCleanup, DpiCleanup
  <1>13. QED
    BY <1>1, <1>2, <1>3, <1>4, <1>5, <1>6, <1>7, <1>8, <1>9, <1>10, <1>11, <1>12
       DEF Next, Parent, Process

LEMMA NextInOrder == ASSUME CInv, Next PROVE InOrder'
  <1> SUFFICES ASSUME NEW r \in Runs, NEW s \in Runs, s < r, Top(r)' # "none"
               PROVE  Top(s)' \in Ended
    BY DEF InOrder, Ended
  <1>1. Top(s) \in Ended
    <2>1. CASE Top(r) # "none"
      BY <2>1 DEF CInv, InOrder
    <2>2. CASE Top(r) = "none"
      BY <2>2, StepMoves DEF Moves, Start, Top
    <2>3. QED
      BY <2>1, <2>2
  <1>2. QED
    BY <1>1, StepPlaces DEF Top

LEMMA NextSegments == ASSUME CInv, Next PROVE Segments'
  <1>1. ASSUME NEW r \in Runs
        PROVE  /\ Top(r)' \in Early => seg'[r] = 0
               /\ Top(r)' = "fork" => seg'[r] # 0 /\ opt'.procs > 1
    BY StepMoves, StepPlaces DEF Moves, CInv, Segments, Early
  <1>2. ASSUME NEW r \in Runs, NEW c \in Children, c[1] = r, pc'[c] # "none"
        PROVE  seg'[r] # 0 /\ opt'.procs > 1
    BY <1>2, StepMoves, StepPlaces DEF ChildMoves, CInv, Segments
  <1>3. QED
    BY <1>1, <1>2 DEF Segments, Early

LEMMA NextBegun == ASSUME CInv, Next PROVE Begun'
  BY StepMoves, StepPlaces DEF Moves, Late, CInv, Begun

LEMMA NextWordsZero == ASSUME CInv, Next PROVE WordsZero'
  <1> SUFFICES ASSUME NEW c \in Children, seg'[c[1]] # 0, Alone(c[1])', c[1] \notin started'
               PROVE  shm'[seg'[c[1]]][c[2]] = 0
    BY DEF WordsZero
  <1> USE Sets, StepPlaces DEF CInv, Typed
  <1> DEFINE r == c[1]
  <1>0. r \in Runs /\ c[2] \in 1..MaxProcs /\ r \notin started
    OBVIOUS
  <1>1. ASSUME seg[r] # 0
        PROVE  Alone(r) /\ shm[seg[r]][c[2]] = 0 /\ seg'[r] = seg[r] /\ seg[r] \in Runs
    BY <1>0, <1>1, AloneBefore DEF WordsZero
  <1>2. CASE UNCHANGED <<seg, shm>>
    BY <1>1, <1>2
  <1>3. ASSUME NEW q \in Runs, NEW s \in {q, keyed} \ {0},
               seg' = [seg EXCEPT ![q] = s], shm' = [shm EXCEPT ![s] = Cleared]
        PROVE  shm'[seg'[r]][c[2]] = 0
    <2>1. s \in Runs /\ shm'[s] = Cleared /\ Cleared[c[2]] = 0
      BY <1>0, <1>3, WordSets
    <2>2. CASE seg'[r] = s
      BY <2>1, <2>2
    <2>3. CASE seg'[r] # s
      <3>1. seg'[r] = seg[r]
        BY <1>0, <1>3, <2>3
      <3>2. QED
        BY <1>1, <1>3, <2>3, <3>1
    <2>4. QED
      BY <2>2, <2>3
  <1>4. ASSUME NEW q \in Runs, Top(q) = "begin", q \in started', seg' = seg,
               shm' = [shm EXCEPT ![seg[q]] =
                          [w \in 0..MaxProcs |-> IF w \in Words THEN 1 ELSE @[w]]]
        PROVE  shm'[seg'[r]][c[2]] = 0
    <2>1. q # r /\ seg[r] # 0
      BY <1>4
    <2>2. seg[q] # seg[r]
      BY <1>1, <1>4, <2>1 DEF Alone, At, Top
    <2>3. QED
      BY <1>1, <1>4, <2>1, <2>2
  <1>5. ASSUME NEW p \in Processes, seg' = seg,
               shm' = [shm EXCEPT ![seg[p[1]]][Slot(p)] = 0]
        PROVE  shm'[seg'[r]][c[2]] = 0
    <2>1. seg[r] # 0 /\ shm[seg[r]][c[2]] = 0 /\ seg[r] \in Runs
      BY <1>1, <1>5
    <2>2. /\ shm \in [Runs -> [0..MaxProcs -> Nat]] /\ c[2] \in 0..MaxProcs
          /\ shm' = [shm EXCEPT ![seg[p[1]]] = [shm[seg[p[1]]] EXCEPT ![Slot(p)] = 0]]
      BY <1>0, <1>5
    <2>3. shm'[seg[r]][c[2]] \in {0, shm[seg[r]][c[2]]}
      <3>1. CASE seg[p[1]] = seg[r]
        <4>1. shm[seg[r]] \in [0..MaxProcs -> Nat]
          BY <2>1, <2>2
        <4> HIDE DEF CInv, Typed
        <4>2. shm' = [shm EXCEPT ![seg[r]] = [shm[seg[r]] EXCEPT ![Slot(p)] = 0]]
          BY <2>2, <3>1
        <4>3. shm'[seg[r]] = [shm[seg[r]] EXCEPT ![Slot(p)] = 0]
          BY <2>1, <2>2, <4>2
        <4>4. QED
          BY <2>2, <4>1, <4>3
      <3>2. CASE seg[p[1]] # seg[r]
        BY <2>1, <2>2, <3>2
      <3>3. QED
        BY <3>1, <3>2
    <2>4. QED
      BY <1>5, <2>1, <2>3
  <1>6. Typed
    OBVIOUS
  <1> HIDE DEF CInv, Typed
  <1>7. QED
    BY <1>2, <1>3, <1>4, <1>5, <1>6, StepMemory

LEMMA NextChildStarted == ASSUME CInv, Next PROVE ChildStarted'
  <1> SUFFICES ASSUME NEW c \in Children, pc'[c] = "work", Alone(c[1])'
               PROVE  c[1] \in started'
    BY DEF ChildStarted, At
  <1>1. pc[c] = "work" \/ Poll(c)
    BY StepMoves, Sets DEF ChildMoves
  <1>2. c \in Processes /\ c[1] \in Runs
    BY Sets
  <1>3. pc[c] # "none"
    BY <1>1 DEF Poll, At
  <1>4. seg[c[1]] # 0 /\ opt.procs > 1
    BY <1>2, <1>3 DEF CInv, Segments
  <1>5. Alone(c[1])
    BY <1>2, <1>4, AloneBefore
  <1>6. CASE pc[c] = "work"
    BY <1>5, <1>6, StepPlaces DEF CInv, ChildStarted, At
  <1>7. CASE Poll(c)
    <2>1. shm[seg[c[1]]][c[2]] # 0
      BY <1>4, <1>7 DEF Poll, Polled, Slot, OciSlot, DpiSlot, Children
    <2>2. QED
      BY <1>4, <1>5, <2>1, StepPlaces DEF CInv, WordsZero
  <1>8. QED
    BY <1>1, <1>6, <1>7

LEMMA NextCInv == CInv /\ [Next]_vars => CInv'
  <1>1. ASSUME CInv, Next PROVE CInv'
    BY <1>1, NextTyped, NextInOrder, NextSegments, NextBegun, NextWordsZero, NextChildStarted
       DEF CInv
  <1>2. ASSUME CInv, UNCHANGED vars PROVE CInv'
    BY <1>2 DEF CInv, Typed, InOrder, Segments, Begun, WordsZero, ChildStarted, Top, At, Alone,
       vars, memory, history
  <1>3. QED
    BY <1>1, <1>2

\* No process of a run that has a segment to itself executes before the parent
\* has started the benchmark ("the child polls for a value of 1").
THEOREM ClientsStartedByParent == Spec => []StartedByParent
  <1>1. CInv => StartedByParent
    <2> SUFFICES ASSUME CInv, NEW p \in Processes, pc[p] = "work", Alone(p[1])
                 PROVE  p[1] \in started
      BY DEF StartedByParent, At
    <2>1. CASE p \in Children
      BY <2>1 DEF CInv, ChildStarted, At
    <2>2. CASE p \notin Children
      BY <2>2, Sets DEF CInv, Begun, Top
    <2>3. QED
      BY <2>1, <2>2
  <1>2. QED
    BY <1>1, InitCInv, NextCInv, PTL DEF Spec

-----------------------------------------------------------------------------
(* What the parent reports.                                                *)

\* "If 100% reads then no commit is executed"; only ODPI counts on a commit.
Committing == opt.api = "odpi" /\ Percentages["read"] # 100

Finished(p) ==
    \/ pc[p] \in {"failed", "killed"}
    \/ xact[p] = opt.xacts /\ left[p] = 0 /\ (Committing => ~dirty[p])

Counted ==
    /\ left \in [Processes -> Nat] /\ xact \in [Processes -> Nat]
    /\ dirty \in [Processes -> BOOLEAN] /\ reported \subseteq Runs

Before == Early \cup {"fork", "connect", "begin", "poll"}
After  == {"wait", "waitWord", "removeShm", "commit", "done"}

\* A process leaves its work when it has executed all of it; -build ends before.
WorkDone(p) ==
    /\ pc[p] \in Before => left[p] = 0 /\ xact[p] = 0 /\ ~dirty[p]
    /\ pc[p] = "work" /\ left[p] = 0 /\ Committing => ~dirty[p]
    /\ pc[p] \in After =>
          Finished(p) \/ (p \in Parents /\ pc[p] = "done" /\ p[1] \notin started)

WorksDone == \A p \in Processes : WorkDone(p)

\* Ctrl-C ends a parent and its children together.
KilledTogether == \A p \in Processes : Top(p[1]) = "killed" => pc[p] \in Ended \cup {"none"}

\* The children before at[r] are there, those after it are not.
Forked == \A r \in Runs : \A c \in Children : c[1] = r =>
    /\ Top(r) \in Early => at[r] = 1
    /\ Top(r) = "fork" /\ c[2] < at[r] => pc[c] # "none"
    /\ Top(r) \in Early \cup {"fork"} /\ at[r] <= c[2] => pc[c] = "none"
    /\ Top(r) \in {"connect", "begin"} \cup Late /\ c[2] < opt.procs => pc[c] # "none"

StartedLate == \A r \in started :
    Top(r) \in Late \cup Ended /\ (opt.procs > 1 => seg[r] # 0)

\* The word of a child stays 1 until the child itself sets it to 0.
WordsOne == \A c \in Children :
    c[2] < opt.procs /\ c[1] \in started /\ Alone(c[1]) =>
        Finished(c) \/ shm[seg[c[1]]][c[2]] = 1

\* The parent has waited for the children before at[r].
Waited == \A c \in Children :
    Top(c[1]) \in {"wait", "waitWord"} /\ Alone(c[1]) /\ c[2] < at[c[1]] => Finished(c)

Reported == \A r \in reported :
    /\ r \in started /\ Top(r) \in {"removeShm", "commit"} \cup Ended
    /\ Alone(r) => \A p \in Processes : p[1] = r /\ p[2] < opt.procs => Finished(p)

RInv ==
    /\ CInv /\ Counted /\ WorksDone /\ KilledTogether /\ Forked
    /\ StartedLate /\ WordsOne /\ Waited /\ Reported

LEMMA InitRInv == Init => RInv
  <1> SUFFICES ASSUME Init PROVE RInv
    OBVIOUS
  <1>1. CInv
    BY InitCInv
  <1>2. Counted /\ WorksDone
    BY Sets DEF Init, Counted, WorksDone, WorkDone, After
  <1>3. KilledTogether /\ Forked /\ StartedLate /\ WordsOne /\ Waited /\ Reported
    BY Sets DEF Init, KilledTogether, Forked, StartedLate, WordsOne, Waited, Reported, Top, Ended,
       Early, Late
  <1>4. QED
    BY <1>1, <1>2, <1>3 DEF RInv

LEMMA SameCommitting == ASSUME opt' = opt PROVE Committing' = Committing
  BY DEF Committing, Percentages, Sum

-----------------------------------------------------------------------------
\* A step in the life of a process.
Stays(p) == left'[p] = left[p] /\ xact'[p] = xact[p] /\ dirty'[p] = dirty[p]

Born(c) == c[2] = at[c[1]] /\ at'[c[1]] = at[c[1]] + 1

Life(p) ==
    \/ Stays(p) /\ pc'[p] = pc[p]
    \/ Stays(p) /\ pc[p] \notin Ended \cup {"none"} /\ pc'[p] = "failed"
    \/ Stays(p) /\ pc[p] \notin Ended \cup {"none"} /\ pc'[p] = "killed" /\ Interrupt(p[1])
    \/ /\ Stays(p) /\ pc[p] \in Before /\ pc'[p] \in (Before \cup {"work"}) \ {"none"}
       /\ pc[p] = "none" => p \in Parents \/ Born(p)
    \/ Stays(p) /\ p \in Parents /\ pc[p] = "populate" /\ pc'[p] = "done"
    \/ /\ pc[p] = "work" /\ pc'[p] = "work" /\ left[p] = 0 /\ xact[p] < opt.xacts
       /\ left'[p] # 0 /\ xact'[p] = xact[p] /\ dirty'[p] = dirty[p]
    \/ /\ pc[p] = "work" /\ pc'[p] \in {"work", "failed"} /\ left[p] # 0
       /\ pc'[p] = "work" /\ left'[p] = 0 /\ Committing => ~dirty'[p]
    \/ /\ pc[p] = "work" /\ pc'[p] \in {"wait", "commit"} /\ left[p] = 0
       /\ xact[p] = opt.xacts /\ Stays(p)
    \/ Stays(p) /\ pc[p] \in After \ {"done"} /\ pc'[p] \in After \ {"done"}
    \/ /\ pc[p] = "commit" /\ pc'[p] = "done"
       /\ left'[p] = left[p] /\ xact'[p] = xact[p] /\ ~dirty'[p]

Lives == Counted' /\ \A p \in Processes : Life(p)

LEMMA SetFlag == ASSUME dirty \in [Processes -> BOOLEAN], NEW p \in Processes, NEW b \in BOOLEAN,
                        dirty' = [dirty EXCEPT ![p] = b]
                 PROVE  /\ dirty' \in [Processes -> BOOLEAN]
                        /\ dirty'[p] = b
                        /\ \A q \in Processes : q # p => dirty'[q] = dirty[q]
  OBVIOUS

\* The steps that move one process and leave the work alone.
LEMMA OneLife == ASSUME RInv, NEW p \in Processes, NEW x \in Places, UNCHANGED <<work, reported>>,
                        pc' = [pc EXCEPT ![p] = x],
                        \/ x = "failed" /\ pc[p] \notin Ended \cup {"none"}
                        \/ /\ pc[p] \in Before /\ x \in (Before \cup {"work"}) \ {"none"}
                           /\ pc[p] = "none" => p \in Parents
                        \/ p \in Parents /\ pc[p] = "populate" /\ x = "done"
                        \/ pc[p] = "work" /\ x \in {"wait", "commit"} /\ left[p] = 0
                           /\ xact[p] = opt.xacts
                        \/ pc[p] \in After \ {"done"} /\ x \in After \ {"done"}
                 PROVE  Lives
  BY DEF RInv, CInv, Typed, Counted, Lives, Life, Stays, work

LEMMA StepLife == ASSUME RInv, Next PROVE Lives
  <1> USE Sets DEF RInv, CInv, Typed, Goto, At, Exit, Fails, Error, OciError, DpiError, history,
          Places, Ended, Before, After, Early
  <1>1. ASSUME NEW r \in Runs, Start(r) \/ ParseArgs(r) \/ Usage(r) PROVE Lives
    <2>1. /\ UNCHANGED <<work, reported>> /\ pc[<<r, 0>>] \in Before
          /\ \E x \in {"parse_args", "populate", "failed"} :
                pc' = [pc EXCEPT ![<<r, 0>>] = x] /\ (x = "failed" => pc[<<r, 0>>] = "parse_args")
      BY <1>1 DEF Start, ParseArgs, Usage, OciUsage, DpiUsage, OciParseArgs, DpiParseArgs
    <2>2. QED
      BY <2>1, OneLife
  <1>2. ASSUME NEW r \in Runs, Populate(r) PROVE Lives
    <2>1. /\ UNCHANGED <<work, reported>> /\ pc[<<r, 0>>] = "populate"
          /\ \E x \in {"shm", "done", "failed"} : pc' = [pc EXCEPT ![<<r, 0>>] = x]
      BY <1>2 DEF Populate, OciPopulate, DpiPopulate, Built
    <2>2. QED
      BY <2>1, OneLife
  <1>3. ASSUME NEW r \in Runs, OpenShm(r) \/ OneProcess(r) PROVE Lives
    <2>1. /\ UNCHANGED <<work, reported>> /\ pc[<<r, 0>>] = "shm"
          /\ \E x \in {"fork", "connect", "failed"} : pc' = [pc EXCEPT ![<<r, 0>>] = x]
      BY <1>3 DEF OpenShm, OneProcess
    <2>2. QED
      BY <2>1, OneLife
  <1>4. ASSUME NEW r \in Runs, Spawn(r) PROVE Lives
    <2>1. /\ UNCHANGED <<work, reported>> /\ pc[<<r, 0>>] = "fork" /\ at[r] \in Nat \ {0}
          /\ \/ /\ at[r] < opt.procs /\ at'[r] = at[r] + 1
                /\ \/ pc' = [pc EXCEPT ![<<r, at[r]>>] = "connect", ![<<r, 0>>] = "connect"]
                   \/ pc' = [pc EXCEPT ![<<r, at[r]>>] = "connect", ![<<r, 0>>] = "fork"]
             \/ pc' = [pc EXCEPT ![<<r, 0>>] = "failed"]
      BY <1>4 DEF Spawn, OciFork, CreateChildProcs, Fork
    <2>2. CASE pc' = [pc EXCEPT ![<<r, 0>>] = "failed"]
      BY <2>1, <2>2, OneLife
    <2>3. CASE /\ at[r] < opt.procs /\ at'[r] = at[r] + 1
               /\ \E x \in {"connect", "fork"} :
                     pc' = [pc EXCEPT ![<<r, at[r]>>] = "connect", ![<<r, 0>>] = x]
      <3>1. <<r, at[r]>> \in Children => pc[<<r, at[r]>>] = "none"
        BY <2>1 DEF Forked, Top
      <3>2. ASSUME NEW p \in Processes PROVE Life(p)
        <4>1. CASE p = <<r, at[r]>>
          <5>1. p \in Children
            BY <2>1, <4>1 DEF Children, Parents
          <5>2. pc'[p] = "connect" /\ pc[p] = "none"
            BY <2>1, <2>3, <3>1, <4>1, <5>1
          <5>3. Born(p)
            BY <2>3, <4>1 DEF Born
          <5>4. QED
            BY <2>1, <5>2, <5>3 DEF Life, Stays, work
        <4>2. CASE p = <<r, 0>>
          BY <2>1, <2>3, <4>2 DEF Life, Stays, work
        <4>3. CASE p # <<r, at[r]>> /\ p # <<r, 0>>
          BY <2>1, <2>3, <4>3 DEF Life, Stays, work
        <4>4. QED
          BY <4>1, <4>2, <4>3
      <3>3. QED
        BY <2>1, <3>2 DEF Lives, Counted, work
    <2>4. QED
      BY <2>1, <2>2, <2>3
  <1>5. ASSUME NEW r \in Runs, Begin(r) PROVE Lives
    <2>1. /\ UNCHANGED <<work, reported>> /\ pc[<<r, 0>>] = "begin"
          /\ pc' = [pc EXCEPT ![<<r, 0>>] = "poll"]
      BY <1>5 DEF Begin
    <2>2. QED
      BY <2>1, OneLife
  <1>6. ASSUME NEW r \in Runs, WaitChild(r) \/ RemoveShm(r) PROVE Lives
    <2>1. /\ UNCHANGED <<work, reported>> /\ pc[<<r, 0>>] \in After \ {"done"}
          /\ pc' = pc \/ \E x \in After \ {"done"} : pc' = [pc EXCEPT ![<<r, 0>>] = x]
      BY <1>6 DEF WaitChild, OciWaitChild, DpiWaitChild, RemoveShm
    <2>2. CASE pc' = pc
      BY <2>1, <2>2 DEF Lives, Counted, Life, Stays, work
    <2>3. QED
      BY <2>1, <2>2, OneLife
  <1>7. ASSUME NEW r \in Runs, Report(r) PROVE Lives
    <2>1. /\ UNCHANGED work /\ pc[<<r, 0>>] \in After \ {"done"} /\ reported' \subseteq Runs
          /\ \E x \in After \ {"done"} : pc' = [pc EXCEPT ![<<r, 0>>] = x]
      BY <1>7 DEF Report, Counted
    <2>2. QED
      BY <2>1, ZenonT(40) DEF Lives, Counted, Life, Stays, work
  <1>8. ASSUME NEW r \in Runs, Interrupt(r) PROVE Lives
    <2>1. /\ UNCHANGED <<work, reported>>
          /\ \A p \in Processes : pc'[p] = pc[p] \/
                 (p[1] = r /\ pc[p] \notin Ended \cup {"none"} /\ pc'[p] = "killed")
      BY <1>8 DEF Interrupt
    <2>2. ASSUME NEW p \in Processes PROVE Life(p)
      <3>1. Stays(p)
        BY <2>1 DEF Stays, work
      <3>2. CASE pc'[p] = pc[p]
        BY <3>1, <3>2 DEF Life
      <3>3. CASE p[1] = r /\ pc[p] \notin Ended \cup {"none"} /\ pc'[p] = "killed"
        BY <1>8, <3>1, <3>3, Zenon DEF Life
      <3>4. QED
        BY <2>1, <3>2, <3>3
    <2>3. QED
      BY <2>1, <2>2 DEF Lives, Counted, work
  <1>9. ASSUME NEW p \in Processes, Connect(p) \/ Poll(p) PROVE Lives
    <2>1. /\ UNCHANGED <<left, xact, dirty, reported>> /\ pc[p] \in {"connect", "poll"}
          /\ \E x \in {"begin", "poll", "work", "failed"} : pc' = [pc EXCEPT ![p] = x]
      BY <1>9 DEF Connect, OciConnect, DpiConnect, AfterConnect, Poll, work
    <2>2. QED
      BY <2>1 DEF Lives, Counted, Life, Stays
  <1>10. ASSUME NEW p \in Processes, BeginTxn(p) PROVE Lives
    <2>1. \A n \in Ops : n \in Nat \ {0}
      BY ClientsAssumption, SMTT(20) DEF Ops, OciOps, DpiOps
    <2>2. PICK n \in Nat \ {0} : left' = [left EXCEPT ![p] = n]
      <3>1. PICK n \in Ops : left' = [left EXCEPT ![p] = IF opt.multiop THEN 5 * n ELSE n]
        BY <1>10 DEF BeginTxn
      <3>2. n \in Nat \ {0} /\ 5 * n \in Nat \ {0}
        BY <2>1
      <3>3. (IF opt.multiop THEN 5 * n ELSE n) \in Nat \ {0}
        BY <3>2
      <3>4. QED
        BY <3>1, <3>3
    <2>3. /\ UNCHANGED <<pc, xact, dirty, reported>>
          /\ pc[p] = "work" /\ left[p] = 0 /\ xact[p] < opt.xacts
      BY <1>10 DEF BeginTxn
    <2>4. QED
      BY <2>2, <2>3 DEF Lives, Counted, Life, Stays
  <1>11. ASSUME NEW p \in Processes, Operation(p) PROVE Lives
    <2>1. /\ pc[p] = "work" /\ left[p] # 0 /\ UNCHANGED reported
          /\ left' = [left EXCEPT ![p] = @ - 1]
          /\ xact' = [xact EXCEPT ![p] = IF left[p] = 1 THEN @ + 1 ELSE @]
      BY <1>11 DEF Operation, Counted
    <2>2. PICK k \in Paths(p) : OciExecute(p, k) \/ DpiExecute(p, k)
      BY <1>11 DEF Operation
    <2>3. /\ pc' = pc \/ pc' = [pc EXCEPT ![p] = "failed"]
          /\ dirty' \in [Processes -> BOOLEAN]
          /\ \A q \in Processes : q # p => dirty'[q] = dirty[q]
      <3>1. CASE OciExecute(p, k)
        <4>1. dirty[p] \in BOOLEAN /\ (left[p] > 1) \in BOOLEAN
          BY DEF Counted
        <4>2. dirty' = dirty \/ \E b \in BOOLEAN : dirty' = [dirty EXCEPT ![p] = b]
          BY <3>1, <4>1, Zenon DEF OciExecute
        <4>3. pc' = pc \/ pc' = [pc EXCEPT ![p] = "failed"]
          BY <3>1 DEF OciExecute
        <4>4. dirty \in [Processes -> BOOLEAN]
          BY DEF Counted
        <4>5. ASSUME NEW b \in BOOLEAN, dirty' = [dirty EXCEPT ![p] = b]
              PROVE  /\ dirty' \in [Processes -> BOOLEAN]
                     /\ \A q \in Processes : q # p => dirty'[q] = dirty[q]
          BY <4>4, <4>5, SetFlag
        <4>6. QED
          BY <4>2, <4>3, <4>4, <4>5, Zenon
      <3>2. CASE DpiExecute(p, k)
        <4>1. dirty[p] \in BOOLEAN /\ (dirty[p] \/ k # "read") \in BOOLEAN
          BY DEF Counted
        <4>2. dirty' = dirty \/ \E b \in BOOLEAN : dirty' = [dirty EXCEPT ![p] = b]
          BY <3>2, <4>1, Zenon DEF DpiExecute
        <4>3. pc' = pc \/ pc' = [pc EXCEPT ![p] = "failed"]
          BY <3>2 DEF DpiExecute
        <4>4. dirty \in [Processes -> BOOLEAN]
          BY DEF Counted
        <4>5. ASSUME NEW b \in BOOLEAN, dirty' = [dirty EXCEPT ![p] = b]
              PROVE  /\ dirty' \in [Processes -> BOOLEAN]
                     /\ \A q \in Processes : q # p => dirty'[q] = dirty[q]
          BY <4>4, <4>5, SetFlag
        <4>6. QED
          BY <4>2, <4>3, <4>4, <4>5, Zenon
      <3>3. QED
        BY <2>2, <3>1, <3>2
    <2>4. ASSUME pc'[p] = "work", left[p] = 1, Committing PROVE ~dirty'[p]
      <3>1. DpiExecute(p, k) /\ CommitDue(p)
        BY <2>2, <2>4 DEF Committing, CommitDue, OciExecute
      <3>2. ~DpiError(p)
        BY <2>4
      <3>3. dirty' = [dirty EXCEPT ![p] = FALSE]
        BY <3>1, <3>2, Zenon DEF DpiExecute
      <3>4. QED
        BY <3>3 DEF Counted
    <2>5. left'[p] = 0 => left[p] = 1
      BY <2>1 DEF Counted
    <2>6. left' \in [Processes -> Nat] /\ xact' \in [Processes -> Nat]
      BY <2>1 DEF Counted
    <2>7. ASSUME NEW q \in Processes PROVE Life(q)
      <3>1. CASE q = p
        <4>1. pc'[p] \in {"work", "failed"}
          BY <2>1, <2>3
        <4>2. pc'[p] = "work" /\ left'[p] = 0 /\ Committing => ~dirty'[p]
          BY <2>4, <2>5
        <4>3. QED
          BY <2>1, <3>1, <4>1, <4>2 DEF Life
      <3>2. CASE q # p
        BY <2>1, <2>3, <3>2 DEF Life, Stays, Counted
      <3>3. QED
        BY <3>1, <3>2
    <2>8. QED
      BY <2>1, <2>3, <2>6, <2>7 DEF Lives, Counted
  <1>12. ASSUME NEW p \in Processes, Complete(p) PROVE Lives
    <2>1. /\ UNCHANGED <<work, reported>> /\ pc[p] = "work" /\ left[p] = 0 /\ xact[p] = opt.xacts
          /\ \E x \in {"wait", "commit"} : pc' = [pc EXCEPT ![p] = x]
      BY <1>12 DEF Complete
    <2>2. QED
      BY <2>1, OneLife
  <1>13. ASSUME NEW p \in Processes, Cleanup(p) PROVE Lives
    <2>1. /\ UNCHANGED <<left, xact, reported>> /\ pc[p] = "commit"
          /\ \/ pc' = [pc EXCEPT ![p] = "done"] /\ dirty' = [dirty EXCEPT ![p] = FALSE]
             \/ pc' = [pc EXCEPT ![p] = "failed"] /\ dirty' = dirty
      BY <1>13 DEF Cleanup, OciCleanup, DpiCleanup
    <2>2. CASE pc' = [pc EXCEPT ![p] = "failed"] /\ dirty' = dirty
      BY <2>1, <2>2 DEF Lives, Counted, Life, Stays
    <2>3. CASE pc' = [pc EXCEPT ![p] = "done"] /\ dirty' = [dirty EXCEPT ![p] = FALSE]
      <3>1. /\ dirty' \in [Processes -> BOOLEAN] /\ dirty'[p] = FALSE
            /\ \A q \in Processes : q # p => dirty'[q] = dirty[q]
        BY <2>3, SetFlag DEF Counted
      <3>2. ~dirty'[p]
        BY <3>1, Zenon
      <3>3. Life(p)
        BY <2>1, <2>3, <3>2 DEF Life
      <3>4. \A q \in Processes : q # p => Life(q)
        BY <2>1, <2>3, <3>1 DEF Life, Stays
      <3>5. QED
        BY <2>1, <3>1, <3>3, <3>4 DEF Lives, Counted
    <2>4. QED
      BY <2>1, <2>2, <2>3
  <1>14. QED
    BY <1>1, <1>2, <1>3, <1>4, <1>5, <1>6, <1>7, <1>8, <1>9, <1>10, <1>11, <1>12, <1>13
       DEF Next, Parent, Process

-----------------------------------------------------------------------------
\* A step on the way of a parent, with the child it is at.
SameHistory(r) == (r \in started' <=> r \in started) /\ (r \in reported' <=> r \in reported)

Road(r) ==
    \/ SameHistory(r) /\ at'[r] = at[r] /\ Top(r)' = Top(r)
    \/ SameHistory(r) /\ at'[r] = at[r] /\ Top(r)' \in Ended
    \/ /\ SameHistory(r) /\ at'[r] = at[r] /\ Top(r) \in Early /\ Top(r)' \in Early \cup {"fork"}
    \/ /\ SameHistory(r) /\ at'[r] = at[r] /\ Top(r) \in Early /\ Top(r)' = "connect"
       /\ opt.procs = 1
    \/ /\ SameHistory(r) /\ Top(r) = "fork" /\ at[r] < opt.procs /\ at'[r] = at[r] + 1
       /\ <<r, at[r]>> \in Processes => pc'[<<r, at[r]>>] = "connect"
       /\ Top(r)' = IF at[r] + 1 = opt.procs THEN "connect" ELSE "fork"
    \/ SameHistory(r) /\ at'[r] = at[r] /\ Top(r) = "connect" /\ Top(r)' = "begin"
    \/ /\ at'[r] = at[r] /\ Top(r) = "begin" /\ Top(r)' = "poll"
       /\ r \in started' /\ (r \in reported' <=> r \in reported) /\ UNCHANGED seg
       /\ opt.procs > 1 => shm' = [shm EXCEPT ![seg[r]] =
                                    [w \in 0..MaxProcs |-> IF w \in Words THEN 1 ELSE @[w]]]
    \/ SameHistory(r) /\ at'[r] = at[r] /\ Top(r) = "poll" /\ Top(r)' = "work"
    \/ SameHistory(r) /\ at'[r] = 1 /\ Top(r) = "work" /\ Top(r)' = "wait"
    \/ /\ SameHistory(r) /\ at'[r] = at[r] /\ Top(r) = "wait" /\ Top(r)' = "waitWord"
    \/ /\ SameHistory(r) /\ Top(r) \in {"wait", "waitWord"} /\ Top(r)' = "wait"
       /\ at[r] < opt.procs /\ Over(r) /\ at'[r] = at[r] + 1
    \/ /\ Top(r) = "wait" /\ at[r] = opt.procs /\ Top(r)' \in {"removeShm", "commit"}
       /\ at'[r] = at[r] /\ (r \in started' <=> r \in started) /\ r \in reported'
    \/ SameHistory(r) /\ at'[r] = at[r] /\ Top(r) = "removeShm" /\ Top(r)' = "commit"

Roads == \A r \in Runs : Road(r)

\* The steps of one process that keep the history and the loops.
LEMMA OneRoad == ASSUME Typed, NEW p \in Processes, NEW x \in Places,
                        UNCHANGED <<at, started, reported>>,
                        pc' = pc \/ pc' = [pc EXCEPT ![p] = x],
                        \/ p \in Children \/ x \in Ended \/ x = pc[p]
                        \/ pc[p] \in Early /\ x \in Early \cup {"fork"}
                        \/ pc[p] \in Early /\ x = "connect" /\ opt.procs = 1
                        \/ pc[p] = "connect" /\ x = "begin"
                        \/ pc[p] = "poll" /\ x = "work"
                        \/ pc[p] = "wait" /\ x = "waitWord"
                        \/ pc[p] = "removeShm" /\ x = "commit"
                 PROVE  Roads
  <1> SUFFICES ASSUME NEW r \in Runs PROVE Road(r)
    BY DEF Roads
  <1>1. SameHistory(r) /\ at'[r] = at[r] /\ <<r, 0>> \in Processes /\ <<r, 0>> \notin Children
    BY Sets DEF SameHistory, Children
  <1>2. CASE pc'[<<r, 0>>] = pc[<<r, 0>>]
    BY <1>1, <1>2 DEF Road, Top
  <1>3. CASE pc'[<<r, 0>>] # pc[<<r, 0>>]
    <2>1. p = <<r, 0>> /\ pc'[p] = x /\ x # pc[p]
      BY <1>1, <1>3 DEF Typed
    <2>2. QED
      BY <1>1, <2>1 DEF Road, Top
  <1>4. QED
    BY <1>2, <1>3

LEMMA StepRoad == ASSUME RInv, Next PROVE Roads
  <1> USE Sets DEF RInv, CInv, Typed, Goto, At, Exit, Fails, Error, OciError, DpiError, history,
          Places, Ended, Early
  <1>1. ASSUME NEW r \in Runs, Start(r) \/ ParseArgs(r) \/ Usage(r) \/ Populate(r) PROVE Roads
    <2>1. /\ UNCHANGED <<at, started, reported>> /\ pc[<<r, 0>>] \in Early
          /\ \E x \in {"parse_args", "populate", "shm", "failed", "done"} :
                pc' = [pc EXCEPT ![<<r, 0>>] = x]
      BY <1>1 DEF Start, ParseArgs, Usage, OciUsage, DpiUsage, OciParseArgs, DpiParseArgs,
         Populate, OciPopulate, DpiPopulate, Built
    <2>2. QED
      BY <2>1, OneRoad
  <1>2. ASSUME NEW r \in Runs, OpenShm(r) \/ OneProcess(r) PROVE Roads
    <2>1. /\ UNCHANGED <<at, started, reported>> /\ pc[<<r, 0>>] = "shm"
          /\ \E x \in {"fork", "failed", "connect"} :
                pc' = [pc EXCEPT ![<<r, 0>>] = x] /\ (x = "connect" => opt.procs = 1)
      BY <1>2 DEF OpenShm, OneProcess
    <2>2. QED
      BY <2>1, OneRoad
  <1>3. ASSUME NEW r \in Runs, Spawn(r) PROVE Roads
    <2>1. /\ UNCHANGED <<started, reported>> /\ pc[<<r, 0>>] = "fork" /\ at[r] \in Nat \ {0}
          /\ \/ /\ at[r] < opt.procs /\ at' = [at EXCEPT ![r] = @ + 1]
                /\ \E x \in {"connect", "fork"} :
                     /\ x = IF at[r] + 1 = opt.procs THEN "connect" ELSE "fork"
                     /\ pc' = [pc EXCEPT ![<<r, at[r]>>] = "connect", ![<<r, 0>>] = x]
             \/ UNCHANGED at /\ pc' = [pc EXCEPT ![<<r, 0>>] = "failed"]
      BY <1>3 DEF Spawn, OciFork, CreateChildProcs, Fork
    <2>2. CASE UNCHANGED at /\ pc' = [pc EXCEPT ![<<r, 0>>] = "failed"]
      BY <2>1, <2>2, OneRoad
    <2>3. ASSUME NEW x \in {"connect", "fork"}, x = IF at[r] + 1 = opt.procs THEN "connect" ELSE "fork",
                 pc' = [pc EXCEPT ![<<r, at[r]>>] = "connect", ![<<r, 0>>] = x],
                 at[r] < opt.procs, at' = [at EXCEPT ![r] = @ + 1]
          PROVE  Roads
      <3>1. /\ pc'[<<r, 0>>] = x
            /\ <<r, at[r]>> \in Processes => pc'[<<r, at[r]>>] = "connect"
            /\ at'[r] = at[r] + 1
        BY <2>1, <2>3
      <3>2. Road(r)
        BY <2>1, <2>3, <3>1 DEF Road, SameHistory, Top
      <3>3. ASSUME NEW q \in Runs, q # r PROVE Road(q)
        <4>1. pc'[<<q, 0>>] = pc[<<q, 0>>] /\ at'[q] = at[q]
          BY <2>3, <3>3
        <4>2. QED
          BY <2>1, <4>1 DEF Road, SameHistory, Top
      <3>4. QED
        BY <3>2, <3>3 DEF Roads
    <2>4. QED
      BY <2>1, <2>2, <2>3
  <1>4. ASSUME NEW r \in Runs, Begin(r) PROVE Roads
    <2>1. /\ UNCHANGED <<seg, at, reported>> /\ started' = started \cup {r}
          /\ pc[<<r, 0>>] = "begin" /\ pc' = [pc EXCEPT ![<<r, 0>>] = "poll"]
          /\ opt.procs > 1 => shm' = [shm EXCEPT ![seg[r]] =
                                    [w \in 0..MaxProcs |-> IF w \in Words THEN 1 ELSE @[w]]]
      BY <1>4 DEF Begin
    <2>2. Road(r)
      BY <2>1 DEF Road, Top
    <2>3. \A q \in Runs : q # r => Road(q)
      BY <2>1 DEF Road, SameHistory, Top
    <2>4. QED
      BY <2>2, <2>3 DEF Roads
  <1>5. ASSUME NEW r \in Runs, WaitChild(r) PROVE Roads
    <2>1. /\ UNCHANGED <<started, reported>> /\ pc[<<r, 0>>] \in {"wait", "waitWord"}
          /\ \/ UNCHANGED at /\ pc[<<r, 0>>] = "wait" /\ pc' = [pc EXCEPT ![<<r, 0>>] = "waitWord"]
             \/ /\ at[r] < opt.procs /\ Over(r) /\ at' = [at EXCEPT ![r] = @ + 1]
                /\ pc'[<<r, 0>>] = "wait"
                /\ pc' = pc \/ pc' = [pc EXCEPT ![<<r, 0>>] = "wait"]
      BY <1>5 DEF WaitChild, OciWaitChild, DpiWaitChild, Over
    <2>2. Road(r)
      BY <2>1 DEF Road, SameHistory, Top
    <2>3. \A q \in Runs : q # r => Road(q)
      BY <2>1 DEF Road, SameHistory, Top
    <2>4. QED
      BY <2>2, <2>3 DEF Roads
  <1>6. ASSUME NEW r \in Runs, Report(r) PROVE Roads
    <2>1. /\ UNCHANGED <<at, started>> /\ reported' = reported \cup {r} /\ at[r] = opt.procs
          /\ pc[<<r, 0>>] = "wait"
          /\ \E x \in {"removeShm", "commit"} : pc' = [pc EXCEPT ![<<r, 0>>] = x]
      BY <1>6 DEF Report
    <2>2. Road(r)
      BY <2>1 DEF Road, Top
    <2>3. \A q \in Runs : q # r => Road(q)
      BY <2>1 DEF Road, SameHistory, Top
    <2>4. QED
      BY <2>2, <2>3 DEF Roads
  <1>7. ASSUME NEW r \in Runs, RemoveShm(r) PROVE Roads
    BY <1>7, OneRoad DEF RemoveShm
  <1>8. ASSUME NEW r \in Runs, Interrupt(r) PROVE Roads
    BY <1>8 DEF Interrupt, Roads, Road, SameHistory, Top
  <1>9. ASSUME NEW p \in Processes, Connect(p) PROVE Roads
    <2>1. /\ UNCHANGED <<at, started, reported>> /\ pc[p] = "connect"
          /\ \E x \in {"begin", "poll", "failed"} :
                pc' = [pc EXCEPT ![p] = x] /\ (x = "poll" => p \in Children)
      BY <1>9 DEF Connect, OciConnect, DpiConnect, AfterConnect, Children
    <2>2. QED
      BY <2>1, OneRoad
  <1>10. ASSUME NEW p \in Processes, Poll(p) PROVE Roads
    BY <1>10, OneRoad DEF Poll
  <1>11. ASSUME NEW p \in Processes, BeginTxn(p) \/ Operation(p) PROVE Roads
    <2>1. /\ UNCHANGED <<at, started, reported>>
          /\ pc' = pc \/ pc' = [pc EXCEPT ![p] = "failed"]
      BY <1>11 DEF BeginTxn, Operation, OciExecute, DpiExecute
    <2>2. QED
      BY <2>1, OneRoad
  <1>12. ASSUME NEW p \in Processes, Complete(p) PROVE Roads
    <2>1. CASE p \in Children
      <3>1. UNCHANGED <<at, started, reported>> /\ pc' = [pc EXCEPT ![p] = "commit"]
        BY <1>12, <2>1 DEF Complete, Children
      <3>2. QED
        BY <2>1, <3>1, OneRoad
    <2>2. CASE p \notin Children
      <3>1. PICK r \in Runs : p = <<r, 0>>
        BY <2>2
      <3>2. /\ UNCHANGED <<started, reported>> /\ at' = [at EXCEPT ![r] = 1]
            /\ pc[<<r, 0>>] = "work" /\ pc' = [pc EXCEPT ![<<r, 0>>] = "wait"]
        BY <1>12, <2>2, <3>1 DEF Complete, Children
      <3>3. Road(r)
        BY <3>2 DEF Road, SameHistory, Top
      <3>4. \A q \in Runs : q # r => Road(q)
        BY <3>2 DEF Road, SameHistory, Top
      <3>5. QED
        BY <3>3, <3>4 DEF Roads
    <2>3. QED
      BY <2>1, <2>2
  <1>13. ASSUME NEW p \in Processes, Cleanup(p) PROVE Roads
    <2>1. /\ UNCHANGED <<at, started, reported>>
          /\ \E x \in {"done", "failed"} : pc' = [pc EXCEPT ![p] = x]
      BY <1>13 DEF Cleanup, OciCleanup, DpiCleanup
    <2>2. QED
      BY <2>1, OneRoad
  <1>14. QED
    BY <1>1, <1>2, <1>3, <1>4, <1>5, <1>6, <1>7, <1>8, <1>9, <1>10, <1>11, <1>12, <1>13
       DEF Next, Parent, Process

-----------------------------------------------------------------------------
LEMMA XactsPositive == ASSUME Typed PROVE opt.xacts \in Nat \ {0} /\ opt.procs \in Nat \ {0}
  BY ClientsAssumption DEF Typed

\* What has executed everything stays so.
LEMMA FinishedStable == ASSUME RInv, Lives, opt' = opt, NEW p \in Processes, Finished(p)
                        PROVE  Finished(p)'
  <1>1. Committing' = Committing
    BY SameCommitting
  <1>2. Life(p) /\ WorkDone(p) /\ opt.xacts # 0 /\ xact[p] \in Nat /\ opt.xacts \in Nat
    BY XactsPositive DEF Lives, RInv, CInv, WorksDone, Counted
  <1>3. pc[p] \in Before => xact[p] = 0
    BY <1>2 DEF WorkDone
  <1>4. QED
    BY <1>1, <1>2, <1>3 DEF Finished, Life, Stays, Before, Early, After, Ended

LEMMA NextWorksDone == ASSUME RInv, Next PROVE WorksDone'
  <1> SUFFICES ASSUME NEW p \in Processes PROVE WorkDone(p)'
    BY DEF WorksDone
  <1>1. opt' = opt /\ Committing' = Committing
    BY StepPlaces, SameCommitting DEF RInv
  <1>2. Life(p) /\ WorkDone(p)
    BY StepLife DEF Lives, RInv, WorksDone
  <1>3. Finished(p) => Finished(p)'
    BY <1>1, StepLife, FinishedStable
  <1>4. pc'[p] \in Before => left'[p] = 0 /\ xact'[p] = 0 /\ ~dirty'[p]
    BY <1>2 DEF Life, Stays, WorkDone, Before, Early, After, Ended
  <1>5. pc'[p] = "work" /\ left'[p] = 0 /\ Committing => ~dirty'[p]
    BY <1>2 DEF Life, Stays, WorkDone, Before, Early, After, Ended
  <1>6. ASSUME pc'[p] \in After
        PROVE  Finished(p)' \/ (p \in Parents /\ pc'[p] = "done" /\ p[1] \notin started')
    <2>1. CASE p \in Parents /\ pc'[p] = "done" /\ pc[p] \in {"populate", "done"} /\ p[1] \notin started
      <3>1. p[1] \in Runs /\ p = <<p[1], 0>>
        BY Sets, <2>1 DEF Parents
      <3>2. Road(p[1])
        BY <3>1, StepRoad DEF Roads
      <3>3. p[1] \notin started'
        BY <2>1, <3>1, <3>2 DEF Road, SameHistory, Top, Early, Ended
      <3>4. QED
        BY <2>1, <3>3
    <2>2. CASE pc[p] = "populate"
      <3>1. p \in Parents /\ pc'[p] = "done"
        BY <1>2, <1>6, <2>2 DEF Life, After, Before, Early, Ended
      <3>2. p[1] \notin started
        <4>1. p[1] \in Runs /\ p = <<p[1], 0>>
          BY Sets, <3>1 DEF Parents
        <4>2. QED
          BY <2>2, <4>1 DEF RInv, StartedLate, Top, Late, Ended
      <3>3. QED
        BY <2>1, <2>2, <3>1, <3>2
    <2>3. CASE pc[p] = "work"
      <3>1. left[p] = 0 /\ xact[p] = opt.xacts /\ Stays(p)
        BY <1>2, <1>6, <2>3 DEF Life, After, Before, Early, Ended
      <3>2. QED
        BY <1>2, <2>3, <3>1, <1>3 DEF WorkDone, Finished
    <2>4. CASE pc[p] \in After
      <3>1. CASE Finished(p)
        BY <1>3, <3>1
      <3>2. CASE p \in Parents /\ pc[p] = "done" /\ p[1] \notin started
        <4>1. pc'[p] = "done"
          BY <1>2, <3>2 DEF Life, After, Before, Early, Ended
        <4>2. QED
          BY <2>1, <3>2, <4>1
      <3>3. QED
        BY <1>2, <2>4, <3>1, <3>2 DEF WorkDone
    <2>5. pc[p] \in After \cup {"work", "populate"}
      BY <1>2, <1>6 DEF Life, After, Before, Early, Ended
    <2>6. QED
      BY <2>2, <2>3, <2>4, <2>5
  <1>7. QED
    BY <1>1, <1>4, <1>5, <1>6 DEF WorkDone

LEMMA NextKilledTogether == ASSUME RInv, Next PROVE KilledTogether'
  <1> SUFFICES ASSUME NEW p \in Processes, Top(p[1])' = "killed" PROVE pc'[p] \in Ended \cup {"none"}
    BY DEF KilledTogether, Ended
  <1> DEFINE r == p[1]
  <1>1. r \in Runs /\ <<r, 0>> \in Processes /\ <<r, 0>>[1] = r /\ Top(r) = pc[<<r, 0>>]
    BY Sets DEF Top
  <1>2. Life(p) /\ Life(<<r, 0>>)
    BY <1>1, StepLife DEF Lives
  <1>3. CASE Top(r) = "killed"
    <2>1. pc[p] \in Ended \cup {"none"}
      BY <1>3 DEF RInv, KilledTogether
    <2>2. CASE pc[p] \in Ended
      BY <1>2, <2>2 DEF Life, Before, Early, After, Ended
    <2>3. CASE pc[p] = "none"
      <3>1. p \in Children
        BY <1>1, <1>3, <2>3, Sets
      <3>2. ChildMoves(p)
        BY <3>1, StepMoves DEF RInv
      <3>3. QED
        BY <1>3, <2>3, <3>2 DEF ChildMoves
    <2>4. QED
      BY <2>1, <2>2, <2>3
  <1>4. CASE Top(r) # "killed"
    <2>1. pc'[<<r, 0>>] = "killed" /\ pc[<<r, 0>>] # "killed"
      BY <1>4 DEF Top
    <2>2. Interrupt(r)
      BY <1>1, <1>2, <2>1 DEF Life, Before, Early, After, Ended
    <2>3. QED
      BY <2>2 DEF Interrupt, Ended
  <1>5. QED
    BY <1>3, <1>4

LEMMA NextForked == ASSUME RInv, Next PROVE Forked'
  <1> SUFFICES ASSUME NEW r \in Runs, NEW c \in Children, c[1] = r
               PROVE  /\ Top(r)' \in Early => at'[r] = 1
                      /\ Top(r)' = "fork" /\ c[2] < at'[r] => pc'[c] # "none"
                      /\ Top(r)' \in Early \cup {"fork"} /\ at'[r] <= c[2] => pc'[c] = "none"
                      /\ Top(r)' \in {"connect", "begin"} \cup Late /\ c[2] < opt'.procs =>
                            pc'[c] # "none"
    BY DEF Forked
  <1> USE DEF Early, Late
  <1>1. opt' = opt /\ opt.procs \in Nat /\ at[r] \in Nat /\ c[2] \in Nat /\ c[2] # 0
        /\ c = <<r, c[2]>> /\ c \in Processes
    BY StepPlaces, XactsPositive, Sets DEF RInv, CInv, Typed
  <1>2. Road(r) /\ Life(c) /\ ChildMoves(c)
    BY <1>1, StepRoad, StepLife, StepMoves DEF Roads, Lives, RInv
  <1>3. /\ Top(r) \in Early => at[r] = 1
        /\ Top(r) = "fork" /\ c[2] < at[r] => pc[c] # "none"
        /\ Top(r) \in Early \cup {"fork"} /\ at[r] <= c[2] => pc[c] = "none"
        /\ Top(r) \in {"connect", "begin"} \cup Late /\ c[2] < opt.procs => pc[c] # "none"
    BY DEF RInv, Forked
  <1>4. pc[c] # "none" => pc'[c] # "none"
    BY <1>2 DEF Life, Before, After, Ended
  <1>5. pc[c] = "none" /\ ~Born(c) => pc'[c] = "none"
    BY <1>2, Sets DEF Life, Before, After, Ended, Children
  <1>6. pc[c] = "none" /\ pc'[c] # "none" => Top(r) = "fork"
    BY <1>2 DEF ChildMoves
  <1>7. CASE Top(r) = "fork" /\ Top(r)' \notin Ended
    <2>1. CASE at'[r] = at[r] /\ Top(r)' = "fork"
      <3>1. c[2] < at[r] \/ at[r] <= c[2]
        BY <1>1
      <3>2. ASSUME at[r] <= c[2] PROVE pc'[c] = "none"
        <4>1. pc[c] = "none"
          BY <1>3, <1>7, <3>2
        <4>2. ~Born(c)
          BY <1>1, <2>1 DEF Born
        <4>3. QED
          BY <1>5, <4>1, <4>2
      <3>3. QED
        BY <1>3, <1>4, <1>7, <2>1, <3>2
    <2>2. CASE at'[r] # at[r] \/ Top(r)' # "fork"
      <3>1. /\ at[r] < opt.procs /\ at'[r] = at[r] + 1
            /\ <<r, at[r]>> \in Processes => pc'[<<r, at[r]>>] = "connect"
            /\ Top(r)' = IF at[r] + 1 = opt.procs THEN "connect" ELSE "fork"
        BY <1>2, <1>7, <2>2 DEF Road
      <3>2. c[2] = at[r] => pc'[c] # "none"
        BY <1>1, <3>1
      <3>3. at[r] + 1 <= c[2] => pc'[c] = "none"
        <4>1. ASSUME at[r] + 1 <= c[2] PROVE ~Born(c) /\ pc[c] = "none"
          BY <1>1, <1>3, <1>7, <4>1 DEF Born
        <4>2. QED
          BY <1>5, <4>1
      <3>4. QED
        BY <1>1, <1>3, <1>4, <1>7, <3>1, <3>2, <3>3
    <2>3. QED
      BY <2>1, <2>2
  <1>8. CASE Top(r) # "fork" /\ Top(r)' \notin Ended
    <2>1. pc'[c] = "none" <=> pc[c] = "none"
      BY <1>4, <1>6, <1>8
    <2>2. QED
      BY <1>1, <1>2, <1>3, <1>8, <2>1 DEF Road
  <1>9. QED
    BY <1>7, <1>8 DEF Ended

LEMMA AloneStays == ASSUME RInv, Next, NEW r \in Runs, Alone(r)' PROVE Alone(r)
  <1>1. CASE seg[r] = 0
    BY <1>1 DEF Alone
  <1>2. CASE seg[r] # 0
    BY <1>2, AloneBefore DEF RInv
  <1>3. QED
    BY <1>1, <1>2

LEMMA NextStartedLate == ASSUME RInv, Next PROVE StartedLate'
  <1> SUFFICES ASSUME NEW r \in Runs, r \in started'
               PROVE  Top(r)' \in Late \cup Ended /\ (opt'.procs > 1 => seg'[r] # 0)
    BY StepPlaces DEF StartedLate, RInv, Late, Ended
  <1> USE DEF Late, Ended
  <1>1. Road(r)
    BY StepRoad DEF Roads
  <1>2. CASE r \in started
    <2>1. Top(r) \in Late \cup Ended /\ (opt.procs > 1 => seg[r] # 0)
      BY <1>2 DEF RInv, StartedLate
    <2>2. Top(r)' \in Late \cup Ended
      BY <1>1, <2>1, StepPlaces DEF Road, Early, RInv, Top
    <2>3. QED
      BY <2>1, <2>2, StepPlaces DEF RInv
  <1>3. CASE r \notin started
    <2>1. Top(r) = "begin" /\ Top(r)' = "poll" /\ UNCHANGED seg
      BY <1>1, <1>3 DEF Road, SameHistory
    <2>2. ASSUME opt.procs > 1 PROVE seg[r] # 0
      <3>1. PICK o \in Options : o.procs > 1 /\ o = opt
        BY <2>2 DEF RInv, CInv, Typed
      <3>2. MaxProcs > 1
        BY <3>1, ClientsAssumption, ProcsAssumption DEF MaxProcs
      <3>3. <<r, 1>> \in Children /\ <<r, 1>>[1] = r /\ <<r, 1>>[2] = 1
        BY <3>2, Sets DEF Children, Processes, Parents
      <3>4. pc[<<r, 1>>] # "none"
        BY <2>1, <2>2, <3>3 DEF RInv, Forked
      <3>5. QED
        BY <3>3, <3>4 DEF RInv, CInv, Segments
    <2>3. QED
      BY <2>1, <2>2, StepPlaces DEF RInv
  <1>4. QED
    BY <1>2, <1>3

\* Only a child of a run that is alone sets its word to 0.
LEMMA OwnWord == ASSUME RInv, Next, NEW c \in Children, c[2] < opt.procs, Alone(c[1]),
                        NEW p \in Processes, Complete(p), seg[p[1]] = seg[c[1]], seg[c[1]] # 0,
                        Slot(p) = c[2]
                 PROVE  Finished(c)
  <1>1. c \in Processes /\ c[2] # 0 /\ c[2] \in Nat /\ opt.procs \in Nat /\ c = <<c[1], c[2]>>
        /\ p[1] \in Runs /\ c[1] \in Runs /\ p = <<p[1], p[2]>>
    BY Sets, XactsPositive DEF RInv, CInv
  <1>2. pc[p] = "work" /\ xact[p] = opt.xacts /\ left[p] = 0
    BY DEF Complete, At
  <1>3. p[1] = c[1]
    <2>1. ASSUME p[1] # c[1] PROVE FALSE
      <3>1. Top(p[1]) = "killed"
        BY <1>1, <2>1 DEF Alone, At, Top
      <3>2. pc[p] \in Ended \cup {"none"}
        BY <3>1 DEF RInv, KilledTogether
      <3>3. QED
        BY <1>2, <3>2 DEF Ended
    <2>2. QED
      BY <2>1
  <1>4. p \notin Parents
    BY <1>1 DEF Slot, OciSlot, DpiSlot, Parents
  <1>5. p = c
    BY <1>1, <1>3, <1>4 DEF Slot, OciSlot, DpiSlot
  <1>6. Committing => ~dirty[c]
    BY <1>2, <1>5 DEF RInv, WorksDone, WorkDone
  <1>7. QED
    BY <1>2, <1>5, <1>6 DEF Finished

LEMMA NextWordsOne == ASSUME RInv, Next PROVE WordsOne'
  <1> SUFFICES ASSUME NEW c \in Children, c[2] < opt'.procs, c[1] \in started', Alone(c[1])',
                      ~Finished(c)'
               PROVE  shm'[seg'[c[1]]][c[2]] = 1
    BY DEF WordsOne
  <1> DEFINE r == c[1]
  <1>1. opt' = opt /\ r \in Runs /\ c \in Processes /\ c[2] \in 0..MaxProcs /\ c[2] \in Nat
        /\ c[2] # 0 /\ opt.procs \in Nat
    BY StepPlaces, Sets, XactsPositive DEF RInv, CInv
  <1>2. ~Finished(c)
    BY <1>1, StepLife, FinishedStable
  <1>3. Alone(r) /\ Road(r)
    BY <1>1, AloneStays, StepRoad DEF Roads
  <1>4. opt.procs > 1
    BY <1>1
  <1>5. CASE r \notin started
    <2>1. /\ Top(r) = "begin" /\ UNCHANGED seg
          /\ shm' = [shm EXCEPT ![seg[r]] =
                        [w \in 0..MaxProcs |-> IF w \in Words THEN 1 ELSE @[w]]]
      BY <1>3, <1>4, <1>5 DEF Road, SameHistory
    <2>2. pc[c] # "none"
      BY <1>1, <2>1 DEF RInv, Forked
    <2>3. seg[r] \in Runs /\ shm \in [Runs -> [0..MaxProcs -> Nat]]
      BY <1>1, <2>2 DEF RInv, CInv, Typed, Segments
    <2>4. c[2] \in Words
      BY <1>1 DEF Words, OciWords, DpiWords
    <2>5. QED
      BY <1>1, <2>1, <2>3, <2>4
  <1>6. CASE r \in started
    <2>1. shm[seg[r]][c[2]] = 1
      BY <1>1, <1>2, <1>3, <1>6 DEF RInv, WordsOne
    <2>2. seg[r] \in Runs /\ seg'[r] = seg[r] /\ shm \in [Runs -> [0..MaxProcs -> Nat]]
      BY <1>1, <1>4, <1>6, StepPlaces DEF RInv, StartedLate, CInv, Typed
    <2>3. CASE UNCHANGED <<seg, shm>>
      BY <2>1, <2>2, <2>3
    <2>4. ASSUME NEW q \in Runs, NEW s \in {q, keyed} \ {0}, Top(q) = "shm",
                 seg' = [seg EXCEPT ![q] = s], shm' = [shm EXCEPT ![s] = Cleared],
                 pc' = [pc EXCEPT ![<<q, 0>>] = "fork"]
          PROVE  shm'[seg'[r]][c[2]] = 1
      <3>1. q # r
        BY <1>6, <2>4 DEF RInv, StartedLate, Late, Ended
      <3>2. s # seg[r]
        <4>1. seg'[q] = s /\ pc'[<<q, 0>>] = "fork"
          BY <2>4, Sets DEF RInv, CInv, Typed
        <4>2. QED
          BY <2>2, <3>1, <4>1, Sets DEF Alone, At, RInv, CInv, Typed
      <3>3. QED
        BY <2>1, <2>2, <2>4, <3>2
    <2>5. ASSUME NEW q \in Runs, Top(q) = "begin", seg' = seg,
                 shm' = [shm EXCEPT ![seg[q]] =
                            [w \in 0..MaxProcs |-> IF w \in Words THEN 1 ELSE @[w]]]
          PROVE  shm'[seg'[r]][c[2]] = 1
      <3>1. q # r
        BY <1>6, <2>5 DEF RInv, StartedLate, Late, Ended
      <3>2. seg[q] # seg[r]
        BY <1>3, <2>2, <2>5, <3>1, Sets DEF Alone, At, Top
      <3>3. QED
        BY <2>1, <2>2, <2>5, <3>2
    <2>6. ASSUME NEW p \in Processes, Complete(p), seg' = seg,
                 shm' = [shm EXCEPT ![seg[p[1]]][Slot(p)] = 0]
          PROVE  shm'[seg'[r]][c[2]] = 1
      <3>1. seg[p[1]] # seg[r] \/ Slot(p) # c[2]
        BY <1>1, <1>2, <1>3, <2>2, <2>6, OwnWord, Sets
      <3>2. QED
        BY <1>1, <2>1, <2>2, <2>6, <3>1
    <2>7. Typed
      BY DEF RInv, CInv
    <2>8. QED
      BY <2>3, <2>4, <2>5, <2>6, <2>7, StepMemory
  <1>7. QED
    BY <1>5, <1>6

LEMMA NextWaited == ASSUME RInv, Next PROVE Waited'
  <1> SUFFICES ASSUME NEW c \in Children, Top(c[1])' \in {"wait", "waitWord"}, Alone(c[1])',
                      c[2] < at'[c[1]]
               PROVE  Finished(c)
    BY StepLife, StepPlaces, FinishedStable, Sets DEF Waited, RInv
  <1> DEFINE r == c[1]
  <1>1. r \in Runs /\ c \in Processes /\ c[2] \in Nat /\ c[2] # 0 /\ c = <<r, c[2]>> /\ at[r] \in Nat
    BY Sets DEF RInv, CInv, Typed
  <1>2. Alone(r) /\ Road(r)
    BY <1>1, AloneStays, StepRoad DEF Roads
  <1>3. CASE Top(r) \in {"wait", "waitWord"} /\ c[2] < at[r]
    BY <1>2, <1>3 DEF RInv, Waited
  <1>4. CASE ~(Top(r) \in {"wait", "waitWord"} /\ c[2] < at[r])
    <2>1. Top(r) \in {"wait", "waitWord"} /\ at[r] < opt.procs /\ Over(r) /\ at'[r] = at[r] + 1
      BY <1>1, <1>2, <1>4 DEF Road, Early, Ended
    <2>2. c[2] = at[r] /\ r \in started
      BY <1>1, <1>4, <2>1 DEF RInv, CInv, Begun
    <2>3. CASE shm[seg[r]][at[r]] # 1
      BY <1>2, <2>1, <2>2, <2>3 DEF RInv, WordsOne
    <2>4. CASE pc[c] \in Ended
      <3>1. c \notin Parents
        BY DEF Children
      <3>2. QED
        BY <1>1, <2>4, <3>1 DEF RInv, WorksDone, WorkDone, After, Ended, Finished
    <2>5. QED
      BY <1>1, <2>1, <2>2, <2>3, <2>4 DEF Over, WordSet
  <1>5. QED
    BY <1>3, <1>4

LEMMA NextReported == ASSUME RInv, Next PROVE Reported'
  <1>1. opt' = opt
    BY StepPlaces DEF RInv
  <1>2. reported' \subseteq Runs
    BY StepLife DEF Lives, Counted
  <1>3. ASSUME NEW r \in Runs, r \in reported'
        PROVE  r \in started' /\ Top(r)' \in {"removeShm", "commit"} \cup Ended
    <2>1. Road(r)
      BY StepRoad DEF Roads
    <2>2. CASE r \in reported
      <3>1. r \in started /\ Top(r) \in {"removeShm", "commit"} \cup Ended
        BY <2>2 DEF RInv, Reported
      <3>2. r \in started'
        BY <3>1, StepPlaces DEF RInv
      <3>3. Top(r)' \in {"removeShm", "commit"} \cup Ended
        BY <2>1, <3>1, StepPlaces DEF Road, Early, Ended, RInv, Top
      <3>4. QED
        BY <3>2, <3>3
    <2>3. CASE r \notin reported
      <3>1. Top(r) = "wait" /\ Top(r)' \in {"removeShm", "commit"} /\ (r \in started' <=> r \in started)
        BY <1>3, <2>1, <2>3 DEF Road, SameHistory
      <3>2. QED
        BY <3>1 DEF RInv, CInv, Begun
    <2>4. QED
      BY <2>2, <2>3
  <1>4. ASSUME NEW r \in Runs, r \in reported', Alone(r)',
               NEW p \in Processes, p[1] = r, p[2] < opt.procs
        PROVE  Finished(p)'
    <2>1. Alone(r) /\ Road(r)
      BY AloneStays, StepRoad, <1>4 DEF Roads
    <2>2. Finished(p)
      <3>1. CASE r \in reported
        BY <1>4, <2>1, <3>1 DEF RInv, Reported
      <3>2. CASE r \notin reported
        <4>1. Top(r) = "wait" /\ at[r] = opt.procs
          BY <1>4, <2>1, <3>2 DEF Road, SameHistory
        <4>2. CASE p \in Children
          BY <1>4, <2>1, <4>1, <4>2 DEF RInv, Waited
        <4>3. CASE p \notin Children
          <5>1. pc[p] = "wait"
            BY <1>4, <4>1, <4>3, Sets DEF Top
          <5>2. QED
            BY <5>1 DEF RInv, WorksDone, WorkDone, After
        <4>4. QED
          BY <4>2, <4>3
      <3>3. QED
        BY <3>1, <3>2
    <2>3. QED
      BY <1>1, <2>2, StepLife, FinishedStable
  <1>5. QED
    BY <1>1, <1>2, <1>3, <1>4 DEF Reported

LEMMA NextRInv == RInv /\ [Next]_vars => RInv'
  <1>1. ASSUME RInv, Next PROVE RInv'
    <2>1. CInv'
      BY <1>1, NextCInv DEF RInv
    <2>2. Counted'
      BY <1>1, StepLife DEF Lives
    <2>3. QED
      BY <1>1, <2>1, <2>2, NextWorksDone, NextKilledTogether, NextForked, NextStartedLate,
         NextWordsOne, NextWaited, NextReported DEF RInv
  <1>2. ASSUME RInv, UNCHANGED vars PROVE RInv'
    <2>1. CInv'
      BY <1>2, NextCInv DEF RInv
    <2>2. Committing' = Committing
      BY <1>2, SameCommitting DEF vars
    <2>3. \A p \in Processes : (Finished(p) <=> Finished(p)')
      BY <1>2, <2>2 DEF Finished, vars, work
    <2>4. \A r \in Runs : (Alone(r) <=> Alone(r)')
      BY <1>2 DEF Alone, At, vars, memory
    <2>5. Counted' /\ KilledTogether' /\ Forked' /\ StartedLate'
      BY <1>2 DEF RInv, Counted, KilledTogether, Forked, StartedLate, Top, vars, work, history, memory
    <2>6. WorksDone'
      BY <1>2, <2>2, <2>3 DEF RInv, WorksDone, WorkDone, vars, work, history
    <2>7. WordsOne' /\ Waited' /\ Reported'
      <3>1. UNCHANGED <<opt, pc, seg, shm, at, started, reported>>
        BY <1>2 DEF vars, memory, history
      <3>2. \A c \in Children : /\ Finished(c) <=> Finished(c)'
                               /\ Alone(c[1]) <=> Alone(c[1])'
        BY <2>3, <2>4, Sets
      <3>3. WordsOne'
        BY <1>2, <3>1, <3>2 DEF RInv, WordsOne
      <3>4. Waited'
        BY <1>2, <3>1, <3>2 DEF RInv, Waited, Top
      <3>5. Reported'
        BY <1>2, <2>3, <2>4, <3>1 DEF RInv, Reported, Counted, Top
      <3>6. QED
        BY <3>3, <3>4, <3>5
    <2>8. QED
      BY <2>1, <2>5, <2>6, <2>7 DEF RInv
  <1>3. QED
    BY <1>1, <1>2

\* When the parent of a run that has a segment to itself reports the rate, every
\* process of the run has failed or has executed all its transactions, and in
\* ODPI-C committed them ("main/parent process waits for all sub-processes to
\* complete").
THEOREM ReportAfterAllSafe == Spec => []ReportAfterAll
  <1>1. RInv => ReportAfterAll
    <2> SUFFICES ASSUME RInv, NEW p \in Processes, p[1] \in reported, p[2] < opt.procs, Alone(p[1])
                 PROVE  \/ pc[p] \in {"failed", "killed"}
                        \/ /\ xact[p] = opt.xacts /\ left[p] = 0
                           /\ opt.api = "odpi" /\ Percentages["read"] # 100 => ~dirty[p]
      BY DEF ReportAfterAll
    <2>1. Finished(p)
      BY DEF RInv, Reported
    <2>2. QED
      BY <2>1 DEF Finished, Committing
  <1>2. QED
    BY <1>1, InitRInv, NextRInv, PTL DEF Spec
=============================================================================
