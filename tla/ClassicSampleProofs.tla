-------------------------- MODULE ClassicSampleProofs --------------------------
(***************************************************************************)
(* The classic samples.  The benchmarks (ClassicBenchmarks): a command     *)
(* line is accepted before anything is prepared, the parser finds the      *)
(* options that a scan of them finds, bulkinsert loads the rows            *)
(* from 0 in order, and tpcb keeps a branch's balance equal to what its    *)
(* accounts, tellers and history say, whatever was asked on the command    *)
(* line.  pooltest (ConnectionPool): no connection of the pool is lost or  *)
(* shared, for any number of threads, connections and inserts, however     *)
(* often the database becomes invalid.                                     *)
(*                                                                         *)
(* What a loop computes is proved by the least counterexample: the library *)
(* theorems on well-founded orders take the order as a value.              *)
(***************************************************************************)
EXTENDS ClassicBenchmarks, ConnectionPool, FiniteSetTheorems, SequenceTheorems,
        WellFoundedInduction, TLAPS


\* What the handlers of an argument do with the place of a parse.
Moves(s, t) == DOMAIN t = DOMAIN s /\ t.place \in {s.place, "exit0", "crash"}

LEMMA MovesTrans ==
    ASSUME NEW s, NEW t, NEW u, Moves(s, t), Moves(t, u) PROVE Moves(s, u)
  BY DEF Moves

LEMMA SmallMoves ==
    ASSUME NEW s, "place" \in DOMAIN s
    PROVE  /\ Moves(s, s)
           /\ Moves(s, Say(s)) /\ Moves(s, Fail(s)) /\ Moves(s, OptError(s)) /\ Moves(s, Succeed(s))
           /\ \A o, x : Moves(s, Store(s, o, x))
           /\ \A n : Moves(s, Skip(s, n))
           /\ Moves(s, GotDsn(s))
  BY DEF Moves, Say, Fail, OptError, Succeed, Store, Skip, GotDsn

LEMMA StoredMoves ==
    ASSUME NEW s, "place" \in DOMAIN s, NEW o, NEW x, NEW n
    PROVE  Moves(s, Skip(Store(s, o, x), n)) /\ Moves(s, OptError(Skip(Store(s, o, x), n)))
  <1>1. Moves(s, Store(s, o, x)) /\ "place" \in DOMAIN Store(s, o, x)
    BY SmallMoves DEF Moves
  <1>2. Moves(s, Skip(Store(s, o, x), n)) /\ "place" \in DOMAIN Skip(Store(s, o, x), n)
    BY <1>1, SmallMoves, MovesTrans DEF Moves
  <1>3. QED
    BY <1>2, SmallMoves, MovesTrans

LEMMA NumericMoves ==
    ASSUME NEW s, "place" \in DOMAIN s, NEW argv, NEW o, NEW inline
    PROVE  Moves(s, GetNumericArg(s, argv, o, inline))
  <1>1. Moves(s, [s EXCEPT !.place = "crash"])
    BY DEF Moves
  <1>2. Moves(s, OptError(s))
    BY SmallMoves
  <1>3. QED
    BY <1>1, <1>2, StoredMoves DEF GetNumericArg

LEMMA CopyMoves ==
    ASSUME NEW s, "place" \in DOMAIN s, NEW argv, NEW o, NEW inline
    PROVE  Moves(s, CopyStrArg(s, argv, o, inline))
  <1>1. Moves(s, OptError(s))
    BY SmallMoves
  <1>2. QED
    BY <1>1, StoredMoves DEF CopyStrArg

LEMMA ArrayMoves ==
    ASSUME NEW s, "place" \in DOMAIN s, NEW argv, NEW o, NEW n, NEW Value(_)
    PROVE  Moves(s, AddToArray(s, argv, o, n, Value))
  BY StoredMoves DEF AddToArray

LEMMA HandlerMoves ==
    ASSUME NEW s, "place" \in DOMAIN s, NEW argv, NEW L, NEW o, NEW invert, NEW inline
    PROVE  Moves(s, HandleOption(s, argv, L, o, invert, inline))
  <1>1. Moves(s, OptError(s)) /\ \A x : Moves(s, Store(s, o, x))
    BY SmallMoves
  <1>2. Moves(s, GetArrayArg(s, argv, o))
    BY <1>1, ArrayMoves DEF GetArrayArg
  <1>3. Moves(s, GetStrArrayArg(s, argv, L, o))
    BY <1>1, ArrayMoves DEF GetStrArrayArg
  <1>4. Moves(s, DoCallback(s, argv, o, inline))
    BY <1>1, StoredMoves DEF DoCallback
  <1>5. Moves(s, GetStrIntArg(s, argv, o))
    <2> DEFINE t == Skip(Store(s, o, <<argv[s.idx]>>), 1)
    <2>1. Moves(s, t) /\ Moves(s, OptError(t)) /\ "place" \in DOMAIN t
      BY StoredMoves DEF Moves
    <2>2. \A x : Moves(s, Skip(Store(t, o, x), 1))
      BY <2>1, StoredMoves, MovesTrans
    <2> HIDE DEF t
    <2>3. QED
      BY <1>1, <2>1, <2>2 DEF GetStrIntArg, t
  <1>6. QED
    BY <1>1, <1>2, <1>3, <1>4, <1>5, NumericMoves, CopyMoves DEF HandleOption

LEMMA SpecialMoves ==
    ASSUME NEW s, "place" \in DOMAIN s, NEW argv, NEW L, NEW w
    PROVE  Moves(s, ChkSpecialOption(s, argv, L, w))
  <1>1. Moves(s, Fail(s)) /\ Moves(s, Succeed(s)) /\ \A o, x : Moves(s, Store(s, o, x))
    BY SmallMoves
  <1>2. Moves(s, [s EXCEPT !.place = "exit0"])
    BY DEF Moves
  <1>3. \A o : Moves(s, GotDsn(CopyStrArg(s, argv, o, NoArg)))
    <2> TAKE o
    <2>1. Moves(s, CopyStrArg(s, argv, o, NoArg)) /\ "place" \in DOMAIN CopyStrArg(s, argv, o, NoArg)
      BY CopyMoves DEF Moves
    <2>2. QED
      BY <2>1, SmallMoves, MovesTrans
  <1>4. QED
    BY <1>1, <1>2, <1>3 DEF ChkSpecialOption

LEMMA BundleMoves ==
    ASSUME NEW s, "place" \in DOMAIN s, NEW L, NEW w
    PROVE  Moves(s, HandleSingleChar(s, L, w))
  <1>1. \A f : LET t == [s EXCEPT !.values = f]
               IN  /\ Moves(s, Succeed(t)) /\ Moves(s, Fail(t)) /\ Moves(s, OptError(t))
                   /\ \A o, x : Moves(s, Store(t, o, x))
    <2> TAKE f
    <2> DEFINE t == [s EXCEPT !.values = f]
    <2>1. Moves(s, t) /\ "place" \in DOMAIN t
      BY DEF Moves
    <2> HIDE DEF t
    <2>2. /\ Moves(s, Succeed(t)) /\ Moves(s, Fail(t)) /\ Moves(s, OptError(t))
          /\ \A o, x : Moves(s, Store(t, o, x))
      BY <2>1, SmallMoves, MovesTrans
    <2>3. QED
      BY <2>2 DEF t
  <1>2. QED
    BY <1>1 DEF HandleSingleChar

LEMMA FindMoves ==
    ASSUME NEW s, "place" \in DOMAIN s, NEW argv, NEW L, NEW w, NEW dbl
    PROVE  Moves(s, FindOption(s, argv, L, w, dbl))
  <1> DEFINE special == ChkSpecialOption(s, argv, L, w)
             bundle  == IF ~dbl /\ Len(w) > 1 THEN HandleSingleChar(special, L, w) ELSE special
  <1>1. Moves(s, Fail(s)) /\ Moves(s, special) /\ "place" \in DOMAIN special
    BY SmallMoves, SpecialMoves DEF Moves
  <1>2. Moves(s, bundle) /\ "place" \in DOMAIN bundle
    <2> HIDE DEF special
    <2> QED
      BY <1>1, BundleMoves, MovesTrans DEF Moves
  <1> HIDE DEF special, bundle
  <1>3. \A o, invert, inline : Moves(s, HandleOption(s, argv, L, o, invert, inline))
    BY HandlerMoves
  <1>4. \A o, invert, inline : Moves(s, HandleOption(bundle, argv, L, o, invert, inline))
    BY <1>2, HandlerMoves, MovesTrans
  <1>5. QED
    BY <1>1, <1>2, <1>3, <1>4 DEF FindOption, special, bundle

LEMMA ParseArgPlace ==
    ASSUME NEW s, "place" \in DOMAIN s, s.place = "args", NEW argv, NEW L
    PROVE  /\ "place" \in DOMAIN ParseArg(s, argv, L)
           /\ ParseArg(s, argv, L).place \in {"args", "connstr", "exit0", "crash"}
  <1> DEFINE w == argv[s.idx]
             t == FindOption(Fail(Skip(s, 1)), argv, L, OptionOf(w), IsDouble(w))
  <1>1. Moves(s, Fail(Skip(s, 1))) /\ "place" \in DOMAIN Fail(Skip(s, 1))
    <2>1. Moves(s, Skip(s, 1)) /\ "place" \in DOMAIN Skip(s, 1)
      BY SmallMoves DEF Moves
    <2>2. QED
      BY <2>1, SmallMoves, MovesTrans DEF Moves
  <1>2. Moves(s, t) /\ "place" \in DOMAIN t
    BY <1>1, FindMoves, MovesTrans DEF Moves
  <1> HIDE DEF t
  <1>3. Moves(s, NotTaken(s, t, L))
    <2>1. Moves(s, Say(t)) /\ "place" \in DOMAIN Say(t)
      BY <1>2, SmallMoves, MovesTrans DEF Moves
    <2>2. QED
      BY <1>2, <2>1 DEF NotTaken, Moves
  <1>4. Moves(s, Skip(s, 1)) /\ "place" \in DOMAIN Skip(s, 1)
    BY SmallMoves DEF Moves
  <1>5. ParseArg(s, argv, L) \in {[s EXCEPT !.place = "connstr"], [Skip(s, 1) EXCEPT !.place = "connstr"],
                                  t, NotTaken(s, t, L)}
    BY DEF ParseArg, t
  <1>6. QED
    BY <1>2, <1>3, <1>4, <1>5 DEF Moves

LEMMA FinishPlace ==
    ASSUME NEW s, "place" \in DOMAIN s, NEW argv, NEW L, NEW env
    PROVE  /\ "place" \in DOMAIN Finish(s, argv, L, env)
           /\ Finish(s, argv, L, env).place \in {"parsed", "crash"}
  <1> DEFINE t == HandleConnstr(s, argv, L, env)
  <1>1. DOMAIN t = DOMAIN s
    <2>1. \A o : DOMAIN CopyStrArg(s, argv, o, NoArg) = DOMAIN s
      BY CopyMoves DEF Moves
    <2>2. DOMAIN [s EXCEPT !.place = "crash"] = DOMAIN s
      OBVIOUS
    <2>3. \A u : DOMAIN OptError(u) = DOMAIN u /\ DOMAIN [u EXCEPT !.nerrs = @ + 1] = DOMAIN u
      BY DEF OptError, Fail, Say
    <2>4. \A o, x : DOMAIN Store(s, o, x) = DOMAIN s
      BY DEF Store, Succeed
    <2>5. QED
      BY <2>1, <2>2, <2>3, <2>4 DEF HandleConnstr
  <1>2. QED
    BY <1>1 DEF Finish

-----------------------------------------------------------------------------
\* What GridSample has of -txnmix.
IsMix(mix) == mix \in [1..5 -> Nat] /\ Total(mix) = 100

GetoptPlaces == {"options", "args", "connstr", "parsed", "run", "refused", "exit0", "crash"}
GsPlaces     == {"gsArgs", "password", "openLog", "run", "refused", "help"}

\* A program is at work only with a command line that it has accepted.
Parsing ==
    /\ "place" \in DOMAIN st
    /\ Getopt => /\ st.place \in GetoptPlaces
                 /\ At("run") => InRanges
    /\ ~Getopt => /\ "mix" \in DOMAIN st /\ IsMix(st.mix)
                  /\ st.place \in GsPlaces
    /\ pc # "idle" => input \in Worked /\ At("run")
    /\ "program" \in DOMAIN v
    /\ v.program # "none" => v.program = input.prog /\ input \in Worked /\ At("run")

LEMMA WorkedGetopt == ASSUME input \in Worked PROVE Getopt
  BY BenchAssumption DEF Getopt

LEMMA WellFormedMix == ASSUME NEW w, ValidMix(w) PROVE IsMix(Values(w))
  <1>1. \A i \in 1..5 : IntValue(Fields(w)[i]) \in Nat
    BY GsAssumption DEF ValidMix, WellFormed, IsSimpleInt, IntValue
  <1>2. QED
    BY <1>1 DEF ValidMix, IsMix, Values

GsShape(s) == "place" \in DOMAIN s /\ "mix" \in DOMAIN s /\ IsMix(s.mix) /\ s.place \in GsPlaces

LEMMA GsArgShape ==
    ASSUME NEW s, GsShape(s), NEW argv
    PROVE  GsShape(GsParseArg(s, argv))
  <1> DEFINE name == argv[s.argno]
             t    == [s EXCEPT !.found = @ \cup {name}]
             w    == argv[s.argno + 1]
  <1>1. GsShape(t)
    BY DEF GsShape
  <1>2. GsShape(Refuse(s)) /\ GsShape([s EXCEPT !.place = "help"])
    BY DEF GsShape, Refuse, GsPlaces
  <1>3. \A n : GsShape([Apply(t, name, <<>>) EXCEPT !.argno = n]) \/ name = <<"-", "txnmix">>
    BY <1>1 DEF GsShape, Apply
  <1>4. ASSUME ValidValue(name, w) PROVE \A n : GsShape([Apply(t, name, w) EXCEPT !.argno = n])
    <2>1. CASE name = <<"-", "txnmix">>
      <3>1. ValidMix(w)
        BY <1>4, <2>1 DEF ValidValue
      <3>2. \A x \in {"silent", "nocleanup"} : name # <<"-", x>>
        BY <2>1
      <3>3. Apply(t, name, w) = [t EXCEPT !.mix = Values(w)]
        BY <2>1, <3>2 DEF Apply
      <3>4. QED
        BY <1>1, <3>1, <3>3, WellFormedMix DEF GsShape
    <2>2. CASE name # <<"-", "txnmix">>
      BY <1>1, <2>2 DEF GsShape, Apply
    <2>3. QED
      BY <2>1, <2>2
  <1>5. GsShape(Verbose(t, argv))
    BY <1>1 DEF GsShape, Verbose, Refuse, GsPlaces
  <1>6. TakesValue(<<"-", "txnmix">>)
    BY DEF TakesValue
  <1> HIDE DEF t
  <1>7. QED
    BY <1>2, <1>3, <1>4, <1>5, <1>6 DEF GsParseArg, t

LEMMA GsStepShape ==
    ASSUME GsShape(st), GsParseArgs \/ GsPassword \/ GsOpenLog
    PROVE  GsShape(st') /\ UNCHANGED input
  <1>1. CASE GsParseArgs
    <2>1. GsShape([st EXCEPT !.place = "password"])
      BY DEF GsShape, GsPlaces
    <2>2. QED
      BY <1>1, <2>1, GsArgShape DEF GsParseArgs
  <1>2. CASE GsPassword
    <2>1. \A typed : GsShape(AskPassword(st, typed))
      BY DEF GsShape, GsPlaces, AskPassword
    <2>2. QED
      BY <1>2, <2>1 DEF GsPassword
  <1>3. CASE GsOpenLog
    <2>1. \A opens : GsShape(OpenLog(st, opens))
      BY DEF GsShape, GsPlaces, OpenLog, Refuse
    <2>2. QED
      BY <1>3, <2>1 DEF GsOpenLog
  <1>4. QED
    BY <1>1, <1>2, <1>3

GetoptShape(s) == "place" \in DOMAIN s /\ s.place \in GetoptPlaces \ {"run"}

LEMMA GetoptStepShape ==
    ASSUME "place" \in DOMAIN st, GetOptions \/ ParseArgs \/ Connstr \/ CheckOptions
    PROVE  /\ \/ GetoptShape(st')
              \/ "place" \in DOMAIN st' /\ st'.place = "run" /\ InRanges'
           /\ UNCHANGED input
  <1>1. CASE GetOptions
    <2>1. \A s, p : "place" \in DOMAIN s /\ p \in GetoptPlaces \ {"run"} => GetoptShape([s EXCEPT !.place = p])
      BY DEF GetoptShape
    <2>2. "place" \in DOMAIN Say(st) /\ {"args", "refused"} \subseteq GetoptPlaces \ {"run"}
      BY DEF Say, GetoptPlaces
    <2>3. GetoptShape(st')
      BY <1>1, <2>1, <2>2 DEF GetOptions
    <2>4. QED
      BY <1>1, <2>3 DEF GetOptions
  <1>2. CASE ParseArgs
    <2>1. PICK p \in {"nul", "text", "unmapped"} :
              st' = [ParseArg([st EXCEPT !.p = p], input.argv, ol) EXCEPT !.p = "nul"]
      BY <1>2 DEF ParseArgs
    <2> DEFINE s == [st EXCEPT !.p = p]
               t == ParseArg(s, input.argv, ol)
    <2>2. "place" \in DOMAIN s /\ s.place = "args"
      BY <1>2 DEF ParseArgs, At
    <2>3. "place" \in DOMAIN t /\ t.place \in {"args", "connstr", "exit0", "crash"}
      BY <2>2, ParseArgPlace
    <2> HIDE DEF t
    <2>4. "place" \in DOMAIN st' /\ st'.place = t.place
      BY <2>1, <2>3 DEF t
    <2>5. GetoptShape(st')
      BY <2>3, <2>4 DEF GetoptShape, GetoptPlaces
    <2>6. QED
      BY <1>2, <2>5 DEF ParseArgs
  <1>3. CASE Connstr
    <2>1. "place" \in DOMAIN st' /\ st'.place \in {"parsed", "crash"}
      BY <1>3, FinishPlace DEF Connstr
    <2>2. GetoptShape(st')
      BY <2>1 DEF GetoptShape, GetoptPlaces
    <2>3. QED
      BY <1>3, <2>2 DEF Connstr
  <1>4. CASE CheckOptions
    <2>1. ConnectAs \in {"refused", "run"}
      BY DEF ConnectAs
    <2>2. st'.place \in {"refused", "run"} /\ "place" \in DOMAIN st' /\ st'.values = st.values
      BY <1>4, <2>1 DEF CheckOptions
    <2>3. st'.place = "run" => InRanges
      BY <1>4 DEF CheckOptions
    <2>4. InRanges => InRanges'
      BY <1>4, <2>2 DEF CheckOptions, InRanges, Program
    <2>5. "refused" \in GetoptPlaces \ {"run"}
      BY DEF GetoptPlaces
    <2>6. UNCHANGED input
      BY <1>4 DEF CheckOptions
    <2>7. CASE st'.place = "refused"
      BY <2>2, <2>5, <2>6, <2>7 DEF GetoptShape
    <2>8. CASE st'.place = "run"
      BY <2>2, <2>3, <2>4, <2>6, <2>8
    <2>9. QED
      BY <2>2, <2>7, <2>8
  <1>5. QED
    BY <1>1, <1>2, <1>3, <1>4

-----------------------------------------------------------------------------
\* What becomes of a call: the process ends with a failure, or goes on.
Stops(d) == pc' = "exit" /\ status' # 0 /\ db' = d /\ txn' = d /\ UNCHANGED v
Goes(d, t, next, locals) == pc' = next /\ v' = locals /\ db' = d /\ txn' = t

LEMMA ErrorStops ==
    ASSUME NEW abort, NEW d, NEW t, NEW next, NEW locals,
           handle_errors("error", abort, d, t, next, locals)
    PROVE  Stops(d)
  BY DEF handle_errors, QuitTest, Stops

LEMMA SuccessGoes ==
    ASSUME NEW abort, NEW d, NEW t, NEW next, NEW locals,
           handle_errors("success", abort, d, t, next, locals)
    PROVE  Stops(d) \/ Goes(d, t, next, locals)
  BY DEF handle_errors, QuitTest, Stops, Goes

LEMMA FailsStops == ASSUME NEW abort, Fails(abort) PROVE Stops(db)
  BY ErrorStops DEF Fails

LEMMA DeniedStops == ASSUME NEW abort, Denied(abort) PROVE Stops(db)
  BY ErrorStops DEF Denied

LEMMA StatementGoes ==
    ASSUME NEW t, NEW next, NEW locals, Statement(t, next, locals)
    PROVE  Stops(db) \/ Goes(db, t, next, locals)
  BY SuccessGoes, FailsStops DEF Statement

LEMMA DdlGoes ==
    ASSUME NEW d, NEW next, NEW locals, Ddl(d, next, locals)
    PROVE  Stops(d) \/ Stops(db) \/ Goes(d, d, next, locals)
  BY SuccessGoes, FailsStops DEF Ddl

LEMMA CallsGoes ==
    ASSUME NEW abort, NEW next, NEW locals, Calls(abort, next, locals)
    PROVE  Stops(db) \/ Goes(db, txn, next, locals)
  BY SuccessGoes, FailsStops DEF Calls

LEMMA SilentGoes ==
    ASSUME NEW next, NEW locals, Silent(next, locals)
    PROVE  Goes(db, txn, next, locals)
  BY DEF Silent, Goes

LEMMA CommitGoes ==
    ASSUME NEW abort, NEW next, NEW locals, Commit(abort, next, locals)
    PROVE  Stops(db) \/ Stops(txn) \/ Goes(txn, txn, next, locals)
  <1>1. CASE UNCHANGED faults /\ handle_errors("success", abort, txn, txn, next, locals)
    BY <1>1, SuccessGoes
  <1>2. CASE \E d \in {db, txn} : Fault /\ handle_errors("error", abort, d, d, pc, v)
    BY <1>2, ErrorStops
  <1>3. QED
    BY <1>1, <1>2 DEF Commit

LEMMA IgnoredGoes ==
    ASSUME NEW d, NEW next, Ignored(d, next)
    PROVE  Goes(d, d, next, v) \/ Goes(db, txn, next, v)
  BY DEF Ignored, Goes

LEMMA SignalGoes == ASSUME Signal \/ Kill PROVE Stops(db) \/ Goes(db, txn, pc, v)
  BY DEF Signal, Kill, QuitTest, Stops, Goes

Keeps(w) == "program" \in DOMAIN w /\ w.program = v.program

\* No step takes the name of the program away.
LEMMA KeepsProgram ==
    ASSUME "program" \in DOMAIN v, BulkinsertStep(opt) \/ TpcbStep(opt) \/ WiscbmStep(opt)
    PROVE  Keeps(v')
  <1>1. ASSUME NEW d, Stops(d) PROVE Keeps(v')
    BY <1>1 DEF Stops, Keeps
  <1>2. ASSUME NEW d, NEW t, NEW next, NEW w, Keeps(w), Goes(d, t, next, w) PROVE Keeps(v')
    BY <1>2 DEF Goes
  <1>3. /\ Keeps(v)
        /\ \A x : Keeps([v EXCEPT !.i = x]) /\ Keeps([v EXCEPT !.k = x]) /\ Keeps([v EXCEPT !.t = x])
        /\ \A x : Keeps([v EXCEPT !.short = x]) /\ Keeps([v EXCEPT !.ready = x])
        /\ \A x : Keeps([v EXCEPT !.toCommit = x]) /\ Keeps([v EXCEPT !.left = x])
        /\ \A x : Keeps([v EXCEPT !.compat = x])
        /\ \A x, y : Keeps([v EXCEPT !.i = x, !.toCommit = y]) /\ Keeps([v EXCEPT !.k = x, !.x = y])
        /\ \A x, y : Keeps([v EXCEPT !.i = x, !.x = y]) /\ Keeps([v EXCEPT !.q = x, !.i = y])
        /\ \A x, y, z : Keeps([v EXCEPT !.n = x, !.left = y, !.seed = z])
    BY DEF Keeps
  <1>4. \A t, next, w : Keeps(w) /\ Statement(t, next, w) => Keeps(v')
    BY <1>1, <1>2, StatementGoes
  <1>5. \A d, next, w : Keeps(w) /\ Ddl(d, next, w) => Keeps(v')
    BY <1>1, <1>2, DdlGoes
  <1>6. \A abort, next, w : Keeps(w) /\ Calls(abort, next, w) => Keeps(v')
    BY <1>1, <1>2, CallsGoes
  <1>7. \A next, w : Keeps(w) /\ Silent(next, w) => Keeps(v')
    BY <1>2, SilentGoes
  <1>8. \A abort, next, w : Keeps(w) /\ Commit(abort, next, w) => Keeps(v')
    BY <1>1, <1>2, CommitGoes
  <1>9. \A d, next : Ignored(d, next) => Keeps(v')
    BY <1>2, <1>3, IgnoredGoes
  <1>10. \A abort : Fails(abort) \/ Denied(abort) => Keeps(v')
    BY <1>1, FailsStops, DeniedStops
  <1>11. \A code, d : QuitTest(code, d) => Keeps(v')
    BY DEF QuitTest, Keeps
  <1>12. CASE BulkinsertStep(opt)
    <2>1. CASE BiBatch(opt)
      <3> DEFINE cur    == CurBatchsize(opt, v.i)
                 next   == [v EXCEPT !.i = Signed(@ + opt.batchsize), !.toCommit = @ - cur]
                 tested == [next EXCEPT !.toCommit = v.toCommit]
                 short  == [v EXCEPT !.short = TRUE]
      <3>1. Keeps(next) /\ Keeps(tested) /\ Keeps(short)
        BY DEF Keeps
      <3> HIDE DEF next, tested, short
      <3>2. \/ \E abort : Denied(abort)
            \/ \E abort, to : Calls(abort, to, tested)
            \/ \E to : Silent(to, tested)
            \/ \E t, to : Statement(t, to, next)
            \/ \E abort, t, to : handle_errors("success", abort, db, t, to, short)
        BY <2>1 DEF BiBatch, next, tested, short, cur
      <3>3. \A abort, t, to : handle_errors("success", abort, db, t, to, short) => Keeps(v')
        BY <1>1, <1>2, <3>1, SuccessGoes
      <3>4. QED
        BY <1>4, <1>6, <1>7, <1>10, <3>1, <3>2, <3>3
    <2>2. CASE BiConnect \/ BiPrepare(opt) \/ BiIndexBefore \/ BiIndexAfter
      BY <2>2, <1>3, <1>6, <1>10 DEF BiConnect, BiPrepare, BiIndexBefore, BiIndexAfter, MakeIndex
    <2>3. CASE BiDrop
      BY <2>3, <1>9 DEF BiDrop
    <2>4. CASE BiCreate
      BY <2>4, <1>3, <1>5, <1>10 DEF BiCreate
    <2>5. CASE BiCommit(opt) \/ BiFinal(opt)
      BY <2>5, <1>3, <1>8 DEF BiCommit, BiFinal
    <2>6. CASE BiLoaded(opt) \/ BiStats(opt)
      BY <2>6, <1>3, <1>6, <1>7 DEF BiLoaded, BiStats
    <2>7. CASE BiEnd
      BY <2>7, <1>10, <1>11 DEF BiEnd
    <2>8. QED
      BY <1>12, <2>1, <2>2, <2>3, <2>4, <2>5, <2>6, <2>7 DEF BulkinsertStep
  <1>13. CASE TpcbStep(opt)
    <2>1. CASE TpConnect \/ TpBind
      BY <2>1, <1>3, <1>6 DEF TpConnect, TpBind
    <2>2. CASE TpDrop
      BY <2>2, <1>9 DEF TpDrop
    <2>3. CASE TpCreate
      BY <2>3, <1>3, <1>5, <1>10 DEF TpCreate
    <2>4. CASE TpPopulate(opt) \/ TpXact
      BY <2>4, <1>3, <1>4 DEF TpPopulate, TpXact
    <2>5. CASE TpPrepare
      BY <2>5, <1>3, <1>8, <1>10 DEF TpPrepare
    <2>6. CASE TpCommit
      BY <2>6, <1>3, <1>8 DEF TpCommit
    <2>7. CASE TpChoose(opt)
      <3>1. \/ QuitTest(8, db)
            \/ \E x : v' = [v EXCEPT !.k = 1, !.x = x]
        BY <2>7 DEF TpChoose
      <3>2. ASSUME NEW x, v' = [v EXCEPT !.k = 1, !.x = x] PROVE Keeps(v')
        BY <3>2 DEF Keeps
      <3>3. QED
        BY <1>11, <3>1, <3>2
    <2>8. CASE TpEnd(opt)
      BY <2>8, <1>10, <1>11 DEF TpEnd
    <2>9. QED
      BY <1>13, <2>1, <2>2, <2>3, <2>4, <2>5, <2>6, <2>7, <2>8 DEF TpcbStep
  <1>14. CASE WiscbmStep(opt)
    <2>1. Keeps(NextTable) /\ Keeps(NextQuery)
      BY <1>3 DEF NextTable, NextQuery
    <2>2. \A tab, t, next, w : Keeps(w) /\ OnTable(tab, t, next, w) => Keeps(v')
      BY <1>4, <1>10 DEF OnTable
    <2>3. \A here, after : Emptied(here, after) => Keeps(v')
      BY <2>1 DEF Emptied
    <2>4. CASE WiConnect(opt) \/ WiBuilt(opt) \/ WiStats \/ WiQueried \/ WiEmptied(opt) \/ WiDropped
      BY <2>4, <1>3, <1>6, <2>1 DEF WiConnect, WiBuilt, WiStats, WiQueried, WiEmptied, WiDropped
    <2>5. CASE WiDrop
      BY <2>5, <1>9 DEF WiDrop
    <2>6. CASE WiCreate
      BY <2>6, <2>1, <1>5, <1>10 DEF WiCreate
    <2>7. CASE WiTruncate \/ WiTruncateAll
      BY <2>7, <2>3 DEF WiTruncate, WiTruncateAll
    <2>8. CASE WiStart(opt) \/ WiExec
      BY <2>8, <2>2, <1>3 DEF WiStart, WiExec
    <2>9. CASE WiInsert(opt)
      <3>1. \E tab, t, next, w : Keeps(w) /\ OnTable(tab, t, next, w)
        BY <2>9, <1>3 DEF WiInsert
      <3>2. QED
        BY <2>2, <3>1
    <2>10. CASE WiCommit(opt) \/ WiFilled \/ WiExecuted \/ WiIndexed
      BY <2>10, <2>1, <1>3, <1>8 DEF WiCommit, WiFilled, WiExecuted, WiIndexed
    <2>11. CASE WiQuery(opt)
      BY <2>11, <2>1, <1>3, <1>6, <1>7, <1>10 DEF WiQuery
    <2>12. CASE WiIndex
      BY <2>12, <1>3, <1>5, <1>7, <1>10 DEF WiIndex
    <2>13. CASE WiFinish(opt)
      BY <2>13, <1>3, <1>7 DEF WiFinish
    <2>14. CASE WiDropAll
      BY <2>14, <2>1 DEF WiDropAll
    <2>15. CASE WiEnd
      BY <2>15, <1>11 DEF WiEnd
    <2>16. QED
      BY <1>14, <2>4, <2>5, <2>6, <2>7, <2>8, <2>9, <2>10, <2>11, <2>12, <2>13, <2>14, <2>15 DEF WiscbmStep
  <1>15. QED
    BY <1>12, <1>13, <1>14

BulkPlaces == {"biConnect", "biDrop", "biCreate", "biPrepare", "biIndexBefore", "biLoop", "biCommit",
               "biFinal", "biIndexAfter", "biStats", "biEnd"}
TpcbPlaces == {"tpConnect", "tpDrop", "tpCreate", "tpPopulate", "tpPrepare", "tpBind", "tpChoose",
               "tpXact", "tpCommit"}
WiscPlaces == {"wiConnect", "wiDrop", "wiCreate", "wiTruncate", "wiBuilt", "wiStart", "wiInsert",
               "wiCommit", "wiStats", "wiQuery", "wiExec", "wiExecuted", "wiIndex", "wiTruncateAll",
               "wiEmptied", "wiDropAll", "wiDropped", "wiEnd"}

\* A step of a benchmark is one at its own places.
LEMMA PlacesOf ==
    /\ BulkinsertStep(opt) => pc \in BulkPlaces
    /\ TpcbStep(opt) => pc \in TpcbPlaces
    /\ WiscbmStep(opt) => pc \in WiscPlaces
  <1>1. BulkinsertStep(opt) => pc \in BulkPlaces
    BY DEF BulkPlaces, BulkinsertStep, BiConnect, BiDrop, BiCreate, BiPrepare, BiIndexBefore,
           BiBatch, BiCommit, BiLoaded, BiFinal, BiIndexAfter, BiStats, BiEnd
  <1>2. TpcbStep(opt) => pc \in TpcbPlaces
    BY DEF TpcbPlaces, TpcbStep, TpConnect, TpDrop, TpCreate, TpPopulate, TpPrepare, TpBind, TpChoose,
           TpXact, TpCommit, TpEnd
  <1>3. WiscbmStep(opt) => pc \in WiscPlaces
    BY DEF WiscPlaces, WiscbmStep, WiConnect, WiDrop, WiCreate, WiTruncate, WiBuilt, WiStart, WiInsert,
           WiCommit, WiFilled, WiStats, WiQuery, WiExec, WiExecuted, WiQueried, WiIndex, WiIndexed,
           WiFinish, WiTruncateAll, WiEmptied, WiDropAll, WiDropped, WiEnd, Emptied
  <1>4. QED
    BY <1>1, <1>2, <1>3

LEMMA WorkGuards == ASSUME pc = "idle" PROVE ~BulkinsertStep(opt) /\ ~TpcbStep(opt) /\ ~WiscbmStep(opt)
  BY PlacesOf DEF BulkPlaces, TpcbPlaces, WiscPlaces

LEMMA ParsingInductive ==
    /\ BenchInit => Parsing
    /\ Parsing /\ [BenchNext]_benchVars => Parsing'
  <1>1. BenchInit => Parsing
    <2> SUFFICES ASSUME BenchInit PROVE Parsing
      OBVIOUS
    <2>1. CASE Getopt
      BY <2>1 DEF BenchInit, Init, WorkInit, Parsing, Start, GetoptPlaces, At, IdleLocals
    <2>2. CASE ~Getopt
      <3>1. IsMix(DefaultMix)
        BY DEF IsMix, DefaultMix, Total
      <3>2. st = GsStart
        BY <2>2 DEF BenchInit, Init
      <3>3. st.mix = DefaultMix /\ st.place = "gsArgs" /\ {"mix", "place"} \subseteq DOMAIN st
        BY <3>2 DEF GsStart
      <3>4. QED
        BY <2>2, <3>1, <3>3 DEF BenchInit, WorkInit, Parsing, GsPlaces, IdleLocals
    <2>3. QED
      BY <2>1, <2>2
  <1>2. ASSUME Parsing, [BenchNext]_benchVars PROVE Parsing'
    <2> USE <1>2
    <2>1. ASSUME ~Running, Next, UNCHANGED work PROVE Parsing'
      <3>1. CASE Over
        BY <2>1, <3>1 DEF Over, vars, work, Parsing, Getopt, At, InRanges, Program
      <3>2. CASE GetOptions \/ ParseArgs \/ Connstr \/ CheckOptions
        <4>1. Getopt
          BY <3>2 DEF GetOptions, ParseArgs, Connstr, CheckOptions, At, Parsing, GsPlaces
        <4>2. \/ GetoptShape(st')
              \/ "place" \in DOMAIN st' /\ st'.place = "run" /\ InRanges'
          BY <3>2, GetoptStepShape DEF Parsing
        <4>3. UNCHANGED <<input, pc, v>>
          BY <2>1, <3>2, GetoptStepShape DEF Parsing, work
        <4>4. pc = "idle" /\ v.program = "none"
          BY <3>2 DEF GetOptions, ParseArgs, Connstr, CheckOptions, At, Parsing
        <4>5. QED
          BY <4>1, <4>2, <4>3, <4>4 DEF Parsing, GetoptShape, GetoptPlaces, Getopt, At
      <3>3. CASE GsParseArgs \/ GsPassword \/ GsOpenLog
        <4>1. ~Getopt /\ GsShape(st)
          BY <3>3 DEF GsParseArgs, GsPassword, GsOpenLog, At, Parsing, GetoptPlaces, GsShape
        <4>2. GsShape(st') /\ UNCHANGED <<input, pc, v>>
          BY <2>1, <3>3, <4>1, GsStepShape DEF work
        <4>3. pc = "idle" /\ v.program = "none"
          BY <3>3 DEF GsParseArgs, GsPassword, GsOpenLog, At, Parsing
        <4>4. QED
          BY <4>1, <4>2, <4>3 DEF Parsing, GsShape, Getopt
      <3>4. QED
        BY <2>1, <3>1, <3>2, <3>3 DEF Next
    <2>2. ASSUME Step, UNCHANGED <<input, ol, st>> PROVE Parsing'
      <3>1. input \in Worked /\ At("run")
        <4>1. CASE pc # "idle"
          BY <4>1 DEF Parsing
        <4>2. CASE pc = "idle"
          BY <2>2, <4>2, WorkGuards DEF Step, Begin, Signal, Kill, Running
        <4>3. QED
          BY <4>1, <4>2
      <3>2. "program" \in DOMAIN v' /\ v'.program \in {"none", input.prog}
        <4>1. "program" \in DOMAIN v /\ v.program \in {"none", input.prog}
          BY DEF Parsing
        <4>2. CASE Begin
          BY <4>2 DEF Begin, WiscbmLocals, BulkinsertLocals, TpcbLocals
        <4>3. CASE BulkinsertStep(opt) \/ TpcbStep(opt) \/ WiscbmStep(opt)
          BY <4>1, <4>3, KeepsProgram DEF Keeps
        <4>4. CASE Signal \/ Kill
          BY <4>1, <4>4 DEF Signal, Kill, QuitTest
        <4>5. QED
          BY <2>2, <4>2, <4>3, <4>4 DEF Step
      <3>3. QED
        BY <2>2, <3>1, <3>2 DEF Parsing, Getopt, At, InRanges, Program
    <2>3. ASSUME Again PROVE Parsing'
      <3>1. Getopt
        BY <2>3, WorkedGetopt DEF Again, Parsing
      <3>2. Getopt'
        BY <2>3, <3>1 DEF Again, Getopt
      <3>3. /\ st'.place = "options" /\ "place" \in DOMAIN st' /\ pc' = "idle"
            /\ "program" \in DOMAIN v' /\ v'.program = "none"
        BY <2>3 DEF Again, Start, IdleLocals
      <3>4. QED
        BY <3>2, <3>3 DEF Parsing, GetoptPlaces, At
    <2>4. ASSUME UNCHANGED benchVars PROVE Parsing'
      BY <2>4 DEF benchVars, work, Parsing, Getopt, At, InRanges, Program
    <2>5. QED
      BY <2>1, <2>2, <2>3, <2>4 DEF BenchNext
  <1>3. QED
    BY <1>1, <1>2

\* No program connects, or does any of its work, before main() has accepted its
\* command line: the parser has reached its end, every number is in the range
\* that main() checks, and GridSample's mix of transactions adds up to 100.
THEOREM ParsingSafe == BenchSpec => []Parsing
  BY ParsingInductive, PTL DEF BenchSpec

\* GridSample never chooses a type of transaction that it has not prepared.
THEOREM ChosenPreparedSafe == BenchSpec => []ChosenPrepared
  <1>1. Parsing => ChosenPrepared
    BY DEF Parsing, ChosenPrepared, IsMix, Total, ChooseTxnType, Prepared
  <1>2. QED
    BY <1>1, ParsingSafe, PTL


-----------------------------------------------------------------------------
(* bulkinsert                                                              *)

\* LOAD holds the first n rows.
Loaded(d, n) == "LOAD" \in DOMAIN d /\ n \in Nat /\ d["LOAD"] = Counters(0, n)

\* What is committed is the beginning of what has been inserted, not too far
\* behind; when the counter is negative all rows are there, and the program can
\* only fail.
Behind(n, m) == n <= m /\ m - n < CommitSize(opt) + opt.batchsize

Looping(p, w, n, m) ==
    /\ w.short = FALSE /\ w.i \in Int /\ w.toCommit \in Int /\ w.i < Wrap \div 2
    /\ w.i < 0 => opt.records + opt.batchsize > w.i + Wrap /\ w.i >= -(Wrap \div 2)
    /\ IF opt.testmode = 1
       THEN n = 0 /\ m = 0 /\ w.toCommit = CommitSize(opt) /\ p = "biLoop"
       ELSE /\ w.i >= 0 => m = IF w.i < opt.records THEN w.i ELSE opt.records
            /\ w.i < 0 => m = opt.records
            /\ m - n = CommitSize(opt) - w.toCommit
            /\ IF p = "biLoop" THEN w.toCommit > 0
               ELSE w.toCommit <= 0 /\ w.toCommit > -opt.batchsize

Complete(w, n) == ~w.short /\ opt.testmode # 1 => n = opt.records

\* bulkinsert at p with the locals w, when d is committed, t is seen and the
\* status is s.
Bulk(p, w, d, t, s) ==
    /\ p \in BulkPlaces \cup {"idle", "exit"}
    /\ "LOAD" \in DOMAIN d => \E n \in Nat : Loaded(d, n)
    /\ p # "idle" => w.program = "bulkinsert" /\ {"program", "i", "toCommit", "short"} \subseteq DOMAIN w
    /\ p = "idle" => w = IdleLocals
    /\ p \in {"idle", "biConnect", "biDrop", "biCreate"} => t = d
    /\ p \in {"biConnect", "biDrop", "biCreate", "biPrepare", "biIndexBefore"} =>
           w = BulkinsertLocals(opt)
    /\ p \in {"biPrepare", "biIndexBefore"} => t = d /\ Loaded(d, 0)
    /\ p \in {"biLoop", "biCommit"} =>
           \E n, m \in Nat : Loaded(d, n) /\ Loaded(t, m) /\ n <= m /\ Looping(p, w, n, m)
    /\ p = "biFinal" =>
           \E n, m \in Nat : Loaded(d, n) /\ Loaded(t, m) /\ Behind(n, m) /\ Complete(w, m)
    /\ p \in {"biIndexAfter", "biStats", "biEnd"} =>
           t = d /\ \E n \in Nat : Loaded(d, n) /\ Complete(w, n)
    /\ p = "exit" => t = d
    /\ p = "exit" /\ s = 0 => \E n \in Nat : Loaded(d, n) /\ Complete(w, n)

BulkInv == input.prog = "bulkinsert" /\ Getopt => Bulk(pc, v, db, txn, status)

-----------------------------------------------------------------------------
\* The numbers of the command line, after the checks of main().
BulkNumbers ==
    /\ Wrap \in Nat /\ Wrap >= 4 /\ Wrap \div 2 = 2 * (Wrap \div 4) /\ Wrap = 4 * (Wrap \div 4)
    /\ opt.records \in Nat /\ 1 <= opt.records /\ opt.records < Wrap \div 2
    /\ opt.batchsize \in Nat /\ 1 <= opt.batchsize /\ opt.batchsize <= Wrap \div 4
    /\ CommitSize(opt) \in Nat /\ CommitSize(opt) >= 1

LEMMA BulkOptions ==
    ASSUME Parsing, input.prog = "bulkinsert", Getopt, At("run")
    PROVE  BulkNumbers
  <1>1. Wrap \in Nat /\ Wrap >= 4 /\ Wrap \div 2 = 2 * (Wrap \div 4) /\ Wrap = 4 * (Wrap \div 4)
    BY GetoptAssumption
  <1>2. /\ opt.records \in 1..(Wrap \div 2 - 1)
        /\ opt.batchsize \in 1..(Wrap \div 4)
        /\ opt.commitsize \in 0..(Wrap \div 2 - 1)
    BY BenchAssumption DEF Parsing, InRanges, Program, opt, Getopt
  <1>3. CommitSize(opt) \in Nat /\ CommitSize(opt) >= 1
    BY <1>1, <1>2 DEF CommitSize
  <1>4. QED
    BY <1>1, <1>2, <1>3 DEF BulkNumbers

LEMMA SignedIs ==
    ASSUME NEW n \in Int, BulkNumbers, n >= -(Wrap \div 2), n < Wrap + Wrap \div 2
    PROVE  Signed(n) = IF n < Wrap \div 2 THEN n ELSE n - Wrap
  BY DEF Signed, BulkNumbers

LEMMA UlongIs ==
    ASSUME NEW n \in Int, BulkNumbers, n >= -(Wrap \div 2), n < Wrap
    PROVE  Ulong(n) = (IF n >= 0 THEN n ELSE n + Wrap * Wrap) /\ Wrap * Wrap \in Nat /\ Wrap * Wrap >= 4 * Wrap
  <1> DEFINE M == Wrap * Wrap
  <1>1. M \in Nat /\ M >= 4 * Wrap
    BY DEF BulkNumbers
  <1> HIDE DEF M
  <1>2. n % M = IF n >= 0 THEN n ELSE n + M
    BY <1>1 DEF BulkNumbers
  <1>3. QED
    BY <1>1, <1>2 DEF Ulong, M

\* The size of the batch at i, when i is not beyond the last row.
LEMMA BatchIs ==
    ASSUME BulkNumbers, NEW i \in Int, i < opt.records, i < Wrap \div 2,
           i < 0 => opt.records + opt.batchsize > i + Wrap /\ i >= -(Wrap \div 2)
    PROVE  /\ i < 0 => CurBatchsize(opt, i) <= 0
           /\ i >= 0 => /\ CurBatchsize(opt, i) \in Nat /\ CurBatchsize(opt, i) >= 1
                        /\ CurBatchsize(opt, i) <= opt.batchsize
                        /\ IF i + opt.batchsize > opt.records
                           THEN CurBatchsize(opt, i) = opt.records - i
                           ELSE CurBatchsize(opt, i) = opt.batchsize
                        /\ Signed(i + opt.batchsize) =
                               IF i + opt.batchsize < Wrap \div 2 THEN i + opt.batchsize
                               ELSE i + opt.batchsize - Wrap
  <1>1. CASE i < 0
    <2>1. i + opt.batchsize < 0 /\ i + opt.batchsize >= -(Wrap \div 2) /\ i + opt.batchsize \in Int
      BY <1>1 DEF BulkNumbers
    <2>2. IsPartial(opt, i)
      BY <2>1, UlongIs DEF IsPartial, BulkNumbers
    <2>3. opt.records - i \in Int /\ opt.records - i >= Wrap \div 2 /\ opt.records - i < Wrap
      BY <1>1 DEF BulkNumbers
    <2>4. Signed(opt.records - i) <= 0
      BY <2>3, SignedIs DEF BulkNumbers
    <2>5. QED
      BY <1>1, <2>2, <2>4 DEF CurBatchsize
  <1>2. CASE i >= 0
    <2>1. i + opt.batchsize \in Nat /\ i + opt.batchsize < Wrap
      BY <1>2 DEF BulkNumbers
    <2>2. IsPartial(opt, i) <=> i + opt.batchsize > opt.records
      BY <2>1, UlongIs DEF IsPartial, BulkNumbers
    <2>3. Signed(opt.records - i) = opt.records - i
      BY <1>2, SignedIs DEF BulkNumbers
    <2>4. Signed(i + opt.batchsize) =
              IF i + opt.batchsize < Wrap \div 2 THEN i + opt.batchsize ELSE i + opt.batchsize - Wrap
      BY <2>1, SignedIs DEF BulkNumbers
    <2>5. QED
      BY <1>2, <2>2, <2>3, <2>4 DEF CurBatchsize, BulkNumbers
  <1>3. QED
    BY <1>1, <1>2

LEMMA CountersJoin ==
    ASSUME NEW m \in Nat, NEW n \in Nat
    PROVE  /\ Counters(0, m) \o Counters(m, n) = Counters(0, m + n)
           /\ Len(Counters(0, m)) = m
  <1>1. Counters(0, m) \in Seq(Int) /\ Counters(m, n) \in Seq(Int)
    BY DEF Counters
  <1>2. Len(Counters(0, m)) = m /\ Len(Counters(m, n)) = n
    BY <1>1 DEF Counters
  <1>3. QED
    BY <1>1, <1>2 DEF Counters

\* Rows that are put where m rows are.
LEMMA LoadedPut ==
    ASSUME NEW d, NEW m \in Nat, Loaded(d, m), NEW n \in Nat
    PROVE  Loaded(Put(d, "LOAD", d["LOAD"] \o Counters(m, n)), m + n)
  <1> DEFINE c == d["LOAD"] \o Counters(m, n)
  <1>1. c = Counters(0, m + n)
    BY CountersJoin DEF Loaded
  <1> HIDE DEF c
  <1> DEFINE e == Put(d, "LOAD", c)
  <1>2. "LOAD" \in DOMAIN e /\ e["LOAD"] = c
    BY DEF Put
  <1> HIDE DEF e
  <1>3. m + n \in Nat
    OBVIOUS
  <1>4. Loaded(e, m + n)
    BY <1>1, <1>2, <1>3 DEF Loaded
  <1>5. QED
    BY <1>4 DEF e, c

\* When bulkinsert is stopped what is committed are the first rows.
LEMMA BulkStops ==
    ASSUME NEW d, Stops(d), d \in {db, txn}, Bulk(pc, v, db, txn, status), pc \in BulkPlaces
    PROVE  Bulk(pc', v', db', txn', status')
  <1>1. "LOAD" \in DOMAIN d => \E n \in Nat : Loaded(d, n)
    <2>1. CASE d = db
      BY <2>1 DEF Bulk
    <2>2. CASE d = txn
      BY <2>2 DEF Bulk, BulkPlaces
    <2>3. QED
      BY <2>1, <2>2
  <1>2. v.program = "bulkinsert" /\ {"program", "i", "toCommit", "short"} \subseteq DOMAIN v
    BY DEF Bulk, BulkPlaces
  <1>3. pc' = "exit" /\ status' # 0 /\ db' = d /\ txn' = d /\ v' = v
    BY DEF Stops
  <1>4. QED
    BY <1>1, <1>2, <1>3 DEF Bulk, BulkPlaces

LEMMA BulkBatch ==
    ASSUME BulkNumbers, Bulk(pc, v, db, txn, status), BiBatch(opt)
    PROVE  Bulk(pc', v', db', txn', status')
  <1> DEFINE cur  == CurBatchsize(opt, v.i)
             next == [v EXCEPT !.i = Signed(@ + opt.batchsize), !.toCommit = @ - cur]
             upto(k) == Put(txn, "LOAD", txn["LOAD"] \o Counters(v.i, k))
  <1>1. pc = "biLoop" /\ pc \in BulkPlaces /\ v.i < opt.records
    BY DEF BiBatch, BulkPlaces
  <1>2. PICK n, m \in Nat : Loaded(db, n) /\ Loaded(txn, m) /\ n <= m /\ Looping("biLoop", v, n, m)
    BY <1>1 DEF Bulk
  <1>3. v.program = "bulkinsert" /\ {"program", "i", "toCommit", "short"} \subseteq DOMAIN v
    BY <1>1 DEF Bulk, BulkPlaces
  <1>4. Stops(db) => Bulk(pc', v', db', txn', status')
    BY <1>1, BulkStops
  <1>5. CASE cur <= 0
    BY <1>1, <1>4, <1>5, DeniedStops DEF BiBatch
  <1>6. CASE ~(cur <= 0)
    <2>1. v.i \in Int /\ v.i >= 0 /\ cur \in Nat /\ cur >= 1 /\ cur <= opt.batchsize
      BY <1>1, <1>2, <1>6, BatchIs DEF Looping
    <2>2. Signed(v.i + opt.batchsize) =
              IF v.i + opt.batchsize < Wrap \div 2 THEN v.i + opt.batchsize ELSE v.i + opt.batchsize - Wrap
      BY <1>1, <1>2, <2>1, BatchIs DEF Looping
    <2>3. cur = IF v.i + opt.batchsize > opt.records THEN opt.records - v.i ELSE opt.batchsize
      BY <1>1, <1>2, <2>1, BatchIs DEF Looping
    <2> HIDE DEF cur
    <2>4. /\ next.i = Signed(v.i + opt.batchsize) /\ next.toCommit = v.toCommit - cur
          /\ next.short = v.short /\ next.program = v.program /\ DOMAIN next = DOMAIN v
      BY <1>3
    <2> DEFINE i == next.i
    <2>5. /\ i \in Int /\ i < Wrap \div 2
          /\ i < 0 => opt.records + opt.batchsize > i + Wrap /\ i >= -(Wrap \div 2)
          /\ i >= 0 => v.i + cur = IF i < opt.records THEN i ELSE opt.records
          /\ i < 0 => v.i + cur = opt.records
      BY <1>1, <2>1, <2>2, <2>3, <2>4 DEF BulkNumbers
    <2>6. CASE opt.testmode = 1
      <3> DEFINE tested == [next EXCEPT !.toCommit = v.toCommit]
      <3>1. /\ tested.i = i /\ tested.toCommit = v.toCommit
            /\ tested.short = v.short /\ tested.program = v.program /\ DOMAIN tested = DOMAIN v
        BY <1>3, <2>4
      <3>2. Looping("biLoop", tested, n, m)
        BY <1>2, <2>5, <2>6, <3>1 DEF Looping
      <3>3. Stops(db) \/ Goes(db, txn, "biLoop", tested)
        BY <1>6, <2>6, CallsGoes, SilentGoes DEF BiBatch, cur
      <3> HIDE DEF next, tested
      <3>4. CASE Goes(db, txn, "biLoop", tested)
        BY <1>2, <1>3, <3>1, <3>2, <3>4 DEF Goes, Bulk, BulkPlaces
      <3>5. QED
        BY <1>4, <3>3, <3>4
    <2>7. CASE opt.testmode # 1
      <3>1. m = v.i /\ m - n = CommitSize(opt) - v.toCommit /\ v.toCommit > 0 /\ v.toCommit \in Int /\ ~v.short
        BY <1>1, <1>2, <2>1, <2>7 DEF Looping
      <3> DEFINE place == IF next.toCommit <= 0 THEN "biCommit" ELSE "biLoop"
      <3>2. \/ Statement(upto(cur), place, next)
            \/ handle_errors("success", "ABORT_DISCONNECT_EXIT", db, upto(cur - 1),
                             "biFinal", [v EXCEPT !.short = TRUE])
        BY <1>6, <2>7 DEF BiBatch, cur
      <3>3. Loaded(upto(cur), m + cur) /\ Loaded(upto(cur - 1), m + (cur - 1))
        <4>1. cur - 1 \in Nat
          BY <2>1
        <4>2. \A k \in Nat : Loaded(upto(k), m + k)
          BY <1>2, <3>1, LoadedPut
        <4> HIDE DEF upto
        <4>3. QED
          BY <2>1, <4>1, <4>2
      <3> HIDE DEF upto
      <3>4. CASE Goes(db, upto(cur), place, next)
        <4>1. Looping(place, next, n, m + cur)
          BY <1>2, <2>1, <2>4, <2>5, <2>7, <3>1 DEF Looping, BulkNumbers
        <4>2. place \in {"biLoop", "biCommit"} /\ n <= m + cur /\ m + cur \in Nat
          BY <1>2, <2>1
        <4> HIDE DEF next, place
        <4>3. QED
          BY <1>2, <1>3, <2>4, <3>3, <3>4, <4>1, <4>2 DEF Goes, Bulk, BulkPlaces
      <3>5. CASE Goes(db, upto(cur - 1), "biFinal", [v EXCEPT !.short = TRUE])
        <4> DEFINE w == [v EXCEPT !.short = TRUE]
        <4>1. w.short /\ w.program = "bulkinsert" /\ DOMAIN w = DOMAIN v
          BY <1>3
        <4>2. Behind(n, m + (cur - 1)) /\ m + (cur - 1) \in Nat
          BY <1>2, <2>1, <3>1 DEF Behind, BulkNumbers
        <4>3. Complete(w, m + (cur - 1))
          BY <4>1 DEF Complete
        <4> HIDE DEF w
        <4>4. QED
          BY <1>2, <1>3, <3>3, <3>5, <4>1, <4>2, <4>3 DEF Goes, Bulk, BulkPlaces, w
      <3> HIDE DEF next, place
      <3>6. QED
        BY <1>4, <3>2, <3>4, <3>5, StatementGoes, SuccessGoes
    <2>8. QED
      BY <2>6, <2>7
  <1>7. QED
    BY <1>5, <1>6

LEMMA BulkStep ==
    ASSUME BulkNumbers, Bulk(pc, v, db, txn, status), BulkinsertStep(opt)
    PROVE  Bulk(pc', v', db', txn', status')
  <1> DEFINE Good == Bulk(pc', v', db', txn', status')
             Locals == v.program = "bulkinsert" /\ {"program", "i", "toCommit", "short"} \subseteq DOMAIN v
  <1>1. ASSUME pc \in BulkPlaces, Stops(db) \/ Stops(txn) PROVE Good
    BY <1>1, BulkStops
  <1>2. ASSUME pc \in BulkPlaces PROVE Locals
    BY <1>2 DEF Bulk, BulkPlaces
  <1>3. CASE BiConnect
    <2>1. pc = "biConnect" /\ pc \in BulkPlaces /\ (Stops(db) \/ Goes(db, txn, "biDrop", v))
      BY <1>3, CallsGoes DEF BiConnect, BulkPlaces
    <2>2. CASE Goes(db, txn, "biDrop", v)
      BY <2>1, <2>2, <1>2 DEF Goes, Bulk, BulkPlaces
    <2>3. QED
      BY <2>1, <2>2, <1>1
  <1>4. CASE BiDrop
    <2>1. pc = "biDrop" /\ pc \in BulkPlaces
      BY <1>4 DEF BiDrop, BulkPlaces
    <2>2. \/ Goes(Without(db, {"LOAD"}), Without(db, {"LOAD"}), "biCreate", v)
          \/ Goes(db, txn, "biCreate", v)
      BY <1>4, IgnoredGoes DEF BiDrop
    <2>3. "LOAD" \notin DOMAIN Without(db, {"LOAD"})
      BY DEF Without, Restrict
    <2>4. QED
      BY <2>1, <2>2, <2>3, <1>2 DEF Goes, Bulk, BulkPlaces
  <1>5. CASE BiCreate
    <2> DEFINE d == Put(db, "LOAD", <<>>)
    <2>1. pc = "biCreate" /\ pc \in BulkPlaces
      BY <1>5 DEF BiCreate, BulkPlaces
    <2>2. Stops(db) \/ Stops(d) \/ Goes(d, d, "biPrepare", v)
      BY <1>5, DeniedStops, DdlGoes DEF BiCreate
    <2>3. Loaded(d, 0)
      BY DEF Put, Loaded, Counters
    <2> HIDE DEF d
    <2>4. CASE Stops(d)
      BY <2>1, <2>3, <2>4, <1>2 DEF Stops, Bulk, BulkPlaces
    <2>5. CASE Goes(d, d, "biPrepare", v)
      BY <2>1, <2>3, <2>5, <1>2 DEF Goes, Bulk, BulkPlaces
    <2>6. QED
      BY <2>1, <2>2, <2>4, <2>5, <1>1
  <1>6. ASSUME pc \in {"biPrepare", "biIndexBefore"},
               Goes(db, txn, "biLoop", v) \/ Goes(db, txn, "biIndexBefore", v)
        PROVE  Good
    <2>1. v = BulkinsertLocals(opt) /\ txn = db /\ Loaded(db, 0)
      BY <1>6 DEF Bulk
    <2>2. v.i = 0 /\ v.toCommit = CommitSize(opt) /\ v.short = FALSE
      BY <2>1 DEF BulkinsertLocals
    <2>3. Looping("biLoop", v, 0, 0)
      BY <2>2 DEF Looping, BulkNumbers
    <2>4. pc \in BulkPlaces
      BY <1>6 DEF BulkPlaces
    <2>5. CASE Goes(db, txn, "biLoop", v)
      BY <2>1, <2>3, <2>4, <2>5, <1>2 DEF Goes, Bulk, BulkPlaces
    <2>6. CASE Goes(db, txn, "biIndexBefore", v)
      BY <2>1, <2>4, <2>6, <1>2 DEF Goes, Bulk, BulkPlaces
    <2>7. QED
      BY <1>6, <2>5, <2>6
  <1>7. CASE BiPrepare(opt)
    <2>1. pc = "biPrepare" /\ pc \in BulkPlaces
      BY <1>7 DEF BiPrepare, BulkPlaces
    <2>2. Stops(db) \/ Goes(db, txn, "biLoop", v) \/ Goes(db, txn, "biIndexBefore", v)
      BY <1>7, CallsGoes DEF BiPrepare
    <2>3. QED
      BY <2>1, <2>2, <1>1, <1>6
  <1>8. CASE BiIndexBefore
    <2>1. pc = "biIndexBefore" /\ pc \in BulkPlaces
      BY <1>8 DEF BiIndexBefore, BulkPlaces
    <2>2. Stops(db) \/ Goes(db, txn, "biLoop", v)
      BY <1>8, CallsGoes, FailsStops DEF BiIndexBefore, MakeIndex
    <2>3. QED
      BY <2>1, <2>2, <1>1, <1>6
  <1>9. CASE BiBatch(opt)
    BY <1>9, BulkBatch
  <1>10. CASE BiCommit(opt)
    <2> DEFINE w == [v EXCEPT !.toCommit = CommitSize(opt)]
    <2>1. pc = "biCommit" /\ pc \in BulkPlaces
      BY <1>10 DEF BiCommit, BulkPlaces
    <2>2. PICK n, m \in Nat : Loaded(db, n) /\ Loaded(txn, m) /\ n <= m /\ Looping("biCommit", v, n, m)
      BY <2>1 DEF Bulk
    <2>3. Stops(db) \/ Stops(txn) \/ Goes(txn, txn, "biLoop", w)
      BY <1>10, CommitGoes DEF BiCommit
    <2>4. w.toCommit = CommitSize(opt) /\ w.i = v.i /\ w.short = v.short /\ w.program = v.program /\ DOMAIN w = DOMAIN v
      BY <2>1, <1>2
    <2>5. Looping("biLoop", w, m, m)
      BY <2>2, <2>4 DEF Looping, BulkNumbers
    <2> HIDE DEF w
    <2>6. CASE Goes(txn, txn, "biLoop", w)
      BY <2>1, <2>2, <2>4, <2>5, <2>6, <1>2 DEF Goes, Bulk, BulkPlaces
    <2>7. QED
      BY <2>1, <2>3, <2>6, <1>1
  <1>11. CASE BiLoaded(opt)
    <2>1. pc = "biLoop" /\ pc \in BulkPlaces /\ v.i >= opt.records
      BY <1>11 DEF BiLoaded, BulkPlaces
    <2>2. PICK n, m \in Nat : Loaded(db, n) /\ Loaded(txn, m) /\ n <= m /\ Looping("biLoop", v, n, m)
      BY <2>1 DEF Bulk
    <2>3. Goes(db, txn, "biFinal", v)
      BY <1>11, SilentGoes DEF BiLoaded
    <2>4. Behind(n, m) /\ Complete(v, m)
      BY <2>1, <2>2 DEF Looping, Behind, Complete, BulkNumbers
    <2>5. QED
      BY <2>1, <2>2, <2>3, <2>4, <1>2 DEF Goes, Bulk, BulkPlaces
  <1>12. CASE BiFinal(opt)
    <2>1. pc = "biFinal" /\ pc \in BulkPlaces
      BY <1>12 DEF BiFinal, BulkPlaces
    <2>2. PICK m \in Nat : Loaded(txn, m) /\ Complete(v, m)
      BY <2>1 DEF Bulk
    <2>3. \/ Stops(db) \/ Stops(txn)
          \/ Goes(txn, txn, "biIndexAfter", v) \/ Goes(txn, txn, "biStats", v)
      BY <1>12, CommitGoes DEF BiFinal
    <2>4. CASE Goes(txn, txn, "biIndexAfter", v) \/ Goes(txn, txn, "biStats", v)
      BY <2>1, <2>2, <2>4, <1>2 DEF Goes, Bulk, BulkPlaces
    <2>5. QED
      BY <2>1, <2>3, <2>4, <1>1
  <1>13. ASSUME pc \in {"biIndexAfter", "biStats", "biEnd"}
         PROVE  /\ pc \in BulkPlaces /\ txn = db
                /\ \E n \in Nat : Loaded(db, n) /\ Complete(v, n)
    BY <1>13 DEF Bulk, BulkPlaces
  <1>14. CASE BiIndexAfter
    <2>1. pc = "biIndexAfter" /\ (Stops(db) \/ Goes(db, txn, "biStats", v))
      BY <1>14, CallsGoes, FailsStops DEF BiIndexAfter, MakeIndex
    <2>2. CASE Goes(db, txn, "biStats", v)
      BY <2>1, <2>2, <1>2, <1>13 DEF Goes, Bulk, BulkPlaces
    <2>3. QED
      BY <2>1, <2>2, <1>1, <1>13
  <1>15. CASE BiStats(opt)
    <2>1. pc = "biStats" /\ (Stops(db) \/ Goes(db, txn, "biEnd", v))
      BY <1>15, CallsGoes, SilentGoes DEF BiStats
    <2>2. CASE Goes(db, txn, "biEnd", v)
      BY <2>1, <2>2, <1>2, <1>13 DEF Goes, Bulk, BulkPlaces
    <2>3. QED
      BY <2>1, <2>2, <1>1, <1>13
  <1>16. CASE BiEnd
    <2>1. pc = "biEnd"
      BY <1>16 DEF BiEnd
    <2>2. CASE Fails("DISCONNECT_EXIT")
      BY <2>1, <2>2, <1>1, <1>13, FailsStops
    <2>3. CASE QuitTest(IF sig THEN 3 ELSE 0, db)
      <3>1. pc' = "exit" /\ db' = db /\ txn' = db /\ v' = v
        BY <2>3 DEF QuitTest
      <3>2. QED
        BY <2>1, <3>1, <1>2, <1>13 DEF Bulk, BulkPlaces
    <2>4. QED
      BY <1>16, <2>2, <2>3 DEF BiEnd
  <1>17. QED
    BY <1>3, <1>4, <1>5, <1>7, <1>8, <1>9, <1>10, <1>11, <1>12, <1>14, <1>15, <1>16 DEF BulkinsertStep

\* The program that is run again is the same; after its exit its command line is
\* not looked at any more.
LEMMA SameProgram == ASSUME [BenchNext]_benchVars PROVE input'.prog = input.prog
  <1>1. Next => UNCHANGED input
    BY DEF Next, GetOptions, ParseArgs, Connstr, CheckOptions, GsParseArgs, GsPassword, GsOpenLog, Over, vars
  <1>2. QED
    BY <1>1 DEF BenchNext, Again, benchVars

LEMMA OverAtExit == ASSUME Parsing, Next, pc = "exit" PROVE UNCHANGED st
  BY DEF Parsing, At, Next, GetOptions, ParseArgs, Connstr, CheckOptions, GsParseArgs, GsPassword,
     GsOpenLog, Over, vars

LEMMA BulkInductive ==
    /\ BenchInit => BulkInv
    /\ Parsing /\ BulkInv /\ [BenchNext]_benchVars => BulkInv'
  <1>1. BenchInit => BulkInv
    BY DEF BenchInit, WorkInit, BulkInv, Bulk, BulkPlaces, IdleLocals
  <1>2. ASSUME Parsing, BulkInv, [BenchNext]_benchVars PROVE BulkInv'
    <2> SUFFICES ASSUME (input.prog = "bulkinsert" /\ Getopt)' PROVE Bulk(pc, v, db, txn, status)'
      BY DEF BulkInv
    <2>1. input.prog = "bulkinsert" /\ Getopt
      BY <1>2, SameProgram DEF Getopt
    <2>2. Bulk(pc, v, db, txn, status)
      BY <1>2, <2>1 DEF BulkInv
    <2>3. ASSUME UNCHANGED <<pc, v, db, txn, status, st>> PROVE Bulk(pc, v, db, txn, status)'
      BY <2>2, <2>3 DEF Bulk, Looping, Behind, Complete, CommitSize, BulkinsertLocals, opt
    <2>4. ASSUME ~Running, Next, UNCHANGED work PROVE Bulk(pc, v, db, txn, status)'
      <3>1. CASE pc = "idle"
        BY <2>2, <2>4, <3>1 DEF work, Bulk, BulkPlaces
      <3>2. CASE pc = "exit"
        BY <1>2, <2>3, <2>4, <3>2, OverAtExit DEF work
      <3>3. QED
        BY <2>4, <3>1, <3>2 DEF Running
    <2>5. ASSUME Step, UNCHANGED <<input, ol, st>> PROVE Bulk(pc, v, db, txn, status)'
      <3>1. opt' = opt
        BY <2>5 DEF opt
      <3>2. ASSUME Bulk(pc', v', db', txn', status') PROVE Bulk(pc, v, db, txn, status)'
        BY <3>1, <3>2 DEF Bulk, Looping, Behind, Complete, CommitSize, BulkinsertLocals
      <3>3. CASE Begin
        <4>1. pc' = "biConnect" /\ v' = BulkinsertLocals(opt) /\ db' = db /\ txn' = txn /\ pc = "idle"
          BY <2>1, <3>3 DEF Begin
        <4>2. Bulk(pc', v', db', txn', status')
          BY <2>2, <4>1 DEF Bulk, BulkPlaces, BulkinsertLocals
        <4>3. QED
          BY <3>2, <4>2
      <3>4. CASE BulkinsertStep(opt)
        <4>1. pc # "idle"
          BY <3>4, WorkGuards
        <4>2. BulkNumbers
          BY <1>2, <2>1, <4>1, BulkOptions DEF Parsing
        <4>3. QED
          BY <2>2, <3>2, <3>4, <4>2, BulkStep
      <3>5. ~TpcbStep(opt) /\ ~WiscbmStep(opt)
        BY <2>2, PlacesOf DEF Bulk, BulkPlaces, TpcbPlaces, WiscPlaces
      <3>6. CASE Signal \/ Kill
        <4>1. pc \in BulkPlaces
          BY <2>2, <3>6 DEF Signal, Kill, Running, Bulk
        <4>2. Stops(db) \/ UNCHANGED <<pc, v, db, txn, status>>
          BY <3>6 DEF Signal, Kill, QuitTest, Stops
        <4>3. QED
          BY <2>2, <2>3, <2>5, <3>2, <4>1, <4>2, BulkStops
      <3>7. QED
        BY <2>5, <3>3, <3>4, <3>5, <3>6 DEF Step
    <2>6. ASSUME Again PROVE Bulk(pc, v, db, txn, status)'
      BY <2>2, <2>6 DEF Again, Bulk, BulkPlaces, IdleLocals
    <2>7. QED
      BY <1>2, <2>3, <2>4, <2>5, <2>6 DEF BenchNext, benchVars, work
  <1>3. QED
    BY <1>1, <1>2

\* Whatever fails, and wherever bulkinsert is interrupted, the rows 0, 1, 2, ...
\* are committed without a gap or a double, not too far behind what has been
\* inserted, and all of them when it exits with 0.
THEOREM RowsLoadedInOrderSafe == BenchSpec => []RowsLoadedInOrder
  <1>1. Parsing /\ BulkInv => RowsLoadedInOrder
    <2> SUFFICES ASSUME Parsing, BulkInv, v.program = "bulkinsert", "LOAD" \in DOMAIN db
                 PROVE  LET n == Len(db["LOAD"])
                        IN  /\ db["LOAD"] = Counters(0, n)
                            /\ Len(txn["LOAD"]) - n < CommitSize(opt) + opt.batchsize
                            /\ pc = "exit" /\ status = 0 /\ opt.testmode = 0 /\ ~v.short => n = opt.records
      BY DEF RowsLoadedInOrder, LoadedInOrder
    <2>1. At("run") /\ input.prog = "bulkinsert" /\ Getopt
      BY WorkedGetopt DEF Parsing
    <2>2. BulkNumbers /\ Bulk(pc, v, db, txn, status)
      BY <2>1, BulkOptions DEF BulkInv
    <2>3. PICK n \in Nat : Loaded(db, n)
      BY <2>2 DEF Bulk
    <2>4. n = Len(db["LOAD"])
      BY <2>3, CountersJoin DEF Loaded
    <2>5. \A k \in Nat : Loaded(db, k) => k = n
      BY <2>4, CountersJoin DEF Loaded
    <2>6. Len(txn["LOAD"]) - n < CommitSize(opt) + opt.batchsize
      <3>1. CASE txn = db
        BY <2>2, <2>4, <3>1 DEF BulkNumbers
      <3>2. CASE pc \in {"biLoop", "biCommit"}
        <4>1. PICK m \in Nat : Loaded(txn, m) /\ Looping(pc, v, n, m)
          BY <2>2, <2>5, <3>2 DEF Bulk
        <4>2. Len(txn["LOAD"]) = m
          BY <4>1, CountersJoin DEF Loaded
        <4>3. m - n < CommitSize(opt) + opt.batchsize
          BY <2>2, <3>2, <4>1 DEF Looping, BulkNumbers
        <4>4. QED
          BY <4>2, <4>3
      <3>3. CASE pc = "biFinal"
        <4>1. PICK m \in Nat : Loaded(txn, m) /\ Behind(n, m)
          BY <2>2, <2>5, <3>3 DEF Bulk
        <4>2. Len(txn["LOAD"]) = m
          BY <4>1, CountersJoin DEF Loaded
        <4>3. QED
          BY <4>1, <4>2 DEF Behind
      <3>4. QED
        BY <2>1, <2>2, <3>1, <3>2, <3>3 DEF Bulk, BulkPlaces
    <2>7. pc = "exit" /\ status = 0 /\ opt.testmode = 0 /\ ~v.short => n = opt.records
      BY <2>2, <2>5 DEF Bulk, Complete
    <2>8. QED
      BY <2>3, <2>4, <2>6, <2>7 DEF Loaded
  <1>2. QED
    BY <1>1, ParsingInductive, BulkInductive, PTL DEF BenchSpec
-----------------------------------------------------------------------------
(* Sums over the rows of a history.                                        *)

SumAt(h, S) == MapThenSumSet(LAMBDA i : h[i].delta, S)

Chosen(s) == CHOOSE x \in s : TRUE

IsIter(g, h, S) ==
    g = [s \in SUBSET S |-> IF s = {} THEN 0 ELSE h[Chosen(s)].delta + g[s \ {Chosen(s)}]]

LEMMA ChosenIn == ASSUME NEW s, s # {} PROVE Chosen(s) \in s
  BY DEF Chosen

\* Of the subsets of a finite set, some have a least one.
LEMMA SmallestSubset ==
    ASSUME NEW S, IsFiniteSet(S), NEW F, F \subseteq SUBSET S, F # {}
    PROVE  \E s \in F : \A t \in F : t \subseteq s => t = s
  <1>1. IsWellFoundedOn(StrictSubsetOrdering(S), FiniteSubsetsOf(S)) /\ F \subseteq FiniteSubsetsOf(S)
    BY FS_StrictSubsetOrderingWellFounded, FS_FiniteSubsetsOfFinite
  <1>2. PICK s \in F : \A t \in F : ~ (<<t, s>> \in StrictSubsetOrdering(S))
    BY <1>1, WFMin
  <1>3. QED
    BY <1>2 DEF StrictSubsetOrdering

LEMMA SumIter ==
    ASSUME NEW h, NEW S, \E g : IsIter(g, h, S)
    PROVE  \E g : IsIter(g, h, S) /\ SumAt(h, S) = g[S]
  BY DEF IsIter, Chosen, SumAt, MapThenSumSet, MapThenFoldSet

\* Two ways to add up the same amounts agree.
LEMMA IterAgree ==
    ASSUME NEW S, NEW T, IsFiniteSet(S), NEW h, NEW hh, NEW g, NEW gg,
           IsIter(g, h, S), IsIter(gg, hh, T), \A x \in S \cap T : h[x].delta = hh[x].delta
    PROVE  \A s \in SUBSET (S \cap T) : g[s] = gg[s]
  <1> DEFINE F == {s \in SUBSET (S \cap T) : g[s] # gg[s]}
  <1>1. SUFFICES F = {}
    OBVIOUS
  <1>2. SUFFICES ASSUME F # {} PROVE FALSE
    OBVIOUS
  <1>3. F \subseteq SUBSET S
    OBVIOUS
  <1>4. PICK s \in F : \A t \in F : t \subseteq s => t = s
    <2> HIDE DEF F
    <2> QED
      BY <1>2, <1>3, SmallestSubset
  <1>5. g[s] = IF s = {} THEN 0 ELSE h[Chosen(s)].delta + g[s \ {Chosen(s)}]
    BY <1>4 DEF IsIter
  <1>6. gg[s] = IF s = {} THEN 0 ELSE hh[Chosen(s)].delta + gg[s \ {Chosen(s)}]
    BY <1>4 DEF IsIter
  <1>7. s # {} /\ Chosen(s) \in s
    BY <1>4, <1>5, <1>6, ChosenIn
  <1>8. s \ {Chosen(s)} \in SUBSET (S \cap T) /\ s \ {Chosen(s)} \notin F
    BY <1>4, <1>7
  <1>9. g[s \ {Chosen(s)}] = gg[s \ {Chosen(s)}] /\ h[Chosen(s)].delta = hh[Chosen(s)].delta
    BY <1>4, <1>7, <1>8
  <1>10. QED
    BY <1>4, <1>5, <1>6, <1>7, <1>9

LEMMA IterStep ==
    ASSUME NEW S, IsFiniteSet(S), S # {}, NEW h,
           \E g : IsIter(g, h, S), \E g : IsIter(g, h, S \ {Chosen(S)})
    PROVE  SumAt(h, S) = h[Chosen(S)].delta + SumAt(h, S \ {Chosen(S)})
  <1>1. PICK g : IsIter(g, h, S) /\ SumAt(h, S) = g[S]
    BY SumIter
  <1>2. PICK gg : IsIter(gg, h, S \ {Chosen(S)}) /\ SumAt(h, S \ {Chosen(S)}) = gg[S \ {Chosen(S)}]
    BY SumIter
  <1>3. g[S] = h[Chosen(S)].delta + g[S \ {Chosen(S)}]
    BY <1>1 DEF IsIter
  <1> DEFINE T == S \ {Chosen(S)}
  <1>4. T \in SUBSET (S \cap T) /\ IsIter(gg, h, T)
    BY <1>2
  <1> HIDE DEF T
  <1>5. \A s \in SUBSET (S \cap T) : g[s] = gg[s]
    BY <1>1, <1>4, IterAgree
  <1>6. g[T] = gg[T]
    BY <1>4, <1>5
  <1>7. QED
    BY <1>1, <1>2, <1>3, <1>6 DEF T

\* The sum over no row is zero.
LEMMA SumEmpty == ASSUME NEW h PROVE SumAt(h, {}) = 0 /\ \E g : IsIter(g, h, {})
  <1> DEFINE g == [s \in SUBSET {} |-> 0]
  <1>1. IsIter(g, h, {})
    BY DEF IsIter
  <1>2. \E gg : IsIter(gg, h, {})
    <2> HIDE DEF g
    <2> QED
      BY <1>1
  <1>3. PICK gg : IsIter(gg, h, {}) /\ SumAt(h, {}) = gg[{}]
    BY <1>2, SumIter
  <1>4. gg[{}] = 0
    BY <1>3 DEF IsIter
  <1>5. QED
    BY <1>2, <1>3, <1>4

LEMMA IterExists ==
    ASSUME NEW S, IsFiniteSet(S), NEW h
    PROVE  \E g : IsIter(g, h, S)
  <1> DEFINE F == {s \in SUBSET S : ~ \E g : IsIter(g, h, s)}
  <1>1. SUFFICES ASSUME F # {} PROVE FALSE
    OBVIOUS
  <1>2. PICK s \in F : \A t \in F : t \subseteq s => t = s
    <2>1. F \subseteq SUBSET S
      OBVIOUS
    <2> HIDE DEF F
    <2>2. QED
      BY <1>1, <2>1, SmallestSubset
  <1>3. \A t \in SUBSET s : t # s => \E g : IsIter(g, h, t)
    BY <1>2
  <1>4. \A t \in SUBSET s : IsFiniteSet(t)
    BY <1>2, FS_Subset
  <1> DEFINE g == [t \in SUBSET s |-> IF t = {} THEN 0
                                      ELSE h[Chosen(t)].delta + SumAt(h, t \ {Chosen(t)})]
  <1>5. ASSUME NEW t \in SUBSET s, t # s PROVE g[t] = SumAt(h, t)
    <2>1. CASE t = {}
      BY <2>1, SumEmpty
    <2>2. CASE t # {}
      <3>1. t \ {Chosen(t)} \in SUBSET s /\ t \ {Chosen(t)} # s
        BY <1>5, <2>2, ChosenIn
      <3>2. SumAt(h, t) = h[Chosen(t)].delta + SumAt(h, t \ {Chosen(t)})
        BY <1>3, <1>4, <1>5, <2>2, <3>1, IterStep
      <3>3. QED
        BY <2>2, <3>2
    <2>3. QED
      BY <2>1, <2>2
  <1>6. ASSUME NEW t \in SUBSET s, t # {}
        PROVE  SumAt(h, t \ {Chosen(t)}) = g[t \ {Chosen(t)}]
    <2>1. t \ {Chosen(t)} \in SUBSET s /\ t \ {Chosen(t)} # s
      BY <1>6, ChosenIn
    <2> HIDE DEF g
    <2>2. QED
      BY <2>1, <1>5
  <1>7. IsIter(g, h, s)
    <2> DEFINE gg == [t \in SUBSET s |-> IF t = {} THEN 0
                                         ELSE h[Chosen(t)].delta + g[t \ {Chosen(t)}]]
    <2>1. \A t \in SUBSET s : g[t] = gg[t]
      BY <1>6
    <2>2. g = gg
      BY <2>1
    <2> HIDE DEF g
    <2>3. QED
      BY <2>2 DEF IsIter
  <1>8. QED
    BY <1>2, <1>7

LEMMA SumChosen ==
    ASSUME NEW S, IsFiniteSet(S), S # {}, NEW h
    PROVE  SumAt(h, S) = h[Chosen(S)].delta + SumAt(h, S \ {Chosen(S)})
  BY IterExists, IterStep, FS_RemoveElement

\* The sum of the same amounts is the same.
LEMMA SumSame ==
    ASSUME NEW S, IsFiniteSet(S), NEW h, NEW hh, \A x \in S : h[x].delta = hh[x].delta
    PROVE  SumAt(h, S) = SumAt(hh, S)
  <1>1. PICK g : IsIter(g, h, S) /\ SumAt(h, S) = g[S]
    BY IterExists, SumIter
  <1>2. PICK gg : IsIter(gg, hh, S) /\ SumAt(hh, S) = gg[S]
    BY IterExists, SumIter
  <1>3. \A s \in SUBSET (S \cap S) : g[s] = gg[s]
    BY <1>1, <1>2, IterAgree
  <1>4. S \in SUBSET (S \cap S)
    OBVIOUS
  <1>5. QED
    BY <1>1, <1>2, <1>3, <1>4

LEMMA SumInt ==
    ASSUME NEW S, IsFiniteSet(S), NEW h, \A x \in S : h[x].delta \in Int
    PROVE  SumAt(h, S) \in Int
  <1> DEFINE F == {s \in SUBSET S : SumAt(h, s) \notin Int}
  <1>1. SUFFICES ASSUME F # {} PROVE FALSE
    OBVIOUS
  <1>2. PICK s \in F : \A t \in F : t \subseteq s => t = s
    <2>1. F \subseteq SUBSET S
      OBVIOUS
    <2> HIDE DEF F
    <2>2. QED
      BY <1>1, <2>1, SmallestSubset
  <1>3. SumAt(h, {}) \in Int
    BY SumEmpty
  <1>4. s # {}
    BY <1>2, <1>3
  <1>5. IsFiniteSet(s) /\ Chosen(s) \in s
    BY <1>2, <1>4, ChosenIn, FS_Subset
  <1> DEFINE t == s \ {Chosen(s)}
  <1>6. t \in SUBSET S /\ t \subseteq s /\ t # s
    BY <1>2, <1>5
  <1>7. SumAt(h, s) = h[Chosen(s)].delta + SumAt(h, t)
    BY <1>4, <1>5, SumChosen
  <1> HIDE DEF t
  <1>8. SumAt(h, t) \in Int
    BY <1>2, <1>6
  <1>9. SumAt(h, s) \in Int
    <2>1. h[Chosen(s)].delta \in Int
      BY <1>2, <1>5
    <2>2. QED
      BY <1>7, <1>8, <2>1
  <1>10. QED
    BY <1>2, <1>9

\* Any row can be the one that is added last.
LEMMA SumRemove ==
    ASSUME NEW S, IsFiniteSet(S), NEW h, \A x \in S : h[x].delta \in Int, NEW e \in S
    PROVE  SumAt(h, S) = h[e].delta + SumAt(h, S \ {e})
  <1> DEFINE F == {s \in SUBSET S : \E x \in s : SumAt(h, s) # h[x].delta + SumAt(h, s \ {x})}
  <1>1. SUFFICES ASSUME F # {} PROVE FALSE
    OBVIOUS
  <1>2. PICK s \in F : \A t \in F : t \subseteq s => t = s
    <2>1. F \subseteq SUBSET S
      OBVIOUS
    <2> HIDE DEF F
    <2>2. QED
      BY <1>1, <2>1, SmallestSubset
  <1>3. PICK x \in s : SumAt(h, s) # h[x].delta + SumAt(h, s \ {x})
    BY <1>2
  <1> DEFINE c == Chosen(s)
  <1>4. s # {} /\ c \in s /\ SumAt(h, s) = h[c].delta + SumAt(h, s \ {c})
    BY <1>2, <1>3, ChosenIn, FS_Subset, SumChosen
  <1> HIDE DEF c
  <1>5. c # x
    BY <1>3, <1>4
  <1>6. \A t \in SUBSET s : t # s => \A y \in t : SumAt(h, t) = h[y].delta + SumAt(h, t \ {y})
    BY <1>2
  <1>7. SumAt(h, s \ {c}) = h[x].delta + SumAt(h, (s \ {c}) \ {x})
    <2>1. s \ {c} \in SUBSET s /\ s \ {c} # s /\ x \in s \ {c}
      BY <1>3, <1>4, <1>5
    <2>2. QED
      BY <1>6, <2>1
  <1>8. SumAt(h, s \ {x}) = h[c].delta + SumAt(h, (s \ {x}) \ {c})
    <2>1. s \ {x} \in SUBSET s /\ s \ {x} # s /\ c \in s \ {x}
      BY <1>3, <1>4, <1>5
    <2>2. QED
      BY <1>6, <2>1
  <1>9. (s \ {c}) \ {x} = (s \ {x}) \ {c}
    OBVIOUS
  <1>10. IsFiniteSet((s \ {c}) \ {x}) /\ \A y \in (s \ {c}) \ {x} : h[y].delta \in Int
    BY <1>2, FS_Subset
  <1>11. SumAt(h, (s \ {c}) \ {x}) \in Int /\ h[x].delta \in Int /\ h[c].delta \in Int
    BY <1>2, <1>3, <1>4, <1>10, SumInt
  <1> DEFINE a == SumAt(h, (s \ {c}) \ {x})
  <1>12. /\ SumAt(h, s) = h[c].delta + (h[x].delta + a)
         /\ SumAt(h, s \ {x}) = h[c].delta + a /\ a \in Int
    BY <1>4, <1>7, <1>8, <1>9, <1>11
  <1> HIDE DEF a
  <1>13. QED
    BY <1>3, <1>11, <1>12

\* A history that grows by a row.
LEMMA SumAppend ==
    ASSUME NEW R, NEW h \in Seq(R), NEW r \in R, \A i \in 1..Len(h) : h[i].delta \in Int, r.delta \in Int,
           NEW S, S \subseteq 1..Len(h)
    PROVE  /\ SumAt(h, S) \in Int
           /\ SumAt(Append(h, r), S) = SumAt(h, S)
           /\ SumAt(Append(h, r), S \cup {Len(h) + 1}) = SumAt(h, S) + r.delta
  <1> DEFINE hh == Append(h, r)
             n  == Len(h) + 1
  <1>1. Len(h) \in Nat /\ n \in Int /\ n \notin S /\ hh[n] = r /\ \A i \in 1..Len(h) : hh[i] = h[i]
    <2>1. Len(h) \in Nat
      OBVIOUS
    <2>2. hh[n] = r
      OBVIOUS
    <2>3. ASSUME NEW i \in 1..Len(h) PROVE hh[i] = h[i]
      OBVIOUS
    <2>4. QED
      BY <2>1, <2>2, <2>3
  <1>2. IsFiniteSet(S)
    <2>1. IsFiniteSet(1..Len(h))
      BY <1>1, FS_Interval
    <2>2. QED
      BY <2>1, FS_Subset
  <1>3. IsFiniteSet(S \cup {n})
    BY <1>2, FS_AddElement
  <1> HIDE DEF hh, n
  <1>4. SumAt(h, S) \in Int
    BY <1>2, SumInt
  <1>5. SumAt(hh, S) = SumAt(h, S)
    BY <1>1, <1>2, SumSame
  <1>6. \A x \in S \cup {n} : hh[x].delta \in Int
    BY <1>1
  <1>7. (S \cup {n}) \ {n} = S /\ n \in S \cup {n}
    BY <1>1
  <1>8. SumAt(hh, S \cup {n}) = hh[n].delta + SumAt(hh, (S \cup {n}) \ {n})
    BY <1>3, <1>6, <1>7, SumRemove
  <1>9. SumAt(hh, S \cup {n}) = SumAt(h, S) + r.delta
    <2>1. SumAt(hh, S \cup {n}) = r.delta + SumAt(h, S)
      BY <1>1, <1>5, <1>7, <1>8
    <2>2. QED
      BY <1>4, <2>1
  <1>10. QED
    BY <1>4, <1>5, <1>9 DEF hh, n

-----------------------------------------------------------------------------
(* tpcb                                                                    *)

\* The rows whose f is n; a table holds the sums of the history.
Mine(h, f, n) == {i \in DOMAIN h : h[i][f] = n}
Holds(b, h, f) == \A n \in DOMAIN b : b[n] = SumAt(h, Mine(h, f, n))

LEMMA SumOfIs ==
    ASSUME NEW h, NEW n
    PROVE  /\ SumOf(h, LAMBDA r : r.account, n) = SumAt(h, Mine(h, "account", n))
           /\ SumOf(h, LAMBDA r : r.teller, n) = SumAt(h, Mine(h, "teller", n))
           /\ SumOf(h, LAMBDA r : r.branch, n) = SumAt(h, Mine(h, "branch", n))
  BY DEF SumOf, SumAt, Mine

\* The transactions that main() makes for the options o.
Row(o) == {r \in [teller : 0..(Tellers(o) - 1), branch : Int, account : 0..(Accounts(o) - 1), delta : Int] :
              r.branch = r.teller \div TellersPerBranch}

\* The balances of d agree with its history.
Agrees(o, d) ==
    /\ {"branches", "tellers", "accounts", "History"} \subseteq DOMAIN d
    /\ d["History"] \in Seq(Row(o))
    /\ DOMAIN d["accounts"] = 0..(Accounts(o) - 1)
    /\ Holds(d["accounts"], d["History"], "account")
    /\ Holds(d["tellers"], d["History"], "teller")
    /\ Holds(d["branches"], d["History"], "branch")

\* What the transaction of x sees before its statement k.
AccountAdded(d, x) == AddTo(d, "accounts", x.account, x.delta)
TellerAdded(d, x)  == AddTo(AccountAdded(d, x), "tellers", x.teller, x.delta)
BranchAdded(d, x)  == UpdateBranch(TellerAdded(d, x), x)
Posted(d, x)       == Put(BranchAdded(d, x), "History", Append(BranchAdded(d, x)["History"], x))
Seen(k, d, x) ==
    IF k = 1 THEN d
    ELSE IF k \in {2, 3} THEN AccountAdded(d, x)
    ELSE IF k = 4 THEN TellerAdded(d, x)
    ELSE IF k = 5 THEN BranchAdded(d, x)
    ELSE Posted(d, x)

LEMMA SeenNext ==
    ASSUME NEW k \in 1..5, NEW d, NEW x
    PROVE  XactStmt(k, Seen(k, d, x), x) = Seen(k + 1, d, x)
  BY DEF XactStmt, Seen, AccountAdded, TellerAdded, BranchAdded, Posted

\* An amount is added where its row is.
Adds(b, c, n, delta) ==
    /\ DOMAIN c = DOMAIN b
    /\ \A m \in DOMAIN b : c[m] = IF m = n THEN b[m] + delta ELSE b[m]

LEMMA AddToAdds ==
    ASSUME NEW t, NEW tab \in DOMAIN t, NEW n, NEW delta
    PROVE  /\ DOMAIN AddTo(t, tab, n, delta) = DOMAIN t
           /\ \A u \in DOMAIN t \ {tab} : AddTo(t, tab, n, delta)[u] = t[u]
           /\ Adds(t[tab], AddTo(t, tab, n, delta)[tab], n, delta)
  BY DEF AddTo, Put, Adds

LEMMA MineAppend ==
    ASSUME NEW R, NEW h \in Seq(R), NEW x \in R, NEW f, NEW n
    PROVE  /\ Mine(h, f, n) \subseteq 1..Len(h)
           /\ Mine(Append(h, x), f, n) =
                  IF x[f] = n THEN Mine(h, f, n) \cup {Len(h) + 1} ELSE Mine(h, f, n)
  <1>1. DOMAIN h = 1..Len(h) /\ Len(h) \in Nat
    OBVIOUS
  <1>2. DOMAIN Append(h, x) = 1..(Len(h) + 1) /\ Append(h, x)[Len(h) + 1] = x
    OBVIOUS
  <1>3. \A i \in 1..Len(h) : Append(h, x)[i] = h[i]
    OBVIOUS
  <1>4. Mine(h, f, n) \subseteq 1..Len(h)
    BY <1>1 DEF Mine
  <1> DEFINE hh == Append(h, x)
             e  == Len(h) + 1
  <1>5. \A i : i \in DOMAIN hh <=> i \in DOMAIN h \/ i = e
    BY <1>1, <1>2
  <1>6. hh[e] = x /\ \A i \in DOMAIN h : hh[i] = h[i]
    BY <1>1, <1>2, <1>3
  <1> HIDE DEF hh, e
  <1>7. CASE x[f] = n
    <2>1. \A i : i \in Mine(hh, f, n) <=> i \in Mine(h, f, n) \cup {e}
      BY <1>5, <1>6, <1>7 DEF Mine
    <2>2. QED
      BY <1>4, <1>7, <2>1 DEF hh, e
  <1>8. CASE x[f] # n
    <2>1. \A i : i \in Mine(hh, f, n) <=> i \in Mine(h, f, n)
      BY <1>5, <1>6, <1>8 DEF Mine
    <2>2. QED
      BY <1>4, <1>8, <2>1 DEF hh, e
  <1>9. QED
    BY <1>7, <1>8

\* A posted amount keeps a table in agreement with the history.
LEMMA HoldsPosted ==
    ASSUME NEW o, NEW h \in Seq(Row(o)), NEW x \in Row(o), NEW f, NEW b, NEW c,
           Holds(b, h, f), Adds(b, c, x[f], x.delta)
    PROVE  Holds(c, Append(h, x), f)
  <1>1. x.delta \in Int /\ \A i \in 1..Len(h) : h[i].delta \in Int
    <2>1. \A r \in Row(o) : r.delta \in Int
      BY DEF Row
    <2>2. \A i \in 1..Len(h) : h[i] \in Row(o)
      OBVIOUS
    <2>3. QED
      BY <2>1, <2>2
  <1>2. ASSUME NEW n \in DOMAIN c PROVE c[n] = SumAt(Append(h, x), Mine(Append(h, x), f, n))
    <2>1. b[n] = SumAt(h, Mine(h, f, n)) /\ c[n] = IF n = x[f] THEN b[n] + x.delta ELSE b[n]
      BY <1>2 DEF Holds, Adds
    <2>2. /\ Mine(h, f, n) \subseteq 1..Len(h)
          /\ Mine(Append(h, x), f, n) =
                 IF x[f] = n THEN Mine(h, f, n) \cup {Len(h) + 1} ELSE Mine(h, f, n)
      BY MineAppend
    <2>3. /\ SumAt(Append(h, x), Mine(h, f, n)) = SumAt(h, Mine(h, f, n))
          /\ SumAt(Append(h, x), Mine(h, f, n) \cup {Len(h) + 1}) = SumAt(h, Mine(h, f, n)) + x.delta
      BY <1>1, <2>2, SumAppend
    <2>4. QED
      BY <2>1, <2>2, <2>3
  <1>3. QED
    BY <1>2 DEF Holds

LEMMA PostedAgrees ==
    ASSUME NEW o, NEW d, Agrees(o, d), NEW x \in Row(o)
    PROVE  Agrees(o, Posted(d, x))
  <1> DEFINE T1 == AccountAdded(d, x)
             T3 == TellerAdded(d, x)
             T4 == BranchAdded(d, x)
             T5 == Posted(d, x)
             h  == d["History"]
  <1>1. /\ DOMAIN T1 = DOMAIN d /\ \A u \in DOMAIN d \ {"accounts"} : T1[u] = d[u]
        /\ Adds(d["accounts"], T1["accounts"], x.account, x.delta)
    BY AddToAdds DEF Agrees, AccountAdded
  <1>2. /\ DOMAIN T3 = DOMAIN d /\ \A u \in DOMAIN d \ {"tellers"} : T3[u] = T1[u]
        /\ Adds(T1["tellers"], T3["tellers"], x.teller, x.delta)
    BY <1>1, AddToAdds DEF Agrees, TellerAdded
  <1>3. /\ DOMAIN T4 = DOMAIN d /\ \A u \in DOMAIN d \ {"branches"} : T4[u] = T3[u]
        /\ Adds(T3["branches"], T4["branches"], x.branch, x.delta)
    BY <1>2, AddToAdds DEF Agrees, BranchAdded, UpdateBranch
  <1>4. /\ DOMAIN T5 = DOMAIN d /\ \A u \in DOMAIN d \ {"History"} : T5[u] = T4[u]
        /\ T5["History"] = Append(T4["History"], x)
    BY <1>3 DEF Agrees, Posted, Put
  <1> HIDE DEF T1, T3, T4, T5
  <1>5. {"branches", "tellers", "accounts", "History"} \subseteq DOMAIN d
    BY DEF Agrees
  <1>6. /\ Adds(d["accounts"], T5["accounts"], x["account"], x.delta)
        /\ Adds(d["tellers"], T5["tellers"], x["teller"], x.delta)
        /\ Adds(d["branches"], T5["branches"], x["branch"], x.delta)
        /\ T5["History"] = Append(h, x)
    BY <1>1, <1>2, <1>3, <1>4, <1>5
  <1>7. /\ Holds(T5["accounts"], Append(h, x), "account")
        /\ Holds(T5["tellers"], Append(h, x), "teller")
        /\ Holds(T5["branches"], Append(h, x), "branch")
    BY <1>6, HoldsPosted DEF Agrees
  <1>8. DOMAIN T5["accounts"] = 0..(Accounts(o) - 1) /\ T5["History"] \in Seq(Row(o))
    BY <1>6 DEF Agrees, Adds
  <1>9. QED
    BY <1>4, <1>5, <1>6, <1>7, <1>8 DEF Agrees, T5

\* What the population leaves agrees with the empty history.
LEMMA PopulatedAgrees ==
    ASSUME NEW o, NEW d, "History" \in DOMAIN d, d["History"] = <<>>,
           \A k \in 1..3 : TpcbTables[k] \in DOMAIN d /\ d[TpcbTables[k]] = Populated(o, k)
    PROVE  Agrees(o, d)
  <1>1. /\ "branches" \in DOMAIN d /\ d["branches"] = [n \in 0..(Branches(o) - 1) |-> 0]
        /\ "tellers" \in DOMAIN d /\ d["tellers"] = [n \in 0..(Tellers(o) - 1) |-> 0]
        /\ "accounts" \in DOMAIN d /\ d["accounts"] = [n \in 0..(Accounts(o) - 1) |-> 0]
    BY DEF TpcbTables, Populated
  <1>2. \A f, n : SumAt(<<>>, Mine(<<>>, f, n)) = 0
    BY SumEmpty DEF Mine
  <1>3. QED
    BY <1>1, <1>2 DEF Agrees, Holds

\* main() chooses rows that there are.
LEMMA ChosenRow ==
    ASSUME NEW o, o.scale \in Nat, NEW teller \in 0..(Tellers(o) - 1), NEW delta \in Deltas, NEW account,
           LET branch == teller \div TellersPerBranch
           IN  \/ account \in {branch * AccountsPerBranch + n : n \in 0..(AccountsPerBranch - 1)}
               \/ account \in {SkipLocal(branch, n) : n \in 0..(NonLocal(o) - 1)}
    PROVE  [teller |-> teller, branch |-> teller \div TellersPerBranch,
            account |-> account, delta |-> delta] \in Row(o)
  <1> DEFINE branch == teller \div TellersPerBranch
  <1>1. /\ TellersPerBranch \in Nat \ {0} /\ AccountsPerBranch \in Nat \ {0} /\ delta \in Int
        /\ teller \in Nat /\ teller < TellersPerBranch * o.scale
    BY TpcbAssumption DEF Tellers
  <1>2. branch \in Nat /\ TellersPerBranch * branch <= teller
    BY <1>1
  <1> HIDE DEF branch
  <1>3. branch + 1 <= o.scale
    <2>1. TellersPerBranch * branch < TellersPerBranch * o.scale
      BY <1>1, <1>2
    <2>2. QED
      BY <1>1, <1>2, <2>1
  <1>4. account \in 0..(Accounts(o) - 1)
    <2>1. Accounts(o) = AccountsPerBranch * o.scale /\ Accounts(o) \in Nat
      BY <1>1 DEF Accounts
    <2>2. CASE account \in {branch * AccountsPerBranch + n : n \in 0..(AccountsPerBranch - 1)}
      <3>1. PICK n \in 0..(AccountsPerBranch - 1) : account = branch * AccountsPerBranch + n
        BY <2>2
      <3>2. (branch + 1) * AccountsPerBranch <= AccountsPerBranch * o.scale
        BY <1>1, <1>2, <1>3
      <3>3. (branch + 1) * AccountsPerBranch = branch * AccountsPerBranch + AccountsPerBranch
        BY <1>1, <1>2
      <3>4. branch * AccountsPerBranch \in Nat
        BY <1>1, <1>2
      <3>5. QED
        BY <1>1, <2>1, <3>1, <3>2, <3>3, <3>4
    <2>3. CASE account \in {SkipLocal(branch, n) : n \in 0..(NonLocal(o) - 1)}
      <3>1. PICK n \in 0..(NonLocal(o) - 1) : account = SkipLocal(branch, n)
        BY <2>3
      <3>2. NonLocal(o) = Accounts(o) - AccountsPerBranch
        BY <1>1, <2>1 DEF NonLocal
      <3>3. account = n \/ account = n + AccountsPerBranch
        BY <3>1 DEF SkipLocal
      <3>4. QED
        BY <1>1, <2>1, <3>1, <3>2, <3>3
    <2>4. QED
      BY <2>2, <2>3 DEF branch
  <1>5. QED
    BY <1>1, <1>2, <1>4 DEF Row, branch

\* tpcb at p with the locals w, when d is committed, t is seen and the status is s.
Posting(p, w, d, t) ==
    /\ p \in TpcbPlaces \cup {"idle", "exit"}
    /\ p = "idle" => w = IdleLocals
    /\ p # "idle" => w.program = "tpcb" /\ {"program", "i", "k", "x", "ready"} \subseteq DOMAIN w
    /\ p # "idle" /\ w.ready => Agrees(opt, d)
    /\ p \in {"idle", "tpConnect", "tpDrop", "tpCreate", "tpBind", "tpChoose", "exit"} => t = d
    /\ p \in {"tpConnect", "tpDrop", "tpCreate", "tpPopulate", "tpPrepare"} => ~w.ready
    /\ p = "tpPopulate" =>
           /\ w.k \in 1..3 /\ "History" \in DOMAIN t /\ t["History"] = <<>>
           /\ \A k \in 1..3 : k < w.k => TpcbTables[k] \in DOMAIN t /\ t[TpcbTables[k]] = Populated(opt, k)
    /\ p = "tpPrepare" => Agrees(opt, t)
    /\ p \in {"tpBind", "tpChoose", "tpXact", "tpCommit"} => w.ready
    /\ p = "tpXact" => w.k \in 1..5 /\ w.x \in Row(opt) /\ t = Seen(w.k, d, w.x)
    /\ p = "tpCommit" => w.x \in Row(opt) /\ t = Posted(d, w.x)

TpcbInv == input.prog = "tpcb" /\ Getopt => Posting(pc, v, db, txn)

TpcbLocalsOf(w) == w.program = "tpcb" /\ {"program", "i", "k", "x", "ready"} \subseteq DOMAIN w

LEMMA PostingLocals ==
    ASSUME Posting(pc, v, db, txn), pc \in TpcbPlaces PROVE TpcbLocalsOf(v) /\ pc # "idle" /\ pc # "exit"
  BY DEF Posting, TpcbPlaces, TpcbLocalsOf

\* Wherever tpcb is stopped, what is committed agrees with its history.
LEMMA PostingStops ==
    ASSUME NEW d, Stops(d), pc \in TpcbPlaces, Posting(pc, v, db, txn),
           v.ready => Agrees(opt, d)
    PROVE  Posting(pc', v', db', txn')
  <1>1. pc' = "exit" /\ db' = d /\ txn' = d /\ v' = v
    BY DEF Stops
  <1>2. TpcbLocalsOf(v)
    BY PostingLocals
  <1>3. QED
    BY <1>1, <1>2 DEF Posting, TpcbLocalsOf

LEMMA PostingStep ==
    ASSUME opt.scale \in Nat, Posting(pc, v, db, txn), TpcbStep(opt)
    PROVE  Posting(pc', v', db', txn')
  <1> DEFINE Good == Posting(pc', v', db', txn')
  <1>1. pc \in TpcbPlaces
    BY PlacesOf
  <1>2. TpcbLocalsOf(v) /\ pc # "idle" /\ pc # "exit"
    BY <1>1, PostingLocals
  <1>3. v.ready => Agrees(opt, db)
    BY <1>2 DEF Posting
  <1>4. ASSUME Stops(db) PROVE Good
    BY <1>1, <1>3, <1>4, PostingStops
  <1>5. ASSUME NEW d, ~v.ready, Stops(d) PROVE Good
    BY <1>1, <1>5, PostingStops
  <1>6. CASE TpConnect
    <2>1. pc = "tpConnect" /\ (Stops(db) \/ Goes(db, txn, "tpDrop", v))
      BY <1>6, CallsGoes DEF TpConnect
    <2>2. CASE Goes(db, txn, "tpDrop", v)
      BY <2>1, <2>2, <1>2, <1>3 DEF Goes, Posting, TpcbPlaces, TpcbLocalsOf
    <2>3. QED
      BY <2>1, <2>2, <1>4
  <1>7. CASE TpDrop
    <2> DEFINE d == Without(db, {TpcbTables[v.k]})
    <2>1. pc = "tpDrop" /\ (Goes(d, d, "tpCreate", v) \/ Goes(db, txn, "tpCreate", v))
      BY <1>7, IgnoredGoes DEF TpDrop
    <2> HIDE DEF d
    <2>2. QED
      BY <2>1, <1>2 DEF Goes, Posting, TpcbPlaces, TpcbLocalsOf
  <1>8. CASE TpCreate
    <2> DEFINE d    == Put(db, TpcbTables[v.k], <<>>)
               next == IF v.k = 4 THEN "tpPopulate" ELSE "tpDrop"
               w    == [v EXCEPT !.k = IF v.k = 4 THEN 1 ELSE @ + 1]
    <2>1. pc = "tpCreate" /\ ~v.ready /\ txn = db
      BY <1>8 DEF TpCreate, Posting
    <2>2. Stops(db) \/ Stops(d) \/ Goes(d, d, next, w)
      BY <1>8, DeniedStops, DdlGoes DEF TpCreate
    <2>3. v.k = 4 => "History" \in DOMAIN d /\ d["History"] = <<>> /\ w.k = 1
      BY <1>2 DEF TpcbTables, Put, TpcbLocalsOf
    <2>4. TpcbLocalsOf(w) /\ w.ready = v.ready
      BY <1>2 DEF TpcbLocalsOf
    <2> HIDE DEF d, w
    <2>5. CASE Goes(d, d, next, w) /\ v.k = 4
      BY <2>1, <2>3, <2>4, <2>5 DEF Goes, Posting, TpcbPlaces, TpcbLocalsOf
    <2>6. CASE Goes(d, d, next, w) /\ v.k # 4
      BY <2>1, <2>4, <2>6 DEF Goes, Posting, TpcbPlaces, TpcbLocalsOf
    <2>7. QED
      BY <2>1, <2>2, <2>5, <2>6, <1>4, <1>5
  <1>9. CASE TpPopulate(opt)
    <2> DEFINE t    == Put(txn, TpcbTables[v.k], Populated(opt, v.k))
               next == IF v.k = 3 THEN "tpPrepare" ELSE "tpPopulate"
               w    == [v EXCEPT !.k = @ + 1]
    <2>1. /\ pc = "tpPopulate" /\ ~v.ready /\ v.k \in 1..3
          /\ "History" \in DOMAIN txn /\ txn["History"] = <<>>
          /\ \A k \in 1..3 : k < v.k =>
                 TpcbTables[k] \in DOMAIN txn /\ txn[TpcbTables[k]] = Populated(opt, k)
      BY <1>9 DEF TpPopulate, Posting
    <2>2. Stops(db) \/ Goes(db, t, next, w)
      BY <1>9, StatementGoes DEF TpPopulate
    <2>3. TpcbLocalsOf(w) /\ w.ready = v.ready /\ w.k = v.k + 1
      BY <1>2 DEF TpcbLocalsOf
    <2>4. "History" \in DOMAIN t /\ t["History"] = <<>>
      BY <2>1 DEF Put, TpcbTables
    <2>5. \A k \in 1..3 : k < v.k + 1 => TpcbTables[k] \in DOMAIN t /\ t[TpcbTables[k]] = Populated(opt, k)
      <3>1. \A k \in 1..3 : TpcbTables[k] = TpcbTables[v.k] => k = v.k
        BY <2>1 DEF TpcbTables
      <3>2. QED
        BY <2>1, <3>1 DEF Put
    <2> HIDE DEF t, w
    <2>6. CASE Goes(db, t, next, w) /\ v.k = 3
      <3>1. Agrees(opt, t)
        BY <2>4, <2>5, <2>6, PopulatedAgrees
      <3>2. QED
        BY <2>1, <2>3, <2>6, <3>1 DEF Goes, Posting, TpcbPlaces, TpcbLocalsOf
    <2>7. CASE Goes(db, t, next, w) /\ v.k # 3
      <3>1. w.k \in 1..3
        BY <2>1, <2>3, <2>7
      <3>2. QED
        BY <2>1, <2>3, <2>4, <2>5, <2>7, <3>1 DEF Goes, Posting, TpcbPlaces, TpcbLocalsOf
    <2>8. QED
      BY <2>2, <2>6, <2>7, <1>4
  <1>10. CASE TpPrepare
    <2> DEFINE w == [v EXCEPT !.ready = TRUE]
    <2>1. pc = "tpPrepare" /\ ~v.ready /\ Agrees(opt, txn)
      BY <1>10 DEF TpPrepare, Posting
    <2>2. Stops(db) \/ Stops(txn) \/ Goes(txn, txn, "tpBind", w)
      BY <1>10, CommitGoes, FailsStops DEF TpPrepare
    <2>3. TpcbLocalsOf(w) /\ w.ready
      BY <1>2 DEF TpcbLocalsOf
    <2> HIDE DEF w
    <2>4. CASE Goes(txn, txn, "tpBind", w)
      BY <2>1, <2>3, <2>4 DEF Goes, Posting, TpcbPlaces, TpcbLocalsOf
    <2>5. QED
      BY <2>1, <2>2, <2>4, <1>4, <1>5
  <1>11. CASE TpBind
    <2>1. pc = "tpBind" /\ v.ready /\ txn = db /\ (Stops(db) \/ Goes(db, txn, "tpChoose", v))
      BY <1>11, CallsGoes DEF TpBind, Posting
    <2>2. CASE Goes(db, txn, "tpChoose", v)
      BY <2>1, <2>2, <1>2, <1>3 DEF Goes, Posting, TpcbPlaces, TpcbLocalsOf
    <2>3. QED
      BY <2>1, <2>2, <1>4
  <1>12. CASE TpChoose(opt)
    <2>1. pc = "tpChoose" /\ v.ready /\ txn = db
      BY <1>12 DEF TpChoose, Posting
    <2>2. CASE QuitTest(8, db)
      BY <2>2, <1>4 DEF QuitTest, Stops
    <2>3. ASSUME NEW x \in Row(opt), Goes(db, txn, "tpXact", [v EXCEPT !.k = 1, !.x = x]) PROVE Good
      <3> DEFINE w == [v EXCEPT !.k = 1, !.x = x]
      <3>1. TpcbLocalsOf(w) /\ w.ready = v.ready /\ w.k = 1 /\ w.x = x
        BY <1>2 DEF TpcbLocalsOf
      <3>2. txn = Seen(1, db, x)
        BY <2>1 DEF Seen
      <3>3. Goes(db, txn, "tpXact", w)
        BY <2>3
      <3> HIDE DEF w
      <3>4. w.k \in 1..5 /\ w.x \in Row(opt) /\ txn = Seen(w.k, db, w.x)
        BY <3>1, <3>2, <2>3
      <3>5. QED
        BY <2>1, <3>1, <3>3, <3>4, <1>3 DEF Goes, Posting, TpcbPlaces, TpcbLocalsOf
    <2>4. QuitTest(8, db) \/ \E x \in Row(opt) : Goes(db, txn, "tpXact", [v EXCEPT !.k = 1, !.x = x])
      <3>1. CASE ~QuitTest(8, db)
        <4>1. PICK teller \in 0..(Tellers(opt) - 1), delta \in Deltas :
                  LET branch == teller \div TellersPerBranch
                      local  == {branch * AccountsPerBranch + n : n \in 0..(AccountsPerBranch - 1)}
                      remote == IF Branches(opt) = 1 THEN {}
                                ELSE {SkipLocal(branch, n) : n \in 0..(NonLocal(opt) - 1)}
                  IN  \E account \in local \cup remote :
                          /\ pc' = "tpXact"
                          /\ v' = [v EXCEPT !.k = 1, !.x = [teller |-> teller, branch |-> branch,
                                                            account |-> account, delta |-> delta]]
                          /\ UNCHANGED <<db, txn, sig, status>>
          BY <1>12, <3>1 DEF TpChoose
        <4> DEFINE branch == teller \div TellersPerBranch
                   local  == {branch * AccountsPerBranch + n : n \in 0..(AccountsPerBranch - 1)}
                   remote == {SkipLocal(branch, n) : n \in 0..(NonLocal(opt) - 1)}
                   x(account) == [teller |-> teller, branch |-> branch, account |-> account, delta |-> delta]
        <4>2. PICK account \in local \cup remote :
                  pc' = "tpXact" /\ v' = [v EXCEPT !.k = 1, !.x = x(account)] /\ db' = db /\ txn' = txn
          BY <4>1
        <4>3. x(account) \in Row(opt)
          BY <4>2, ChosenRow
        <4>4. Goes(db, txn, "tpXact", [v EXCEPT !.k = 1, !.x = x(account)])
          BY <4>2 DEF Goes
        <4> HIDE DEF x
        <4>5. QED
          BY <4>3, <4>4
      <3>2. QED
        BY <3>1
    <2>5. QED
      BY <2>2, <2>3, <2>4
  <1>13. CASE TpXact
    <2> DEFINE next == IF v.k = 5 THEN "tpCommit" ELSE "tpXact"
               w    == [v EXCEPT !.k = @ + 1]
               t    == Seen(v.k + 1, db, v.x)
    <2>1. pc = "tpXact" /\ v.ready /\ v.k \in 1..5 /\ v.x \in Row(opt) /\ txn = Seen(v.k, db, v.x)
      BY <1>13 DEF TpXact, Posting
    <2>2. Stops(db) \/ Goes(db, t, next, w)
      <3>1. Stops(db) \/ Goes(db, XactStmt(v.k, txn, v.x), next, w)
        BY <1>13, StatementGoes DEF TpXact
      <3>2. XactStmt(v.k, txn, v.x) = t
        BY <2>1, SeenNext
      <3>3. QED
        BY <3>1, <3>2
    <2>3. TpcbLocalsOf(w) /\ w.ready = v.ready /\ w.k = v.k + 1 /\ w.x = v.x
      BY <1>2 DEF TpcbLocalsOf
    <2>4. v.k = 5 => t = Posted(db, v.x)
      BY DEF Seen
    <2> HIDE DEF t, w
    <2>5. CASE Goes(db, t, next, w) /\ v.k = 5
      BY <2>1, <2>3, <2>4, <2>5, <1>3 DEF Goes, Posting, TpcbPlaces, TpcbLocalsOf
    <2>6. CASE Goes(db, t, next, w) /\ v.k # 5
      <3>1. w.k \in 1..5 /\ t = Seen(w.k, db, w.x)
        BY <2>1, <2>3, <2>6 DEF t
      <3>2. QED
        BY <2>1, <2>3, <2>6, <3>1, <1>3 DEF Goes, Posting, TpcbPlaces, TpcbLocalsOf
    <2>7. QED
      BY <2>2, <2>5, <2>6, <1>4
  <1>14. CASE TpCommit
    <2> DEFINE w == [v EXCEPT !.i = @ + 1, !.x = NoXact]
    <2>1. pc = "tpCommit" /\ v.ready /\ v.x \in Row(opt) /\ txn = Posted(db, v.x)
      BY <1>14 DEF TpCommit, Posting
    <2>2. Agrees(opt, txn)
      BY <2>1, <1>3, PostedAgrees
    <2>3. Stops(db) \/ Stops(txn) \/ Goes(txn, txn, "tpChoose", w)
      BY <1>14, CommitGoes DEF TpCommit
    <2>4. TpcbLocalsOf(w) /\ w.ready = v.ready
      BY <1>2 DEF TpcbLocalsOf
    <2> HIDE DEF w
    <2>5. CASE Goes(txn, txn, "tpChoose", w)
      BY <2>1, <2>2, <2>4, <2>5 DEF Goes, Posting, TpcbPlaces, TpcbLocalsOf
    <2>6. CASE Stops(txn)
      BY <2>2, <2>6, <1>1, PostingStops
    <2>7. QED
      BY <2>3, <2>5, <2>6, <1>4
  <1>15. CASE TpEnd(opt)
    <2>1. CASE QuitTest(IF sig THEN 2 ELSE 0, db)
      <3>1. pc = "tpChoose" /\ pc' = "exit" /\ db' = db /\ txn' = db /\ v' = v
        BY <1>15, <2>1 DEF TpEnd, QuitTest
      <3>2. QED
        BY <3>1, <1>2, <1>3 DEF Posting, TpcbPlaces, TpcbLocalsOf
    <2>2. QED
      BY <1>15, <2>1, <1>4, FailsStops DEF TpEnd
  <1>16. QED
    BY <1>6, <1>7, <1>8, <1>9, <1>10, <1>11, <1>12, <1>13, <1>14, <1>15 DEF TpcbStep


LEMMA TpcbInductive ==
    /\ BenchInit => TpcbInv
    /\ Parsing /\ TpcbInv /\ [BenchNext]_benchVars => TpcbInv'
  <1>1. BenchInit => TpcbInv
    BY DEF BenchInit, WorkInit, TpcbInv, Posting, TpcbPlaces, IdleLocals
  <1>2. ASSUME Parsing, TpcbInv, [BenchNext]_benchVars PROVE TpcbInv'
    <2> SUFFICES ASSUME (input.prog = "tpcb" /\ Getopt)' PROVE Posting(pc, v, db, txn)'
      BY DEF TpcbInv
    <2>1. input.prog = "tpcb" /\ Getopt
      BY <1>2, SameProgram DEF Getopt
    <2>2. Posting(pc, v, db, txn)
      BY <1>2, <2>1 DEF TpcbInv
    <2>3. ASSUME UNCHANGED opt, Posting(pc', v', db', txn') PROVE Posting(pc, v, db, txn)'
      BY <2>3 DEF Posting
    <2>4. ASSUME UNCHANGED <<pc, v, db, txn, st>> PROVE Posting(pc, v, db, txn)'
      BY <2>2, <2>3, <2>4 DEF opt
    <2>5. ASSUME ~Running, Next, UNCHANGED work PROVE Posting(pc, v, db, txn)'
      <3>1. CASE pc = "idle"
        BY <2>2, <2>5, <3>1 DEF work, Posting, TpcbPlaces
      <3>2. CASE pc = "exit"
        BY <1>2, <2>4, <2>5, <3>2, OverAtExit DEF work
      <3>3. QED
        BY <2>5, <3>1, <3>2 DEF Running
    <2>6. ASSUME Step, UNCHANGED <<input, ol, st>> PROVE Posting(pc, v, db, txn)'
      <3>1. UNCHANGED opt
        BY <2>6 DEF opt
      <3>2. CASE Begin
        <4>1. pc' = "tpConnect" /\ v' = TpcbLocals /\ db' = db /\ txn' = txn /\ pc = "idle"
          BY <2>1, <3>2 DEF Begin
        <4>2. Posting(pc', v', db', txn')
          BY <2>2, <4>1 DEF Posting, TpcbPlaces, TpcbLocals
        <4>3. QED
          BY <2>3, <3>1, <4>2
      <3>3. CASE TpcbStep(opt)
        <4>1. At("run")
          BY <1>2, <3>3, WorkGuards DEF Parsing
        <4>2. opt.scale \in Nat
          BY <1>2, <2>1, <4>1, BenchAssumption DEF Parsing, InRanges, Program, opt, Getopt
        <4>3. QED
          BY <2>2, <2>3, <3>1, <3>3, <4>2, PostingStep
      <3>4. ~BulkinsertStep(opt) /\ ~WiscbmStep(opt)
        BY <2>2, PlacesOf DEF Posting, BulkPlaces, TpcbPlaces, WiscPlaces
      <3>5. CASE Signal \/ Kill
        <4>1. pc \in TpcbPlaces
          BY <2>2, <3>5 DEF Signal, Kill, Running, Posting
        <4>2. v.ready => Agrees(opt, db)
          BY <2>2, <4>1, PostingLocals DEF Posting
        <4>3. Stops(db) \/ UNCHANGED <<pc, v, db, txn>>
          BY <3>5 DEF Signal, Kill, QuitTest, Stops
        <4>4. QED
          BY <2>2, <2>3, <2>4, <2>6, <3>1, <4>1, <4>2, <4>3, PostingStops
      <3>6. QED
        BY <2>6, <3>2, <3>3, <3>4, <3>5 DEF Step
    <2>7. ASSUME Again PROVE Posting(pc, v, db, txn)'
      BY <2>2, <2>7 DEF Again, Posting, TpcbPlaces, IdleLocals
    <2>8. QED
      BY <1>2, <2>4, <2>5, <2>6, <2>7 DEF BenchNext, benchVars, work
  <1>3. QED
    BY <1>1, <1>2

\* From the first committed population on, whatever fails and wherever tpcb is
\* interrupted, the committed balances of the accounts, tellers and branches
\* are the sums of the committed history that names them, whose rows name
\* accounts that exist and the branches of their tellers.
THEOREM BranchesBalanceSafe == BenchSpec => []BranchesBalance
  <1>1. Parsing /\ TpcbInv => BranchesBalance
    <2> SUFFICES ASSUME Parsing, TpcbInv, v.program = "tpcb", v.ready PROVE BranchesBalance
      BY DEF BranchesBalance, BalancesAgree
    <2>1. input.prog = "tpcb" /\ Getopt
      BY WorkedGetopt DEF Parsing
    <2>2. Posting(pc, v, db, txn)
      BY <2>1 DEF TpcbInv
    <2>3. pc # "idle"
      BY <2>2 DEF Posting, IdleLocals
    <2>4. Agrees(opt, db)
      BY <2>2, <2>3 DEF Posting
    <2> DEFINE h == db["History"]
    <2>5. /\ \A n \in DOMAIN db["accounts"] : db["accounts"][n] = SumOf(h, LAMBDA r : r.account, n)
          /\ \A n \in DOMAIN db["tellers"] : db["tellers"][n] = SumOf(h, LAMBDA r : r.teller, n)
          /\ \A n \in DOMAIN db["branches"] : db["branches"][n] = SumOf(h, LAMBDA r : r.branch, n)
      <3>1. /\ Holds(db["accounts"], h, "account") /\ Holds(db["tellers"], h, "teller")
            /\ Holds(db["branches"], h, "branch")
        BY <2>4 DEF Agrees
      <3> HIDE DEF h
      <3>2. QED
        BY <3>1, SumOfIs DEF Holds
    <2>6. \A i \in DOMAIN h : /\ h[i].account \in DOMAIN db["accounts"]
                              /\ h[i].branch = h[i].teller \div TellersPerBranch
      BY <2>4 DEF Agrees, Row
    <2>7. QED
      BY <2>5, <2>6 DEF BranchesBalance, BalancesAgree
  <1>2. QED
    BY <1>1, ParsingInductive, TpcbInductive, PTL DEF BenchSpec

-----------------------------------------------------------------------------
(* The order of words, and what the binary search finds in it.             *)

Word == Seq(Tokens)

LEMMA LeastNumber ==
    ASSUME NEW S, S \subseteq Nat, S # {}
    PROVE  \E x \in S : \A y \in S : x <= y
  <1>1. PICK x \in S : \A y \in S : ~ (<<y, x>> \in OpToRel(<, Nat))
    BY NatLessThanWellFounded, WFMin
  <1>2. \A y \in S : ~(y < x)
    BY <1>1 DEF OpToRel
  <1>3. QED
    BY <1>2

LEMMA Ranks ==
    ASSUME NEW t \in Tokens, NEW u \in Tokens
    PROVE  Rank[t] \in Nat /\ (Rank[t] = Rank[u] => t = u)
  <1>1. ASSUME NEW y \in Tokens PROVE Rank[y] \in Nat /\ TokenOrder[Rank[y]] = y
    <2>1. DOMAIN TokenOrder = 1..Len(TokenOrder)
      BY GetoptAssumption
    <2>2. PICK i \in DOMAIN TokenOrder : TokenOrder[i] = y
      BY DEF Tokens, ToSet
    <2>3. Rank[y] \in DOMAIN TokenOrder /\ TokenOrder[Rank[y]] = y
      BY <2>2 DEF Rank
    <2>4. Len(TokenOrder) \in Nat
      BY GetoptAssumption
    <2>5. QED
      BY <2>1, <2>3, <2>4
  <1>2. QED
    BY <1>1

\* b agrees with a for n tokens, where a ends or has a token of lower rank.
Differ(a, b, n) ==
    /\ n \in Nat /\ n <= Len(a) /\ n < Len(b)
    /\ \A i \in 1..n : a[i] = b[i]
    /\ n = Len(a) \/ Rank[a[n + 1]] < Rank[b[n + 1]]

LEMMA BeforeIs ==
    ASSUME NEW a \in Word, NEW b \in Word
    PROVE  Before(a, b) <=> \E n : Differ(a, b, n)
  <1>1. Len(a) \in Nat /\ Len(b) \in Nat
    BY DEF Word
  <1>2. ASSUME NEW n \in Nat, n <= Len(a), n < Len(b)
        PROVE  SubSeq(a, 1, n) = SubSeq(b, 1, n) <=> \A i \in 1..n : a[i] = b[i]
    <2>1. \A i \in 1..n : a[i] \in Tokens /\ b[i] \in Tokens
      BY <1>1, <1>2 DEF Word
    <2>2. /\ SubSeq(a, 1, n) \in Seq(Tokens) /\ SubSeq(b, 1, n) \in Seq(Tokens)
          /\ Len(SubSeq(a, 1, n)) = n /\ Len(SubSeq(b, 1, n)) = n
          /\ \A i \in 1..n : SubSeq(a, 1, n)[i] = a[i] /\ SubSeq(b, 1, n)[i] = b[i]
      BY <1>2, <2>1, SubSeqProperties
    <2>3. QED
      BY <2>2
  <1>3. ASSUME Before(a, b) PROVE \E n : Differ(a, b, n)
    BY <1>1, <1>2, <1>3 DEF Before, Differ
  <1>4. ASSUME NEW n, Differ(a, b, n) PROVE Before(a, b)
    BY <1>1, <1>2, <1>4 DEF Before, Differ
  <1>5. QED
    BY <1>3, <1>4

LEMMA BeforeNotSelf == ASSUME NEW a \in Word PROVE ~Before(a, a)
  <1>1. ASSUME NEW n, Differ(a, a, n) PROVE FALSE
    <2>1. a[n + 1] \in Tokens
      BY <1>1 DEF Differ, Word
    <2>2. Rank[a[n + 1]] \in Nat
      BY <2>1, Ranks
    <2>3. QED
      BY <1>1, <2>2 DEF Differ
  <1>2. QED
    BY <1>1, BeforeIs

LEMMA BeforeTransitive ==
    ASSUME NEW a \in Word, NEW b \in Word, NEW c \in Word, Before(a, b), Before(b, c)
    PROVE  Before(a, c)
  <1>1. PICK n : Differ(a, b, n)
    BY BeforeIs
  <1>2. PICK m : Differ(b, c, m)
    BY BeforeIs
  <1>3. /\ Len(a) \in Nat /\ Len(b) \in Nat /\ Len(c) \in Nat
        /\ \A i \in 1..Len(a) : Rank[a[i]] \in Nat
        /\ \A i \in 1..Len(b) : Rank[b[i]] \in Nat
        /\ \A i \in 1..Len(c) : Rank[c[i]] \in Nat
    BY Ranks DEF Word
  <1>4. CASE n <= m
    <2>1. n \in Nat /\ m \in Nat /\ n <= Len(a) /\ n < Len(b) /\ m <= Len(b) /\ m < Len(c)
      BY <1>1, <1>2 DEF Differ
    <2>2. \A i \in 1..n : a[i] = c[i]
      BY <1>1, <1>2, <1>4, <2>1 DEF Differ
    <2>3. n = Len(a) \/ Rank[a[n + 1]] < Rank[c[n + 1]]
      <3>1. CASE n < m
        <4>1. b[n + 1] = c[n + 1]
          BY <1>2, <2>1, <3>1 DEF Differ
        <4>2. QED
          BY <1>1, <4>1 DEF Differ
      <3>2. CASE n = m
        BY <1>1, <1>2, <1>3, <2>1, <3>2 DEF Differ
      <3>3. QED
        BY <1>4, <2>1, <3>1, <3>2
    <2>4. Differ(a, c, n)
      BY <1>3, <1>4, <2>1, <2>2, <2>3 DEF Differ
    <2>5. QED
      BY <2>4, BeforeIs
  <1>5. CASE m < n
    <2>1. n \in Nat /\ m \in Nat /\ n <= Len(a) /\ n < Len(b) /\ m <= Len(b) /\ m < Len(c)
      BY <1>1, <1>2 DEF Differ
    <2>2. \A i \in 1..m : a[i] = c[i]
      BY <1>1, <1>2, <1>5, <2>1 DEF Differ
    <2>3. a[m + 1] = b[m + 1]
      BY <1>1, <1>5, <2>1 DEF Differ
    <2>4. m # Len(b)
      BY <1>3, <1>5, <2>1
    <2>5. Differ(a, c, m)
      BY <1>2, <1>3, <1>5, <2>1, <2>2, <2>3, <2>4 DEF Differ
    <2>6. QED
      BY <2>5, BeforeIs
  <1>6. QED
    BY <1>1, <1>2, <1>4, <1>5 DEF Differ

LEMMA BeforeTotal ==
    ASSUME NEW a \in Word, NEW b \in Word, a # b
    PROVE  Before(a, b) \/ Before(b, a)
  <1> DEFINE S == {i \in Nat : 1 <= i /\ i <= Len(a) /\ i <= Len(b) /\ a[i] # b[i]}
  <1>1. Len(a) \in Nat /\ Len(b) \in Nat
    BY DEF Word
  <1>2. CASE S = {}
    <2>1. \A i \in Nat : 1 <= i /\ i <= Len(a) /\ i <= Len(b) => a[i] = b[i]
      BY <1>2
    <2>2. Len(a) # Len(b)
      BY <1>1, <2>1 DEF Word
    <2>3. CASE Len(a) < Len(b)
      <3>1. Differ(a, b, Len(a))
        BY <1>1, <2>1, <2>3 DEF Differ
      <3>2. QED
        BY <3>1, BeforeIs
    <2>4. CASE Len(b) < Len(a)
      <3>1. Differ(b, a, Len(b))
        BY <1>1, <2>1, <2>4 DEF Differ
      <3>2. QED
        BY <3>1, BeforeIs
    <2>5. QED
      BY <1>1, <2>2, <2>3, <2>4
  <1>3. CASE S # {}
    <2>1. S \subseteq Nat
      OBVIOUS
    <2>2. PICK x \in S : \A y \in S : x <= y
      <3> HIDE DEF S
      <3> QED
        BY <1>3, <2>1, LeastNumber
    <2>3. x \in Nat /\ 1 <= x /\ x <= Len(a) /\ x <= Len(b) /\ a[x] # b[x]
      OBVIOUS
    <2>4. \A i \in 1..(x - 1) : a[i] = b[i]
      BY <1>1, <2>2, <2>3
    <2>5. /\ x - 1 \in Nat /\ (x - 1) + 1 = x /\ x - 1 <= Len(a) /\ x - 1 < Len(b)
          /\ x - 1 <= Len(b) /\ x - 1 < Len(a)
      BY <1>1, <2>3
    <2>6. a[x] \in Tokens /\ b[x] \in Tokens
      BY <1>1, <2>3 DEF Word
    <2>7. Rank[a[x]] < Rank[b[x]] \/ Rank[b[x]] < Rank[a[x]]
      BY <2>3, <2>6, Ranks
    <2> HIDE DEF S
    <2>8. CASE Rank[a[x]] < Rank[b[x]]
      <3>1. Differ(a, b, x - 1)
        BY <2>4, <2>5, <2>8 DEF Differ
      <3>2. QED
        BY <3>1, BeforeIs
    <2>9. CASE Rank[b[x]] < Rank[a[x]]
      <3>1. Differ(b, a, x - 1)
        BY <2>4, <2>5, <2>9 DEF Differ
      <3>2. QED
        BY <3>1, BeforeIs
    <2>10. QED
      BY <2>7, <2>8, <2>9
  <1>4. QED
    BY <1>2, <1>3

\* Words that have been cut off are in the order of the words.
Cut(w, k) == SubSeq(w, 1, IF k < Len(w) THEN k ELSE Len(w))

LEMMA CutIs ==
    ASSUME NEW w \in Word, NEW k \in Nat
    PROVE  /\ Cut(w, k) \in Word /\ Len(Cut(w, k)) = IF k < Len(w) THEN k ELSE Len(w)
           /\ \A i \in 1..Len(Cut(w, k)) : Cut(w, k)[i] = w[i]
  <1> DEFINE n == IF k < Len(w) THEN k ELSE Len(w)
  <1>1. n \in Nat /\ n <= Len(w)
    BY DEF Word
  <1>2. \A i \in 1..n : w[i] \in Tokens
    BY <1>1 DEF Word
  <1> HIDE DEF n
  <1>3. SubSeq(w, 1, n) \in Seq(Tokens) /\ Len(SubSeq(w, 1, n)) = n
        /\ \A i \in 1..n : SubSeq(w, 1, n)[i] = w[i]
    BY <1>1, <1>2, SubSeqProperties
  <1>4. QED
    BY <1>3 DEF Word, Cut, n

LEMMA CutInOrder ==
    ASSUME NEW a \in Word, NEW b \in Word, NEW k \in Nat, Before(a, b)
    PROVE  ~Before(Cut(b, k), Cut(a, k))
  <1> DEFINE c == Cut(a, k)
             d == Cut(b, k)
  <1>1. /\ c \in Word /\ Len(c) = (IF k < Len(a) THEN k ELSE Len(a))
        /\ \A i \in 1..Len(c) : c[i] = a[i]
    BY CutIs
  <1>2. /\ d \in Word /\ Len(d) = (IF k < Len(b) THEN k ELSE Len(b))
        /\ \A i \in 1..Len(d) : d[i] = b[i]
    BY CutIs
  <1> HIDE DEF c, d
  <1>3. SUFFICES ASSUME Before(d, c) PROVE FALSE
    BY DEF c, d
  <1>4. PICK n : Differ(a, b, n)
    BY BeforeIs
  <1>5. PICK m : Differ(d, c, m)
    BY <1>1, <1>2, <1>3, BeforeIs
  <1>6. /\ Len(a) \in Nat /\ Len(b) \in Nat
        /\ \A i \in 1..Len(a) : Rank[a[i]] \in Nat
        /\ \A i \in 1..Len(b) : Rank[b[i]] \in Nat
    BY Ranks DEF Word
  <1>7. /\ n \in Nat /\ n <= Len(a) /\ n < Len(b) /\ m \in Nat /\ m <= Len(d) /\ m < Len(c)
        /\ m < k /\ m < Len(a)
    BY <1>1, <1>4, <1>5, <1>6 DEF Differ
  <1>8. c[m + 1] = a[m + 1] /\ (m < Len(d) => d[m + 1] = b[m + 1])
    <2>1. Len(c) \in Nat /\ Len(d) \in Nat
      BY <1>1, <1>2 DEF Word
    <2>2. m + 1 \in 1..Len(c) /\ (m < Len(d) => m + 1 \in 1..Len(d))
      BY <1>7, <2>1
    <2>3. QED
      BY <1>1, <1>2, <2>2
  <1>9. m < Len(d) => Rank[b[m + 1]] < Rank[a[m + 1]]
    BY <1>5, <1>8, <1>7, <1>2, <1>6 DEF Differ
  <1>10. CASE m < n
    <2>1. m < Len(d)
      BY <1>2, <1>6, <1>7, <1>10
    <2>2. a[m + 1] = b[m + 1]
      BY <1>4, <1>7, <1>10 DEF Differ
    <2>3. QED
      BY <1>6, <1>7, <1>9, <2>1, <2>2
  <1>11. CASE m > n
    <2>1. d[n + 1] = c[n + 1]
      BY <1>5, <1>7, <1>11 DEF Differ
    <2>2. d[n + 1] = b[n + 1] /\ c[n + 1] = a[n + 1]
      BY <1>1, <1>2, <1>6, <1>7, <1>11
    <2>3. n # Len(a) /\ n + 1 \in 1..Len(a)
      BY <1>6, <1>7, <1>11
    <2>4. Rank[a[n + 1]] < Rank[b[n + 1]]
      BY <1>4, <2>3 DEF Differ
    <2>5. a[n + 1] = b[n + 1]
      BY <2>1, <2>2
    <2>6. Rank[a[n + 1]] \in Nat
      BY <1>6, <2>3
    <2>7. QED
      BY <2>4, <2>5, <2>6
  <1>12. CASE m = n
    <2>1. Rank[a[n + 1]] < Rank[b[n + 1]]
      BY <1>4, <1>6, <1>7, <1>12 DEF Differ
    <2>2. m < Len(d)
      BY <1>2, <1>6, <1>7, <1>12
    <2>3. n + 1 \in 1..Len(a) /\ n + 1 \in 1..Len(b)
      BY <1>6, <1>7, <1>12
    <2>4. QED
      BY <1>6, <1>9, <1>12, <2>1, <2>2, <2>3
  <1>13. QED
    BY <1>7, <1>10, <1>11, <1>12

\* A strict total order.
Orders(R, N) ==
    /\ \A i \in N : <<i, i>> \notin R
    /\ \A i, j, k \in N : <<i, j>> \in R /\ <<j, k>> \in R => <<i, k>> \in R
    /\ \A i, j \in N : i # j => <<i, j>> \in R \/ <<j, i>> \in R

\* The place of an element is one more than the number of those before it.
LEMMA Places ==
    ASSUME NEW N, IsFiniteSet(N), NEW R, Orders(R, N), NEW f,
           f = [i \in N |-> Cardinality({j \in N : <<j, i>> \in R}) + 1]
    PROVE  /\ Cardinality(N) \in Nat
           /\ \A i \in N : f[i] \in 1..Cardinality(N)
           /\ \A i, j \in N : <<i, j>> \in R <=> f[i] < f[j]
           /\ \A k \in 1..Cardinality(N) : \E i \in N : f[i] = k
  <1> DEFINE Fore(i) == {j \in N : <<j, i>> \in R}
  <1>1. \A i \in N : Fore(i) \in SUBSET N /\ i \notin Fore(i)
    BY DEF Orders
  <1>2. \A i \in N : f[i] = Cardinality(Fore(i)) + 1
    OBVIOUS
  <1>3. ASSUME NEW i \in N, NEW j \in N, <<i, j>> \in R
        PROVE  Fore(i) \in SUBSET Fore(j) /\ Fore(i) # Fore(j)
    BY <1>3 DEF Orders
  <1> HIDE DEF Fore
  <1>4. Cardinality(N) \in Nat
    BY FS_CardinalityType
  <1>5. ASSUME NEW i \in N
        PROVE  /\ IsFiniteSet(Fore(i)) /\ Cardinality(Fore(i)) \in Nat
               /\ Cardinality(Fore(i)) <= Cardinality(N) /\ Cardinality(Fore(i)) # Cardinality(N)
    <2>1. IsFiniteSet(Fore(i)) /\ Cardinality(Fore(i)) <= Cardinality(N)
          /\ (Cardinality(N) = Cardinality(Fore(i)) => N = Fore(i))
      BY <1>1, FS_Subset
    <2>2. Cardinality(Fore(i)) \in Nat
      BY <2>1, FS_CardinalityType
    <2>3. Fore(i) # N
      BY <1>1
    <2>4. QED
      BY <2>1, <2>2, <2>3
  <1>6. \A i \in N : f[i] \in 1..Cardinality(N)
    BY <1>2, <1>4, <1>5
  <1>7. ASSUME NEW i \in N, NEW j \in N, <<i, j>> \in R PROVE f[i] < f[j]
    <2>1. /\ Cardinality(Fore(i)) <= Cardinality(Fore(j))
          /\ (Cardinality(Fore(j)) = Cardinality(Fore(i)) => Fore(j) = Fore(i))
      BY <1>3, <1>5, <1>7, FS_Subset
    <2>2. Cardinality(Fore(i)) < Cardinality(Fore(j))
      <3>1. Fore(i) # Fore(j) /\ Cardinality(Fore(i)) \in Nat /\ Cardinality(Fore(j)) \in Nat
        BY <1>3, <1>5, <1>7
      <3>2. QED
        BY <2>1, <3>1
    <2>3. QED
      <3>1. f[i] = Cardinality(Fore(i)) + 1 /\ f[j] = Cardinality(Fore(j)) + 1
        BY <1>2
      <3>2. Cardinality(Fore(i)) \in Nat /\ Cardinality(Fore(j)) \in Nat
        BY <1>5
      <3>3. QED
        BY <2>2, <3>1, <3>2
  <1>8. ASSUME NEW i \in N, NEW j \in N, f[i] < f[j] PROVE <<i, j>> \in R
    <2>1. i # j
      BY <1>6, <1>8
    <2>2. CASE <<j, i>> \in R
      <3>1. f[j] < f[i]
        BY <1>7, <2>2
      <3>2. f[i] \in 1..Cardinality(N) /\ f[j] \in 1..Cardinality(N)
        BY <1>6
      <3>3. QED
        BY <1>4, <1>8, <3>1, <3>2
    <2>3. QED
      BY <2>1, <2>2 DEF Orders
  <1>9. f \in Injection(N, 1..Cardinality(N))
    <2>1. f \in [N -> 1..Cardinality(N)]
      BY <1>6
    <2>2. ASSUME NEW i \in N, NEW j \in N, f[i] = f[j] PROVE i = j
      <3>1. ~(f[i] < f[j]) /\ ~(f[j] < f[i])
        BY <1>4, <1>6, <2>2
      <3>2. QED
        BY <1>7, <3>1 DEF Orders
    <2>3. QED
      BY <2>1, <2>2 DEF Injection, IsInjective
  <1>10. IsFiniteSet(1..Cardinality(N)) /\ Cardinality(1..Cardinality(N)) = Cardinality(N)
    BY <1>4, FS_Interval
  <1>11. f \in Surjection(N, 1..Cardinality(N))
    BY <1>9, <1>10, FS_Injection
  <1>12. \A k \in 1..Cardinality(N) : \E i \in N : f[i] = k
    BY <1>11 DEF Surjection
  <1>13. QED
    BY <1>4, <1>6, <1>7, <1>8, <1>12

\* The search in n places, where low are those after what is sought and high
\* those before.
Turn(f, b, low, high) ==
    LET mid == (b[1] + b[2]) \div 2
    IN  IF b[1] > b[2] THEN 0
        ELSE IF mid + 1 \in low THEN f[<<b[1], mid - 1>>]
        ELSE IF mid + 1 \in high THEN f[<<mid + 1, b[2]>>]
        ELSE mid + 1

Bounds(n) == (0..n) \X (-1..(n - 1))

IsSearch(f, n, low, high) == f = [b \in Bounds(n) |-> Turn(f, b, low, high)]

LEMMA Halves ==
    ASSUME NEW n \in Nat, NEW b \in Bounds(n), b[1] <= b[2]
    PROVE  LET mid == (b[1] + b[2]) \div 2
           IN  /\ mid \in Nat /\ b[1] <= mid /\ mid <= b[2] /\ b[2] < n
               /\ <<b[1], mid - 1>> \in Bounds(n) /\ <<mid + 1, b[2]>> \in Bounds(n)
  <1> DEFINE x == b[1]
             y == b[2]
             mid == (x + y) \div 2
  <1>1. x \in Nat /\ y \in Nat /\ x <= n /\ y < n /\ x <= y
    BY DEF Bounds
  <1> HIDE DEF x, y
  <1>2. mid \in Nat /\ x <= mid /\ mid <= y
    BY <1>1
  <1> HIDE DEF mid
  <1>3. x \in 0..n /\ mid - 1 \in -1..(n - 1) /\ mid + 1 \in 0..n /\ y \in -1..(n - 1)
    BY <1>1, <1>2
  <1>4. <<x, mid - 1>> \in Bounds(n) /\ <<mid + 1, y>> \in Bounds(n)
    BY <1>3 DEF Bounds
  <1>5. QED
    BY <1>1, <1>2, <1>4 DEF x, y, mid

\* f is the search for bounds less than k apart.
Searches(f, n, low, high, k) ==
    /\ f = [b \in Bounds(n) |-> f[b]]
    /\ \A b \in Bounds(n) : b[2] - b[1] < k => f[b] = Turn(f, b, low, high)

LEMMA SearchMore ==
    ASSUME NEW n \in Nat, NEW low, NEW high, NEW k \in Int, NEW f, Searches(f, n, low, high, k)
    PROVE  LET g == [b \in Bounds(n) |-> Turn(f, b, low, high)]
           IN  Searches(g, n, low, high, k + 1)
  <1> DEFINE g == [b \in Bounds(n) |-> Turn(f, b, low, high)]
  <1>1. \A b \in Bounds(n) : b[2] - b[1] < k => g[b] = f[b]
    BY DEF Searches
  <1>2. ASSUME NEW b \in Bounds(n), b[2] - b[1] < k + 1 PROVE Turn(f, b, low, high) = Turn(g, b, low, high)
    <2>1. CASE b[1] > b[2]
      BY <2>1 DEF Turn
    <2>2. CASE ~(b[1] > b[2])
      <3> DEFINE mid == (b[1] + b[2]) \div 2
      <3>1. b[1] \in Int /\ b[2] \in Int
        BY DEF Bounds
      <3>2. /\ mid \in Nat /\ b[1] <= mid /\ mid <= b[2]
            /\ <<b[1], mid - 1>> \in Bounds(n) /\ <<mid + 1, b[2]>> \in Bounds(n)
        BY <2>2, <3>1, Halves
      <3> HIDE DEF mid, g
      <3>3. (mid - 1) - b[1] < k /\ b[2] - (mid + 1) < k
        BY <1>2, <3>1, <3>2
      <3>4. g[<<b[1], mid - 1>>] = f[<<b[1], mid - 1>>] /\ g[<<mid + 1, b[2]>>] = f[<<mid + 1, b[2]>>]
        BY <1>1, <3>2, <3>3
      <3>5. QED
        BY <3>4 DEF Turn, mid
    <2>3. QED
      BY <2>1, <2>2
  <1>3. \A b \in Bounds(n) : b[2] - b[1] < k + 1 => g[b] = Turn(g, b, low, high)
    <2> SUFFICES ASSUME NEW b \in Bounds(n), b[2] - b[1] < k + 1 PROVE g[b] = Turn(g, b, low, high)
      OBVIOUS
    <2>1. g[b] = Turn(f, b, low, high)
      OBVIOUS
    <2> HIDE DEF g
    <2>2. QED
      BY <1>2, <2>1
  <1>4. g = [b \in Bounds(n) |-> g[b]]
    OBVIOUS
  <1>5. QED
    BY <1>3, <1>4 DEF Searches

LEMMA SearchExists ==
    ASSUME NEW n \in Nat, NEW low, NEW high
    PROVE  \E f : IsSearch(f, n, low, high)
  <1> DEFINE S == {k \in Nat : ~ \E f : Searches(f, n, low, high, k)}
  <1>1. S = {}
    <2> SUFFICES ASSUME S # {} PROVE FALSE
      OBVIOUS
    <2>1. PICK k \in S : \A y \in S : k <= y
      <3>1. S \subseteq Nat
        OBVIOUS
      <3> HIDE DEF S
      <3>2. QED
        BY <3>1, LeastNumber
    <2>2. k \in Nat /\ ~ \E f : Searches(f, n, low, high, k)
      OBVIOUS
    <2>3. CASE k = 0
      <3> DEFINE f == [b \in Bounds(n) |-> 0]
      <3>1. ASSUME NEW b \in Bounds(n), b[2] - b[1] < 0 PROVE b[1] > b[2]
        BY <3>1 DEF Bounds
      <3>2. Searches(f, n, low, high, 0)
        BY <3>1 DEF Searches, Turn
      <3> HIDE DEF f
      <3>3. QED
        BY <2>2, <2>3, <3>2
    <2>4. CASE k # 0
      <3>1. k - 1 \in Nat /\ k - 1 \notin S
        BY <2>1, <2>2, <2>4
      <3>2. PICK f : Searches(f, n, low, high, k - 1)
        BY <3>1
      <3>3. (k - 1) + 1 = k /\ k - 1 \in Int
        BY <3>1
      <3> HIDE DEF S
      <3>4. \E g : Searches(g, n, low, high, (k - 1) + 1)
        BY <3>2, <3>3, SearchMore
      <3>5. QED
        BY <2>2, <3>3, <3>4
    <2>5. QED
      BY <2>3, <2>4
  <1>2. PICK f : Searches(f, n, low, high, n + 1)
    BY <1>1
  <1>3. ASSUME NEW b \in Bounds(n) PROVE b[2] - b[1] < n + 1
    BY DEF Bounds
  <1>4. \A b \in Bounds(n) : f[b] = Turn(f, b, low, high)
    BY <1>2, <1>3 DEF Searches
  <1>5. f = [b \in Bounds(n) |-> f[b]]
    BY <1>2 DEF Searches
  <1> DEFINE g == [b \in Bounds(n) |-> Turn(f, b, low, high)]
  <1>6. f = g
    BY <1>4, <1>5
  <1>7. QED
    BY <1>6 DEF IsSearch

\* What is after something that is after it is after it, and so before it.
Splits(n, low, high) ==
    /\ \A i \in 1..n, j \in 1..n : i \in low /\ i <= j => j \in low
    /\ \A i \in 1..n, j \in 1..n : i \in high /\ j <= i => j \in high

\* 0, and there is nothing to find between the bounds, or a place to be found.
Found(f, b, low, high) ==
    \/ f[b] = 0 /\ \A i \in (b[1] + 1)..(b[2] + 1) : i \in low \cup high
    \/ f[b] \in ((b[1] + 1)..(b[2] + 1)) \ (low \cup high)

LEMMA SearchFinds ==
    ASSUME NEW n \in Nat, NEW low, NEW high, Splits(n, low, high), NEW f, IsSearch(f, n, low, high)
    PROVE  \A b \in Bounds(n) : Found(f, b, low, high)
  <1> DEFINE S == {k \in Nat : \E b \in Bounds(n) : b[2] - b[1] < k /\ ~Found(f, b, low, high)}
  <1>1. \A b \in Bounds(n) : f[b] = Turn(f, b, low, high)
    <2> DEFINE g == [b \in Bounds(n) |-> Turn(f, b, low, high)]
    <2>1. f = g
      BY DEF IsSearch
    <2>2. \A b \in Bounds(n) : g[b] = Turn(f, b, low, high)
      OBVIOUS
    <2> HIDE DEF g
    <2>3. QED
      BY <2>1, <2>2
  <1>2. S = {}
    <2> SUFFICES ASSUME S # {} PROVE FALSE
      OBVIOUS
    <2>1. PICK k \in S : \A y \in S : k <= y
      <3>1. S \subseteq Nat
        OBVIOUS
      <3> HIDE DEF S
      <3>2. QED
        BY <3>1, LeastNumber
    <2>2. PICK b \in Bounds(n) : b[2] - b[1] < k /\ ~Found(f, b, low, high)
      BY <2>1
    <2>3. k \in Nat /\ b[1] \in Nat /\ b[2] \in Int /\ b[1] <= n /\ b[2] <= n - 1
      BY DEF Bounds
    <2>4. ASSUME NEW c \in Bounds(n), c[2] - c[1] < k - 1 PROVE Found(f, c, low, high)
      <3>1. CASE k = 0
        <4>1. c[1] \in Nat /\ c[2] \in Int /\ c[1] > c[2]
          BY <2>4, <3>1 DEF Bounds
        <4>2. f[c] = 0
          BY <1>1, <4>1 DEF Turn
        <4>3. (c[1] + 1)..(c[2] + 1) = {}
          BY <4>1
        <4>4. QED
          BY <4>2, <4>3 DEF Found
      <3>2. CASE k # 0
        <4>1. k - 1 \in Nat /\ k - 1 \notin S
          BY <2>1, <2>3, <3>2
        <4>2. QED
          BY <2>4, <4>1
      <3>3. QED
        BY <3>1, <3>2
    <2> HIDE DEF S
    <2>5. CASE b[1] > b[2]
      <3>1. f[b] = 0
        BY <1>1, <2>5 DEF Turn
      <3>2. (b[1] + 1)..(b[2] + 1) = {}
        BY <2>3, <2>5
      <3>3. QED
        BY <2>2, <3>1, <3>2 DEF Found
    <2>6. CASE ~(b[1] > b[2])
      <3> DEFINE mid == (b[1] + b[2]) \div 2
                 left == <<b[1], mid - 1>>
                 right == <<mid + 1, b[2]>>
      <3>0. b[1] <= b[2]
        BY <2>3, <2>6
      <3>1. /\ mid \in Nat /\ b[1] <= mid /\ mid <= b[2]
            /\ left \in Bounds(n) /\ right \in Bounds(n)
        BY <3>0, Halves
      <3>2. left[1] = b[1] /\ left[2] = mid - 1 /\ right[1] = mid + 1 /\ right[2] = b[2]
        OBVIOUS
      <3>3. f[b] = IF mid + 1 \in low THEN f[left] ELSE IF mid + 1 \in high THEN f[right] ELSE mid + 1
        BY <1>1, <2>6 DEF Turn
      <3> HIDE DEF mid, left, right
      <3>4. left[2] - left[1] < k - 1 /\ right[2] - right[1] < k - 1
        BY <2>2, <2>3, <3>1, <3>2
      <3>5. Found(f, left, low, high) /\ Found(f, right, low, high)
        BY <2>4, <3>1, <3>4
      <3>6. mid + 1 \in 1..n /\ mid + 1 \in (b[1] + 1)..(b[2] + 1)
            /\ (b[1] + 1)..(b[2] + 1) \subseteq 1..n
        BY <2>3, <3>1
      <3>7. CASE mid + 1 \in low
        <4>1. f[b] = f[left]
          BY <3>3, <3>7
        <4>2. \A i \in (b[1] + 1)..(b[2] + 1) : i \in (left[1] + 1)..(left[2] + 1) \/ i \in low
          BY <2>3, <3>1, <3>2, <3>6, <3>7 DEF Splits
        <4>3. (left[1] + 1)..(left[2] + 1) \subseteq (b[1] + 1)..(b[2] + 1)
          BY <2>3, <3>1, <3>2
        <4>4. QED
          BY <2>2, <3>5, <4>1, <4>2, <4>3 DEF Found
      <3>8. CASE mid + 1 \notin low /\ mid + 1 \in high
        <4>1. f[b] = f[right]
          BY <3>3, <3>8
        <4>2. \A i \in (b[1] + 1)..(b[2] + 1) : i \in (right[1] + 1)..(right[2] + 1) \/ i \in high
          BY <2>3, <3>1, <3>2, <3>6, <3>8 DEF Splits
        <4>3. (right[1] + 1)..(right[2] + 1) \subseteq (b[1] + 1)..(b[2] + 1)
          BY <2>3, <3>1, <3>2
        <4>4. QED
          BY <2>2, <3>5, <4>1, <4>2, <4>3 DEF Found
      <3>9. CASE mid + 1 \notin low /\ mid + 1 \notin high
        <4>1. f[b] = mid + 1
          BY <3>3, <3>9
        <4>2. QED
          BY <2>2, <3>6, <3>9, <4>1 DEF Found
      <3>10. QED
        BY <3>7, <3>8, <3>9
    <2>7. QED
      BY <2>5, <2>6
  <1>3. ASSUME NEW b \in Bounds(n) PROVE Found(f, b, low, high)
    <2>1. n + 1 \in Nat /\ n + 1 \notin S
      BY <1>2
    <2>2. b[2] - b[1] < n + 1
      BY DEF Bounds
    <2>3. QED
      BY <2>1, <2>2
  <1>4. QED
    BY <1>3

-----------------------------------------------------------------------------
(* The search of a list of options.                                        *)

\* The places of a list, and what a search looks at there.
Names(list) == [i \in 1..Len(list.sorted) |-> list.opts[list.sorted[i]].stored]

Lows(list, key, sought)  == {i \in 1..Len(list.sorted) : Before(sought, key[i])}
Highs(list, key, sought) == {i \in 1..Len(list.sorted) : Before(key[i], sought)}

\* What ExactMatch and AbbrevMatch do between two bounds.
ExactTurn(f, list, sought, b) ==
    LET mid == (b[1] + b[2]) \div 2
    IN  IF b[1] > b[2] THEN 0
        ELSE IF Before(sought, Names(list)[mid + 1]) THEN f[<<b[1], mid - 1>>]
        ELSE IF Before(Names(list)[mid + 1], sought) THEN f[<<mid + 1, b[2]>>]
        ELSE mid + 1

AbbrevTurn(f, list, sought, k, b) ==
    LET mid == (b[1] + b[2]) \div 2
    IN  IF b[1] > b[2] THEN 0
        ELSE IF Before(sought, Beginning(list, Names(list)[mid + 1], k)) THEN f[<<b[1], mid - 1>>]
        ELSE IF Before(Beginning(list, Names(list)[mid + 1], k), sought) THEN f[<<mid + 1, b[2]>>]
        ELSE mid + 1

IsExact(f, list, sought) == f = [b \in Bounds(Len(list.sorted)) |-> ExactTurn(f, list, sought, b)]

IsAbbrev(f, list, sought, k) ==
    f = [b \in Bounds(Len(list.sorted)) |-> AbbrevTurn(f, list, sought, k, b)]

LEMMA ExactIsSearch ==
    ASSUME NEW list, Len(list.sorted) \in Nat, NEW sought, NEW f
    PROVE  LET key == Names(list)
           IN  IsExact(f, list, sought) <=>
               IsSearch(f, Len(list.sorted), Lows(list, key, sought), Highs(list, key, sought))
  <1> DEFINE n == Len(list.sorted)
             low == Lows(list, Names(list), sought)
             high == Highs(list, Names(list), sought)
  <1>2. ASSUME NEW b \in Bounds(n) PROVE Turn(f, b, low, high) = ExactTurn(f, list, sought, b)
    <2>1. CASE b[1] > b[2]
      BY <2>1 DEF Turn, ExactTurn
    <2>2. CASE ~(b[1] > b[2])
      <3>1. b[1] <= b[2]
        BY <2>2 DEF Bounds
      <3> DEFINE mid == (b[1] + b[2]) \div 2
      <3>2. mid \in Nat /\ mid <= b[2] /\ b[2] < n
        BY <3>1, Halves
      <3>3. b[2] \in Int /\ n \in Nat
        BY DEF Bounds
      <3> HIDE DEF mid
      <3>4. mid + 1 \in 1..n
        BY <3>2, <3>3
      <3>5. /\ mid + 1 \in low <=> Before(sought, Names(list)[mid + 1])
            /\ mid + 1 \in high <=> Before(Names(list)[mid + 1], sought)
        BY <3>4 DEF Lows, Highs
      <3> HIDE DEF low, high, n
      <3>6. QED
        BY <3>5 DEF Turn, ExactTurn, mid
    <2>3. QED
      BY <2>1, <2>2
  <1>3. [b \in Bounds(n) |-> Turn(f, b, low, high)] = [b \in Bounds(n) |-> ExactTurn(f, list, sought, b)]
    BY <1>2
  <1>4. QED
    BY <1>3 DEF IsExact, IsSearch

LEMMA AbbrevIsSearch ==
    ASSUME NEW list, Len(list.sorted) \in Nat, NEW sought, NEW k, NEW f
    PROVE  LET key == [i \in 1..Len(list.sorted) |-> Beginning(list, Names(list)[i], k)]
           IN  IsAbbrev(f, list, sought, k) <=>
               IsSearch(f, Len(list.sorted), Lows(list, key, sought), Highs(list, key, sought))
  <1> DEFINE n == Len(list.sorted)
             key == [i \in 1..Len(list.sorted) |-> Beginning(list, Names(list)[i], k)]
             low == Lows(list, key, sought)
             high == Highs(list, key, sought)
  <1>2. ASSUME NEW b \in Bounds(n) PROVE Turn(f, b, low, high) = AbbrevTurn(f, list, sought, k, b)
    <2>1. CASE b[1] > b[2]
      BY <2>1 DEF Turn, AbbrevTurn
    <2>2. CASE ~(b[1] > b[2])
      <3>1. b[1] <= b[2]
        BY <2>2 DEF Bounds
      <3> DEFINE mid == (b[1] + b[2]) \div 2
      <3>2. mid \in Nat /\ mid <= b[2] /\ b[2] < n
        BY <3>1, Halves
      <3>3. b[2] \in Int /\ n \in Nat
        BY DEF Bounds
      <3> HIDE DEF mid
      <3>4. mid + 1 \in 1..n
        BY <3>2, <3>3
      <3>5. key[mid + 1] = Beginning(list, Names(list)[mid + 1], k)
        BY <3>4
      <3> HIDE DEF key
      <3>6. /\ mid + 1 \in low <=> Before(sought, Beginning(list, Names(list)[mid + 1], k))
            /\ mid + 1 \in high <=> Before(Beginning(list, Names(list)[mid + 1], k), sought)
        BY <3>4, <3>5 DEF Lows, Highs
      <3> HIDE DEF low, high, n
      <3>7. QED
        BY <3>6 DEF Turn, AbbrevTurn, mid
    <2>3. QED
      BY <2>1, <2>2
  <1>3. [b \in Bounds(n) |-> Turn(f, b, low, high)]
            = [b \in Bounds(n) |-> AbbrevTurn(f, list, sought, k, b)]
    BY <1>2
  <1>4. QED
    BY <1>3 DEF IsAbbrev, IsSearch

LEMMA ExactMatchIs ==
    ASSUME NEW list, NEW w, \E f : IsExact(f, list, StoredName(list.mode, w))
    PROVE  \E f : /\ IsExact(f, list, StoredName(list.mode, w))
                  /\ ExactMatch(list, w) =
                        IF f[<<0, Len(list.sorted) - 1>>] = 0 THEN None
                        ELSE list.sorted[f[<<0, Len(list.sorted) - 1>>]]
  <1> DEFINE sought == StoredName(list.mode, w)
             F == CHOOSE f : IsExact(f, list, sought)
  <1>1. IsExact(F, list, sought)
    OBVIOUS
  <1>2. ExactMatch(list, w) =
                        IF F[<<0, Len(list.sorted) - 1>>] = 0 THEN None
                        ELSE list.sorted[F[<<0, Len(list.sorted) - 1>>]]
    BY DEF ExactMatch, BinarySearch, IsExact, ExactTurn, Names, Bounds
  <1>3. QED
    BY <1>1, <1>2

LEMMA AbbrevMatchIs ==
    ASSUME NEW list, NEW w, \E f : IsAbbrev(f, list, Beginning(list, w, Len(w)), Len(w))
    PROVE  \E f : /\ IsAbbrev(f, list, Beginning(list, w, Len(w)), Len(w))
                  /\ LET at == f[<<0, Len(list.sorted) - 1>>]
                         Same(i) == i \in DOMAIN list.sorted /\
                             Beginning(list, list.opts[list.sorted[i]].stored, Len(w)) = Beginning(list, w, Len(w))
                     IN  AbbrevMatch(list, w) =
                            IF at = 0 \/ Same(at - 1) \/ Same(at + 1) THEN None ELSE list.sorted[at]
  <1> DEFINE sought == Beginning(list, w, Len(w))
             F == CHOOSE f : IsAbbrev(f, list, sought, Len(w))
             at == F[<<0, Len(list.sorted) - 1>>]
             Same(i) == i \in DOMAIN list.sorted /\
                             Beginning(list, list.opts[list.sorted[i]].stored, Len(w)) = Beginning(list, w, Len(w))
  <1>1. IsAbbrev(F, list, sought, Len(w))
    OBVIOUS
  <1>2. AbbrevMatch(list, w) = IF at = 0 \/ Same(at - 1) \/ Same(at + 1) THEN None ELSE list.sorted[at]
    BY DEF AbbrevMatch, BinarySearch, IsAbbrev, AbbrevTurn, Names, Bounds
  <1>3. QED
    BY <1>1, <1>2

-----------------------------------------------------------------------------
(* A list whose options are in order, and what is found in it.             *)

Normal(list) == {i \in DOMAIN list.opts : ~IsSpecial(list.opts[i])}
Name(list, i) == list.opts[i].stored

\* Every normal option has one place, and none comes before one it is after.
InOrder(list) ==
    LET n == Len(list.sorted)
    IN  /\ n \in Nat /\ DOMAIN list.sorted = 1..n
        /\ IsFiniteSet(Normal(list)) /\ \A i \in Normal(list) : Name(list, i) \in Word /\ i # None
        /\ \A i \in 1..n : list.sorted[i] \in Normal(list)
        /\ \A x \in Normal(list) : \E i \in 1..n : list.sorted[i] = x
        /\ \A i, j \in 1..n : list.sorted[i] = list.sorted[j] => i = j
        /\ \A i, j \in 1..n : i <= j => ~Before(Name(list, list.sorted[j]), Name(list, list.sorted[i]))

\* A word that comes before another comes before all that do not come before that.
LEMMA BeforeThose ==
    ASSUME NEW a \in Word, NEW b \in Word, NEW c \in Word
    PROVE  /\ Before(a, b) /\ ~Before(c, b) => Before(a, c)
           /\ Before(b, a) /\ ~Before(b, c) => Before(c, a)
  <1>1. b = c \/ Before(b, c) \/ Before(c, b)
    BY BeforeTotal
  <1>2. QED
    BY <1>1, BeforeTransitive

LEMMA KeysSplit ==
    ASSUME NEW list, Len(list.sorted) \in Nat, NEW sought \in Word, NEW key,
           \A i \in 1..Len(list.sorted) : key[i] \in Word,
           \A i, j \in 1..Len(list.sorted) : i <= j => ~Before(key[j], key[i])
    PROVE  Splits(Len(list.sorted), Lows(list, key, sought), Highs(list, key, sought))
  <1> DEFINE n == Len(list.sorted)
  <1>1. ASSUME NEW i \in 1..n, NEW j \in 1..n, i <= j, Before(sought, key[i]) PROVE Before(sought, key[j])
    BY <1>1, BeforeThose
  <1>2. ASSUME NEW i \in 1..n, NEW j \in 1..n, j <= i, Before(key[i], sought) PROVE Before(key[j], sought)
    BY <1>2, BeforeThose
  <1>3. QED
    BY <1>1, <1>2 DEF Splits, Lows, Highs

\* The search of words in order: 0 if the word is not there, or one of its places.
LEMMA SearchOfWords ==
    ASSUME NEW list, Len(list.sorted) \in Nat, NEW sought \in Word, NEW key,
           \A i \in 1..Len(list.sorted) : key[i] \in Word,
           \A i, j \in 1..Len(list.sorted) : i <= j => ~Before(key[j], key[i]),
           NEW f,
           IsSearch(f, Len(list.sorted), Lows(list, key, sought), Highs(list, key, sought))
    PROVE  LET at == f[<<0, Len(list.sorted) - 1>>]
           IN  \/ at = 0 /\ \A i \in 1..Len(list.sorted) : key[i] # sought
               \/ at \in 1..Len(list.sorted) /\ key[at] = sought
  <1> DEFINE n == Len(list.sorted)
             low == Lows(list, key, sought)
             high == Highs(list, key, sought)
             b == <<0, n - 1>>
  <1>1. b \in Bounds(n) /\ b[1] = 0 /\ b[2] = n - 1
    BY DEF Bounds
  <1>2. Found(f, b, low, high)
    BY <1>1, KeysSplit, SearchFinds
  <1>3. (b[1] + 1)..(b[2] + 1) = 1..n
    BY <1>1
  <1>4. ASSUME NEW i \in 1..n PROVE i \in low \cup high <=> key[i] # sought
    <2>1. i \in low \cup high => key[i] # sought
      BY BeforeNotSelf DEF Lows, Highs
    <2>2. key[i] # sought => i \in low \cup high
      BY BeforeTotal DEF Lows, Highs
    <2>3. QED
      BY <2>1, <2>2
  <1> HIDE DEF low, high, b, n
  <1>5. QED
    BY <1>2, <1>3, <1>4 DEF Found, b, n

LEMMA ExactFinds ==
    ASSUME NEW list, InOrder(list), NEW w, StoredName(list.mode, w) \in Word
    PROVE  LET same == {i \in Normal(list) : Name(list, i) = StoredName(list.mode, w)}
           IN  IF same = {} THEN ExactMatch(list, w) = None ELSE ExactMatch(list, w) \in same
  <1> DEFINE n == Len(list.sorted)
             sought == StoredName(list.mode, w)
             key == Names(list)
             same == {i \in Normal(list) : Name(list, i) = sought}
  <1>1. n \in Nat /\ \A i \in 1..n : key[i] = Name(list, list.sorted[i])
    BY DEF InOrder, Names, Name
  <1>2. /\ \A i \in 1..n : key[i] \in Word
        /\ \A i, j \in 1..n : i <= j => ~Before(key[j], key[i])
    BY <1>1 DEF InOrder
  <1>3. \E f : IsExact(f, list, sought)
    BY <1>1, ExactIsSearch, SearchExists
  <1>4. PICK f : /\ IsExact(f, list, sought)
                 /\ ExactMatch(list, w) = IF f[<<0, n - 1>>] = 0 THEN None ELSE list.sorted[f[<<0, n - 1>>]]
    BY <1>3, ExactMatchIs
  <1> HIDE DEF key, n
  <1>5. IsSearch(f, n, Lows(list, key, sought), Highs(list, key, sought))
    BY <1>1, <1>4, ExactIsSearch DEF n, key
  <1> DEFINE at == f[<<0, n - 1>>]
  <1>6. \/ at = 0 /\ \A i \in 1..n : key[i] # sought
        \/ at \in 1..n /\ key[at] = sought
    BY <1>1, <1>2, <1>5, SearchOfWords DEF n
  <1>7. ExactMatch(list, w) = IF at = 0 THEN None ELSE list.sorted[at]
    BY <1>4
  <1> HIDE DEF at
  <1>8. CASE at = 0
    <2>1. \A i \in 1..n : Name(list, list.sorted[i]) # sought
      BY <1>1, <1>6, <1>8
    <2>2. same = {}
      BY <2>1 DEF InOrder, n
    <2>3. QED
      BY <1>7, <1>8, <2>2
  <1>9. CASE at # 0
    <2>1. at \in 1..n /\ Name(list, list.sorted[at]) = sought
      BY <1>1, <1>6, <1>9
    <2>2. list.sorted[at] \in same
      BY <2>1 DEF InOrder, n
    <2>3. QED
      BY <1>7, <1>9, <2>2
  <1>10. QED
    BY <1>8, <1>9

\* The places of the names that begin with a word are next to each other.
LEMMA BetweenSame ==
    ASSUME NEW list, InOrder(list), NEW sought \in Word, NEW key,
           \A i \in 1..Len(list.sorted) : key[i] \in Word,
           \A i, j \in 1..Len(list.sorted) : i <= j => ~Before(key[j], key[i]),
           NEW i \in 1..Len(list.sorted), NEW j \in 1..Len(list.sorted), NEW m \in 1..Len(list.sorted),
           i <= m, m <= j, key[i] = sought, key[j] = sought
    PROVE  key[m] = sought
  <1>1. ~Before(key[m], sought) /\ ~Before(sought, key[m])
    OBVIOUS
  <1>2. QED
    BY <1>1, BeforeTotal

\* The option that is found is the only one that begins with the word, or none
\* is found.
LEMMA AbbrevFinds ==
    ASSUME NEW list, InOrder(list), NEW w, Beginning(list, w, Len(w)) \in Word,
           \A i \in Normal(list) : Beginning(list, Name(list, i), Len(w)) \in Word,
           \A i, j \in Normal(list) : Before(Name(list, i), Name(list, j)) =>
               ~Before(Beginning(list, Name(list, j), Len(w)), Beginning(list, Name(list, i), Len(w)))
    PROVE  LET match == {i \in Normal(list) : Beginning(list, Name(list, i), Len(w)) = Beginning(list, w, Len(w))}
           IN  IF Cardinality(match) = 1 THEN AbbrevMatch(list, w) \in match
               ELSE AbbrevMatch(list, w) = None
  <1> DEFINE n == Len(list.sorted)
             sought == Beginning(list, w, Len(w))
             key == [i \in 1..n |-> Beginning(list, Names(list)[i], Len(w))]
             match == {i \in Normal(list) : Beginning(list, Name(list, i), Len(w)) = sought}
  <1>1. n \in Nat /\ DOMAIN list.sorted = 1..n
    BY DEF InOrder
  <1>2. \A i \in 1..n : key[i] = Beginning(list, Name(list, list.sorted[i]), Len(w))
    BY DEF Names, Name
  <1>3. \A x \in Normal(list) : \E i \in 1..n : list.sorted[i] = x
    BY DEF InOrder
  <1>4. \A i \in 1..n : list.sorted[i] \in Normal(list)
    BY DEF InOrder
  <1>5. \A i \in 1..n : list.sorted[i] \in match <=> key[i] = sought
    BY <1>2, <1>4
  <1>6. \E f : IsAbbrev(f, list, sought, Len(w))
    BY <1>1, AbbrevIsSearch, SearchExists
  <1>7. PICK f : /\ IsAbbrev(f, list, sought, Len(w))
                 /\ LET at == f[<<0, n - 1>>]
                        Same(i) == i \in DOMAIN list.sorted /\
                             Beginning(list, list.opts[list.sorted[i]].stored, Len(w)) = Beginning(list, w, Len(w))
                    IN  AbbrevMatch(list, w) =
                            IF at = 0 \/ Same(at - 1) \/ Same(at + 1) THEN None ELSE list.sorted[at]
    BY <1>6, AbbrevMatchIs
  <1>8. IsSearch(f, n, Lows(list, key, sought), Highs(list, key, sought))
    BY <1>1, <1>7, AbbrevIsSearch
  <1>9. \A i \in 1..n : key[i] \in Word
    BY <1>2, <1>4
  <1>10. ASSUME NEW i \in 1..n, NEW j \in 1..n, i <= j PROVE ~Before(key[j], key[i])
    <2>1. ~Before(Name(list, list.sorted[j]), Name(list, list.sorted[i]))
      BY <1>10 DEF InOrder
    <2>2. \/ Before(Name(list, list.sorted[i]), Name(list, list.sorted[j]))
          \/ Name(list, list.sorted[i]) = Name(list, list.sorted[j])
      BY <1>4, <2>1, BeforeTotal DEF InOrder
    <2>3. CASE Name(list, list.sorted[i]) = Name(list, list.sorted[j])
      <3>1. key[i] = key[j] /\ key[i] \in Word
        BY <1>2, <1>9, <2>3
      <3> HIDE DEF key
      <3>2. QED
        BY <3>1, BeforeNotSelf
    <2>4. CASE Before(Name(list, list.sorted[i]), Name(list, list.sorted[j]))
      BY <1>2, <1>4, <2>4
    <2>5. QED
      BY <2>2, <2>3, <2>4
  <1> DEFINE at == f[<<0, n - 1>>]
  <1> HIDE DEF key, n
  <1>11. \/ at = 0 /\ \A i \in 1..n : key[i] # sought
         \/ at \in 1..n /\ key[at] = sought
    BY <1>1, <1>8, <1>9, <1>10, SearchOfWords DEF n
  <1>12. ASSUME NEW i PROVE
            (i \in DOMAIN list.sorted /\
             Beginning(list, list.opts[list.sorted[i]].stored, Len(w)) = Beginning(list, w, Len(w)))
            <=> (i \in 1..n /\ key[i] = sought)
    BY <1>1, <1>2 DEF Name
  <1> DEFINE Same(i) == i \in 1..n /\ key[i] = sought
  <1>13. AbbrevMatch(list, w) = IF at = 0 \/ Same(at - 1) \/ Same(at + 1) THEN None ELSE list.sorted[at]
    BY <1>7, <1>12 DEF n
  <1> HIDE DEF at, sought
  <1>14. CASE at = 0
    <2>1. \A i \in 1..n : key[i] # sought
      BY <1>1, <1>11, <1>14
    <2>2. match = {}
      BY <1>3, <1>5, <2>1
    <2>3. Cardinality(match) = 0
      BY <2>2, FS_EmptySet
    <2>4. QED
      BY <1>13, <1>14, <2>3 DEF sought
  <1>15. CASE at # 0 /\ (Same(at - 1) \/ Same(at + 1))
    <2>1. at \in 1..n /\ key[at] = sought
      BY <1>11, <1>15
    <2>2. PICK i \in {at - 1, at + 1} : Same(i)
      BY <1>15
    <2>3. list.sorted[i] \in match /\ list.sorted[at] \in match
      BY <1>5, <2>1, <2>2
    <2>4. i # at
      BY <1>1, <2>1, <2>2
    <2>5. list.sorted[i] # list.sorted[at]
      BY <2>1, <2>2, <2>4 DEF InOrder, n
    <2>6. Cardinality(match) # 1
      <3>1. IsFiniteSet(match)
        BY FS_Subset DEF InOrder
      <3> HIDE DEF match
      <3>2. ASSUME Cardinality(match) = 1 PROVE \E x : match = {x}
        BY <3>1, <3>2, FS_Singleton
      <3>3. QED
        BY <2>3, <2>5, <3>2
    <2>7. QED
      BY <1>13, <1>15, <2>6 DEF sought
  <1>16. CASE at # 0 /\ ~Same(at - 1) /\ ~Same(at + 1)
    <2>1. at \in 1..n /\ key[at] = sought
      BY <1>11, <1>16
    <2>2. ASSUME NEW i \in 1..n, key[i] = sought PROVE i = at
      <3>1. CASE i < at
        <4>1. at - 1 \in 1..n /\ i <= at - 1 /\ at - 1 <= at
          BY <1>1, <2>1, <3>1
        <4>2. key[at - 1] = sought
          BY <1>9, <1>10, <2>1, <2>2, <4>1, BetweenSame DEF n, sought
        <4>3. QED
          BY <1>16, <4>1, <4>2
      <3>2. CASE at < i
        <4>1. at + 1 \in 1..n /\ at <= at + 1 /\ at + 1 <= i
          BY <1>1, <2>1, <3>2
        <4>2. key[at + 1] = sought
          BY <1>9, <1>10, <2>1, <2>2, <4>1, BetweenSame DEF n, sought
        <4>3. QED
          BY <1>16, <4>1, <4>2
      <3>3. QED
        BY <1>1, <2>1, <3>1, <3>2
    <2>3. match = {list.sorted[at]}
      BY <1>3, <1>4, <1>5, <2>1, <2>2
    <2>4. Cardinality(match) = 1
      BY <2>3, FS_Singleton
    <2>5. QED
      BY <1>13, <1>16, <2>3, <2>4 DEF sought
  <1>17. QED
    BY <1>14, <1>15, <1>16

-----------------------------------------------------------------------------
(* The list that a program makes of its specifiers.                        *)

Entries(specs, mode) == {[spec |-> o, stored |-> StoredName(mode, o.name)] : o \in ToSet(specs)}

Lists(specs, mode) ==
    [opts : Seq(Entries(specs, mode)), sorted : {<<>>}, mode : {mode}, ok : BOOLEAN]

LEMMA AddOptionLists ==
    ASSUME NEW specs, NEW mode, NEW list \in Lists(specs, mode), NEW o \in ToSet(specs)
    PROVE  AddOption(list, o) \in Lists(specs, mode)
  <1>1. CASE ~list.ok \/ Duplicate(list, o)
    BY <1>1 DEF AddOption, Lists
  <1>2. CASE ~(~list.ok \/ Duplicate(list, o))
    <2> DEFINE e == [spec |-> o, stored |-> StoredName(list.mode, o.name)]
    <2>1. list.mode = mode /\ list.opts \in Seq(Entries(specs, mode))
      BY DEF Lists
    <2>2. e \in Entries(specs, mode)
      BY <2>1 DEF Entries
    <2>3. AddOption(list, o) = [list EXCEPT !.opts = Append(@, e)]
      BY <1>2 DEF AddOption
    <2> HIDE DEF e
    <2>4. Append(list.opts, e) \in Seq(Entries(specs, mode))
      BY <2>1, <2>2
    <2>5. QED
      BY <2>3, <2>4 DEF Lists
  <1>3. QED
    BY <1>1, <1>2

\* The specifiers of some positions, added in the order of the positions.
LastOf(s) == CHOOSE x \in s : \A y \in s : x >= y

Adding(g, specs, mode, s) ==
    IF s = {} THEN EmptyList(mode) ELSE AddOption(g[s \ {LastOf(s)}], specs[LastOf(s)])

IsAdding(g, specs, mode) ==
    g = [s \in SUBSET DOMAIN specs |-> Adding(g, specs, mode, s)]

LEMMA LastIn ==
    ASSUME NEW n \in Nat, NEW s \in SUBSET (1..n), s # {}
    PROVE  LastOf(s) \in s
  <1> DEFINE T == {n - x : x \in s}
  <1>1. T \subseteq Nat /\ T # {}
    <2>1. \A x \in s : n - x \in Nat
      OBVIOUS
    <2>2. QED
      BY <2>1
  <1>2. PICK t \in T : \A y \in T : t <= y
    <2> HIDE DEF T
    <2> QED
      BY <1>1, LeastNumber
  <1>3. PICK x \in s : t = n - x
    BY <1>2
  <1>4. \A y \in s : n - x <= n - y
    BY <1>2, <1>3
  <1>5. \A y \in s : x >= y
    BY <1>4
  <1>6. QED
    BY <1>5 DEF LastOf

\* g adds the specifiers of fewer than k positions.
AddsUpto(g, specs, mode, k) ==
    /\ g = [s \in SUBSET DOMAIN specs |-> g[s]]
    /\ \A s \in SUBSET DOMAIN specs : Cardinality(s) < k => g[s] = Adding(g, specs, mode, s)

LEMMA FiniteUpto ==
    ASSUME NEW n \in Nat, NEW s \in SUBSET (1..n)
    PROVE  IsFiniteSet(s) /\ Cardinality(s) \in Nat /\ Cardinality(s) <= n
  <1>1. IsFiniteSet(1..n) /\ Cardinality(1..n) = n
    BY FS_Interval
  <1>2. IsFiniteSet(s) /\ Cardinality(s) <= n
    BY <1>1, FS_Subset
  <1>3. QED
    BY <1>2, FS_CardinalityType

LEMMA WithoutLast ==
    ASSUME NEW n \in Nat, NEW s \in SUBSET (1..n), s # {}
    PROVE  /\ s \ {LastOf(s)} \in SUBSET (1..n)
           /\ Cardinality(s) \in Nat /\ Cardinality(s \ {LastOf(s)}) = Cardinality(s) - 1
  <1>1. IsFiniteSet(s)
    BY FiniteUpto
  <1>2. LastOf(s) \in s
    BY LastIn
  <1>3. Cardinality(s \ {LastOf(s)}) = Cardinality(s) - 1
    BY <1>1, <1>2, FS_RemoveElement
  <1>4. Cardinality(s) \in Nat
    BY <1>1, FS_CardinalityType
  <1>5. QED
    BY <1>3, <1>4

LEMMA AddsMore ==
    ASSUME NEW n \in Nat, NEW specs, DOMAIN specs = 1..n, NEW mode, NEW k \in Nat, NEW f,
           AddsUpto(f, specs, mode, k)
    PROVE  AddsUpto([s \in SUBSET DOMAIN specs |-> Adding(f, specs, mode, s)], specs, mode, k + 1)
  <1> DEFINE g == [s \in SUBSET DOMAIN specs |-> Adding(f, specs, mode, s)]
  <1>1. \A s \in SUBSET DOMAIN specs : Cardinality(s) < k => g[s] = f[s]
    BY DEF AddsUpto
  <1>2. \A s \in SUBSET DOMAIN specs : g[s] = Adding(f, specs, mode, s)
    OBVIOUS
  <1>3. g = [s \in SUBSET DOMAIN specs |-> g[s]]
    OBVIOUS
  <1> HIDE DEF g
  <1>4. ASSUME NEW s \in SUBSET DOMAIN specs, Cardinality(s) < k + 1
        PROVE  Adding(f, specs, mode, s) = Adding(g, specs, mode, s)
    <2>1. CASE s = {}
      BY <2>1 DEF Adding
    <2>2. CASE s # {}
      <3>1. /\ s \ {LastOf(s)} \in SUBSET DOMAIN specs /\ Cardinality(s \ {LastOf(s)}) < k
        BY <1>4, <2>2, WithoutLast
      <3>2. QED
        BY <1>1, <2>2, <3>1 DEF Adding
    <2>3. QED
      BY <2>1, <2>2
  <1>5. \A s \in SUBSET DOMAIN specs : Cardinality(s) < k + 1 => g[s] = Adding(g, specs, mode, s)
    BY <1>2, <1>4
  <1>6. AddsUpto(g, specs, mode, k + 1)
    BY <1>3, <1>5 DEF AddsUpto
  <1>7. QED
    BY <1>6 DEF g

LEMMA AddingExists ==
    ASSUME NEW n \in Nat, NEW specs, DOMAIN specs = 1..n, NEW mode
    PROVE  \E g : IsAdding(g, specs, mode)
  <1> DEFINE S == {k \in Nat : ~ \E g : AddsUpto(g, specs, mode, k)}
  <1>1. S = {}
    <2> SUFFICES ASSUME S # {} PROVE FALSE
      OBVIOUS
    <2>1. PICK k \in S : \A y \in S : k <= y
      <3>1. S \subseteq Nat
        OBVIOUS
      <3> HIDE DEF S
      <3>2. QED
        BY <3>1, LeastNumber
    <2>2. k \in Nat /\ ~ \E g : AddsUpto(g, specs, mode, k)
      OBVIOUS
    <2>3. CASE k = 0
      <3> DEFINE g == [s \in SUBSET DOMAIN specs |-> 0]
      <3>1. ASSUME NEW s \in SUBSET DOMAIN specs PROVE ~(Cardinality(s) < 0)
        <4>1. Cardinality(s) \in Nat
          BY FiniteUpto
        <4>2. QED
          BY <4>1
      <3>2. g = [s \in SUBSET DOMAIN specs |-> g[s]]
        OBVIOUS
      <3> HIDE DEF g
      <3>3. AddsUpto(g, specs, mode, 0)
        BY <3>1, <3>2 DEF AddsUpto
      <3>4. QED
        BY <2>2, <2>3, <3>3
    <2>4. CASE k # 0
      <3>1. k - 1 \in Nat /\ k - 1 \notin S
        BY <2>1, <2>2, <2>4
      <3>2. PICK f : AddsUpto(f, specs, mode, k - 1)
        BY <3>1
      <3>3. (k - 1) + 1 = k
        BY <3>1
      <3> HIDE DEF S
      <3>4. \E g : AddsUpto(g, specs, mode, (k - 1) + 1)
        BY <3>1, <3>2, AddsMore
      <3>5. QED
        BY <2>2, <3>3, <3>4
    <2>5. QED
      BY <2>3, <2>4
  <1>2. PICK g : AddsUpto(g, specs, mode, n + 1)
    BY <1>1
  <1>3. ASSUME NEW s \in SUBSET DOMAIN specs PROVE Cardinality(s) < n + 1
    <2>1. Cardinality(s) \in Nat /\ Cardinality(s) <= n
      BY FiniteUpto
    <2>2. QED
      BY <2>1
  <1>4. \A s \in SUBSET DOMAIN specs : g[s] = Adding(g, specs, mode, s)
    BY <1>2, <1>3 DEF AddsUpto
  <1>5. g = [s \in SUBSET DOMAIN specs |-> g[s]]
    BY <1>2 DEF AddsUpto
  <1>6. [s \in SUBSET DOMAIN specs |-> g[s]] = [s \in SUBSET DOMAIN specs |-> Adding(g, specs, mode, s)]
    BY <1>4
  <1>7. QED
    BY <1>5, <1>6 DEF IsAdding

LEMMA FoldIs ==
    ASSUME NEW specs, NEW mode, \E g : IsAdding(g, specs, mode)
    PROVE  \E g : IsAdding(g, specs, mode)
                  /\ FoldLeft(AddOption, EmptyList(mode), specs) = g[DOMAIN specs]
  BY DEF IsAdding, Adding, LastOf, FoldLeft, MapThenFoldSet, Max

LEMMA FoldLists ==
    ASSUME NEW specs, specs \in Seq(ToSet(specs)), NEW mode
    PROVE  FoldLeft(AddOption, EmptyList(mode), specs) \in Lists(specs, mode)
  <1>1. PICK n \in Nat : DOMAIN specs = 1..n
    <2>1. Len(specs) \in Nat /\ DOMAIN specs = 1..Len(specs)
      OBVIOUS
    <2>2. QED
      BY <2>1
  <1>2. PICK g : /\ IsAdding(g, specs, mode)
                 /\ FoldLeft(AddOption, EmptyList(mode), specs) = g[DOMAIN specs]
    BY <1>1, AddingExists, FoldIs
  <1>3. \A s \in SUBSET DOMAIN specs : g[s] = Adding(g, specs, mode, s)
    <2> DEFINE h == [s \in SUBSET DOMAIN specs |-> Adding(g, specs, mode, s)]
    <2>1. g = h
      BY <1>2 DEF IsAdding
    <2>2. \A s \in SUBSET DOMAIN specs : h[s] = Adding(g, specs, mode, s)
      OBVIOUS
    <2> HIDE DEF h
    <2>3. QED
      BY <2>1, <2>2
  <1> DEFINE F == {s \in SUBSET DOMAIN specs : g[s] \notin Lists(specs, mode)}
  <1>4. F = {}
    <2> SUFFICES ASSUME F # {} PROVE FALSE
      OBVIOUS
    <2>1. F \subseteq SUBSET DOMAIN specs /\ IsFiniteSet(DOMAIN specs)
      BY <1>1, FS_Interval
    <2>2. PICK s \in F : \A t \in F : t \subseteq s => t = s
      <3> HIDE DEF F
      <3> QED
        BY <2>1, SmallestSubset
    <2>3. s \in SUBSET DOMAIN specs /\ g[s] = Adding(g, specs, mode, s) /\ g[s] \notin Lists(specs, mode)
      BY <1>3
    <2>4. CASE s = {}
      <3>1. EmptyList(mode) \in Lists(specs, mode)
        BY DEF EmptyList, Lists
      <3>2. QED
        BY <2>3, <2>4, <3>1 DEF Adding
    <2>5. CASE s # {}
      <3>1. LastOf(s) \in s
        BY <1>1, <2>3, <2>5, LastIn
      <3>2. g[s \ {LastOf(s)}] \in Lists(specs, mode)
        BY <2>2, <2>3, <3>1
      <3>3. specs[LastOf(s)] \in ToSet(specs)
        BY <2>3, <3>1 DEF ToSet
      <3>4. QED
        BY <2>3, <2>5, <3>2, <3>3, AddOptionLists DEF Adding
    <2>6. QED
      BY <2>4, <2>5
  <1>5. DOMAIN specs \in SUBSET DOMAIN specs /\ DOMAIN specs \notin F
    BY <1>4
  <1>6. QED
    BY <1>2, <1>5

-----------------------------------------------------------------------------
(* Words in lower case.                                                    *)

Lowered(w) == \A i \in DOMAIN w : w[i] \notin DOMAIN Lower

LEMMA LowCaseIs ==
    ASSUME NEW w \in Word
    PROVE  /\ LowCase(w) \in Word /\ Len(LowCase(w)) = Len(w)
           /\ Lowered(LowCase(w))
           /\ Lowered(w) => LowCase(w) = w
  <1>1. Len(w) \in Nat /\ DOMAIN w = 1..Len(w) /\ \A i \in 1..Len(w) : w[i] \in Tokens
    BY DEF Word
  <1> DEFINE low == LowCase(w)
  <1>2. \A i \in 1..Len(w) : low[i] \in Tokens /\ low[i] \notin DOMAIN Lower
    BY <1>1, GetoptAssumption DEF LowCase
  <1>3. DOMAIN low = 1..Len(w) /\ low = [i \in 1..Len(w) |-> low[i]]
    BY <1>1 DEF LowCase
  <1>4. ASSUME Lowered(w) PROVE low = w
    <2>1. \A i \in 1..Len(w) : low[i] = w[i]
      BY <1>1, <1>4 DEF LowCase, Lowered
    <2>2. w = [i \in 1..Len(w) |-> w[i]]
      BY <1>1 DEF Word
    <2> HIDE DEF low
    <2>3. QED
      BY <1>3, <2>1, <2>2
  <1> HIDE DEF low
  <1>5. low \in Seq(Tokens)
    BY <1>1, <1>2, <1>3, SeqDef
  <1>6. Len(low) = Len(w)
    BY <1>1, <1>3, <1>5
  <1>7. Lowered(low)
    BY <1>2, <1>3 DEF Lowered
  <1>8. QED
    BY <1>4, <1>5, <1>6, <1>7 DEF low, Word

LEMMA StoredIsWord ==
    ASSUME NEW mode, NEW w \in Word
    PROVE  StoredName(mode, w) \in Word /\ Len(StoredName(mode, w)) = Len(w)
  BY LowCaseIs DEF StoredName

\* What a word begins with, and what a name in lower case does.
LEMMA BeginningIs ==
    ASSUME NEW list, NEW w \in Word, NEW k \in Nat
    PROVE  /\ Beginning(list, w, k) \in Word
           /\ Len(Beginning(list, w, k)) = IF k < Len(w) THEN k ELSE Len(w)
           /\ CaseSensitive(list) \/ Lowered(w) => Beginning(list, w, k) = Cut(w, k)
  <1>1. Beginning(list, w, k) = IF CaseSensitive(list) THEN Cut(w, k) ELSE LowCase(Cut(w, k))
    BY DEF Beginning, Cut
  <1>2. /\ Cut(w, k) \in Word /\ Len(Cut(w, k)) = IF k < Len(w) THEN k ELSE Len(w)
        /\ \A i \in 1..Len(Cut(w, k)) : Cut(w, k)[i] = w[i]
    BY CutIs
  <1>3. LowCase(Cut(w, k)) \in Word /\ Len(LowCase(Cut(w, k))) = Len(Cut(w, k))
    BY <1>2, LowCaseIs
  <1>4. ASSUME Lowered(w) PROVE Lowered(Cut(w, k))
    <2>1. \A i \in 1..Len(Cut(w, k)) : i \in DOMAIN w
      BY <1>2 DEF Word
    <2>2. DOMAIN Cut(w, k) = 1..Len(Cut(w, k))
      BY <1>2 DEF Word
    <2>3. QED
      BY <1>2, <1>4, <2>1, <2>2 DEF Lowered
  <1>5. Lowered(w) => LowCase(Cut(w, k)) = Cut(w, k)
    BY <1>2, <1>4, LowCaseIs
  <1>6. QED
    BY <1>1, <1>2, <1>3, <1>5

\* A name as it is stored is in lower case, but for one of a single capital.
LEMMA StoredLowered ==
    ASSUME NEW list, ~CaseSensitive(list), NEW w \in Word, NEW e, e.stored = StoredName(list.mode, w),
           ~OneCapital(e)
    PROVE  Lowered(e.stored)
  <1>1. CASE IsChar(w)
    <2>1. e.stored = w
      BY <1>1 DEF StoredName
    <2>2. w[1] \notin DOMAIN Lower /\ Len(w) = 1
      BY <1>1, <2>1 DEF OneCapital, IsChar
    <2>3. DOMAIN w = {1}
      BY <2>2 DEF Word
    <2>4. QED
      BY <2>1, <2>2, <2>3 DEF Lowered
  <1>2. CASE ~IsChar(w)
    BY <1>2, LowCaseIs DEF StoredName, CaseSensitive
  <1>3. QED
    BY <1>1, <1>2

-----------------------------------------------------------------------------
(* MakeSorted puts the options in order.                                   *)

Less(list, i, j) ==
    \/ Before(Name(list, i), Name(list, j))
    \/ Name(list, i) = Name(list, j) /\ i < j

LessPairs(list) == {q \in Normal(list) \X Normal(list) : Less(list, q[1], q[2])}

LEMMA LessOrders ==
    ASSUME NEW list, \A i \in Normal(list) : Name(list, i) \in Word /\ i \in Nat
    PROVE  Orders(LessPairs(list), Normal(list))
  <1> DEFINE N == Normal(list)
  <1>1. \A i, j \in N : <<i, j>> \in LessPairs(list) <=> Less(list, i, j)
    BY DEF LessPairs
  <1>2. \A i \in N : ~Less(list, i, i)
    BY BeforeNotSelf DEF Less
  <1>3. ASSUME NEW i \in N, NEW j \in N, NEW m \in N, Less(list, i, j), Less(list, j, m)
        PROVE  Less(list, i, m)
    BY <1>3, BeforeTransitive DEF Less
  <1>4. ASSUME NEW i \in N, NEW j \in N, i # j PROVE Less(list, i, j) \/ Less(list, j, i)
    <2>1. i < j \/ j < i
      BY <1>4
    <2>2. QED
      BY <2>1, BeforeTotal DEF Less
  <1>5. QED
    BY <1>1, <1>2, <1>3, <1>4 DEF Orders

LEMMA SortedIs ==
    ASSUME NEW list, IsFiniteSet(Normal(list)),
           \A i \in Normal(list) : Name(list, i) \in Word /\ i \in Nat
    PROVE  \E place : /\ Cardinality(Normal(list)) \in Nat
                      /\ MakeSorted(list) = [list EXCEPT !.sorted =
                            [k \in 1..Cardinality(Normal(list)) |-> CHOOSE i \in Normal(list) : place[i] = k]]
                      /\ \A i \in Normal(list) : place[i] \in 1..Cardinality(Normal(list))
                      /\ \A i, j \in Normal(list) : Less(list, i, j) <=> place[i] < place[j]
                      /\ \A k \in 1..Cardinality(Normal(list)) : \E i \in Normal(list) : place[i] = k
  <1> DEFINE N == Normal(list)
             R == LessPairs(list)
             place == [i \in N |-> Cardinality({j \in N : Less(list, j, i)}) + 1]
             f == [i \in N |-> Cardinality({j \in N : <<j, i>> \in R}) + 1]
  <1>1. \A i, j \in N : <<i, j>> \in R <=> Less(list, i, j)
    BY DEF LessPairs
  <1>2. \A i \in N : {j \in N : <<j, i>> \in R} = {j \in N : Less(list, j, i)}
    BY <1>1
  <1>3. place = f
    BY <1>2
  <1>4. MakeSorted(list) = [list EXCEPT !.sorted = [k \in 1..Cardinality(N) |-> CHOOSE i \in N : place[i] = k]]
    BY DEF MakeSorted, Less, Normal, Name
  <1>5. Orders(R, N)
    BY LessOrders
  <1> HIDE DEF R, N
  <1>6. /\ Cardinality(N) \in Nat
        /\ \A i \in N : f[i] \in 1..Cardinality(N)
        /\ \A i, j \in N : <<i, j>> \in R <=> f[i] < f[j]
        /\ \A k \in 1..Cardinality(N) : \E i \in N : f[i] = k
    <2>1. IsFiniteSet(N) /\ f = [i \in N |-> Cardinality({j \in N : <<j, i>> \in R}) + 1]
      BY DEF N
    <2> HIDE DEF f
    <2>2. QED
      BY <1>5, <2>1, Places
  <1>7. /\ \A i \in N : place[i] \in 1..Cardinality(N)
        /\ \A i, j \in N : Less(list, i, j) <=> place[i] < place[j]
        /\ \A k \in 1..Cardinality(N) : \E i \in N : place[i] = k
    <2> HIDE DEF f, place
    <2>1. QED
      BY <1>1, <1>3, <1>6
  <1> HIDE DEF f, place
  <1> USE DEF N
  <1>8. QED
    BY <1>4, <1>6, <1>7

LEMMA SortedInOrder ==
    ASSUME NEW list, {"opts", "sorted", "mode"} \subseteq DOMAIN list, IsFiniteSet(Normal(list)),
           \A i \in Normal(list) : Name(list, i) \in Word /\ i \in Nat \ {0}
    PROVE  /\ MakeSorted(list).opts = list.opts /\ MakeSorted(list).mode = list.mode
           /\ InOrder(MakeSorted(list))
  <1> DEFINE N == Normal(list)
             n == Cardinality(N)
             new == MakeSorted(list)
  <1>1. PICK place : /\ n \in Nat
                     /\ new = [list EXCEPT !.sorted = [k \in 1..n |-> CHOOSE i \in N : place[i] = k]]
                     /\ \A i \in N : place[i] \in 1..n
                     /\ \A i, j \in N : Less(list, i, j) <=> place[i] < place[j]
                     /\ \A k \in 1..n : \E i \in N : place[i] = k
    BY SortedIs
  <1> HIDE DEF n, new
  <1>2. new.opts = list.opts /\ new.mode = list.mode
    BY <1>1
  <1>3. new.sorted = [k \in 1..n |-> CHOOSE i \in N : place[i] = k]
    BY <1>1
  <1>4. Normal(new) = N /\ \A i \in N : Name(new, i) = Name(list, i)
    BY <1>2 DEF Normal, Name
  <1>5. ASSUME NEW k \in 1..n PROVE new.sorted[k] \in N /\ place[new.sorted[k]] = k
    BY <1>1, <1>3
  <1>6. new.sorted \in Seq(N) /\ Len(new.sorted) = n /\ DOMAIN new.sorted = 1..n
    <2>1. n \in Nat
      BY <1>1
    <2>2. new.sorted \in [1..n -> N]
      BY <1>3, <1>5
    <2> HIDE DEF N
    <2>3. QED
      BY <2>1, <2>2, SeqDef
  <1>7. ASSUME NEW i \in N, NEW j \in N, place[i] = place[j] PROVE i = j
    <2>1. ~Less(list, i, j) /\ ~Less(list, j, i)
      <3>1. place[i] \in Nat /\ place[j] \in Nat
        BY <1>1
      <3>2. ~(place[i] < place[j]) /\ ~(place[j] < place[i])
        BY <1>7, <3>1
      <3>3. QED
        BY <1>1, <3>2
    <2>2. <<i, j>> \notin LessPairs(list) /\ <<j, i>> \notin LessPairs(list)
      BY <2>1 DEF LessPairs
    <2>3. Orders(LessPairs(list), N)
      BY LessOrders
    <2>4. QED
      BY <2>2, <2>3 DEF Orders
  <1>8. \A x \in N : \E i \in 1..n : new.sorted[i] = x
    BY <1>1, <1>5, <1>7
  <1>9. \A i, j \in 1..n : new.sorted[i] = new.sorted[j] => i = j
    BY <1>5
  <1>10. ASSUME NEW i \in 1..n, NEW j \in 1..n, i <= j
         PROVE  ~Before(Name(list, new.sorted[j]), Name(list, new.sorted[i]))
    <2>1. ~(place[new.sorted[j]] < place[new.sorted[i]])
      BY <1>5, <1>10
    <2>2. QED
      BY <1>1, <1>5, <2>1 DEF Less
  <1>11. InOrder(new)
    <2>1. \A i \in N : Name(new, i) \in Word /\ i # None
      BY <1>4 DEF None
    <2>2. n \in Nat /\ Len(new.sorted) = n /\ DOMAIN new.sorted = 1..n /\ IsFiniteSet(N)
      BY <1>1, <1>6
    <2>3. \A i, j \in 1..n : i <= j => ~Before(Name(new, new.sorted[j]), Name(new, new.sorted[i]))
      BY <1>4, <1>5, <1>10
    <2> HIDE DEF N
    <2>4. QED
      BY <1>4, <1>5, <1>8, <1>9, <2>1, <2>2, <2>3 DEF InOrder
  <1>12. QED
    BY <1>2, <1>11 DEF new

LEMMA AddedInOrder ==
    ASSUME NEW specs, specs \in Seq(ToSet(specs)), NEW mode,
           \A o \in ToSet(specs) : o.type \in Specials \/ o.name \in Word
    PROVE  LET list == AddOptions(specs, mode)
           IN  /\ InOrder(list)
               /\ \A i \in Normal(list) : \E w \in Word : Name(list, i) = StoredName(list.mode, w)
  <1> DEFINE base == FoldLeft(AddOption, EmptyList(mode), specs)
             list == MakeSorted(base)
  <1>1. base \in Lists(specs, mode)
    BY FoldLists
  <1>2. list = AddOptions(specs, mode)
    BY DEF AddOptions
  <1> HIDE DEF base
  <1>3. base.opts \in Seq(Entries(specs, mode)) /\ base.mode = mode
        /\ {"opts", "sorted", "mode"} \subseteq DOMAIN base
    BY <1>1 DEF Lists
  <1>4. PICK n \in Nat : DOMAIN base.opts = 1..n
    <2>1. Len(base.opts) \in Nat /\ DOMAIN base.opts = 1..Len(base.opts)
      BY <1>3
    <2>2. QED
      BY <2>1
  <1>5. ASSUME NEW i \in Normal(base)
        PROVE  \E w \in Word : Name(base, i) = StoredName(mode, w)
    <2>1. i \in DOMAIN base.opts /\ base.opts[i].spec.type \notin Specials
      BY DEF Normal, IsSpecial
    <2>2. base.opts[i] \in Entries(specs, mode)
      BY <1>3, <2>1
    <2>3. PICK o \in ToSet(specs) : base.opts[i] = [spec |-> o, stored |-> StoredName(mode, o.name)]
      BY <2>2 DEF Entries
    <2>4. o.name \in Word /\ Name(base, i) = StoredName(mode, o.name)
      BY <2>1, <2>3 DEF Name
    <2>5. QED
      BY <2>4
  <1>6. Normal(base) \in SUBSET (1..n)
    BY <1>4 DEF Normal
  <1>7. IsFiniteSet(Normal(base))
    BY <1>6, FiniteUpto
  <1>8. \A i \in Normal(base) : Name(base, i) \in Word /\ i \in Nat \ {0}
    BY <1>5, <1>6, StoredIsWord
  <1>9. /\ list.opts = base.opts /\ list.mode = base.mode /\ InOrder(list)
    BY <1>3, <1>7, <1>8, SortedInOrder
  <1> HIDE DEF list
  <1>10. Normal(list) = Normal(base) /\ \A i : Name(list, i) = Name(base, i)
    BY <1>9 DEF Normal, Name
  <1>11. QED
    BY <1>2, <1>3, <1>5, <1>9, <1>10

-----------------------------------------------------------------------------
(* What the parser finds is what a scan of the program's options finds.    *)

\* The options that are searched are those of the program that runs.
OptionsAdded ==
    /\ input \in Inputs
    /\ Getopt /\ (At("args") \/ At("connstr")) => ol = AddOptions(Program.specs, Program.mode) /\ ol.ok

LEMMA OptionsAddedInductive ==
    /\ BenchInit => OptionsAdded
    /\ Parsing /\ OptionsAdded /\ [BenchNext]_benchVars => OptionsAdded'
  <1>1. BenchInit => OptionsAdded
    <2> SUFFICES ASSUME BenchInit PROVE OptionsAdded
      OBVIOUS
    <2>1. Getopt => st.place = "options"
      BY DEF BenchInit, Init, Start
    <2>2. QED
      BY <2>1 DEF BenchInit, Init, OptionsAdded, At
  <1>2. ASSUME Parsing, OptionsAdded, [BenchNext]_benchVars PROVE OptionsAdded'
    <2> USE <1>2
    <2>1. ASSUME Next PROVE OptionsAdded'
      <3>1. CASE Over
        BY <3>1 DEF Over, vars, OptionsAdded, Getopt, At, Program
      <3>2. CASE GetOptions
        <4>1. CASE ol'.ok
          BY <3>2, <4>1 DEF GetOptions, OptionsAdded, Program
        <4>2. CASE ~ol'.ok
          <5>1. st'.place = "refused"
            <6>1. "place" \in DOMAIN Say(st)
              BY DEF Say, Parsing
            <6>2. QED
              BY <3>2, <4>2, <6>1 DEF GetOptions
          <5>2. QED
            BY <3>2, <5>1 DEF GetOptions, OptionsAdded, At
        <4>3. QED
          BY <4>1, <4>2
      <3>3. CASE ParseArgs
        BY <3>3 DEF ParseArgs, OptionsAdded, Getopt, At, Program
      <3>4. CASE Connstr \/ CheckOptions
        <4>1. Getopt /\ UNCHANGED <<input, ol>>
          BY <3>4 DEF Connstr, CheckOptions, At, Parsing, GsPlaces
        <4>2. st'.place \notin {"args", "connstr"}
          <5>1. CASE Connstr
            <6>1. st' = Finish(st, input.argv, ol, input.env) /\ st.place = "connstr"
              BY <5>1 DEF Connstr, At
            <6>2. QED
              BY <4>1, <6>1, FinishPlace DEF Parsing
          <5>2. CASE CheckOptions
            BY <5>2 DEF CheckOptions, ConnectAs, At, Parsing
          <5>3. QED
            BY <3>4, <5>1, <5>2
        <4>3. QED
          BY <4>1, <4>2 DEF OptionsAdded, At
      <3>5. CASE GsParseArgs \/ GsPassword \/ GsOpenLog
        <4>1. ~Getopt /\ UNCHANGED <<input, ol>>
          BY <3>5 DEF GsParseArgs, GsPassword, GsOpenLog, At, Parsing, GetoptPlaces
        <4>2. QED
          BY <4>1 DEF OptionsAdded, Getopt
      <3>6. QED
        BY <2>1, <3>1, <3>2, <3>3, <3>4, <3>5 DEF Next
    <2>2. ASSUME UNCHANGED <<input, ol, st>> PROVE OptionsAdded'
      BY <2>2 DEF OptionsAdded, Getopt, At, Program
    <2>3. ASSUME Again PROVE OptionsAdded'
      <3>1. input' \in Inputs
        BY <2>3, BenchAssumption DEF Again
      <3>2. st'.place = "options"
        BY <2>3 DEF Again, Start
      <3>3. QED
        BY <3>1, <3>2 DEF OptionsAdded, At
    <2>4. QED
      BY <2>1, <2>2, <2>3 DEF BenchNext, benchVars
  <1>3. QED
    BY <1>1, <1>2

LEMMA OptionsFound ==
    ASSUME OptionsAdded
    PROVE  FindsTheOption
  <1>1. SUFFICES ASSUME Getopt, At("args"), NEW u \in Words, Dash(u)
                 PROVE  LET w       == Rest(u, 1)
                            normal  == {i \in DOMAIN ol.opts : ~IsSpecial(ol.opts[i])}
                            name(i) == ol.opts[i].stored
                            same    == {i \in normal : name(i) = StoredName(ol.mode, w)}
                            longer  == {i \in normal : Len(name(i)) >= Len(w) /\
                                            Beginning(ol, name(i), Len(w)) = Beginning(ol, w, Len(w))}
                        IN  /\ IF same = {} THEN ExactMatch(ol, w) = None ELSE ExactMatch(ol, w) \in same
                            /\ "abbrev" \in ol.mode /\ (\A i \in normal : ~OneCapital(ol.opts[i])) =>
                                   IF Cardinality(longer) = 1 THEN AbbrevMatch(ol, w) \in longer
                                   ELSE AbbrevMatch(ol, w) = None
    BY DEF FindsTheOption
  <1> DEFINE w == Rest(u, 1)
             N == Normal(ol)
             Match == {i \in N : Beginning(ol, Name(ol, i), Len(w)) = Beginning(ol, w, Len(w))}
             Longer == {i \in N : Len(Name(ol, i)) >= Len(w) /\
                            Beginning(ol, Name(ol, i), Len(w)) = Beginning(ol, w, Len(w))}
  <1>2. w \in Word /\ Len(w) \in Nat
    <2>1. u \in Word
      <3>1. input.argv \in Seq(Seq(Tokens))
        BY <1>1, WordsAssumption DEF OptionsAdded, Getopt
      <3>2. PICK i \in DOMAIN input.argv : u = input.argv[i]
        BY <1>1 DEF Words, ToSet
      <3>3. QED
        BY <3>1, <3>2 DEF Word
    <2>2. Len(u) \in Nat /\ 1 < Len(u) /\ \A i \in 1..Len(u) : u[i] \in Tokens
      BY <1>1, <2>1 DEF Dash, Word
    <2>3. SubSeq(u, 2, Len(u)) \in Seq(Tokens)
      BY <2>2, SubSeqProperties
    <2>4. w = SubSeq(u, 2, Len(u))
      BY DEF Rest
    <2> HIDE DEF w
    <2>5. QED
      BY <2>3, <2>4 DEF Word
  <1> HIDE DEF w
  <1>3. /\ InOrder(ol)
        /\ \A i \in N : \E x \in Word : Name(ol, i) = StoredName(ol.mode, x)
    <2>1. LET specs == Program.specs
          IN  /\ specs \in Seq(ToSet(specs))
              /\ \A o \in ToSet(specs) : o.type \in Specials \/ o.name \in Word
      BY <1>1, WordsAssumption DEF Getopt, Program, Word
    <2>2. ol = AddOptions(Program.specs, Program.mode)
      BY <1>1 DEF OptionsAdded
    <2>3. QED
      BY <2>1, <2>2, AddedInOrder
  <1>4. \A i \in N : Name(ol, i) \in Word
    BY <1>3, StoredIsWord
  <1>5. LET same == {i \in N : Name(ol, i) = StoredName(ol.mode, w)}
        IN  IF same = {} THEN ExactMatch(ol, w) = None ELSE ExactMatch(ol, w) \in same
    <2>1. StoredName(ol.mode, w) \in Word
      BY <1>2, StoredIsWord
    <2> HIDE DEF N
    <2>2. QED
      BY <1>3, <2>1, ExactFinds DEF N
  <1>6. ASSUME \A i \in N : ~OneCapital(ol.opts[i])
        PROVE  IF Cardinality(Match) = 1 THEN AbbrevMatch(ol, w) \in Match ELSE AbbrevMatch(ol, w) = None
    <2>1. Beginning(ol, w, Len(w)) \in Word
      BY <1>2, BeginningIs
    <2>2. \A i \in N : Beginning(ol, Name(ol, i), Len(w)) \in Word
      BY <1>2, <1>4, BeginningIs
    <2>3. ASSUME NEW i \in N PROVE Beginning(ol, Name(ol, i), Len(w)) = Cut(Name(ol, i), Len(w))
      <3>1. PICK x \in Word : ol.opts[i].stored = StoredName(ol.mode, x)
        BY <1>3 DEF Name
      <3>2. ~CaseSensitive(ol) => Lowered(ol.opts[i].stored)
        BY <1>6, <3>1, StoredLowered
      <3>3. QED
        BY <1>2, <1>4, <3>2, BeginningIs DEF Name
    <2>4. ASSUME NEW i \in N, NEW j \in N, Before(Name(ol, i), Name(ol, j))
          PROVE  ~Before(Beginning(ol, Name(ol, j), Len(w)), Beginning(ol, Name(ol, i), Len(w)))
      BY <1>2, <1>4, <2>3, <2>4, CutInOrder
    <2>5. QED
      BY <1>3, <2>1, <2>2, <2>4, AbbrevFinds
  <1>7. Match = Longer
    <2>1. ASSUME NEW i \in N, Beginning(ol, Name(ol, i), Len(w)) = Beginning(ol, w, Len(w))
          PROVE  Len(Name(ol, i)) >= Len(w)
      <3>1. Len(Beginning(ol, w, Len(w))) = Len(w)
        BY <1>2, BeginningIs
      <3>2. Len(Beginning(ol, Name(ol, i), Len(w))) = IF Len(w) < Len(Name(ol, i)) THEN Len(w) ELSE Len(Name(ol, i))
        BY <1>2, <1>4, BeginningIs
      <3>3. Len(Name(ol, i)) \in Nat
        BY <1>4 DEF Word
      <3>4. QED
        BY <1>2, <2>1, <3>1, <3>2, <3>3
    <2>2. QED
      BY <2>1
  <1>8. QED
    BY <1>5, <1>6, <1>7 DEF Normal, Name, w

\* The binary searches of ttgetopt.c find what a scan of the options would,
\* for all specifiers and command lines: an option of the name that is given,
\* and with TTC_OPT_ABBREV the only one that begins with it.
THEOREM FindsTheOptionSafe == BenchSpec => []FindsTheOption
  BY ParsingInductive, OptionsAddedInductive, OptionsFound, PTL DEF BenchSpec

-----------------------------------------------------------------------------
(* What a program connects with is what its command line tells it.         *)

Held == {"dsn", "connstr"}
ConnNames == {<<"d", "s", "n">>, <<"c", "onnstr">>}

IsParse(s) ==
    /\ {"idx", "values", "msgs", "seen", "nerrs", "gotDsn", "ok", "place"} \subseteq DOMAIN s
    /\ Held \subseteq DOMAIN s.values /\ s.idx \in Nat \ {0} /\ s.nerrs \in Nat

\* What the handlers of other options leave as it was.
Rests(s, t) ==
    /\ DOMAIN t = DOMAIN s /\ DOMAIN t.values = DOMAIN s.values
    /\ \A d \in Held : t.values[d] = s.values[d]
    /\ t.gotDsn = s.gotDsn /\ t.nerrs = s.nerrs
Same(s, t) == Rests(s, t) /\ t.idx = s.idx
Kept(s, t, argv) == Rests(s, t) /\ (t.idx = s.idx \/ (t.idx = s.idx + 1 /\ s.idx <= Len(argv)))

LEMMA SameTrans ==
    ASSUME NEW s, NEW t, NEW u, NEW argv, IsParse(s), Same(s, t)
    PROVE  /\ IsParse(t) /\ Kept(s, t, argv)
           /\ Same(t, u) => Same(s, u)
           /\ Kept(t, u, argv) => Kept(s, u, argv)
  BY DEF Same, Kept, Rests, IsParse

LEMMA SmallSame ==
    ASSUME NEW s, IsParse(s)
    PROVE  /\ Same(s, s) /\ Same(s, Say(s)) /\ Same(s, Fail(s)) /\ Same(s, OptError(s)) /\ Same(s, Succeed(s))
           /\ ~Fail(s).ok /\ ~OptError(s).ok /\ Succeed(s).ok
  BY DEF Same, Rests, IsParse, Say, Fail, OptError, Succeed

LEMMA StoredSame ==
    ASSUME NEW s, IsParse(s), NEW o, o.dest \notin Held, NEW x
    PROVE  Same(s, Store(s, o, x)) /\ Store(s, o, x).ok
  BY DEF Same, Rests, IsParse, Store, Succeed

LEMMA SkippedKept ==
    ASSUME NEW s, IsParse(s), NEW argv, Len(argv) \in Nat, NEW o, o.dest \notin Held, NEW x, NEW inline,
           ~(Missing(s, argv) /\ inline = NoArg)
    PROVE  Kept(s, Skip(Store(s, o, x), Taken(inline)), argv)
  <1>1. IsParse(Store(s, o, x)) /\ Same(s, Store(s, o, x))
    BY StoredSame, SameTrans
  <1>2. Kept(Store(s, o, x), Skip(Store(s, o, x), Taken(inline)), argv)
    <2>1. Store(s, o, x).idx = s.idx
      BY <1>1 DEF Same
    <2>2. Taken(inline) = 0 \/ (Taken(inline) = 1 /\ s.idx <= Len(argv))
      BY DEF Taken, Missing, IsParse
    <2>3. QED
      BY <1>1, <2>1, <2>2 DEF Kept, Rests, Skip, IsParse
  <1>3. QED
    BY <1>1, <1>2, SameTrans

\* The options of the samples other than the special ones.
PlainTypes == {"flag", "!", "i", "s"}

LEMMA HandlerKept ==
    ASSUME NEW s, IsParse(s), NEW argv, Len(argv) \in Nat, NEW L, NEW o, o.type \in PlainTypes,
           o.dest \notin Held, NEW invert, NEW inline
    PROVE  Kept(s, HandleOption(s, argv, L, o, invert, inline), argv)
  <1>1. Kept(s, OptError(s), argv) /\ \A x : Kept(s, Store(s, o, x), argv)
    BY SmallSame, StoredSame, SameTrans
  <1>2. Kept(s, GetNumericArg(s, argv, o, inline), argv)
    <2>1. Kept(s, [s EXCEPT !.place = "crash"], argv)
      BY DEF Kept, Rests, IsParse
    <2>2. QED
      BY <1>1, <2>1, SkippedKept DEF GetNumericArg
  <1>3. Kept(s, CopyStrArg(s, argv, o, inline), argv)
    BY <1>1, SkippedKept DEF CopyStrArg
  <1>4. CASE o.type = "flag"
    <2>1. HandleOption(s, argv, L, o, invert, inline) = Store(s, o, 1)
      BY <1>4, Zenon DEF HandleOption
    <2>2. QED
      BY <1>1, <2>1
  <1>5. CASE o.type = "!"
    <2>1. HandleOption(s, argv, L, o, invert, inline) = Store(s, o, IF invert THEN 0 ELSE 1)
      BY <1>5, Zenon DEF HandleOption
    <2>2. QED
      BY <1>1, <2>1
  <1>6. CASE o.type = "i"
    <2>1. HandleOption(s, argv, L, o, invert, inline) = GetNumericArg(s, argv, o, inline)
      BY <1>6, Zenon DEF HandleOption
    <2>2. QED
      BY <1>2, <2>1
  <1>7. CASE o.type = "s"
    <2>1. HandleOption(s, argv, L, o, invert, inline) = CopyStrArg(s, argv, o, inline)
      BY <1>7, Zenon DEF HandleOption
    <2>2. QED
      BY <1>3, <2>1
  <1>8. QED
    BY <1>4, <1>5, <1>6, <1>7 DEF PlainTypes

\* An option that has nothing to do with the connection.
Plain(e) ==
    /\ e.spec.type \in PlainTypes /\ e.spec.dest \notin Held
    /\ LowCase(e.stored) \notin ConnNames
    /\ e.spec.type \in {"flag", "s"} => LowCase(e.stored) \notin {<<"d">>, <<"c">>}

\* The list of a program that connects.
ConnectList(list) ==
    /\ list.mode = {"noConnstrOk"} /\ InOrder(list)
    /\ \A i \in DOMAIN list.opts :
           /\ i \in Nat \ {0}
           /\ \/ list.opts[i].spec.type \in {"<HELP>", "<VERSION>"}
              \/ list.opts[i].spec.type = "<DSN>" /\ list.opts[i].spec.dest = "dsn"
              \/ list.opts[i].spec.type = "<CONNSTR>" /\ list.opts[i].spec.dest = "connstr"
              \/ Plain(list.opts[i])
    /\ HasSpecial(list, "<DSN>") /\ HasSpecial(list, "<CONNSTR>")

\* A list that is in order has all the specifiers.
LEMMA FoldComplete ==
    ASSUME NEW specs, specs \in Seq(ToSet(specs)), NEW mode
    PROVE  LET list == FoldLeft(AddOption, EmptyList(mode), specs)
           IN  list.ok => \A o \in ToSet(specs) : \E j \in DOMAIN list.opts : list.opts[j].spec = o
  <1> DEFINE Has(list, s) == list.ok => \A i \in s : \E j \in DOMAIN list.opts : list.opts[j].spec = specs[i]
  <1>1. PICK n \in Nat : DOMAIN specs = 1..n
    <2>1. Len(specs) \in Nat /\ DOMAIN specs = 1..Len(specs)
      OBVIOUS
    <2>2. QED
      BY <2>1
  <1>2. PICK g : /\ IsAdding(g, specs, mode)
                 /\ FoldLeft(AddOption, EmptyList(mode), specs) = g[DOMAIN specs]
    BY <1>1, AddingExists, FoldIs
  <1>3. \A s \in SUBSET DOMAIN specs : g[s] = Adding(g, specs, mode, s)
    <2> DEFINE h == [s \in SUBSET DOMAIN specs |-> Adding(g, specs, mode, s)]
    <2>1. g = h
      BY <1>2 DEF IsAdding
    <2>2. \A s \in SUBSET DOMAIN specs : h[s] = Adding(g, specs, mode, s)
      OBVIOUS
    <2> HIDE DEF h
    <2>3. QED
      BY <2>1, <2>2
  <1> DEFINE F == {s \in SUBSET DOMAIN specs : ~(g[s] \in Lists(specs, mode) /\ Has(g[s], s))}
  <1>4. F = {}
    <2> SUFFICES ASSUME F # {} PROVE FALSE
      OBVIOUS
    <2>1. F \subseteq SUBSET DOMAIN specs /\ IsFiniteSet(DOMAIN specs)
      BY <1>1, FS_Interval
    <2>2. PICK s \in F : \A t \in F : t \subseteq s => t = s
      <3> HIDE DEF F
      <3> QED
        BY <2>1, SmallestSubset
    <2>3. /\ s \in SUBSET DOMAIN specs /\ g[s] = Adding(g, specs, mode, s)
          /\ ~(g[s] \in Lists(specs, mode) /\ Has(g[s], s))
      BY <1>3
    <2>4. CASE s = {}
      <3>1. EmptyList(mode) \in Lists(specs, mode)
        BY DEF EmptyList, Lists
      <3>2. QED
        BY <2>3, <2>4, <3>1 DEF Adding
    <2>5. CASE s # {}
      <3> DEFINE k == LastOf(s)
                 r == s \ {LastOf(s)}
                 list == g[s \ {LastOf(s)}]
                 e == [spec |-> specs[k], stored |-> StoredName(list.mode, specs[k].name)]
      <3>1. k \in s /\ specs[k] \in ToSet(specs)
        BY <1>1, <2>3, <2>5, LastIn DEF ToSet
      <3>2. list \in Lists(specs, mode) /\ Has(list, r)
        <4>1. r \in SUBSET DOMAIN specs /\ r \notin F
          BY <2>2, <2>3, <3>1
        <4>2. QED
          BY <4>1
      <3>3. g[s] = AddOption(list, specs[k]) /\ g[s] \in Lists(specs, mode)
        BY <2>3, <2>5, <3>1, <3>2, AddOptionLists DEF Adding
      <3>4. SUFFICES ASSUME g[s].ok PROVE \A i \in s : \E j \in DOMAIN g[s].opts : g[s].opts[j].spec = specs[i]
        BY <2>3, <3>3
      <3>5. list.ok /\ g[s] = [list EXCEPT !.opts = Append(@, e)]
        BY <3>2, <3>3, <3>4 DEF AddOption, Lists
      <3> HIDE DEF e, list, r, k, F
      <3>6. list.opts \in Seq(Entries(specs, mode)) /\ g[s].opts = Append(list.opts, e)
        BY <3>2, <3>5 DEF Lists
      <3>7. /\ DOMAIN list.opts \subseteq DOMAIN g[s].opts
            /\ \A j \in DOMAIN list.opts : g[s].opts[j] = list.opts[j]
            /\ Len(list.opts) + 1 \in DOMAIN g[s].opts /\ g[s].opts[Len(list.opts) + 1] = e
        BY <3>6
      <3>8. e.spec = specs[k]
        BY DEF e
      <3>9. \A i \in s : i = k \/ i \in r
        BY DEF k, r
      <3>10. QED
        BY <3>2, <3>5, <3>7, <3>8, <3>9
    <2>6. QED
      BY <2>4, <2>5
  <1>5. DOMAIN specs \in SUBSET DOMAIN specs /\ DOMAIN specs \notin F
    BY <1>4
  <1>6. Has(g[DOMAIN specs], DOMAIN specs)
    BY <1>5
  <1> HIDE DEF F
  <1>7. ToSet(specs) = {specs[i] : i \in DOMAIN specs}
    BY DEF ToSet
  <1>8. QED
    BY <1>2, <1>6, <1>7

LEMMA StoredLow ==
    ASSUME NEW mode, NEW w \in Word
    PROVE  LowCase(StoredName(mode, w)) = LowCase(w) /\ LowCase(w) \in Word
  BY LowCaseIs DEF StoredName

LEMMA ConnectsWithList ==
    ASSUME NEW prog \in DOMAIN Programs, Programs[prog].connects,
           AddOptions(Programs[prog].specs, Programs[prog].mode).ok
    PROVE  ConnectList(AddOptions(Programs[prog].specs, Programs[prog].mode))
  <1> DEFINE specs == Programs[prog].specs
             mode == Programs[prog].mode
             base == FoldLeft(AddOption, EmptyList(mode), specs)
             list == AddOptions(specs, mode)
  <1>1. specs \in Seq(ToSet(specs)) /\ \A o \in ToSet(specs) : o.type \in Specials \/ o.name \in Word
    BY WordsAssumption DEF Word
  <1>2. /\ mode = {"noConnstrOk"}
        /\ \A type \in {"<DSN>", "<CONNSTR>"} : \E o \in ToSet(specs) : o.type = type
        /\ \A o \in ToSet(specs) :
               \/ o.type \in {"<HELP>", "<VERSION>"}
               \/ o.type = "<DSN>" /\ o.dest = "dsn"
               \/ o.type = "<CONNSTR>" /\ o.dest = "connstr"
               \/ /\ o.type \in PlainTypes /\ o.dest \notin Held
                  /\ LowCase(o.name) \notin ConnNames
                  /\ o.type \in {"flag", "s"} => LowCase(o.name) \notin {<<"d">>, <<"c">>}
    BY ConnectAssumption DEF PlainTypes, Held, ConnNames
  <1> HIDE DEF specs, mode
  <1>3. InOrder(list)
    BY <1>1, AddedInOrder
  <1>4. base \in Lists(specs, mode)
    BY <1>1, FoldLists
  <1>5. list = MakeSorted(base)
    BY DEF AddOptions
  <1> HIDE DEF base, list
  <1>6. list.opts = base.opts /\ list.mode = mode /\ list.ok = base.ok
    BY <1>4, <1>5, Zenon DEF MakeSorted, Lists
  <1>7. base.ok
    BY <1>6 DEF list, specs, mode
  <1>8. base.opts \in Seq(Entries(specs, mode))
    BY <1>4 DEF Lists
  <1>9. ASSUME NEW i \in DOMAIN list.opts
        PROVE  /\ i \in Nat \ {0}
               /\ \/ list.opts[i].spec.type \in {"<HELP>", "<VERSION>"}
                  \/ list.opts[i].spec.type = "<DSN>" /\ list.opts[i].spec.dest = "dsn"
                  \/ list.opts[i].spec.type = "<CONNSTR>" /\ list.opts[i].spec.dest = "connstr"
                  \/ Plain(list.opts[i])
    <2>1. i \in Nat \ {0} /\ list.opts[i] \in Entries(specs, mode)
      BY <1>6, <1>8, <1>9
    <2>2. PICK o \in ToSet(specs) : list.opts[i] = [spec |-> o, stored |-> StoredName(mode, o.name)]
      BY <2>1 DEF Entries
    <2>3. CASE o.type \in Specials
      BY <1>2, <2>1, <2>2, <2>3 DEF Specials, PlainTypes
    <2>4. CASE o.type \notin Specials
      <3>1. o.name \in Word /\ LowCase(StoredName(mode, o.name)) = LowCase(o.name)
        BY <1>1, <2>4, StoredLow
      <3>2. Plain(list.opts[i])
        BY <1>2, <2>2, <2>4, <3>1 DEF Plain, Specials
      <3>3. QED
        BY <2>1, <3>2
    <2>5. QED
      BY <2>3, <2>4
  <1>10. ASSUME NEW type \in {"<DSN>", "<CONNSTR>"} PROVE HasSpecial(list, type)
    <2>1. PICK o \in ToSet(specs) : o.type = type
      BY <1>2
    <2>2. \A x \in ToSet(specs) : \E j \in DOMAIN base.opts : base.opts[j].spec = x
      BY <1>1, <1>7, FoldComplete DEF base
    <2>3. QED
      BY <1>6, <2>1, <2>2 DEF HasSpecial
  <1>11. ConnectList(list)
    BY <1>2, <1>3, <1>6, <1>9, <1>10 DEF ConnectList
  <1>12. QED
    BY <1>11 DEF list, specs, mode

\* An option that is found by its name does not have that of -dsn or -connstr.
LEMMA ExactPlain ==
    ASSUME NEW list, ConnectList(list), NEW w \in Word, ExactMatch(list, w) # None
    PROVE  /\ ExactMatch(list, w) \in DOMAIN list.opts /\ Plain(list.opts[ExactMatch(list, w)])
           /\ LowCase(w) \notin ConnNames
  <1> DEFINE i == ExactMatch(list, w)
             same == {j \in Normal(list) : Name(list, j) = StoredName(list.mode, w)}
  <1>1. InOrder(list) /\ StoredName(list.mode, w) \in Word
    BY StoredIsWord DEF ConnectList
  <1>2. i \in same
    BY <1>1, ExactFinds
  <1>3. i \in Normal(list) /\ list.opts[i].stored = StoredName(list.mode, w)
    BY <1>2 DEF Name
  <1> HIDE DEF i
  <1>4. i \in DOMAIN list.opts /\ list.opts[i].spec.type \notin Specials
    BY <1>3 DEF Normal, IsSpecial
  <1>5. Plain(list.opts[i])
    BY <1>4 DEF ConnectList, Specials
  <1>6. LowCase(w) \notin ConnNames
    BY <1>3, <1>5, StoredLow DEF Plain
  <1>7. QED
    BY <1>4, <1>5, <1>6 DEF i

\* An argument of -dsn or -connstr.
Took(s, t, argv) ==
    /\ s.idx <= Len(argv) /\ t.idx = s.idx + 1 /\ t.gotDsn /\ t.nerrs = s.nerrs
    /\ DOMAIN t = DOMAIN s /\ DOMAIN t.values = DOMAIN s.values
    /\ \E d \in Held : t.values = [s.values EXCEPT ![d] = argv[s.idx]]

LEMMA CopyTakes ==
    ASSUME NEW s, IsParse(s), ~s.ok, NEW argv, Len(argv) \in Nat, NEW o, o.dest \in Held
    PROVE  LET t == GotDsn(CopyStrArg(s, argv, o, NoArg))
           IN  (~t.ok /\ Same(s, t)) \/ (t.ok /\ Took(s, t, argv))
  <1>1. CASE Missing(s, argv) \/ ~Fits(o, argv[s.idx])
    <2>1. CopyStrArg(s, argv, o, NoArg) = OptError(s)
      BY <1>1 DEF CopyStrArg, Given
    <2>2. Same(s, OptError(s)) /\ ~OptError(s).ok
      BY SmallSame
    <2>3. GotDsn(OptError(s)) = OptError(s)
      BY <2>2 DEF GotDsn
    <2>4. QED
      BY <2>1, <2>2, <2>3
  <1>2. CASE ~(Missing(s, argv) \/ ~Fits(o, argv[s.idx]))
    <2> DEFINE u == [s EXCEPT !.ok = TRUE, !.values = [s.values EXCEPT ![o.dest] = argv[s.idx]],
                              !.idx = s.idx + 1]
    <2>1. CopyStrArg(s, argv, o, NoArg) = Skip(Store(s, o, argv[s.idx]), 1)
      BY <1>2 DEF CopyStrArg, Given, Taken
    <2>2. Skip(Store(s, o, argv[s.idx]), 1) = u
      BY DEF Skip, Store, Succeed, IsParse
    <2>3. GotDsn(u) = [u EXCEPT !.gotDsn = TRUE]
      BY DEF GotDsn, IsParse
    <2>4. s.idx <= Len(argv)
      BY <1>2 DEF Missing, IsParse
    <2>5. GotDsn(u).ok /\ Took(s, GotDsn(u), argv)
      BY <2>3, <2>4 DEF Took, IsParse
    <2>6. QED
      BY <2>1, <2>2, <2>5
  <1>3. QED
    BY <1>1, <1>2

\* The least number of a set is in it.
LEMMA LeastOf ==
    ASSUME NEW S, S \subseteq Nat, S # {}
    PROVE  (CHOOSE i \in S : \A j \in S : i <= j) \in S
  BY LeastNumber

LEMMA SpecialTakes ==
    ASSUME NEW s, IsParse(s), ~s.ok, NEW argv, Len(argv) \in Nat, NEW list, ConnectList(list),
           NEW w \in Word
    PROVE  LET t == ChkSpecialOption(s, argv, list, w)
           IN  \/ t.place = "exit0"
               \/ t = Fail(s) /\ LowCase(w) \notin ConnNames
               \/ LowCase(w) \in ConnNames /\ ((~t.ok /\ Same(s, t)) \/ (t.ok /\ Took(s, t, argv)))
  <1> DEFINE hits == {i \in DOMAIN list.opts : /\ IsSpecial(list.opts[i])
                                               /\ LooksLike(list.opts[i].spec.type, list, w)}
             first == CHOOSE i \in hits : \A j \in hits : i <= j
             o == list.opts[first].spec
  <1>1. ~CaseSensitive(list)
    BY DEF CaseSensitive, ConnectList
  <1>2. /\ LooksLike("<DSN>", list, w) <=> LowCase(w) = <<"d", "s", "n">>
        /\ LooksLike("<CONNSTR>", list, w) <=> LowCase(w) = <<"c", "onnstr">>
    BY <1>1, Zenon DEF LooksLike
  <1>3. CASE hits = {}
    <2>1. ChkSpecialOption(s, argv, list, w) = Fail(s)
      BY <1>3 DEF ChkSpecialOption
    <2>2. ASSUME NEW type \in {"<DSN>", "<CONNSTR>"} PROVE ~LooksLike(type, list, w)
      <3>1. PICK i \in DOMAIN list.opts : list.opts[i].spec.type = type
        BY DEF ConnectList, HasSpecial
      <3>2. IsSpecial(list.opts[i])
        BY <3>1 DEF IsSpecial, Specials
      <3>3. QED
        BY <1>3, <3>1, <3>2
    <2>3. QED
      BY <1>2, <2>1, <2>2 DEF ConnNames
  <1>4. CASE hits # {}
    <2>1. first \in hits
      <3>1. hits \subseteq Nat
        BY DEF ConnectList
      <3> HIDE DEF hits
      <3>2. QED
        BY <1>4, <3>1, LeastOf
    <2>2. /\ first \in DOMAIN list.opts /\ o.type \in Specials /\ LooksLike(o.type, list, w)
      BY <2>1 DEF IsSpecial
    <2>3. \/ o.type \in {"<HELP>", "<VERSION>"}
          \/ o.type \in {"<DSN>", "<CONNSTR>"} /\ o.dest \in Held
      BY <2>2 DEF ConnectList, Plain, PlainTypes, Specials, Held
    <2>4. CASE o.type \in {"<HELP>", "<VERSION>"}
      <3>1. ChkSpecialOption(s, argv, list, w) = [s EXCEPT !.place = "exit0"]
        <4>1. "noExit" \notin list.mode
          BY DEF ConnectList
        <4> HIDE DEF first
        <4>2. ~(o.type \in {"<INTEGER>", "<REAL>"})
          BY <2>4
        <4>3. QED
          BY <1>4, <2>4, <4>1, <4>2, Zenon DEF ChkSpecialOption, first
      <3>2. QED
        BY <3>1 DEF IsParse
    <2>5. CASE o.type \in {"<DSN>", "<CONNSTR>"}
      <3>1. ChkSpecialOption(s, argv, list, w) = GotDsn(CopyStrArg(s, argv, o, NoArg))
        <4> HIDE DEF first
        <4>1. ~(o.type \in {"<INTEGER>", "<REAL>"}) /\ ~(o.type \in {"<HELP>", "<VERSION>"})
          BY <2>5
        <4>3. QED
          BY <1>4, <2>5, <4>1, Zenon DEF ChkSpecialOption, first
      <3>2. LowCase(w) \in ConnNames
        BY <1>2, <2>2, <2>5 DEF ConnNames
      <3>3. o.dest \in Held
        BY <2>3, <2>5
      <3> HIDE DEF o
      <3>4. QED
        BY <3>1, <3>2, <3>3, CopyTakes
    <2>6. QED
      BY <2>3, <2>4, <2>5
  <1>5. QED
    BY <1>3, <1>4

LEMMA OneCharPlain ==
    ASSUME NEW list, ConnectList(list), NEW c, OneCharOption(list, c) # None
    PROVE  LET e == list.opts[OneCharOption(list, c)]
           IN  Plain(e) /\ e.stored = <<c>> /\ e.spec.type \in {"flag", "i", "s"}
  <1> DEFINE hits == {i \in DOMAIN list.opts : /\ list.opts[i].stored = <<c>> /\ c \in Chars
                                               /\ list.opts[i].spec.type \in {"flag", "i", "s"}}
  <1>1. hits # {} /\ OneCharOption(list, c) = CHOOSE i \in hits : \A j \in hits : i <= j
    BY DEF OneCharOption
  <1>2. hits \subseteq Nat
    BY DEF ConnectList
  <1>3. OneCharOption(list, c) \in hits
    <2> HIDE DEF hits
    <2> QED
      BY <1>1, <1>2, LeastOf
  <1>4. QED
    BY <1>3 DEF ConnectList

LEMMA ShortSeq ==
    ASSUME NEW S, NEW word \in Seq(S)
    PROVE  /\ Len(word) = 1 => word = <<word[1]>>
           /\ Len(word) = 2 => word = <<word[1], word[2]>>
  OBVIOUS

\* The first letter of -dsn and -connstr, and what follows it.
LEMMA LettersOf ==
    ASSUME NEW w \in Word, LowCase(w) \in ConnNames
    PROVE  /\ Len(w) > 1
           /\ LowCase(<<w[1]>>) \in {<<"d">>, <<"c">>}
           /\ LowCase(Rest(w, 1)) \in {<<"s", "n">>, <<"onnstr">>}
           /\ \A i \in DOMAIN w : w[i] # "="
           /\ LowCase(SubSeq(w, 1, 2)) # <<"n", "o">>
  <1>1. Len(w) \in Nat /\ DOMAIN w = 1..Len(w) /\ \A i \in 1..Len(w) : w[i] \in Tokens
    BY DEF Word
  <1>2. /\ DOMAIN LowCase(w) = 1..Len(w) /\ Len(LowCase(w)) = Len(w)
        /\ \A i \in 1..Len(w) : LowCase(w)[i] = IF w[i] \in DOMAIN Lower THEN Lower[w[i]] ELSE w[i]
    BY <1>1, LowCaseIs DEF LowCase
  <1>3. \/ LowCase(w) = <<"d", "s", "n">> /\ Len(w) = 3
        \/ LowCase(w) = <<"c", "onnstr">> /\ Len(w) = 2
    BY <1>2 DEF ConnNames
  <1>4. \A i \in 1..Len(w) : LowCase(w)[i] # "="
    BY <1>3
  <1>5. \A i \in DOMAIN w : w[i] # "="
    BY <1>1, <1>2, <1>4, ConnectAssumption
  <1>6. LowCase(<<w[1]>>) \in {<<"d">>, <<"c">>}
    <2>1. LowCase(<<w[1]>>) = [i \in {1} |-> LowCase(w)[1]]
      BY <1>2, <1>3 DEF LowCase
    <2>2. <<LowCase(w)[1]>> = [i \in {1} |-> LowCase(w)[1]]
      OBVIOUS
    <2>3. QED
      BY <1>3, <2>1, <2>2
  <1>7. LowCase(Rest(w, 1)) \in {<<"s", "n">>, <<"onnstr">>}
    <2> DEFINE word == SubSeq(w, 2, Len(w))
    <2>1. word \in Word /\ Len(word) = Len(w) - 1 /\ \A i \in 1..(Len(w) - 1) : word[i] = w[i + 1]
      BY <1>1, <1>3, SubSeqProperties DEF Word
    <2> HIDE DEF word
    <2>2. /\ LowCase(word) \in Seq(Tokens) /\ Len(LowCase(word)) = Len(w) - 1
          /\ \A i \in 1..(Len(w) - 1) : LowCase(word)[i] = LowCase(w)[i + 1]
      <3>1. LowCase(word) \in Seq(Tokens) /\ Len(LowCase(word)) = Len(w) - 1
        BY <2>1, LowCaseIs DEF Word
      <3>2. DOMAIN word = 1..(Len(w) - 1)
        BY <2>1 DEF Word
      <3>3. \A i \in 1..(Len(w) - 1) : i + 1 \in 1..Len(w)
        BY <1>3
      <3>4. QED
        BY <1>2, <2>1, <3>1, <3>2, <3>3 DEF LowCase
    <2>3. CASE LowCase(w) = <<"d", "s", "n">> /\ Len(w) = 3
      <3>1. LowCase(word)[1] = "s" /\ LowCase(word)[2] = "n"
        BY <2>2, <2>3
      <3>2. QED
        BY <2>2, <2>3, <3>1, ShortSeq DEF word, Rest
    <2>4. CASE LowCase(w) = <<"c", "onnstr">> /\ Len(w) = 2
      <3>1. LowCase(word)[1] = "onnstr"
        BY <2>2, <2>4
      <3>2. QED
        BY <2>2, <2>4, <3>1, ShortSeq DEF word, Rest
    <2>5. QED
      BY <1>3, <2>3, <2>4
  <1>8. LowCase(SubSeq(w, 1, 2)) # <<"n", "o">>
    <2>1. SubSeq(w, 1, 2)[1] = w[1] /\ 1 \in DOMAIN SubSeq(w, 1, 2)
      BY <1>1, <1>3, SubSeqProperties DEF Word
    <2>2. LowCase(SubSeq(w, 1, 2))[1] = LowCase(w)[1]
      BY <1>2, <1>3, <2>1 DEF LowCase
    <2>3. QED
      BY <1>3, <2>2
  <1>9. QED
    BY <1>3, <1>5, <1>6, <1>7, <1>8

\* The flags that a word begins with.
LEMMA FlagsCounted ==
    ASSUME NEW list, NEW w \in Word
    PROVE  LET n == CHOOSE k \in 0..Len(w) : /\ \A i \in 1..k : IsFlag(list, w[i])
                                             /\ k = Len(w) \/ ~IsFlag(list, w[k + 1])
           IN  /\ n \in 0..Len(w) /\ \A i \in 1..n : IsFlag(list, w[i])
               /\ n = Len(w) \/ ~IsFlag(list, w[n + 1])
  <1> DEFINE AtEnd(k) == k = Len(w) \/ ~IsFlag(list, w[k + 1])
             S == {k \in 0..Len(w) : AtEnd(k)}
  <1>1. Len(w) \in Nat
    BY DEF Word
  <1>2. S \subseteq Nat /\ Len(w) \in S
    BY <1>1
  <1>3. PICK k \in S : \A j \in S : k <= j
    <2> HIDE DEF S
    <2> QED
      BY <1>2, LeastNumber
  <1>4. k \in 0..Len(w) /\ AtEnd(k)
    BY <1>3
  <1>5. ASSUME NEW i \in 1..k PROVE IsFlag(list, w[i])
    <2>1. i - 1 \in 0..Len(w) /\ i - 1 < k /\ (i - 1) + 1 = i
      BY <1>1, <1>4
    <2>2. i - 1 \notin S
      <3> HIDE DEF S
      <3>1. k \in Nat
        BY <1>4
      <3>2. QED
        BY <1>3, <2>1, <3>1
    <2>3. QED
      BY <2>1, <2>2
  <1>6. \E m \in 0..Len(w) : /\ \A i \in 1..m : IsFlag(list, w[i])
                             /\ m = Len(w) \/ ~IsFlag(list, w[m + 1])
    BY <1>4, <1>5
  <1>7. QED
    BY <1>6

\* What -opt does as -o -p -t is no answer to -dsn and -connstr.
LEMMA BundleKept ==
    ASSUME NEW s, IsParse(s), NEW list, ConnectList(list), NEW w \in Word
    PROVE  LET t == HandleSingleChar(s, list, w)
           IN  Same(s, t) /\ (LowCase(w) \in ConnNames => ~t.ok)
  <1> DEFINE n == CHOOSE k \in 0..Len(w) : /\ \A i \in 1..k : IsFlag(list, w[i])
                                           /\ k = Len(w) \/ ~IsFlag(list, w[k + 1])
             Dest(i) == list.opts[OneCharOption(list, w[i])].spec.dest
             t == [s EXCEPT !.values = [d \in DOMAIN @ |-> IF \E i \in 1..n : Dest(i) = d THEN 1 ELSE @[d]]]
             value == Rest(w, n + 1)
             one == OneCharOption(list, w[n + 1])
             o == list.opts[one].spec
  <1>1. /\ n \in 0..Len(w) /\ \A i \in 1..n : IsFlag(list, w[i])
        /\ n = Len(w) \/ ~IsFlag(list, w[n + 1])
    BY FlagsCounted
  <1>2. HandleSingleChar(s, list, w) =
            IF n = Len(w) THEN Succeed(t)
            ELSE IF one = None \/ value = <<>> THEN Fail(t)
            ELSE IF o.type = "i"
                 THEN IF value \in DOMAIN NumVal THEN Store(t, o, Number("i", value)) ELSE Fail(t)
                 ELSE IF Fits(o, value) THEN Store(t, o, value) ELSE OptError(t)
    BY DEF HandleSingleChar
  <1> HIDE DEF n
  <1>3. \A i \in 1..n : Dest(i) \notin Held
    BY <1>1, OneCharPlain DEF IsFlag, Plain
  <1>4. Same(s, t)
    <2>1. \A d \in Held : ~ \E i \in 1..n : Dest(i) = d
      BY <1>3
    <2> HIDE DEF Dest
    <2>2. QED
      BY <2>1 DEF Same, Rests, IsParse
  <1> HIDE DEF t
  <1>5. IsParse(t)
    BY <1>4, SameTrans
  <1>6. one # None => o.dest \notin Held
    BY OneCharPlain DEF Plain
  <1> HIDE DEF value
  <1>7. Same(s, HandleSingleChar(s, list, w))
    <2>1. Same(t, Succeed(t)) /\ Same(t, Fail(t)) /\ Same(t, OptError(t))
      BY <1>5, SmallSame
    <2>2. one # None => \A x : Same(t, Store(t, o, x))
      BY <1>5, <1>6, StoredSame
    <2> HIDE DEF one, o
    <2>3. Same(t, HandleSingleChar(s, list, w))
      BY <1>2, <2>1, <2>2
    <2>4. QED
      BY <1>4, <2>3, SameTrans
  <1>8. ASSUME LowCase(w) \in ConnNames PROVE ~HandleSingleChar(s, list, w).ok
    <2>1. /\ Len(w) > 1 /\ LowCase(<<w[1]>>) \in {<<"d">>, <<"c">>}
          /\ LowCase(Rest(w, 1)) \in {<<"s", "n">>, <<"onnstr">>}
      BY <1>8, LettersOf
    <2>2. OneCharOption(list, w[1]) # None =>
              list.opts[OneCharOption(list, w[1])].spec.type = "i"
      BY <2>1, OneCharPlain DEF Plain
    <2>3. ~IsFlag(list, w[1])
      BY <2>2 DEF IsFlag
    <2>4. n = 0
      <3>1. n # 0 => 1 \in 1..n
        BY <1>1
      <3>2. QED
        BY <1>1, <2>3, <3>1
    <2>5. one = None \/ o.type = "i"
      BY <2>2, <2>4
    <2>6. value \notin DOMAIN NumVal
      BY <2>1, <2>4, ConnectAssumption DEF value
    <2>7. n # Len(w)
      BY <2>1, <2>4
    <2> HIDE DEF one, o
    <2>8. HandleSingleChar(s, list, w) = Fail(t)
      BY <1>2, <2>5, <2>6, <2>7
    <2>9. QED
      BY <1>5, <2>8, SmallSame
  <1>9. QED
    BY <1>7, <1>8

LEMMA PartIsWord ==
    ASSUME NEW w \in Word, NEW m \in 1..(Len(w) + 1), NEW n \in 0..Len(w)
    PROVE  SubSeq(w, m, n) \in Word
  BY SubSeqProperties DEF Word

LEMMA RestIsWord ==
    ASSUME NEW w \in Word, NEW n \in Nat
    PROVE  Rest(w, n) \in Word
  <1>1. CASE n <= Len(w)
    <2>1. n + 1 \in 1..(Len(w) + 1) /\ Len(w) \in 0..Len(w)
      BY <1>1 DEF Word
    <2>2. QED
      BY <2>1, PartIsWord DEF Rest
  <1>2. CASE ~(n <= Len(w))
    <2>1. n + 1 > Len(w) /\ Len(w) \in Nat
      BY <1>2 DEF Word
    <2>2. SubSeq(w, n + 1, Len(w)) = <<>>
      BY <2>1
    <2>3. <<>> \in Word
      BY DEF Word
    <2>4. QED
      BY <2>2, <2>3 DEF Rest
  <1>3. QED
    BY <1>1, <1>2

LEMMA FindTakes ==
    ASSUME NEW s, IsParse(s), ~s.ok, s.place = "args", NEW argv, Len(argv) \in Nat,
           NEW list, ConnectList(list), NEW w \in Word, NEW dbl
    PROVE  LET t == FindOption(s, argv, list, w, dbl)
           IN  \/ t.place = "exit0"
               \/ Kept(s, t, argv) /\ (LowCase(w) \in ConnNames => ~t.ok)
               \/ LowCase(w) \in ConnNames /\ t.ok /\ Took(s, t, argv)
  <1> DEFINE Handle(t, at, invert, inline) ==
                 HandleOption(t, argv, list, list.opts[at].spec, invert, inline)
             special == ChkSpecialOption(s, argv, list, w)
             bundle  == IF ~dbl /\ Len(w) > 1 THEN HandleSingleChar(special, list, w) ELSE special
             no      == Beginning(list, w, 2) = <<"n", "o">>
             negated == IF no THEN ExactMatch(list, Rest(w, 2)) ELSE None
             abbrev  == IF "abbrev" \in list.mode THEN AbbrevMatch(list, w) ELSE None
             eqs     == {i \in DOMAIN w : w[i] = "="}
             eq      == CHOOSE i \in eqs : \A j \in eqs : i <= j
             before  == ExactMatch(list, SubSeq(w, 1, eq - 1))
             t       == FindOption(s, argv, list, w, dbl)
  <1>1. t = IF dbl /\ IsChar(w) THEN Fail(s)
            ELSE IF ExactMatch(list, w) # None THEN Handle(s, ExactMatch(list, w), FALSE, NoArg)
            ELSE IF special.ok \/ special.place = "exit0" THEN special
            ELSE IF bundle.ok THEN bundle
            ELSE IF negated # None THEN Handle(bundle, negated, TRUE, NoArg)
            ELSE IF abbrev # None THEN Handle(bundle, abbrev, FALSE, NoArg)
            ELSE IF eqs = {} \/ eq = Len(w) THEN bundle
            ELSE IF before # None THEN Handle(bundle, before, FALSE, Rest(w, eq))
            ELSE bundle
    BY DEF FindOption
  <1>2. abbrev = None
    BY DEF ConnectList
  <1>3. ASSUME NEW u, IsParse(u), NEW x \in Word, ExactMatch(list, x) # None, NEW invert, NEW inline
        PROVE  Kept(u, Handle(u, ExactMatch(list, x), invert, inline), argv)
    <2>1. Plain(list.opts[ExactMatch(list, x)])
      BY <1>3, ExactPlain
    <2>2. QED
      BY <1>3, <2>1, HandlerKept DEF Plain
  <1>4. \/ special.place = "exit0"
        \/ special = Fail(s) /\ LowCase(w) \notin ConnNames
        \/ LowCase(w) \in ConnNames /\ ((~special.ok /\ Same(s, special)) \/ (special.ok /\ Took(s, special, argv)))
    BY SpecialTakes
  <1>5. Same(s, Fail(s)) /\ ~Fail(s).ok
    BY SmallSame
  <1> HIDE DEF special, bundle, negated, abbrev, eqs, eq, before, no, Handle
  <1>6. CASE dbl /\ IsChar(w)
    BY <1>1, <1>5, <1>6, SameTrans
  <1>7. CASE ~(dbl /\ IsChar(w)) /\ ExactMatch(list, w) # None
    <2>1. LowCase(w) \notin ConnNames
      BY <1>7, ExactPlain
    <2>2. t = Handle(s, ExactMatch(list, w), FALSE, NoArg)
      BY <1>1, <1>7
    <2> HIDE DEF t
    <2>3. Kept(s, t, argv)
      BY <1>3, <1>7, <2>2
    <2>4. QED
      BY <2>1, <2>3 DEF t
  <1>8. CASE ~(dbl /\ IsChar(w)) /\ ExactMatch(list, w) = None /\ (special.ok \/ special.place = "exit0")
    <2>1. t = special
      BY <1>1, <1>8
    <2>2. QED
      BY <1>4, <1>5, <1>8, <2>1
  <1>9. CASE ~(special.ok \/ special.place = "exit0") /\ ~(dbl /\ IsChar(w)) /\ ExactMatch(list, w) = None
    <2>1. Same(s, special) /\ ~special.ok /\ IsParse(special)
      BY <1>4, <1>5, <1>9, SameTrans
    <2>2. Same(special, bundle) /\ (LowCase(w) \in ConnNames => ~bundle.ok)
      BY <2>1, BundleKept, SmallSame DEF bundle
    <2>3. Same(s, bundle) /\ IsParse(bundle) /\ Kept(s, bundle, argv)
      BY <2>1, <2>2, SameTrans
    <2>4. t = IF bundle.ok THEN bundle
              ELSE IF negated # None THEN Handle(bundle, negated, TRUE, NoArg)
              ELSE IF eqs = {} \/ eq = Len(w) THEN bundle
              ELSE IF before # None THEN Handle(bundle, before, FALSE, Rest(w, eq))
              ELSE bundle
      BY <1>1, <1>2, <1>9
    <2>5. negated # None => Kept(s, Handle(bundle, negated, TRUE, NoArg), argv)
      <3>1. Rest(w, 2) \in Word
        BY RestIsWord
      <3>2. ASSUME negated # None PROVE negated = ExactMatch(list, Rest(w, 2)) /\ ExactMatch(list, Rest(w, 2)) # None
        BY <3>2 DEF negated
      <3>3. QED
        BY <1>3, <2>3, <3>1, <3>2, SameTrans
    <2>6. eqs # {} /\ before # None => Kept(s, Handle(bundle, before, FALSE, Rest(w, eq)), argv)
      <3> SUFFICES ASSUME eqs # {}, before # None
                   PROVE  Kept(s, Handle(bundle, before, FALSE, Rest(w, eq)), argv)
        OBVIOUS
      <3>1. DOMAIN w = 1..Len(w) /\ Len(w) \in Nat
        BY DEF Word
      <3>2. eqs \subseteq Nat
        BY <3>1 DEF eqs
      <3>3. eq \in eqs
        BY <3>2, LeastOf DEF eq
      <3>4. eq \in 1..Len(w)
        BY <3>1, <3>3 DEF eqs
      <3>5. SubSeq(w, 1, eq - 1) \in Word
        BY <3>1, <3>4, PartIsWord
      <3>6. before = ExactMatch(list, SubSeq(w, 1, eq - 1))
        BY DEF before
      <3>7. Kept(bundle, Handle(bundle, before, FALSE, Rest(w, eq)), argv)
        BY <1>3, <2>3, <3>5, <3>6
      <3>8. \A u : Kept(bundle, u, argv) => Kept(s, u, argv)
        BY <2>3, SameTrans
      <3>9. QED
        BY <3>7, <3>8
    <2>7. ASSUME LowCase(w) \in ConnNames PROVE negated = None /\ eqs = {}
      <3>1. /\ \A i \in DOMAIN w : w[i] # "="
            /\ LowCase(SubSeq(w, 1, 2)) # <<"n", "o">>
        BY <2>7, LettersOf
      <3>2. Len(w) > 1
        BY <2>7, LettersOf
      <3>3. Beginning(list, w, 2) = LowCase(SubSeq(w, 1, 2))
        <4>1. ~CaseSensitive(list)
          BY DEF CaseSensitive, ConnectList
        <4>2. (IF 2 < Len(w) THEN 2 ELSE Len(w)) = 2
          <5>1. Len(w) \in Nat
            BY DEF Word
          <5>2. \A k \in Nat : k > 1 => (IF 2 < k THEN 2 ELSE k) = 2
            OBVIOUS
          <5>3. QED
            BY <3>2, <5>1, <5>2
        <4>3. QED
          BY <4>1, <4>2 DEF Beginning
      <3>4. QED
        BY <3>1, <3>3 DEF negated, no, eqs
    <2>8. QED
      BY <2>2, <2>3, <2>4, <2>5, <2>6, <2>7
  <1>10. QED
    BY <1>6, <1>7, <1>8, <1>9

LEMMA ParseTakes ==
    ASSUME NEW s, IsParse(s), s.place = "args", NEW argv \in Seq(Word),
           NEW list, ConnectList(list)
    PROVE  LET w == argv[s.idx]
               t == ParseArg(s, argv, list)
           IN  \/ t.place \in {"exit0", "crash"}
               \/ Same(s, t)
               \/ IsParse(t) /\ t.nerrs # 0
               \/ /\ s.idx <= Len(argv) /\ StartsWithDash(w) /\ ~NamesConnection(w) /\ Rests(s, t)
                  /\ t.idx = s.idx + 1 \/ (t.idx = s.idx + 2 /\ s.idx + 1 <= Len(argv))
               \/ /\ s.idx + 1 <= Len(argv) /\ NamesConnection(w)
                  /\ IsParse(t) /\ t.idx = s.idx + 2 /\ t.gotDsn /\ t.nerrs = s.nerrs
                  /\ \E d \in Held : t.values = [s.values EXCEPT ![d] = argv[s.idx + 1]]
  <1> DEFINE w == argv[s.idx]
             u == Fail(Skip(s, 1))
             x == OptionOf(w)
             t == FindOption(u, argv, list, x, IsDouble(w))
             r == ParseArg(s, argv, list)
  <1>1. r = IF s.idx > Len(argv) \/ ~StartsWithDash(w) THEN [s EXCEPT !.place = "connstr"]
            ELSE IF w = <<"-", "-">> THEN [Skip(s, 1) EXCEPT !.place = "connstr"]
            ELSE IF t.ok \/ t.place # "args" THEN t ELSE NotTaken(s, t, list)
    BY DEF ParseArg
  <1>2. Len(argv) \in Nat
    OBVIOUS
  <1>3. CASE s.idx > Len(argv) \/ ~StartsWithDash(w)
    <2>1. Same(s, [s EXCEPT !.place = "connstr"])
      BY DEF Same, Rests, IsParse
    <2>2. QED
      BY <1>1, <1>3, <2>1
  <1>4. CASE ~(s.idx > Len(argv) \/ ~StartsWithDash(w))
    <2>1. s.idx <= Len(argv) /\ StartsWithDash(w) /\ w \in Word
      BY <1>2, <1>4 DEF IsParse
    <2> HIDE DEF t, r, x, w
    <2>2. CASE w = <<"-", "-">>
      <3>1. r = [s EXCEPT !.idx = s.idx + 1, !.place = "connstr"]
        BY <1>1, <1>4, <2>2 DEF Skip, IsParse
      <3>2. ~NamesConnection(w)
        <4>1. OptionOf(w) = <<>>
          BY <2>2 DEF OptionOf, IsDouble, Rest
        <4>2. LowCase(<<>>) = <<>>
          BY DEF LowCase
        <4>3. QED
          BY <4>1, <4>2 DEF NamesConnection
      <3>3. Rests(s, r) /\ r.idx = s.idx + 1
        BY <3>1 DEF Rests, IsParse
      <3>4. QED
        BY <2>1, <3>2, <3>3 DEF r, w
    <2>3. CASE w # <<"-", "-">>
      <3>1. x \in Word
        BY <2>1, RestIsWord DEF x, OptionOf
      <3>2. u = [s EXCEPT !.idx = s.idx + 1, !.ok = FALSE]
        BY DEF Fail, Skip, IsParse
      <3> HIDE DEF u
      <3>3. IsParse(u) /\ ~u.ok /\ u.place = "args" /\ Rests(s, u) /\ u.idx = s.idx + 1
        BY <3>2 DEF IsParse, Rests
      <3>4. \/ t.place = "exit0"
            \/ Kept(u, t, argv) /\ (LowCase(x) \in ConnNames => ~t.ok)
            \/ LowCase(x) \in ConnNames /\ t.ok /\ Took(u, t, argv)
        BY <1>2, <3>1, <3>3, FindTakes DEF t
      <3>5. r = IF t.ok \/ t.place # "args" THEN t ELSE NotTaken(s, t, list)
        BY <1>1, <1>4, <2>3
      <3>6. NamesConnection(w) <=> LowCase(x) \in ConnNames
        BY <2>1 DEF NamesConnection, ConnNames, x
      <3>7. Moves(u, t)
        BY <3>3, FindMoves DEF t, IsParse
      <3>8. CASE t.place # "args"
        BY <3>3, <3>5, <3>7, <3>8 DEF Moves, r
      <3>9. CASE t.place = "args" /\ ~t.ok
        <4>1. Kept(u, t, argv)
          BY <3>4, <3>9
        <4>2. r = NotTaken(s, t, list) /\ IsParse(t)
          BY <3>3, <3>5, <3>9, <4>1 DEF Kept, Rests, IsParse
        <4>3. IsParse(r) /\ r.nerrs # 0
          <5>1. IsParse(Say(t)) /\ Say(t).nerrs = t.nerrs
            <6>1. Same(t, Say(t))
              BY <4>2, SmallSame
            <6>2. QED
              BY <4>2, <6>1, SameTrans DEF Same, Rests
          <5>2. \A y : IsParse(y) => LET z == [y EXCEPT !.nerrs = @ + 1]
                                     IN  IsParse(z) /\ z.nerrs # 0
            BY DEF IsParse
          <5>3. \A y : IsParse(y) /\ y.nerrs # 0 =>
                           IsParse([y EXCEPT !.seen = y.msgs]) /\ [y EXCEPT !.seen = y.msgs].nerrs # 0
            BY DEF IsParse
          <5>4. "ignoreUnknowns" \notin list.mode
            BY DEF ConnectList
          <5>5. QED
            BY <4>2, <5>1, <5>2, <5>3, <5>4 DEF NotTaken
        <4>4. QED
          BY <4>3 DEF r
      <3>10. CASE t.place = "args" /\ t.ok
        <4>1. r = t
          BY <3>5, <3>10
        <4>2. CASE Kept(u, t, argv) /\ LowCase(x) \notin ConnNames
          <5>1. Rests(s, t)
            BY <3>3, <4>2 DEF Kept, Rests
          <5>2. t.idx = s.idx + 1 \/ (t.idx = s.idx + 2 /\ s.idx + 1 <= Len(argv))
            BY <3>3, <4>2 DEF Kept, IsParse
          <5>3. QED
            BY <2>1, <3>6, <4>1, <4>2, <5>1, <5>2 DEF r, w
        <4>3. CASE LowCase(x) \in ConnNames /\ Took(u, t, argv)
          <5>1. /\ s.idx + 1 <= Len(argv) /\ t.idx = s.idx + 2 /\ t.gotDsn /\ t.nerrs = s.nerrs
                /\ DOMAIN t = DOMAIN s
            BY <3>3, <4>3 DEF Took, Rests, IsParse
          <5>2. PICK d \in Held : t.values = [u.values EXCEPT ![d] = argv[u.idx]]
            BY <4>3 DEF Took
          <5>3. u.values = s.values /\ u.idx = s.idx + 1
            BY <3>2 DEF IsParse
          <5>4. IsParse(t)
            BY <5>1, <5>2, <5>3 DEF IsParse
          <5>5. QED
            BY <3>6, <4>1, <4>3, <5>1, <5>2, <5>3, <5>4 DEF r, w
        <4>4. QED
          BY <3>4, <3>10, <4>2, <4>3
      <3>11. QED
        BY <3>8, <3>9, <3>10
    <2>4. QED
      BY <2>2, <2>3
  <1>5. QED
    BY <1>3, <1>4

NamedIn(argv) == {i \in DOMAIN argv : NamesConnection(argv[i])}

\* What the parse has of the connection, as long as no word was refused: words
\* that follow -dsn or -connstr, or nothing, and then these have been the
\* arguments of other options.
Told(s, argv) ==
    /\ IsParse(s)
    /\ s.nerrs = 0 =>
        LET given == {argv[i + 1] : i \in {j \in NamedIn(argv) : j < Len(argv)}}
        IN  /\ s.idx <= Len(argv) + 1
            /\ s.idx > 1 => StartsWithDash(argv[s.idx - 1]) \/ MayBeArgument(argv, s.idx - 1)
            /\ s.gotDsn => /\ \A d \in Held : s.values[d] \in given \cup {<<>>}
                           /\ (\A d \in Held : s.values[d] = <<>>) => <<>> \in given
            /\ ~s.gotDsn => /\ \A d \in Held : s.values[d] = <<>>
                            /\ \A i \in NamedIn(argv) : i < s.idx => MayBeArgument(argv, i)

LEMMA ToldSame ==
    ASSUME NEW s, NEW t, NEW argv, Told(s, argv), Same(s, t)
    PROVE  Told(t, argv)
  <1>1. IsParse(t)
    BY SameTrans DEF Told
  <1>2. QED
    BY <1>1 DEF Told, Same, Rests

LEMMA ParseTold ==
    ASSUME NEW s, s.place = "args", NEW argv \in Seq(Word), Told(s, argv),
           NEW list, ConnectList(list)
    PROVE  LET t == ParseArg(s, argv, list)
           IN  t.place \in {"exit0", "crash"} \/ Told(t, argv)
  <1> DEFINE w == argv[s.idx]
             t == ParseArg(s, argv, list)
             given == {argv[i + 1] : i \in {j \in NamedIn(argv) : j < Len(argv)}}
  <1>1. IsParse(s) /\ Len(argv) \in Nat /\ DOMAIN argv = 1..Len(argv)
    BY DEF Told
  <1>2. \/ t.place \in {"exit0", "crash"}
        \/ Same(s, t)
        \/ IsParse(t) /\ t.nerrs # 0
        \/ /\ s.idx <= Len(argv) /\ StartsWithDash(w) /\ ~NamesConnection(w) /\ Rests(s, t)
           /\ t.idx = s.idx + 1 \/ (t.idx = s.idx + 2 /\ s.idx + 1 <= Len(argv))
        \/ /\ s.idx + 1 <= Len(argv) /\ NamesConnection(w)
           /\ IsParse(t) /\ t.idx = s.idx + 2 /\ t.gotDsn /\ t.nerrs = s.nerrs
           /\ \E d \in Held : t.values = [s.values EXCEPT ![d] = argv[s.idx + 1]]
    BY <1>1, ParseTakes
  <1> HIDE DEF t
  <1>3. CASE Same(s, t)
    BY <1>3, ToldSame DEF t
  <1>4. CASE IsParse(t) /\ t.nerrs # 0
    BY <1>4 DEF Told, t
  <1>5. CASE /\ s.idx <= Len(argv) /\ StartsWithDash(w) /\ ~NamesConnection(w) /\ Rests(s, t)
             /\ t.idx = s.idx + 1 \/ (t.idx = s.idx + 2 /\ s.idx + 1 <= Len(argv))
    <2>1. IsParse(t)
      BY <1>1, <1>5 DEF IsParse, Rests
    <2>2. SUFFICES ASSUME t.nerrs = 0 PROVE Told(t, argv)
      BY <2>1 DEF Told, t
    <2>3. s.nerrs = 0 /\ t.gotDsn = s.gotDsn /\ \A d \in Held : t.values[d] = s.values[d]
      BY <1>5, <2>2 DEF Rests
    <2>4. MayBeArgument(argv, s.idx + 1)
      BY <1>1, <1>5 DEF MayBeArgument, IsParse
    <2>5. t.idx <= Len(argv) + 1
      BY <1>1, <1>5 DEF IsParse
    <2>6. StartsWithDash(argv[t.idx - 1]) \/ MayBeArgument(argv, t.idx - 1)
      <3>1. t.idx - 1 = s.idx \/ t.idx - 1 = s.idx + 1
        BY <1>1, <1>5 DEF IsParse
      <3>2. QED
        BY <1>5, <2>4, <3>1
    <2>7. ASSUME NEW i \in NamedIn(argv), i < t.idx, ~s.gotDsn PROVE MayBeArgument(argv, i)
      <3>1. i \in Nat /\ i # s.idx
        BY <1>1, <1>5 DEF NamedIn
      <3>2. i < s.idx \/ i = s.idx + 1
        BY <1>1, <1>5, <2>7, <3>1 DEF IsParse
      <3>3. QED
        BY <2>3, <2>4, <2>7, <3>2 DEF Told
    <2>8. QED
      BY <2>1, <2>3, <2>5, <2>6, <2>7 DEF Told
  <1>6. CASE /\ s.idx + 1 <= Len(argv) /\ NamesConnection(w)
             /\ IsParse(t) /\ t.idx = s.idx + 2 /\ t.gotDsn /\ t.nerrs = s.nerrs
             /\ \E d \in Held : t.values = [s.values EXCEPT ![d] = argv[s.idx + 1]]
    <2>1. SUFFICES ASSUME t.nerrs = 0 PROVE Told(t, argv)
      BY <1>6 DEF Told, t
    <2>2. PICK d \in Held : t.values = [s.values EXCEPT ![d] = argv[s.idx + 1]]
      BY <1>6
    <2>3. s.idx \in {j \in NamedIn(argv) : j < Len(argv)}
      BY <1>1, <1>6 DEF NamedIn, IsParse
    <2>4. argv[s.idx + 1] \in given
      BY <2>3
    <2>5. t.idx <= Len(argv) + 1
      BY <1>1, <1>6 DEF IsParse
    <2>6. MayBeArgument(argv, t.idx - 1)
      <3>1. t.idx - 1 = s.idx + 1 /\ s.idx + 1 > 1 /\ (s.idx + 1) - 1 = s.idx
        BY <1>1, <1>6 DEF IsParse
      <3>2. StartsWithDash(w)
        BY <1>6 DEF NamesConnection
      <3>3. QED
        BY <3>1, <3>2 DEF MayBeArgument
    <2>7. /\ t.values[d] = argv[s.idx + 1]
          /\ \A e \in Held \ {d} : t.values[e] = s.values[e]
      BY <1>1, <2>2 DEF IsParse
    <2>8. \A e \in Held : s.values[e] \in given \cup {<<>>}
      BY <1>6, <2>1 DEF Told
    <2> HIDE DEF given
    <2>9. \A e \in Held : t.values[e] \in given \cup {<<>>}
      BY <2>4, <2>7, <2>8
    <2>10. (\A e \in Held : t.values[e] = <<>>) => <<>> \in given
      BY <2>4, <2>7
    <2>11. QED
      BY <1>6, <2>5, <2>6, <2>9, <2>10 DEF Told, given
  <1>7. QED
    BY <1>2, <1>3, <1>4, <1>5, <1>6 DEF t

ConnectionOf(values) ==
    IF values["dsn"] # <<>> THEN <<"DSN", "=">> \o values["dsn"]
    ELSE IF values["connstr"] # <<>> THEN values["connstr"]
    ELSE <<"default">>

\* All the words have been taken, and none was refused.
Whole(s, argv) == s.nerrs = 0 /\ s.idx = Len(argv) + 1

Answers(s, argv, env) == IsParse(s) /\ (Whole(s, argv) => Tells(argv, env, ConnectionOf(s.values)))

\* What follows -dsn or -connstr is what the program connects with.
LEMMA NamedAnswers ==
    ASSUME NEW s, NEW argv \in Seq(Word), Told(s, argv), s.gotDsn, NEW env
    PROVE  Answers(s, argv, env)
  <1> DEFINE given == {argv[i + 1] : i \in {j \in NamedIn(argv) : j < Len(argv)}}
             c == ConnectionOf(s.values)
  <1>1. SUFFICES ASSUME Whole(s, argv) PROVE Tells(argv, env, c)
    BY DEF Answers, Told
  <1>2. /\ \A d \in Held : s.values[d] \in given \cup {<<>>}
        /\ (\A d \in Held : s.values[d] = <<>>) => <<>> \in given
    BY <1>1 DEF Told, Whole
  <1>3. ASSUME NEW word \in given, c \in IF word = <<>> THEN {<<"default">>} ELSE AsConnection(word)
        PROVE  Tells(argv, env, c)
    <2>1. PICK i \in NamedIn(argv) : i < Len(argv) /\ word = argv[i + 1]
      BY <1>3
    <2> HIDE DEF c
    <2>2. QED
      BY <1>3, <2>1 DEF Tells, NamedIn
  <1>4. CASE s.values["dsn"] # <<>>
    <2>1. s.values["dsn"] \in given /\ c = <<"DSN", "=">> \o s.values["dsn"]
      BY <1>2, <1>4 DEF Held, ConnectionOf
    <2> HIDE DEF given, c
    <2>2. QED
      BY <1>3, <1>4, <2>1 DEF AsConnection
  <1>5. CASE s.values["dsn"] = <<>> /\ s.values["connstr"] # <<>>
    <2>1. s.values["connstr"] \in given /\ c = s.values["connstr"]
      BY <1>2, <1>5 DEF Held, ConnectionOf
    <2> HIDE DEF given, c
    <2>2. QED
      BY <1>3, <1>5, <2>1 DEF AsConnection
  <1>6. CASE s.values["dsn"] = <<>> /\ s.values["connstr"] = <<>>
    <2>1. <<>> \in given /\ c = <<"default">>
      BY <1>2, <1>6 DEF Held, ConnectionOf
    <2> HIDE DEF given, c
    <2>2. QED
      BY <1>3, <2>1
  <1>7. QED
    BY <1>4, <1>5, <1>6

\* What the words and the environment leave when neither was given.
LEMMA UnnamedAnswers ==
    ASSUME NEW s, NEW argv \in Seq(Word), Told(s, argv), ~s.gotDsn, Whole(s, argv), NEW env,
           NEW c, c = IF env # <<>> THEN env ELSE <<"default">>
    PROVE  Tells(argv, env, c)
  <1>1. Len(argv) \in Nat /\ DOMAIN argv = 1..Len(argv) /\ s.idx = Len(argv) + 1 /\ s.nerrs = 0
    BY DEF Whole
  <1>2. \A i \in NamedIn(argv) : MayBeArgument(argv, i)
    <2>1. \A i \in NamedIn(argv) : i < s.idx
      BY <1>1 DEF NamedIn
    <2>2. QED
      BY <1>1, <2>1 DEF Told
  <1>3. Len(argv) > 0 => StartsWithDash(argv[Len(argv)]) \/ MayBeArgument(argv, Len(argv))
    <2>1. s.idx - 1 = Len(argv) /\ (Len(argv) > 0 => s.idx > 1)
      BY <1>1
    <2>2. QED
      BY <1>1, <2>1 DEF Told
  <1>4. QED
    BY <1>2, <1>3 DEF Tells, NamedIn

LEMMA SpecialHeld ==
    ASSUME NEW list, ConnectList(list), NEW type \in {"<DSN>", "<CONNSTR>"}
    PROVE  TheOption(list, type).dest = IF type = "<DSN>" THEN "dsn" ELSE "connstr"
  <1> DEFINE i == CHOOSE i \in DOMAIN list.opts : list.opts[i].spec.type = type
  <1>1. i \in DOMAIN list.opts /\ list.opts[i].spec.type = type
    BY DEF ConnectList, HasSpecial
  <1> HIDE DEF i
  <1>2. list.opts[i].spec.dest = IF type = "<DSN>" THEN "dsn" ELSE "connstr"
    BY <1>1 DEF ConnectList, Plain, PlainTypes
  <1>3. QED
    BY <1>2 DEF TheOption, i

LEMMA EmptyNotConnstr == ~LooksLikeConnstr(<<>>)
  <1>1. \A k \in 1..Len(<<>>) : FALSE
    OBVIOUS
  <1>2. QED
    BY <1>1, Zenon DEF LooksLikeConnstr

\* The last word, as a DSN or as a connection string.
LEMMA LastAnswers ==
    ASSUME NEW s, NEW argv \in Seq(Word), IsParse(s), s.idx <= Len(argv), argv[s.idx] # <<>>,
           \A d \in Held : s.values[d] = <<>>, NEW o, o.dest \in Held, NEW env
    PROVE  LET t == CopyStrArg(s, argv, o, NoArg)
           IN  IF t.ok THEN Answers(t, argv, env) ELSE IsParse(t) /\ t.nerrs = s.nerrs
  <1> DEFINE w == argv[s.idx]
  <1>1. CASE ~Fits(o, w) \/ Missing(s, argv)
    <2>1. CopyStrArg(s, argv, o, NoArg) = OptError(s)
      BY <1>1 DEF CopyStrArg, Given
    <2>2. Same(s, OptError(s)) /\ ~OptError(s).ok /\ IsParse(OptError(s))
      BY SmallSame, SameTrans
    <2>3. QED
      BY <2>1, <2>2 DEF Same, Rests
  <1>2. CASE ~(~Fits(o, w) \/ Missing(s, argv))
    <2> DEFINE t == [s EXCEPT !.ok = TRUE, !.values = [s.values EXCEPT ![o.dest] = w], !.idx = s.idx + 1]
    <2>1. CopyStrArg(s, argv, o, NoArg) = Skip(Store(s, o, w), 1)
      BY <1>2 DEF CopyStrArg, Given, Taken
    <2>2. Skip(Store(s, o, w), 1) = t
      BY DEF Skip, Store, Succeed, IsParse
    <2>3. t.ok /\ IsParse(t) /\ t.idx = s.idx + 1 /\ t.values = [s.values EXCEPT ![o.dest] = w]
      BY DEF IsParse
    <2> HIDE DEF t
    <2>4. ConnectionOf(t.values) \in AsConnection(w)
      BY <2>3 DEF ConnectionOf, AsConnection, Held, IsParse
    <2>5. Whole(t, argv) => s.idx = Len(argv) /\ Len(argv) > 0
      BY <2>3 DEF Whole, IsParse
    <2>6. Answers(t, argv, env)
      BY <2>3, <2>4, <2>5 DEF Answers, Tells
    <2>7. QED
      BY <2>1, <2>2, <2>3, <2>6
  <1>3. QED
    BY <1>1, <1>2

LEMMA FinishAnswers ==
    ASSUME NEW s, NEW argv \in Seq(Word), Told(s, argv), NEW list, ConnectList(list), NEW env
    PROVE  LET t == Finish(s, argv, list, env)
           IN  t.place = "crash" \/ Answers(t, argv, env)
  <1> DEFINE here(type) == HasSpecial(list, type) /\ s.idx <= Len(argv)
             type == IF here("<DSN>") /\ LooksLikeDsn(argv[s.idx]) THEN "<DSN>" ELSE "<CONNSTR>"
             found == \/ here("<DSN>") /\ LooksLikeDsn(argv[s.idx])
                      \/ here("<CONNSTR>") /\ LooksLikeConnstr(argv[s.idx])
             copied == CopyStrArg(s, argv, TheOption(list, type), NoArg)
             o == TheOption(list, "<CONNSTR>")
             Refuses(u) == [OptError(u) EXCEPT !.nerrs = @ + 1]
             NoConnection(u) == IF "noConnstrOk" \in list.mode THEN u ELSE Refuses(u)
             r == HandleConnstr(s, argv, list, env)
  <1>1. r = IF s.nerrs > 0 \/ ~Pending(s, list) THEN s
            ELSE IF found THEN IF copied.ok THEN copied ELSE [copied EXCEPT !.nerrs = @ + 1]
            ELSE IF "noEnv" \notin list.mode /\ env # <<>>
                 THEN IF ~HasSpecial(list, "<CONNSTR>") THEN [s EXCEPT !.place = "crash"]
                      ELSE IF Fits(o, env) THEN Store(s, o, env) ELSE NoConnection(Refuses(s))
            ELSE NoConnection(s)
    BY DEF HandleConnstr
  <1>2. IsParse(s)
    BY DEF Told
  <1>3. \A u : IsParse(u) => LET more == [u EXCEPT !.nerrs = @ + 1] IN IsParse(more) /\ ~Whole(more, argv)
    BY DEF IsParse, Whole
  <1>4. \A u : IsParse(u) /\ ~Whole(u, argv) => Answers(u, argv, env)
    BY DEF Answers
  <1>5. \A u : NoConnection(u) = u
    BY DEF ConnectList
  <1>6. IsParse(OptError(s))
    BY <1>2, SmallSame, SameTrans
  <1>7. HasSpecial(list, "<CONNSTR>") /\ HasSpecial(list, "<DSN>") /\ "noEnv" \notin list.mode
    BY DEF ConnectList
  <1> HIDE DEF r, found, copied, o, NoConnection
  <1>8. Answers(r, argv, env)
    <2>1. CASE s.nerrs > 0
      <3>1. r = s /\ ~Whole(s, argv)
        BY <1>1, <2>1 DEF Whole
      <3>2. QED
        BY <1>2, <1>4, <3>1
    <2>2. CASE ~(s.nerrs > 0) /\ ~Pending(s, list)
      <3>1. r = s /\ s.gotDsn
        BY <1>1, <1>7, <2>2 DEF Pending
      <3>2. QED
        BY <3>1, NamedAnswers
    <2>3. CASE ~(s.nerrs > 0) /\ Pending(s, list)
      <3>1. s.nerrs = 0 /\ ~s.gotDsn
        BY <1>2, <2>3 DEF Pending, IsParse
      <3>2. \A d \in Held : s.values[d] = <<>>
        BY <3>1 DEF Told
      <3>3. CASE found
        <4>1. r = IF copied.ok THEN copied ELSE [copied EXCEPT !.nerrs = @ + 1]
          BY <1>1, <2>3, <3>3
        <4>2. s.idx <= Len(argv) /\ argv[s.idx] # <<>>
          BY <3>3, EmptyNotConnstr DEF found, LooksLikeDsn
        <4>3. TheOption(list, type).dest \in Held
          BY SpecialHeld DEF Held
        <4> HIDE DEF type
        <4>4. IF copied.ok THEN Answers(copied, argv, env) ELSE IsParse(copied)
          BY <1>2, <3>2, <4>2, <4>3, LastAnswers DEF copied
        <4>5. QED
          BY <1>3, <1>4, <4>1, <4>4
      <3>4. CASE ~found /\ env # <<>> /\ Fits(o, env)
        <4>1. r = Store(s, o, env)
          BY <1>1, <1>7, <2>3, <3>4
        <4>2. o.dest = "connstr"
          BY SpecialHeld DEF o
        <4> DEFINE t == [s EXCEPT !.ok = TRUE, !.values = [s.values EXCEPT !["connstr"] = env]]
        <4>3. Store(s, o, env) = t
          BY <4>2 DEF Store, Succeed, IsParse
        <4>4. IsParse(t) /\ t.nerrs = s.nerrs /\ t.idx = s.idx
              /\ t.values = [s.values EXCEPT !["connstr"] = env]
          BY <1>2 DEF IsParse
        <4> HIDE DEF t
        <4>5. ConnectionOf(t.values) = env
          BY <1>2, <3>2, <3>4, <4>4 DEF ConnectionOf, Held, IsParse
        <4>6. Whole(t, argv) => Whole(s, argv)
          BY <4>4 DEF Whole
        <4>7. QED
          BY <3>1, <3>4, <4>1, <4>3, <4>4, <4>5, <4>6, UnnamedAnswers DEF Answers
      <3>5. CASE ~found /\ env # <<>> /\ ~Fits(o, env)
        <4>1. r = Refuses(s)
          BY <1>1, <1>5, <1>7, <2>3, <3>5
        <4>2. QED
          BY <1>3, <1>4, <1>6, <4>1
      <3>6. CASE ~found /\ env = <<>>
        <4>1. r = s
          BY <1>1, <1>5, <2>3, <3>6
        <4>2. ConnectionOf(s.values) = <<"default">>
          BY <3>2 DEF ConnectionOf, Held
        <4>3. QED
          BY <1>2, <3>1, <3>6, <4>1, <4>2, UnnamedAnswers DEF Answers
      <3>7. QED
        BY <3>3, <3>4, <3>5, <3>6
    <2>4. QED
      BY <2>1, <2>2, <2>3
  <1>9. CASE r.place = "crash"
    BY <1>9 DEF Finish, r
  <1>10. CASE r.place # "crash"
    <2>1. Finish(s, argv, list, env) = [r EXCEPT !.place = "parsed"]
      BY <1>10 DEF Finish, r
    <2>2. Answers([r EXCEPT !.place = "parsed"], argv, env)
      BY <1>8 DEF Answers, IsParse, Whole
    <2>3. QED
      BY <2>1, <2>2
  <1>11. QED
    BY <1>9, <1>10

\* A program that connects has what it was told, from word to word and to its work.
Connecting ==
    Getopt /\ Program.connects =>
        /\ st.place \in {"options", "args", "connstr"} => Told(st, input.argv)
        /\ st.place = "parsed" => Answers(st, input.argv, input.env)
        /\ st.place = "run" => Tells(input.argv, input.env, ConnectionOf(st.values))

LEMMA StartTold ==
    ASSUME NEW prog \in DOMAIN Programs, Programs[prog].connects, NEW argv \in Seq(Word)
    PROVE  Told([Start(Programs[prog].values) EXCEPT !.place = "options"], argv)
  <1> DEFINE s == [Start(Programs[prog].values) EXCEPT !.place = "options"]
  <1>1. /\ s.idx = 1 /\ s.nerrs = 0 /\ s.gotDsn = FALSE /\ s.values = Programs[prog].values
        /\ {"idx", "values", "msgs", "seen", "nerrs", "gotDsn", "ok", "place"} \subseteq DOMAIN s
    BY DEF Start
  <1> HIDE DEF s
  <1>2. Held \subseteq DOMAIN s.values /\ \A d \in Held : s.values[d] = <<>>
    BY <1>1, ConnectAssumption DEF Held
  <1>3. Len(argv) \in Nat /\ \A i \in NamedIn(argv) : ~(i < 1)
    BY DEF NamedIn
  <1>4. Told(s, argv)
    BY <1>1, <1>2, <1>3 DEF Told, IsParse
  <1>5. QED
    BY <1>4 DEF s

LEMMA WordsOf == ASSUME Getopt, input \in Inputs PROVE input.argv \in Seq(Word)
  BY WordsAssumption DEF Getopt, Word

LEMMA ConnectingInductive ==
    /\ BenchInit => Connecting
    /\ Parsing /\ OptionsAdded /\ Connecting /\ [BenchNext]_benchVars => Connecting'
  <1>1. BenchInit => Connecting
    <2> SUFFICES ASSUME BenchInit, Getopt, Program.connects
                 PROVE  st.place = "options" /\ Told(st, input.argv)
      BY DEF Connecting
    <2>1. /\ st = [Start(Program.values) EXCEPT !.place = "options"]
          /\ input.argv \in Seq(Word)
      BY WordsOf DEF BenchInit, Init
    <2>2. st.place = "options"
      BY <2>1 DEF Start
    <2>3. QED
      BY <2>1, <2>2, StartTold DEF Program, Getopt
  <1>2. ASSUME Parsing, OptionsAdded, Connecting, [BenchNext]_benchVars PROVE Connecting'
    <2> USE <1>2
    <2>1. ASSUME UNCHANGED <<input, st>> PROVE Connecting'
      BY <2>1 DEF Connecting, Getopt, Program
    <2>2. ASSUME UNCHANGED input,
                 Getopt /\ Program.connects =>
                     /\ st'.place \in {"options", "args", "connstr"} => Told(st', input.argv)
                     /\ st'.place = "parsed" => Answers(st', input.argv, input.env)
                     /\ st'.place = "run" => Tells(input.argv, input.env, ConnectionOf(st'.values))
          PROVE  Connecting'
      BY <2>2 DEF Connecting, Getopt, Program
    <2>3. ASSUME Getopt, Program.connects, At("args") \/ At("connstr")
          PROVE  Told(st, input.argv) /\ input.argv \in Seq(Word) /\ ConnectList(ol)
      <3>1. Told(st, input.argv) /\ input.argv \in Seq(Word)
        BY <2>3, WordsOf DEF Connecting, At, OptionsAdded
      <3>2. ol = AddOptions(Program.specs, Program.mode) /\ ol.ok
        BY <2>3 DEF OptionsAdded
      <3>3. ConnectList(ol)
        BY <2>3, <3>2, ConnectsWithList DEF Program, Getopt
      <3>4. QED
        BY <3>1, <3>3
    <2>4. ASSUME Next PROVE Connecting'
      <3>1. CASE Over
        BY <2>1, <3>1 DEF Over, vars
      <3>2. CASE GetOptions
        <4>1. UNCHANGED input /\ At("options")
          BY <3>2 DEF GetOptions
        <4>2. ASSUME Getopt, Program.connects, st'.place # "refused"
              PROVE  st'.place = "args" /\ Told(st', input.argv)
          <5>1. Told(st, input.argv)
            BY <4>1, <4>2 DEF Connecting, At
          <5>2. "place" \in DOMAIN Say(st)
            BY <5>1 DEF Told, IsParse, Say
          <5>3. st' = [st EXCEPT !.place = "args"]
            BY <3>2, <4>2, <5>2 DEF GetOptions
          <5>4. Same(st, st') /\ st'.place = "args"
            BY <5>1, <5>3 DEF Same, Rests, Told, IsParse
          <5>5. QED
            BY <5>1, <5>4, ToldSame
        <4>3. QED
          BY <2>2, <4>1, <4>2
      <3>3. CASE ParseArgs
        <4>1. UNCHANGED input /\ At("args")
          BY <3>3 DEF ParseArgs
        <4>2. ASSUME Getopt, Program.connects
              PROVE  st'.place \in {"args", "connstr", "exit0", "crash"}
                     /\ (st'.place \in {"args", "connstr"} => Told(st', input.argv))
          <5>1. PICK p \in {"nul", "text", "unmapped"} :
                    st' = [ParseArg([st EXCEPT !.p = p], input.argv, ol) EXCEPT !.p = "nul"]
            BY <3>3 DEF ParseArgs
          <5> DEFINE s == [st EXCEPT !.p = p]
                     t == ParseArg(s, input.argv, ol)
          <5>2. Told(st, input.argv) /\ input.argv \in Seq(Word) /\ ConnectList(ol)
            BY <2>3, <4>1, <4>2
          <5>3. Same(st, s) /\ s.place = "args"
            BY <4>1, <5>2 DEF Same, Rests, Told, IsParse, At
          <5>4. Told(s, input.argv) /\ "place" \in DOMAIN s
            BY <5>2, <5>3, ToldSame DEF Told, IsParse
          <5> HIDE DEF s
          <5>5. t.place \in {"exit0", "crash"} \/ Told(t, input.argv)
            BY <5>2, <5>3, <5>4, ParseTold
          <5>6. "place" \in DOMAIN t /\ t.place \in {"args", "connstr", "exit0", "crash"}
            BY <5>3, <5>4, ParseArgPlace
          <5> HIDE DEF t
          <5>7. st' = [t EXCEPT !.p = "nul"] /\ st'.place = t.place
            BY <5>1, <5>6 DEF t, s
          <5>8. ASSUME Told(t, input.argv) PROVE Told(st', input.argv)
            <6>1. Same(t, st')
              BY <5>7, <5>8 DEF Same, Rests, Told, IsParse
            <6>2. QED
              BY <5>8, <6>1, ToldSame
          <5>9. QED
            BY <5>5, <5>6, <5>7, <5>8
        <4>3. QED
          BY <2>2, <4>1, <4>2
      <3>4. CASE Connstr
        <4>1. UNCHANGED input /\ At("connstr") /\ st' = Finish(st, input.argv, ol, input.env)
          BY <3>4 DEF Connstr
        <4>2. ASSUME Getopt, Program.connects
              PROVE  st'.place \in {"parsed", "crash"}
                     /\ (st'.place = "parsed" => Answers(st', input.argv, input.env))
          <5>1. Told(st, input.argv) /\ input.argv \in Seq(Word) /\ ConnectList(ol)
            BY <2>3, <4>1, <4>2
          <5>2. st'.place \in {"parsed", "crash"}
            BY <4>1, FinishPlace DEF Parsing
          <5>3. st'.place = "crash" \/ Answers(st', input.argv, input.env)
            BY <4>1, <5>1, FinishAnswers
          <5>4. QED
            BY <5>2, <5>3
        <4>3. QED
          BY <2>2, <4>1, <4>2
      <3>5. CASE CheckOptions
        <4>1. UNCHANGED input /\ At("parsed")
          BY <3>5 DEF CheckOptions
        <4>2. ASSUME Getopt, Program.connects
              PROVE  /\ st'.place \in {"refused", "run"}
                     /\ st'.place = "run" => Tells(input.argv, input.env, ConnectionOf(st'.values))
          <5>1. Answers(st, input.argv, input.env)
            BY <4>1, <4>2 DEF Connecting, At
          <5>2. ConnectAs \in {"refused", "run"}
            BY DEF ConnectAs
          <5>3. st'.place \in {"refused", "run"} /\ st'.values = st.values
            BY <3>5, <5>1, <5>2 DEF CheckOptions, Answers, IsParse
          <5>4. ASSUME st'.place = "run" PROVE Whole(st, input.argv)
            <6>1. Returned(st) # -1 /\ Returned(st) = Len(input.argv) + 1
              BY <3>5, <5>1, <5>4 DEF CheckOptions, Answers, IsParse
            <6>2. QED
              BY <6>1 DEF Returned, Whole
          <5>5. QED
            BY <5>1, <5>3, <5>4 DEF Answers
        <4>3. QED
          BY <2>2, <4>1, <4>2
      <3>6. CASE GsParseArgs \/ GsPassword \/ GsOpenLog
        <4>1. ~Getopt /\ UNCHANGED input
          BY <3>6 DEF GsParseArgs, GsPassword, GsOpenLog, At, Parsing, GetoptPlaces
        <4>2. QED
          BY <2>2, <4>1
      <3>7. QED
        BY <2>4, <3>1, <3>2, <3>3, <3>4, <3>5, <3>6 DEF Next
    <2>5. ASSUME Again PROVE Connecting'
      <3>1. /\ input' \in Inputs /\ input'.prog = input.prog
            /\ st' = [Start(Program.values) EXCEPT !.place = "options"]
        BY <2>5, BenchAssumption DEF Again
      <3>2. Program' = Program /\ Getopt' = Getopt
        BY <3>1 DEF Program, Getopt
      <3>3. ASSUME Getopt, Program.connects PROVE st'.place = "options" /\ Told(st', input'.argv)
        <4>1. input'.argv \in Seq(Word)
          BY <3>1, <3>3, WordsAssumption DEF Getopt, Word
        <4>2. st'.place = "options"
          BY <3>1 DEF Start
        <4>3. QED
          BY <3>1, <3>3, <4>1, <4>2, StartTold DEF Program, Getopt
      <3>4. QED
        BY <3>2, <3>3 DEF Connecting
    <2>6. QED
      BY <2>1, <2>4, <2>5 DEF BenchNext, Step, benchVars
  <1>3. QED
    BY <1>1, <1>2

LEMMA ConnectingTells == ASSUME Connecting PROVE ConnectsAsTold
  BY DEF Connecting, ConnectsAsTold, At, Connection, ConnectionOf

\* For all the options and command lines of the programs that connect, they
\* connect with what their command line and TT_CONNSTR say: the connection of a
\* parse comes from the words after -dsn and -connstr as long as none was
\* refused, and -dsn and -connstr are read as such unless they are arguments.
THEOREM ConnectsAsToldSafe == BenchSpec => []ConnectsAsTold
  BY ParsingInductive, OptionsAddedInductive, ConnectingInductive, ConnectingTells, PTL DEF BenchSpec

-----------------------------------------------------------------------------
(* pooltest: the pool and its threads.                                     *)

Idle == {"none", "loop", "ended"}
Busy == {"use", "handleInvalid", "password", "reconnect", "free"}

Typed ==
    /\ pool \subseteq Conns /\ free \subseteq pool
    /\ cP \in [Threads -> pool \cup {NoConn}]
    /\ tpc \in [Threads -> Idle \cup Busy]
    /\ mpc \in {"args", "password", "table", "pool", "spawn", "join", "spawnFetch",
                "joinFetch", "disconnect", "exited", "aborted"}
    /\ tid \in Threads

\* A thread has a connection exactly while it works with one; it is not in
\* the pool, and nobody else has it; and somebody has what is not in the pool.
Holding   == \A t \in Threads : cP[t] = NoConn <=> tpc[t] \in Idle
Exclusive == \A t \in Threads :
    /\ cP[t] \notin free
    /\ \A u \in Threads : cP[t] = cP[u] /\ cP[t] # NoConn => t = u
Accounted == \A c \in pool \ free : \E t \in Threads : cP[t] = c

\* A thread that main does not wait for: it has ended or was not created.
Past(t) == tpc[t] \in {"none", "ended"}

\* What main knows of the threads.
Stage ==
    /\ mpc \in {"args", "password", "table", "pool"} =>
        /\ pool = {} /\ tid = 0
        /\ \A t \in Threads : tpc[t] = "none"
    /\ mpc = "spawn" =>
        /\ tid \in Inserters
        /\ \A t \in Threads : t >= tid => tpc[t] = "none"
    /\ mpc = "join" =>
        /\ tid \in Inserters
        /\ \A t \in Fetchers : tpc[t] = "none"
        /\ \A t \in Threads : t < tid => Past(t)
    /\ mpc = "spawnFetch" =>
        /\ tid \in Fetchers
        /\ \A t \in Inserters : Past(t)
        /\ \A t \in Threads : t >= tid => tpc[t] = "none"
    /\ mpc = "joinFetch" =>
        /\ tid \in Fetchers
        /\ \A t \in Threads : t < tid => Past(t)
    /\ mpc = "disconnect" => \A t \in Threads : Past(t)

PInv == Typed /\ Holding /\ Exclusive /\ Accounted /\ Stage

-----------------------------------------------------------------------------
LEMMA ThreadNumbers ==
    /\ \A t : t \in Threads <=> t \in Int /\ 0 <= t /\ t < NInserters + NFetchers
    /\ \A t : t \in Inserters <=> t \in Threads /\ t < NInserters
    /\ \A t : t \in Fetchers <=> t \in Threads /\ t >= NInserters
    /\ 0 \in Inserters /\ NInserters \in Fetchers
  BY PoolAssumption DEF Threads, Inserters, Fetchers

LEMMA NotAConnection == NoConn \notin Conns
  BY DEF NoConn, Conns

LEMMA InitPInv == PoolInit => PInv
  BY ThreadNumbers DEF PoolInit, PInv, Typed, Holding, Exclusive, Accounted, Stage, Idle, Busy, NoConn

LEMMA ThreadTyped == ASSUME PInv, NEW t \in Threads, PoolThread(t) \/ TypesPassword(t)
                     PROVE  Typed'
  <1> USE DEF PInv, Typed, Idle, Busy, places, main, table
  <1>1. CASE GetConnection(t)
    <2>1. PICK c \in free : cP' = [cP EXCEPT ![t] = c] /\ free' = free \ {c}
      BY <1>1 DEF GetConnection
    <2>2. QED
      BY <1>1, <2>1 DEF GetConnection, Goto
  <1>2. CASE FreeConnection(t)
    <2>1. cP[t] \in pool
      BY <1>2, NotAConnection DEF FreeConnection, Holding
    <2>2. QED
      BY <1>2, <2>1 DEF FreeConnection, FreeAgain, Goto
  <1>3. CASE SeesStop(t) \/ WorkDone(t) \/ InsertRow(t) \/ FetchRow(t)
    BY <1>3 DEF SeesStop, WorkDone, InsertRow, TakeRow, FetchRow, Goto
  <1>4. CASE InsertRowFails(t) \/ HandleInvalidDatabase(t) \/ TypesPassword(t) \/ Reconnect(t)
    BY <1>4 DEF InsertRowFails, TakeRow, HandleInvalidDatabase, TypesPassword, Reconnect, Goto, Abort
  <1>5. QED
    BY <1>1, <1>2, <1>3, <1>4 DEF PoolThread

\* The steps of a thread change its own connection and place only.
LEMMA ThreadStage == ASSUME PInv, NEW t \in Threads, PoolThread(t) \/ TypesPassword(t)
                     PROVE  Stage'
  <1>1. /\ tpc[t] \notin {"none", "ended"}
        /\ \A u \in Threads : u # t => tpc'[u] = tpc[u]
        /\ UNCHANGED <<pool, tid>> /\ mpc' \in {mpc, "aborted"}
    BY DEF PInv, Typed, Idle, Busy, PoolThread, SeesStop, WorkDone, GetConnection, TakeRow,
           InsertRow, InsertRowFails, HandleInvalidDatabase, TypesPassword, Reconnect, FetchRow, FreeConnection,
           Goto, Abort, places, main, table
  <1>2. \A u \in Threads : (tpc[u] = "none" => tpc'[u] = "none") /\ (Past(u) => Past(u)')
    BY <1>1 DEF Past
  <1>3. Inserters \subseteq Threads /\ Fetchers \subseteq Threads
    BY DEF Threads
  <1>4. QED
    BY <1>1, <1>2, <1>3 DEF PInv, Stage

LEMMA ThreadHolds == ASSUME PInv, NEW t \in Threads, PoolThread(t) \/ TypesPassword(t)
                     PROVE  Holding' /\ Exclusive' /\ Accounted'
  <1> USE DEF PInv, Holding, Exclusive, Accounted
  <1>1. CASE UNCHANGED <<pool, free, cP>>
    <2>1. tpc' = tpc \/ \E place \in Idle \cup Busy :
             tpc' = [tpc EXCEPT ![t] = place] /\ (place \in Idle <=> tpc[t] \in Idle)
      BY <1>1, NotAConnection DEF Typed, Idle, Busy, PoolThread, SeesStop, WorkDone, GetConnection,
         TakeRow, InsertRow, InsertRowFails, HandleInvalidDatabase, TypesPassword, Reconnect, FetchRow, FreeConnection,
         Goto, Abort, places, main, table
    <2>2. QED
      BY <1>1, <2>1 DEF Typed
  <1>2. CASE GetConnection(t)
    <2>1. PICK c \in free : cP' = [cP EXCEPT ![t] = c] /\ free' = free \ {c}
      BY <1>2 DEF GetConnection
    <2>2. tpc[t] = "loop" /\ tpc' = [tpc EXCEPT ![t] = "use"] /\ pool' = pool
      BY <1>2 DEF GetConnection, Goto
    <2>3. c # NoConn /\ c \in pool /\ cP[t] = NoConn
      BY <2>2, NotAConnection DEF Typed, Idle
    <2>4. Holding'
      BY <2>1, <2>2, <2>3 DEF Typed, Idle
    <2>5. Exclusive'
      BY <2>1, <2>2, <2>3 DEF Typed
    <2>6. Accounted'
      BY <2>1, <2>2, <2>3, NotAConnection DEF Typed
    <2>7. QED
      BY <2>4, <2>5, <2>6
  <1>3. CASE FreeConnection(t)
    <2>1. /\ cP' = [cP EXCEPT ![t] = NoConn] /\ free' = free \cup {cP[t]}
          /\ tpc[t] \in {"free", "use"} /\ tpc' = [tpc EXCEPT ![t] = "loop"] /\ pool' = pool
      BY <1>3 DEF FreeConnection, FreeAgain, Goto
    <2>2. cP[t] # NoConn /\ cP[t] \in pool /\ NoConn \notin pool
      BY <2>1, NotAConnection DEF Typed, Idle
    <2>3. Holding'
      BY <2>1, <2>2 DEF Typed, Idle
    <2>4. Exclusive'
      BY <2>1, <2>2 DEF Typed
    <2>5. Accounted'
      BY <2>1, <2>2 DEF Typed
    <2>6. QED
      BY <2>3, <2>4, <2>5
  <1>4. QED
    BY <1>1, <1>2, <1>3 DEF PoolThread, SeesStop, WorkDone, TakeRow, InsertRow,
       InsertRowFails, HandleInvalidDatabase, TypesPassword, Reconnect, FetchRow, places

-----------------------------------------------------------------------------
\* Creating a thread makes it busy with nothing yet.
LEMMA SpawnPInv == ASSUME PInv, SpawnInserter \/ SpawnFetcher
                   PROVE  PInv'
  <1>1. PICK t \in Threads :
          /\ tid = t /\ tpc' = [tpc EXCEPT ![t] = "loop"] /\ UNCHANGED <<pool, free, cP>>
          /\ \/ /\ mpc = "spawn" /\ t \in Inserters
                /\ \/ t = NInserters - 1 /\ mpc' = "join" /\ tid' = 0
                   \/ t # NInserters - 1 /\ mpc' = mpc /\ tid' = t + 1
             \/ /\ mpc = "spawnFetch" /\ t \in Fetchers
                /\ \/ t = NInserters + NFetchers - 1 /\ mpc' = "joinFetch" /\ tid' = NInserters
                   \/ t # NInserters + NFetchers - 1 /\ mpc' = mpc /\ tid' = t + 1
    BY ThreadNumbers DEF SpawnInserter, SpawnFetcher, Spawn, Goto, places
  <1> USE PoolAssumption, ThreadNumbers DEF PInv
  <1>2. Typed'
    BY <1>1 DEF Typed, Idle, Busy
  <1>3. tpc[t] = "none" /\ cP[t] = NoConn
    BY <1>1 DEF Stage, Typed, Holding, Idle
  <1>4. Holding' /\ Exclusive' /\ Accounted'
    BY <1>1, <1>3 DEF Typed, Holding, Exclusive, Accounted, Idle
  <1>5. Stage'
    BY <1>1, <1>3 DEF Typed, Stage, Past
  <1>6. QED
    BY <1>2, <1>4, <1>5

\* The rest of main: what it learns from a join.
LEMMA JoinPInv == ASSUME PInv, Join \/ JoinUninitialized
                  PROVE  PInv'
  <1>1. /\ UNCHANGED <<pool, free, cP, tpc>> /\ mpc \in {"join", "joinFetch"} /\ Past(tid)
        /\ Joined \/ (mpc' = "aborted" /\ tid' = tid)
    BY DEF Join, JoinUninitialized, HasEnded, Past, Abort, places
  <1>2. \/ mpc' = "aborted" /\ tid' = tid
        \/ mpc = "join" /\ tid < NInserters - 1 /\ tid' = tid + 1 /\ mpc' = mpc
        \/ mpc = "join" /\ tid = NInserters - 1 /\ mpc' = "spawnFetch" /\ tid' = NInserters
        \/ mpc = "joinFetch" /\ tid < NInserters + NFetchers - 1 /\ tid' = tid + 1 /\ mpc' = mpc
        \/ mpc = "joinFetch" /\ tid >= NInserters + NFetchers - 1
           /\ mpc' = "disconnect" /\ tid' = tid
    BY <1>1, PoolAssumption, ThreadNumbers DEF Joined, PInv, Typed, Stage
  <1> USE PoolAssumption, ThreadNumbers DEF PInv
  <1>3. Typed'
    BY <1>1, <1>2 DEF Typed
  <1>4. Holding' /\ Exclusive' /\ Accounted'
    BY <1>1 DEF Holding, Exclusive, Accounted
  <1>5. Stage'
    BY <1>1, <1>2 DEF Typed, Stage, Past
  <1>6. QED
    BY <1>3, <1>4, <1>5

LEMMA OtherPInv ==
    ASSUME PInv, \/ Startup \/ TypesFirstPassword \/ CreateTable \/ ConnectAll \/ SpawnEndsEarly \/ DisconnectAll
                 \/ RequestStop \/ Invalidate \/ UNCHANGED poolVars
    PROVE  PInv'
  <1> USE PoolAssumption, ThreadNumbers DEF PInv, places, main, table
  <1>1. CASE ConnectAll
    <2>1. /\ UNCHANGED <<cP, tpc, tid>> /\ free = {} /\ mpc' \in {"spawn", "aborted"}
          /\ pool' = free' /\ pool' \subseteq Conns
      <3>1. mpc = "pool" /\ pool = {} /\ free = {} /\ UNCHANGED <<cP, tpc, tid>>
        BY <1>1 DEF ConnectAll, Abort, Typed, Stage
      <3>2. CASE Abort /\ UNCHANGED <<pool, free>>
        BY <3>1, <3>2 DEF Abort
      <3>3. CASE \E n \in 0..NConn : pool' = 1..n /\ free' = 1..n /\ mpc' = "spawn"
        BY <3>1, <3>3 DEF Conns
      <3>4. QED
        BY <1>1, <3>1, <3>2, <3>3 DEF ConnectAll
    <2>2. \A t \in Threads : tpc[t] = "none" /\ cP[t] = NoConn
      BY <1>1 DEF ConnectAll, Stage, Holding, Idle
    <2>3. tid = 0 /\ \A t \in Threads : tpc'[t] = "none"
      BY <1>1, <2>1, <2>2 DEF ConnectAll, Stage
    <2>4. Typed' /\ Stage'
      <3>1. Typed'
        <4>1. cP' \in [Threads -> pool' \cup {NoConn}]
          BY <2>1, <2>2 DEF Typed
        <4>2. QED
          BY <2>1, <4>1 DEF Typed
      <3>2. Stage'
        BY <2>1, <2>3 DEF Stage
      <3>3. QED
        BY <3>1, <3>2
    <2>5. Holding' /\ Exclusive' /\ Accounted'
      BY <2>1, <2>2, NotAConnection DEF Holding, Exclusive, Accounted, Idle
    <2>6. QED
      BY <2>4, <2>5
  <1>2. CASE SpawnEndsEarly
    <2>1. /\ UNCHANGED <<pool, free, cP, tpc>>
          /\ \/ mpc = "spawn" /\ mpc' = "join" /\ tid' = 0
             \/ mpc = "spawnFetch" /\ mpc' = "joinFetch" /\ tid' = NInserters
      BY <1>2 DEF SpawnEndsEarly
    <2>2. Typed' /\ Holding' /\ Exclusive' /\ Accounted'
      BY <2>1 DEF Typed, Holding, Exclusive, Accounted
    <2>3. \A t \in Threads : Past(t)' <=> Past(t)
      BY <2>1 DEF Past
    <2>4. CASE mpc = "spawn"
      <3>1. tid \in Inserters /\ \A t \in Threads : t >= tid => tpc'[t] = "none"
        BY <2>1, <2>4 DEF Stage
      <3>2. \A t \in Fetchers : tpc'[t] = "none"
        BY <3>1
      <3>3. mpc' = "join" /\ tid' = 0
        BY <2>1, <2>4
      <3>4. QED
        BY <2>2, <3>2, <3>3 DEF Stage
    <2>5. CASE mpc = "spawnFetch"
      <3>1. \A t \in Threads : t < NInserters => Past(t)'
        BY <2>3, <2>5 DEF Stage
      <3>2. mpc' = "joinFetch" /\ tid' = NInserters
        BY <2>1, <2>5
      <3>3. QED
        BY <2>2, <3>1, <3>2 DEF Stage
    <2>6. QED
      BY <2>1, <2>2, <2>4, <2>5
  <1>3. CASE Startup \/ TypesFirstPassword \/ CreateTable \/ DisconnectAll
    <2>1. /\ UNCHANGED <<pool, free, cP, tpc, tid>>
          /\ \/ mpc = "args" /\ mpc' = "password"
             \/ mpc = "password" /\ mpc' = "table"
             \/ mpc = "table" /\ mpc' = "pool"
             \/ mpc' \in {"exited", "aborted"}
      BY <1>3 DEF Startup, TypesFirstPassword, CreateTable, DisconnectAll
    <2>2. Typed' /\ Stage'
      BY <2>1 DEF Typed, Stage, Past
    <2>3. Holding' /\ Exclusive' /\ Accounted'
      BY <2>1 DEF Holding, Exclusive, Accounted
    <2>4. QED
      BY <2>2, <2>3
  <1>4. CASE RequestStop \/ Invalidate \/ UNCHANGED poolVars
    BY <1>4 DEF RequestStop, Invalidate, poolVars, Typed, Holding, Exclusive, Accounted, Stage, Past
  <1>5. QED
    BY <1>1, <1>2, <1>3, <1>4

LEMMA NextPInv == PInv /\ [PoolNext]_poolVars => PInv'
  BY ThreadTyped, ThreadStage, ThreadHolds, SpawnPInv, JoinPInv, OtherPInv
     DEF PInv, PoolNext, Main, User, PoolOver, NoConnections

-----------------------------------------------------------------------------
\* Whatever fails while a thread works with a connection of the pool, it is in
\* the pool or with one thread, and main disconnects a pool that is complete
\* (doInsert and doFetch of pooltest.cpp, and main).
THEOREM PoolComplete == PoolSpec => []AllReturned
  <1>1. PoolInit => PInv
    BY InitPInv
  <1>2. PInv => AllReturned
    <2> SUFFICES ASSUME PInv
                 PROVE  AllReturned
      OBVIOUS
    <2> USE DEF PInv
    <2>1. ASSUME NEW c \in pool, c \in free, NEW t \in Threads
          PROVE  cP[t] # c
      BY <2>1 DEF Exclusive
    <2>2. ASSUME NEW c \in pool, c \notin free
          PROVE  Cardinality({t \in Threads : cP[t] = c}) = 1
      <3>1. c # NoConn
        BY NotAConnection DEF Typed
      <3>2. PICK t \in Threads : cP[t] = c
        BY <2>2 DEF Accounted
      <3>3. {u \in Threads : cP[u] = c} = {t}
        BY <3>1, <3>2 DEF Exclusive
      <3>4. QED
        BY <3>3, FS_Singleton
    <2>3. mpc = "disconnect" => free = pool
      BY NotAConnection DEF Stage, Past, Holding, Accounted, Typed, Idle
    <2>4. QED
      BY <2>1, <2>2, <2>3 DEF AllReturned
  <1>3. QED
    BY <1>1, <1>2, NextPInv, PTL DEF PoolSpec
=============================================================================
