------------------------------- MODULE GsArgs -------------------------------
(***************************************************************************)
(* GSArgs.c: the command line of the scaleout sample program GridSample,   *)
(* as operators on the state of its parse (as it is built without DEBUG    *)
(* and SPECIAL_FEATURES).  Words are sequences of tokens and sizes count   *)
(* tokens; a number is one token.                                          *)
(***************************************************************************)
EXTENDS Integers, Sequences, FiniteSets

CONSTANTS
    SimpleInts,    \* tokens of at most 9 digits, without a sign -> their values
    MaxLenDsn,     \* MAX_LEN_DSN, _UID and _PWD
    MinRptInterval,    \* VB_MIN_RPT_INTERVAL
    MaxLenMix          \* of -txnmix

ASSUME GsAssumption == \A t \in DOMAIN SimpleInts : SimpleInts[t] \in Nat

TheNames == {<<"-", "help">>, <<"-", "verbose">>, <<"-", "silent">>, <<"-", "nocleanup">>,
             <<"-", "txnmix">>, <<"-", "dsn">>, <<"-", "uid">>, <<"-", "pwd">>, <<"-", "log">>,
             <<"-", "debug">>, <<"-", "numtxn">>, <<"-", "duration">>}

\* The options that exclude each other.
Excluded(name) ==
    CASE name = <<"-", "verbose">>  -> <<"-", "silent">>
      [] name = <<"-", "silent">>   -> <<"-", "verbose">>
      [] name = <<"-", "log">>      -> <<"-", "debug">>
      [] name = <<"-", "numtxn">>   -> <<"-", "duration">>
      [] name = <<"-", "duration">> -> <<"-", "numtxn">>
      [] OTHER -> name

TakesValue(name) ==
    name \notin {<<"-", "help">>, <<"-", "verbose">>, <<"-", "silent">>, <<"-", "nocleanup">>}

\* initContext
DefaultMix == <<70, 15, 5, 5, 5>>

GsStart ==
    [argno |-> 1, found |-> {}, mix |-> DefaultMix, limit |-> FALSE, numTxn |-> 0,
     duration |-> 0, level |-> "normal", interval |-> 30, cleanup |-> TRUE,
     dsn |-> <<"default">>, uid |-> <<"appuser">>, pwd |-> "NULL", log |-> <<>>,
     place |-> "gsArgs"]

IsSimpleInt(w) == Len(w) = 1 /\ w[1] \in DOMAIN SimpleInts
IntValue(w)    == SimpleInts[w[1]]

\* The text between the commas, as strsep returns it; four commas make five.
Fields(w) == [i \in 1..((Len(w) + 1) \div 2) |-> <<w[2 * i - 1]>>]

WellFormed(w) ==
    /\ w # <<>> /\ Len(w) <= MaxLenMix /\ Len(w) = 9
    /\ \A i \in {2, 4, 6, 8} : w[i] = ","
    /\ \A i \in 1..5 : IsSimpleInt(Fields(w)[i])

Values(w) == [i \in 1..5 |-> IntValue(Fields(w)[i])]
Total(mix) == mix[1] + mix[2] + mix[3] + mix[4] + mix[5]

\* Mutant: the total is only bounded.
AtMostHundred(w) == WellFormed(w) /\ Total(Values(w)) <= 100

\* parseTxnMix: five numbers of 0 to 100, 100 in all.
ValidMix(w) == WellFormed(w) /\ Total(Values(w)) = 100

ValidValue(name, w) ==
    CASE name = <<"-", "txnmix">> -> ValidMix(w)
      [] name \in {<<"-", "dsn">>, <<"-", "uid">>} -> Len(w) \in 1..MaxLenDsn
      [] name = <<"-", "pwd">> -> Len(w) <= MaxLenDsn
      [] name \in {<<"-", "numtxn">>, <<"-", "duration">>} -> IsSimpleInt(w) /\ IntValue(w) > 0
      [] OTHER -> TRUE

\* "Multiple ... options not permitted", "Cannot specify both".
Clashes(s, name) == name \in s.found \/ Excluded(name) \in s.found

Apply(s, name, v) ==
    CASE name = <<"-", "silent">>    -> [s EXCEPT !.level = "silent"]
      [] name = <<"-", "nocleanup">> -> [s EXCEPT !.cleanup = FALSE]
      [] name = <<"-", "txnmix">>    -> [s EXCEPT !.mix = Values(v)]
      [] name = <<"-", "dsn">>       -> [s EXCEPT !.dsn = v]
      [] name = <<"-", "uid">>       -> [s EXCEPT !.uid = v]
      [] name = <<"-", "pwd">>       -> [s EXCEPT !.pwd = IF v = <<>> THEN "" ELSE "given"]
      [] name = <<"-", "log">>       -> [s EXCEPT !.log = v]
      [] name = <<"-", "numtxn">>    -> [s EXCEPT !.limit = TRUE, !.numTxn = IntValue(v)]
      [] name = <<"-", "duration">>  -> [s EXCEPT !.limit = TRUE, !.duration = IntValue(v)]
      [] OTHER -> s

Refuse(s) == [s EXCEPT !.place = "refused"]

\* -verbose, whose number may be left out.
Verbose(s, argv) ==
    LET t == [s EXCEPT !.level = "verbose", !.argno = @ + 1]
    IN  IF t.argno > Len(argv) \/ ~IsSimpleInt(argv[t.argno]) THEN t
        ELSE IF IntValue(argv[t.argno]) < MinRptInterval THEN Refuse(s)
        ELSE [t EXCEPT !.interval = IntValue(argv[t.argno]), !.argno = @ + 1]

\* One turn of the loop.
GsParseArg(s, argv) ==
    LET name == argv[s.argno]
        t    == [s EXCEPT !.found = @ \cup {name}]
        v    == argv[s.argno + 1]
    IN  IF name = <<"-", "help">> THEN [s EXCEPT !.place = "help"]
        ELSE IF name \notin TheNames \ {<<"-", "debug">>} \/ Clashes(s, name) THEN Refuse(s)
        ELSE IF name = <<"-", "verbose">> THEN Verbose(t, argv)
        ELSE IF ~TakesValue(name) THEN [Apply(t, name, <<>>) EXCEPT !.argno = @ + 1]
        ELSE IF s.argno = Len(argv) \/ ~ValidValue(name, v) THEN Refuse(s)
        ELSE [Apply(t, name, v) EXCEPT !.argno = @ + 2]

\* getPassword: what was typed; without a newline, NULL.
GetPassword(typed) == IF typed = "noNewline" THEN "NULL" ELSE typed

\* The password is asked for if there is no -pwd; an empty one is none.
AskPassword(s, typed) ==
    LET pwd == IF <<"-", "pwd">> \in s.found THEN s.pwd ELSE GetPassword(typed)
    IN  [s EXCEPT !.pwd = IF pwd = "" THEN "NULL" ELSE pwd, !.place = "openLog"]

OpenLog(s, opens) ==
    IF s.log # <<>> /\ ~opens THEN Refuse(s) ELSE [s EXCEPT !.place = "run"]

\* dbConnect: the types whose statements are prepared; 1..5 are authorize,
\* charge, top-up, query and purge, in the order of -txnmix.
Prepared(mix) == {i \in 1..5 : mix[i] > 0}

\* chooseTxnType for a random number of 0..99; purge is what is left.
ChooseTxnType(mix, rnd) ==
    IF rnd < mix[1] THEN 1
    ELSE IF rnd < mix[1] + mix[4] THEN 4
    ELSE IF rnd < mix[1] + mix[4] + mix[2] THEN 2
    ELSE IF rnd < mix[1] + mix[4] + mix[2] + mix[3] THEN 3
    ELSE 5
=============================================================================
