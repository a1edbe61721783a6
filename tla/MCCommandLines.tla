--------------------------- MODULE MCCommandLines ---------------------------
(***************************************************************************)
(* Command lines of up to three words (four for GridSample) for a sample   *)
(* program of each kind, and the work of the benchmarks for the command    *)
(* lines of MCWorked.                                                      *)
(***************************************************************************)
EXTENDS ClassicBenchmarks

MCTokenOrder ==
    <<"%", ",", "-", ".5", "0", "1", "2", "3", "5", "64", ";", "=", "DSN", "H", "N", "Onnstr", "V", "act",
      "atch", "b", "big", "c", "cale", "d", "db", "e", "elp", "erify", "ersion", "g", "h",
      "huge", "i", "ild", "ind", "l", "max", "n", "o", "ommit", "onnstr", "owlocks", "q", "r",
      "reate", "rid_compat", "rop", "runcate", "s", "t", "u", "ueries", "v", "w", "x", "y">>
MCChars == {"%", ",", "-", "0", "1", "2", "3", "5", "64", ";", "=", "H", "N", "V", "b", "c", "d", "h", "i", "l", "n",
            "o", "q", "r", "s", "t", "u", "v", "w", "x", "y"}
MCLower == "H" :> "h" @@ "N" :> "n" @@ "V" :> "v" @@ "Onnstr" :> "onnstr"

\* An int of 8 bits, a long of 16: "max" is INT_MAX, "big" is 2^8 + 1.
MCNumVal ==
    <<"0">> :> 0 @@ <<"1">> :> 1 @@ <<"2">> :> 2 @@ <<"3">> :> 3 @@ <<"5">> :> 5 @@ <<"64">> :> 64
    @@ <<"-", "1">> :> -1 @@ <<"max">> :> 127 @@ <<"big">> :> 257 @@ <<"huge">> :> 40000
MCRealWords == {<<"1", ".5">>}
MCRefused   == {<<"x">>}

Spec4(name, type, dest, len) == [name |-> name, type |-> type, dest |-> dest, len |-> len]

Standard ==
    <<Spec4(<<"<HELP>">>, "<HELP>", "-", 0), Spec4(<<"<VERSION>">>, "<VERSION>", "-", 0),
      Spec4(<<"<CONNSTR>">>, "<CONNSTR>", "connstr", 5), Spec4(<<"<DSN>">>, "<DSN>", "dsn", 4)>>

Program6(specs, values, ranges, checks) ==
    [specs |-> Standard \o specs, mode |-> {"noConnstrOk"}, connects |-> TRUE,
     values |-> values @@ ("dsn" :> <<>> @@ "connstr" :> <<>>),
     ranges |-> ranges, checksLength |-> checks]

WiscbmOptions == Program6(
    <<Spec4(<<"v", "erify">>, "flag", "verify", 0), Spec4(<<"q">>, "s", "q_str", 3),
      Spec4(<<"b", "u", "ild">>, "!", "build", 0), Spec4(<<"c", "reate">>, "!", "create", 0),
      Spec4(<<"q", "ueries">>, "!", "queries", 0), Spec4(<<"t", "runcate">>, "!", "truncate", 0),
      Spec4(<<"d", "rop">>, "!", "drop", 0), Spec4(<<"v">>, "i", "verbose", 0),
      Spec4(<<"l">>, "flag", "long_mode", 0), Spec4(<<"r", "l">>, "i", "rl_val", 0),
      Spec4(<<"r", "owlocks">>, "!", "rl_val", 0), Spec4(<<"n", "o", "b", "ind">>, "flag", "nobind", 0),
      Spec4(<<"n", "o", "b", "atch">>, "flag", "nobatch", 0),
      Spec4(<<"g", "rid_compat">>, "flag", "grid_compat", 0),
      Spec4(<<"b", "atch">>, "i", "batch", 0), Spec4(<<"c", "ommit">>, "i", "commit", 0)>>,
    "verify" :> 0 @@ "q_str" :> <<>> @@ "build" :> 1 @@ "create" :> 1 @@ "queries" :> 1
        @@ "truncate" :> 0 @@ "drop" :> 0 @@ "verbose" :> 1 @@ "long_mode" :> 0 @@ "rl_val" :> -15
        @@ "nobind" :> 0 @@ "nobatch" :> 0 @@ "grid_compat" :> 0 @@ "batch" :> 3 @@ "commit" :> -1,
    "verbose" :> (0..5) @@ "rl_val" :> {-15, 0, 1} @@ "batch" :> (1..127) @@ "commit" :> (-1..127),
    FALSE)

BulkinsertProgram == Program6(
    <<Spec4(<<"r">>, "i", "records", 0), Spec4(<<"s">>, "i", "batchsize", 0),
      Spec4(<<"i">>, "i", "indexcount", 0), Spec4(<<"t">>, "flag", "testmode", 0), Spec4(<<"u">>, "flag", "dostatsupdate", 0),
      Spec4(<<"b">>, "flag", "indexbefore", 0), Spec4(<<"c">>, "i", "commitsize", 0)>>,
    "records" :> 5 @@ "batchsize" :> 1 @@ "indexcount" :> 0 @@ "testmode" :> 0 @@ "dostatsupdate" :> 0
        @@ "indexbefore" :> 0 @@ "commitsize" :> 0,
    "records" :> (1..127) @@ "batchsize" :> (1..64) @@ "indexcount" :> (0..10)
        @@ "commitsize" :> (0..127), TRUE)

TpcbProgram == Program6(
    <<Spec4(<<"v">>, "i", "verbose", 0), Spec4(<<"x", "act">>, "i", "xact", 0),
      Spec4(<<"s", "cale">>, "i", "scale", 0)>>,
    "verbose" :> 0 @@ "xact" :> 1 @@ "scale" :> 1,
    "verbose" :> (0..3) @@ "xact" :> (0..127) @@ "scale" :> (0..127), TRUE)

Updatelob == Program6(<<>>, <<>>, <<>>, TRUE)

\* The call in the comment of ttgetopt.h, with the types that no sample uses
\* and without the capital.
Example ==
    [specs |->
        <<Spec4(<<"v">>, "flag", "verbose", 0), Spec4(<<"n">>, "i", "n1", 0),
          Spec4(<<"d", "b">>, "d", "d1", 0), Spec4(<<"d", "l">>, "l", "l1", 0),
          Spec4(<<"u", "b">>, "u", "u1", 0), Spec4(<<"s">>, "s", "s", 2),
          Spec4(<<"r", "x">>, "I", "ints", 2), Spec4(<<"r", "y">>, "D", "reals", 2),
          Spec4(<<"y">>, "S", "strings", 2), Spec4(<<"w">>, "t", "callback", 0),
          Spec4(<<"b">>, "z", "pair", 2),
          Spec4(<<"<INTEGER>">>, "<INTEGER>", "n2", 0), Spec4(<<"<REAL>">>, "<REAL>", "r2", 0),
          Spec4(<<"<HELPFUNC>">>, "<HELPFUNC>", "-", 0), Spec4(<<"<DSN>">>, "<DSN>", "dsn", 2)>>,
     mode |-> {"abbrev", "case"}, connects |-> FALSE,
     values |-> "verbose" :> 0 @@ "n1" :> 0 @@ "d1" :> <<>> @@ "l1" :> <<>> @@ "u1" :> 0
        @@ "s" :> <<>> @@ "ints" :> <<>> @@ "reals" :> <<>> @@ "strings" :> <<>>
        @@ "callback" :> <<>> @@ "pair" :> <<>> @@ "n2" :> 0 @@ "r2" :> <<>> @@ "dsn" :> <<>>,
     ranges |-> <<>>, checksLength |-> FALSE]

Capital == [Example EXCEPT !.specs = <<Spec4(<<"H">>, "flag", "verbose", 0)>> \o SubSeq(@, 3, 6),
                           !.mode = {"abbrev", "noConnstrOk"}]
Twice == [Updatelob EXCEPT !.specs = @ \o <<Spec4(<<"<DSN>">>, "<DSN>", "dsn", 4)>>]

MCPrograms == "wiscbm" :> WiscbmOptions @@ "bulkinsert" :> BulkinsertProgram @@ "tpcb" :> TpcbProgram @@ "updatelob" :> Updatelob
              @@ "example" :> Example @@ "capital" :> Capital @@ "twice" :> Twice

Opt(w) == <<"-">> \o w
Dsn  == <<"db">>
Con  == <<"DSN", "=", "db">>

Vocabulary(prog) ==
    CASE prog = "wiscbm" ->
            {Opt(<<"v">>), Opt(<<"v", "5">>), Opt(<<"v", "=", "5">>), Opt(<<"l", "v", "1">>), <<"5">>,
             <<"big">>, Opt(<<"n", "o", "b", "u", "ild">>), Opt(<<"n", "o", "v", "erify">>),
             Opt(<<"n", "o", "b", "ind">>), Opt(<<"r", "l">>), Opt(<<"n", "o", "r", "owlocks">>),
             Opt(<<"q">>), Opt(<<"q", "x">>), Opt(<<"d", "s", "n">>), Opt(<<"c", "onnstr">>), Dsn, Con}
      [] prog = "bulkinsert" ->
            {Opt(<<"r">>), Opt(<<"r", "5">>), <<"5">>, <<"huge">>, Opt(<<"t", "u", "b">>),
             Opt(<<"t", "x">>), Opt(<<"c", "onnstr">>), Opt(<<"d", "s", "n">>), Dsn, Con, Con \o Dsn,
             Opt(<<"h", "elp">>), Opt(<<"V">>), <<"-", "-">>}
      [] prog = "updatelob" ->
            {Opt(<<"d", "s", "n">>), Opt(<<"c", "onnstr">>), Dsn, Dsn \o Dsn, Dsn \o Dsn \o Dsn, Con,
             Con \o Dsn, <<";">> \o Con, <<"-", "-">>, Opt(<<"x">>), <<>>,
             Opt(Opt(<<"d", "s", "n">>)), Opt(<<"c", "Onnstr">>)}
      [] prog \in {"example", "capital"} ->
            {Opt(<<"d">>), Opt(<<"d", "b">>), Opt(<<"d", "l">>), Opt(<<"u">>), Opt(<<"n", "1">>),
             Opt(<<"r", "x">>), Opt(<<"r", "y">>), Opt(<<"y">>), Opt(<<"w">>), Opt(<<"b">>),
             Opt(<<"s", "=", "x">>), <<"-", "-", "s", "=", "x">>, <<"x">>, <<"5">>, <<"1", ".5">>,
             Opt(<<"5">>), Opt(<<"h">>), <<"big">>}
      [] prog = "tpcb" -> {Opt(<<"v">>), Opt(<<"s", "cale">>), <<"5">>, Con}
      [] OTHER -> {Dsn, Opt(<<"d", "s", "n">>)}

GsVocabulary ==
    {Opt(<<"verbose">>), Opt(<<"silent">>), Opt(<<"nocleanup">>), Opt(<<"txnmix">>), Opt(<<"dsn">>),
     Opt(<<"pwd">>), Opt(<<"log">>), Opt(<<"numtxn">>), Opt(<<"duration">>), Opt(<<"help">>),
     Opt(<<"debug">>), <<"5">>, <<"10">>, <<"x">>, <<>>,
     <<"60", ",", "10", ",", "10", ",", "20", ",", "0">>, <<"60", ",", "10", ",", "10", ",", "10", ",", "0">>,
     <<"100", ",", "0", ",", "0", ",", "0">>}

GsMixes == {w \in GsVocabulary : Len(w) > 2} \cup {Opt(<<"txnmix">>), Opt(<<"numtxn">>), <<"5">>, <<"x">>}

MCSimpleInts == [t \in {"0", "5", "10", "20", "60", "100"} |->
    CASE t = "0" -> 0 [] t = "5" -> 5 [] t = "10" -> 10 [] t = "20" -> 20 [] t = "60" -> 60 [] OTHER -> 100]

Upto(S, n) == UNION {[1..k -> S] : k \in 0..n}

\* Command lines whose work is followed.
Line(prog, argv) == [prog |-> prog, argv |-> argv, env |-> <<>>]

WiscbmLines ==
    {<<>>, <<Opt(<<"n", "o", "b", "atch">>)>>, <<Opt(<<"c", "ommit">>), <<"0">>>>,
     <<Opt(<<"b", "atch">>), <<"2">>, Opt(<<"c", "ommit">>), <<"3">>>>,
     <<Opt(<<"n", "o", "b", "u", "ild">>)>>, <<Opt(<<"n", "o", "c", "reate">>)>>,
     <<Opt(<<"n", "o", "q", "ueries">>), Opt(<<"d", "rop">>)>>, <<Opt(<<"t", "runcate">>)>>,
     <<Opt(<<"n", "o", "c", "reate">>), Opt(<<"t", "runcate">>), Opt(<<"d", "rop">>)>>}

BulkinsertLines ==
    {<<>>, <<Opt(<<"s", "2">>), Opt(<<"c", "3">>), Opt(<<"i", "1">>)>>, <<Opt(<<"s", "3">>)>>,
     <<Opt(<<"s", "2">>), Opt(<<"t", "u">>)>>, <<Opt(<<"b", "u">>), Opt(<<"i", "1">>), Opt(<<"c", "2">>)>>,
     <<Opt(<<"r">>), <<"max">>, Opt(<<"s">>), <<"64">>>>}

TpcbLines ==
    {<<Opt(<<"x", "act">>), <<"2">>>>, <<Opt(<<"s", "cale">>), <<"2">>>>,
     <<Opt(<<"s", "cale">>), <<"0">>>>, <<Opt(<<"s", "cale">>), <<"3">>>>}

MCWorked ==
    {Line("wiscbm", l) : l \in WiscbmLines} \cup {Line("bulkinsert", l) : l \in BulkinsertLines}
    \cup {Line("tpcb", l) : l \in TpcbLines}

MCInputs ==
    MCWorked \cup
    UNION {[prog : {p}, argv : Upto(Vocabulary(p), 3), env : {<<>>}] : p \in DOMAIN MCPrograms}
    \cup UNION {[prog : {p}, argv : Upto(Vocabulary(p), 3), env : {<<"DSN", "=", "e">>}] :
                    p \in {"wiscbm", "updatelob"}}
    \cup UNION {[prog : {p}, argv : Upto(Vocabulary(p), 1), env : {<<"DSN", "=", "e">>}] :
                    p \in DOMAIN MCPrograms}
    \cup [prog : {"GridSample"}, argv : Upto(GsVocabulary, 3) \cup Upto(GsMixes, 4), env : {<<>>}]

MCDeltas == {-1, 2}

MCGenerators == <<[upto |-> 2, generator |-> 3, prime |-> 5], [upto |-> 4, generator |-> 3, prime |-> 7]>>

\* What the random columns rely on: from the generator on, randNum comes to each
\* number below the prime once.  So it does for the tables of up to 1000 and of
\* up to 10000 rows.
Power(g, p, n) ==
    LET power[k \in 0..n] ==
            IF k = 0 THEN 1
            ELSE (((power[k \div 2] * power[k \div 2]) % p) * (IF k % 2 = 1 THEN g ELSE 1)) % p
    IN  power[n]

ASSUME GeneratorsGenerate ==
    /\ \A q \in {2, 3, 7}    : Power(279, 1009, 1008 \div q) # 1       \* 1008 = 2^4 * 3^2 * 7
    /\ \A q \in {2, 5003} : Power(2969, 10007, 10006 \div q) # 1       \* 10006 = 2 * 5003
=============================================================================
