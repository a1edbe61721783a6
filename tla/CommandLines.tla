---------------------------- MODULE CommandLines ----------------------------
(***************************************************************************)
(* From a command line to the work of a program: the classic ODBC samples  *)
(* that read theirs with ttgetopt.c (wiscbm, tpcb, bulkinsert, plsqlODBC,  *)
(* updatelob, xlaSimple), and GridSample, which has a parser of its own    *)
(* (GSArgs.c).  One program runs, with any command line of Inputs.         *)
(*                                                                         *)
(* A program of ttgetopt.c is a record: its specifiers in the order of the *)
(* call, the mode, the values its variables start with, the ranges it      *)
(* accepts, whether it connects, and whether it checks the length of the   *)
(* connection string.                                                      *)
(***************************************************************************)
EXTENDS TtGetopt, GsArgs

CONSTANTS
    Inputs,        \* [prog, argv, env: TT_CONNSTR, <<>> if it is not set]
    Programs       \* of ttgetopt.c: name -> record

\* A word is a sequence of tokens, and so is the name of an option.
ASSUME WordsAssumption ==
    /\ \A line \in Inputs : line.prog \in DOMAIN Programs => line.argv \in Seq(Seq(Tokens))
    /\ \A prog \in DOMAIN Programs :
           LET specs == Programs[prog].specs
           IN  /\ specs \in Seq(ToSet(specs))
               /\ \A o \in ToSet(specs) : o.type \in Specials \/ o.name \in Seq(Tokens)

\* The specifiers of the programs that connect are of these types, the variables
\* for the connection are theirs alone, and no other option has the name of
\* -dsn or -connstr, nor is the first letter of one a flag or a string.
ASSUME ConnectAssumption ==
    /\ "=" \notin DOMAIN Lower
    /\ \A w \in DOMAIN NumVal : LowCase(w) \notin {<<"s", "n">>, <<"onnstr">>}
    /\ \A prog \in DOMAIN Programs : Programs[prog].connects =>
           LET specs  == ToSet(Programs[prog].specs)
               values == Programs[prog].values
           IN  /\ Programs[prog].mode = {"noConnstrOk"}
               /\ {"dsn", "connstr"} \subseteq DOMAIN values /\ values.dsn = <<>> /\ values.connstr = <<>>
               /\ \A type \in {"<DSN>", "<CONNSTR>"} : \E o \in specs : o.type = type
               /\ \A o \in specs :
                      \/ o.type \in {"<HELP>", "<VERSION>"}
                      \/ o.type = "<DSN>" /\ o.dest = "dsn"
                      \/ o.type = "<CONNSTR>" /\ o.dest = "connstr"
                      \/ /\ o.type \in {"flag", "!", "i", "s"} /\ o.dest \notin {"dsn", "connstr"}
                         /\ LowCase(o.name) \notin {<<"d", "s", "n">>, <<"c", "onnstr">>}
                         /\ o.type \in {"flag", "s"} => LowCase(o.name) \notin {<<"d">>, <<"c">>}

VARIABLES
    input,
    ol,            \* OptionList
    st             \* the parse, of TtGetopt or of GsArgs

vars == <<input, ol, st>>

Program == Programs[input.prog]
Getopt  == input.prog \in DOMAIN Programs
At(place) == st.place = place

Init ==
    /\ input \in Inputs
    /\ ol = EmptyList(IF Getopt THEN Program.mode ELSE {})
    /\ st = IF Getopt THEN [Start(Program.values) EXCEPT !.place = "options"] ELSE GsStart

-----------------------------------------------------------------------------
(* Programs of ttgetopt.c.                                                 *)

\* getOptions: a duplicate specifier ends it.
GetOptions ==
    /\ At("options")
    /\ ol' = AddOptions(Program.specs, Program.mode)
    /\ st' = IF ol'.ok THEN [st EXCEPT !.place = "args"] ELSE [Say(st) EXCEPT !.place = "refused"]
    /\ UNCHANGED input

ParseArgs ==
    /\ At("args")
    /\ \E p \in {"nul", "text", "unmapped"} :
           st' = [ParseArg([st EXCEPT !.p = p], input.argv, ol) EXCEPT !.p = "nul"]
    /\ UNCHANGED <<input, ol>>

Connstr ==
    /\ At("connstr")
    /\ st' = Finish(st, input.argv, ol, input.env)
    /\ UNCHANGED <<input, ol>>

InRanges == \A d \in DOMAIN Program.ranges : st.values[d] \in Program.ranges[d]

ConnstrLen == TheOption(ol, "<CONNSTR>").len

\* "check for connection string or DSN"
ConnectAs ==
    LET dsn == st.values["dsn"]
        con == st.values["connstr"]
    IN  IF dsn # <<>> /\ con # <<>> THEN "refused"
        ELSE IF dsn # <<>> /\ Len(dsn) + 3 >= ConnstrLen THEN "refused"
        ELSE IF con # <<>> /\ Program.checksLength /\ Len(con) + 1 >= ConnstrLen THEN "refused"
        ELSE "run"

\* What the program does with the result.
CheckOptions ==
    /\ At("parsed")
    /\ st' = [st EXCEPT !.place =
                 IF Returned(st) = -1 \/ Returned(st) # Len(input.argv) + 1 THEN "refused"
                 ELSE IF ~InRanges THEN "refused"
                 ELSE IF Program.connects THEN ConnectAs
                 ELSE "run"]
    /\ UNCHANGED <<input, ol>>

\* What the program connects with.
Connection ==
    IF st.values["dsn"] # <<>> THEN <<"DSN", "=">> \o st.values["dsn"]
    ELSE IF st.values["connstr"] # <<>> THEN st.values["connstr"]
    ELSE <<"default">>

-----------------------------------------------------------------------------
(* GridSample                                                              *)

GsParseArgs ==
    /\ At("gsArgs")
    /\ st' = IF st.argno > Len(input.argv) THEN [st EXCEPT !.place = "password"]
             ELSE GsParseArg(st, input.argv)
    /\ UNCHANGED <<input, ol>>

GsPassword ==
    /\ At("password")
    /\ \E typed \in {"", "typed", "noNewline"} : st' = AskPassword(st, typed)
    /\ UNCHANGED <<input, ol>>

GsOpenLog ==
    /\ At("openLog")
    /\ \E opens \in BOOLEAN : st' = OpenLog(st, opens)
    /\ UNCHANGED <<input, ol>>

Ended == {"run", "refused", "help", "exit0", "crash"}
Over  == st.place \in Ended /\ UNCHANGED vars

Next ==
    \/ GetOptions \/ ParseArgs \/ Connstr \/ CheckOptions
    \/ GsParseArgs \/ GsPassword \/ GsOpenLog \/ Over

Spec == Init /\ [][Next]_vars /\ WF_vars(Next)

-----------------------------------------------------------------------------
(* Properties.                                                             *)

Dash(w)  == Len(w) > 1 /\ w[1] = "-" /\ w[2] # "-"
Words    == ToSet(input.argv)
\* -dsn and -connstr
NamesConnection(w) == StartsWithDash(w) /\ LowCase(OptionOf(w)) \in {<<"d", "s", "n">>, <<"c", "onnstr">>}

\* The word after an option may be its argument.
MayBeArgument(argv, i) == i > 1 /\ StartsWithDash(argv[i - 1])

\* What a word stands for as a DSN or as a connection string.
AsConnection(w) == {w, <<"DSN", "=">> \o w}

\* A command line tells a program to connect with its last word, or one that
\* follows -dsn or -connstr, which counts for nothing when it is empty; with
\* TT_CONNSTR when it has neither, unless as the argument of another option; and
\* otherwise with the default.
Tells(argv, env, connection) ==
    LET n     == Len(argv)
        named == {i \in DOMAIN argv : NamesConnection(argv[i])}
    IN  \/ n > 0 /\ connection \in AsConnection(argv[n])
        \/ \E i \in named :
              /\ i < n
              /\ connection \in IF argv[i + 1] = <<>> THEN {<<"default">>} ELSE AsConnection(argv[i + 1])
        \/ /\ \A i \in named : MayBeArgument(argv, i)
           /\ n > 0 => StartsWithDash(argv[n]) \/ MayBeArgument(argv, n)
           /\ connection = IF env # <<>> THEN env ELSE <<"default">>

\* A program of ttgetopt.c that goes on connects as its command line and its
\* environment tell it (parse_args of ttgetopt.c, then "check for connection
\* string or DSN").
ConnectsAsTold ==
    At("run") /\ Getopt /\ Program.connects => Tells(input.argv, input.env, Connection)

OneCapital(entry) == IsChar(entry.stored) /\ entry.stored[1] \in DOMAIN Lower

\* The binary searches find what a scan of the list finds: the option of that
\* name, and with TTC_OPT_ABBREV the only one that begins with the word; the
\* latter unless an option is a single capital, or two have the same name.
FindsTheOption ==
    Getopt /\ At("args") =>
        \A w \in {Rest(v, 1) : v \in {u \in Words : Dash(u)}} :
            LET normal  == {i \in DOMAIN ol.opts : ~IsSpecial(ol.opts[i])}
                name(i) == ol.opts[i].stored
                same    == {i \in normal : name(i) = StoredName(ol.mode, w)}
                longer  == {i \in normal : Len(name(i)) >= Len(w) /\
                                Beginning(ol, name(i), Len(w)) = Beginning(ol, w, Len(w))}
            IN  /\ IF same = {} THEN ExactMatch(ol, w) = None ELSE ExactMatch(ol, w) \in same
                /\ "abbrev" \in ol.mode /\ (\A i \in normal : ~OneCapital(ol.opts[i])) =>
                       IF Cardinality(longer) = 1 THEN AbbrevMatch(ol, w) \in longer
                       ELSE AbbrevMatch(ol, w) = None

\* errmsgbuf holds one message for each argument that was refused, as long as
\* it has room (parse_args: "if len != errmsglen, already output an error
\* message for this one").
OneMessageEach ==
    Getopt /\ "ignoreUnknowns" \notin ol.mode /\ st.place \in {"args", "connstr"} =>
        st.msgs = IF st.nerrs < MaxMsgs THEN st.nerrs ELSE MaxMsgs

\* GridSample never chooses a type of transaction whose statements it has not
\* prepared, whatever -txnmix says (parseTxnMix, dbConnect, chooseTxnType).
ChosenPrepared ==
    At("run") /\ ~Getopt => \A rnd \in 0..99 : ChooseTxnType(st.mix, rnd) \in Prepared(st.mix)

\* "Check for a negate-able option" (ttgetopt.c:1757): a word that says "no"
\* does not set a variable to 1.
NegationNegates ==
    [][\A w \in Words : At("args") /\ Dash(w) /\ w = input.argv[st.idx]
            /\ Len(w) > 3 /\ w[2] = "n" /\ w[3] = "o" /\ ExactMatch(ol, Rest(w, 1)) = None =>
          \A n \in DOMAIN ol.opts : LET d == ol.opts[n].spec.dest IN
              ol.opts[n].spec.type \in {"flag", "!"} /\ st'.values[d] = 1 => st.values[d] = 1]_vars

\* "Make sure it looked numeric (based on the strto* output), and has no trailing
\* junk" (ttgetopt.c:848): what an option of type i comes to hold is a number of
\* the command line.
NumbersKept ==
    [][At("args") /\ Getopt =>
         \A n \in DOMAIN ol.opts : LET o == ol.opts[n].spec IN
            /\ o.type = "i" /\ st'.values[o.dest] # st.values[o.dest]
            /\ \A m \in DOMAIN ol.opts : ol.opts[m].spec.dest = o.dest => m = n
            => \E w \in Words : \E k \in 0..Len(w) :
                  Rest(w, k) \in DOMAIN NumVal /\ NumVal[Rest(w, k)] = st'.values[o.dest]]_vars

\* "Index of the next argument after the options arguments" (ttgetopt.c:204):
\* the index is never beyond the end.
IndexInArgv == Getopt => st.idx <= Len(input.argv) + 1

\* TTC_OPT_ABBREV: "options can be abbreviated to the point of uniqueness"
\* (ttgetopt.h:34).
AbbreviationFound ==
    Getopt /\ "abbrev" \in ol.mode /\ At("args") =>
        \A w \in {Rest(v, 1) : v \in {u \in Words : Dash(u)}} :
            LET longer == {i \in DOMAIN ol.opts : /\ ~IsSpecial(ol.opts[i])
                                                  /\ Beginning(ol, ol.opts[i].stored, Len(w)) = LowCase(w)}
            IN  Cardinality(longer) = 1 => AbbrevMatch(ol, w) \in longer

\* A program never reads through the option <CONNSTR> that it has not given.
NeverCrashes == ~At("crash")
=============================================================================
