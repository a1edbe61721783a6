------------------------------ MODULE TtGetopt ------------------------------
(***************************************************************************)
(* ttgetopt.c: the parser of the command lines of the classic ODBC         *)
(* samples, as operators on the state of a parse.                          *)
(*                                                                         *)
(* A word of the command line is a sequence of tokens.  The tokens of      *)
(* Chars are single characters, and a word is spelt in one way only, so    *)
(* that comparing words is comparing tokens.  A size counts tokens.  Memory *)
(* does not run out, and every specifier has a variable to store into      *)
(* (argPtr is not NULL).                                                   *)
(*                                                                         *)
(* The state of a parse is a record:                                       *)
(*   idx      the next word of argv (the words are 1..argc-1)              *)
(*   values   what the variables of the program hold                       *)
(*   msgs     messages in errmsgbuf, which has room for MaxMsgs            *)
(*   seen     errmsglen of parse_args                                      *)
(*   nerrs    arguments that were refused                                  *)
(*   gotDsn   got_dsn or got_connstr is set                                *)
(*   ok       what the last handler returned                               *)
(*   p        what the pointer p of get_numeric_arg happens to point to:   *)
(*            "nul", "text" or "unmapped" memory                           *)
(*   place    "args", "connstr", "parsed", "exit0" or "crash"              *)
(***************************************************************************)
EXTENDS Integers, Sequences, FiniteSets, SequencesExt

CONSTANTS
    TokenOrder,    \* the tokens in the order of strcmp
    Chars,         \* those of one character
    Lower,         \* capital token -> the token in lower case
    NumVal,        \* words strtol accepts -> their values
    RealWords,     \* words only strtod accepts
    Wrap,          \* how many ints there are: 2^w for w bits (a long is as wide as NumVal needs)
    LongMax,       \* values beyond are out of range
    Refused,       \* words a callback refuses
    MaxMsgs

Tokens == ToSet(TokenOrder)
Rank   == [t \in Tokens |-> CHOOSE i \in DOMAIN TokenOrder : TokenOrder[i] = t]

ASSUME GetoptAssumption ==
    /\ Chars \subseteq Tokens /\ MaxMsgs \in Nat \ {0}
    /\ DOMAIN Lower \subseteq Tokens /\ Wrap \in Nat \ {0} /\ Wrap % 4 = 0
    /\ TokenOrder \in Seq(Tokens)
    /\ \A t \in DOMAIN Lower : Lower[t] \in Tokens \ DOMAIN Lower

NoArg == <<"none">>          \* no option argument after "="
None  == 0                   \* no option

IsChar(w)   == Len(w) = 1 /\ w[1] \in Chars
LowCase(w)  == [i \in DOMAIN w |-> IF w[i] \in DOMAIN Lower THEN Lower[w[i]] ELSE w[i]]
Rest(w, n)  == SubSeq(w, n + 1, Len(w))

\* -opt and --opt
StartsWithDash(w) == w # <<>> /\ w[1] = "-"
IsDouble(w) == Len(w) > 1 /\ w[1] = "-" /\ w[2] = "-"
OptionOf(w) == Rest(w, IF IsDouble(w) THEN 2 ELSE 1)

\* strcmp: what comes first, a word or another.
Before(a, b) ==
    \E n \in 0..Len(a) :
        /\ n < Len(b) /\ SubSeq(a, 1, n) = SubSeq(b, 1, n)
        /\ n = Len(a) \/ Rank[a[n + 1]] < Rank[b[n + 1]]

-----------------------------------------------------------------------------
(* The list of options.                                                    *)

\* An option of a list: its name as it is stored and its specifier.
CaseSensitive(ol) == "case" \in ol.mode

StoredName(mode, name) == IF "case" \in mode \/ IsChar(name) THEN name ELSE LowCase(name)

\* The names that are stored are compared with the specifier as it is.
Duplicate(ol, o) == \E i \in DOMAIN ol.opts : ol.opts[i].stored = o.name

\* init_option_list, add_options: up to the first duplicate.
EmptyList(mode) == [opts |-> <<>>, sorted |-> <<>>, mode |-> mode, ok |-> TRUE]

AddOption(ol, o) ==
    IF ~ol.ok \/ Duplicate(ol, o) THEN [ol EXCEPT !.ok = FALSE]
    ELSE [ol EXCEPT !.opts = Append(@, [spec |-> o, stored |-> StoredName(ol.mode, o.name)])]

Specials == {"<INTEGER>", "<REAL>", "<HELP>", "<HELPFUNC>", "<VERSION>", "<VERSFUNC>",
             "<DSN>", "<CONNSTR>"}

IsSpecial(entry) == entry.spec.type \in Specials

\* The indexes of the normal options in the order of their stored names.
MakeSorted(ol) ==
    LET normal == {i \in DOMAIN ol.opts : ~IsSpecial(ol.opts[i])}
        Less(i, j) == \/ Before(ol.opts[i].stored, ol.opts[j].stored)
                      \/ ol.opts[i].stored = ol.opts[j].stored /\ i < j
        place == [i \in normal |-> Cardinality({j \in normal : Less(j, i)}) + 1]
    IN  [ol EXCEPT !.sorted = [k \in 1..Cardinality(normal) |-> CHOOSE i \in normal : place[i] = k]]

AddOptions(specs, mode) == MakeSorted(FoldLeft(AddOption, EmptyList(mode), specs))

HasSpecial(ol, type) == \E i \in DOMAIN ol.opts : ol.opts[i].spec.type = type
Pending(s, ol) == (HasSpecial(ol, "<DSN>") \/ HasSpecial(ol, "<CONNSTR>")) /\ ~s.gotDsn

\* The binary search; Cmp(name) orders the word that is sought and a name.
BinarySearch(ol, IsBefore(_), IsAfter(_)) ==
    LET n    == Len(ol.sorted)
        name == [i \in 1..n |-> ol.opts[ol.sorted[i]].stored]
        find[b \in (0..n) \X (-1..(n - 1))] ==
            LET mid == (b[1] + b[2]) \div 2
            IN  IF b[1] > b[2] THEN 0
                ELSE IF IsBefore(name[mid + 1]) THEN find[<<b[1], mid - 1>>]
                ELSE IF IsAfter(name[mid + 1]) THEN find[<<mid + 1, b[2]>>]
                ELSE mid + 1
    IN  find[<<0, n - 1>>]

\* The option of that name.
ExactMatch(ol, w) ==
    LET sought == StoredName(ol.mode, w)
        at == BinarySearch(ol, LAMBDA name : Before(sought, name),
                               LAMBDA name : Before(name, sought))
    IN  IF at = 0 THEN None ELSE ol.sorted[at]

\* strncmp or strncasecmp over the length of the word.
Beginning(ol, name, n) ==
    LET s == SubSeq(name, 1, IF n < Len(name) THEN n ELSE Len(name))
    IN  IF CaseSensitive(ol) THEN s ELSE LowCase(s)

\* Mutant: the name before is not looked at.
AbbrevMatchAfter(ol, w) ==
    LET sought == Beginning(ol, w, Len(w))
        names  == ol.sorted
        Same(i) == i \in DOMAIN names /\ Beginning(ol, ol.opts[names[i]].stored, Len(w)) = sought
        at == BinarySearch(ol, LAMBDA name : Before(sought, Beginning(ol, name, Len(w))),
                               LAMBDA name : Before(Beginning(ol, name, Len(w)), sought))
    IN  IF at = 0 \/ Same(at + 1) THEN None ELSE names[at]

\* The option that w abbreviates: the names next to the one that is found
\* must differ.
AbbrevMatch(ol, w) ==
    LET sought == Beginning(ol, w, Len(w))
        names  == ol.sorted
        Same(i) == i \in DOMAIN names /\ Beginning(ol, ol.opts[names[i]].stored, Len(w)) = sought
        at == BinarySearch(ol, LAMBDA name : Before(sought, Beginning(ol, name, Len(w))),
                               LAMBDA name : Before(Beginning(ol, name, Len(w)), sought))
    IN  IF at = 0 \/ Same(at - 1) \/ Same(at + 1) THEN None ELSE names[at]

-----------------------------------------------------------------------------
(* Handlers: each returns the state after it.                              *)

Say(s)      == [s EXCEPT !.msgs = IF @ < MaxMsgs THEN @ + 1 ELSE @]
Fail(s)     == [s EXCEPT !.ok = FALSE]
OptError(s) == Fail(Say(s))
Succeed(s)  == [s EXCEPT !.ok = TRUE]
Store(s, o, v) == [Succeed(s) EXCEPT !.values[o.dest] = v]
Skip(s, n)  == [s EXCEPT !.idx = @ + n]

Missing(s, argv) == s.idx > Len(argv)
Given(s, argv, inline) == IF inline # NoArg THEN inline ELSE argv[s.idx]
Taken(inline) == IF inline # NoArg THEN 0 ELSE 1

InRange(w) == w \in DOMAIN NumVal /\ NumVal[w] \in -LongMax..LongMax

\* chk_numeric_arg after strtol or strtod.
IsNumeric(type, w) == IF type \in {"d", "D"} THEN InRange(w) \/ w \in RealWords ELSE InRange(w)

Unsigned(n) == n % Wrap
Signed(n)   == ((n + Wrap \div 2) % Wrap) - Wrap \div 2

\* strtol
Clamped(n) == IF n > LongMax THEN LongMax ELSE IF n < -LongMax THEN -LongMax - 1 ELSE n

\* What is stored of a number: the casts to int and unsigned int cut it off.
Number(type, w) ==
    CASE type \in {"i", "I", "z", "<INTEGER>"} -> Signed(Clamped(NumVal[w]))
      [] type = "u" -> Unsigned(NumVal[w])
      [] OTHER      -> w

\* strtol: the number that a word begins with, or 0.
Strtol(w) ==
    LET starts == {n \in 0..Len(w) : SubSeq(w, 1, n) \in DOMAIN NumVal}
    IN  IF starts = {} THEN 0
        ELSE NumVal[SubSeq(w, 1, CHOOSE n \in starts : \A k \in starts : k <= n)]

\* For an int the check comes before strtol has set p, and with errno 0.
GetNumericArg(s, argv, o, inline) ==
    LET w   == Given(s, argv, inline)
        int == Signed(Clamped(Strtol(w)))
    IN  IF Missing(s, argv) /\ inline = NoArg THEN OptError(s)
        ELSE IF o.type = "i" /\ s.p = "unmapped" THEN [s EXCEPT !.place = "crash"]
        ELSE IF o.type = "i" /\ s.p = "nul" THEN Skip(Store(s, o, int), Taken(inline))
        ELSE IF o.type = "i" \/ ~IsNumeric(o.type, w) THEN OptError(s)
        ELSE Skip(Store(s, o, Number(o.type, w)), Taken(inline))

\* The values from s.idx on that satisfy Ok, up to word last.
Run(s, argv, last, Ok(_)) ==
    CHOOSE n \in 0..(Len(argv) + 1) :
        /\ \A i \in s.idx..(s.idx + n - 1) : i <= last /\ Ok(argv[i])
        /\ s.idx + n > last \/ ~Ok(argv[s.idx + n])

Room(s, o) == o.len - Len(s.values[o.dest])

\* The first n values are added to the array; those beyond its length are not
\* skipped either.
AddToArray(s, argv, o, n, Value(_)) ==
    LET k     == IF n <= Room(s, o) THEN n ELSE Room(s, o)
        added == [i \in 1..k |-> Value(argv[s.idx + i - 1])]
        t     == Skip(Store(s, o, s.values[o.dest] \o added), k)
    IN  IF k < n THEN OptError(t) ELSE t

\* get_int_array_arg, get_dbl_array_arg: all the numbers that follow.
GetArrayArg(s, argv, o) ==
    LET n == Run(s, argv, Len(argv), LAMBDA w : IsNumeric(o.type, w))
    IN  IF Missing(s, argv) \/ n = 0 THEN OptError(s)
        ELSE AddToArray(s, argv, o, n, LAMBDA w : Number(o.type, w))

\* All the words that follow up to an option; the last word is left for the
\* DSN, when there is none yet.
GetStrArrayArg(s, argv, ol, o) ==
    LET last == IF Pending(s, ol) THEN Len(argv) - 1 ELSE Len(argv)
        n    == Run(s, argv, last, LAMBDA w : ~StartsWithDash(w))
        nothing == n = 0 /\ s.idx <= last
    IN  IF (Missing(s, argv) \/ nothing) /\ "emptyListOk" \notin ol.mode THEN OptError(s)
        ELSE AddToArray(s, argv, o, n, LAMBDA w : w)

Fits(o, w) == Len(w) < o.len

CopyStrArg(s, argv, o, inline) ==
    IF Missing(s, argv) /\ inline = NoArg THEN OptError(s)
    ELSE IF ~Fits(o, Given(s, argv, inline)) THEN OptError(s)
    ELSE Skip(Store(s, o, Given(s, argv, inline)), Taken(inline))

\* A string and an int.
GetStrIntArg(s, argv, o) ==
    IF s.idx + 1 > Len(argv) \/ ~Fits(o, argv[s.idx]) THEN OptError(s)
    ELSE LET t == Skip(Store(s, o, <<argv[s.idx]>>), 1)
         IN  IF ~IsNumeric(o.type, argv[t.idx]) THEN OptError(t)
             ELSE Skip(Store(t, o, Append(t.values[o.dest], Number(o.type, argv[t.idx]))), 1)

\* do_callback_str, do_callback_val: the test for a missing argument asks
\* for one after "=" as well, and so is never true.
DoCallback(s, argv, o, inline) ==
    LET w == IF Missing(s, argv) /\ inline = NoArg THEN <<"NULL">> ELSE Given(s, argv, inline)
        t == Skip(Store(s, o, w), Taken(inline))
    IN  IF Missing(s, argv) /\ inline # NoArg THEN OptError(s)
        ELSE IF o.type = "t" /\ w \in Refused THEN OptError(t) ELSE t

HandleOption(s, argv, ol, o, invert, inline) ==
    CASE o.type = "flag" -> Store(s, o, 1)
      [] o.type = "!"    -> Store(s, o, IF invert THEN 0 ELSE 1)
      [] o.type \in {"i", "u", "l", "d"} -> GetNumericArg(s, argv, o, inline)
      [] o.type \in {"I", "D"} -> GetArrayArg(s, argv, o)
      [] o.type = "S"    -> GetStrArrayArg(s, argv, ol, o)
      [] o.type = "s"    -> CopyStrArg(s, argv, o, inline)
      [] o.type \in {"Z", "t"} -> DoCallback(s, argv, o, inline)
      [] o.type = "z"    -> GetStrIntArg(s, argv, o)
      [] OTHER           -> OptError(s)

\* Which special option an argument looks like; NAMES are compared as the
\* mode says.
LooksLike(type, ol, w) ==
    LET Is(name) == IF CaseSensitive(ol) THEN w = name ELSE LowCase(w) = name
    IN  CASE type = "<INTEGER>" -> w \in DOMAIN NumVal
          [] type = "<REAL>"    -> w \in DOMAIN NumVal \cup RealWords
          [] type \in {"<HELP>", "<HELPFUNC>"}    -> Is(<<"h">>) \/ Is(<<"h", "elp">>)
          [] type \in {"<VERSION>", "<VERSFUNC>"} -> w = <<"V">> \/ Is(<<"v", "ersion">>)
          [] type = "<DSN>"     -> Is(<<"d", "s", "n">>)
          [] type = "<CONNSTR>" -> Is(<<"c", "onnstr">>)

GotDsn(s) == IF s.ok THEN [s EXCEPT !.gotDsn = TRUE] ELSE s

\* The first special option that it looks like; only a copy that fails goes on.
ChkSpecialOption(s, argv, ol, w) ==
    LET hits == {i \in DOMAIN ol.opts : IsSpecial(ol.opts[i]) /\ LooksLike(ol.opts[i].spec.type, ol, w)}
        o    == ol.opts[CHOOSE i \in hits : \A j \in hits : i <= j].spec
    IN  IF hits = {} THEN Fail(s)
        ELSE CASE o.type \in {"<INTEGER>", "<REAL>"} -> Store(s, o, Number(o.type, w))
               [] o.type \in {"<HELP>", "<VERSION>"} /\ "noExit" \notin ol.mode ->
                      [s EXCEPT !.place = "exit0"]
               [] o.type \in {"<DSN>", "<CONNSTR>"}  -> GotDsn(CopyStrArg(s, argv, o, NoArg))
               [] OTHER -> Succeed(s)

\* The option of one character that c is; a negatable one does not count.
OneCharOption(ol, c) ==
    LET hits == {i \in DOMAIN ol.opts : /\ ol.opts[i].stored = <<c>> /\ c \in Chars
                                        /\ ol.opts[i].spec.type \in {"flag", "i", "s"}}
    IN  IF hits = {} THEN None ELSE CHOOSE i \in hits : \A j \in hits : i <= j

IsFlag(ol, c) == OneCharOption(ol, c) # None /\ ol.opts[OneCharOption(ol, c)].spec.type = "flag"

\* -opt as -o -p -t, or as -o with the argument pt: first the flags, which are
\* set, then an option with the rest as its argument.
HandleSingleChar(s, ol, w) ==
    LET n == CHOOSE k \in 0..Len(w) : /\ \A i \in 1..k : IsFlag(ol, w[i])
                                      /\ k = Len(w) \/ ~IsFlag(ol, w[k + 1])
        Dest(i) == ol.opts[OneCharOption(ol, w[i])].spec.dest
        t == [s EXCEPT !.values = [d \in DOMAIN @ |-> IF \E i \in 1..n : Dest(i) = d THEN 1 ELSE @[d]]]
        value == Rest(w, n + 1)
        o == ol.opts[OneCharOption(ol, w[n + 1])].spec
    IN  IF n = Len(w) THEN Succeed(t)
        ELSE IF OneCharOption(ol, w[n + 1]) = None \/ value = <<>> THEN Fail(t)
        ELSE IF o.type = "i"
             THEN IF value \in DOMAIN NumVal THEN Store(t, o, Number("i", value)) ELSE Fail(t)
             ELSE IF Fits(o, value) THEN Store(t, o, value) ELSE OptError(t)

\* The order in which the readings of an argument are tried.
FindOption(s, argv, ol, w, dbl) ==
    LET Handle(t, at, invert, inline) ==
            HandleOption(t, argv, ol, ol.opts[at].spec, invert, inline)
        special == ChkSpecialOption(s, argv, ol, w)
        bundle  == IF ~dbl /\ Len(w) > 1 THEN HandleSingleChar(special, ol, w) ELSE special
        no      == Beginning(ol, w, 2) = <<"n", "o">>
        negated == IF no THEN ExactMatch(ol, Rest(w, 2)) ELSE None
        abbrev  == IF "abbrev" \in ol.mode THEN AbbrevMatch(ol, w) ELSE None
        eqs     == {i \in DOMAIN w : w[i] = "="}
        eq      == CHOOSE i \in eqs : \A j \in eqs : i <= j
    IN  IF dbl /\ IsChar(w) THEN Fail(s)
        ELSE IF ExactMatch(ol, w) # None THEN Handle(s, ExactMatch(ol, w), FALSE, NoArg)
        ELSE IF special.ok \/ special.place = "exit0" THEN special
        ELSE IF bundle.ok THEN bundle
        ELSE IF negated # None THEN Handle(bundle, negated, TRUE, NoArg)
        ELSE IF abbrev # None THEN Handle(bundle, abbrev, FALSE, NoArg)
        ELSE IF eqs = {} \/ eq = Len(w) THEN bundle
        ELSE IF ExactMatch(ol, SubSeq(w, 1, eq - 1)) # None
             THEN Handle(bundle, ExactMatch(ol, SubSeq(w, 1, eq - 1)), FALSE, Rest(w, eq))
        ELSE bundle

-----------------------------------------------------------------------------
(* parse_args                                                              *)

Start(values) ==
    [idx |-> 1, values |-> values, msgs |-> 0, seen |-> 0, nerrs |-> 0,
     gotDsn |-> FALSE, ok |-> TRUE, p |-> "nul", place |-> "args"]

\* Argument s gave t: a message that the handlers have not given.
NotTaken(s, t, ol) ==
    LET u == IF "ignoreUnknowns" \in ol.mode THEN t
             ELSE [(IF t.msgs = s.seen THEN Say(t) ELSE t) EXCEPT !.nerrs = @ + 1]
    IN  [u EXCEPT !.seen = u.msgs]

\* One turn of the loop over the words.
ParseArg(s, argv, ol) ==
    LET w == argv[s.idx]
        t == FindOption(Fail(Skip(s, 1)), argv, ol, OptionOf(w), IsDouble(w))
    IN  IF s.idx > Len(argv) \/ ~StartsWithDash(w) THEN [s EXCEPT !.place = "connstr"]
        ELSE IF w = <<"-", "-">> THEN [Skip(s, 1) EXCEPT !.place = "connstr"]
        ELSE IF t.ok \/ t.place # "args" THEN t ELSE NotTaken(s, t, ol)

Bad == {"=", ";", ","}

LooksLikeDsn(w) == w # <<>> /\ \A i \in DOMAIN w : w[i] \notin Bad

\* name=value;name=value...
LooksLikeConnstr(w) ==
    LET a == IF w # <<>> /\ w[1] = ";" THEN Rest(w, 1) ELSE w
        b == IF a # <<>> /\ a[Len(a)] = ";" THEN SubSeq(a, 1, Len(a) - 1) ELSE a
        starts == {1} \cup {i + 1 : i \in {j \in DOMAIN b : b[j] = ";"}}
    IN  \A i \in starts : \E k \in i..Len(b) : b[k] = "=" /\ \A j \in i..(k - 1) : b[j] \notin Bad

TheOption(ol, type) == ol.opts[CHOOSE i \in DOMAIN ol.opts : ol.opts[i].spec.type = type].spec

\* Mutant: TT_CONNSTR is looked at first.
EnvironmentFirst(s, argv, ol, env) ==
    IF HasSpecial(ol, "<CONNSTR>") /\ env # <<>> /\ Fits(TheOption(ol, "<CONNSTR>"), env)
    THEN Store(s, TheOption(ol, "<CONNSTR>"), env) ELSE s

\* The first word that is left, if it looks like a DSN or a connection
\* string; TT_CONNSTR; nothing.  The length of TT_CONNSTR is compared with
\* that of the option <CONNSTR>, which may not be there.
HandleConnstr(s, argv, ol, env) ==
    LET here(type) == HasSpecial(ol, type) /\ s.idx <= Len(argv)
        type == IF here("<DSN>") /\ LooksLikeDsn(argv[s.idx]) THEN "<DSN>" ELSE "<CONNSTR>"
        found == \/ here("<DSN>") /\ LooksLikeDsn(argv[s.idx])
                 \/ here("<CONNSTR>") /\ LooksLikeConnstr(argv[s.idx])
        t == CopyStrArg(s, argv, TheOption(ol, type), NoArg)
        Refuse(u) == [OptError(u) EXCEPT !.nerrs = @ + 1]
        Without(u) == IF "noConnstrOk" \in ol.mode THEN u ELSE Refuse(u)
    IN  IF s.nerrs > 0 \/ ~Pending(s, ol) THEN s
        ELSE IF found THEN IF t.ok THEN t ELSE [t EXCEPT !.nerrs = @ + 1]
        ELSE IF "noEnv" \notin ol.mode /\ env # <<>>
             THEN IF ~HasSpecial(ol, "<CONNSTR>") THEN [s EXCEPT !.place = "crash"]
                  ELSE IF Fits(TheOption(ol, "<CONNSTR>"), env)
                       THEN Store(s, TheOption(ol, "<CONNSTR>"), env)
                       ELSE Without(Refuse(s))
        ELSE Without(s)

Finish(s, argv, ol, env) ==
    LET t == HandleConnstr(s, argv, ol, env)
    IN  IF t.place = "crash" THEN t ELSE [t EXCEPT !.place = "parsed"]

\* What ttc_getoptions returns: the next word, or -1.
Returned(s) == IF s.nerrs = 0 THEN s.idx ELSE -1
=============================================================================
