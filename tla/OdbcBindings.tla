---------------------------- MODULE OdbcBindings ----------------------------
(***************************************************************************)
(* The typed bindings of GSOdbc.c: which buffer a parameter or a column    *)
(* gets, and which C types may be written into it or read out of it.       *)
(*                                                                         *)
(* A number is abstracted to how many bits it needs, a string to its       *)
(* length, a buffer to its size in bytes.                                  *)
(***************************************************************************)
EXTENDS Integers

Integral == {"UTINYINT", "STINYINT", "SSHORT", "USHORT", "SLONG", "ULONG",
             "SBIGINT", "UBIGINT"}
CTypes   == Integral \cup {"FLOAT", "DOUBLE", "CHAR"}

\* sizeof, on the 64-bit platforms the sample is built for.
Bytes(c) ==
    CASE c \in {"CHAR", "UTINYINT", "STINYINT"} -> 1
      [] c \in {"SSHORT", "USHORT"}             -> 2
      [] c \in {"SLONG", "ULONG", "FLOAT"}      -> 4
      [] c \in {"SBIGINT", "UBIGINT", "DOUBLE"} -> 8

No          == [ok |-> FALSE, size |-> 0]   \* the combination is refused
Buffer(n)   == [ok |-> TRUE,  size |-> n]
Natural(c)  == Buffer(Bytes(c))
If(cond, b) == IF cond THEN b ELSE No

-----------------------------------------------------------------------------
(* odbcTypeCompatible: the parameter buffer, one operator for each branch  *)
(* of the outer switch; w and d are ColumnSize and DecimalDigits.          *)

\* The cases SQL_C_SSHORT to SQL_C_FLOAT have no break: each runs through the
\* tests of all the wider types, and the last one decides.
CharParam(c, w, d) ==
    If(w # 0 /\ d = 0,
       CASE c = "CHAR"                     -> Buffer(4 * w + 1)
         [] c \in {"STINYINT", "UTINYINT"} -> If(w >= 4, Natural(c))
         [] OTHER                          -> If(w >= 58, Natural("DOUBLE")))

TinyintParam(c, w, d) ==
    If(w = 0 /\ d = 0,
       CASE c = "CHAR"     -> Buffer(3)
         [] c = "UTINYINT" -> Natural(c)
         [] OTHER          -> No)

SmallintParam(c, w, d) ==
    If(w = 0 /\ d = 0,
       CASE c = "CHAR"                               -> Buffer(7)
         [] c \in {"STINYINT", "UTINYINT", "SSHORT"} -> Natural(c)
         [] OTHER                                    -> No)

IntegerParam(c, w, d) ==
    If(w = 0 /\ d = 0,
       CASE c = "CHAR" -> Buffer(12)
         [] c \in {"STINYINT", "UTINYINT", "SSHORT", "USHORT", "SLONG"} -> Natural(c)
         [] OTHER      -> No)

BigintParam(c, w, d) ==
    If(w = 0 /\ d = 0,
       CASE c = "CHAR"                 -> Buffer(22)
         [] c \in Integral \ {"UBIGINT"} -> Natural(c)
         [] OTHER                      -> No)

NumericParam(c, w, d) ==
    If(w # 0 /\ 0 <= d /\ d <= w,
       IF c = "CHAR" THEN Buffer(w + 3) ELSE Natural(c))

FloatParam(c, w, d, chars) ==
    If(w # 0 /\ d = 0, IF c = "CHAR" THEN Buffer(chars) ELSE Natural(c))

odbcTypeCompatible(c, db, w, d) ==
    CASE db = "CHAR"     -> CharParam(c, w, d)
      [] db = "TINYINT"  -> TinyintParam(c, w, d)
      [] db = "SMALLINT" -> SmallintParam(c, w, d)
      [] db = "INTEGER"  -> IntegerParam(c, w, d)
      [] db = "BIGINT"   -> BigintParam(c, w, d)
      [] db = "NUMERIC"  -> NumericParam(c, w, d)
      [] db = "REAL"     -> FloatParam(c, w, d, 29)
      [] db = "DOUBLE"   -> FloatParam(c, w, d, 58)

DbTypes == {"CHAR", "TINYINT", "SMALLINT", "INTEGER", "BIGINT", "NUMERIC",
            "REAL", "DOUBLE"}

\* The column buffer: a length is given for strings and for nothing else.
ColTypes == {"CHAR", "UTINYINT", "SSHORT", "SLONG", "SBIGINT", "FLOAT", "DOUBLE"}

odbcValidColType(c, len) ==
    CASE c = "CHAR"                -> If(len > 0, Buffer(4 * len + 1))
      [] c \in ColTypes \ {"CHAR"} -> If(len = 0, Natural(c))
      [] OTHER                     -> No

-----------------------------------------------------------------------------
(* Values.                                                                 *)

Unset == -1

\* The bits a type can hold exactly: its width, or its mantissa's.
Capacity(c) ==
    CASE c = "FLOAT"  -> 24
      [] c = "DOUBLE" -> 53
      [] OTHER        -> 8 * Bytes(c)

Exact(c, v) == v <= Capacity(c)

\* A conversion keeps as many bits as its target can hold.
Cast(c, v) == IF Exact(c, v) THEN v ELSE Capacity(c)

\* Only these value types can be converted, in this order.
Numeric == <<"UTINYINT", "SSHORT", "SLONG", "SBIGINT", "FLOAT", "DOUBLE">>
From(i) == {Numeric[j] : j \in i..6}
UpTo(i) == {Numeric[j] : j \in 1..i}

Refused == [ok |-> FALSE, val |-> Unset]

Store(types, c, v) ==
    IF c \in types THEN [ok |-> TRUE, val |-> Cast(c, v)] ELSE Refused
Load(types, to, c, v) ==
    IF c \in types THEN [ok |-> TRUE, val |-> Cast(to, v)] ELSE Refused

(* ODBCSetParam_*: store a value of the function's type into a buffer of   *)
(* the bound type c, if the switch has a case for it.                      *)

ODBCSetParam_TINYINT(c, v)  == Store(From(1), c, v)
ODBCSetParam_SMALLINT(c, v) == Store(From(2), c, v)
ODBCSetParam_INTEGER(c, v)  == Store(From(3), c, v)
ODBCSetParam_BIGINT(c, v)   == Store(From(4), c, v)
ODBCSetParam_FLOAT(c, v)    == Store(From(5), c, v)
ODBCSetParam_DOUBLE(c, v)   == Store(From(6), c, v)
\* Mutant: The NUL is forgotten.
NoRoomForNul(c, size, len) ==
    IF c = "CHAR" /\ len <= size THEN [ok |-> TRUE, val |-> len] ELSE Refused

ODBCSetParam_CHAR(c, size, len) ==
    IF c = "CHAR" /\ len < size THEN [ok |-> TRUE, val |-> len] ELSE Refused

(* ODBCGetParam_*: read the buffer of a parameter of type c that holds v.  *)

ODBCGetParam_TINYINT(c, v)  == Load(UpTo(1), "UTINYINT", c, v)
ODBCGetParam_SMALLINT(c, v) == Load(UpTo(2), "SSHORT",   c, v)
ODBCGetParam_INTEGER(c, v)  == Load(UpTo(3), "SLONG",    c, v)
ODBCGetParam_BIGINT(c, v)   == Load(UpTo(4), "SBIGINT",  c, v)
ODBCGetParam_FLOAT(c, v)    == Load(UpTo(5), "FLOAT",    c, v)
ODBCGetParam_DOUBLE(c, v)   == Load(UpTo(6), "DOUBLE",   c, v)
ODBCGetParam_CHAR(c, v) ==
    IF c = "CHAR" THEN [ok |-> TRUE, val |-> v] ELSE Refused

(* ODBCGetCol_*: the same, for a column the driver filled.                 *)

ODBCGetCol_TINYINT(c, v)  == Load(UpTo(1), "UTINYINT", c, v)
ODBCGetCol_SMALLINT(c, v) == Load(UpTo(2), "SSHORT",   c, v)
ODBCGetCol_INTEGER(c, v)  == Load(UpTo(3), "SLONG",    c, v)
ODBCGetCol_BIGINT(c, v)   == Load(UpTo(4), "SBIGINT",  c, v)
ODBCGetCol_FLOAT(c, v)    == Load(UpTo(5), "FLOAT",    c, v)
ODBCGetCol_DOUBLE(c, v)   == Load(UpTo(6), "DOUBLE",   c, v)
ODBCGetCol_CHAR(c, v) ==
    IF c = "CHAR" THEN [ok |-> TRUE, val |-> v] ELSE Refused

SetParam(t, c, size, v) ==
    CASE t = "UTINYINT" -> ODBCSetParam_TINYINT(c, v)
      [] t = "SSHORT"   -> ODBCSetParam_SMALLINT(c, v)
      [] t = "SLONG"    -> ODBCSetParam_INTEGER(c, v)
      [] t = "SBIGINT"  -> ODBCSetParam_BIGINT(c, v)
      [] t = "FLOAT"    -> ODBCSetParam_FLOAT(c, v)
      [] t = "DOUBLE"   -> ODBCSetParam_DOUBLE(c, v)
      [] t = "CHAR"     -> ODBCSetParam_CHAR(c, size, v)

GetParam(t, c, v) ==
    CASE t = "UTINYINT" -> ODBCGetParam_TINYINT(c, v)
      [] t = "SSHORT"   -> ODBCGetParam_SMALLINT(c, v)
      [] t = "SLONG"    -> ODBCGetParam_INTEGER(c, v)
      [] t = "SBIGINT"  -> ODBCGetParam_BIGINT(c, v)
      [] t = "FLOAT"    -> ODBCGetParam_FLOAT(c, v)
      [] t = "DOUBLE"   -> ODBCGetParam_DOUBLE(c, v)
      [] t = "CHAR"     -> ODBCGetParam_CHAR(c, v)

GetCol(t, c, v) ==
    CASE t = "UTINYINT" -> ODBCGetCol_TINYINT(c, v)
      [] t = "SSHORT"   -> ODBCGetCol_SMALLINT(c, v)
      [] t = "SLONG"    -> ODBCGetCol_INTEGER(c, v)
      [] t = "SBIGINT"  -> ODBCGetCol_BIGINT(c, v)
      [] t = "FLOAT"    -> ODBCGetCol_FLOAT(c, v)
      [] t = "DOUBLE"   -> ODBCGetCol_DOUBLE(c, v)
      [] t = "CHAR"     -> ODBCGetCol_CHAR(c, v)

\* The bytes a successful SetParam writes: the terminating NUL counts.
Written(c, v) == IF c = "CHAR" THEN v + 1 ELSE Bytes(c)
=============================================================================
