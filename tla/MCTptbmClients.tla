--------------------------- MODULE MCTptbmClients ---------------------------
EXTENDS TptbmClients

Share(r, i, u, d) == [k \in Kinds |->
    CASE k = "read" -> r [] k = "insert" -> i [] k = "update" -> u [] OTHER -> d]

Line(a, n, s) ==
    [api |-> a, procs |-> n, share |-> s, key |-> IF a = "oci" THEN 1 ELSE 2,
     xacts |-> 2, min |-> 1, max |-> IF a = "oci" /\ n > 1 THEN 1 ELSE 2,
     multiop |-> FALSE, build |-> "nobuild"]

\* Two processes that insert, or delete; that update and read, which the
\* programs tell apart in ODPI only.  One process that only reads, with
\* percentages that do not add up, with -build, and with -multiop.
MCOptions ==
    UNION {
        {Line(a, 2, Share(0, 100, 0, 0)),
         [Line(a, 2, Share(0, 0, 0, 100)) EXCEPT !.build = "default"],
         Line(a, 1, Share(100, 0, 0, 0)),
         Line(a, 1, Share(50, 0, 0, 0)),
         [Line(a, 1, Share(0, 0, 0, 0)) EXCEPT !.build = "build"],
         [Line(a, 1, Share(0, 0, 0, 0)) EXCEPT !.multiop = TRUE]}
        : a \in {"oci", "odpi"}}
    \cup {Line("odpi", 2, Share(0, 0, 0, 0))}
=============================================================================
