--------------------------- MODULE MCTptbmWorkload ---------------------------
(* Instances of TptbmWorkload for TLC: the option sets of each run.        *)
EXTENDS TptbmWorkload

Options(modes, ops, mix, nobuild) ==
    {[mode |-> m, ops |-> o, mix |-> mix, nobuild |-> nobuild] : m \in modes, o \in ops}

\* Among them combinations that parse_args refuses.
SafeArgs ==
    Options(Modes, {1, 2}, Kinds, FALSE) \cup Options({"scaleout"}, {0}, {"read", "update"}, TRUE)

ReadDeleteArgs == Options({"scaleout"}, {1}, {"read", "delete"}, FALSE)
=============================================================================
