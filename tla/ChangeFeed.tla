----------------------------- MODULE ChangeFeed -----------------------------
(***************************************************************************)
(* What a subscriber to the transaction log promises, whatever program it  *)
(* is: it handles the updates of the tables it tracks in commit order, it  *)
(* never acknowledges an update that it has not handled, and after a crash *)
(* it goes on behind the last acknowledgement, so that an update may be    *)
(* handled more than once and is never skipped.                            *)
(***************************************************************************)
EXTENDS Integers

VARIABLES
    committed,  \* number of updates in the log
    since,      \* updates up to this one are older than the subscription
    acked,      \* updates up to this one are acknowledged
    handled     \* the updates handled, as a set of numbers

fvars == <<committed, since, acked, handled>>

FeedInit ==
    /\ committed = 0 /\ since = 0 /\ acked = 0
    /\ handled = {}

\* A transaction of another program adds its updates.
Commit ==
    /\ committed' \in Nat /\ committed' > committed
    /\ UNCHANGED <<since, acked, handled>>

\* The next update in commit order, or one handled since the last
\* acknowledgement.
Handling(r) ==
    /\ r \in (acked + 1)..committed
    /\ (acked + 1)..(r - 1) \subseteq handled
    /\ handled' = handled \cup {r}

Handle ==
    \E r \in (acked + 1)..committed :
        Handling(r) /\ UNCHANGED <<committed, since, acked>>

\* Handling an update may acknowledge it.
HandleAndAcknowledge ==
    \E r \in (acked + 1)..committed :
        Handling(r) /\ acked' = r /\ UNCHANGED <<committed, since>>

Acknowledge ==
    /\ acked' \in acked..committed
    /\ (acked + 1)..acked' \subseteq handled
    /\ UNCHANGED <<committed, since, handled>>

\* A new bookmark begins at the end of the log.
Subscribe ==
    /\ since' = committed /\ acked' = committed
    /\ UNCHANGED <<committed, handled>>

FeedNext == Commit \/ Handle \/ HandleAndAcknowledge \/ Acknowledge \/ Subscribe

FeedSpec == FeedInit /\ [][FeedNext]_fvars

\* No acknowledged update was skipped: everything between the creation of
\* the bookmark and its position has been handled.
AtLeastOnce == (since + 1)..acked \subseteq handled
=============================================================================
