---------------------------- MODULE XlaSubscriber ----------------------------
(***************************************************************************)
(* The three programs that monitor tables through the transaction log API: *)
(* xlaSimple.c ("simple", one bookmark with a fixed name), and the         *)
(* TTClasses programs xlasubscriber1.cpp ("sub1") and xlasubscriber2.cpp   *)
(* ("sub2"), whose bookmark is named after the process.  Any call of the   *)
(* API may fail, Ctrl-C may come at any time, the process may be killed    *)
(* between any two calls and be started again.                             *)
(*                                                                         *)
(* The bookmark is what the database keeps: it exists or not, it has a     *)
(* position in the log, and a set of tracked tables.  Only updates of      *)
(* tracked tables reach the log that the bookmark sees.                    *)
(***************************************************************************)
EXTENDS Integers, Sequences

CONSTANTS
    Programs,   \* the programs to run, a subset of AllPrograms
    BatchSize,  \* records a fetch returns at most (100 or 1000 in the code)
    MaxLog,     \* bound: length of the log
    MaxStarts   \* bound: times the program is started

AllPrograms == {"simple", "sub1", "sub2"}

ASSUME XlaAssumption ==
    /\ Programs \subseteq AllPrograms
    /\ BatchSize \in Nat \ {0}
    /\ MaxLog \in Nat /\ MaxStarts \in Nat

VARIABLES
    prog,       \* the program
    log,        \* the records the bookmark sees: [kind, commit]
    bookmark,   \* [exists, since, acked, tracking], kept by the database
    pc,
    next,       \* the last record handed to the program
    todo,       \* the last record of the batch it has fetched
    doAcknowledge, \* sub1: the batch holds the end of a transaction
    tables,     \* number of tables subscribed, or unsubscribed, so far
    tableId,    \* simple: SYSTEM_TABLE_ID # 0
    sig,        \* sigReceived # 0
    handled,    \* history: the records given to the handlers
    failed,     \* history: a call of this start has failed
    starts

database == <<log, bookmark>>
batch    == <<next, todo, doAcknowledge>>
history  == <<handled, failed>>
vars     == <<prog, log, bookmark, pc, next, todo, doAcknowledge, tables,
              tableId, sig, handled, failed, starts>>

NoBookmark == [exists |-> FALSE, since |-> 0, acked |-> 0, tracking |-> {}]

\* MYDATA; the table the user names; MYTABLE, ICF and ABC.
NTables == IF prog = "sub2" THEN 3 ELSE 1

Init ==
    /\ prog \in Programs
    /\ log = <<>> /\ bookmark = NoBookmark
    /\ pc = "off"
    /\ next = 0 /\ todo = 0 /\ doAcknowledge = FALSE
    /\ tables = 0 /\ tableId = FALSE /\ sig = FALSE
    /\ handled = {} /\ failed = FALSE
    /\ starts = 0

GoTo(where) == pc' = where

-----------------------------------------------------------------------------
(* The database and its other users.                                       *)

Row(commit)   == [kind |-> "row", commit |-> commit]
Other(commit) == [kind |-> "other", commit |-> commit]

\* One row; two rows; a row, and a record that is neither an insert, nor an
\* update, nor a delete.
Transactions ==
    {<<Row(TRUE)>>, <<Row(FALSE), Row(TRUE)>>, <<Row(FALSE), Other(TRUE)>>}

CommitTransaction ==
    /\ bookmark.exists /\ bookmark.tracking # {}
    /\ \E t \in Transactions :
        /\ Len(log) + Len(t) <= MaxLog
        /\ log' = log \o t
    /\ UNCHANGED <<prog, bookmark, pc, batch, tables, tableId, sig, history, starts>>

\* A fresh bookmark stands at the end of the log.
Created == [exists |-> TRUE, since |-> Len(log), acked |-> Len(log), tracking |-> {}]

\* The bookmark is gone; its position is kept for the record.
Deleted == [bookmark EXCEPT !.exists = FALSE, !.tracking = {}]

-----------------------------------------------------------------------------
(* Starting.                                                               *)

\* The name of the bookmark holds the process number, except in xlaSimple:
\* a bookmark left behind is not the one a new process opens.
Start ==
    /\ pc = "off" /\ starts < MaxStarts
    /\ GoTo("connect")
    /\ bookmark' = IF prog = "simple" THEN bookmark ELSE Deleted
    /\ next' = 0 /\ todo' = 0 /\ doAcknowledge' = FALSE
    /\ tables' = 0 /\ tableId' = FALSE /\ sig' = FALSE /\ failed' = FALSE
    /\ starts' = starts + 1
    /\ UNCHANGED <<prog, log, handled>>

\* xlaSimple: ConnectAndCheckTable().
ConnectAndCheckTable ==
    /\ pc = "connect" /\ prog = "simple"
    /\ GoTo("create")
    /\ UNCHANGED <<prog, database, batch, tables, tableId, sig, history, starts>>

\* Error 907 of ttXlaPersistOpen.
KeyExists == bookmark.exists

\* xlaSimple: ttXlaPersistOpen(XLACREAT); a bookmark that is there already
\* is tried again with XLAREUSE.
PersistOpenCreate ==
    /\ pc = "create"
    /\ IF KeyExists
       THEN GoTo("reuse") /\ UNCHANGED <<bookmark, next, todo>>
       ELSE /\ bookmark' = Created
            /\ next' = Len(log) /\ todo' = Len(log)
            /\ GoTo("byname")
    /\ UNCHANGED <<prog, log, doAcknowledge, tables, tableId, sig, history, starts>>

\* Mutant: a bookmark that is opened again goes on at the end of the log.
NewestRecord == Len(log)

\* Where a bookmark that is opened again goes on.
Resume == bookmark.acked

PersistOpenReuse ==
    /\ pc = "reuse"
    /\ next' = Resume /\ todo' = Resume
    /\ GoTo("byname")
    /\ UNCHANGED <<prog, database, doAcknowledge, tables, tableId, sig, history, starts>>

TableByName ==
    /\ pc = "byname"
    /\ tableId' = TRUE
    /\ GoTo("track")
    /\ UNCHANGED <<prog, database, batch, tables, sig, history, starts>>

\* TTClasses: conn.Connect() also opens the bookmark.
Connect ==
    /\ pc = "connect" /\ prog # "simple"
    /\ bookmark' = Created
    /\ next' = Len(log) /\ todo' = Len(log)
    /\ GoTo(IF prog = "sub1" THEN "prompt" ELSE "handler")
    /\ UNCHANGED <<prog, log, doAcknowledge, tables, tableId, sig, history, starts>>

\* xlasubscriber1 asks for the table and for its owner, and reads both from
\* the terminal.  The signal handler restarts the read (SA_RESTART): only the
\* user ends it, who need not do so.
UserAnswers ==
    /\ pc = "prompt"
    /\ GoTo("handler")
    /\ UNCHANGED <<prog, database, batch, tables, tableId, sig, history, starts>>

\* TTClasses: one handler for each table.
NewHandler ==
    /\ pc = "handler"
    /\ GoTo("track")
    /\ UNCHANGED <<prog, database, batch, tables, tableId, sig, history, starts>>

\* ttXlaTableStatus(1), EnableTracking(): the tables one after the other.
EnableTracking ==
    /\ pc = "track"
    /\ tables' = tables + 1
    /\ bookmark' = [bookmark EXCEPT !.tracking = @ \cup {tables + 1}]
    /\ GoTo(IF prog = "simple" THEN "columns"
            ELSE IF tables' = NTables THEN "loop" ELSE "handler")
    /\ UNCHANGED <<prog, log, batch, tableId, sig, history, starts>>

\* xlaSimple: the status is read back, then the columns.
GetColumnInfo ==
    /\ pc = "columns"
    /\ GoTo("loop")
    /\ UNCHANGED <<prog, database, batch, tables, tableId, sig, history, starts>>

-----------------------------------------------------------------------------
(* while (!StopRequested())                                                *)

StopRequested == sig

Fetch ==
    /\ pc = "loop" /\ ~StopRequested
    /\ GoTo("fetch")
    /\ UNCHANGED <<prog, database, batch, tables, tableId, sig, history, starts>>

\* At most BatchSize records, in commit order; none when the wait is over.
BatchEnd == IF Len(log) > next + BatchSize THEN next + BatchSize ELSE Len(log)

FetchUpdatesWait ==
    /\ pc = "fetch"
    /\ todo' = BatchEnd
    /\ doAcknowledge' = FALSE
    /\ GoTo("handle")
    /\ UNCHANGED <<prog, database, next, tables, tableId, sig, history, starts>>

\* Is the record to be acknowledged at once?  sub1 returns before it looks
\* when the record is of another kind.
IsCommitRecord(r) == r.kind = "row" /\ r.commit

HandleChange ==
    /\ pc = "handle" /\ next < todo
    /\ next' = next + 1
    /\ handled' = handled \cup {next + 1}
    /\ doAcknowledge' = (doAcknowledge \/ (prog = "sub1" /\ IsCommitRecord(log[next + 1])))
    /\ UNCHANGED <<prog, database, pc, todo, tables, tableId, sig, failed, starts>>

\* Mutant: acknowledge first, then look at the updates.
AckOnFetch == pc = "handle"

BatchHandled == pc = "handle" /\ next = todo

\* Mutant: every program waits for the end of a transaction.
AtCommitOnly == doAcknowledge

\* sub1 acknowledges only if it has seen the end of a transaction.
MustAcknowledge == prog = "sub1" => doAcknowledge

Acknowledge ==
    /\ BatchHandled
    /\ bookmark' = IF MustAcknowledge THEN [bookmark EXCEPT !.acked = todo]
                                      ELSE bookmark
    /\ GoTo("loop")
    /\ UNCHANGED <<prog, log, batch, tables, tableId, sig, history, starts>>

-----------------------------------------------------------------------------
(* Ending.                                                                 *)

\* Mutant: the TTClasses programs disconnect as they do after an error.
DisconnectOnly == IF prog = "simple" THEN "untrack" ELSE "close"

\* After the loop: xlaSimple keeps its bookmark (deleteBookmark is 0).
AfterLoop == CASE prog = "simple" -> "untrack"
               [] prog = "sub1"   -> "delete"
               [] prog = "sub2"   -> "untrack"

Stop ==
    /\ pc = "loop" /\ StopRequested
    /\ GoTo(AfterLoop)
    /\ tables' = 0
    /\ UNCHANGED <<prog, database, batch, tableId, sig, history, starts>>

\* xlaSimple unsubscribes in TerminateGracefully, if it knows the table.
TableUnknown ==
    /\ pc = "untrack" /\ prog = "simple" /\ ~tableId
    /\ GoTo("close")
    /\ UNCHANGED <<prog, database, batch, tables, tableId, sig, history, starts>>

Untracking ==
    /\ pc = "untrack" /\ (prog = "simple" => tableId)
    /\ tables' = tables + 1
    /\ GoTo(IF tables' # NTables THEN "untrack"
            ELSE IF prog = "simple" THEN "close" ELSE "delete")
    /\ UNCHANGED <<prog, log, batch, tableId, sig, handled, starts>>

DisableTracking ==
    /\ Untracking
    /\ bookmark' = [bookmark EXCEPT !.tracking = @ \ {tables + 1}]
    /\ UNCHANGED failed

\* A table that cannot be unsubscribed is reported and passed over.
DisableTrackingFails ==
    /\ Untracking
    /\ failed' = TRUE
    /\ UNCHANGED bookmark

DeleteBookmarkAndDisconnect ==
    /\ pc = "delete"
    /\ bookmark' = Deleted
    /\ GoTo("exited")
    /\ UNCHANGED <<prog, log, batch, tables, tableId, sig, history, starts>>

\* ttXlaClose, SQLDisconnect and the frees, or connection.Disconnect():
\* an error is reported and passed over.
CloseAndDisconnect ==
    /\ pc = "close"
    /\ GoTo("exited")
    /\ UNCHANGED <<prog, database, batch, tables, tableId, sig, history, starts>>

-----------------------------------------------------------------------------
(* Failures.                                                               *)

Calls == {"connect", "create", "reuse", "byname", "handler", "track",
          "columns", "fetch", "handle", "delete"}

\* Where a call that fails leads.  xlaSimple always goes through its
\* TerminateGracefully.  The one of the TTClasses programs ("close") does not
\* delete the bookmark; some exceptions nobody catches; sub2 goes on to its
\* clean-up when a handler or the acknowledgement throws.
AfterError(place) ==
    CASE prog = "simple"                                     -> {"untrack"}
      [] prog # "simple" /\ place \in {"connect", "delete"}  -> {"exited"}
      [] prog = "sub2" /\ place = "track"                    -> {"exited"}
      [] prog = "sub2" /\ place = "handler"                  -> {"close", "exited"}
      [] prog = "sub2" /\ place = "handle"                   -> {"untrack"}
      [] OTHER                                               -> {"close"}

\* sub1 catches what goes wrong within a handler: only the acknowledgement
\* fails it.
MayFail(place) ==
    /\ place \in Calls
    /\ prog = "sub1" /\ place = "handle" => BatchHandled /\ MustAcknowledge

CallFails ==
    /\ MayFail(pc)
    /\ pc' \in AfterError(pc)
    /\ tables' = 0
    /\ failed' = TRUE
    /\ UNCHANGED <<prog, database, batch, tableId, sig, handled, starts>>

Interrupt ==
    /\ pc \notin {"off", "exited"} /\ ~sig
    /\ sig' = TRUE
    /\ UNCHANGED <<prog, database, pc, batch, tables, tableId, history, starts>>

\* The process is killed; the database keeps the bookmark.
Crash ==
    /\ pc \notin {"off", "exited"} /\ starts < MaxStarts
    /\ GoTo("off")
    /\ UNCHANGED <<prog, database, batch, tables, tableId, sig, history, starts>>

\* The program is run again after it has ended.
RunAgain ==
    /\ pc = "exited" /\ starts < MaxStarts
    /\ GoTo("off")
    /\ UNCHANGED <<prog, database, batch, tables, tableId, sig, history, starts>>

Ended == pc = "exited" /\ starts = MaxStarts /\ UNCHANGED vars

Step ==
    \/ Start \/ ConnectAndCheckTable \/ PersistOpenCreate \/ PersistOpenReuse
    \/ TableByName \/ Connect \/ NewHandler \/ EnableTracking \/ GetColumnInfo
    \/ Fetch \/ FetchUpdatesWait \/ HandleChange \/ Acknowledge
    \/ Stop \/ TableUnknown \/ DisableTracking \/ DeleteBookmarkAndDisconnect \/ CloseAndDisconnect
    \/ CallFails \/ DisableTrackingFails

Next == Step \/ UserAnswers \/ CommitTransaction \/ Interrupt \/ Crash \/ RunAgain \/ Ended

Spec == Init /\ [][Next]_vars

\* The operating system runs a program that has been started; nothing makes
\* the user answer, or another program commit.
FairSpec == Spec /\ WF_vars(Step)

-----------------------------------------------------------------------------
(* Properties.                                                             *)

Alive == pc \notin {"off", "exited"}

\* Every variable has its type, and what the program has been handed lies
\* between its bookmark and the end of the log.
TypeOK ==
    /\ prog \in Programs
    /\ log \in Seq([kind : {"row", "other"}, commit : BOOLEAN])
    /\ bookmark \in [exists : BOOLEAN, since : 0..Len(log), acked : 0..Len(log),
                     tracking : SUBSET (1..3)]
    /\ pc \in Calls \cup {"off", "prompt", "loop", "untrack", "close", "exited"}
    /\ next \in 0..Len(log) /\ todo \in next..Len(log)
    /\ doAcknowledge \in BOOLEAN /\ tableId \in BOOLEAN
    /\ tables \in 0..3
    /\ sig \in BOOLEAN /\ failed \in BOOLEAN
    /\ handled \subseteq 1..Len(log)
    /\ starts \in 0..MaxStarts

Feed == INSTANCE ChangeFeed WITH
            committed <- Len(log), since <- bookmark.since,
            acked <- bookmark.acked

\* Whatever call fails and wherever the process is killed, an update that
\* the bookmark has passed has been given to its handler.
AtLeastOnce == Feed!AtLeastOnce

\* The three programs keep the promise of a subscriber: updates are handled
\* in commit order, none is skipped, a restart of xlaSimple begins behind
\* the last acknowledgement and handles again what was not acknowledged.
ImplementsFeed == Feed!FeedSpec

\* xlaSimple goes on where it was: the bookmark survives every end of the
\* program, and is never created afresh at the end of the log.
PositionKept ==
    [][prog = "simple" /\ bookmark.exists =>
          bookmark'.exists /\ bookmark'.since = bookmark.since]_vars

\* After Ctrl-C the TTClasses programs leave no bookmark behind that would
\* hold the log, unless a call has failed; xlaSimple tracks no table.
CleanExit ==
    pc = "exited" /\ sig /\ ~failed =>
        IF prog = "simple" THEN bookmark.tracking = {} ELSE ~bookmark.exists

\* "This program by default deletes the XLA bookmark upon exit."
\* (xlaSimple.c:1051): it does not.
BookmarkDeleted == pc = "exited" /\ sig /\ ~failed => ~bookmark.exists

\* Every update the bookmark sees is given to its handler, unless the
\* program ends.
Delivered ==
    \A r \in 1..MaxLog :
        (Alive /\ bookmark.exists /\ Len(log) >= r /\ bookmark.since < r)
            ~> (r \in handled \/ sig \/ ~Alive)

\* "when the XLA program connects again, any updates that have occurred since
\* the program terminated will be interpreted" (xlaSimple.c:1041): once it has
\* handled updates of the table, the table stays tracked while the program is
\* down.  Not so after an exit of its own, which untracks it.
TrackedWhileDown ==
    prog = "simple" /\ bookmark.exists /\ handled # {} /\ ~Alive => bookmark.tracking # {}

\* xlaSimple and xlasubscriber2 acknowledge what they have handled, so that
\* the log can be purged while they run.
LogReleased ==
    \A r \in 1..MaxLog :
        (prog # "sub1" /\ r \in handled) ~> (bookmark.acked >= r \/ sig \/ ~Alive)

\* Ctrl-C ends every program, whatever it was about to do or fails to do,
\* and ends it clean (CleanExit), unless the process is killed or waits for
\* the user to name the table.
StopsCleanly == sig ~> (pc \in {"prompt", "off"} \/ (pc = "exited" /\ CleanExit))

\* "If our batch of XLA records terminates on a transaction boundary, then
\* we acknowledge the updates" (xlasubscriber1.cpp:412): the bookmark never
\* stands within a transaction.
AckAtBoundary ==
    bookmark.acked > bookmark.since => log[bookmark.acked].commit
=============================================================================
