-------------------------- MODULE SubscriberProofs --------------------------
(***************************************************************************)
(* The subscribers of XlaSubscriber and of JmsSubscriber keep the promise  *)
(* of ChangeFeed, for any length of the log, size of a batch and number of *)
(* starts, and the promise is enough to lose no update; the JMS programs   *)
(* lose at most one message for each start and shut down clean.            *)
(***************************************************************************)
EXTENDS XlaSubscriber, FiniteSetTheorems, TLAPS

Record   == [kind : {"row", "other"}, commit : BOOLEAN]
Bookmark == [exists : BOOLEAN, since : Nat, acked : Nat, tracking : SUBSET (1..3)]

\* While the program reads, what it has been handed begins at its bookmark
\* and all of it has been handled.
Reading == {"byname", "prompt", "handler", "track", "columns", "loop", "fetch", "handle"}

Position == pc \in Reading =>
    bookmark.acked <= next /\ (bookmark.acked + 1)..next \subseteq handled

\* The tables are subscribed and unsubscribed one after the other.
TableCount ==
    /\ pc \in {"connect", "create", "reuse", "byname"} => tables = 0
    /\ pc \in {"prompt", "handler", "track", "untrack"} => tables < NTables

LogOK ==
    /\ log \in Seq(Record) /\ bookmark \in Bookmark
    /\ bookmark.since <= bookmark.acked /\ bookmark.acked <= Len(log)
    /\ next \in 0..Len(log) /\ todo \in next..Len(log)
    /\ handled \subseteq 1..Len(log)

ControlOK ==
    /\ prog \in Programs
    /\ pc \in Calls \cup {"off", "prompt", "loop", "untrack", "close", "exited"}
    /\ tables \in 0..3 /\ starts \in 0..MaxStarts
    /\ TableCount

FlagsOK ==
    /\ doAcknowledge \in BOOLEAN /\ tableId \in BOOLEAN
    /\ sig \in BOOLEAN /\ failed \in BOOLEAN

XInv == LogOK /\ ControlOK /\ FlagsOK /\ Position /\ AtLeastOnce

-----------------------------------------------------------------------------
(* The inductive invariant.                                                *)

LEMMA InitXInv == Init => XInv
  <1> SUFFICES ASSUME Init
               PROVE  XInv
    OBVIOUS
  <1> USE XlaAssumption DEF Init
  <1>1. LogOK
    BY DEF LogOK, NoBookmark, Bookmark
  <1>2. ControlOK
    BY DEF ControlOK, TableCount
  <1>3. FlagsOK
    BY Zenon DEF FlagsOK
  <1>4. Position
    BY DEF Position, Reading
  <1>5. AtLeastOnce
    BY DEF AtLeastOnce, Feed!AtLeastOnce, NoBookmark
  <1>6. QED
    BY <1>1, <1>2, <1>3, <1>4, <1>5 DEF XInv

LEMMA NTablesType == NTables \in {1, 3}
  BY DEF NTables

\* Longer logs.
LEMMA CommitGrows ==
    ASSUME XInv, CommitTransaction
    PROVE  log' \in Seq(Record) /\ Len(log') > Len(log)
  <1>1. PICK t \in Transactions : log' = log \o t
    BY DEF CommitTransaction
  <1>2. t \in Seq(Record) /\ Len(t) >= 1
    <2>1. \A c \in BOOLEAN : Row(c) \in Record /\ Other(c) \in Record
      BY DEF Row, Other, Record
    <2>2. \/ \E a \in Record : t = <<a>>
          \/ \E a, b \in Record : t = <<a, b>>
      BY <1>1, <2>1 DEF Transactions
    <2>3. CASE \E a \in Record : t = <<a>>
      BY <2>3
    <2>4. CASE \E a, b \in Record : t = <<a, b>>
      BY <2>4
    <2>5. QED
      BY <2>2, <2>3, <2>4
  <1>3. log \in Seq(Record) /\ Len(log) \in Nat /\ Len(t) \in Nat
    BY <1>2 DEF XInv, LogOK
  <1>4. log \o t \in Seq(Record)
    BY <1>2, <1>3
  <1>6. Len(log \o t) = Len(log) + Len(t)
    BY <1>2, <1>3
  <1>5. QED
    BY <1>1, <1>2, <1>3, <1>4, <1>6

\* The log, the bookmark and the position in them.
LEMMA NextLogOK == ASSUME XInv, Next PROVE LogOK' /\ Position' /\ AtLeastOnce'
  <1> USE XlaAssumption, NTablesType
      DEF XInv, LogOK, Position, AtLeastOnce, Feed!AtLeastOnce, Reading, GoTo
  <1>1. CASE CommitTransaction
    <2>1. /\ log' \in Seq(Record) /\ Len(log') > Len(log)
          /\ UNCHANGED <<bookmark, pc, next, todo, handled>>
      BY <1>1, CommitGrows DEF CommitTransaction, batch, history
    <2>2. Len(log') \in Nat /\ Len(log) \in Nat
      BY <2>1
    <2>3. QED
      BY <2>1, <2>2 DEF Bookmark
  <1>2. CASE Start
    <2>1. /\ pc' = "connect" /\ next' = 0 /\ todo' = 0 /\ UNCHANGED <<log, handled>>
          /\ bookmark' = bookmark \/ bookmark' = Deleted
      BY <1>2 DEF Start
    <2>2. bookmark' \in Bookmark /\ bookmark'.since = bookmark.since
          /\ bookmark'.acked = bookmark.acked
      BY <2>1 DEF Deleted, Bookmark
    <2>3. Len(log) \in Nat
      OBVIOUS
    <2>4. QED
      BY <2>1, <2>2, <2>3
  <1>3. CASE PersistOpenCreate
    <2>1. CASE KeyExists
      BY <1>3, <2>1 DEF PersistOpenCreate, history
    <2>2. CASE ~KeyExists
      <3>1. /\ bookmark' = Created /\ next' = Len(log) /\ todo' = Len(log)
            /\ UNCHANGED <<log, handled>>
        BY <1>3, <2>2 DEF PersistOpenCreate, history
      <3>2. Len(log) \in Nat
        OBVIOUS
      <3>3. bookmark' \in Bookmark /\ bookmark'.since = Len(log)
            /\ bookmark'.acked = Len(log)
        BY <3>1, <3>2 DEF Created, Bookmark
      <3>4. QED
        BY <3>1, <3>2, <3>3
    <2>3. QED
      BY <2>1, <2>2
  <1>4. CASE PersistOpenReuse
    BY <1>4 DEF PersistOpenReuse, Resume, database, history, Bookmark
  <1>5. CASE Connect
    BY <1>5 DEF Connect, Created, Bookmark, history
  <1>6. CASE EnableTracking
    <2>1. tables + 1 \in 1..3
      BY <1>6 DEF EnableTracking, ControlOK, TableCount
    <2>2. /\ UNCHANGED <<log, next, todo, handled>>
          /\ bookmark' \in Bookmark /\ bookmark'.since = bookmark.since
          /\ bookmark'.acked = bookmark.acked
      BY <1>6, <2>1 DEF EnableTracking, Bookmark, batch, history
    <2>3. pc = "track"
      BY <1>6 DEF EnableTracking
    <2>4. QED
      BY <2>2, <2>3
  <1>7. CASE FetchUpdatesWait
    BY <1>7 DEF FetchUpdatesWait, BatchEnd, database, history
  <1>8. CASE HandleChange
    <2>1. /\ next' = next + 1 /\ handled' = handled \cup {next + 1}
          /\ UNCHANGED <<log, bookmark, pc, todo>> /\ next < todo /\ pc = "handle"
      BY <1>8 DEF HandleChange, database
    <2>2. Len(log) \in Nat /\ bookmark.acked \in Nat /\ bookmark.since \in Nat
      BY DEF Bookmark
    <2>3. LogOK'
      BY <2>1, <2>2
    <2>4. Position' /\ AtLeastOnce'
      <3>1. \A k \in (bookmark.acked + 1)..(next + 1) :
                k = next + 1 \/ k \in (bookmark.acked + 1)..next
        BY <2>1, <2>2
      <3>2. (bookmark.acked + 1)..next' \subseteq handled'
        BY <2>1, <2>2, <3>1
      <3>3. QED
        BY <2>1, <2>2, <3>2
    <2>5. QED
      BY <2>3, <2>4
  <1>9. CASE Acknowledge
    <2>1. /\ next = todo /\ pc = "handle"
          /\ UNCHANGED <<log, next, todo, handled>>
          /\ bookmark' = bookmark \/ bookmark' = [bookmark EXCEPT !.acked = todo]
      BY <1>9 DEF Acknowledge, BatchHandled, batch, history
    <2>2. CASE bookmark' = bookmark
      BY <1>9, <2>1, <2>2 DEF Acknowledge
    <2>3. CASE bookmark' = [bookmark EXCEPT !.acked = todo]
      <3>1. bookmark'.acked = todo /\ bookmark'.since = bookmark.since
            /\ bookmark' \in Bookmark
        BY <2>3, SMTT(20) DEF Bookmark
      <3>2. \A k \in (bookmark.since + 1)..todo : k \in handled
        BY <2>1, <3>1 DEF Bookmark
      <3>3. QED
        BY <2>1, <3>1, <3>2 DEF Bookmark
    <2>4. QED
      BY <2>1, <2>2, <2>3
  <1>10. CASE DisableTracking
    BY <1>10 DEF DisableTracking, Untracking, Bookmark, batch
  <1>11. CASE DeleteBookmarkAndDisconnect
    BY <1>11 DEF DeleteBookmarkAndDisconnect, Deleted, Bookmark, batch, history
  <1>12. CASE CallFails
    BY <1>12 DEF CallFails, AfterError, database, batch
  <1>13. CASE TableByName \/ UserAnswers \/ NewHandler \/ GetColumnInfo \/ Fetch
    BY <1>13 DEF TableByName, UserAnswers, NewHandler, GetColumnInfo, Fetch, database, batch, history
  <1>14. CASE Stop \/ DisableTrackingFails
    BY <1>14 DEF Stop, AfterLoop, DisableTrackingFails, Untracking, database, batch, history
  <1>15. CASE ConnectAndCheckTable \/ TableUnknown \/ CloseAndDisconnect
    BY <1>15 DEF ConnectAndCheckTable, TableUnknown, CloseAndDisconnect,
                 database, batch, history
  <1>16. CASE Interrupt \/ Crash \/ RunAgain \/ Ended
    BY <1>16 DEF Interrupt, Crash, RunAgain, Ended, vars, database, batch, history
  <1>17. QED
    BY <1>1, <1>2, <1>3, <1>4, <1>5, <1>6, <1>7, <1>8, <1>9, <1>10, <1>11, <1>12,
       <1>13, <1>14, <1>15, <1>16 DEF Next, Step

\* The place in the program, and the number of tables done.
LEMMA NextControlOK == ASSUME XInv, Next PROVE ControlOK' /\ FlagsOK'
  <1> USE XlaAssumption, NTablesType
      DEF XInv, ControlOK, FlagsOK, TableCount, GoTo, Calls, NTables
  <1>1. CASE CommitTransaction
    BY <1>1 DEF CommitTransaction, batch, history
  <1>2. CASE Start
    <2>1. ControlOK'
      BY <1>2 DEF Start
    <2>2. FlagsOK'
      BY <1>2, Zenon DEF Start
    <2>3. QED
      BY <2>1, <2>2
  <1>3. CASE PersistOpenCreate
    BY <1>3 DEF PersistOpenCreate, history
  <1>4. CASE PersistOpenReuse
    BY <1>4 DEF PersistOpenReuse, database, history
  <1>5. CASE Connect
    BY <1>5 DEF Connect, history
  <1>6. CASE EnableTracking
    <2>1. /\ pc = "track" /\ tables' = tables + 1
          /\ UNCHANGED <<prog, doAcknowledge, tableId, sig, failed, starts>>
          /\ pc' = IF prog = "simple" THEN "columns"
                   ELSE IF tables' = NTables THEN "loop" ELSE "handler"
      BY <1>6 DEF EnableTracking, batch, history
    <2>2. tables' \in 0..3 /\ (tables' # NTables => tables' < NTables)
      BY <2>1
    <2>3. QED
      BY <2>1, <2>2
  <1>7. CASE FetchUpdatesWait \/ Fetch \/ Acknowledge
    BY <1>7 DEF FetchUpdatesWait, Fetch, Acknowledge, BatchHandled, database, batch, history
  <1>8. CASE HandleChange
    <2>1. /\ UNCHANGED <<prog, pc, tables, tableId, sig, failed, starts>>
          /\ doAcknowledge' \in BOOLEAN
      BY <1>8, Zenon DEF HandleChange
    <2>2. QED
      BY <2>1
  <1>9. CASE Stop
    <2>1. AfterLoop \in {"untrack", "delete"}
      BY DEF AfterLoop, AllPrograms
    <2>2. QED
      BY <1>9, <2>1 DEF Stop, database, batch, history
  <1>10. CASE DisableTracking \/ DisableTrackingFails
    <2>1. Untracking /\ UNCHANGED <<prog, doAcknowledge, tableId, sig, starts>>
          /\ failed' \in BOOLEAN
      BY <1>10 DEF DisableTracking, DisableTrackingFails, Untracking, batch
    <2>2. QED
      BY <2>1 DEF Untracking
  <1>11. CASE DeleteBookmarkAndDisconnect \/ CloseAndDisconnect \/ TableUnknown
    BY <1>11 DEF DeleteBookmarkAndDisconnect, CloseAndDisconnect, TableUnknown,
                 database, batch, history
  <1>12. CASE CallFails
    <2>1. AfterError(pc) \subseteq {"untrack", "exited", "close"}
      BY DEF AfterError, AllPrograms
    <2>2. QED
      BY <1>12, <2>1 DEF CallFails, database, batch
  <1>13. CASE TableByName
    <2>1. ControlOK'
      BY <1>13 DEF TableByName
    <2>2. FlagsOK'
      BY <1>13, Zenon DEF TableByName, batch, history
    <2>3. QED
      BY <2>1, <2>2
  <1>16. CASE UserAnswers \/ NewHandler \/ GetColumnInfo \/ ConnectAndCheckTable
    BY <1>16 DEF UserAnswers, NewHandler, GetColumnInfo, ConnectAndCheckTable,
                 database, batch, history
  <1>14. CASE Interrupt \/ Crash \/ RunAgain \/ Ended
    BY <1>14 DEF Interrupt, Crash, RunAgain, Ended, vars, database, batch, history
  <1>15. QED
    BY <1>1, <1>2, <1>3, <1>4, <1>5, <1>6, <1>7, <1>8, <1>9, <1>10, <1>11, <1>12,
       <1>13, <1>14, <1>16 DEF Next, Step

LEMMA StutterXInv == ASSUME XInv, UNCHANGED vars PROVE XInv'
  BY DEF vars, XInv, LogOK, ControlOK, FlagsOK, Position, AtLeastOnce,
         Feed!AtLeastOnce, TableCount, NTables

LEMMA NextXInv == XInv /\ [Next]_vars => XInv'
  BY NextLogOK, NextControlOK, StutterXInv DEF XInv

LEMMA SpecXInv == Spec => []XInv
  BY InitXInv, NextXInv, PTL DEF Spec

-----------------------------------------------------------------------------

\* Every variable has its type, whatever the program does: what it has been
\* handed never lies behind the log's end, and the index into the tables to
\* be subscribed stays within them.
THEOREM XlaTypeCorrect == Spec => []TypeOK
  <1>1. XInv => TypeOK
    <2> SUFFICES ASSUME XInv PROVE TypeOK
      OBVIOUS
    <2> USE DEF XInv, LogOK, ControlOK, FlagsOK
    <2>1. bookmark \in [exists : BOOLEAN, since : 0..Len(log), acked : 0..Len(log),
                        tracking : SUBSET (1..3)]
      BY DEF Bookmark
    <2>2. QED
      BY <2>1 DEF TypeOK, Record
  <1>2. QED
    BY <1>1, SpecXInv, PTL

\* For every length of the log, size of a batch and number of starts and
\* kills: an update that the bookmark has passed was given to its handler.
THEOREM XlaAtLeastOnce == Spec => []AtLeastOnce
  <1>1. XInv => AtLeastOnce
    BY DEF XInv
  <1>2. QED
    BY <1>1, SpecXInv, PTL

-----------------------------------------------------------------------------
(* The refinement.                                                         *)

LEMMA StepFeed == ASSUME XInv, Next PROVE [Feed!FeedNext]_(Feed!fvars)
  <1> USE DEF XInv, LogOK, Feed!fvars, GoTo
  <1> DEFINE Same == UNCHANGED <<Len(log), bookmark.since, bookmark.acked, handled>>
  <1>0. Len(log) \in Nat /\ bookmark.acked \in Nat /\ bookmark.since \in Nat
    BY DEF Bookmark
  <1>1. CASE CommitTransaction
    <2>1. Len(log') \in Nat /\ Len(log') > Len(log)
      BY <1>1, CommitGrows
    <2>2. UNCHANGED <<bookmark, handled>>
      BY <1>1 DEF CommitTransaction, history
    <2>3. Feed!Commit
      BY <2>1, <2>2 DEF Feed!Commit
    <2>4. QED
      BY <2>3 DEF Feed!FeedNext
  <1>2. CASE PersistOpenCreate \/ Connect
    <2>1. CASE bookmark' = Created
      <3>1. Feed!Subscribe
        BY <1>2, <2>1 DEF PersistOpenCreate, Connect, Created, history, Feed!Subscribe
      <3>2. QED
        BY <3>1 DEF Feed!FeedNext
    <2>2. CASE bookmark' # Created
      BY <1>2, <2>2 DEF PersistOpenCreate, Connect, history
    <2>3. QED
      BY <2>1, <2>2
  <1>3. CASE HandleChange
    <2>1. /\ pc = "handle" /\ next < todo /\ handled' = handled \cup {next + 1}
          /\ UNCHANGED <<log, bookmark>>
      BY <1>3 DEF HandleChange, database
    <2>2. next + 1 \in (bookmark.acked + 1)..Len(log)
          /\ (bookmark.acked + 1)..next \subseteq handled
      BY <1>0, <2>1 DEF Position, Reading
    <2>3. Feed!Handling(next + 1)
      BY <1>0, <2>1, <2>2 DEF Feed!Handling
    <2>4. Feed!Handle
      BY <2>1, <2>2, <2>3 DEF Feed!Handle
    <2>5. QED
      BY <2>4 DEF Feed!FeedNext
  <1>4. CASE Acknowledge
    <2>1. /\ next = todo /\ pc = "handle" /\ UNCHANGED <<log, handled>>
          /\ bookmark' = bookmark \/ bookmark' = [bookmark EXCEPT !.acked = todo]
      BY <1>4 DEF Acknowledge, BatchHandled, batch, history
    <2>2. CASE bookmark' = bookmark
      BY <2>1, <2>2
    <2>3. CASE bookmark' = [bookmark EXCEPT !.acked = todo]
      <3>1. bookmark'.acked = todo /\ bookmark'.since = bookmark.since
        BY <2>3 DEF Bookmark
      <3>2. todo \in bookmark.acked..Len(log)
            /\ (bookmark.acked + 1)..todo \subseteq handled
        BY <1>0, <2>1 DEF Position, Reading
      <3>3. Feed!Acknowledge
        BY <2>1, <3>1, <3>2 DEF Feed!Acknowledge
      <3>4. QED
        BY <3>3 DEF Feed!FeedNext
    <2>4. QED
      BY <2>1, <2>2, <2>3
  <1>5. CASE Start
    BY <1>5 DEF Start, Deleted, Bookmark
  <1>6. CASE EnableTracking
    BY <1>6 DEF EnableTracking, Bookmark, history
  <1>7. CASE DisableTracking
    BY <1>7 DEF DisableTracking, Untracking, Bookmark
  <1>8. CASE DeleteBookmarkAndDisconnect
    BY <1>8 DEF DeleteBookmarkAndDisconnect, Deleted, Bookmark, history
  <1>9. CASE \/ PersistOpenReuse \/ FetchUpdatesWait \/ TableByName \/ NewHandler \/ UserAnswers
             \/ GetColumnInfo \/ Fetch \/ Stop \/ ConnectAndCheckTable \/ TableUnknown
             \/ CloseAndDisconnect \/ Interrupt \/ Crash \/ RunAgain
    BY <1>9 DEF PersistOpenReuse, FetchUpdatesWait, TableByName, NewHandler, UserAnswers,
        GetColumnInfo, Fetch, Stop, ConnectAndCheckTable, TableUnknown,
        CloseAndDisconnect, Interrupt, Crash, RunAgain, database, history
  <1>10. CASE DisableTrackingFails \/ CallFails \/ Ended
    BY <1>10 DEF DisableTrackingFails, Untracking, CallFails, Ended, vars, database
  <1>11. QED
    BY <1>1, <1>2, <1>3, <1>4, <1>5, <1>6, <1>7, <1>8, <1>9, <1>10 DEF Next, Step

\* The three programs implement the feed, so that whatever is proved of every
\* subscriber that keeps the feed's rules holds of each of them.
THEOREM XlaImplementsFeed == Spec => ImplementsFeed
  <1>1. Init => Feed!FeedInit
    BY DEF Init, NoBookmark, Feed!FeedInit
  <1>2. XInv /\ [Next]_vars => [Feed!FeedNext]_(Feed!fvars)
    <2>1. ASSUME UNCHANGED vars PROVE UNCHANGED Feed!fvars
      BY <2>1 DEF vars, Feed!fvars
    <2>2. QED
      BY <2>1, StepFeed
  <1>3. QED
    BY <1>1, <1>2, SpecXInv, PTL DEF Spec, ImplementsFeed, Feed!FeedSpec
-----------------------------------------------------------------------------
(* The promise of the feed, for any subscriber: a log, a bookmark and a    *)
(* set of handled updates of its own.                                      *)

VARIABLES committed, since, acked, delivered

Any == INSTANCE ChangeFeed WITH handled <- delivered

\* The position never leaves the part of the log that the bookmark sees.
FInv ==
    /\ committed \in Nat
    /\ since \in 0..committed /\ acked \in since..committed
    /\ Any!AtLeastOnce

LEMMA FeedInitInv == Any!FeedInit => FInv
  BY DEF Any!FeedInit, FInv, Any!AtLeastOnce

LEMMA FeedNextInv == FInv /\ [Any!FeedNext]_(Any!fvars) => FInv'
  <1> SUFFICES ASSUME FInv, [Any!FeedNext]_(Any!fvars)
               PROVE  FInv'
    OBVIOUS
  <1> USE DEF FInv, Any!AtLeastOnce
  <1>1. CASE Any!Commit
    BY <1>1 DEF Any!Commit
  <1>2. CASE Any!Handle
    BY <1>2 DEF Any!Handle, Any!Handling
  <1>3. CASE Any!HandleAndAcknowledge
    <2>1. PICK r \in (acked + 1)..committed :
              Any!Handling(r) /\ acked' = r /\ UNCHANGED <<committed, since>>
      BY <1>3 DEF Any!HandleAndAcknowledge
    <2>2. \A k \in (since + 1)..r : k \in delivered \/ k = r
      BY <2>1 DEF Any!Handling
    <2>3. QED
      BY <2>1, <2>2 DEF Any!Handling
  <1>4. CASE Any!Acknowledge
    <2>1. \A k \in (since + 1)..acked' : k \in (since + 1)..acked \/ k \in (acked + 1)..acked'
      BY <1>4 DEF Any!Acknowledge
    <2>2. QED
      BY <1>4, <2>1 DEF Any!Acknowledge
  <1>5. CASE Any!Subscribe
    BY <1>5 DEF Any!Subscribe
  <1>6. CASE UNCHANGED Any!fvars
    BY <1>6 DEF Any!fvars
  <1>7. QED
    BY <1>1, <1>2, <1>3, <1>4, <1>5, <1>6 DEF Any!FeedNext

\* Whoever behaves as ChangeFeed says skips no update that it acknowledges,
\* however long the log grows and however often a subscriber starts again.
THEOREM FeedSafe == Any!FeedSpec => []Any!AtLeastOnce
  <1>1. FInv => Any!AtLeastOnce
    BY DEF FInv
  <1>2. QED
    BY FeedInitInv, FeedNextInv, <1>1, PTL DEF Any!FeedSpec
-----------------------------------------------------------------------------
(* The JMS programs.  JmsSubscriber is a specification of its own; it only *)
(* has the names of some variables in common with XlaSubscriber.           *)

CONSTANTS Styles, JmsLog, JmsStarts
VARIABLES style, jvm, hook, shuttingDown, done, started, inhand, received, ctrlC, broken

Jms == INSTANCE JmsSubscriber WITH MaxLog <- JmsLog, MaxStarts <- JmsStarts

\* The subscriber is open: the provider may call the listener or is in it, or
\* the main thread receives.
Open == started \/ inhand # 0 \/ pc \in {"loop", "get", "dump"}

\* Everything from the bookmark to the message in hand has been received.
TakenInOrder == Open =>
    /\ bookmark.acked <= next
    /\ (bookmark.acked + 1)..(IF inhand = 0 THEN next ELSE next - 1) \subseteq received

\* A listener works on a message that is not acknowledged; main receives the
\* next message when it has printed the last, and opens the subscriber once.
InHand ==
    /\ inhand \in {0, next}
    /\ started => style = "async"
    /\ style = "async" /\ inhand # 0 => bookmark.acked < next
    /\ pc \in {"connect", "create", "subscribe", "addhook", "open"} => ~started /\ inhand = 0
    /\ style = "sync" /\ pc = "loop" => inhand = 0
    /\ pc = "get" => style = "sync" /\ inhand = 0
    /\ pc = "dump" => style = "sync" /\ (inhand # 0 => next \in received)

JmsLogOK ==
    /\ log \in Nat /\ next \in 0..log
    /\ bookmark \in [exists : BOOLEAN, since : Nat, acked : Nat, tracking : BOOLEAN]
    /\ bookmark.since <= bookmark.acked /\ bookmark.acked <= log

JInv == JmsLogOK /\ InHand /\ TakenInOrder

LEMMA InitJInv == Jms!Init => JInv
  BY DEF Jms!Init, JInv, JmsLogOK, InHand, TakenInOrder, Open

\* A step that only changes where the threads are.
Places == {"connect", "create", "subscribe", "addhook", "open"}

LEMMA ThreadStep ==
    ASSUME JInv, UNCHANGED <<style, log, bookmark, next, inhand, received>>,
           started' => started,
           pc' \in Places => pc \in Places,
           pc' = "loop" => pc \in {"loop", "get"},
           pc' = "get" => pc = "get" \/ (pc = "loop" /\ style = "sync"),
           pc' = "dump" => pc = "dump" \/ (pc = "get" /\ inhand = 0)
    PROVE  JInv'
  <1>1. JmsLogOK'
    BY DEF JInv, JmsLogOK
  <1>2. InHand'
    BY DEF JInv, InHand, Places
  <1>3. TakenInOrder'
    BY DEF JInv, TakenInOrder, Open
  <1>4. QED
    BY <1>1, <1>2, <1>3 DEF JInv

LEMMA JmsStep ==
    ASSUME JInv, Jms!Next
    PROVE  JInv'
  <1> USE DEF Jms!At, Jms!GoTo
  <1>0. /\ log \in Nat /\ next \in Nat /\ bookmark.acked \in Nat /\ bookmark.since \in Nat
        /\ bookmark.since <= bookmark.acked /\ bookmark.acked <= log /\ next <= log
        /\ inhand \in {0, next}
    BY DEF JInv, JmsLogOK, InHand
  <1>1. CASE \/ Jms!SystemExit \/ Jms!InitConnect \/ Jms!InitConnectFails \/ Jms!BookmarkThere
             \/ Jms!BuiltInFails \/ Jms!AddShutdownHook \/ Jms!ReceiveTimesOut \/ Jms!ReceiveMore
    <2>1. UNCHANGED <<style, log, bookmark, next, inhand, received, started>>
      BY <1>1 DEF Jms!SystemExit, Jms!InitConnect, Jms!InitConnectFails, Jms!BookmarkThere,
         Jms!BuiltInFails, Jms!AddShutdownHook, Jms!ReceiveTimesOut, Jms!ReceiveMore, Jms!database,
         Jms!message
    <2>2. CASE Jms!ReceiveMore
      <3>1. pc = "get" /\ pc' = "dump" /\ inhand = 0
        BY <2>2 DEF Jms!ReceiveMore, JInv, InHand
      <3>2. QED
        BY <2>1, <3>1, ThreadStep DEF Places
    <2>3. CASE ~Jms!ReceiveMore
      <3>1. /\ pc' \in Places => pc \in Places
            /\ pc' = "loop" => pc = "get"
            /\ pc' # "get" /\ pc' # "dump"
        BY <1>1, <2>3 DEF Places, Jms!SystemExit, Jms!InitConnect, Jms!InitConnectFails,
           Jms!BookmarkThere, Jms!BuiltInFails, Jms!AddShutdownHook, Jms!ReceiveTimesOut
      <3>2. QED
        BY <2>1, <3>1, ThreadStep
    <2>4. QED
      BY <2>2, <2>3
  <1>2. CASE Jms!Loop
    <2>1. pc' = "unsubscribe" \/ (pc' = "get" /\ style = "sync") \/ pc' = "loop"
      BY <1>2 DEF Jms!Loop
    <2>2. pc = "loop" /\ UNCHANGED <<style, log, bookmark, next, inhand, received, started>>
      BY <1>2 DEF Jms!Loop, Jms!database, Jms!message
    <2>3. QED
      BY <2>1, <2>2, ThreadStep DEF Places
  <1>3. CASE Jms!CloseConnection \/ Jms!SubscriberFails
    BY <1>3, ThreadStep DEF Places, Jms!CloseConnection, Jms!SubscriberFails, Jms!database,
       Jms!message
  <1>4. CASE Jms!Hook \/ Jms!Interrupt \/ Jms!Kill \/ Jms!Ended
    <2>1. UNCHANGED <<style, log, bookmark, next, inhand, received, started, pc>>
      BY <1>4 DEF Jms!Hook, Jms!HookShutdown, Jms!HookWait, Jms!Halt, Jms!Interrupt, Jms!Kill,
         Jms!Ended, Jms!vars, Jms!database, Jms!message
    <2>2. QED
      BY <2>1, ThreadStep
  <1>5. CASE Jms!Start
    <2>1. /\ UNCHANGED <<style, log, bookmark, received>>
          /\ pc' = "connect" /\ started' = FALSE /\ next' = 0 /\ inhand' = 0
      BY <1>5 DEF Jms!Start, Jms!database
    <2>2. QED
      BY <2>1 DEF JInv, JmsLogOK, InHand, TakenInOrder, Open
  <1>6. CASE Jms!CommitUpdate
    <2>1. log' = log + 1 /\ UNCHANGED <<style, bookmark, pc, started, next, inhand, received>>
      BY <1>6 DEF Jms!CommitUpdate, Jms!message
    <2>2. QED
      BY <1>0, <2>1 DEF JInv, JmsLogOK, InHand, TakenInOrder, Open
  <1>7. CASE Jms!BookmarkCreate
    <2>1. /\ bookmark' = [exists |-> TRUE, since |-> log, acked |-> log, tracking |-> FALSE]
          /\ pc = "create" /\ pc' = "subscribe"
          /\ UNCHANGED <<style, log, started, next, inhand, received>>
      BY <1>7 DEF Jms!BookmarkCreate, Jms!message
    <2>2. QED
      BY <1>0, <2>1 DEF JInv, JmsLogOK, InHand, TakenInOrder, Open
  <1>8. CASE Jms!XlaSubscribe \/ Jms!Unsubscribe
    <2>1. /\ bookmark' \in [exists : BOOLEAN, since : Nat, acked : Nat, tracking : BOOLEAN]
          /\ bookmark'.since = bookmark.since /\ bookmark'.acked = bookmark.acked
          /\ UNCHANGED <<style, log, started, next, inhand, received>>
          /\ (pc = "subscribe" /\ pc' = "addhook") \/ pc' = "close"
      BY <1>8 DEF Jms!XlaSubscribe, Jms!Unsubscribe, Jms!message, JInv, JmsLogOK
    <2>2. QED
      BY <1>0, <2>1 DEF JInv, JmsLogOK, InHand, TakenInOrder, Open
  <1>9. CASE Jms!OpenSubscriber
    <2>1. /\ next' = bookmark.acked /\ pc = "open" /\ pc' = "loop"
          /\ started' => style = "async"
          /\ UNCHANGED <<style, log, bookmark, inhand, received>>
      BY <1>9 DEF Jms!OpenSubscriber, Jms!Resume, Jms!database
    <2>2. inhand = 0
      BY <2>1 DEF JInv, InHand
    <2>3. JmsLogOK' /\ InHand'
      BY <1>0, <2>1, <2>2 DEF JInv, JmsLogOK, InHand
    <2>4. TakenInOrder'
      BY <1>0, <2>1, <2>2 DEF TakenInOrder
    <2>5. QED
      BY <2>3, <2>4 DEF JInv
  <1>10. CASE Jms!Deliver
    <2>1. /\ started /\ inhand = 0 /\ next < log /\ inhand' = next + 1 /\ next' = next + 1
          /\ UNCHANGED <<style, log, pc, started, received>>
      BY <1>10 DEF Jms!Deliver, Jms!HasMessage, Jms!database
    <2>2. bookmark' = bookmark
      BY <1>10 DEF Jms!Deliver, Jms!database
    <2>3. JmsLogOK' /\ TakenInOrder'
      BY <1>0, <2>1, <2>2 DEF JInv, JmsLogOK, TakenInOrder, Open
    <2>4. InHand'
      BY <1>0, <2>1, <2>2 DEF JInv, InHand, TakenInOrder, Open
    <2>5. QED
      BY <2>1, <2>2, <2>3, <2>4 DEF JInv
  <1>11. CASE Jms!ListenerReturns
    <2>1. /\ style = "async" /\ inhand = next /\ inhand # 0 /\ inhand' = 0
          /\ received' = received \cup {next}
          /\ bookmark' = IF bookmark.exists THEN [bookmark EXCEPT !.acked = next] ELSE bookmark
          /\ UNCHANGED <<style, log, pc, started, next>>
      BY <1>0, <1>11 DEF Jms!ListenerReturns, Jms!Ack, Jms!AckAfterListener
    <2>2. /\ bookmark' \in [exists : BOOLEAN, since : Nat, acked : Nat, tracking : BOOLEAN]
          /\ bookmark'.since = bookmark.since
          /\ bookmark'.acked = IF bookmark.exists THEN next ELSE bookmark.acked
      BY <1>0, <2>1 DEF JInv, JmsLogOK
    <2>3. bookmark.acked < next /\ (bookmark.acked + 1)..(next - 1) \subseteq received
      BY <1>0, <2>1 DEF JInv, InHand, TakenInOrder, Open
    <2>4. JmsLogOK' /\ InHand'
      BY <1>0, <2>1, <2>2, <2>3 DEF JInv, JmsLogOK, InHand
    <2>5. TakenInOrder'
      BY <1>0, <2>1, <2>2, <2>3 DEF TakenInOrder
    <2>6. QED
      BY <2>4, <2>5 DEF JInv
  <1>12. CASE Jms!Receive
    <2>1. /\ pc = "get" /\ pc' = "dump" /\ next < log /\ inhand' = next + 1 /\ next' = next + 1
          /\ received' = received \cup {next + 1}
          /\ bookmark' = IF bookmark.exists THEN [bookmark EXCEPT !.acked = next + 1] ELSE bookmark
          /\ UNCHANGED <<style, log, started>>
      BY <1>12 DEF Jms!Receive, Jms!Ack, Jms!HasMessage
    <2>2. /\ bookmark' \in [exists : BOOLEAN, since : Nat, acked : Nat, tracking : BOOLEAN]
          /\ bookmark'.since = bookmark.since
          /\ bookmark'.acked = IF bookmark.exists THEN next + 1 ELSE bookmark.acked
      BY <1>0, <2>1 DEF JInv, JmsLogOK
    <2>3. /\ style = "sync" /\ inhand = 0
          /\ bookmark.acked <= next /\ (bookmark.acked + 1)..next \subseteq received
      BY <1>0, <2>1 DEF JInv, InHand, TakenInOrder, Open
    <2>4. JmsLogOK' /\ InHand'
      BY <1>0, <2>1, <2>2, <2>3 DEF JInv, JmsLogOK, InHand
    <2>5. TakenInOrder'
      BY <1>0, <2>1, <2>2, <2>3 DEF TakenInOrder
    <2>6. QED
      BY <2>4, <2>5 DEF JInv
  <1>13. CASE Jms!DumpMessage
    <2>1. /\ pc = "dump" /\ pc' = "get" /\ inhand' = 0
          /\ UNCHANGED <<style, log, bookmark, started, next, received>>
      BY <1>13 DEF Jms!DumpMessage, Jms!database
    <2>2. style = "sync" /\ (inhand # 0 => next \in received)
      BY <2>1 DEF JInv, InHand
    <2>3. QED
      BY <1>0, <2>1, <2>2 DEF JInv, JmsLogOK, InHand, TakenInOrder, Open
  <1>14. QED
    BY <1>1, <1>2, <1>3, <1>4, <1>5, <1>6, <1>7, <1>8, <1>9, <1>10, <1>11, <1>12, <1>13
       DEF Jms!Next, Jms!Main, Jms!Provider

-----------------------------------------------------------------------------
\* Between Ctrl-C and the halt: the hook ends only when main says that it is
\* done, and main says so when it has left nothing open, or after a failure; so
\* without one main has nothing in hand when the machine is down.
CleanInv ==
    /\ jvm \in {"down", "up", "stopping"}
    /\ jvm = "up" => ~ctrlC
    /\ jvm = "down" /\ ~failed => pc \in {"exit", "over"}
    /\ style = "sync" /\ inhand # 0 => pc = "dump" \/ failed
    /\ hook = "ended" => done
    /\ done => pc \in {"exit", "over"}
    /\ pc = "close" => ~bookmark.exists
    /\ pc \in {"exit", "over"} /\ ~failed => ~bookmark.exists /\ ~started

LEMMA CleanStep ==
    ASSUME JInv, CleanInv, Jms!Next
    PROVE  CleanInv'
  <1> USE DEF CleanInv, Jms!At, Jms!GoTo, Jms!database, Jms!flags, Jms!message, Jms!history
  <1>1. CASE Jms!Start \/ Jms!CommitUpdate \/ Jms!Kill \/ Jms!Ended
    BY <1>1 DEF Jms!Start, Jms!CommitUpdate, Jms!Kill, Jms!Ended, Jms!vars
  <1>2. CASE Jms!Interrupt
    BY <1>2 DEF Jms!Interrupt
  <1>3. CASE Jms!Hook
    BY <1>3 DEF Jms!Hook, Jms!HookShutdown, Jms!HookWait, Jms!IsDone, Jms!Halt
  <1>4. CASE Jms!Provider
    <2>1. /\ bookmark'.exists = bookmark.exists /\ style = "async"
          /\ UNCHANGED <<style, jvm, pc, hook, done, started, ctrlC, failed>>
      BY <1>4 DEF Jms!Provider, Jms!Deliver, Jms!ListenerReturns, Jms!Ack, JInv, JmsLogOK, InHand
    <2>2. QED
      BY <2>1
  <1>5. CASE Jms!SystemExit
    <2>1. CASE jvm' = "down"
      <3>1. pc = "exit" /\ pc' = "over" /\ UNCHANGED <<style, inhand, hook, bookmark, done, started, ctrlC, failed>>
        BY <1>5, <2>1 DEF Jms!SystemExit
      <3>2. jvm = "up"
        BY <1>5, <2>1 DEF Jms!SystemExit
      <3>3. QED
        BY <2>1, <3>1, <3>2
    <2>2. CASE jvm' # "down"
      <3>1. /\ pc = "exit" /\ pc' = "over" /\ UNCHANGED <<style, inhand, bookmark, done, started, ctrlC, failed>>
            /\ jvm' = "stopping" /\ hook' \in {hook, "run"}
        BY <1>5, <2>2 DEF Jms!SystemExit
      <3>2. QED
        BY <3>1
    <2>3. QED
      BY <2>1, <2>2
  <1>6. CASE \/ Jms!InitConnect \/ Jms!InitConnectFails \/ Jms!BookmarkThere \/ Jms!BuiltInFails
             \/ Jms!AddShutdownHook \/ Jms!OpenSubscriber \/ Jms!DumpMessage \/ Jms!ReceiveTimesOut
             \/ Jms!ReceiveMore
    BY <1>6 DEF Jms!InitConnect, Jms!InitConnectFails, Jms!BookmarkThere, Jms!BuiltInFails,
       Jms!AddShutdownHook, Jms!OpenSubscriber, Jms!DumpMessage, Jms!ReceiveTimesOut, Jms!ReceiveMore
  <1>7. CASE Jms!BookmarkCreate \/ Jms!XlaSubscribe \/ Jms!Receive
    BY <1>7 DEF Jms!BookmarkCreate, Jms!XlaSubscribe, Jms!Receive
  <1>8. CASE Jms!Loop
    <2>1. pc = "loop" /\ pc' \in {"unsubscribe", "get", "loop"}
      BY <1>8 DEF Jms!Loop
    <2>2. UNCHANGED <<style, inhand, jvm, hook, bookmark, done, started, ctrlC, failed>>
      BY <1>8 DEF Jms!Loop
    <2>3. QED
      BY <2>1, <2>2
  <1>9. CASE Jms!Unsubscribe
    <2>1. pc = "unsubscribe" /\ pc' = "close" /\ ~Jms!SaysDone
      BY <1>9 DEF Jms!Unsubscribe, Jms!SaysDone
    <2>2. UNCHANGED <<style, inhand, jvm, hook, done, started, ctrlC, failed>>
      BY <1>9, <2>1 DEF Jms!Unsubscribe
    <2>3. ~bookmark'.exists
      BY <1>9 DEF Jms!Unsubscribe
    <2>4. QED
      BY <2>1, <2>2, <2>3
  <1>10. CASE Jms!CloseConnection \/ Jms!SubscriberFails
    BY <1>10 DEF Jms!CloseConnection, Jms!SubscriberFails, Jms!SaysDone, Jms!DoneOnError,
       Jms!SetDone, Jms!Notified
  <1>11. QED
    BY <1>1, <1>2, <1>3, <1>4, <1>5, <1>6, <1>7, <1>8, <1>9, <1>10 DEF Jms!Next, Jms!Main

\* After Ctrl-C the machine does not halt before the bookmark is deleted and the
\* provider stopped, unless a call has failed: the flags and notifyAll of
\* asyncJMS and syncJMS let no order of the three threads cut the end short.
THEOREM JmsShutsDownClean == Jms!Spec => []Jms!CleanShutdown
  <1>1. Jms!Init => CleanInv
    BY DEF Jms!Init, CleanInv
  <1>2. JInv /\ CleanInv /\ [Jms!Next]_(Jms!vars) => CleanInv'
    <2>1. ASSUME CleanInv, UNCHANGED Jms!vars PROVE CleanInv'
      BY <2>1 DEF CleanInv, Jms!vars
    <2>2. QED
      BY <2>1, CleanStep
  <1>3. CleanInv => Jms!CleanShutdown
    <2>1. SUFFICES ASSUME CleanInv, jvm = "down", ctrlC, ~failed
                   PROVE  ~bookmark.exists /\ ~started
      BY DEF Jms!CleanShutdown
    <2>2. QED
      BY <2>1 DEF CleanInv
  <1>4. JInv /\ [Jms!Next]_(Jms!vars) => JInv'
    BY JmsStep, ThreadStep DEF Jms!vars
  <1>5. QED
    BY <1>1, <1>2, <1>3, <1>4, InitJInv, PTL DEF Jms!Spec

-----------------------------------------------------------------------------
\* The messages the provider counts as received that were not printed.
Unprinted == received \ handled

\* Each start that fails or is killed leaves at most the message it has in hand
\* unprinted.
LostInv ==
    /\ broken \in Nat
    /\ (bookmark.since + 1)..bookmark.acked \subseteq received
    /\ 0 \notin received
    /\ style # "sync" => Unprinted = {}
    /\ IsFiniteSet(Unprinted)
    /\ Cardinality(Unprinted \ {inhand}) <= broken

\* One element more or less changes a cardinality by one at most.
LEMMA OneMore ==
    ASSUME NEW S, NEW e, IsFiniteSet(S)
    PROVE  /\ IsFiniteSet(S \ {e})
           /\ Cardinality(S) \in Nat /\ Cardinality(S \ {e}) \in Nat
           /\ Cardinality(S) <= Cardinality(S \ {e}) + 1
           /\ Cardinality(S \ {e}) <= Cardinality(S)
  <1>1. IsFiniteSet(S \ {e}) /\ Cardinality(S) \in Nat /\ Cardinality(S \ {e}) \in Nat
    BY FS_RemoveElement, FS_CardinalityType
  <1>2. CASE e \in S
    BY <1>1, <1>2, FS_RemoveElement
  <1>3. CASE e \notin S
    <2>1. S \ {e} = S
      BY <1>3
    <2>2. QED
      BY <1>1, <2>1
  <1>4. QED
    BY <1>1, <1>2, <1>3

\* The instance has a copy of the definition.
LEMMA JmsCardinality == ASSUME NEW S PROVE Jms!Cardinality(S) = Cardinality(S)
  BY DEF Cardinality, Jms!Cardinality, IsFiniteSet, Jms!IsFiniteSet

LEMMA LostStep ==
    ASSUME JInv, CleanInv, LostInv, Jms!Next
    PROVE  LostInv'
  <1> USE DEF Jms!At, Jms!GoTo
  <1>0. /\ broken \in Nat /\ IsFiniteSet(Unprinted) /\ Cardinality(Unprinted) \in Nat
        /\ bookmark.since \in Nat /\ bookmark.acked \in Nat /\ next \in Nat
        /\ Cardinality(Unprinted) <= Cardinality(Unprinted \ {inhand}) + 1
        /\ Cardinality(Unprinted \ {inhand}) \in Nat
    <2>1. broken \in Nat /\ IsFiniteSet(Unprinted)
      BY DEF LostInv
    <2>2. bookmark.since \in Nat /\ bookmark.acked \in Nat /\ next \in Nat
      BY DEF JInv, JmsLogOK
    <2>3. QED
      BY <2>1, <2>2, OneMore, FS_CardinalityType
  <1>1. ASSUME UNCHANGED <<style, received, handled, inhand, broken>>,
               (bookmark'.since + 1)..bookmark'.acked \subseteq received
        PROVE  LostInv'
    BY <1>1 DEF LostInv, Unprinted
  <1>2. CASE \/ Jms!SystemExit \/ Jms!InitConnect \/ Jms!InitConnectFails \/ Jms!BookmarkThere
             \/ Jms!BuiltInFails \/ Jms!AddShutdownHook \/ Jms!ReceiveTimesOut \/ Jms!Loop
             \/ Jms!OpenSubscriber \/ Jms!CloseConnection \/ Jms!SubscriberFails
             \/ Jms!ReceiveMore
    <2>1. UNCHANGED <<style, bookmark, received, handled, inhand, broken>>
      BY <1>2 DEF Jms!SystemExit, Jms!InitConnect, Jms!InitConnectFails, Jms!BookmarkThere,
         Jms!BuiltInFails, Jms!AddShutdownHook, Jms!ReceiveTimesOut, Jms!Loop, Jms!OpenSubscriber,
         Jms!CloseConnection, Jms!SubscriberFails, Jms!ReceiveMore, Jms!database, Jms!message,
         Jms!history
    <2>2. QED
      BY <1>1, <2>1 DEF LostInv
  <1>3. CASE Jms!Hook \/ Jms!Interrupt \/ Jms!Kill \/ Jms!Ended \/ Jms!CommitUpdate
    <2>1. UNCHANGED <<style, bookmark, received, handled, inhand, broken>>
      BY <1>3 DEF Jms!Hook, Jms!HookShutdown, Jms!HookWait, Jms!Halt, Jms!Interrupt, Jms!Kill,
         Jms!Ended, Jms!CommitUpdate, Jms!vars, Jms!database, Jms!message, Jms!history
    <2>2. QED
      BY <1>1, <2>1 DEF LostInv
  <1>4. CASE Jms!BookmarkCreate \/ Jms!XlaSubscribe \/ Jms!Unsubscribe
    <2>1. UNCHANGED <<style, received, handled, inhand, broken>>
      BY <1>4 DEF Jms!BookmarkCreate, Jms!XlaSubscribe, Jms!Unsubscribe, Jms!message, Jms!history
    <2>2. CASE Jms!BookmarkCreate
      <3>1. log \in Nat /\ bookmark'.since = log /\ bookmark'.acked = log
        BY <2>2 DEF Jms!BookmarkCreate, JInv, JmsLogOK
      <3>2. QED
        BY <1>1, <2>1, <3>1 DEF LostInv
    <2>3. CASE Jms!XlaSubscribe \/ Jms!Unsubscribe
      <3>1. bookmark'.since = bookmark.since /\ bookmark'.acked = bookmark.acked
        BY <2>3 DEF Jms!XlaSubscribe, Jms!Unsubscribe, JInv, JmsLogOK
      <3>2. QED
        BY <1>1, <2>1, <3>1 DEF LostInv
    <2>4. QED
      BY <1>4, <2>2, <2>3
  <1>5. CASE Jms!Start
    <2>1. /\ UNCHANGED <<style, bookmark, received, handled>> /\ jvm = "down"
          /\ inhand' = 0 /\ broken' = IF failed THEN broken + 1 ELSE broken
      BY <1>5 DEF Jms!Start, Jms!database
    <2>2. Unprinted \ {0} = Unprinted
      BY DEF LostInv, Unprinted
    <2>3. Cardinality(Unprinted) <= broken'
      <3>1. CASE failed
        BY <1>0, <2>1, <3>1 DEF LostInv
      <3>2. CASE ~failed /\ style = "sync"
        <4>1. inhand = 0
          BY <2>1, <3>2 DEF CleanInv
        <4>2. QED
          BY <2>1, <2>2, <3>2, <4>1 DEF LostInv
      <3>3. CASE ~failed /\ style # "sync"
        <4>1. Unprinted = {}
          BY <3>3 DEF LostInv
        <4>2. QED
          BY <1>0, <2>1, <3>3, <4>1, FS_EmptySet
      <3>4. QED
        BY <3>1, <3>2, <3>3
    <2>4. QED
      BY <1>0, <2>1, <2>2, <2>3 DEF LostInv, Unprinted
  <1>6. CASE Jms!Deliver
    <2>1. UNCHANGED <<style, bookmark, received, handled, broken>> /\ style = "async"
      BY <1>6 DEF Jms!Deliver, Jms!database, Jms!history, JInv, InHand
    <2>2. Unprinted = {} /\ Unprinted \ {inhand} = {} /\ Unprinted' = {} /\ Unprinted' \ {inhand'} = {}
      BY <2>1 DEF LostInv, Unprinted
    <2>3. QED
      BY <2>1, <2>2 DEF LostInv
  <1>7. CASE Jms!ListenerReturns
    <2>1. /\ style = "async" /\ inhand = next /\ inhand # 0
          /\ received' = received \cup {next} /\ handled' = handled \cup {next}
          /\ bookmark' = IF bookmark.exists THEN [bookmark EXCEPT !.acked = next] ELSE bookmark
          /\ UNCHANGED <<style, broken>>
      BY <1>7 DEF Jms!ListenerReturns, Jms!Ack, Jms!AckAfterListener, Jms!history, JInv, InHand
    <2>2. Unprinted = {} /\ Unprinted \ {inhand} = {} /\ Unprinted' = {} /\ Unprinted' \ {inhand'} = {}
      BY <2>1 DEF LostInv, Unprinted
    <2>3. (bookmark'.since + 1)..bookmark'.acked \subseteq received'
      <3>1. (bookmark.acked + 1)..(next - 1) \subseteq received
        BY <1>0, <2>1 DEF JInv, TakenInOrder, Open
      <3>2. /\ bookmark'.since = bookmark.since
            /\ bookmark'.acked = IF bookmark.exists THEN next ELSE bookmark.acked
        BY <1>0, <2>1 DEF JInv, JmsLogOK
      <3>3. QED
        BY <1>0, <2>1, <3>1, <3>2 DEF LostInv
    <2>4. QED
      BY <2>1, <2>2, <2>3 DEF LostInv
  <1>8. CASE Jms!Receive
    <2>1. /\ pc = "get" /\ inhand' = next + 1
          /\ received' = received \cup {next + 1} /\ handled' = handled
          /\ bookmark' = IF bookmark.exists THEN [bookmark EXCEPT !.acked = next + 1] ELSE bookmark
          /\ UNCHANGED <<style, broken>>
      BY <1>8 DEF Jms!Receive, Jms!Ack, Jms!history
    <2>2. style = "sync" /\ inhand = 0
      BY <2>1 DEF JInv, InHand
    <2>3. (bookmark'.since + 1)..bookmark'.acked \subseteq received'
      <3>1. (bookmark.acked + 1)..next \subseteq received
        BY <1>0, <2>1, <2>2 DEF JInv, TakenInOrder, Open
      <3>2. /\ bookmark'.since = bookmark.since
            /\ bookmark'.acked = IF bookmark.exists THEN next + 1 ELSE bookmark.acked
        BY <1>0, <2>1 DEF JInv, JmsLogOK
      <3>3. QED
        BY <1>0, <2>1, <3>1, <3>2 DEF LostInv
    <2>4. Cardinality(Unprinted) <= broken
      <3>1. Unprinted \ {inhand} = Unprinted
        BY <2>2 DEF LostInv, Unprinted
      <3>2. QED
        BY <1>0, <3>1 DEF LostInv
    <2>5. IsFiniteSet(Unprinted') /\ Cardinality(Unprinted' \ {inhand'}) <= broken
      <3>1. /\ Unprinted' = IF next + 1 \in handled THEN Unprinted ELSE Unprinted \cup {next + 1}
            /\ Unprinted' \ {inhand'} = Unprinted \ {next + 1}
        BY <2>1 DEF Unprinted
      <3>2. Cardinality(Unprinted \ {next + 1}) <= Cardinality(Unprinted)
            /\ Cardinality(Unprinted \ {next + 1}) \in Nat
        BY <1>0, OneMore
      <3>3. IsFiniteSet(Unprinted \cup {next + 1})
        BY <1>0, FS_AddElement
      <3>4. IsFiniteSet(Unprinted')
        BY <1>0, <3>1, <3>3
      <3>5. QED
        BY <1>0, <2>4, <3>1, <3>2, <3>4
    <2>6. QED
      BY <1>0, <2>1, <2>2, <2>3, <2>5 DEF LostInv
  <1>9. CASE Jms!DumpMessage
    <2>1. /\ inhand' = 0 /\ handled' = handled \cup ({inhand} \ {0})
          /\ UNCHANGED <<style, bookmark, received, broken>>
      BY <1>9 DEF Jms!DumpMessage, Jms!database, Jms!history
    <2>2. Unprinted' = Unprinted \ {inhand}
      BY <2>1 DEF LostInv, Unprinted
    <2>3. Unprinted' \ {inhand'} = Unprinted \ {inhand} /\ IsFiniteSet(Unprinted')
      BY <1>0, <2>1, <2>2, OneMore DEF LostInv, Unprinted
    <2>4. style # "sync" => Unprinted' = {}
      BY <2>2 DEF LostInv
    <2>5. QED
      BY <2>1, <2>3, <2>4 DEF LostInv
  <1>10. QED
    BY <1>2, <1>3, <1>4, <1>5, <1>6, <1>7, <1>8, <1>9 DEF Jms!Next, Jms!Main, Jms!Provider

\* The program that listens loses no message it has acknowledged; the one that
\* receives loses at most one for each start that fails or is killed, the
\* message in hand, and none when Ctrl-C ends it.
THEOREM JmsLosesAtMostOne == Jms!Spec => []Jms!LostMessages
  <1>1. Jms!Init => JInv /\ CleanInv /\ LostInv
    BY InitJInv, FS_EmptySet DEF Jms!Init, CleanInv, LostInv, Unprinted
  <1>2. JInv /\ CleanInv /\ LostInv /\ [Jms!Next]_(Jms!vars) => JInv' /\ CleanInv' /\ LostInv'
    <2>1. ASSUME JInv, CleanInv, LostInv, UNCHANGED Jms!vars PROVE JInv' /\ CleanInv' /\ LostInv'
      BY <2>1, ThreadStep DEF CleanInv, LostInv, Unprinted, Jms!vars
    <2>2. QED
      BY <2>1, JmsStep, CleanStep, LostStep
  <1>3. CleanInv /\ LostInv => Jms!LostMessages
    <2> SUFFICES ASSUME CleanInv, LostInv PROVE Jms!LostMessages
      OBVIOUS
    <2> DEFINE Lost == ((bookmark.since + 1)..bookmark.acked) \ handled
    <2>1. IsFiniteSet(Unprinted) /\ Lost \subseteq Unprinted /\ broken \in Nat
      BY DEF LostInv, Unprinted
    <2>2. IsFiniteSet(Lost) /\ Cardinality(Lost) \in Nat /\ Cardinality(Unprinted) \in Nat
          /\ Cardinality(Lost) <= Cardinality(Unprinted)
      BY <2>1, FS_Subset, FS_CardinalityType
    <2>3. style # "sync" => Cardinality(Lost) = 0
      BY <2>1, FS_EmptySet DEF LostInv
    <2>4. Cardinality(Unprinted) <= broken + 1
      <3>1. /\ Cardinality(Unprinted) <= Cardinality(Unprinted \ {inhand}) + 1
            /\ Cardinality(Unprinted \ {inhand}) \in Nat
        BY <2>1, OneMore
      <3>2. QED
        BY <2>1, <2>2, <3>1 DEF LostInv
    <2>5. ASSUME style = "sync", ~failed, ~Jms!At("dump")
          PROVE  Cardinality(Unprinted) <= broken
      <3>1. pc # "dump"
        BY <2>5 DEF CleanInv, Jms!At
      <3>2. inhand = 0
        BY <2>5, <3>1 DEF CleanInv
      <3>3. Unprinted \ {0} = Unprinted
        BY DEF LostInv, Unprinted
      <3>4. QED
        BY <3>2, <3>3 DEF LostInv
    <2>6. QED
      BY <2>1, <2>2, <2>3, <2>4, <2>5, JmsCardinality DEF Jms!LostMessages
  <1>4. QED
    BY <1>1, <1>2, <1>3, PTL DEF Jms!Spec
=============================================================================
