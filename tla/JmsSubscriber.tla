---------------------------- MODULE JmsSubscriber ----------------------------
(***************************************************************************)
(* The JMS programs that monitor a table: asyncJMS.java (a listener that   *)
(* the JMS provider calls on a thread of its own) and syncJMS.java (the    *)
(* main thread receives).  asyncJMS2 and syncJMS2 are the same programs    *)
(* for another package of the JMS interfaces.                              *)
(*                                                                         *)
(* Three threads: main, the provider's, and the shutdown hook, which the   *)
(* virtual machine starts when Ctrl-C arrives or the program exits.  The   *)
(* hook asks the main thread to stop (shuttingDown) and waits until it     *)
(* says that it is done (subscriberDone, shutdownDone); then the machine   *)
(* halts, wherever the other threads are.                                  *)
(***************************************************************************)
EXTENDS Integers, FiniteSets

CONSTANTS
    Styles,     \* the programs to run, a subset of {"async", "sync"}
    MaxLog,     \* bound: updates committed
    MaxStarts   \* bound: times the program is started

ASSUME JmsAssumption ==
    /\ Styles \subseteq {"async", "sync"}
    /\ MaxLog \in Nat /\ MaxStarts \in Nat

VARIABLES
    style,
    log,        \* number of updates of the tracked table
    bookmark,   \* [exists, since, acked, tracking], kept by the database
    jvm,        \* "down", "up", "stopping"
    pc,         \* the main thread
    hook,       \* the shutdown hook
    shuttingDown,
    done,       \* subscriberDone, shutdownDone
    started,    \* async: the provider may call the listener
    next,       \* the last update taken from the bookmark
    inhand,     \* the update onMessage or dumpMessage works on, or 0
    received,   \* history: the updates the provider counts as received
    handled,    \* history: the updates the program is through with
    ctrlC,      \* history: Ctrl-C found the hook in place
    failed,     \* history: a call of this start has failed, or it was killed
    starts,
    broken      \* history: earlier starts with a failed call, or killed

database == <<log, bookmark>>
flags    == <<shuttingDown, done>>
message  == <<next, inhand, received, handled>>
history  == <<ctrlC, failed, starts, broken>>
vars     == <<style, log, bookmark, jvm, pc, hook, shuttingDown, done, started,
              next, inhand, received, handled, ctrlC, failed, starts,
              broken>>

Init ==
    /\ style \in Styles
    /\ log = 0
    /\ bookmark = [exists |-> FALSE, since |-> 0, acked |-> 0, tracking |-> FALSE]
    /\ jvm = "down" /\ pc = "over" /\ hook = "none"
    /\ shuttingDown = FALSE /\ done = FALSE /\ started = FALSE
    /\ next = 0 /\ inhand = 0 /\ received = {} /\ handled = {}
    /\ ctrlC = FALSE /\ failed = FALSE /\ starts = 0 /\ broken = 0

\* The main thread runs as long as the machine does.
At(place)   == jvm # "down" /\ pc = place
GoTo(place) == pc' = place

-----------------------------------------------------------------------------
(* The database and the virtual machine.                                   *)

CommitUpdate ==
    /\ bookmark.exists /\ bookmark.tracking /\ log < MaxLog
    /\ log' = log + 1
    /\ UNCHANGED <<style, bookmark, jvm, pc, hook, flags, started, message, history>>

Start ==
    /\ jvm = "down" /\ starts < MaxStarts
    /\ jvm' = "up" /\ GoTo("connect") /\ hook' = "none"
    /\ shuttingDown' = FALSE /\ done' = FALSE /\ started' = FALSE
    /\ next' = 0 /\ inhand' = 0
    /\ ctrlC' = FALSE /\ failed' = FALSE
    /\ starts' = starts + 1
    /\ broken' = IF failed THEN broken + 1 ELSE broken
    /\ UNCHANGED <<style, database, received, handled>>

\* Ctrl-C: without a hook the machine halts at once.
Interrupt ==
    /\ jvm = "up"
    /\ IF hook = "ready"
       THEN jvm' = "stopping" /\ hook' = "run" /\ ctrlC' = TRUE /\ UNCHANGED failed
       ELSE jvm' = "down" /\ failed' = TRUE /\ UNCHANGED <<hook, ctrlC>>
    /\ UNCHANGED <<style, database, pc, flags, started, message, starts, broken>>

Kill ==
    /\ jvm # "down" /\ starts < MaxStarts
    /\ jvm' = "down" /\ failed' = TRUE
    /\ UNCHANGED <<style, database, pc, hook, flags, started, message, ctrlC, starts, broken>>

\* System.exit: the first call starts the hook, a later one only waits.
SystemExit ==
    /\ At("exit")
    /\ GoTo("over")
    /\ IF jvm = "stopping" THEN UNCHANGED <<jvm, hook>>
       ELSE IF hook = "ready" THEN jvm' = "stopping" /\ hook' = "run"
       ELSE jvm' = "down" /\ UNCHANGED hook
    /\ UNCHANGED <<style, database, flags, started, message, history>>

\* The machine halts when the hook has ended.
Halt ==
    /\ jvm = "stopping" /\ hook = "ended"
    /\ jvm' = "down"
    /\ UNCHANGED <<style, database, pc, hook, flags, started, message, history>>

-----------------------------------------------------------------------------
(* The shutdown hook.                                                      *)

HookShutdown ==
    /\ jvm # "down" /\ hook = "run"
    /\ shuttingDown' = TRUE
    /\ hook' = "check"
    /\ UNCHANGED <<style, database, jvm, pc, done, started, message, history>>

\* Mutant: the hook asks main to stop and does not wait for it.
NotWaiting == TRUE

\* isDone()
IsDone == done

\* while (!demo.isDone()) demo.wait(), under the lock.
HookWait ==
    /\ jvm # "down" /\ hook = "check"
    /\ hook' = IF IsDone THEN "ended" ELSE "wait"
    /\ UNCHANGED <<style, database, jvm, pc, flags, started, message, history>>

\* Mutant: nobody is notified.
Silent == hook

\* notifyAll()
Notified == IF hook = "wait" THEN "check" ELSE hook

\* setSubscriberDone(true), setShutdownDone(true)
SetDone == done' = TRUE /\ hook' = Notified

-----------------------------------------------------------------------------
(* main: init() creates the bookmark and the subscription, and passes over *)
(* every error of either.                                                  *)

InitConnect ==
    /\ At("connect")
    /\ GoTo("create")
    /\ UNCHANGED <<style, database, jvm, hook, flags, started, message, history>>

InitConnectFails ==
    /\ At("connect")
    /\ GoTo("exit") /\ failed' = TRUE
    /\ UNCHANGED <<style, database, jvm, hook, flags, started, message, ctrlC, starts, broken>>

BookmarkCreate ==
    /\ At("create") /\ ~bookmark.exists
    /\ bookmark' = [exists |-> TRUE, since |-> log, acked |-> log, tracking |-> FALSE]
    /\ GoTo("subscribe")
    /\ UNCHANGED <<style, log, jvm, hook, flags, started, message, history>>

\* The table is not subscribed when the bookmark is there already.
BookmarkThere ==
    /\ At("create") /\ bookmark.exists
    /\ GoTo("addhook")
    /\ UNCHANGED <<style, database, jvm, hook, flags, started, message, history>>

XlaSubscribe ==
    /\ At("subscribe")
    /\ bookmark' = [bookmark EXCEPT !.tracking = TRUE]
    /\ GoTo("addhook")
    /\ UNCHANGED <<style, log, jvm, hook, flags, started, message, history>>

BuiltInFails ==
    /\ At("create") \/ At("subscribe")
    /\ GoTo("addhook") /\ failed' = TRUE
    /\ UNCHANGED <<style, database, jvm, hook, flags, started, message, ctrlC, starts, broken>>

AddShutdownHook ==
    /\ At("addhook")
    /\ hook' = "ready"
    /\ GoTo("open")
    /\ UNCHANGED <<style, database, jvm, flags, started, message, history>>

\* Where a durable subscriber goes on.
Resume == bookmark.acked

\* The connection, the session, the topic, the durable subscriber; the
\* provider goes on behind the last acknowledgement.
OpenSubscriber ==
    /\ At("open") /\ bookmark.exists
    /\ next' = Resume
    /\ started' = (style = "async")
    /\ GoTo("loop")
    /\ UNCHANGED <<style, database, jvm, hook, flags, inhand, received, handled, history>>

-----------------------------------------------------------------------------
(* Messages, AUTO_ACKNOWLEDGE.                                             *)

\* What the bookmark acknowledges, if it is still there.
Ack(r) == bookmark' = IF bookmark.exists THEN [bookmark EXCEPT !.acked = r]
                                         ELSE bookmark

\* A message waits.
HasMessage == next < log

\* async, the provider's thread: onMessage begins.
Deliver ==
    /\ jvm # "down" /\ started /\ inhand = 0 /\ HasMessage
    /\ inhand' = next + 1 /\ next' = next + 1
    /\ UNCHANGED <<style, database, jvm, pc, hook, flags, started, received, handled, history>>

\* What is acknowledged when onMessage returns.
AckAfterListener == inhand

\* onMessage returns, also when it has caught an exception: the message is
\* acknowledged.
ListenerReturns ==
    /\ jvm # "down" /\ style = "async" /\ inhand # 0
    /\ Ack(AckAfterListener)
    /\ received' = received \cup {inhand} /\ handled' = handled \cup {inhand}
    /\ inhand' = 0
    /\ UNCHANGED <<style, log, jvm, pc, hook, flags, started, next, history>>

\* sync: receive() acknowledges the message it returns.
Receive ==
    /\ At("get") /\ HasMessage
    /\ next' = next + 1 /\ inhand' = next + 1
    /\ received' = received \cup {next + 1}
    /\ Ack(next + 1)
    /\ GoTo("dump")
    /\ UNCHANGED <<style, log, jvm, hook, flags, started, handled, history>>

\* sync: a message beyond the bound of the log, which is not numbered.  The
\* other programs may commit updates without a pause.
ReceiveMore ==
    /\ At("get") /\ ~HasMessage
    /\ log = MaxLog /\ bookmark.exists /\ bookmark.tracking
    /\ GoTo("dump")
    /\ UNCHANGED <<style, database, jvm, hook, flags, started, message, history>>

DumpMessage ==
    /\ At("dump")
    /\ handled' = handled \cup ({inhand} \ {0})
    /\ inhand' = 0
    /\ GoTo("get")
    /\ UNCHANGED <<style, database, jvm, hook, flags, started, next, received, history>>

\* sync: only a receive() that times out ends get(), after 200 ms without a
\* message; main does not look at shuttingDown before.
ReceiveTimesOut ==
    /\ At("get") /\ ~HasMessage
    /\ GoTo("loop")
    /\ UNCHANGED <<style, database, jvm, hook, flags, started, message, history>>

-----------------------------------------------------------------------------
(* while (!isShuttingDown()), and the end.                                 *)

Loop ==
    /\ At("loop")
    /\ GoTo(IF shuttingDown THEN "unsubscribe"
            ELSE IF style = "sync" THEN "get" ELSE "loop")
    /\ UNCHANGED <<style, database, jvm, hook, flags, started, message, history>>

\* Where the main thread says that it is done.
SaysDone == pc = "close"

\* Unsubscribing deletes the bookmark.
Unsubscribe ==
    /\ At("unsubscribe")
    /\ bookmark' = [bookmark EXCEPT !.exists = FALSE, !.tracking = FALSE]
    /\ IF SaysDone THEN SetDone ELSE UNCHANGED <<done, hook>>
    /\ GoTo("close")
    /\ UNCHANGED <<style, log, jvm, shuttingDown, started, message, history>>

\* close() waits for the listener to return.
CloseConnection ==
    /\ At("close") /\ (style = "async" => inhand = 0)
    /\ started' = FALSE
    /\ IF SaysDone THEN SetDone ELSE UNCHANGED <<done, hook>>
    /\ GoTo("exit")
    /\ UNCHANGED <<style, database, jvm, shuttingDown, message, history>>

\* "don't get stuck waiting for the subscriber"
DoneOnError == SetDone

\* Any JMSException.  asyncJMS unsubscribes while its subscriber is open,
\* which the provider may refuse; getConnStr throws after the opening.
SubscriberFails ==
    /\ \/ At("open") \/ At("get") \/ At("dump") \/ At("unsubscribe") \/ At("close")
       \/ At("loop") /\ style = "sync"
    /\ DoneOnError
    /\ GoTo("exit") /\ failed' = TRUE
    /\ UNCHANGED <<style, database, jvm, shuttingDown, started, message, ctrlC, starts, broken>>

Main ==
    \/ SystemExit \/ InitConnect \/ InitConnectFails \/ BookmarkCreate
    \/ BookmarkThere \/ XlaSubscribe \/ BuiltInFails \/ AddShutdownHook
    \/ OpenSubscriber \/ Receive \/ ReceiveMore \/ DumpMessage \/ ReceiveTimesOut \/ Loop
    \/ Unsubscribe \/ CloseConnection \/ SubscriberFails

Hook     == HookShutdown \/ HookWait \/ Halt
Provider == Deliver \/ ListenerReturns

Ended == jvm = "down" /\ starts = MaxStarts /\ UNCHANGED vars

Next ==
    \/ Main \/ Hook \/ Provider
    \/ CommitUpdate \/ Start \/ Interrupt \/ Kill \/ Ended

Spec == Init /\ [][Next]_vars

\* The virtual machine runs every thread.
FairSpec == Spec /\ WF_vars(Main) /\ WF_vars(Hook) /\ WF_vars(Provider)

-----------------------------------------------------------------------------
(* Properties.                                                             *)

\* Every variable has its type; only the thread that runs has a message in
\* hand, and the hook waits only while the machine stops.
TypeOK ==
    /\ style \in Styles /\ log \in 0..MaxLog
    /\ bookmark \in [exists : BOOLEAN, since : 0..log, acked : 0..log, tracking : BOOLEAN]
    /\ jvm \in {"down", "up", "stopping"}
    /\ pc \in {"connect", "create", "subscribe", "addhook", "open", "loop", "get",
               "dump", "unsubscribe", "close", "exit", "over"}
    /\ hook \in {"none", "ready", "run", "check", "wait", "ended"}
    /\ jvm = "up" => hook \in {"none", "ready"}
    /\ shuttingDown \in BOOLEAN /\ done \in BOOLEAN /\ started \in BOOLEAN
    /\ next \in 0..log /\ inhand \in {0, next}
    /\ received \subseteq 1..log /\ handled \subseteq received
    /\ ctrlC \in BOOLEAN /\ failed \in BOOLEAN
    /\ starts \in 0..MaxStarts /\ broken \in 0..starts

\* The listener loses nothing: what is acknowledged has been printed.  The
\* program that receives may lose the message in hand, as receive()
\* acknowledges before the message is printed: one for each start that a
\* failure or a kill ended, none for one that Ctrl-C ended, as the machine
\* does not halt before main has printed it.
LostMessages ==
    Cardinality(((bookmark.since + 1)..bookmark.acked) \ handled) <=
        IF style = "async" THEN 0
        ELSE broken + (IF failed \/ At("dump") THEN 1 ELSE 0)

\* The machine does not halt before the main thread has deleted the
\* bookmark and closed the connection, unless a call has failed.
CleanShutdown == jvm = "down" /\ ctrlC /\ ~failed => ~bookmark.exists /\ ~started

\* "clean things up on interrupts" (syncJMS.java:116): once the machine is
\* stopping it halts.  Not so for sync, whose main thread does not come back
\* from get() while messages keep coming.
ShutdownAlwaysEnds == jvm = "stopping" ~> jvm = "down"

\* The hook never waits for good, whatever the main thread met, unless the
\* program that receives is never without a message for 200 ms.
ShutdownEnds == ShutdownAlwaysEnds \/ []<>(style = "sync" /\ pc = "dump")

\* An update of a tracked table reaches the program while it waits.
Delivered ==
    \A r \in 1..MaxLog :
        (At("loop") /\ log >= r /\ bookmark.acked < r) ~> (r \in handled \/ jvm # "up")
=============================================================================
