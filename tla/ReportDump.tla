----------------------------- MODULE ReportDump -----------------------------
(* The satiksme bot's report dump (internal/bot/report_dump.go): reports are *)
(* queued in the store and one dispatcher sends them to a chat.  It sleeps   *)
(* without a timer when the queue is empty, so enqueuers wake it through a   *)
(* channel of capacity one.  The dispatcher has a client and a chat.         *)
EXTENDS Naturals, FiniteSets

CONSTANTS Enqueuers,    \* request handlers that queue one report each at a time
          Reports,      \* reports that may be queued
          MaxSends,     \* sends of one report before the model stops failing it
          None

VARIABLES
    queue,          \* report_dump_queue: report -> "due", "later" or None
    sends,          \* messages the chat received or refused, per report
    received,       \* reports the chat received
    wake,           \* a token in wakeCh
    pending, loaded,\* pendingCached, pendingLoaded
    dispatcher,     \* where Run is
    item,           \* the report Run works on
    count,          \* the count refreshPendingCount read
    enqueuer        \* where each enqueuer is

dumpVars == <<queue, sends, received, wake, pending, loaded, dispatcher, item, count, enqueuer>>

Queued == {r \in Reports : queue[r] # None}

Init ==
    /\ queue = [r \in Reports |-> None] /\ sends = [r \in Reports |-> 0]
    /\ received = {} /\ wake = FALSE
    /\ pending = 0 /\ loaded = FALSE
    /\ dispatcher = "start" /\ item = None /\ count = 0
    /\ enqueuer = [e \in Enqueuers |-> [pc |-> "idle", report |-> None]]

(* enqueue: insert the row, adjust the cached count, signal.  A failed       *)
(* insert ends the handler, and the report is not dumped.                    *)
Enqueue(e) ==
    /\ enqueuer[e].pc = "idle"
    /\ \E r \in Reports :
        /\ queue[r] = None /\ sends[r] = 0
        /\ queue' = [queue EXCEPT ![r] = "due"]
        /\ enqueuer' = [enqueuer EXCEPT ![e] = [pc |-> "adjust", report |-> r]]
    /\ UNCHANGED <<sends, received, wake, pending, loaded, dispatcher, item, count>>

adjustPending(delta) ==
    /\ loaded' = TRUE
    /\ pending' = IF delta = "one more" THEN pending + 1 ELSE IF pending > 0 THEN pending - 1 ELSE 0

AdjustAfterEnqueue(e) ==
    /\ enqueuer[e].pc = "adjust"
    /\ adjustPending("one more")
    /\ enqueuer' = [enqueuer EXCEPT ![e].pc = "signal"]
    /\ UNCHANGED <<queue, sends, received, wake, dispatcher, item, count>>

(* A full channel already holds a wake-up. *)
signalWake(e) ==
    /\ enqueuer[e].pc = "signal"
    /\ wake' = TRUE
    /\ enqueuer' = [enqueuer EXCEPT ![e] = [pc |-> "idle", report |-> None]]
    /\ UNCHANGED <<queue, sends, received, pending, loaded, dispatcher, item, count>>

(* refreshPendingCount in two steps: the query, then the assignment under    *)
(* the lock; a failed query keeps the cached count.                          *)
CountPending(at, next) ==
    /\ dispatcher = at
    /\ dispatcher' = next
    /\ count' \in {Cardinality(Queued), None}
    /\ UNCHANGED <<queue, sends, received, wake, pending, loaded, item, enqueuer>>

refreshPendingCount(at, next) ==
    /\ dispatcher = at
    /\ dispatcher' = next
    /\ IF count = None THEN UNCHANGED <<pending, loaded>> ELSE pending' = count /\ loaded' = TRUE
    /\ count' = 0
    /\ UNCHANGED <<queue, sends, received, wake, item, enqueuer>>

(* Wait states: "timer" wakes by itself, "forever" only by the channel.      *)
(* A receive takes the token; a delay of zero does not look at the channel.  *)
waitForDumpWake ==
    /\ \/ dispatcher = "timer" /\ UNCHANGED wake
       \/ dispatcher \in {"timer", "forever"} /\ wake /\ wake' = FALSE
    /\ dispatcher' = "load"
    /\ UNCHANGED <<queue, sends, received, pending, loaded, item, count, enqueuer>>

(* NextReportDump: a due row, or none, or an error and a retry in interval.  *)
NextReportDump ==
    /\ dispatcher = "load"
    /\ \/ \E r \in Queued : queue[r] = "due" /\ item' = r /\ dispatcher' = "send"
       \/ (\A r \in Queued : queue[r] # "due") /\ item' = None /\ dispatcher' = "count"
       \/ item' = None /\ dispatcher' = "timer"
    /\ UNCHANGED <<queue, sends, received, wake, pending, loaded, count, enqueuer>>

(* SendMessage: delivered, refused, or delivered with the answer lost. *)
SendMessage ==
    /\ dispatcher = "send"
    /\ sends' = [sends EXCEPT ![item] = IF @ < MaxSends THEN @ + 1 ELSE @]
    /\ \/ received' = received \cup {item} /\ dispatcher' = "delete"
       \/ sends[item] < MaxSends /\ received' \in {received, received \cup {item}} /\ dispatcher' = "failed"
    /\ UNCHANGED <<queue, wake, pending, loaded, item, count, enqueuer>>

(* The failed report is put off; the update may fail too. *)
UpdateReportDumpFailure ==
    /\ dispatcher = "failed"
    /\ \/ queue' = [queue EXCEPT ![item] = "later"]
       \/ UNCHANGED queue
    /\ dispatcher' = "peek" /\ item' = None
    /\ UNCHANGED <<sends, received, wake, pending, loaded, count, enqueuer>>

(* A failed delete leaves the row, which is sent again. *)
DeleteReportDump ==
    /\ dispatcher = "delete"
    /\ \/ queue' = [queue EXCEPT ![item] = None] /\ adjustPending("one less") /\ dispatcher' = "peek"
       \/ sends[item] < MaxSends /\ dispatcher' = "timer" /\ UNCHANGED <<queue, pending, loaded>>
    /\ item' = None
    /\ UNCHANGED <<sends, received, wake, count, enqueuer>>

(* Variant: an empty look at the due rows is taken for an empty queue. *)
SleepUnlessDue ==
    IF \E r \in Queued : queue[r] = "due" THEN "load" ELSE "forever"

nextWakeDelay ==
    IF Queued = {} THEN "forever"
    ELSE IF \E r \in Queued : queue[r] = "due" THEN "load" ELSE "timer"

(* The next row decides how long to sleep; a failed peek sleeps an interval. *)
PeekNextReportDump ==
    /\ dispatcher = "peek"
    /\ dispatcher' \in {nextWakeDelay, "timer"}
    /\ UNCHANGED <<queue, sends, received, wake, pending, loaded, item, count, enqueuer>>

(* reportDumpBackoff ends. *)
BackoffEnds ==
    /\ \E r \in Queued : queue[r] = "later" /\ queue' = [queue EXCEPT ![r] = "due"]
    /\ UNCHANGED <<sends, received, wake, pending, loaded, dispatcher, item, count, enqueuer>>

(* The process restarts: the queue stays, everything else is new. *)
Restart ==
    /\ dispatcher' = "start" /\ item' = None /\ count' = 0
    /\ wake' = FALSE /\ pending' = 0 /\ loaded' = FALSE
    /\ enqueuer' = [e \in Enqueuers |-> [pc |-> "idle", report |-> None]]
    /\ UNCHANGED <<queue, sends, received>>

Next ==
    \/ \E e \in Enqueuers : Enqueue(e) \/ AdjustAfterEnqueue(e) \/ signalWake(e)
    \/ CountPending("start", "started") \/ refreshPendingCount("started", "load")
    \/ CountPending("count", "counted") \/ refreshPendingCount("counted", "peek")
    \/ waitForDumpWake \/ NextReportDump \/ SendMessage \/ UpdateReportDumpFailure
    \/ DeleteReportDump \/ PeekNextReportDump \/ BackoffEnds \/ Restart

Spec == Init /\ [][Next]_dumpVars

-----------------------------------------------------------------------------
(* While the dispatcher sleeps without a timer, every queued report has a    *)
(* wake-up on its way: a token in the channel or an enqueuer that has yet to *)
(* signal (no wake-up is lost between the empty peek and the sleep).         *)
NoLostWakeup ==
    dispatcher = "forever" /\ ~wake /\ (\A e \in Enqueuers : enqueuer[e].pc = "idle") => Queued = {}
=============================================================================
