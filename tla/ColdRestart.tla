---------------------------- MODULE ColdRestart ----------------------------
(***************************************************************************)
(* A deliberate cold restart of ticket-remote, across its three parties:   *)
(*   - the database's barrier (spacetimedb/src/cold_restart.rs), which     *)
(*     PhoneLane knows as blocked;                                         *)
(*   - the relay's coordinator loop (internal/web/cold_restart.go), which  *)
(*     follows the barrier through a subscription, tears its own streaming *)
(*     down and moves the barrier forward with calls that are not retried; *)
(*   - the phone (external), which executes the cold_stop command.         *)
(* Calls of the relay may be late or lost, acknowledgements of the phone   *)
(* also repeated; the relay may restart at any point.  Every operation has *)
(* an identifier of its own (the admin page draws a random one).           *)
(***************************************************************************)
EXTENDS Naturals, Sequences, FiniteSets

CONSTANTS
    Ops,       \* identifiers of cold-restart operations
    NoOp,      \* no operation yet
    Deadline   \* SHUTDOWN_DEADLINE_MS and coldShutdownDeadline (15 s)

ASSUME OpAssumption == NoOp \notin Ops
ASSUME DeadlineAssumption == Deadline \in Nat \ {0}

VARIABLES
    op, phase,     \* coldRestartId, coldRestartPhase of the desired-state row
    left,          \* time left of each operation's deadline
    begun,         \* operations that have been begun
    stop,          \* cold_stop command row of each operation
    starting,      \* the background start command: none, pending, or taken by the phone
    calls,         \* advance calls the relay has sent and the database not yet executed
    acks,          \* cold_stop acknowledgements the phone has sent
    capturing,     \* external: the phone's capture is running
    feed,          \* row versions the subscription has not delivered yet
    view,          \* coldRestartState: the version the relay acts on
    armed,         \* the coordinator's deadline timer is set
    quiesced,      \* operation the relay has torn streaming down for
    hadViewers,    \* were there viewers when it did
    clients,       \* browsers with an open media socket
    relayUp,       \* the relay wants or has a phone connection
    inHand,        \* readLoop has read a message and not yet handled it
    cached         \* the relay holds a configuration or frame

db == <<op, phase, left, begun, stop, starting>>
coordinator == <<view, armed, quiesced, hadViewers>>
stream == <<clients, relayUp, inHand, cached>>
vars == <<op, phase, left, begun, stop, starting, calls, acks, capturing, feed,
          view, armed, quiesced, hadViewers, clients, relayUp, inHand, cached>>

Closing == {"quiescing", "stopping", "confirmed"}
Released == {"reloading", "asleep", "live"}
Phases == {"none", "failed"} \cup Closing \cup Released
Requests == {"stopping", "failed", "reloading", "asleep"}

blocks(p) == p \in Closing \cup {"failed"}

within_deadline(o) == left[o] > 0

-----------------------------------------------------------------------------
(* The database.                                                           *)

(* The row is written and its new version goes to the subscribers.         *)
save(o, p) ==
    /\ op' = o /\ phase' = p
    /\ feed' = Append(feed, [op |-> o, phase |-> p])

(* Mutant: start commands queued before the barrier survive it.            *)
KeepPendingStart == starting

(* A start command the phone has already taken is out of the table's reach. *)
purge_pending_idle_background_commands ==
    IF starting = "pending" THEN "none" ELSE starting

begin_cold_restart(o) ==
    /\ o \notin begun /\ phase \notin Closing \cup {"reloading"}
    /\ save(o, "quiescing")
    /\ begun' = begun \cup {o} /\ left' = [left EXCEPT ![o] = Deadline]
    /\ starting' = purge_pending_idle_background_commands
    /\ UNCHANGED <<stop, calls, acks, capturing, coordinator, stream>>

(* The row after a request that is not rejected.                           *)
Advanced(request) ==
    IF request = "failed" \/ (blocks(phase) /\ ~within_deadline(op)) THEN "failed"
    ELSE request

Accepted(o, request) ==
    /\ o = op
    /\ \/ phase \in Closing /\ Advanced(request) = "failed"
       \/ phase = "quiescing" /\ request = "stopping"
       \/ phase = "confirmed" /\ request \in {"reloading", "asleep"}

(* A call is executed once, possibly late; a rejected one is an error the  *)
(* relay only logs.                                                        *)
advance_cold_restart(o, request) ==
    /\ <<o, request>> \in calls /\ calls' = calls \ {<<o, request>>}
    /\ IF Accepted(o, request)
       THEN /\ save(op, Advanced(request))
            /\ stop' = IF Advanced(request) = "stopping"
                       THEN [stop EXCEPT ![o] = "pending"] ELSE stop
       ELSE UNCHANGED <<op, phase, feed, stop>>
    /\ UNCHANGED <<left, begun, starting, acks, capturing, coordinator, stream>>

(* Mutant: any operation's acknowledgement moves the current one.          *)
AcknowledgeAnyOperation(o, proved) ==
    /\ <<o, proved>> \in acks /\ stop[o] # "none"
    /\ stop' = [stop EXCEPT ![o] = "none"]
    /\ IF phase = "stopping"
       THEN save(op, IF proved /\ within_deadline(op) THEN "confirmed" ELSE "failed")
       ELSE UNCHANGED <<op, phase, feed>>
    /\ UNCHANGED <<left, begun, starting, calls, acks, capturing, coordinator, stream>>

(* update_stream_command_status for a cold_stop command, acknowledge       *)
(* included.  proved: acknowledged with reason cold_capture_released.      *)
acknowledge(o, proved) ==
    /\ <<o, proved>> \in acks /\ stop[o] # "none"
    /\ \E kept \in IF proved THEN {"none"} ELSE {"none", "retained"} :
           stop' = [stop EXCEPT ![o] = kept]
    /\ IF o = op /\ phase = "stopping"
       THEN save(op, IF proved /\ within_deadline(op) THEN "confirmed" ELSE "failed")
       ELSE UNCHANGED <<op, phase, feed>>
    /\ UNCHANGED <<left, begun, starting, calls, acks, capturing, coordinator, stream>>

(* A dispatched report deletes the command without a word to the barrier,  *)
(* and so does its expiry.                                                 *)
CommandDropped(o) ==
    /\ stop[o] # "none" /\ stop' = [stop EXCEPT ![o] = "none"]
    /\ UNCHANGED <<op, phase, left, begun, starting, calls, acks, capturing, feed,
                   coordinator, stream>>

(* The relay reports a live picture newer than the release.                *)
note_live_report ==
    /\ cached /\ phase \in {"reloading", "asleep"}
    /\ save(op, "live")
    /\ UNCHANGED <<left, begun, stop, starting, calls, acks, capturing, coordinator, stream>>

append_stream_command ==
    /\ ~blocks(phase) /\ starting = "none" /\ starting' = "pending"
    /\ UNCHANGED <<op, phase, left, begun, stop, calls, acks, capturing, feed,
                   coordinator, stream>>

-----------------------------------------------------------------------------
(* The phone (external): commands are executed one at a time, in order.    *)

PhoneTakes ==
    /\ starting = "pending" /\ starting' = "taken"
    /\ UNCHANGED <<op, phase, left, begun, stop, calls, acks, capturing, feed,
                   coordinator, stream>>

PhoneStarts ==
    /\ starting = "taken" /\ starting' = "none" /\ capturing' = TRUE
    /\ UNCHANGED <<op, phase, left, begun, stop, calls, acks, feed, coordinator, stream>>

PhoneStops(o, proved) ==
    /\ stop[o] = "pending" /\ starting # "taken" /\ <<o, proved>> \notin acks
    /\ acks' = acks \cup {<<o, proved>>}
    /\ capturing' = (capturing /\ ~proved)
    /\ UNCHANGED <<db, calls, feed, coordinator, stream>>

-----------------------------------------------------------------------------
(* The relay.                                                              *)

Expired(v) == v.phase \in Closing /\ ~within_deadline(v.op)

(* The first version of an operation the relay sees behind its barrier.    *)
First(v, seen) == blocks(v.phase) /\ seen # v.op

(* quiesceForColdRestart runs: once per operation, and again before the    *)
(* release.                                                                *)
Quiesce(v, seen) == ~Expired(v) /\ (First(v, seen) \/ v.phase = "confirmed")

(* The call that answers a version.  The relay's own proof (no viewer,     *)
(* connection or picture after the second teardown) always succeeds: the   *)
(* teardown holds streamLifecycleMu, under which every other path tests    *)
(* coldRestartBlocked.                                                     *)
Answer(v, viewers) ==
    CASE Expired(v) -> {<<v.op, "failed">>}
      [] ~Expired(v) /\ v.phase = "quiescing" -> {<<v.op, "stopping">>}
      [] ~Expired(v) /\ v.phase = "confirmed" ->
            {<<v.op, IF viewers THEN "reloading" ELSE "asleep">>}
      [] OTHER -> {}

(* Mutant: the deadline timer is set for the first phase only.             *)
ArmOnlyWhileQuiescing(v, seen, had, present) ==
    LET viewers == IF ~Expired(v) /\ First(v, seen) THEN present ELSE had
    IN /\ view' = v
       /\ armed' = (v.phase = "quiescing" /\ ~Expired(v))
       /\ quiesced' = IF ~Expired(v) /\ First(v, seen) THEN v.op ELSE seen
       /\ hadViewers' = viewers
       /\ calls' = calls \cup Answer(v, viewers)

(* One version of the row, for a coordinator that has torn down for seen,  *)
(* remembers had and finds present browsers.                               *)
apply(v, seen, had, present) ==
    LET viewers == IF ~Expired(v) /\ First(v, seen) THEN present ELSE had
    IN /\ view' = v
       /\ armed' = (v.phase \in Closing /\ ~Expired(v))
       /\ quiesced' = IF ~Expired(v) /\ First(v, seen) THEN v.op ELSE seen
       /\ hadViewers' = viewers
       /\ calls' = calls \cup Answer(v, viewers)

StreamIsDown == clients' = FALSE /\ relayUp' = FALSE /\ cached' = FALSE

(* coldRestartLoop: a version arrives.  A reconnected subscription starts  *)
(* from a later one.                                                       *)
Receive(i) ==
    /\ feed' = SubSeq(feed, i + 1, Len(feed))
    /\ IF feed[i] = view THEN UNCHANGED <<calls, coordinator, stream>>
       ELSE /\ apply(feed[i], quiesced, hadViewers, clients)
            /\ IF Quiesce(feed[i], quiesced) THEN StreamIsDown /\ UNCHANGED inHand
               ELSE UNCHANGED stream
    /\ UNCHANGED <<db, acks, capturing>>

DeadlineFires ==
    /\ armed /\ ~within_deadline(view.op)
    /\ armed' = FALSE /\ calls' = calls \cup {<<view.op, "failed">>}
    /\ UNCHANGED <<db, acks, capturing, feed, view, quiesced, hadViewers, stream>>

(* The relay process restarts: startColdRestartControl reads the row and   *)
(* the loop applies it before anything else.                               *)
Restart ==
    /\ apply([op |-> op, phase |-> phase], NoOp, FALSE, FALSE)
    /\ StreamIsDown /\ inHand' = FALSE /\ feed' = <<>>
    /\ UNCHANGED <<db, acks, capturing>>

(* Mutant: a viewer's reference is counted behind the barrier.             *)
CountViewerBehindBarrier ==
    /\ clients' = TRUE /\ relayUp' = TRUE
    /\ UNCHANGED <<db, calls, acks, capturing, feed, coordinator, inHand, cached>>

(* A media socket opens; addRelayViewer does nothing behind the barrier.   *)
addRelayViewer ==
    /\ clients' = TRUE /\ relayUp' = (relayUp \/ ~blocks(view.phase))
    /\ UNCHANGED <<db, calls, acks, capturing, feed, coordinator, inHand, cached>>

(* The last socket closes, and the relay's idle stop follows.              *)
removeRelayViewer ==
    /\ clients /\ clients' = FALSE /\ relayUp' = FALSE
    /\ UNCHANGED <<db, calls, acks, capturing, feed, coordinator, inHand, cached>>

readLoop ==
    /\ relayUp /\ capturing /\ ~inHand /\ inHand' = TRUE
    /\ UNCHANGED <<db, calls, acks, capturing, feed, coordinator, clients, relayUp, cached>>

handlePhoneMessage ==
    /\ inHand /\ inHand' = FALSE /\ cached' = (cached \/ ~blocks(view.phase))
    /\ UNCHANGED <<db, calls, acks, capturing, feed, coordinator, clients, relayUp>>

-----------------------------------------------------------------------------
(* Mutant: an elapsed deadline keeps counting.                             *)
TickPastZero ==
    /\ left' = [o \in Ops |-> left[o] - 1]
    /\ UNCHANGED <<op, phase, begun, stop, starting, calls, acks, capturing, feed,
                   coordinator, stream>>

Tick ==
    /\ left' = [o \in Ops |-> IF left[o] > 0 THEN left[o] - 1 ELSE 0]
    /\ UNCHANGED <<op, phase, begun, stop, starting, calls, acks, capturing, feed,
                   coordinator, stream>>

Init ==
    /\ op = NoOp /\ phase = "none" /\ left = [o \in Ops |-> 0] /\ begun = {}
    /\ stop = [o \in Ops |-> "none"] /\ starting = "none"
    /\ calls = {} /\ acks = {} /\ capturing = FALSE /\ feed = <<>>
    /\ view = [op |-> NoOp, phase |-> "none"] /\ armed = FALSE
    /\ quiesced = NoOp /\ hadViewers = FALSE
    /\ clients = FALSE /\ relayUp = FALSE /\ inHand = FALSE /\ cached = FALSE

Next ==
    \/ \E o \in Ops :
          \/ begin_cold_restart(o)
          \/ \E request \in Requests : advance_cold_restart(o, request)
          \/ \E proved \in BOOLEAN : acknowledge(o, proved) \/ PhoneStops(o, proved)
          \/ CommandDropped(o)
    \/ note_live_report \/ append_stream_command \/ PhoneTakes \/ PhoneStarts
    \/ \E i \in 1..Len(feed) : Receive(i)
    \/ DeadlineFires \/ Restart \/ addRelayViewer \/ removeRelayViewer
    \/ readLoop \/ handlePhoneMessage \/ Tick

Spec == Init /\ [][Next]_vars

(* Time passes, the subscription and the timer are served, and no call of  *)
(* the coordinator is lost.                                                *)
LiveSpec ==
    /\ Spec /\ WF_vars(Tick) /\ WF_vars(DeadlineFires)
    /\ WF_vars(\E i \in 1..Len(feed) : Receive(i))
    /\ \A o \in Ops, request \in Requests : WF_vars(advance_cold_restart(o, request))

-----------------------------------------------------------------------------
(* The shapes of the state.                                                *)
TypeOK ==
    /\ op \in Ops \cup {NoOp} /\ phase \in Phases
    /\ left \in [Ops -> 0..Deadline] /\ begun \subseteq Ops
    /\ stop \in [Ops -> {"none", "pending", "retained"}]
    /\ starting \in {"none", "pending", "taken"}
    /\ calls \subseteq Ops \X Requests /\ acks \subseteq Ops \X BOOLEAN
    /\ capturing \in BOOLEAN
    /\ feed \in Seq([op : Ops, phase : Phases])
    /\ view \in [op : Ops \cup {NoOp}, phase : Phases] /\ armed \in BOOLEAN
    /\ quiesced \in Ops \cup {NoOp} /\ hadViewers \in BOOLEAN
    /\ clients \in BOOLEAN /\ relayUp \in BOOLEAN
    /\ inHand \in BOOLEAN /\ cached \in BOOLEAN

(* While the barrier says confirmed, the phone's capture is down and no    *)
(* start command can bring it back: neither one queued before the barrier  *)
(* nor one the phone had already taken when it was closed.                 *)
CaptureIsDown == phase = "confirmed" => ~capturing /\ starting = "none"

(* The state keeps its shape, and a confirmed shutdown is one.             *)
ShutdownIsProved == TypeOK /\ CaptureIsDown

(* The barrier is released only over a relay that has no phone connection  *)
(* and no cached picture, whatever browsers did since the teardown.        *)
ReleaseIsCold ==
    [][phase = "confirmed" /\ phase' \in {"reloading", "asleep"}
           => ~relayUp /\ ~cached]_vars

(* The row, the calls and the acknowledgements implement the barrier: it   *)
(* opens only for the operation that closed it, once the phone has proved  *)
(* the shutdown in answer to that operation, and a failed operation stays  *)
(* failed until another one begins.                                        *)
Barrier == INSTANCE ColdBarrier WITH
    holder <- op,
    gate <- IF phase \in Closing THEN "closed"
            ELSE IF phase = "failed" THEN "failed" ELSE "open",
    released <- {o \in Ops : <<o, TRUE>> \in acks}
ImplementsBarrier == Barrier!Spec

(* The barrier does not stay closed and undecided: it is released or it    *)
(* fails, even when the phone never answers and the relay restarts.        *)
EveryRestartSettles == phase \in Closing ~> phase \notin Closing

(* Every restart ends, and one that ends in a release ends cold.           *)
RestartEndsCold == ReleaseIsCold /\ EveryRestartSettles
=============================================================================
