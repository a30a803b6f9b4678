----------------------------- MODULE PhoneLane -----------------------------
(***************************************************************************)
(* The phone-mutation lane of ticket-remote: the SpacetimeDB tables that   *)
(* decide which one piece of work may touch the phone, and every reducer   *)
(* that reads or writes them                                               *)
(* (workloads/ticket-remote/spacetimedb/src/lib.rs and command.rs).        *)
(*                                                                         *)
(* A reducer is one transaction: it is a single action here, written as a  *)
(* function from the tables before it to the tables after it, trailing     *)
(* queue promotion included, and Commit makes the result the next state.   *)
(* A reducer that returns an error is rolled back, and one that returns Ok *)
(* without writing changes nothing: neither is a step.                     *)
(*                                                                         *)
(* Time.  An expiresAt column is kept as the time that is left, counted    *)
(* down by Tick: expiresAt > now in the code is ttl > 0 here.              *)
(*                                                                         *)
(* The phone worker is not part of this repository.  All that is assumed   *)
(* of it is that it only speaks about commands that have been in its       *)
(* command table (the set seen): its calls may be late, repeated, out of   *)
(* order, or never come.                                                   *)
(***************************************************************************)
EXTENDS Integers, FiniteSets

CONSTANTS
    Actions,      \* identifiers of ticket actions (v3)
    Activations,  \* those whose target registers a ticket
    Redetects,    \* those created by a scheduled re-detection
    Refreshes,    \* those created by a scheduled activation-expiry reset
    Codes,        \* identifiers of control-code requests
    Reauths,      \* identifiers of ViVi re-authentication requests
    NoId,         \* no identifier: the empty queue slot
    MaxRevision,  \* bound: how many times the credential is saved or cleared
    CodeTTL,      \* CONTROL_CODE_PHONE_TTL_MS        (105 s)
    ResultTTL,    \* CONTROL_CODE_RESULT_TTL_MS       (60 s)
    KeepTTL,      \* CONTROL_CODE_COMMAND_TTL_MS      (120 s)
    ReauthTTL,    \* VIVI_REAUTH_COMMAND_TTL_MS       (180 s)
    RequestTTL,   \* CONTROL_CODE_REQUEST_TTL_MS      (300 s)
    ActionTTL     \* TICKET_ACTIVATION_COMMAND_TTL_MS (600 s)

Ids == Actions \cup Codes \cup Reauths
Schedules == Redetects \cup Refreshes

ASSUME IdAssumption ==
    /\ Activations \subseteq Actions /\ Schedules \subseteq Actions
    /\ Redetects \cap Refreshes = {} /\ Activations \cap Schedules = {}
    /\ Actions \cap Codes = {} /\ Actions \cap Reauths = {}
    /\ Codes \cap Reauths = {}
    /\ NoId \notin Ids

ASSUME TTLAssumption ==
    /\ MaxRevision \in Nat
    /\ {CodeTTL, ResultTTL, KeepTTL, ReauthTTL, RequestTTL, ActionTTL}
         \subseteq Nat \ {0}
    /\ CodeTTL < RequestTTL

VARIABLES
    action,    \* ticketremote_ticket_action_v3: status of each row
    history,   \* ticketremote_activation_history: outcome of each admission
    attempt,   \* ticketremote_vivi_reauth_attempt: status, credentialRevision
    request,   \* ticketremote_control_code_request joined with its owner row
    command,   \* ticketremote_stream_command rows that belong to an Id
    intent,    \* ticketremote_ticket_action_v3_queued_intent: the one slot
    receipt,   \* ticketremote_command_receipt: command ids ever accepted
    owner,     \* does the account that asks for re-authentication own the ticket
    revision,  \* revision of the saved ViVi credential
    configured,\* is there a saved credential at all
    blocked,   \* cold_restart::ticket_blocked
    seen       \* external: commands the phone worker has been shown

vars == <<action, history, attempt, request, command, intent, receipt,
          owner, revision, configured, blocked, seen>>

-----------------------------------------------------------------------------
(* The rows.                                                               *)

Terminal == {"succeeded", "failed", "needs_attention"}
LaneStatuses == {"pending", "running"}
ActionStatuses == {"none", "queued"} \cup LaneStatuses \cup Terminal
HistoryOutcomes == {"none", "pending", "succeeded", "failed"}
CommandStatuses == {"none", "queued", "pending", "dispatched", "failed", "expired"}
CodeProgress == {"queued", "running", "generated"}
CodeFailures == {"failed", "closed", "expired"}
RequestStatuses == {"none", "succeeded"} \cup CodeProgress \cup CodeFailures

(* done: the reason column is "phone_visual_cleanup_complete"; result and  *)
(* owner: time left of resultExpiresAt and of the owner row.               *)
RequestRow == [status : RequestStatuses, capture : BOOLEAN, acked : BOOLEAN,
               cleanup : BOOLEAN, done : BOOLEAN, result : Nat, owner : Nat, ttl : Nat]

NoCommand == [status |-> "none", ttl |-> 0]
NoIntent  == [id |-> NoId, ttl |-> 0]
NoAttempt == [status |-> "none", revision |-> 0]
NoRequest == [status |-> "none", capture |-> FALSE, acked |-> FALSE,
              cleanup |-> FALSE, done |-> FALSE, result |-> 0, owner |-> 0, ttl |-> 0]

insert_control_code_public_request ==
    [NoRequest EXCEPT !.status = "queued", !.ttl = RequestTTL]

(* The tables a transaction reads and writes, as one value, and the step   *)
(* that makes a transaction's result the next state.                       *)
Db == [action |-> action, history |-> history, attempt |-> attempt,
       request |-> request, command |-> command, intent |-> intent,
       receipt |-> receipt, owner |-> owner, revision |-> revision,
       configured |-> configured, blocked |-> blocked, seen |-> seen]

Commit(d) ==
    \E t \in {d} :
      /\ action' = t.action /\ history' = t.history /\ attempt' = t.attempt
      /\ request' = t.request /\ command' = t.command /\ intent' = t.intent
      /\ receipt' = t.receipt /\ owner' = t.owner /\ revision' = t.revision
      /\ configured' = t.configured /\ blocked' = t.blocked /\ seen' = t.seen

-----------------------------------------------------------------------------
(* Who holds the lane.                                                     *)

control_code_request_occupies_phone(row) ==
    /\ row.ttl > 0
    /\ \/ row.status \in CodeProgress
       \/ row.status = "succeeded" /\ (row.cleanup \/ (row.capture /\ ~row.acked))

ActionsInProgress(d) == {a \in Actions : d.action[a] \in LaneStatuses}
ReauthsInProgress(d) == {r \in Reauths : d.attempt[r].status \in LaneStatuses}
CodesInProgress(d) ==
    {c \in Codes : control_code_request_occupies_phone(d.request[c])}

Occupants(d) == ActionsInProgress(d) \cup ReauthsInProgress(d) \cup CodesInProgress(d)

(* Mutant: control codes are left out of the lane.                         *)
LaneWithoutCodes(d, ignored) ==
    (ActionsInProgress(d) \cup ReauthsInProgress(d)) \ {ignored} # {}

(* Mutant: re-authentications are left out of the lane.                    *)
LaneWithoutReauths(d, ignored) ==
    (ActionsInProgress(d) \cup CodesInProgress(d)) \ {ignored} # {}

ticket_phone_mutation_lane_conflict_ignoring(d, ignored) ==
    Occupants(d) \ {ignored} # {}

ticket_phone_mutation_lane_conflict(d) ==
    ticket_phone_mutation_lane_conflict_ignoring(d, NoId)

(* Mutant: an attempt that still waits in the queue is overlooked.         *)
LiveReauthButNotQueued(d) ==
    \E r \in Reauths : d.attempt[r].status \in LaneStatuses

ticket_has_live_vivi_reauth(d) ==
    \E r \in Reauths : d.attempt[r].status \in LaneStatuses \cup {"queued"}

-----------------------------------------------------------------------------
(* Commands, the queue slot and admission.                                 *)

CommandTTL(x) ==
    IF x \in Codes THEN CodeTTL ELSE IF x \in Reauths THEN ReauthTTL ELSE ActionTTL

(* An existing row with the same identifier is returned unchanged.         *)
insert_stream_command(d, x) ==
    IF d.command[x].status # "none" THEN d
    ELSE [d EXCEPT !.command[x] = [status |-> "pending", ttl |-> CommandTTL(x)],
                   !.seen = @ \cup {x}]

queue_is_full(d) == d.intent.id # NoId /\ d.intent.ttl > 0

queue_phone_intent(d, x) ==
    LET row == IF x \in Actions
               THEN [d EXCEPT !.action[x] = "queued"]
               ELSE IF x \in Reauths
               THEN [d EXCEPT !.attempt[x] = [status |-> "queued", revision |-> d.revision]]
               ELSE [d EXCEPT !.request[x] = insert_control_code_public_request]
    IN [row EXCEPT !.command[x] = [status |-> "queued", ttl |-> CommandTTL(x)],
                   !.intent = [id |-> x, ttl |-> CommandTTL(x)]]

(* Past the lane check.  A rejection of the action itself (no switch or    *)
(* registration authority, limit reached) commits a failed row.            *)
request_ticket_action_v3(d, a, granted) ==
    IF ~granted THEN [d EXCEPT !.action[a] = "failed"]
    ELSE insert_stream_command(
           [d EXCEPT !.action[a] = "pending",
                     !.history = [h \in Activations |->
                        IF h = a THEN "pending" ELSE @[h]]], a)

admit_vivi_reauth(d, r) ==
    insert_stream_command(
      [d EXCEPT !.attempt[r] = [status |-> "pending", revision |-> d.revision]], r)

admit_control_code_request(d, c) ==
    insert_stream_command(
      [d EXCEPT !.request[c] =
          [insert_control_code_public_request EXCEPT !.owner = RequestTTL]], c)

finish_queued_control_code_request(d, c) ==
    [d EXCEPT !.request[c] = [insert_control_code_public_request EXCEPT
                                !.status = "failed", !.ttl = KeepTTL]]

(* granted: the membership, phone readiness, limits and switch authority   *)
(* that admission looks up outside the lane's own tables.                  *)
promote_ticket_action_v3_queue(d, granted) ==
    LET x == d.intent.id
        expired == d.intent.ttl = 0
        taken == [d EXCEPT !.intent = NoIntent, !.command[x] = NoCommand]
        stale == expired \/ ~d.owner \/ ~d.configured
                   \/ d.attempt[x].revision # d.revision
    IN IF \/ d.blocked
          \/ x = NoId
          \/ ticket_phone_mutation_lane_conflict_ignoring(d, IF x \in Codes THEN x ELSE NoId)
       THEN d
       ELSE IF x \in Reauths
       THEN IF d.attempt[x].status = "none" THEN taken
            ELSE IF stale THEN [taken EXCEPT !.attempt[x].status = "failed"]
            ELSE admit_vivi_reauth(taken, x)
       ELSE IF x \in Codes
       THEN IF expired \/ ~granted THEN finish_queued_control_code_request(taken, x)
            ELSE admit_control_code_request(taken, x)
       ELSE request_ticket_action_v3(taken, x, ~expired /\ granted)

-----------------------------------------------------------------------------
(* What a command's end does to the row it was carrying.                   *)

(* The payload of a failed or expired command has been scrubbed, so it no  *)
(* longer names an action; a vivi_reauth command is identified by its key. *)
Scrubbed == {"failed", "expired"}

InterruptedAction(d, a) ==
    IF d.action[a] \in LaneStatuses \cup {"queued"}
    THEN IF a \in Activations THEN "needs_attention" ELSE "failed"
    ELSE d.action[a]

(* Mutant: the ledger is given the action's own status.                    *)
HistoryTakesActionStatus(d, a) ==
    IF d.action[a] # "succeeded" /\ d.history[a] = "pending"
    THEN "needs_attention" ELSE d.history[a]

InterruptedHistory(d, a) ==
    IF d.action[a] # "succeeded" /\ d.history[a] = "pending"
    THEN "failed" ELSE d.history[a]

(* Mutant: the activation ledger is forgotten.                             *)
FailActionKeepHistory(d, ended) ==
    LET named == {a \in ended \cap Actions : d.command[a].status \notin Scrubbed}
    IN [d EXCEPT !.action = [a \in Actions |->
           IF a \in named THEN InterruptedAction(d, a) ELSE d.action[a]]]

(* fail_ticket_action_v3_for_command for every command in the set ended.   *)
fail_ticket_action_v3_for_command(d, ended) ==
    LET named == {a \in ended \cap Actions : d.command[a].status \notin Scrubbed}
    IN [d EXCEPT
          !.action = [a \in Actions |->
             IF a \in named THEN InterruptedAction(d, a) ELSE d.action[a]],
          !.history = [a \in Activations |->
             IF a \in named THEN InterruptedHistory(d, a) ELSE d.history[a]]]

vivi_reauth_interrupted_terminal_status(status) ==
    IF status = "running" THEN "needs_attention" ELSE "failed"

(* Mutant: a command ends and its re-authentication is not told.           *)
ForgetReauths(d, ended) == d

InterruptReauths(d, ended) ==
    [d EXCEPT !.attempt = [r \in Reauths |->
       IF r \in ended
       THEN [d.attempt[r] EXCEPT !.status = vivi_reauth_interrupted_terminal_status(@)]
       ELSE d.attempt[r]]]

UnfinishedReauths(d) ==
    {r \in Reauths : d.attempt[r].status \in LaneStatuses \cup {"queued"}}

(* The terminal half of update_stream_command_status: acknowledged, failed *)
(* or expired.  It ends in queue promotion.                                *)
update_stream_command_status(d, x, status, granted) ==
    LET interrupted ==
            InterruptReauths(fail_ticket_action_v3_for_command(d, {x}),
                             {x} \cap UnfinishedReauths(d))
        closed == [interrupted EXCEPT !.command[x] =
                     IF status = "acknowledged" THEN NoCommand
                     ELSE [status |-> status, ttl |-> KeepTTL]]
    IN IF d.command[x].status = "none" THEN d
       ELSE promote_ticket_action_v3_queue(closed, granted)

(* Mutant: a command the phone has taken over no longer expires.           *)
PurgeButNotDispatched(d, granted) ==
    LET ended == {x \in Ids : d.command[x].status \notin {"none", "dispatched"}
                              /\ d.command[x].ttl = 0}
        interrupted == InterruptReauths(fail_ticket_action_v3_for_command(d, ended),
                                        ended \cap UnfinishedReauths(d))
        dropped == [interrupted EXCEPT !.command =
                      [x \in Ids |-> IF x \in ended THEN NoCommand ELSE d.command[x]]]
    IN IF ended = {} THEN d ELSE promote_ticket_action_v3_queue(dropped, granted)

(* Every command whose time is up is dropped and its row is failed.  The   *)
(* re-authentication attempt is finished whatever its status is.           *)
purge_expired_stream_commands(d, granted) ==
    LET ended == {x \in Ids : d.command[x].status # "none" /\ d.command[x].ttl = 0}
        stored == {r \in Reauths : d.attempt[r].status # "none"}
        interrupted == InterruptReauths(fail_ticket_action_v3_for_command(d, ended),
                                        ended \cap stored)
        dropped == [interrupted EXCEPT !.command =
                      [x \in Ids |-> IF x \in ended THEN NoCommand ELSE d.command[x]]]
    IN IF ended = {} THEN d ELSE promote_ticket_action_v3_queue(dropped, granted)

(* Mutant: only the request's own, renewable expiry counts.                *)
ExpiredByRequestOnly(d, c) ==
    d.request[c].status # "none" /\ d.request[c].ttl = 0

(* A request is purged when it has expired or when its owner row, whose    *)
(* expiry is fixed at admission, has.                                      *)
ExpiredRequest(d, c) ==
    /\ d.request[c].status # "none"
    /\ d.request[c].ttl = 0 \/ (c \in d.seen /\ d.request[c].owner = 0)

(* Mutant: an expired intent stays in the slot.                            *)
PurgeKeepsIntent(d) ==
    [d EXCEPT !.request = [c \in Codes |->
                 IF ExpiredRequest(d, c) THEN NoRequest ELSE d.request[c]]]

purge_ticket_history(d) ==
    [d EXCEPT !.request = [c \in Codes |->
                 IF ExpiredRequest(d, c) THEN NoRequest ELSE d.request[c]],
              !.intent = IF @.ttl = 0 THEN NoIntent ELSE @]

cleanup_expired(d, granted) ==
    purge_ticket_history(purge_expired_stream_commands(d, granted))

(* Mutant: the queued attempt is overlooked.                               *)
CancelOnlyPending(d, granted) ==
    LET unstarted == {r \in Reauths : d.attempt[r].status = "pending"}
        fenced == [d EXCEPT
            !.command = [x \in Ids |-> IF x \in unstarted THEN NoCommand ELSE @[x]],
            !.attempt = [r \in Reauths |->
               IF r \in unstarted THEN [@[r] EXCEPT !.status = "failed"] ELSE @[r]]]
    IN IF unstarted = {} THEN d ELSE promote_ticket_action_v3_queue(fenced, granted)

(* The revocation fence for attempts the phone has not claimed.            *)
cancel_unstarted_vivi_reauth_for_owner(d, granted) ==
    LET unstarted == {r \in Reauths : d.attempt[r].status \in {"queued", "pending"}}
        fenced == [d EXCEPT
            !.intent = IF @.id \in unstarted THEN NoIntent ELSE @,
            !.command = [x \in Ids |-> IF x \in unstarted THEN NoCommand ELSE @[x]],
            !.attempt = [r \in Reauths |->
               IF r \in unstarted THEN [@[r] EXCEPT !.status = "failed"] ELSE @[r]]]
    IN IF unstarted = {} THEN d ELSE promote_ticket_action_v3_queue(fenced, granted)

-----------------------------------------------------------------------------
(* Member requests (ticketremote_member_command).                          *)

Received(x) == [Db EXCEPT !.receipt = @ \cup {x}]

(* Mutant: the receipt of an earlier command is not looked up.             *)
NewWithoutReceipt(x) == ~blocked

NewCommand(x) == x \notin receipt /\ ~blocked

RequestTicketAction(a, granted) ==
    /\ NewCommand(a) /\ a \notin Schedules
    /\ ~ticket_phone_mutation_lane_conflict(Db)
    /\ Commit(request_ticket_action_v3(Received(a), a, granted))

QueueTicketAction(a) ==
    /\ NewCommand(a) /\ a \notin Schedules
    /\ ticket_phone_mutation_lane_conflict(Db) /\ ~queue_is_full(Db)
    /\ Commit(queue_phone_intent(Received(a), a))

OwnerRequestViviReauth(r) ==
    /\ NewCommand(r) /\ owner /\ configured
    /\ ~ticket_phone_mutation_lane_conflict(Db)
    /\ Commit(admit_vivi_reauth(Received(r), r))

QueueViviReauth(r) ==
    /\ NewCommand(r) /\ owner /\ configured
    /\ ticket_phone_mutation_lane_conflict(Db) /\ ~queue_is_full(Db)
    /\ Commit(queue_phone_intent(Received(r), r))

RequestControlCode(c) ==
    /\ NewCommand(c)
    /\ ~ticket_phone_mutation_lane_conflict(Db)
    /\ Commit(admit_control_code_request(Received(c), c))

QueueControlCode(c) ==
    /\ NewCommand(c)
    /\ CodesInProgress(Db) = {}
    /\ ticket_phone_mutation_lane_conflict(Db) /\ ~queue_is_full(Db)
    /\ Commit(queue_phone_intent(Received(c), c))

(* The requester's browser has frozen the exact result frame.              *)
ConfirmBrowserCapture(c) ==
    /\ c \in seen /\ request[c].status = "succeeded"
    /\ ~request[c].acked /\ request[c].capture /\ request[c].result > 0
    /\ request' = [request EXCEPT ![c] =
          [@ EXCEPT !.capture = FALSE, !.acked = TRUE, !.done = FALSE, !.ttl = ResultTTL]]
    /\ UNCHANGED <<action, history, attempt, command, intent, receipt,
                   owner, revision, configured, blocked, seen>>

CloseControlCode(c) ==
    /\ c \in seen /\ request[c].status \in CodeProgress \cup {"succeeded"}
    /\ ~(request[c].status = "succeeded" /\ request[c].acked)
    /\ request' = [request EXCEPT ![c] =
          [@ EXCEPT !.status = "closed", !.capture = FALSE, !.cleanup = ~request[c].acked,
                    !.done = FALSE, !.result = 0, !.ttl = KeepTTL]]
    /\ UNCHANGED <<action, history, attempt, command, intent, receipt,
                   owner, revision, configured, blocked, seen>>

-----------------------------------------------------------------------------
(* Calls of the phone worker (service reducers).                           *)

AckStreamCommand(x, status, granted) ==
    /\ x \in seen /\ command[x].status # "none"
    /\ Commit(update_stream_command_status(Db, x, status, granted))

DispatchStreamCommand(x) ==
    /\ x \in seen /\ command[x].status = "pending"
    /\ command' = [command EXCEPT ![x] =
                     IF x \in Codes THEN NoCommand ELSE [@ EXCEPT !.status = "dispatched"]]
    /\ UNCHANGED <<action, history, attempt, request, intent, receipt,
                   owner, revision, configured, blocked, seen>>

(* A command of another kind (stream start or stop, key frame, browser     *)
(* capture) reaches a terminal status or expires.                          *)
OtherCommandSettled(granted) ==
    Commit(promote_ticket_action_v3_queue(Db, granted))

(* Mutant: a late progress report is applied to a finished action.         *)
UpdateFinishedAction(a, status) ==
    /\ a \in seen /\ action[a] # "none"
    /\ action' = [action EXCEPT ![a] = status]
    /\ UNCHANGED <<history, attempt, request, command, intent, receipt,
                   owner, revision, configured, blocked, seen>>

UpdateTicketAction(a, status) ==
    /\ a \in seen /\ action[a] \in LaneStatuses \cup {"queued"}
    /\ action' = [action EXCEPT ![a] = status]
    /\ UNCHANGED <<history, attempt, request, command, intent, receipt,
                   owner, revision, configured, blocked, seen>>

FinalizeTicketAction(a, status, granted) ==
    /\ a \in seen /\ action[a] \in LaneStatuses
    /\ command[a].status \in {"pending", "dispatched"}
    /\ a \in Activations => history[a] = "pending"
    /\ Commit(promote_ticket_action_v3_queue(
         [Db EXCEPT !.action[a] = status,
                    !.history = [h \in Activations |->
                       IF h # a THEN history[h]
                       ELSE IF status = "succeeded" THEN "succeeded" ELSE "failed"],
                    !.command[a] = NoCommand], granted))

(* The durable at-most-once claim of the physical login.                   *)
ClaimViviReauth(r) ==
    /\ r \in seen /\ attempt[r].status = "pending"
    /\ attempt' = [attempt EXCEPT ![r].status = "running"]
    /\ UNCHANGED <<action, history, request, command, intent, receipt,
                   owner, revision, configured, blocked, seen>>

FinishViviReauth(r, status, granted) ==
    /\ r \in seen /\ attempt[r].status = "running"
    /\ Commit(update_stream_command_status(
         [Db EXCEPT !.attempt[r].status = status], r, "acknowledged", granted))

Rank(status) ==
    CASE status = "queued" -> 1 [] status = "running" -> 2
      [] status = "generated" -> 3 [] status \in {"succeeded", "failed"} -> 4
      [] status \in {"closed", "expired"} -> 5 [] OTHER -> 0

control_code_status_update_allowed(current, incoming) ==
    IF current \in CodeFailures /\ incoming # current
    THEN incoming \in CodeFailures /\ Rank(incoming) >= Rank(current)
    ELSE Rank(incoming) >= Rank(current) /\ Rank(incoming) > 0

control_code_request_ttl_is_healthy(row) ==
    /\ 2 * row.ttl > KeepTTL
    /\ row.status = "succeeded" => 2 * row.result > ResultTTL

(* One report of the phone.  cleaning: its reason is one of the cleanup    *)
(* reasons, which keep a captured success and a failure as they are.       *)
UpdatedRequest(row, incoming, cleanup, cleaning) ==
    LET captured == /\ row.status = "succeeded" /\ row.acked /\ cleaning
                    /\ incoming \in {"succeeded", "closed"}
        failed == row.status \in CodeFailures /\ incoming = row.status /\ cleaning
        status == IF captured THEN "succeeded" ELSE incoming
    IN [row EXCEPT !.status = status,
                   !.capture = status = "succeeded" /\ ~row.acked,
                   !.cleanup = cleanup,
                   !.done = @ /\ (captured \/ failed),
                   !.result = IF row.acked THEN @
                              ELSE IF status = "succeeded" THEN ResultTTL ELSE 0,
                   !.ttl = IF status \in CodeFailures THEN KeepTTL ELSE RequestTTL]

SamePayload(left, right) ==
    /\ left.status = right.status /\ left.capture = right.capture
    /\ left.acked = right.acked /\ left.cleanup = right.cleanup
    /\ left.done = right.done

(* The rows the reports allowed in this state lead to.  A report that      *)
(* repeats the stored payload leaves a row with time to spare unwritten.   *)
ControlCodeUpdates(row) ==
    LET allowed == {s \in RequestStatuses : control_code_status_update_allowed(row.status, s)}
        reports == {UpdatedRequest(row, s, cleanup, cleaning) :
                      s \in allowed, cleanup \in BOOLEAN, cleaning \in BOOLEAN}
        repeats == \E next \in reports : SamePayload(row, next)
    IN IF repeats /\ control_code_request_ttl_is_healthy(row)
       THEN reports \cup {row} ELSE reports

UpdateControlCode(c, next, granted) ==
    LET stored == [Db EXCEPT !.request[c] = next]
    IN /\ c \in seen /\ request[c].status # "none"
       /\ Commit(IF next.status \in CodeProgress THEN stored
                 ELSE update_stream_command_status(stored, c, "acknowledged", granted))

CompleteControlCodeCleanup(c, granted) ==
    /\ c \in seen /\ request[c].acked /\ request[c].status \in {"succeeded", "closed"}
    /\ Commit(promote_ticket_action_v3_queue(
         [Db EXCEPT !.request[c] = [@ EXCEPT !.capture = FALSE, !.cleanup = FALSE,
                                             !.done = TRUE, !.ttl = ResultTTL]], granted))

-----------------------------------------------------------------------------
(* Timers of the database.                                                 *)

(* A due re-detection waits for the lane; a due activation-expiry reset,   *)
(* which exists once an activation has succeeded, does not look at it.     *)
TriggerScheduled(s) ==
    /\ s \in Schedules /\ action[s] = "none" /\ ~blocked
    /\ s \in Redetects => ~ticket_phone_mutation_lane_conflict(Db)
    /\ s \in Refreshes => \E a \in Activations : history[a] = "succeeded"
    /\ Commit(insert_stream_command([Db EXCEPT !.action[s] = "pending"], s))

CleanupExpired(granted) ==
    /\ Commit(cleanup_expired(Db, granted))

Countdown(n) == IF n > 0 THEN n - 1 ELSE 0

Tick ==
    /\ request' = [c \in Codes |-> [request[c] EXCEPT
          !.ttl = Countdown(@), !.owner = Countdown(@), !.result = Countdown(@)]]
    /\ command' = [x \in Ids |-> [command[x] EXCEPT !.ttl = Countdown(@)]]
    /\ intent' = [intent EXCEPT !.ttl = Countdown(@)]
    /\ UNCHANGED <<action, history, attempt, receipt, owner, revision,
                   configured, blocked, seen>>

-----------------------------------------------------------------------------
(* Authority: the owner role, the saved credential, the cold restart.      *)

RevokeOwner(granted) ==
    /\ owner
    /\ Commit(cancel_unstarted_vivi_reauth_for_owner([Db EXCEPT !.owner = FALSE], granted))

GrantOwner ==
    /\ ~owner /\ owner' = TRUE
    /\ UNCHANGED <<action, history, attempt, request, command, intent, receipt,
                   revision, configured, blocked, seen>>

(* Save (keep = TRUE) or clear the credential under a new revision.        *)
ReplaceViviCredentials(keep) ==
    /\ owner /\ ~ticket_has_live_vivi_reauth(Db) /\ revision < MaxRevision
    /\ revision' = revision + 1 /\ configured' = keep
    /\ UNCHANGED <<action, history, attempt, request, command, intent, receipt,
                   owner, blocked, seen>>

(* Mutant: the barrier is raised over work that is on the phone.           *)
BeginOverBusyLane ==
    /\ owner /\ ~blocked /\ intent.id = NoId
    /\ blocked' = TRUE
    /\ UNCHANGED <<action, history, attempt, request, command, intent, receipt,
                   owner, revision, configured, seen>>

BeginColdRestart ==
    /\ owner /\ ~blocked
    /\ ~ticket_phone_mutation_lane_conflict(Db) /\ intent.id = NoId
    /\ blocked' = TRUE
    /\ UNCHANGED <<action, history, attempt, request, command, intent, receipt,
                   owner, revision, configured, seen>>

(* The phases that release the barrier do not promote the queue.           *)
ReleaseColdRestart ==
    /\ blocked /\ blocked' = FALSE
    /\ UNCHANGED <<action, history, attempt, request, command, intent, receipt,
                   owner, revision, configured, seen>>

-----------------------------------------------------------------------------
Init ==
    /\ action = [a \in Actions |-> "none"]
    /\ history = [a \in Activations |-> "none"]
    /\ attempt = [r \in Reauths |-> NoAttempt]
    /\ request = [c \in Codes |-> NoRequest]
    /\ command = [x \in Ids |-> NoCommand]
    /\ intent = NoIntent
    /\ receipt = {} /\ seen = {}
    /\ owner = TRUE /\ revision = 0 /\ configured = FALSE /\ blocked = FALSE

MemberStep ==
    \/ \E a \in Actions : (\E granted \in BOOLEAN : RequestTicketAction(a, granted))
    \/ \E a \in Actions : QueueTicketAction(a)
    \/ \E r \in Reauths : OwnerRequestViviReauth(r) \/ QueueViviReauth(r)
    \/ \E c \in Codes : \/ RequestControlCode(c) \/ QueueControlCode(c)
                        \/ ConfirmBrowserCapture(c) \/ CloseControlCode(c)

(* What a promotion finds outside the lane's tables; without a queued      *)
(* intent there is none.                                                   *)
Verdicts == IF intent.id = NoId THEN {TRUE} ELSE BOOLEAN

PhoneStep ==
    \E granted \in Verdicts :
      \/ \E x \in Ids, status \in {"acknowledged", "failed", "expired"} :
            AckStreamCommand(x, status, granted)
      \/ \E a \in Actions, status \in Terminal : FinalizeTicketAction(a, status, granted)
      \/ \E r \in Reauths, status \in Terminal : FinishViviReauth(r, status, granted)
      \/ \E c \in Codes : \E next \in ControlCodeUpdates(request[c]) :
            UpdateControlCode(c, next, granted)
      \/ \E c \in Codes : CompleteControlCodeCleanup(c, granted)
      \/ OtherCommandSettled(granted)

PhoneProgress ==
    \/ \E x \in Ids : DispatchStreamCommand(x)
    \/ \E a \in Actions, status \in LaneStatuses : UpdateTicketAction(a, status)
    \/ \E r \in Reauths : ClaimViviReauth(r)

AuthorityStep ==
    \/ \E granted \in Verdicts : RevokeOwner(granted)
    \/ GrantOwner
    \/ \E keep \in BOOLEAN : ReplaceViviCredentials(keep)
    \/ BeginColdRestart
    \/ ReleaseColdRestart

Cleanup == \E granted \in Verdicts : CleanupExpired(granted)

Next ==
    \/ MemberStep
    \/ PhoneStep
    \/ PhoneProgress
    \/ AuthorityStep
    \/ \E s \in Actions : TriggerScheduled(s)
    \/ Cleanup
    \/ Tick

Spec == Init /\ [][Next]_vars

(* Time passes and the cleanup schedule (every 60 s) keeps firing; nothing *)
(* is assumed of members or of the phone.                                  *)
LiveSpec == Spec /\ WF_vars(Tick) /\ WF_vars(Cleanup)

-----------------------------------------------------------------------------
(* Types.                                                                  *)

DbType ==
    [action : [Actions -> ActionStatuses],
     history : [Activations -> HistoryOutcomes],
     attempt : [Reauths -> [status : ActionStatuses, revision : Nat]],
     request : [Codes -> RequestRow],
     command : [Ids -> [status : CommandStatuses, ttl : Nat]],
     intent : [id : Ids \cup {NoId}, ttl : Nat],
     receipt : SUBSET Ids, owner : BOOLEAN, revision : Nat,
     configured : BOOLEAN, blocked : BOOLEAN, seen : SUBSET Ids]

(* Every table holds rows of its own shape.                                *)
TypeOK == Db \in DbType

-----------------------------------------------------------------------------
(* Safety.                                                                 *)

(* A ticket action or re-authentication is admitted to the phone only when *)
(* the lane is free, on every path (direct, queued, scheduled), so two of  *)
(* them never hold it together.  The activation-expiry reset, which skips  *)
(* the lane check, is left out here: see LaneExclusive.                    *)
OneMutation(d) ==
    \A x, y \in (ActionsInProgress(d) \ Refreshes) \cup ReauthsInProgress(d) : x = y

OneMutationAtATime == OneMutation(Db)

(* Nothing can hold the lane, or wait for it, for ever: each such row has  *)
(* the command whose expiry will fail it (a placeholder while it waits).   *)
Backed(d) ==
    /\ \A a \in Actions :
         /\ d.action[a] \in LaneStatuses => d.command[a].status \in {"pending", "dispatched"}
         /\ d.action[a] = "queued" => d.command[a].status = "queued"
    /\ \A r \in Reauths :
         /\ d.attempt[r].status \in LaneStatuses =>
              d.command[r].status \in {"pending", "dispatched"}
         /\ d.attempt[r].status = "queued" => d.command[r].status = "queued"

HeldLaneHasACommand == Backed(Db)

(* The queue slot, the waiting row and the placeholder command are kept    *)
(* together by every reducer (queue_phone_intent writes the three at once; *)
(* promotion, revocation and cleanup each take them away in their own way).*)
IntentIsBacked ==
    intent.id # NoId =>
      /\ command[intent.id] = [status |-> "queued", ttl |-> intent.ttl]
      /\ intent.id \in Actions => action[intent.id] = "queued"
      /\ intent.id \in Reauths => attempt[intent.id].status = "queued"
      /\ intent.id \in Codes => request[intent.id].status = "queued"

(* An admitted activation is on the ledger as pending exactly while its    *)
(* action is unfinished, and as succeeded exactly when the action is: a    *)
(* lost result or an expired command never leaks a pending admission.      *)
Settled(d) ==
    \A a \in Activations :
       /\ d.history[a] = "pending" <=> d.action[a] \in LaneStatuses
       /\ d.history[a] = "succeeded" <=> d.action[a] = "succeeded"

HistoryMatchesAction == Settled(Db)

(* After an owner loses the role no re-authentication of theirs is waiting *)
(* or can still be claimed by the phone, wherever it was in the queue.     *)
Fenced(d) ==
    \A r \in Reauths : d.attempt[r].status \in {"queued", "pending"} => d.owner

RevocationFence == Fenced(Db)

(* The phone never logs in with a credential other than the one the owner  *)
(* confirmed: it cannot be replaced or cleared under a live attempt.       *)
Pinned(d) ==
    \A r \in Reauths : d.attempt[r].status \in LaneStatuses \cup {"queued"} =>
       d.configured /\ d.attempt[r].revision = d.revision

CredentialFence == Pinned(Db)

(* While a cold restart holds the barrier no action or re-authentication   *)
(* is on the phone and none is queued behind it.                           *)
Quiet(d) ==
    d.blocked => /\ ActionsInProgress(d) = {} /\ ReauthsInProgress(d) = {}
                 /\ d.intent.id = NoId

ColdRestartIsQuiet == Quiet(Db)

(* Two mutations never share the phone, and whatever holds or awaits the   *)
(* lane has the command whose expiry ends it.                              *)
LaneIsSafe == OneMutationAtATime /\ HeldLaneHasACommand

(* A re-authentication outlives neither its owner's role nor the           *)
(* credential it was confirmed for.                                        *)
ReauthIsFenced == RevocationFence /\ CredentialFence

(* The tables keep their shapes and the activation ledger agrees with the  *)
(* actions.                                                                *)
LedgerIsSound == TypeOK /\ HistoryMatchesAction

(* The queue slot stands for something that waits, and nothing is on the   *)
(* phone or in the slot behind a cold restart.                             *)
QueueIsSound == IntentIsBacked /\ ColdRestartIsQuiet

(* Whatever enters the lane finds it empty: right after an admission the   *)
(* admitted work is its only occupant, control-code requests included.     *)
SoleAdmission ==
    [][\A x \in Ids \ Refreshes : x \notin seen /\ x \in seen' => Occupants(Db)' = {x}]_vars

(* A command the phone has been shown is never issued a second time, also  *)
(* after its rows have been purged or its request is replayed.             *)
IssuedAtMostOnce ==
    [][\A x \in seen : command'[x].status \in {"queued", "pending"}
                         => command'[x].status = command[x].status]_vars

(* A ticket action's terminal result is never changed: not by a late or    *)
(* repeated report, a command expiry, a purge or a queue promotion.        *)
ActionResultIsFinal ==
    [][\A a \in Actions : action[a] \in Terminal => action'[a] = action[a]]_vars

-----------------------------------------------------------------------------
(* Liveness, with nothing assumed of the phone or of the members.          *)

(* Every admitted or queued ticket action and re-authentication reaches a  *)
(* terminal result, even if the phone never answers.                       *)
EveryRequestEnds ==
    /\ \A a \in Actions : action[a] \in LaneStatuses \cup {"queued"} ~> action[a] \in Terminal
    /\ \A r \in Reauths : attempt[r].status \in LaneStatuses \cup {"queued"}
                             ~> attempt[r].status \in Terminal

(* No control-code request keeps the lane, however often the phone renews  *)
(* it: the owner row's expiry is fixed at admission and takes it down.     *)
CodeLeavesTheLane ==
    \A c \in Codes : c \in CodesInProgress(Db) ~> c \notin CodesInProgress(Db)

(* Work ends, and once: a command is not issued again, a result is final,  *)
(* every request ends and a control code gives the lane back.              *)
WorkEndsOnce ==
    IssuedAtMostOnce /\ ActionResultIsFinal /\ EveryRequestEnds /\ CodeLeavesTheLane

-----------------------------------------------------------------------------
(* What the repository says and the code does not do.                      *)

(* README.md:58: every mutating target acquires the single phone-mutation  *)
(* lane.  With the activation-expiry reset this would be:                  *)
LaneExclusive == \A x, y \in ActionsInProgress(Db) \cup ReauthsInProgress(Db) : x = y

(* lib.rs:7373: the command is removed "so expiry cannot overwrite the     *)
(* owner-role terminal result later": a finished attempt keeps its result. *)
ReauthResultIsFinal ==
    [][\A r \in Reauths : attempt[r].status \in Terminal
          => attempt'[r].status = attempt[r].status]_vars

(* lib.rs:2365: reservation, status and placeholder are one transaction,   *)
(* and the intent is re-authorized when the lane becomes available: a      *)
(* queued control code that holds the lane waits in the slot or has been   *)
(* handed to the phone.                                                    *)
QueuedCodeIsReachable ==
    \A c \in CodesInProgress(Db) : c \in seen \/ intent.id = c

(* lib.rs:6149: late progress "must never revive or regress an already-    *)
(* settled request".                                                       *)
SettledCodeStaysSettled ==
    [][\A c \in Codes :
          request[c].done =>
             ~control_code_request_occupies_phone(request'[c])]_vars
=============================================================================
