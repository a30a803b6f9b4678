-------------------------- MODULE PhoneLaneProofs --------------------------
(***************************************************************************)
(* The safety invariants of PhoneLane, proved for every set of requests    *)
(* and every choice of time-outs.                                          *)
(*                                                                         *)
(* None of them is inductive alone.  IInv adds Provenance, which says      *)
(* where a command can have come from: one that the phone can know is in   *)
(* seen, a queued one is not, an identifier without a receipt has left no  *)
(* trace, and whatever is in the queue slot was never given to the phone.  *)
(* A reducer is a composition of table functions, so the proof follows the *)
(* functions: each one preserves IInv, and a step commits such a result.   *)
(*                                                                         *)
(* The queue slot has an invariant of its own, QueueBacked: the expired    *)
(* placeholder and the expired intent go in two halves of one cleanup, and *)
(* a waiting code must outlive its intent (CodeTTL < RequestTTL).          *)
(***************************************************************************)
EXTENDS PhoneLane, TLAPS

Provenance(d) ==
    /\ \A x \in Ids :
         /\ d.command[x].status \notin {"none", "queued"} => x \in d.seen
         /\ d.command[x].status = "queued" => x \notin d.seen
         /\ x \notin d.receipt /\ x \notin Schedules =>
              d.command[x].status = "none" /\ x \notin d.seen /\ d.intent.id # x
    /\ \A a \in Actions :
         /\ d.action[a] \in LaneStatuses \cup {"succeeded"} => a \in d.seen
         /\ a \in Schedules /\ d.action[a] = "none" =>
              d.command[a].status = "none" /\ a \notin d.seen
    /\ d.intent.id # NoId => d.intent.id \notin d.seen /\ d.intent.id \notin Schedules

(* Backed for every row but that of x, which is about to be rewritten.     *)
BackedBut(d, x) ==
    /\ \A a \in Actions \ {x} :
         /\ d.action[a] \in LaneStatuses => d.command[a].status \in {"pending", "dispatched"}
         /\ d.action[a] = "queued" => d.command[a].status = "queued"
    /\ \A r \in Reauths \ {x} :
         /\ d.attempt[r].status \in LaneStatuses =>
              d.command[r].status \in {"pending", "dispatched"}
         /\ d.attempt[r].status = "queued" => d.command[r].status = "queued"

Rest(d) ==
    /\ d \in DbType /\ Provenance(d) /\ OneMutation(d) /\ Settled(d)
    /\ Fenced(d) /\ Pinned(d) /\ Quiet(d)

IInv(d) == Rest(d) /\ Backed(d)

(* The lane is free for x, and x has never been given to the phone.        *)
Admissible(d, x) ==
    /\ Rest(d) /\ BackedBut(d, x) /\ ~d.blocked
    /\ d.command[x].status = "none" /\ x \notin d.seen /\ d.intent.id # x
    /\ x \in d.receipt \cup Schedules
    /\ x \in Refreshes \/ (ActionsInProgress(d) = {} /\ ReauthsInProgress(d) = {})

-----------------------------------------------------------------------------
(* Time-outs are natural numbers (TTLAssumption).                          *)
LEMMA TimeoutsAreNat ==
    /\ RequestTTL \in Nat /\ KeepTTL \in Nat /\ ResultTTL \in Nat
    /\ \A x \in Ids : CommandTTL(x) \in Nat
BY TTLAssumption DEF CommandTTL

(* request_ticket_action_v3: an admissible action is admitted with its     *)
(* command and ledger entry, or committed as failed.                       *)
LEMMA RequestActionInv ==
    ASSUME NEW d, NEW a \in Actions, NEW granted, Admissible(d, a)
    PROVE  IInv(request_ticket_action_v3(d, a, granted))
<1> DEFINE e == request_ticket_action_v3(d, a, granted)
<1>0. a \in Ids /\ CommandTTL(a) \in Nat /\ a \notin Reauths
  BY TimeoutsAreNat, IdAssumption DEF Ids
<1>1. CASE ~granted
  <2>1. /\ e \in DbType
        /\ e.action = [d.action EXCEPT ![a] = "failed"]
        /\ e.history = d.history /\ e.attempt = d.attempt /\ e.command = d.command
        /\ e.intent = d.intent /\ e.receipt = d.receipt /\ e.owner = d.owner
        /\ e.revision = d.revision /\ e.configured = d.configured
        /\ e.blocked = d.blocked /\ e.seen = d.seen
    BY <1>1 DEF request_ticket_action_v3, Admissible, Rest, DbType, ActionStatuses, Terminal
  <2> HIDE DEF e
  <2>2. Provenance(e)
    BY <2>1, <1>0 DEF Admissible, Rest, Provenance, DbType, LaneStatuses
  <2>3. OneMutation(e) /\ Quiet(e)
    BY <2>1 DEF Admissible, Rest, DbType, OneMutation, Quiet, ActionsInProgress, ReauthsInProgress, LaneStatuses
  <2>4. Settled(e)
    BY <2>1, IdAssumption DEF Admissible, Rest, DbType, Settled, Provenance, LaneStatuses
  <2>5. Fenced(e) /\ Pinned(e)
    BY <2>1 DEF Admissible, Rest, Fenced, Pinned
  <2>6. Backed(e)
    BY <2>1, <1>0 DEF Admissible, Rest, DbType, BackedBut, Backed, LaneStatuses
  <2>7. QED
    BY <2>1, <2>2, <2>3, <2>4, <2>5, <2>6 DEF IInv, Rest, e
<1>2. CASE granted
  <2>1. /\ e \in DbType
        /\ e.action = [d.action EXCEPT ![a] = "pending"]
        /\ e.history = [h \in Activations |-> IF h = a THEN "pending" ELSE d.history[h]]
        /\ e.attempt = d.attempt
        /\ e.command = [d.command EXCEPT ![a] = [status |-> "pending", ttl |-> CommandTTL(a)]]
        /\ e.intent = d.intent /\ e.receipt = d.receipt /\ e.owner = d.owner
        /\ e.revision = d.revision /\ e.configured = d.configured
        /\ e.blocked = d.blocked /\ e.seen = d.seen \cup {a}
    BY <1>0, <1>2 DEF request_ticket_action_v3, insert_stream_command, Admissible, Rest, DbType,
       ActionStatuses, LaneStatuses, HistoryOutcomes, CommandStatuses
  <2> HIDE DEF e
  <2>2. Provenance(e)
    BY <2>1, <1>0 DEF Admissible, Rest, Provenance, DbType, LaneStatuses
  <2>3. OneMutation(e) /\ Quiet(e)
    BY <2>1 DEF Admissible, Rest, DbType, OneMutation, Quiet, ActionsInProgress, ReauthsInProgress, LaneStatuses
  <2>4. Settled(e)
    BY <2>1, IdAssumption DEF Admissible, Rest, DbType, Settled, Provenance, LaneStatuses
  <2>5. Fenced(e) /\ Pinned(e)
    BY <2>1 DEF Admissible, Rest, Fenced, Pinned
  <2>6. Backed(e)
    BY <2>1, <1>0 DEF Admissible, Rest, DbType, BackedBut, Backed, LaneStatuses
  <2>7. QED
    BY <2>1, <2>2, <2>3, <2>4, <2>5, <2>6 DEF IInv, Rest, e
<1>3. QED
  BY <1>1, <1>2

(* admit_vivi_reauth: an admissible request of a current owner with a      *)
(* saved credential.                                                       *)
LEMMA AdmitReauthInv ==
    ASSUME NEW d, NEW r \in Reauths, Admissible(d, r), d.owner, d.configured
    PROVE  IInv(admit_vivi_reauth(d, r))
<1> DEFINE e == admit_vivi_reauth(d, r)
<1>0. r \in Ids /\ CommandTTL(r) \in Nat /\ r \notin Actions /\ r \notin Schedules
  BY TimeoutsAreNat, IdAssumption DEF Ids
<1>1. /\ e \in DbType
      /\ e.action = d.action /\ e.history = d.history
      /\ e.attempt = [d.attempt EXCEPT ![r] = [status |-> "pending", revision |-> d.revision]]
      /\ e.command = [d.command EXCEPT ![r] = [status |-> "pending", ttl |-> CommandTTL(r)]]
      /\ e.intent = d.intent /\ e.receipt = d.receipt /\ e.owner = d.owner
      /\ e.revision = d.revision /\ e.configured = d.configured
      /\ e.blocked = d.blocked /\ e.seen = d.seen \cup {r}
  BY <1>0 DEF admit_vivi_reauth, insert_stream_command, Admissible, Rest, DbType,
     ActionStatuses, LaneStatuses, CommandStatuses
<1> HIDE DEF e
<1>2. Provenance(e)
  BY <1>1, <1>0 DEF Admissible, Rest, Provenance, DbType, LaneStatuses
<1>3. OneMutation(e) /\ Quiet(e)
  BY <1>1, <1>0 DEF Admissible, Rest, DbType, OneMutation, Quiet, ActionsInProgress,
     ReauthsInProgress, LaneStatuses, Schedules
<1>4. Settled(e) /\ Fenced(e) /\ Pinned(e)
  BY <1>1 DEF Admissible, Rest, DbType, Settled, Fenced, Pinned
<1>5. Backed(e)
  BY <1>1, <1>0 DEF Admissible, Rest, DbType, BackedBut, Backed, LaneStatuses
<1>6. QED
  BY <1>1, <1>2, <1>3, <1>4, <1>5 DEF IInv, Rest, e

(* A request row is no part of IInv beyond its type.                       *)
LEMMA RequestRowInv ==
    ASSUME NEW d, IInv(d), NEW q \in [Codes -> RequestRow]
    PROVE  IInv([d EXCEPT !.request = q])
<1> DEFINE e == [d EXCEPT !.request = q]
<1>1. /\ e \in DbType
      /\ e.action = d.action /\ e.history = d.history /\ e.attempt = d.attempt
      /\ e.command = d.command
      /\ e.intent = d.intent /\ e.receipt = d.receipt /\ e.owner = d.owner
      /\ e.revision = d.revision /\ e.configured = d.configured
      /\ e.blocked = d.blocked /\ e.seen = d.seen
  BY DEF IInv, Rest, DbType
<1> HIDE DEF e
<1>2. IInv(e)
  BY <1>1 DEF IInv, Rest, Provenance, OneMutation, Quiet, ActionsInProgress,
     ReauthsInProgress, Settled, Fenced, Pinned, Backed
<1>3. QED
  BY <1>2 DEF e

(* The request rows that reducers write have their type.                   *)
LEMMA RequestRowTypes ==
    /\ NoRequest \in RequestRow
    /\ insert_control_code_public_request \in RequestRow
    /\ [insert_control_code_public_request EXCEPT !.owner = RequestTTL] \in RequestRow
    /\ [insert_control_code_public_request EXCEPT !.status = "failed", !.ttl = KeepTTL]
         \in RequestRow
BY TimeoutsAreNat DEF NoRequest, insert_control_code_public_request, RequestRow,
   RequestStatuses, CodeProgress, CodeFailures

(* admit_control_code_request: only the command is of consequence.         *)
LEMMA AdmitCodeInv ==
    ASSUME NEW d, NEW c \in Codes, IInv(d), d.command[c].status = "none",
           c \in d.receipt, d.intent.id # c
    PROVE  IInv(admit_control_code_request(d, c))
<1> DEFINE e == admit_control_code_request(d, c)
<1>0. c \in Ids /\ CommandTTL(c) \in Nat /\ c \notin Actions /\ c \notin Reauths
  BY TimeoutsAreNat, IdAssumption DEF Ids
<1>1. /\ e \in DbType
      /\ e.action = d.action /\ e.history = d.history /\ e.attempt = d.attempt
      /\ e.command = [d.command EXCEPT ![c] = [status |-> "pending", ttl |-> CommandTTL(c)]]
      /\ e.intent = d.intent /\ e.receipt = d.receipt /\ e.owner = d.owner
      /\ e.revision = d.revision /\ e.configured = d.configured
      /\ e.blocked = d.blocked /\ e.seen = d.seen \cup {c}
  BY <1>0, RequestRowTypes DEF admit_control_code_request, insert_stream_command, IInv, Rest,
     DbType, CommandStatuses
<1> HIDE DEF e
<1>2. Provenance(e)
  BY <1>1, <1>0 DEF IInv, Rest, Provenance, DbType
<1>3. OneMutation(e) /\ Quiet(e)
  BY <1>1 DEF IInv, Rest, OneMutation, Quiet, ActionsInProgress, ReauthsInProgress
<1>4. Settled(e) /\ Fenced(e) /\ Pinned(e)
  BY <1>1 DEF IInv, Rest, Settled, Fenced, Pinned
<1>5. Backed(e)
  BY <1>1, <1>0 DEF IInv, Rest, DbType, Backed
<1>6. QED
  BY <1>1, <1>2, <1>3, <1>4, <1>5 DEF IInv, Rest, e

(* queue_phone_intent: slot, waiting row and placeholder for a new id.     *)
LEMMA QueueInv ==
    ASSUME NEW d, NEW x \in Ids \ Schedules, IInv(d), ~d.blocked,
           x \in d.receipt, x \notin d.seen, d.command[x].status = "none",
           x \in Reauths => d.owner /\ d.configured
    PROVE  IInv(queue_phone_intent(d, x))
<1> DEFINE e == queue_phone_intent(d, x)
           placeholder == [status |-> "queued", ttl |-> CommandTTL(x)]
<1>0. /\ CommandTTL(x) \in Nat /\ x # NoId
      /\ x \in Actions => x \notin Reauths /\ x \notin Codes
      /\ x \in Reauths => x \notin Actions /\ x \notin Codes
      /\ x \in Codes => x \notin Actions /\ x \notin Reauths
      /\ x \in Actions \cup Reauths \cup Codes
  BY TimeoutsAreNat, IdAssumption DEF Ids
<1>1. /\ e \in DbType
      /\ e.action = IF x \in Actions THEN [d.action EXCEPT ![x] = "queued"] ELSE d.action
      /\ e.history = d.history
      /\ e.attempt = IF x \in Reauths
                     THEN [d.attempt EXCEPT ![x] = [status |-> "queued", revision |-> d.revision]]
                     ELSE d.attempt
      /\ e.command = [d.command EXCEPT ![x] = placeholder]
      /\ e.intent = [id |-> x, ttl |-> CommandTTL(x)]
      /\ e.receipt = d.receipt /\ e.owner = d.owner
      /\ e.revision = d.revision /\ e.configured = d.configured
      /\ e.blocked = d.blocked /\ e.seen = d.seen
  <2> USE DEF queue_phone_intent, IInv, Rest, DbType, ActionStatuses, CommandStatuses
  <2>1. CASE x \in Actions
    BY <2>1, <1>0
  <2>2. CASE x \in Reauths
    BY <2>2, <1>0
  <2>3. CASE x \in Codes
    BY <2>3, <1>0, RequestRowTypes
  <2>4. QED
    BY <1>0, <2>1, <2>2, <2>3
<1> HIDE DEF e
<1>2. Provenance(e)
  BY <1>1, <1>0 DEF IInv, Rest, Provenance, DbType, LaneStatuses
<1>3. OneMutation(e) /\ Quiet(e)
  BY <1>1, <1>0 DEF IInv, Rest, DbType, OneMutation, Quiet, ActionsInProgress,
     ReauthsInProgress, LaneStatuses
<1>4. Settled(e)
  BY <1>1, <1>0 DEF IInv, Rest, DbType, Settled, Provenance, LaneStatuses
<1>5. Fenced(e) /\ Pinned(e)
  BY <1>1, <1>0 DEF IInv, Rest, DbType, Fenced, Pinned
<1>6. Backed(e)
  BY <1>1, <1>0 DEF IInv, Rest, DbType, Backed, LaneStatuses
<1>7. QED
  BY <1>1, <1>2, <1>3, <1>4, <1>5, <1>6 DEF IInv, Rest, e

-----------------------------------------------------------------------------
(* promote_ticket_action_v3_queue: every way a promotion can end.          *)
LEMMA PromoteInv ==
    ASSUME NEW d, IInv(d), NEW granted
    PROVE  IInv(promote_ticket_action_v3_queue(d, granted))
<1> DEFINE x == d.intent.id
           taken == [d EXCEPT !.intent = NoIntent, !.command[x] = NoCommand]
           ignored == IF x \in Codes THEN x ELSE NoId
           e == promote_ticket_action_v3_queue(d, granted)
<1>1. CASE d.blocked \/ x = NoId \/ ticket_phone_mutation_lane_conflict_ignoring(d, ignored)
  BY <1>1 DEF promote_ticket_action_v3_queue
<1>2. CASE ~(d.blocked \/ x = NoId \/ ticket_phone_mutation_lane_conflict_ignoring(d, ignored))
  <2>1. /\ x \in Ids /\ x \in d.receipt /\ x \notin d.seen /\ x \notin Schedules
        /\ ~d.blocked
        /\ ActionsInProgress(d) = {} /\ ReauthsInProgress(d) = {}
    <3>1. x \in Ids /\ ~d.blocked
      BY <1>2 DEF IInv, Rest, DbType
    <3>2. x \in d.receipt /\ x \notin d.seen /\ x \notin Schedules
      BY <1>2, <3>1 DEF IInv, Rest, Provenance
    <3>3. ActionsInProgress(d) = {} /\ ReauthsInProgress(d) = {}
      BY <1>2, IdAssumption DEF ticket_phone_mutation_lane_conflict_ignoring, Occupants,
         ActionsInProgress, ReauthsInProgress, Ids
    <3>4. QED
      BY <3>1, <3>2, <3>3
  <2>2. /\ taken \in DbType
        /\ taken.action = d.action /\ taken.history = d.history /\ taken.attempt = d.attempt
        /\ taken.command = [d.command EXCEPT ![x] = NoCommand]
        /\ taken.intent = NoIntent
        /\ taken.receipt = d.receipt /\ taken.owner = d.owner
        /\ taken.revision = d.revision /\ taken.configured = d.configured
        /\ taken.blocked = d.blocked /\ taken.seen = d.seen
    BY <2>1 DEF IInv, Rest, DbType, NoIntent, NoCommand, CommandStatuses
  <2>3. NoIntent.id = NoId /\ NoCommand.status = "none" /\ NoId \notin Ids
    BY IdAssumption DEF NoIntent, NoCommand
  <2>4. Rest(taken) /\ BackedBut(taken, x)
    <3> HIDE DEF taken
    <3>1. Provenance(taken)
      BY <2>1, <2>2, <2>3 DEF IInv, Rest, Provenance, DbType
    <3>2. OneMutation(taken) /\ Quiet(taken) /\ Settled(taken) /\ Fenced(taken) /\ Pinned(taken)
      BY <2>2, <2>3 DEF IInv, Rest, OneMutation, Quiet, ActionsInProgress, ReauthsInProgress,
         Settled, Fenced, Pinned
    <3>3. BackedBut(taken, x)
      BY <2>1, <2>2 DEF IInv, Rest, Backed, BackedBut, DbType, Ids
    <3>4. QED
      BY <2>2, <3>1, <3>2, <3>3 DEF Rest
  <2>5. Admissible(taken, x)
    <3>1. /\ taken.command[x].status = "none" /\ taken.intent.id # x
          /\ ActionsInProgress(taken) = {} /\ ReauthsInProgress(taken) = {}
      BY <2>1, <2>2, <2>3 DEF IInv, Rest, DbType, ActionsInProgress, ReauthsInProgress
    <3>2. QED
      BY <2>1, <2>2, <2>4, <3>1 DEF Admissible
  <2>6. CASE x \in Reauths
    <3>0. x \notin Actions /\ x \notin Codes
      BY <2>6, IdAssumption
    <3>1. CASE d.attempt[x].status = "none"
      <4>1. Backed(taken)
        BY <2>2, <2>4, <3>0, <3>1 DEF BackedBut, Backed, LaneStatuses
      <4>2. e = taken
        BY <1>2, <2>6, <3>1 DEF promote_ticket_action_v3_queue
      <4>3. QED
        BY <2>4, <4>1, <4>2 DEF IInv
    <3>2. CASE d.attempt[x].status # "none" /\ e = [taken EXCEPT !.attempt[x].status = "failed"]
      <4>1. /\ e \in DbType
            /\ e.action = d.action /\ e.history = d.history
            /\ e.attempt = [d.attempt EXCEPT ![x].status = "failed"]
            /\ e.command = taken.command
            /\ e.intent = taken.intent /\ e.receipt = d.receipt /\ e.owner = d.owner
            /\ e.revision = d.revision /\ e.configured = d.configured
            /\ e.blocked = d.blocked /\ e.seen = d.seen
        <5> HIDE DEF taken, e
        <5>1. [d.attempt EXCEPT ![x].status = "failed"]
                \in [Reauths -> [status : ActionStatuses, revision : Nat]]
          BY <2>6 DEF IInv, Rest, DbType, ActionStatuses, Terminal
        <5>2. e = [taken EXCEPT !.attempt = [d.attempt EXCEPT ![x].status = "failed"]]
          BY <2>2, <3>2
        <5>3. QED
          BY <2>2, <5>1, <5>2 DEF DbType
      <4>2. d.attempt \in [Reauths -> [status : ActionStatuses, revision : Nat]]
        BY DEF IInv, Rest, DbType
      <4> HIDE DEF taken, e
      <4>3. Provenance(e)
        BY <4>1, <2>2, <2>4 DEF Rest, Provenance
      <4>4. OneMutation(e) /\ Quiet(e)
        BY <4>1, <4>2, <2>2, <2>4 DEF Rest, OneMutation, Quiet, ActionsInProgress,
           ReauthsInProgress, LaneStatuses
      <4>5. Settled(e) /\ Fenced(e) /\ Pinned(e)
        BY <4>1, <4>2, <2>2, <2>4 DEF Rest, Settled, Fenced, Pinned, LaneStatuses
      <4>6. Backed(e)
        BY <4>1, <4>2, <2>2, <2>4, <3>0 DEF Rest, Backed, BackedBut, LaneStatuses
      <4>7. QED
        BY <4>1, <4>3, <4>4, <4>5, <4>6 DEF IInv, Rest, e
    <3>3. CASE d.attempt[x].status # "none" /\ d.owner /\ d.configured
               /\ e = admit_vivi_reauth(taken, x)
      <4>1. taken.owner /\ taken.configured
        BY <2>2, <3>3
      <4>2. IInv(admit_vivi_reauth(taken, x))
        BY <2>5, <2>6, <4>1, AdmitReauthInv
      <4>3. QED
        BY <3>3, <4>2
    <3>4. QED
      BY <1>2, <2>6, <3>1, <3>2, <3>3 DEF promote_ticket_action_v3_queue
  <2>7. CASE x \in Codes
    <3>0. x \notin Actions /\ x \notin Reauths
      BY <2>7, IdAssumption
    <3>1. IInv(taken)
      BY <2>2, <2>4, <3>0 DEF IInv, BackedBut, Backed
    <3>2. IInv(finish_queued_control_code_request(taken, x))
      <4> DEFINE row == [insert_control_code_public_request EXCEPT !.status = "failed", !.ttl = KeepTTL]
                 q == [taken.request EXCEPT ![x] = row]
      <4>1. q \in [Codes -> RequestRow]
        BY <2>2, <2>7, RequestRowTypes DEF DbType
      <4>2. IInv([taken EXCEPT !.request = q])
        BY <3>1, <4>1, RequestRowInv
      <4>3. QED
        BY <4>2 DEF finish_queued_control_code_request
    <3>3. IInv(admit_control_code_request(taken, x))
      BY <2>1, <2>2, <2>5, <2>7, <3>1, AdmitCodeInv DEF Admissible
    <3>4. QED
      BY <1>2, <2>7, <3>0, <3>2, <3>3 DEF promote_ticket_action_v3_queue
  <2>8. CASE x \in Actions
    <3>1. x \notin Reauths /\ x \notin Codes
      BY <2>8, IdAssumption
    <3>2. IInv(request_ticket_action_v3(taken, x, d.intent.ttl # 0 /\ granted))
      BY <2>5, <2>8, RequestActionInv
    <3>3. QED
      BY <1>2, <3>1, <3>2 DEF promote_ticket_action_v3_queue
  <2>9. QED
    BY <2>1, <2>6, <2>7, <2>8 DEF Ids
<1>3. QED
  BY <1>1, <1>2

-----------------------------------------------------------------------------
(* The commands in ended are closed (kept with a terminal status, or       *)
(* dropped), their actions are failed and the attempts in reauths          *)
(* interrupted, which takes in every unfinished one that had a command.    *)
LEMMA InterruptInv ==
    ASSUME NEW d, IInv(d), NEW ended \in SUBSET Ids, NEW reauths \in SUBSET ended,
           NEW c \in [Ids -> [status : CommandStatuses, ttl : Nat]],
           ended \cap UnfinishedReauths(d) \subseteq reauths,
           reauths \subseteq Reauths,
           \A x \in Ids : /\ x \notin ended => c[x] = d.command[x]
                          /\ x \in ended => /\ d.command[x].status # "none"
                                            /\ c[x].status \in {"none", "failed", "expired"}
                                            /\ c[x].status # "none" => x \in d.seen
    PROVE  IInv([InterruptReauths(fail_ticket_action_v3_for_command(d, ended), reauths)
                   EXCEPT !.command = c])
<1> DEFINE f == fail_ticket_action_v3_for_command(d, ended)
           e == [InterruptReauths(f, reauths) EXCEPT !.command = c]
           named == {a \in ended \cap Actions : d.command[a].status \notin Scrubbed}
           acts == [a \in Actions |-> IF a \in named THEN InterruptedAction(d, a) ELSE d.action[a]]
           hist == [a \in Activations |->
                      IF a \in named THEN InterruptedHistory(d, a) ELSE d.history[a]]
           atts == [r \in Reauths |->
                      IF r \in reauths
                      THEN [d.attempt[r] EXCEPT !.status = vivi_reauth_interrupted_terminal_status(@)]
                      ELSE d.attempt[r]]
<1>1. /\ acts \in [Actions -> ActionStatuses]
      /\ hist \in [Activations -> HistoryOutcomes]
  BY DEF IInv, Rest, DbType, InterruptedAction, InterruptedHistory, ActionStatuses, Terminal,
     HistoryOutcomes
<1>2. /\ atts \in [Reauths -> [status : ActionStatuses, revision : Nat]]
      /\ \A r \in Reauths :
           /\ r \in reauths => atts[r].status \in {"failed", "needs_attention"}
           /\ r \notin reauths => atts[r] = d.attempt[r]
           /\ atts[r].revision = d.attempt[r].revision
  BY DEF IInv, Rest, DbType, vivi_reauth_interrupted_terminal_status, ActionStatuses, Terminal
<1>3. \A a \in Actions :
        /\ a \in named => acts[a] = InterruptedAction(d, a)
        /\ a \notin named => acts[a] = d.action[a]
        /\ acts[a] \in {d.action[a], "failed", "needs_attention"}
        /\ acts[a] # d.action[a] => d.action[a] \in LaneStatuses \cup {"queued"}
  BY DEF InterruptedAction
<1>4. /\ f.attempt = d.attempt
      /\ InterruptReauths(f, reauths) = [f EXCEPT !.attempt = atts]
  BY DEF fail_ticket_action_v3_for_command, InterruptReauths
<1>5. /\ e \in DbType
      /\ e.action = acts /\ e.history = hist /\ e.attempt = atts /\ e.command = c
      /\ e.intent = d.intent /\ e.receipt = d.receipt /\ e.owner = d.owner
      /\ e.revision = d.revision /\ e.configured = d.configured
      /\ e.blocked = d.blocked /\ e.seen = d.seen
  <2>1. f = [d EXCEPT !.action = acts, !.history = hist]
    BY DEF fail_ticket_action_v3_for_command
  <2> HIDE DEF f, acts, hist, atts
  <2>2. e = [d EXCEPT !.action = acts, !.history = hist, !.attempt = atts, !.command = c]
    BY <1>4, <2>1
  <2> HIDE DEF e
  <2>3. d \in DbType
    BY DEF IInv, Rest
  <2>4. e \in DbType
    BY <1>1, <1>2, <2>2, <2>3 DEF DbType
  <2>5. e.action = acts /\ e.history = hist /\ e.attempt = atts /\ e.command = c
    BY <2>2, <2>3 DEF DbType
  <2>6. /\ e.intent = d.intent /\ e.receipt = d.receipt /\ e.owner = d.owner
        /\ e.revision = d.revision /\ e.configured = d.configured
        /\ e.blocked = d.blocked /\ e.seen = d.seen
    BY <2>2, <2>3 DEF DbType
  <2>7. QED
    BY <2>4, <2>5, <2>6
<1>6. \A a \in Actions : a \in ended => acts[a] \notin LaneStatuses \cup {"queued"}
  BY <1>3 DEF IInv, Backed, InterruptedAction, Scrubbed, LaneStatuses
<1>7. \A r \in Reauths : r \in ended => atts[r].status \notin LaneStatuses \cup {"queued"}
  BY <1>2 DEF UnfinishedReauths, LaneStatuses
<1>8. Settled(e)
  <2> HIDE DEF e
  <2>1. SUFFICES ASSUME NEW a \in Activations
                 PROVE  /\ hist[a] = "pending" <=> acts[a] \in LaneStatuses
                        /\ hist[a] = "succeeded" <=> acts[a] = "succeeded"
    BY <1>5 DEF Settled
  <2>2. a \in Actions
    BY IdAssumption
  <2>3. CASE a \in named
    BY <2>2, <2>3, <1>3 DEF IInv, Rest, Settled, InterruptedAction, InterruptedHistory, LaneStatuses
  <2>4. CASE a \notin named
    BY <2>2, <2>4, <1>3 DEF IInv, Rest, Settled
  <2>5. QED
    BY <2>3, <2>4
<1> HIDE DEF e, acts, hist, atts, named, f
<1>9. Provenance(e)
  <2>1. \A x \in Ids :
         /\ c[x].status \notin {"none", "queued"} => x \in d.seen
         /\ c[x].status = "queued" => x \notin d.seen
         /\ x \notin d.receipt /\ x \notin Schedules =>
              c[x].status = "none" /\ x \notin d.seen /\ d.intent.id # x
    BY DEF IInv, Rest, Provenance
  <2>2. \A a \in Actions : acts[a] \in LaneStatuses \cup {"succeeded"} => a \in d.seen
    BY <1>3 DEF IInv, Rest, Provenance, LaneStatuses
  <2>3. \A a \in Actions : a \in Schedules /\ acts[a] = "none" => c[a].status = "none" /\ a \notin d.seen
    BY <1>3 DEF IInv, Rest, Provenance, Ids
  <2>4. QED
    BY <1>5, <2>1, <2>2, <2>3 DEF IInv, Rest, Provenance
<1>10. /\ ActionsInProgress(e) \subseteq ActionsInProgress(d)
       /\ ReauthsInProgress(e) \subseteq ReauthsInProgress(d)
  BY <1>2, <1>3, <1>5 DEF ActionsInProgress, ReauthsInProgress, LaneStatuses
<1>11. OneMutation(e) /\ Quiet(e)
  BY <1>5, <1>10 DEF IInv, Rest, OneMutation, Quiet
<1>12. Fenced(e) /\ Pinned(e)
  BY <1>2, <1>5 DEF IInv, Rest, Fenced, Pinned, LaneStatuses
<1>13. Backed(e)
  BY <1>2, <1>3, <1>5, <1>6, <1>7 DEF IInv, Backed, LaneStatuses, Ids
<1>14. QED
  BY <1>5, <1>8, <1>9, <1>11, <1>12, <1>13 DEF IInv, Rest, e, f

(* update_stream_command_status, for a command the phone knows.            *)
LEMMA UpdateStatusInv ==
    ASSUME NEW d, IInv(d), NEW x \in Ids, x \in d.seen, NEW granted,
           NEW status \in {"acknowledged", "failed", "expired"}
    PROVE  IInv(update_stream_command_status(d, x, status, granted))
<1> DEFINE f == InterruptReauths(fail_ticket_action_v3_for_command(d, {x}),
                                 {x} \cap UnfinishedReauths(d))
           row == IF status = "acknowledged" THEN NoCommand
                  ELSE [status |-> status, ttl |-> KeepTTL]
           c == [d.command EXCEPT ![x] = row]
<1>1. CASE d.command[x].status = "none"
  BY <1>1 DEF update_stream_command_status
<1>2. CASE d.command[x].status # "none"
  <2>1. /\ row \in [status : CommandStatuses, ttl : Nat]
        /\ row.status \in {"none", "failed", "expired"}
    BY TimeoutsAreNat DEF NoCommand, CommandStatuses
  <2>2. /\ c \in [Ids -> [status : CommandStatuses, ttl : Nat]]
        /\ \A y \in Ids : c[y] = IF y = x THEN row ELSE d.command[y]
    BY <2>1 DEF IInv, Rest, DbType
  <2>3. f.command = d.command
    BY DEF InterruptReauths, fail_ticket_action_v3_for_command
  <2>4. [f EXCEPT !.command[x] = row] = [f EXCEPT !.command = c]
    BY <2>3
  <2>5. IInv([f EXCEPT !.command = c])
    <3> HIDE DEF row, c
    <3>1. {x} \in SUBSET Ids /\ {x} \cap UnfinishedReauths(d) \in SUBSET {x}
          /\ {x} \cap UnfinishedReauths(d) \subseteq Reauths
      BY DEF UnfinishedReauths
    <3>2. QED
      BY <1>2, <2>1, <2>2, <3>1, InterruptInv
  <2>6. IInv(promote_ticket_action_v3_queue([f EXCEPT !.command[x] = row], granted))
    BY <2>4, <2>5, PromoteInv
  <2>7. QED
    BY <1>2, <2>6 DEF update_stream_command_status
<1>3. QED
  BY <1>1, <1>2

(* cleanup_expired: commands, then requests and the queue slot.            *)
LEMMA PurgeCommandsInv ==
    ASSUME NEW d, IInv(d), NEW granted
    PROVE  IInv(purge_expired_stream_commands(d, granted))
<1> DEFINE ended == {x \in Ids : d.command[x].status # "none" /\ d.command[x].ttl = 0}
           stored == {r \in Reauths : d.attempt[r].status # "none"}
           f == InterruptReauths(fail_ticket_action_v3_for_command(d, ended), ended \cap stored)
           c == [x \in Ids |-> IF x \in ended THEN NoCommand ELSE d.command[x]]
<1>1. c \in [Ids -> [status : CommandStatuses, ttl : Nat]]
  BY DEF IInv, Rest, DbType, NoCommand, CommandStatuses
<1>2. /\ ended \in SUBSET Ids /\ ended \cap stored \in SUBSET ended
      /\ ended \cap stored \subseteq Reauths
      /\ ended \cap UnfinishedReauths(d) \subseteq ended \cap stored
      /\ \A x \in Ids : /\ x \notin ended => c[x] = d.command[x]
                        /\ x \in ended => d.command[x].status # "none" /\ c[x].status = "none"
  BY DEF UnfinishedReauths, LaneStatuses, NoCommand
<1>3. IInv([f EXCEPT !.command = c])
  <2> HIDE DEF ended, stored, c
  <2>1. QED
    BY <1>1, <1>2, InterruptInv
<1>4. IInv(promote_ticket_action_v3_queue([f EXCEPT !.command = c], granted))
  BY <1>3, PromoteInv
<1>5. QED
  BY <1>4 DEF purge_expired_stream_commands

(* cleanup_expired: expired commands first, then expired rows and intent.  *)
LEMMA CleanupInv ==
    ASSUME NEW d, IInv(d), NEW granted
    PROVE  IInv(cleanup_expired(d, granted))
<1> DEFINE p == purge_expired_stream_commands(d, granted)
           e == purge_ticket_history(p)
<1>1. IInv(p)
  BY PurgeCommandsInv
<1> HIDE DEF p
<1>2. /\ e \in DbType
      /\ e.action = p.action /\ e.history = p.history /\ e.attempt = p.attempt
      /\ e.command = p.command
      /\ e.intent \in {p.intent, NoIntent} /\ e.receipt = p.receipt /\ e.owner = p.owner
      /\ e.revision = p.revision /\ e.configured = p.configured
      /\ e.blocked = p.blocked /\ e.seen = p.seen
  BY <1>1, RequestRowTypes DEF purge_ticket_history, IInv, Rest, DbType, NoIntent
<1>3. NoIntent.id = NoId /\ NoId \notin Ids
  BY IdAssumption DEF NoIntent
<1> HIDE DEF e
<1>4. IInv(e)
  BY <1>1, <1>2, <1>3 DEF IInv, Rest, Provenance, OneMutation, Quiet, ActionsInProgress,
     ReauthsInProgress, Settled, Fenced, Pinned, Backed
<1>5. QED
  BY <1>4 DEF cleanup_expired, e, p

(* The owner loses the role: cancel_unstarted_vivi_reauth_for_owner        *)
(* restores the fence that the loss alone would break.                     *)
LEMMA CancelInv ==
    ASSUME NEW d, IInv(d), NEW granted
    PROVE  IInv(cancel_unstarted_vivi_reauth_for_owner([d EXCEPT !.owner = FALSE], granted))
<1> DEFINE o == [d EXCEPT !.owner = FALSE]
           unstarted == {r \in Reauths : o.attempt[r].status \in {"queued", "pending"}}
           atts == [r \in Reauths |->
               IF r \in unstarted THEN [o.attempt[r] EXCEPT !.status = "failed"] ELSE o.attempt[r]]
           e == [o EXCEPT
            !.intent = IF @.id \in unstarted THEN NoIntent ELSE @,
            !.command = [x \in Ids |-> IF x \in unstarted THEN NoCommand ELSE @[x]],
            !.attempt = [r \in Reauths |->
               IF r \in unstarted THEN [@[r] EXCEPT !.status = "failed"] ELSE @[r]]]
<1>0. /\ o \in DbType
      /\ o.action = d.action /\ o.history = d.history /\ o.attempt = d.attempt
      /\ o.command = d.command
      /\ o.intent = d.intent /\ o.receipt = d.receipt /\ o.owner = FALSE
      /\ o.revision = d.revision /\ o.configured = d.configured
      /\ o.blocked = d.blocked /\ o.seen = d.seen
  BY DEF IInv, Rest, DbType
<1>1. CASE unstarted = {}
  <2>1. Fenced(o)
    BY <1>0, <1>1 DEF Fenced
  <2> HIDE DEF o
  <2>2. IInv(o)
    BY <1>0, <2>1 DEF IInv, Rest, Provenance, OneMutation, Quiet, ActionsInProgress,
       ReauthsInProgress, Settled, Pinned, Backed
  <2>3. QED
    BY <1>1, <2>2 DEF cancel_unstarted_vivi_reauth_for_owner, o
<1>2. CASE unstarted # {}
  <2>1. /\ NoIntent.id = NoId /\ NoId \notin Ids /\ NoCommand.status = "none"
        /\ \A r \in Reauths : r \in Ids /\ r \notin Actions
    BY IdAssumption DEF NoIntent, NoCommand, Ids
  <2>2. /\ atts \in [Reauths -> [status : ActionStatuses, revision : Nat]]
        /\ \A r \in Reauths :
             /\ atts[r].status \in {d.attempt[r].status, "failed"}
             /\ atts[r].status \notin {"queued", "pending"}
             /\ r \in unstarted => atts[r].status = "failed"
             /\ atts[r].revision = d.attempt[r].revision
    BY <1>0 DEF DbType, ActionStatuses, Terminal
  <2>3. /\ e \in DbType
        /\ e.action = d.action /\ e.history = d.history /\ e.attempt = atts
        /\ e.command = [x \in Ids |-> IF x \in unstarted THEN NoCommand ELSE d.command[x]]
        /\ e.intent \in {d.intent, NoIntent} /\ e.receipt = d.receipt /\ e.owner = FALSE
        /\ e.revision = d.revision /\ e.configured = d.configured
        /\ e.blocked = d.blocked /\ e.seen = d.seen
    <3> HIDE DEF o, unstarted
    <3>1. [x \in Ids |-> IF x \in unstarted THEN NoCommand ELSE d.command[x]]
            \in [Ids -> [status : CommandStatuses, ttl : Nat]]
      BY <1>0 DEF DbType, NoCommand, CommandStatuses
    <3>2. NoIntent \in [id : Ids \cup {NoId}, ttl : Nat]
      BY DEF NoIntent
    <3>3. QED
      BY <1>0, <2>2, <3>1, <3>2 DEF DbType
  <2>4. unstarted \subseteq Reauths
    OBVIOUS
  <2> HIDE DEF e, o, atts, unstarted
  <2>5. Provenance(e)
    BY <2>1, <2>3, <2>4 DEF IInv, Rest, Provenance, Ids
  <2>6. /\ ActionsInProgress(e) = ActionsInProgress(d)
        /\ ReauthsInProgress(e) \subseteq ReauthsInProgress(d)
    BY <2>2, <2>3 DEF ActionsInProgress, ReauthsInProgress, LaneStatuses
  <2>7. OneMutation(e) /\ Quiet(e)
    BY <2>1, <2>3, <2>6 DEF IInv, Rest, OneMutation, Quiet
  <2>8. Settled(e) /\ Fenced(e) /\ Pinned(e)
    BY <2>2, <2>3 DEF IInv, Rest, Settled, Fenced, Pinned, LaneStatuses
  <2>9. Backed(e)
    BY <2>1, <2>2, <2>3, <2>4 DEF IInv, Backed, LaneStatuses, Ids
  <2>10. IInv(promote_ticket_action_v3_queue(e, granted))
    BY <2>3, <2>5, <2>7, <2>8, <2>9, PromoteInv DEF IInv, Rest
  <2>11. QED
    BY <1>2, <2>10 DEF cancel_unstarted_vivi_reauth_for_owner, o, e, unstarted
<1>3. QED
  BY <1>1, <1>2

-----------------------------------------------------------------------------
(* Steps.  A transaction commits the tables it computed.                   *)
LEMMA CommitInv ==
    ASSUME NEW t, IInv(t), Commit(t)
    PROVE  IInv(Db)'
<1>1. Db' = t
  BY DEF Commit, Db, IInv, Rest, DbType
<1>2. QED
  BY <1>1

(* A new command id is recorded; nothing is known of it yet.               *)
LEMMA ReceivedInv ==
    ASSUME IInv(Db), NEW x \in Ids \ Schedules, NewCommand(x)
    PROVE  /\ IInv(Received(x)) /\ x \in Received(x).receipt
           /\ x \notin Received(x).seen /\ Received(x).command[x].status = "none"
           /\ Received(x).intent.id # x /\ ~Received(x).blocked
           /\ Received(x).owner = owner /\ Received(x).configured = configured
           /\ ~ticket_phone_mutation_lane_conflict(Db) => Admissible(Received(x), x)
<1> DEFINE d == Db
           e == Received(x)
<1>1. /\ e \in DbType
      /\ e.action = d.action /\ e.history = d.history /\ e.attempt = d.attempt
      /\ e.command = d.command /\ e.intent = d.intent
      /\ e.receipt = d.receipt \cup {x} /\ e.owner = d.owner
      /\ e.revision = d.revision /\ e.configured = d.configured
      /\ e.blocked = d.blocked /\ e.seen = d.seen
  BY DEF IInv, Rest, DbType, Received, Db
<1>2. /\ x \notin d.receipt /\ ~d.blocked /\ d.owner = owner /\ d.configured = configured
  BY DEF NewCommand, Db
<1>3. ~ticket_phone_mutation_lane_conflict(d) =>
        ActionsInProgress(d) = {} /\ ReauthsInProgress(d) = {}
  BY IdAssumption DEF ticket_phone_mutation_lane_conflict, ActionsInProgress, ReauthsInProgress,
     ticket_phone_mutation_lane_conflict_ignoring, Occupants, Ids
<1> HIDE DEF d, e
<1>4. IInv(d)
  BY DEF d
<1>5. d.command[x].status = "none" /\ x \notin d.seen /\ d.intent.id # x
  BY <1>2, <1>4 DEF IInv, Rest, Provenance
<1>6. Rest(e) /\ Backed(e) /\ BackedBut(e, x)
  BY <1>1, <1>4 DEF IInv, Rest, Provenance, OneMutation, Quiet, ActionsInProgress,
     ReauthsInProgress, Settled, Fenced, Pinned, Backed, BackedBut
<1>7. ~ticket_phone_mutation_lane_conflict(d) => Admissible(e, x)
  BY <1>1, <1>2, <1>3, <1>5, <1>6 DEF Admissible, ActionsInProgress, ReauthsInProgress
<1>8. QED
  BY <1>1, <1>2, <1>5, <1>6, <1>7 DEF IInv, d, e

(* The initial tables satisfy the invariant.                               *)
LEMMA InitInv == Init => IInv(Db)
<1> SUFFICES ASSUME Init PROVE IInv(Db)
  OBVIOUS
<1> DEFINE d == Db
<1>1. /\ d \in DbType
      /\ d.action = [a \in Actions |-> "none"] /\ d.history = [a \in Activations |-> "none"]
      /\ d.attempt = [r \in Reauths |-> NoAttempt] /\ d.command = [x \in Ids |-> NoCommand]
      /\ d.intent = NoIntent /\ d.seen = {} /\ d.blocked = FALSE
  BY RequestRowTypes DEF Init, Db, DbType, NoAttempt, NoCommand, NoIntent, ActionStatuses,
     HistoryOutcomes, CommandStatuses
<1>2. /\ NoAttempt.status = "none" /\ NoCommand.status = "none" /\ NoIntent.id = NoId
      /\ NoId \notin Ids /\ Activations \subseteq Actions
  BY IdAssumption DEF NoAttempt, NoCommand, NoIntent
<1> HIDE DEF d
<1>3. Provenance(d) /\ Settled(d)
  BY <1>1, <1>2 DEF Provenance, Settled, LaneStatuses, Ids
<1>4. OneMutation(d) /\ Quiet(d) /\ Fenced(d) /\ Pinned(d) /\ Backed(d)
  BY <1>1, <1>2 DEF OneMutation, Quiet, ActionsInProgress, ReauthsInProgress, Fenced, Pinned,
     Backed, LaneStatuses, Ids
<1>5. QED
  BY <1>1, <1>3, <1>4 DEF IInv, Rest, d

(* Member commands: a new one is admitted or queued.                       *)
LEMMA MemberInv ==
    ASSUME IInv(Db), MemberStep
    PROVE  IInv(Db)'
<1>1. ASSUME NEW a \in Actions, NEW granted \in BOOLEAN, RequestTicketAction(a, granted)
      PROVE  IInv(Db)'
  BY <1>1, ReceivedInv, RequestActionInv, CommitInv DEF RequestTicketAction, Ids
<1>2. ASSUME NEW a \in Actions, QueueTicketAction(a) PROVE IInv(Db)'
  BY <1>2, ReceivedInv, QueueInv, CommitInv, IdAssumption DEF QueueTicketAction, Ids
<1>3. ASSUME NEW r \in Reauths, OwnerRequestViviReauth(r) PROVE IInv(Db)'
  BY <1>3, ReceivedInv, AdmitReauthInv, CommitInv, IdAssumption DEF OwnerRequestViviReauth, Ids
<1>4. ASSUME NEW r \in Reauths, QueueViviReauth(r) PROVE IInv(Db)'
  BY <1>4, ReceivedInv, QueueInv, CommitInv, IdAssumption DEF QueueViviReauth, Ids
<1>5. ASSUME NEW c \in Codes, RequestControlCode(c) PROVE IInv(Db)'
  BY <1>5, ReceivedInv, AdmitCodeInv, CommitInv, IdAssumption DEF RequestControlCode, Ids
<1>6. ASSUME NEW c \in Codes, QueueControlCode(c) PROVE IInv(Db)'
  BY <1>6, ReceivedInv, QueueInv, CommitInv, IdAssumption DEF QueueControlCode, Ids
<1>7. ASSUME NEW c \in Codes, ConfirmBrowserCapture(c) \/ CloseControlCode(c) PROVE IInv(Db)'
  <2>1. request \in [Codes -> RequestRow]
    BY DEF IInv, Rest, DbType, Db
  <2>2. request' \in [Codes -> RequestRow]
    <3> DEFINE confirmed == [request[c] EXCEPT !.capture = FALSE, !.acked = TRUE,
                                               !.done = FALSE, !.ttl = ResultTTL]
               closed == [request[c] EXCEPT !.status = "closed", !.capture = FALSE,
                            !.cleanup = ~request[c].acked, !.done = FALSE, !.result = 0,
                            !.ttl = KeepTTL]
    <3>1. confirmed \in RequestRow
      BY <2>1, TimeoutsAreNat DEF RequestRow
    <3>2. closed \in RequestRow
      BY <2>1, TimeoutsAreNat DEF RequestRow, RequestStatuses, CodeFailures
    <3>3. \/ request' = [request EXCEPT ![c] = confirmed]
          \/ request' = [request EXCEPT ![c] = closed]
      BY <1>7 DEF ConfirmBrowserCapture, CloseControlCode
    <3> HIDE DEF confirmed, closed
    <3>4. QED
      BY <2>1, <3>1, <3>2, <3>3
  <2>3. Db' = [Db EXCEPT !.request = request']
    BY <1>7 DEF ConfirmBrowserCapture, CloseControlCode, Db
  <2>4. QED
    BY <2>2, <2>3, RequestRowInv
<1>8. QED
  BY <1>1, <1>2, <1>3, <1>4, <1>5, <1>6, <1>7 DEF MemberStep

(* A scheduled action that is due.                                         *)
LEMMA TriggerInv ==
    ASSUME IInv(Db), NEW s \in Actions, TriggerScheduled(s)
    PROVE  IInv(Db)'
<1> DEFINE d == Db
           e == insert_stream_command([d EXCEPT !.action[s] = "pending"], s)
<1>1. /\ s \in Schedules /\ d.action[s] = "none" /\ ~d.blocked
      /\ s \in Ids /\ s \notin Reauths /\ CommandTTL(s) \in Nat /\ s \notin Activations
      /\ s \notin Refreshes => ActionsInProgress(d) = {} /\ ReauthsInProgress(d) = {}
  BY IdAssumption, TimeoutsAreNat DEF TriggerScheduled, Db, Schedules, ActionsInProgress,
     ticket_phone_mutation_lane_conflict, ticket_phone_mutation_lane_conflict_ignoring,
     Occupants, ReauthsInProgress, Ids
<1>2. Commit(e)
  BY DEF TriggerScheduled
<1> HIDE DEF d
<1>3. IInv(d)
  BY DEF d
<1>4. d.command[s].status = "none" /\ s \notin d.seen /\ d.intent.id # s
  BY <1>1, <1>3, IdAssumption DEF IInv, Rest, Provenance
<1>5. /\ e \in DbType
      /\ e.action = [d.action EXCEPT ![s] = "pending"]
      /\ e.history = d.history /\ e.attempt = d.attempt
      /\ e.command = [d.command EXCEPT ![s] = [status |-> "pending", ttl |-> CommandTTL(s)]]
      /\ e.intent = d.intent /\ e.receipt = d.receipt /\ e.owner = d.owner
      /\ e.revision = d.revision /\ e.configured = d.configured
      /\ e.blocked = d.blocked /\ e.seen = d.seen \cup {s}
  BY <1>1, <1>3, <1>4 DEF insert_stream_command, IInv, Rest, DbType, ActionStatuses,
     LaneStatuses, CommandStatuses
<1> HIDE DEF e
<1>6. Provenance(e)
  BY <1>1, <1>3, <1>4, <1>5 DEF IInv, Rest, Provenance, DbType
<1>7. OneMutation(e) /\ Quiet(e)
  BY <1>1, <1>3, <1>5 DEF IInv, Rest, DbType, OneMutation, Quiet, ActionsInProgress,
     ReauthsInProgress, LaneStatuses
<1>8. Settled(e) /\ Fenced(e) /\ Pinned(e)
  BY <1>1, <1>3, <1>5, IdAssumption DEF IInv, Rest, DbType, Settled, Fenced, Pinned
<1>9. Backed(e)
  BY <1>1, <1>3, <1>5 DEF IInv, Rest, DbType, Backed
<1>10. IInv(e)
  BY <1>5, <1>6, <1>7, <1>8, <1>9 DEF IInv, Rest
<1>11. QED
  BY <1>2, <1>10, CommitInv

(* Progress reports of the phone, which promote nothing.                   *)
LEMMA ProgressInv ==
    ASSUME IInv(Db), PhoneProgress
    PROVE  IInv(Db)'
<1> DEFINE d == Db
           e == Db'
<1>1. /\ d.action = action /\ d.history = history /\ d.attempt = attempt
      /\ d.request = request /\ d.command = command /\ d.intent = intent
      /\ d.receipt = receipt /\ d.owner = owner /\ d.revision = revision
      /\ d.configured = configured /\ d.blocked = blocked /\ d.seen = seen
      /\ e = [action |-> action', history |-> history', attempt |-> attempt',
              request |-> request', command |-> command', intent |-> intent',
              receipt |-> receipt', owner |-> owner', revision |-> revision',
              configured |-> configured', blocked |-> blocked', seen |-> seen']
  BY DEF Db
<1> HIDE DEF d
<1>2. IInv(d)
  BY DEF d
<1>3. ASSUME NEW x \in Ids, DispatchStreamCommand(x) PROVE IInv(e)
  <2>1. /\ d.command[x].status = "pending" /\ x \in d.seen
        /\ e.command = [d.command EXCEPT ![x] =
              IF x \in Codes THEN NoCommand ELSE [@ EXCEPT !.status = "dispatched"]]
        /\ e.action = d.action /\ e.history = d.history /\ e.attempt = d.attempt
        /\ e.request = d.request /\ e.intent = d.intent /\ e.receipt = d.receipt
        /\ e.owner = d.owner /\ e.revision = d.revision /\ e.configured = d.configured
        /\ e.blocked = d.blocked /\ e.seen = d.seen
    BY <1>1, <1>3 DEF DispatchStreamCommand
  <2>2. /\ e.command \in [Ids -> [status : CommandStatuses, ttl : Nat]]
        /\ \A y \in Ids : y # x => e.command[y] = d.command[y]
        /\ e.command[x].status \in {"none", "dispatched"}
        /\ x \notin Codes => e.command[x].status = "dispatched"
    <3> DEFINE row == IF x \in Codes THEN NoCommand ELSE [d.command[x] EXCEPT !.status = "dispatched"]
    <3>1. /\ row \in [status : CommandStatuses, ttl : Nat]
          /\ row.status \in {"none", "dispatched"}
          /\ x \notin Codes => row.status = "dispatched"
      BY <1>2 DEF IInv, Rest, DbType, CommandStatuses, NoCommand
    <3>2. e.command = [d.command EXCEPT ![x] = row]
      BY <2>1
    <3> HIDE DEF row, e
    <3>3. QED
      BY <1>2, <3>1, <3>2 DEF IInv, Rest, DbType
  <2>3. e \in DbType
    BY <1>1, <1>2, <2>1, <2>2 DEF IInv, Rest, DbType
  <2> HIDE DEF e
  <2>4. Provenance(e)
    BY <1>2, <2>1, <2>2 DEF IInv, Rest, Provenance, Ids
  <2>5. OneMutation(e) /\ Quiet(e) /\ Settled(e) /\ Fenced(e) /\ Pinned(e)
    BY <1>2, <2>1 DEF IInv, Rest, OneMutation, Quiet, ActionsInProgress, ReauthsInProgress,
       Settled, Fenced, Pinned
  <2>6. Backed(e)
    BY <1>2, <2>1, <2>2, IdAssumption DEF IInv, Backed, Ids
  <2>7. QED
    BY <2>3, <2>4, <2>5, <2>6 DEF IInv, Rest
<1>4. ASSUME NEW a \in Actions, NEW status \in LaneStatuses, UpdateTicketAction(a, status)
      PROVE  IInv(e)
  <2>1. /\ d.action[a] \in LaneStatuses \cup {"queued"} /\ a \in d.seen
        /\ e.action = [d.action EXCEPT ![a] = status] /\ e.command = d.command
        /\ e.history = d.history /\ e.attempt = d.attempt
        /\ e.request = d.request /\ e.intent = d.intent /\ e.receipt = d.receipt
        /\ e.owner = d.owner /\ e.revision = d.revision /\ e.configured = d.configured
        /\ e.blocked = d.blocked /\ e.seen = d.seen
    BY <1>1, <1>4 DEF UpdateTicketAction
  <2>2. d.action[a] \in LaneStatuses
    BY <1>2, <2>1 DEF IInv, Rest, Backed, Provenance, Ids
  <2>3. e \in DbType
    BY <1>1, <1>2, <2>1 DEF IInv, Rest, DbType, ActionStatuses
  <2> HIDE DEF e
  <2>4. Provenance(e)
    BY <1>2, <2>1 DEF IInv, Rest, DbType, Provenance, LaneStatuses
  <2>5. ActionsInProgress(e) = ActionsInProgress(d) /\ ReauthsInProgress(e) = ReauthsInProgress(d)
    BY <1>2, <2>1, <2>2 DEF IInv, Rest, DbType, ActionsInProgress, ReauthsInProgress
  <2>6. OneMutation(e) /\ Quiet(e) /\ Fenced(e) /\ Pinned(e)
    BY <1>2, <2>1, <2>5 DEF IInv, Rest, OneMutation, Quiet, Fenced, Pinned
  <2>7. Settled(e) /\ Backed(e)
    BY <1>2, <2>1, <2>2, IdAssumption DEF IInv, Rest, DbType, Settled, Backed, LaneStatuses
  <2>8. QED
    BY <2>3, <2>4, <2>6, <2>7 DEF IInv, Rest
<1>5. ASSUME NEW r \in Reauths, ClaimViviReauth(r) PROVE IInv(e)
  <2>1. /\ d.attempt[r].status = "pending" /\ r \in d.seen
        /\ e.action = d.action /\ e.command = d.command /\ e.history = d.history
        /\ e.attempt = [d.attempt EXCEPT ![r].status = "running"]
        /\ e.request = d.request /\ e.intent = d.intent /\ e.receipt = d.receipt
        /\ e.owner = d.owner /\ e.revision = d.revision /\ e.configured = d.configured
        /\ e.blocked = d.blocked /\ e.seen = d.seen
    BY <1>1, <1>5 DEF ClaimViviReauth
  <2>2. /\ e.attempt \in [Reauths -> [status : ActionStatuses, revision : Nat]]
        /\ \A y \in Reauths : /\ y # r => e.attempt[y] = d.attempt[y]
                              /\ e.attempt[y].revision = d.attempt[y].revision
        /\ e.attempt[r].status = "running"
    BY <1>2, <2>1 DEF IInv, Rest, DbType, ActionStatuses, LaneStatuses
  <2>3. e \in DbType
    BY <1>1, <1>2, <2>1, <2>2 DEF IInv, Rest, DbType
  <2> HIDE DEF e
  <2>4. Provenance(e) /\ Settled(e)
    BY <1>2, <2>1 DEF IInv, Rest, Provenance, Settled
  <2>5. ActionsInProgress(e) = ActionsInProgress(d) /\ ReauthsInProgress(e) = ReauthsInProgress(d)
    BY <2>1, <2>2 DEF ActionsInProgress, ReauthsInProgress, LaneStatuses
  <2>6. OneMutation(e) /\ Quiet(e) /\ Fenced(e) /\ Pinned(e)
    BY <1>2, <2>1, <2>2, <2>5 DEF IInv, Rest, OneMutation, Quiet, Fenced, Pinned, LaneStatuses
  <2>7. Backed(e)
    BY <1>2, <2>1, <2>2 DEF IInv, Backed, LaneStatuses
  <2>8. QED
    BY <2>3, <2>4, <2>6, <2>7 DEF IInv, Rest
<1>6. QED
  BY <1>3, <1>4, <1>5 DEF PhoneProgress

(* A report of the phone leads to a well-formed request row.               *)
LEMMA UpdatedRequestType ==
    ASSUME NEW row \in RequestRow, NEW next \in ControlCodeUpdates(row)
    PROVE  next \in RequestRow
<1>1. ASSUME NEW s \in RequestStatuses, NEW cleanup \in BOOLEAN, NEW cleaning \in BOOLEAN
      PROVE  UpdatedRequest(row, s, cleanup, cleaning) \in RequestRow
  <2> DEFINE captured == /\ row.status = "succeeded" /\ row.acked /\ cleaning
                         /\ s \in {"succeeded", "closed"}
             failed == row.status \in CodeFailures /\ s = row.status /\ cleaning
             status == IF captured THEN "succeeded" ELSE s
             capture == status = "succeeded" /\ ~row.acked
             done == row.done /\ (captured \/ failed)
             result == IF row.acked THEN row.result
                       ELSE IF status = "succeeded" THEN ResultTTL ELSE 0
             ttl == IF status \in CodeFailures THEN KeepTTL ELSE RequestTTL
  <2>1. UpdatedRequest(row, s, cleanup, cleaning) =
          [row EXCEPT !.status = status, !.capture = capture, !.cleanup = cleanup,
                      !.done = done, !.result = result, !.ttl = ttl]
    BY DEF UpdatedRequest
  <2>2. status \in RequestStatuses /\ capture \in BOOLEAN /\ done \in BOOLEAN
    BY <1>1 DEF RequestStatuses
  <2>3. result \in Nat /\ ttl \in Nat
    BY TimeoutsAreNat DEF RequestRow
  <2> HIDE DEF status, capture, done, result, ttl
  <2>4. QED
    BY <1>1, <2>1, <2>2, <2>3 DEF RequestRow
<1>2. QED
  BY <1>1 DEF ControlCodeUpdates

(* One request row is rewritten.                                           *)
LEMMA OneRequestRowInv ==
    ASSUME NEW d, IInv(d), NEW c \in Codes, NEW row \in RequestRow
    PROVE  /\ IInv([d EXCEPT !.request[c] = row])
           /\ [d EXCEPT !.request[c] = row].seen = d.seen
<1> DEFINE q == [d.request EXCEPT ![c] = row]
<1>1. q \in [Codes -> RequestRow]
  BY DEF IInv, Rest, DbType
<1>2. IInv([d EXCEPT !.request = q])
  BY <1>1, RequestRowInv
<1>3. [d EXCEPT !.request[c] = row].seen = d.seen
  BY DEF IInv, Rest, DbType
<1>4. QED
  BY <1>2, <1>3

(* A terminal result is stored for a ticket action and its command is      *)
(* dropped, before promotion.                                              *)
Finalized(d, a, status) ==
    [d EXCEPT !.action[a] = status,
              !.history = [h \in Activations |->
                 IF h # a THEN d.history[h]
                 ELSE IF status = "succeeded" THEN "succeeded" ELSE "failed"],
              !.command[a] = NoCommand]

LEMMA FinalizeInv ==
    ASSUME NEW d, IInv(d), NEW a \in Actions, NEW status \in Terminal, a \in d.seen,
           d.action[a] \in LaneStatuses
    PROVE  IInv(Finalized(d, a, status))
<1> DEFINE hist == [h \in Activations |->
                       IF h # a THEN d.history[h]
                       ELSE IF status = "succeeded" THEN "succeeded" ELSE "failed"]
           e == [d EXCEPT !.action[a] = status, !.history = hist, !.command[a] = NoCommand]
<1>0. a \in Ids /\ a \notin Reauths /\ NoCommand.status = "none"
  BY IdAssumption DEF Ids, NoCommand
<1>1. /\ e \in DbType
      /\ e.action = [d.action EXCEPT ![a] = status] /\ e.history = hist
      /\ e.attempt = d.attempt /\ e.command = [d.command EXCEPT ![a] = NoCommand]
      /\ e.intent = d.intent /\ e.receipt = d.receipt /\ e.owner = d.owner
      /\ e.revision = d.revision /\ e.configured = d.configured
      /\ e.blocked = d.blocked /\ e.seen = d.seen
  BY <1>0 DEF IInv, Rest, DbType, ActionStatuses, HistoryOutcomes, CommandStatuses, NoCommand
<1> HIDE DEF e
<1>2. Provenance(e)
  BY <1>0, <1>1 DEF IInv, Rest, DbType, Provenance, Terminal
<1>3. OneMutation(e) /\ Quiet(e)
  BY <1>1 DEF IInv, Rest, DbType, OneMutation, Quiet, ActionsInProgress, ReauthsInProgress,
     Terminal, LaneStatuses
<1>4. Settled(e) /\ Fenced(e) /\ Pinned(e)
  BY <1>1, IdAssumption DEF IInv, Rest, DbType, Settled, Fenced, Pinned, Terminal, LaneStatuses
<1>5. Backed(e)
  BY <1>0, <1>1 DEF IInv, Rest, DbType, Backed, Terminal, LaneStatuses
<1>6. IInv(e)
  BY <1>1, <1>2, <1>3, <1>4, <1>5 DEF IInv, Rest
<1>7. e = Finalized(d, a, status)
  BY DEF e, Finalized
<1>8. QED
  BY <1>6, <1>7

(* A terminal result is stored for a re-authentication, before its command *)
(* is acknowledged.                                                        *)
LEMMA FinishReauthInv ==
    ASSUME NEW d, IInv(d), NEW r \in Reauths, NEW status \in Terminal
    PROVE  /\ IInv([d EXCEPT !.attempt[r].status = status])
           /\ [d EXCEPT !.attempt[r].status = status].seen = d.seen
<1> DEFINE atts == [d.attempt EXCEPT ![r].status = status]
           e == [d EXCEPT !.attempt = atts]
<1>0. /\ atts \in [Reauths -> [status : ActionStatuses, revision : Nat]]
      /\ \A y \in Reauths : atts[y] = d.attempt[y] \/ atts[y].status \in Terminal
  BY DEF IInv, Rest, DbType, ActionStatuses
<1>1. /\ e \in DbType
      /\ e.action = d.action /\ e.history = d.history /\ e.attempt = atts
      /\ e.command = d.command
      /\ e.intent = d.intent /\ e.receipt = d.receipt /\ e.owner = d.owner
      /\ e.revision = d.revision /\ e.configured = d.configured
      /\ e.blocked = d.blocked /\ e.seen = d.seen
  BY <1>0 DEF IInv, Rest, DbType
<1>2. [d EXCEPT !.attempt[r].status = status] = e
  OBVIOUS
<1> HIDE DEF e, atts
<1>3. Provenance(e) /\ Settled(e)
  BY <1>1 DEF IInv, Rest, Provenance, Settled
<1>4. OneMutation(e) /\ Quiet(e)
  BY <1>0, <1>1 DEF IInv, Rest, OneMutation, Quiet, ActionsInProgress, ReauthsInProgress,
     Terminal, LaneStatuses
<1>5. Fenced(e) /\ Pinned(e) /\ Backed(e)
  BY <1>0, <1>1 DEF IInv, Rest, Fenced, Pinned, Backed, Terminal, LaneStatuses
<1>6. QED
  BY <1>1, <1>2, <1>3, <1>4, <1>5 DEF IInv, Rest

(* Calls of the phone that end a command or free the lane.                 *)
LEMMA PhoneInv ==
    ASSUME IInv(Db), PhoneStep
    PROVE  IInv(Db)'
<1>0. Db.seen = seen /\ Db.action = action /\ Db.history = history /\ Db.request = request
  BY DEF Db
<1>1. ASSUME NEW granted, NEW x \in Ids, NEW status \in {"acknowledged", "failed", "expired"},
             AckStreamCommand(x, status, granted)
      PROVE  IInv(Db)'
  BY <1>0, <1>1, UpdateStatusInv, CommitInv DEF AckStreamCommand
<1>2. ASSUME NEW granted, NEW a \in Actions, NEW status \in Terminal,
             FinalizeTicketAction(a, status, granted)
      PROVE  IInv(Db)'
  <2> DEFINE e == Finalized(Db, a, status)
  <2>1. a \in Db.seen /\ Db.action[a] \in LaneStatuses
    BY <1>0, <1>2 DEF FinalizeTicketAction
  <2>2. IInv(e)
    BY <2>1, FinalizeInv
  <2>3. Commit(promote_ticket_action_v3_queue(e, granted))
    BY <1>0, <1>2 DEF FinalizeTicketAction, Finalized
  <2> HIDE DEF e
  <2>4. QED
    BY <2>2, <2>3, PromoteInv, CommitInv
<1>3. ASSUME NEW granted, NEW r \in Reauths, NEW status \in Terminal,
             FinishViviReauth(r, status, granted)
      PROVE  IInv(Db)'
  <2>1. /\ IInv([Db EXCEPT !.attempt[r].status = status])
        /\ r \in [Db EXCEPT !.attempt[r].status = status].seen
    BY <1>0, <1>3, FinishReauthInv DEF FinishViviReauth
  <2>2. r \in Ids
    BY DEF Ids
  <2>3. QED
    BY <1>3, <2>1, <2>2, UpdateStatusInv, CommitInv DEF FinishViviReauth
<1>4. ASSUME NEW granted, NEW c \in Codes, NEW next \in ControlCodeUpdates(request[c]),
             UpdateControlCode(c, next, granted)
      PROVE  IInv(Db)'
  <2>1. request[c] \in RequestRow
    BY <1>0 DEF IInv, Rest, DbType
  <2>2. next \in RequestRow
    BY <1>4, <2>1, UpdatedRequestType
  <2>3. /\ IInv([Db EXCEPT !.request[c] = next])
        /\ c \in [Db EXCEPT !.request[c] = next].seen
    BY <1>0, <1>4, <2>2, OneRequestRowInv DEF UpdateControlCode
  <2>4. c \in Ids
    BY DEF Ids
  <2>5. IInv(update_stream_command_status([Db EXCEPT !.request[c] = next], c,
                                          "acknowledged", granted))
    BY <2>3, <2>4, UpdateStatusInv
  <2>6. QED
    BY <1>4, <2>3, <2>5, CommitInv DEF UpdateControlCode
<1>5. ASSUME NEW granted, NEW c \in Codes, CompleteControlCodeCleanup(c, granted)
      PROVE  IInv(Db)'
  <2> DEFINE row == [request[c] EXCEPT !.capture = FALSE, !.cleanup = FALSE,
                                       !.done = TRUE, !.ttl = ResultTTL]
  <2>1. row \in RequestRow
    <3>1. request[c] \in RequestRow
      BY <1>0 DEF IInv, Rest, DbType
    <3>2. QED
      BY <3>1, TimeoutsAreNat DEF RequestRow
  <2>2. Commit(promote_ticket_action_v3_queue([Db EXCEPT !.request[c] = row], granted))
    BY <1>0, <1>5 DEF CompleteControlCodeCleanup
  <2> HIDE DEF row
  <2>3. QED
    BY <2>1, <2>2, OneRequestRowInv, PromoteInv, CommitInv
<1>6. ASSUME NEW granted, OtherCommandSettled(granted) PROVE IInv(Db)'
  BY <1>6, PromoteInv, CommitInv DEF OtherCommandSettled
<1>7. QED
  BY <1>1, <1>2, <1>3, <1>4, <1>5, <1>6 DEF PhoneStep

(* The passage of time: only the time left changes.                        *)
LEMMA TickInv ==
    ASSUME IInv(Db), Tick
    PROVE  IInv(Db)'
<1> DEFINE d == Db
           e == Db'
<1>0. \A n \in Nat : Countdown(n) \in Nat
  BY DEF Countdown
<1>1. /\ d.action = action /\ d.history = history /\ d.attempt = attempt
      /\ d.request = request /\ d.command = command /\ d.intent = intent
      /\ d.receipt = receipt /\ d.owner = owner /\ d.revision = revision
      /\ d.configured = configured /\ d.blocked = blocked /\ d.seen = seen
  BY DEF Db
<1>2. /\ e = [action |-> action', history |-> history', attempt |-> attempt',
              request |-> request', command |-> command', intent |-> intent',
              receipt |-> receipt', owner |-> owner', revision |-> revision',
              configured |-> configured', blocked |-> blocked', seen |-> seen']
  BY DEF Db
<1> HIDE DEF d
<1>3. IInv(d)
  BY DEF d
<1>4. /\ command \in [Ids -> [status : CommandStatuses, ttl : Nat]]
      /\ intent \in [id : Ids \cup {NoId}, ttl : Nat]
      /\ request \in [Codes -> RequestRow]
  BY <1>1, <1>3 DEF IInv, Rest, DbType
<1>5. /\ command' \in [Ids -> [status : CommandStatuses, ttl : Nat]]
      /\ \A x \in Ids : command'[x].status = command[x].status
  BY <1>0, <1>4 DEF Tick
<1>6. intent' \in [id : Ids \cup {NoId}, ttl : Nat] /\ intent'.id = intent.id
  BY <1>0, <1>4 DEF Tick
<1>7. request' \in [Codes -> RequestRow]
  <2>1. ASSUME NEW row \in RequestRow
        PROVE  [row EXCEPT !.ttl = Countdown(@), !.owner = Countdown(@),
                           !.result = Countdown(@)] \in RequestRow
    BY <1>0 DEF RequestRow
  <2>2. QED
    BY <1>4, <2>1 DEF Tick
<1>8. /\ e \in DbType
      /\ e.action = d.action /\ e.history = d.history /\ e.attempt = d.attempt
      /\ \A x \in Ids : e.command[x].status = d.command[x].status
      /\ e.intent.id = d.intent.id /\ e.receipt = d.receipt /\ e.owner = d.owner
      /\ e.revision = d.revision /\ e.configured = d.configured
      /\ e.blocked = d.blocked /\ e.seen = d.seen
  <2>1. /\ action' = action /\ history' = history /\ attempt' = attempt
        /\ receipt' = receipt /\ owner' = owner /\ revision' = revision
        /\ configured' = configured /\ blocked' = blocked /\ seen' = seen
    BY DEF Tick
  <2>2. /\ e.action = action /\ e.history = history /\ e.attempt = attempt
        /\ e.request = request' /\ e.command = command' /\ e.intent = intent'
        /\ e.receipt = receipt /\ e.owner = owner /\ e.revision = revision
        /\ e.configured = configured /\ e.blocked = blocked /\ e.seen = seen
    BY <1>2, <2>1
  <2>3. d \in DbType
    BY <1>3 DEF IInv, Rest
  <2>4. e \in DbType
    BY <1>1, <1>2, <1>5, <1>6, <1>7, <2>1, <2>3 DEF DbType
  <2> HIDE DEF e
  <2> QED BY <1>1, <1>5, <1>6, <2>2, <2>4
<1> HIDE DEF e
<1>9. Provenance(e)
  BY <1>3, <1>8 DEF IInv, Rest, Provenance, Ids
<1>10. OneMutation(e) /\ Quiet(e) /\ Settled(e) /\ Fenced(e) /\ Pinned(e)
  BY <1>3, <1>8 DEF IInv, Rest, OneMutation, Quiet, ActionsInProgress, ReauthsInProgress,
     Settled, Fenced, Pinned
<1>11. Backed(e)
  BY <1>3, <1>8 DEF IInv, Backed, Ids
<1>12. QED
  BY <1>8, <1>9, <1>10, <1>11 DEF IInv, Rest, e

(* The owner role, the credential and the barrier change hands.            *)
LEMMA AuthorityInv ==
    ASSUME IInv(Db), AuthorityStep
    PROVE  IInv(Db)'
<1> DEFINE d == Db
           e == Db'
<1>1. /\ d.action = action /\ d.history = history /\ d.attempt = attempt
      /\ d.request = request /\ d.command = command /\ d.intent = intent
      /\ d.receipt = receipt /\ d.owner = owner /\ d.revision = revision
      /\ d.configured = configured /\ d.blocked = blocked /\ d.seen = seen
  BY DEF Db
<1>2. /\ e = [action |-> action', history |-> history', attempt |-> attempt',
              request |-> request', command |-> command', intent |-> intent',
              receipt |-> receipt', owner |-> owner', revision |-> revision',
              configured |-> configured', blocked |-> blocked', seen |-> seen']
  BY DEF Db
<1>3. ASSUME NEW granted, RevokeOwner(granted) PROVE IInv(Db)'
  BY <1>3, CancelInv, CommitInv DEF RevokeOwner
<1>4. ASSUME \/ GrantOwner
             \/ \E keep \in BOOLEAN : ReplaceViviCredentials(keep)
             \/ BeginColdRestart \/ ReleaseColdRestart
      PROVE  IInv(Db)'
  <2>1. /\ action' = action /\ history' = history /\ attempt' = attempt
        /\ request' = request /\ command' = command /\ intent' = intent
        /\ receipt' = receipt /\ seen' = seen
    BY <1>4 DEF GrantOwner, ReplaceViviCredentials, BeginColdRestart, ReleaseColdRestart
  <2>2. owner' \in BOOLEAN /\ configured' \in BOOLEAN /\ blocked' \in BOOLEAN
    BY <1>1, <1>4 DEF GrantOwner, ReplaceViviCredentials, BeginColdRestart, ReleaseColdRestart,
       IInv, Rest, DbType
  <2>3. revision' \in Nat
    BY <1>1, <1>4 DEF GrantOwner, ReplaceViviCredentials, BeginColdRestart, ReleaseColdRestart,
       IInv, Rest, DbType
  <2>4. /\ owner => owner'
        /\ ticket_has_live_vivi_reauth(d) => configured' = configured /\ revision' = revision
        /\ blocked' => blocked \/ (~ticket_phone_mutation_lane_conflict(d) /\ intent.id = NoId)
    BY <1>4 DEF GrantOwner, ReplaceViviCredentials, BeginColdRestart, ReleaseColdRestart
  <2>5. ~ticket_phone_mutation_lane_conflict(d) =>
          ActionsInProgress(d) = {} /\ ReauthsInProgress(d) = {}
    BY IdAssumption DEF ticket_phone_mutation_lane_conflict, ActionsInProgress,
       ReauthsInProgress, ticket_phone_mutation_lane_conflict_ignoring, Occupants, Ids
  <2> HIDE DEF d
  <2>6. IInv(d)
    BY DEF d
  <2>7. e \in DbType
    BY <1>1, <1>2, <2>1, <2>2, <2>3, <2>6 DEF IInv, Rest, DbType
  <2>8. /\ e.action = d.action /\ e.history = d.history /\ e.attempt = d.attempt
        /\ e.command = d.command /\ e.intent = d.intent /\ e.receipt = d.receipt
        /\ e.seen = d.seen /\ e.owner = owner' /\ e.configured = configured'
        /\ e.revision = revision' /\ e.blocked = blocked'
    BY <1>1, <1>2, <2>1
  <2> HIDE DEF e
  <2>9. Provenance(e) /\ Settled(e) /\ Backed(e)
    BY <2>6, <2>8 DEF IInv, Rest, Provenance, Settled, Backed
  <2>10. Fenced(e) /\ Pinned(e)
    BY <1>1, <2>4, <2>6, <2>8 DEF IInv, Rest, Fenced, Pinned, ticket_has_live_vivi_reauth
  <2>11. OneMutation(e) /\ Quiet(e)
    BY <1>1, <2>4, <2>5, <2>6, <2>8 DEF IInv, Rest, OneMutation, Quiet, ActionsInProgress,
       ReauthsInProgress
  <2>12. QED
    BY <2>7, <2>9, <2>10, <2>11 DEF IInv, Rest, e
<1>5. QED
  BY <1>3, <1>4 DEF AuthorityStep

-----------------------------------------------------------------------------
(* Every step preserves the invariant.                                     *)
LEMMA StepInv == IInv(Db) /\ [Next]_vars => IInv(Db)'
<1> SUFFICES ASSUME IInv(Db), [Next]_vars PROVE IInv(Db)'
  OBVIOUS
<1>1. CASE Cleanup
  BY <1>1, CleanupInv, CommitInv DEF Cleanup, CleanupExpired
<1>2. CASE UNCHANGED vars
  <2>1. Db' = Db
    BY <1>2 DEF vars, Db
  <2>2. QED
    BY <2>1
<1>3. QED
  BY <1>1, <1>2, MemberInv, PhoneInv, ProgressInv, AuthorityInv, TriggerInv, TickInv DEF Next

(* The invariant holds in every reachable state of the lane.               *)
LEMMA Invariance == Spec => []IInv(Db)
BY InitInv, StepInv, PTL DEF Spec

(* Types: every table always holds rows of its own shape.                  *)
THEOREM TypeCorrect == Spec => []TypeOK
<1>1. IInv(Db) => TypeOK
  BY DEF IInv, Rest, TypeOK
<1>2. QED
  BY <1>1, Invariance, PTL

(* At most one ticket action or re-authentication is ever on the phone,    *)
(* the unchecked activation-expiry reset aside.                            *)
THEOREM MutualExclusion == Spec => []OneMutationAtATime
<1>1. IInv(Db) => OneMutationAtATime
  BY DEF IInv, Rest, OneMutationAtATime
<1>2. QED
  BY <1>1, Invariance, PTL

(* Whatever holds the lane or waits for it has a command whose expiry      *)
(* will end it.                                                            *)
THEOREM LaneHolderHasCommand == Spec => []HeldLaneHasACommand
<1>1. IInv(Db) => HeldLaneHasACommand
  BY DEF IInv, HeldLaneHasACommand
<1>2. QED
  BY <1>1, Invariance, PTL

(* The activation ledger agrees with the actions.                          *)
THEOREM LedgerAgrees == Spec => []HistoryMatchesAction
<1>1. IInv(Db) => HistoryMatchesAction
  BY DEF IInv, Rest, HistoryMatchesAction
<1>2. QED
  BY <1>1, Invariance, PTL

(* No unclaimed re-authentication survives the owner's revocation.         *)
THEOREM RevocationIsFenced == Spec => []RevocationFence
<1>1. IInv(Db) => RevocationFence
  BY DEF IInv, Rest, RevocationFence
<1>2. QED
  BY <1>1, Invariance, PTL

(* A live re-authentication uses the credential it was confirmed for.      *)
THEOREM CredentialIsPinned == Spec => []CredentialFence
<1>1. IInv(Db) => CredentialFence
  BY DEF IInv, Rest, CredentialFence
<1>2. QED
  BY <1>1, Invariance, PTL

(* Under the cold-restart barrier the lane and the queue are empty.        *)
THEOREM BarrierIsQuiet == Spec => []ColdRestartIsQuiet
<1>1. IInv(Db) => ColdRestartIsQuiet
  BY DEF IInv, Rest, ColdRestartIsQuiet
<1>2. QED
  BY <1>1, Invariance, PTL

(* The lane is held by one mutation, which has a command that ends it.     *)
THEOREM LaneSafety == Spec => []LaneIsSafe
<1>1. OneMutationAtATime /\ HeldLaneHasACommand <=> LaneIsSafe
  BY DEF LaneIsSafe
<1> QED  BY <1>1, MutualExclusion, LaneHolderHasCommand, PTL

(* Revocation and a changed credential reach every waiting attempt.        *)
THEOREM ReauthFencing == Spec => []ReauthIsFenced
<1>1. RevocationFence /\ CredentialFence <=> ReauthIsFenced
  BY DEF ReauthIsFenced
<1> QED  BY <1>1, RevocationIsFenced, CredentialIsPinned, PTL

(* The tables keep their shapes and the ledger agrees with the actions.    *)
THEOREM LedgerSoundness == Spec => []LedgerIsSound
<1>1. TypeOK /\ HistoryMatchesAction <=> LedgerIsSound
  BY DEF LedgerIsSound
<1> QED  BY <1>1, TypeCorrect, LedgerAgrees, PTL

-----------------------------------------------------------------------------
(* The queue slot.  QueueBacked adds to IntentIsBacked that a waiting code *)
(* outlives its intent.  Between the two halves of cleanup_expired the     *)
(* expired placeholder is gone and the expired intent is not: there only   *)
(* an intent with time left (live) is backed.                              *)
IsBacked(d, i) ==
    /\ d.command[i.id] = [status |-> "queued", ttl |-> i.ttl]
    /\ i.id \in Actions => d.action[i.id] = "queued"
    /\ i.id \in Reauths => d.attempt[i.id].status = "queued"
    /\ i.id \in Codes => d.request[i.id].status = "queued" /\ i.ttl <= d.request[i.id].ttl

QueueBacked(d) == d.intent.id # NoId => IsBacked(d, d.intent)
LiveBacked(d) == d.intent.id # NoId /\ d.intent.ttl # 0 => IsBacked(d, d.intent)

(* The rows of whatever waits in the slot are the same.                    *)
SameIntent(d, e) ==
    /\ e.intent = d.intent
    /\ d.intent.id # NoId =>
         /\ e.command[d.intent.id] = d.command[d.intent.id]
         /\ d.intent.id \in Actions => e.action[d.intent.id] = d.action[d.intent.id]
         /\ d.intent.id \in Reauths => e.attempt[d.intent.id].status = d.attempt[d.intent.id].status
         /\ d.intent.id \in Codes => e.request[d.intent.id] = d.request[d.intent.id]

(* The lane is held by nothing but what has just been given to the phone.  *)
Admitted(d, e) ==
    \A x \in Ids \ Refreshes : x \notin d.seen /\ x \in e.seen => Occupants(e) = {x}

LEMMA SameIntentBacked ==
    ASSUME NEW d, NEW e, SameIntent(d, e)
    PROVE  /\ QueueBacked(d) => QueueBacked(e)
           /\ LiveBacked(d) => LiveBacked(e)
BY DEF SameIntent, QueueBacked, LiveBacked, IsBacked

LEMMA Occupied ==
    ASSUME NEW d, NEW x
    PROVE  /\ ~ticket_phone_mutation_lane_conflict(d) => Occupants(d) = {}
           /\ x \notin Codes /\ ~ticket_phone_mutation_lane_conflict_ignoring(d, IF x \in Codes THEN x ELSE NoId)
                => Occupants(d) = {}
           /\ ~ticket_phone_mutation_lane_conflict_ignoring(d, IF x \in Codes THEN x ELSE NoId)
                => Occupants(d) \subseteq {x}
BY IdAssumption DEF ticket_phone_mutation_lane_conflict, ticket_phone_mutation_lane_conflict_ignoring,
   Occupants, ActionsInProgress, ReauthsInProgress, CodesInProgress, Ids

(* Admitting x, new to the phone, over an empty lane: x is its occupant.   *)
LEMMA ActionAdmitted ==
    ASSUME NEW d, d \in DbType, NEW a \in Actions, NEW granted, d.command[a].status = "none",
           Occupants(d) = {}, d.intent.id # a
    PROVE  /\ Admitted(d, request_ticket_action_v3(d, a, granted))
           /\ SameIntent(d, request_ticket_action_v3(d, a, granted))
<1> DEFINE e == request_ticket_action_v3(d, a, granted)
<1>0. a \in Ids
  BY DEF Ids
<1>1. CASE ~granted
  <2>1. /\ e.seen = d.seen /\ e.intent = d.intent /\ e.command = d.command /\ e.attempt = d.attempt
        /\ e.request = d.request /\ e.action = [d.action EXCEPT ![a] = "failed"]
    BY <1>1 DEF request_ticket_action_v3, DbType
  <2> HIDE DEF e
  <2>2. Admitted(d, e) /\ SameIntent(d, e)
    BY <2>1 DEF Admitted, SameIntent, DbType
  <2> QED BY <2>2 DEF e
<1>2. CASE granted
  <2>1. /\ e.seen = d.seen \cup {a} /\ e.intent = d.intent /\ e.attempt = d.attempt
        /\ e.request = d.request /\ e.action = [d.action EXCEPT ![a] = "pending"]
        /\ e.command = [d.command EXCEPT ![a] = [status |-> "pending", ttl |-> CommandTTL(a)]]
    BY <1>2 DEF request_ticket_action_v3, insert_stream_command, DbType
  <2> HIDE DEF e
  <2>2. Occupants(e) = {a}
    BY <2>1 DEF Occupants, ActionsInProgress, ReauthsInProgress, CodesInProgress, DbType, LaneStatuses
  <2>3. Admitted(d, e)
    BY <2>1, <2>2 DEF Admitted
  <2>4. SameIntent(d, e)
    BY <1>0, <2>1 DEF SameIntent, DbType
  <2> QED BY <2>3, <2>4 DEF e
<1> QED BY <1>1, <1>2

LEMMA ReauthAdmitted ==
    ASSUME NEW d, d \in DbType, NEW r \in Reauths, d.command[r].status = "none",
           Occupants(d) = {}, d.intent.id # r
    PROVE  Admitted(d, admit_vivi_reauth(d, r)) /\ SameIntent(d, admit_vivi_reauth(d, r))
<1> DEFINE e == admit_vivi_reauth(d, r)
<1>0. r \in Ids
  BY DEF Ids
<1>1. /\ e.seen = d.seen \cup {r} /\ e.intent = d.intent /\ e.action = d.action /\ e.request = d.request
      /\ e.attempt = [d.attempt EXCEPT ![r] = [status |-> "pending", revision |-> d.revision]]
      /\ e.command = [d.command EXCEPT ![r] = [status |-> "pending", ttl |-> CommandTTL(r)]]
  BY DEF admit_vivi_reauth, insert_stream_command, DbType
<1> HIDE DEF e
<1>2. Occupants(e) = {r}
  BY <1>1 DEF Occupants, ActionsInProgress, ReauthsInProgress, CodesInProgress, DbType, LaneStatuses
<1>3. Admitted(d, e)
  BY <1>1, <1>2 DEF Admitted
<1>4. SameIntent(d, e)
  BY <1>0, <1>1 DEF SameIntent, DbType
<1> QED BY <1>3, <1>4 DEF e

LEMMA CodeAdmitted ==
    ASSUME NEW d, d \in DbType, NEW c \in Codes, d.command[c].status = "none",
           Occupants(d) \subseteq {c}, d.intent.id # c
    PROVE  /\ Admitted(d, admit_control_code_request(d, c))
           /\ SameIntent(d, admit_control_code_request(d, c))
           /\ admit_control_code_request(d, c).seen = d.seen \cup {c}
           /\ admit_control_code_request(d, c).request[c].owner = RequestTTL
           /\ admit_control_code_request(d, c).request[c].ttl = RequestTTL
<1> DEFINE e == admit_control_code_request(d, c)
           new == [insert_control_code_public_request EXCEPT !.owner = RequestTTL]
<1>0. c \in Ids /\ RequestTTL > 0 /\ c \notin Actions /\ c \notin Reauths
  BY TTLAssumption, IdAssumption DEF Ids
<1>1. /\ e.seen = d.seen \cup {c} /\ e.intent = d.intent /\ e.action = d.action /\ e.attempt = d.attempt
      /\ e.request = [d.request EXCEPT ![c] = new]
      /\ e.command = [d.command EXCEPT ![c] = [status |-> "pending", ttl |-> CommandTTL(c)]]
  BY DEF admit_control_code_request, insert_stream_command, DbType
<1>2. new.status = "queued" /\ new.ttl = RequestTTL /\ new.owner = RequestTTL
  BY DEF insert_control_code_public_request, NoRequest
<1> HIDE DEF e, new
<1>3. control_code_request_occupies_phone(new)
  BY <1>0, <1>2 DEF control_code_request_occupies_phone, CodeProgress
<1>4. Occupants(e) = {c}
  BY <1>0, <1>1, <1>3 DEF Occupants, ActionsInProgress, ReauthsInProgress, CodesInProgress, DbType
<1>5. Admitted(d, e)
  BY <1>1, <1>4 DEF Admitted
<1>6. SameIntent(d, e)
  BY <1>0, <1>1 DEF SameIntent, DbType
<1> QED BY <1>1, <1>2, <1>5, <1>6 DEF e, DbType

(* A code given to the phone has a fresh request and a fresh owner row.    *)
FreshCode(d, e) ==
    \A c \in Codes : c \notin d.seen /\ c \in e.seen =>
        e.request[c].owner = RequestTTL /\ e.request[c].ttl = RequestTTL

(* A promotion takes the intent out of the slot or changes nothing, and    *)
(* what it gives to the phone has the lane to itself.                      *)
LEMMA PromoteAdmits ==
    ASSUME NEW d, d \in DbType, NEW granted
    PROVE  LET e == promote_ticket_action_v3_queue(d, granted) IN
           (e = d \/ e.intent = NoIntent) /\ Admitted(d, e) /\ FreshCode(d, e)
<1> DEFINE x == d.intent.id
           taken == [d EXCEPT !.intent = NoIntent, !.command[x] = NoCommand]
           ignored == IF x \in Codes THEN x ELSE NoId
           e == promote_ticket_action_v3_queue(d, granted)
<1>0. SUFFICES (e = d \/ e.intent = NoIntent) /\ Admitted(d, e) /\ FreshCode(d, e)
  OBVIOUS
<1>1. CASE d.blocked \/ x = NoId \/ ticket_phone_mutation_lane_conflict_ignoring(d, ignored)
  <2>1. e = d
    BY <1>1 DEF promote_ticket_action_v3_queue
  <2> QED BY <2>1 DEF Admitted, FreshCode
<1>2. CASE ~(d.blocked \/ x = NoId \/ ticket_phone_mutation_lane_conflict_ignoring(d, ignored))
  <2>1. x \in Ids /\ Occupants(d) \subseteq {x} /\ (x \notin Codes => Occupants(d) = {})
    <3>1. ~ticket_phone_mutation_lane_conflict_ignoring(d, IF x \in Codes THEN x ELSE NoId) /\ x \in Ids
      BY <1>2 DEF DbType
    <3> HIDE DEF x
    <3> QED BY <3>1, Occupied
  <2>2. /\ taken \in DbType
        /\ taken.action = d.action /\ taken.attempt = d.attempt /\ taken.request = d.request
        /\ taken.command = [d.command EXCEPT ![x] = NoCommand]
        /\ taken.intent = NoIntent /\ taken.seen = d.seen
    BY <2>1 DEF DbType, NoIntent, NoCommand, CommandStatuses
  <2>3. taken.command[x].status = "none" /\ taken.intent.id # x
    BY <2>1, <2>2, IdAssumption DEF DbType, NoIntent, NoCommand
  <2>4. Occupants(taken) = Occupants(d)
    BY <2>2 DEF Occupants, ActionsInProgress, ReauthsInProgress, CodesInProgress
  <2>5. ASSUME NEW f, Admitted(taken, f), SameIntent(taken, f), f = e, FreshCode(taken, f)
        PROVE  e.intent = NoIntent /\ Admitted(d, e) /\ FreshCode(d, e)
    <3> HIDE DEF taken, e
    <3> QED BY <2>2, <2>5 DEF Admitted, SameIntent, FreshCode
  <2>6. CASE x \in Reauths
    <3>0. x \notin Codes
      BY <2>6, IdAssumption
    <3>1. CASE e = taken \/ e = [taken EXCEPT !.attempt[x].status = "failed"]
      <4>1. e.seen = d.seen /\ e.intent = NoIntent
        <5> HIDE DEF taken, e
        <5> QED BY <2>2, <3>1 DEF DbType
      <4> QED BY <4>1 DEF Admitted, FreshCode
    <3>2. CASE e = admit_vivi_reauth(taken, x)
      <4>1. Admitted(taken, e) /\ SameIntent(taken, e)
        <5> HIDE DEF taken, e, x
        <5>1. Occupants(taken) = {}
          BY <2>1, <2>4, <3>0
        <5> QED BY <2>2, <2>3, <2>6, <3>2, <5>1, ReauthAdmitted
      <4>2. e.seen = d.seen \cup {x}
        BY <2>2, <2>3, <3>2 DEF admit_vivi_reauth, insert_stream_command, DbType
      <4>3. FreshCode(taken, e)
        <5> HIDE DEF taken, e
        <5> QED BY <2>2, <3>0, <4>2 DEF FreshCode
      <4> QED BY <2>5, <4>1, <4>3
    <3> QED BY <1>2, <2>6, <3>1, <3>2 DEF promote_ticket_action_v3_queue
  <2>7. CASE x \in Codes
    <3>0. x \notin Reauths
      BY <2>7, IdAssumption
    <3>1. CASE e = finish_queued_control_code_request(taken, x)
      <4>1. e.seen = d.seen /\ e.intent = NoIntent
        BY <2>2, <3>1 DEF finish_queued_control_code_request
      <4> QED BY <4>1 DEF Admitted, FreshCode
    <3>2. CASE e = admit_control_code_request(taken, x)
      <4>1. /\ Admitted(taken, e) /\ SameIntent(taken, e) /\ e.seen = taken.seen \cup {x}
            /\ e.request[x].owner = RequestTTL /\ e.request[x].ttl = RequestTTL
        <5> HIDE DEF taken, e, x
        <5>1. Occupants(taken) \subseteq {x}
          BY <2>1, <2>4
        <5>2. taken \in DbType /\ taken.command[x].status = "none" /\ taken.intent.id # x
          BY <2>2, <2>3
        <5> DEFINE g == admit_control_code_request(taken, x)
        <5>3. /\ Admitted(taken, g) /\ SameIntent(taken, g) /\ g.seen = taken.seen \cup {x}
              /\ g.request[x].owner = RequestTTL /\ g.request[x].ttl = RequestTTL
          BY <2>7, <5>1, <5>2, CodeAdmitted
        <5> HIDE DEF g
        <5>4. e = g
          BY <3>2 DEF g
        <5> QED BY <5>3, <5>4
      <4> HIDE DEF taken
      <4>2. FreshCode(taken, e)
        <5> HIDE DEF e
        <5> QED BY <4>1 DEF FreshCode
      <4> QED BY <2>5, <4>1, <4>2
    <3> QED BY <1>2, <2>7, <3>0, <3>1, <3>2 DEF promote_ticket_action_v3_queue
  <2>8. CASE x \in Actions
    <3>0. x \notin Reauths /\ x \notin Codes
      BY <2>8, IdAssumption
    <3>1. e = request_ticket_action_v3(taken, x, d.intent.ttl # 0 /\ granted)
      BY <1>2, <3>0 DEF promote_ticket_action_v3_queue
    <3>2. Admitted(taken, e) /\ SameIntent(taken, e)
      <4>1. Occupants(taken) = {}
        BY <2>1, <2>4, <3>0
      <4> HIDE DEF taken, e, x
      <4> QED BY <2>2, <2>3, <2>8, <3>1, <4>1, ActionAdmitted
    <3>3. e.seen = d.seen \/ e.seen = d.seen \cup {x}
      BY <2>2, <2>3, <3>1 DEF request_ticket_action_v3, insert_stream_command, DbType
    <3>4. FreshCode(taken, e)
      <4> HIDE DEF taken, e
      <4> QED BY <2>2, <3>0, <3>3 DEF FreshCode
    <3> QED BY <2>5, <3>2, <3>4
  <2> QED BY <2>1, <2>6, <2>7, <2>8 DEF Ids
<1> QED BY <1>1, <1>2

(* A table function that gives the phone nothing, before a promotion.      *)
LEMMA PromotedAfter ==
    ASSUME NEW d, NEW f, f \in DbType, f.seen = d.seen, NEW granted
    PROVE  LET e == promote_ticket_action_v3_queue(f, granted) IN
           /\ Admitted(d, e) /\ FreshCode(d, e)
           /\ QueueBacked(f) => QueueBacked(e)
           /\ LiveBacked(f) => LiveBacked(e)
<1> DEFINE e == promote_ticket_action_v3_queue(f, granted)
<1>1. (e = f \/ e.intent = NoIntent) /\ Admitted(f, e) /\ FreshCode(f, e)
  BY PromoteAdmits
<1> HIDE DEF e
<1>2. Admitted(d, e) /\ FreshCode(d, e)
  BY <1>1 DEF Admitted, FreshCode
<1>3. NoIntent.id = NoId
  BY DEF NoIntent
<1>4. (QueueBacked(f) => QueueBacked(e)) /\ (LiveBacked(f) => LiveBacked(e))
  BY <1>1, <1>3 DEF QueueBacked, LiveBacked
<1> QED BY <1>2, <1>4 DEF e

Interrupted(d, ended, reauths, c) ==
    [InterruptReauths(fail_ticket_action_v3_for_command(d, ended), reauths) EXCEPT !.command = c]

(* Commands that end: the slot is not touched, nor are the rows of what    *)
(* waits there unless its own placeholder ended.                           *)
LEMMA InterruptKeeps ==
    ASSUME NEW d, d \in DbType, NEW ended, NEW reauths \in SUBSET Reauths, reauths \subseteq ended,
           NEW c \in [Ids -> [status : CommandStatuses, ttl : Nat]],
           \A x \in Ids : x \notin ended => c[x] = d.command[x]
    PROVE  /\ Interrupted(d, ended, reauths, c) \in DbType
           /\ Interrupted(d, ended, reauths, c).intent = d.intent
           /\ Interrupted(d, ended, reauths, c).seen = d.seen
           /\ d.intent.id \notin ended => SameIntent(d, Interrupted(d, ended, reauths, c))
<1> DEFINE f == fail_ticket_action_v3_for_command(d, ended)
           e == [InterruptReauths(f, reauths) EXCEPT !.command = c]
           named == {a \in ended \cap Actions : d.command[a].status \notin Scrubbed}
           acts == [a \in Actions |-> IF a \in named THEN InterruptedAction(d, a) ELSE d.action[a]]
           hist == [a \in Activations |->
                      IF a \in named THEN InterruptedHistory(d, a) ELSE d.history[a]]
           atts == [r \in Reauths |->
                      IF r \in reauths
                      THEN [d.attempt[r] EXCEPT !.status = vivi_reauth_interrupted_terminal_status(@)]
                      ELSE d.attempt[r]]
<1>1. /\ acts \in [Actions -> ActionStatuses]
      /\ hist \in [Activations -> HistoryOutcomes]
  BY DEF DbType, InterruptedAction, InterruptedHistory, ActionStatuses, Terminal, HistoryOutcomes
<1>2. /\ atts \in [Reauths -> [status : ActionStatuses, revision : Nat]]
      /\ \A r \in Reauths : r \notin ended => atts[r] = d.attempt[r]
  BY DEF DbType, vivi_reauth_interrupted_terminal_status, ActionStatuses, Terminal
<1>3. \A a \in Actions : a \notin ended => acts[a] = d.action[a]
  OBVIOUS
<1>4. /\ f.attempt = d.attempt
      /\ InterruptReauths(f, reauths) = [f EXCEPT !.attempt = atts]
  BY DEF fail_ticket_action_v3_for_command, InterruptReauths
<1>5. f = [d EXCEPT !.action = acts, !.history = hist]
  BY DEF fail_ticket_action_v3_for_command
<1> HIDE DEF f, acts, hist, atts
<1>6. e = [d EXCEPT !.action = acts, !.history = hist, !.attempt = atts, !.command = c]
  BY <1>4, <1>5
<1> HIDE DEF e
<1>7. /\ e \in DbType /\ e.intent = d.intent /\ e.seen = d.seen
      /\ e.action = acts /\ e.attempt = atts /\ e.command = c /\ e.request = d.request
  BY <1>1, <1>2, <1>6 DEF DbType
<1>8. d.intent.id \notin ended => SameIntent(d, e)
  BY <1>2, <1>3, <1>7 DEF SameIntent, DbType, Ids
<1>9. Interrupted(d, ended, reauths, c) = e
  BY DEF Interrupted, e, f
<1> QED BY <1>7, <1>8, <1>9

LEMMA UpdateStatusKeeps ==
    ASSUME NEW d, IInv(d), QueueBacked(d), NEW x \in Ids, x \in d.seen, NEW granted,
           NEW status \in {"acknowledged", "failed", "expired"}
    PROVE  LET e == update_stream_command_status(d, x, status, granted) IN
           QueueBacked(e) /\ Admitted(d, e)
<1> DEFINE f == InterruptReauths(fail_ticket_action_v3_for_command(d, {x}),
                                 {x} \cap UnfinishedReauths(d))
           row == IF status = "acknowledged" THEN NoCommand
                  ELSE [status |-> status, ttl |-> KeepTTL]
           c == [d.command EXCEPT ![x] = row]
           closed == [f EXCEPT !.command = c]
<1>1. CASE d.command[x].status = "none"
  <2>1. update_stream_command_status(d, x, status, granted) = d
    BY <1>1 DEF update_stream_command_status
  <2> QED BY <2>1 DEF Admitted
<1>2. CASE d.command[x].status # "none"
  <2>1. d \in DbType /\ d.intent.id # x
    BY IdAssumption DEF IInv, Rest, Provenance
  <2>2. /\ c \in [Ids -> [status : CommandStatuses, ttl : Nat]]
        /\ \A y \in Ids : y \notin {x} => c[y] = d.command[y]
    BY <2>1, TimeoutsAreNat DEF DbType, NoCommand, CommandStatuses
  <2>3. f.command = d.command
    BY DEF InterruptReauths, fail_ticket_action_v3_for_command
  <2>4. [f EXCEPT !.command[x] = row] = closed
    BY <2>3
  <2>5. closed \in DbType /\ closed.seen = d.seen /\ SameIntent(d, closed)
    <3>1. {x} \cap UnfinishedReauths(d) \in SUBSET Reauths /\ {x} \cap UnfinishedReauths(d) \subseteq {x}
      BY DEF UnfinishedReauths
    <3>2. closed = Interrupted(d, {x}, {x} \cap UnfinishedReauths(d), c)
      BY DEF Interrupted
    <3>3. d.intent.id \notin {x}
      BY <2>1
    <3> HIDE DEF c, closed
    <3> QED BY <2>1, <2>2, <3>1, <3>2, <3>3, InterruptKeeps
  <2>6. update_stream_command_status(d, x, status, granted) = promote_ticket_action_v3_queue(closed, granted)
    BY <1>2, <2>4 DEF update_stream_command_status
  <2> HIDE DEF closed
  <2>7. QueueBacked(closed)
    BY <2>5, SameIntentBacked
  <2> QED BY <2>5, <2>6, <2>7, PromotedAfter
<1> QED BY <1>1, <1>2

LEMMA PurgeCommandsKeeps ==
    ASSUME NEW d, IInv(d), QueueBacked(d), NEW granted
    PROVE  LET e == purge_expired_stream_commands(d, granted) IN
           LiveBacked(e) /\ Admitted(d, e) /\ FreshCode(d, e)
<1> DEFINE ended == {x \in Ids : d.command[x].status # "none" /\ d.command[x].ttl = 0}
           stored == {r \in Reauths : d.attempt[r].status # "none"}
           f == InterruptReauths(fail_ticket_action_v3_for_command(d, ended), ended \cap stored)
           c == [x \in Ids |-> IF x \in ended THEN NoCommand ELSE d.command[x]]
           dropped == [f EXCEPT !.command = c]
<1>1. d \in DbType
  BY DEF IInv, Rest
<1>2. /\ c \in [Ids -> [status : CommandStatuses, ttl : Nat]]
      /\ \A x \in Ids : x \notin ended => c[x] = d.command[x]
  BY <1>1 DEF DbType, NoCommand, CommandStatuses
<1>3. d.intent.id # NoId /\ d.intent.ttl # 0 => d.intent.id \notin ended
  BY DEF QueueBacked, IsBacked
<1>4. /\ dropped \in DbType /\ dropped.seen = d.seen /\ dropped.intent = d.intent
      /\ d.intent.id \notin ended => SameIntent(d, dropped)
  <2>1. ended \cap stored \in SUBSET Reauths /\ ended \cap stored \subseteq ended
    OBVIOUS
  <2>2. dropped = Interrupted(d, ended, ended \cap stored, c)
    BY DEF Interrupted
  <2> HIDE DEF ended, stored, c, dropped
  <2> QED BY <1>1, <1>2, <2>1, <2>2, InterruptKeeps
<1>5. purge_expired_stream_commands(d, granted) =
        IF ended = {} THEN d ELSE promote_ticket_action_v3_queue(dropped, granted)
  BY DEF purge_expired_stream_commands
<1> HIDE DEF dropped, ended
<1>6. LiveBacked(d)
  BY DEF QueueBacked, LiveBacked
<1>7. LiveBacked(dropped)
  <2>1. CASE d.intent.id # NoId /\ d.intent.ttl # 0
    BY <1>3, <1>4, <1>6, <2>1, SameIntentBacked
  <2>2. CASE ~(d.intent.id # NoId /\ d.intent.ttl # 0)
    BY <1>4, <2>2 DEF LiveBacked
  <2> QED BY <2>1, <2>2
<1>8. Admitted(d, d) /\ FreshCode(d, d)
  BY DEF Admitted, FreshCode
<1> QED BY <1>4, <1>5, <1>6, <1>7, <1>8, PromotedAfter

(* An expired intent goes with its placeholder; what has just been         *)
(* admitted has not expired.                                               *)
LEMMA CleanupKeeps ==
    ASSUME NEW d, IInv(d), QueueBacked(d), NEW granted
    PROVE  LET e == cleanup_expired(d, granted) IN QueueBacked(e) /\ Admitted(d, e)
<1> DEFINE p == purge_expired_stream_commands(d, granted)
           e == purge_ticket_history(p)
<1>1. IInv(p) /\ LiveBacked(p) /\ Admitted(d, p) /\ FreshCode(d, p)
  BY PurgeCommandsInv, PurgeCommandsKeeps
<1> HIDE DEF p
<1>2. p \in DbType /\ NoIntent.id = NoId /\ RequestTTL # 0
  BY <1>1, TTLAssumption DEF IInv, Rest, NoIntent
<1>3. /\ e.action = p.action /\ e.attempt = p.attempt /\ e.command = p.command /\ e.seen = p.seen
      /\ e.intent = IF p.intent.ttl = 0 THEN NoIntent ELSE p.intent
      /\ \A c \in Codes : e.request[c] = IF ExpiredRequest(p, c) THEN NoRequest ELSE p.request[c]
  BY <1>2 DEF purge_ticket_history, DbType
<1> HIDE DEF e
<1>4. QueueBacked(e)
  <2> SUFFICES ASSUME e.intent.id # NoId PROVE IsBacked(e, e.intent)
    BY DEF QueueBacked
  <2>1. e.intent = p.intent /\ p.intent.ttl # 0 /\ p.intent.id # NoId /\ p.intent.ttl \in Nat
    BY <1>2, <1>3 DEF DbType
  <2>2. IsBacked(p, p.intent)
    BY <1>1, <2>1 DEF LiveBacked
  <2>3. p.intent.id \notin p.seen
    BY <1>1, <2>1 DEF IInv, Rest, Provenance
  <2>4. p.intent.id \in Codes => ~ExpiredRequest(p, p.intent.id)
    BY <1>2, <2>1, <2>2, <2>3 DEF ExpiredRequest, IsBacked, DbType, RequestRow
  <2> QED BY <1>3, <2>1, <2>2, <2>4 DEF IsBacked
<1>5. ASSUME NEW x \in Ids \ Refreshes, x \notin d.seen, x \in e.seen PROVE Occupants(e) = {x}
  <2>1. Occupants(p) = {x} /\ x \in p.seen
    BY <1>1, <1>3, <1>5 DEF Admitted
  <2>2. ActionsInProgress(e) = ActionsInProgress(p) /\ ReauthsInProgress(e) = ReauthsInProgress(p)
    BY <1>3 DEF ActionsInProgress, ReauthsInProgress
  <2>3. ~control_code_request_occupies_phone(NoRequest)
    BY DEF control_code_request_occupies_phone, NoRequest
  <2>4. CodesInProgress(e) \subseteq CodesInProgress(p)
    BY <1>3, <2>3 DEF CodesInProgress
  <2>5. x \in Codes => ~ExpiredRequest(p, x)
    BY <1>1, <1>2, <1>5, <2>1 DEF FreshCode, ExpiredRequest
  <2>6. x \in CodesInProgress(p) => x \in CodesInProgress(e)
    BY <1>3, <2>5 DEF CodesInProgress
  <2> QED BY <2>1, <2>2, <2>4, <2>6 DEF Occupants
<1>6. Admitted(d, e)
  BY <1>5 DEF Admitted
<1> QED BY <1>4, <1>6 DEF cleanup_expired, e, p

LEMMA CancelKeeps ==
    ASSUME NEW d, IInv(d), QueueBacked(d), NEW granted
    PROVE  LET e == cancel_unstarted_vivi_reauth_for_owner([d EXCEPT !.owner = FALSE], granted) IN
           QueueBacked(e) /\ Admitted(d, e)
<1> DEFINE o == [d EXCEPT !.owner = FALSE]
           unstarted == {r \in Reauths : o.attempt[r].status \in {"queued", "pending"}}
           atts == [r \in Reauths |->
               IF r \in unstarted THEN [o.attempt[r] EXCEPT !.status = "failed"] ELSE o.attempt[r]]
           cmds == [x \in Ids |-> IF x \in unstarted THEN NoCommand ELSE o.command[x]]
           slot == IF o.intent.id \in unstarted THEN NoIntent ELSE o.intent
           e == [o EXCEPT
            !.intent = IF @.id \in unstarted THEN NoIntent ELSE @,
            !.command = [x \in Ids |-> IF x \in unstarted THEN NoCommand ELSE @[x]],
            !.attempt = [r \in Reauths |->
               IF r \in unstarted THEN [@[r] EXCEPT !.status = "failed"] ELSE @[r]]]
           whole == cancel_unstarted_vivi_reauth_for_owner(o, granted)
<1>0. /\ d \in DbType /\ o \in DbType
      /\ o.action = d.action /\ o.attempt = d.attempt /\ o.request = d.request
      /\ o.command = d.command /\ o.intent = d.intent /\ o.seen = d.seen
  BY DEF IInv, Rest, DbType
<1>1. whole = IF unstarted = {} THEN o ELSE promote_ticket_action_v3_queue(e, granted)
  BY DEF cancel_unstarted_vivi_reauth_for_owner
<1>2. SameIntent(d, o)
  BY <1>0 DEF SameIntent
<1>3. /\ atts \in [Reauths -> [status : ActionStatuses, revision : Nat]]
      /\ \A r \in Reauths : r \notin unstarted => atts[r] = d.attempt[r]
  BY <1>0 DEF DbType, ActionStatuses, Terminal
<1>4. /\ cmds \in [Ids -> [status : CommandStatuses, ttl : Nat]]
      /\ \A x \in Ids : x \notin unstarted => cmds[x] = d.command[x]
  BY <1>0 DEF DbType, NoCommand, CommandStatuses
<1>5. slot \in [id : Ids \cup {NoId}, ttl : Nat]
  BY <1>0 DEF DbType, NoIntent
<1>6. e = [o EXCEPT !.intent = slot, !.command = cmds, !.attempt = atts]
  OBVIOUS
<1>7. d.intent.id \notin unstarted => slot = d.intent
  BY <1>0
<1>8. d.intent.id \in unstarted => slot = NoIntent
  BY <1>0
<1> HIDE DEF o, unstarted, atts, cmds, slot, e
<1>9. /\ e \in DbType /\ e.seen = d.seen /\ e.intent = slot /\ e.command = cmds /\ e.attempt = atts
      /\ e.action = d.action /\ e.request = d.request
  BY <1>0, <1>3, <1>4, <1>5, <1>6 DEF DbType
<1>10. QueueBacked(e)
  <2>1. CASE d.intent.id \in unstarted
    BY <1>8, <1>9, <2>1 DEF QueueBacked, NoIntent
  <2>2. CASE d.intent.id \notin unstarted
    <3>1. SameIntent(d, e)
      BY <1>0, <1>3, <1>4, <1>7, <1>9, <2>2 DEF SameIntent, DbType, Ids
    <3> QED BY <3>1, SameIntentBacked
  <2> QED BY <2>1, <2>2
<1>11. QueueBacked(o) /\ Admitted(d, o)
  BY <1>0, <1>2, SameIntentBacked DEF Admitted
<1>12. QueueBacked(whole) /\ Admitted(d, whole)
  <2> HIDE DEF whole
  <2>1. CASE unstarted = {}
    BY <1>1, <1>11, <2>1
  <2>2. CASE unstarted # {}
    BY <1>1, <1>9, <1>10, <2>2, PromotedAfter
  <2> QED BY <2>1, <2>2
<1> QED BY <1>12 DEF o

-----------------------------------------------------------------------------
(* What every step keeps: the slot stays backed, and whatever the step     *)
(* gives to the phone is alone on it afterwards.                           *)
AdmitsAlone == \A x \in Ids \ Refreshes : x \notin seen /\ x \in seen' => Occupants(Db)' = {x}

LEMMA CommitKeeps ==
    ASSUME NEW t, t \in DbType, Commit(t), QueueBacked(t), Admitted(Db, t)
    PROVE  QueueBacked(Db)' /\ AdmitsAlone
<1>1. Db' = t
  BY DEF Commit, Db, DbType
<1>2. Db.seen = seen /\ t.seen = seen'
  BY DEF Db, Commit
<1>3. AdmitsAlone
  <2> SUFFICES ASSUME NEW x \in Ids \ Refreshes, x \notin seen, x \in seen' PROVE Occupants(Db') = {x}
    BY DEF AdmitsAlone
  <2>1. Occupants(t) = {x}
    BY <1>2 DEF Admitted
  <2> QED BY <1>1, <2>1
<1> QED BY <1>1, <1>3

(* A new command id: neither the slot nor the lane has changed.            *)
LEMMA ReceivedKeeps ==
    ASSUME IInv(Db), QueueBacked(Db), NEW x \in Ids \ Schedules, NewCommand(x)
    PROVE  /\ Received(x) \in DbType /\ QueueBacked(Received(x)) /\ Received(x).seen = seen
           /\ Occupants(Received(x)) = Occupants(Db) /\ Received(x).command[x].status = "none"
           /\ Received(x).intent.id # x
<1> DEFINE e == Received(x)
<1>1. /\ e \in DbType /\ e.command[x].status = "none" /\ e.intent.id # x
  BY ReceivedInv DEF IInv, Rest
<1>2. /\ e.action = Db.action /\ e.attempt = Db.attempt /\ e.request = Db.request
      /\ e.command = Db.command /\ e.intent = Db.intent /\ e.seen = seen
  BY DEF Received, Db
<1> HIDE DEF e
<1>3. SameIntent(Db, e)
  BY <1>2 DEF SameIntent
<1>4. QueueBacked(e)
  BY <1>3, SameIntentBacked
<1>5. Occupants(e) = Occupants(Db)
  BY <1>2 DEF Occupants, ActionsInProgress, ReauthsInProgress, CodesInProgress
<1> QED BY <1>1, <1>2, <1>4, <1>5 DEF e

(* queue_phone_intent writes the three rows at once.                       *)
LEMMA QueueKeeps ==
    ASSUME NEW d, d \in DbType, NEW x \in Ids
    PROVE  QueueBacked(queue_phone_intent(d, x)) /\ queue_phone_intent(d, x).seen = d.seen
<1> DEFINE e == queue_phone_intent(d, x)
<1>0. /\ CommandTTL(x) \in Nat
      /\ x \in Actions => x \notin Reauths /\ x \notin Codes
      /\ x \in Reauths => x \notin Actions /\ x \notin Codes
      /\ x \in Codes => x \notin Actions /\ x \notin Reauths
      /\ x \in Codes => CommandTTL(x) <= RequestTTL
  BY TimeoutsAreNat, TTLAssumption, IdAssumption DEF Ids, CommandTTL
<1>1. /\ e.command[x] = [status |-> "queued", ttl |-> CommandTTL(x)]
      /\ e.intent = [id |-> x, ttl |-> CommandTTL(x)] /\ e.seen = d.seen
  BY DEF queue_phone_intent, DbType
<1>2. x \in Actions => e.action[x] = "queued"
  BY DEF queue_phone_intent, DbType
<1>3. x \in Reauths => e.attempt[x].status = "queued"
  BY <1>0 DEF queue_phone_intent, DbType
<1>4. x \in Codes => e.request[x] = insert_control_code_public_request
  BY <1>0 DEF queue_phone_intent, DbType
<1>5. insert_control_code_public_request.status = "queued" /\ insert_control_code_public_request.ttl = RequestTTL
  BY DEF insert_control_code_public_request, NoRequest
<1> HIDE DEF e
<1> QED BY <1>0, <1>1, <1>2, <1>3, <1>4, <1>5 DEF e, QueueBacked, IsBacked

LEMMA MemberKeeps ==
    ASSUME IInv(Db), QueueBacked(Db), MemberStep
    PROVE  QueueBacked(Db)' /\ AdmitsAlone
<1>0. \A e : e.seen = seen => Admitted(Db, e)
  BY DEF Admitted, Db
<1>1. ASSUME NEW x \in Ids \ Schedules, NewCommand(x), NEW t, t \in DbType, Commit(t),
             Admitted(Received(x), t), SameIntent(Received(x), t)
      PROVE  QueueBacked(Db)' /\ AdmitsAlone
  <2>1. QueueBacked(Received(x)) /\ Received(x).seen = seen
    BY <1>1, ReceivedKeeps
  <2>2. QueueBacked(t)
    BY <1>1, <2>1, SameIntentBacked
  <2>3. Admitted(Db, t)
    BY <1>1, <2>1 DEF Admitted, Db
  <2> QED BY <1>1, <2>2, <2>3, CommitKeeps
<1>2. ASSUME NEW x \in Ids \ Schedules, NewCommand(x), Commit(queue_phone_intent(Received(x), x)),
             x \in Reauths => owner /\ configured
      PROVE  QueueBacked(Db)' /\ AdmitsAlone
  <2> DEFINE t == queue_phone_intent(Received(x), x)
  <2>1. IInv(t)
    BY <1>2, ReceivedInv, QueueInv
  <2>2. QueueBacked(t) /\ t.seen = seen
    BY <1>2, ReceivedKeeps, QueueKeeps
  <2>3. Commit(t)
    BY <1>2
  <2> HIDE DEF t
  <2> QED BY <1>0, <2>1, <2>2, <2>3, CommitKeeps DEF IInv, Rest
<1>3. ASSUME NEW x \in Ids \ Schedules, NewCommand(x), ~ticket_phone_mutation_lane_conflict(Db)
      PROVE  Occupants(Received(x)) = {}
  BY <1>3, ReceivedKeeps, Occupied
<1>4. ASSUME NEW a \in Actions, NEW granted \in BOOLEAN, RequestTicketAction(a, granted)
      PROVE  QueueBacked(Db)' /\ AdmitsAlone
  <2> DEFINE t == request_ticket_action_v3(Received(a), a, granted)
  <2>1. a \in Ids \ Schedules /\ NewCommand(a) /\ ~ticket_phone_mutation_lane_conflict(Db) /\ Commit(t)
    BY <1>4 DEF RequestTicketAction, Ids
  <2>2. IInv(t)
    BY <2>1, ReceivedInv, RequestActionInv
  <2>3. Admitted(Received(a), t) /\ SameIntent(Received(a), t)
    BY <1>3, <2>1, ReceivedKeeps, ActionAdmitted
  <2> HIDE DEF t
  <2> QED BY <1>1, <2>1, <2>2, <2>3 DEF IInv, Rest
<1>5. ASSUME NEW a \in Actions, QueueTicketAction(a) PROVE QueueBacked(Db)' /\ AdmitsAlone
  BY <1>2, <1>5, IdAssumption DEF QueueTicketAction, Ids
<1>6. ASSUME NEW r \in Reauths, OwnerRequestViviReauth(r) PROVE QueueBacked(Db)' /\ AdmitsAlone
  <2> DEFINE t == admit_vivi_reauth(Received(r), r)
  <2>1. /\ r \in Ids \ Schedules /\ NewCommand(r) /\ ~ticket_phone_mutation_lane_conflict(Db) /\ Commit(t)
        /\ owner /\ configured
    BY <1>6, IdAssumption DEF OwnerRequestViviReauth, Ids
  <2>2. IInv(t)
    BY <2>1, ReceivedInv, AdmitReauthInv
  <2>3. Admitted(Received(r), t) /\ SameIntent(Received(r), t)
    BY <1>3, <2>1, ReceivedKeeps, ReauthAdmitted
  <2> HIDE DEF t
  <2> QED BY <1>1, <2>1, <2>2, <2>3 DEF IInv, Rest
<1>7. ASSUME NEW r \in Reauths, QueueViviReauth(r) PROVE QueueBacked(Db)' /\ AdmitsAlone
  BY <1>2, <1>7, IdAssumption DEF QueueViviReauth, Ids
<1>8. ASSUME NEW c \in Codes, RequestControlCode(c) PROVE QueueBacked(Db)' /\ AdmitsAlone
  <2> DEFINE t == admit_control_code_request(Received(c), c)
  <2>1. c \in Ids \ Schedules /\ NewCommand(c) /\ ~ticket_phone_mutation_lane_conflict(Db) /\ Commit(t)
    BY <1>8, IdAssumption DEF RequestControlCode, Ids
  <2>2. IInv(t)
    BY <2>1, ReceivedInv, AdmitCodeInv
  <2>3. Admitted(Received(c), t) /\ SameIntent(Received(c), t)
    BY <1>3, <2>1, ReceivedKeeps, CodeAdmitted
  <2> HIDE DEF t
  <2> QED BY <1>1, <2>1, <2>2, <2>3 DEF IInv, Rest
<1>9. ASSUME NEW c \in Codes, QueueControlCode(c) PROVE QueueBacked(Db)' /\ AdmitsAlone
  BY <1>2, <1>9, IdAssumption DEF QueueControlCode, Ids
<1>10. ASSUME NEW c \in Codes, ConfirmBrowserCapture(c) \/ CloseControlCode(c)
       PROVE  QueueBacked(Db)' /\ AdmitsAlone
  <2>1. /\ c \in seen /\ UNCHANGED <<action, attempt, command, intent, seen>>
        /\ \A i \in Codes : i # c => request'[i] = request[i]
    <3>1. request \in [Codes -> RequestRow]
      BY DEF IInv, Rest, DbType, Db
    <3> QED BY <1>10, <3>1 DEF ConfirmBrowserCapture, CloseControlCode
  <2>2. intent.id # NoId => intent.id \notin seen
    BY DEF IInv, Rest, Provenance, Db
  <2>3. SameIntent(Db, Db')
    BY <2>1, <2>2 DEF SameIntent, Db
  <2>4. QueueBacked(Db')
    BY <2>3, SameIntentBacked
  <2> QED BY <2>1, <2>4 DEF AdmitsAlone
<1> QED BY <1>4, <1>5, <1>6, <1>7, <1>8, <1>9, <1>10 DEF MemberStep

(* A due re-detection is admitted over an empty lane; the activation-      *)
(* expiry reset is the one that is not asked to be alone.                  *)
LEMMA TriggerKeeps ==
    ASSUME IInv(Db), QueueBacked(Db), NEW s \in Actions, TriggerScheduled(s)
    PROVE  QueueBacked(Db)' /\ AdmitsAlone
<1> DEFINE d == Db
           t == insert_stream_command([d EXCEPT !.action[s] = "pending"], s)
<1>1. /\ s \in Schedules /\ d.action[s] = "none" /\ s \in Ids /\ d \in DbType
      /\ s \in Refreshes \/ ~ticket_phone_mutation_lane_conflict(d)
  BY DEF TriggerScheduled, Schedules, Db, Ids, IInv, Rest
<1>2. Commit(t)
  BY DEF TriggerScheduled
<1>3. d.command[s].status = "none" /\ d.intent.id # s
  BY <1>1, IdAssumption DEF IInv, Rest, Provenance
<1>4. s \in Refreshes \/ Occupants(d) = {}
  BY <1>1, Occupied
<1> HIDE DEF d
<1>5. /\ t \in DbType /\ t.seen = d.seen \cup {s} /\ t.intent = d.intent /\ t.attempt = d.attempt
      /\ t.request = d.request /\ t.action = [d.action EXCEPT ![s] = "pending"]
      /\ t.command = [d.command EXCEPT ![s] = [status |-> "pending", ttl |-> CommandTTL(s)]]
  BY <1>1, <1>3, TimeoutsAreNat DEF insert_stream_command, DbType, ActionStatuses, LaneStatuses, CommandStatuses
<1> HIDE DEF t
<1>6. SameIntent(d, t)
  BY <1>1, <1>3, <1>5 DEF SameIntent, DbType
<1>7. Admitted(d, t)
  <2>1. CASE s \in Refreshes
    BY <1>5, <2>1 DEF Admitted
  <2>2. CASE Occupants(d) = {}
    <3>1. Occupants(t) = {s}
      BY <1>1, <1>5, <2>2 DEF Occupants, ActionsInProgress, ReauthsInProgress, CodesInProgress,
         DbType, LaneStatuses
    <3> QED BY <1>5, <3>1 DEF Admitted
  <2> QED BY <1>4, <2>1, <2>2
<1>8. QueueBacked(t)
  BY <1>6, SameIntentBacked DEF d
<1> QED BY <1>2, <1>5, <1>7, <1>8, CommitKeeps DEF d

(* The phone reports on what it has been shown, never on what waits.       *)
LEMMA ProgressKeeps ==
    ASSUME IInv(Db), QueueBacked(Db), PhoneProgress
    PROVE  QueueBacked(Db)' /\ AdmitsAlone
<1>1. /\ intent.id # NoId => intent.id \notin seen
      /\ action \in [Actions -> ActionStatuses]
      /\ attempt \in [Reauths -> [status : ActionStatuses, revision : Nat]]
      /\ command \in [Ids -> [status : CommandStatuses, ttl : Nat]]
      /\ intent.id \in Ids \cup {NoId}
  BY DEF IInv, Rest, Provenance, DbType, Db
<1>2. /\ UNCHANGED <<request, intent, seen>>
      /\ \A i \in Actions : i \notin seen => action'[i] = action[i]
      /\ \A i \in Reauths : i \notin seen => attempt'[i] = attempt[i]
      /\ \A i \in Ids : i \notin seen => command'[i] = command[i]
  <2>1. ASSUME NEW x \in Ids, DispatchStreamCommand(x)
        PROVE  /\ UNCHANGED <<request, intent, seen, action, attempt>>
               /\ \A i \in Ids : i \notin seen => command'[i] = command[i]
    BY <1>1, <2>1 DEF DispatchStreamCommand
  <2>2. ASSUME NEW a \in Actions, NEW status \in LaneStatuses, UpdateTicketAction(a, status)
        PROVE  /\ UNCHANGED <<request, intent, seen, attempt, command>>
               /\ \A i \in Actions : i \notin seen => action'[i] = action[i]
    BY <1>1, <2>2 DEF UpdateTicketAction
  <2>3. ASSUME NEW r \in Reauths, ClaimViviReauth(r)
        PROVE  /\ UNCHANGED <<request, intent, seen, action, command>>
               /\ \A i \in Reauths : i \notin seen => attempt'[i] = attempt[i]
    BY <1>1, <2>3 DEF ClaimViviReauth
  <2> QED BY <2>1, <2>2, <2>3 DEF PhoneProgress
<1>3. SameIntent(Db, Db')
  BY <1>1, <1>2 DEF SameIntent, Db
<1>4. QueueBacked(Db')
  BY <1>3, SameIntentBacked
<1> QED BY <1>2, <1>4 DEF AdmitsAlone

(* The row of a code the phone has been shown, or the result of a          *)
(* re-authentication it has claimed, is not what waits in the slot.        *)
LEMMA RequestRowKeeps ==
    ASSUME IInv(Db), QueueBacked(Db), NEW c \in Codes, NEW row \in RequestRow, c \in seen
    PROVE  LET f == [Db EXCEPT !.request[c] = row] IN
           IInv(f) /\ f.seen = seen /\ QueueBacked(f) /\ f \in DbType
<1> DEFINE f == [Db EXCEPT !.request[c] = row]
<1>0. Db.seen = seen /\ Db \in DbType /\ (Db.intent.id # NoId => Db.intent.id \notin seen)
  BY DEF Db, IInv, Rest, Provenance
<1>1. IInv(f) /\ f.seen = seen
  BY <1>0, OneRequestRowInv
<1>2. /\ f.intent = Db.intent /\ f.attempt = Db.attempt /\ f.action = Db.action /\ f.command = Db.command
      /\ \A i \in Codes : i # c => f.request[i] = Db.request[i]
  BY <1>0 DEF DbType
<1> HIDE DEF f
<1>3. SameIntent(Db, f)
  BY <1>0, <1>2 DEF SameIntent
<1>4. f \in DbType /\ QueueBacked(f)
  BY <1>1, <1>3, SameIntentBacked DEF IInv, Rest
<1> QED BY <1>1, <1>4 DEF f

LEMMA FinishReauthKeeps ==
    ASSUME IInv(Db), QueueBacked(Db), NEW r \in Reauths, NEW status \in Terminal, r \in seen
    PROVE  LET f == [Db EXCEPT !.attempt[r].status = status] IN
           /\ IInv(f) /\ f.seen = seen /\ QueueBacked(f)
           /\ f.action = Db.action /\ f.command = Db.command /\ f.receipt = Db.receipt
<1> DEFINE f == [Db EXCEPT !.attempt[r].status = status]
<1>0. Db.seen = seen /\ Db \in DbType /\ (Db.intent.id # NoId => Db.intent.id \notin seen)
  BY DEF Db, IInv, Rest, Provenance
<1>1. IInv(f) /\ f.seen = seen
  BY <1>0, FinishReauthInv
<1>2. /\ f.intent = Db.intent /\ f.request = Db.request /\ f.action = Db.action /\ f.command = Db.command
      /\ f.receipt = Db.receipt
      /\ \A i \in Reauths : i # r => f.attempt[i] = Db.attempt[i]
  BY <1>0 DEF DbType
<1> HIDE DEF f
<1>3. SameIntent(Db, f)
  BY <1>0, <1>2 DEF SameIntent
<1> QED BY <1>1, <1>2, <1>3, SameIntentBacked DEF f

LEMMA PhoneKeeps ==
    ASSUME IInv(Db), QueueBacked(Db), PhoneStep
    PROVE  QueueBacked(Db)' /\ AdmitsAlone
<1>0. /\ Db.seen = seen /\ Db.action = action /\ Db.history = history /\ Db.request = request
      /\ Db \in DbType /\ (Db.intent.id # NoId => Db.intent.id \notin seen)
  BY DEF Db, IInv, Rest, Provenance
<1>1. ASSUME NEW f, f \in DbType, f.seen = seen, QueueBacked(f), NEW granted,
             IInv(promote_ticket_action_v3_queue(f, granted)),
             Commit(promote_ticket_action_v3_queue(f, granted))
      PROVE  QueueBacked(Db)' /\ AdmitsAlone
  BY <1>0, <1>1, PromotedAfter, CommitKeeps DEF IInv, Rest
<1>2. ASSUME NEW f, IInv(f), f.seen = seen, QueueBacked(f), NEW x \in Ids, x \in f.seen, NEW granted,
             NEW status \in {"acknowledged", "failed", "expired"},
             Commit(update_stream_command_status(f, x, status, granted))
      PROVE  QueueBacked(Db)' /\ AdmitsAlone
  <2> DEFINE t == update_stream_command_status(f, x, status, granted)
  <2>1. IInv(t) /\ QueueBacked(t) /\ Admitted(f, t) /\ Commit(t)
    BY <1>2, UpdateStatusInv, UpdateStatusKeeps
  <2> HIDE DEF t
  <2>2. Admitted(Db, t)
    BY <1>0, <1>2, <2>1 DEF Admitted
  <2> QED BY <2>1, <2>2, CommitKeeps DEF IInv, Rest
<1>3. ASSUME NEW granted, NEW x \in Ids, NEW status \in {"acknowledged", "failed", "expired"},
             AckStreamCommand(x, status, granted)
      PROVE  QueueBacked(Db)' /\ AdmitsAlone
  BY <1>0, <1>2, <1>3 DEF AckStreamCommand
<1>4. ASSUME NEW granted, NEW a \in Actions, NEW status \in Terminal,
             FinalizeTicketAction(a, status, granted)
      PROVE  QueueBacked(Db)' /\ AdmitsAlone
  <2> DEFINE f == Finalized(Db, a, status)
  <2>0. a \in seen /\ a \in Ids /\ a \in Db.seen /\ Db.action[a] \in LaneStatuses
    BY <1>0, <1>4 DEF FinalizeTicketAction, Ids
  <2>1. IInv(f)
    BY <2>0, FinalizeInv
  <2>2. Commit(promote_ticket_action_v3_queue(f, granted))
    BY <1>0, <1>4 DEF FinalizeTicketAction, Finalized
  <2>3. /\ f.seen = seen /\ f.intent = Db.intent /\ f.request = Db.request /\ f.attempt = Db.attempt
        /\ \A i \in Actions : i # a => f.action[i] = Db.action[i]
        /\ \A i \in Ids : i # a => f.command[i] = Db.command[i]
    BY <1>0 DEF DbType, Finalized
  <2> HIDE DEF f
  <2>4. SameIntent(Db, f)
    BY <1>0, <2>0, <2>3 DEF SameIntent, DbType
  <2> QED BY <1>1, <2>1, <2>2, <2>3, <2>4, SameIntentBacked, PromoteInv DEF IInv, Rest
<1>5. ASSUME NEW granted, NEW r \in Reauths, NEW status \in Terminal,
             FinishViviReauth(r, status, granted)
      PROVE  QueueBacked(Db)' /\ AdmitsAlone
  <2> DEFINE f == [Db EXCEPT !.attempt[r].status = status]
  <2>1. r \in seen /\ r \in Ids
    BY <1>5 DEF FinishViviReauth, Ids
  <2>2. IInv(f) /\ f.seen = seen /\ QueueBacked(f)
    BY <2>1, FinishReauthKeeps
  <2>3. Commit(update_stream_command_status(f, r, "acknowledged", granted))
    BY <1>5 DEF FinishViviReauth
  <2> HIDE DEF f
  <2> QED BY <1>2, <2>1, <2>2, <2>3
<1>7. ASSUME NEW granted, NEW c \in Codes, NEW next \in ControlCodeUpdates(request[c]),
             UpdateControlCode(c, next, granted)
      PROVE  QueueBacked(Db)' /\ AdmitsAlone
  <2> DEFINE f == [Db EXCEPT !.request[c] = next]
  <2>1. request[c] \in RequestRow
    BY <1>0 DEF DbType
  <2>2. next \in RequestRow /\ c \in seen /\ c \in Ids
    BY <1>7, <2>1, UpdatedRequestType DEF UpdateControlCode, Ids
  <2>3. IInv(f) /\ f.seen = seen /\ QueueBacked(f) /\ f \in DbType
    BY <2>2, RequestRowKeeps
  <2>4. Commit(f) \/ Commit(update_stream_command_status(f, c, "acknowledged", granted))
    BY <1>7 DEF UpdateControlCode
  <2> HIDE DEF f
  <2>5. Admitted(Db, f)
    BY <1>0, <2>3 DEF Admitted
  <2> QED BY <1>2, <2>2, <2>3, <2>4, <2>5, CommitKeeps
<1>8. ASSUME NEW granted, NEW c \in Codes, CompleteControlCodeCleanup(c, granted)
      PROVE  QueueBacked(Db)' /\ AdmitsAlone
  <2> DEFINE row == [request[c] EXCEPT !.capture = FALSE, !.cleanup = FALSE,
                                       !.done = TRUE, !.ttl = ResultTTL]
             f == [Db EXCEPT !.request[c] = row]
  <2>1. row \in RequestRow
    <3>1. request[c] \in RequestRow
      BY <1>0 DEF DbType
    <3>2. QED
      BY <3>1, TimeoutsAreNat DEF RequestRow
  <2>2. Commit(promote_ticket_action_v3_queue(f, granted)) /\ c \in seen
    BY <1>0, <1>8 DEF CompleteControlCodeCleanup
  <2> HIDE DEF row
  <2>3. IInv(f) /\ f.seen = seen /\ QueueBacked(f) /\ f \in DbType
    BY <2>1, <2>2, RequestRowKeeps
  <2> HIDE DEF f
  <2> QED BY <1>1, <2>2, <2>3, PromoteInv
<1>9. ASSUME NEW granted, OtherCommandSettled(granted) PROVE QueueBacked(Db)' /\ AdmitsAlone
  BY <1>0, <1>1, <1>9, PromoteInv DEF OtherCommandSettled
<1> QED BY <1>3, <1>4, <1>5, <1>7, <1>8, <1>9 DEF PhoneStep

(* An intent and its placeholder run out together, before a code's row.    *)
LEMMA TickKeeps ==
    ASSUME IInv(Db), QueueBacked(Db), Tick
    PROVE  QueueBacked(Db)' /\ AdmitsAlone
<1>1. \A m, n \in Nat : m <= n => Countdown(m) <= Countdown(n)
  BY DEF Countdown
<1>2. /\ command \in [Ids -> [status : CommandStatuses, ttl : Nat]]
      /\ intent \in [id : Ids \cup {NoId}, ttl : Nat] /\ request \in [Codes -> RequestRow]
  BY DEF IInv, Rest, DbType, Db
<1>3. UNCHANGED <<action, attempt, seen>>
  BY DEF Tick
<1>4. /\ intent'.id = intent.id /\ intent'.ttl = Countdown(intent.ttl)
      /\ \A x \in Ids : command'[x] = [command[x] EXCEPT !.ttl = Countdown(command[x].ttl)]
      /\ \A c \in Codes : /\ request'[c].status = request[c].status
                          /\ request'[c].ttl = Countdown(request[c].ttl)
                          /\ request[c].ttl \in Nat
  BY <1>2 DEF Tick, RequestRow
<1>5. SUFFICES ASSUME intent.id # NoId PROVE IsBacked(Db', intent')
  <2>1. Db'.intent = intent'
    BY DEF Db
  <2>2. AdmitsAlone
    BY <1>3 DEF AdmitsAlone
  <2> QED BY <1>4, <2>1, <2>2 DEF QueueBacked
<1>6. IsBacked(Db, intent)
  BY <1>5 DEF QueueBacked, Db
<1>7. /\ command[intent.id] = [status |-> "queued", ttl |-> intent.ttl]
      /\ intent.id \in Actions => action[intent.id] = "queued"
      /\ intent.id \in Reauths => attempt[intent.id].status = "queued"
      /\ intent.id \in Codes => request[intent.id].status = "queued" /\ intent.ttl <= request[intent.id].ttl
  BY <1>6 DEF IsBacked, Db
<1>8. intent.id \in Ids /\ intent.ttl \in Nat
  BY <1>2, <1>5
<1>9. command'[intent.id] = [status |-> "queued", ttl |-> intent'.ttl]
  BY <1>4, <1>7, <1>8
<1>10. intent.id \in Codes => request'[intent.id].status = "queued" /\ intent'.ttl <= request'[intent.id].ttl
  BY <1>1, <1>4, <1>7, <1>8
<1>11. /\ Db'.command = command' /\ Db'.action = action /\ Db'.attempt = attempt /\ Db'.request = request'
  BY <1>3 DEF Db
<1> QED BY <1>4, <1>7, <1>9, <1>10, <1>11 DEF IsBacked

LEMMA AuthorityKeeps ==
    ASSUME IInv(Db), QueueBacked(Db), AuthorityStep
    PROVE  QueueBacked(Db)' /\ AdmitsAlone
<1>1. ASSUME NEW granted, RevokeOwner(granted) PROVE QueueBacked(Db)' /\ AdmitsAlone
  <2> DEFINE t == cancel_unstarted_vivi_reauth_for_owner([Db EXCEPT !.owner = FALSE], granted)
  <2>1. IInv(t) /\ QueueBacked(t) /\ Admitted(Db, t) /\ Commit(t)
    BY <1>1, CancelInv, CancelKeeps DEF RevokeOwner
  <2> HIDE DEF t
  <2> QED BY <2>1, CommitKeeps DEF IInv, Rest
<1>2. ASSUME \/ GrantOwner
             \/ \E keep \in BOOLEAN : ReplaceViviCredentials(keep)
             \/ BeginColdRestart \/ ReleaseColdRestart
      PROVE  QueueBacked(Db)' /\ AdmitsAlone
  <2>1. UNCHANGED <<action, attempt, request, command, intent, seen>>
    BY <1>2 DEF GrantOwner, ReplaceViviCredentials, BeginColdRestart, ReleaseColdRestart
  <2>2. SameIntent(Db, Db')
    BY <2>1 DEF SameIntent, Db
  <2>3. QueueBacked(Db')
    BY <2>2, SameIntentBacked
  <2> QED BY <2>1, <2>3 DEF AdmitsAlone
<1> QED BY <1>1, <1>2 DEF AuthorityStep

LEMMA StepKeeps ==
    ASSUME IInv(Db), QueueBacked(Db), [Next]_vars
    PROVE  QueueBacked(Db)' /\ AdmitsAlone
<1>1. ASSUME NEW granted, CleanupExpired(granted) PROVE QueueBacked(Db)' /\ AdmitsAlone
  <2> DEFINE t == cleanup_expired(Db, granted)
  <2>1. IInv(t) /\ QueueBacked(t) /\ Admitted(Db, t) /\ Commit(t)
    BY <1>1, CleanupInv, CleanupKeeps DEF CleanupExpired
  <2> HIDE DEF t
  <2> QED BY <2>1, CommitKeeps DEF IInv, Rest
<1>2. CASE UNCHANGED vars
  <2>1. Db' = Db /\ seen' = seen
    BY <1>2 DEF vars, Db
  <2> QED BY <2>1 DEF AdmitsAlone
<1> QED BY <1>1, <1>2, MemberKeeps, PhoneKeeps, ProgressKeeps, AuthorityKeeps, TriggerKeeps, TickKeeps
        DEF Next, Cleanup

LEMMA QueueInvariance == Spec => [](IInv(Db) /\ QueueBacked(Db))
<1>1. Init => QueueBacked(Db)
  BY DEF Init, Db, QueueBacked, NoIntent
<1>2. IInv(Db) /\ QueueBacked(Db) /\ [Next]_vars => QueueBacked(Db)'
  BY StepKeeps
<1> QED BY <1>1, <1>2, InitInv, StepInv, PTL DEF Spec

(* The slot, the waiting row and the placeholder stay together through     *)
(* promotion, revocation and cleanup, and nothing waits or runs behind a   *)
(* cold restart.                                                           *)
THEOREM QueueSoundness == Spec => []QueueIsSound
<1>1. IInv(Db) /\ QueueBacked(Db) => QueueIsSound
  BY DEF IInv, Rest, QueueBacked, IsBacked, QueueIsSound, IntentIsBacked, ColdRestartIsQuiet, Db
<1> QED BY <1>1, QueueInvariance, PTL

(* Whatever a step gives to the phone, directly, from the queue or from a  *)
(* schedule, is the only occupant of the lane afterwards.                  *)
THEOREM AdmissionIsAlone == Spec => SoleAdmission
<1>1. IInv(Db) /\ QueueBacked(Db) /\ [Next]_vars
        => [\A x \in Ids \ Refreshes : x \notin seen /\ x \in seen' => Occupants(Db)' = {x}]_vars
  BY StepKeeps DEF AdmitsAlone
<1> QED BY <1>1, QueueInvariance, PTL DEF Spec, SoleAdmission
-----------------------------------------------------------------------------
(* What a step may never undo.  Lasts(d, e): between the tables d and e no *)
(* result has changed, nothing the phone had been shown is waiting again   *)
(* and no receipt is forgotten; an action that has left a trace only in e  *)
(* has a receipt there.  The relation is transitive, so it is shown for    *)
(* the table functions one by one.                                         *)
Lasts(d, e) ==
    /\ d.seen \subseteq e.seen /\ d.receipt \subseteq e.receipt
    /\ \A x \in d.seen : e.command[x].status \in {"queued", "pending"}
                            => e.command[x].status = d.command[x].status
    /\ \A a \in Actions :
         /\ d.action[a] \in Terminal => e.action[a] = d.action[a]
         /\ d.action[a] = "none" /\ e.action[a] # "none" => a \in e.receipt \cup Schedules

(* An action without a receipt has no row: the command id of a request is  *)
(* recorded in the transaction that first writes its row.                  *)
Traceless(d) == \A a \in Actions \ Schedules : a \notin d.receipt => d.action[a] = "none"

(* Between d and e only the rows of x are written, a new one for the phone *)
(* among them at most.                                                     *)
OnlyRowsOf(x, d, e) ==
    /\ e.seen \in {d.seen, d.seen \cup {x}} /\ e.receipt = d.receipt
    /\ \A i \in Ids : i # x => e.command[i] = d.command[i]
    /\ \A a \in Actions : a # x => e.action[a] = d.action[a]

LEMMA LastsIsTransitive ==
    ASSUME NEW d, NEW e, NEW f, Lasts(d, e), Lasts(e, f)
    PROVE  Lasts(d, f)
<1>1. \A a \in Actions : d.action[a] = "none" /\ f.action[a] # "none" => a \in f.receipt \cup Schedules
  BY DEF Lasts
<1>2. \A a \in Actions : d.action[a] \in Terminal => f.action[a] = d.action[a]
  BY DEF Lasts
<1>3. \A x \in d.seen : f.command[x].status \in {"queued", "pending"} => f.command[x].status = d.command[x].status
  BY DEF Lasts
<1> QED BY <1>1, <1>2, <1>3 DEF Lasts

(* The rows of an id the phone has not been shown in d may be written.     *)
LEMMA RowsOfLast ==
    ASSUME NEW d, NEW e, NEW f, Lasts(d, e), NEW x \in Ids, OnlyRowsOf(x, e, f), d.seen \subseteq Ids,
           x \notin d.seen,
           x \in Actions => /\ d.action[x] \notin Terminal
                            /\ d.action[x] = "none" => x \in e.receipt \cup Schedules
    PROVE  Lasts(d, f)
<1>1. d.seen \subseteq f.seen /\ d.receipt \subseteq f.receipt /\ f.receipt = e.receipt
  BY DEF Lasts, OnlyRowsOf
<1>2. \A i \in d.seen : f.command[i] = e.command[i]
  BY DEF OnlyRowsOf
<1>3. \A a \in Actions : a # x => f.action[a] = e.action[a]
  BY DEF OnlyRowsOf
<1>4. ASSUME NEW a \in Actions
      PROVE  /\ d.action[a] \in Terminal => f.action[a] = d.action[a]
             /\ d.action[a] = "none" /\ f.action[a] # "none" => a \in f.receipt \cup Schedules
  <2>1. CASE a = x
    BY <1>1, <2>1
  <2>2. CASE a # x
    BY <1>1, <1>3, <2>2 DEF Lasts
  <2> QED BY <2>1, <2>2
<1> QED BY <1>1, <1>2, <1>4 DEF Lasts

(* Admission and queueing write the rows of their own id.                  *)
LEMMA AdmissionRows ==
    ASSUME NEW d, d \in DbType, NEW x \in Ids, NEW granted
    PROVE  /\ OnlyRowsOf(x, d, insert_stream_command(d, x))
           /\ x \in Actions => OnlyRowsOf(x, d, request_ticket_action_v3(d, x, granted))
           /\ x \in Reauths => OnlyRowsOf(x, d, admit_vivi_reauth(d, x))
           /\ x \in Codes => OnlyRowsOf(x, d, admit_control_code_request(d, x))
           /\ OnlyRowsOf(x, d, queue_phone_intent(d, x))
<1>1. OnlyRowsOf(x, d, insert_stream_command(d, x))
  BY DEF insert_stream_command, OnlyRowsOf, DbType
<1>2. x \in Actions => OnlyRowsOf(x, d, request_ticket_action_v3(d, x, granted))
  <2>1. CASE ~granted
    BY <2>1 DEF request_ticket_action_v3, OnlyRowsOf, DbType
  <2>2. CASE granted
    BY <2>2 DEF request_ticket_action_v3, insert_stream_command, OnlyRowsOf, DbType
  <2> QED BY <2>1, <2>2
<1>3. x \in Reauths => OnlyRowsOf(x, d, admit_vivi_reauth(d, x))
  BY DEF admit_vivi_reauth, insert_stream_command, OnlyRowsOf, DbType
<1>4. x \in Codes => OnlyRowsOf(x, d, admit_control_code_request(d, x))
  BY DEF admit_control_code_request, insert_stream_command, OnlyRowsOf, DbType
<1>5. OnlyRowsOf(x, d, queue_phone_intent(d, x))
  BY DEF queue_phone_intent, OnlyRowsOf, DbType
<1> QED BY <1>1, <1>2, <1>3, <1>4, <1>5

(* A promotion writes the rows of the id in the slot.                      *)
LEMMA PromotionRows ==
    ASSUME NEW d, d \in DbType, NEW granted
    PROVE  \/ promote_ticket_action_v3_queue(d, granted) = d
           \/ /\ d.intent.id \in Ids
              /\ OnlyRowsOf(d.intent.id, d, promote_ticket_action_v3_queue(d, granted))
<1> DEFINE x == d.intent.id
           taken == [d EXCEPT !.intent = NoIntent, !.command[x] = NoCommand]
           e == promote_ticket_action_v3_queue(d, granted)
<1>1. CASE d.blocked \/ x = NoId
             \/ ticket_phone_mutation_lane_conflict_ignoring(d, IF x \in Codes THEN x ELSE NoId)
  BY <1>1 DEF promote_ticket_action_v3_queue
<1>2. CASE ~(d.blocked \/ x = NoId
             \/ ticket_phone_mutation_lane_conflict_ignoring(d, IF x \in Codes THEN x ELSE NoId))
  <2>1. x \in Ids
    BY <1>2 DEF DbType
  <2>2. /\ taken \in DbType /\ taken.seen = d.seen /\ taken.receipt = d.receipt /\ taken.action = d.action
        /\ \A i \in Ids : i # x => taken.command[i] = d.command[i]
    BY <2>1 DEF DbType, NoIntent, NoCommand, CommandStatuses
  <2>3. ASSUME OnlyRowsOf(x, taken, e) PROVE OnlyRowsOf(x, d, e)
    <3> HIDE DEF taken, e
    <3> QED BY <2>2, <2>3 DEF OnlyRowsOf
  <2>4. ASSUME NEW f, f.seen = taken.seen, f.receipt = taken.receipt, f.command = taken.command,
               f.action = taken.action, e = f
        PROVE  OnlyRowsOf(x, taken, e)
    <3> HIDE DEF taken, e
    <3> QED BY <2>4 DEF OnlyRowsOf
  <2>5. CASE x \in Reauths
    <3>1. e \in {taken, [taken EXCEPT !.attempt[x].status = "failed"], admit_vivi_reauth(taken, x)}
      BY <1>2, <2>5 DEF promote_ticket_action_v3_queue
    <3>2. CASE e = admit_vivi_reauth(taken, x)
      <4>1. OnlyRowsOf(x, taken, e)
        <5> HIDE DEF taken, x, e
        <5> QED BY <2>1, <2>2, <2>5, <3>2, AdmissionRows
      <4> QED BY <2>1, <2>3, <4>1
    <3>3. CASE e \in {taken, [taken EXCEPT !.attempt[x].status = "failed"]}
      <4>1. OnlyRowsOf(x, taken, e)
        <5> HIDE DEF taken, x, e
        <5> QED BY <2>2, <2>4, <3>3 DEF DbType
      <4> QED BY <2>1, <2>3, <4>1
    <3> QED BY <3>1, <3>2, <3>3
  <2>6. CASE x \in Codes
    <3>0. x \notin Reauths
      BY <2>6, IdAssumption
    <3>1. e \in {finish_queued_control_code_request(taken, x), admit_control_code_request(taken, x)}
      BY <1>2, <2>6, <3>0 DEF promote_ticket_action_v3_queue
    <3>2. CASE e = admit_control_code_request(taken, x)
      <4>1. OnlyRowsOf(x, taken, e)
        <5> HIDE DEF taken, x, e
        <5> QED BY <2>1, <2>2, <2>6, <3>2, AdmissionRows
      <4> QED BY <2>1, <2>3, <4>1
    <3>3. CASE e = finish_queued_control_code_request(taken, x)
      <4>1. OnlyRowsOf(x, taken, e)
        <5> HIDE DEF taken, x, e
        <5>1. /\ e.seen = taken.seen /\ e.receipt = taken.receipt /\ e.command = taken.command
              /\ e.action = taken.action
          BY <2>2, <3>3 DEF finish_queued_control_code_request, DbType
        <5> QED BY <2>4, <5>1
      <4> QED BY <2>1, <2>3, <4>1
    <3> QED BY <3>1, <3>2, <3>3
  <2>7. CASE x \in Actions
    <3>0. x \notin Reauths /\ x \notin Codes
      BY <2>7, IdAssumption
    <3>1. e = request_ticket_action_v3(taken, x, d.intent.ttl # 0 /\ granted)
      BY <1>2, <3>0 DEF promote_ticket_action_v3_queue
    <3>2. OnlyRowsOf(x, taken, e)
      <4> HIDE DEF taken, x, e
      <4> QED BY <2>1, <2>2, <2>7, <3>1, AdmissionRows
    <3> QED BY <2>1, <2>3, <3>2
  <2> QED BY <2>1, <2>5, <2>6, <2>7 DEF Ids
<1> QED BY <1>1, <1>2

(* What waits in the slot is unknown to the phone and has no result.       *)
Waiting(d, i) == i = NoId \/ (i \in Ids \ d.seen /\ (i \in Actions => d.action[i] = "queued"))

LEMMA SlotIsWaiting ==
    ASSUME NEW d, IInv(d), QueueBacked(d)
    PROVE  Waiting(d, d.intent.id) /\ d.seen \subseteq Ids /\ d \in DbType
BY DEF IInv, Rest, Provenance, QueueBacked, IsBacked, Waiting, DbType

LEMMA PromoteLasts ==
    ASSUME NEW d, d.seen \subseteq Ids, NEW e, e \in DbType, Lasts(d, e), Waiting(d, e.intent.id), NEW granted
    PROVE  Lasts(d, promote_ticket_action_v3_queue(e, granted))
<1> DEFINE f == promote_ticket_action_v3_queue(e, granted)
           x == e.intent.id
<1>1. f = e \/ (x \in Ids /\ OnlyRowsOf(x, e, f))
  BY PromotionRows
<1>2. NoId \notin Ids
  BY IdAssumption
<1> HIDE DEF f
<1>3. x \in Ids /\ OnlyRowsOf(x, e, f) => Lasts(d, f)
  BY <1>2, RowsOfLast DEF Waiting, Terminal
<1> QED BY <1>1, <1>3 DEF f

(* Commands that end: no row with a result is touched.                     *)
LEMMA InterruptLasts ==
    ASSUME NEW d, d \in DbType, NEW ended, NEW reauths \in SUBSET Reauths, reauths \subseteq ended,
           NEW c \in [Ids -> [status : CommandStatuses, ttl : Nat]],
           \A x \in Ids : c[x] = d.command[x] \/ (x \in ended /\ c[x].status \notin {"queued", "pending"})
    PROVE  /\ Interrupted(d, ended, reauths, c) \in DbType
           /\ Interrupted(d, ended, reauths, c).intent = d.intent
           /\ Lasts(d, Interrupted(d, ended, reauths, c))
<1> DEFINE e == Interrupted(d, ended, reauths, c)
           f == fail_ticket_action_v3_for_command(d, ended)
<1>0. \A x \in Ids : x \notin ended => c[x] = d.command[x]
  OBVIOUS
<1>1. e \in DbType /\ e.intent = d.intent /\ e.seen = d.seen
  BY <1>0, InterruptKeeps
<1>2. /\ f.receipt = d.receipt
      /\ \A a \in Actions : f.action[a] \in {d.action[a], InterruptedAction(d, a)}
  BY DEF fail_ticket_action_v3_for_command, DbType
<1>3. e = [InterruptReauths(f, reauths) EXCEPT !.command = c]
  BY DEF Interrupted
<1>4. DOMAIN f = DOMAIN d /\ d.seen \subseteq Ids
  BY DEF fail_ticket_action_v3_for_command, DbType
<1>5. e.receipt = f.receipt /\ e.action = f.action /\ e.command = c
  <2> HIDE DEF f
  <2>1. InterruptReauths(f, reauths).receipt = f.receipt /\ InterruptReauths(f, reauths).action = f.action
    BY <1>4 DEF InterruptReauths, DbType
  <2>2. DOMAIN InterruptReauths(f, reauths) = DOMAIN d
    BY <1>4 DEF InterruptReauths
  <2>3. {"command", "receipt", "action"} \subseteq DOMAIN d
    BY DEF DbType
  <2> QED BY <1>3, <2>1, <2>2, <2>3
<1> HIDE DEF e, f
<1>6. ASSUME NEW a \in Actions
      PROVE  /\ d.action[a] \in Terminal => e.action[a] = d.action[a]
             /\ d.action[a] = "none" => e.action[a] = "none"
  BY <1>2, <1>5 DEF InterruptedAction, Terminal, LaneStatuses
<1>7. \A x \in d.seen : e.command[x].status \in {"queued", "pending"} => e.command[x].status = d.command[x].status
  BY <1>4, <1>5
<1>8. Lasts(d, e)
  BY <1>1, <1>2, <1>5, <1>6, <1>7 DEF Lasts
<1> QED BY <1>1, <1>8 DEF e

LEMMA UpdateStatusLasts ==
    ASSUME NEW d, IInv(d), QueueBacked(d), NEW x \in Ids, NEW granted,
           NEW status \in {"acknowledged", "failed", "expired"}
    PROVE  Lasts(d, update_stream_command_status(d, x, status, granted))
<1> DEFINE f == InterruptReauths(fail_ticket_action_v3_for_command(d, {x}),
                                 {x} \cap UnfinishedReauths(d))
           row == IF status = "acknowledged" THEN NoCommand
                  ELSE [status |-> status, ttl |-> KeepTTL]
           c == [d.command EXCEPT ![x] = row]
           closed == [f EXCEPT !.command = c]
<1>0. Waiting(d, d.intent.id) /\ d.seen \subseteq Ids /\ d \in DbType
  BY SlotIsWaiting
<1>1. CASE d.command[x].status = "none"
  <2>1. update_stream_command_status(d, x, status, granted) = d
    BY <1>1 DEF update_stream_command_status
  <2> QED BY <2>1 DEF Lasts
<1>2. CASE d.command[x].status # "none"
  <2>1. /\ c \in [Ids -> [status : CommandStatuses, ttl : Nat]]
        /\ \A y \in Ids : c[y] = d.command[y] \/ (y \in {x} /\ c[y].status \notin {"queued", "pending"})
    BY <1>0, TimeoutsAreNat DEF DbType, NoCommand, CommandStatuses
  <2>2. f.command = d.command
    BY DEF InterruptReauths, fail_ticket_action_v3_for_command
  <2>3. [f EXCEPT !.command[x] = row] = closed
    BY <2>2
  <2>4. closed \in DbType /\ closed.intent = d.intent /\ Lasts(d, closed)
    <3>1. {x} \cap UnfinishedReauths(d) \in SUBSET Reauths /\ {x} \cap UnfinishedReauths(d) \subseteq {x}
      BY DEF UnfinishedReauths
    <3>2. closed = Interrupted(d, {x}, {x} \cap UnfinishedReauths(d), c)
      BY DEF Interrupted
    <3> HIDE DEF c, closed
    <3> QED BY <1>0, <2>1, <3>1, <3>2, InterruptLasts
  <2>5. update_stream_command_status(d, x, status, granted) = promote_ticket_action_v3_queue(closed, granted)
    BY <1>2, <2>3 DEF update_stream_command_status
  <2> HIDE DEF closed
  <2> QED BY <1>0, <2>4, <2>5, PromoteLasts
<1> QED BY <1>1, <1>2

LEMMA CleanupLasts ==
    ASSUME NEW d, IInv(d), QueueBacked(d), NEW granted
    PROVE  Lasts(d, cleanup_expired(d, granted))
<1> DEFINE ended == {x \in Ids : d.command[x].status # "none" /\ d.command[x].ttl = 0}
           stored == {r \in Reauths : d.attempt[r].status # "none"}
           f == InterruptReauths(fail_ticket_action_v3_for_command(d, ended), ended \cap stored)
           c == [x \in Ids |-> IF x \in ended THEN NoCommand ELSE d.command[x]]
           dropped == [f EXCEPT !.command = c]
           p == purge_expired_stream_commands(d, granted)
           e == purge_ticket_history(p)
<1>0. Waiting(d, d.intent.id) /\ d.seen \subseteq Ids /\ d \in DbType
  BY SlotIsWaiting
<1>1. /\ c \in [Ids -> [status : CommandStatuses, ttl : Nat]]
      /\ \A x \in Ids : c[x] = d.command[x] \/ (x \in ended /\ c[x].status \notin {"queued", "pending"})
  BY <1>0 DEF DbType, NoCommand, CommandStatuses
<1>2. dropped \in DbType /\ dropped.intent = d.intent /\ Lasts(d, dropped)
  <2>1. ended \cap stored \in SUBSET Reauths /\ ended \cap stored \subseteq ended
    OBVIOUS
  <2>2. dropped = Interrupted(d, ended, ended \cap stored, c)
    BY DEF Interrupted
  <2> HIDE DEF ended, stored, c, dropped
  <2> QED BY <1>0, <1>1, <2>1, <2>2, InterruptLasts
<1>3. p = IF ended = {} THEN d ELSE promote_ticket_action_v3_queue(dropped, granted)
  BY DEF purge_expired_stream_commands
<1>4. p \in DbType
  BY PurgeCommandsInv DEF IInv, Rest
<1> HIDE DEF dropped, ended, p
<1>5. Lasts(d, d)
  BY DEF Lasts
<1>6. Lasts(d, p)
  BY <1>0, <1>2, <1>3, <1>5, PromoteLasts
<1>7. e.action = p.action /\ e.command = p.command /\ e.seen = p.seen /\ e.receipt = p.receipt
  BY <1>4 DEF purge_ticket_history, DbType
<1> HIDE DEF e
<1>8. Lasts(d, e)
  BY <1>6, <1>7 DEF Lasts
<1> QED BY <1>8 DEF cleanup_expired, e, p

LEMMA CancelLasts ==
    ASSUME NEW d, IInv(d), QueueBacked(d), NEW granted
    PROVE  Lasts(d, cancel_unstarted_vivi_reauth_for_owner([d EXCEPT !.owner = FALSE], granted))
<1> DEFINE o == [d EXCEPT !.owner = FALSE]
           unstarted == {r \in Reauths : o.attempt[r].status \in {"queued", "pending"}}
           atts == [r \in Reauths |->
               IF r \in unstarted THEN [o.attempt[r] EXCEPT !.status = "failed"] ELSE o.attempt[r]]
           cmds == [x \in Ids |-> IF x \in unstarted THEN NoCommand ELSE o.command[x]]
           slot == IF o.intent.id \in unstarted THEN NoIntent ELSE o.intent
           e == [o EXCEPT !.intent = slot, !.command = cmds, !.attempt = atts]
           whole == cancel_unstarted_vivi_reauth_for_owner(o, granted)
<1>0. Waiting(d, d.intent.id) /\ d.seen \subseteq Ids /\ d \in DbType
  BY SlotIsWaiting
<1>1. /\ o \in DbType /\ o.action = d.action /\ o.attempt = d.attempt /\ o.receipt = d.receipt
      /\ o.command = d.command /\ o.intent = d.intent /\ o.seen = d.seen
  BY <1>0 DEF DbType
<1>2. whole = IF unstarted = {} THEN o ELSE promote_ticket_action_v3_queue(e, granted)
  BY DEF cancel_unstarted_vivi_reauth_for_owner
<1>3. atts \in [Reauths -> [status : ActionStatuses, revision : Nat]]
  BY <1>0, <1>1 DEF DbType, ActionStatuses, Terminal
<1>4. /\ cmds \in [Ids -> [status : CommandStatuses, ttl : Nat]]
      /\ \A x \in Ids : cmds[x] = d.command[x] \/ cmds[x].status = "none"
  BY <1>0, <1>1 DEF DbType, NoCommand, CommandStatuses
<1>5. slot \in [id : Ids \cup {NoId}, ttl : Nat] /\ slot.id \in {d.intent.id, NoId}
  BY <1>0, <1>1 DEF DbType, NoIntent
<1> HIDE DEF o, unstarted, atts, cmds, slot, whole
<1>6. /\ e \in DbType /\ e.seen = d.seen /\ e.intent = slot /\ e.command = cmds
      /\ e.action = d.action /\ e.receipt = d.receipt
  BY <1>1, <1>3, <1>4, <1>5 DEF DbType
<1> HIDE DEF e
<1>7. Lasts(d, o) /\ Lasts(d, e)
  BY <1>0, <1>1, <1>4, <1>6 DEF Lasts
<1>8. Waiting(d, e.intent.id)
  BY <1>0, <1>5, <1>6 DEF Waiting
<1>9. Lasts(d, whole)
  BY <1>0, <1>2, <1>6, <1>7, <1>8, PromoteLasts
<1> QED BY <1>9 DEF whole, o

(* A transaction's result is committed as it is.                           *)
LEMMA CommitLasts ==
    ASSUME NEW t, t \in DbType, Commit(t), Lasts(Db, t)
    PROVE  Lasts(Db, Db')
<1>1. Db' = t
  BY DEF Commit, Db, DbType
<1> QED BY <1>1

(* A new command: its id is recorded and only its own rows are written.    *)
LEMMA NewCommandLasts ==
    ASSUME IInv(Db), Traceless(Db), NEW x \in Ids \ Schedules, NewCommand(x),
           NEW t, t \in DbType, Commit(t), OnlyRowsOf(x, Received(x), t)
    PROVE  Lasts(Db, Db')
<1> DEFINE e == Received(x)
<1>1. /\ e.action = Db.action /\ e.command = Db.command /\ e.seen = Db.seen
      /\ e.receipt = Db.receipt \cup {x} /\ x \notin Db.receipt /\ Db.seen \subseteq Ids
  BY DEF Received, NewCommand, Db, IInv, Rest, DbType
<1>2. x \notin Db.seen
  BY <1>1, ReceivedInv
<1>3. x \in Actions => Db.action[x] = "none"
  BY <1>1 DEF Traceless
<1> HIDE DEF e
<1>4. Lasts(Db, e) /\ x \in e.receipt
  BY <1>1 DEF Lasts
<1>5. OnlyRowsOf(x, e, t)
  BY DEF e
<1>6. Lasts(Db, t)
  BY <1>1, <1>2, <1>3, <1>4, <1>5, RowsOfLast DEF Terminal
<1> QED BY <1>6, CommitLasts

LEMMA MemberLasts ==
    ASSUME IInv(Db), Traceless(Db), MemberStep
    PROVE  Lasts(Db, Db')
<1>1. ASSUME NEW x \in Ids \ Schedules, NewCommand(x)
      PROVE  Received(x) \in DbType /\ IInv(Received(x))
             /\ Received(x).owner = owner /\ Received(x).configured = configured
  BY <1>1, ReceivedInv DEF IInv, Rest
<1>2. ASSUME NEW x \in Ids \ Schedules, NewCommand(x), Commit(queue_phone_intent(Received(x), x)),
             x \in Reauths => owner /\ configured
      PROVE  Lasts(Db, Db')
  <2> DEFINE t == queue_phone_intent(Received(x), x)
  <2>1. IInv(t)
    BY <1>2, ReceivedInv, QueueInv
  <2>2. OnlyRowsOf(x, Received(x), t) /\ Commit(t)
    BY <1>1, <1>2, AdmissionRows
  <2> HIDE DEF t
  <2> QED BY <1>2, <2>1, <2>2, NewCommandLasts DEF IInv, Rest
<1>3. ASSUME NEW a \in Actions, NEW granted \in BOOLEAN, RequestTicketAction(a, granted)
      PROVE  Lasts(Db, Db')
  <2> DEFINE t == request_ticket_action_v3(Received(a), a, granted)
  <2>1. a \in Ids \ Schedules /\ NewCommand(a) /\ ~ticket_phone_mutation_lane_conflict(Db) /\ Commit(t)
    BY <1>3 DEF RequestTicketAction, Ids
  <2>2. IInv(t)
    BY <2>1, ReceivedInv, RequestActionInv
  <2>3. OnlyRowsOf(a, Received(a), t)
    BY <1>1, <2>1, AdmissionRows
  <2> HIDE DEF t
  <2> QED BY <2>1, <2>2, <2>3, NewCommandLasts DEF IInv, Rest
<1>4. ASSUME NEW r \in Reauths, OwnerRequestViviReauth(r) PROVE Lasts(Db, Db')
  <2> DEFINE t == admit_vivi_reauth(Received(r), r)
  <2>1. /\ r \in Ids \ Schedules /\ NewCommand(r) /\ ~ticket_phone_mutation_lane_conflict(Db) /\ Commit(t)
        /\ owner /\ configured
    BY <1>4, IdAssumption DEF OwnerRequestViviReauth, Ids
  <2>2. IInv(t)
    BY <2>1, ReceivedInv, AdmitReauthInv
  <2>3. OnlyRowsOf(r, Received(r), t)
    BY <1>1, <2>1, AdmissionRows
  <2> HIDE DEF t
  <2> QED BY <2>1, <2>2, <2>3, NewCommandLasts DEF IInv, Rest
<1>5. ASSUME NEW c \in Codes, RequestControlCode(c) PROVE Lasts(Db, Db')
  <2> DEFINE t == admit_control_code_request(Received(c), c)
  <2>1. c \in Ids \ Schedules /\ NewCommand(c) /\ ~ticket_phone_mutation_lane_conflict(Db) /\ Commit(t)
    BY <1>5, IdAssumption DEF RequestControlCode, Ids
  <2>2. IInv(t)
    BY <2>1, ReceivedInv, AdmitCodeInv
  <2>3. OnlyRowsOf(c, Received(c), t)
    BY <1>1, <2>1, AdmissionRows
  <2> HIDE DEF t
  <2> QED BY <2>1, <2>2, <2>3, NewCommandLasts DEF IInv, Rest
<1>6. ASSUME NEW a \in Actions, QueueTicketAction(a) PROVE Lasts(Db, Db')
  BY <1>2, <1>6, IdAssumption DEF QueueTicketAction, Ids
<1>7. ASSUME NEW r \in Reauths, QueueViviReauth(r) PROVE Lasts(Db, Db')
  BY <1>2, <1>7, IdAssumption DEF QueueViviReauth, Ids
<1>8. ASSUME NEW c \in Codes, QueueControlCode(c) PROVE Lasts(Db, Db')
  BY <1>2, <1>8, IdAssumption DEF QueueControlCode, Ids
<1>9. ASSUME NEW c \in Codes, ConfirmBrowserCapture(c) \/ CloseControlCode(c) PROVE Lasts(Db, Db')
  <2>1. UNCHANGED <<action, command, receipt, seen>>
    BY <1>9 DEF ConfirmBrowserCapture, CloseControlCode
  <2> QED BY <2>1 DEF Lasts, Db
<1> QED BY <1>3, <1>4, <1>5, <1>6, <1>7, <1>8, <1>9 DEF MemberStep

LEMMA TriggerLasts ==
    ASSUME IInv(Db), NEW s \in Actions, TriggerScheduled(s)
    PROVE  Lasts(Db, Db')
<1> DEFINE d == Db
           e == [d EXCEPT !.action[s] = "pending"]
           t == insert_stream_command(e, s)
<1>1. s \in Schedules /\ d.action[s] = "none" /\ s \in Ids /\ d \in DbType
  BY DEF TriggerScheduled, Schedules, Db, Ids, IInv, Rest
<1>2. Commit(t)
  BY DEF TriggerScheduled
<1>3. d.command[s].status = "none" /\ s \notin d.seen /\ d.seen \subseteq Ids
  BY <1>1 DEF IInv, Rest, Provenance, DbType
<1> HIDE DEF d
<1>4. /\ e \in DbType /\ e.seen = d.seen /\ e.receipt = d.receipt /\ e.command = d.command
      /\ e.action = [d.action EXCEPT ![s] = "pending"]
  BY <1>1 DEF DbType, ActionStatuses, LaneStatuses
<1> HIDE DEF e
<1>5. OnlyRowsOf(s, e, t)
  BY <1>1, <1>4, AdmissionRows
<1>6. t \in DbType
  BY <1>1, <1>4, TimeoutsAreNat DEF insert_stream_command, DbType, CommandStatuses
<1> HIDE DEF t
<1>7. OnlyRowsOf(s, d, t)
  BY <1>1, <1>4, <1>5 DEF OnlyRowsOf, DbType
<1>8. Lasts(d, d)
  BY DEF Lasts
<1>9. Lasts(d, t)
  BY <1>1, <1>3, <1>7, <1>8, RowsOfLast DEF Terminal
<1> QED BY <1>2, <1>6, <1>9, CommitLasts DEF d

LEMMA ProgressLasts ==
    ASSUME IInv(Db), PhoneProgress
    PROVE  Lasts(Db, Db')
<1>1. /\ action \in [Actions -> ActionStatuses] /\ seen \subseteq Ids
      /\ command \in [Ids -> [status : CommandStatuses, ttl : Nat]]
  BY DEF IInv, Rest, DbType, Db
<1>2. /\ UNCHANGED <<receipt, seen>>
      /\ \A i \in Ids : command'[i].status \in {"queued", "pending"} => command'[i] = command[i]
      /\ \A a \in Actions : action'[a] = action[a] \/ action[a] \in LaneStatuses \cup {"queued"}
  <2>1. ASSUME NEW x \in Ids, DispatchStreamCommand(x)
        PROVE  /\ UNCHANGED <<receipt, seen, action>>
               /\ \A i \in Ids : command'[i].status \in {"queued", "pending"} => command'[i] = command[i]
    <3>1. UNCHANGED <<receipt, seen, action>>
      BY <2>1 DEF DispatchStreamCommand
    <3>2. command' = [command EXCEPT ![x] = NoCommand]
            \/ command' = [command EXCEPT ![x] = [@ EXCEPT !.status = "dispatched"]]
      BY <2>1 DEF DispatchStreamCommand
    <3> QED BY <1>1, <3>1, <3>2 DEF NoCommand
  <2>2. ASSUME NEW a \in Actions, NEW status \in LaneStatuses, UpdateTicketAction(a, status)
        PROVE  /\ UNCHANGED <<receipt, seen, command>>
               /\ \A i \in Actions : action'[i] = action[i] \/ action[i] \in LaneStatuses \cup {"queued"}
    BY <1>1, <2>2 DEF UpdateTicketAction
  <2>3. ASSUME NEW r \in Reauths, ClaimViviReauth(r)
        PROVE  UNCHANGED <<receipt, seen, action, command>>
    BY <2>3 DEF ClaimViviReauth
  <2> QED BY <2>1, <2>2, <2>3 DEF PhoneProgress
<1> QED BY <1>1, <1>2 DEF Lasts, Db, Terminal, LaneStatuses

LEMMA PhoneLasts ==
    ASSUME IInv(Db), QueueBacked(Db), PhoneStep
    PROVE  Lasts(Db, Db')
<1>0. /\ Db.seen = seen /\ Db.action = action /\ Db.history = history /\ Db.request = request
      /\ Db \in DbType /\ Db.seen \subseteq Ids /\ Waiting(Db, Db.intent.id)
  BY SlotIsWaiting DEF Db
<1>1. ASSUME NEW f, IInv(f), Lasts(Db, f), f.intent = Db.intent, NEW granted,
             Commit(promote_ticket_action_v3_queue(f, granted))
      PROVE  Lasts(Db, Db')
  <2>1. IInv(promote_ticket_action_v3_queue(f, granted))
    BY <1>1, PromoteInv
  <2>2. Lasts(Db, promote_ticket_action_v3_queue(f, granted))
    BY <1>0, <1>1, PromoteLasts DEF IInv, Rest
  <2> QED BY <1>1, <2>1, <2>2, CommitLasts DEF IInv, Rest
<1>2. ASSUME NEW f, IInv(f), QueueBacked(f), Lasts(Db, f), NEW x \in Ids, x \in f.seen, NEW granted,
             NEW status \in {"acknowledged", "failed", "expired"},
             Commit(update_stream_command_status(f, x, status, granted))
      PROVE  Lasts(Db, Db')
  <2> DEFINE t == update_stream_command_status(f, x, status, granted)
  <2>1. IInv(t) /\ Lasts(f, t) /\ Commit(t)
    BY <1>2, UpdateStatusInv, UpdateStatusLasts
  <2> HIDE DEF t
  <2>2. Lasts(Db, t)
    BY <1>2, <2>1, LastsIsTransitive
  <2> QED BY <2>1, <2>2, CommitLasts DEF IInv, Rest
<1>3. Lasts(Db, Db)
  BY DEF Lasts
<1>4. ASSUME NEW granted, NEW x \in Ids, NEW status \in {"acknowledged", "failed", "expired"},
             AckStreamCommand(x, status, granted)
      PROVE  Lasts(Db, Db')
  BY <1>0, <1>2, <1>3, <1>4 DEF AckStreamCommand
<1>5. ASSUME NEW granted, NEW a \in Actions, NEW status \in Terminal,
             FinalizeTicketAction(a, status, granted)
      PROVE  Lasts(Db, Db')
  <2> DEFINE f == Finalized(Db, a, status)
  <2>0. a \in Ids /\ a \in Db.seen /\ Db.action[a] \in LaneStatuses
    BY <1>0, <1>5 DEF FinalizeTicketAction, Ids
  <2>1. IInv(f)
    BY <2>0, FinalizeInv
  <2>2. Commit(promote_ticket_action_v3_queue(f, granted))
    BY <1>0, <1>5 DEF FinalizeTicketAction, Finalized
  <2>3. /\ f.seen = Db.seen /\ f.intent = Db.intent /\ f.receipt = Db.receipt
        /\ f.command = [Db.command EXCEPT ![a] = NoCommand]
        /\ f.action = [Db.action EXCEPT ![a] = status]
    BY <1>0 DEF DbType, Finalized
  <2> HIDE DEF f
  <2>4. Lasts(Db, f)
    BY <1>0, <2>0, <2>3 DEF Lasts, DbType, NoCommand, Terminal, LaneStatuses
  <2> QED BY <1>1, <2>1, <2>2, <2>3, <2>4
<1>6. ASSUME NEW granted, NEW r \in Reauths, NEW status \in Terminal,
             FinishViviReauth(r, status, granted)
      PROVE  Lasts(Db, Db')
  <2> DEFINE f == [Db EXCEPT !.attempt[r].status = status]
  <2>1. r \in seen /\ r \in Ids
    BY <1>6 DEF FinishViviReauth, Ids
  <2>2. /\ IInv(f) /\ f.seen = seen /\ QueueBacked(f)
        /\ f.action = Db.action /\ f.command = Db.command /\ f.receipt = Db.receipt
    BY <2>1, FinishReauthKeeps
  <2>3. Commit(update_stream_command_status(f, r, "acknowledged", granted))
    BY <1>6 DEF FinishViviReauth
  <2> HIDE DEF f
  <2>4. Lasts(Db, f)
    BY <1>0, <2>2 DEF Lasts
  <2> QED BY <1>2, <2>1, <2>2, <2>3, <2>4
<1>7. ASSUME NEW c \in Codes, NEW row \in RequestRow, c \in seen
      PROVE  LET f == [Db EXCEPT !.request[c] = row] IN
             Lasts(Db, f) /\ f.intent = Db.intent
  <2> DEFINE f == [Db EXCEPT !.request[c] = row]
  <2>1. /\ f.intent = Db.intent /\ f.action = Db.action /\ f.command = Db.command
        /\ f.receipt = Db.receipt /\ f.seen = Db.seen
    BY <1>0 DEF DbType
  <2> HIDE DEF f
  <2>2. Lasts(Db, f)
    BY <2>1 DEF Lasts
  <2> QED BY <2>1, <2>2 DEF f
<1>8. ASSUME NEW granted, NEW c \in Codes, NEW next \in ControlCodeUpdates(request[c]),
             UpdateControlCode(c, next, granted)
      PROVE  Lasts(Db, Db')
  <2> DEFINE f == [Db EXCEPT !.request[c] = next]
  <2>1. request[c] \in RequestRow
    BY <1>0 DEF DbType
  <2>2. next \in RequestRow /\ c \in seen /\ c \in Ids
    BY <1>8, <2>1, UpdatedRequestType DEF UpdateControlCode, Ids
  <2>3. IInv(f) /\ f.seen = seen /\ QueueBacked(f) /\ f \in DbType /\ Lasts(Db, f)
    BY <1>7, <2>2, RequestRowKeeps
  <2>4. Commit(f) \/ Commit(update_stream_command_status(f, c, "acknowledged", granted))
    BY <1>8 DEF UpdateControlCode
  <2> HIDE DEF f
  <2> QED BY <1>2, <2>2, <2>3, <2>4, CommitLasts
<1>9. ASSUME NEW granted, NEW c \in Codes, CompleteControlCodeCleanup(c, granted)
      PROVE  Lasts(Db, Db')
  <2> DEFINE row == [request[c] EXCEPT !.capture = FALSE, !.cleanup = FALSE,
                                       !.done = TRUE, !.ttl = ResultTTL]
             f == [Db EXCEPT !.request[c] = row]
  <2>1. row \in RequestRow
    <3>1. request[c] \in RequestRow
      BY <1>0 DEF DbType
    <3>2. QED
      BY <3>1, TimeoutsAreNat DEF RequestRow
  <2>2. Commit(promote_ticket_action_v3_queue(f, granted)) /\ c \in seen
    BY <1>0, <1>9 DEF CompleteControlCodeCleanup
  <2> HIDE DEF row
  <2>3. IInv(f) /\ Lasts(Db, f) /\ f.intent = Db.intent
    BY <1>7, <2>1, <2>2, RequestRowKeeps
  <2> HIDE DEF f
  <2> QED BY <1>1, <2>2, <2>3
<1>10. ASSUME NEW granted, OtherCommandSettled(granted) PROVE Lasts(Db, Db')
  BY <1>1, <1>3, <1>10 DEF OtherCommandSettled
<1> QED BY <1>4, <1>5, <1>6, <1>8, <1>9, <1>10 DEF PhoneStep

LEMMA AuthorityLasts ==
    ASSUME IInv(Db), QueueBacked(Db), AuthorityStep
    PROVE  Lasts(Db, Db')
<1>1. ASSUME NEW granted, RevokeOwner(granted) PROVE Lasts(Db, Db')
  <2> DEFINE t == cancel_unstarted_vivi_reauth_for_owner([Db EXCEPT !.owner = FALSE], granted)
  <2>1. IInv(t) /\ Lasts(Db, t) /\ Commit(t)
    BY <1>1, CancelInv, CancelLasts DEF RevokeOwner
  <2> HIDE DEF t
  <2> QED BY <2>1, CommitLasts DEF IInv, Rest
<1>2. ASSUME \/ GrantOwner
             \/ \E keep \in BOOLEAN : ReplaceViviCredentials(keep)
             \/ BeginColdRestart \/ ReleaseColdRestart
      PROVE  Lasts(Db, Db')
  <2>1. UNCHANGED <<action, command, receipt, seen>>
    BY <1>2 DEF GrantOwner, ReplaceViviCredentials, BeginColdRestart, ReleaseColdRestart
  <2> QED BY <2>1 DEF Lasts, Db
<1> QED BY <1>1, <1>2 DEF AuthorityStep

LEMMA StepLasts ==
    ASSUME IInv(Db), QueueBacked(Db), Traceless(Db), [Next]_vars
    PROVE  Lasts(Db, Db') /\ Traceless(Db)'
<1>1. Lasts(Db, Db')
  <2>1. ASSUME NEW granted, CleanupExpired(granted) PROVE Lasts(Db, Db')
    <3> DEFINE t == cleanup_expired(Db, granted)
    <3>1. IInv(t) /\ Lasts(Db, t) /\ Commit(t)
      BY <2>1, CleanupInv, CleanupLasts DEF CleanupExpired
    <3> HIDE DEF t
    <3> QED BY <3>1, CommitLasts DEF IInv, Rest
  <2>2. CASE Tick
    <3>1. command \in [Ids -> [status : CommandStatuses, ttl : Nat]] /\ seen \subseteq Ids
      BY DEF IInv, Rest, DbType, Db
    <3>2. UNCHANGED <<action, receipt, seen>> /\ \A x \in Ids : command'[x].status = command[x].status
      BY <2>2, <3>1 DEF Tick
    <3> QED BY <3>1, <3>2 DEF Lasts, Db
  <2>3. CASE UNCHANGED vars
    <3>1. Db' = Db
      BY <2>3 DEF vars, Db
    <3> QED BY <3>1 DEF Lasts
  <2> QED BY <2>1, <2>2, <2>3, MemberLasts, PhoneLasts, ProgressLasts, AuthorityLasts, TriggerLasts
          DEF Next, Cleanup
<1>2. Traceless(Db')
  BY <1>1 DEF Lasts, Traceless
<1> QED BY <1>1, <1>2

LEMMA TraceInvariance == Spec => [](IInv(Db) /\ QueueBacked(Db) /\ Traceless(Db))
<1>1. Init => Traceless(Db)
  BY DEF Init, Db, Traceless
<1>2. IInv(Db) /\ QueueBacked(Db) /\ Traceless(Db) /\ [Next]_vars => Traceless(Db)'
  BY StepLasts
<1> QED BY <1>1, <1>2, QueueInvariance, PTL DEF Spec

(* A command the phone has been shown is never issued to it again: not     *)
(* from the queue, not by a replayed request, not by a cleanup.            *)
THEOREM CommandIsIssuedOnce == Spec => IssuedAtMostOnce
<1>1. IInv(Db) /\ QueueBacked(Db) /\ Traceless(Db) /\ [Next]_vars
        => [\A x \in seen : command'[x].status \in {"queued", "pending"}
                              => command'[x].status = command[x].status]_vars
  <2> SUFFICES ASSUME IInv(Db), QueueBacked(Db), Traceless(Db), [Next]_vars
               PROVE  \A x \in seen : command'[x].status \in {"queued", "pending"}
                              => command'[x].status = command[x].status
    OBVIOUS
  <2>1. Lasts(Db, Db')
    BY StepLasts
  <2> QED BY <2>1 DEF Lasts, Db
<1> QED BY <1>1, TraceInvariance, PTL DEF Spec, IssuedAtMostOnce

(* The result of a ticket action is final: no report, expiry, purge or     *)
(* promotion changes it.                                                   *)
THEOREM ResultIsFinal == Spec => ActionResultIsFinal
<1>1. IInv(Db) /\ QueueBacked(Db) /\ Traceless(Db) /\ [Next]_vars
        => [\A a \in Actions : action[a] \in Terminal => action'[a] = action[a]]_vars
  <2> SUFFICES ASSUME IInv(Db), QueueBacked(Db), Traceless(Db), [Next]_vars
               PROVE  \A a \in Actions : action[a] \in Terminal => action'[a] = action[a]
    OBVIOUS
  <2>1. Lasts(Db, Db')
    BY StepLasts
  <2> QED BY <2>1 DEF Lasts, Db
<1> QED BY <1>1, TraceInvariance, PTL DEF Spec, ActionResultIsFinal
=============================================================================
