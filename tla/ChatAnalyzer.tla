---------------------------- MODULE ChatAnalyzer ----------------------------
(***************************************************************************)
(* The satiksme-bot chat analyzer (internal/chatanalyzer/service.go): one  *)
(* process collects the messages of a Telegram chat, asks a language model *)
(* about the pending ones and publishes reports and votes for them.        *)
(*                                                                         *)
(* Every store call is a step of its own that may fail, and the process    *)
(* may crash before any of them: only the rows, the checkpoint, the vote   *)
(* events and the batch records are durable.  A store call has landed or   *)
(* will never land once the process looks at the store again.  The two     *)
(* stores differ: SQLite has the expiry, recovery and finalize             *)
(* transactions, Spacetime (portable) only row by row calls.               *)
(***************************************************************************)
EXTENDS Naturals, FiniteSets, FiniteSetsExt

CONSTANTS
    MaxMessage,    \* bound on the messages of the chat
    Targets,       \* stops, vehicles and areas a message can be about
    PageSize,      \* messages of one history page
    MaxPages,      \* maxStaleCatchUpPagesPerCollect
    BatchLimit,    \* messages of one batch
    FailureLimit,  \* ModelFailureLimit
    MaxBatch,      \* bound on the batches
    None

VARIABLES
    portable, dryRun,            \* deployment: which store, DryRun setting
    kind,                        \* chat history: "text" or "service" message
    old,                         \* messages past MaxMessageAge
    row, claim, batchOf,         \* stored message: status, action id, batch
    checkpoint,                  \* last message id collected, None at first
    first,                       \* history: checkpoint set by the first run
    committed,                   \* actions whose vote event is durable
    batches,                     \* status of the batch records
    started,                     \* batches started: ids are never used again
    pc, work, upto,              \* process: messages in hand, page end
    current, seen, decision,     \* batch id, listed claims, model's answer
    outcome, result,             \* outcomes so far, batch status to save
    action, unmarked,            \* action being claimed, sources left to mark
    failures, circuitOpen        \* consecutiveModelFailures, open circuit

durable == <<row, claim, batchOf, checkpoint, first, committed, batches, started>>
memory == <<pc, work, upto, current, seen, decision, outcome, result, action, unmarked>>
world == <<portable, dryRun, kind, old>>
analyzerVars == <<world, durable, memory, failures, circuitOpen>>

Messages == 1..MaxMessage
Actions == [batch : 1..MaxBatch, kind : {"report", "vote"}, target : Targets,
            sources : SUBSET Messages]
Decisions == [kind : {"report", "vote"}, target : Targets]
                 \cup [kind : {"ignored", "omitted"}, target : {None}]
Outcome(status, id) == [status |-> status, claim |-> id]
NoFunction == [m \in {} |-> None]

posted == Cardinality({m \in Messages : kind[m] # "none"})
Pending == {m \in Messages : row[m] = "pending"}
Fresh(m) == kind[m] = "text" /\ m \notin old

TypeOK ==
    /\ portable \in BOOLEAN /\ dryRun \in BOOLEAN
    /\ kind \in [Messages -> {"none", "text", "service"}]
    /\ old \in SUBSET Messages
    /\ row \in [Messages -> {"absent", "pending", "applied", "ignored", "uncertain", "dry_run"}]
    /\ claim \in [Messages -> Actions \cup {None}]
    /\ batchOf \in [Messages -> 0..MaxBatch]
    /\ checkpoint \in Messages \cup {0, None}
    /\ first \in Messages \cup {0}
    /\ committed \in SUBSET Actions
    /\ batches \in [1..MaxBatch -> {"absent", "running", "completed", "failed"}]
    /\ started \in 0..MaxBatch
    /\ pc \in {"idle", "enqueue", "list", "reconcile", "model", "reason", "decide",
            "claim", "finalize"}
    /\ work \in SUBSET Messages
    /\ current \in 0..MaxBatch
    /\ unmarked \in SUBSET work
    /\ DOMAIN outcome \subseteq work
    /\ result \in {"completed", "failed"}
    /\ failures \in 0..FailureLimit /\ circuitOpen \in BOOLEAN

Rest ==
    /\ pc = "idle" /\ work = {} /\ upto = 0 /\ current = 0
    /\ seen = NoFunction /\ decision = NoFunction /\ outcome = NoFunction
    /\ result = "completed" /\ action = None /\ unmarked = {}

Init ==
    /\ portable \in BOOLEAN /\ dryRun \in BOOLEAN
    /\ kind = [m \in Messages |-> "none"] /\ old = {}
    /\ row = [m \in Messages |-> "absent"]
    /\ claim = [m \in Messages |-> None]
    /\ batchOf = [m \in Messages |-> 0]
    /\ checkpoint = None /\ first = 0
    /\ committed = {}
    /\ batches = [b \in 1..MaxBatch |-> "absent"]
    /\ started = 0
    /\ Rest
    /\ failures = 0 /\ circuitOpen = FALSE

-----------------------------------------------------------------------------
(* The world: members write, messages age, the circuit's time passes. *)

Post(k) ==
    /\ posted < MaxMessage
    /\ kind' = [kind EXCEPT ![posted + 1] = k]
    /\ UNCHANGED <<portable, dryRun, old, durable, memory, failures, circuitOpen>>

Age(m) ==
    /\ kind[m] # "none" /\ m \notin old
    /\ old' = old \cup {m}
    /\ UNCHANGED <<portable, dryRun, kind, durable, memory, failures, circuitOpen>>

CircuitCloses ==
    /\ circuitOpen
    /\ circuitOpen' = FALSE
    /\ UNCHANGED <<world, durable, memory, failures>>

-----------------------------------------------------------------------------
(* Collection. *)

(* collectForwardMessages: where the page that is read last may end.  Pages *)
(* go forward from the checkpoint; only wholly stale ones are passed over.  *)
PageEnds(from) ==
    LET End(k) == IF from + k * PageSize < posted THEN from + k * PageSize ELSE posted
        Start(k) == IF k = 1 THEN from ELSE End(k - 1)
        Content(k) == \E m \in (Start(k) + 1)..End(k) : Fresh(m)
    IN {End(k) : k \in {j \in 1..MaxPages :
                           /\ \A i \in 1..(j - 1) : ~Content(i)
                           /\ Content(j) \/ j = MaxPages \/ End(j) = posted}}

(* filterCollectedMessages: text that is not stale. *)
Collected(from, to) == {m \in (from + 1)..to : Fresh(m)}

(* Mutant of Collect: the newest page of the chat is fetched. *)
CollectNewest ==
    /\ pc = "idle"
    /\ pc' = "enqueue"
    /\ upto' = posted
    /\ work' = IF checkpoint = None THEN {}
               ELSE {m \in Collected(checkpoint, posted) : m > posted - PageSize}
    /\ UNCHANGED <<world, durable, current, seen, decision, outcome, result, action,
                   unmarked, failures, circuitOpen>>

(* Collect: without a checkpoint the newest message only sets one. *)
Collect ==
    /\ pc = "idle"
    /\ pc' = "enqueue"
    /\ IF checkpoint = None
       THEN work' = {} /\ upto' = posted
       ELSE \E to \in PageEnds(checkpoint) :
                upto' = to /\ work' = Collected(checkpoint, to)
    /\ UNCHANGED <<world, durable, current, seen, decision, outcome, result, action,
                   unmarked, failures, circuitOpen>>

(* EnqueueChatAnalyzerMessage: a row that exists is left alone. *)
Enqueue ==
    /\ pc = "enqueue" /\ work # {}
    /\ LET m == Min(work) IN
       /\ work' = work \ {m}
       /\ row' = [row EXCEPT ![m] = IF @ = "absent" THEN "pending" ELSE @]
    /\ UNCHANGED <<world, claim, batchOf, checkpoint, first, committed, batches, started, pc, upto,
                   current, seen, decision, outcome, result, action, unmarked,
                   failures, circuitOpen>>

(* SetChatAnalyzerCheckpoint, after the last row; it never goes back. *)
SetCheckpoint ==
    /\ pc = "enqueue" /\ work = {}
    /\ pc' = "idle"
    /\ IF upto = 0
       THEN UNCHANGED <<checkpoint, first>>
       ELSE IF checkpoint = None
            THEN checkpoint' = upto /\ first' = upto
            ELSE checkpoint' = Max({checkpoint, upto}) /\ UNCHANGED first
    /\ upto' = 0
    /\ UNCHANGED <<world, row, claim, batchOf, committed, batches, started, work, current, seen,
                   decision, outcome, result, action, unmarked, failures, circuitOpen>>

-----------------------------------------------------------------------------
(* One processing pass up to the batch. *)

(* recoverStaleBatches: SQLite fails the batches an earlier process left. *)
RecoverStaleBatches ==
    /\ pc = "idle" /\ ~portable
    /\ batches' = [b \in DOMAIN batches |->
                      IF batches[b] = "running" THEN "failed" ELSE batches[b]]
    /\ UNCHANGED <<world, row, claim, batchOf, checkpoint, first, committed, started, memory,
                   failures, circuitOpen>>

(* expireStalePendingMessages: at once in SQLite, which keeps the action    *)
(* id; row by row otherwise, and a failure ends the pass.                   *)
ExpireStale(S) ==
    LET stale == Pending \cap old IN
    /\ pc = "idle"
    /\ S \subseteq stale
    /\ portable \/ S = stale
    /\ row' = [m \in Messages |-> IF m \in S THEN "ignored" ELSE row[m]]
    /\ claim' = [m \in Messages |-> IF portable /\ m \in S THEN None ELSE claim[m]]
    /\ batchOf' = [m \in Messages |-> IF portable /\ m \in S THEN 0 ELSE batchOf[m]]
    /\ pc' = IF S = stale THEN "list" ELSE "idle"
    /\ UNCHANGED <<world, checkpoint, first, committed, batches, started, work, upto, current, seen,
                   decision, outcome, result, action, unmarked, failures, circuitOpen>>

(* ListPendingChatAnalyzerMessages: the oldest BatchLimit rows. *)
ListPending ==
    /\ pc = "list"
    /\ work' = {m \in Pending : Cardinality({o \in Pending : o < m}) < BatchLimit}
    /\ pc' = "reconcile"
    /\ UNCHANGED <<world, durable, upto, current, seen, decision, outcome, result, action,
                   unmarked, failures, circuitOpen>>

(* MarkChatAnalyzerMessageProcessedInBatch of one row. *)
Mark(m, status, id, b) ==
    /\ row' = [row EXCEPT ![m] = status]
    /\ claim' = [claim EXCEPT ![m] = id]
    /\ batchOf' = [batchOf EXCEPT ![m] = b]

(* Mutant of Unreconciled: claims are not looked up.                        *)
NoneUnreconciled == {}

(* CommittedActionIDs: the listed messages whose action was committed. *)
Unreconciled == {m \in work : claim[m] \in committed}

(* reconcileCommittedActionClaims, one message. *)
Reconcile ==
    /\ pc = "reconcile" /\ Unreconciled # {}
    /\ LET m == Min(Unreconciled) IN
       /\ Mark(m, "applied", claim[m], 0)
       /\ work' = work \ {m}
    /\ UNCHANGED <<world, checkpoint, first, committed, batches, started, pc, upto, current,
                   seen, decision, outcome, result, action, unmarked, failures, circuitOpen>>

(* messageReadyForRetry: a message that was tried waits for its back-off,   *)
(* a new one is always ready.                                               *)
ReadySets == {S \in SUBSET work : \A m \in work : batchOf[m] = 0 /\ claim[m] = None => m \in S}

(* processPendingBatch and the start of processBatch.  A portable store     *)
(* gets no running record.                                                  *)
StartBatch(ready) ==
    /\ pc = "reconcile" /\ Unreconciled = {}
    /\ ready \in ReadySets
    /\ IF circuitOpen \/ ready = {}
       THEN /\ pc' = "idle" /\ work' = {}
            /\ UNCHANGED <<batches, started, current, seen>>
       ELSE /\ started < MaxBatch
            /\ started' = started + 1
            /\ current' = started'
            /\ batches' = IF portable THEN batches
                          ELSE [batches EXCEPT ![started'] = "running"]
            /\ work' = ready
            /\ seen' = [m \in ready |-> claim[m]]
            /\ pc' = "model"
    /\ UNCHANGED <<world, row, claim, batchOf, checkpoint, first, committed, upto, decision,
                   outcome, result, action, unmarked, failures, circuitOpen>>

-----------------------------------------------------------------------------
(* The model's answer. *)

(* AnalyzeBatch fails: the messages stay pending under their old claim, and *)
(* FailureLimit failures in a row open the circuit.                         *)
ModelFails ==
    /\ pc = "model"
    /\ outcome' = [m \in work |-> Outcome("pending", seen[m])]
    /\ result' = "failed"
    /\ pc' = "finalize"
    /\ failures' = IF failures < FailureLimit THEN failures + 1 ELSE failures
    /\ circuitOpen' = (circuitOpen \/ failures' = FailureLimit)
    /\ UNCHANGED <<world, durable, work, upto, current, seen, decision, action, unmarked>>

(* validateUniqueBatchDecisionSources rejects the answer, before or after   *)
(* location reasoning.                                                      *)
ModelAnswersInvalid ==
    /\ pc \in {"model", "reason"}
    /\ outcome' = [m \in work |-> Outcome("uncertain", None)]
    /\ result' = "completed"
    /\ pc' = "finalize"
    /\ failures' = 0 /\ circuitOpen' = FALSE
    /\ UNCHANGED <<world, durable, work, upto, current, seen, decision, action, unmarked>>

(* A valid answer: every message is a source of one decision at most. *)
ModelAnswers(d) ==
    /\ pc = "model"
    /\ d \in [work -> Decisions]
    /\ decision' = d
    /\ result' = "completed"
    /\ pc' = "reason"
    /\ failures' = 0 /\ circuitOpen' = FALSE
    /\ UNCHANGED <<world, durable, work, upto, current, seen, outcome, action, unmarked>>

(* locationReasoningMessageIDs: votes are not looked at again. *)
Recheckable == {m \in work : decision[m].kind # "vote"}

(* mergeLocationReasoningDecision: the second answer e replaces the first   *)
(* for the messages it decides; a report of several messages is dropped     *)
(* with the first of them that was decided again.                           *)
Merged(e) ==
    [m \in work |->
        IF m \in DOMAIN e THEN e[m]
        ELSE IF decision[m].kind = "report" /\ \E n \in DOMAIN e : decision[n] = decision[m]
             THEN [kind |-> "omitted", target |-> None]
             ELSE decision[m]]

(* DeduceLocations; a failed call, and nothing to recheck, decide nothing.  *)
DeduceLocations(S) ==
    /\ pc = "reason"
    /\ S \subseteq Recheckable
    /\ \E e \in [S -> {d \in Decisions : d.kind # "omitted"}] : decision' = Merged(e)
    /\ pc' = "decide"
    /\ UNCHANGED <<world, durable, work, upto, current, seen, outcome, result, action,
                   unmarked, failures, circuitOpen>>

Undecided(k) == {m \in work \ DOMAIN outcome : decision[m].kind = k}
Settle(S, o) == outcome' = [m \in DOMAIN outcome \cup S |-> IF m \in S THEN o ELSE outcome[m]]

(* normalizeDecision, validateTarget and the thresholds refuse a decision:  *)
(* confidence, target, reporter, or the target's duplicate window.          *)
Refuse(S) ==
    /\ Settle(S, Outcome("uncertain", None))
    /\ UNCHANGED <<pc, action, unmarked>>

(* There is an active incident, or a report of this batch, for a vote on t. *)
Grounded(t) == \E a \in committed : a.kind = "report" /\ a.target = t

(* What a decision about target t from the messages S comes to before it is *)
(* applied: refused, a dry run, or the claim of an action.                  *)
Evaluate(k, t, S) ==
    \/ Refuse(S)
    \/ /\ dryRun
       /\ Settle(S, Outcome("dry_run", None))
       /\ UNCHANGED <<pc, action, unmarked>>
    \/ /\ ~dryRun
       /\ action' = [batch |-> current, kind |-> k, target |-> t, sources |-> S]
       /\ unmarked' = S
       /\ pc' = "claim"
       /\ UNCHANGED outcome

EvaluateFrame == UNCHANGED <<world, durable, work, upto, current, seen, decision, result,
                             failures, circuitOpen>>

(* evaluateBatchDecisions, the reports; one that only confirms an active     *)
(* incident becomes a vote.                                                 *)
EvaluateReport(t) ==
    LET S == {m \in Undecided("report") : decision[m].target = t} IN
    /\ pc = "decide" /\ S # {}
    /\ \/ Evaluate("report", t, S)
       \/ Grounded(t) /\ Evaluate("vote", t, S)
    /\ EvaluateFrame

(* evaluateBatchDecisions, the votes: on an active incident, or on a report *)
(* this batch has applied; an all-clear without either is ignored.          *)
EvaluateVote(t) ==
    LET S == {m \in Undecided("vote") : decision[m].target = t} IN
    /\ pc = "decide" /\ Undecided("report") = {} /\ S # {}
    /\ \/ Grounded(t) /\ Evaluate("vote", t, S)
       \/ /\ ~Grounded(t)
          /\ \E s \in {"ignored", "uncertain"} : Settle(S, Outcome(s, None))
          /\ UNCHANGED <<pc, action, unmarked>>
    /\ EvaluateFrame

(* addFallbackOmittedSignalOutcomes: a message the model left out that      *)
(* looks like a signal is taken as a sighting.                              *)
EvaluateOmitted(m, t) ==
    /\ pc = "decide" /\ Undecided("report") \cup Undecided("vote") = {}
    /\ m \in Undecided("omitted")
    /\ Evaluate("report", t, {m})
    /\ EvaluateFrame

(* The messages no decision is about are ignored. *)
EvaluateRest ==
    /\ pc = "decide" /\ Undecided("report") \cup Undecided("vote") = {}
    /\ Settle(work \ DOMAIN outcome, Outcome("ignored", None))
    /\ pc' = "finalize"
    /\ UNCHANGED <<action, unmarked>>
    /\ EvaluateFrame

-----------------------------------------------------------------------------
(* applyClaimedDecision: the claim is written to every source, then the     *)
(* action is applied.                                                       *)

ClaimSource(m) ==
    /\ pc = "claim" /\ m \in unmarked
    /\ Mark(m, "pending", action, current)
    /\ unmarked' = unmarked \ {m}
    /\ UNCHANGED <<world, checkpoint, first, committed, batches, started, pc, work, upto, current,
                   seen, decision, outcome, result, action, failures, circuitOpen>>

(* What a call of the reports service can come to. *)
Ends(status) ==
    /\ pc' = "decide"
    /\ action' = None /\ unmarked' = {}
    /\ Settle(action.sources, Outcome(status, IF status = "uncertain" THEN None ELSE action))
    /\ UNCHANGED <<world, row, claim, batchOf, checkpoint, first, batches, started, work, upto, current,
                   seen, decision, result, failures, circuitOpen>>

ClaimFails == pc = "claim" /\ unmarked # {} /\ Ends("pending") /\ UNCHANGED committed

(* Mutant of Apply: a failed call is taken for an applied one.              *)
ApplyTrustsFailure ==
    /\ pc = "claim" /\ unmarked = {}
    /\ Ends("applied")
    /\ committed' \in {committed, committed \cup {action}}

(* applyDecisionWithActionID: applied; an error, with the transaction       *)
(* committed or not (claimedActionFailureOutcome keeps the claim); or       *)
(* refused by a limit or as a duplicate, which drops it.                    *)
Apply ==
    /\ pc = "claim" /\ unmarked = {}
    /\ \/ Ends("applied") /\ committed' = committed \cup {action}
       \/ Ends("pending") /\ committed' \in {committed, committed \cup {action}}
       \/ Ends("uncertain") /\ UNCHANGED committed

-----------------------------------------------------------------------------
(* The end of the batch. *)

GoIdle ==
    /\ pc' = "idle" /\ work' = {} /\ upto' = 0 /\ current' = 0
    /\ seen' = NoFunction /\ decision' = NoFunction /\ outcome' = NoFunction
    /\ result' = "completed" /\ action' = None /\ unmarked' = {}

(* FinalizeChatAnalyzerBatch: rows and record in one transaction. *)
Finalize ==
    /\ pc = "finalize" /\ ~portable
    /\ row' = [m \in Messages |-> IF m \in work THEN outcome[m].status ELSE row[m]]
    /\ claim' = [m \in Messages |-> IF m \in work THEN outcome[m].claim ELSE claim[m]]
    /\ batchOf' = [m \in Messages |-> IF m \in work THEN current ELSE batchOf[m]]
    /\ batches' = [batches EXCEPT ![current] = result]
    /\ GoIdle
    /\ UNCHANGED <<world, checkpoint, first, committed, started, failures, circuitOpen>>

(* finalizeBatch of a portable store: every row, then the record. *)
FinalizeRow(m) ==
    /\ pc = "finalize" /\ portable /\ m \in DOMAIN outcome
    /\ Mark(m, outcome[m].status, outcome[m].claim, current)
    /\ outcome' = [o \in DOMAIN outcome \ {m} |-> outcome[o]]
    /\ UNCHANGED <<world, checkpoint, first, committed, batches, started, pc, work, upto, current, seen,
                   decision, result, action, unmarked, failures, circuitOpen>>

SaveBatch ==
    /\ pc = "finalize" /\ portable /\ DOMAIN outcome = {}
    /\ batches' = [batches EXCEPT ![current] = result]
    /\ GoIdle
    /\ UNCHANGED <<world, row, claim, batchOf, checkpoint, first, committed, started, failures, circuitOpen>>

(* A store call outside a claim fails: the pass is given up.  The deferred  *)
(* call of processBatch then tries to save the batch as failed.             *)
StoreFails ==
    /\ pc \notin {"idle", "claim"}
    /\ GoIdle
    /\ \/ UNCHANGED batches
       \/ pc = "finalize" /\ batches' = [batches EXCEPT ![current] = "failed"]
    /\ UNCHANGED <<world, row, claim, batchOf, checkpoint, first, committed, started, failures, circuitOpen>>

Crash ==
    /\ GoIdle
    /\ failures' = 0 /\ circuitOpen' = FALSE
    /\ UNCHANGED <<world, durable>>

Next ==
    \/ \E k \in {"text", "service"} : Post(k)
    \/ \E m \in Messages : Age(m)
    \/ CircuitCloses
    \/ Collect
    \/ Enqueue
    \/ SetCheckpoint
    \/ RecoverStaleBatches
    \/ \E S \in SUBSET Messages : ExpireStale(S)
    \/ ListPending
    \/ Reconcile
    \/ \E S \in SUBSET Messages : StartBatch(S)
    \/ ModelFails
    \/ ModelAnswersInvalid
    \/ \E d \in [work -> Decisions] : ModelAnswers(d)
    \/ \E S \in SUBSET work : DeduceLocations(S)
    \/ \E t \in Targets : EvaluateReport(t)
    \/ \E t \in Targets : EvaluateVote(t)
    \/ \E m \in Messages, t \in Targets : EvaluateOmitted(m, t)
    \/ EvaluateRest
    \/ \E m \in Messages : ClaimSource(m)
    \/ ClaimFails
    \/ Apply
    \/ Finalize
    \/ \E m \in Messages : FinalizeRow(m)
    \/ SaveBatch
    \/ StoreFails
    \/ Crash

Spec == Init /\ [][Next]_analyzerVars

-----------------------------------------------------------------------------
(* Properties. *)

(* No chat message is the source of two published actions, whatever fails   *)
(* or crashes between the claim, the transaction and the finalized rows     *)
(* (service.go, reconcileCommittedActionClaims).                            *)
ActedOnAtMostOnce ==
    \A a, b \in committed : a # b => a.sources \cap b.sources = {}

(* A message is recorded as applied only with the id of an action that is   *)
(* durable and has this message among its sources.                          *)
AppliedIsCommitted ==
    \A m \in Messages : row[m] = "applied" => claim[m] \in committed /\ m \in claim[m].sources

(* The checkpoint never passes a text message that was neither stored nor   *)
(* too old to be processed (collectForwardMessages reads forward, and the   *)
(* checkpoint is advanced after the last row).                              *)
NoMessageSkipped ==
    checkpoint # None =>
        \A m \in (first + 1)..checkpoint :
            kind[m] = "text" => row[m] # "absent" \/ m \in old

(* A completed batch leaves no message pending (store.go: "a completed      *)
(* batch can never leave pending messages behind").                         *)
CompletedBatchLeavesNothing ==
    \A m \in Messages :
        row[m] = "pending" /\ batchOf[m] # 0 => batches[batchOf[m]] # "completed"
=============================================================================
