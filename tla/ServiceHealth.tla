------------------------------ MODULE ServiceHealth ------------------------------
(* What the transit service says of itself (runtime/state.go, web/server.go          *)
(* healthSnapshot).  The passes of the chat analyzer, the Telegram poll and the web   *)
(* server write into one State, each under its lock; a health request derives the     *)
(* reasons from it.  The analyzer's collections and its batches share one error code, *)
(* and the pause of the model after repeated failures is copied into the State.       *)
(* What the messages of a pass become is ChatAnalyzer's subject.                      *)
EXTENDS Naturals

CONSTANTS FailureLimit, \* ModelFailureLimit
          CircuitOpen,  \* ModelCircuitOpen
          MaxMoment,    \* bound on the clock
          None

VARIABLES moment,    \* the clock
          pass,      \* where the analyzer's loop is
          began,     \* when its last look at the pending messages began
          failures,  \* consecutiveModelFailures
          circuit,   \* modelCircuitOpenUntil, 0 when closed
          analyzer,  \* State.chatAnalyzer
          telegram,  \* State.telegram.ConsecutiveErrors > 0
          listening, \* State.webListening
          truth      \* how the last collection and the last batch ended

healthVars == <<moment, pass, began, failures, circuit, analyzer, telegram, listening, truth>>

\* State.New and ConfigureChatAnalyzer of an enabled analyzer.
Init ==
    /\ moment = 1 /\ pass = "idle" /\ began = 1 /\ failures = 0 /\ circuit = 0
    /\ analyzer = [session |-> "unchecked", collect |-> FALSE, process |-> FALSE, batch |-> None,
                   maintenance |-> None, code |-> None, until |-> 0]
    /\ telegram = FALSE /\ listening = FALSE
    /\ truth = [collect |-> "ok", batch |-> "ok"]

(* --------------------------------- runtime/state.go -------------------------------- *)

\* A mutant: a collection that succeeds forgets the code of the failed batch.
CollectionForgetsBatch(session, code) ==
    [analyzer EXCEPT !.session = session, !.collect = code # None, !.code = code]

RecordChatAnalyzerCollection(session, code) ==
    [analyzer EXCEPT !.session = session, !.collect = code # None,
                     !.code = IF code = None /\ analyzer.batch = "failed" THEN @ ELSE code]

RecordChatAnalyzerProcess(status, code) ==
    LET failed == code # None \/ status = "failed" IN
    [analyzer EXCEPT !.batch = status, !.until = circuit, !.process = failed,
                     !.code = IF failed THEN (IF code = None THEN "batch_failed" ELSE code)
                              ELSE IF analyzer.collect THEN @ ELSE None]

RecordChatAnalyzerMaintenance(code) == [analyzer EXCEPT !.maintenance = code]

(* ------------------------------ a pass of the analyzer ----------------------------- *)

recoverStaleBatches ==
    /\ pass = "idle"
    /\ pass' = "recovered"
    /\ \/ UNCHANGED analyzer \* not due
       \/ \E code \in {None, "stale_batch_recovery_failed"} : analyzer' = RecordChatAnalyzerMaintenance(code)
    /\ UNCHANGED <<moment, began, failures, circuit, telegram, listening, truth>>

collectNewMessages ==
    /\ pass = "recovered" /\ pass' = "collected"
    /\ \/ UNCHANGED <<analyzer, truth>> \* not due
       \/ \E end \in {<<"authorized", None>>, <<"authorized", "storage_failed">>,
                      <<"unauthorized", "session_unauthorized">>, <<"error", "timeout">>} :
            /\ analyzer' = RecordChatAnalyzerCollection(end[1], end[2])
            /\ truth' = [truth EXCEPT !.collect = IF end[2] = None THEN "ok" ELSE "failed"]
    /\ UNCHANGED <<moment, began, failures, circuit, telegram, listening>>

\* Maintenance fails, or there is nothing to analyse, or the model is left alone.
processPendingBatch ==
    /\ pass = "collected" /\ began' = moment
    /\ \/ pass' = "idle" /\ UNCHANGED analyzer \* not due
       \/ \E code \in {"pending_expiry_failed", "pending_list_failed", "action_reconciliation_failed",
                       "incident_load_failed", None} :
            /\ pass' = "idle"
            /\ analyzer' = RecordChatAnalyzerMaintenance(code)
       \/ /\ circuit <= moment
          /\ pass' = "batch"
          /\ analyzer' = RecordChatAnalyzerMaintenance(None)
    /\ UNCHANGED <<moment, failures, circuit, telegram, listening, truth>>

recordModelFailure ==
    /\ failures' = IF failures < FailureLimit THEN failures + 1 ELSE failures
    /\ circuit' = IF failures + 1 >= FailureLimit THEN began + CircuitOpen ELSE circuit

\* The batch's start cannot be saved, the model fails, or it answers.
processBatch ==
    /\ pass = "batch"
    /\ \/ pass' = "failed" /\ UNCHANGED <<failures, circuit>>
       \/ pass' = "failed" /\ recordModelFailure
       \/ pass' \in {"failed", "completed"} /\ failures' = 0 /\ circuit' = 0
    /\ UNCHANGED <<moment, began, analyzer, telegram, listening, truth>>

\* The result is recorded after the model's failures are counted.
recordBatch ==
    /\ pass \in {"failed", "completed"} /\ pass' = "idle"
    /\ \E code \in IF pass = "failed" THEN {"timeout", "processing_failed"} ELSE {None} :
         analyzer' = RecordChatAnalyzerProcess(pass, code)
    /\ truth' = [truth EXCEPT !.batch = IF pass = "failed" THEN "failed" ELSE "ok"]
    /\ UNCHANGED <<moment, began, failures, circuit, telegram, listening>>

(* ----------------------------------- the others ------------------------------------ *)

RecordTelegramSuccess == telegram' = FALSE
RecordTelegramError == telegram' = TRUE

\* A poll of the bot's updates fails or succeeds.
Start == (RecordTelegramSuccess \/ RecordTelegramError)
         /\ UNCHANGED <<moment, pass, began, failures, circuit, analyzer, listening, truth>>

SetWebListening(now) == listening' = now

\* The web server begins and ends to listen.
Run == SetWebListening(~listening)
       /\ UNCHANGED <<moment, pass, began, failures, circuit, analyzer, telegram, truth>>

\* healthSnapshot: why the service calls itself degraded (the catalogue's reasons are in
\* CatalogRefresh, those of the dump queue come from ReportDump).
reasons ==
    {r \in {"web_not_listening", "telegram_errors", "chat_analyzer_unchecked", "chat_analyzer_collect_error",
            "chat_analyzer_maintenance_error", "chat_analyzer_process_error", "chat_analyzer_model_circuit_open"} :
       CASE r = "web_not_listening" -> ~listening
         [] r = "telegram_errors" -> telegram
         [] r = "chat_analyzer_unchecked" -> analyzer.session = "unchecked"
         [] r = "chat_analyzer_collect_error" -> analyzer.session \in {"unauthorized", "error"} \/ analyzer.collect
         [] r = "chat_analyzer_maintenance_error" -> analyzer.maintenance # None
         [] r = "chat_analyzer_process_error" -> analyzer.process \/ analyzer.batch = "failed"
         [] r = "chat_analyzer_model_circuit_open" -> analyzer.until > moment}

Tick == moment < MaxMoment /\ moment' = moment + 1
        /\ UNCHANGED <<pass, began, failures, circuit, analyzer, telegram, listening, truth>>

Next ==
    \/ recoverStaleBatches \/ collectNewMessages \/ processPendingBatch \/ processBatch \/ recordBatch
    \/ Start \/ Run \/ Tick

Spec == Init /\ [][Next]_healthVars

(* ---------------------------------- properties ------------------------------------ *)

(* The health answer neither hides a failure of the analyzer nor keeps one that is over: *)
(* although collections and batches overwrite each other's error code, a code is shown    *)
(* exactly while the last collection or the last batch has failed, each is named as a     *)
(* reason, and between two passes an open model circuit is named for as long as it lasts. *)
FailuresAreShown ==
    /\ (analyzer.code # None) <=> ("failed" \in {truth.collect, truth.batch})
    /\ ("chat_analyzer_collect_error" \in reasons) <=> (truth.collect = "failed")
    /\ ("chat_analyzer_process_error" \in reasons) <=> (truth.batch = "failed")
    /\ (pass = "idle" /\ circuit > moment) => "chat_analyzer_model_circuit_open" \in reasons
=============================================================================
