------------------------------ MODULE TicketMonitoring ------------------------------
(* Readiness notifications of ticket-remote: the phone reports what it sees of the      *)
(* ticket, the database turns two checks in a row that find the same problem into an    *)
(* incident (spacetimedb/src/monitoring.rs), and the web server pushes a warning, later *)
(* a recovery, to every subscribed device under a leased claim (web/monitoring.go).     *)
(* Reports may be late, repeated or out of order; a push may be delivered although its  *)
(* receipt is lost; the web server may stop at any point.                               *)
(*                                                                                      *)
(* One unit of the clock is the five minutes between checks.  A retry delay and a lease *)
(* are shorter and simply may have passed; a lease (60 s) outlives the context of the   *)
(* send it covers (30 s), so it only lapses once that send is over.                     *)
EXTENDS Naturals, FiniteSets

CONSTANTS Devices,     \* push subscriptions, each of an administrator's device
          MaxAttempts, \* MAX_ATTEMPTS
          MaxTime, MaxReports, MaxEpochs, MaxSessions, MaxSubscribes,  \* bounds
          None

Problems == {"login", "capture_unavailable"}

VARIABLES health,      \* TicketremoteMonitoringHealth; status and reason are one issue
          subscribed,  \* devices with a TicketremotePushSubscription
          admins,      \* devices whose owner is still an administrator
          deliveries,  \* rows of TicketremotePushDelivery
          sender,      \* None or what ticketPushLoop is sending; former: its device subscribed again since
          receipts,    \* finish calls given up that may yet land
          phone,       \* [session, sequence]: the active phone session and its last report
          reports,     \* reports sent and not yet lost
          clock,
          sends,       \* history: <<device, incident>> -> warnings sent
          warned,      \* history: <<device, incident>> with a warning delivered
          recovered,   \* history: <<device, incident>> told that the ticket is ready again
          subscribes

monitorVars == <<health, subscribed, admins, deliveries, sender, receipts, phone, reports,
                 clock, sends, warned, recovered, subscribes>>
pushVars == <<sender, receipts, sends, warned, recovered>>

Incidents == (1..MaxEpochs) \X (0..MaxTime)
Keys == Devices \X Incidents

Init ==
    /\ health = [enabled |-> TRUE, epoch |-> 1, issue |-> "checking", enabledAt |-> 0, checked |-> None,
                 started |-> None, incident |-> None, alertSent |-> FALSE, session |-> 0, sequence |-> 0]
    /\ subscribed = {} /\ admins = Devices /\ deliveries = {} /\ sender = None /\ receipts = {}
    /\ phone = [session |-> 1, sequence |-> 0] /\ reports = {} /\ clock = 0
    /\ sends = [k \in Keys |-> 0] /\ warned = {} /\ recovered = {} /\ subscribes = 0

(* -------------------------------- delivery rows ----------------------------------- *)

Key(row) == <<row.device, row.incident>>

\* A mutant: a failed warning earns a recovery as well.
afterReady(row) == IF row.status # "sending"
                   THEN {[row EXCEPT !.kind = "recovery", !.status = "pending", !.attempts = 0, !.claim = 0]}
                   ELSE {row}

queue_recovery(row) == [row EXCEPT !.kind = "recovery", !.status = "pending", !.attempts = 0, !.claim = 0]

\* The ticket is ready: a warning that was sent becomes a recovery, one in flight stays.
readyAgain(row) == IF row.status = "sent" THEN {queue_recovery(row)}
                   ELSE IF row.status = "sending" THEN {row} ELSE {}

\* The issue is not the one the row warns of: it goes, unless it was attempted already.
outdatedWarning(row) == IF row.status # "pending" THEN {row}
                        ELSE IF row.attempts = 0 THEN {} ELSE {[row EXCEPT !.status = "failed"]}

incident_matches_current_issue(h) == h.incident = <<h.epoch, h.started>>

reconcile_deliveries(h, rows, devices) ==
    LET kept == UNION {IF row.kind = "recovery"
                       THEN IF h.issue # "ready" /\ row.status # "sending" THEN {} ELSE {row}
                       ELSE IF h.issue = "ready" THEN readyAgain(row)
                       ELSE IF row.incident # h.incident \/ row.reason # h.issue THEN outdatedWarning(row)
                       ELSE {row} : row \in rows}
        changed == \E row \in kept : /\ row.incident = h.incident /\ row.kind = "problem"
                                     /\ row.reason # h.issue
                                     /\ row.status = "sending" \/ row.attempts > 0
        new == {d \in devices \cap admins : <<d, h.incident>> \notin {Key(row) : row \in kept}}
    IN  IF h.incident = None \/ ~incident_matches_current_issue(h) \/ changed THEN kept
        ELSE kept \cup {[device |-> d, incident |-> h.incident, kind |-> "problem", reason |-> h.issue,
                         status |-> "pending", attempts |-> 0, claim |-> 0] : d \in new}

\* reconcile_deliveries also drops the subscriptions of former administrators.
Reconciled(h, devices) ==
    /\ health' = h
    /\ LET visited == h.incident # None /\ incident_matches_current_issue(h)
           gone == IF visited THEN devices \ admins ELSE {}
       IN  /\ deliveries' = {row \in reconcile_deliveries(h, deliveries, devices) : row.device \notin gone}
           /\ subscribed' = devices \ gone

attempted_problem_delivery ==
    /\ health.incident # None
    /\ \E row \in deliveries : /\ row.incident = health.incident /\ row.kind = "problem"
                               /\ row.status \in {"sent", "sending"} \/ row.attempts > 0

preserve_incident == health.alertSent \/ attempted_problem_delivery

(* --------------------------------- observations ----------------------------------- *)

\* ticketremote_set_monitoring, for an owner.
set_monitoring ==
    /\ health.epoch < MaxEpochs
    /\ LET enabled == ~health.enabled
       IN  health' = [enabled |-> enabled, epoch |-> health.epoch + 1,
                      issue |-> IF enabled THEN "checking" ELSE "disabled",
                      enabledAt |-> clock, checked |-> None, started |-> None, incident |-> None,
                      alertSent |-> FALSE, session |-> 0, sequence |-> 0]
    /\ deliveries' = {}
    /\ UNCHANGED <<subscribed, admins, pushVars, phone, reports, clock, subscribes>>

PhoneReports ==
    /\ phone.session + phone.sequence <= MaxReports
    /\ phone' = [phone EXCEPT !.sequence = @ + 1]
    /\ \E issue \in Problems \cup {"ready"} :
           reports' = reports \cup {[epoch |-> health.epoch, session |-> phone.session, at |-> clock,
                                     sequence |-> phone.sequence + 1, issue |-> issue]}
    /\ UNCHANGED <<health, subscribed, admins, deliveries, pushVars, clock, subscribes>>

NewPhoneSession ==
    /\ phone.session < MaxSessions
    /\ phone' = [session |-> phone.session + 1, sequence |-> 0]
    /\ UNCHANGED <<health, subscribed, admins, deliveries, pushVars, reports, clock, subscribes>>

accept_observation(r) ==
    /\ health.enabled /\ health.epoch = r.epoch
    /\ r.session = phone.session
    /\ health.session # r.session \/ r.sequence > health.sequence

fresh_observation(r) == r.at = clock

\* Two checks of one session, an interval apart, that find the same problem are an incident.
observe(r) ==
    LET same == health.session = r.session /\ health.issue = r.issue
        begins == ~same \/ health.started = None
        started == IF begins THEN clock ELSE health.started
        carried == IF begins /\ ~preserve_incident THEN None ELSE health.incident
        confirmed == same /\ carried = None /\ clock - health.checked >= 1
    IN  IF r.issue = "ready"
        THEN [health EXCEPT !.issue = "ready", !.checked = clock, !.session = r.session,
                            !.sequence = r.sequence, !.started = None, !.incident = None, !.alertSent = FALSE]
        ELSE [health EXCEPT !.issue = r.issue, !.checked = clock, !.session = r.session,
                            !.sequence = r.sequence, !.started = started,
                            !.incident = IF confirmed THEN <<health.epoch, started>> ELSE carried,
                            !.alertSent = IF begins /\ ~preserve_incident THEN FALSE ELSE @]

\* ticketremote_report_monitoring; a report is delivered any number of times.
report_monitoring ==
    \E r \in reports :
        /\ accept_observation(r) /\ fresh_observation(r)
        /\ Reconciled(observe(r), subscribed)
        /\ UNCHANGED <<admins, pushVars, phone, reports, clock, subscribes>>

\* check_due: the due check and the one after it were missed.
mark_overdue ==
    LET due == IF health.checked = None THEN health.enabledAt ELSE health.checked + 1 IN
    /\ health.enabled /\ clock >= due + 1 /\ health.issue # "observation_overdue"
    /\ Reconciled([health EXCEPT !.issue = "observation_overdue", !.started = due,
                                 !.incident = IF preserve_incident THEN @ ELSE <<health.epoch, due>>,
                                 !.alertSent = IF preserve_incident THEN @ ELSE FALSE], subscribed)
    /\ UNCHANGED <<admins, pushVars, phone, reports, clock, subscribes>>

\* check_due: rows past their time go unless the incident lasts; former administrators' devices too.
check_due ==
    /\ \E old \in SUBSET {row \in deliveries : ~(health.enabled /\ health.incident = row.incident)} :
           deliveries' = {row \in deliveries \ old : row.device \in admins}
    /\ subscribed' = subscribed \cap admins
    /\ <<deliveries', subscribed'>> # <<deliveries, subscribed>>
    /\ UNCHANGED <<health, admins, pushVars, phone, reports, clock, subscribes>>

Tick == /\ clock < MaxTime /\ clock' = clock + 1
        /\ reports' = {}
        /\ UNCHANGED <<health, subscribed, admins, deliveries, pushVars, phone, subscribes>>

(* --------------------------------- subscriptions ---------------------------------- *)

\* ticketremote_set_push_subscription.  The history of a device that subscribes begins anew; a push
\* claimed for an earlier subscription belongs to that one.
Subscribe(d) ==
    /\ d \in admins /\ subscribes < MaxSubscribes
    /\ subscribes' = subscribes + 1
    /\ IF health.enabled /\ health.incident # None
       THEN Reconciled(health, subscribed \cup {d})
       ELSE subscribed' = subscribed \cup {d} /\ UNCHANGED <<health, deliveries>>
    /\ IF d \in subscribed THEN UNCHANGED <<sends, sender>>
       ELSE /\ sends' = [k \in Keys |-> IF k[1] = d THEN 0 ELSE sends[k]]
            /\ sender' = IF sender # None /\ sender.row.device = d
                         THEN [sender EXCEPT !.former = TRUE] ELSE sender
    /\ UNCHANGED <<admins, receipts, warned, recovered, phone, reports, clock>>

delete_subscription(d) == /\ deliveries' = {row \in deliveries : row.device # d}
                          /\ subscribed' = subscribed \ {d}

Unsubscribe(d) == /\ d \in subscribed /\ delete_subscription(d)
                  /\ UNCHANGED <<health, admins, pushVars, phone, reports, clock, subscribes>>

LosesRole(d) == /\ d \in admins /\ admins' = admins \ {d}
                /\ UNCHANGED <<health, subscribed, deliveries, pushVars, phone, reports, clock, subscribes>>

(* ----------------------------------- the sender ----------------------------------- *)

delivery_current(row) ==
    /\ health.enabled
    /\ \/ /\ row.kind = "problem" /\ health.incident = row.incident
          /\ health.issue # "ready" /\ health.issue = row.reason
       \/ row.kind = "recovery" /\ health.issue = "ready"

\* A mutant: the bound on attempts is read from the claim that was lost.
claimableAgain(row) == \/ row.status = "pending" /\ row.attempts < MaxAttempts
                       \/ row.status = "sending"

delivery_claimable(row) == row.status \in {"pending", "sending"} /\ row.attempts < MaxAttempts

\* A claim has a random id that no other claim has.
newClaim == LET used == {s.row.claim : s \in receipts} \cup {row.claim : row \in deliveries}
            IN  CHOOSE id \in 1..(Cardinality(used) + 1) : id \notin used

\* deliverTicketPush claims one of the rows it has listed; the answer may be lost.
claim_push_delivery ==
    /\ sender = None
    /\ \E row \in deliveries :
         IF row.device \notin admins
         THEN delete_subscription(row.device) /\ UNCHANGED sender
         ELSE IF ~delivery_current(row)
         THEN deliveries' = deliveries \ {row} /\ UNCHANGED <<subscribed, sender>>
         ELSE /\ delivery_claimable(row)
              /\ LET taken == [row EXCEPT !.status = "sending", !.attempts = @ + 1, !.claim = newClaim]
                 IN  /\ deliveries' = (deliveries \ {row}) \cup {taken}
                     /\ sender' \in {None, [row |-> taken, outcome |-> None, former |-> FALSE]}
              /\ UNCHANGED subscribed
    /\ UNCHANGED <<health, admins, receipts, sends, warned, recovered, phone, reports, clock, subscribes>>

\* sendTicketPush: the push service takes the message or not, and the sender learns of it or not.
sendTicketPush ==
    /\ sender # None /\ sender.outcome = None
    /\ \E delivered \in BOOLEAN, outcome \in {"sent", "retry", "invalid", "failed"} :
         /\ outcome = "sent" => delivered
         /\ outcome \in {"invalid", "failed"} => ~delivered
         /\ sender' = [sender EXCEPT !.outcome = outcome]
         /\ LET key == Key(sender.row) IN
              IF sender.row.kind = "problem"
              THEN /\ sends' = IF sender.former THEN sends ELSE [sends EXCEPT ![key] = @ + 1]
                   /\ warned' = IF delivered THEN warned \cup {key} ELSE warned
                   /\ UNCHANGED recovered
              ELSE /\ recovered' = IF delivered THEN recovered \cup {key} ELSE recovered
                   /\ UNCHANGED <<sends, warned>>
    /\ UNCHANGED <<health, subscribed, admins, deliveries, receipts, phone, reports, clock, subscribes>>

\* ticketremote_finish_push_delivery: only the claim that holds the row may finish it.
finish_push_delivery(s) ==
    LET held == {row \in deliveries : Key(row) = Key(s.row) /\ row.status = "sending" /\ row.claim = s.row.claim}
    IN  IF held = {} THEN UNCHANGED <<health, deliveries, subscribed>>
        ELSE LET row == CHOOSE r \in held : TRUE
                 Put(new) == deliveries' = (deliveries \ {row}) \cup new
                 concerns == health.incident = row.incident /\ health.issue # "ready"
             IN  CASE s.outcome = "invalid" -> delete_subscription(row.device) /\ UNCHANGED health
                   [] s.outcome = "sent" /\ row.kind = "recovery" -> Put({}) /\ UNCHANGED <<health, subscribed>>
                   [] s.outcome = "sent" /\ row.kind = "problem" ->
                        /\ Put({IF ~concerns /\ health.enabled /\ health.issue = "ready" THEN queue_recovery(row)
                                ELSE [row EXCEPT !.status = "sent", !.claim = 0]})
                        /\ health' = IF concerns THEN [health EXCEPT !.alertSent = TRUE] ELSE health
                        /\ UNCHANGED subscribed
                   [] s.outcome \in {"retry", "failed"} ->
                        /\ Put({[row EXCEPT !.claim = 0,
                                     !.status = IF s.outcome = "retry" /\ row.attempts < MaxAttempts
                                                THEN "pending" ELSE "failed"]})
                        /\ UNCHANGED <<health, subscribed>>

\* The receipt is stored, lost, or stored late.
SenderFinishes ==
    /\ sender # None /\ sender.outcome # None
    /\ sender' = None
    /\ \/ finish_push_delivery(sender) /\ UNCHANGED receipts
       \/ receipts' = {sender} /\ UNCHANGED <<health, deliveries, subscribed>>
    /\ UNCHANGED <<admins, phone, reports, clock, sends, warned, recovered, subscribes>>

LateReceipt ==
    \E s \in receipts : /\ finish_push_delivery(s)
                        /\ receipts' = {}
                        /\ UNCHANGED <<admins, sender, phone, reports, clock, sends, warned, recovered, subscribes>>

ServerStops == /\ sender # None /\ sender' = None
               /\ UNCHANGED <<health, subscribed, admins, deliveries, receipts, phone, reports, clock,
                              sends, warned, recovered, subscribes>>

Next ==
    \/ set_monitoring \/ PhoneReports \/ NewPhoneSession \/ report_monitoring \/ mark_overdue
    \/ check_due \/ Tick \/ claim_push_delivery \/ sendTicketPush \/ SenderFinishes
    \/ LateReceipt \/ ServerStops
    \/ \E d \in Devices : Subscribe(d) \/ Unsubscribe(d) \/ LosesRole(d)

Spec == Init /\ [][Next]_monitorVars

(* A device is warned of one incident at most MAX_ATTEMPTS times, however often receipts *)
(* are lost, leases lapse, the issue changes and comes back, or rows are reconciled.     *)
WarningsAreBounded == \A k \in Keys : sends[k] <= MaxAttempts

(* "Ticket is ready again" only ever reaches a device that was warned of that incident.  *)
RecoveryIsEarned == recovered \subseteq warned
=====================================================================================
