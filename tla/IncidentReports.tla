--------------------------- MODULE IncidentReports ---------------------------
(* Reports, votes and comments of the satiksme bot (internal/reports with    *)
(* the SQLite store).  Request handlers run concurrently: each takes its     *)
(* time `at` from the caller, reads, and writes in a later step.  Vehicle    *)
(* and area reports are serialised by a mutex each, stop reports are not.    *)
EXTENDS Naturals, FiniteSets, FiniteSetsExt

CONSTANTS
    Handlers,       \* concurrent request handlers
    Users,
    Scopes,         \* private scopes: stops, vehicles, areas
    KindOf,         \* [Scopes -> {"stop", "vehicle", "area"}]
    PublicID,       \* [Scopes -> incident]: the hashed id, which may collide
    AliasOf,        \* [Scopes -> alias]: the readable id of links shared earlier
    Keys,           \* idempotency keys a client may send
    Dedupe, SameVote, ActionWindow, ActionLimit, Lookback, Retention,
    Visibility,     \* how long a sighting is shown, at most Lookback
    MaxAge,         \* no request outlives this many seconds
    MaxTime, MaxOps, None

VARIABLES
    now,            \* the clock, in seconds
    reports,        \* rows of stop_sightings, vehicle_sightings, area_reports
    claims,         \* report_dedupe_claims: last_report_at
    votes,          \* incident_votes
    events,         \* incident_vote_events
    comments,       \* incident_comments
    vehicleMu, areaMu,
    request,        \* what each handler is doing
    ops,            \* requests begun, for fresh ids
    cleanup         \* next statement of CleanupExpired

reportVars == <<now, reports, claims, votes, events, comments, vehicleMu, areaMu, request, ops, cleanup>>
storeVars == <<reports, claims, votes, events, comments>>

Incidents == {PublicID[s] : s \in Scopes}
Aliases == {AliasOf[s] : s \in Scopes}
Idle == [pc |-> "idle", user |-> None, scope |-> None, incident |-> None, hidden |-> FALSE, value |-> "ongoing", key |-> None, id |-> None, at |-> 0]

Init ==
    /\ now = 0 /\ reports = {} /\ events = {} /\ comments = {}
    /\ claims = [u \in Users |-> [s \in Scopes \cup Incidents |-> None]]
    /\ votes = [u \in Users |-> [i \in Incidents |-> None]]
    /\ vehicleMu = None /\ areaMu = None
    /\ request = [h \in Handlers |-> Idle]
    /\ ops = 0 /\ cleanup = 0

Since(window) == IF now > window THEN now - window ELSE 0
Before(t, window) == IF t > window THEN t - window ELSE 0

(* A row with this id, hidden or not. *)
findReportByID(r) == \E row \in reports : row.id = r.id

Release(h) ==
    /\ vehicleMu' = IF vehicleMu = h THEN None ELSE vehicleMu
    /\ areaMu' = IF areaMu = h THEN None ELSE areaMu
    /\ request' = [request EXCEPT ![h] = Idle]

Proceed(h, pc) == request' = [request EXCEPT ![h].pc = pc]

(* A submission arrives; with a key its id is the hash of kind, user and key. *)
submissionReportID(h) ==
    /\ request[h].pc = "idle" /\ ops < MaxOps
    /\ ops' = ops + 1
    /\ \E u \in Users, s \in Scopes, hide \in BOOLEAN, k \in Keys \cup {None} :
        request' = [request EXCEPT ![h] = [Idle EXCEPT
            !.pc = "submit", !.user = u, !.scope = s, !.incident = PublicID[s], !.hidden = hide, !.key = k,
            !.id = IF k = None THEN <<"new", None, ops'>> ELSE <<KindOf[s], u, k>>, !.at = now]]
    /\ UNCHANGED <<now, storeVars, vehicleMu, areaMu, cleanup>>

(* The reads before a write: an idempotent retry is reconciled with the row  *)
(* it finds, hidden reports skip the limits.                                 *)
EnterSubmission(h, available) ==
    LET r == request[h]
        reconciled == r.key # None /\ findReportByID(r)
    IN  IF reconciled \/ ~available THEN Release(h)
        ELSE Proceed(h, IF r.hidden THEN "insert" ELSE "limit") /\ UNCHANGED <<vehicleMu, areaMu>>

SubmitStopSighting(h) ==
    /\ request[h].pc = "submit" /\ KindOf[request[h].scope] = "stop"
    /\ EnterSubmission(h, TRUE)
    /\ UNCHANGED <<now, storeVars, ops, cleanup>>

(* No stored scope of the kind has the same public id. *)
ensureVehiclePublicIDAvailable(r) ==
    KindOf[r.scope] = "vehicle" =>
        \A row \in reports : KindOf[row.scope] = "vehicle" /\ PublicID[row.scope] = PublicID[r.scope] => row.scope = r.scope

ensureAreaPublicIDAvailable(r) ==
    KindOf[r.scope] = "area" =>
        \A row \in reports : KindOf[row.scope] = "area" /\ PublicID[row.scope] = PublicID[r.scope] => row.scope = r.scope

(* Variant: the collision check without its mutex. *)
LockNothing(h) == vehicleMu' = vehicleMu

LockVehicle(h) == vehicleMu = None /\ vehicleMu' = h

SubmitVehicleSighting(h) ==
    /\ request[h].pc = "submit" /\ KindOf[request[h].scope] = "vehicle"
    /\ LockVehicle(h)
    /\ Proceed(h, "entered")
    /\ UNCHANGED <<now, storeVars, areaMu, ops, cleanup>>

SubmitAreaReport(h) ==
    /\ request[h].pc = "submit" /\ KindOf[request[h].scope] = "area"
    /\ areaMu = None /\ areaMu' = h
    /\ Proceed(h, "entered")
    /\ UNCHANGED <<now, storeVars, vehicleMu, ops, cleanup>>

(* Under the lock: the lookup, then the collision check. *)
CheckPublicID(h) ==
    LET r == request[h] IN
    /\ r.pc = "entered"
    /\ EnterSubmission(h, ensureVehiclePublicIDAvailable(r) /\ ensureAreaPublicIDAvailable(r))
    /\ UNCHANGED <<now, storeVars, ops, cleanup>>

(* Blocked when the user's own ongoing vote is older than the dedupe window  *)
(* and younger than the same-vote window, or after too many visible reports. *)
mapReportLimitResult(r) ==
    LET vote == votes[r.user][r.incident]
        ongoing == vote # None /\ vote.value = "ongoing"
        recent == {row \in reports : row.user = r.user /\ ~row.hidden /\ row.at >= Before(r.at, ActionWindow)}
    IN  IF ongoing /\ r.at < vote.at + Dedupe THEN FALSE
        ELSE (ongoing /\ r.at < vote.at + SameVote) \/ Cardinality(recent) >= ActionLimit

LimitReport(h) ==
    /\ request[h].pc = "limit"
    /\ IF mapReportLimitResult(request[h]) THEN Release(h)
       ELSE Proceed(h, "insert") /\ UNCHANGED <<vehicleMu, areaMu>>
    /\ UNCHANGED <<now, storeVars, ops, cleanup>>

(* Variant: only a newer claim is refused. *)
claimAnyOlder(r, scopeKey) ==
    LET last == claims[r.user][scopeKey]
    IN  IF last = None THEN TRUE ELSE last <= r.at

(* One row per user and scope key: refused while the last report is in       *)
(* window.                                                                   *)
claimReportDedupeTx(r, scopeKey) ==
    LET last == claims[r.user][scopeKey]
    IN  IF last = None THEN TRUE ELSE last + Dedupe <= r.at

(* Variant: a second vote of the user leaves no event. *)
recordVoteOnly(r, source) ==
    /\ votes' = [votes EXCEPT ![r.user][r.incident] = [value |-> r.value, at |-> r.at]]
    /\ events' = IF votes[r.user][r.incident] # None THEN events
                 ELSE events \cup {[id |-> r.id, user |-> r.user, incident |-> r.incident,
                                    value |-> r.value, source |-> source, at |-> r.at]}

(* The vote row and its event, in one transaction. *)
recordIncidentVoteTx(r, source) ==
    /\ votes' = [votes EXCEPT ![r.user][r.incident] = [value |-> r.value, at |-> r.at]]
    /\ events' = {e \in events : e.id # r.id}
                 \cup {[id |-> r.id, user |-> r.user, incident |-> r.incident, value |-> r.value, source |-> source, at |-> r.at]}

Row(r) == [id |-> r.id, user |-> r.user, scope |-> r.scope, hidden |-> r.hidden, at |-> r.at]

(* A visible report: claim, row, vote and event commit together; a claim in  *)
(* force or an id already used rolls everything back.                        *)
InsertWithVote(r, scopeKey) ==
    /\ claimReportDedupeTx(r, scopeKey) /\ ~findReportByID(r)
    /\ claims' = [claims EXCEPT ![r.user][scopeKey] = r.at]
    /\ reports' = reports \cup {Row(r)}
    /\ recordIncidentVoteTx(r, "map_report")

(* What the claim is keyed by: the stop, the vehicle's opaque id, the area's *)
(* private scope.                                                            *)
InsertStopSightingWithVote(r) == KindOf[r.scope] = "stop" /\ InsertWithVote(r, r.scope)
InsertVehicleSightingWithVote(r) == KindOf[r.scope] = "vehicle" /\ InsertWithVote(r, r.incident)
InsertAreaReportWithVote(r) == KindOf[r.scope] = "area" /\ InsertWithVote(r, r.scope)

(* A hidden report is one row: a stop's id must be new, vehicle and area     *)
(* rows are upserted by id.                                                  *)
InsertStopSighting(r) ==
    KindOf[r.scope] = "stop" /\ ~findReportByID(r) /\ reports' = reports \cup {Row(r)}
InsertVehicleSighting(r) ==
    KindOf[r.scope] = "vehicle" /\ reports' = {row \in reports : row.id # r.id} \cup {Row(r)}
InsertAreaReport(r) ==
    KindOf[r.scope] = "area" /\ reports' = {row \in reports : row.id # r.id} \cup {Row(r)}

(* The write commits, or fails and changes nothing.  The answer is the same  *)
(* to the store: a retry under the key finds the row or inserts it.          *)
InsertReport(h) ==
    LET r == request[h] IN
    /\ r.pc = "insert"
    /\ \/ /\ ~r.hidden
          /\ InsertStopSightingWithVote(r) \/ InsertVehicleSightingWithVote(r) \/ InsertAreaReportWithVote(r)
       \/ /\ r.hidden
          /\ InsertStopSighting(r) \/ InsertVehicleSighting(r) \/ InsertAreaReport(r)
          /\ UNCHANGED <<claims, votes, events>>
    /\ Release(h)
    /\ UNCHANGED <<now, comments, ops, cleanup>>

InsertFails(h) ==
    /\ request[h].pc = "insert"
    /\ Release(h)
    /\ UNCHANGED <<now, storeVars, ops, cleanup>>

(* An opaque id is itself; a readable alias resolves while all its recent    *)
(* reports agree on one incident.                                            *)
canonicalIncidentID(ref) ==
    IF ref \in Incidents THEN {ref}
    ELSE {PublicID[row.scope] : row \in {q \in reports : AliasOf[q.scope] = ref /\ q.at >= Since(Lookback)}}

(* A bundle of visible reports in the look-back makes the incident. *)
collectIncidentBundles(incident) ==
    {row \in reports : ~row.hidden /\ PublicID[row.scope] = incident /\ row.at >= Since(Lookback)}

(* IncidentDetail finds the incident. *)
IncidentDetail(ref, incident) ==
    canonicalIncidentID(ref) = {incident} /\ collectIncidentBundles(incident) # {}

enforceSameVoteWindow(user, incident, value) ==
    LET vote == votes[user][incident]
    IN  IF vote = None THEN TRUE ELSE vote.value # value \/ now >= vote.at + SameVote

enforceVoteActionLimit(user) ==
    Cardinality({e \in events : e.user = user /\ e.source = "vote" /\ e.at >= Since(ActionWindow)}) < ActionLimit

(* VoteIncident: the checks, then the write in a later step. *)
VoteIncident(h) ==
    /\ request[h].pc = "idle" /\ ops < MaxOps
    /\ ops' = ops + 1
    /\ \E u \in Users, ref \in Incidents \cup Aliases, i \in Incidents, v \in {"ongoing", "cleared"} :
        /\ IncidentDetail(ref, i)
        /\ enforceSameVoteWindow(u, i, v) /\ enforceVoteActionLimit(u)
        /\ request' = [request EXCEPT ![h] = [Idle EXCEPT
            !.pc = "vote", !.user = u, !.incident = i, !.value = v, !.id = <<"new", None, ops'>>, !.at = now]]
    /\ UNCHANGED <<now, storeVars, vehicleMu, areaMu, cleanup>>

recordIncidentVote(h) ==
    LET r == request[h] IN
    /\ r.pc = "vote"
    /\ recordIncidentVoteTx(r, "vote")
    /\ request' = [request EXCEPT ![h] = Idle]
    /\ UNCHANGED <<now, reports, claims, comments, vehicleMu, areaMu, ops, cleanup>>

enforceCommentActionLimit(user, incident) ==
    /\ Cardinality({c \in comments : c.user = user /\ c.at >= Since(ActionWindow)}) < ActionLimit
    /\ Cardinality({c \in comments : c.incident = incident /\ c.at >= Since(ActionWindow)}) < ActionLimit

AddIncidentComment(h) ==
    /\ request[h].pc = "idle" /\ ops < MaxOps
    /\ ops' = ops + 1
    /\ \E u \in Users, ref \in Incidents \cup Aliases, i \in Incidents :
        /\ IncidentDetail(ref, i)
        /\ enforceCommentActionLimit(u, i)
        /\ request' = [request EXCEPT ![h] = [Idle EXCEPT
            !.pc = "comment", !.user = u, !.incident = i, !.id = <<"new", None, ops'>>, !.at = now]]
    /\ UNCHANGED <<now, storeVars, vehicleMu, areaMu, cleanup>>

InsertIncidentComment(h) ==
    LET r == request[h] IN
    /\ r.pc = "comment"
    /\ comments' = comments \cup {[id |-> r.id, user |-> r.user, incident |-> r.incident, at |-> r.at]}
    /\ request' = [request EXCEPT ![h] = Idle]
    /\ UNCHANGED <<now, reports, claims, votes, events, vehicleMu, areaMu, ops, cleanup>>

Expired(at) == now > Retention /\ at < now - Retention

DeleteReports(kind) == reports' = {row \in reports : KindOf[row.scope] # kind \/ ~Expired(row.at)}
DeleteEvents == events' = {e \in events : ~Expired(e.at)}
DeleteVotes == votes' = [u \in Users |-> [i \in Incidents |->
    IF votes[u][i] # None /\ Expired(votes[u][i].at) THEN None ELSE votes[u][i]]]
DeleteComments == comments' = {c \in comments : ~Expired(c.at)}
DeleteClaims == claims' = [u \in Users |-> [k \in Scopes \cup Incidents |->
    IF claims[u][k] # None /\ Expired(claims[u][k]) THEN None ELSE claims[u][k]]]

(* CleanupExpired: seven statements, each its own transaction; an error ends *)
(* the run at any of them.                                                   *)
CleanupExpired ==
    /\ now > Retention
    /\ \/ cleanup = 0 /\ DeleteReports("stop") /\ UNCHANGED <<claims, votes, events, comments>>
       \/ cleanup = 1 /\ DeleteReports("vehicle") /\ UNCHANGED <<claims, votes, events, comments>>
       \/ cleanup = 2 /\ DeleteReports("area") /\ UNCHANGED <<claims, votes, events, comments>>
       \/ cleanup = 3 /\ DeleteEvents /\ UNCHANGED <<reports, claims, votes, comments>>
       \/ cleanup = 4 /\ DeleteVotes /\ UNCHANGED <<reports, claims, events, comments>>
       \/ cleanup = 5 /\ DeleteComments /\ UNCHANGED <<reports, claims, votes, events>>
       \/ cleanup = 6 /\ DeleteClaims /\ UNCHANGED <<reports, votes, events, comments>>
    /\ cleanup' \in {0, (cleanup + 1) % 7}
    /\ UNCHANGED <<now, vehicleMu, areaMu, request, ops>>

Tick ==
    /\ now < MaxTime
    /\ \A h \in Handlers : request[h].pc = "idle" \/ now < request[h].at + MaxAge
    /\ now' = now + 1
    /\ UNCHANGED <<storeVars, vehicleMu, areaMu, request, ops, cleanup>>

Next ==
    \/ \E h \in Handlers :
        \/ submissionReportID(h) \/ SubmitStopSighting(h) \/ SubmitVehicleSighting(h) \/ SubmitAreaReport(h)
        \/ CheckPublicID(h) \/ LimitReport(h) \/ InsertReport(h) \/ InsertFails(h)
        \/ VoteIncident(h) \/ recordIncidentVote(h) \/ AddIncidentComment(h) \/ InsertIncidentComment(h)
    \/ CleanupExpired
    \/ Tick

Spec == Init /\ [][Next]_reportVars

-----------------------------------------------------------------------------
(* Two visible reports of one user about one scope are at least the dedupe  *)
(* window apart, although stop reports run unserialised and carry times     *)
(* taken before others committed (claimReportDedupeTx).                     *)
OneReportPerWindow ==
    \A r, q \in reports :
        r # q /\ ~r.hidden /\ ~q.hidden /\ r.user = q.user /\ r.scope = q.scope =>
            r.at >= q.at + Dedupe \/ q.at >= r.at + Dedupe

(* A public incident id names one private scope: two vehicles or areas whose *)
(* ids collide are never both stored (ensure...PublicIDAvailable under the   *)
(* kind's mutex), so votes on one are never shown on the other.              *)
PublicIDIsUnambiguous ==
    \A r, q \in reports : PublicID[r.scope] = PublicID[q.scope] => r.scope = q.scope

(* What the map shows: visible sightings of the last minutes. *)
VisibleSightings == {row \in reports : ~row.hidden /\ row.at >= Since(Visibility)}

(* upsertIncidentBundle: an incident is as recent as its newest report.      *)
BundleTime(i) == Max({row.at : row \in collectIncidentBundles(i)})

(* ListIncidentVoteEvents within the look-back. *)
VoteEvents(i) == {e \in events : e.incident = i /\ e.at >= Since(Lookback)}

(* enrichIncidentSummary: the newest vote event, if any, replaces the time   *)
(* of the newest report.                                                     *)
LastReportAt(i) == IF VoteEvents(i) = {} THEN BundleTime(i) ELSE Max({e.at : e \in VoteEvents(i)})

(* listRecentIncidents. *)
ListActiveIncidents == {i \in Incidents : collectIncidentBundles(i) # {}}

(* Every sighting on the map has an incident in the list that can be opened  *)
(* by its id, and the list never dates the incident before the sighting,     *)
(* although the summary takes its time from the vote events, which are       *)
(* written late and deleted in another statement than the reports.           *)
NewestReportIsShown ==
    \A row \in VisibleSightings :
        LET i == PublicID[row.scope] IN
        i \in ListActiveIncidents /\ IncidentDetail(i, i) /\ LastReportAt(i) >= row.at
=============================================================================
