------------------------------- MODULE TrainReports -------------------------------
(* Reports, votes and comments of the train bot: the services reports/service.go and   *)
(* reports/incidents.go over the SQLite store, whose transactions hold one lock.  A    *)
(* request reads the clock when it arrives and carries that time into its transaction,  *)
(* so transactions commit out of the order of their times; the hourly cleanup deletes    *)
(* reports in between.                                                                   *)
EXTENDS Naturals, FiniteSets, FiniteSetsExt

CONSTANTS Requests,      \* requests in flight
          Users,
          Subjects,      \* what can be reported
          KindOf,        \* Subjects -> {"train", "sighting", "location"}
          Signals,       \* what a train report says
          Cooldown, Dedupe, ActionWindow, ActionLimit,   \* ReportMutationPolicy
          ChangeWindow, VoteWindow, VoteLimit,           \* VoteMutationPolicy
          CommentWindow, CommentLimit, IncidentLimit,    \* CommentMutationPolicy
          Retention,     \* DATA_RETENTION_HOURS
          MaxAge,        \* how long a request lasts, its HTTP timeout
          DayLength, MaxTime, MaxOps,
          None

VARIABLES clock,
          reportRows,    \* report_events, station_sighting_events, location_report_events
          voteRows,      \* incident_votes: [incident, user, value, updated]
          voteEvents,    \* incident_vote_events
          commentRows,   \* incident_comments
          request,       \* what each request is doing
          begun,         \* requests so far
          accepted       \* every report ever accepted, to state properties of

trainReportVars == <<clock, reportRows, voteRows, voteEvents, commentRows, request, begun,
                     accepted>>

Idle == [pc |-> "idle", kind |-> None, user |-> None, subject |-> None, value |-> None,
         at |-> 0, answer |-> None]

Init ==
    /\ clock = 0 /\ begun = 0
    /\ reportRows = {} /\ voteRows = {} /\ voteEvents = {} /\ commentRows = {}
    /\ accepted = {}
    /\ request = [q \in Requests |-> Idle]

(* --------------------------- incidents, as they are listed ------------------------ *)

incidentDayStart(at) == (at \div DayLength) * DayLength
incidentDayKey(at) == at \div DayLength

\* TrainIncidentID, StationIncidentID and LocationIncidentID: a subject and a day.  For a
\* train the subject stands for the stop the train was nearest to, which is worked out
\* again from the schedule at every listing; the schedule does not change here.
incidentID(r) == [subject |-> r.subject, day |-> incidentDayKey(r.at)]

collectTrainIncidentBundles(now) ==
    {r \in reportRows : KindOf[r.subject] = "train" /\ r.at >= incidentDayStart(now)}

collectStationIncidentBundles(now) ==
    {r \in reportRows : KindOf[r.subject] = "sighting" /\ r.at >= incidentDayStart(now)}

collectLocationIncidentBundles(now) ==
    {r \in reportRows : KindOf[r.subject] = "location" /\ r.at >= incidentDayStart(now)}

\* The reports of one incident; the kind in the identifier says where to look.
findIncidentBundle(i, now) ==
    LET kind == KindOf[i.subject]
        rows == IF kind = "train" THEN collectTrainIncidentBundles(now)
                ELSE collectStationIncidentBundles(now) \cup collectLocationIncidentBundles(now)
    IN  {r \in rows : incidentID(r) = i}

incidentVoteSummary(i) ==
    [ongoing |-> Cardinality({v \in voteRows : v.incident = i /\ v.value = "ongoing"}),
     cleared |-> Cardinality({v \in voteRows : v.incident = i /\ v.value = "cleared"})]

\* When something last happened: a report, today's comments, today's votes that say
\* the incident goes on.
enrichIncidentSummary(i, now) ==
    [incident |-> i, votes |-> incidentVoteSummary(i),
     lastReport |-> Max({r.at : r \in findIncidentBundle(i, now)}),
     lastActivity |->
        Max({r.at : r \in findIncidentBundle(i, now)}
            \cup {c.at : c \in {x \in commentRows : x.incident = i /\ x.at >= incidentDayStart(now)}}
            \cup {e.at : e \in {x \in voteEvents : /\ x.incident = i /\ x.value = "ongoing"
                                                    /\ x.at >= incidentDayStart(now)}})]

ListActiveIncidents(now) ==
    {enrichIncidentSummary(incidentID(r), now) :
        r \in collectTrainIncidentBundles(now) \cup collectStationIncidentBundles(now)
              \cup collectLocationIncidentBundles(now)}

(* ------------------------------------ requests ------------------------------------ *)

Begin(q, kind, u, s, value, pc) ==
    /\ request[q].pc = "idle" /\ begun < MaxOps
    /\ begun' = begun + 1
    /\ request' = [request EXCEPT ![q] =
                      [pc |-> pc, kind |-> kind, user |-> u, subject |-> s, value |-> value,
                       at |-> clock, answer |-> None]]
    /\ UNCHANGED <<clock, reportRows, voteRows, voteEvents, commentRows, accepted>>

\* SubmitReport, SubmitStationSighting, SubmitStationReport and SubmitAreaReport: the
\* event carries the time of the request.
SubmitReport(q) == \E u \in Users, s \in Subjects, signal \in Signals :
    /\ KindOf[s] # "train" => signal = CHOOSE x \in Signals : TRUE
    /\ Begin(q, "report", u, s, signal, "submit")

\* VoteIncident and AddIncidentComment look the incident up first.
VoteIncident(q) == \E u \in Users, r \in reportRows, value \in {"ongoing", "cleared"} :
    Begin(q, "vote", u, incidentID(r), value, "lookup")

AddIncidentComment(q) == \E u \in Users, r \in reportRows :
    Begin(q, "comment", u, incidentID(r), None, "lookup")

IncidentDetail(q) ==
    /\ request[q].pc = "lookup"
    /\ IF findIncidentBundle(request[q].subject, request[q].at) = {}
       THEN request' = [request EXCEPT ![q].pc = "done", ![q].answer = "not found"]
       ELSE request' = [request EXCEPT ![q].pc = "submit"]
    /\ UNCHANGED <<clock, reportRows, voteRows, voteEvents, commentRows, begun, accepted>>

(* ---------------------------------- transactions ---------------------------------- *)

Answer(q, answer) == request' = [request EXCEPT ![q].pc = "done", ![q].answer = answer]

nonNegativeDuration(a, b) == IF a >= b THEN a - b ELSE 0

LastOf(rows) == CHOOSE r \in rows : \A x \in rows : x.at <= r.at

\* GetLastReportByUserTrain and its siblings for the other two tables.
SameScope(w) == {r \in reportRows : r.user = w.user /\ r.subject = w.subject}

\* What the report before this one on the same subject says to it.
verdict(w) ==
    IF SameScope(w) = {} THEN None
    ELSE LET last == LastOf(SameScope(w))
             elapsed == nonNegativeDuration(w.at, last.at)
         IN  IF /\ elapsed < Dedupe
                /\ KindOf[w.subject] = "train" => last.value = w.value
             THEN "duplicate"
             ELSE IF elapsed < Cooldown THEN "cooldown" ELSE None

Since(rows, at, window) == {r \in rows : r.at + window >= at}

\* A mutant: the limit counts the table the report goes to.
limitOfOneTable(w) ==
    Cardinality({r \in Since(reportRows, w.at, ActionWindow) :
                    r.user = w.user /\ KindOf[r.subject] = KindOf[w.subject]}) >= ActionLimit

\* All three tables count, rows that are later than this request included.
enforceReportMutationLimit(w) ==
    Cardinality({r \in Since(reportRows, w.at, ActionWindow) : r.user = w.user}) >= ActionLimit

\* SubmitReportEvent, SubmitStationSighting and SubmitLocationReport of the store.
SubmitReportEvent(q) ==
    /\ request[q].pc = "submit" /\ request[q].kind = "report"
    /\ LET w == request[q]
           row == [user |-> w.user, subject |-> w.subject, value |-> w.value, at |-> w.at,
                   id |-> Cardinality(accepted)]
       IN  IF verdict(w) # None THEN Answer(q, verdict(w)) /\ UNCHANGED <<reportRows, accepted>>
           ELSE IF enforceReportMutationLimit(w)
           THEN Answer(q, "limit") /\ UNCHANGED <<reportRows, accepted>>
           ELSE /\ reportRows' = reportRows \cup {row}
                /\ accepted' = accepted \cup {row}
                /\ Answer(q, "accepted")
    /\ UNCHANGED <<clock, voteRows, voteEvents, commentRows, begun>>

CurrentVote(w) == {v \in voteRows : v.incident = w.subject /\ v.user = w.user}

\* A mutant: the distance of the two times counts, whichever is later.
voteIsFarFrom(w) ==
    \E v \in CurrentVote(w) : /\ nonNegativeDuration(w.at, v.updated) < ChangeWindow
                              /\ nonNegativeDuration(v.updated, w.at) < ChangeWindow

voteIsTooSoon(w) ==
    \E v \in CurrentVote(w) : nonNegativeDuration(w.at, v.updated) < ChangeWindow

tooManyVotes(w) ==
    Cardinality({e \in Since(voteEvents, w.at, VoteWindow) : e.user = w.user}) >= VoteLimit

\* The current vote and its event are written in one transaction.
SubmitIncidentVote(q) ==
    /\ request[q].pc = "submit" /\ request[q].kind = "vote"
    /\ LET w == request[q]
       IN  IF voteIsTooSoon(w) THEN Answer(q, "same vote") /\ UNCHANGED <<voteRows, voteEvents>>
           ELSE IF tooManyVotes(w) THEN Answer(q, "limit") /\ UNCHANGED <<voteRows, voteEvents>>
           ELSE /\ voteRows' = (voteRows \ CurrentVote(w)) \cup
                               {[incident |-> w.subject, user |-> w.user, value |-> w.value,
                                 updated |-> w.at]}
                /\ voteEvents' = voteEvents \cup
                                 {[incident |-> w.subject, user |-> w.user, value |-> w.value,
                                   at |-> w.at]}
                /\ Answer(q, "accepted")
    /\ UNCHANGED <<clock, reportRows, commentRows, begun, accepted>>

tooManyComments(w) ==
    LET recent == Since(commentRows, w.at, CommentWindow)
    IN  \/ Cardinality({c \in recent : c.user = w.user}) >= CommentLimit
        \/ Cardinality({c \in recent : c.incident = w.subject}) >= IncidentLimit

SubmitIncidentComment(q) ==
    /\ request[q].pc = "submit" /\ request[q].kind = "comment"
    /\ LET w == request[q]
       IN  IF tooManyComments(w) THEN Answer(q, "limit") /\ commentRows' = commentRows
           ELSE /\ commentRows' = commentRows \cup
                      {[incident |-> w.subject, user |-> w.user, at |-> w.at,
                        id |-> Cardinality(commentRows)]}
                /\ Answer(q, "accepted")
    /\ UNCHANGED <<clock, reportRows, voteRows, voteEvents, begun, accepted>>

\* The answer leaves; a rejected report may be sent again later.
Answered(q) ==
    /\ request[q].pc = "done"
    /\ request' = [request EXCEPT ![q] = Idle]
    /\ UNCHANGED <<clock, reportRows, voteRows, voteEvents, commentRows, begun, accepted>>

\* CleanupExpired deletes reports; votes and comments stay.
CleanupExpired ==
    /\ \E r \in reportRows : r.at + Retention < clock
    /\ reportRows' = {r \in reportRows : r.at + Retention >= clock}
    /\ UNCHANGED <<clock, voteRows, voteEvents, commentRows, request, begun, accepted>>

Clock == /\ clock < MaxTime /\ clock' = clock + 1
         /\ \A q \in Requests : request[q].pc # "idle" => clock < request[q].at + MaxAge
         /\ UNCHANGED <<reportRows, voteRows, voteEvents, commentRows, request, begun, accepted>>

Next == \/ \E q \in Requests :
              \/ SubmitReport(q) \/ VoteIncident(q) \/ AddIncidentComment(q)
              \/ IncidentDetail(q) \/ SubmitReportEvent(q) \/ SubmitIncidentVote(q)
              \/ SubmitIncidentComment(q) \/ Answered(q)
        \/ CleanupExpired \/ Clock

Spec == Init /\ [][Next]_trainReportVars

(* ------------------------------------ properties ---------------------------------- *)

Within(rows, from, window) == {r \in rows : r.at >= from /\ r.at <= from + window}

\* In whatever order requests commit, no window of the policy ever holds more of one
\* user's reports than the limit, and two reports of one user on one subject are a
\* cooldown apart (SubmitReportEvent, enforceReportMutationLimit).
ReportRateIsBounded ==
    \A u \in Users :
        LET own == {r \in accepted : r.user = u}
        IN  /\ \A from \in 0 .. MaxTime : Cardinality(Within(own, from, ActionWindow)) <= ActionLimit
            /\ \A r, s \in own : r.subject = s.subject /\ r.id # s.id =>
                  r.at + Cooldown <= s.at \/ s.at + Cooldown <= r.at

CastBy(u, i) == {e \in voteEvents : e.user = u /\ e.incident = i}

\* A listed incident counts every user once, with the vote that user cast last, although
\* an earlier request may commit after a later one (SubmitIncidentVote,
\* incidentVoteSummary).
LastVoteCounts ==
    \A x \in ListActiveIncidents(clock) :
        LET last(value) == {u \in Users : /\ CastBy(u, x.incident) # {}
                                          /\ LastOf(CastBy(u, x.incident)).value = value}
        IN  x.votes = [ongoing |-> Cardinality(last("ongoing")),
                       cleared |-> Cardinality(last("cleared"))]
=================================================================================
