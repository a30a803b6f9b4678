---------------------------- MODULE PrivacyRepair ----------------------------
(* The satiksme bot's start-up repair (reports/privacy_repair.go): votes,    *)
(* events and comments stored under a readable incident id are copied to the *)
(* opaque id of the same incident, one store call at a time; area reports    *)
(* are then rewritten to the opaque scope.  Any call may fail and the        *)
(* process may die between calls; the next start repairs again.  Between     *)
(* starts users vote under the opaque id.                                    *)
EXTENDS Naturals, FiniteSets

CONSTANTS Users, EventIDs, Comments, AreaReports,
          MaxTime, MaxStarts, None

VARIABLES
    kind,       \* the incident is a "vehicle" or an "area"
    votes,      \* incident_votes under the readable ("old") and opaque ("new") id
    events,     \* incident_vote_events: id -> event or None, the id is the key
    comments,   \* incident_comments: id -> "old" or "new"
    readable,   \* area reports whose stored scope is still readable
    pc,         \* where the repair is
    merged,     \* the votes merged at the start of the repair
    starts, now,
    newest      \* each user's newest vote, as the user cast it

repairVars == <<kind, votes, events, comments, readable, pc, merged, starts, now, newest>>
storeVars == <<kind, votes, events, comments, readable>>

Values == {"ongoing", "cleared"}
Casts(u) == {[value |-> events[e].value, at |-> events[e].at] : e \in {i \in EventIDs : events[i] # None /\ events[i].user = u}}
            \cup {votes[id][u] : id \in {i \in {"old", "new"} : votes[i][u] # None}}
NewestOf(set) == CHOOSE c \in set : \A d \in set : d.at <= c.at
Latest(u) == IF Casts(u) = {} THEN None ELSE NewestOf(Casts(u))

(* Legacy data: events under the readable id, two in one second; a user's    *)
(* vote is the newest event, or older than the event log.                    *)
Init ==
    /\ kind \in {"vehicle", "area"}
    /\ \E who \in [EventIDs -> Users \cup {None}], v \in [EventIDs -> Values] :
        events = [e \in EventIDs |-> IF who[e] = None THEN None
                  ELSE [user |-> who[e], value |-> v[e], at |-> (e + 1) \div 2, incident |-> "old"]]
    /\ \E early \in [Users -> {None} \cup [value : Values, at : {0}]] :
        votes = [id \in {"old", "new"} |-> [u \in Users |->
            LET cast == {[value |-> events[e].value, at |-> events[e].at] : e \in {i \in EventIDs : events[i] # None /\ events[i].user = u}}
            IN  IF id = "new" THEN None ELSE IF cast = {} THEN early[u] ELSE NewestOf(cast)]]
    /\ comments = [c \in Comments |-> "old"]
    /\ readable = IF kind = "area" THEN AreaReports ELSE {}
    /\ pc = "stopped" /\ merged = [u \in Users |-> None] /\ starts = 0
    /\ now = 1 + Cardinality(EventIDs)
    /\ newest = [u \in Users |-> Latest(u)]

(* Two casts of one second with different values are left for a person. *)
Conflict == \E u \in Users : \E c, d \in Casts(u) : c.at = d.at /\ c.value # d.value

(* Variant: the readable id's vote is kept. *)
keepLegacyVote(u) == IF votes["old"][u] # None THEN votes["old"][u] ELSE Latest(u)

(* The newest of the votes and events of both ids. *)
mergePrivacyVote(u) == Latest(u)

mergeLegacyPrivacyVotes == [u \in Users |-> mergePrivacyVote(u)]

(* The groups: a vehicle's sightings keep their readable scope for good, an  *)
(* area whose reports are all opaque is not repaired again.                  *)
RepairLegacyVehiclePrivacy == kind = "vehicle"
RepairLegacyAreaPrivacy == kind = "area" /\ readable # {}

StartRepair ==
    /\ pc = "stopped" /\ starts < MaxStarts
    /\ starts' = starts + 1
    /\ IF RepairLegacyVehiclePrivacy \/ RepairLegacyAreaPrivacy
       THEN IF Conflict THEN UNCHANGED <<pc, merged>>
            ELSE merged' = mergeLegacyPrivacyVotes /\ pc' = "events"
       ELSE pc' = "serving" /\ UNCHANGED merged
    /\ UNCHANGED <<storeVars, now, newest>>

OldEvents == {e \in EventIDs : events[e] # None /\ events[e].incident = "old"}

(* copyLegacyPrivacyActivity: the oldest event still to move is recorded     *)
(* under the opaque id with the merged vote, in one transaction; the event's *)
(* id is the key, so the row moves.                                          *)
MoveEvent ==
    /\ pc = "events"
    /\ \E e \in OldEvents :
        /\ \A f \in OldEvents : events[e].at <= events[f].at
        /\ events' = [events EXCEPT ![e].incident = "new"]
        /\ votes' = [votes EXCEPT !["new"][events[e].user] = merged[events[e].user]]
    /\ UNCHANGED <<kind, comments, readable, pc, merged, starts, now, newest>>

EventsMoved ==
    /\ pc = "events" /\ OldEvents = {}
    /\ pc' = "votes"
    /\ UNCHANGED <<storeVars, merged, starts, now, newest>>

UpsertIncidentVote ==
    /\ pc = "votes"
    /\ \/ \E u \in Users :
            /\ merged[u] # None /\ votes["new"][u] # merged[u]
            /\ votes' = [votes EXCEPT !["new"][u] = merged[u]]
            /\ UNCHANGED pc
       \/ /\ \A u \in Users : merged[u] # None => votes["new"][u] = merged[u]
          /\ pc' = "comments" /\ UNCHANGED votes
    /\ UNCHANGED <<kind, events, comments, readable, merged, starts, now, newest>>

MoveComment ==
    /\ pc = "comments"
    /\ \/ \E c \in Comments : comments[c] = "old" /\ comments' = [comments EXCEPT ![c] = "new"] /\ UNCHANGED pc
       \/ (\A c \in Comments : comments[c] = "new") /\ pc' = "reports" /\ UNCHANGED comments
    /\ UNCHANGED <<kind, votes, events, readable, merged, starts, now, newest>>

(* The reports are rewritten after their activity; then none is readable.    *)
RewriteAreaReport ==
    /\ pc = "reports"
    /\ \/ \E r \in readable : readable' = readable \ {r} /\ UNCHANGED pc
       \/ readable = {} /\ pc' = "serving" /\ UNCHANGED readable
    /\ UNCHANGED <<kind, votes, events, comments, merged, starts, now, newest>>

(* Served under the opaque id: a vote and its event. *)
Vote ==
    /\ pc = "serving" /\ now < MaxTime
    /\ \E u \in Users, v \in Values, e \in EventIDs :
        /\ events[e] = None
        /\ votes' = [votes EXCEPT !["new"][u] = [value |-> v, at |-> now]]
        /\ events' = [events EXCEPT ![e] = [user |-> u, value |-> v, at |-> now, incident |-> "new"]]
        /\ newest' = [newest EXCEPT ![u] = [value |-> v, at |-> now]]
    /\ now' = now + 1
    /\ UNCHANGED <<kind, comments, readable, pc, merged, starts>>

(* A store call fails, or the process dies. *)
Stop ==
    /\ pc # "stopped"
    /\ pc' = "stopped" /\ merged' = [u \in Users |-> None]
    /\ UNCHANGED <<storeVars, starts, now, newest>>

Next ==
    \/ StartRepair \/ MoveEvent \/ EventsMoved \/ UpsertIncidentVote
    \/ MoveComment \/ RewriteAreaReport \/ Vote \/ Stop

Spec == Init /\ [][Next]_repairVars

-----------------------------------------------------------------------------
(* Whenever the bot serves, after any number of interrupted repairs, the     *)
(* opaque id carries every user's newest vote and all events and comments:   *)
(* a repeated repair never puts an older vote over a newer one.              *)
RepairKeepsNewest ==
    pc = "serving" =>
        /\ \A u \in Users : newest[u] # None => votes["new"][u] = newest[u]
        /\ OldEvents = {} /\ \A c \in Comments : comments[c] = "new"
=============================================================================
