---------------------------- MODULE PublicCache ----------------------------
(* The train bot's versioned public pages (internal/web/                     *)
(* public_edge_cache.go): every cacheable page is fetched under a version    *)
(* made of counters, an edge in front of the bot keeps what it fetched under *)
(* a version, and a request with another version is redirected.  Writers     *)
(* store their change first and raise the counters afterwards.  A version    *)
(* string is the tuple its hash is taken of.                                 *)
EXTENDS Naturals, FiniteSets

CONSTANTS Clients,      \* requests that pass through the edge
          Writers,      \* requests that report, vote or comment
          Trains, Stations,
          MaxChanges,   \* changes of the store
          MaxSchedules, \* schedules that are published
          MaxRestarts,
          None

Changes == 1 .. MaxChanges
Incidents == Trains \cup Stations

(* The pages: one per publicEdgeCacheRouteKind that depends on stored state. *)
Routes ==
    ({"dashboard", "service day", "map", "stations", "incidents"} \X {None})
    \cup ({"train", "train stops"} \X Trains)
    \cup ({"departures"} \X Stations)
    \cup ({"incident"} \X Incidents)

VARIABLES
    edition,    \* number of the schedule the bot serves
    stored,     \* change -> what it is, or None
    cache,      \* publicEdgeCache.state
    saved,      \* the state file
    rolledBack, \* a restart loaded counters from before a failed save
    noted,      \* changes whose counters were raised
    client,     \* the requests in progress
    writer,     \* the change each writer still has to note
    kept,       \* what the edge keeps of it: [version, schedule, changes]
    restarts,
    watched     \* the page the clients of this behaviour ask for

cacheVars == <<edition, stored, cache, saved, rolledBack, noted, client, writer, kept, restarts, watched>>

Report(t) == [kind |-> "report", train |-> t, station |-> None, incident |-> t]
Sighting(s, t) == [kind |-> "sighting", train |-> t, station |-> s, incident |-> s]
Update(i) == [kind |-> "update", train |-> None, station |-> None, incident |-> i]    \* vote, comment
LocationReport(i) == Update(i)

Whats ==
    {Report(t) : t \in Trains} \cup {Update(i) : i \in Incidents}
    \cup {LocationReport(s) : s \in Stations}
    \cup {Sighting(p[1], p[2]) : p \in Stations \X (Trains \cup {None})}

idleClient == [pc |-> "idle", cv |-> None, schedule |-> None]

(* normalizeLocked: roots start at one, the maps are empty. *)
normalized ==
    [loaded |-> None, scheduleRoot |-> 1, dashboardRoot |-> 1, networkRoot |-> 1,
     incidentsRoot |-> 1, train |-> [t \in Trains |-> 0],
     station |-> [s \in Stations |-> 0], incident |-> [i \in Incidents |-> 0]]

Init ==
    /\ edition = 1 /\ stored = [n \in Changes |-> None]
    /\ cache = normalized /\ saved = normalized /\ rolledBack = FALSE
    /\ noted = {} /\ kept = {} /\ restarts = 0
    /\ client = [c \in Clients |-> idleClient]
    /\ writer = [w \in Writers |-> None]
    /\ watched \in Routes

(* versionFor. *)
versionFor(r) ==
    CASE r[1] \in {"dashboard", "service day"} -> <<r, cache.scheduleRoot, cache.dashboardRoot>>
      [] r[1] = "map" -> <<r, cache.scheduleRoot, cache.networkRoot>>
      [] r[1] = "stations" -> <<r, cache.scheduleRoot, 0>>
      [] r[1] = "departures" -> <<r, cache.scheduleRoot, cache.station[r[2]]>>
      [] r[1] \in {"train", "train stops"} -> <<r, cache.scheduleRoot, cache.train[r[2]]>>
      [] r[1] = "incidents" -> <<r, 0, cache.incidentsRoot>>
      [] r[1] = "incident" -> <<r, cache.scheduleRoot, cache.incident[r[2]]>>

(* What each page's handler reads from the store. *)
dashboardReads(what) == what.kind = "report"
mapReads(what) == what.kind = "sighting"
stationsRead(what) == FALSE             \* the schedule alone
trainReads(t, what) == what.train = t
incidentReads(i, what) == what.incident = i

(* The status of the trains on a departures page is left to the age limit of *)
(* the edge: no counter of that page stands for it.                          *)
departuresRead(s, what) == what.station = s

reads(r, what) ==
    CASE r[1] \in {"dashboard", "service day"} -> dashboardReads(what)
      [] r[1] = "map" -> mapReads(what)
      [] r[1] = "stations" -> stationsRead(what)
      [] r[1] = "departures" -> departuresRead(r[2], what)
      [] r[1] \in {"train", "train stops"} -> trainReads(r[2], what)
      [] r[1] = "incidents" -> TRUE
      [] r[1] = "incident" -> incidentReads(r[2], what)

payload(r) == {n \in Changes : IF stored[n] = None THEN FALSE ELSE reads(r, stored[n])}

(* saveLocked: the new state goes to the file, or the save fails and nobody  *)
(* is told (told apart while a restart may still read the file).             *)
saveLocked(next) ==
    /\ cache' = next
    /\ saved' \in {next} \cup (IF restarts < MaxRestarts THEN {saved} ELSE {})

bumpMap(items, key) == IF key = None THEN items ELSE [items EXCEPT ![key] = @ + 1]

noteReportAccepted(what) ==
    [cache EXCEPT !.dashboardRoot = @ + 1, !.incidentsRoot = @ + 1,
                  !.train = bumpMap(@, what.train), !.incident = bumpMap(@, what.incident)]

noteStationSightingAccepted(what) ==
    [cache EXCEPT !.networkRoot = @ + 1, !.incidentsRoot = @ + 1,
                  !.station = bumpMap(@, what.station), !.train = bumpMap(@, what.train),
                  !.incident = bumpMap(@, what.incident)]

noteIncidentUpdated(what) ==
    [cache EXCEPT !.incidentsRoot = @ + 1, !.incident = bumpMap(@, what.incident)]

\* Mutant: the counters start again under the old root.
syncWithoutRoot(schedule) ==
    IF cache.loaded = schedule THEN cache
    ELSE [cache EXCEPT !.loaded = schedule,
                       !.train = normalized.train, !.station = normalized.station,
                       !.incident = normalized.incident]

(* syncLoadedSchedule: another schedule gets a new root, and the counters    *)
(* below it start again.                                                     *)
syncLoadedSchedule(schedule) ==
    IF cache.loaded = schedule THEN cache
    ELSE [cache EXCEPT !.loaded = schedule, !.scheduleRoot = @ + 1, !.incidentsRoot = @ + 1,
                       !.train = normalized.train, !.station = normalized.station,
                       !.incident = normalized.incident]

-----------------------------------------------------------------------------
(* A web handler: the store accepts the change. *)
SubmitChange(w) ==
    /\ writer[w] = None
    /\ \E what \in Whats, n \in Changes :
        /\ \A m \in Changes : stored[m] = None <=> m >= n
        /\ stored' = [stored EXCEPT ![n] = what]
        /\ writer' = [writer EXCEPT ![w] = n]
    /\ UNCHANGED <<edition, cache, saved, rolledBack, noted, client, kept, restarts, watched>>

(* The second half of the handler. *)
NoteChange(w) ==
    /\ writer[w] # None
    /\ LET what == stored[writer[w]]
       IN  saveLocked(CASE what.kind = "report" -> noteReportAccepted(what)
                        [] what.kind = "sighting" -> noteStationSightingAccepted(what)
                        [] what.kind = "update" -> noteIncidentUpdated(what))
    /\ noted' = noted \cup {writer[w]}
    /\ writer' = [writer EXCEPT ![w] = None]
    /\ UNCHANGED <<edition, stored, rolledBack, client, kept, restarts, watched>>

(* The jobs load and publish another schedule. *)
PublishSchedule ==
    /\ edition < MaxSchedules
    /\ edition' = edition + 1
    /\ UNCHANGED <<stored, cache, saved, rolledBack, noted, client, writer, kept, restarts, watched>>

(* beginPublicEdgeCache, first part: which schedule is it?  The edge answers *)
(* a version it keeps itself, so the request is one it does not keep.        *)
publicEdgeCacheScheduleState(c) ==
    /\ client[c].pc \in {"idle", "redirected"}
    /\ client' = [client EXCEPT ![c] = [pc |-> "sync", cv |-> @.cv, schedule |-> edition]]
    /\ UNCHANGED <<edition, stored, cache, saved, rolledBack, noted, writer, kept, restarts, watched>>

SyncSchedule(c) ==
    /\ client[c].pc = "sync"
    /\ saveLocked(syncLoadedSchedule(client[c].schedule))
    /\ client' = [client EXCEPT ![c].pc = "version", ![c].schedule = None]
    /\ UNCHANGED <<edition, stored, rolledBack, noted, writer, kept, restarts, watched>>

(* The current version: go on, or be sent to it. *)
beginPublicEdgeCache(c) ==
    /\ client[c].pc = "version"
    /\ LET version == versionFor(watched)
       IN  client' = [client EXCEPT ![c].pc = IF client[c].cv = version THEN "payload" ELSE "redirected",
                                    ![c].cv = version]
    /\ UNCHANGED <<edition, stored, cache, saved, rolledBack, noted, writer, kept, restarts, watched>>

(* The handler reads the store and writePublicJSON lets the edge keep the    *)
(* answer.  The model's edge keeps one page.                                 *)
writePublicJSON(c) ==
    /\ client[c].pc = "payload"
    /\ kept' = {[version |-> client[c].cv, schedule |-> edition, changes |-> payload(watched)]}
    /\ client' = [client EXCEPT ![c] = idleClient]
    /\ UNCHANGED <<edition, stored, cache, saved, rolledBack, noted, writer, restarts, watched>>

(* A request that is not cached (a session on an incident page) or fails. *)
AnswerUncached(c) ==
    /\ client[c].pc = "version"
    /\ client' = [client EXCEPT ![c] = idleClient]
    /\ UNCHANGED <<edition, stored, cache, saved, rolledBack, noted, writer, kept, restarts, watched>>

(* max-age, at most a minute. *)
httpMaxAge ==
    /\ kept # {}
    /\ kept' = {}
    /\ UNCHANGED <<edition, stored, cache, saved, rolledBack, noted, client, writer, restarts, watched>>

(* The process restarts and loads the file; requests in progress are lost. *)
load ==
    /\ restarts < MaxRestarts
    /\ restarts' = restarts + 1
    /\ cache' = saved
    /\ rolledBack' = (rolledBack \/ saved # cache)
    /\ client' = [c \in Clients |-> idleClient]
    /\ writer' = [w \in Writers |-> None]
    /\ UNCHANGED <<edition, stored, saved, noted, kept, watched>>

Next ==
    \/ \E w \in Writers : SubmitChange(w) \/ NoteChange(w)
    \/ PublishSchedule
    \/ \E c \in Clients : \/ publicEdgeCacheScheduleState(c) \/ SyncSchedule(c)
                          \/ beginPublicEdgeCache(c) \/ writePublicJSON(c) \/ AnswerUncached(c)
    \/ httpMaxAge
    \/ load

Spec == Init /\ [][Next]_cacheVars

-----------------------------------------------------------------------------
(* What the edge keeps under the version a request is sent to today holds    *)
(* every change whose writer has raised the counters, and is from the loaded *)
(* schedule or a later one: raised counters make every older copy            *)
(* unreachable.  (A lost save followed by a restart may bring versions back; *)
(* then the age limit bounds the harm.)                                      *)
CurrentVersionIsFresh ==
    ~rolledBack =>
        \A page \in kept : page.version = versionFor(watched) =>
            /\ noted \cap payload(watched) \subseteq page.changes
            /\ IF cache.loaded = None THEN TRUE
               ELSE watched[1] # "incidents" => page.schedule >= cache.loaded
=============================================================================
