-------------------------------- MODULE CatalogRefresh --------------------------------
(* The city-transport catalogue of satiksme-bot (internal/catalog/catalog.go): three     *)
(* source files are mirrored one by one, joined into a catalogue, written to disk as a   *)
(* fallback for the next start and installed for the web server, whose catalogue         *)
(* endpoint revalidates by ETag (web/server.go).  A download may fail or be unusable,    *)
(* the city may publish a new edition between two downloads, and the process may stop    *)
(* at any point.                                                                         *)
(*                                                                                       *)
(* A refresh takes seconds and the clock counts parts of a day, so the clock stands      *)
(* still during one; an age that is RefreshAfter on this clock may be just below it.     *)
EXTENDS Naturals, FiniteSets, FiniteSetsExt

CONSTANTS StopsIn,      \* edition -> stop ids of stops.txt
          RoutesIn,     \* edition -> routes of routes.txt, [label, stops]
          GtfsIn,       \* edition -> [stop of the GTFS file -> labels of the routes that call there]
          Near,         \* <<stop, GTFS stop>>: the GTFS stop within 120 metres that is nearest
          Clients,
          RefreshAfter,
          MaxTime, MaxStarts, MaxBuilds,   \* bounds
          None, Torn

Files == {"stops", "routes", "gtfs"}

VARIABLES edition,   \* what the city publishes now
          mirror,    \* file -> None or [edition, at, usable]
          output,    \* the catalogue file: None, Torn or a catalogue
          manager,   \* Manager: [current, etag, generatedAt, error]
          refresh,   \* the refresh under way: [step, starting, built]; "down" without a process
          ticker,    \* when the ticker of Run fires next
          client,    \* client -> [body, etag, read]: its cache, and the catalogue a request has read
          time, starts,
          builds     \* catalogues written, so that each has an id

catalogVars == <<edition, mirror, output, manager, refresh, ticker, client, time, builds, starts>>

idleRefresh == [step |-> "idle", starting |-> FALSE, built |-> None]
down == [step |-> "down", starting |-> FALSE, built |-> None]
NoCatalog == 0
NewManager == [current |-> None, etag |-> NoCatalog, generatedAt |-> 0, error |-> FALSE]

Init ==
    /\ edition = 1 /\ mirror = [f \in Files |-> None] /\ output = None /\ manager = NewManager
    /\ refresh = down /\ ticker = 0 /\ time = 0 /\ builds = 0 /\ starts = 0
    /\ client = [c \in Clients |-> [body |-> NoCatalog, etag |-> NoCatalog, read |-> None]]

(* -------------------------------- the catalogue ----------------------------------- *)

\* A stop that the GTFS file does not serve takes the routes of the nearest one it does.
nearestGTFSRoutes(stop, served) ==
    UNION {served[g] : g \in {x \in DOMAIN served : <<stop, x>> \in Near}}

gtfsRoutesAt(stop, served) ==
    IF stop \in DOMAIN served /\ served[stop] # {} THEN served[stop] ELSE nearestGTFSRoutes(stop, served)

registerRoutes(routes, served) ==
    {route.label : route \in routes} \cup UNION {served[stop] : stop \in DOMAIN served}

BuildCatalog(stops, routes, served) ==
    [stops |-> [stop \in stops \cup DOMAIN served |->
                   {route.label : route \in {r \in routes : stop \in r.stops}} \cup gtfsRoutesAt(stop, served)],
     routes |-> registerRoutes(routes, served)]

BuildCatalogFromPaths ==
    [id |-> builds + 1, generatedAt |-> time, oldest |-> Min({mirror[f].at : f \in Files}),
     content |-> BuildCatalog(StopsIn[mirror["stops"].edition], RoutesIn[mirror["routes"].edition],
                              GtfsIn[mirror["gtfs"].edition])]

(* ---------------------------------- the manager ----------------------------------- *)

fresh(f) == mirror[f] # None /\ time - mirror[f].at < RefreshAfter

nearlyFresh(f) == mirror[f] # None /\ time - mirror[f].at = RefreshAfter

useCatalog(catalog, error) ==
    manager' = [current |-> catalog, etag |-> catalog.id, generatedAt |-> catalog.generatedAt,
                error |-> error]

recordRefreshError == manager' = [manager EXCEPT !.error = TRUE]

\* LoadOrRefresh falls back on the file of an earlier run; without one Run returns the error.
RefreshFails ==
    /\ IF ~refresh.starting THEN recordRefreshError /\ refresh' = idleRefresh
       ELSE IF output' \in {None, Torn} THEN manager' = NewManager /\ refresh' = down
       ELSE useCatalog(output', TRUE) /\ refresh' = idleRefresh
    /\ ticker' = IF refresh.starting THEN time + RefreshAfter ELSE ticker

After(f) == CASE f = "stops" -> "routes" [] f = "routes" -> "gtfs" [] f = "gtfs" -> "build"

Download(f, usable) == mirror' = [mirror EXCEPT ![f] = [edition |-> edition, at |-> time, usable |-> usable]]

\* A mutant: a file whose download fails is used as it is.
mirrorKeepsOld(f) ==
    /\ refresh.step = f
    /\ \/ mirror[f] # None /\ UNCHANGED mirror
       \/ ~fresh(f) /\ \E usable \in BOOLEAN : Download(f, usable)
    /\ refresh' = [refresh EXCEPT !.step = After(f)]
    /\ UNCHANGED <<edition, output, manager, ticker, client, time, builds, starts>>

mirrorFile(f) ==
    /\ refresh.step = f
    /\ \/ /\ \/ (fresh(f) \/ nearlyFresh(f)) /\ UNCHANGED mirror
             \/ ~fresh(f) /\ \E usable \in BOOLEAN : Download(f, usable)
          /\ refresh' = [refresh EXCEPT !.step = After(f)]
          /\ UNCHANGED <<output, manager, ticker>>
       \/ ~fresh(f) /\ UNCHANGED <<mirror, output>> /\ RefreshFails
    /\ UNCHANGED <<edition, client, time, builds, starts>>

Build ==
    /\ refresh.step = "build" /\ builds < MaxBuilds
    /\ IF \A f \in Files : mirror[f].usable
       THEN /\ refresh' = [refresh EXCEPT !.step = "write", !.built = BuildCatalogFromPaths]
            /\ UNCHANGED <<output, manager, ticker>>
       ELSE UNCHANGED output /\ RefreshFails
    /\ UNCHANGED <<edition, mirror, client, time, builds, starts>>

\* os.WriteFile empties the file before it writes it.
writeCatalog ==
    \/ /\ refresh.step = "write"
       /\ output' = Torn /\ refresh' = [refresh EXCEPT !.step = "writing"]
       /\ UNCHANGED <<edition, mirror, manager, ticker, client, time, builds, starts>>
    \/ /\ refresh.step = "writing"
       /\ \/ /\ output' = refresh.built /\ refresh' = [refresh EXCEPT !.step = "use"]
             /\ builds' = builds + 1
             /\ UNCHANGED <<manager, ticker>>
          \/ UNCHANGED <<output, builds>> /\ RefreshFails
       /\ UNCHANGED <<edition, mirror, client, time, starts>>

\* A mutant: the ETag of the catalogue before is kept.
installKeepsTag ==
    /\ refresh.step = "use"
    /\ manager' = [manager EXCEPT !.current = refresh.built, !.generatedAt = refresh.built.generatedAt,
                                  !.etag = IF manager.current = None THEN refresh.built.id ELSE @]
    /\ refresh' = idleRefresh
    /\ ticker' = IF refresh.starting THEN time + RefreshAfter ELSE ticker
    /\ UNCHANGED <<edition, mirror, output, client, time, builds, starts>>

Install ==
    /\ refresh.step = "use"
    /\ useCatalog(refresh.built, FALSE)
    /\ refresh' = idleRefresh
    /\ ticker' = IF refresh.starting THEN time + RefreshAfter ELSE ticker
    /\ UNCHANGED <<edition, mirror, output, client, time, builds, starts>>

Run ==
    /\ refresh.step = "down" /\ starts < MaxStarts
    /\ starts' = starts + 1
    /\ refresh' = [step |-> "stops", starting |-> TRUE, built |-> None]
    /\ UNCHANGED <<edition, mirror, output, manager, ticker, client, time, builds>>

TickerDue == refresh.step = "idle" /\ time >= ticker

Refresh ==
    /\ TickerDue
    /\ refresh' = [step |-> "stops", starting |-> FALSE, built |-> None]
    /\ ticker' = ticker + RefreshAfter
    /\ UNCHANGED <<edition, mirror, output, manager, client, time, builds, starts>>

ProcessStops ==
    /\ refresh.step # "down"
    /\ manager' = NewManager /\ refresh' = down
    /\ client' = [c \in Clients |-> [client[c] EXCEPT !.read = None]]
    /\ UNCHANGED <<edition, mirror, output, ticker, time, builds, starts>>

(* ----------------------------- the catalogue endpoint ----------------------------- *)

\* handlePublicCatalog takes the catalogue, and only then the ETag it is sent under.
ReadCurrent(c) ==
    /\ manager.current # None /\ client[c].read = None
    /\ client' = [client EXCEPT ![c].read = manager.current.id]
    /\ UNCHANGED <<edition, mirror, output, manager, refresh, ticker, time, builds, starts>>

handlePublicCatalog(c) ==
    /\ client[c].read # None
    /\ client' = [client EXCEPT ![c] =
                     IF @.etag = manager.etag THEN [@ EXCEPT !.read = None]   \* 304
                     ELSE [body |-> @.read, etag |-> manager.etag, read |-> None]]
    /\ UNCHANGED <<edition, mirror, output, manager, refresh, ticker, time, builds, starts>>

Publish ==
    /\ edition + 1 \in DOMAIN StopsIn
    /\ edition' = edition + 1
    /\ UNCHANGED <<mirror, output, manager, refresh, ticker, client, time, builds, starts>>

\* A request takes milliseconds and the ticker is served at once.
Tick ==
    /\ time < MaxTime /\ refresh.step \in {"idle", "down"} /\ ~TickerDue /\ \A c \in Clients : client[c].read = None
    /\ time' = time + 1
    /\ UNCHANGED <<edition, mirror, output, manager, refresh, ticker, client, builds, starts>>

Next ==
    \/ \E f \in Files : mirrorFile(f)
    \/ Build \/ writeCatalog \/ Install \/ Run \/ Refresh \/ ProcessStops \/ Publish \/ Tick
    \/ \E c \in Clients : ReadCurrent(c) \/ handlePublicCatalog(c)

Spec == Init /\ [][Next]_catalogVars

(* ---------------------------------- properties ------------------------------------ *)

catalogStale == time - manager.generatedAt > 2 * RefreshAfter

(* Health reports a stale catalogue from the time it was generated, not from the age of  *)
(* the files it was made of: still, once any file is more than three refresh periods old *)
(* the catalogue is reported stale, whatever failed or restarted in between.             *)
StaleDataIsReported ==
    manager.current # None /\ time - manager.current.oldest > 3 * RefreshAfter
        => catalogStale

(* The catalogue and its ETag are read under separate locks, so a response can carry the *)
(* catalogue before the one its ETag names; a client that would be told "not modified"   *)
(* is never further behind than that.                                                    *)
RevalidatedIsRecent ==
    \A c \in Clients : manager.current # None /\ client[c].etag = manager.etag
        => client[c].body >= manager.current.id - 1
=======================================================================================
