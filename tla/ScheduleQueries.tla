----------------------------- MODULE ScheduleQueries -----------------------------
(* The questions the train service asks a stored service day: which trains leave in a *)
(* window, pass a station, serve a route, where one can get to (schedule/manager.go). *)
(* Two stores answer them, each in its own way: SQLite by joins over rows             *)
(* (store/sqlite.go), SpacetimeDB by a walk over whole trips (store/spacetime.go).    *)
(* Both are filled from the same scraped day, the second first; the rows of SQLite    *)
(* are replaced in two transactions.  Ties in the order of an answer are left open by *)
(* both, so an answer is the set of its rows.                                         *)
EXTENDS Integers, Sequences, FiniteSets, FiniteSetsExt, SequencesExt, Functions

CONSTANTS Timetables,  \* days the scraper may deliver: train -> its stops
          Names,       \* station names
          CacheID,     \* normalizeStationID: name -> id in SQLite
          SpacetimeID, \* spacetimeNormalizeStationID: name -> id in SpacetimeDB
          Around,      \* the quarter of an hour and the half hour before now
          Ahead,       \* how far a window looks ahead
          LastMinute,  \* the end of the day
          MaxDays,     \* bound on imports
          None

VARIABLES day,       \* the timetable being imported
          stage,     \* what of it is stored: "trips", "instances", "stops", "done"
          trips,     \* SpacetimeDB: train -> its trip
          places,    \* the stations of its service day
          instances, \* SQLite: train_instances
          rows,      \* train_stops
          stations,  \* stations: id -> name
          days       \* imports so far

queryVars == <<day, stage, trips, places, instances, rows, stations, days>>

NoTrains == [t \in {} |-> None]

Init ==
    /\ day = None /\ stage = "done" /\ days = 0
    /\ trips = NoTrains /\ places = {}
    /\ instances = NoTrains /\ rows = {} /\ stations = NoTrains

(* -------------------------------- filling the stores ------------------------------- *)

first(stops) == CHOOSE s \in stops : \A o \in stops : s.seq <= o.seq
last(stops) == CHOOSE s \in stops : \A o \in stops : s.seq >= o.seq

departureOf(stops) == first(stops).departure
arrivalOf(stops) == last(stops).arrival

Scrape ==
    /\ stage = "done" /\ days < MaxDays
    /\ day' \in Timetables
    /\ stage' = "trips" /\ days' = days + 1
    /\ UNCHANGED <<trips, places, instances, rows, stations>>

\* Stops without a name are left out, the others are ordered by their number.
buildScheduleBatchSnapshot ==
    [t \in DOMAIN day |->
       [departure |-> departureOf(day[t]), arrival |-> arrivalOf(day[t]),
        stops |-> SetToSortSeq({[station |-> SpacetimeID[s.name], name |-> s.name, seq |-> s.seq,
                                 arrival |-> s.arrival, departure |-> s.departure] :
                                s \in {s \in day[t] : s.name # None}},
                               LAMBDA a, b : a.seq < b.seq)]]

ImportTrips ==
    /\ stage = "trips" /\ stage' = "instances"
    /\ trips' = buildScheduleBatchSnapshot
    /\ places' = {s.name : s \in {s \in UNION Range(day) : s.name # None}}
    /\ UNCHANGED <<day, instances, rows, stations, days>>

UpsertTrainInstances ==
    /\ stage = "instances" /\ stage' = "stops"
    /\ instances' = [t \in DOMAIN day |-> [departure |-> departureOf(day[t]), arrival |-> arrivalOf(day[t])]]
    /\ UNCHANGED <<day, trips, places, rows, stations, days>>

\* Only the stops of the trains that now exist are replaced; those of others stay behind.
UpsertTrainStops ==
    /\ stage = "stops" /\ stage' = "done"
    /\ rows' = {r \in rows : r.train \notin DOMAIN instances}
               \cup UNION {{[train |-> t, station |-> CacheID[s.name], seq |-> s.seq,
                             arrival |-> s.arrival, departure |-> s.departure] :
                            s \in {s \in day[t] : s.name # None}} : t \in DOMAIN day}
    /\ stations' = LET new == {s.name : s \in {s \in UNION Range(day) : s.name # None}}
                   IN  [id \in DOMAIN stations \cup {CacheID[n] : n \in new} |->
                          IF \E n \in new : CacheID[n] = id THEN CHOOSE n \in new : CacheID[n] = id
                          ELSE stations[id]]
    /\ UNCHANGED <<day, trips, places, instances, days>>

(* ------------------------------- SQLite: joins over rows ---------------------------- *)

rowsOf(t) == {r \in rows : r.train = t}
trainsOf == DOMAIN instances

coalesce(a, b, c) == IF a # None THEN a ELSE IF b # None THEN b ELSE c

leavesAt(r) == coalesce(r.departure, r.arrival, instances[r.train].departure)
reachesAt(r) == coalesce(r.arrival, r.departure, instances[r.train].arrival)

within(at, w) == w[1] <= at /\ at <= w[2]

cacheByWindow(w) == {t \in trainsOf : within(instances[t].departure, w)}

cacheAtStation(n, w) ==
    {[train |-> r.train, at |-> leavesAt(r)] :
       r \in {r \in rows : r.train \in trainsOf /\ r.station = CacheID[n] /\ within(leavesAt(r), w)}}

cacheRoute(a, b, w) ==
    {[train |-> p[1].train, from |-> leavesAt(p[1]), to |-> reachesAt(p[2])] :
       p \in {p \in rows \X rows :
                /\ p[1].train = p[2].train /\ p[1].train \in trainsOf
                /\ p[1].station = CacheID[a] /\ p[2].station = CacheID[b]
                /\ p[1].seq < p[2].seq
                /\ within(leavesAt(p[1]), w)}}

cacheStations == {stations[r.station] : r \in {r \in rows : r.train \in trainsOf}}

cacheReachable(n) ==
    {stations[r.station] : r \in {r \in rows : /\ r.train \in trainsOf
                                               /\ \E o \in rowsOf(r.train) : o.station = CacheID[n] /\ o.seq < r.seq}}

cacheTerminals(n) ==
    {stations[last(rowsOf(t)).station] :
       t \in {t \in trainsOf : \E o \in rowsOf(t) : o.station = CacheID[n] /\ o.seq < last(rowsOf(t)).seq}}

cacheStops(t) ==
    SetToSortSeq({[name |-> stations[r.station], seq |-> r.seq, arrival |-> r.arrival, departure |-> r.departure] :
                  r \in rowsOf(t)}, LAMBDA a, b : a.seq < b.seq)

(* ---------------------------- SpacetimeDB: walks over trips ------------------------- *)

stopPassTime(s) == IF s.departure # None THEN s.departure ELSE s.arrival
stopArrivalOrDepartureTime(s) == IF s.arrival # None THEN s.arrival ELSE s.departure

\* The first stop at the station, 0 when the trip does not call there.
callsAt(t, n) == SelectInSeq(trips[t].stops, LAMBDA s : s.station = SpacetimeID[n])

tripsByWindow(w) == {t \in DOMAIN trips : within(trips[t].departure, w)}

\* The first call within the window is the one that is listed.
tripsAtStation(n, w) ==
    {[train |-> t, at |-> LET i == SelectInSeq(trips[t].stops, LAMBDA s : s.station = SpacetimeID[n]
                                                                          /\ within(stopPassTime(s), w))
                          IN  stopPassTime(trips[t].stops[i])] :
       t \in {t \in DOMAIN trips : \E i \in DOMAIN trips[t].stops :
                /\ trips[t].stops[i].station = SpacetimeID[n]
                /\ within(stopPassTime(trips[t].stops[i]), w)}}

\* A mutant: the two stops are taken in any order.
routeEitherWay(t, a, b) ==
    LET i == callsAt(t, a)
        ends == IF i = 0 THEN {} ELSE {j \in DOMAIN trips[t].stops : j # i /\ trips[t].stops[j].station = SpacetimeID[b]}
    IN  IF ends = {} THEN <<>> ELSE <<trips[t].stops[i], trips[t].stops[Min(ends)]>>

routeStopsForTrip(t, a, b) ==
    LET i == callsAt(t, a)
        ends == IF i = 0 THEN {}
                ELSE {j \in DOMAIN trips[t].stops : /\ j > i /\ trips[t].stops[j].station = SpacetimeID[b]
                                                    /\ trips[t].stops[j].seq > trips[t].stops[i].seq}
    IN  IF ends = {} THEN <<>> ELSE <<trips[t].stops[i], trips[t].stops[Min(ends)]>>

tripsRoute(a, b, w) ==
    {[train |-> t, from |-> stopPassTime(routeStopsForTrip(t, a, b)[1]),
      to |-> stopArrivalOrDepartureTime(routeStopsForTrip(t, a, b)[2])] :
       t \in {t \in DOMAIN trips : /\ routeStopsForTrip(t, a, b) # <<>>
                                   /\ within(stopPassTime(routeStopsForTrip(t, a, b)[1]), w)}}

tripsStations == places

tripsReachable(n) ==
    UNION {{trips[t].stops[j].name : j \in {j \in DOMAIN trips[t].stops : callsAt(t, n) \in 1 .. j - 1}} :
           t \in DOMAIN trips}

tripsTerminals(n) ==
    {trips[t].stops[Len(trips[t].stops)].name :
       t \in {t \in DOMAIN trips : callsAt(t, n) \in 1 .. Len(trips[t].stops) - 1}}

tripsStops(t) == [i \in DOMAIN trips[t].stops |->
    LET s == trips[t].stops[i] IN [name |-> s.name, seq |-> s.seq, arrival |-> s.arrival, departure |-> s.departure]]

(* --------------------------------- the manager's questions -------------------------- *)

ListByWindow(now) == {<<now - Around, now + Around>>, <<now, now + Ahead>>, <<now - Around, LastMinute>>}
ListByStationWindow(now) == <<now, now + Ahead>>
ListRouteWindowTrains(now) == <<now - Around, now + Ahead>>

Next == Scrape \/ ImportTrips \/ UpsertTrainInstances \/ UpsertTrainStops

Spec == Init /\ [][Next]_queryVars

(* ---------------------------------- properties ------------------------------------ *)

(* The two stores give the same answers once a day is imported, also over an earlier   *)
(* import of the day that had other trains and stops: at every moment every window,    *)
(* station, route, list of stations, of destinations, of terminals and of stops has    *)
(* the same trains and times whichever store is asked.                                 *)
StoresAgree ==
    stage = "done" =>
        /\ DOMAIN trips = trainsOf /\ tripsStations = cacheStations
        /\ \A t \in trainsOf : tripsStops(t) = cacheStops(t)
        /\ \A n \in Names : tripsReachable(n) = cacheReachable(n) /\ tripsTerminals(n) = cacheTerminals(n)
        /\ \A now \in 0 .. LastMinute :
             /\ \A w \in ListByWindow(now) : tripsByWindow(w) = cacheByWindow(w)
             /\ \A n \in Names : LET w == ListByStationWindow(now) IN tripsAtStation(n, w) = cacheAtStation(n, w)
             /\ \A a, b \in Names : LET w == ListRouteWindowTrains(now) IN tripsRoute(a, b, w) = cacheRoute(a, b, w)
=============================================================================
