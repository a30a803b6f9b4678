------------------------------ MODULE MCTrain -------------------------------
(* Small instances of the parts of the train bot and, as one more part, of   *)
(* the housekeeper of the torrents.                                          *)
EXTENDS TrainBot, TLC

CONSTANTS t1, t2, g1, g2, a, b, c, s1, s2, Torrents, Gone

VARIABLES bounds, torrents, residue, phase, items, usedBytes, todo, calls, late, edits

(* GTFS feeds of a day with two trips: exceptions of this and of other days, *)
(* added and removed services in either order, rows without a time, two rows *)
(* with one sequence number, and a stop without a name.                      *)
Row(t, p, n, m) == [trip |-> t, stop |-> p, seq |-> n, at |-> m]
MCStopTimes ==
    {{Row(t1, a, 1, 10), Row(t1, c, 2, 15), Row(t1, b, 3, 20),
      Row(t2, a, 1, 30), Row(t2, b, 2, None), Row(t2, b, 3, 32)},
     {Row(t1, a, 1, 10), Row(t1, c, 2, 12), Row(t1, b, 2, 20), Row(t2, a, 1, 11)}}
MCExceptions ==
    {x \in UNION {[1 .. n -> [date : {1, 2}, service : {g1, g2}, type : {"added", "removed"}]]
                      : n \in 0 .. 2} :
        \A i \in DOMAIN x : x[i].date = 2 => x[i].service = g1}
MCCalendar ==
    {[service |-> g1, start |-> 1, end |-> 1, days |-> {1}],
     [service |-> g2, start |-> 0, end |-> 2, days |-> {2}]}
MCFeeds ==
    {[calendar |-> MCCalendar, exceptions |-> x, times |-> y,
      names |-> (a :> a) @@ (b :> b) @@ (c :> name),
      trips |-> {[id |-> t1, service |-> g1], [id |-> t2, service |-> g2]}]
        : x \in MCExceptions, y \in MCStopTimes, name \in {c, None}}

(* Days of one or two trains that call at up to three stations. *)
Stop(n, k, x, y) == [name |-> n, seq |-> k, arrival |-> x, departure |-> y]
Journeys ==
    {j \in {{Stop(x, 1, p, p), Stop(y, 2, q, 3), Stop(z, 3, 4, None)} :
             x \in {a, b}, y \in {a, b, None}, z \in {c, a}, p \in {1, 2}, q \in {None, 3}} :
        \A s, r \in j : s # r => s.name # r.name}
    \cup {{Stop(c, 1, 2, 2), Stop(a, 5, 3, None)}, {Stop(None, 1, 1, 1), Stop(b, 2, 2, 3)}}
MCDays == UNION {[d -> Journeys] : d \in {{t1}, {t1, t2}}}

MCProviders == <<"vivi_gtfs", "other">>
MCChunks == <<"trips", "stops">>
MCCacheID == (a :> "a_") @@ (b :> "b_") @@ (c :> "c_")
MCSpacetimeID == (a :> "a-") @@ (b :> "b-") @@ (c :> "c-")

(* Two trains that call at the same two stations.                           *)
MCRideStopsOf == (t1 :> {s1, s2}) @@ (t2 :> {s1, s2})
MCFavorites == {<<s1, s2>>}

(* A train and a place that are reported.                                   *)
MCKindOf == (t1 :> "train") @@ (s1 :> "location")

(* A train that stops at both stations, and one at the second alone.        *)
MCStopsOf == (t1 :> {a, b}) @@ (t2 :> {b})

(* Calls that land late, or an owner who changes torrents, sizes too.        *)
MCHouseSizes == {[sizes |-> {1}, cap |-> 1, edits |-> 0, late |-> 1],
                 [sizes |-> {2}, cap |-> 2, edits |-> 1, late |-> 0]}

houseVars == <<bounds, torrents, residue, phase, items, usedBytes, todo, calls, late, edits>>

House(x) == INSTANCE Housekeeper WITH
    Sizes <- x.sizes, SoftCap <- x.cap, MaxEdits <- x.edits, MaxLate <- x.late

NoTrain ==
    /\ NoScrape /\ NoImport /\ NoQueries /\ NoSchedule /\ NoBundle /\ NoCache
    /\ NoAlerts /\ NoIncidents /\ NoChat /\ NoLogin
NoHouse ==
    /\ bounds = None /\ torrents = None /\ residue = None /\ phase = None
    /\ items = None /\ usedBytes = None /\ todo = None /\ calls = None
    /\ late = None /\ edits = None

Housed(x) == part = "house" /\ bounds = x

MCInit ==
    \/ TrainInit /\ NoHouse
    \/ NoTrain /\ \E x \in MCHouseSizes : Housed(x) /\ House(x)!Init

MCNext ==
    \/ TrainNext /\ UNCHANGED houseVars
    \/ \E x \in MCHouseSizes : Housed(x) /\ House(x)!Next /\ UNCHANGED <<bounds, TrainVars>>

MCSpec == MCInit /\ [][MCNext]_<<TrainVars, houseVars>>

(* Torrents whose admission is complete fit under the soft cap (engine.go).  *)
ReservationsFit == \A x \in MCHouseSizes : Housed(x) => House(x)!ReservationsFit
=============================================================================
