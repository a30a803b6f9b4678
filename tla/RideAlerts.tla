-------------------------------- MODULE RideAlerts --------------------------------
(* Riders and the alerts they get in the train bot.  A rider's row in SpacetimeDB is   *)
(* changed by reading it, changing the copy and putting the copy back                  *)
(* (store/spacetime.go), by the Telegram bot, which handles one update at a time       *)
(* (bot/service.go), and by the web server (web/server.go, app/service.go,             *)
(* ride/service.go).  An accepted report is dispatched to the riders it concerns       *)
(* (bot/dispatch.go, bot/notifier.go) with one store call per question, while riders   *)
(* board, leave, mute and change their settings in between.                            *)
EXTENDS Naturals, FiniteSets

CONSTANTS Users, Trains, Stations,
          StopsOf,      \* the stations each train calls at
          RouteOf,      \* the stations of the route that can be watched
          Favorites,    \* pairs of stations a rider can save
          RideTime,     \* how long a check-in lasts
          UndoTime,     \* how long a checkout can be undone
          MaxTime,      \* bound on the clock
          MaxOps,       \* bound on operations begun
          MaxReports,   \* bound on reports dispatched
          None

Procs == {"bot", "web"}

VARIABLES hour,       \* the clock
          rider,      \* [ride, until, mutes, alerts, favorites]: TrainbotRiderRow
          watching,   \* until when a rider watches the route, or None
          undo,       \* ride.Service.undoRecords
          work,       \* what each process is doing
          alerted,    \* messages each rider was sent
          ops, reports

rideVars == <<hour, rider, watching, undo, work, alerted, ops, reports>>

Nobody == [pc |-> "idle", user |-> None, kind |-> None, arg |-> None, copy |-> None,
           at |-> 0, recipients |-> {}, read |-> {}, asked |-> {}]

\* ensureRider: the row of a rider met for the first time.
ensureRider == [ride |-> None, until |-> 0, mutes |-> {}, alerts |-> TRUE, favorites |-> {}]

Init ==
    /\ hour = 0 /\ ops = 0 /\ reports = 0
    /\ rider = [u \in Users |-> ensureRider]
    /\ watching = [u \in Users |-> None]
    /\ undo = [u \in Users |-> None]
    /\ work = [p \in Procs |-> Nobody]
    /\ alerted = [u \in Users |-> 0]

(* --------------------------- reads of the rider rows ------------------------------ *)

\* A ride counts until its automatic checkout, that moment included.
Riding(row, t, at) == row.ride = t /\ row.until >= at

GetActiveCheckIn(u, at) == IF rider[u].ride # None /\ rider[u].until >= at
                           THEN rider[u].ride ELSE None

ListActiveCheckinUsers(t, at) == {u \in Users : Riding(rider[u], t, at)}

IsTrainMuted(u, t, at) == \E m \in rider[u].mutes : m.train = t /\ m.until >= at

GetActiveRouteCheckIn(u, at) == IF watching[u] = None THEN FALSE ELSE watching[u] >= at

ListActiveRouteCheckIns(at) == {u \in Users : GetActiveRouteCheckIn(u, at)}

ListAllFavoriteRoutes == UNION {{u} \X rider[u].favorites : u \in Users}

(* --------------------------- changes of a rider's row ----------------------------- *)

CheckInUserAtStation(row, t, at) == [row EXCEPT !.ride = t, !.until = at + RideTime]

CheckoutUser(row) == [row EXCEPT !.ride = None]

UndoCheckoutUser(row, record) == [row EXCEPT !.ride = record.train, !.until = record.until]

SetTrainMute(row, t, until) ==
    [row EXCEPT !.mutes = {m \in @ : m.train # t} \cup {[train |-> t, until |-> until]}]

SetAlertsEnabled(row, enabled) == [row EXCEPT !.alerts = enabled]

UpsertFavoriteRoute(row, f) == [row EXCEPT !.favorites = @ \cup {f}]

DeleteFavoriteRoute(row, f) == [row EXCEPT !.favorites = @ \ {f}]

toggleFavoriteRoute(row, saved, f) ==
    IF saved THEN DeleteFavoriteRoute(row, f) ELSE UpsertFavoriteRoute(row, f)

\* The copy an operation puts back.
Changed(w) ==
    CASE w.kind = "checkin"  -> CheckInUserAtStation(w.copy, w.arg, w.at)
      [] w.kind = "checkout" -> CheckoutUser(w.copy)
      [] w.kind = "undo"     -> UndoCheckoutUser(w.copy, w.arg)
      [] w.kind = "mute"     -> SetTrainMute(w.copy, w.arg, w.at + 1)
      [] w.kind = "alerts"   -> SetAlertsEnabled(w.copy, w.arg)
      [] w.kind = "favorite" -> toggleFavoriteRoute(w.copy, w.arg.saved, w.arg.route)

(* ------------------------- operations of the bot and the web ---------------------- *)

Begin(p, u, kind, arg) ==
    /\ ops' = ops + 1
    /\ work' = [work EXCEPT ![p] = [Nobody EXCEPT !.pc = "read", !.user = u, !.kind = kind,
                                                  !.arg = arg, !.at = hour]]

Free(p) == work[p].pc = "idle" /\ ops < MaxOps

\* handleCheckInCallback, "train": the train is looked up in the schedule only.
handleCheckInCallback(u) ==
    /\ Free("bot") /\ \E t \in Trains : Begin("bot", u, "checkin", t)
    /\ UNCHANGED <<hour, rider, watching, undo, alerted, reports>>

\* handleCheckInCallback, "favorite_toggle".
handleFavoriteCallback(u) ==
    /\ Free("bot")
    /\ \E f \in Favorites : Begin("bot", u, "favorite",
                                  [saved |-> f \in rider[u].favorites, route |-> f])
    /\ UNCHANGED <<hour, rider, watching, undo, alerted, reports>>

\* editRouteCheckInStart and handleCurrentRouteCheckIn: one call on the route row.
StartRouteCheckIn(p, u) ==
    /\ Free(p) /\ ops' = ops + 1
    /\ watching' = [watching EXCEPT ![u] = hour + RideTime]
    /\ UNCHANGED <<hour, rider, undo, work, alerted, reports>>

CheckoutRouteCheckIn(p, u) ==
    /\ Free(p) /\ watching[u] # None /\ ops' = ops + 1
    /\ watching' = [watching EXCEPT ![u] = None]
    /\ UNCHANGED <<hour, rider, undo, work, alerted, reports>>

\* ride.Service.Checkout remembers the active ride before the row is changed.
Checkout(u) ==
    /\ Free("bot")
    /\ undo' = [undo EXCEPT ![u] = IF GetActiveCheckIn(u, hour) = None THEN @
                                   ELSE [train |-> rider[u].ride, until |-> rider[u].until,
                                         expires |-> hour + UndoTime]]
    /\ Begin("bot", u, "checkout", None)
    /\ UNCHANGED <<hour, rider, watching, alerted, reports>>

\* ride.Service.UndoCheckout takes the record away whether or not it is still valid.
UndoCheckout(u) ==
    /\ Free("bot") /\ undo[u] # None
    /\ undo' = [undo EXCEPT ![u] = None]
    /\ IF undo[u].expires < hour THEN ops' = ops + 1 /\ work' = work
       ELSE Begin("bot", u, "undo", undo[u])
    /\ UNCHANGED <<hour, rider, watching, alerted, reports>>

CleanupUndo ==
    /\ work["bot"].pc = "idle"
    /\ \E u \in Users : IF undo[u] = None THEN FALSE ELSE undo[u].expires < hour
    /\ undo' = [u \in Users |-> IF undo[u] = None THEN None
                                ELSE IF undo[u].expires < hour THEN None ELSE undo[u]]
    /\ UNCHANGED <<hour, rider, watching, work, alerted, ops, reports>>

\* handleRideCallback, "mute": the train of the button, or the one the rider is on.
MuteForTrain(u) ==
    /\ Free("bot")
    /\ \E t \in Trains : Begin("bot", u, "mute", t)
    /\ UNCHANGED <<hour, rider, watching, undo, alerted, reports>>

\* handleSettingsCallback switches to the opposite of what it has read.
handleSettingsCallback(u) ==
    /\ Free("bot") /\ Begin("bot", u, "alerts", ~rider[u].alerts)
    /\ UNCHANGED <<hour, rider, watching, undo, alerted, reports>>

handleSettings(u) ==
    /\ Free("web") /\ \E enabled \in BOOLEAN : Begin("web", u, "alerts", enabled)
    /\ UNCHANGED <<hour, rider, watching, undo, alerted, reports>>

\* The row is read, and the changed copy put back over whatever is there by then; the
\* put may be carried out although it is reported as failed.
ReadRider(p) ==
    /\ work[p].pc = "read"
    /\ work' = [work EXCEPT ![p].pc = "put", ![p].copy = rider[work[p].user]]
    /\ UNCHANGED <<hour, rider, watching, undo, alerted, ops, reports>>

PutRider(p) ==
    /\ work[p].pc = "put"
    /\ rider' \in {rider, [rider EXCEPT ![work[p].user] = Changed(work[p])]}
    /\ work' = [work EXCEPT ![p] = Nobody]
    /\ UNCHANGED <<hour, watching, undo, alerted, ops, reports>>

(* ------------------------------- whom a report concerns --------------------------- *)

overlap(a, b) == [common  |-> Cardinality(a \cap b),
                  smaller |-> IF Cardinality(a) > Cardinality(b) THEN Cardinality(b)
                              ELSE Cardinality(a)]

\* overlapRatio against corridorMatchThreshold and routeCheckInMatchThreshold.
overlapRatio(a, b, num, den) ==
    a # {} /\ b # {} /\ den * overlap(a, b).common >= num * overlap(a, b).smaller

loadCorridorTrains(t) == {c \in Trains : overlapRatio(StopsOf[t], StopsOf[c], 4, 5)}

filterCorridorTrainsByStation(corridor, s) == {c \in corridor : s \in StopsOf[c]}

favoriteMatchesCorridor(f, corridor) ==
    \E c \in corridor : f[1] \in StopsOf[c] /\ f[2] \in StopsOf[c]

routeCheckInMatchesStopSet(stops) == overlapRatio(RouteOf, stops, 3, 4)

routeCheckInContainsStation(s) == s \in RouteOf

\* The trains at a station around now; every train that calls there runs now here.
loadNearbyStationTrains(s) == {t \in Trains : s \in StopsOf[t]}

Audience(u, priority, context) == [user |-> u, priority |-> priority, context |-> context]

\* A mutant: an audience met later is added beside the one met first.
addEveryRecipient(recipients, reporter, a) ==
    IF a.user = reporter THEN recipients ELSE recipients \cup {a}

\* One audience per rider, the strongest; of two equal ones the first is kept.
addRecipient(recipients, reporter, a) ==
    IF a.user = reporter \/ \E r \in recipients : r.user = a.user /\ r.priority <= a.priority
    THEN recipients
    ELSE {r \in recipients : r.user # a.user} \cup {a}

\* The recipients after the answer of one store call, in which a rider is once.
Added(w, audiences) ==
    (UNION {addRecipient({r \in w.recipients : r.user = a.user}, w.user, a) : a \in audiences})
    \cup {r \in w.recipients : r.user \notin {a.user : a \in audiences}}

Heard(p, audiences, pc) ==
    work' = [work EXCEPT ![p].recipients = Added(work[p], audiences),
                         ![p].read = @ \cup audiences, ![p].pc = pc]

\* One call of a loop over trains.
Ask(p, c, audiences) ==
    work' = [work EXCEPT ![p].recipients = Added(work[p], audiences),
                         ![p].read = @ \cup audiences, ![p].asked = @ \cup {c}]

\* handleTrainReport and handleReportCallback: the report was accepted, by a rider on
\* the train when it comes from the bot.  handleStationSighting: a sighting with the
\* train it was matched to, or None.
DispatchRideAlert(p, u) ==
    /\ work[p].pc = "idle" /\ reports < MaxReports
    /\ reports' = reports + 1
    /\ \E t \in Trains :
          /\ p = "bot" => GetActiveCheckIn(u, hour) = t
          /\ work' = [work EXCEPT ![p] = [Nobody EXCEPT !.pc = "riders", !.user = u,
                          !.kind = "ride", !.arg = [train |-> t, station |-> None],
                          !.at = hour]]
    /\ UNCHANGED <<hour, rider, watching, undo, alerted, ops>>

DispatchStationSighting(u) ==
    /\ work["web"].pc = "idle" /\ reports < MaxReports
    /\ reports' = reports + 1
    /\ \E s \in Stations, t \in Trains \cup {None} :
          /\ IF t = None THEN TRUE ELSE s \in StopsOf[t]
          /\ work' = [work EXCEPT !["web"] = [Nobody EXCEPT
                          !.pc = IF t = None THEN "nearby" ELSE "riders", !.user = u,
                          !.kind = "sighting", !.arg = [train |-> t, station |-> s],
                          !.at = hour]]
    /\ UNCHANGED <<hour, rider, watching, undo, alerted, ops>>

corridorOf(w) == IF w.kind = "ride" THEN loadCorridorTrains(w.arg.train)
                 ELSE filterCorridorTrainsByStation(loadCorridorTrains(w.arg.train),
                                                    w.arg.station)

ExactRiders(p) ==
    /\ work[p].pc = "riders"
    /\ LET w == work[p]
       IN  Heard(p, {Audience(u, 0, w.arg.train) : u \in ListActiveCheckinUsers(w.arg.train, w.at)},
                 "corridor")
    /\ UNCHANGED <<hour, rider, watching, undo, alerted, ops, reports>>

CorridorRiders(p) ==
    /\ work[p].pc = "corridor"
    /\ LET w == work[p]
           left == corridorOf(w) \ (w.asked \cup {w.arg.train})
       IN  \/ /\ left = {}
              /\ work' = [work EXCEPT ![p].pc = "favorites"]
           \/ \E c \in left :
                 Ask(p, c, {Audience(u, 2, c) : u \in ListActiveCheckinUsers(c, w.at)})
    /\ UNCHANGED <<hour, rider, watching, undo, alerted, ops, reports>>

FavoriteRiders(p) ==
    /\ work[p].pc = "favorites"
    /\ LET w == work[p]
       IN  Heard(p, {Audience(x[1], 4, None) : x \in
                        {f \in ListAllFavoriteRoutes : favoriteMatchesCorridor(f[2], corridorOf(w))}},
                 "route")
    /\ UNCHANGED <<hour, rider, watching, undo, alerted, ops, reports>>

RouteRiders(p) ==
    /\ work[p].pc = "route"
    /\ LET w == work[p]
       IN  Heard(p, {Audience(u, 3, None) : u \in
                        {x \in ListActiveRouteCheckIns(w.at) :
                            routeCheckInMatchesStopSet(StopsOf[w.arg.train])}},
                 IF w.kind = "ride" THEN "send" ELSE "station")
    /\ UNCHANGED <<hour, rider, watching, undo, alerted, ops, reports>>

NearbyRiders(p) ==
    /\ work[p].pc = "nearby"
    /\ LET w == work[p]
           left == loadNearbyStationTrains(w.arg.station) \ w.asked
       IN  \/ /\ left = {}
              /\ work' = [work EXCEPT ![p].pc = "station"]
           \/ \E c \in left :
                 Ask(p, c, {Audience(u, 0, c) : u \in ListActiveCheckinUsers(c, w.at)})
    /\ UNCHANGED <<hour, rider, watching, undo, alerted, ops, reports>>

StationRiders(p) ==
    /\ work[p].pc = "station"
    /\ LET w == work[p]
       IN  Heard(p, {Audience(u, 3, None) : u \in
                        {x \in ListActiveRouteCheckIns(w.at) :
                            routeCheckInContainsStation(w.arg.station)}},
                 "send")
    /\ UNCHANGED <<hour, rider, watching, undo, alerted, ops, reports>>

\* sendRideAlertRecipients and NotifyStationSightingUsers: the mute and the settings are
\* read for each rider just before the message; a message that fails is not repeated.
SendAlert(p) ==
    /\ work[p].pc = "send"
    /\ \E r \in work[p].recipients :
          /\ work' = [work EXCEPT ![p].recipients = @ \ {r}]
          /\ alerted' \in {alerted,
                 IF rider[r.user].alerts
                    /\ (r.context = None \/ ~IsTrainMuted(r.user, r.context, work[p].at))
                 THEN [alerted EXCEPT ![r.user] = @ + 1] ELSE alerted}
    /\ UNCHANGED <<hour, rider, watching, undo, ops, reports>>

\* A call of the dispatch fails, or it is done.
EndDispatch(p) ==
    /\ \/ work[p].pc \in {"riders", "corridor", "favorites", "route", "nearby", "station"}
       \/ work[p].pc = "send" /\ work[p].recipients = {}
    /\ work' = [work EXCEPT ![p] = Nobody]
    /\ UNCHANGED <<hour, rider, watching, undo, alerted, ops, reports>>

Clock == hour < MaxTime /\ hour' = hour + 1
         /\ UNCHANGED <<rider, watching, undo, work, alerted, ops, reports>>

Next == \/ \E u \in Users :
              \/ handleCheckInCallback(u) \/ handleFavoriteCallback(u) \/ Checkout(u)
              \/ UndoCheckout(u) \/ MuteForTrain(u) \/ handleSettingsCallback(u)
              \/ handleSettings(u) \/ DispatchStationSighting(u)
              \/ \E p \in Procs : \/ StartRouteCheckIn(p, u) \/ CheckoutRouteCheckIn(p, u)
                                  \/ DispatchRideAlert(p, u)
        \/ \E p \in Procs :
              \/ ReadRider(p) \/ PutRider(p) \/ ExactRiders(p) \/ CorridorRiders(p)
              \/ FavoriteRiders(p) \/ RouteRiders(p) \/ NearbyRiders(p) \/ StationRiders(p)
              \/ SendAlert(p) \/ EndDispatch(p)
        \/ CleanupUndo \/ Clock

Spec == Init /\ [][Next]_rideVars

(* ------------------------------------ properties --------------------------------- *)

\* However riders move between the trains while a dispatch asks for them, each rider it
\* heard of is alerted once, for the strongest reason it heard, and the reporter is not
\* (resolveRideAlertRecipients, resolveStationSightingRecipients).
OneAlertPerRider ==
    /\ \A u \in Users : alerted[u] <= reports
    /\ \A p \in Procs : LET w == work[p] IN
          /\ \A r, q \in w.recipients : r.user = q.user => r = q
          /\ \A r \in w.recipients :
                /\ r.user # w.user
                /\ \A a \in w.read : a.user = r.user => r.priority <= a.priority
          /\ w.pc # "send" => \A a \in w.read : 
                a.user = w.user \/ \E r \in w.recipients : r.user = a.user
=================================================================================
