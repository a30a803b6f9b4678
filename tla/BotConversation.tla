-------------------------- MODULE BotConversation --------------------------
(* One member's chat with the train bot (internal/bot/service.go).  The bot  *)
(* handles updates one at a time; the conversation is a session in memory,   *)
(* which expires, while the keyboards it has sent stay in the chat and any   *)
(* of their buttons may be pressed at any later time.  A button is a tuple   *)
(* <<action, arguments...>>, as in its callback data.                        *)
EXTENDS Naturals, FiniteSets

CONSTANTS Stations, Trains,
          StopsOf,      \* train -> the stations it stops at
          MaxUpdates,   \* updates the bot handles
          MaxStarts,    \* starts of the process
          None

VARIABLES
    session,    \* the member's checkinSession; `empty' when there is none
    stale,      \* the session is older than checkinSessionTTL
    offered,    \* buttons of the keyboards in the chat
    ride,       \* the active check-in: [train, board], or None
    watching,   \* the route check-in is active
    favorites,  \* stored favourite routes
    report,     \* the last report sent: [asked, train], or None
    picked,     \* an origin was picked since the bot last asked for one
    last,       \* the last update, which Telegram repeats after a crash
    updates, starts

botVars == <<session, stale, offered, ride, watching, favorites, report, picked, last, updates, starts>>

empty == [flow |-> None, origin |-> None, query |-> FALSE]

(* Buttons of keyboards that earlier releases sent are still answered. *)
oldButtons == {<<"find", "station">>, <<"find", "search">>, <<"find", "favorites">>, <<"find", "time">>}

Init ==
    /\ session = empty /\ stale = FALSE
    /\ offered = oldButtons
    /\ ride = None /\ watching = FALSE /\ favorites = {} /\ report = None
    /\ picked = FALSE /\ last = None
    /\ updates = 0 /\ starts = 1

(* The session operations.  Reading a stale session removes it; writing one  *)
(* keeps its other fields and renews it.                                     *)
getCheckinSession == IF stale THEN empty ELSE session
getCheckinOriginSession == getCheckinSession.origin

setSession(s) == session' = s /\ stale' = FALSE
clearCheckinSession == setSession(empty)

(* editOrSendCallback, send: a keyboard is added to the chat. *)
Offer(buttons) == offered' = offered \cup buttons

Cancel == <<"cancel">>

(* The prompts. *)
StationTextPrompt ==
    /\ setSession([session EXCEPT !.flow = "station", !.query = FALSE])
    /\ Offer({<<"find", "time">>, Cancel})
    /\ UNCHANGED <<ride, watching, favorites, report, picked>>

\* Mutant: the prompt keeps the session it starts over from.
KeepsSessionAtPrompt ==
    /\ setSession([session EXCEPT !.flow = "origin", !.query = FALSE])
    /\ picked' = FALSE
    /\ Offer({Cancel})
    /\ UNCHANGED <<ride, watching, favorites, report>>

RouteOriginTextPrompt ==
    /\ setSession([empty EXCEPT !.flow = "origin"])
    /\ picked' = FALSE
    /\ Offer({Cancel})
    /\ UNCHANGED <<ride, watching, favorites, report>>

destinationPrompt(s) ==
    /\ setSession([s EXCEPT !.flow = "destination", !.query = FALSE])
    /\ Offer({<<"prompt_route_origin">>, Cancel})

RouteDestinationTextPrompt ==
    \/ /\ getCheckinOriginSession = None
       /\ RouteOriginTextPrompt
    \/ /\ getCheckinOriginSession # None
       /\ destinationPrompt(session)
       /\ UNCHANGED <<ride, watching, favorites, report, picked>>

(* The route picked with setCheckinOriginSession. *)
PickOrigin(s) ==
    /\ destinationPrompt([session EXCEPT !.origin = s])
    /\ picked' = TRUE
    /\ UNCHANGED <<ride, watching, favorites, report>>

(* routeCheckInEntryView and editCheckInEntry. *)
CheckInEntry ==
    /\ clearCheckinSession
    /\ Offer({<<"route_pick">>, <<"start">>})
    /\ UNCHANGED <<ride, watching, favorites, report, picked>>

(* The pages of trains.  An empty page offers to refine the search. *)
TrainsAt(s) == {t \in Trains : s \in StopsOf[t]}
TrainsBetween(a, b) == {t \in Trains : a # b /\ {a, b} \subseteq StopsOf[t]}

StationTrainsPage(s) ==
    /\ Offer({<<"station_train", t, s>> : t \in TrainsAt(s)} \cup {<<"prompt_station">>})
    /\ UNCHANGED <<ride, watching, favorites, report, picked>>

routeTrainsButtons(a, b) ==
    {<<"route_train", t>> : t \in TrainsBetween(a, b)} \cup {<<"prompt_route_dest">>}
    \cup (IF TrainsBetween(a, b) = {} THEN {} ELSE {<<"favorite_toggle", a, b>>, Cancel})

RouteTrainsPage(b) ==
    \/ /\ getCheckinOriginSession = None
       /\ RouteOriginTextPrompt
    \/ /\ getCheckinOriginSession # None
       /\ Offer(routeTrainsButtons(session.origin, b))
       /\ UNCHANGED <<session, stale, ride, watching, favorites, report, picked>>

WindowTrainsPage ==
    /\ Offer({<<"train", t>> : t \in Trains} \cup {<<"find", "time">>})
    /\ UNCHANGED <<session, stale, ride, watching, favorites, report, picked>>

(* setCheckinSearchSession and the page of matching stations. *)
searchButtons(flow) ==
    {<<"retry", flow>>, Cancel, <<"results_page">>}
    \cup {<<IF flow = "destination" THEN "route_dest" ELSE IF flow = "origin" THEN "route_origin" ELSE "station", s>> :
            s \in Stations}

SearchMatches(flow) ==
    /\ setSession([session EXCEPT !.flow = flow, !.query = TRUE])
    /\ Offer(searchButtons(flow))
    /\ UNCHANGED <<ride, watching, favorites, report, picked>>

(* A destination may only be listed while there is an origin. *)
editCheckInSearchResultsPage ==
    \/ /\ getCheckinSession.flow = None \/ ~getCheckinSession.query
       /\ CheckInEntry
    \/ /\ getCheckinSession.query
       /\ getCheckinSession.flow = "destination" /\ getCheckinOriginSession = None
       /\ RouteOriginTextPrompt
    \/ /\ getCheckinSession.query /\ getCheckinSession.flow # None
       /\ getCheckinSession.flow # "destination" \/ getCheckinOriginSession # None
       /\ SearchMatches(getCheckinSession.flow)

(* Check-ins: the three buttons that start a ride. *)
CheckIn(t, s) ==
    /\ ride' = [train |-> t, board |-> s]
    /\ clearCheckinSession
    /\ Offer({<<"ride_report">>, <<"ride_checkout">>})
    /\ UNCHANGED <<watching, favorites, report, picked>>

CheckInOnRoute(t) ==
    \/ /\ getCheckinOriginSession = None
       /\ RouteOriginTextPrompt
    \/ /\ getCheckinOriginSession # None
       /\ CheckIn(t, session.origin)

FavoriteRoutes ==
    /\ Offer({<<"favorite_open", f[1], f[2]>> : f \in favorites} \cup {<<"prompt_route_origin">>, Cancel})
    /\ UNCHANGED <<session, stale, ride, watching, favorites, report, picked>>

(* The origin of a favourite is picked with it. *)
OpenFavorite(a, b) ==
    /\ setSession([session EXCEPT !.origin = a, !.query = FALSE])
    /\ picked' = TRUE
    /\ Offer(routeTrainsButtons(a, b))
    /\ UNCHANGED <<ride, watching, report>>

toggled(f) == IF f \in favorites THEN favorites \ {f} ELSE favorites \cup {f}

(* Reporting: a question, a signal, a confirmation; each needs a ride. *)
Quiet == UNCHANGED <<session, stale, ride, watching, favorites, picked>>

sendReportPrompt ==
    /\ Offer(IF ride = None THEN {<<"start">>} ELSE {<<"report_type">>})
    /\ Quiet /\ UNCHANGED report

ReportType ==
    /\ Offer(IF ride = None THEN {<<"start">>} ELSE {<<"report_confirm", ride.train>>})
    /\ Quiet /\ UNCHANGED report

\* Mutant: any confirmation is taken for the ride of the moment.
ConfirmAnyRide(t) ==
    /\ IF ride = None THEN Offer({<<"start">>}) /\ UNCHANGED report
       ELSE /\ report' = [asked |-> t, train |-> ride.train]
            /\ UNCHANGED offered
    /\ Quiet

ReportConfirm(t) ==
    /\ IF ride = None THEN Offer({<<"start">>}) /\ UNCHANGED report
       ELSE /\ report' = IF t = ride.train THEN [asked |-> t, train |-> ride.train] ELSE report
            /\ UNCHANGED offered
    /\ Quiet

Checkout ==
    /\ ride' = None
    /\ Offer({})
    /\ UNCHANGED <<session, stale, watching, favorites, report, picked>>

(* The route check-in, which has no session. *)
RouteCheckIn(on) ==
    /\ watching' = on
    /\ Offer({<<"start">>, <<"route_checkout">>})
    /\ UNCHANGED <<session, stale, ride, favorites, report, picked>>

-----------------------------------------------------------------------------
(* handleCallback: one button. *)
handleCheckInCallback(b) ==
    \/ b[1] = "start" /\ CheckInEntry
    \/ b[1] = "route_pick" /\ Offer({<<"route_watch">>, <<"start">>}) /\ Quiet /\ UNCHANGED report
    \/ b[1] = "route_watch" /\ RouteCheckIn(TRUE)
    \/ b[1] = "route_checkout" /\ RouteCheckIn(FALSE)
    \/ /\ b = Cancel
       /\ clearCheckinSession
       /\ UNCHANGED <<offered, ride, watching, favorites, report, picked>>
    \/ b[1] = "prompt_station" /\ StationTextPrompt
    \/ b[1] = "prompt_route_origin" /\ RouteOriginTextPrompt
    \/ b[1] = "prompt_route_dest" /\ RouteDestinationTextPrompt
    \/ b = <<"retry", "station">> /\ StationTextPrompt
    \/ b = <<"retry", "destination">> /\ RouteDestinationTextPrompt
    \/ b = <<"retry", "origin">> /\ RouteOriginTextPrompt
    \/ b[1] = "results_page" /\ editCheckInSearchResultsPage
    \/ b = <<"find", "time">> /\ WindowTrainsPage
    \/ b = <<"find", "station">> /\ StationTextPrompt
    \/ b = <<"find", "search">> /\ RouteOriginTextPrompt
    \/ b = <<"find", "favorites">> /\ FavoriteRoutes
    \/ b[1] = "station" /\ StationTrainsPage(b[2]) /\ UNCHANGED <<session, stale>>
    \/ b[1] = "station_train" /\ CheckIn(b[2], b[3])
    \/ b[1] = "train" /\ CheckIn(b[2], None)
    \/ b[1] = "route_origin" /\ PickOrigin(b[2])
    \/ b[1] = "route_dest" /\ RouteTrainsPage(b[2])
    \/ b[1] = "route_train" /\ CheckInOnRoute(b[2])
    \/ b[1] = "favorite_open" /\ OpenFavorite(b[2], b[3]) /\ UNCHANGED favorites
    \/ /\ b[1] = "favorite_toggle"
       /\ favorites' = toggled(<<b[2], b[3]>>)
       /\ OpenFavorite(b[2], b[3])

handleCallback(b) ==
    \/ handleCheckInCallback(b)
    \/ b[1] = "ride_report" /\ sendReportPrompt
    \/ b[1] = "report_type" /\ ReportType
    \/ b[1] = "report_confirm" /\ ReportConfirm(b[2])
    \/ b[1] = "ride_checkout" /\ Checkout

(* A text names one station, several, or none. *)
handleTextInput(flow, text) ==
    \/ text = "several" /\ SearchMatches(flow)
    \/ /\ text = "menu"
       /\ setSession([session EXCEPT !.flow = flow, !.query = TRUE])
       /\ Offer({<<"retry", flow>>, Cancel})
       /\ UNCHANGED <<ride, watching, favorites, report, picked>>

handleStationTextInput(text) ==
    \/ /\ text \in Stations
       /\ setSession([session EXCEPT !.query = TRUE])
       /\ StationTrainsPage(text)
    \/ handleTextInput("station", text)

handleRouteOriginTextInput(text) ==
    \/ text \in Stations /\ PickOrigin(text)
    \/ handleTextInput("origin", text)

handleRouteDestinationTextInput(text) ==
    \/ getCheckinOriginSession = None /\ RouteOriginTextPrompt
    \/ /\ getCheckinOriginSession # None
       /\ \/ /\ text \in Stations
             /\ setSession([session EXCEPT !.query = TRUE])
             /\ Offer(routeTrainsButtons(session.origin, text))
             /\ UNCHANGED <<ride, watching, favorites, report, picked>>
          \/ handleTextInput("destination", text)

(* In a text flow even the label of a menu button is taken for the name of a *)
(* station; outside, the check-in button starts over.                        *)
handleActiveCheckInMessage(text) ==
    \/ getCheckinSession.flow = "station" /\ handleStationTextInput(text)
    \/ getCheckinSession.flow = "origin" /\ handleRouteOriginTextInput(text)
    \/ getCheckinSession.flow = "destination" /\ handleRouteDestinationTextInput(text)

handleMessage(text) ==
    \/ handleActiveCheckInMessage(text)
    \/ getCheckinSession.flow = None /\ text = "menu" /\ CheckInEntry

handleUpdate(u) ==
    \/ u.kind = "button" /\ handleCallback(u.what)
    \/ u.kind = "text" /\ handleMessage(u.what)

Press(b) == [kind |-> "button", what |-> b]
Say(text) == [kind |-> "text", what |-> text]

(* Start: the next update of the poll. *)
Update ==
    /\ updates < MaxUpdates
    /\ updates' = updates + 1
    /\ \E u \in {Press(b) : b \in offered} \cup {Say(s) : s \in Stations \cup {"several", "menu"}} :
        handleUpdate(u) /\ last' = u
    /\ UNCHANGED starts

(* checkinSessionTTL passes, and cleanupCheckinSessions at the end of a poll *)
(* removes what has expired.                                                 *)
Expire ==
    /\ session # empty /\ ~stale
    /\ stale' = TRUE
    /\ UNCHANGED <<session, offered, ride, watching, favorites, report, picked, last, updates, starts>>

cleanupCheckinSessions ==
    /\ stale
    /\ clearCheckinSession
    /\ UNCHANGED <<offered, ride, watching, favorites, report, picked, last, updates, starts>>

(* The ride reaches its automatic checkout. *)
AutoCheckout ==
    /\ ride # None
    /\ ride' = None
    /\ UNCHANGED <<session, stale, offered, watching, favorites, report, picked, last, updates, starts>>

(* The process ends and starts again: the sessions are gone, and the update  *)
(* that was not yet confirmed to Telegram is handled once more.              *)
Restart ==
    /\ starts < MaxStarts
    /\ starts' = starts + 1
    /\ clearCheckinSession
    /\ UNCHANGED <<offered, ride, watching, favorites, report, picked, last, updates>>

Redelivered ==
    /\ starts > 1 /\ last # None
    /\ handleUpdate(last)
    /\ last' = None
    /\ UNCHANGED <<updates, starts>>

Next ==
    \/ Update \/ Expire \/ cleanupCheckinSessions \/ AutoCheckout \/ Restart \/ Redelivered

Spec == Init /\ [][Next]_botVars

-----------------------------------------------------------------------------
(* However old the pressed buttons are: a report is about the train the      *)
(* member was asked to confirm, and a destination is only asked for, and a   *)
(* train only boarded from a route page, with an origin the member picked    *)
(* after the bot last asked for one.                                         *)
OldButtonsAreHarmless ==
    /\ IF report = None THEN TRUE ELSE report.asked = report.train
    /\ session.flow = "destination" => session.origin # None
    /\ session.origin # None => picked
=============================================================================
