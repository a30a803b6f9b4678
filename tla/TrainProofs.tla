----------------------------- MODULE TrainProofs -----------------------------
(* Proofs about the parts of the train bot, for every value of their        *)
(* constants.  Each part has an inductive invariant of its own; a behaviour *)
(* of TrainBot is one of a single part, so a theorem follows from the       *)
(* steps of that part and from those that leave it alone.  The parts that   *)
(* members see on the bot's pages, and their signing in, come last.         *)
EXTENDS TrainBot, FiniteSetTheorems, FunctionTheorems, WellFoundedInduction, TLAPS

(***************************************************************************)
(* The static bundle.                                                       *)
(***************************************************************************)

(* What is written of the version being published, step by step, and that   *)
(* the version in use is the published one before older ones are removed.   *)
BundlePublisher ==
    /\ DOMAIN publisher = {"pc", "version"}
    /\ publisher.pc \in {"idle", "slices", "manifest", "active", "remove", "sync"}
    /\ publisher.pc # "idle" => publisher.version \in Versions
    /\ publisher.pc \in {"manifest", "active"} => "stops" \in bundles[publisher.version]
    /\ publisher.pc = "active" => "manifest" \in bundles[publisher.version]
    /\ publisher.pc \in {"remove", "sync"} => active = publisher.version

BundleInv ==
    /\ bundles \in [Versions -> SUBSET Bundle!Slices]
    /\ BundlePublisher
    /\ style = "rename" => torn = {}
    /\ active # None => active \in Versions /\ bundles[active] = Bundle!Slices

LEMMA BundleStarts == Bundle!Init => BundleInv
<1> SUFFICES ASSUME Bundle!Init PROVE BundleInv
  OBVIOUS
<1>1. publisher = [pc |-> "idle", version |-> None] /\ active = None /\ torn = {}
      /\ bundles = [v \in Versions |-> {}]
  BY DEF Bundle!Init
<1>2. publisher.pc = "idle" /\ DOMAIN publisher = {"pc", "version"}
  BY <1>1
<1>3. bundles \in [Versions -> SUBSET Bundle!Slices]
  BY <1>1
<1> QED
  BY <1>1, <1>2, <1>3 DEF BundleInv, BundlePublisher

LEMMA BundleSteps == ASSUME BundleInv, Bundle!Next PROVE BundleInv'
<1> USE DEF BundleInv, BundlePublisher, Bundle!At, Bundle!After, Bundle!Slices
<1>1. CASE Bundle!Publish
  BY <1>1 DEF Bundle!Publish, Bundle!readerVars
<1>2. CASE Bundle!WriteSlices
  <2>1. PICK v \in Versions : v = publisher.version
    BY <1>2 DEF Bundle!WriteSlices
  <2>2. bundles' = [bundles EXCEPT ![v] = @ \cup {"stops"}] /\ torn' = torn \ {<<v, "stops">>}
    BY <1>2, <2>1 DEF Bundle!WriteSlices, Bundle!WriteFile
  <2>3. publisher' = [publisher EXCEPT !.pc = "manifest"] /\ UNCHANGED <<style, active>>
    BY <1>2 DEF Bundle!WriteSlices
  <2>4. publisher'.pc = "manifest" /\ publisher'.version = v /\ DOMAIN publisher' = {"pc", "version"}
    BY <2>1, <2>3
  <2>5. bundles' \in [Versions -> SUBSET Bundle!Slices] /\ "stops" \in bundles'[v]
        /\ \A w \in Versions : bundles[w] \subseteq bundles'[w]
    BY <2>2
  <2> QED
    BY <2>2, <2>3, <2>4, <2>5
<1>3. CASE Bundle!WriteManifest
  <2>1. PICK v \in Versions : v = publisher.version
    BY <1>3 DEF Bundle!WriteManifest
  <2>2. bundles' = [bundles EXCEPT ![v] = @ \cup {"manifest"}] /\ torn' = torn \ {<<v, "manifest">>}
    BY <1>3, <2>1 DEF Bundle!WriteManifest, Bundle!WriteFile
  <2>3. publisher' = [publisher EXCEPT !.pc = "active"] /\ UNCHANGED <<style, active>>
    BY <1>3 DEF Bundle!WriteManifest
  <2>4. publisher'.pc = "active" /\ publisher'.version = v /\ DOMAIN publisher' = {"pc", "version"}
    BY <2>1, <2>3
  <2>5. bundles' \in [Versions -> SUBSET Bundle!Slices] /\ "manifest" \in bundles'[v]
        /\ \A w \in Versions : bundles[w] \subseteq bundles'[w]
    BY <2>2
  <2>6. "stops" \in bundles[v]
    BY <1>3, <2>1 DEF Bundle!WriteManifest
  <2> QED
    BY <2>2, <2>3, <2>4, <2>5, <2>6
<1>4. CASE Bundle!WriteActive
  BY <1>4 DEF Bundle!WriteActive
<1>5. CASE Bundle!RemoveOldVersion
  <2>1. PICK v \in Versions, name \in Bundle!Slices :
            /\ v # publisher.version
            /\ bundles' = [bundles EXCEPT ![v] = @ \ {name}]
            /\ torn' = torn \ {<<v, name>>}
    BY <1>5 DEF Bundle!RemoveOldVersion, Bundle!Old
  <2>2. publisher.pc = "remove" /\ active = publisher.version /\ UNCHANGED <<style, active, publisher>>
    BY <1>5 DEF Bundle!RemoveOldVersion
  <2>3. bundles' \in [Versions -> SUBSET Bundle!Slices]
        /\ \A w \in Versions : w # v => bundles'[w] = bundles[w]
    BY <2>1
  <2> QED
    BY <2>1, <2>2, <2>3
<1>6. CASE Bundle!OldVersionsRemoved
  BY <1>6 DEF Bundle!OldVersionsRemoved
<1>7. CASE Bundle!Sync
  BY <1>7 DEF Bundle!Sync
<1>8. CASE Bundle!Interrupted
  <2>1. publisher' = [pc |-> "idle", version |-> None] /\ style' = style /\ active' \in {active, None}
    BY <1>8 DEF Bundle!Interrupted
  <2>2. publisher'.pc = "idle" /\ DOMAIN publisher' = {"pc", "version"}
    BY <2>1
  <2>3. CASE UNCHANGED <<bundles, torn>>
    BY <2>1, <2>2, <2>3
  <2>4. CASE ~UNCHANGED <<bundles, torn>>
    <3>1. PICK name \in Bundle!Slices :
              /\ style = "in place" /\ publisher.pc # "idle"
              /\ bundles' = [bundles EXCEPT ![publisher.version] = @ \cup {name}]
      BY <1>8, <2>4 DEF Bundle!Interrupted
    <3>2. bundles' \in [Versions -> SUBSET Bundle!Slices]
          /\ \A w \in Versions : bundles[w] \subseteq bundles'[w]
      BY <3>1
    <3> QED
      BY <2>1, <2>2, <3>1, <3>2
  <2> QED
    BY <2>3, <2>4
<1>9. ASSUME NEW r \in Readers,
             Bundle!ActiveState(r) \/ Bundle!activeManifest(r) \/ Bundle!loadData(r)
      PROVE  BundleInv'
  BY <1>9 DEF Bundle!ActiveState, Bundle!activeManifest, Bundle!loadData
<1> QED
  BY <1>1, <1>2, <1>3, <1>4, <1>5, <1>6, <1>7, <1>8, <1>9 DEF Bundle!Next

(* The version active.json names has all its files at every moment of a     *)
(* publication and wherever one is interrupted, and whole ones with renames *)
(* (PublishManifest, PublishCatalog, removeOldStaticBundleVersions).        *)
THEOREM BundleIsComplete == TrainSpec => []ActiveIsComplete
<1> DEFINE Inv == Bundled => BundleInv
<1>1. TrainInit => Inv
  BY BundleStarts DEF TrainInit, Scraped, Imported, Queried, Scheduled, Bundled, Paged, Alerted, Reported, Chatted, LoggedIn
<1>2. Inv /\ [TrainNext]_TrainVars => Inv'
  <2> SUFFICES ASSUME Inv, [TrainNext]_TrainVars, Bundled'
               PROVE  BundleInv'
    OBVIOUS
  <2>1. Bundled /\ BundleInv /\ (UNCHANGED bundleVars \/ Bundle!Next)
    BY DEF TrainNext, TrainVars, Scraped, Imported, Queried, Scheduled, Bundled, Paged, Alerted, Reported, Chatted, LoggedIn
  <2>2. CASE UNCHANGED bundleVars
    BY <2>1, <2>2 DEF bundleVars, BundleInv, BundlePublisher
  <2>3. CASE Bundle!Next
    BY <2>1, <2>3, BundleSteps
  <2> QED
    BY <2>1, <2>2, <2>3
<1>3. Inv => ActiveIsComplete
  BY DEF BundleInv, ActiveIsComplete, Bundle!ActiveIsComplete
<1> QED
  BY <1>1, <1>2, <1>3, PTL DEF TrainSpec

(***************************************************************************)
(* The chat.                                                                *)
(***************************************************************************)

(* An origin that a button carries is a station.                            *)
GoodButton(b) == b[1] \in {"route_origin", "favorite_open", "favorite_toggle"} => b[2] \in Stations

ChatSession ==
    /\ chatSession \in [flow : {None, "station", "origin", "destination"},
                        origin : Stations \cup {None}, query : BOOLEAN]
    /\ chatSession.flow = "destination" => chatSession.origin # None
    /\ chatSession.origin # None => picked

ChatKept ==
    /\ ChatSession
    /\ \A b \in offered : GoodButton(b)
    /\ \A f \in favorites : f[1] \in Stations
    /\ IF report = None THEN TRUE ELSE report.asked = report.train

(* The update that may come again was a button that was offered, or a text. *)
ChatInv == ChatKept /\ (last # None => (last.kind = "button" => GoodButton(last.what)))

LEMMA ChatStarts == Chat!Init => ChatInv
<1> SUFFICES ASSUME Chat!Init PROVE ChatInv
  OBVIOUS
<1>1. chatSession = [flow |-> None, origin |-> None, query |-> FALSE]
  BY DEF Chat!Init, Chat!empty
<1>2. ChatSession
  BY <1>1, DialogueAssumption DEF ChatSession
<1>3. \A b \in offered : GoodButton(b)
  BY DEF Chat!Init, Chat!oldButtons, GoodButton
<1> QED
  BY <1>2, <1>3 DEF ChatInv, ChatKept, Chat!Init

(* What each prompt and page does to the session, the buttons and the rest. *)
LEMMA StationPrompts == ASSUME ChatKept, Chat!StationTextPrompt PROVE ChatKept'
<1>1. chatSession' = [chatSession EXCEPT !.flow = "station", !.query = FALSE]
  BY DEF Chat!StationTextPrompt, Chat!setSession
<1>2. ChatSession'
  BY <1>1, DialogueAssumption DEF Chat!StationTextPrompt, ChatKept, ChatSession
<1>3. offered' = offered \cup {<<"find", "time">>, <<"cancel">>} /\ UNCHANGED <<favorites, report>>
  BY DEF Chat!StationTextPrompt, Chat!Offer, Chat!Cancel
<1>4. \A b \in offered' : GoodButton(b)
  BY <1>3 DEF ChatKept, GoodButton
<1> QED
  BY <1>2, <1>3, <1>4 DEF ChatKept

LEMMA OriginPrompts == ASSUME ChatKept, Chat!RouteOriginTextPrompt PROVE ChatKept'
<1>1. chatSession' = [[flow |-> None, origin |-> None, query |-> FALSE] EXCEPT !.flow = "origin"]
  BY DEF Chat!RouteOriginTextPrompt, Chat!setSession, Chat!empty
<1>2. ChatSession'
  BY <1>1, DialogueAssumption DEF ChatSession
<1>3. offered' = offered \cup {<<"cancel">>} /\ UNCHANGED <<favorites, report>>
  BY DEF Chat!RouteOriginTextPrompt, Chat!Offer, Chat!Cancel
<1>4. \A b \in offered' : GoodButton(b)
  BY <1>3 DEF ChatKept, GoodButton
<1> QED
  BY <1>2, <1>3, <1>4 DEF ChatKept

LEMMA DestinationPrompts ==
    ASSUME ChatKept, NEW s \in [flow : {None, "station", "origin", "destination"},
                                origin : Stations, query : BOOLEAN],
           Chat!destinationPrompt(s), picked', UNCHANGED <<favorites, report>>
    PROVE  ChatKept'
<1>1. chatSession' = [s EXCEPT !.flow = "destination", !.query = FALSE]
  BY DEF Chat!destinationPrompt, Chat!setSession
<1>2. ChatSession'
  BY <1>1, DialogueAssumption DEF ChatSession
<1>3. offered' = offered \cup {<<"prompt_route_origin">>, <<"cancel">>}
  BY DEF Chat!destinationPrompt, Chat!Offer, Chat!Cancel
<1>4. \A b \in offered' : GoodButton(b)
  BY <1>3 DEF ChatKept, GoodButton
<1> QED
  BY <1>2, <1>4 DEF ChatKept

LEMMA DestinationTextPrompts == ASSUME ChatKept, Chat!RouteDestinationTextPrompt PROVE ChatKept'
<1>1. CASE Chat!RouteOriginTextPrompt
  BY <1>1, OriginPrompts
<1>2. CASE ~Chat!RouteOriginTextPrompt
  <2>1. Chat!destinationPrompt(chatSession) /\ UNCHANGED <<favorites, report, picked>>
        /\ Chat!getCheckinOriginSession # None
    BY <1>2 DEF Chat!RouteDestinationTextPrompt
  <2>2. chatSession.origin \in Stations /\ picked
    BY <2>1 DEF Chat!getCheckinOriginSession, Chat!getCheckinSession, Chat!empty, ChatKept, ChatSession
  <2>3. chatSession \in [flow : {None, "station", "origin", "destination"},
                         origin : Stations, query : BOOLEAN]
    BY <2>2 DEF ChatKept, ChatSession
  <2> QED
    BY <2>1, <2>2, <2>3, DestinationPrompts
<1> QED
  BY <1>1, <1>2

LEMMA OriginPicks == ASSUME ChatKept, NEW s \in Stations, Chat!PickOrigin(s) PROVE ChatKept'
<1>1. [chatSession EXCEPT !.origin = s] \in [flow : {None, "station", "origin", "destination"},
                                             origin : Stations, query : BOOLEAN]
  BY DEF ChatKept, ChatSession
<1> QED
  BY <1>1, DestinationPrompts DEF Chat!PickOrigin

LEMMA Entries == ASSUME ChatKept, Chat!CheckInEntry PROVE ChatKept'
BY DialogueAssumption DEF Chat!CheckInEntry, Chat!clearCheckinSession, Chat!setSession, Chat!Offer, Chat!empty, ChatKept, ChatSession, GoodButton

(* Pages that offer buttons and leave the session alone.                    *)
LEMMA Offers ==
    ASSUME ChatKept, NEW buttons, Chat!Offer(buttons), \A b \in buttons : GoodButton(b),
           UNCHANGED <<chatSession, favorites, report, picked>>
    PROVE  ChatKept'
BY DEF Chat!Offer, ChatKept, ChatSession

LEMMA RouteButtons == ASSUME NEW a \in Stations, NEW b, NEW x \in Chat!routeTrainsButtons(a, b) PROVE GoodButton(x)
BY DEF Chat!routeTrainsButtons, Chat!Cancel, GoodButton

LEMMA RoutePages == ASSUME ChatKept, NEW b, Chat!RouteTrainsPage(b) PROVE ChatKept'
<1>1. CASE Chat!RouteOriginTextPrompt
  BY <1>1, OriginPrompts
<1>2. CASE ~Chat!RouteOriginTextPrompt
  <2>1. /\ Chat!Offer(Chat!routeTrainsButtons(chatSession.origin, b))
        /\ UNCHANGED <<chatSession, favorites, report, picked>>
        /\ Chat!getCheckinOriginSession # None
    BY <1>2 DEF Chat!RouteTrainsPage
  <2>2. chatSession.origin \in Stations
    BY <2>1 DEF Chat!getCheckinOriginSession, Chat!getCheckinSession, Chat!empty, ChatKept, ChatSession
  <2> QED
    BY <2>1, <2>2, RouteButtons, Offers
<1> QED
  BY <1>1, <1>2

LEMMA Searches ==
    ASSUME ChatKept, NEW flow \in {"station", "origin", "destination"}, Chat!SearchMatches(flow),
           flow = "destination" => chatSession.origin # None
    PROVE  ChatKept'
<1>1. \A b \in Chat!searchButtons(flow) : GoodButton(b)
  BY DEF Chat!searchButtons, Chat!Cancel, GoodButton
<1> QED
  BY <1>1 DEF Chat!SearchMatches, Chat!setSession, Chat!Offer, ChatKept, ChatSession

LEMMA ResultPages == ASSUME ChatKept, Chat!editCheckInSearchResultsPage PROVE ChatKept'
<1>1. CASE Chat!CheckInEntry
  BY <1>1, Entries
<1>2. CASE Chat!RouteOriginTextPrompt
  BY <1>2, OriginPrompts
<1>3. CASE ~Chat!CheckInEntry /\ ~Chat!RouteOriginTextPrompt
  <2>1. /\ Chat!getCheckinSession.query /\ Chat!SearchMatches(Chat!getCheckinSession.flow)
        /\ Chat!getCheckinSession.flow # None
        /\ Chat!getCheckinSession.flow # "destination" \/ Chat!getCheckinOriginSession # None
    BY <1>3 DEF Chat!editCheckInSearchResultsPage
  <2>2. Chat!getCheckinSession = chatSession
    <3>1. stale => Chat!getCheckinSession.flow = None
      BY DEF Chat!getCheckinSession, Chat!empty
    <3> QED
      BY <2>1, <3>1 DEF Chat!getCheckinSession
  <2>3. chatSession.flow \in {"station", "origin", "destination"}
        /\ (chatSession.flow = "destination" => chatSession.origin # None)
    BY <2>1, <2>2 DEF ChatKept, ChatSession
  <2> QED
    BY <2>1, <2>2, <2>3, Searches
<1> QED
  BY <1>1, <1>2, <1>3

LEMMA CheckIns == ASSUME ChatKept, NEW t, NEW s, Chat!CheckIn(t, s) PROVE ChatKept'
BY DialogueAssumption DEF Chat!CheckIn, Chat!clearCheckinSession, Chat!setSession, Chat!Offer, Chat!empty, ChatKept, ChatSession, GoodButton

LEMMA FavoritesOpen ==
    ASSUME ChatKept, NEW a \in Stations, NEW b, Chat!OpenFavorite(a, b),
           \A f \in favorites' : f[1] \in Stations
    PROVE  ChatKept'
<1>1. \A x \in Chat!routeTrainsButtons(a, b) : GoodButton(x)
  BY RouteButtons
<1> QED
  BY <1>1, DialogueAssumption DEF Chat!OpenFavorite, Chat!setSession, Chat!Offer, ChatKept, ChatSession

LEMMA ReportsKept ==
    ASSUME ChatKept, NEW buttons, \A b \in buttons : GoodButton(b), offered' \subseteq offered \cup buttons,
           UNCHANGED <<chatSession, favorites, picked>>,
           IF report' = None THEN TRUE ELSE report'.asked = report'.train
    PROVE  ChatKept'
BY DEF ChatKept, ChatSession

(* A button of any keyboard in the chat.                                    *)
LEMMA ButtonSteps ==
    ASSUME ChatKept, NEW b, GoodButton(b), Chat!handleCallback(b)
    PROVE  ChatKept'
<1>1. CASE b[1] = "start" /\ Chat!CheckInEntry
  BY <1>1, Entries
<1>2. CASE b[1] = "route_pick" /\ Chat!Offer({<<"route_watch">>, <<"start">>}) /\ Chat!Quiet /\ UNCHANGED report
  BY <1>2, Offers DEF Chat!Quiet, GoodButton
<1>3. CASE Chat!RouteCheckIn(TRUE) \/ Chat!RouteCheckIn(FALSE)
  BY <1>3, Offers DEF Chat!RouteCheckIn, GoodButton
<1>4. CASE Chat!clearCheckinSession /\ UNCHANGED <<offered, ride, chatWatching, favorites, report, picked>>
  BY <1>4, DialogueAssumption DEF Chat!clearCheckinSession, Chat!setSession, Chat!empty, ChatKept, ChatSession
<1>5. CASE Chat!StationTextPrompt
  BY <1>5, StationPrompts
<1>6. CASE Chat!RouteOriginTextPrompt
  BY <1>6, OriginPrompts
<1>7. CASE Chat!RouteDestinationTextPrompt
  BY <1>7, DestinationTextPrompts
<1>8. CASE Chat!editCheckInSearchResultsPage
  BY <1>8, ResultPages
<1>9. CASE Chat!WindowTrainsPage
  BY <1>9, Offers DEF Chat!WindowTrainsPage, GoodButton
<1>10. CASE Chat!FavoriteRoutes
  <2>1. \A f \in favorites : f[1] \in Stations
    BY DEF ChatKept
  <2> DEFINE buttons == {<<"favorite_open", f[1], f[2]>> : f \in favorites}
                            \cup {<<"prompt_route_origin">>, <<"cancel">>}
  <2>2. \A x \in buttons : GoodButton(x)
    BY <2>1 DEF GoodButton
  <2>3. Chat!Offer(buttons) /\ UNCHANGED <<chatSession, favorites, report, picked>>
    BY <1>10 DEF Chat!FavoriteRoutes, Chat!Cancel
  <2> HIDE DEF buttons
  <2> QED
    BY <2>2, <2>3, Offers
<1>11. CASE Chat!StationTrainsPage(b[2]) /\ UNCHANGED <<chatSession, stale>>
  <2> DEFINE buttons == {<<"station_train", t, b[2]>> : t \in Chat!TrainsAt(b[2])} \cup {<<"prompt_station">>}
  <2>1. \A x \in buttons : GoodButton(x)
    BY DEF GoodButton
  <2>2. Chat!Offer(buttons) /\ UNCHANGED <<chatSession, favorites, report, picked>>
    BY <1>11 DEF Chat!StationTrainsPage
  <2> HIDE DEF buttons
  <2> QED
    BY <2>1, <2>2, Offers
<1>12. CASE Chat!CheckIn(b[2], b[3]) \/ Chat!CheckIn(b[2], None)
  BY <1>12, CheckIns
<1>13. CASE b[1] = "route_origin" /\ Chat!PickOrigin(b[2])
  BY <1>13, OriginPicks DEF GoodButton
<1>14. CASE Chat!RouteTrainsPage(b[2])
  BY <1>14, RoutePages
<1>15. CASE Chat!CheckInOnRoute(b[2])
  BY <1>15, OriginPrompts, CheckIns DEF Chat!CheckInOnRoute
<1>16. CASE b[1] = "favorite_open" /\ Chat!OpenFavorite(b[2], b[3]) /\ UNCHANGED favorites
  BY <1>16, FavoritesOpen DEF GoodButton, ChatKept
<1>17. CASE /\ b[1] = "favorite_toggle"
            /\ favorites' = Chat!toggled(<<b[2], b[3]>>)
            /\ Chat!OpenFavorite(b[2], b[3])
  <2>1. b[2] \in Stations
    BY <1>17 DEF GoodButton
  <2>2. \A f \in favorites' : f \in favorites \/ f = <<b[2], b[3]>>
    BY <1>17 DEF Chat!toggled
  <2>3. \A f \in favorites' : f[1] \in Stations
    BY <2>1, <2>2 DEF ChatKept
  <2> QED
    BY <1>17, <2>1, <2>3, FavoritesOpen
<1>18. CASE Chat!sendReportPrompt
  <2>1. Chat!Quiet /\ UNCHANGED report
    BY <1>18 DEF Chat!sendReportPrompt
  <2>2. CASE Chat!Offer({<<"start">>})
    BY <2>1, <2>2, Offers DEF Chat!Quiet, GoodButton
  <2>3. CASE Chat!Offer({<<"report_type">>})
    BY <2>1, <2>3, Offers DEF Chat!Quiet, GoodButton
  <2> QED
    BY <1>18, <2>2, <2>3 DEF Chat!sendReportPrompt
<1>19. CASE Chat!ReportType
  <2>1. Chat!Quiet /\ UNCHANGED report
    BY <1>19 DEF Chat!ReportType
  <2>2. CASE Chat!Offer({<<"start">>})
    BY <2>1, <2>2, Offers DEF Chat!Quiet, GoodButton
  <2>3. CASE Chat!Offer({<<"report_confirm", ride.train>>})
    BY <2>1, <2>3, Offers DEF Chat!Quiet, GoodButton
  <2> QED
    BY <1>19, <2>2, <2>3 DEF Chat!ReportType
<1>20. CASE Chat!ReportConfirm(b[2])
  <2> DEFINE buttons == {<<"start">>}
  <2>1. offered' \subseteq offered \cup buttons /\ UNCHANGED <<chatSession, favorites, picked>>
    BY <1>20 DEF Chat!ReportConfirm, Chat!Offer, Chat!Quiet
  <2>2. report' = report \/ (report' = [asked |-> b[2], train |-> ride.train] /\ b[2] = ride.train)
    BY <1>20 DEF Chat!ReportConfirm
  <2>3. IF report' = None THEN TRUE ELSE report'.asked = report'.train
    BY <2>2 DEF ChatKept
  <2>4. \A x \in buttons : GoodButton(x)
    BY DEF GoodButton
  <2> HIDE DEF buttons
  <2> QED
    BY <2>1, <2>3, <2>4, ReportsKept
<1>21. CASE Chat!Checkout
  BY <1>21, Offers DEF Chat!Checkout
<1> QED
  BY <1>1, <1>2, <1>3, <1>4, <1>5, <1>6, <1>7, <1>8, <1>9, <1>10, <1>11, <1>12, <1>13, <1>14, <1>15,
     <1>16, <1>17, <1>18, <1>19, <1>20, <1>21, Zenon DEF Chat!handleCallback, Chat!handleCheckInCallback

(* A text, in whichever flow the chat is.                                   *)
LEMMA TextInputs ==
    ASSUME ChatKept, NEW flow \in {"station", "origin", "destination"}, NEW text,
           Chat!handleTextInput(flow, text), flow = "destination" => chatSession.origin # None
    PROVE  ChatKept'
<1>1. CASE Chat!SearchMatches(flow)
  BY <1>1, Searches
<1>2. CASE ~Chat!SearchMatches(flow)
  <2>1. /\ chatSession' = [chatSession EXCEPT !.flow = flow, !.query = TRUE]
        /\ offered' = offered \cup {<<"retry", flow>>, <<"cancel">>}
        /\ UNCHANGED <<favorites, report, picked>>
    BY <1>2 DEF Chat!handleTextInput, Chat!setSession, Chat!Offer, Chat!Cancel
  <2>2. ChatSession'
    BY <2>1 DEF ChatKept, ChatSession
  <2>3. \A b \in offered' : GoodButton(b)
    BY <2>1 DEF ChatKept, GoodButton
  <2> QED
    BY <2>1, <2>2, <2>3 DEF ChatKept
<1> QED
  BY <1>1, <1>2

LEMMA QueryKept ==
    ASSUME ChatKept, NEW buttons, \A b \in buttons : GoodButton(b),
           chatSession' = [chatSession EXCEPT !.query = TRUE], Chat!Offer(buttons),
           UNCHANGED <<favorites, report, picked>>
    PROVE  ChatKept'
<1>1. ChatSession'
  BY DEF ChatKept, ChatSession
<1> QED
  BY <1>1 DEF ChatKept, Chat!Offer

LEMMA TextSteps == ASSUME ChatKept, NEW text, Chat!handleMessage(text) PROVE ChatKept'
<1>1. CASE Chat!CheckInEntry
  BY <1>1, Entries
<1>2. CASE Chat!handleStationTextInput(text)
  <2>1. CASE Chat!handleTextInput("station", text)
    BY <2>1, TextInputs
  <2>2. CASE Chat!setSession([chatSession EXCEPT !.query = TRUE]) /\ Chat!StationTrainsPage(text)
    <3> DEFINE buttons == {<<"station_train", t, text>> : t \in Chat!TrainsAt(text)} \cup {<<"prompt_station">>}
    <3>1. \A x \in buttons : GoodButton(x)
      BY DEF GoodButton
    <3>2. Chat!Offer(buttons) /\ UNCHANGED <<favorites, report, picked>>
          /\ chatSession' = [chatSession EXCEPT !.query = TRUE]
      BY <2>2 DEF Chat!StationTrainsPage, Chat!setSession
    <3> HIDE DEF buttons
    <3> QED
      BY <3>1, <3>2, QueryKept
  <2> QED
    BY <1>2, <2>1, <2>2 DEF Chat!handleStationTextInput
<1>3. CASE Chat!handleRouteOriginTextInput(text)
  BY <1>3, OriginPicks, TextInputs DEF Chat!handleRouteOriginTextInput
<1>4. CASE Chat!handleRouteDestinationTextInput(text)
  <2>1. CASE Chat!RouteOriginTextPrompt
    BY <2>1, OriginPrompts
  <2>2. CASE ~Chat!RouteOriginTextPrompt
    <3>1. chatSession.origin \in Stations
      BY <1>4, <2>2 DEF Chat!handleRouteDestinationTextInput, Chat!getCheckinOriginSession,
                        Chat!getCheckinSession, Chat!empty, ChatKept, ChatSession
    <3>2. CASE Chat!handleTextInput("destination", text)
      BY <3>1, <3>2, TextInputs, DialogueAssumption
    <3>3. CASE /\ Chat!setSession([chatSession EXCEPT !.query = TRUE])
               /\ Chat!Offer(Chat!routeTrainsButtons(chatSession.origin, text))
               /\ UNCHANGED <<favorites, report, picked>>
      <4>1. \A x \in Chat!routeTrainsButtons(chatSession.origin, text) : GoodButton(x)
        BY <3>1, RouteButtons
      <4> QED
        BY <3>3, <4>1, QueryKept DEF Chat!setSession
    <3> QED
      BY <1>4, <2>2, <3>2, <3>3 DEF Chat!handleRouteDestinationTextInput
  <2> QED
    BY <2>1, <2>2
<1> QED
  BY <1>1, <1>2, <1>3, <1>4 DEF Chat!handleMessage, Chat!handleActiveCheckInMessage

LEMMA UpdateSteps ==
    ASSUME ChatKept, NEW u, u.kind = "button" => GoodButton(u.what), Chat!handleUpdate(u)
    PROVE  ChatKept'
BY ButtonSteps, TextSteps DEF Chat!handleUpdate

LEMMA ChatSteps == ASSUME ChatInv, Chat!Next PROVE ChatInv'
<1>1. CASE Chat!Update
  <2>1. PICK u \in {Chat!Press(b) : b \in offered} \cup {Chat!Say(s) : s \in Stations \cup {"several", "menu"}} :
            Chat!handleUpdate(u) /\ last' = u
    BY <1>1 DEF Chat!Update
  <2>2. u.kind = "button" => GoodButton(u.what)
    BY <2>1 DEF Chat!Press, Chat!Say, ChatInv, ChatKept
  <2> QED
    BY <2>1, <2>2, UpdateSteps DEF ChatInv, GoodButton
<1>2. CASE Chat!Redelivered
  BY <1>2, UpdateSteps DEF Chat!Redelivered, ChatInv
<1>3. CASE Chat!Expire \/ Chat!AutoCheckout
  BY <1>3 DEF Chat!Expire, Chat!AutoCheckout, ChatInv, ChatKept, ChatSession, GoodButton
<1>4. CASE Chat!cleanupCheckinSessions \/ Chat!Restart
  <2>1. chatSession' = [flow |-> None, origin |-> None, query |-> FALSE]
        /\ UNCHANGED <<offered, favorites, report, last>>
    BY <1>4 DEF Chat!cleanupCheckinSessions, Chat!Restart, Chat!clearCheckinSession, Chat!setSession, Chat!empty
  <2>2. ChatSession'
    BY <2>1, DialogueAssumption DEF ChatSession
  <2> QED
    BY <2>1, <2>2 DEF ChatInv, ChatKept, GoodButton
<1> QED
  BY <1>1, <1>2, <1>3, <1>4 DEF Chat!Next

(* However old the pressed buttons: a report is about the train the member  *)
(* confirmed, a destination is only asked for with an origin, and an origin *)
(* is one picked since it was last asked for (bot/service.go).              *)
THEOREM ButtonsAreHarmless == TrainSpec => []OldButtonsAreHarmless
<1> DEFINE Inv == Chatted => ChatInv
<1>1. TrainInit => Inv
  BY ChatStarts DEF TrainInit, Scraped, Imported, Queried, Scheduled, Bundled, Paged, Alerted, Reported, Chatted, LoggedIn
<1>2. Inv /\ [TrainNext]_TrainVars => Inv'
  <2> SUFFICES ASSUME Inv, [TrainNext]_TrainVars, Chatted'
               PROVE  ChatInv'
    OBVIOUS
  <2>1. Chatted /\ ChatInv /\ (UNCHANGED botVars \/ Chat!Next)
    BY DEF TrainNext, TrainVars, Scraped, Imported, Queried, Scheduled, Bundled, Paged, Alerted, Reported, Chatted, LoggedIn
  <2>2. CASE UNCHANGED botVars
    BY <2>1, <2>2 DEF botVars, ChatInv, ChatKept, ChatSession, GoodButton
  <2>3. CASE Chat!Next
    BY <2>1, <2>3, ChatSteps
  <2> QED
    BY <2>1, <2>2, <2>3
<1>3. Inv => OldButtonsAreHarmless
  BY DEF ChatInv, ChatKept, ChatSession, OldButtonsAreHarmless, Chat!OldButtonsAreHarmless
<1> QED
  BY <1>1, <1>2, <1>3, PTL DEF TrainSpec

(***************************************************************************)
(* The import of a day.                                                     *)
(***************************************************************************)

(* The pieces of the day imported under id: its version is its number.      *)
Pieces(id) == {<<id, Chunks[k]>> : k \in 1 .. Len(Chunks)}

Found(table, id) == table[id] # None /\ table[id].header

(* The rows under a header are of that import alone, ...                    *)
Pure(table) ==
    \A id \in Import!Ids : Found(table, id) =>
        table[id].version = id /\ table[id].chunks \in Seq(Pieces(id))

(* ... and the first n chunks are among them.                               *)
Holds(table, id, n) ==
    Found(table, id) => \A k \in 1 .. n : <<id, Chunks[k]>> \in Import!Range(table[id].chunks)

Busy(i) == importer[i].pc \in {"begin", "append", "abort", "local"}

ImportShape ==
    /\ importBegun \in Nat /\ DOMAIN imports = Import!Ids /\ DOMAIN importer = Importers
    /\ \A i \in Importers :
        /\ DOMAIN importer[i] = {"pc", "id", "version", "sent", "missing"}
        /\ importer[i].pc \in {"idle", "replace", "begin", "append", "abort", "local"}
        /\ Busy(i) => importer[i].id \in Import!Ids /\ importer[i].id <= importBegun
                      /\ importer[i].version = importer[i].id
        /\ importer[i].pc = "begin" => importer[i].sent = 0
        /\ importer[i].pc = "append" => importer[i].sent \in 0 .. Len(Chunks)

(* An import is one process's, and its begin is its first call: while that  *)
(* may yet take effect, nobody appends to the import or commits it.         *)
ImportOwners ==
    /\ \A i, j \in Importers : Busy(i) /\ Busy(j) /\ importer[i].id = importer[j].id => i = j
    /\ \A i \in Importers : importer[i].pc = "begin" => \A c \in importLate : c.id # importer[i].id

LateCalls ==
    /\ \A c \in importLate :
        /\ c.id \in Import!Ids /\ c.id <= importBegun
        /\ c.op \in {"begin", "append", "commit", "abort"}
        /\ c.op = "begin" => c.version = c.id
        /\ c.op = "append" => c.chunk \in Pieces(c.id)
    /\ \A c \in importLate : c.op = "begin" =>
        /\ \A i \in Importers : Busy(i) => importer[i].id # c.id
        /\ \A d \in importLate : d.op = "commit" => d.id # c.id

(* What a commit will find, unless the rows are gone.                       *)
CommitsAreWhole ==
    /\ Pure(imports)
    /\ \A i \in Importers : importer[i].pc = "append" =>
           Holds(imports, importer[i].id, importer[i].sent)
    /\ \A c \in importLate : c.op = "commit" => Holds(imports, c.id, Len(Chunks))

ImportInv ==
    /\ ImportShape /\ ImportOwners /\ LateCalls /\ CommitsAreWhole
    /\ Import!StoredDayIsWhole

LEMMA ChunksCounted == Len(Chunks) \in Nat /\ DOMAIN Chunks = 1 .. Len(Chunks)
BY ImportAssumption

LEMMA ImportStarts == Import!Init => ImportInv
<1> SUFFICES ASSUME Import!Init PROVE ImportInv
  OBVIOUS
<1>1. /\ importDay = None /\ imports = [id \in Import!Ids |-> None] /\ importLate = {} /\ importBegun = 0
      /\ importer = [i \in Importers |-> [pc |-> "idle", id |-> None, version |-> None,
                                           sent |-> 0, missing |-> {}]]
  BY DEF Import!Init, Import!newImporter
<1>2. \A i \in Importers : importer[i].pc = "idle" /\ DOMAIN importer[i] = {"pc", "id", "version", "sent", "missing"}
  BY <1>1
<1>3. \A id \in Import!Ids : ~Found(imports, id)
  BY <1>1 DEF Found
<1> QED
  BY <1>1, <1>2, <1>3 DEF ImportInv, ImportShape, ImportOwners, LateCalls, CommitsAreWhole, Pure, Busy,
                          Import!StoredDayIsWhole

(* A call that may be served: its begin comes first.                        *)
Welcome(c) ==
    /\ c.id \in Import!Ids
    /\ c.op \in {"begin", "append", "commit", "abort"}
    /\ c.op = "begin" => c.version = c.id
    /\ c.op = "append" => c.chunk \in Pieces(c.id)
    /\ c.op = "commit" => Holds(imports, c.id, Len(Chunks))

(* What a call does to the rows.                                             *)
Served(c) ==
    /\ DOMAIN imports' = Import!Ids
    /\ \A id \in Import!Ids : id # c.id => imports'[id] = imports[id]
    /\ Pure(imports')
    /\ c.op # "begin" => \A n \in Nat : Holds(imports, c.id, n) => Holds(imports', c.id, n)
    /\ c.op = "append" /\ Import!answered(c) /\ Found(imports', c.id) =>
           c.chunk \in Import!Range(imports'[c.id].chunks)
    /\ Import!StoredDayIsWhole'

LEMMA CallsAreServed ==
    ASSUME DOMAIN imports = Import!Ids, Pure(imports), Import!StoredDayIsWhole,
           NEW c, Welcome(c), Import!Serve(c)
    PROVE  Served(c)
<1>1. CASE UNCHANGED <<importDay, imports>> /\ ~Import!answered(c)
  BY <1>1 DEF Served, Import!StoredDayIsWhole, Pure, Holds, Found
<1>2. CASE Import!answered(c)
  <2>1. CASE c.op = "begin" /\ Import!beginServiceDayImport(c)
    <3>1. imports' = [imports EXCEPT ![c.id] = [version |-> c.version, header |-> TRUE, chunks |-> <<>>]]
          /\ UNCHANGED importDay
      BY <2>1 DEF Import!beginServiceDayImport
    <3>2. imports'[c.id].version = c.id /\ imports'[c.id].chunks = <<>>
      BY <2>1, <3>1 DEF Welcome
    <3>3. imports'[c.id].chunks \in Seq(Pieces(c.id))
      BY <3>2
    <3>4. \A id \in Import!Ids : id # c.id => imports'[id] = imports[id]
      BY <3>1
    <3>5. Pure(imports')
      BY <3>2, <3>3, <3>4 DEF Pure, Found
    <3> QED
      BY <2>1, <3>1, <3>4, <3>5 DEF Served, Import!StoredDayIsWhole
  <2>2. CASE c.op = "append" /\ Import!appendServiceDayChunk(c)
    <3>1. imports' = [imports EXCEPT ![c.id].chunks = Append(@, c.chunk)] /\ UNCHANGED importDay
      BY <2>2 DEF Import!appendServiceDayChunk
    <3>2. Found(imports, c.id) /\ c.id \in Import!Ids
      BY <1>2, <2>2 DEF Import!answered, Import!found, Found, Welcome
    <3> DEFINE table == imports[c.id].chunks
    <3>3. table \in Seq(Pieces(c.id)) /\ imports[c.id].version = c.id
      BY <3>2 DEF Pure
    <3>4. c.chunk \in Pieces(c.id)
      BY <2>2 DEF Welcome
    <3>5. imports'[c.id] = [imports[c.id] EXCEPT !.chunks = Append(table, c.chunk)]
          /\ \A id \in Import!Ids : id # c.id => imports'[id] = imports[id]
      BY <3>1, <3>2
    <3> DEFINE longer == Append(table, c.chunk)
    <3>6. longer \in Seq(Pieces(c.id)) /\ Import!Range(longer) = Import!Range(table) \cup {c.chunk}
      <4>1. /\ longer \in Seq(Pieces(c.id)) /\ Len(table) \in Nat /\ DOMAIN table = 1 .. Len(table)
            /\ DOMAIN longer = 1 .. (Len(table) + 1)
            /\ \A n \in 1 .. Len(table) : longer[n] = table[n]
            /\ longer[Len(table) + 1] = c.chunk
        BY <3>3, <3>4
      <4> HIDE DEF longer, table
      <4>2. ASSUME NEW x \in Import!Range(longer) PROVE x \in Import!Range(table) \cup {c.chunk}
        <5>1. PICK n \in 1 .. (Len(table) + 1) : x = longer[n]
          BY <4>1, <4>2 DEF Import!Range
        <5>2. CASE n = Len(table) + 1
          BY <4>1, <5>1, <5>2
        <5>3. CASE n # Len(table) + 1
          <6>1. n \in 1 .. Len(table)
            BY <4>1, <5>1, <5>3
          <6> QED
            BY <4>1, <5>1, <6>1 DEF Import!Range
        <5> QED
          BY <5>2, <5>3
      <4>3. c.chunk \in Import!Range(longer)
        <5>1. Len(table) + 1 \in DOMAIN longer
          BY <4>1
        <5> QED
          BY <4>1, <5>1 DEF Import!Range
      <4>4. ASSUME NEW x \in Import!Range(table) PROVE x \in Import!Range(longer)
        <5>1. PICK n \in 1 .. Len(table) : x = table[n]
          BY <4>1, <4>4 DEF Import!Range
        <5>2. n \in 1 .. (Len(table) + 1) /\ x = longer[n]
          BY <4>1, <5>1
        <5> QED
          BY <4>1, <5>2 DEF Import!Range
      <4> QED
        BY <4>1, <4>2, <4>3, <4>4
    <3>7. Found(imports', c.id) => imports'[c.id].chunks = longer /\ imports'[c.id].version = c.id
      BY <3>3, <3>5 DEF Found
    <3> HIDE DEF longer, table
    <3>8. Pure(imports')
      <4> SUFFICES ASSUME NEW id \in Import!Ids, Found(imports', id)
                   PROVE  imports'[id].version = id /\ imports'[id].chunks \in Seq(Pieces(id))
        BY DEF Pure
      <4>1. CASE id = c.id
        BY <3>6, <3>7, <4>1
      <4>2. CASE id # c.id
        BY <3>5, <4>2 DEF Pure, Found
      <4> QED
        BY <4>1, <4>2
    <3>9. \A n \in Nat : Holds(imports, c.id, n) => Holds(imports', c.id, n)
      BY <3>2, <3>6, <3>7 DEF Holds, table
    <3>10. DOMAIN imports' = Import!Ids /\ Import!StoredDayIsWhole'
      BY <3>1 DEF Import!StoredDayIsWhole
    <3> QED
      BY <2>2, <3>5, <3>6, <3>7, <3>8, <3>9, <3>10 DEF Served
  <2>3. CASE c.op = "commit" /\ Import!commitServiceDayImport(c)
    <3>1. importDay' = [version |-> imports[c.id].version, chunks |-> Import!Range(Import!rowsForImport(c.id))]
          /\ imports' = [imports EXCEPT ![c.id] = None]
      BY <2>3 DEF Import!commitServiceDayImport
    <3>2. Found(imports, c.id) /\ c.id \in Import!Ids
      BY <1>2, <2>3 DEF Import!answered, Import!found, Found, Welcome
    <3>3. imports[c.id].version = c.id /\ imports[c.id].chunks \in Seq(Pieces(c.id))
      BY <3>2 DEF Pure
    <3>4. Import!rowsForImport(c.id) = imports[c.id].chunks
      BY <3>2 DEF Import!rowsForImport, Found
    <3>5. Holds(imports, c.id, Len(Chunks))
      BY <2>3 DEF Welcome
    <3>6. Import!Range(imports[c.id].chunks) = Pieces(c.id)
      <4>1. \A x \in Import!Range(imports[c.id].chunks) : x \in Pieces(c.id)
        <5> HIDE DEF Pieces
        <5>1. \A n \in DOMAIN imports[c.id].chunks : imports[c.id].chunks[n] \in Pieces(c.id)
          BY <3>3
        <5> QED
          BY <5>1 DEF Import!Range
      <4>2. \A k \in 1 .. Len(Chunks) : <<c.id, Chunks[k]>> \in Import!Range(imports[c.id].chunks)
        BY <3>2, <3>5 DEF Holds
      <4> QED
        BY <4>1, <4>2 DEF Pieces
    <3>7. Pieces(c.id) = {<<c.id, x>> : x \in Import!Range(Chunks)}
      <4>1. Import!Range(Chunks) = {Chunks[k] : k \in 1 .. Len(Chunks)}
        BY ChunksCounted DEF Import!Range
      <4> QED
        BY <4>1 DEF Pieces
    <3>8. importDay'.version = c.id /\ importDay'.chunks = {<<c.id, x>> : x \in Import!Range(Chunks)}
      BY <3>1, <3>3, <3>4, <3>6, <3>7
    <3>9. Import!StoredDayIsWhole'
      BY <3>8 DEF Import!StoredDayIsWhole
    <3>10. \A id \in Import!Ids : id # c.id => imports'[id] = imports[id]
      BY <3>1
    <3>11. ~Found(imports', c.id) /\ DOMAIN imports' = Import!Ids
      BY <3>1, <3>2 DEF Found
    <3>12. Pure(imports')
      BY <3>10, <3>11 DEF Pure, Found
    <3> QED
      BY <2>3, <3>9, <3>10, <3>11, <3>12 DEF Served, Holds
  <2>4. CASE c.op = "abort" /\ Import!abortServiceDayImport(c)
    <3>1. imports' = [imports EXCEPT ![c.id] = None] /\ UNCHANGED importDay
      BY <2>4 DEF Import!abortServiceDayImport
    <3>2. \A id \in Import!Ids : id # c.id => imports'[id] = imports[id]
      BY <3>1
    <3>3. ~Found(imports', c.id) /\ DOMAIN imports' = Import!Ids
      BY <3>1 DEF Found, Welcome
    <3>4. Pure(imports')
      BY <3>2, <3>3 DEF Pure, Found
    <3> QED
      BY <2>4, <3>1, <3>2, <3>3, <3>4 DEF Served, Holds, Import!StoredDayIsWhole
  <2> QED
    BY <1>2, <2>1, <2>2, <2>3, <2>4 DEF Import!Serve
<1> QED
  BY <1>1, <1>2 DEF Import!Serve

(* A call that a process makes now, in its own import.                      *)
Ready(i, op) ==
    \/ op = "begin" /\ importer[i].pc = "begin"
    \/ op = "append" /\ importer[i].pc = "append" /\ importer[i].sent < Len(Chunks)
    \/ op = "commit" /\ importer[i].pc = "append" /\ importer[i].sent = Len(Chunks)
    \/ op = "abort" /\ importer[i].pc = "abort"

(* Where a process is after a call that failed, or whose failure it saw; ... *)
GivenUp(i) ==
    \/ importer'[i].pc = "idle"
    \/ /\ importer[i].pc = "append" /\ importer'[i].pc = "abort"
       /\ importer'[i].id = importer[i].id /\ importer'[i].version = importer[i].version

(* ... and after one that was answered.                                     *)
GoneOn(i, op) ==
    \/ op = "abort" /\ importer'[i].pc = "idle"
    \/ /\ op # "abort"
       /\ importer'[i].id = importer[i].id /\ importer'[i].version = importer[i].version
       /\ \/ op = "begin" /\ importer'[i].pc = "append" /\ importer'[i].sent = 0
          \/ op = "append" /\ importer'[i].pc = "append" /\ importer'[i].sent = importer[i].sent + 1
          \/ op = "commit" /\ importer'[i].pc = "local"

OnlyMoves(i) ==
    /\ DOMAIN importer' = Importers
    /\ DOMAIN importer'[i] = {"pc", "id", "version", "sent", "missing"}
    /\ \A j \in Importers : j # i => importer'[j] = importer[j]

(* The outcomes of a call.                                                  *)
Outcome(i, op) ==
    LET c == Import!Call(i, op)
    IN  /\ OnlyMoves(i) /\ UNCHANGED importBegun
        /\ \/ Served(c) /\ Import!answered(c) /\ GoneOn(i, op) /\ UNCHANGED importLate
           \/ Served(c) /\ GivenUp(i) /\ UNCHANGED importLate
           \/ GivenUp(i) /\ UNCHANGED <<importDay, imports, importLate>>
           \/ GivenUp(i) /\ UNCHANGED <<importDay, imports>> /\ importLate' = importLate \cup {c}

LEMMA CallsAreWelcome ==
    ASSUME ImportInv, NEW i \in Importers, NEW op \in {"begin", "append", "commit", "abort"}, Ready(i, op)
    PROVE  /\ Welcome(Import!Call(i, op)) /\ Busy(i)
           /\ Import!Call(i, op).op = op /\ Import!Call(i, op).id = importer[i].id
           /\ op = "append" => Import!Call(i, op).chunk = <<importer[i].id, Chunks[importer[i].sent + 1]>>
<1>1. /\ importer[i].id \in Import!Ids /\ importer[i].version = importer[i].id /\ Busy(i)
      /\ importer[i].pc = "append" => importer[i].sent \in 0 .. Len(Chunks)
  BY DEF ImportInv, ImportShape, Ready, Busy
<1> DEFINE c == Import!Call(i, op)
<1>2. /\ c.op = op /\ c.id = importer[i].id /\ c.version = importer[i].version
      /\ op = "append" => c.chunk = <<importer[i].version, Chunks[importer[i].sent + 1]>>
  BY DEF Import!Call
<1> HIDE DEF c
<1>3. op = "append" => c.chunk \in Pieces(c.id)
  <2> SUFFICES ASSUME op = "append" PROVE c.chunk \in Pieces(c.id)
    OBVIOUS
  <2>1. importer[i].sent + 1 \in 1 .. Len(Chunks)
    BY <1>1, ChunksCounted DEF Ready
  <2>2. c.chunk = <<c.id, Chunks[importer[i].sent + 1]>>
    BY <1>1, <1>2
  <2> QED
    BY <2>1, <2>2 DEF Pieces
<1>4. op = "commit" => Holds(imports, c.id, Len(Chunks))
  BY <1>2 DEF ImportInv, CommitsAreWhole, Ready
<1>5. Welcome(c)
  BY <1>1, <1>2, <1>3, <1>4 DEF Welcome
<1> QED
  BY <1>1, <1>2, <1>5 DEF c

LEMMA OutcomeSteps ==
    ASSUME ImportInv, NEW i \in Importers, NEW op \in {"begin", "append", "commit", "abort"},
           Ready(i, op), Outcome(i, op)
    PROVE  ImportInv'
<1> DEFINE c == Import!Call(i, op)
<1>1. /\ Welcome(c) /\ Busy(i) /\ c.op = op /\ c.id = importer[i].id
      /\ op = "append" => c.chunk = <<importer[i].id, Chunks[importer[i].sent + 1]>>
  BY CallsAreWelcome
<1>2. /\ OnlyMoves(i) /\ importBegun' = importBegun
      /\ \/ Served(c) /\ Import!answered(c) /\ GoneOn(i, op) /\ UNCHANGED importLate
         \/ Served(c) /\ GivenUp(i) /\ UNCHANGED importLate
         \/ GivenUp(i) /\ UNCHANGED <<importDay, imports, importLate>>
         \/ GivenUp(i) /\ UNCHANGED <<importDay, imports>> /\ importLate' = importLate \cup {c}
  BY DEF Outcome
<1> HIDE DEF c
<1>3. Served(c) \/ UNCHANGED <<importDay, imports>>
  BY <1>2
<1>4. ImportShape'
  <2>1. DOMAIN imports' = Import!Ids
    BY <1>3 DEF Served, ImportInv, ImportShape
  <2>2. GoneOn(i, op) \/ GivenUp(i)
    BY <1>2
  <2>3. importer'[i].pc \in {"idle", "append", "abort", "local"}
    BY <2>2 DEF GoneOn, GivenUp
  <2>4. Busy(i)' => importer'[i].id = importer[i].id /\ importer'[i].version = importer[i].version
    BY <2>2 DEF GoneOn, GivenUp, Busy
  <2>5. importer'[i].pc = "append" => importer'[i].sent \in 0 .. Len(Chunks)
    BY <2>2, ChunksCounted DEF GoneOn, GivenUp, Ready, ImportInv, ImportShape
  <2> QED
    BY <1>1, <1>2, <2>1, <2>3, <2>4, <2>5 DEF ImportInv, ImportShape, OnlyMoves, Busy
<1>5. /\ Busy(i)' => importer'[i].id = importer[i].id
      /\ importer'[i].pc # "begin"
      /\ \A j \in Importers : j # i => (Busy(j)' <=> Busy(j)) /\ importer'[j] = importer[j]
  <2>1. GoneOn(i, op) \/ GivenUp(i)
    BY <1>2
  <2> QED
    BY <1>2, <2>1 DEF GoneOn, GivenUp, OnlyMoves, Busy
<1>6. \A d \in importLate' : d \in importLate \/ d = c
  BY <1>2
<1>7. ImportOwners'
  BY <1>1, <1>5, <1>6 DEF ImportInv, ImportOwners, Busy
<1>8. LateCalls'
  <2>1. \A d \in importLate' : /\ d.id \in Import!Ids /\ d.id <= importBegun
                               /\ d.op \in {"begin", "append", "commit", "abort"}
                               /\ d.op = "begin" => d.version = d.id
                               /\ d.op = "append" => d.chunk \in Pieces(d.id)
    BY <1>1, <1>6 DEF ImportInv, ImportShape, LateCalls, Welcome
  <2>2. ASSUME NEW d \in importLate', d.op = "begin", NEW j \in Importers, Busy(j)'
        PROVE  importer'[j].id # d.id
    <3>1. CASE d \in importLate
      BY <1>1, <1>5, <2>2, <3>1 DEF ImportInv, LateCalls
    <3>2. CASE d \notin importLate
      <4>1. d = c /\ GivenUp(i) /\ importer[i].pc = "begin"
        BY <1>1, <1>2, <1>6, <2>2, <3>2 DEF Ready
      <4>2. j # i /\ Busy(j)
        BY <1>5, <2>2, <4>1 DEF GivenUp, Busy
      <4> QED
        BY <1>1, <1>5, <4>1, <4>2 DEF ImportInv, ImportOwners
    <3> QED
      BY <3>1, <3>2
  <2>3. ASSUME NEW d \in importLate', d.op = "begin", NEW e \in importLate', e.op = "commit"
        PROVE  e.id # d.id
    <3>1. CASE d \in importLate /\ e \in importLate
      BY <2>3, <3>1 DEF ImportInv, LateCalls
    <3>2. CASE d \in importLate /\ e = c
      BY <1>1, <2>3, <3>2 DEF ImportInv, LateCalls
    <3>3. CASE d = c /\ e \in importLate
      BY <1>1, <2>3, <3>3 DEF ImportInv, ImportOwners, Ready
    <3>4. ~(d = c /\ e = c)
      BY <2>3
    <3> QED
      BY <1>6, <3>1, <3>2, <3>3, <3>4
  <2> QED
    BY <1>2, <2>1, <2>2, <2>3 DEF LateCalls
<1>9. CommitsAreWhole'
  <2>1. Pure(imports)'
    BY <1>3 DEF ImportInv, CommitsAreWhole, Served, Pure, Found
  <2>2. \A id \in Import!Ids : id # c.id => \A n \in Nat : Holds(imports, id, n) => Holds(imports', id, n)
    BY <1>3 DEF Served, Holds, Found
  <2>3. op # "begin" => \A n \in Nat : Holds(imports, c.id, n) => Holds(imports', c.id, n)
    BY <1>1, <1>3 DEF Served, Holds, Found
  <2>4. ASSUME NEW j \in Importers, importer'[j].pc = "append"
        PROVE  Holds(imports', importer'[j].id, importer'[j].sent)
    <3>1. CASE j # i
      <4>1. importer'[j] = importer[j] /\ importer[j].id \in Import!Ids /\ importer[j].sent \in Nat
            /\ importer[j].id # c.id
        BY <1>1, <1>5, <2>4, <3>1, ChunksCounted DEF ImportInv, ImportShape, ImportOwners, Busy
      <4>2. Holds(imports, importer[j].id, importer[j].sent)
        BY <2>4, <4>1 DEF ImportInv, CommitsAreWhole
      <4> QED
        BY <2>2, <4>1, <4>2
    <3>2. CASE j = i
      <4>1. Served(c) /\ Import!answered(c) /\ GoneOn(i, op)
        BY <1>2, <2>4, <3>2 DEF GivenUp
      <4>2. CASE op = "begin"
        <5>1. importer'[i].sent = 0
          BY <4>1, <4>2 DEF GoneOn
        <5> QED
          BY <3>2, <5>1 DEF Holds
      <4>3. CASE op = "append"
        <5>1. importer'[i].sent = importer[i].sent + 1 /\ importer'[i].id = c.id
              /\ importer[i].sent \in Nat /\ importer[i].pc = "append"
          BY <1>1, <4>1, <4>3, ChunksCounted DEF GoneOn, Ready, ImportInv, ImportShape
        <5>2. Holds(imports, c.id, importer[i].sent)
          BY <1>1, <5>1 DEF ImportInv, CommitsAreWhole
        <5>3. Holds(imports', c.id, importer[i].sent)
          BY <2>3, <4>3, <5>1, <5>2
        <5>4. Found(imports', c.id) => <<c.id, Chunks[importer[i].sent + 1]>> \in Import!Range(imports'[c.id].chunks)
          BY <1>1, <4>1, <4>3 DEF Served
        <5>5. \A k \in 1 .. (importer[i].sent + 1) : k \in 1 .. importer[i].sent \/ k = importer[i].sent + 1
          BY <5>1
        <5>6. Holds(imports', c.id, importer[i].sent + 1)
          BY <5>3, <5>4, <5>5 DEF Holds
        <5> QED
          BY <3>2, <5>1, <5>6
      <4> QED
        BY <2>4, <3>2, <4>1, <4>2, <4>3 DEF GoneOn
    <3> QED
      BY <3>1, <3>2
  <2>5. ASSUME NEW d \in importLate', d.op = "commit"
        PROVE  Holds(imports', d.id, Len(Chunks))
    <3>1. CASE d \in importLate
      <4>1. Holds(imports, d.id, Len(Chunks)) /\ d.id \in Import!Ids
        BY <2>5, <3>1 DEF ImportInv, CommitsAreWhole, LateCalls
      <4>2. d.id = c.id => op # "begin"
        BY <1>1, <3>1 DEF ImportInv, ImportOwners, Ready
      <4> QED
        BY <2>2, <2>3, <4>1, <4>2, ChunksCounted
    <3>2. CASE d \notin importLate
      <4>1. d = c /\ UNCHANGED imports
        BY <1>2, <1>6, <3>2
      <4> QED
        BY <1>1, <2>5, <4>1 DEF Welcome
    <3> QED
      BY <3>1, <3>2
  <2> QED
    BY <2>1, <2>4, <2>5 DEF CommitsAreWhole
<1>10. Import!StoredDayIsWhole'
  BY <1>3 DEF ImportInv, Served, Import!StoredDayIsWhole
<1> QED
  BY <1>4, <1>7, <1>8, <1>9, <1>10 DEF ImportInv


Fields == {"pc", "id", "version", "sent"}

(* A process after it has moved on with the fields of r.                    *)
Moved(i, r) ==
    /\ OnlyMoves(i)
    /\ \A f \in Fields : importer'[i][f] = IF f \in DOMAIN r THEN r[f] ELSE importer[i][f]

LEMMA GotoMoves ==
    ASSUME ImportShape, NEW i \in Importers, NEW r, Import!Goto(i, r)
    PROVE  Moved(i, r)
<1>1. importer' = [importer EXCEPT ![i] =
                      [f \in DOMAIN importer[i] |-> IF f \in DOMAIN r THEN r[f] ELSE importer[i][f]]]
  BY DEF Import!Goto, Import!With
<1>2. DOMAIN importer = Importers /\ DOMAIN importer[i] = {"pc", "id", "version", "sent", "missing"}
  BY DEF ImportShape
<1> QED
  BY <1>1, <1>2 DEF Moved, OnlyMoves, Fields

LEMMA OutcomeOfCall ==
    ASSUME ImportInv, NEW i \in Importers, NEW op \in {"begin", "append", "commit", "abort"},
           Ready(i, op), NEW ok, NEW failed,
           Import!CallProcedure(i, Import!Call(i, op), ok, failed), importBegun' = importBegun,
           Moved(i, ok) => GoneOn(i, op), Moved(i, failed) => GivenUp(i)
    PROVE  Outcome(i, op)
<1> DEFINE c == Import!Call(i, op)
<1>1. Welcome(c) /\ ImportShape /\ DOMAIN imports = Import!Ids /\ Pure(imports) /\ Import!StoredDayIsWhole
  BY CallsAreWelcome DEF ImportInv, ImportShape, CommitsAreWhole
<1>2. /\ Import!CallProcedure(i, c, ok, failed)
      /\ \A r : Import!Goto(i, r) => Moved(i, r)
      /\ Import!Serve(c) => Served(c)
  BY <1>1, GotoMoves, CallsAreServed
<1> SUFFICES /\ OnlyMoves(i)
             /\ \/ Served(c) /\ Import!answered(c) /\ GoneOn(i, op) /\ UNCHANGED importLate
                \/ Served(c) /\ GivenUp(i) /\ UNCHANGED importLate
                \/ GivenUp(i) /\ UNCHANGED <<importDay, imports, importLate>>
                \/ GivenUp(i) /\ UNCHANGED <<importDay, imports>> /\ importLate' = importLate \cup {c}
  BY DEF Outcome
<1> HIDE DEF c
<1>3. \A r : Moved(i, r) => OnlyMoves(i)
  BY DEF Moved
<1>4. CASE Import!Goto(i, failed) /\ UNCHANGED <<importDay, imports, importLate>>
  BY <1>2, <1>3, <1>4
<1>5. CASE /\ importer' = [importer EXCEPT ![i] =
                            Import!With([missing |-> @.missing \cup {c.op}], Import!With(failed, @))]
           /\ UNCHANGED <<importDay, imports, importLate>>
  <2> DEFINE next == Import!With(failed, importer[i])
  <2> DEFINE moved == Import!With([missing |-> importer[i].missing \cup {c.op}], next)
  <2>1. importer' = [importer EXCEPT ![i] = moved]
    BY <1>5
  <2>2. DOMAIN importer = Importers /\ DOMAIN importer[i] = {"pc", "id", "version", "sent", "missing"}
    BY <1>1 DEF ImportShape
  <2>3. /\ DOMAIN next = {"pc", "id", "version", "sent", "missing"}
        /\ \A f \in Fields : next[f] = IF f \in DOMAIN failed THEN failed[f] ELSE importer[i][f]
    BY <2>2 DEF Import!With, Fields
  <2> HIDE DEF next
  <2>4. DOMAIN moved = {"pc", "id", "version", "sent", "missing"} /\ \A f \in Fields : moved[f] = next[f]
    BY <2>3 DEF Import!With, Fields
  <2> HIDE DEF moved
  <2>5. Moved(i, failed)
    BY <2>1, <2>2, <2>3, <2>4 DEF Moved, OnlyMoves, Fields
  <2> QED
    BY <1>3, <1>5, <2>5
<1>6. CASE Import!Serve(c) /\ Import!Goto(i, IF Import!answered(c) THEN ok ELSE failed) /\ UNCHANGED importLate
  <2>1. CASE Import!answered(c)
    BY <1>2, <1>3, <1>6, <2>1
  <2>2. CASE ~Import!answered(c)
    BY <1>2, <1>3, <1>6, <2>2
  <2> QED
    BY <2>1, <2>2
<1>7. CASE Import!Serve(c) /\ Import!Goto(i, failed) /\ UNCHANGED importLate
  BY <1>2, <1>3, <1>7
<1>8. CASE importLate' = importLate \cup {c} /\ Import!Goto(i, failed) /\ UNCHANGED <<importDay, imports>>
  BY <1>2, <1>3, <1>8
<1> QED
  BY <1>2, <1>4, <1>5, <1>6, <1>7, <1>8, Zenon DEF Import!CallProcedure

(* Every call the client makes has such an outcome.                         *)
LEMMA CallsSucceedOrEnd ==
    ASSUME ImportInv, NEW i \in Importers,
           Import!BeginImport(i) \/ Import!AppendChunk(i) \/ Import!CommitImport(i) \/ Import!AbortImport(i)
    PROVE  ImportInv'
<1>0. importer[i].pc = "begin" => importer[i].sent = 0
  BY DEF ImportInv, ImportShape
<1>1. CASE Import!BeginImport(i)
  <2>1. Ready(i, "begin")
    BY <1>1 DEF Ready, Import!BeginImport, Import!At
  <2>2. Import!CallProcedure(i, Import!Call(i, "begin"), [pc |-> "append"], Import!resting)
        /\ importBegun' = importBegun
    BY <1>1 DEF Import!BeginImport
  <2>3. Moved(i, [pc |-> "append"]) => GoneOn(i, "begin")
    BY <1>0, <2>1 DEF Moved, GoneOn, Fields, Ready
  <2>4. Moved(i, Import!resting) => GivenUp(i)
    BY DEF Moved, GivenUp, Fields, Import!resting
  <2> QED
    BY <2>1, <2>2, <2>3, <2>4, OutcomeOfCall, OutcomeSteps
<1>2. CASE Import!AppendChunk(i)
  <2>1. Ready(i, "append")
    BY <1>2 DEF Ready, Import!AppendChunk, Import!At
  <2>2. Import!CallProcedure(i, Import!Call(i, "append"), [sent |-> importer[i].sent + 1], [pc |-> "abort"])
        /\ importBegun' = importBegun
    BY <1>2 DEF Import!AppendChunk
  <2>3. Moved(i, [sent |-> importer[i].sent + 1]) => GoneOn(i, "append")
    BY <2>1 DEF Moved, GoneOn, Fields, Ready
  <2>4. Moved(i, [pc |-> "abort"]) => GivenUp(i)
    BY <2>1 DEF Moved, GivenUp, Fields, Ready
  <2> QED
    BY <2>1, <2>2, <2>3, <2>4, OutcomeOfCall, OutcomeSteps
<1>3. CASE Import!CommitImport(i)
  <2>1. Ready(i, "commit")
    BY <1>3 DEF Ready, Import!CommitImport, Import!At
  <2>2. Import!CallProcedure(i, Import!Call(i, "commit"), [pc |-> "local"], [pc |-> "abort"])
        /\ importBegun' = importBegun
    BY <1>3 DEF Import!CommitImport
  <2>3. Moved(i, [pc |-> "local"]) => GoneOn(i, "commit")
    BY DEF Moved, GoneOn, Fields
  <2>4. Moved(i, [pc |-> "abort"]) => GivenUp(i)
    BY <2>1 DEF Moved, GivenUp, Fields, Ready
  <2> QED
    BY <2>1, <2>2, <2>3, <2>4, OutcomeOfCall, OutcomeSteps
<1>4. CASE Import!AbortImport(i)
  <2>1. Ready(i, "abort")
    BY <1>4 DEF Ready, Import!AbortImport, Import!At
  <2>2. Import!CallProcedure(i, Import!Call(i, "abort"), Import!resting, Import!resting)
        /\ importBegun' = importBegun
    BY <1>4 DEF Import!AbortImport
  <2>3. Moved(i, Import!resting) => GoneOn(i, "abort") /\ GivenUp(i)
    BY DEF Moved, GoneOn, GivenUp, Fields, Import!resting
  <2> QED
    BY <2>1, <2>2, <2>3, OutcomeOfCall, OutcomeSteps
<1> QED
  BY <1>1, <1>2, <1>3, <1>4

(* A call that lands late meets the rows as its client left them.           *)
LEMMA LateCallsLand ==
    ASSUME ImportInv, Import!LateCallLands
    PROVE  ImportInv'
<1>1. PICK c \in importLate : Import!Serve(c) /\ importLate' = importLate \ {c}
                              /\ UNCHANGED <<importer, outdated, local, importBegun>>
  BY DEF Import!LateCallLands
<1>2. Welcome(c)
  BY DEF Welcome, ImportInv, LateCalls, CommitsAreWhole
<1>3. Served(c)
  BY <1>1, <1>2, CallsAreServed DEF ImportInv, ImportShape, CommitsAreWhole
<1>4. ImportShape' /\ ImportOwners' /\ LateCalls' /\ Import!StoredDayIsWhole'
  BY <1>1, <1>3 DEF Served, ImportInv, ImportShape, ImportOwners, LateCalls, Busy
<1>5. \A id \in Import!Ids : id # c.id \/ c.op # "begin" =>
          \A n \in Nat : Holds(imports, id, n) => Holds(imports', id, n)
  BY <1>2, <1>3 DEF Served, Holds, Found
<1>6. ASSUME NEW i \in Importers, importer[i].pc = "append"
      PROVE  Holds(imports', importer[i].id, importer[i].sent)
  <2>1. /\ importer[i].id \in Import!Ids /\ importer[i].sent \in Nat /\ Busy(i)
        /\ Holds(imports, importer[i].id, importer[i].sent)
    BY <1>6, ChunksCounted DEF ImportInv, ImportShape, CommitsAreWhole, Busy
  <2>2. importer[i].id # c.id \/ c.op # "begin"
    BY <2>1 DEF ImportInv, LateCalls
  <2> QED
    BY <1>5, <2>1, <2>2
<1>7. ASSUME NEW d \in importLate, d.op = "commit"
      PROVE  Holds(imports', d.id, Len(Chunks))
  <2>1. d.id \in Import!Ids /\ Holds(imports, d.id, Len(Chunks))
    BY <1>7 DEF ImportInv, LateCalls, CommitsAreWhole
  <2>2. d.id # c.id \/ c.op # "begin"
    BY <1>7 DEF ImportInv, LateCalls
  <2> QED
    BY <1>5, <2>1, <2>2, ChunksCounted
<1>8. CommitsAreWhole'
  BY <1>1, <1>3, <1>6, <1>7 DEF CommitsAreWhole, Served
<1> QED
  BY <1>4, <1>8 DEF ImportInv

(* Rows that are deleted take their header with them.                       *)
LEMMA RowsGo ==
    ASSUME ImportInv, Import!DeleteDay \/ Import!CleanupRows
    PROVE  ImportInv'
<1>1. /\ DOMAIN imports' = Import!Ids /\ UNCHANGED <<importer, importLate, outdated, local, importBegun>>
      /\ \A id \in Import!Ids : imports'[id] = imports[id] \/ ~Found(imports', id)
      /\ importDay' = importDay \/ importDay' = None
  <2>1. CASE Import!DeleteDay
    BY <2>1 DEF Import!DeleteDay, Found
  <2>2. CASE Import!CleanupRows
    <3>1. PICK id \in Import!Ids :
              /\ Import!found(id)
              /\ \E n \in 0..Len(Import!rowsForImport(id)) :
                     imports' = [imports EXCEPT ![id] =
                         [version |-> @.version, header |-> FALSE, chunks |-> SubSeq(@.chunks, n + 1, Len(@.chunks))]]
              /\ UNCHANGED <<importDay, importer, importLate, outdated, local, importBegun>>
      BY <2>2 DEF Import!CleanupRows
    <3>2. PICK n \in 0..Len(Import!rowsForImport(id)) :
              imports' = [imports EXCEPT ![id] =
                  [version |-> @.version, header |-> FALSE, chunks |-> SubSeq(@.chunks, n + 1, Len(@.chunks))]]
      BY <3>1
    <3>3. \A other \in Import!Ids : other # id => imports'[other] = imports[other]
      BY <3>2
    <3>4. DOMAIN imports' = Import!Ids
      BY <3>2 DEF ImportInv, ImportShape
    <3>5. ~imports'[id].header
      BY <3>2 DEF ImportInv, ImportShape
    <3> QED
      BY <3>1, <3>3, <3>4, <3>5 DEF Found
  <2> QED
    BY <2>1, <2>2
<1>2. ImportShape' /\ ImportOwners' /\ LateCalls' /\ Import!StoredDayIsWhole'
  BY <1>1 DEF ImportInv, ImportShape, ImportOwners, LateCalls, Busy, Import!StoredDayIsWhole
<1>3. Pure(imports')
  BY <1>1 DEF Pure, Found, ImportInv, CommitsAreWhole
<1>4. \A id \in Import!Ids : \A n \in Nat : Holds(imports, id, n) => Holds(imports', id, n)
  BY <1>1 DEF Holds, Found
<1>5. CommitsAreWhole'
  <2>1. ASSUME NEW i \in Importers, importer[i].pc = "append"
        PROVE  Holds(imports', importer[i].id, importer[i].sent)
    BY <1>4, <2>1, ChunksCounted DEF ImportInv, ImportShape, CommitsAreWhole, Busy
  <2>2. ASSUME NEW d \in importLate, d.op = "commit"
        PROVE  Holds(imports', d.id, Len(Chunks))
    BY <1>4, <2>2, ChunksCounted DEF ImportInv, LateCalls, CommitsAreWhole
  <2> QED
    BY <1>1, <1>3, <2>1, <2>2 DEF CommitsAreWhole
<1> QED
  BY <1>2, <1>5 DEF ImportInv

(* A process that starts, begins under a new id, or stops.                  *)
LEMMA ProcessesMove ==
    ASSUME ImportInv, NEW i \in Importers,
           \/ Import!syncAt(i) \/ Import!ServiceReplaceSchedule(i)
           \/ Import!ImportLocally(i) \/ Import!Restart(i)
    PROVE  ImportInv'
<1>1. /\ OnlyMoves(i) /\ UNCHANGED <<importDay, imports, importLate>>
      /\ \/ importer'[i].pc \in {"idle", "replace"} /\ UNCHANGED importBegun
         \/ /\ importBegun < MaxImports /\ importBegun' = importBegun + 1
            /\ importer'[i].pc = "begin" /\ importer'[i].id = importBegun'
            /\ importer'[i].version = importBegun' /\ importer'[i].sent = 0
  <2>0. ImportShape /\ DOMAIN importer = Importers
    BY DEF ImportInv, ImportShape
  <2>1. CASE Import!syncAt(i)
    <3>1. Moved(i, [pc |-> "replace"])
      BY <2>0, <2>1, GotoMoves DEF Import!syncAt
    <3> QED
      BY <2>1, <3>1 DEF Import!syncAt, Moved, Fields
  <2>2. CASE Import!ServiceReplaceSchedule(i)
    <3>1. Moved(i, [pc |-> "begin", id |-> importBegun + 1, version |-> importBegun', sent |-> 0])
      BY <2>0, <2>2, GotoMoves DEF Import!ServiceReplaceSchedule, Import!newImportID
    <3> QED
      BY <2>2, <3>1 DEF Import!ServiceReplaceSchedule, Moved, Fields
  <2>3. CASE Import!ImportLocally(i)
    <3>1. Moved(i, Import!resting)
      BY <2>0, <2>3, GotoMoves DEF Import!ImportLocally
    <3> QED
      BY <2>3, <3>1 DEF Import!ImportLocally, Import!resting, Moved, Fields
  <2>4. CASE Import!Restart(i)
    <3>1. importer' = [importer EXCEPT ![i] = Import!newImporter]
          /\ UNCHANGED <<importDay, imports, importLate, outdated, local, importBegun>>
      BY <2>4 DEF Import!Restart
    <3> QED
      BY <2>0, <3>1 DEF Import!newImporter, OnlyMoves
  <2> QED
    BY <2>1, <2>2, <2>3, <2>4
<1>2. importBegun \in Nat /\ importBegun' \in Nat /\ importBegun <= importBegun'
  BY <1>1 DEF ImportInv, ImportShape
<1>3. Busy(i)' => importer'[i].id = importBegun + 1 /\ importBegun' = importBegun + 1
                  /\ importer'[i].pc = "begin" /\ importer'[i].id \in Import!Ids
                  /\ importer'[i].version = importer'[i].id /\ importer'[i].sent = 0
  BY <1>1, <1>2, ImportAssumption DEF Busy, Import!Ids
<1>4. \A j \in Importers : j # i => importer'[j] = importer[j] /\ (Busy(j)' <=> Busy(j))
  BY <1>1 DEF OnlyMoves, Busy
<1>5. importer'[i].pc \in {"idle", "replace", "begin"} /\ (importer'[i].pc = "begin" => Busy(i)')
  BY <1>1 DEF Busy
<1>6. ImportShape'
  <2>1. ASSUME NEW j \in Importers
        PROVE  /\ DOMAIN importer'[j] = {"pc", "id", "version", "sent", "missing"}
               /\ importer'[j].pc \in {"idle", "replace", "begin", "append", "abort", "local"}
               /\ Busy(j)' => importer'[j].id \in Import!Ids /\ importer'[j].id <= importBegun'
                              /\ importer'[j].version = importer'[j].id
               /\ importer'[j].pc = "begin" => importer'[j].sent = 0
               /\ importer'[j].pc = "append" => importer'[j].sent \in 0 .. Len(Chunks)
    <3>1. CASE j = i
      BY <1>1, <1>2, <1>3, <1>5, <3>1 DEF OnlyMoves
    <3>2. CASE j # i
      <4>1. importer'[j] = importer[j] /\ (Busy(j)' <=> Busy(j))
        BY <1>4, <3>2
      <4>2. Busy(j) => importer[j].id \in Nat /\ importer[j].id <= importBegun
        BY ImportAssumption DEF ImportInv, ImportShape, Import!Ids
      <4> QED
        BY <1>2, <4>1, <4>2 DEF ImportInv, ImportShape
    <3> QED
      BY <3>1, <3>2
  <2> QED
    BY <1>1, <1>2, <2>1 DEF ImportInv, ImportShape, OnlyMoves, Busy
<1>7. \A j \in Importers : Busy(j) => importer[j].id # importBegun + 1
  BY <1>2, ImportAssumption DEF ImportInv, ImportShape, Import!Ids
<1>8. \A c \in importLate : c.id # importBegun + 1 /\ c.id <= importBegun'
  BY <1>2, ImportAssumption DEF ImportInv, LateCalls, Import!Ids
<1>9. ImportOwners'
  <2>1. ASSUME NEW j \in Importers, NEW k \in Importers, Busy(j)', Busy(k)',
               importer'[j].id = importer'[k].id
        PROVE  j = k
    BY <1>3, <1>4, <1>7, <2>1 DEF ImportInv, ImportOwners
  <2>2. ASSUME NEW j \in Importers, importer'[j].pc = "begin", NEW c \in importLate
        PROVE  c.id # importer'[j].id
    BY <1>3, <1>4, <1>5, <1>8, <2>2 DEF ImportInv, ImportOwners
  <2> QED
    BY <1>1, <2>1, <2>2 DEF ImportOwners, Busy
<1>10. LateCalls'
  <2>1. ASSUME NEW c \in importLate, c.op = "begin", NEW j \in Importers, Busy(j)'
        PROVE  importer'[j].id # c.id
    BY <1>3, <1>4, <1>8, <2>1 DEF ImportInv, LateCalls
  <2> QED
    BY <1>1, <1>8, <2>1 DEF ImportInv, LateCalls, Busy
<1>11. CommitsAreWhole' /\ Import!StoredDayIsWhole'
  BY <1>1, <1>4, <1>5 DEF ImportInv, CommitsAreWhole, Import!StoredDayIsWhole
<1> QED
  BY <1>6, <1>9, <1>10, <1>11 DEF ImportInv

LEMMA ImportSteps ==
    ASSUME ImportInv, Import!Next
    PROVE  ImportInv'
<1>1. CASE Import!Republish
  BY <1>1 DEF Import!Republish, ImportInv, ImportShape, ImportOwners, LateCalls, CommitsAreWhole, Busy,
              Import!StoredDayIsWhole
<1> QED
  BY <1>1, CallsSucceedOrEnd, LateCallsLand, RowsGo, ProcessesMove DEF Import!Next

(* The day the bot's database serves is at every moment all the chunks of   *)
(* one import and no other's, whatever calls fail or land late, however the *)
(* bot and the tool import at once, and wherever one of them stops          *)
(* (serviceReplaceSchedule, commitServiceDayImport).                        *)
THEOREM ImportsAreAtomic == TrainSpec => []StoredDayIsWhole
<1> DEFINE Inv == Imported => ImportInv
<1>1. TrainInit => Inv
  BY ImportStarts DEF TrainInit, Scraped, Imported, Queried, Scheduled, Bundled, Paged, Alerted, Reported, Chatted, LoggedIn
<1>2. Inv /\ [TrainNext]_TrainVars => Inv'
  <2> SUFFICES ASSUME Inv, [TrainNext]_TrainVars, Imported'
               PROVE  ImportInv'
    OBVIOUS
  <2>1. Imported /\ ImportInv /\ (UNCHANGED importVars \/ Import!Next)
    BY DEF TrainNext, TrainVars, Scraped, Imported, Queried, Scheduled, Bundled, Paged, Alerted, Reported, Chatted, LoggedIn
  <2>2. CASE UNCHANGED importVars
    BY <2>1, <2>2 DEF importVars, ImportInv, ImportShape, ImportOwners, LateCalls, CommitsAreWhole, Busy,
                      Import!StoredDayIsWhole
  <2>3. CASE Import!Next
    BY <2>1, <2>3, ImportSteps
  <2> QED
    BY <2>1, <2>2, <2>3
<1>3. Inv => StoredDayIsWhole
  BY DEF ImportInv, StoredDayIsWhole, Import!StoredDayIsWhole
<1> QED
  BY <1>1, <1>2, <1>3, PTL DEF TrainSpec
(***************************************************************************)
(* The dispatch of an alert.                                                *)
(***************************************************************************)

Asking == {"riders", "corridor", "favorites", "route", "nearby", "station"}

(* A list of those who were heard of, without the reporter: one entry a     *)
(* rider, the strongest; ...                                                *)
Fair(list, heard, reporter) ==
    /\ \A a \in heard : a.user \in Riders /\ a.priority \in Nat
    /\ \A r \in list : r \in heard /\ r.user # reporter
    /\ \A r, q \in list : r.user = q.user => r = q
    /\ \A r \in list, a \in heard : a.user = r.user => r.priority <= a.priority

(* ... and it has all of them.                                              *)
Covers(list, heard, reporter) ==
    \A a \in heard : a.user = reporter \/ \E r \in list : r.user = a.user

AlertShape ==
    /\ reports \in Nat /\ alerted \in [Riders -> Nat]
    /\ DOMAIN work = Alerts!Procs
    /\ \A p \in Alerts!Procs :
        /\ DOMAIN work[p] = {"pc", "user", "kind", "arg", "copy", "at", "recipients", "read", "asked"}
        /\ work[p].pc \in {"idle", "read", "put", "send"} \cup Asking
        /\ work[p].pc \in {"idle", "read", "put"} => work[p].recipients = {} /\ work[p].read = {}

ListsAreFair ==
    \A p \in Alerts!Procs :
        /\ Fair(work[p].recipients, work[p].read, work[p].user)
        /\ work[p].pc # "send" => Covers(work[p].recipients, work[p].read, work[p].user)

(* The message a rider may still get from the dispatch under way.            *)
Due(u, p) ==
    IF work[p].pc \in Asking \/ (work[p].pc = "send" /\ \E r \in work[p].recipients : r.user = u)
    THEN 1 ELSE 0

AlertInv ==
    /\ AlertShape /\ ListsAreFair
    /\ \A u \in Riders : alerted[u] + Due(u, "bot") + Due(u, "web") <= reports

LEMMA AlertsStart == Alerts!Init => AlertInv
<1> SUFFICES ASSUME Alerts!Init PROVE AlertInv
  OBVIOUS
<1>1. /\ reports = 0 /\ alerted = [u \in Riders |-> 0]
      /\ work = [p \in Alerts!Procs |-> Alerts!Nobody]
  BY DEF Alerts!Init
<1>2. \A p \in Alerts!Procs :
          /\ DOMAIN work[p] = {"pc", "user", "kind", "arg", "copy", "at", "recipients", "read", "asked"}
          /\ work[p].pc = "idle" /\ work[p].recipients = {} /\ work[p].read = {}
  BY <1>1 DEF Alerts!Nobody
<1>3. \A u \in Riders : Due(u, "bot") = 0 /\ Due(u, "web") = 0
  BY <1>2 DEF Due, Asking, Alerts!Procs
<1> QED
  BY <1>1, <1>2, <1>3 DEF AlertInv, AlertShape, ListsAreFair, Fair, Covers

(* The answer to one question, in which each rider is once, keeps the list  *)
(* fair: the stronger of two reasons stays (addRecipient).                  *)
LEMMA AddedIsFair ==
    ASSUME NEW w, Fair(w.recipients, w.read, w.user), Covers(w.recipients, w.read, w.user),
           NEW audiences,
           \A a \in audiences : a.user \in Riders /\ a.priority \in Nat,
           \A a, b \in audiences : a.user = b.user => a = b
    PROVE  /\ Fair(Alerts!Added(w, audiences), w.read \cup audiences, w.user)
           /\ Covers(Alerts!Added(w, audiences), w.read \cup audiences, w.user)
<1> DEFINE Mine(a) == {r \in w.recipients : r.user = a.user}
           Kept(a) == Alerts!addRecipient(Mine(a), w.user, a)
           list == Alerts!Added(w, audiences)
<1>1. \A x : x \in list <=> ((\E a \in audiences : x \in Kept(a))
                            \/ (x \in w.recipients /\ \A a \in audiences : a.user # x.user))
  <2> HIDE DEF Kept
  <2> DEFINE met == UNION {Kept(a) : a \in audiences}
             others == {r \in w.recipients : r.user \notin {a.user : a \in audiences}}
  <2>1. list = met \cup others
    BY DEF Alerts!Added, Kept
  <2>2. \A x : x \in met <=> \E a \in audiences : x \in Kept(a)
    OBVIOUS
  <2>3. \A x : x \in others <=> (x \in w.recipients /\ \A a \in audiences : a.user # x.user)
    OBVIOUS
  <2> HIDE DEF list, met, others
  <2> QED
    BY <2>1, <2>2, <2>3
<1>2. ASSUME NEW a \in audiences, NEW x \in Kept(a)
      PROVE  /\ x.user = a.user /\ x.user # w.user /\ x.priority <= a.priority
             /\ x \in w.recipients \/ (x = a /\ \A r \in w.recipients : r.user = a.user => a.priority <= r.priority)
  <2>1. CASE a.user = w.user \/ \E r \in Mine(a) : r.user = a.user /\ r.priority <= a.priority
    <3>1. Kept(a) = Mine(a)
      BY <2>1 DEF Alerts!addRecipient
    <3> QED
      BY <1>2, <2>1, <3>1 DEF Fair
  <2>2. CASE ~(a.user = w.user \/ \E r \in Mine(a) : r.user = a.user /\ r.priority <= a.priority)
    <3>1. Kept(a) = {r \in Mine(a) : r.user # a.user} \cup {a}
      BY <2>2 DEF Alerts!addRecipient
    <3>2. x = a
      BY <1>2, <3>1
    <3>3. \A r \in w.recipients : r.priority \in Nat
      BY DEF Fair
    <3> QED
      BY <2>2, <3>2, <3>3
  <2> QED
    BY <2>1, <2>2
<1>3. \A a \in audiences : a.user # w.user => \E x \in Kept(a) : x.user = a.user
  BY DEF Alerts!addRecipient
<1> HIDE DEF Kept, list
<1>4. ASSUME NEW x \in list
      PROVE  \/ \E a \in audiences : x \in Kept(a)
             \/ x \in w.recipients /\ \A a \in audiences : a.user # x.user
  BY <1>1, <1>4
<1>5. ASSUME NEW x \in list
      PROVE  /\ x.user # w.user /\ x \in w.read \cup audiences
             /\ \A a \in w.read \cup audiences : a.user = x.user => x.priority <= a.priority
  <2>1. CASE \E a \in audiences : x \in Kept(a)
    <3>1. PICK a \in audiences : x \in Kept(a)
      BY <2>1
    <3>2. /\ x.user = a.user /\ x.user # w.user /\ x.priority <= a.priority
          /\ x \in w.recipients \/ (x = a /\ \A r \in w.recipients : r.user = a.user => a.priority <= r.priority)
      BY <1>2, <3>1
    <3>3. \A b \in audiences : b.user = x.user => x.priority <= b.priority
      BY <3>2
    <3>4. ASSUME NEW b \in w.read, b.user = x.user PROVE x.priority <= b.priority
      <4>1. CASE x \in w.recipients
        BY <3>4, <4>1 DEF Fair
      <4>2. CASE x = a /\ \A r \in w.recipients : r.user = a.user => a.priority <= r.priority
        <5>1. PICK r \in w.recipients : r.user = b.user
          BY <3>2, <3>4 DEF Covers
        <5>2. r.priority <= b.priority /\ r.priority \in Nat /\ b.priority \in Nat /\ a.priority \in Nat
          BY <3>4, <5>1 DEF Fair
        <5> QED
          BY <3>4, <4>2, <5>1, <5>2
      <4> QED
        BY <3>2, <4>1, <4>2
    <3> QED
      BY <3>2, <3>3, <3>4 DEF Fair
  <2>2. CASE x \in w.recipients /\ \A a \in audiences : a.user # x.user
    BY <2>2 DEF Fair
  <2> QED
    BY <1>4, <1>5, <2>1, <2>2
<1>6. ASSUME NEW x \in list, NEW y \in list, x.user = y.user PROVE x = y
  <2>1. CASE \E a \in audiences : x \in Kept(a)
    <3>1. PICK a \in audiences : x \in Kept(a)
      BY <2>1
    <3>2. PICK b \in audiences : y \in Kept(b)
      BY <1>2, <1>4, <1>6, <3>1
    <3>3. a = b
      BY <1>2, <1>6, <3>1, <3>2
    <3>4. CASE x \in w.recipients /\ y \in w.recipients
      BY <1>6, <3>4 DEF Fair
    <3>5. CASE x = a /\ y = a
      BY <3>5
    <3>6. CASE {x, y} = {a} \/ (x # y /\ Kept(a) = {r \in w.recipients : r.user = a.user})
      BY <1>6, <3>1, <3>2, <3>3, <3>6 DEF Fair
    <3>7. Kept(a) = {r \in w.recipients : r.user = a.user} \/ Kept(a) = {a}
      BY DEF Kept, Alerts!addRecipient
    <3> QED
      BY <3>1, <3>2, <3>3, <3>4, <3>5, <3>6, <3>7
  <2>2. CASE x \in w.recipients /\ \A a \in audiences : a.user # x.user
    <3>1. y \in w.recipients
      BY <1>2, <1>4, <1>6, <2>2
    <3> QED
      BY <1>6, <2>2, <3>1 DEF Fair
  <2> QED
    BY <1>4, <1>6, <2>1, <2>2
<1>7. ASSUME NEW a \in w.read \cup audiences, a.user # w.user
      PROVE  \E r \in list : r.user = a.user
  <2>1. CASE a \in audiences
    BY <1>1, <1>3, <1>7, <2>1
  <2>2. CASE a \in w.read /\ \E b \in audiences : b.user = a.user
    BY <1>1, <1>3, <1>7, <2>2
  <2>3. CASE a \in w.read /\ \A b \in audiences : b.user # a.user
    <3>1. PICK r \in w.recipients : r.user = a.user
      BY <1>7, <2>3 DEF Covers
    <3> QED
      BY <1>1, <2>3, <3>1
  <2> QED
    BY <1>7, <2>1, <2>2, <2>3
<1>8. Fair(list, w.read \cup audiences, w.user)
  BY <1>5, <1>6 DEF Fair
<1>9. Covers(list, w.read \cup audiences, w.user)
  BY <1>7 DEF Covers
<1> QED
  BY <1>8, <1>9 DEF list

(* A dispatch hears of the riders of one store call, or goes on.            *)
Hears(p, audiences) ==
    /\ work'[p].recipients = Alerts!Added(work[p], audiences)
    /\ work'[p].read = work[p].read \cup audiences

Others(p) ==
    /\ DOMAIN work' = Alerts!Procs
    /\ DOMAIN work'[p] = {"pc", "user", "kind", "arg", "copy", "at", "recipients", "read", "asked"}
    /\ \A o \in Alerts!Procs : o # p => work'[o] = work[o]

(* One reason a rider, given by the same call.                              *)
OneReasonEach(audiences) ==
    /\ \A a \in audiences : a.user \in Riders /\ a.priority \in Nat
    /\ \A a, b \in audiences : a.user = b.user => a = b

LEMMA HeardIsHeard ==
    ASSUME AlertShape, NEW p \in Alerts!Procs, NEW audiences, NEW pc, Alerts!Heard(p, audiences, pc)
    PROVE  Others(p) /\ Hears(p, audiences) /\ work'[p].pc = pc /\ work'[p].user = work[p].user
BY DEF AlertShape, Alerts!Heard, Others, Hears

LEMMA AskIsHeard ==
    ASSUME AlertShape, NEW p \in Alerts!Procs, NEW audiences, NEW c, Alerts!Ask(p, c, audiences)
    PROVE  Others(p) /\ Hears(p, audiences) /\ work'[p].pc = work[p].pc /\ work'[p].user = work[p].user
BY DEF AlertShape, Alerts!Ask, Others, Hears

(* What keeps the invariant while a dispatch asks.                          *)
LEMMA HearingSteps ==
    ASSUME AlertInv, NEW p \in Alerts!Procs, NEW audiences, OneReasonEach(audiences),
           work[p].pc \in Asking, work'[p].pc \in Asking \cup {"send"},
           Others(p), Hears(p, audiences), work'[p].user = work[p].user,
           UNCHANGED <<alerted, reports>>
    PROVE  AlertInv'
<1>1. /\ Fair(work'[p].recipients, work'[p].read, work'[p].user)
      /\ Covers(work'[p].recipients, work'[p].read, work'[p].user)
  <2>1. Fair(work[p].recipients, work[p].read, work[p].user)
        /\ Covers(work[p].recipients, work[p].read, work[p].user)
    BY DEF AlertInv, ListsAreFair, Asking
  <2>2. /\ Fair(Alerts!Added(work[p], audiences), work[p].read \cup audiences, work[p].user)
        /\ Covers(Alerts!Added(work[p], audiences), work[p].read \cup audiences, work[p].user)
    BY <2>1, AddedIsFair DEF OneReasonEach
  <2> QED
    BY <2>2 DEF Hears
<1>2. AlertShape'
  BY DEF AlertInv, AlertShape, Others, Asking
<1>3. ListsAreFair'
  BY <1>1 DEF AlertInv, ListsAreFair, Others
<1>4. \A u \in Riders, o \in Alerts!Procs : Due(u, o)' <= Due(u, o)
  BY DEF Due, Others, Asking
<1>5. \A u \in Riders, o \in Alerts!Procs : Due(u, o) \in Nat /\ Due(u, o)' \in Nat
  BY DEF Due
<1>6. \A u \in Riders : alerted'[u] + Due(u, "bot")' + Due(u, "web")' <= reports'
  BY <1>4, <1>5 DEF AlertInv, AlertShape, Alerts!Procs
<1> QED
  BY <1>2, <1>3, <1>6 DEF AlertInv

LEMMA QuestionsAreHeard ==
    ASSUME AlertInv, NEW p \in Alerts!Procs,
           \/ Alerts!ExactRiders(p) \/ Alerts!CorridorRiders(p) \/ Alerts!FavoriteRiders(p)
           \/ Alerts!RouteRiders(p) \/ Alerts!NearbyRiders(p) \/ Alerts!StationRiders(p)
    PROVE  AlertInv'
<1>0. AlertShape
  BY DEF AlertInv
<1>1. CASE Alerts!ExactRiders(p)
  <2> DEFINE audiences == {Alerts!Audience(u, 0, work[p].arg.train) :
                              u \in Alerts!ListActiveCheckinUsers(work[p].arg.train, work[p].at)}
  <2>1. work[p].pc = "riders" /\ Alerts!Heard(p, audiences, "corridor") /\ UNCHANGED <<alerted, reports>>
    BY <1>1 DEF Alerts!ExactRiders
  <2>2. OneReasonEach(audiences)
    BY DEF OneReasonEach, Alerts!Audience, Alerts!ListActiveCheckinUsers
  <2> HIDE DEF audiences
  <2> QED
    BY <1>0, <2>1, <2>2, HeardIsHeard, HearingSteps DEF Asking
<1>2. CASE Alerts!FavoriteRiders(p)
  <2> DEFINE audiences == {Alerts!Audience(x[1], 4, None) : x \in
                              {f \in Alerts!ListAllFavoriteRoutes :
                                  Alerts!favoriteMatchesCorridor(f[2], Alerts!corridorOf(work[p]))}}
  <2>1. work[p].pc = "favorites" /\ Alerts!Heard(p, audiences, "route") /\ UNCHANGED <<alerted, reports>>
    BY <1>2 DEF Alerts!FavoriteRiders
  <2>2. OneReasonEach(audiences)
    <3>1. \A f \in Alerts!ListAllFavoriteRoutes : f[1] \in Riders
      BY DEF Alerts!ListAllFavoriteRoutes
    <3> QED
      BY <3>1 DEF OneReasonEach, Alerts!Audience
  <2> HIDE DEF audiences
  <2> QED
    BY <1>0, <2>1, <2>2, HeardIsHeard, HearingSteps DEF Asking
<1>3. CASE Alerts!RouteRiders(p)
  <2> DEFINE audiences == {Alerts!Audience(u, 3, None) : u \in
                              {x \in Alerts!ListActiveRouteCheckIns(work[p].at) :
                                  Alerts!routeCheckInMatchesStopSet(RideStopsOf[work[p].arg.train])}}
             next == IF work[p].kind = "ride" THEN "send" ELSE "station"
  <2>1. work[p].pc = "route" /\ Alerts!Heard(p, audiences, next) /\ UNCHANGED <<alerted, reports>>
    BY <1>3 DEF Alerts!RouteRiders
  <2>2. OneReasonEach(audiences)
    BY DEF OneReasonEach, Alerts!Audience, Alerts!ListActiveRouteCheckIns
  <2>3. next \in {"send", "station"}
    OBVIOUS
  <2> HIDE DEF audiences, next
  <2> QED
    BY <1>0, <2>1, <2>2, <2>3, HeardIsHeard, HearingSteps DEF Asking
<1>4. CASE Alerts!StationRiders(p)
  <2> DEFINE audiences == {Alerts!Audience(u, 3, None) : u \in
                              {x \in Alerts!ListActiveRouteCheckIns(work[p].at) :
                                  Alerts!routeCheckInContainsStation(work[p].arg.station)}}
  <2>1. work[p].pc = "station" /\ Alerts!Heard(p, audiences, "send") /\ UNCHANGED <<alerted, reports>>
    BY <1>4 DEF Alerts!StationRiders
  <2>2. OneReasonEach(audiences)
    BY DEF OneReasonEach, Alerts!Audience, Alerts!ListActiveRouteCheckIns
  <2> HIDE DEF audiences
  <2> QED
    BY <1>0, <2>1, <2>2, HeardIsHeard, HearingSteps DEF Asking
<1>5. ASSUME NEW pc \in Asking, work[p].pc \in Asking, work' = [work EXCEPT ![p].pc = pc],
             UNCHANGED <<alerted, reports>>
      PROVE  AlertInv'
  <2>1. /\ Others(p) /\ work'[p].pc = pc /\ work'[p].user = work[p].user
        /\ work'[p].recipients = work[p].recipients /\ work'[p].read = work[p].read
    BY <1>0, <1>5 DEF AlertShape, Others
  <2>2. Alerts!Added(work[p], {}) = work[p].recipients
    BY DEF Alerts!Added
  <2> QED
    BY <1>5, <2>1, <2>2, HearingSteps DEF Hears, OneReasonEach
<1>6. ASSUME NEW c, NEW n \in Nat, work[p].pc \in Asking, UNCHANGED <<alerted, reports>>,
             Alerts!Ask(p, c, {Alerts!Audience(u, n, c) : u \in Alerts!ListActiveCheckinUsers(c, work[p].at)})
      PROVE  AlertInv'
  <2> DEFINE audiences == {Alerts!Audience(u, n, c) : u \in Alerts!ListActiveCheckinUsers(c, work[p].at)}
  <2>1. OneReasonEach(audiences)
    BY DEF OneReasonEach, Alerts!Audience, Alerts!ListActiveCheckinUsers
  <2>2. Alerts!Ask(p, c, audiences)
    BY <1>6
  <2> HIDE DEF audiences
  <2> QED
    BY <1>0, <1>6, <2>1, <2>2, AskIsHeard, HearingSteps
<1>7. CASE Alerts!CorridorRiders(p)
  <2>1. /\ work[p].pc = "corridor" /\ UNCHANGED <<alerted, reports>>
        /\ \/ work' = [work EXCEPT ![p].pc = "favorites"]
           \/ \E c \in Alerts!corridorOf(work[p]) \ (work[p].asked \cup {work[p].arg.train}) :
                 Alerts!Ask(p, c, {Alerts!Audience(u, 2, c) : u \in Alerts!ListActiveCheckinUsers(c, work[p].at)})
    BY <1>7 DEF Alerts!CorridorRiders
  <2> QED
    BY <1>5, <1>6, <2>1 DEF Asking
<1>8. CASE Alerts!NearbyRiders(p)
  <2>1. /\ work[p].pc = "nearby" /\ UNCHANGED <<alerted, reports>>
        /\ \/ work' = [work EXCEPT ![p].pc = "station"]
           \/ \E c \in Alerts!loadNearbyStationTrains(work[p].arg.station) \ work[p].asked :
                 Alerts!Ask(p, c, {Alerts!Audience(u, 0, c) : u \in Alerts!ListActiveCheckinUsers(c, work[p].at)})
    BY <1>8 DEF Alerts!NearbyRiders
  <2> QED
    BY <1>5, <1>6, <2>1 DEF Asking
<1> QED
  BY <1>1, <1>2, <1>3, <1>4, <1>7, <1>8

(* A process that takes up or ends a dispatch, or handles a rider's row.     *)
LEMMA DispatchBegins ==
    ASSUME AlertInv, NEW p \in Alerts!Procs, Others(p), reports' = reports + 1, alerted' = alerted,
           work'[p].pc \in Asking, work'[p].recipients = {}, work'[p].read = {}, work[p].pc = "idle"
    PROVE  AlertInv'
<1>1. AlertShape'
  BY DEF AlertInv, AlertShape, Others, Asking
<1>2. ListsAreFair'
  BY DEF AlertInv, ListsAreFair, Others, Fair, Covers
<1>3. \A u \in Riders, o \in Alerts!Procs : o # p => Due(u, o)' = Due(u, o)
  BY DEF Due, Others
<1>4. \A u \in Riders : Due(u, p) = 0 /\ Due(u, p)' = 1
  BY DEF Due, Asking
<1>5. \A u \in Riders, o \in Alerts!Procs : Due(u, o) \in Nat /\ Due(u, o)' \in Nat
  BY DEF Due
<1>6. \A u \in Riders : alerted'[u] + Due(u, "bot")' + Due(u, "web")' <= reports'
  BY <1>3, <1>4, <1>5 DEF AlertInv, AlertShape, Alerts!Procs
<1> QED
  BY <1>1, <1>2, <1>6 DEF AlertInv

LEMMA NothingIsDue ==
    ASSUME AlertInv, NEW p \in Alerts!Procs, Others(p), UNCHANGED <<reports, alerted>>,
           work'[p].pc \in {"idle", "read", "put"}, work'[p].recipients = {}, work'[p].read = {}
    PROVE  AlertInv'
<1>1. AlertShape'
  BY DEF AlertInv, AlertShape, Others, Asking
<1>2. ListsAreFair'
  BY DEF AlertInv, ListsAreFair, Others, Fair, Covers
<1>3. \A u \in Riders, o \in Alerts!Procs : o # p => Due(u, o)' = Due(u, o)
  BY DEF Due, Others
<1>4. \A u \in Riders : Due(u, p)' = 0
  BY DEF Due, Asking
<1>5. \A u \in Riders, o \in Alerts!Procs : Due(u, o) \in Nat /\ Due(u, o)' \in Nat
  BY DEF Due
<1>6. \A u \in Riders : alerted'[u] + Due(u, "bot")' + Due(u, "web")' <= reports'
  BY <1>3, <1>4, <1>5 DEF AlertInv, AlertShape, Alerts!Procs
<1> QED
  BY <1>1, <1>2, <1>6 DEF AlertInv

LEMMA NothingToSend ==
    ASSUME AlertInv, UNCHANGED <<reports, alerted, work>>
    PROVE  AlertInv'
BY DEF AlertInv, AlertShape, ListsAreFair, Fair, Covers, Due

LEMMA Begins ==
    ASSUME AlertInv, NEW p \in Alerts!Procs, NEW u, NEW kind, NEW arg, Alerts!Begin(p, u, kind, arg),
           UNCHANGED <<reports, alerted>>
    PROVE  AlertInv'
<1>1. work' = [work EXCEPT ![p] = [Alerts!Nobody EXCEPT !.pc = "read", !.user = u, !.kind = kind,
                                                        !.arg = arg, !.at = alertHour]]
  BY DEF Alerts!Begin
<1>2. Others(p) /\ work'[p].pc = "read" /\ work'[p].recipients = {} /\ work'[p].read = {}
  BY <1>1 DEF AlertInv, AlertShape, Others, Alerts!Nobody
<1> QED
  BY <1>2, NothingIsDue

LEMMA WorkEnds ==
    ASSUME AlertInv, NEW p \in Alerts!Procs, work' = [work EXCEPT ![p] = Alerts!Nobody],
           UNCHANGED <<reports, alerted>>
    PROVE  AlertInv'
<1>1. Others(p) /\ work'[p].pc = "idle" /\ work'[p].recipients = {} /\ work'[p].read = {}
  BY DEF AlertInv, AlertShape, Others, Alerts!Nobody
<1> QED
  BY <1>1, NothingIsDue

LEMMA AlertIsSent ==
    ASSUME AlertInv, NEW p \in Alerts!Procs, Alerts!SendAlert(p)
    PROVE  AlertInv'
<1>1. PICK r \in work[p].recipients :
          /\ work' = [work EXCEPT ![p].recipients = @ \ {r}]
          /\ alerted' \in {alerted,
                 IF rider[r.user].alerts
                    /\ (r.context = None \/ ~Alerts!IsTrainMuted(r.user, r.context, work[p].at))
                 THEN [alerted EXCEPT ![r.user] = @ + 1] ELSE alerted}
  BY DEF Alerts!SendAlert
<1>2. work[p].pc = "send" /\ reports' = reports
  BY DEF Alerts!SendAlert
<1>3. /\ Others(p) /\ work'[p].pc = "send" /\ work'[p].recipients = work[p].recipients \ {r}
      /\ work'[p].read = work[p].read /\ work'[p].user = work[p].user
  BY <1>1, <1>2 DEF AlertInv, AlertShape, Others
<1>4. Fair(work[p].recipients, work[p].read, work[p].user) /\ r.user \in Riders
  BY <1>1 DEF AlertInv, ListsAreFair, Fair
<1>5. Fair(work'[p].recipients, work'[p].read, work'[p].user)
  BY <1>3, <1>4 DEF Fair
<1>6. ListsAreFair'
  BY <1>3, <1>5 DEF AlertInv, ListsAreFair, Others
<1>7. alerted' = alerted \/ alerted' = [alerted EXCEPT ![r.user] = @ + 1]
  BY <1>1
<1>8. AlertShape'
  BY <1>2, <1>3, <1>4, <1>7 DEF AlertInv, AlertShape, Others
<1>9. \A u \in Riders, o \in Alerts!Procs : Due(u, o) \in Nat /\ Due(u, o)' \in Nat /\ Due(u, o)' <= Due(u, o)
  BY <1>2, <1>3 DEF Due, Others, Asking
<1>10. Due(r.user, p) = 1 /\ Due(r.user, p)' = 0
  BY <1>1, <1>2, <1>3, <1>4 DEF Due, Fair, Asking
<1>11. \A u \in Riders : alerted'[u] = alerted[u] \/ (u = r.user /\ alerted'[u] = alerted[u] + 1)
  BY <1>4, <1>7 DEF AlertInv, AlertShape
<1>12. \A u \in Riders : alerted[u] \in Nat /\ alerted[u] + Due(u, "bot") + Due(u, "web") <= reports /\ reports \in Nat
  BY DEF AlertInv, AlertShape
<1>13. p = "bot" \/ p = "web"
  BY DEF Alerts!Procs
<1>14. ASSUME NEW u \in Riders
       PROVE  alerted'[u] + Due(u, "bot")' + Due(u, "web")' <= reports'
  <2>1. Due(u, "bot")' <= Due(u, "bot") /\ Due(u, "web")' <= Due(u, "web")
        /\ Due(u, "bot") \in Nat /\ Due(u, "web") \in Nat /\ Due(u, "bot")' \in Nat /\ Due(u, "web")' \in Nat
    BY <1>9 DEF Alerts!Procs
  <2>2. CASE u = r.user
    BY <1>2, <1>10, <1>11, <1>12, <1>13, <2>1, <2>2
  <2>3. CASE u # r.user
    BY <1>2, <1>11, <1>12, <2>1, <2>3
  <2> QED
    BY <2>2, <2>3
<1> QED
  BY <1>6, <1>8, <1>14 DEF AlertInv

LEMMA AlertSteps ==
    ASSUME AlertInv, Alerts!Next
    PROVE  AlertInv'
<1>0. AlertShape /\ {"bot", "web"} = Alerts!Procs
  BY DEF AlertInv, Alerts!Procs
<1>1. ASSUME NEW u \in Riders,
             \/ Alerts!handleCheckInCallback(u) \/ Alerts!handleFavoriteCallback(u) \/ Alerts!MuteForTrain(u)
             \/ Alerts!handleSettingsCallback(u) \/ Alerts!handleSettings(u) \/ Alerts!Checkout(u)
      PROVE  AlertInv'
  <2>1. /\ UNCHANGED <<reports, alerted>>
        /\ \E p \in {"bot", "web"} : \E v, kind, arg : Alerts!Begin(p, v, kind, arg)
    BY <1>1, Zenon DEF Alerts!handleCheckInCallback, Alerts!handleFavoriteCallback, Alerts!MuteForTrain,
              Alerts!handleSettingsCallback, Alerts!handleSettings, Alerts!Checkout
  <2> QED
    BY <1>0, <2>1, Begins
<1>2. ASSUME NEW u \in Riders, Alerts!UndoCheckout(u)
      PROVE  AlertInv'
  <2>1. UNCHANGED <<reports, alerted>> /\ (work' = work \/ Alerts!Begin("bot", u, "undo", undo[u]))
    BY <1>2, Zenon DEF Alerts!UndoCheckout
  <2> QED
    BY <1>0, <2>1, Begins, NothingToSend
<1>3. ASSUME NEW u \in Riders, NEW p \in Alerts!Procs,
             Alerts!StartRouteCheckIn(p, u) \/ Alerts!CheckoutRouteCheckIn(p, u)
      PROVE  AlertInv'
  BY <1>3, NothingToSend DEF Alerts!StartRouteCheckIn, Alerts!CheckoutRouteCheckIn
<1>4. ASSUME NEW u \in Riders, NEW p \in Alerts!Procs, Alerts!DispatchRideAlert(p, u)
      PROVE  AlertInv'
  <2>1. PICK t \in RideTrains :
            work' = [work EXCEPT ![p] = [Alerts!Nobody EXCEPT !.pc = "riders", !.user = u,
                          !.kind = "ride", !.arg = [train |-> t, station |-> None], !.at = alertHour]]
    BY <1>4 DEF Alerts!DispatchRideAlert
  <2>2. work[p].pc = "idle" /\ reports' = reports + 1 /\ alerted' = alerted
    BY <1>4 DEF Alerts!DispatchRideAlert
  <2>3. Others(p) /\ work'[p].pc = "riders" /\ work'[p].recipients = {} /\ work'[p].read = {}
    BY <1>0, <2>1 DEF AlertShape, Others, Alerts!Nobody
  <2> QED
    BY <2>2, <2>3, DispatchBegins DEF Asking
<1>5. ASSUME NEW u \in Riders, Alerts!DispatchStationSighting(u)
      PROVE  AlertInv'
  <2>1. PICK s \in SightingStations, t \in RideTrains \cup {None} :
            work' = [work EXCEPT !["web"] = [Alerts!Nobody EXCEPT
                          !.pc = IF t = None THEN "nearby" ELSE "riders", !.user = u,
                          !.kind = "sighting", !.arg = [train |-> t, station |-> s], !.at = alertHour]]
    BY <1>5 DEF Alerts!DispatchStationSighting
  <2>2. work["web"].pc = "idle" /\ reports' = reports + 1 /\ alerted' = alerted
    BY <1>5 DEF Alerts!DispatchStationSighting
  <2>3. Others("web") /\ work'["web"].pc \in {"nearby", "riders"}
        /\ work'["web"].recipients = {} /\ work'["web"].read = {}
    BY <1>0, <2>1 DEF AlertShape, Others, Alerts!Nobody
  <2> QED
    BY <1>0, <2>2, <2>3, DispatchBegins DEF Asking
<1>6. ASSUME NEW p \in Alerts!Procs, Alerts!ReadRider(p)
      PROVE  AlertInv'
  <2>1. work' = [work EXCEPT ![p].pc = "put", ![p].copy = rider[work[p].user]]
        /\ work[p].pc = "read" /\ UNCHANGED <<reports, alerted>>
    BY <1>6 DEF Alerts!ReadRider
  <2>2. Others(p) /\ work'[p].pc = "put" /\ work'[p].recipients = {} /\ work'[p].read = {}
    BY <1>0, <2>1 DEF AlertShape, Others
  <2> QED
    BY <2>1, <2>2, NothingIsDue
<1>7. ASSUME NEW p \in Alerts!Procs, Alerts!PutRider(p) \/ Alerts!EndDispatch(p)
      PROVE  AlertInv'
  <2>1. work' = [work EXCEPT ![p] = Alerts!Nobody] /\ UNCHANGED <<reports, alerted>>
    BY <1>7 DEF Alerts!PutRider, Alerts!EndDispatch
  <2> QED
    BY <2>1, WorkEnds
<1>8. CASE Alerts!CleanupUndo \/ Alerts!Clock
  BY <1>8, NothingToSend DEF Alerts!CleanupUndo, Alerts!Clock
<1>9. ASSUME NEW p \in Alerts!Procs,
             \/ Alerts!ExactRiders(p) \/ Alerts!CorridorRiders(p) \/ Alerts!FavoriteRiders(p)
             \/ Alerts!RouteRiders(p) \/ Alerts!NearbyRiders(p) \/ Alerts!StationRiders(p)
             \/ Alerts!SendAlert(p)
      PROVE  AlertInv'
  BY <1>9, QuestionsAreHeard, AlertIsSent
<1> QED
  BY <1>1, <1>2, <1>3, <1>4, <1>5, <1>6, <1>7, <1>8, <1>9 DEF Alerts!Next

(* While riders board, leave, mute and change their settings, a dispatch    *)
(* alerts each rider it heard of at most once, for the strongest reason it  *)
(* heard, and never the reporter (resolveRideAlertRecipients,               *)
(* resolveStationSightingRecipients).                                       *)
THEOREM AlertsAreFair == TrainSpec => []OneAlertPerRider
<1> DEFINE Inv == Alerted => AlertInv
<1>1. TrainInit => Inv
  BY AlertsStart DEF TrainInit, Scraped, Imported, Queried, Scheduled, Bundled, Paged, Alerted, Reported, Chatted, LoggedIn
<1>2. Inv /\ [TrainNext]_TrainVars => Inv'
  <2> SUFFICES ASSUME Inv, [TrainNext]_TrainVars, Alerted'
               PROVE  AlertInv'
    OBVIOUS
  <2>1. Alerted /\ AlertInv /\ (UNCHANGED rideVars \/ Alerts!Next)
    BY DEF TrainNext, TrainVars, Scraped, Imported, Queried, Scheduled, Bundled, Paged, Alerted, Reported, Chatted, LoggedIn
  <2>2. CASE UNCHANGED rideVars
    BY <2>1, <2>2, NothingToSend DEF rideVars
  <2>3. CASE Alerts!Next
    BY <2>1, <2>3, AlertSteps
  <2> QED
    BY <2>1, <2>2, <2>3
<1>3. Inv => OneAlertPerRider
  <2> SUFFICES ASSUME Inv, Alerted PROVE Alerts!OneAlertPerRider
    BY DEF OneAlertPerRider
  <2>1. \A u \in Riders : alerted[u] <= reports
    BY DEF AlertInv, AlertShape, Due
  <2>2. \A p \in Alerts!Procs :
            /\ Fair(work[p].recipients, work[p].read, work[p].user)
            /\ work[p].pc # "send" => Covers(work[p].recipients, work[p].read, work[p].user)
    BY DEF AlertInv, ListsAreFair
  <2> QED
    BY <2>1, <2>2 DEF Alerts!OneAlertPerRider, Fair, Covers
<1> QED
  BY <1>1, <1>2, <1>3, PTL DEF TrainSpec
(***************************************************************************)
(* The schedule that is served.                                             *)
(***************************************************************************)

LEMMA DaysFollow ==
    ASSUME NEW s \in Nat, NEW t \in Nat, s <= t
    PROVE  /\ Schedule!DayOf(s) \in Nat /\ Schedule!DayOf(t) \in Nat
           /\ Schedule!DayOf(s) <= Schedule!DayOf(t)
           /\ Schedule!DayOf(s) = Schedule!DayOf(t) => s % ScheduleDay <= t % ScheduleDay
           /\ s % ScheduleDay \in Nat /\ t % ScheduleDay \in Nat
<1>1. s \div ScheduleDay <= t \div ScheduleDay /\ s \div ScheduleDay \in Nat /\ t \div ScheduleDay \in Nat
  BY ScheduleAssumption
<1>2. s \div ScheduleDay = t \div ScheduleDay => s % ScheduleDay <= t % ScheduleDay
  BY ScheduleAssumption
<1>3. s % ScheduleDay \in Nat /\ t % ScheduleDay \in Nat
  BY ScheduleAssumption
<1> QED
  BY <1>1, <1>2, <1>3 DEF Schedule!DayOf

(* No request at t or later is answered from the day d.                     *)
Passed(d, t) ==
    /\ d < Schedule!DayOf(t)
    /\ d + 1 < Schedule!DayOf(t) \/ ~Schedule!BeforeCutoff(t)

ScheduleShape ==
    /\ time \in Nat /\ at \in Nat /\ at <= time
    /\ DOMAIN runner = {"attempt", "retry", "backoff", "cleaned"}
    /\ runner.backoff \in Nat
    /\ manager = Schedule!unavailable \/ \E d \in Nat : manager = Schedule!Loaded(d)

(* The day the manager holds keeps its trains until it is past, ...          *)
HeldDayIsKept ==
    manager.date # None => manager.date \in trains \/ Passed(manager.date, time)

(* ... and the runner knows when to try again.                              *)
RetryIsKnown ==
    /\ scheduleStep \in {"boot", "startup", "available"} => runner.attempt = None
    /\ scheduleStep \in {"idle", "cleanup", "daily"} /\ runner.attempt # None =>
           runner.retry \in Nat /\ runner.retry <= time + MaxBackoff

ScheduleInv == ScheduleShape /\ HeldDayIsKept /\ RetryIsKnown

LEMMA PastStaysPast ==
    ASSUME NEW s \in Nat, NEW t \in Nat, s <= t, NEW d \in Nat, Passed(d, s)
    PROVE  Passed(d, t)
<1>1. /\ Schedule!DayOf(s) \in Nat /\ Schedule!DayOf(t) \in Nat
      /\ Schedule!DayOf(s) <= Schedule!DayOf(t)
      /\ Schedule!DayOf(s) = Schedule!DayOf(t) => s % ScheduleDay <= t % ScheduleDay
      /\ s % ScheduleDay \in Nat /\ t % ScheduleDay \in Nat
  BY DaysFollow
<1>2. Cutoff \in Nat
  BY ScheduleAssumption
<1>3. CASE Schedule!DayOf(s) = Schedule!DayOf(t)
  <2>1. ~Schedule!BeforeCutoff(s) => ~Schedule!BeforeCutoff(t)
    <3> DEFINE x == s % ScheduleDay
               y == t % ScheduleDay
    <3>1. x <= y /\ x \in Nat /\ y \in Nat
      BY <1>1, <1>3
    <3>2. (Schedule!BeforeCutoff(s) <=> x < Cutoff) /\ (Schedule!BeforeCutoff(t) <=> y < Cutoff)
      BY DEF Schedule!BeforeCutoff
    <3> HIDE DEF x, y
    <3> QED
      BY <1>2, <3>1, <3>2
  <2> QED
    BY <1>3, <2>1 DEF Passed
<1>4. CASE Schedule!DayOf(s) < Schedule!DayOf(t)
  BY <1>1, <1>4 DEF Passed
<1> QED
  BY <1>1, <1>3, <1>4

LEMMA ScheduleStarts == Schedule!Init => ScheduleInv
<1> SUFFICES ASSUME Schedule!Init PROVE ScheduleInv
  OBVIOUS
<1>1. /\ time = 0 /\ at = 0 /\ scheduleStep = "down" /\ manager = Schedule!unavailable
      /\ runner = [attempt |-> None, retry |-> None, backoff |-> 0, cleaned |-> None]
  BY DEF Schedule!Init, Schedule!freshRunner
<1>2. manager.date = None
  BY <1>1 DEF Schedule!unavailable
<1> QED
  BY <1>1, <1>2 DEF ScheduleInv, ScheduleShape, HeldDayIsKept, RetryIsKnown

LEMMA ManagerIsPlain ==
    ASSUME ScheduleShape
    PROVE  /\ manager.date = None \/ manager.date \in Nat
           /\ manager.available => manager.date \in Nat
BY ScheduleAssumption DEF ScheduleShape, Schedule!unavailable, Schedule!Loaded

(* An import adds the day and takes nothing away.                           *)
LEMMA ImportsAdd ==
    ASSUME NEW d, NEW i \in Schedule!ImportTrainData(d)
    PROVE  trains \subseteq i.cache.trains /\ (i.ok => d \in i.cache.trains)
<1> DEFINE nothing == [trains |-> trains, legacy |-> legacy, stops |-> stops]
           half == [trains |-> trains \cup {d}, legacy |-> legacy \ {d}, stops |-> stops]
           all == [half EXCEPT !.stops = stops \cup {d}]
<1>1. /\ i.cache \in {nothing, half, all}
      /\ i.ok => i.cache = all
  BY DEF Schedule!ImportTrainData, Schedule!UpsertTrainInstances, Schedule!UpsertTrainStops
<1>2. all.trains = trains \cup {d} /\ half.trains = trains \cup {d} /\ nothing.trains = trains
  OBVIOUS
<1> HIDE DEF nothing, half, all
<1> QED
  BY <1>1, <1>2

(* What a load stores and hands to the manager.                             *)
GoodLoad(l) ==
    /\ trains \subseteq l.import.cache.trains
    /\ \/ l.manager = Schedule!unavailable
       \/ \E d \in Nat : l.manager = Schedule!Loaded(d) /\ d \in l.import.cache.trains

LEMMA LoadsAreGood ==
    ASSUME NEW d \in Nat, NEW l \in Schedule!LoadServiceDate(d)
    PROVE  GoodLoad(l) /\ DOMAIN l = {"import", "manager"}
<1> DEFINE now == [ok |-> FALSE, days |-> scheduleDays,
                   cache |-> [trains |-> trains, legacy |-> legacy, stops |-> stops]]
<1>1. \/ d \in trains /\ l = [import |-> now, manager |-> Schedule!Loaded(d)]
      \/ l = [import |-> now, manager |-> Schedule!unavailable]
      \/ \E i \in Schedule!ImportTrainData(d) :
             l = [import |-> i, manager |-> IF i.ok \/ Schedule!useExistingServiceDate(d, i)
                                            THEN Schedule!Loaded(d) ELSE Schedule!unavailable]
  BY Zenon DEF Schedule!LoadServiceDate, Schedule!usableCachedSchedule
<1>2. now.cache.trains = trains
  OBVIOUS
<1> HIDE DEF now
<1>3. CASE d \in trains /\ l = [import |-> now, manager |-> Schedule!Loaded(d)]
  BY <1>2, <1>3 DEF GoodLoad
<1>4. CASE l = [import |-> now, manager |-> Schedule!unavailable]
  BY <1>2, <1>4 DEF GoodLoad
<1>5. ASSUME NEW i \in Schedule!ImportTrainData(d),
             l = [import |-> i, manager |-> IF i.ok \/ Schedule!useExistingServiceDate(d, i)
                                            THEN Schedule!Loaded(d) ELSE Schedule!unavailable]
      PROVE  GoodLoad(l) /\ DOMAIN l = {"import", "manager"}
  <2>0. DOMAIN l = {"import", "manager"}
    BY <1>5
  <2>1. trains \subseteq i.cache.trains /\ (i.ok => d \in i.cache.trains)
    BY ImportsAdd
  <2>2. Schedule!useExistingServiceDate(d, i) => d \in i.cache.trains
    BY DEF Schedule!useExistingServiceDate
  <2> DEFINE good == i.ok \/ Schedule!useExistingServiceDate(d, i)
  <2>3. /\ l.import = i /\ l.manager = IF good THEN Schedule!Loaded(d) ELSE Schedule!unavailable
        /\ good => d \in i.cache.trains
    BY <1>5, <2>1, <2>2
  <2> HIDE DEF good
  <2>4. CASE d \in i.cache.trains
    <3>1. l.manager = Schedule!Loaded(d) \/ l.manager = Schedule!unavailable
      BY <2>3
    <3> QED
      BY <2>0, <2>1, <2>3, <2>4, <3>1 DEF GoodLoad
  <2>5. CASE d \notin i.cache.trains
    <3>1. l.manager = Schedule!unavailable
      BY <2>3, <2>5
    <3> QED
      BY <2>0, <2>1, <2>3, <3>1 DEF GoodLoad
  <2> QED
    BY <2>4, <2>5
<1> QED
  BY <1>1, <1>3, <1>4, <1>5

LEMMA AccessLoadsAreGood ==
    ASSUME NEW t \in Nat, NEW l \in Schedule!LoadForAccess(t)
    PROVE  GoodLoad(l)
<1>1. Schedule!DayOf(t) \in Nat
  BY DaysFollow
<1>2. PICK k \in Schedule!LoadServiceDate(Schedule!DayOf(t)) :
          l \in IF k.manager.available \/ ~Schedule!BeforeCutoff(t) \/ Schedule!Yesterday(t) = None THEN {k}
                ELSE {[k EXCEPT !.manager =
                          IF Schedule!Yesterday(t) \in k.import.cache.trains \ k.import.cache.legacy
                          THEN Schedule!Loaded(Schedule!Yesterday(t)) ELSE Schedule!unavailable]}
  BY Zenon DEF Schedule!LoadForAccess
<1>3. GoodLoad(k) /\ DOMAIN k = {"import", "manager"}
  BY <1>1, LoadsAreGood
<1>4. CASE l = k
  BY <1>3, <1>4
<1>5. CASE /\ Schedule!Yesterday(t) # None
           /\ l = [k EXCEPT !.manager =
                      IF Schedule!Yesterday(t) \in k.import.cache.trains \ k.import.cache.legacy
                      THEN Schedule!Loaded(Schedule!Yesterday(t)) ELSE Schedule!unavailable]
  <2>1. /\ l.import = k.import
        /\ l.manager = IF Schedule!Yesterday(t) \in k.import.cache.trains \ k.import.cache.legacy
                       THEN Schedule!Loaded(Schedule!Yesterday(t)) ELSE Schedule!unavailable
    BY <1>3, <1>5
  <2>2. Schedule!Yesterday(t) \in Nat
    BY <1>1, <1>5 DEF Schedule!Yesterday
  <2>3. CASE Schedule!Yesterday(t) \in k.import.cache.trains \ k.import.cache.legacy
    BY <1>3, <2>1, <2>2, <2>3 DEF GoodLoad
  <2>4. CASE Schedule!Yesterday(t) \notin k.import.cache.trains \ k.import.cache.legacy
    BY <1>3, <2>1, <2>4 DEF GoodLoad
  <2> QED
    BY <2>3, <2>4
<1> QED
  BY <1>2, <1>4, <1>5

(* A load leaves the manager with a day whose trains are there.             *)
LEMMA LoadingKeeps ==
    ASSUME ScheduleInv, NEW t \in Nat, NEW l \in Schedule!LoadForAccess(t),
           Schedule!Stored(l.import), manager' = l.manager
    PROVE  /\ HeldDayIsKept'
           /\ manager' = Schedule!unavailable \/ \E d \in Nat : manager' = Schedule!Loaded(d)
<1>1. GoodLoad(l)
  BY AccessLoadsAreGood
<1>2. trains' = l.import.cache.trains
  BY DEF Schedule!Stored
<1>3. CASE manager' = Schedule!unavailable
  BY <1>3 DEF HeldDayIsKept, Schedule!unavailable
<1>4. ASSUME NEW d \in Nat, manager' = Schedule!Loaded(d), d \in trains' PROVE HeldDayIsKept'
  BY <1>4 DEF HeldDayIsKept, Schedule!Loaded
<1> QED
  BY <1>1, <1>2, <1>3, <1>4 DEF GoodLoad

(* Trains that stay, go with a day that is past, or come with an import.    *)
LEMMA TrainsKept ==
    ASSUME ScheduleInv, manager' = manager, time' = time,
           \A d \in Nat : d \in trains => d \in trains' \/ Passed(d, time)
    PROVE  HeldDayIsKept'
BY ManagerIsPlain DEF ScheduleInv, HeldDayIsKept, Passed

LEMMA RetriesAreBounded ==
    ASSUME NEW r, DOMAIN r = {"attempt", "retry", "backoff", "cleaned"}, r.backoff \in Nat,
           NEW t \in Nat, NEW after, after = Schedule!scheduleNextDailyRetry(r, t)
    PROVE  /\ DOMAIN after = {"attempt", "retry", "backoff", "cleaned"} /\ after.backoff \in Nat
           /\ after.attempt = r.attempt /\ after.retry \in Nat /\ after.retry <= t + MaxBackoff
<1>1. Schedule!nextBackoff(r.backoff) \in Nat /\ Schedule!nextBackoff(r.backoff) <= MaxBackoff
  BY ScheduleAssumption DEF Schedule!nextBackoff
<1>2. after = [r EXCEPT !.backoff = Schedule!nextBackoff(r.backoff), !.retry = t + Schedule!nextBackoff(r.backoff)]
  BY DEF Schedule!scheduleNextDailyRetry
<1>3. /\ DOMAIN after = {"attempt", "retry", "backoff", "cleaned"}
      /\ after.backoff = Schedule!nextBackoff(r.backoff) /\ after.attempt = r.attempt
      /\ after.retry = t + Schedule!nextBackoff(r.backoff)
  BY <1>2
<1> QED
  BY <1>1, <1>3, ScheduleAssumption

LEMMA ResetForgets ==
    ASSUME NEW r, DOMAIN r = {"attempt", "retry", "backoff", "cleaned"},
           NEW after, after = Schedule!resetDailyRetryState(r)
    PROVE  /\ DOMAIN after = {"attempt", "retry", "backoff", "cleaned"} /\ after.backoff = 0
           /\ after.attempt = None
BY DEF Schedule!resetDailyRetryState

(* A step that neither loads nor takes a train of a day still served.        *)
LEMMA QuietSteps ==
    ASSUME ScheduleInv, UNCHANGED <<time, manager>>, at' = at,
           \A d \in Nat : d \in trains => d \in trains' \/ Passed(d, time),
           DOMAIN runner' = {"attempt", "retry", "backoff", "cleaned"}, runner'.backoff \in Nat,
           RetryIsKnown'
    PROVE  ScheduleInv'
BY TrainsKept DEF ScheduleInv, ScheduleShape

LEMMA ScheduleSteps ==
    ASSUME ScheduleInv, Schedule!Next
    PROVE  ScheduleInv'
<1>0. /\ ScheduleShape /\ RetryIsKnown /\ time \in Nat /\ at \in Nat /\ at <= time
      /\ DOMAIN runner = {"attempt", "retry", "backoff", "cleaned"} /\ runner.backoff \in Nat
  BY DEF ScheduleInv, ScheduleShape
<1>1. CASE Schedule!Start
  <2>1. PICK l \in Schedule!LoadForAccess(time) : Schedule!Stored(l.import) /\ manager' = l.manager
    BY <1>1 DEF Schedule!Start
  <2>2. /\ HeldDayIsKept'
        /\ manager' = Schedule!unavailable \/ \E d \in Nat : manager' = Schedule!Loaded(d)
    BY <1>0, <2>1, LoadingKeeps
  <2>3. time' = time /\ at' = time /\ scheduleStep' = "boot"
        /\ runner' = [attempt |-> None, retry |-> None, backoff |-> 0, cleaned |-> None]
    BY <1>1 DEF Schedule!Start, Schedule!freshRunner
  <2> QED
    BY <1>0, <2>2, <2>3 DEF ScheduleInv, ScheduleShape, RetryIsKnown
<1>2. CASE Schedule!MaybeSelfHeal
  BY <1>0, <1>2, QuietSteps DEF Schedule!MaybeSelfHeal, RetryIsKnown
<1>3. CASE Schedule!RunStartup
  <2>1. PICK l \in Schedule!LoadForAccess(time) : Schedule!Stored(l.import) /\ manager' = l.manager
    BY <1>3 DEF Schedule!RunStartup
  <2>2. /\ HeldDayIsKept'
        /\ manager' = Schedule!unavailable \/ \E d \in Nat : manager' = Schedule!Loaded(d)
    BY <1>0, <2>1, LoadingKeeps
  <2>3. time' = time /\ at' = time /\ scheduleStep = "startup" /\ scheduleStep' \in {"import", "available"}
        /\ runner' = runner
    BY <1>3 DEF Schedule!RunStartup
  <2> QED
    BY <1>0, <2>2, <2>3 DEF ScheduleInv, ScheduleShape, RetryIsKnown
<1>4. CASE Schedule!PublishLoaded
  BY <1>0, <1>4, QuietSteps DEF Schedule!PublishLoaded, RetryIsKnown
<1>5. CASE Schedule!Tick
  <2>1. /\ UNCHANGED <<time, trains, manager, runner>> /\ at' = time
        /\ scheduleStep = "idle" /\ scheduleStep' = "cleanup"
    BY <1>5 DEF Schedule!Tick
  <2> QED
    BY <1>0, <2>1 DEF ScheduleInv, ScheduleShape, HeldDayIsKept, RetryIsKnown, Passed
<1>6. CASE Schedule!CleanupExpired
  <2>1. /\ UNCHANGED <<time, manager, at>> /\ scheduleStep = "cleanup" /\ scheduleStep' \in {"daily", "down"}
        /\ runner' = runner \/ runner' = [runner EXCEPT !.cleaned = at]
        /\ trains' = trains \/ trains' = trains \ {d \in Schedule!Days : d < Schedule!oldestKept(at)}
    BY <1>6 DEF Schedule!CleanupExpired
  <2>2. ASSUME NEW d \in Nat, d \in trains PROVE d \in trains' \/ Passed(d, time)
    <3>1. CASE d < Schedule!oldestKept(at)
      <4>1. /\ Schedule!oldestKept(at) \in Nat /\ Schedule!DayOf(at) \in Nat
            /\ Schedule!oldestKept(at) # 0 => Schedule!oldestKept(at) = Schedule!DayOf(at) - 1
        <5>1. Schedule!DayOf(at) \in Nat
          BY <1>0, DaysFollow
        <5>2. CASE Schedule!DayOf(at) = 0
          BY <5>2 DEF Schedule!oldestKept, Schedule!Yesterday
        <5>3. CASE Schedule!DayOf(at) # 0
          <6>1. Schedule!Yesterday(at) = Schedule!DayOf(at) - 1 /\ Schedule!Yesterday(at) \in Nat
            BY <5>1, <5>3 DEF Schedule!Yesterday
          <6> QED
            BY <5>1, <6>1, ScheduleAssumption DEF Schedule!oldestKept
        <5> QED
          BY <5>1, <5>2, <5>3
      <4>2. Passed(d, at)
        BY <3>1, <4>1 DEF Passed
      <4> QED
        BY <1>0, <4>2, PastStaysPast
    <3>2. CASE ~(d < Schedule!oldestKept(at))
      BY <2>1, <2>2, <3>2
    <3> QED
      BY <3>1, <3>2
  <2>3. /\ DOMAIN runner' = {"attempt", "retry", "backoff", "cleaned"} /\ runner'.backoff = runner.backoff
        /\ runner'.attempt = runner.attempt /\ runner'.retry = runner.retry
    BY <1>0, <2>1
  <2>4. RetryIsKnown'
    BY <1>0, <2>1, <2>3 DEF RetryIsKnown
  <2> QED
    BY <1>0, <2>1, <2>2, <2>3, <2>4, QuietSteps
<1>7. CASE Schedule!ensureDailyScheduleFreshness
  <2>1. UNCHANGED <<time, trains, manager, at>> /\ scheduleStep = "daily"
    BY <1>7 DEF Schedule!ensureDailyScheduleFreshness
  <2> DEFINE tried == [runner EXCEPT !.attempt = Schedule!DayOf(at)]
  <2>2. \/ scheduleStep' = "idle" /\ runner' = Schedule!resetDailyRetryState(runner)
        \/ scheduleStep' = "idle" /\ runner' = runner
        \/ scheduleStep' = "import" /\ runner' = tried
        \/ scheduleStep' = "idle" /\ runner' = Schedule!scheduleNextDailyRetry(tried, at)
    BY <1>7, Zenon DEF Schedule!ensureDailyScheduleFreshness
  <2>3. DOMAIN tried = {"attempt", "retry", "backoff", "cleaned"} /\ tried.backoff \in Nat
    BY <1>0
  <2> HIDE DEF tried
  <2>4. CASE scheduleStep' = "idle" /\ runner' = Schedule!resetDailyRetryState(runner)
    <3>1. DOMAIN runner' = {"attempt", "retry", "backoff", "cleaned"} /\ runner'.backoff = 0
          /\ runner'.attempt = None
      BY <1>0, <2>4, ResetForgets
    <3>2. RetryIsKnown'
      BY <2>4, <3>1 DEF RetryIsKnown
    <3> QED
      BY <2>1, <3>1, <3>2, QuietSteps
  <2>5. CASE scheduleStep' = "idle" /\ runner' = runner
    <3>1. RetryIsKnown'
      BY <1>0, <2>1, <2>5 DEF RetryIsKnown
    <3> QED
      BY <1>0, <2>1, <2>5, <3>1, QuietSteps
  <2>6. CASE scheduleStep' = "import" /\ runner' = tried
    <3>1. RetryIsKnown'
      BY <2>6 DEF RetryIsKnown
    <3> QED
      BY <2>1, <2>3, <2>6, <3>1, QuietSteps
  <2>7. CASE scheduleStep' = "idle" /\ runner' = Schedule!scheduleNextDailyRetry(tried, at)
    <3>1. /\ DOMAIN runner' = {"attempt", "retry", "backoff", "cleaned"} /\ runner'.backoff \in Nat
          /\ runner'.retry \in Nat /\ runner'.retry <= at + MaxBackoff
      BY <1>0, <2>3, <2>7, RetriesAreBounded
    <3>2. RetryIsKnown'
      BY <1>0, <2>1, <2>7, <3>1, ScheduleAssumption DEF RetryIsKnown
    <3> QED
      BY <2>1, <3>1, <3>2, QuietSteps
  <2> QED
    BY <2>2, <2>4, <2>5, <2>6, <2>7
<1>8. CASE Schedule!ImportScraped
  <2>1. PICK i \in Schedule!ImportTrainData(Schedule!DayOf(at)) :
            /\ Schedule!Stored(i)
            /\ IF i.ok THEN scheduleStep' = "refresh" /\ runner' = runner
               ELSE IF runner.attempt = None THEN scheduleStep' = "available" /\ runner' = runner
               ELSE scheduleStep' = "idle" /\ runner' = Schedule!scheduleNextDailyRetry(runner, at)
    BY <1>8 DEF Schedule!ImportScraped
  <2>2. UNCHANGED <<time, manager, at>>
    BY <1>8 DEF Schedule!ImportScraped
  <2>3. trains \subseteq trains'
    BY <2>1, ImportsAdd DEF Schedule!Stored
  <2>4. CASE scheduleStep' = "refresh" /\ runner' = runner
    <3>1. RetryIsKnown'
      BY <2>4 DEF RetryIsKnown
    <3> QED
      BY <1>0, <2>2, <2>3, <2>4, <3>1, QuietSteps
  <2>5. CASE runner.attempt = None /\ scheduleStep' = "available" /\ runner' = runner
    <3>1. RetryIsKnown'
      BY <2>5 DEF RetryIsKnown
    <3> QED
      BY <1>0, <2>2, <2>3, <2>5, <3>1, QuietSteps
  <2>6. CASE scheduleStep' = "idle" /\ runner' = Schedule!scheduleNextDailyRetry(runner, at)
    <3>1. /\ DOMAIN runner' = {"attempt", "retry", "backoff", "cleaned"} /\ runner'.backoff \in Nat
          /\ runner'.retry \in Nat /\ runner'.retry <= at + MaxBackoff
      BY <1>0, <2>6, RetriesAreBounded
    <3>2. RetryIsKnown'
      BY <1>0, <2>2, <2>6, <3>1, ScheduleAssumption DEF RetryIsKnown
    <3> QED
      BY <2>2, <2>3, <3>1, <3>2, QuietSteps
  <2> QED
    BY <2>1, <2>4, <2>5, <2>6, Zenon
<1>9. CASE Schedule!refreshReadModel
  <2>1. PICK l \in Schedule!LoadForAccess(at) : Schedule!Stored(l.import) /\ manager' = l.manager
    BY <1>9 DEF Schedule!refreshReadModel
  <2>2. /\ HeldDayIsKept'
        /\ manager' = Schedule!unavailable \/ \E d \in Nat : manager' = Schedule!Loaded(d)
    BY <1>0, <2>1, LoadingKeeps
  <2>3. UNCHANGED <<time, at, runner>> /\ scheduleStep' = "publish"
    BY <1>9 DEF Schedule!refreshReadModel
  <2> QED
    BY <1>0, <2>2, <2>3 DEF ScheduleInv, ScheduleShape, RetryIsKnown
<1>10. CASE Schedule!publishBundle
  <2>1. UNCHANGED <<time, trains, manager, at, runner>> /\ scheduleStep' \in {"previous", "down"}
    BY <1>10 DEF Schedule!publishBundle
  <2> QED
    BY <1>0, <2>1, QuietSteps DEF RetryIsKnown
<1>11. CASE Schedule!cleanupPreviousServiceDate
  <2>1. /\ UNCHANGED <<time, manager, at>> /\ runner' = Schedule!resetDailyRetryState(runner)
        /\ \/ trains' = trains
           \/ Schedule!previousIsDue(at) /\ trains' = trains \ {Schedule!Yesterday(at)}
    BY <1>11 DEF Schedule!cleanupPreviousServiceDate
  <2>2. ASSUME NEW d \in Nat, d \in trains, d \notin trains' PROVE Passed(d, time)
    <3>1. ~Schedule!BeforeCutoff(at) /\ Schedule!DayOf(at) \in Nat /\ d = Schedule!Yesterday(at)
      BY <1>0, <2>1, <2>2, DaysFollow DEF Schedule!previousIsDue
    <3>2. d = Schedule!DayOf(at) - 1
      BY <3>1, ScheduleAssumption DEF Schedule!Yesterday
    <3>3. Passed(d, at)
      BY <3>1, <3>2 DEF Passed
    <3> QED
      BY <1>0, <3>3, PastStaysPast
  <2>3. DOMAIN runner' = {"attempt", "retry", "backoff", "cleaned"} /\ runner'.backoff = 0
        /\ runner'.attempt = None
    BY <1>0, <2>1, ResetForgets
  <2>4. RetryIsKnown'
    BY <2>3 DEF RetryIsKnown
  <2> QED
    BY <2>1, <2>2, <2>3, <2>4, QuietSteps
<1>12. CASE Schedule!Clock
  <2>1. time' = time + 1 /\ UNCHANGED <<trains, manager, runner, scheduleStep, at>>
    BY <1>12 DEF Schedule!Clock
  <2>2. HeldDayIsKept'
    <3>1. CASE manager.date = None
      BY <2>1, <3>1 DEF HeldDayIsKept
    <3>2. CASE manager.date \in Nat
      <4>1. Passed(manager.date, time) => Passed(manager.date, time')
        BY <1>0, <2>1, <3>2, PastStaysPast
      <4> QED
        BY <2>1, <4>1 DEF ScheduleInv, HeldDayIsKept
    <3> QED
      BY <1>0, <3>1, <3>2, ManagerIsPlain
  <2> QED
    BY <1>0, <2>1, <2>2, ScheduleAssumption DEF ScheduleInv, ScheduleShape, RetryIsKnown
<1>13. CASE Schedule!Crash
  <2>1. UNCHANGED <<time, at, runner>> /\ scheduleStep' = "down" /\ manager' = Schedule!unavailable
    BY <1>13 DEF Schedule!Crash
  <2> QED
    BY <1>0, <2>1 DEF ScheduleInv, ScheduleShape, HeldDayIsKept, RetryIsKnown, Schedule!unavailable
<1> QED
  BY <1>1, <1>2, <1>3, <1>4, <1>5, <1>6, <1>7, <1>8, <1>9, <1>10, <1>11, <1>12, <1>13 DEF Schedule!Next

(* The trains of the day requests are answered from are in the cache, and   *)
(* a day that was tried in vain is tried again within the largest backoff,  *)
(* across midnight, the cut-off hour, cleanups, failed and half-finished    *)
(* imports and restarts (manager.go AccessContext, runner.go                *)
(* ensureDailyScheduleFreshness, cleanupPreviousServiceDate).               *)
THEOREM ScheduleIsKept == TrainSpec => []ScheduleIsServed
<1> DEFINE Inv == Scheduled => ScheduleInv
<1>1. TrainInit => Inv
  BY ScheduleStarts DEF TrainInit, Scraped, Imported, Queried, Scheduled, Bundled, Paged, Alerted, Reported, Chatted, LoggedIn
<1>2. Inv /\ [TrainNext]_TrainVars => Inv'
  <2> SUFFICES ASSUME Inv, [TrainNext]_TrainVars, Scheduled'
               PROVE  ScheduleInv'
    OBVIOUS
  <2>1. Scheduled /\ ScheduleInv /\ (UNCHANGED scheduleVars \/ Schedule!Next)
    BY DEF TrainNext, TrainVars, Scraped, Imported, Queried, Scheduled, Bundled, Paged, Alerted, Reported, Chatted, LoggedIn
  <2>2. CASE UNCHANGED scheduleVars
    BY <2>1, <2>2 DEF scheduleVars, ScheduleInv, ScheduleShape, HeldDayIsKept, RetryIsKnown, Passed
  <2>3. CASE Schedule!Next
    BY <2>1, <2>3, ScheduleSteps
  <2> QED
    BY <2>1, <2>2, <2>3
<1>3. Inv => ScheduleIsServed
  <2> SUFFICES ASSUME ScheduleInv
               PROVE  Schedule!ServedDayIsStored /\ Schedule!StaleDayIsRetried
    BY DEF ScheduleIsServed
  <2>1. Schedule!StaleDayIsRetried
    BY ScheduleAssumption DEF ScheduleInv, RetryIsKnown, Schedule!StaleDayIsRetried
  <2>2. Schedule!requireServiceDate # None => Schedule!requireServiceDate \in trains
    <3> SUFFICES ASSUME Schedule!requireServiceDate # None PROVE Schedule!requireServiceDate \in trains
      OBVIOUS
    <3> DEFINE d == manager.date
    <3>1. /\ Schedule!requireServiceDate = d /\ d # None
          /\ d = Schedule!DayOf(time) \/ (Schedule!BeforeCutoff(time) /\ d = Schedule!Yesterday(time))
      BY DEF Schedule!requireServiceDate, Schedule!AccessContext
    <3>2. Schedule!DayOf(time) \in Nat
      BY DaysFollow DEF ScheduleInv, ScheduleShape
    <3>3. d = Schedule!Yesterday(time) => d = Schedule!DayOf(time) - 1
      BY <3>1, <3>2 DEF Schedule!Yesterday
    <3>4. ~Passed(d, time)
      BY <3>1, <3>2, <3>3 DEF Passed
    <3> QED
      BY <3>1, <3>4 DEF ScheduleInv, HeldDayIsKept
  <2> QED
    BY <2>1, <2>2 DEF Schedule!ServedDayIsStored
<1> QED
  BY <1>1, <1>2, <1>3, PTL DEF TrainSpec

(***************************************************************************)
(* The versions of the public pages.                                        *)
(***************************************************************************)

CacheState(state) ==
    /\ DOMAIN state = {"loaded", "scheduleRoot", "dashboardRoot", "networkRoot", "incidentsRoot",
                       "train", "station", "incident"}
    /\ state.loaded \in Nat \cup {None} /\ state.scheduleRoot \in Nat /\ state.dashboardRoot \in Nat
    /\ state.networkRoot \in Nat /\ state.incidentsRoot \in Nat
    /\ state.train \in [PageTrains -> Nat] /\ state.station \in [PageStations -> Nat]
    /\ state.incident \in [PageTrains \cup PageStations -> Nat]

(* The two counters in the version of the page that is asked for.           *)
Root(state) == IF watched[1] = "incidents" THEN 0 ELSE state.scheduleRoot
Count(state) ==
    IF watched[1] \in {"dashboard", "service day"} THEN state.dashboardRoot
    ELSE IF watched[1] = "map" THEN state.networkRoot
    ELSE IF watched[1] = "stations" THEN 0
    ELSE IF watched[1] = "departures" THEN state.station[watched[2]]
    ELSE IF watched[1] \in {"train", "train stops"} THEN state.train[watched[2]]
    ELSE IF watched[1] = "incidents" THEN state.incidentsRoot
    ELSE state.incident[watched[2]]

(* What routes and changes look like.                                       *)
APage ==
    \/ watched[1] \in {"dashboard", "service day", "map", "stations", "incidents"}
    \/ watched[1] \in {"train", "train stops"} /\ watched[2] \in PageTrains
    \/ watched[1] = "departures" /\ watched[2] \in PageStations
    \/ watched[1] = "incident" /\ watched[2] \in PageTrains \cup PageStations

AChange(what) ==
    /\ what.kind \in {"report", "sighting", "update"}
    /\ what.train \in PageTrains \cup {None}
    /\ what.station \in PageStations \cup {None}
    /\ what.incident \in PageTrains \cup PageStations
    /\ what.kind = "report" => what.station = None
    /\ what.kind = "update" => what.train = None /\ what.station = None

LEMMA RoutesArePages == watched \in Cache!Routes => APage
BY DEF Cache!Routes, Cache!Incidents, APage

LEMMA WhatsAreChanges == \A what \in Cache!Whats : AChange(what)
BY DEF Cache!Whats, Cache!Report, Cache!Update, Cache!LocationReport, Cache!Sighting, Cache!Incidents, AChange

LEMMA VersionIsCounters ==
    ASSUME APage
    PROVE  Cache!versionFor(watched) = <<watched, Root(cache), Count(cache)>>
<1>1. CASE watched[1] \in {"dashboard", "service day"}
  BY <1>1 DEF Cache!versionFor, Root, Count
<1>2. CASE watched[1] = "map"
  BY <1>2 DEF Cache!versionFor, Root, Count
<1>3. CASE watched[1] = "stations"
  BY <1>3 DEF Cache!versionFor, Root, Count
<1>4. CASE watched[1] = "departures"
  BY <1>4 DEF Cache!versionFor, Root, Count
<1>5. CASE watched[1] \in {"train", "train stops"}
  BY <1>5 DEF Cache!versionFor, Root, Count
<1>6. CASE watched[1] = "incidents"
  BY <1>6 DEF Cache!versionFor, Root, Count
<1>7. CASE watched[1] = "incident"
  BY <1>7 DEF Cache!versionFor, Root, Count
<1> QED
  BY <1>1, <1>2, <1>3, <1>4, <1>5, <1>6, <1>7 DEF APage

LEMMA ReadersAre ==
    ASSUME APage, NEW what
    PROVE  Cache!reads(watched, what) =>
               /\ watched[1] \in {"dashboard", "service day"} => what.kind = "report"
               /\ watched[1] = "map" => what.kind = "sighting"
               /\ watched[1] # "stations"
               /\ watched[1] = "departures" => what.station = watched[2]
               /\ watched[1] \in {"train", "train stops"} => what.train = watched[2]
               /\ watched[1] = "incident" => what.incident = watched[2]
<1>1. CASE watched[1] \in {"dashboard", "service day"}
  BY <1>1 DEF Cache!reads, Cache!dashboardReads
<1>2. CASE watched[1] = "map"
  BY <1>2 DEF Cache!reads, Cache!mapReads
<1>3. CASE watched[1] = "stations"
  BY <1>3 DEF Cache!reads, Cache!stationsRead
<1>4. CASE watched[1] = "departures"
  BY <1>4 DEF Cache!reads, Cache!departuresRead
<1>5. CASE watched[1] \in {"train", "train stops"}
  BY <1>5 DEF Cache!reads, Cache!trainReads
<1>6. CASE watched[1] = "incidents"
  BY <1>6
<1>7. CASE watched[1] = "incident"
  BY <1>7 DEF Cache!reads, Cache!incidentReads
<1> QED
  BY <1>1, <1>2, <1>3, <1>4, <1>5, <1>6, <1>7 DEF APage

LEMMA CountersCount ==
    ASSUME APage, NEW state, CacheState(state)
    PROVE  Root(state) \in Nat /\ Count(state) \in Nat
BY DEF APage, CacheState, Root, Count

(* What the handlers do to the counters.                                    *)
Noted(what) ==
    IF what.kind = "report" THEN Cache!noteReportAccepted(what)
    ELSE IF what.kind = "sighting" THEN Cache!noteStationSightingAccepted(what)
    ELSE Cache!noteIncidentUpdated(what)

LEMMA BumpsCount ==
    ASSUME NEW S, NEW items \in [S -> Nat], NEW key \in S \cup {None}
    PROVE  /\ Cache!bumpMap(items, key) \in [S -> Nat]
           /\ \A x \in S : Cache!bumpMap(items, key)[x] >= items[x]
           /\ key # None => Cache!bumpMap(items, key)[key] = items[key] + 1
BY DEF Cache!bumpMap

(* A change that is noted raises the counter of every page that shows it.   *)
LEMMA NotesCount ==
    ASSUME APage, CacheState(cache), NEW what, AChange(what)
    PROVE  /\ CacheState(Noted(what)) /\ Noted(what).loaded = cache.loaded
           /\ Root(Noted(what)) = Root(cache) /\ Count(Noted(what)) >= Count(cache)
           /\ Cache!reads(watched, what) => Count(Noted(what)) > Count(cache)
<1> DEFINE next == Noted(what)
<1>0. /\ cache.train \in [PageTrains -> Nat] /\ cache.station \in [PageStations -> Nat]
      /\ cache.incident \in [PageTrains \cup PageStations -> Nat]
      /\ cache.dashboardRoot \in Nat /\ cache.networkRoot \in Nat /\ cache.incidentsRoot \in Nat
  BY DEF CacheState
<1>1. /\ CacheState(next)
      /\ next.loaded = cache.loaded /\ next.scheduleRoot = cache.scheduleRoot
      /\ next.incidentsRoot = cache.incidentsRoot + 1
      /\ next.incident = Cache!bumpMap(cache.incident, what.incident)
      /\ next.dashboardRoot = IF what.kind = "report" THEN cache.dashboardRoot + 1 ELSE cache.dashboardRoot
      /\ next.networkRoot = IF what.kind = "sighting" THEN cache.networkRoot + 1 ELSE cache.networkRoot
      /\ next.train = IF what.kind # "update" THEN Cache!bumpMap(cache.train, what.train) ELSE cache.train
      /\ next.station = IF what.kind = "sighting" THEN Cache!bumpMap(cache.station, what.station) ELSE cache.station
  <2>0. /\ Cache!bumpMap(cache.train, what.train) \in [PageTrains -> Nat]
        /\ Cache!bumpMap(cache.station, what.station) \in [PageStations -> Nat]
        /\ Cache!bumpMap(cache.incident, what.incident) \in [PageTrains \cup PageStations -> Nat]
    BY <1>0, BumpsCount DEF AChange
  <2>1. CASE what.kind = "report"
    <3>1. next = [cache EXCEPT !.dashboardRoot = @ + 1, !.incidentsRoot = @ + 1,
                               !.train = Cache!bumpMap(@, what.train),
                               !.incident = Cache!bumpMap(@, what.incident)]
      BY <2>1 DEF Noted, Cache!noteReportAccepted
    <3> HIDE DEF next
    <3> QED
      BY <2>0, <2>1, <3>1 DEF CacheState
  <2>2. CASE what.kind = "sighting"
    <3>1. next = [cache EXCEPT !.networkRoot = @ + 1, !.incidentsRoot = @ + 1,
                               !.station = Cache!bumpMap(@, what.station),
                               !.train = Cache!bumpMap(@, what.train),
                               !.incident = Cache!bumpMap(@, what.incident)]
      BY <2>2 DEF Noted, Cache!noteStationSightingAccepted
    <3> HIDE DEF next
    <3> QED
      BY <2>0, <2>2, <3>1 DEF CacheState
  <2>3. CASE what.kind = "update"
    <3>1. next = [cache EXCEPT !.incidentsRoot = @ + 1, !.incident = Cache!bumpMap(@, what.incident)]
      BY <2>3 DEF Noted, Cache!noteIncidentUpdated
    <3> HIDE DEF next
    <3> QED
      BY <2>0, <2>3, <3>1 DEF CacheState
  <2> QED
    BY <2>1, <2>2, <2>3 DEF AChange
<1> HIDE DEF next
<1>2. Root(next) = Root(cache)
  BY <1>1 DEF Root
<1>3. \A x \in PageTrains : /\ next.train[x] >= cache.train[x] /\ cache.train[x] \in Nat
                            /\ what.train = x => next.train[x] > cache.train[x]
  <2>1. CASE what.kind # "update"
    <3>1. next.train = Cache!bumpMap(cache.train, what.train) /\ what.train \in PageTrains \cup {None}
      BY <1>1, <2>1 DEF AChange
    <3> QED
      BY <1>0, <3>1, BumpsCount, PageAssumption
  <2>2. CASE what.kind = "update"
    <3>1. next.train = cache.train /\ what.train = None
      BY <1>1, <2>2 DEF AChange
    <3> QED
      BY <1>0, <3>1, PageAssumption
  <2> QED
    BY <2>1, <2>2
<1>4. \A x \in PageStations : /\ next.station[x] >= cache.station[x] /\ cache.station[x] \in Nat
                              /\ what.station = x => next.station[x] > cache.station[x]
  <2>1. CASE what.kind = "sighting"
    <3>1. next.station = Cache!bumpMap(cache.station, what.station) /\ what.station \in PageStations \cup {None}
      BY <1>1, <2>1 DEF AChange
    <3> QED
      BY <1>0, <3>1, BumpsCount, PageAssumption
  <2>2. CASE what.kind # "sighting"
    <3>1. next.station = cache.station /\ what.station = None
      BY <1>1, <2>2 DEF AChange
    <3> QED
      BY <1>0, <3>1, PageAssumption
  <2> QED
    BY <2>1, <2>2
<1>5. \A x \in PageTrains \cup PageStations : /\ next.incident[x] >= cache.incident[x] /\ cache.incident[x] \in Nat
                                              /\ what.incident = x => next.incident[x] > cache.incident[x]
  <2>1. next.incident = Cache!bumpMap(cache.incident, what.incident)
        /\ what.incident \in PageTrains \cup PageStations
    BY <1>1 DEF AChange
  <2> QED
    <3>1. what.incident # None
      BY <2>1, PageAssumption
    <3> QED
      BY <1>0, <2>1, <3>1, BumpsCount
<1>6. Count(next) >= Count(cache) /\ (Cache!reads(watched, what) => Count(next) > Count(cache))
  <2>1. CASE watched[1] \in {"dashboard", "service day"}
    <3>1. Count(next) = next.dashboardRoot /\ Count(cache) = cache.dashboardRoot
      BY <2>1 DEF Count
    <3>2. Cache!reads(watched, what) => what.kind = "report"
      BY <2>1, ReadersAre
    <3> QED
      BY <1>0, <1>1, <3>1, <3>2
  <2>2. CASE watched[1] = "map"
    <3>1. Count(next) = next.networkRoot /\ Count(cache) = cache.networkRoot
      BY <2>2 DEF Count
    <3>2. Cache!reads(watched, what) => what.kind = "sighting"
      BY <2>2, ReadersAre
    <3> QED
      BY <1>0, <1>1, <3>1, <3>2
  <2>3. CASE watched[1] = "stations"
    <3>1. Count(next) = 0 /\ Count(cache) = 0
      BY <2>3 DEF Count
    <3>2. ~Cache!reads(watched, what)
      BY <2>3, ReadersAre
    <3> QED
      BY <3>1, <3>2
  <2>4. CASE watched[1] = "incidents"
    <3>1. Count(next) = next.incidentsRoot /\ Count(cache) = cache.incidentsRoot
      BY <2>4 DEF Count
    <3> QED
      BY <1>0, <1>1, <3>1
  <2>5. CASE watched[1] = "departures" /\ watched[2] \in PageStations
    <3>1. Count(next) = next.station[watched[2]] /\ Count(cache) = cache.station[watched[2]]
      BY <2>5 DEF Count
    <3>2. Cache!reads(watched, what) => what.station = watched[2]
      BY <2>5, ReadersAre
    <3> QED
      BY <1>4, <2>5, <3>1, <3>2
  <2>6. CASE watched[1] \in {"train", "train stops"} /\ watched[2] \in PageTrains
    <3>1. Count(next) = next.train[watched[2]] /\ Count(cache) = cache.train[watched[2]]
      BY <2>6 DEF Count
    <3>2. Cache!reads(watched, what) => what.train = watched[2]
      BY <2>6, ReadersAre
    <3> QED
      BY <1>3, <2>6, <3>1, <3>2
  <2>7. CASE watched[1] = "incident" /\ watched[2] \in PageTrains \cup PageStations
    <3>1. Count(next) = next.incident[watched[2]] /\ Count(cache) = cache.incident[watched[2]]
      BY <2>7 DEF Count
    <3>2. Cache!reads(watched, what) => what.incident = watched[2]
      BY <2>7, ReadersAre
    <3>3. ASSUME NEW x \in PageTrains \cup PageStations
          PROVE  /\ next.incident[x] >= cache.incident[x] /\ cache.incident[x] \in Nat
                 /\ what.incident = x => next.incident[x] > cache.incident[x]
      BY <1>5
    <3> DEFINE page == watched[2]
    <3>4. /\ next.incident[page] >= cache.incident[page] /\ cache.incident[page] \in Nat
          /\ what.incident = page => next.incident[page] > cache.incident[page]
      BY <2>7, <3>3, Zenon
    <3> QED
      BY <3>1, <3>2, <3>4
  <2> QED
    BY <2>1, <2>2, <2>3, <2>4, <2>5, <2>6, <2>7 DEF APage
<1> QED
  BY <1>1, <1>2, <1>6 DEF next

(* Another schedule makes every version new.                                *)
LEMMA SyncCounts ==
    ASSUME APage, CacheState(cache), NEW s \in Nat
    PROVE  /\ CacheState(Cache!syncLoadedSchedule(s))
           /\ Cache!syncLoadedSchedule(s).loaded \in {cache.loaded, s}
           /\ \/ Cache!syncLoadedSchedule(s) = cache
              \/ Root(Cache!syncLoadedSchedule(s)) > Root(cache)
              \/ /\ Root(Cache!syncLoadedSchedule(s)) = Root(cache)
                 /\ Count(Cache!syncLoadedSchedule(s)) > Count(cache)
<1> DEFINE next == Cache!syncLoadedSchedule(s)
<1>1. CASE cache.loaded = s
  BY <1>1 DEF Cache!syncLoadedSchedule
<1>2. CASE cache.loaded # s
  <2>0. /\ Cache!normalized.train \in [PageTrains -> Nat] /\ Cache!normalized.station \in [PageStations -> Nat]
        /\ Cache!normalized.incident \in [PageTrains \cup PageStations -> Nat]
    BY DEF Cache!normalized, Cache!Incidents
  <2>1. next = [cache EXCEPT !.loaded = s, !.scheduleRoot = @ + 1, !.incidentsRoot = @ + 1,
                             !.train = Cache!normalized.train, !.station = Cache!normalized.station,
                             !.incident = Cache!normalized.incident]
    BY <1>2 DEF Cache!syncLoadedSchedule
  <2> HIDE DEF next
  <2>2. /\ CacheState(next) /\ next.loaded = s
        /\ next.scheduleRoot = cache.scheduleRoot + 1 /\ next.incidentsRoot = cache.incidentsRoot + 1
    BY <2>0, <2>1 DEF CacheState
  <2>3. cache.scheduleRoot \in Nat /\ cache.incidentsRoot \in Nat
    BY DEF CacheState
  <2>4. Root(next) > Root(cache) \/ (Root(next) = Root(cache) /\ Count(next) > Count(cache))
    <3>1. CASE watched[1] = "incidents"
      <4>1. /\ Root(next) = 0 /\ Root(cache) = 0
            /\ Count(next) = next.incidentsRoot /\ Count(cache) = cache.incidentsRoot
        BY <3>1 DEF Root, Count
      <4> QED
        BY <2>2, <2>3, <4>1
    <3>2. CASE watched[1] # "incidents"
      BY <2>2, <2>3, <3>2 DEF Root
    <3> QED
      BY <3>1, <3>2
  <2> QED
    BY <2>2, <2>4 DEF next
<1> QED
  BY <1>1, <1>2

(* A version that is not newer than the one requests are sent to now.       *)
Old(v) ==
    \E a, b \in Nat :
        /\ v = <<watched, a, b>>
        /\ a < Root(cache) \/ (a = Root(cache) /\ b <= Count(cache))

(* What the edge keeps under today's version is fresh; see                  *)
(* CurrentVersionIsFresh.                                                   *)
FreshPage(page) ==
    page.version = <<watched, Root(cache), Count(cache)>> =>
        /\ noted \cap Cache!payload(watched) \subseteq page.changes
        /\ cache.loaded # None /\ watched[1] # "incidents" => page.schedule >= cache.loaded

CacheShape ==
    /\ watched \in Cache!Routes /\ edition \in Nat
    /\ CacheState(cache) /\ CacheState(saved)
    /\ \A state \in {cache, saved} : state.loaded # None => state.loaded <= edition
    /\ DOMAIN stored = Cache!Changes
    /\ \A n \in Cache!Changes : stored[n] = None \/ AChange(stored[n])
    /\ noted \subseteq Cache!Changes /\ \A n \in noted : stored[n] # None
    /\ DOMAIN writer = Writers
    /\ \A w \in Writers : writer[w] # None => writer[w] \in Cache!Changes /\ stored[writer[w]] # None
    /\ DOMAIN client = Clients
    /\ \A c \in Clients :
        /\ DOMAIN client[c] = {"pc", "cv", "schedule"}
        /\ client[c].pc = "sync" => client[c].schedule \in Nat /\ client[c].schedule <= edition

VersionsAreOld ==
    ~rolledBack =>
        /\ \A c \in Clients : client[c].pc = "payload" => Old(client[c].cv)
        /\ \A page \in kept : Old(page.version) /\ FreshPage(page)

CacheInv == CacheShape /\ VersionsAreOld

LEMMA CacheStarts == Cache!Init => CacheInv
<1> SUFFICES ASSUME Cache!Init PROVE CacheInv
  OBVIOUS
<1>1. /\ edition = 1 /\ stored = [n \in Cache!Changes |-> None]
      /\ cache = Cache!normalized /\ saved = Cache!normalized
      /\ noted = {} /\ kept = {} /\ watched \in Cache!Routes
      /\ client = [c \in Clients |-> [pc |-> "idle", cv |-> None, schedule |-> None]]
      /\ writer = [w \in Writers |-> None]
  BY DEF Cache!Init, Cache!idleClient
<1>2. CacheState(Cache!normalized) /\ Cache!normalized.loaded = None
  BY DEF CacheState, Cache!normalized, Cache!Incidents
<1>3. \A c \in Clients : DOMAIN client[c] = {"pc", "cv", "schedule"} /\ client[c].pc = "idle"
  BY <1>1
<1>4. CacheShape
  BY <1>1, <1>2, <1>3 DEF CacheShape
<1>5. VersionsAreOld
  BY <1>1, <1>3 DEF VersionsAreOld
<1> QED
  BY <1>4, <1>5 DEF CacheInv

(* The counters are raised: what was old stays old, and what was today's is *)
(* no longer.                                                               *)
Raised ==
    /\ watched' = watched
    /\ Root(cache)' \in Nat /\ Count(cache)' \in Nat
    /\ Root(cache) \in Nat /\ Count(cache) \in Nat
    /\ Root(cache)' > Root(cache) \/ (Root(cache)' = Root(cache) /\ Count(cache)' >= Count(cache))

LEMMA OldStaysOld ==
    ASSUME Raised, NEW v, Old(v)
    PROVE  /\ Old(v)'
           /\ v = <<watched, Root(cache), Count(cache)>>' =>
                  /\ Root(cache)' = Root(cache) /\ Count(cache)' = Count(cache)
                  /\ v = <<watched, Root(cache), Count(cache)>>
<1>1. PICK a \in Nat, b \in Nat :
          v = <<watched, a, b>> /\ (a < Root(cache) \/ (a = Root(cache) /\ b <= Count(cache)))
  BY DEF Old
<1>2. Old(v)'
  <2>1. v = <<watched', a, b>>
        /\ (a < Root(cache)' \/ (a = Root(cache)' /\ b <= Count(cache)'))
    BY <1>1 DEF Raised
  <2> QED
    BY <2>1 DEF Old
<1>3. ASSUME v = <<watched, Root(cache), Count(cache)>>'
      PROVE  Root(cache)' = Root(cache) /\ Count(cache)' = Count(cache)
  BY <1>1, <1>3 DEF Raised
<1>4. v = <<watched, Root(cache), Count(cache)>>' => v = <<watched, Root(cache), Count(cache)>>
  BY <1>3 DEF Raised
<1> QED
  BY <1>2, <1>3, <1>4

(* A page the edge keeps stays fresh when the counters are raised, unless   *)
(* they keep their values and there is more to show.                        *)
LEMMA FreshStaysFresh ==
    ASSUME Raised, NEW page, Old(page.version), FreshPage(page),
           Root(cache)' = Root(cache) /\ Count(cache)' = Count(cache) =>
               /\ (noted \cap Cache!payload(watched))' \subseteq noted \cap Cache!payload(watched)
               /\ watched[1] = "incidents" \/ cache'.loaded = cache.loaded
    PROVE  Old(page.version)' /\ FreshPage(page)'
<1>1. /\ Old(page.version)'
      /\ page.version = <<watched, Root(cache), Count(cache)>>' =>
             /\ Root(cache)' = Root(cache) /\ Count(cache)' = Count(cache)
             /\ page.version = <<watched, Root(cache), Count(cache)>>
  BY OldStaysOld
<1>2. ASSUME page.version = <<watched, Root(cache), Count(cache)>>'
      PROVE  /\ (noted \cap Cache!payload(watched))' \subseteq page.changes
             /\ cache'.loaded # None /\ watched'[1] # "incidents" => page.schedule >= cache'.loaded
  <2>1. /\ Root(cache)' = Root(cache) /\ Count(cache)' = Count(cache)
        /\ page.version = <<watched, Root(cache), Count(cache)>>
    BY <1>1, <1>2
  <2>2. /\ noted \cap Cache!payload(watched) \subseteq page.changes
        /\ cache.loaded # None /\ watched[1] # "incidents" => page.schedule >= cache.loaded
    BY <2>1 DEF FreshPage
  <2>3. /\ (noted \cap Cache!payload(watched))' \subseteq noted \cap Cache!payload(watched)
        /\ watched[1] = "incidents" \/ cache'.loaded = cache.loaded
    BY <2>1
  <2>4. watched' = watched
    BY DEF Raised
  <2> QED
    BY <2>2, <2>3, <2>4
<1>3. FreshPage(page)'
  BY <1>2 DEF FreshPage
<1> QED
  BY <1>1, <1>3

(* A step that leaves the store and the counters alone.                     *)
LEMMA QuietCounters ==
    ASSUME CacheShape, UNCHANGED <<stored, cache, noted, watched>>
    PROVE  Raised /\ Root(cache)' = Root(cache) /\ Count(cache)' = Count(cache)
           /\ Cache!payload(watched)' = Cache!payload(watched)
           /\ APage /\ CacheState(cache)
<1>1. APage /\ CacheState(cache) /\ Root(cache) \in Nat /\ Count(cache) \in Nat
  BY RoutesArePages, CountersCount DEF CacheShape
<1>2. Root(cache)' = Root(cache) /\ Count(cache)' = Count(cache)
  BY DEF Root, Count
<1>3. Cache!payload(watched)' = Cache!payload(watched)
  BY DEF Cache!payload
<1> QED
  BY <1>1, <1>2, <1>3 DEF Raised

LEMMA QuietVersions ==
    ASSUME CacheShape, UNCHANGED <<stored, cache, noted, watched>>
    PROVE  /\ \A v : Old(v) => Old(v)'
           /\ \A page : Old(page.version) /\ FreshPage(page) => FreshPage(page)'
<1>1. /\ Raised /\ Root(cache)' = Root(cache) /\ Count(cache)' = Count(cache)
      /\ Cache!payload(watched)' = Cache!payload(watched)
  BY QuietCounters
<1>2. ASSUME NEW v, Old(v) PROVE Old(v)'
  BY <1>1, <1>2, OldStaysOld
<1>3. ASSUME NEW page, Old(page.version), FreshPage(page) PROVE FreshPage(page)'
  <2>1. (noted \cap Cache!payload(watched))' \subseteq noted \cap Cache!payload(watched)
        /\ cache'.loaded = cache.loaded
    BY <1>1
  <2> QED
    BY <1>1, <1>3, <2>1, FreshStaysFresh
<1> QED
  BY <1>2, <1>3

(* A handler's change raises the counters of the pages that show it.        *)
LEMMA NoteKeeps == CacheInv /\ (\E w \in Writers : Cache!NoteChange(w)) => CacheInv'
<1> SUFFICES ASSUME CacheShape, VersionsAreOld, NEW w \in Writers, Cache!NoteChange(w) PROVE CacheInv'
  BY DEF CacheInv
<1> DEFINE n == writer[w]
<1> DEFINE what == stored[n]
<1>1. n \in Cache!Changes /\ what # None /\ AChange(what) /\ APage /\ CacheState(cache)
  BY RoutesArePages DEF Cache!NoteChange, CacheShape
<1>2. /\ cache' = Noted(what) /\ saved' \in {cache', saved}
      /\ noted' = noted \cup {n} /\ writer' = [writer EXCEPT ![w] = None]
      /\ UNCHANGED <<edition, stored, rolledBack, client, kept, restarts, watched>>
  <2>1. CASE what.kind = "report"
    BY <2>1 DEF Cache!NoteChange, Cache!saveLocked, Noted
  <2>2. CASE what.kind = "sighting"
    BY <2>2 DEF Cache!NoteChange, Cache!saveLocked, Noted
  <2>3. CASE what.kind = "update"
    BY <2>3 DEF Cache!NoteChange, Cache!saveLocked, Noted
  <2> QED
    BY <1>1, <2>1, <2>2, <2>3 DEF AChange
<1>3. /\ CacheState(cache') /\ cache'.loaded = cache.loaded
      /\ Root(cache') = Root(cache) /\ Count(cache') >= Count(cache)
      /\ Cache!reads(watched, what) => Count(cache') > Count(cache)
  BY <1>1, <1>2, NotesCount
<1>4. /\ Root(cache)' = Root(cache') /\ Count(cache)' = Count(cache')
      /\ Root(cache') \in Nat /\ Count(cache') \in Nat
      /\ Root(cache) \in Nat /\ Count(cache) \in Nat
  <2>1. Root(cache)' = Root(cache') /\ Count(cache)' = Count(cache')
    BY <1>2 DEF Root, Count
  <2> QED
    BY <1>1, <1>3, <2>1, CountersCount DEF APage, CacheState, Root, Count
<1>5. Raised
  BY <1>2, <1>3, <1>4 DEF Raised
<1>6. Count(cache)' = Count(cache) =>
          (noted \cap Cache!payload(watched))' \subseteq noted \cap Cache!payload(watched)
  <2>1. Cache!payload(watched)' = Cache!payload(watched)
    BY <1>2 DEF Cache!payload
  <2>2. n \in Cache!payload(watched) => Count(cache)' # Count(cache)
    BY <1>1, <1>3, <1>4 DEF Cache!payload
  <2> QED
    BY <1>2, <2>1, <2>2
<1>7. VersionsAreOld'
  <2> SUFFICES ASSUME ~rolledBack'
               PROVE  /\ \A c \in Clients : client'[c].pc = "payload" => Old(client[c].cv)'
                      /\ \A page \in kept' : Old(page.version)' /\ FreshPage(page)'
    BY DEF VersionsAreOld
  <2>1. ASSUME NEW c \in Clients, client[c].pc = "payload" PROVE Old(client[c].cv)'
    <3>1. Old(client[c].cv) /\ client' = client
      BY <1>2, <2>1 DEF VersionsAreOld
    <3> QED
      BY <1>5, <3>1, OldStaysOld DEF Old, Raised
  <2>2. ASSUME NEW page \in kept PROVE Old(page.version)' /\ FreshPage(page)'
    BY <1>2, <1>3, <1>5, <1>6, <2>2, FreshStaysFresh DEF VersionsAreOld
  <2> QED
    BY <1>2, <2>1, <2>2
<1>8. CacheShape'
  <2>1. CacheState(cache)' /\ CacheState(saved)'
    BY <1>2, <1>3 DEF CacheShape, CacheState
  <2>2. \A state \in {cache', saved'} : state.loaded # None => state.loaded <= edition'
    BY <1>2, <1>3 DEF CacheShape
  <2>3. noted' \subseteq Cache!Changes /\ \A m \in noted' : stored'[m] # None
    BY <1>1, <1>2 DEF CacheShape
  <2>4. /\ DOMAIN writer' = Writers
        /\ \A x \in Writers : writer'[x] # None => writer'[x] \in Cache!Changes /\ stored'[writer'[x]] # None
    BY <1>2 DEF CacheShape
  <2> QED
    BY <1>2, <2>1, <2>2, <2>3, <2>4 DEF CacheShape, AChange
<1> QED
  BY <1>7, <1>8 DEF CacheInv

(* A change that is not noted yet is shown by no promise.                   *)
LEMMA SubmitKeeps == CacheInv /\ (\E w \in Writers : Cache!SubmitChange(w)) => CacheInv'
<1> SUFFICES ASSUME CacheShape, VersionsAreOld, NEW w \in Writers, Cache!SubmitChange(w) PROVE CacheInv'
  BY DEF CacheInv
<1>1. /\ writer[w] = None
      /\ UNCHANGED <<edition, cache, saved, rolledBack, noted, client, kept, restarts, watched>>
  BY DEF Cache!SubmitChange
<1>2. PICK what \in Cache!Whats, n \in Cache!Changes :
          /\ \A m \in Cache!Changes : stored[m] = None <=> m >= n
          /\ stored' = [stored EXCEPT ![n] = what]
          /\ writer' = [writer EXCEPT ![w] = n]
  BY DEF Cache!SubmitChange
<1>3. AChange(what) /\ n \notin noted
  BY <1>2, WhatsAreChanges DEF CacheShape, Cache!Changes
<1>4. what # None
  BY PageAssumption
<1>5. APage /\ CacheState(cache) /\ Root(cache) \in Nat /\ Count(cache) \in Nat
  BY RoutesArePages, CountersCount DEF CacheShape
<1>6. Root(cache)' = Root(cache) /\ Count(cache)' = Count(cache)
  BY <1>1 DEF Root, Count
<1>7. Raised
  BY <1>1, <1>5, <1>6 DEF Raised
<1>8. (noted \cap Cache!payload(watched))' \subseteq noted \cap Cache!payload(watched)
  BY <1>1, <1>2, <1>3 DEF Cache!payload, CacheShape
<1>9. VersionsAreOld'
  <2>1. ASSUME NEW v, Old(v) PROVE Old(v)'
    BY <1>7, <2>1, OldStaysOld
  <2>2. ASSUME NEW page, Old(page.version), FreshPage(page) PROVE Old(page.version)' /\ FreshPage(page)'
    BY <1>1, <1>7, <1>8, <2>2, FreshStaysFresh
  <2> QED
    BY <1>1, <2>1, <2>2 DEF VersionsAreOld
<1>10. CacheShape'
  <2>1. /\ DOMAIN stored' = Cache!Changes /\ stored'[n] = what
        /\ \A m \in Cache!Changes : m # n => stored'[m] = stored[m]
    BY <1>2 DEF CacheShape
  <2>2. \A m \in Cache!Changes : stored'[m] = None \/ AChange(stored'[m])
    BY <1>3, <2>1 DEF CacheShape
  <2>3. \A m \in noted' : stored'[m] # None
    BY <1>1, <1>3, <2>1 DEF CacheShape
  <2>4. /\ DOMAIN writer' = Writers
        /\ \A x \in Writers : writer'[x] # None => writer'[x] \in Cache!Changes /\ stored'[writer'[x]] # None
    BY <1>2, <1>4, <2>1 DEF CacheShape
  <2> QED
    BY <1>1, <2>1, <2>2, <2>3, <2>4 DEF CacheShape, CacheState, AChange
<1> QED
  BY <1>9, <1>10 DEF CacheInv

(* Another schedule makes every version that was handed out an old one.     *)
LEMMA SyncKeeps == CacheInv /\ (\E c \in Clients : Cache!SyncSchedule(c)) => CacheInv'
<1> SUFFICES ASSUME CacheShape, VersionsAreOld, NEW c \in Clients, Cache!SyncSchedule(c) PROVE CacheInv'
  BY DEF CacheInv
<1> DEFINE s == client[c].schedule
<1>1. s \in Nat /\ s <= edition /\ edition \in Nat /\ APage /\ CacheState(cache)
  BY RoutesArePages DEF Cache!SyncSchedule, CacheShape
<1>2. /\ cache' = Cache!syncLoadedSchedule(s) /\ saved' \in {cache', saved}
      /\ client' = [client EXCEPT ![c].pc = "version", ![c].schedule = None]
      /\ UNCHANGED <<edition, stored, rolledBack, noted, writer, kept, restarts, watched>>
  BY DEF Cache!SyncSchedule, Cache!saveLocked
<1>3. /\ CacheState(cache') /\ cache'.loaded \in {cache.loaded, s}
      /\ \/ cache' = cache
         \/ Root(cache') > Root(cache)
         \/ Root(cache') = Root(cache) /\ Count(cache') > Count(cache)
  BY <1>1, <1>2, SyncCounts
<1>4. /\ Root(cache)' = Root(cache') /\ Count(cache)' = Count(cache')
      /\ Root(cache') \in Nat /\ Count(cache') \in Nat
      /\ Root(cache) \in Nat /\ Count(cache) \in Nat
  <2>1. Root(cache)' = Root(cache') /\ Count(cache)' = Count(cache')
    BY <1>2 DEF Root, Count
  <2> QED
    BY <1>1, <1>3, <2>1, CountersCount DEF APage, CacheState, Root, Count
<1>5. Raised
  BY <1>2, <1>3, <1>4 DEF Raised
<1>6. Root(cache)' = Root(cache) /\ Count(cache)' = Count(cache) =>
          /\ (noted \cap Cache!payload(watched))' \subseteq noted \cap Cache!payload(watched)
          /\ cache'.loaded = cache.loaded
  <2>1. Cache!payload(watched)' = Cache!payload(watched)
    BY <1>2 DEF Cache!payload
  <2> QED
    BY <1>2, <1>3, <1>4, <2>1
<1>7. \A x \in Clients :
          /\ DOMAIN client'[x] = {"pc", "cv", "schedule"}
          /\ client'[x].cv = client[x].cv
          /\ client'[x].pc \in {"payload", "sync"} => client'[x] = client[x]
  BY <1>2 DEF CacheShape
<1>8. VersionsAreOld'
  <2>1. ASSUME NEW v, Old(v) PROVE Old(v)'
    BY <1>5, <2>1, OldStaysOld
  <2>2. ASSUME NEW page, Old(page.version), FreshPage(page) PROVE Old(page.version)' /\ FreshPage(page)'
    BY <1>5, <1>6, <2>2, FreshStaysFresh
  <2>3. ~rolledBack' => /\ \A x \in Clients : client'[x].pc = "payload" => Old(client[x].cv)'
                        /\ \A page \in kept' : Old(page.version)' /\ FreshPage(page)'
    BY <1>2, <1>7, <2>1, <2>2 DEF VersionsAreOld
  <2> QED
    BY <2>3 DEF VersionsAreOld
<1>9. CacheShape'
  <2>1. CacheState(cache)' /\ CacheState(saved)'
    BY <1>2, <1>3 DEF CacheShape, CacheState
  <2>2. \A state \in {cache', saved'} : state.loaded # None => state.loaded <= edition'
    BY <1>1, <1>2, <1>3 DEF CacheShape
  <2>3. DOMAIN client' = Clients /\ \A x \in Clients : DOMAIN client'[x] = {"pc", "cv", "schedule"}
        /\ (client'[x].pc = "sync" => client'[x].schedule \in Nat /\ client'[x].schedule <= edition')
    BY <1>2, <1>7 DEF CacheShape
  <2> QED
    BY <1>2, <2>1, <2>2, <2>3 DEF CacheShape, AChange
<1> QED
  BY <1>8, <1>9 DEF CacheInv

(* The restart: the counters of the file.                                   *)
LEMMA LoadKeeps == CacheInv /\ Cache!load => CacheInv'
<1> SUFFICES ASSUME CacheShape, VersionsAreOld, Cache!load PROVE CacheInv'
  BY DEF CacheInv
<1>1. /\ cache' = saved /\ rolledBack' = (rolledBack \/ saved # cache)
      /\ client' = [c \in Clients |-> [pc |-> "idle", cv |-> None, schedule |-> None]]
      /\ writer' = [w \in Writers |-> None]
      /\ UNCHANGED <<edition, stored, saved, noted, kept, watched>>
  BY DEF Cache!load, Cache!idleClient
<1>2. \A c \in Clients : DOMAIN client'[c] = {"pc", "cv", "schedule"} /\ client'[c].pc = "idle"
  BY <1>1
<1>3. CacheShape'
  BY <1>1, <1>2 DEF CacheShape, CacheState, AChange
<1>4. VersionsAreOld'
  <2> SUFFICES ASSUME ~rolledBack'
               PROVE  \A page \in kept' : Old(page.version)' /\ FreshPage(page)'
    BY <1>2 DEF VersionsAreOld
  <2>1. ~rolledBack /\ cache' = cache
    BY <1>1
  <2>2. UNCHANGED <<stored, cache, noted, watched>>
    BY <1>1, <2>1
  <2> QED
    BY <1>1, <2>1, <2>2, QuietVersions DEF VersionsAreOld
<1> QED
  BY <1>3, <1>4 DEF CacheInv

(* A request goes one step on, and the edge keeps what it is given.         *)
LEMMA RequestsKeep ==
    CacheInv /\ Cache!Next =>
        \/ \E w \in Writers : Cache!SubmitChange(w) \/ Cache!NoteChange(w)
        \/ \E c \in Clients : Cache!SyncSchedule(c)
        \/ Cache!load
        \/ CacheInv'
<1> SUFFICES ASSUME CacheShape, VersionsAreOld,
                    \/ Cache!PublishSchedule \/ Cache!httpMaxAge
                    \/ \E c \in Clients : \/ Cache!publicEdgeCacheScheduleState(c) \/ Cache!beginPublicEdgeCache(c)
                                          \/ Cache!writePublicJSON(c) \/ Cache!AnswerUncached(c)
             PROVE  CacheInv'
  BY DEF CacheInv, Cache!Next
<1>1. UNCHANGED <<stored, cache, saved, rolledBack, noted, writer, watched>>
  BY DEF Cache!PublishSchedule, Cache!httpMaxAge, Cache!publicEdgeCacheScheduleState,
         Cache!beginPublicEdgeCache, Cache!writePublicJSON, Cache!AnswerUncached
<1>2. /\ \A v : Old(v) => Old(v)'
      /\ \A page : Old(page.version) /\ FreshPage(page) => FreshPage(page)'
  BY <1>1, QuietVersions
<1>3. /\ Root(cache)' = Root(cache) /\ Count(cache)' = Count(cache)
      /\ Cache!payload(watched)' = Cache!payload(watched)
      /\ APage /\ CacheState(cache) /\ Root(cache) \in Nat /\ Count(cache) \in Nat
  BY <1>1, QuietCounters, CountersCount
<1>4. edition \in Nat /\ edition' \in Nat /\ edition' >= edition
  <2>1. edition' = edition \/ edition' = edition + 1
    BY Zenon DEF Cache!PublishSchedule, Cache!httpMaxAge, Cache!publicEdgeCacheScheduleState,
                 Cache!beginPublicEdgeCache, Cache!writePublicJSON, Cache!AnswerUncached
  <2> QED
    BY <2>1 DEF CacheShape
<1>5. ASSUME DOMAIN client' = Clients,
             \A x \in Clients : /\ DOMAIN client'[x] = {"pc", "cv", "schedule"}
                                /\ client'[x].pc = "sync" => \/ client'[x] = client[x]
                                                             \/ client'[x].schedule = edition
      PROVE  CacheShape'
  <2>1. \A x \in Clients : client'[x].pc = "sync" => client'[x].schedule \in Nat /\ client'[x].schedule <= edition'
    BY <1>4, <1>5 DEF CacheShape
  <2>2. \A state \in {cache', saved'} : state.loaded # None => state.loaded <= edition'
    BY <1>1, <1>4 DEF CacheShape, CacheState
  <2> QED
    BY <1>1, <1>4, <1>5, <2>1, <2>2 DEF CacheShape, CacheState, AChange
<1>6. CASE Cache!PublishSchedule
  <2>1. UNCHANGED <<client, kept>>
    BY <1>6 DEF Cache!PublishSchedule
  <2>2. CacheShape'
    BY <1>5, <2>1 DEF CacheShape
  <2>3. VersionsAreOld'
    BY <1>1, <1>2, <2>1 DEF VersionsAreOld
  <2> QED
    BY <2>2, <2>3 DEF CacheInv
<1>7. CASE Cache!httpMaxAge
  <2>1. client' = client /\ kept' = {}
    BY <1>7 DEF Cache!httpMaxAge
  <2>2. CacheShape'
    BY <1>5, <2>1 DEF CacheShape
  <2>3. VersionsAreOld'
    BY <1>1, <1>2, <2>1 DEF VersionsAreOld
  <2> QED
    BY <2>2, <2>3 DEF CacheInv
<1>8. ASSUME NEW c \in Clients, Cache!publicEdgeCacheScheduleState(c) PROVE CacheInv'
  <2>1. /\ client' = [client EXCEPT ![c] = [pc |-> "sync", cv |-> client[c].cv, schedule |-> edition]]
        /\ kept' = kept
    BY <1>8 DEF Cache!publicEdgeCacheScheduleState
  <2>2. CacheShape'
    BY <1>5, <2>1 DEF CacheShape
  <2>3. VersionsAreOld'
    <3>1. \A x \in Clients : client'[x].pc = "payload" => client'[x] = client[x]
      BY <2>1 DEF CacheShape
    <3> QED
      BY <1>1, <1>2, <2>1, <3>1 DEF VersionsAreOld
  <2> QED
    BY <2>2, <2>3 DEF CacheInv
<1>9. ASSUME NEW c \in Clients, Cache!beginPublicEdgeCache(c) PROVE CacheInv'
  <2> DEFINE version == Cache!versionFor(watched)
  <2>1. /\ client' = [client EXCEPT ![c].pc = IF client[c].cv = version THEN "payload" ELSE "redirected",
                                    ![c].cv = version]
        /\ kept' = kept
    BY <1>9 DEF Cache!beginPublicEdgeCache
  <2>2. version = <<watched, Root(cache), Count(cache)>>
    BY <1>3, VersionIsCounters
  <2>3. Old(version)
    BY <1>3, <2>2 DEF Old
  <2> HIDE DEF version
  <2>4. \A x \in Clients : /\ DOMAIN client'[x] = {"pc", "cv", "schedule"}
                           /\ client'[x].pc \in {"payload", "sync"} => \/ client'[x] = client[x]
                                                                       \/ client'[x].pc = "payload" /\ client'[x].cv = version
    BY <2>1 DEF CacheShape
  <2>5. CacheShape'
    <3>1. DOMAIN client' = Clients
      BY <2>1 DEF CacheShape
    <3> QED
      BY <1>5, <2>4, <3>1
  <2>6. ASSUME NEW x \in Clients, ~rolledBack, client'[x].pc = "payload" PROVE Old(client'[x].cv)
    BY <2>3, <2>4, <2>6 DEF VersionsAreOld
  <2>7. VersionsAreOld'
    BY <1>1, <1>2, <2>1, <2>6 DEF VersionsAreOld
  <2> QED
    BY <2>5, <2>7 DEF CacheInv
<1>10. ASSUME NEW c \in Clients, Cache!writePublicJSON(c) PROVE CacheInv'
  <2> DEFINE new == [version |-> client[c].cv, schedule |-> edition, changes |-> Cache!payload(watched)]
  <2>1. /\ client[c].pc = "payload" /\ kept' = {new} /\ edition' = edition
        /\ client' = [client EXCEPT ![c] = [pc |-> "idle", cv |-> None, schedule |-> None]]
    BY <1>10 DEF Cache!writePublicJSON, Cache!idleClient
  <2>2. \A x \in Clients : /\ DOMAIN client'[x] = {"pc", "cv", "schedule"}
                           /\ client'[x].pc \in {"payload", "sync"} => client'[x] = client[x]
    BY <2>1 DEF CacheShape
  <2>3. CacheShape'
    <3>1. DOMAIN client' = Clients
      BY <2>1 DEF CacheShape
    <3> QED
      BY <1>5, <2>2, <3>1
  <2>4. ~rolledBack => Old(new.version) /\ FreshPage(new)
    <3>1. ~rolledBack => Old(new.version)
      BY <2>1 DEF VersionsAreOld
    <3>2. FreshPage(new)
      BY DEF FreshPage, CacheShape
    <3> QED
      BY <3>1, <3>2
  <2> HIDE DEF new
  <2>5. VersionsAreOld'
    <3>1. ~rolledBack => \A x \in Clients : client'[x].pc = "payload" => Old(client'[x].cv)
      BY <2>2 DEF VersionsAreOld
    <3>2. ~rolledBack => \A page \in kept' : Old(page.version) /\ FreshPage(page)
      BY <2>1, <2>4
    <3> QED
      BY <1>1, <1>2, <3>1, <3>2 DEF VersionsAreOld
  <2> QED
    BY <2>3, <2>5 DEF CacheInv
<1>11. ASSUME NEW c \in Clients, Cache!AnswerUncached(c) PROVE CacheInv'
  <2>1. /\ client' = [client EXCEPT ![c] = [pc |-> "idle", cv |-> None, schedule |-> None]]
        /\ kept' = kept
    BY <1>11 DEF Cache!AnswerUncached, Cache!idleClient
  <2>2. \A x \in Clients : /\ DOMAIN client'[x] = {"pc", "cv", "schedule"}
                           /\ client'[x].pc \in {"payload", "sync"} => client'[x] = client[x]
    BY <2>1 DEF CacheShape
  <2>3. CacheShape'
    <3>1. DOMAIN client' = Clients
      BY <2>1 DEF CacheShape
    <3> QED
      BY <1>5, <2>2, <3>1
  <2>4. VersionsAreOld'
    BY <1>1, <1>2, <2>1, <2>2 DEF VersionsAreOld
  <2> QED
    BY <2>3, <2>4 DEF CacheInv
<1> QED
  BY <1>6, <1>7, <1>8, <1>9, <1>10, <1>11

LEMMA CacheSteps == CacheInv /\ Cache!Next => CacheInv'
BY NoteKeeps, SubmitKeeps, SyncKeeps, LoadKeeps, RequestsKeep

(* What the edge keeps under the version a request is sent to now holds     *)
(* every change whose writer has raised the counters, and is no older than  *)
(* the loaded schedule: a later counter, a new schedule or a restart that   *)
(* lost nothing makes the older copies unreachable (public_edge_cache.go    *)
(* noteReportAccepted, syncLoadedSchedule, load).                           *)
THEOREM RaisedCountersHide == TrainSpec => []CurrentVersionIsFresh
<1> DEFINE Inv == Paged => CacheInv
<1>1. TrainInit => Inv
  BY CacheStarts DEF TrainInit, Scraped, Imported, Queried, Scheduled, Bundled, Paged, Alerted, Reported, Chatted, LoggedIn
<1>2. Inv /\ [TrainNext]_TrainVars => Inv'
  <2> SUFFICES ASSUME Inv, [TrainNext]_TrainVars, Paged'
               PROVE  CacheInv'
    OBVIOUS
  <2>1. Paged /\ CacheInv /\ (UNCHANGED cacheVars \/ Cache!Next)
    BY DEF TrainNext, TrainVars, Scraped, Imported, Queried, Scheduled, Bundled, Paged, Alerted, Reported, Chatted, LoggedIn
  <2>2. CASE UNCHANGED cacheVars
    <3>1. /\ UNCHANGED <<edition, stored, cache, saved, rolledBack, noted, client, writer, kept, watched>>
          /\ CacheShape /\ VersionsAreOld
      BY <2>1, <2>2 DEF cacheVars, CacheInv
    <3>2. CacheShape'
      BY <3>1 DEF CacheShape, CacheState, AChange
    <3>3. VersionsAreOld'
      BY <3>1, QuietVersions DEF VersionsAreOld
    <3> QED
      BY <3>2, <3>3 DEF CacheInv
  <2>3. CASE Cache!Next
    BY <2>1, <2>3, CacheSteps
  <2> QED
    BY <2>1, <2>2, <2>3
<1>3. Inv => CurrentVersionIsFresh
  <2> SUFFICES ASSUME CacheShape, VersionsAreOld, ~rolledBack, NEW page \in kept,
                      page.version = Cache!versionFor(watched)
               PROVE  /\ noted \cap Cache!payload(watched) \subseteq page.changes
                      /\ cache.loaded # None /\ watched[1] # "incidents" => page.schedule >= cache.loaded
    BY DEF CurrentVersionIsFresh, Cache!CurrentVersionIsFresh, CacheInv
  <2>1. Cache!versionFor(watched) = <<watched, Root(cache), Count(cache)>>
    BY RoutesArePages, VersionIsCounters DEF CacheShape
  <2> QED
    BY <2>1 DEF VersionsAreOld, FreshPage
<1> QED
  BY <1>1, <1>2, <1>3, PTL DEF TrainSpec
(***************************************************************************)
(* The reports and votes.                                                   *)
(***************************************************************************)

(* A request under way has not outlived MaxAge.                             *)
PolicyRequests ==
    /\ clock \in Nat /\ DOMAIN request = Requests
    /\ \A q \in Requests :
        /\ DOMAIN request[q] = {"pc", "kind", "user", "subject", "value", "at", "answer"}
        /\ request[q].pc # "idle" =>
             /\ request[q].user \in Users /\ request[q].at \in Nat
             /\ clock <= request[q].at + MaxAge

(* Only reports too old for any request still to come are gone, and those   *)
(* of a user on a subject that are left have a last one.                    *)
Matches(r, w) == r.user = w.user /\ r.subject = w.subject
KeptReports ==
    /\ IsFiniteSet(accepted) /\ reportRows \subseteq accepted
    /\ \A r \in accepted : r.at \in Nat
    /\ \A r \in accepted : r \notin reportRows => r.at + Retention < clock
    /\ \A w \in reportRows : \E r \in reportRows :
         /\ Matches(r, w)
         /\ \A x \in reportRows : Matches(x, w) => x.at <= r.at

(* A user's vote on an incident is the last that user cast on it.           *)
Same(e, v) == e.user = v.user /\ e.incident = v.incident
IsLast(e, v) ==
    /\ Same(e, v) /\ e.value = v.value /\ e.at = v.updated
    /\ \A x \in voteEvents : Same(x, v) /\ x # e => x.at < e.at
CurrentVotes ==
    /\ IsFiniteSet(voteRows)
    /\ \A v \in voteRows : v.user \in Users /\ v.updated \in Nat
    /\ \A v, x \in voteRows : Same(v, x) => v = x
    /\ \A e \in voteEvents : e.at \in Nat
    /\ \A v \in voteRows : \E e \in voteEvents : IsLast(e, v)
    /\ \A e \in voteEvents : \E v \in voteRows : Same(e, v)

PolicyInv ==
    /\ PolicyRequests /\ KeptReports /\ CurrentVotes /\ Incidents!ReportRateIsBounded

LEMMA SameCardinality == \A S : Incidents!Cardinality(S) = Cardinality(S)
BY DEF Incidents!Cardinality, Cardinality

LEMMA PolicyStarts == Incidents!Init => PolicyInv
<1> SUFFICES ASSUME Incidents!Init PROVE PolicyInv
  OBVIOUS
<1> USE DEF Incidents!Init
<1>1. PolicyRequests
  BY DEF PolicyRequests, Incidents!Idle
<1>2. KeptReports /\ CurrentVotes
  BY FS_EmptySet DEF KeptReports, CurrentVotes
<1>3. Incidents!ReportRateIsBounded
  <2> SUFFICES ASSUME NEW u \in Users, NEW from \in 0 .. MaxTime
               PROVE  Incidents!Cardinality(Incidents!Within({r \in accepted : r.user = u}, from, ActionWindow)) <= ActionLimit
    BY DEF Incidents!ReportRateIsBounded
  <2>1. Incidents!Within({r \in accepted : r.user = u}, from, ActionWindow) = {}
    BY DEF Incidents!Within
  <2> QED BY <2>1, FS_EmptySet, SameCardinality, ReportAssumption
<1> QED BY <1>1, <1>2, <1>3 DEF PolicyInv

(* A report that is accepted comes a cooldown after all of its user on its  *)
(* subject, those that were deleted included.                               *)
LEMMA ReportKeepsRate ==
    ASSUME PolicyInv, NEW q \in Requests, Incidents!SubmitReportEvent(q)
    PROVE  KeptReports' /\ Incidents!ReportRateIsBounded'
<1> DEFINE w == request[q]
           row == [user |-> w.user, subject |-> w.subject, value |-> w.value, at |-> w.at,
                   id |-> Incidents!Cardinality(accepted)]
<1>1. /\ w.at \in Nat /\ clock \in Nat /\ clock <= w.at + MaxAge
      /\ row.user = w.user /\ row.subject = w.subject /\ row.at = w.at
  BY DEF Incidents!SubmitReportEvent, PolicyInv, PolicyRequests
<1>2. \/ UNCHANGED <<reportRows, accepted, clock>>
      \/ /\ reportRows' = reportRows \cup {row} /\ accepted' = accepted \cup {row}
         /\ clock' = clock
         /\ Incidents!verdict(w) = None /\ ~Incidents!enforceReportMutationLimit(w)
  BY DEF Incidents!SubmitReportEvent
<1> HIDE DEF row
<1>3. CASE UNCHANGED <<reportRows, accepted, clock>>
  BY <1>3 DEF PolicyInv, KeptReports, Matches, Incidents!ReportRateIsBounded
<1>4. CASE /\ reportRows' = reportRows \cup {row} /\ accepted' = accepted \cup {row}
           /\ clock' = clock
           /\ Incidents!verdict(w) = None /\ ~Incidents!enforceReportMutationLimit(w)
  <2>0. KeptReports /\ Incidents!ReportRateIsBounded
    BY DEF PolicyInv
  <2>1. \A r \in reportRows : Matches(r, w) => r.at + Cooldown <= w.at \/ Cooldown = 0
    <3> SUFFICES ASSUME NEW r \in reportRows, Matches(r, w), Cooldown # 0
                 PROVE  r.at + Cooldown <= w.at
      OBVIOUS
    <3> DEFINE mine == Incidents!SameScope(w)
               final == Incidents!LastOf(mine)
    <3>1. r \in mine /\ mine = {x \in reportRows : Matches(x, w)}
      BY DEF Incidents!SameScope, Matches
    <3>2. \E y \in mine : \A x \in mine : x.at <= y.at
      BY <2>0, <3>1 DEF KeptReports, Matches
    <3>3. final \in mine /\ \A x \in mine : x.at <= final.at
      BY <3>2 DEF Incidents!LastOf
    <3>4. Incidents!nonNegativeDuration(w.at, final.at) >= Cooldown
      <4>1. mine # {}
        BY <3>1
      <4>2. ~(Incidents!nonNegativeDuration(w.at, final.at) < Cooldown)
        BY <1>4, <4>1, ReportAssumption DEF Incidents!verdict
      <4>3. Incidents!nonNegativeDuration(w.at, final.at) \in Nat
        BY <1>1, <2>0, <3>1, <3>3 DEF Incidents!nonNegativeDuration, KeptReports
      <4> QED BY <4>2, <4>3, ReportAssumption
    <3>5. r.at <= final.at /\ final.at \in Nat /\ r.at \in Nat
      BY <2>0, <3>1, <3>3 DEF KeptReports
    <3>6. w.at >= final.at + Cooldown
      BY <1>1, <3>4, <3>5, ReportAssumption DEF Incidents!nonNegativeDuration
    <3> QED BY <1>1, <3>5, <3>6, ReportAssumption
  <2>2. \A r \in accepted : Matches(r, w) => r.at + Cooldown <= w.at \/ Cooldown = 0
    <3> SUFFICES ASSUME NEW r \in accepted, Matches(r, w), r \notin reportRows
                 PROVE  r.at + Cooldown <= w.at
      BY <2>1
    <3>1. r.at \in Nat /\ r.at + Retention < clock
      BY <2>0 DEF KeptReports
    <3> QED BY <1>1, <3>1, ReportAssumption
  <2>3. KeptReports'
    <3>1. IsFiniteSet(accepted') /\ reportRows' \subseteq accepted' /\ \A r \in accepted' : r.at \in Nat
      BY <1>1, <1>4, <2>0, FS_AddElement DEF KeptReports
    <3>2. \A r \in accepted' : r \notin reportRows' => r.at + Retention < clock'
      BY <1>4, <2>0 DEF KeptReports
    <3>3. ASSUME NEW x \in reportRows'
          PROVE  \E r \in reportRows' : /\ Matches(r, x)
                                         /\ \A y \in reportRows' : Matches(y, x) => y.at <= r.at
      <4>1. CASE Matches(x, w)
        <5>1. CASE \A y \in reportRows : Matches(y, w) => y.at <= w.at
          BY <1>1, <1>4, <4>1, <5>1 DEF Matches
        <5>2. CASE ~(\A y \in reportRows : Matches(y, w) => y.at <= w.at)
          <6>1. PICK y \in reportRows : Matches(y, w) /\ ~(y.at <= w.at)
            BY <5>2
          <6>2. PICK r \in reportRows : /\ Matches(r, y)
                                        /\ \A z \in reportRows : Matches(z, y) => z.at <= r.at
            BY <2>0 DEF KeptReports
          <6>3. y.at <= r.at /\ y.at \in Nat /\ r.at \in Nat
            BY <2>0, <6>2 DEF KeptReports, Matches
          <6>4. w.at <= r.at
            BY <1>1, <6>1, <6>3
          <6> QED BY <1>1, <1>4, <4>1, <6>1, <6>2, <6>4 DEF Matches
        <5> QED BY <5>1, <5>2
      <4>2. CASE ~Matches(x, w)
        <5>1. x \in reportRows
          BY <1>1, <1>4, <4>2 DEF Matches
        <5>2. PICK r \in reportRows : /\ Matches(r, x)
                                      /\ \A z \in reportRows : Matches(z, x) => z.at <= r.at
          BY <2>0, <5>1 DEF KeptReports
        <5> QED BY <1>1, <1>4, <4>2, <5>2 DEF Matches
      <4> QED BY <4>1, <4>2
    <3> QED BY <3>1, <3>2, <3>3 DEF KeptReports
  <2>4. ASSUME NEW u \in Users, NEW from \in 0 .. MaxTime
        PROVE  Cardinality(Incidents!Within({r \in accepted' : r.user = u}, from, ActionWindow)) <= ActionLimit
    <3> DEFINE old == Incidents!Within({r \in accepted : r.user = u}, from, ActionWindow)
               new == Incidents!Within({r \in accepted' : r.user = u}, from, ActionWindow)
    <3>1. IsFiniteSet(old) /\ Cardinality(old) \in Nat /\ Cardinality(old) <= ActionLimit
      <4>1. old \subseteq accepted
        BY DEF Incidents!Within
      <4>2. IsFiniteSet(old)
        BY <2>0, <4>1, FS_Subset DEF KeptReports
      <4> QED BY <2>0, <4>2, FS_CardinalityType, SameCardinality DEF Incidents!ReportRateIsBounded
    <3>2. CASE new \subseteq old
      BY <3>1, <3>2, FS_Subset, FS_CardinalityType, ReportAssumption
    <3>3. CASE ~(new \subseteq old)
      <4>1. u = w.user /\ w.at >= from /\ w.at <= from + ActionWindow
        BY <1>1, <1>4, <3>3 DEF Incidents!Within
      <4>2. new \subseteq old \cup {row}
        BY <1>4 DEF Incidents!Within
      <4> DEFINE recent == {r \in Incidents!Since(reportRows, w.at, ActionWindow) : r.user = w.user}
      <4>3. old \subseteq recent
        <5> SUFFICES ASSUME NEW r \in old PROVE r \in recent
          OBVIOUS
        <5>1. r \in accepted /\ r.user = u /\ r.at >= from /\ r.at \in Nat /\ from \in Int
          BY <2>0 DEF Incidents!Within, KeptReports
        <5>2. r.at + ActionWindow >= w.at
          BY <1>1, <4>1, <5>1, ReportAssumption
        <5>3. r \in reportRows
          <6> SUFFICES ASSUME r \notin reportRows PROVE FALSE
            OBVIOUS
          <6>1. r.at + Retention < clock
            BY <2>0, <5>1 DEF KeptReports
          <6> QED BY <1>1, <5>1, <5>2, <6>1, ReportAssumption
        <5> QED BY <4>1, <5>1, <5>2, <5>3 DEF Incidents!Since
      <4>4. IsFiniteSet(recent) /\ Cardinality(recent) \in Nat
        <5>1. recent \subseteq accepted
          BY <2>0 DEF Incidents!Since, KeptReports
        <5> QED BY <2>0, <5>1, FS_Subset, FS_CardinalityType DEF KeptReports
      <4>5. Cardinality(recent) < ActionLimit
        <5>1. ~(Cardinality(recent) >= ActionLimit)
          BY <1>4, SameCardinality DEF Incidents!enforceReportMutationLimit
        <5> QED BY <4>4, <5>1, ReportAssumption
      <4> HIDE DEF recent, old, new
      <4>6. Cardinality(old) < ActionLimit
        BY <3>1, <4>3, <4>4, <4>5, FS_Subset, ReportAssumption
      <4>7. IsFiniteSet(old \cup {row}) /\ Cardinality(old \cup {row}) <= ActionLimit
        <5>1. IsFiniteSet(old \cup {row}) /\ Cardinality(old \cup {row}) \in {Cardinality(old), Cardinality(old) + 1}
          BY <3>1, FS_AddElement
        <5> QED BY <3>1, <4>6, <5>1, ReportAssumption
      <4>8. Cardinality(old \cup {row}) \in Nat /\ Cardinality(new) \in Nat /\ Cardinality(new) <= Cardinality(old \cup {row})
        BY <4>2, <4>7, FS_Subset, FS_CardinalityType
      <4>9. Cardinality(new) <= ActionLimit
        BY <4>7, <4>8, ReportAssumption
      <4> QED BY <4>9 DEF new
    <3> QED BY <3>2, <3>3
  <2>5. ASSUME NEW u \in Users, NEW r \in accepted', NEW s \in accepted',
               r.user = u, s.user = u, r.subject = s.subject, r.id # s.id
        PROVE  r.at + Cooldown <= s.at \/ s.at + Cooldown <= r.at
    <3>0. r.at \in Nat /\ s.at \in Nat
      BY <2>3 DEF KeptReports
    <3>1. CASE r = row
      <4>1. s \in accepted /\ Matches(s, w)
        BY <1>1, <1>4, <2>5, <3>1 DEF Matches
      <4> QED BY <1>1, <2>2, <3>0, <3>1, <4>1, ReportAssumption
    <3>2. CASE s = row
      <4>1. r \in accepted /\ Matches(r, w)
        BY <1>1, <1>4, <2>5, <3>2 DEF Matches
      <4> QED BY <1>1, <2>2, <3>0, <3>2, <4>1, ReportAssumption
    <3>3. CASE r # row /\ s # row
      <4>1. r \in accepted /\ s \in accepted
        BY <1>4, <3>3
      <4>2. Incidents!ReportRateIsBounded
        BY <2>0
      <4> QED BY <4>1, <4>2, <2>5 DEF Incidents!ReportRateIsBounded
    <3> QED BY <3>1, <3>2, <3>3
  <2>6. Incidents!ReportRateIsBounded'
    BY <2>4, <2>5, SameCardinality DEF Incidents!ReportRateIsBounded
  <2> QED BY <2>3, <2>6
<1> QED BY <1>2, <1>3, <1>4

(* A vote is accepted after every other of its user on its incident.        *)
LEMMA VoteStaysLast ==
    ASSUME PolicyInv, NEW q \in Requests, Incidents!SubmitIncidentVote(q)
    PROVE  CurrentVotes'
<1> DEFINE w == request[q]
           vote == [incident |-> w.subject, user |-> w.user, value |-> w.value, updated |-> w.at]
           event == [incident |-> w.subject, user |-> w.user, value |-> w.value, at |-> w.at]
<1>1. /\ w.at \in Nat /\ w.user \in Users
      /\ vote.user = w.user /\ vote.incident = w.subject /\ vote.updated = w.at /\ vote.value = w.value
      /\ event.user = w.user /\ event.incident = w.subject /\ event.at = w.at /\ event.value = w.value
  BY DEF Incidents!SubmitIncidentVote, PolicyInv, PolicyRequests
<1>2. \/ UNCHANGED <<voteRows, voteEvents>>
      \/ /\ ~Incidents!voteIsTooSoon(w)
         /\ voteRows' = (voteRows \ Incidents!CurrentVote(w)) \cup {vote}
         /\ voteEvents' = voteEvents \cup {event}
  BY DEF Incidents!SubmitIncidentVote
<1>3. CurrentVotes
  BY DEF PolicyInv
<1> HIDE DEF w, vote, event
<1>4. CASE UNCHANGED <<voteRows, voteEvents>>
  BY <1>3, <1>4 DEF CurrentVotes, IsLast, Same
<1>5. CASE /\ ~Incidents!voteIsTooSoon(w)
           /\ voteRows' = (voteRows \ Incidents!CurrentVote(w)) \cup {vote}
           /\ voteEvents' = voteEvents \cup {event}
  <2>1. \A v \in voteRows : Same(v, vote) => v.updated < w.at
    <3> SUFFICES ASSUME NEW v \in voteRows, Same(v, vote) PROVE v.updated < w.at
      OBVIOUS
    <3>1. v \in Incidents!CurrentVote(w) /\ v.updated \in Nat
      BY <1>1, <1>3 DEF Incidents!CurrentVote, Same, CurrentVotes
    <3>2. ~(Incidents!nonNegativeDuration(w.at, v.updated) < ChangeWindow)
      BY <1>5, <3>1 DEF Incidents!voteIsTooSoon
    <3> QED BY <1>1, <3>1, <3>2, ReportAssumption DEF Incidents!nonNegativeDuration
  <2>2. \A e \in voteEvents : Same(e, vote) => e.at < w.at
    <3> SUFFICES ASSUME NEW e \in voteEvents, Same(e, vote) PROVE e.at < w.at
      OBVIOUS
    <3>1. PICK v \in voteRows : Same(e, v)
      BY <1>3 DEF CurrentVotes
    <3>2. PICK x \in voteEvents : IsLast(x, v)
      BY <1>3 DEF CurrentVotes
    <3>3. e.at <= v.updated
      BY <1>3, <3>1, <3>2 DEF IsLast, CurrentVotes
    <3>4. v.updated < w.at
      BY <2>1, <3>1 DEF Same
    <3> QED BY <1>1, <1>3, <3>3, <3>4 DEF CurrentVotes
  <2>3. \A v \in voteRows' : v = vote \/ (v \in voteRows /\ ~Same(v, vote))
    BY <1>1, <1>5 DEF Incidents!CurrentVote, Same
  <2>4. \A v \in voteRows : Same(v, vote) \/ v \in voteRows'
    BY <1>1, <1>5 DEF Incidents!CurrentVote, Same
  <2>5. IsFiniteSet(voteRows')
    <3> DEFINE left == voteRows \ Incidents!CurrentVote(w)
    <3>1. IsFiniteSet(voteRows) /\ left \in SUBSET voteRows /\ voteRows' = left \cup {vote}
      BY <1>3, <1>5 DEF CurrentVotes
    <3> HIDE DEF left
    <3>2. IsFiniteSet(left)
      BY <3>1, FS_Subset
    <3>3. IsFiniteSet(left \cup {vote})
      BY <3>2, FS_AddElement
    <3> QED BY <3>1, <3>3
  <2>6. /\ \A v \in voteRows' : v.user \in Users /\ v.updated \in Nat
        /\ \A v, x \in voteRows' : Same(v, x) => v = x
        /\ \A e \in voteEvents' : e.at \in Nat
    BY <1>1, <1>3, <1>5, <2>3 DEF CurrentVotes, Same
  <2>7. ASSUME NEW v \in voteRows' PROVE \E e \in voteEvents' : IsLast(e, v)'
    <3>1. CASE v = vote
      <4>1. Same(event, v) /\ event.value = v.value /\ event.at = v.updated
        BY <1>1, <3>1 DEF Same
      <4>2. \A x \in voteEvents' : Same(x, v) /\ x # event => x.at < event.at
        BY <1>1, <1>5, <2>2, <3>1
      <4>3. \E e \in voteEvents' :
              /\ Same(e, v) /\ e.value = v.value /\ e.at = v.updated
              /\ \A x \in voteEvents' : Same(x, v) /\ x # e => x.at < e.at
        BY <1>5, <4>1, <4>2
      <4> QED BY <4>3 DEF IsLast, Same
    <3>2. CASE v \in voteRows /\ ~Same(v, vote)
      <4>1. PICK e \in voteEvents : IsLast(e, v)
        BY <1>3, <3>2 DEF CurrentVotes
      <4>2. ~Same(event, v)
        BY <1>1, <3>2 DEF Same
      <4>3. IsLast(e, v)'
        BY <1>5, <4>1, <4>2 DEF IsLast, Same
      <4> QED BY <1>5, <4>1, <4>3
    <3> QED BY <2>3, <3>1, <3>2
  <2>8. ASSUME NEW e \in voteEvents' PROVE \E v \in voteRows' : Same(e, v)
    <3>1. CASE Same(e, vote)
      BY <1>5, <3>1
    <3>2. CASE ~Same(e, vote)
      <4>1. e \in voteEvents
        BY <1>1, <1>5, <3>2 DEF Same
      <4>2. PICK v \in voteRows : Same(e, v)
        BY <1>3, <4>1 DEF CurrentVotes
      <4>3. ~Same(v, vote)
        BY <3>2, <4>2 DEF Same
      <4> QED BY <2>4, <4>2, <4>3
    <3> QED BY <3>1, <3>2
  <2> QED BY <2>5, <2>6, <2>7, <2>8 DEF CurrentVotes
<1> QED BY <1>2, <1>4, <1>5

(* Reports that are cleaned up are too old for the requests under way.      *)
LEMMA CleanupKeepsReports ==
    ASSUME PolicyInv, Incidents!CleanupExpired
    PROVE  KeptReports'
<1> USE DEF Incidents!CleanupExpired
<1>1. KeptReports /\ clock \in Nat
  BY DEF PolicyInv, PolicyRequests
<1>2. \A r \in accepted' : r \notin reportRows' => r.at + Retention < clock'
  BY <1>1, ReportAssumption DEF KeptReports
<1>3. ASSUME NEW x \in reportRows'
      PROVE  \E r \in reportRows' : /\ Matches(r, x)
                                     /\ \A y \in reportRows' : Matches(y, x) => y.at <= r.at
  <2>1. PICK r \in reportRows : /\ Matches(r, x)
                                /\ \A y \in reportRows : Matches(y, x) => y.at <= r.at
    BY <1>1 DEF KeptReports
  <2>2. x.at <= r.at /\ x.at \in Nat /\ r.at \in Nat /\ x.at + Retention >= clock
    BY <1>1, <2>1 DEF KeptReports, Matches
  <2>3. r \in reportRows'
    BY <1>1, <2>2, ReportAssumption
  <2> QED BY <2>1, <2>3
<1> QED BY <1>1, <1>2, <1>3 DEF KeptReports

LEMMA PolicyStep == PolicyInv /\ Incidents!Next => PolicyInv'
<1> SUFFICES ASSUME PolicyInv, Incidents!Next PROVE PolicyInv'
  OBVIOUS
<1>0. PolicyRequests /\ KeptReports /\ CurrentVotes /\ Incidents!ReportRateIsBounded
  BY DEF PolicyInv
<1>1. ASSUME UNCHANGED <<clock, reportRows, accepted>> PROVE KeptReports' /\ Incidents!ReportRateIsBounded'
  BY <1>0, <1>1 DEF KeptReports, Matches, Incidents!ReportRateIsBounded
<1>2. ASSUME UNCHANGED <<voteRows, voteEvents>> PROVE CurrentVotes'
  BY <1>0, <1>2 DEF CurrentVotes, IsLast, Same
<1>3. ASSUME NEW q \in Requests, NEW r, request' = [request EXCEPT ![q] = r],
             DOMAIN r = {"pc", "kind", "user", "subject", "value", "at", "answer"},
             r.pc # "idle" => r.user \in Users /\ r.at \in Nat /\ clock <= r.at + MaxAge,
             clock' = clock
      PROVE  PolicyRequests'
  BY <1>0, <1>3 DEF PolicyRequests
<1>4. ASSUME NEW q \in Requests, NEW kind, NEW u \in Users, NEW s, NEW value, NEW pc,
             Incidents!Begin(q, kind, u, s, value, pc)
      PROVE  PolicyInv'
  <2> DEFINE r == [pc |-> pc, kind |-> kind, user |-> u, subject |-> s, value |-> value,
                   at |-> clock, answer |-> None]
  <2>1. /\ request' = [request EXCEPT ![q] = r] /\ clock' = clock
        /\ UNCHANGED <<reportRows, accepted, voteRows, voteEvents>>
    BY <1>4 DEF Incidents!Begin
  <2>2. /\ DOMAIN r = {"pc", "kind", "user", "subject", "value", "at", "answer"}
        /\ r.user \in Users /\ r.at \in Nat /\ clock <= r.at + MaxAge
    BY <1>0, ReportAssumption DEF PolicyRequests
  <2> HIDE DEF r
  <2> QED BY <1>1, <1>2, <1>3, <2>1, <2>2 DEF PolicyInv
<1>5. ASSUME NEW q \in Requests,
             Incidents!SubmitReport(q) \/ Incidents!VoteIncident(q) \/ Incidents!AddIncidentComment(q)
      PROVE  PolicyInv'
  BY <1>4, <1>5 DEF Incidents!SubmitReport, Incidents!VoteIncident, Incidents!AddIncidentComment
<1>6. ASSUME NEW q \in Requests, request[q].pc # "idle", NEW answer,
             \/ Incidents!Answer(q, answer)
             \/ request' = [request EXCEPT ![q].pc = "submit"]
             \/ request' = [request EXCEPT ![q] = Incidents!Idle],
             clock' = clock
      PROVE  PolicyRequests'
  BY <1>0, <1>6 DEF PolicyRequests, Incidents!Answer, Incidents!Idle
<1>7. ASSUME NEW q \in Requests, Incidents!IncidentDetail(q) \/ Incidents!Answered(q) PROVE PolicyInv'
  <2>1. /\ UNCHANGED <<clock, reportRows, accepted, voteRows, voteEvents>> /\ request[q].pc # "idle"
        /\ \/ Incidents!Answer(q, "not found")
           \/ request' = [request EXCEPT ![q].pc = "submit"]
           \/ request' = [request EXCEPT ![q] = Incidents!Idle]
    BY <1>7 DEF Incidents!IncidentDetail, Incidents!Answered, Incidents!Answer
  <2> QED BY <1>1, <1>2, <1>6, <2>1 DEF PolicyInv
<1>8. ASSUME NEW q \in Requests, Incidents!SubmitReportEvent(q) PROVE PolicyInv'
  <2>1. /\ UNCHANGED <<clock, voteRows, voteEvents>> /\ request[q].pc # "idle"
        /\ \E answer : Incidents!Answer(q, answer)
    BY <1>8 DEF Incidents!SubmitReportEvent
  <2> QED BY <1>2, <1>6, <1>8, <2>1, ReportKeepsRate DEF PolicyInv
<1>9. ASSUME NEW q \in Requests, Incidents!SubmitIncidentVote(q) PROVE PolicyInv'
  <2>1. /\ UNCHANGED <<clock, reportRows, accepted>> /\ request[q].pc # "idle"
        /\ \E answer : Incidents!Answer(q, answer)
    BY <1>9 DEF Incidents!SubmitIncidentVote
  <2> QED BY <1>1, <1>6, <1>9, <2>1, VoteStaysLast DEF PolicyInv
<1>10. ASSUME NEW q \in Requests, Incidents!SubmitIncidentComment(q) PROVE PolicyInv'
  <2>1. /\ UNCHANGED <<clock, reportRows, accepted, voteRows, voteEvents>> /\ request[q].pc # "idle"
        /\ \E answer : Incidents!Answer(q, answer)
    BY <1>10 DEF Incidents!SubmitIncidentComment
  <2> QED BY <1>1, <1>2, <1>6, <2>1 DEF PolicyInv
<1>11. CASE Incidents!CleanupExpired
  <2>1. UNCHANGED <<clock, accepted, voteRows, voteEvents, request>>
    BY <1>11 DEF Incidents!CleanupExpired
  <2>2. PolicyRequests' /\ Incidents!ReportRateIsBounded'
    BY <1>0, <2>1 DEF PolicyRequests, Incidents!ReportRateIsBounded
  <2> QED BY <1>2, <1>11, <2>1, <2>2, CleanupKeepsReports DEF PolicyInv
<1>12. CASE Incidents!Clock
  <2>1. /\ UNCHANGED <<reportRows, accepted, voteRows, voteEvents, request>> /\ clock' = clock + 1
        /\ \A q \in Requests : request[q].pc # "idle" => clock < request[q].at + MaxAge
    BY <1>12 DEF Incidents!Clock
  <2>2. PolicyRequests'
    BY <1>0, <2>1, ReportAssumption DEF PolicyRequests
  <2>3. KeptReports'
    BY <1>0, <2>1, ReportAssumption DEF KeptReports, PolicyRequests, Matches
  <2>4. Incidents!ReportRateIsBounded'
    BY <1>0, <2>1 DEF Incidents!ReportRateIsBounded
  <2> QED BY <1>2, <2>1, <2>2, <2>3, <2>4 DEF PolicyInv
<1> QED BY <1>5, <1>7, <1>8, <1>9, <1>10, <1>11, <1>12 DEF Incidents!Next

(* As many users cast a value last as there are rows of it.                 *)
LastToSay(i, value) ==
    {u \in Users : /\ Incidents!CastBy(u, i) # {}
                   /\ Incidents!LastOf(Incidents!CastBy(u, i)).value = value}

LEMMA LastVotesAreCounted ==
    ASSUME CurrentVotes, NEW i, NEW value
    PROVE  Cardinality({v \in voteRows : v.incident = i /\ v.value = value})
             = Cardinality(LastToSay(i, value))
<1> DEFINE votes == {v \in voteRows : v.incident = i /\ v.value = value}
           voters == LastToSay(i, value)
           f == [v \in votes |-> v.user]
<1>1. ASSUME NEW v \in voteRows, v.incident = i
      PROVE  Incidents!CastBy(v.user, i) # {} /\ Incidents!LastOf(Incidents!CastBy(v.user, i)).value = v.value
  <2> DEFINE cast == Incidents!CastBy(v.user, i)
  <2>1. PICK e \in voteEvents : IsLast(e, v)
    BY DEF CurrentVotes
  <2>2. e \in cast /\ e.value = v.value
    BY <1>1, <2>1 DEF Incidents!CastBy, IsLast, Same
  <2>3. \A x \in cast : x.at \in Nat /\ (x # e => x.at < e.at)
    BY <1>1, <2>1 DEF Incidents!CastBy, IsLast, Same, CurrentVotes
  <2> HIDE DEF cast
  <2>4. Incidents!LastOf(cast) \in cast /\ e.at <= Incidents!LastOf(cast).at
    BY <2>2, <2>3 DEF Incidents!LastOf
  <2>5. Incidents!LastOf(cast) = e
    BY <2>2, <2>3, <2>4
  <2> QED BY <2>2, <2>5 DEF cast
<1>2. f \in [votes -> voters]
  BY <1>1 DEF CurrentVotes, LastToSay
<1>3. \A v, x \in votes : f[v] = f[x] => v = x
  BY DEF CurrentVotes, Same
<1>4. ASSUME NEW u \in voters PROVE \E v \in votes : f[v] = u
  <2>1. PICK e \in voteEvents : e.user = u /\ e.incident = i
    BY DEF Incidents!CastBy, LastToSay
  <2>2. PICK v \in voteRows : Same(e, v)
    BY DEF CurrentVotes
  <2>3. v.user = u /\ v.incident = i
    BY <2>1, <2>2 DEF Same
  <2>4. v \in votes
    BY <1>1, <2>3 DEF LastToSay
  <2> QED BY <2>3, <2>4
<1>5. IsFiniteSet(votes)
  BY FS_Subset DEF CurrentVotes
<1> HIDE DEF votes, voters, f
<1>6. f \in Bijection(votes, voters)
  BY <1>2, <1>3, <1>4, Fun_IsBij
<1> QED BY <1>5, <1>6, FS_Bijection DEF ExistsBijection, votes, voters

(* In whatever order requests commit, no window holds more of a user's      *)
(* reports than the limit, two on one subject are a cooldown apart although *)
(* older ones are cleaned up, and a listed incident counts every user's     *)
(* last vote once (SubmitReportEvent, enforceReportMutationLimit,           *)
(* SubmitIncidentVote, CleanupExpired).                                     *)
THEOREM ReportsStayFair == TrainSpec => []ReportsAreFair
<1> DEFINE Inv == Reported => PolicyInv
<1>1. TrainInit => Inv
  BY PolicyStarts DEF TrainInit, Scraped, Imported, Queried, Scheduled, Bundled, Paged, Alerted, Reported, Chatted, LoggedIn
<1>2. Inv /\ [TrainNext]_TrainVars => Inv'
  <2> SUFFICES ASSUME Inv, [TrainNext]_TrainVars, Reported'
               PROVE  PolicyInv'
    OBVIOUS
  <2>1. Reported /\ PolicyInv /\ (UNCHANGED trainReportVars \/ Incidents!Next)
    BY DEF TrainNext, TrainVars, Scraped, Imported, Queried, Scheduled, Bundled, Paged, Alerted, Reported, Chatted, LoggedIn
  <2>2. CASE UNCHANGED trainReportVars
    <3>1. UNCHANGED <<clock, reportRows, voteRows, voteEvents, request, accepted>>
      BY <2>2 DEF trainReportVars
    <3>2. PolicyRequests' /\ KeptReports'
      BY <2>1, <3>1 DEF PolicyInv, PolicyRequests, KeptReports, Matches
    <3>3. CurrentVotes'
      BY <2>1, <3>1 DEF PolicyInv, CurrentVotes, IsLast, Same
    <3>4. Incidents!ReportRateIsBounded'
      BY <2>1, <3>1 DEF PolicyInv, Incidents!ReportRateIsBounded
    <3> QED BY <3>2, <3>3, <3>4 DEF PolicyInv
  <2>3. CASE Incidents!Next
    BY <2>1, <2>3, PolicyStep
  <2> QED BY <2>1, <2>2, <2>3
<1>3. PolicyInv => Incidents!LastVoteCounts
  <2> SUFFICES ASSUME CurrentVotes, NEW x \in Incidents!ListActiveIncidents(clock)
               PROVE  x.votes = [ongoing |-> Incidents!Cardinality(LastToSay(x.incident, "ongoing")),
                                 cleared |-> Incidents!Cardinality(LastToSay(x.incident, "cleared"))]
    BY DEF Incidents!LastVoteCounts, PolicyInv, LastToSay
  <2>1. x.votes = Incidents!incidentVoteSummary(x.incident)
    <3>1. PICK i : x = Incidents!enrichIncidentSummary(i, clock)
      BY DEF Incidents!ListActiveIncidents
    <3> QED BY <3>1 DEF Incidents!enrichIncidentSummary
  <2>2. Incidents!incidentVoteSummary(x.incident) =
          [ongoing |-> Cardinality(LastToSay(x.incident, "ongoing")),
           cleared |-> Cardinality(LastToSay(x.incident, "cleared"))]
    BY LastVotesAreCounted, SameCardinality DEF Incidents!incidentVoteSummary
  <2> QED BY <2>1, <2>2, SameCardinality
<1>4. Inv => ReportsAreFair
  BY <1>3 DEF ReportsAreFair, PolicyInv
<1> QED BY <1>1, <1>2, <1>4, PTL DEF TrainSpec

(***************************************************************************)
(* Signing in.  Both limits are about totals, which a recursive function    *)
(* adds up, so induction comes first.                                       *)
(***************************************************************************)

(* Every set of natural numbers has a least element.                        *)
LEMMA LeastElement ==
    ASSUME NEW T \in SUBSET Nat, T # {}
    PROVE  \E x \in T : \A y \in T : x <= y
<1> DEFINE R == {p \in Nat \X Nat : p[1] < p[2]}
<1>1. OpToRel(<, Nat) = R
  BY DEF OpToRel
<1>2. IsWellFoundedOn(R, Nat)
  BY <1>1, NatLessThanWellFounded
<1>3. T \subseteq Nat
  OBVIOUS
<1> HIDE DEF R
<1>4. PICK x \in T : \A y \in T : ~ (<<y, x>> \in R)
  BY <1>2, <1>3, WFMin
<1>5. ASSUME NEW y \in T PROVE x <= y
  <2>1. <<y, x>> \notin R
    BY <1>4
  <2> QED BY <2>1 DEF R
<1> QED BY <1>5

(* Induction, for a set instead of a predicate.                             *)
LEMMA SetInduction ==
    ASSUME NEW S, 0 \in S, \A n \in Nat : n \in S => n + 1 \in S
    PROVE  \A n \in Nat : n \in S
<1> DEFINE missing == {n \in Nat : n \notin S}
<1>1. missing = {}
  <2> SUFFICES ASSUME missing # {} PROVE FALSE
    OBVIOUS
  <2>1. PICK n \in missing : \A m \in missing : n <= m
    <3>1. missing \in SUBSET Nat
      OBVIOUS
    <3> HIDE DEF missing
    <3> QED BY <3>1, LeastElement
  <2>2. n \in Nat /\ n # 0 /\ n \notin S
    OBVIOUS
  <2>3. n - 1 \in Nat /\ n - 1 \in S
    BY <2>1, <2>2
  <2>4. n \in S
    BY <2>2, <2>3
  <2> QED BY <2>2, <2>4
<1> QED BY <1>1

(* What the sum of f from its first to its t-th value is.                   *)
SumAt(f, from, g, t) == IF t < from THEN 0 ELSE f[t] + (IF t = 0 THEN 0 ELSE g[t - 1])
Sums(f, from, n, g) == g = [t \in 0 .. n |-> SumAt(f, from, g, t)]

LEMMA SumsExist ==
    ASSUME NEW f, NEW from
    PROVE  \A n \in Nat : \E g : Sums(f, from, n, g)
<1> DEFINE S == {n \in Nat : \E g : Sums(f, from, n, g)}
<1>1. 0 \in S
  <2> DEFINE g == [t \in 0 .. 0 |-> IF t < from THEN 0 ELSE f[t] + 0]
  <2>1. Sums(f, from, 0, g)
    BY DEF Sums, SumAt
  <2> QED BY <2>1
<1>2. ASSUME NEW n \in Nat, n \in S PROVE n + 1 \in S
  <2>1. PICK g : Sums(f, from, n, g)
    BY <1>2
  <2> DEFINE next == [t \in 0 .. n + 1 |-> IF t = n + 1 THEN SumAt(f, from, g, n + 1) ELSE g[t]]
  <2>2. \A t \in 0 .. n : next[t] = g[t] /\ g[t] = SumAt(f, from, g, t)
    BY <2>1 DEF Sums
  <2>3. ASSUME NEW t \in 0 .. n + 1 PROVE next[t] = SumAt(f, from, next, t)
    <3>1. CASE t = n + 1
      <4>1. t # 0 /\ t - 1 = n /\ next[n] = g[n]
        BY <3>1, <2>2
      <4> QED BY <3>1, <4>1 DEF SumAt
    <3>2. CASE t \in 0 .. n
      <4>1. next[t] = SumAt(f, from, g, t)
        BY <2>2, <3>2
      <4>2. t # 0 => t - 1 \in 0 .. n /\ next[t - 1] = g[t - 1]
        BY <2>2, <3>2
      <4> QED BY <3>2, <4>1, <4>2 DEF SumAt
    <3> QED BY <3>1, <3>2
  <2>4. next = [t \in 0 .. n + 1 |-> next[t]]
    OBVIOUS
  <2> HIDE DEF next
  <2>5. Sums(f, from, n + 1, next)
    BY <2>3, <2>4 DEF Sums
  <2> QED BY <2>5
<1> HIDE DEF S
<1>3. \A n \in Nat : n \in S
  BY <1>1, <1>2, SetInduction
<1> QED BY <1>3 DEF S

LEMMA SumsAgree ==
    ASSUME NEW f, NEW from, NEW n \in Nat, NEW m \in Nat, NEW g, NEW h,
           Sums(f, from, n, g), Sums(f, from, m, h)
    PROVE  \A t \in Nat : t <= n /\ t <= m => g[t] = h[t]
<1> DEFINE S == {t \in Nat : t <= n /\ t <= m => g[t] = h[t]}
<1>0. /\ \A t \in 0 .. n : g[t] = SumAt(f, from, g, t)
      /\ \A t \in 0 .. m : h[t] = SumAt(f, from, h, t)
  BY DEF Sums
<1>1. 0 \in S
  BY <1>0 DEF SumAt
<1>2. ASSUME NEW t \in Nat, t \in S PROVE t + 1 \in S
  <2> SUFFICES ASSUME t + 1 <= n, t + 1 <= m PROVE g[t + 1] = h[t + 1]
    OBVIOUS
  <2>1. g[t] = h[t] /\ t + 1 \in 0 .. n /\ t + 1 \in 0 .. m /\ (t + 1) - 1 = t
    BY <1>2
  <2> QED BY <1>0, <2>1 DEF SumAt
<1> HIDE DEF S
<1>3. \A t \in Nat : t \in S
  BY <1>1, <1>2, SetInduction
<1> QED BY <1>3 DEF S

(* The recursion that defines Total is one.                                 *)
LEMMA TotalUnfolds ==
    ASSUME NEW f, NEW from, NEW b \in Nat
    PROVE  Login!Total(f, from, b) =
             IF b < from THEN 0
             ELSE f[b] + (IF b = 0 THEN 0 ELSE Login!Total(f, from, b - 1))
<1> DEFINE prefix(n) == CHOOSE g : Sums(f, from, n, g)
           whole == [n \in Nat |-> prefix(n)[n]]
           Is(g) == g = [t \in Nat |-> IF t < from THEN 0 ELSE f[t] + (IF t = 0 THEN 0 ELSE g[t - 1])]
<1>1. \A n \in Nat : Sums(f, from, n, prefix(n))
  BY SumsExist
<1> HIDE DEF prefix
<1>2. ASSUME NEW n \in Nat PROVE whole[n] = SumAt(f, from, whole, n)
  <2>1. prefix(n)[n] = SumAt(f, from, prefix(n), n)
    BY <1>1 DEF Sums
  <2>2. n # 0 => n - 1 \in Nat /\ prefix(n)[n - 1] = prefix(n - 1)[n - 1]
    BY <1>1, SumsAgree
  <2> QED BY <2>1, <2>2 DEF SumAt
<1>3. whole = [n \in Nat |-> whole[n]]
  OBVIOUS
<1> HIDE DEF whole
<1>4. Is(whole)
  BY <1>2, <1>3 DEF SumAt
<1> DEFINE sum == CHOOSE g : Is(g)
<1>5. Is(sum)
  BY <1>4
<1>6. Login!Total(f, from, b) = sum[b]
  BY DEF Login!Total
<1>7. b # 0 => Login!Total(f, from, b - 1) = sum[b - 1]
  BY DEF Login!Total
<1> HIDE DEF sum
<1> QED BY <1>5, <1>6, <1>7

(* What the totals of a function of the times are.                          *)
Counts == [Login!Times -> Nat]

LEMMA TotalIsNat ==
    ASSUME NEW f \in Counts, NEW from \in Nat
    PROVE  \A b \in Login!Times : Login!Total(f, from, b) \in Nat
<1> DEFINE S == {b \in Nat : b <= MaxLoginTime => Login!Total(f, from, b) \in Nat}
<1>0. \A b \in Nat : b <= MaxLoginTime => f[b] \in Nat
  BY LoginAssumption DEF Counts, Login!Times
<1>1. 0 \in S
  BY <1>0, TotalUnfolds
<1>2. ASSUME NEW b \in Nat, b \in S PROVE b + 1 \in S
  <2> SUFFICES ASSUME b + 1 <= MaxLoginTime PROVE Login!Total(f, from, b + 1) \in Nat
    OBVIOUS
  <2>1. Login!Total(f, from, b) \in Nat /\ f[b + 1] \in Nat
    BY <1>0, <1>2, LoginAssumption
  <2>2. Login!Total(f, from, b + 1) =
          IF b + 1 < from THEN 0 ELSE f[b + 1] + (IF b + 1 = 0 THEN 0 ELSE Login!Total(f, from, (b + 1) - 1))
    BY TotalUnfolds
  <2>3. (b + 1) - 1 = b /\ b + 1 # 0
    OBVIOUS
  <2> QED BY <2>1, <2>2, <2>3
<1> HIDE DEF S
<1>3. \A b \in Nat : b \in S
  BY <1>1, <1>2, SetInduction
<1> QED BY <1>3, LoginAssumption DEF S, Login!Times

(* One more value.                                                          *)
LEMMA TotalNext ==
    ASSUME NEW f, NEW from \in Nat, NEW b \in Nat
    PROVE  Login!Total(f, from, b + 1) =
             IF b + 1 < from THEN 0 ELSE f[b + 1] + Login!Total(f, from, b)
<1>1. Login!Total(f, from, b + 1) =
        IF b + 1 < from THEN 0 ELSE f[b + 1] + (IF b + 1 = 0 THEN 0 ELSE Login!Total(f, from, (b + 1) - 1))
  BY TotalUnfolds
<1>2. (b + 1) - 1 = b /\ b + 1 # 0
  OBVIOUS
<1> QED BY <1>1, <1>2

(* Nothing has been counted before the first time, and one value at it.     *)
LEMMA TotalStarts ==
    ASSUME NEW f \in Counts, NEW from \in Login!Times
    PROVE  /\ \A b \in Nat : b < from => Login!Total(f, from, b) = 0
           /\ Login!Total(f, from, from) = f[from]
<1>1. from \in Nat /\ f[from] \in Nat
  BY LoginAssumption DEF Counts, Login!Times
<1>2. \A b \in Nat : b < from => Login!Total(f, from, b) = 0
  BY TotalUnfolds
<1>3. Login!Total(f, from, from) = f[from]
  <2>1. Login!Total(f, from, from) =
          IF from < from THEN 0 ELSE f[from] + (IF from = 0 THEN 0 ELSE Login!Total(f, from, from - 1))
    BY <1>1, TotalUnfolds
  <2>2. from # 0 => from - 1 \in Nat /\ Login!Total(f, from, from - 1) = 0
    BY <1>1, <1>2
  <2> QED BY <1>1, <2>1, <2>2
<1> QED BY <1>2, <1>3

(* A span is what came before a time in it and what came from then on.      *)
LEMMA TotalAdds ==
    ASSUME NEW f \in Counts, NEW a \in Login!Times, NEW c \in Login!Times, a < c
    PROVE  \A b \in Login!Times : c <= b =>
             Login!Total(f, a, b) = Login!Total(f, a, c - 1) + Login!Total(f, c, b)
<1> DEFINE S == {b \in Nat : c <= b /\ b <= MaxLoginTime =>
                   Login!Total(f, a, b) = Login!Total(f, a, c - 1) + Login!Total(f, c, b)}
<1>0. a \in Nat /\ c \in Nat /\ c - 1 \in Login!Times /\ c - 1 \in Nat /\ c <= MaxLoginTime
      /\ MaxLoginTime \in Nat
  BY LoginAssumption DEF Login!Times
<1>1. 0 \in S
  BY <1>0
<1>2. ASSUME NEW b \in Nat, b \in S PROVE b + 1 \in S
  <2> SUFFICES ASSUME c <= b + 1, b + 1 <= MaxLoginTime
               PROVE  Login!Total(f, a, b + 1) = Login!Total(f, a, c - 1) + Login!Total(f, c, b + 1)
    OBVIOUS
  <2>1. b \in Login!Times /\ b + 1 \in Login!Times /\ f[b + 1] \in Nat
    BY <1>0 DEF Login!Times, Counts
  <2>2. /\ Login!Total(f, a, b + 1) = f[b + 1] + Login!Total(f, a, b)
        /\ Login!Total(f, c, b + 1) = f[b + 1] + Login!Total(f, c, b)
    BY <1>0, TotalNext
  <2>3. /\ Login!Total(f, a, b) \in Nat /\ Login!Total(f, c, b) \in Nat
        /\ Login!Total(f, a, c - 1) \in Nat
    BY <1>0, <2>1, TotalIsNat
  <2>4. CASE c <= b
    <3>1. Login!Total(f, a, b) = Login!Total(f, a, c - 1) + Login!Total(f, c, b)
      BY <1>0, <1>2, <2>4
    <3> QED BY <2>1, <2>2, <2>3, <3>1
  <2>5. CASE c = b + 1
    <3>1. c - 1 = b /\ Login!Total(f, c, b) = 0
      BY <2>5, TotalStarts
    <3> QED BY <2>1, <2>2, <2>3, <3>1
  <2> QED BY <1>0, <2>4, <2>5
<1> HIDE DEF S
<1>3. \A b \in Nat : b \in S
  BY <1>1, <1>2, SetInduction
<1> QED BY <1>3, <1>0 DEF S, Login!Times

(* Where nothing happened nothing is counted.                               *)
LEMMA TotalOfNothing ==
    ASSUME NEW f \in Counts, NEW a \in Nat,
           \A t \in Login!Times : a <= t => f[t] = 0
    PROVE  \A b \in Login!Times : Login!Total(f, a, b) = 0
<1> DEFINE S == {b \in Nat : b <= MaxLoginTime => Login!Total(f, a, b) = 0}
<1>0. MaxLoginTime \in Nat
  BY LoginAssumption
<1>1. 0 \in S
  <2>1. 0 \in Login!Times
    BY <1>0 DEF Login!Times
  <2>2. Login!Total(f, a, 0) = IF 0 < a THEN 0 ELSE f[0] + 0
    BY TotalUnfolds
  <2> QED BY <2>1, <2>2
<1>2. ASSUME NEW b \in Nat, b \in S PROVE b + 1 \in S
  <2> SUFFICES ASSUME b + 1 <= MaxLoginTime PROVE Login!Total(f, a, b + 1) = 0
    OBVIOUS
  <2>1. b + 1 \in Login!Times /\ Login!Total(f, a, b) = 0
    BY <1>0, <1>2 DEF Login!Times
  <2>2. Login!Total(f, a, b + 1) = IF b + 1 < a THEN 0 ELSE f[b + 1] + Login!Total(f, a, b)
    BY TotalNext
  <2> QED BY <2>1, <2>2
<1> HIDE DEF S
<1>3. \A b \in Nat : b \in S
  BY <1>1, <1>2, SetInduction
<1> QED BY <1>3, <1>0 DEF S, Login!Times

OneMore(f, g, h) == \A t \in Login!Times : g[t] = f[t] + (IF t = h THEN 1 ELSE 0)

(* One count more raises the totals of the spans it falls into by one.      *)
LEMMA TotalOfOneMore ==
    ASSUME NEW f \in Counts, NEW g \in Counts, NEW h \in Login!Times,
           OneMore(f, g, h), NEW a \in Nat
    PROVE  \A b \in Login!Times :
             Login!Total(g, a, b) = Login!Total(f, a, b) + (IF a <= h /\ h <= b THEN 1 ELSE 0)
<1> DEFINE S == {b \in Nat : b <= MaxLoginTime =>
                   Login!Total(g, a, b) = Login!Total(f, a, b) + (IF a <= h /\ h <= b THEN 1 ELSE 0)}
<1>0. MaxLoginTime \in Nat /\ h \in Nat
  BY LoginAssumption DEF Login!Times
<1>1. ASSUME NEW t \in Login!Times
      PROVE  g[t] = f[t] + (IF t = h THEN 1 ELSE 0) /\ f[t] \in Nat
  BY DEF Counts, OneMore
<1>2. 0 \in S
  <2>1. 0 \in Login!Times
    BY <1>0 DEF Login!Times
  <2>2. /\ Login!Total(f, a, 0) = IF 0 < a THEN 0 ELSE f[0] + 0
        /\ Login!Total(g, a, 0) = IF 0 < a THEN 0 ELSE g[0] + 0
    BY TotalUnfolds
  <2> QED BY <1>0, <1>1, <2>1, <2>2
<1>3. ASSUME NEW b \in Nat, b \in S PROVE b + 1 \in S
  <2> SUFFICES ASSUME b + 1 <= MaxLoginTime
               PROVE  Login!Total(g, a, b + 1) =
                        Login!Total(f, a, b + 1) + (IF a <= h /\ h <= b + 1 THEN 1 ELSE 0)
    OBVIOUS
  <2>1. b + 1 \in Login!Times /\ b \in Login!Times
    BY <1>0 DEF Login!Times
  <2>2. /\ Login!Total(f, a, b + 1) = IF b + 1 < a THEN 0 ELSE f[b + 1] + Login!Total(f, a, b)
        /\ Login!Total(g, a, b + 1) = IF b + 1 < a THEN 0 ELSE g[b + 1] + Login!Total(g, a, b)
    BY TotalNext
  <2>3. Login!Total(g, a, b) = Login!Total(f, a, b) + (IF a <= h /\ h <= b THEN 1 ELSE 0)
    BY <1>0, <1>3, <2>1 DEF Login!Times
  <2>4. Login!Total(f, a, b) \in Nat /\ g[b + 1] = f[b + 1] + (IF b + 1 = h THEN 1 ELSE 0)
        /\ f[b + 1] \in Nat
    BY <1>1, <2>1, TotalIsNat
  <2> QED BY <1>0, <2>2, <2>3, <2>4
<1> HIDE DEF S
<1>4. \A b \in Nat : b \in S
  BY <1>2, <1>3, SetInduction
<1>5. \A b \in Login!Times : b \in Nat /\ b <= MaxLoginTime
  BY <1>0 DEF Login!Times
<1> QED BY <1>4, <1>5 DEF S
(* A shorter span counts no more, and one that starts after a counted       *)
(* request misses it.                                                       *)
LEMMA TotalOfLater ==
    ASSUME NEW f \in Counts, NEW s \in Login!Times, f[s] >= 1,
           NEW t \in Login!Times, NEW e \in Login!Times
    PROVE  /\ Login!Total(f, s, e) <= Login!Total(f, s, MaxLoginTime)
           /\ s < t => Login!Total(f, t, e) <= Login!Total(f, s, MaxLoginTime) - 1
<1>0. /\ MaxLoginTime \in Login!Times /\ s \in Nat /\ t \in Nat /\ e \in Nat /\ e <= MaxLoginTime
      /\ t <= MaxLoginTime /\ MaxLoginTime \in Nat /\ s <= MaxLoginTime
  BY LoginAssumption DEF Login!Times
<1>1. /\ \A b \in Login!Times : Login!Total(f, s, b) \in Nat
      /\ \A b \in Login!Times : Login!Total(f, t, b) \in Nat
  BY <1>0, TotalIsNat
<1>2. ASSUME NEW a \in Login!Times, \A b \in Login!Times : Login!Total(f, a, b) \in Nat
      PROVE  Login!Total(f, a, e) <= Login!Total(f, a, MaxLoginTime)
  <2>0. a \in Nat
    BY <1>0 DEF Login!Times
  <2>1. CASE e < a
    <3>1. Login!Total(f, a, e) = 0
      BY <1>0, <2>1, TotalStarts
    <3> QED BY <1>0, <1>2, <3>1
  <2>2. CASE e = MaxLoginTime
    BY <1>0, <1>2, <2>2
  <2>3. CASE a <= e /\ e < MaxLoginTime
    <3>1. e + 1 \in Login!Times /\ (e + 1) - 1 = e /\ a < e + 1 /\ e + 1 <= MaxLoginTime
      BY <1>0, <2>0, <2>3 DEF Login!Times
    <3>2. Login!Total(f, a, MaxLoginTime) =
            Login!Total(f, a, (e + 1) - 1) + Login!Total(f, e + 1, MaxLoginTime)
      BY <1>0, <3>1, TotalAdds
    <3>3. Login!Total(f, e + 1, MaxLoginTime) \in Nat
      BY <1>0, <3>1, TotalIsNat
    <3> QED BY <1>0, <1>2, <3>1, <3>2, <3>3
  <2> QED BY <1>0, <2>0, <2>1, <2>2, <2>3
<1>3. Login!Total(f, s, e) <= Login!Total(f, s, MaxLoginTime)
  BY <1>1, <1>2
<1>4. ASSUME s < t PROVE Login!Total(f, t, e) <= Login!Total(f, s, MaxLoginTime) - 1
  <2>1. Login!Total(f, t, e) <= Login!Total(f, t, MaxLoginTime)
    BY <1>1, <1>2
  <2>2. Login!Total(f, s, MaxLoginTime) =
          Login!Total(f, s, t - 1) + Login!Total(f, t, MaxLoginTime)
    BY <1>0, <1>4, TotalAdds
  <2>3. t - 1 \in Login!Times /\ s <= t - 1
    BY <1>0, <1>4 DEF Login!Times
  <2>4. Login!Total(f, s, t - 1) >= 1
    <3>1. Login!Total(f, s, s) = f[s] /\ f[s] \in Nat
      BY TotalStarts DEF Counts
    <3>2. CASE s = t - 1
      BY <3>1, <3>2
    <3>3. CASE s < t - 1
      <4>1. s + 1 \in Login!Times /\ s < s + 1 /\ s + 1 <= t - 1 /\ (s + 1) - 1 = s
        BY <1>0, <3>3 DEF Login!Times
      <4>2. Login!Total(f, s, t - 1) = Login!Total(f, s, (s + 1) - 1) + Login!Total(f, s + 1, t - 1)
        BY <2>3, <4>1, TotalAdds
      <4>3. Login!Total(f, s + 1, t - 1) \in Nat
        BY <1>0, <2>3, <4>1, TotalIsNat
      <4> QED BY <3>1, <4>1, <4>2, <4>3
    <3> QED BY <1>0, <2>3, <3>2, <3>3
  <2>5. /\ Login!Total(f, s, t - 1) \in Nat /\ Login!Total(f, t, MaxLoginTime) \in Nat
        /\ Login!Total(f, t, e) \in Nat
    BY <1>0, <1>1, <2>3
  <2> QED BY <2>1, <2>2, <2>4, <2>5
<1> QED BY <1>3, <1>4

-----------------------------------------------------------------------------
(* The limiter.  Its entry counts what was let through since the window was *)
(* opened, by a request of its own; and a span that began before, but not   *)
(* before the window ahead of it was over, holds less than a full window.   *)
Opened ==
    /\ rate \in [start : Nat, count : Nat]
    /\ rate.start <= loginHour /\ rate.count <= Limit
    /\ attempts[rate.start] >= 1
    /\ Login!Total(attempts, rate.start, MaxLoginTime) = rate.count
    /\ \A t \in Login!Times : rate.start + Window <= t => attempts[t] = 0
    /\ \A t \in Login!Times : t < rate.start /\ rate.start < t + Window =>
           Login!Total(attempts, t, rate.start - 1) <= Limit - 1

Unused == rate = None /\ \A t \in Login!Times : attempts[t] = 0

Spans ==
    \A t \in Login!Times : t + Window - 1 <= MaxLoginTime =>
        Login!Total(attempts, t, t + Window - 1) < 2 * Limit

RateInv ==
    /\ loginHour \in Login!Times /\ attempts \in Counts
    /\ Opened \/ Unused
    /\ Spans

(* A request that is let through in the window that is open.                *)
LEMMA AllowInWindow ==
    ASSUME RateInv, Login!Allow, ~Login!windowIsOver, loginHour' = loginHour
    PROVE  RateInv'
<1> DEFINE s == rate.start
           c == rate.count
<1>0. /\ MaxLoginTime \in Nat /\ Limit \in Nat \ {0} /\ Window \in Nat \ {0}
      /\ loginHour \in Nat /\ loginHour <= MaxLoginTime /\ MaxLoginTime \in Login!Times
      /\ loginHour \in Login!Times
      /\ \A t : t \in Login!Times <=> t \in Nat /\ t <= MaxLoginTime
  BY LoginAssumption DEF RateInv, Login!Times
<1>1. Opened /\ loginHour < s + Window
  BY <1>0 DEF RateInv, Unused, Opened, Login!windowIsOver
<1>2. /\ rate' = [rate EXCEPT !.count = @ + 1] /\ c < Limit
      /\ attempts' = [attempts EXCEPT ![loginHour] = @ + 1]
  BY DEF Login!Allow
<1>3. /\ s \in Nat /\ c \in Nat /\ s <= loginHour /\ s \in Login!Times
      /\ rate' \in [start : Nat, count : Nat] /\ rate'.start = s /\ rate'.count = c + 1
  BY <1>0, <1>1, <1>2 DEF Opened
<1> HIDE DEF s, c
<1>4. attempts \in Counts /\ attempts' \in Counts
      /\ \A t \in Login!Times : attempts'[t] = attempts[t] + (IF t = loginHour THEN 1 ELSE 0)
                                /\ attempts[t] \in Nat
  BY <1>2 DEF RateInv, Counts
<1>5. ASSUME NEW a \in Login!Times, NEW b \in Login!Times
      PROVE  /\ Login!Total(attempts', a, b) = Login!Total(attempts, a, b)
                  + (IF a <= loginHour /\ loginHour <= b THEN 1 ELSE 0)
             /\ Login!Total(attempts, a, b) \in Nat
  <2>1. a \in Nat
    BY <1>0
  <2>2. OneMore(attempts, attempts', loginHour)
    BY <1>4 DEF OneMore
  <2>3. Login!Total(attempts', a, b) = Login!Total(attempts, a, b)
                  + (IF a <= loginHour /\ loginHour <= b THEN 1 ELSE 0)
    BY <1>0, <1>4, <2>1, <2>2, TotalOfOneMore
  <2>4. Login!Total(attempts, a, b) \in Nat
    BY <1>4, <2>1, TotalIsNat
  <2> QED BY <2>3, <2>4
<1>6. /\ attempts[s] >= 1 /\ Login!Total(attempts, s, MaxLoginTime) = c
      /\ \A t \in Login!Times : s + Window <= t => attempts[t] = 0
      /\ \A t \in Login!Times : t < s /\ s < t + Window =>
             Login!Total(attempts, t, s - 1) <= Limit - 1
  BY <1>1 DEF Opened, s, c
<1>7. Login!Total(attempts', s, MaxLoginTime) = c + 1 /\ attempts'[s] >= 1
  BY <1>0, <1>3, <1>4, <1>5, <1>6
<1>8. ASSUME NEW t \in Login!Times, t < s, s < t + Window
      PROVE  Login!Total(attempts', t, s - 1) <= Limit - 1
  <2>1. s - 1 \in Login!Times /\ ~(loginHour <= s - 1)
    BY <1>0, <1>3, <1>8
  <2>2. Login!Total(attempts', t, s - 1) = Login!Total(attempts, t, s - 1)
    BY <1>5, <2>1
  <2> QED BY <1>6, <1>8, <2>2
<1>9. ASSUME NEW t \in Login!Times, s + Window <= t PROVE attempts'[t] = 0
  <2>1. t # loginHour
    BY <1>0, <1>1, <1>3, <1>9
  <2>2. attempts'[t] = attempts[t] + 0
    BY <1>4, <2>1
  <2> QED BY <1>6, <1>9, <2>2
<1>10. Opened'
  <2>1. rate'.start <= loginHour' /\ rate'.count <= Limit
    BY <1>0, <1>2, <1>3
  <2> QED BY <1>3, <1>7, <1>8, <1>9, <2>1 DEF Opened
<1>11. ASSUME NEW t \in Login!Times, t + Window - 1 <= MaxLoginTime
       PROVE  Login!Total(attempts', t, t + Window - 1) < 2 * Limit
  <2> DEFINE e == t + Window - 1
  <2>1. e \in Login!Times /\ t \in Nat /\ t <= e
    BY <1>0, <1>11
  <2> HIDE DEF e
  <2>2. CASE s < t
    <3>1. Login!Total(attempts', t, e) <= Login!Total(attempts', s, MaxLoginTime) - 1
      BY <1>3, <1>4, <1>7, <2>1, <2>2, TotalOfLater
    <3>2. Login!Total(attempts', t, e) \in Nat
      BY <1>4, <2>1, TotalIsNat
    <3> QED BY <1>0, <1>2, <1>3, <1>7, <3>1, <3>2 DEF e, c
  <2>3. CASE s = t
    <3>1. Login!Total(attempts', t, e) <= Login!Total(attempts', s, MaxLoginTime)
      BY <1>3, <1>4, <1>7, <2>1, <2>3, TotalOfLater
    <3>2. Login!Total(attempts', t, e) \in Nat
      BY <1>4, <2>1, TotalIsNat
    <3> QED BY <1>0, <1>2, <1>3, <1>7, <3>1, <3>2 DEF e, c
  <2>4. CASE t < s /\ e < s
    <3>1. Login!Total(attempts', t, e) = Login!Total(attempts, t, e)
      BY <1>0, <1>3, <1>5, <2>1, <2>4
    <3> QED BY <1>11, <3>1 DEF RateInv, Spans, e
  <2>5. CASE t < s /\ s <= e
    <3>1. Login!Total(attempts', t, e) = Login!Total(attempts', t, s - 1) + Login!Total(attempts', s, e)
      BY <1>3, <1>4, <2>1, <2>5, TotalAdds
    <3>2. s < t + Window
      BY <1>0, <1>3, <2>1, <2>5 DEF e
    <3>3. Login!Total(attempts', t, s - 1) <= Limit - 1
      BY <1>8, <2>5, <3>2
    <3>4. Login!Total(attempts', s, e) <= c + 1
      BY <1>3, <1>4, <1>7, <2>1, TotalOfLater
    <3>5. s - 1 \in Login!Times
      BY <1>0, <1>3, <2>1, <2>5
    <3>6. Login!Total(attempts', t, s - 1) \in Nat /\ Login!Total(attempts', s, e) \in Nat
      BY <1>3, <1>4, <2>1, <3>5, TotalIsNat
    <3>7. c + 1 <= Limit
      BY <1>0, <1>2, <1>3 DEF c
    <3>8. Login!Total(attempts', t, e) <= (Limit - 1) + Limit
      BY <1>0, <1>3, <3>1, <3>3, <3>4, <3>6, <3>7
    <3> QED BY <1>0, <3>1, <3>6, <3>8 DEF e
  <2> QED BY <1>3, <2>1, <2>2, <2>3, <2>4, <2>5
<1>12. Spans'
  BY <1>11 DEF Spans
<1> QED BY <1>4, <1>10, <1>12 DEF RateInv

(* A request that opens a window.                                           *)
LEMMA AllowOpensWindow ==
    ASSUME RateInv, Login!Allow, Login!windowIsOver, loginHour' = loginHour
    PROVE  RateInv'
<1> DEFINE h == loginHour
<1>0. /\ MaxLoginTime \in Nat /\ Limit \in Nat \ {0} /\ Window \in Nat \ {0}
      /\ h \in Nat /\ h <= MaxLoginTime /\ MaxLoginTime \in Login!Times /\ h \in Login!Times
      /\ \A t : t \in Login!Times <=> t \in Nat /\ t <= MaxLoginTime
  BY LoginAssumption DEF RateInv, Login!Times
<1>1. /\ rate' = [start |-> h, count |-> 1]
      /\ attempts' = [attempts EXCEPT ![h] = @ + 1]
  BY DEF Login!Allow
<1>2. attempts \in Counts /\ attempts' \in Counts
      /\ \A t \in Login!Times : attempts'[t] = attempts[t] + (IF t = h THEN 1 ELSE 0)
                                /\ attempts[t] \in Nat
  BY <1>1 DEF RateInv, Counts
<1> HIDE DEF h
<1>3. ASSUME NEW a \in Login!Times, NEW b \in Login!Times
      PROVE  /\ Login!Total(attempts', a, b) = Login!Total(attempts, a, b)
                  + (IF a <= h /\ h <= b THEN 1 ELSE 0)
             /\ Login!Total(attempts, a, b) \in Nat
  <2>1. a \in Nat
    BY <1>0
  <2>2. OneMore(attempts, attempts', h)
    BY <1>2 DEF OneMore
  <2>3. Login!Total(attempts', a, b) = Login!Total(attempts, a, b)
                  + (IF a <= h /\ h <= b THEN 1 ELSE 0)
    BY <1>0, <1>2, <2>1, <2>2, TotalOfOneMore
  <2>4. Login!Total(attempts, a, b) \in Nat
    BY <1>2, <2>1, TotalIsNat
  <2> QED BY <2>3, <2>4
<1>4. (\A t \in Login!Times : h <= t => attempts[t] = 0)
  <2>1. CASE Unused
    BY <2>1 DEF Unused
  <2>2. CASE Opened
    <3>1. rate # None /\ rate.start \in Nat /\ rate.start + Window <= h
      BY <1>0, <2>2, LoginAssumption DEF Opened, Login!windowIsOver, h
    <3> QED BY <1>0, <2>2, <3>1 DEF Opened
  <2> QED BY <2>1, <2>2 DEF RateInv
(* A span that the new window starts in holds less than a full window.      *)
<1>5. ASSUME NEW t \in Login!Times, NEW e \in Login!Times, h < t + Window
      PROVE  Login!Total(attempts, t, e) <= Limit - 1
  <2>0. Login!Total(attempts, t, e) \in Nat /\ t \in Nat
    BY <1>0, <1>3
  <2>1. CASE Unused
    <3>1. Login!Total(attempts, t, e) = 0
      BY <1>2, <2>0, <2>1, TotalOfNothing DEF Unused
    <3> QED BY <1>0, <3>1
  <2>2. CASE Opened
    <3>1. rate # None /\ rate.start \in Nat /\ rate.start + Window <= h
      BY <1>0, <2>2, LoginAssumption DEF Opened, Login!windowIsOver, h
    <3>2. rate.start < t /\ rate.start \in Login!Times
      BY <1>0, <1>5, <2>0, <3>1
    <3>3. /\ attempts[rate.start] >= 1 /\ rate.count \in Nat /\ rate.count <= Limit
          /\ Login!Total(attempts, rate.start, MaxLoginTime) = rate.count
      BY <2>2 DEF Opened
    <3>4. Login!Total(attempts, t, e) <= rate.count - 1
      BY <1>2, <3>2, <3>3, TotalOfLater
    <3> QED BY <1>0, <2>0, <3>3, <3>4
  <2> QED BY <2>1, <2>2 DEF RateInv
<1>6. Login!Total(attempts', h, MaxLoginTime) = 1
  <2>1. Login!Total(attempts, h, MaxLoginTime) = 0
    BY <1>0, <1>2, <1>4, TotalOfNothing
  <2> QED BY <1>0, <1>3, <2>1
<1>7. /\ attempts'[h] >= 1
      /\ \A t \in Login!Times : h + Window <= t => attempts'[t] = 0
  BY <1>0, <1>2, <1>4
<1>8. ASSUME NEW t \in Login!Times, t < h, h < t + Window
      PROVE  Login!Total(attempts', t, h - 1) <= Limit - 1
  <2>1. h - 1 \in Login!Times /\ ~(h <= h - 1)
    BY <1>0, <1>8
  <2>2. Login!Total(attempts', t, h - 1) = Login!Total(attempts, t, h - 1)
    BY <1>3, <2>1
  <2> QED BY <1>5, <1>8, <2>1, <2>2
<1>9. Opened'
  <2>1. /\ rate' \in [start : Nat, count : Nat] /\ rate'.start = h /\ rate'.count = 1
        /\ loginHour' = h
    BY <1>0, <1>1 DEF h
  <2> QED BY <1>0, <1>6, <1>7, <1>8, <2>1 DEF Opened
<1>10. ASSUME NEW t \in Login!Times, t + Window - 1 <= MaxLoginTime
       PROVE  Login!Total(attempts', t, t + Window - 1) < 2 * Limit
  <2> DEFINE e == t + Window - 1
  <2>1. e \in Login!Times /\ t \in Nat /\ t <= e
    BY <1>0, <1>10
  <2>2. CASE h \in t .. e
    <3>1. h < t + Window
      BY <1>0, <2>1, <2>2
    <3> HIDE DEF e
    <3>2. Login!Total(attempts, t, e) <= Limit - 1 /\ Login!Total(attempts, t, e) \in Nat
      BY <1>3, <1>5, <2>1, <3>1
    <3>3. Login!Total(attempts', t, e) = Login!Total(attempts, t, e) + 1
      BY <1>0, <1>3, <2>1, <2>2
    <3> QED BY <1>0, <3>2, <3>3 DEF e
  <2>3. CASE h \notin t .. e
    <3>1. Login!Total(attempts, t, e) < 2 * Limit
      BY <1>10 DEF RateInv, Spans
    <3> HIDE DEF e
    <3>2. Login!Total(attempts', t, e) = Login!Total(attempts, t, e)
      BY <1>0, <1>3, <2>1, <2>3
    <3> QED BY <3>1, <3>2 DEF e
  <2> QED BY <2>2, <2>3
<1>11. Spans'
  BY <1>10 DEF Spans
<1> QED BY <1>0, <1>2, <1>9, <1>11 DEF RateInv, h

-----------------------------------------------------------------------------
(* A use before the expiry leaves a row, and the row outlives the ticket.   *)
UnusedBefore == \A t \in Login!Times : t < ticket => uses[t] = 0
UsedOnce ==
    \E u \in Login!Times : /\ u < ticket /\ uses[u] = 1
                           /\ \A t \in Login!Times : t < ticket /\ t # u => uses[t] = 0

TicketInv ==
    /\ uses \in Counts /\ ticket \in Nat \cup {None}
    /\ ticket = None => \A t \in Login!Times : uses[t] = 0
    /\ ticket # None => \/ UnusedBefore
                        \/ UsedOnce /\ (ticket \in consumed \/ ticket <= loginHour)

(* Every login cookie is in the browser its nonce was given to, and so is   *)
(* every session that an ID token opened.                                   *)
Given(owners, b, x) == x = None \/ (x \in Login!Nonces /\ owners[x] = b)

SessionInv ==
    /\ nonces \in [Login!Nonces -> Browsers \cup {None}]
    /\ cookie = [b \in Browsers |-> cookie[b]]
    /\ loginSession = [b \in Browsers |-> loginSession[b]]
    /\ \A b \in Browsers : cookie[b] = None \/ Given(nonces, b, cookie[b].nonce)
    /\ \A b \in Browsers : loginSession[b] = None \/ Given(nonces, b, loginSession[b].nonce)

LoginInv == RateInv /\ TicketInv /\ SessionInv

(* Nobody has signed in yet.                                                *)
LEMMA LoginStarts == Login!Init => LoginInv
<1> SUFFICES ASSUME Login!Init PROVE LoginInv
  OBVIOUS
<1>0. MaxLoginTime \in Nat /\ Limit \in Nat \ {0} /\ Window \in Nat \ {0} /\ 0 \in Login!Times
  BY LoginAssumption DEF Login!Times
<1>1. /\ loginHour = 0 /\ rate = None /\ attempts \in Counts /\ uses \in Counts /\ ticket = None
      /\ \A t \in Login!Times : attempts[t] = 0 /\ uses[t] = 0
  BY DEF Login!Init, Counts
<1>2. Spans
  <2> SUFFICES ASSUME NEW t \in Login!Times, t + Window - 1 <= MaxLoginTime
               PROVE  Login!Total(attempts, t, t + Window - 1) < 2 * Limit
    BY DEF Spans
  <2>1. t \in Nat /\ t + Window - 1 \in Login!Times
    BY <1>0 DEF Login!Times
  <2>2. Login!Total(attempts, t, t + Window - 1) = 0
    BY <1>1, <2>1, TotalOfNothing
  <2> QED BY <1>0, <2>2
<1>3. RateInv
  BY <1>0, <1>1, <1>2 DEF RateInv, Unused
<1>4. TicketInv
  BY <1>1 DEF TicketInv
<1>5. SessionInv
  BY DEF Login!Init, SessionInv
<1> QED BY <1>3, <1>4, <1>5 DEF LoginInv

(* What does not touch the limiter, the ticket or the cookies.              *)
LEMMA RateFrame ==
    ASSUME RateInv, UNCHANGED <<rate, attempts>>, loginHour' \in Login!Times,
           loginHour <= loginHour'
    PROVE  RateInv'
<1>0. loginHour \in Nat /\ loginHour' \in Nat
  BY LoginAssumption DEF RateInv, Login!Times
<1>1. Opened => Opened'
  BY <1>0 DEF Opened
<1>2. Unused => Unused'
  BY DEF Unused
<1>3. Spans'
  BY DEF RateInv, Spans
<1> QED BY <1>1, <1>2, <1>3 DEF RateInv

LEMMA TicketFrame ==
    ASSUME RateInv, TicketInv, UNCHANGED <<ticket, consumed, uses>>,
           loginHour' \in Login!Times, loginHour <= loginHour'
    PROVE  TicketInv'
<1>0. loginHour \in Nat /\ loginHour' \in Nat
  BY LoginAssumption DEF RateInv, Login!Times
<1>1. UnusedBefore => UnusedBefore'
  BY DEF UnusedBefore
<1>2. UsedOnce => UsedOnce'
  BY DEF UsedOnce
<1>3. ticket \in Nat /\ ticket <= loginHour => ticket <= loginHour'
  BY <1>0
<1>4. ticket # None => ticket \in Nat
  BY DEF TicketInv
<1> QED BY <1>1, <1>2, <1>3, <1>4 DEF TicketInv

LEMMA SessionFrame ==
    ASSUME SessionInv, UNCHANGED <<nonces, cookie, loginSession>>
    PROVE  SessionInv'
BY DEF SessionInv, Given

(* A login begins: its nonce was nobody's.                                  *)
LEMMA ConfigKeepsSessions ==
    ASSUME SessionInv, NEW b \in Browsers, Login!handleAuthTelegramConfig(b)
    PROVE  SessionInv'
<1>1. PICK n \in Login!Nonces :
        /\ \A m \in Login!Nonces : nonces[m] = None <=> m >= n
        /\ nonces' = [nonces EXCEPT ![n] = b]
        /\ cookie' = [cookie EXCEPT ![b] = Login!issueLoginNonceCookie(n)]
  BY DEF Login!handleAuthTelegramConfig
<1>2. nonces[n] = None /\ b # None
  BY <1>1, LoginAssumption DEF Login!Nonces
<1>3. /\ nonces' \in [Login!Nonces -> Browsers \cup {None}] /\ nonces'[n] = b
      /\ \A m \in Login!Nonces : m # n => nonces'[m] = nonces[m]
  BY <1>1 DEF SessionInv
<1>4. ASSUME NEW x \in Browsers, NEW k, Given(nonces, x, k) PROVE Given(nonces', x, k)
  <2>1. k # None => k # n
    BY <1>2, <1>4, LoginAssumption DEF Given
  <2> QED BY <1>3, <1>4, <2>1 DEF Given
<1>5. /\ cookie' = [x \in Browsers |-> cookie'[x]]
      /\ \A x \in Browsers : x # b => cookie'[x] = cookie[x]
      /\ cookie'[b].nonce = n
  BY <1>1 DEF SessionInv, Login!issueLoginNonceCookie
<1>6. Given(nonces', b, n)
  BY <1>3 DEF Given
<1>7. loginSession' = loginSession
  BY DEF Login!handleAuthTelegramConfig
<1>8. ASSUME NEW x \in Browsers PROVE cookie'[x] = None \/ Given(nonces', x, cookie'[x].nonce)
  <2>1. CASE x = b
    BY <1>5, <1>6, <2>1 DEF Given
  <2>2. CASE x # b
    BY <1>4, <1>5, <2>2 DEF SessionInv
  <2> QED BY <2>1, <2>2
<1>9. ASSUME NEW x \in Browsers
      PROVE  loginSession'[x] = None \/ Given(nonces', x, loginSession'[x].nonce)
  BY <1>4, <1>7 DEF SessionInv
<1> QED BY <1>3, <1>5, <1>7, <1>8, <1>9 DEF SessionInv, Given

(* A session is issued for the nonce of the cookie, or for none.            *)
LEMMA SessionIsGiven ==
    ASSUME SessionInv, NEW b \in Browsers, NEW user, NEW nonce,
           Login!IssueSessionCookie(b, user, nonce), Given(nonces, b, nonce), nonces' = nonces
    PROVE  SessionInv'
<1> DEFINE issued == [user |-> user, until |-> loginHour + SessionTTL, nonce |-> nonce]
<1>1. /\ loginSession' = [loginSession EXCEPT ![b] = issued]
      /\ cookie' = [cookie EXCEPT ![b] = None] /\ issued.nonce = nonce
  BY DEF Login!IssueSessionCookie
<1> HIDE DEF issued
<1>2. /\ loginSession' = [x \in Browsers |-> loginSession'[x]] /\ loginSession'[b] = issued
      /\ \A x \in Browsers : x # b => loginSession'[x] = loginSession[x]
  BY <1>1 DEF SessionInv
<1>3. /\ cookie' = [x \in Browsers |-> cookie'[x]]
      /\ \A x \in Browsers : cookie'[x] = None \/ cookie'[x] = cookie[x]
  BY <1>1 DEF SessionInv
<1>4. \A x \in Browsers : cookie'[x] = None \/ Given(nonces, x, cookie'[x].nonce)
  BY <1>3 DEF SessionInv
<1>5. \A x \in Browsers : loginSession'[x] = None \/ Given(nonces, x, loginSession'[x].nonce)
  BY <1>1, <1>2 DEF SessionInv
<1> QED BY <1>2, <1>3, <1>4, <1>5 DEF SessionInv, Given

(* The ticket is taken: it cannot have been, or it is as good as expired.   *)
LEMMA TestUsesOnce ==
    ASSUME RateInv, TicketInv, Login!handleAuthTest
    PROVE  TicketInv'
<1>0. /\ loginHour \in Login!Times /\ loginHour \in Nat /\ loginHour' = loginHour
      /\ ticket' = ticket /\ ticket # None /\ ticket \in Nat /\ loginHour <= ticket
      /\ uses' = [uses EXCEPT ![loginHour] = @ + 1]
  BY LoginAssumption
     DEF RateInv, TicketInv, Login!Times, Login!handleAuthTest, Login!ticketIsValid
<1>1. /\ uses' \in Counts
      /\ \A t \in Login!Times : t # loginHour => uses'[t] = uses[t]
      /\ uses'[loginHour] = uses[loginHour] + 1
  BY <1>0 DEF TicketInv, Counts
<1>2. CASE ticket = loginHour
  <2>1. \A t \in Login!Times : t < ticket => uses'[t] = uses[t]
    BY <1>0, <1>1, <1>2
  <2>2. UnusedBefore => UnusedBefore'
    BY <1>0, <2>1 DEF UnusedBefore
  <2>3. UsedOnce => UsedOnce'
    BY <1>0, <2>1 DEF UsedOnce
  <2>4. ticket' <= loginHour'
    BY <1>0, <1>2
  <2> QED BY <1>0, <1>1, <2>2, <2>3, <2>4 DEF TicketInv
<1>3. CASE loginHour < ticket
  <2>1. ticket \notin consumed /\ ticket \in consumed'
    BY <1>0, <1>3 DEF Login!handleAuthTest, Login!ConsumeTestLoginTicket
  <2>2. UnusedBefore
    BY <1>0, <1>3, <2>1 DEF TicketInv
  <2>3. uses'[loginHour] = 1
    BY <1>0, <1>1, <1>3, <2>2 DEF UnusedBefore
  <2>4. \A t \in Login!Times : t < ticket /\ t # loginHour => uses'[t] = 0
    BY <1>1, <2>2 DEF UnusedBefore
  <2>5. UsedOnce'
    BY <1>0, <1>3, <2>3, <2>4 DEF UsedOnce
  <2> QED BY <1>0, <1>1, <2>1, <2>5 DEF TicketInv
<1> QED BY <1>0, <1>2, <1>3

(* A ticket is minted once.                                                 *)
LEMMA MintIsUnused ==
    ASSUME RateInv, TicketInv, Login!Mint
    PROVE  TicketInv'
<1>1. /\ ticket = None /\ ticket' \in Nat /\ UNCHANGED <<consumed, uses, loginHour>>
      /\ \A t \in Login!Times : uses[t] = 0
  BY LoginAssumption DEF Login!Mint, RateInv, TicketInv, Login!Times
<1>2. UnusedBefore'
  BY <1>1 DEF UnusedBefore
<1>3. ticket' # None
  BY <1>1, LoginAssumption
<1> QED BY <1>1, <1>2, <1>3 DEF TicketInv

(* Every step of a login.                                                   *)
LEMMA LoginStep ==
    ASSUME LoginInv, Login!Next
    PROVE  LoginInv'
<1>0. RateInv /\ TicketInv /\ SessionInv /\ loginHour \in Login!Times /\ loginHour \in Nat
  BY LoginAssumption DEF LoginInv, RateInv, Login!Times
<1>1. ASSUME Login!Allow, UNCHANGED <<loginHour, ticket, consumed, uses>>
      PROVE  RateInv' /\ TicketInv'
  <2>1. RateInv'
    BY <1>0, <1>1, AllowInWindow, AllowOpensWindow
  <2>2. TicketInv'
    BY <1>0, <1>1, TicketFrame
  <2> QED BY <2>1, <2>2
<1>2. ASSUME NEW b \in Browsers, Login!handleAuthTelegramConfig(b) PROVE LoginInv'
  <2>1. Login!Allow /\ UNCHANGED <<loginHour, ticket, consumed, uses>>
    BY <1>2 DEF Login!handleAuthTelegramConfig
  <2> QED BY <1>0, <1>1, <1>2, <2>1, ConfigKeepsSessions DEF LoginInv
<1>3. ASSUME NEW b \in Browsers, Login!CompleteWithToken(b) PROVE LoginInv'
  <2>1. Login!Allow /\ UNCHANGED <<loginHour, ticket, consumed, uses, nonces>>
    BY <1>3 DEF Login!CompleteWithToken
  <2>2. PICK token \in tokens : /\ Login!NonceMatches(b, token)
                                /\ Login!IssueSessionCookie(b, token.user, token.nonce)
    BY <1>3 DEF Login!CompleteWithToken
  <2>3. Given(nonces, b, token.nonce)
    BY <1>0, <2>2 DEF Login!NonceMatches, SessionInv
  <2>4. SessionInv'
    BY <1>0, <2>1, <2>2, <2>3, SessionIsGiven
  <2> QED BY <1>1, <2>1, <2>4 DEF LoginInv
<1>4. ASSUME NEW b \in Browsers, Login!CompleteWithSigned(b) PROVE LoginInv'
  <2>1. Login!Allow /\ UNCHANGED <<loginHour, ticket, consumed, uses, nonces>>
    BY <1>4 DEF Login!CompleteWithSigned
  <2>2. PICK auth \in signed : Login!IssueSessionCookie(b, auth.user, None)
    BY <1>4 DEF Login!CompleteWithSigned
  <2>3. Given(nonces, b, None)
    BY DEF Given
  <2>4. SessionInv'
    BY <1>0, <2>1, <2>2, <2>3, SessionIsGiven
  <2> QED BY <1>1, <2>1, <2>4 DEF LoginInv
<1>5. CASE Login!CompleteRefused
  <2>1. /\ Login!Allow /\ UNCHANGED <<loginHour, ticket, consumed, uses>>
        /\ UNCHANGED <<nonces, cookie, loginSession>>
    BY <1>5 DEF Login!CompleteRefused
  <2> QED BY <1>0, <1>1, <2>1, SessionFrame DEF LoginInv
<1>6. ASSUME NEW b \in Browsers, Login!handleAuthLogout(b) PROVE LoginInv'
  <2>1. UNCHANGED <<loginHour, rate, attempts, ticket, consumed, uses, nonces>>
    BY <1>6 DEF Login!handleAuthLogout
  <2>2. /\ loginSession' = [loginSession EXCEPT ![b] = None]
        /\ cookie' = [cookie EXCEPT ![b] = None]
    BY <1>6 DEF Login!handleAuthLogout
  <2>3. SessionInv'
    <3>1. /\ loginSession' = [x \in Browsers |-> loginSession'[x]]
          /\ cookie' = [x \in Browsers |-> cookie'[x]]
          /\ \A x \in Browsers : loginSession'[x] = None \/ loginSession'[x] = loginSession[x]
          /\ \A x \in Browsers : cookie'[x] = None \/ cookie'[x] = cookie[x]
      BY <1>0, <2>2 DEF SessionInv
    <3> QED BY <1>0, <2>1, <3>1 DEF SessionInv, Given
  <2>4. RateInv' /\ TicketInv'
    BY <1>0, <2>1, RateFrame, TicketFrame
  <2> QED BY <2>3, <2>4 DEF LoginInv
<1>7. CASE \E u \in Users : Login!TelegramSigns(u) \/ \E n \in Login!Nonces : Login!TelegramSignsIn(u, n)
  <2>1. /\ UNCHANGED <<loginHour, rate, attempts, ticket, consumed, uses>>
        /\ UNCHANGED <<nonces, cookie, loginSession>>
    BY <1>7 DEF Login!TelegramSigns, Login!TelegramSignsIn
  <2> QED BY <1>0, <2>1, RateFrame, TicketFrame, SessionFrame DEF LoginInv
<1>8. CASE Login!Mint
  <2>1. UNCHANGED <<loginHour, rate, attempts>> /\ UNCHANGED <<nonces, cookie, loginSession>>
    BY <1>8 DEF Login!Mint
  <2> QED BY <1>0, <1>8, <2>1, RateFrame, MintIsUnused, SessionFrame DEF LoginInv
<1>9. CASE Login!handleAuthTest
  <2>1. UNCHANGED <<loginHour, rate, attempts>> /\ UNCHANGED <<nonces, cookie, loginSession>>
    BY <1>9 DEF Login!handleAuthTest
  <2> QED BY <1>0, <1>9, <2>1, RateFrame, TestUsesOnce, SessionFrame DEF LoginInv
<1>10. CASE Login!Tick
  <2>1. /\ UNCHANGED <<rate, attempts, ticket, consumed, uses, nonces, cookie>>
        /\ loginHour' = loginHour + 1 /\ loginHour < MaxLoginTime
    BY <1>10 DEF Login!Tick
  <2>2. loginHour' \in Login!Times /\ loginHour <= loginHour'
    BY <1>0, <2>1, LoginAssumption DEF Login!Times
  <2>3. /\ loginSession' = [x \in Browsers |-> loginSession'[x]]
        /\ \A x \in Browsers : loginSession'[x] = None \/ loginSession'[x] = loginSession[x]
    BY <1>10 DEF Login!Tick
  <2>4. SessionInv'
    BY <1>0, <2>1, <2>3 DEF SessionInv, Given
  <2> QED BY <1>0, <2>1, <2>2, <2>4, RateFrame, TicketFrame DEF LoginInv
<1> QED BY <1>2, <1>3, <1>4, <1>5, <1>6, <1>7, <1>8, <1>9, <1>10 DEF Login!Next

(* What is counted of the ticket's uses is one at most.                     *)
LEMMA UsesAreOne ==
    ASSUME TicketInv, ticket # None
    PROVE  Login!Total([t \in Login!Times |-> IF t < ticket THEN uses[t] ELSE 0], 0, MaxLoginTime) <= 1
<1> DEFINE early == [t \in Login!Times |-> IF t < ticket THEN uses[t] ELSE 0]
           zero == [t \in Login!Times |-> 0]
<1>0. /\ 0 \in Nat /\ MaxLoginTime \in Login!Times /\ zero \in Counts /\ ticket \in Nat
      /\ \A t \in Login!Times : t \in Nat
  BY LoginAssumption DEF Login!Times, Counts, TicketInv
<1>1. /\ \A t \in Login!Times : early[t] = IF t < ticket THEN uses[t] ELSE 0
      /\ \A t \in Login!Times : zero[t] = 0
      /\ early \in Counts
  BY DEF TicketInv, Counts
<1> HIDE DEF early, zero
<1>2. CASE UnusedBefore
  <2>1. \A t \in Login!Times : early[t] = 0
    BY <1>1, <1>2 DEF UnusedBefore
  <2>2. Login!Total(early, 0, MaxLoginTime) = 0
    BY <1>0, <1>1, <2>1, TotalOfNothing
  <2>3. Login!Total(early, 0, MaxLoginTime) <= 1
    BY <2>2
  <2> QED BY <2>3 DEF early
<1>3. CASE UsedOnce
  <2>1. PICK u \in Login!Times : /\ u < ticket /\ uses[u] = 1
                                 /\ \A t \in Login!Times : t < ticket /\ t # u => uses[t] = 0
    BY <1>3 DEF UsedOnce
  <2>2. OneMore(zero, early, u)
    BY <1>1, <2>1 DEF OneMore
  <2>3. Login!Total(early, 0, MaxLoginTime) = Login!Total(zero, 0, MaxLoginTime)
           + (IF 0 <= u /\ u <= MaxLoginTime THEN 1 ELSE 0)
    BY <1>0, <1>1, <2>2, TotalOfOneMore
  <2>4. Login!Total(zero, 0, MaxLoginTime) = 0
    BY <1>0, <1>1, TotalOfNothing
  <2>5. Login!Total(early, 0, MaxLoginTime) <= 1
    BY <2>3, <2>4
  <2> QED BY <2>5 DEF early
<1> QED BY <1>2, <1>3 DEF TicketInv

(* Whatever browsers, tabs and requests interleave: a session that an ID    *)
(* token opened is in the browser that began the login, no span of a window *)
(* lets twice the limit through, and a ticket is taken once before its last *)
(* second (handleAuthTelegramComplete, Allow, ConsumeTestLoginTicket).      *)
THEOREM LoginsAreOwnAndLimited == TrainSpec => []LoginIsOwnAndLimited
<1> DEFINE Inv == LoggedIn => LoginInv
<1>1. TrainInit => Inv
  BY LoginStarts DEF TrainInit, Scraped, Imported, Queried, Scheduled, Bundled, Paged, Alerted, Reported, Chatted, LoggedIn
<1>2. Inv /\ [TrainNext]_TrainVars => Inv'
  <2> SUFFICES ASSUME Inv, [TrainNext]_TrainVars, LoggedIn'
               PROVE  LoginInv'
    OBVIOUS
  <2>1. LoggedIn /\ LoginInv /\ (UNCHANGED loginVars \/ Login!Next)
    BY DEF TrainNext, TrainVars, Scraped, Imported, Queried, Scheduled, Bundled, Paged, Alerted, Reported, Chatted, LoggedIn
  <2>2. CASE UNCHANGED loginVars
    <3>1. UNCHANGED <<loginHour, nonces, cookie, loginSession, rate, attempts, ticket, consumed, uses>>
      BY <2>2 DEF loginVars
    <3>2. loginHour' \in Login!Times /\ loginHour <= loginHour'
      BY <2>1, <3>1, LoginAssumption DEF LoginInv, RateInv, Login!Times
    <3> QED BY <2>1, <3>1, <3>2, RateFrame, TicketFrame, SessionFrame DEF LoginInv
  <2>3. CASE Login!Next
    BY <2>1, <2>3, LoginStep
  <2> QED BY <2>1, <2>2, <2>3
<1>3. LoginInv => Login!SessionIsOwn
  <2>1. ASSUME SessionInv, NEW b \in Browsers, loginSession[b] # None, loginSession[b].nonce # None
        PROVE  nonces[loginSession[b].nonce] = b
    BY <2>1 DEF SessionInv, Given
  <2> QED BY <2>1 DEF Login!SessionIsOwn, LoginInv
<1>4. LoginInv => Login!LoginLimitsHold
  <2> SUFFICES ASSUME RateInv, TicketInv PROVE Login!LoginLimitsHold
    BY DEF LoginInv
  <2>1. ASSUME NEW t \in Login!Times, t + Window - 1 <= MaxLoginTime
        PROVE  Login!Total(attempts, t, t + Window - 1) < 2 * Limit
    BY <2>1 DEF RateInv, Spans
  <2> QED BY <2>1, UsesAreOne DEF Login!LoginLimitsHold
<1>5. Inv => LoginIsOwnAndLimited
  BY <1>3, <1>4 DEF LoginIsOwnAndLimited
<1> QED BY <1>1, <1>2, <1>5, PTL DEF TrainSpec
=============================================================================
