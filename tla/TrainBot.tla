------------------------------ MODULE TrainBot ------------------------------
(* The train bot, part by part: from the scraper and the import of a day,   *)
(* over its stores, bundle and caches, to the riders' alerts, reports, chat *)
(* and sign-in.  The parts share no state, so a behaviour is one of a       *)
(* single part and the others stand still.                                  *)
EXTENDS Naturals, Sequences, FiniteSets

CONSTANTS Providers, Feeds, Date, Weekday, MinTrains,
          Importers, Chunks, MaxImports, MaxLate,
          Timetables, Names, CacheID, SpacetimeID, Around, Ahead, LastMinute, MaxDays,
          ScheduleDay, Cutoff, InitialBackoff, MaxBackoff, CleanupInterval,
          MaxScheduleTime, MaxScheduleStarts,
          Versions, Readers, MaxPublishes,
          Clients, Writers, PageTrains, PageStations, MaxChanges, MaxSchedules,
          MaxRestarts,
          Riders, RideTrains, SightingStations, RideStopsOf, RouteOf, Favorites,
          RideTime, UndoTime, MaxRideTime, MaxRideOps, MaxReports,
          Requests, Users, Subjects, KindOf, Signals, Cooldown, Dedupe, ActionWindow,
          ActionLimit, ChangeWindow, VoteWindow, VoteLimit, CommentWindow,
          CommentLimit, IncidentLimit, Retention, MaxAge, DayLength, MaxTime, MaxOps,
          Stations, Trains, StopsOf, MaxUpdates, MaxStarts,
          Browsers, StateTTL, AuthMaxAge, SessionTTL, Limit, Window, TicketTTL,
          MaxLoginTime, MaxNonces,
          None

(* A day is sent in chunks, one after the other.                            *)
ASSUME ImportAssumption ==
    MaxImports \in Nat /\ Chunks \in Seq({Chunks[k] : k \in DOMAIN Chunks})
(* Time is counted in ticks, and the first retry is not the longest.        *)
ASSUME ScheduleAssumption ==
    /\ ScheduleDay \in Nat \ {0} /\ Cutoff \in Nat /\ InitialBackoff \in Nat
    /\ MaxBackoff \in Nat /\ InitialBackoff <= MaxBackoff /\ None \notin Nat
(* None is no station, and no kind of search.                               *)
ASSUME DialogueAssumption ==
    None \notin Stations /\ None \notin {"station", "origin", "destination"}

(* Reports are kept longer than the windows of the policies look back and a *)
(* request lasts, and a vote may be changed after a while only.             *)
ASSUME ReportAssumption ==
    /\ {Cooldown, Dedupe, ActionWindow, ActionLimit, ChangeWindow, Retention, MaxAge} \subseteq Nat
    /\ Cooldown + MaxAge <= Retention /\ ActionWindow + MaxAge <= Retention
    /\ ChangeWindow # 0
    /\ None \notin {"duplicate", "cooldown"}

(* The limits of logins are constants of the code and positive, and None is *)
(* no browser, no time and no entry of the limiter.                         *)
ASSUME LoginAssumption ==
    /\ Limit \in Nat \ {0} /\ Window \in Nat \ {0} /\ TicketTTL \in Nat /\ MaxLoginTime \in Nat
    /\ None \notin Browsers /\ None \notin Nat /\ None \notin [start : Nat, count : Nat]

VARIABLE part  \* which part runs

VARIABLES scrapeStep, fetched, snapshot, onDisk, imported
VARIABLES importDay, imports, importer, importLate, outdated, local,
          importBegun
VARIABLES queryDay, stage, trips, places, instances, rows, stations, queryDays
VARIABLES time, trains, stops, legacy, scheduleDays, files, bundle, manager,
          runner, scheduleStep, at, scheduleStarts
VARIABLES style, bundles, torn, active, synced, publisher, published, cached,
          reader
VARIABLES edition, stored, cache, saved, rolledBack, noted, client, writer,
          kept, restarts, watched
VARIABLES alertHour, rider, alertWatching, undo, work, alerted, ops, reports
VARIABLES clock, reportRows, voteRows, voteEvents, commentRows, request,
          voteBegun, accepted
VARIABLES chatSession, stale, offered, ride, chatWatching, favorites, report,
          picked, last, updates, chatStarts
VARIABLES loginHour, nonces, cookie, loginSession, tokens, signed, rate,
          attempts, ticket, consumed, uses

scrapeVars == <<scrapeStep, fetched, snapshot, onDisk, imported>>
importVars == <<importDay, imports, importer, importLate, outdated, local,
                importBegun>>
queryVars == <<queryDay, stage, trips, places, instances, rows, stations,
               queryDays>>
scheduleVars == <<time, trains, stops, legacy, scheduleDays, files, bundle,
                  manager, runner, scheduleStep, at, scheduleStarts>>
bundleVars == <<style, bundles, torn, active, synced, publisher, published,
                cached, reader>>
cacheVars == <<edition, stored, cache, saved, rolledBack, noted, client,
               writer, kept, restarts, watched>>
rideVars == <<alertHour, rider, alertWatching, undo, work, alerted, ops,
              reports>>
trainReportVars == <<clock, reportRows, voteRows, voteEvents, commentRows,
                     request, voteBegun, accepted>>
botVars == <<chatSession, stale, offered, ride, chatWatching, favorites,
             report, picked, last, updates, chatStarts>>
loginVars == <<loginHour, nonces, cookie, loginSession, tokens, signed, rate,
               attempts, ticket, consumed, uses>>

Scrape == INSTANCE ScheduleScrape WITH step <- scrapeStep
Import == INSTANCE ScheduleImport WITH
    day <- importDay, late <- importLate, begun <- importBegun
Queries == INSTANCE ScheduleQueries WITH day <- queryDay, days <- queryDays
Schedule == INSTANCE TrainSchedule WITH
    DayLength <- ScheduleDay, MaxTime <- MaxScheduleTime, MaxStarts <- MaxScheduleStarts,
    days <- scheduleDays, step <- scheduleStep, starts <- scheduleStarts
Bundle == INSTANCE StaticBundle
Cache == INSTANCE PublicCache WITH Trains <- PageTrains, Stations <- PageStations
(* None is no page's train or station, and no change.                       *)
ASSUME PageAssumption ==
    None \notin PageTrains \cup PageStations /\ None \notin Cache!Whats
Alerts == INSTANCE RideAlerts WITH
    Users <- Riders, Trains <- RideTrains, Stations <- SightingStations,
    StopsOf <- RideStopsOf, MaxTime <- MaxRideTime, MaxOps <- MaxRideOps,
    hour <- alertHour, watching <- alertWatching
Incidents == INSTANCE TrainReports WITH begun <- voteBegun
Chat == INSTANCE BotConversation WITH
    session <- chatSession, watching <- chatWatching, starts <- chatStarts
Login == INSTANCE WebLogin WITH
    MaxTime <- MaxLoginTime, hour <- loginHour, session <- loginSession

(* The variables of a part that does not take part. *)
NoScrape ==
    /\ scrapeStep = None /\ fetched = None /\ snapshot = None
    /\ onDisk = None /\ imported = None
NoImport ==
    /\ importDay = None /\ imports = None /\ importer = None
    /\ importLate = None /\ outdated = None /\ local = None
    /\ importBegun = None
NoQueries ==
    /\ queryDay = None /\ stage = None /\ trips = None /\ places = None
    /\ instances = None /\ rows = None /\ stations = None /\ queryDays = None
NoSchedule ==
    /\ time = None /\ trains = None /\ stops = None /\ legacy = None
    /\ scheduleDays = None /\ files = None /\ bundle = None /\ manager = None
    /\ runner = None /\ scheduleStep = None /\ at = None
    /\ scheduleStarts = None
NoBundle ==
    /\ style = None /\ bundles = None /\ torn = None /\ active = None
    /\ synced = None /\ publisher = None /\ published = None /\ cached = None
    /\ reader = None
NoCache ==
    /\ edition = None /\ stored = None /\ cache = None /\ saved = None
    /\ rolledBack = None /\ noted = None /\ client = None /\ writer = None
    /\ kept = None /\ restarts = None /\ watched = None
NoAlerts ==
    /\ alertHour = None /\ rider = None /\ alertWatching = None
    /\ undo = None /\ work = None /\ alerted = None /\ ops = None
    /\ reports = None
NoIncidents ==
    /\ clock = None /\ reportRows = None /\ voteRows = None
    /\ voteEvents = None /\ commentRows = None /\ request = None
    /\ voteBegun = None /\ accepted = None
NoChat ==
    /\ chatSession = None /\ stale = None /\ offered = None /\ ride = None
    /\ chatWatching = None /\ favorites = None /\ report = None
    /\ picked = None /\ last = None /\ updates = None /\ chatStarts = None
NoLogin ==
    /\ loginHour = None /\ nonces = None /\ cookie = None
    /\ loginSession = None /\ tokens = None /\ signed = None /\ rate = None
    /\ attempts = None /\ ticket = None /\ consumed = None /\ uses = None

Scraped == part = "scrape"
Imported == part = "import"
Queried == part = "queries"
Scheduled == part = "schedule"
Bundled == part = "bundle"
Paged == part = "cache"
Alerted == part = "alerts"
Reported == part = "incidents"
Chatted == part = "chat"
LoggedIn == part = "login"

TrainInit ==
    \/ /\ Scraped /\ Scrape!Init
       /\ NoImport /\ NoQueries /\ NoSchedule /\ NoBundle /\ NoCache
       /\ NoAlerts /\ NoIncidents /\ NoChat /\ NoLogin
    \/ /\ Imported /\ Import!Init
       /\ NoScrape /\ NoQueries /\ NoSchedule /\ NoBundle /\ NoCache
       /\ NoAlerts /\ NoIncidents /\ NoChat /\ NoLogin
    \/ /\ Queried /\ Queries!Init
       /\ NoScrape /\ NoImport /\ NoSchedule /\ NoBundle /\ NoCache
       /\ NoAlerts /\ NoIncidents /\ NoChat /\ NoLogin
    \/ /\ Scheduled /\ Schedule!Init
       /\ NoScrape /\ NoImport /\ NoQueries /\ NoBundle /\ NoCache
       /\ NoAlerts /\ NoIncidents /\ NoChat /\ NoLogin
    \/ /\ Bundled /\ Bundle!Init
       /\ NoScrape /\ NoImport /\ NoQueries /\ NoSchedule /\ NoCache
       /\ NoAlerts /\ NoIncidents /\ NoChat /\ NoLogin
    \/ /\ Paged /\ Cache!Init
       /\ NoScrape /\ NoImport /\ NoQueries /\ NoSchedule /\ NoBundle
       /\ NoAlerts /\ NoIncidents /\ NoChat /\ NoLogin
    \/ /\ Alerted /\ Alerts!Init
       /\ NoScrape /\ NoImport /\ NoQueries /\ NoSchedule /\ NoBundle
       /\ NoCache /\ NoIncidents /\ NoChat /\ NoLogin
    \/ /\ Reported /\ Incidents!Init
       /\ NoScrape /\ NoImport /\ NoQueries /\ NoSchedule /\ NoBundle
       /\ NoCache /\ NoAlerts /\ NoChat /\ NoLogin
    \/ /\ Chatted /\ Chat!Init
       /\ NoScrape /\ NoImport /\ NoQueries /\ NoSchedule /\ NoBundle
       /\ NoCache /\ NoAlerts /\ NoIncidents /\ NoLogin
    \/ /\ LoggedIn /\ Login!Init
       /\ NoScrape /\ NoImport /\ NoQueries /\ NoSchedule /\ NoBundle
       /\ NoCache /\ NoAlerts /\ NoIncidents /\ NoChat

TrainNext ==
    /\ UNCHANGED part
    /\ \/ /\ Scraped /\ Scrape!Next
          /\ UNCHANGED <<importVars, queryVars, scheduleVars, bundleVars,
                         cacheVars, rideVars, trainReportVars, botVars,
                         loginVars>>
       \/ /\ Imported /\ Import!Next
          /\ UNCHANGED <<scrapeVars, queryVars, scheduleVars, bundleVars,
                         cacheVars, rideVars, trainReportVars, botVars,
                         loginVars>>
       \/ /\ Queried /\ Queries!Next
          /\ UNCHANGED <<scrapeVars, importVars, scheduleVars, bundleVars,
                         cacheVars, rideVars, trainReportVars, botVars,
                         loginVars>>
       \/ /\ Scheduled /\ Schedule!Next
          /\ UNCHANGED <<scrapeVars, importVars, queryVars, bundleVars,
                         cacheVars, rideVars, trainReportVars, botVars,
                         loginVars>>
       \/ /\ Bundled /\ Bundle!Next
          /\ UNCHANGED <<scrapeVars, importVars, queryVars, scheduleVars,
                         cacheVars, rideVars, trainReportVars, botVars,
                         loginVars>>
       \/ /\ Paged /\ Cache!Next
          /\ UNCHANGED <<scrapeVars, importVars, queryVars, scheduleVars,
                         bundleVars, rideVars, trainReportVars, botVars,
                         loginVars>>
       \/ /\ Alerted /\ Alerts!Next
          /\ UNCHANGED <<scrapeVars, importVars, queryVars, scheduleVars,
                         bundleVars, cacheVars, trainReportVars, botVars,
                         loginVars>>
       \/ /\ Reported /\ Incidents!Next
          /\ UNCHANGED <<scrapeVars, importVars, queryVars, scheduleVars,
                         bundleVars, cacheVars, rideVars, botVars, loginVars>>
       \/ /\ Chatted /\ Chat!Next
          /\ UNCHANGED <<scrapeVars, importVars, queryVars, scheduleVars,
                         bundleVars, cacheVars, rideVars, trainReportVars,
                         loginVars>>
       \/ /\ LoggedIn /\ Login!Next
          /\ UNCHANGED <<scrapeVars, importVars, queryVars, scheduleVars,
                         bundleVars, cacheVars, rideVars, trainReportVars,
                         botVars>>

TrainVars == <<part, scrapeVars, importVars, queryVars, scheduleVars,
               bundleVars, cacheVars, rideVars, trainReportVars, botVars,
               loginVars>>

TrainSpec == TrainInit /\ [][TrainNext]_TrainVars

(* An imported timetable has exactly the trains that run on the day and     *)
(* every named stop of them (provider_vivi_gtfs.go, merge.go).              *)
ImportedDayIsExact == Scraped => Scrape!ImportedDayIsExact

(* The day SpacetimeDB serves is the whole of one import (client.go).       *)
StoredDayIsWhole == Imported => Import!StoredDayIsWhole

(* Once a day is imported both stores answer every query alike (sqlite.go,  *)
(* spacetime.go).                                                           *)
StoresAgree == Queried => Queries!StoresAgree

(* The day requests are answered from is in the cache, and a day that was   *)
(* tried and is missing is tried again in time (manager.go, runner.go).     *)
ScheduleIsServed ==
    Scheduled => Schedule!ServedDayIsStored /\ Schedule!StaleDayIsRetried

(* The bundle version that active.json names has all its files, wherever a  *)
(* publication was interrupted (static bundle of both bots).                *)
ActiveIsComplete == Bundled => Bundle!ActiveIsComplete

(* What the edge keeps under today's version of a page holds every change   *)
(* whose writer has raised the counters (public_edge_cache.go).             *)
CurrentVersionIsFresh == Paged => Cache!CurrentVersionIsFresh

(* Each rider a dispatch heard of is alerted once, for the strongest        *)
(* reason, and the reporter never (bot/dispatch.go).                        *)
OneAlertPerRider == Alerted => Alerts!OneAlertPerRider

(* No window holds more of a user's reports than the limit, and a listed    *)
(* incident counts every user's last vote once (sqlite.go, incidents.go).   *)
ReportsAreFair ==
    Reported => Incidents!ReportRateIsBounded /\ Incidents!LastVoteCounts

(* However old the pressed buttons: a report is about the train the member  *)
(* confirmed, and an origin is one picked since it was last asked for       *)
(* (bot/service.go).                                                        *)
OldButtonsAreHarmless == Chatted => Chat!OldButtonsAreHarmless

(* A session is in the browser that began its login, no span of a window    *)
(* lets through twice the limit, and a test ticket is accepted once         *)
(* (telegram login, test login tickets).                                    *)
LoginIsOwnAndLimited == LoggedIn => Login!SessionIsOwn /\ Login!LoginLimitsHold
=============================================================================
