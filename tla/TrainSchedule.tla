------------------------------ MODULE TrainSchedule ------------------------------
(* The daily schedule of the train bot: the job runner that scrapes a service day   *)
(* (jobs/runner.go), the schedule manager that decides which day is served          *)
(* (schedule/manager.go), the two stores an import writes one after the other (the   *)
(* SpacetimeDB service day and the SQLite cache, store/routed.go), and the start-up   *)
(* that repairs the first from the second (recovery/schedule_sync.go).               *)
(*                                                                                   *)
(* Days are numbers, time is counted in ticks of the runner.  The time a tick carries *)
(* is read when the tick fires; the clock goes on while the tick is handled.          *)
EXTENDS Naturals, FiniteSets, FiniteSetsExt

CONSTANTS DayLength,       \* ticks in a day
          Cutoff,          \* SCRAPER_DAILY_HOUR, as a tick of the day
          InitialBackoff,  \* dailyRetryInitialBackoff
          MaxBackoff,      \* dailyRetryMaxBackoff
          CleanupInterval, \* cleanupInterval
          MaxTime,         \* bound on the clock
          MaxStarts,       \* bound on process starts
          None

VARIABLES time,     \* the wall clock
          trains,   \* service days with train rows in the SQLite cache
          stops,    \* service days whose trains have their stops there
          legacy,   \* days whose cached rows come from the retired PDF source
          days,     \* service days in SpacetimeDB
          files,    \* snapshot files in the schedule directory
          bundle,   \* service day of the published static bundle
          manager,  \* [available, date]: schedule.Manager
          runner,   \* [attempt, retry, backoff, cleaned]: jobs.Runner
          step,     \* where the runner is
          at,       \* the time of the tick it handles
          starts    \* process starts so far

scheduleVars == <<time, trains, stops, legacy, days, files, bundle, manager, runner,
                  step, at, starts>>

Steps == {"down", "boot", "startup", "available", "idle", "cleanup", "daily",
          "import", "refresh", "publish", "previous"}

DayOf(t) == t \div DayLength
BeforeCutoff(t) == t % DayLength < Cutoff
Yesterday(t) == IF DayOf(t) = 0 THEN None ELSE DayOf(t) - 1
Days == 0 .. DayOf(MaxTime)

freshRunner == [attempt |-> None, retry |-> None, backoff |-> 0, cleaned |-> None]
unavailable == [available |-> FALSE, date |-> None]

\* What a previous deployment may have left: a cached day from the PDF source.
Init ==
    /\ time = 0 /\ at = 0 /\ starts = 0
    /\ legacy \in {{}, {0}}
    /\ trains = legacy /\ stops = legacy
    /\ days = {} /\ files = {} /\ bundle = None
    /\ manager = unavailable /\ runner = freshRunner
    /\ step = "down"

(* ------------------------- which day is served (manager.go) ---------------------- *)

usableCachedSchedule(d) == d \in trains \ legacy

\* The service day a request at time t is answered from; None stands for
\* ErrUnavailable.
AccessContext(m, t) ==
    IF ~m.available THEN None
    ELSE IF m.date = DayOf(t) THEN m.date
    ELSE IF BeforeCutoff(t) /\ m.date = Yesterday(t) THEN m.date
    ELSE None

IsFreshFor(t) == manager.available /\ manager.date = DayOf(t)

requireServiceDate == AccessContext(manager, time)

(* -------------------------- the two stores of an import -------------------------- *)

\* One chunked import into SpacetimeDB: begin, append, commit, or abort on an error.
\* The commit may have been carried out although its answer is lost.
syncSingleServiceDate(d) == {[ok |-> TRUE,  days |-> days \cup {d}],
                             [ok |-> FALSE, days |-> days],
                             [ok |-> FALSE, days |-> days \cup {d}]}

\* The SQLite cache takes the trains in one transaction and the stops in a second one.
UpsertTrainInstances(d) == [trains |-> trains \cup {d}, legacy |-> legacy \ {d}]
UpsertTrainStops(d) == stops \cup {d}

\* RoutedStore.ImportTrainData: first the state store, then the schedule store; every
\* way the three writes can go.
ImportTrainData(d) ==
    LET nothing == [trains |-> trains, legacy |-> legacy, stops |-> stops]
        rows    == UpsertTrainInstances(d)
        half    == [trains |-> rows.trains, legacy |-> rows.legacy, stops |-> stops]
        all     == [half EXCEPT !.stops = UpsertTrainStops(d)]
    IN  UNION {IF s.ok
               THEN {[ok |-> FALSE, days |-> s.days, cache |-> nothing],
                     [ok |-> FALSE, days |-> s.days, cache |-> half],
                     [ok |-> TRUE,  days |-> s.days, cache |-> all]}
               ELSE {[ok |-> FALSE, days |-> s.days, cache |-> nothing]}
               : s \in syncSingleServiceDate(d)}

Stored(i) == /\ trains' = i.cache.trains /\ stops' = i.cache.stops
             /\ legacy' = i.cache.legacy /\ days' = i.days

(* ------------------------------ loading a service day ---------------------------- *)

Loaded(d) == [available |-> TRUE, date |-> d]

\* useExistingServiceDate: a failed import falls back on usable rows, which the import
\* itself may have written.
useExistingServiceDate(d, i) == d \in i.cache.trains \ i.cache.legacy

\* LoadServiceDate for one day: the cached rows, else the snapshot file, whose import
\* can fail and leave rows that are served all the same.
LoadServiceDate(d) ==
    LET now == [ok |-> FALSE, days |-> days,
                cache |-> [trains |-> trains, legacy |-> legacy, stops |-> stops]]
    IN  IF usableCachedSchedule(d)
        THEN {[import |-> now, manager |-> Loaded(d)]}
        ELSE IF d \notin files
        THEN {[import |-> now, manager |-> unavailable]}
        ELSE {[import |-> i,
               manager |-> IF i.ok \/ useExistingServiceDate(d, i)
                           THEN Loaded(d) ELSE unavailable] : i \in ImportTrainData(d)}

\* LoadForAccess: today, and before the cut-off hour also yesterday.  Yesterday's rows
\* are only looked up in the cache here: its file was imported when it was today.
LoadForAccess(t) ==
    UNION {IF l.manager.available \/ ~BeforeCutoff(t) \/ Yesterday(t) = None THEN {l}
           ELSE {[l EXCEPT !.manager =
                     IF Yesterday(t) \in l.import.cache.trains \ l.import.cache.legacy
                     THEN Loaded(Yesterday(t)) ELSE unavailable]}
           : l \in LoadServiceDate(DayOf(t))}

(* ------------------------------------ start-up ----------------------------------- *)

\* main: a new process, with an empty manager and runner, loads the schedule.
Start ==
    /\ step = "down" /\ starts < MaxStarts
    /\ starts' = starts + 1 /\ at' = time /\ runner' = freshRunner
    /\ \E l \in LoadForAccess(time) : Stored(l.import) /\ manager' = l.manager
    /\ step' = "boot"
    /\ UNCHANGED <<time, files, bundle>>

\* recovery.MaybeSelfHeal: a served day SpacetimeDB does not have is copied to it.
MaybeSelfHeal ==
    /\ step = "boot"
    /\ LET d == requireServiceDate
       IN  IF d = None \/ d \in days \/ d \notin trains THEN days' = days
           ELSE \E s \in syncSingleServiceDate(d) : days' = s.days
    /\ step' = "startup"
    /\ UNCHANGED <<time, trains, stops, legacy, files, bundle, manager, runner, at, starts>>

\* Runner.Run: the schedule is loaded once more, then a scrape at every start, whatever
\* is cached.
RunStartup ==
    /\ step = "startup" /\ at' = time
    /\ \E l \in LoadForAccess(time) : Stored(l.import) /\ manager' = l.manager
    /\ \/ step' = "import" /\ files' = files \cup {DayOf(time)}
       \/ step' = "available" /\ files' = files
    /\ UNCHANGED <<time, bundle, runner, starts>>

\* Without a fresh scrape the loaded schedule is published; here, and only here, a
\* publication that fails ends the process.
PublishLoaded ==
    /\ step = "available"
    /\ \/ requireServiceDate = None /\ bundle' = bundle /\ step' = "idle"
       \/ requireServiceDate # None /\ bundle' = requireServiceDate /\ step' = "idle"
       \/ manager.available /\ bundle' = bundle /\ step' = "down"
    /\ UNCHANGED <<time, trains, stops, legacy, days, files, manager, runner, at, starts>>

(* ---------------------------------- the minute tick ------------------------------ *)

Tick ==
    /\ step = "idle" /\ at < time
    /\ at' = time /\ step' = "cleanup"
    /\ UNCHANGED <<time, trains, stops, legacy, days, files, bundle, manager, runner, starts>>

\* A mutant: the cleanup keeps today only.
oldestKeptToday(t) == DayOf(t)

oldestKept(t) == IF Yesterday(t) = None THEN 0 ELSE Yesterday(t)

\* CleanupExpired of the cache, then of SpacetimeDB, keeps yesterday and later;
\* lastCleanupAt moves whether or not it succeeds, and an outdated live schema ends the
\* process.
CleanupExpired ==
    /\ step = "cleanup"
    /\ IF runner.cleaned = None \/ at >= (IF runner.cleaned = None THEN 0 ELSE runner.cleaned)
                                        + CleanupInterval
       THEN /\ runner' = [runner EXCEPT !.cleaned = at]
            /\ LET old == {d \in Days : d < oldestKept(at)}
               IN  /\ \/ trains' = trains \ old /\ stops' = stops \ old
                      \/ UNCHANGED <<trains, stops>>
                   /\ days' \in {days, days \ old}
                   /\ step' \in {"daily", "down"}
       ELSE step' = "daily" /\ UNCHANGED <<runner, trains, stops, days>>
    /\ UNCHANGED <<time, legacy, files, bundle, manager, at, starts>>

resetDailyRetryState(r) == [r EXCEPT !.attempt = None, !.retry = None, !.backoff = 0]

nextBackoff(b) == IF b = 0 THEN InitialBackoff
                  ELSE IF 2 * b > MaxBackoff THEN MaxBackoff ELSE 2 * b

\* A mutant: the failure of a catch-up scrape is not followed by a retry time.
scheduleNothing(r, t) == r

scheduleNextDailyRetry(r, t) ==
    [r EXCEPT !.backoff = nextBackoff(r.backoff), !.retry = t + nextBackoff(r.backoff)]

\* Whether this tick scrapes: after the cut-off hour, at once for a day not tried yet
\* and at the retry time for a day that failed.
scrapeIsDue == /\ ~BeforeCutoff(at)
               /\ IF runner.attempt # DayOf(at) THEN TRUE
                  ELSE IF runner.retry = None THEN FALSE ELSE at >= runner.retry

ensureDailyScheduleFreshness ==
    /\ step = "daily"
    /\ IF IsFreshFor(at)
       THEN /\ runner' = resetDailyRetryState(runner)
            /\ step' = "idle" /\ files' = files
       ELSE IF ~scrapeIsDue
       THEN step' = "idle" /\ UNCHANGED <<runner, files>>
       ELSE LET tried == [runner EXCEPT !.attempt = DayOf(at)]
            IN  \/ /\ step' = "import" /\ files' = files \cup {DayOf(at)}
                   /\ runner' = tried
                \/ /\ step' = "idle" /\ files' = files
                   /\ runner' = scheduleNextDailyRetry(tried, at)
    /\ UNCHANGED <<time, trains, stops, legacy, days, bundle, manager, at, starts>>

(* ---------------------------- runScrape after the download ----------------------- *)

\* A scrape made at start-up has no attempt on record; a failed import is then
\* followed by the look at the loaded schedule, otherwise by the retry time.
ImportScraped ==
    /\ step = "import"
    /\ \E i \in ImportTrainData(DayOf(at)) :
          /\ Stored(i)
          /\ IF i.ok THEN step' = "refresh" /\ runner' = runner
             ELSE IF runner.attempt = None THEN step' = "available" /\ runner' = runner
             ELSE step' = "idle" /\ runner' = scheduleNextDailyRetry(runner, at)
    /\ UNCHANGED <<time, files, bundle, manager, at, starts>>

refreshReadModel ==
    /\ step = "refresh" /\ step' = "publish"
    /\ \E l \in LoadForAccess(at) : Stored(l.import) /\ manager' = l.manager
    /\ UNCHANGED <<time, files, bundle, runner, at, starts>>

\* A publication that fails is logged, unless the live schema is outdated.
publishBundle ==
    /\ step = "publish"
    /\ \/ AccessContext(manager, at) # None
          /\ bundle' = AccessContext(manager, at) /\ step' = "previous"
       \/ bundle' = bundle /\ step' \in {"previous", "down"}
    /\ UNCHANGED <<time, trains, stops, legacy, days, files, manager, runner, at, starts>>

previousIsDue(t) == ~BeforeCutoff(t) /\ Yesterday(t) # None

\* cleanupPreviousServiceDate deletes in the cache and then, whatever came of that, in
\* SpacetimeDB; it is the end of a scrape that counts as done.
cleanupPreviousServiceDate ==
    /\ step = "previous"
    /\ runner' = resetDailyRetryState(runner)
    /\ IF previousIsDue(at)
       THEN /\ \/ trains' = trains \ {Yesterday(at)} /\ stops' = stops \ {Yesterday(at)}
               \/ UNCHANGED <<trains, stops>>
            /\ days' \in {days, days \ {Yesterday(at)}}
            /\ step' \in {"idle", "down"}
       ELSE step' = "idle" /\ UNCHANGED <<trains, stops, days>>
    /\ UNCHANGED <<time, legacy, files, bundle, manager, at, starts>>

(* ------------------------------- clock and crashes ------------------------------- *)

Clock == /\ time < MaxTime /\ time' = time + 1
         /\ UNCHANGED <<trains, stops, legacy, days, files, bundle, manager, runner,
                        step, at, starts>>

\* The process is stopped anywhere; between the two transactions of an import the
\* cache is left with trains that have no stops.
Crash == /\ step # "down" /\ starts < MaxStarts
         /\ step' = "down" /\ manager' = unavailable
         /\ IF step \in {"import"} THEN \E i \in ImportTrainData(DayOf(at)) : Stored(i)
            ELSE UNCHANGED <<trains, stops, legacy, days>>
         /\ UNCHANGED <<time, files, bundle, runner, at, starts>>

Next == \/ Start \/ MaybeSelfHeal \/ RunStartup \/ PublishLoaded
        \/ Tick \/ CleanupExpired \/ ensureDailyScheduleFreshness
        \/ ImportScraped \/ refreshReadModel \/ publishBundle \/ cleanupPreviousServiceDate
        \/ Clock \/ Crash

Spec == Init /\ [][Next]_scheduleVars

(* ------------------------------------ properties --------------------------------- *)

\* The day that requests are answered from is in the cache: neither the hourly cleanup,
\* nor the removal of the previous day, nor a half-finished import takes its trains
\* away while the manager serves it (manager.go AccessContext against runner.go
\* cleanupPreviousServiceDate and sqlite.go CleanupExpired).
ServedDayIsStored == requireServiceDate # None => requireServiceDate \in trains

\* A day the runner has tried and does not have is tried again: its retry time is
\* set, and not further away than the largest backoff (ensureDailyScheduleFreshness
\* returns without a scrape for ever when it is not).
StaleDayIsRetried ==
    step = "idle" /\ runner.attempt # None
        => /\ runner.retry # None
           /\ runner.retry <= time + MaxBackoff
=================================================================================
