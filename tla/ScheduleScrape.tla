-------------------------------- MODULE ScheduleScrape --------------------------------
(* How train-bot makes a day's timetable (internal/scrape): each provider's GTFS feed is *)
(* fetched and decoded for the service date, the schedules are merged train by train and *)
(* stop by stop, the snapshot is written to disk and only then read back into the        *)
(* trains that are imported.  A provider may fail, feeds may contradict one another and  *)
(* rows may be unusable.                                                                 *)
(*                                                                                       *)
(* Train numbers and station names are model values: two spellings that the code         *)
(* compares equal are one value.  A time is a number, None if absent or unreadable.      *)
EXTENDS Naturals, Sequences, FiniteSets, SequencesExt, FiniteSetsExt

CONSTANTS Providers,   \* sequence of providers, the first one preferred
          Feeds,       \* GTFS feeds a provider may serve
          Date, Weekday,
          MinTrains,   \* ScraperMinTrains
          None

VARIABLES step,        \* "fetch", "build", "write", "convert", "done" or "failed"
          fetched,     \* sequence of [feed, trains], one per provider asked; no trains if it failed
          snapshot,    \* BuildSnapshotFile's result
          onDisk,      \* the day's file, written under its final name by a rename
          imported     \* what SnapshotToDomain returned, or None

scrapeVars == <<step, fetched, snapshot, onDisk, imported>>

Init == step = "fetch" /\ fetched = <<>> /\ snapshot = None /\ onDisk = None /\ imported = None

(* ------------------------------- decoding a feed ---------------------------------- *)

\* A mutant: the exceptions of every date are applied.
everyException(x) == TRUE

exceptionOfTheDay(x) == x.date = Date

\* calendar.txt, then the exceptions for the date in the order of their rows.
gtfsActiveServices(feed) ==
    FoldLeft(LAMBDA active, x : IF ~exceptionOfTheDay(x) THEN active
                                ELSE IF x.type = "added" THEN active \cup {x.service} ELSE active \ {x.service},
             {c.service : c \in {c \in feed.calendar : c.start <= Date /\ Date <= c.end /\ Weekday \in c.days}},
             feed.exceptions)

gtfsActiveTrips(feed) == {t.id : t \in {t \in feed.trips : t.service \in gtfsActiveServices(feed)}}

gtfsTripStopTimes(feed, trip) == {row \in feed.times : row.trip = trip /\ row.at # None}

\* A trip of two rows or more whose first and last stop have names; unnamed stops between are left out.
decodeTrip(feed, trip) ==
    LET rows == gtfsTripStopTimes(feed, trip)
        first == CHOOSE row \in rows : \A other \in rows : row.seq <= other.seq
        last == CHOOSE row \in rows : \A other \in rows : row.seq >= other.seq
    IN  IF Cardinality(rows) < 2 THEN {}
        ELSE IF feed.names[first.stop] = None \/ feed.names[last.stop] = None THEN {}
        ELSE {[number |-> trip, from |-> feed.names[first.stop], to |-> feed.names[last.stop],
               departure |-> first.at, arrival |-> last.at,
               stops |-> {[station |-> feed.names[row.stop], seq |-> row.seq, at |-> row.at] :
                              row \in {r \in rows : feed.names[r.stop] # None}}]}

decodeViviGTFSZip(feed) == UNION {decodeTrip(feed, trip) : trip \in gtfsActiveTrips(feed)}

(* ---------------------------------- merging --------------------------------------- *)

stopKey(stop) == <<stop.seq, stop.station>>

duplicateSequence(stops) == \E a, b \in stops : a # b /\ a.seq = b.seq

\* A mutant: a train that an earlier provider has is not looked at again.
mergeFirstOnly(merged, train) ==
    IF \E m \in merged : m.number = train.number THEN merged ELSE merged \cup {train}

\* A later provider only adds stops; what an earlier one said of a stop stays.
mergeTrain(merged, train) ==
    IF \A m \in merged : m.number # train.number THEN merged \cup {train}
    ELSE {IF m.number # train.number THEN m
          ELSE [m EXCEPT !.stops = @ \cup {s \in train.stops : stopKey(s) \notin {stopKey(old) : old \in m.stops}}] :
          m \in merged}

mergeSchedule(merged, schedule) == FoldSet(LAMBDA train, m : mergeTrain(m, train), merged, schedule.trains)

BuildSnapshotFile == FoldLeft(mergeSchedule, {}, fetched)

buildFails == \/ \E i \in DOMAIN fetched : \E train \in fetched[i].trains : duplicateSequence(train.stops)
              \/ Cardinality(BuildSnapshotFile) < MinTrains

(* --------------------------------- one scrape ------------------------------------- *)

\* Run asks the providers in order and goes on without those that fail or serve no trains.
Fetch(feed) ==
    /\ step = "fetch" /\ Len(fetched) < Len(Providers)
    /\ fetched' = Append(fetched, [feed |-> feed, trains |-> decodeViviGTFSZip(feed)])
    /\ UNCHANGED <<step, snapshot, onDisk, imported>>

FetchFails ==
    /\ step = "fetch" /\ Len(fetched) < Len(Providers)
    /\ fetched' = Append(fetched, [feed |-> None, trains |-> {}])
    /\ UNCHANGED <<step, snapshot, onDisk, imported>>

Build ==
    /\ step = "fetch" /\ Len(fetched) = Len(Providers)
    /\ IF buildFails THEN step' = "failed" /\ UNCHANGED snapshot
       ELSE step' = "write" /\ snapshot' = BuildSnapshotFile
    /\ UNCHANGED <<fetched, onDisk, imported>>

WriteSnapshotAtomically ==
    /\ step = "write"
    /\ \/ step' = "convert" /\ onDisk' = snapshot
       \/ step' = "failed" /\ UNCHANGED onDisk
    /\ UNCHANGED <<fetched, snapshot, imported>>

\* One train whose stops share a sequence number refuses the whole day.
SnapshotToDomain ==
    /\ step = "convert"
    /\ IF \E train \in onDisk : duplicateSequence(train.stops) THEN step' = "failed" /\ UNCHANGED imported
       ELSE step' = "done" /\ imported' = onDisk
    /\ UNCHANGED <<fetched, snapshot, onDisk>>

Next == \/ \E feed \in Feeds : Fetch(feed)
        \/ FetchFails \/ Build \/ WriteSnapshotAtomically \/ SnapshotToDomain

Spec == Init /\ [][Next]_scrapeVars

(* ---------------------------------- properties ------------------------------------ *)

\* A service runs on the date if the last word on it says so.
runs(feed, service) ==
    LET said == {i \in DOMAIN feed.exceptions : feed.exceptions[i].date = Date /\ feed.exceptions[i].service = service}
    IN  IF said # {} THEN feed.exceptions[Max(said)].type = "added"
        ELSE \E c \in feed.calendar : /\ c.service = service /\ c.start <= Date /\ Date <= c.end
                                      /\ Weekday \in c.days

servedFeeds == {fetched[i].feed : i \in {i \in DOMAIN fetched : fetched[i].feed # None}}

(* The timetable imported for a day has exactly the trains that run on it according to   *)
(* some provider's calendar and the exceptions to it, and every named stop a provider    *)
(* gives such a train, whichever providers failed or were merged before.                 *)
ImportedDayIsExact ==
    imported # None =>
        /\ \A train \in imported : \E feed \in servedFeeds : \E t \in feed.trips :
               t.id = train.number /\ runs(feed, t.service)
        /\ \A feed \in servedFeeds : \A t \in feed.trips : runs(feed, t.service) =>
               \A made \in decodeTrip(feed, t.id) : \E train \in imported :
                   /\ train.number = t.id
                   /\ \A s \in made.stops : \E kept \in train.stops : stopKey(kept) = stopKey(s)
=======================================================================================
