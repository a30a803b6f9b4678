------------------------------ MODULE Satiksme ------------------------------
(* The satiksme bot, part by part: the chat analyzer, the report store, the *)
(* forwarding of reports to a chat, the live vehicle snapshot, the repair   *)
(* of readable incident ids, the catalogue and the health answer.  The      *)
(* parts share no state, so a behaviour is one of a single part and the     *)
(* others stand still.                                                      *)
EXTENDS Naturals, FiniteSets

CONSTANTS Targets, PageSize, MaxPages, FailureLimit, MaxBatch,
          ChatSizes,     \* bounds of ChatAnalyzer: messages, and messages of a batch
          Handlers, Users, Scopes, KindOf, PublicID, AliasOf, Keys, Dedupe, SameVote,
          ActionWindow, ActionLimit, Lookback, Retention, Visibility, MaxAge,
          MaxIncidentTime, MaxOps,
          Enqueuers, Reports, MaxSends,
          Feeds, MaxFiles, MaxFailures, MaxLiveTime,
          LegacyUsers, EventIDs, Comments, AreaReports, MaxRepairTime, MaxRepairStarts,
          StopsIn, RoutesIn, GtfsIn, Near, Clients, RefreshAfter, MaxCatalogStarts,
          CatalogSizes,  \* bounds of CatalogRefresh: time, and catalogues built
          CircuitOpen, MaxMoment,
          None, Torn

(* Pages and batches have a size, a directory keeps a file, a catalogue     *)
(* lives for a while, an area has a report, and None is no number, action,  *)
(* code, vote or event.                                                     *)
ASSUME ChatAssumption ==
    /\ PageSize \in Nat /\ MaxPages \in Nat /\ MaxBatch \in Nat /\ None \notin Nat
    /\ \A b \in ChatSizes :
        /\ b.messages \in Nat
        /\ None \notin [batch : Nat, kind : {"report", "vote"}, target : Targets,
                        sources : SUBSET (1 .. b.messages)]
(* Only vehicles and only areas have ids that may collide, and a request    *)
(* ends long before what was reported with it expires.                      *)
ASSUME IncidentAssumption ==
    /\ {Dedupe, Lookback, Retention, Visibility, MaxAge} \subseteq Nat
    /\ Visibility <= Lookback /\ Visibility <= Retention /\ MaxAge + Dedupe <= Retention + 1
    /\ None \notin Handlers
    /\ \A s \in Scopes : KindOf[s] \in {"stop", "vehicle", "area"}
    /\ \A s, t \in Scopes : PublicID[s] = PublicID[t] /\ s # t => KindOf[s] = KindOf[t] /\ KindOf[s] # "stop"
ASSUME SnapshotAssumption == MaxFiles \in Nat \ {0}
ASSUME CatalogAssumption == RefreshAfter \in Nat \ {0}
ASSUME RepairAssumption ==
    /\ IsFiniteSet(EventIDs) /\ EventIDs = 1 .. Cardinality(EventIDs)
    /\ AreaReports # {}
    /\ None \notin [value : {"ongoing", "cleared"}, at : Nat]
    /\ None \notin [user : LegacyUsers, value : {"ongoing", "cleared"}, at : Nat, incident : {"old", "new"}]
ASSUME HealthAssumption ==
    None \notin {"failed", "storage_failed", "session_unauthorized", "timeout",
                 "processing_failed", "batch_failed"}

VARIABLES part, size  \* which part runs, with which bounds

VARIABLES portable, dryRun, chatKind, old, row, claim, batchOf, checkpoint, first,
          committed, batches, started, chatPc, work, upto, current, seen, decision,
          outcome, result, action, unmarked, chatFailures, circuitOpen
VARIABLES incidentNow, reports, claims, incidentVotes, incidentEvents,
          incidentComments, vehicleMu, areaMu, request, ops, cleanup
VARIABLES queue, sends, received, wake, pending, loaded, dispatcher, item, count,
          enqueuer
VARIABLES liveNow, files, active, stored, catalog, loop, round, memory
VARIABLES legacyKind, legacyVotes, legacyEvents, legacyComments, readable,
          legacyPc, merged, legacyStarts, legacyNow, newest
VARIABLES edition, mirror, output, manager, refresh, ticker, client, time,
          catalogStarts, builds
VARIABLES moment, pass, began, healthFailures, circuit, analyzer, telegram,
          listening, truth

analyzerVars == <<portable, dryRun, chatKind, old, row, claim, batchOf, checkpoint,
                  first, committed, batches, started, chatPc, work, upto, current,
                  seen, decision, outcome, result, action, unmarked, chatFailures,
                  circuitOpen>>
reportVars == <<incidentNow, reports, claims, incidentVotes, incidentEvents,
                incidentComments, vehicleMu, areaMu, request, ops, cleanup>>
dumpVars == <<queue, sends, received, wake, pending, loaded, dispatcher, item,
              count, enqueuer>>
snapshotVars == <<liveNow, files, active, stored, catalog, loop, round, memory>>
repairVars == <<legacyKind, legacyVotes, legacyEvents, legacyComments, readable,
                legacyPc, merged, legacyStarts, legacyNow, newest>>
catalogVars == <<edition, mirror, output, manager, refresh, ticker, client, time,
                 catalogStarts, builds>>
healthVars == <<moment, pass, began, healthFailures, circuit, analyzer, telegram,
                listening, truth>>

Chat(b) == INSTANCE ChatAnalyzer WITH
    MaxMessage <- b.messages, BatchLimit <- b.batch, kind <- chatKind, pc <- chatPc,
    failures <- chatFailures
Incident == INSTANCE IncidentReports WITH
    MaxTime <- MaxIncidentTime, now <- incidentNow, votes <- incidentVotes,
    events <- incidentEvents, comments <- incidentComments
Dump == INSTANCE ReportDump
Snapshot == INSTANCE LiveSnapshot WITH MaxTime <- MaxLiveTime, now <- liveNow
Repair == INSTANCE PrivacyRepair WITH
    Users <- LegacyUsers, MaxTime <- MaxRepairTime, MaxStarts <- MaxRepairStarts,
    kind <- legacyKind, votes <- legacyVotes, events <- legacyEvents,
    comments <- legacyComments, pc <- legacyPc, starts <- legacyStarts, now <- legacyNow
Catalog(b) == INSTANCE CatalogRefresh WITH
    MaxTime <- b.time, MaxBuilds <- b.builds, MaxStarts <- MaxCatalogStarts,
    starts <- catalogStarts
Health == INSTANCE ServiceHealth WITH failures <- healthFailures

(* The variables of a part that does not take part. *)
NoAnalyzer ==
    /\ portable = None /\ dryRun = None /\ chatKind = None /\ old = None
    /\ row = None /\ claim = None /\ batchOf = None /\ checkpoint = None
    /\ first = None /\ committed = None /\ batches = None /\ started = None
    /\ chatPc = None /\ work = None /\ upto = None /\ current = None /\ seen = None
    /\ decision = None /\ outcome = None /\ result = None /\ action = None
    /\ unmarked = None /\ chatFailures = None /\ circuitOpen = None
NoIncident ==
    /\ incidentNow = None /\ reports = None /\ claims = None
    /\ incidentVotes = None /\ incidentEvents = None /\ incidentComments = None
    /\ vehicleMu = None /\ areaMu = None /\ request = None /\ ops = None
    /\ cleanup = None
NoDump ==
    /\ queue = None /\ sends = None /\ received = None /\ wake = None
    /\ pending = None /\ loaded = None /\ dispatcher = None /\ item = None
    /\ count = None /\ enqueuer = None
NoSnapshot ==
    /\ liveNow = None /\ files = None /\ active = None /\ stored = None
    /\ catalog = None /\ loop = None /\ round = None /\ memory = None
NoRepair ==
    /\ legacyKind = None /\ legacyVotes = None /\ legacyEvents = None
    /\ legacyComments = None /\ readable = None /\ legacyPc = None /\ merged = None
    /\ legacyStarts = None /\ legacyNow = None /\ newest = None
NoCatalog ==
    /\ edition = None /\ mirror = None /\ output = None /\ manager = None
    /\ refresh = None /\ ticker = None /\ client = None /\ time = None
    /\ catalogStarts = None /\ builds = None
NoHealth ==
    /\ moment = None /\ pass = None /\ began = None /\ healthFailures = None
    /\ circuit = None /\ analyzer = None /\ telegram = None /\ listening = None
    /\ truth = None

Chatted(b) == part = "analyzer" /\ size = b
Reported == part = "reports" /\ size = None
Dumped == part = "dump" /\ size = None
Snapped == part = "snapshot" /\ size = None
Repaired == part = "repair" /\ size = None
Catalogued(b) == part = "catalog" /\ size = b
Checked == part = "health" /\ size = None

BotInit ==
    \/ /\ \E b \in ChatSizes : Chatted(b) /\ Chat(b)!Init
       /\ NoIncident /\ NoDump /\ NoSnapshot /\ NoRepair
       /\ NoCatalog /\ NoHealth
    \/ /\ Reported /\ Incident!Init
       /\ NoAnalyzer /\ NoDump /\ NoSnapshot /\ NoRepair
       /\ NoCatalog /\ NoHealth
    \/ /\ Dumped /\ Dump!Init
       /\ NoAnalyzer /\ NoIncident /\ NoSnapshot /\ NoRepair
       /\ NoCatalog /\ NoHealth
    \/ /\ Snapped /\ Snapshot!Init
       /\ NoAnalyzer /\ NoIncident /\ NoDump /\ NoRepair
       /\ NoCatalog /\ NoHealth
    \/ /\ Repaired /\ Repair!Init
       /\ NoAnalyzer /\ NoIncident /\ NoDump /\ NoSnapshot
       /\ NoCatalog /\ NoHealth
    \/ /\ \E b \in CatalogSizes : Catalogued(b) /\ Catalog(b)!Init
       /\ NoAnalyzer /\ NoIncident /\ NoDump /\ NoSnapshot
       /\ NoRepair /\ NoHealth
    \/ /\ Checked /\ Health!Init
       /\ NoAnalyzer /\ NoIncident /\ NoDump /\ NoSnapshot
       /\ NoRepair /\ NoCatalog

BotNext ==
    /\ UNCHANGED <<part, size>>
    /\ \/ /\ \E b \in ChatSizes : Chatted(b) /\ Chat(b)!Next
          /\ UNCHANGED <<reportVars, dumpVars, snapshotVars, repairVars,
                         catalogVars, healthVars>>
       \/ /\ Reported /\ Incident!Next
          /\ UNCHANGED <<analyzerVars, dumpVars, snapshotVars, repairVars,
                         catalogVars, healthVars>>
       \/ /\ Dumped /\ Dump!Next
          /\ UNCHANGED <<analyzerVars, reportVars, snapshotVars, repairVars,
                         catalogVars, healthVars>>
       \/ /\ Snapped /\ Snapshot!Next
          /\ UNCHANGED <<analyzerVars, reportVars, dumpVars, repairVars,
                         catalogVars, healthVars>>
       \/ /\ Repaired /\ Repair!Next
          /\ UNCHANGED <<analyzerVars, reportVars, dumpVars, snapshotVars,
                         catalogVars, healthVars>>
       \/ /\ \E b \in CatalogSizes : Catalogued(b) /\ Catalog(b)!Next
          /\ UNCHANGED <<analyzerVars, reportVars, dumpVars, snapshotVars,
                         repairVars, healthVars>>
       \/ /\ Checked /\ Health!Next
          /\ UNCHANGED <<analyzerVars, reportVars, dumpVars, snapshotVars,
                         repairVars, catalogVars>>

BotVars == <<part, size, analyzerVars, reportVars, dumpVars, snapshotVars, repairVars,
             catalogVars, healthVars>>

BotSpec == BotInit /\ [][BotNext]_BotVars

(* No chat message is the source of two published actions, a message is     *)
(* recorded as applied only with a durable action it is a source of, and    *)
(* the checkpoint passes no text message that was not stored                *)
(* (chatanalyzer/service.go).                                               *)
ChatIsActedOnOnce ==
    \A b \in ChatSizes : Chatted(b) =>
        Chat(b)!ActedOnAtMostOnce /\ Chat(b)!AppliedIsCommitted /\ Chat(b)!NoMessageSkipped

(* Reports of one user about one scope are a dedupe window apart, a public  *)
(* id names one scope, and the list shows every sighting with its newest    *)
(* report (reports and incidents packages, sqlite.go).                      *)
IncidentsAreConsistent ==
    Reported =>
        /\ Incident!OneReportPerWindow
        /\ Incident!PublicIDIsUnambiguous
        /\ Incident!NewestReportIsShown

(* A dispatcher asleep without a timer has nothing queued that no wake-up   *)
(* is on its way for (report_dump.go Run, Enqueue).                         *)
NoLostWakeup == Dumped => Dump!NoLostWakeup

(* active.json names a snapshot file that exists, wherever the process died *)
(* (live snapshot Publish, cleanupOldSnapshots).                            *)
ActiveSnapshotExists == Snapped => Snapshot!ActiveSnapshotExists

(* A repair of readable ids, interrupted and repeated, never puts an older  *)
(* vote over a newer one and leaves no row behind.                          *)
RepairKeepsNewest == Repaired => Repair!RepairKeepsNewest

(* A catalogue made of old files is reported stale, and a client told "not  *)
(* modified" is at most one catalogue behind (catalog.go, web/server.go).   *)
CatalogIsHonest ==
    \A b \in CatalogSizes : Catalogued(b) =>
        Catalog(b)!StaleDataIsReported /\ Catalog(b)!RevalidatedIsRecent

(* The health answer names a failure exactly while it lasts (state.go).     *)
FailuresAreShown == Checked => Health!FailuresAreShown
=============================================================================
