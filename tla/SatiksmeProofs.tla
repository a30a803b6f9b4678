--------------------------- MODULE SatiksmeProofs ---------------------------
(* Proofs about the parts of Satiksme, for every value of the constants.    *)
EXTENDS Satiksme, FiniteSetTheorems, WellFoundedInduction, TLAPS

USE DEF Chatted, Reported, Dumped, Snapped, Repaired, Catalogued, Checked

-----------------------------------------------------------------------------
(* A set of numbers has a least one.                                        *)
LEMMA LeastExists == ASSUME NEW S \in SUBSET Nat, S # {} PROVE \E n \in S : \A m \in S : n <= m
<1> DEFINE Less == {pair \in Nat \X Nat : pair[1] < pair[2]}
<1>1. IsWellFoundedOn(Less, Nat)
  BY NatLessThanWellFounded DEF OpToRel
<1> HIDE DEF Less
<1>2. PICK n \in S : \A m \in S : ~(<<m, n>> \in Less)
  BY <1>1, WFMin
<1>3. \A m \in S : ~(m < n)
  BY <1>2 DEF Less
<1> QED BY <1>3

-----------------------------------------------------------------------------
(*                     The report dispatcher (ReportDump)                   *)

DumpInv ==
    /\ queue \in [Reports -> {"due", "later", None}]
    /\ enqueuer \in [Enqueuers -> [pc : {"idle", "adjust", "signal"}, report : Reports \cup {None}]]
    /\ dispatcher \in {"send", "failed", "delete"} => item \in Reports
    /\ Dump!NoLostWakeup

LEMMA DumpStep == ASSUME DumpInv, Dump!Next PROVE DumpInv'
<1> USE DEF DumpInv, Dump!NoLostWakeup, Dump!Queued
<1>1. ASSUME NEW e \in Enqueuers, Dump!Enqueue(e) PROVE DumpInv'
  BY <1>1 DEF Dump!Enqueue
<1>2. ASSUME NEW e \in Enqueuers, Dump!AdjustAfterEnqueue(e) PROVE DumpInv'
  BY <1>2 DEF Dump!AdjustAfterEnqueue, Dump!adjustPending
<1>3. ASSUME NEW e \in Enqueuers, Dump!signalWake(e) PROVE DumpInv'
  BY <1>3 DEF Dump!signalWake
<1>4. ASSUME NEW at, NEW to \in {"started", "counted", "load", "peek"},
             Dump!CountPending(at, to) \/ Dump!refreshPendingCount(at, to)
      PROVE  DumpInv'
  BY <1>4 DEF Dump!CountPending, Dump!refreshPendingCount
<1>5. CASE Dump!waitForDumpWake
  BY <1>5 DEF Dump!waitForDumpWake
<1>6. CASE Dump!NextReportDump
  BY <1>6 DEF Dump!NextReportDump
<1>7. CASE Dump!SendMessage
  BY <1>7 DEF Dump!SendMessage
<1>8. CASE Dump!UpdateReportDumpFailure
  BY <1>8 DEF Dump!UpdateReportDumpFailure
<1>9. CASE Dump!DeleteReportDump
  BY <1>9 DEF Dump!DeleteReportDump
<1>10. CASE Dump!PeekNextReportDump
  BY <1>10 DEF Dump!PeekNextReportDump, Dump!nextWakeDelay
<1>11. CASE Dump!BackoffEnds
  BY <1>11 DEF Dump!BackoffEnds
<1>12. CASE Dump!Restart
  BY <1>12 DEF Dump!Restart
<1> QED BY <1>1, <1>2, <1>3, <1>4, <1>5, <1>6, <1>7, <1>8, <1>9, <1>10, <1>11, <1>12 DEF Dump!Next

(* A dispatcher that sleeps without a timer has nothing queued unless a     *)
(* wake-up is on its way, for every number of enqueuers and reports.        *)
THEOREM NoWakeupIsLost == BotSpec => []NoLostWakeup
<1> DEFINE Inv == Dumped => DumpInv
<1>1. BotInit => Inv
  BY DEF BotInit, DumpInv, Dump!Init, Dump!NoLostWakeup, Dump!Queued
<1>2. Inv /\ [BotNext]_BotVars => Inv'
  <2> SUFFICES ASSUME Inv, [BotNext]_BotVars, Dumped' PROVE DumpInv'
    OBVIOUS
  <2>1. Dumped /\ DumpInv
    BY DEF BotNext, BotVars
  <2>2. CASE UNCHANGED dumpVars
    BY <2>1, <2>2 DEF dumpVars, DumpInv, Dump!NoLostWakeup, Dump!Queued
  <2>3. CASE Dump!Next
    BY <2>1, <2>3, DumpStep
  <2> QED BY <2>1, <2>2, <2>3 DEF BotNext, BotVars
<1>3. Inv => NoLostWakeup
  BY DEF DumpInv, NoLostWakeup
<1> QED BY <1>1, <1>2, <1>3, PTL DEF BotSpec

-----------------------------------------------------------------------------
(*                     The health answer (ServiceHealth)                    *)

(* What State keeps of the analyzer says how its last collection and batch  *)
(* ended, and the open circuit is copied once a batch is recorded.          *)
HealthInv ==
    /\ DOMAIN truth = {"collect", "batch"} /\ truth.collect \in {"ok", "failed"} /\ truth.batch \in {"ok", "failed"}
    /\ DOMAIN analyzer = {"session", "collect", "process", "batch", "maintenance", "code", "until"}
    /\ analyzer.collect <=> truth.collect = "failed"
    /\ analyzer.session \in {"unauthorized", "error"} => truth.collect = "failed"
    /\ analyzer.process <=> truth.batch = "failed"
    /\ analyzer.batch = "failed" <=> truth.batch = "failed"
    /\ analyzer.code # None <=> truth.collect = "failed" \/ truth.batch = "failed"
    /\ pass \notin {"failed", "completed"} => analyzer.until = circuit

LEMMA HealthStep == ASSUME HealthInv, Health!Next PROVE HealthInv'
<1> USE HealthAssumption DEF HealthInv
<1>1. CASE Health!recoverStaleBatches \/ Health!processPendingBatch
  BY <1>1 DEF Health!recoverStaleBatches, Health!processPendingBatch, Health!RecordChatAnalyzerMaintenance
<1>2. CASE Health!collectNewMessages
  <2>1. CASE UNCHANGED <<analyzer, truth>>
    BY <1>2, <2>1 DEF Health!collectNewMessages
  <2>2. ASSUME NEW session, NEW code, <<session, code>> \in
                 {<<"authorized", None>>, <<"authorized", "storage_failed">>,
                  <<"unauthorized", "session_unauthorized">>, <<"error", "timeout">>},
               analyzer' = Health!RecordChatAnalyzerCollection(session, code),
               truth' = [truth EXCEPT !.collect = IF code = None THEN "ok" ELSE "failed"]
        PROVE  HealthInv'
    <3>1. UNCHANGED <<circuit>> /\ pass = "recovered" /\ pass' = "collected"
      BY <1>2 DEF Health!collectNewMessages
    <3>3. CASE code = None
      <4>1. /\ session = "authorized" /\ truth' = [truth EXCEPT !.collect = "ok"]
            /\ analyzer' = [analyzer EXCEPT !.session = session, !.collect = FALSE,
                                            !.code = IF analyzer.batch = "failed" THEN @ ELSE None]
        BY <2>2, <3>3 DEF Health!RecordChatAnalyzerCollection
      <4> QED BY <3>1, <4>1
    <3>4. CASE code # None
      <4>1. /\ truth' = [truth EXCEPT !.collect = "failed"]
            /\ analyzer' = [analyzer EXCEPT !.session = session, !.collect = TRUE, !.code = code]
        BY <2>2, <3>4 DEF Health!RecordChatAnalyzerCollection
      <4> QED BY <3>1, <3>4, <4>1
    <3> QED BY <3>3, <3>4
  <2> QED BY <1>2, <2>1, <2>2 DEF Health!collectNewMessages
<1>3. CASE Health!processBatch
  BY <1>3 DEF Health!processBatch, Health!recordModelFailure
<1>4. CASE Health!recordBatch
  <2>1. CASE pass = "failed"
    <3>1. PICK code \in {"timeout", "processing_failed"} : analyzer' = Health!RecordChatAnalyzerProcess("failed", code)
      BY <1>4, <2>1 DEF Health!recordBatch
    <3>2. /\ analyzer' = [analyzer EXCEPT !.batch = "failed", !.until = circuit, !.process = TRUE, !.code = code]
          /\ code # None
      BY <3>1 DEF Health!RecordChatAnalyzerProcess
    <3>3. truth' = [truth EXCEPT !.batch = "failed"] /\ UNCHANGED circuit
      BY <1>4, <2>1 DEF Health!recordBatch
    <3> QED BY <3>2, <3>3
  <2>2. CASE pass # "failed"
    <3>1. /\ pass = "completed" /\ UNCHANGED circuit
          /\ analyzer' = Health!RecordChatAnalyzerProcess("completed", None)
          /\ truth' = [truth EXCEPT !.batch = "ok"]
      BY <1>4, <2>2 DEF Health!recordBatch
    <3>2. analyzer' = [analyzer EXCEPT !.batch = "completed", !.until = circuit, !.process = FALSE,
                                       !.code = IF analyzer.collect THEN @ ELSE None]
      BY <3>1 DEF Health!RecordChatAnalyzerProcess
    <3> QED BY <3>1, <3>2
  <2> QED BY <2>1, <2>2
<1>5. CASE Health!Start \/ Health!Run \/ Health!Tick
  BY <1>5 DEF Health!Start, Health!Run, Health!Tick
<1> QED BY <1>1, <1>2, <1>3, <1>4, <1>5 DEF Health!Next

(* The health answer names a failed collection or batch exactly while it is *)
(* the last, and an open circuit between passes, whatever the limits.       *)
THEOREM HealthIsTrue == BotSpec => []FailuresAreShown
<1> DEFINE Inv == Checked => HealthInv
<1>1. BotInit => Inv
  BY HealthAssumption DEF BotInit, HealthInv, Health!Init
<1>2. Inv /\ [BotNext]_BotVars => Inv'
  <2> SUFFICES ASSUME Inv, [BotNext]_BotVars, Checked' PROVE HealthInv'
    OBVIOUS
  <2>1. Checked /\ HealthInv
    BY DEF BotNext, BotVars
  <2>2. CASE UNCHANGED healthVars
    BY <2>1, <2>2 DEF healthVars, HealthInv
  <2>3. CASE Health!Next
    BY <2>1, <2>3, HealthStep
  <2> QED BY <2>1, <2>2, <2>3 DEF BotNext, BotVars
<1>3. Inv => FailuresAreShown
  BY DEF HealthInv, FailuresAreShown, Health!FailuresAreShown, Health!reasons
<1> QED BY <1>1, <1>2, <1>3, PTL DEF BotSpec

-----------------------------------------------------------------------------
(*                   Live vehicle snapshots (LiveSnapshot)                  *)

ThisRound == [at |-> round.at, hash |-> round.hash]

(* A round has a second of its own: the files of earlier rounds are older.  *)
SnapshotInv ==
    /\ liveNow \in Nat /\ DOMAIN round = {"at", "hash"} /\ round.at \in Nat /\ round.at <= liveNow
    /\ IsFiniteSet(files) /\ \A f \in files : f.at \in Nat /\ f.at <= round.at
    /\ loop \in {"fetch", "publish", "file"} => \A f \in files : f.at < round.at
    /\ loop \in {"active", "cleanup"} => /\ ThisRound \in files
                                         /\ \A f \in files : f # ThisRound => f.at < round.at
    /\ loop = "cleanup" => active = ThisRound
    /\ Snapshot!ActiveSnapshotExists

LEMMA SnapshotCardinality == \A S : Snapshot!Cardinality(S) = Cardinality(S)
BY DEF Snapshot!Cardinality, Cardinality

(* The newest file is not among those beyond MaxFiles.                      *)
LEMMA NewestIsKept ==
    ASSUME SnapshotInv, loop = "cleanup" PROVE active \notin Snapshot!oldSnapshots
<1>1. Snapshot!Older(active) = files \ {active}
  BY DEF SnapshotInv, Snapshot!Older, ThisRound
<1>2. Cardinality(files \ {active}) = Cardinality(files) - 1 /\ Cardinality(files) \in Nat
  BY FS_RemoveElement, FS_CardinalityType DEF SnapshotInv
<1>3. ~(Cardinality(Snapshot!Older(active)) + MaxFiles < Cardinality(files))
  BY <1>1, <1>2, SnapshotAssumption
<1> QED BY <1>3, SnapshotCardinality DEF Snapshot!oldSnapshots

LEMMA SnapshotStep == ASSUME SnapshotInv, Snapshot!Next PROVE SnapshotInv'
<1> USE DEF Snapshot!ActiveSnapshotExists, ThisRound
<1>0. ASSUME UNCHANGED <<liveNow, active>>, files' = files, Snapshot!RoundFails PROVE SnapshotInv'
  <2>1. loop' = "wait" /\ DOMAIN round' = {"at", "hash"} /\ round'.at = round.at
    BY <1>0 DEF Snapshot!RoundFails, Snapshot!persistState, SnapshotInv
  <2> QED BY <1>0, <2>1 DEF SnapshotInv, Snapshot!NoVersion
<1>1. CASE Snapshot!CountActiveLiveViewers
  BY <1>1 DEF Snapshot!CountActiveLiveViewers, SnapshotInv, Snapshot!NoVersion
<1>2. CASE Snapshot!FetchFails
  BY <1>0, <1>2 DEF Snapshot!FetchFails
<1>3. CASE Snapshot!FetchVehicles \/ Snapshot!Publish
  BY <1>3 DEF Snapshot!FetchVehicles, Snapshot!Publish, SnapshotInv, Snapshot!NoVersion
<1>4. CASE Snapshot!writeSnapshotFile
  <2>1. CASE files' = files /\ Snapshot!RoundFails
    BY <1>0, <1>4, <2>1 DEF Snapshot!writeSnapshotFile
  <2>2. CASE files' = files \cup {ThisRound} /\ loop' = "active" /\ UNCHANGED <<stored, round, memory>>
    <3>1. IsFiniteSet(files')
      BY <2>2, FS_AddElement DEF SnapshotInv
    <3> QED BY <1>4, <2>2, <3>1 DEF Snapshot!writeSnapshotFile, SnapshotInv, Snapshot!NoVersion
  <2> QED BY <1>4, <2>1, <2>2 DEF Snapshot!writeSnapshotFile
<1>5. CASE Snapshot!WriteActive
  <2>1. CASE active' = active /\ Snapshot!RoundFails
    BY <1>0, <1>5, <2>1 DEF Snapshot!WriteActive
  <2>2. CASE active' = ThisRound /\ loop' = "cleanup" /\ UNCHANGED <<stored, round, memory>>
    BY <1>5, <2>2 DEF Snapshot!WriteActive, SnapshotInv, Snapshot!NoVersion
  <2> QED BY <1>5, <2>1, <2>2 DEF Snapshot!WriteActive
<1>6. CASE Snapshot!cleanupOldSnapshots
  <2>1. CASE files' = files /\ Snapshot!RoundFails
    BY <1>0, <1>6, <2>1 DEF Snapshot!cleanupOldSnapshots
  <2>2. CASE files' = files /\ loop' = "done" /\ UNCHANGED <<stored, round, memory>>
    BY <1>6, <2>2 DEF Snapshot!cleanupOldSnapshots, SnapshotInv, Snapshot!NoVersion
  <2>3. CASE /\ \E f \in Snapshot!oldSnapshots : files' = files \ {f}
             /\ UNCHANGED <<loop, stored, round, memory>>
    <3>1. PICK f \in Snapshot!oldSnapshots : files' = files \ {f}
      BY <2>3
    <3>2. IsFiniteSet(files')
      BY <3>1, FS_Subset DEF SnapshotInv
    <3>3. f # active
      BY <1>6, NewestIsKept DEF Snapshot!cleanupOldSnapshots
    <3> QED BY <1>6, <2>3, <3>1, <3>2, <3>3 DEF Snapshot!cleanupOldSnapshots, SnapshotInv, Snapshot!NoVersion
  <2> QED BY <1>6, <2>1, <2>2, <2>3 DEF Snapshot!cleanupOldSnapshots
<1>7. CASE Snapshot!RoundSucceeds
  <2>1. loop' = "wait" /\ UNCHANGED <<liveNow, files, active, round>>
    BY <1>7 DEF Snapshot!RoundSucceeds, Snapshot!persistState
  <2> QED BY <2>1 DEF SnapshotInv, Snapshot!NoVersion
<1>8. CASE Snapshot!Restart \/ Snapshot!LoadCatalog \/ Snapshot!Tick
  BY <1>8 DEF Snapshot!Restart, Snapshot!LoadCatalog, Snapshot!Tick, SnapshotInv, Snapshot!NoVersion
<1> QED BY <1>1, <1>2, <1>3, <1>4, <1>5, <1>6, <1>7, <1>8 DEF Snapshot!Next

(* active.json names a file that exists, for every number of files kept,    *)
(* wherever the process stops and whichever removal fails.                  *)
THEOREM SnapshotIsThere == BotSpec => []ActiveSnapshotExists
<1> DEFINE Inv == Snapped => SnapshotInv
<1>1. BotInit => Inv
  BY FS_EmptySet DEF BotInit, SnapshotInv, Snapshot!Init, Snapshot!NoVersion, Snapshot!NoRound,
                     Snapshot!ActiveSnapshotExists
<1>2. Inv /\ [BotNext]_BotVars => Inv'
  <2> SUFFICES ASSUME Inv, [BotNext]_BotVars, Snapped' PROVE SnapshotInv'
    OBVIOUS
  <2>1. Snapped /\ SnapshotInv
    BY DEF BotNext, BotVars
  <2>2. CASE UNCHANGED snapshotVars
    BY <2>1, <2>2 DEF snapshotVars, SnapshotInv, ThisRound, Snapshot!ActiveSnapshotExists, Snapshot!NoVersion
  <2>3. CASE Snapshot!Next
    BY <2>1, <2>3, SnapshotStep
  <2> QED BY <2>1, <2>2, <2>3 DEF BotNext, BotVars
<1>3. Inv => ActiveSnapshotExists
  BY DEF SnapshotInv, ActiveSnapshotExists
<1> QED BY <1>1, <1>2, <1>3, PTL DEF BotSpec

-----------------------------------------------------------------------------
(*                        The catalogue (CatalogRefresh)                    *)

(* No file of a catalogue was older than a refresh period when it was made. *)
IsCatalog(x) ==
    /\ x.id \in Nat \ {0} /\ x.generatedAt \in Nat /\ x.oldest \in Nat
    /\ x.generatedAt <= time /\ x.generatedAt <= x.oldest + RefreshAfter

IsMirrored(x) == x.at \in Nat /\ x.at <= time /\ time <= x.at + RefreshAfter

Running == refresh.step \notin {"idle", "down"}

(* The files a refresh has behind it are recent, the catalogue on disk is   *)
(* the last one written, and a request that read the catalogue before the   *)
(* installed one ends before the next refresh begins.                       *)
CatalogState ==
    /\ time \in Nat /\ builds \in Nat /\ ticker \in Nat
    /\ DOMAIN refresh = {"step", "starting", "built"}
    /\ refresh.step \in {"down", "idle", "stops", "routes", "gtfs", "build", "write", "writing", "use"}
    /\ DOMAIN manager = {"current", "etag", "generatedAt", "error"}

CatalogFiles ==
    /\ DOMAIN mirror = {"stops", "routes", "gtfs"}
    /\ \A f \in {"stops", "routes", "gtfs"} : mirror[f] # None => mirror[f].at \in Nat /\ mirror[f].at <= time
    /\ refresh.step \in {"routes", "gtfs", "build"} => IsMirrored(mirror["stops"])
    /\ refresh.step \in {"gtfs", "build"} => IsMirrored(mirror["routes"])
    /\ refresh.step = "build" => IsMirrored(mirror["gtfs"])

CatalogOutput ==
    /\ output \notin {None, Torn} => IsCatalog(output) /\ output.id = builds
    /\ refresh.step \in {"write", "writing"} => IsCatalog(refresh.built) /\ refresh.built.id = builds + 1
    /\ refresh.step = "use" => IsCatalog(refresh.built) /\ refresh.built.id = builds

CatalogManager ==
    /\ manager.etag \in Nat
    /\ manager.current # None =>
        /\ IsCatalog(manager.current)
        /\ manager.etag = manager.current.id /\ manager.generatedAt = manager.current.generatedAt
    /\ manager.etag # 0 => /\ refresh.step # "down" /\ (Running => ~refresh.starting)
                           /\ manager.etag = IF refresh.step = "use" THEN builds - 1 ELSE builds
    /\ refresh.step = "idle" => time <= ticker
    /\ Running /\ ~refresh.starting => time < ticker

CatalogClients ==
    /\ DOMAIN client = Clients
    /\ \A c \in Clients :
        /\ DOMAIN client[c] = {"body", "etag", "read"}
        /\ client[c].body \in Nat /\ client[c].etag \in Nat /\ client[c].etag <= client[c].body + 1
        /\ client[c].read # None =>
            /\ client[c].read \in Nat /\ manager.etag # 0
            /\ \/ client[c].read = manager.etag
               \/ client[c].read + 1 = manager.etag /\ refresh.step = "idle" /\ time < ticker

CatalogInv == CatalogState /\ CatalogFiles /\ CatalogOutput /\ CatalogManager /\ CatalogClients

(* The oldest of the three files.                                           *)
LEMMA OldestIsOne ==
    ASSUME NEW b, \A f \in {"stops", "routes", "gtfs"} : mirror[f].at \in Nat
    PROVE  \E f \in {"stops", "routes", "gtfs"} :
              Catalog(b)!Min({mirror[g].at : g \in {"stops", "routes", "gtfs"}}) = mirror[f].at
<1> DEFINE S == {mirror[g].at : g \in {"stops", "routes", "gtfs"}}
<1>1. \E x \in S : \A y \in S : x <= y
  <2>1. S = {mirror["stops"].at, mirror["routes"].at, mirror["gtfs"].at}
    OBVIOUS
  <2> DEFINE x == mirror["stops"].at
             y == mirror["routes"].at
             z == mirror["gtfs"].at
  <2>2. x \in Nat /\ y \in Nat /\ z \in Nat
    OBVIOUS
  <2> HIDE DEF x, y, z
  <2>3. \E v \in {x, y, z} : v <= x /\ v <= y /\ v <= z
    BY <2>2
  <2> QED BY <2>1, <2>3 DEF x, y, z
<1>2. Catalog(b)!Min(S) \in S
  BY <1>1 DEF Catalog!Min
<1> QED BY <1>2

(* A refresh that ends without a new catalogue.                             *)
LEMMA RefreshFailure ==
    ASSUME NEW b, CatalogInv, Running, UNCHANGED <<mirror, output, client, time, builds>>,
           refresh.step # "use", Catalog(b)!RefreshFails
    PROVE  CatalogInv'
<1> USE CatalogAssumption DEF Running, Catalog!RefreshFails, Catalog!idleRefresh, Catalog!down
<1>0. /\ DOMAIN refresh' = {"step", "starting", "built"} /\ refresh'.step \in {"idle", "down"}
      /\ ticker' = IF refresh.starting THEN time + RefreshAfter ELSE ticker
  <2>1. refresh' = Catalog(b)!idleRefresh \/ refresh' = Catalog(b)!down
    BY Zenon
  <2> QED BY <2>1
<1>1. CatalogState'
  <2>1. ticker' \in Nat
    BY <1>0 DEF CatalogInv, CatalogState
  <2>2. DOMAIN manager' = {"current", "etag", "generatedAt", "error"}
    BY DEF CatalogInv, CatalogState, Catalog!recordRefreshError, Catalog!useCatalog, Catalog!NewManager
  <2> QED BY <1>0, <2>1, <2>2 DEF CatalogInv, CatalogState
<1>2. CatalogFiles'
  <2> HIDE DEF Catalog!RefreshFails
  <2> QED BY <1>0 DEF CatalogInv, CatalogFiles
<1>3. CatalogOutput'
  BY <1>0 DEF CatalogInv, CatalogState, CatalogOutput, IsCatalog
<1>4. CatalogManager'
  <2>1. CASE ~refresh.starting
    BY <2>1 DEF CatalogInv, CatalogState, CatalogManager, Catalog!recordRefreshError, IsCatalog
  <2>2. CASE refresh.starting /\ output \in {None, Torn}
    BY <2>2 DEF CatalogInv, CatalogState, CatalogManager, Catalog!NewManager, Catalog!NoCatalog, IsCatalog
  <2>3. CASE refresh.starting /\ output \notin {None, Torn}
    BY <2>3 DEF CatalogInv, CatalogState, CatalogManager, CatalogOutput, Catalog!useCatalog, IsCatalog
  <2> QED BY <2>1, <2>2, <2>3
<1>5. CatalogClients'
  <2>1. CASE ~refresh.starting
    BY <2>1 DEF CatalogInv, CatalogState, CatalogManager, CatalogClients, Catalog!recordRefreshError
  <2>2. CASE refresh.starting
    <3>1. \A c \in Clients : client[c].read = None
      BY <2>2 DEF CatalogInv, CatalogManager, CatalogClients
    <3> QED BY <3>1 DEF CatalogInv, CatalogClients
  <2> QED BY <2>1, <2>2
<1> QED BY <1>1, <1>2, <1>3, <1>4, <1>5 DEF CatalogInv

LEMMA CatalogStep == ASSUME NEW b, CatalogInv, Catalog(b)!Next PROVE CatalogInv'
<1> USE CatalogAssumption DEF Running
<1>1. ASSUME NEW f \in {"stops", "routes", "gtfs"}, Catalog(b)!mirrorFile(f) PROVE CatalogInv'
  <2>1. CASE UNCHANGED <<mirror, output>> /\ Catalog(b)!RefreshFails
    BY <1>1, <2>1, RefreshFailure DEF Catalog!mirrorFile
  <2>2. CASE /\ \/ (Catalog(b)!fresh(f) \/ Catalog(b)!nearlyFresh(f)) /\ UNCHANGED mirror
                \/ \E usable \in BOOLEAN : Catalog(b)!Download(f, usable)
             /\ refresh' = [refresh EXCEPT !.step = Catalog(b)!After(f)]
             /\ UNCHANGED <<output, manager, ticker>>
    <3>1. /\ DOMAIN mirror' = {"stops", "routes", "gtfs"} /\ IsMirrored(mirror'[f])
          /\ \A g \in {"stops", "routes", "gtfs"} : g # f => mirror'[g] = mirror[g]
      BY <2>2 DEF CatalogInv, CatalogState, CatalogFiles, IsMirrored, Catalog!fresh, Catalog!nearlyFresh, Catalog!Download
    <3>2. /\ UNCHANGED <<output, client, time, builds, manager, ticker>> /\ refresh.step = f
          /\ DOMAIN refresh' = {"step", "starting", "built"}
          /\ refresh'.step = (CASE f = "stops" -> "routes" [] f = "routes" -> "gtfs" [] f = "gtfs" -> "build")
          /\ refresh'.starting = refresh.starting
      BY <1>1, <2>2 DEF Catalog!mirrorFile, CatalogInv, CatalogState, Catalog!After
    <3>3. refresh'.step \in {"routes", "gtfs", "build"}
      BY <3>2
    <3>4. CatalogFiles'
      BY <3>1, <3>2 DEF CatalogInv, CatalogState, CatalogFiles, IsMirrored
    <3>5. CatalogState' /\ CatalogOutput'
      BY <3>2, <3>3 DEF CatalogInv, CatalogState, CatalogOutput, IsCatalog
    <3>6. CatalogManager'
      BY <3>2, <3>3 DEF CatalogInv, CatalogState, CatalogManager, IsCatalog
    <3>7. CatalogClients'
      BY <3>2, <3>3 DEF CatalogInv, CatalogState, CatalogClients
    <3> QED BY <3>4, <3>5, <3>6, <3>7 DEF CatalogInv
  <2> QED BY <1>1, <2>1, <2>2 DEF Catalog!mirrorFile
<1>2. CASE Catalog(b)!Build
  <2>1. CASE UNCHANGED output /\ Catalog(b)!RefreshFails
    BY <1>2, <2>1, RefreshFailure DEF Catalog!Build
  <2>2. CASE /\ refresh' = [refresh EXCEPT !.step = "write", !.built = Catalog(b)!BuildCatalogFromPaths]
             /\ UNCHANGED <<output, manager, ticker>>
    <3>1. PICK f \in {"stops", "routes", "gtfs"} :
             Catalog(b)!Min({mirror[g].at : g \in {"stops", "routes", "gtfs"}}) = mirror[f].at
      BY <1>2, OldestIsOne DEF CatalogInv, CatalogFiles, IsMirrored, Catalog!Build
    <3>2. IsCatalog(Catalog(b)!BuildCatalogFromPaths) /\ Catalog(b)!BuildCatalogFromPaths.id = builds + 1
      <4>1. IsMirrored(mirror[f])
        BY <1>2 DEF CatalogInv, CatalogFiles, Catalog!Build
      <4>2. Catalog(b)!BuildCatalogFromPaths.oldest = mirror[f].at
        BY <3>1 DEF Catalog!BuildCatalogFromPaths, Catalog!Files
      <4> QED BY <4>1, <4>2 DEF Catalog!BuildCatalogFromPaths, IsCatalog, IsMirrored, CatalogInv, CatalogState
    <3> HIDE DEF Catalog!BuildCatalogFromPaths
    <3>3. /\ UNCHANGED <<mirror, output, client, time, builds, manager, ticker>> /\ refresh.step = "build"
          /\ DOMAIN refresh' = {"step", "starting", "built"} /\ refresh'.step = "write"
          /\ refresh'.built = Catalog(b)!BuildCatalogFromPaths /\ refresh'.starting = refresh.starting
      BY <1>2, <2>2 DEF Catalog!Build, CatalogInv, CatalogState
    <3>5. CatalogState' /\ CatalogFiles'
      BY <3>3 DEF CatalogInv, CatalogState, CatalogFiles
    <3>4. CatalogOutput'
      BY <3>2, <3>3 DEF CatalogInv, CatalogState, CatalogOutput, IsCatalog
    <3>6. CatalogManager' /\ CatalogClients'
      BY <3>3 DEF CatalogInv, CatalogState, CatalogManager, CatalogClients, IsCatalog
    <3> QED BY <3>4, <3>5, <3>6 DEF CatalogInv
  <2> QED BY <1>2, <2>1, <2>2 DEF Catalog!Build
<1>3. CASE Catalog(b)!writeCatalog
  <2>1. CASE refresh.step = "writing" /\ UNCHANGED <<output, builds>> /\ Catalog(b)!RefreshFails
    BY <1>3, <2>1, RefreshFailure DEF Catalog!writeCatalog
  <2>2. CASE refresh.step = "write"
    <3>1. /\ UNCHANGED <<mirror, client, time, builds, manager, ticker>> /\ output' = Torn
          /\ DOMAIN refresh' = {"step", "starting", "built"} /\ refresh'.step = "writing"
          /\ refresh'.built = refresh.built /\ refresh'.starting = refresh.starting
      BY <1>3, <2>2 DEF Catalog!writeCatalog, CatalogInv, CatalogState
    <3>2. CatalogState' /\ CatalogFiles'
      BY <3>1 DEF CatalogInv, CatalogState, CatalogFiles
    <3>3. CatalogOutput'
      BY <2>2, <3>1 DEF CatalogInv, CatalogState, CatalogOutput, IsCatalog
    <3>4. CatalogManager' /\ CatalogClients'
      BY <2>2, <3>1 DEF CatalogInv, CatalogState, CatalogManager, CatalogClients, IsCatalog
    <3> QED BY <3>2, <3>3, <3>4 DEF CatalogInv
  <2>3. CASE /\ refresh.step = "writing"
             /\ output' = refresh.built /\ refresh' = [refresh EXCEPT !.step = "use"]
             /\ builds' = builds + 1 /\ UNCHANGED <<manager, ticker>>
    <3>1. /\ UNCHANGED <<mirror, client, time, manager, ticker>> /\ output' = refresh.built
          /\ DOMAIN refresh' = {"step", "starting", "built"} /\ refresh'.step = "use"
          /\ refresh'.built = refresh.built /\ refresh'.starting = refresh.starting
      BY <1>3, <2>3 DEF Catalog!writeCatalog, CatalogInv, CatalogState
    <3>2. CatalogState' /\ CatalogFiles'
      BY <2>3, <3>1 DEF CatalogInv, CatalogState, CatalogFiles
    <3>3. CatalogOutput'
      BY <2>3, <3>1 DEF CatalogInv, CatalogState, CatalogOutput, IsCatalog
    <3>4. CatalogManager' /\ CatalogClients'
      BY <2>3, <3>1 DEF CatalogInv, CatalogState, CatalogManager, CatalogClients, IsCatalog
    <3> QED BY <3>2, <3>3, <3>4 DEF CatalogInv
  <2> QED BY <1>3, <2>1, <2>2, <2>3 DEF Catalog!writeCatalog
<1>4. CASE Catalog(b)!Install
  <2>1. /\ UNCHANGED <<mirror, output, client, time, builds>> /\ refresh.step = "use"
        /\ manager'.current = refresh.built /\ manager'.etag = refresh.built.id
        /\ manager'.generatedAt = refresh.built.generatedAt
        /\ DOMAIN manager' = {"current", "etag", "generatedAt", "error"}
        /\ DOMAIN refresh' = {"step", "starting", "built"} /\ refresh'.step = "idle"
        /\ ticker' = IF refresh.starting THEN time + RefreshAfter ELSE ticker
    BY <1>4 DEF Catalog!Install, Catalog!useCatalog, Catalog!idleRefresh
  <2>2. ticker' \in Nat /\ time < ticker'
    BY <2>1 DEF CatalogInv, CatalogState, CatalogManager
  <2>3. CatalogState' /\ CatalogFiles'
    BY <2>1, <2>2 DEF CatalogInv, CatalogState, CatalogFiles
  <2>4. CatalogOutput'
    BY <2>1 DEF CatalogInv, CatalogState, CatalogOutput, IsCatalog
  <2>5. CatalogManager'
    BY <2>1, <2>2 DEF CatalogInv, CatalogState, CatalogOutput, CatalogManager, IsCatalog
  <2>6. CatalogClients'
    <3>1. builds \in Nat /\ builds # 0 /\ refresh.built.id = builds /\ (manager.etag # 0 => manager.etag = builds - 1)
      BY <2>1 DEF CatalogInv, CatalogState, CatalogOutput, CatalogManager, IsCatalog
    <3>2. \A c \in Clients : client[c].read # None => client[c].read + 1 = builds
      BY <2>1, <3>1 DEF CatalogInv, CatalogClients
    <3> QED BY <2>1, <2>2, <3>1, <3>2 DEF CatalogInv, CatalogClients
  <2> QED BY <2>3, <2>4, <2>5, <2>6 DEF CatalogInv
<1>5. CASE Catalog(b)!Run \/ Catalog(b)!Refresh
  <2>1. /\ UNCHANGED <<mirror, output, manager, client, time, builds>>
        /\ DOMAIN refresh' = {"step", "starting", "built"} /\ refresh'.step = "stops"
        /\ \/ refresh.step = "down" /\ refresh'.starting = TRUE /\ ticker' = ticker
           \/ refresh.step = "idle" /\ time >= ticker /\ refresh'.starting = FALSE /\ ticker' = ticker + RefreshAfter
    BY <1>5 DEF Catalog!Run, Catalog!Refresh, Catalog!TickerDue
  <2>2. CatalogState' /\ CatalogFiles' /\ CatalogOutput'
    BY <2>1 DEF CatalogInv, CatalogState, CatalogFiles, CatalogOutput, IsCatalog
  <2>3. CatalogManager'
    BY <2>1 DEF CatalogInv, CatalogState, CatalogManager, IsCatalog
  <2>4. CatalogClients'
    BY <2>1 DEF CatalogInv, CatalogState, CatalogManager, CatalogClients
  <2> QED BY <2>2, <2>3, <2>4 DEF CatalogInv
<1>6. CASE Catalog(b)!ProcessStops
  <2>1. /\ UNCHANGED <<mirror, output, ticker, time, builds>>
        /\ DOMAIN refresh' = {"step", "starting", "built"} /\ refresh'.step = "down"
        /\ DOMAIN manager' = {"current", "etag", "generatedAt", "error"}
        /\ manager'.current = None /\ manager'.etag = 0
    BY <1>6 DEF Catalog!ProcessStops, Catalog!down, Catalog!NewManager, Catalog!NoCatalog
  <2>2. DOMAIN client' = Clients
    BY <1>6 DEF Catalog!ProcessStops
  <2>3. \A c \in Clients : /\ DOMAIN client'[c] = {"body", "etag", "read"} /\ client'[c].body = client[c].body
                           /\ client'[c].etag = client[c].etag /\ client'[c].read = None
    BY <1>6 DEF Catalog!ProcessStops, CatalogInv, CatalogClients
  <2>4. CatalogState' /\ CatalogFiles' /\ CatalogOutput' /\ CatalogManager'
    BY <2>1 DEF CatalogInv, CatalogState, CatalogFiles, CatalogOutput, CatalogManager, IsCatalog
  <2>5. CatalogClients'
    BY <2>2, <2>3 DEF CatalogInv, CatalogClients
  <2> QED BY <2>4, <2>5 DEF CatalogInv
<1>7. CASE Catalog(b)!Publish
  BY <1>7 DEF Catalog!Publish, CatalogInv, CatalogState, CatalogFiles, CatalogOutput, CatalogManager,
              CatalogClients, IsCatalog, IsMirrored
<1>8. CASE Catalog(b)!Tick
  <2>1. /\ UNCHANGED <<mirror, output, manager, refresh, ticker, client, builds>> /\ time' = time + 1
        /\ refresh.step \in {"idle", "down"} /\ (refresh.step = "idle" => ~(time >= ticker))
        /\ \A c \in Clients : client[c].read = None
    BY <1>8 DEF Catalog!Tick, Catalog!TickerDue
  <2>2. CatalogState' /\ CatalogFiles' /\ CatalogOutput'
    BY <2>1 DEF CatalogInv, CatalogState, CatalogFiles, CatalogOutput, IsCatalog
  <2>3. CatalogManager'
    BY <2>1 DEF CatalogInv, CatalogState, CatalogManager, IsCatalog
  <2>4. CatalogClients'
    BY <2>1 DEF CatalogInv, CatalogClients
  <2> QED BY <2>2, <2>3, <2>4 DEF CatalogInv
<1>9. ASSUME NEW c \in Clients, Catalog(b)!ReadCurrent(c) PROVE CatalogInv'
  <2>1. UNCHANGED <<mirror, output, manager, refresh, ticker, time, builds>>
    BY <1>9 DEF Catalog!ReadCurrent
  <2>2. CatalogState' /\ CatalogFiles' /\ CatalogOutput' /\ CatalogManager'
    BY <2>1 DEF CatalogInv, CatalogState, CatalogFiles, CatalogOutput, CatalogManager, IsCatalog, IsMirrored
  <2>3. manager.current.id \in Nat \ {0} /\ manager.current.id = manager.etag
    BY <1>9 DEF Catalog!ReadCurrent, CatalogInv, CatalogManager, IsCatalog
  <2>4. client' = [client EXCEPT ![c].read = manager.etag]
    BY <1>9, <2>3 DEF Catalog!ReadCurrent
  <2>5. CatalogClients'
    BY <2>1, <2>3, <2>4 DEF CatalogInv, CatalogClients
  <2> QED BY <2>2, <2>5 DEF CatalogInv
<1>10. ASSUME NEW c \in Clients, Catalog(b)!handlePublicCatalog(c) PROVE CatalogInv'
  <2>1. UNCHANGED <<mirror, output, manager, refresh, ticker, time, builds>>
    BY <1>10 DEF Catalog!handlePublicCatalog
  <2>2. CatalogState' /\ CatalogFiles' /\ CatalogOutput' /\ CatalogManager'
    BY <2>1 DEF CatalogInv, CatalogState, CatalogFiles, CatalogOutput, CatalogManager, IsCatalog, IsMirrored
  <2>3. client[c].read \in Nat /\ manager.etag \in Nat /\ manager.etag <= client[c].read + 1
    BY <1>10 DEF Catalog!handlePublicCatalog, CatalogInv, CatalogManager, CatalogClients
  <2>4. CatalogClients'
    BY <1>10, <2>1, <2>3 DEF Catalog!handlePublicCatalog, CatalogInv, CatalogClients
  <2> QED BY <2>2, <2>4 DEF CatalogInv
<1> QED BY <1>1, <1>2, <1>3, <1>4, <1>5, <1>6, <1>7, <1>8, <1>9, <1>10 DEF Catalog!Next, Catalog!Files

(* A catalogue made of files three refresh periods old is reported stale    *)
(* and a client told "not modified" is at most one catalogue behind, for    *)
(* every refresh period and every number of clients, catalogues and starts. *)
THEOREM CatalogIsNotOverstated == BotSpec => []CatalogIsHonest
<1> DEFINE Inv == \A b \in CatalogSizes : Catalogued(b) => CatalogInv
<1>1. BotInit => Inv
  <2> SUFFICES ASSUME BotInit, NEW b \in CatalogSizes, Catalogued(b) PROVE CatalogInv
    OBVIOUS
  <2>1. Catalog(b)!Init
    BY DEF BotInit
  <2> QED BY <2>1 DEF Catalog!Init, Catalog!NewManager, Catalog!NoCatalog, Catalog!down, Catalog!Files, CatalogInv, CatalogState,
                      CatalogFiles, CatalogOutput, CatalogManager, CatalogClients, Running
<1>2. Inv /\ [BotNext]_BotVars => Inv'
  <2> SUFFICES ASSUME Inv, [BotNext]_BotVars, NEW b \in CatalogSizes, Catalogued(b)' PROVE CatalogInv'
    OBVIOUS
  <2>1. Catalogued(b) /\ CatalogInv
    BY DEF BotNext, BotVars
  <2>2. CASE UNCHANGED catalogVars
    BY <2>1, <2>2 DEF catalogVars, CatalogInv, CatalogState, CatalogFiles, CatalogOutput, CatalogManager,
                      CatalogClients, IsCatalog, IsMirrored, Running
  <2>3. CASE Catalog(b)!Next
    BY <2>1, <2>3, CatalogStep
  <2> QED BY <2>1, <2>2, <2>3 DEF BotNext, BotVars
<1>3. Inv => CatalogIsHonest
  <2> SUFFICES ASSUME Inv, NEW b \in CatalogSizes, Catalogued(b)
               PROVE  Catalog(b)!StaleDataIsReported /\ Catalog(b)!RevalidatedIsRecent
    BY DEF CatalogIsHonest
  <2>1. CatalogInv
    OBVIOUS
  <2>2. Catalog(b)!StaleDataIsReported
    BY <2>1, CatalogAssumption DEF CatalogInv, CatalogState, CatalogManager, IsCatalog, Catalog!StaleDataIsReported,
       Catalog!catalogStale
  <2>3. Catalog(b)!RevalidatedIsRecent
    BY <2>1 DEF CatalogInv, CatalogManager, CatalogClients, IsCatalog, Catalog!RevalidatedIsRecent
  <2> QED BY <2>2, <2>3
<1> QED BY <1>1, <1>2, <1>3, PTL DEF BotSpec

-----------------------------------------------------------------------------
(*                  The repair of readable ids (PrivacyRepair)              *)

IsCast(c, t) ==
    /\ DOMAIN c = {"value", "at"} /\ c = [value |-> c.value, at |-> c.at]
    /\ c.value \in {"ongoing", "cleared"} /\ c.at \in Nat /\ c.at < t
IsEvent(v, t) ==
    /\ DOMAIN v = {"user", "value", "at", "incident"} /\ v.user \in LegacyUsers
    /\ v.value \in {"ongoing", "cleared"} /\ v.at \in Nat /\ v.at < t
    /\ v.incident \in {"old", "new"} /\ v # None
    /\ v = [user |-> v.user, value |-> v.value, at |-> v.at, incident |-> v.incident]

RepairRows ==
    /\ legacyNow \in Nat
    /\ DOMAIN legacyEvents = EventIDs
    /\ \A e \in EventIDs : legacyEvents[e] # None => IsEvent(legacyEvents[e], legacyNow)
    /\ DOMAIN legacyVotes = {"old", "new"}
    /\ \A i \in {"old", "new"} : DOMAIN legacyVotes[i] = LegacyUsers
    /\ \A i \in {"old", "new"}, u \in LegacyUsers : legacyVotes[i][u] # None => IsCast(legacyVotes[i][u], legacyNow)
    /\ DOMAIN legacyComments = Comments /\ DOMAIN newest = LegacyUsers
    /\ legacyKind \in {"vehicle", "area"}

(* A user's newest vote is among the stored ones and none is newer.         *)
NewestIsStored(u) ==
    IF Repair!Casts(u) = {} THEN newest[u] = None
    ELSE newest[u] \in Repair!Casts(u) /\ \A d \in Repair!Casts(u) : d.at <= newest[u].at

VotesMoved == \A u \in LegacyUsers : newest[u] # None => legacyVotes["new"][u] = newest[u]
AllMoved ==
    /\ VotesMoved
    /\ Repair!OldEvents = {}
    /\ \A c \in Comments : legacyComments[c] = "new"

RepairPhases ==
    /\ legacyPc \in {"events", "votes", "comments"} =>
        /\ legacyKind = "area" => readable # {}
        /\ \A u \in LegacyUsers : merged[u] = newest[u]
    /\ legacyPc \in {"votes", "comments"} => Repair!OldEvents = {}
    /\ legacyPc = "comments" => VotesMoved
    /\ legacyPc \in {"reports", "serving"} => AllMoved
    /\ legacyKind = "area" /\ readable = {} => AllMoved

RepairInv == RepairRows /\ (\A u \in LegacyUsers : NewestIsStored(u)) /\ RepairPhases

LEMMA NewestExists ==
    ASSUME NEW S, S # {}, NEW K \in Nat, \A c \in S : c.at \in Nat /\ c.at < K
    PROVE  Repair!NewestOf(S) \in S /\ \A d \in S : d.at <= Repair!NewestOf(S).at
<1> DEFINE Left == {K - c.at : c \in S}
<1>1. Left \in SUBSET Nat /\ Left # {}
  OBVIOUS
<1>2. PICK n \in Left : \A m \in Left : n <= m
  BY <1>1, LeastExists
<1> HIDE DEF Left
<1>3. PICK c \in S : n = K - c.at
  BY <1>2 DEF Left
<1>4. \A d \in S : K - d.at \in Left
  BY DEF Left
<1>5. \A d \in S : d.at <= c.at
  BY <1>2, <1>3, <1>4
<1> QED BY <1>3, <1>5 DEF Repair!NewestOf

(* What Casts holds.                                                        *)
LEMMA CastsAre ==
    ASSUME NEW u \in LegacyUsers, NEW c
    PROVE  c \in Repair!Casts(u) <=>
              \/ \E e \in EventIDs : /\ legacyEvents[e] # None /\ legacyEvents[e].user = u
                                     /\ c = [value |-> legacyEvents[e].value, at |-> legacyEvents[e].at]
              \/ \E i \in {"old", "new"} : legacyVotes[i][u] # None /\ c = legacyVotes[i][u]
BY DEF Repair!Casts

LEMMA CastsAreCasts ==
    ASSUME RepairRows, NEW u \in LegacyUsers PROVE \A c \in Repair!Casts(u) : IsCast(c, legacyNow) /\ c # None
<1> SUFFICES ASSUME NEW c \in Repair!Casts(u) PROVE IsCast(c, legacyNow) /\ c # None
  OBVIOUS
<1>1. CASE \E e \in EventIDs : /\ legacyEvents[e] # None /\ legacyEvents[e].user = u
                               /\ c = [value |-> legacyEvents[e].value, at |-> legacyEvents[e].at]
  <2>1. PICK e \in EventIDs : /\ legacyEvents[e] # None
                              /\ c = [value |-> legacyEvents[e].value, at |-> legacyEvents[e].at]
    BY <1>1
  <2>2. IsEvent(legacyEvents[e], legacyNow)
    BY <2>1 DEF RepairRows
  <2>3. c \in [value : {"ongoing", "cleared"}, at : Nat]
    BY <2>1, <2>2 DEF IsEvent
  <2> QED BY <2>1, <2>2, <2>3, RepairAssumption DEF IsEvent, IsCast
<1>2. CASE \E i \in {"old", "new"} : legacyVotes[i][u] # None /\ c = legacyVotes[i][u]
  BY <1>2 DEF RepairRows
<1> QED BY <1>1, <1>2, CastsAre

(* A vote of the opaque id replaced by the user's newest vote.              *)
LEMMA NewestAgain ==
    ASSUME RepairRows, RepairRows', UNCHANGED newest, NEW u \in LegacyUsers, NewestIsStored(u), newest[u] # None,
           NEW w \in LegacyUsers, NewestIsStored(w),
           legacyVotes' = [legacyVotes EXCEPT !["new"][u] = newest[u]],
           \A e \in EventIDs :
              /\ (legacyEvents'[e] = None) <=> (legacyEvents[e] = None)
              /\ legacyEvents[e] # None => /\ legacyEvents'[e].user = legacyEvents[e].user
                                           /\ legacyEvents'[e].value = legacyEvents[e].value
                                           /\ legacyEvents'[e].at = legacyEvents[e].at
    PROVE  NewestIsStored(w)'
<1>0. \A i \in {"old", "new"}, x \in LegacyUsers :
         legacyVotes'[i][x] = IF i = "new" /\ x = u THEN newest[u] ELSE legacyVotes[i][x]
  BY DEF RepairRows
<1>a. \A c : (\E e \in EventIDs : /\ legacyEvents[e] # None /\ legacyEvents[e].user = w
                             /\ c = [value |-> legacyEvents[e].value, at |-> legacyEvents[e].at])
        <=> (\E e \in EventIDs : /\ legacyEvents'[e] # None /\ legacyEvents'[e].user = w
                             /\ c = [value |-> legacyEvents'[e].value, at |-> legacyEvents'[e].at])
  OBVIOUS
<1>b. \A c : c \in Repair!Casts(w)' <=>
              \/ \E e \in EventIDs : /\ legacyEvents'[e] # None /\ legacyEvents'[e].user = w
                                     /\ c = [value |-> legacyEvents'[e].value, at |-> legacyEvents'[e].at]
              \/ \E i \in {"old", "new"} : legacyVotes'[i][w] # None /\ c = legacyVotes'[i][w]
  BY DEF Repair!Casts
<1>1. CASE w # u
  <2>1. Repair!Casts(w)' = Repair!Casts(w)
    <3>0. \A i \in {"old", "new"} : legacyVotes'[i][w] = legacyVotes[i][w]
      BY <1>0, <1>1
    <3>1. ASSUME NEW c PROVE c \in Repair!Casts(w)' <=> c \in Repair!Casts(w)
      <4>1. c \in Repair!Casts(w) <=>
              \/ \E e \in EventIDs : /\ legacyEvents[e] # None /\ legacyEvents[e].user = w
                                     /\ c = [value |-> legacyEvents[e].value, at |-> legacyEvents[e].at]
              \/ \E i \in {"old", "new"} : legacyVotes[i][w] # None /\ c = legacyVotes[i][w]
        BY CastsAre
      <4> QED BY <1>a, <1>b, <3>0, <4>1
    <3> QED BY <3>1
  <2> QED BY <2>1 DEF NewestIsStored
<1>2. CASE w = u
  <2>1. newest[u] \in Repair!Casts(u)
    BY DEF NewestIsStored
  <2>2. newest[u] \in Repair!Casts(u)'
    BY <1>0, <1>b, <1>2
  <2>3. \A c \in Repair!Casts(u)' : c \in Repair!Casts(u)
    BY <1>0, <1>a, <1>b, <1>2, <2>1, CastsAre
  <2> QED BY <1>2, <2>1, <2>2, <2>3 DEF NewestIsStored
<1> QED BY <1>1, <1>2

LEMMA RepairStart ==
    ASSUME RepairInv, ~Repair!Conflict, NEW u \in LegacyUsers PROVE Repair!Latest(u) = newest[u]
<1>1. CASE Repair!Casts(u) = {}
  BY <1>1 DEF RepairInv, NewestIsStored, Repair!Latest
<1>2. CASE Repair!Casts(u) # {}
  <2> DEFINE c == Repair!NewestOf(Repair!Casts(u))
             n == newest[u]
  <2>1. \A d \in Repair!Casts(u) : d.at \in Nat /\ d.at < legacyNow
    BY CastsAreCasts DEF RepairInv, IsCast
  <2>2. c \in Repair!Casts(u) /\ \A d \in Repair!Casts(u) : d.at <= c.at
    BY <1>2, <2>1, NewestExists DEF RepairInv, RepairRows
  <2>3. n \in Repair!Casts(u) /\ \A d \in Repair!Casts(u) : d.at <= n.at
    BY <1>2 DEF RepairInv, NewestIsStored
  <2>4. Repair!Latest(u) = c
    BY <1>2 DEF Repair!Latest
  <2> HIDE DEF c, n
  <2>5. c.at = n.at
    BY <2>1, <2>2, <2>3
  <2>6. c.value = n.value
    BY <2>2, <2>3, <2>5 DEF Repair!Conflict
  <2>7. c = [value |-> c.value, at |-> c.at] /\ n = [value |-> n.value, at |-> n.at]
    BY <2>2, <2>3, CastsAreCasts DEF RepairInv, IsCast
  <2>8. c = n
    BY <2>5, <2>6, <2>7
  <2> QED BY <2>4, <2>8 DEF n
<1> QED BY <1>1, <1>2

(* Steps that leave the votes and the events alone.                         *)
LEMMA RowsUntouched ==
    ASSUME RepairRows, \A u \in LegacyUsers : NewestIsStored(u),
           UNCHANGED <<legacyKind, legacyVotes, legacyEvents, legacyNow, newest>>,
           DOMAIN legacyComments' = Comments
    PROVE  RepairRows' /\ \A u \in LegacyUsers : NewestIsStored(u)'
<1>1. RepairRows'
  BY DEF RepairRows, IsEvent, IsCast
<1>2. \A u \in LegacyUsers : NewestIsStored(u)'
  BY DEF NewestIsStored, Repair!Casts
<1> QED BY <1>1, <1>2

LEMMA RepairStep == ASSUME RepairInv, Repair!Next PROVE RepairInv'
<1>1. CASE Repair!StartRepair
  <2>0. UNCHANGED <<legacyKind, legacyVotes, legacyEvents, legacyComments, readable, legacyNow, newest>>
    BY <1>1 DEF Repair!StartRepair, Repair!storeVars
  <2>1. RepairRows' /\ \A u \in LegacyUsers : NewestIsStored(u)'
    BY <2>0, RowsUntouched DEF RepairInv, RepairRows
  <2>2. (AllMoved <=> AllMoved') /\ (VotesMoved <=> VotesMoved') /\ Repair!OldEvents = Repair!OldEvents'
    BY <2>0 DEF AllMoved, VotesMoved, Repair!OldEvents
  <2>3. CASE UNCHANGED <<legacyPc, merged>>
    BY <2>0, <2>1, <2>2, <2>3 DEF RepairInv, RepairPhases
  <2>4. CASE /\ legacyKind = "area" => readable # {}
             /\ ~Repair!Conflict /\ merged' = Repair!mergeLegacyPrivacyVotes /\ legacyPc' = "events"
    <3>1. \A u \in LegacyUsers : merged'[u] = newest'[u]
      BY <2>0, <2>4, RepairStart DEF Repair!mergeLegacyPrivacyVotes, Repair!mergePrivacyVote
    <3>2. RepairPhases'
      BY <2>0, <2>2, <2>4, <3>1 DEF RepairInv, RepairPhases
    <3> QED BY <2>1, <3>2 DEF RepairInv
  <2>5. CASE legacyKind = "area" /\ readable = {} /\ legacyPc' = "serving"
    BY <2>0, <2>1, <2>2, <2>5 DEF RepairInv, RepairPhases
  <2> QED BY <1>1, <2>3, <2>4, <2>5
          DEF Repair!StartRepair, Repair!RepairLegacyVehiclePrivacy, Repair!RepairLegacyAreaPrivacy, RepairInv, RepairRows
<1>2. CASE Repair!MoveEvent
  <2>0. /\ legacyPc = "events"
        /\ UNCHANGED <<legacyKind, legacyComments, readable, legacyPc, merged, legacyNow, newest>>
    BY <1>2 DEF Repair!MoveEvent
  <2>1. PICK e \in EventIDs :
          /\ legacyEvents[e] # None
          /\ legacyEvents' = [legacyEvents EXCEPT ![e].incident = "new"]
          /\ legacyVotes' = [legacyVotes EXCEPT !["new"][legacyEvents[e].user] = merged[legacyEvents[e].user]]
    BY <1>2 DEF Repair!MoveEvent, Repair!OldEvents
  <2> DEFINE u == legacyEvents[e].user
  <2>2. u \in LegacyUsers /\ IsEvent(legacyEvents[e], legacyNow)
    BY <2>1 DEF RepairInv, RepairRows, IsEvent
  <2>3. newest[u] \in Repair!Casts(u) /\ newest[u] # None /\ IsCast(newest[u], legacyNow)
    <3>1. [value |-> legacyEvents[e].value, at |-> legacyEvents[e].at] \in Repair!Casts(u)
      BY <2>1, <2>2, CastsAre
    <3>2. newest[u] \in Repair!Casts(u)
      BY <2>2, <3>1 DEF RepairInv, NewestIsStored
    <3> QED BY <2>2, <3>2, CastsAreCasts DEF RepairInv
  <2>4. merged[u] = newest[u]
    BY <2>0, <2>2 DEF RepairInv, RepairPhases
  <2>5. IsEvent([legacyEvents[e] EXCEPT !.incident = "new"], legacyNow)
    <3> DEFINE x == [legacyEvents[e] EXCEPT !.incident = "new"]
               y == [user |-> legacyEvents[e].user, value |-> legacyEvents[e].value, at |-> legacyEvents[e].at, incident |-> "new"]
    <3>1. x = y
      BY <2>2 DEF IsEvent
    <3>2. y \in [user : LegacyUsers, value : {"ongoing", "cleared"}, at : Nat, incident : {"old", "new"}]
      BY <2>2 DEF IsEvent
    <3>3. y # None
      BY <3>2, RepairAssumption
    <3>4. IsEvent(y, legacyNow)
      BY <2>2, <3>3 DEF IsEvent
    <3> QED BY <3>1, <3>4
  <2>6. DOMAIN legacyEvents' = EventIDs /\ DOMAIN legacyVotes' = {"old", "new"}
        /\ \A i \in {"old", "new"} : DOMAIN legacyVotes'[i] = LegacyUsers
    BY <2>1, <2>2 DEF RepairInv, RepairRows
  <2>7. \A d \in EventIDs : legacyEvents'[d] = IF d = e THEN [legacyEvents[e] EXCEPT !.incident = "new"] ELSE legacyEvents[d]
    BY <2>1 DEF RepairInv, RepairRows
  <2>8. \A i \in {"old", "new"}, w \in LegacyUsers :
           legacyVotes'[i][w] = IF i = "new" /\ w = u THEN newest[u] ELSE legacyVotes[i][w]
    BY <2>1, <2>2, <2>4 DEF RepairInv, RepairRows
  <2>9. RepairRows'
    <3>1. \A d \in EventIDs : legacyEvents'[d] # None => IsEvent(legacyEvents'[d], legacyNow)
      BY <2>5, <2>7 DEF RepairInv, RepairRows
    <3>2. \A i \in {"old", "new"}, w \in LegacyUsers : legacyVotes'[i][w] # None => IsCast(legacyVotes'[i][w], legacyNow)
      BY <2>2, <2>3, <2>8 DEF RepairInv, RepairRows
    <3> QED BY <2>0, <2>6, <3>1, <3>2 DEF RepairInv, RepairRows, IsEvent, IsCast
  <2>10. \A d \in EventIDs :
              /\ (legacyEvents'[d] = None) <=> (legacyEvents[d] = None)
              /\ legacyEvents[d] # None => /\ legacyEvents'[d].user = legacyEvents[d].user
                                           /\ legacyEvents'[d].value = legacyEvents[d].value
                                           /\ legacyEvents'[d].at = legacyEvents[d].at
    BY <2>1, <2>2, <2>5, <2>7 DEF IsEvent
  <2>11. \A w \in LegacyUsers : NewestIsStored(w)'
    BY <2>0, <2>1, <2>2, <2>3, <2>4, <2>9, <2>10, NewestAgain DEF RepairInv
  <2>12. RepairPhases'
    BY <2>0 DEF RepairInv, RepairPhases
  <2> QED BY <2>9, <2>11, <2>12 DEF RepairInv
<1>3. CASE Repair!EventsMoved
  <2>0. /\ UNCHANGED <<legacyKind, legacyVotes, legacyEvents, legacyComments, readable, legacyNow, newest, merged>>
        /\ legacyPc = "events" /\ legacyPc' = "votes" /\ Repair!OldEvents = {}
    BY <1>3 DEF Repair!EventsMoved, Repair!storeVars
  <2>1. RepairRows' /\ \A u \in LegacyUsers : NewestIsStored(u)'
    BY <2>0, RowsUntouched DEF RepairInv, RepairRows
  <2>2. RepairPhases'
    BY <2>0 DEF RepairInv, RepairPhases, Repair!OldEvents
  <2> QED BY <2>1, <2>2 DEF RepairInv
<1>4. CASE Repair!UpsertIncidentVote
  <2>0. /\ UNCHANGED <<legacyKind, legacyEvents, legacyComments, readable, legacyNow, newest, merged>> /\ legacyPc = "votes"
        /\ \A u \in LegacyUsers : merged[u] = newest[u]
    BY <1>4 DEF Repair!UpsertIncidentVote, RepairInv, RepairPhases
  <2>1. CASE legacyPc' = "comments" /\ UNCHANGED legacyVotes /\ VotesMoved
    <3>1. RepairRows' /\ \A u \in LegacyUsers : NewestIsStored(u)'
      BY <2>0, <2>1, RowsUntouched DEF RepairInv, RepairRows
    <3>2. RepairPhases'
      BY <2>0, <2>1 DEF RepairInv, RepairPhases, Repair!OldEvents, VotesMoved
    <3> QED BY <3>1, <3>2 DEF RepairInv
  <2>2. ASSUME NEW u \in LegacyUsers, newest[u] # None, UNCHANGED legacyPc,
               legacyVotes' = [legacyVotes EXCEPT !["new"][u] = newest[u]]
        PROVE  RepairInv'
    <3>1. DOMAIN legacyVotes' = {"old", "new"} /\ \A i \in {"old", "new"} : DOMAIN legacyVotes'[i] = LegacyUsers
      BY <2>2 DEF RepairInv, RepairRows
    <3>2. \A i \in {"old", "new"}, w \in LegacyUsers :
             legacyVotes'[i][w] = IF i = "new" /\ w = u THEN newest[u] ELSE legacyVotes[i][w]
      BY <2>2 DEF RepairInv, RepairRows
    <3>3. newest[u] \in Repair!Casts(u)
      BY <2>2 DEF RepairInv, NewestIsStored
    <3>4. IsCast(newest[u], legacyNow)
      BY <3>3, CastsAreCasts DEF RepairInv
    <3>5. RepairRows'
      <4>1. \A i \in {"old", "new"}, w \in LegacyUsers : legacyVotes'[i][w] # None => IsCast(legacyVotes'[i][w], legacyNow)
        BY <3>2, <3>4 DEF RepairInv, RepairRows
      <4> QED BY <2>0, <3>1, <4>1 DEF RepairInv, RepairRows, IsCast, IsEvent
    <3>6. \A w \in LegacyUsers : NewestIsStored(w)'
      BY <2>0, <2>2, <3>5, NewestAgain DEF RepairInv
    <3>7. RepairPhases'
      BY <2>0, <2>2 DEF RepairInv, RepairPhases, Repair!OldEvents
    <3> QED BY <3>5, <3>6, <3>7 DEF RepairInv
  <2> QED BY <1>4, <2>0, <2>1, <2>2 DEF Repair!UpsertIncidentVote, VotesMoved
<1>5. CASE Repair!MoveComment
  <2>0. /\ UNCHANGED <<legacyKind, legacyVotes, legacyEvents, readable, legacyNow, newest, merged>> /\ legacyPc = "comments"
        /\ DOMAIN legacyComments' = Comments
    BY <1>5 DEF Repair!MoveComment, RepairInv, RepairRows
  <2>1. RepairRows' /\ \A u \in LegacyUsers : NewestIsStored(u)'
    BY <2>0, RowsUntouched DEF RepairInv
  <2>2. RepairPhases'
    <3>1. CASE UNCHANGED legacyPc
      BY <2>0, <3>1 DEF RepairInv, RepairPhases, Repair!OldEvents, VotesMoved
    <3>2. CASE (\A c \in Comments : legacyComments[c] = "new") /\ legacyPc' = "reports" /\ UNCHANGED legacyComments
      BY <2>0, <3>2 DEF RepairInv, RepairPhases, Repair!OldEvents, VotesMoved, AllMoved
    <3> QED BY <1>5, <3>1, <3>2 DEF Repair!MoveComment
  <2> QED BY <2>1, <2>2 DEF RepairInv
<1>6. CASE Repair!RewriteAreaReport
  <2>0. /\ UNCHANGED <<legacyKind, legacyVotes, legacyEvents, legacyComments, legacyNow, newest, merged>>
        /\ legacyPc = "reports" /\ legacyPc' \in {"reports", "serving"}
    BY <1>6 DEF Repair!RewriteAreaReport
  <2>1. RepairRows' /\ \A u \in LegacyUsers : NewestIsStored(u)'
    BY <2>0, RowsUntouched DEF RepairInv, RepairRows
  <2>2. RepairPhases'
    BY <2>0 DEF RepairInv, RepairPhases, AllMoved, VotesMoved, Repair!OldEvents
  <2> QED BY <2>1, <2>2 DEF RepairInv
<1>8. CASE Repair!Stop
  <2>0. /\ UNCHANGED <<legacyKind, legacyVotes, legacyEvents, legacyComments, readable, legacyNow, newest>>
        /\ legacyPc' = "stopped"
    BY <1>8 DEF Repair!Stop, Repair!storeVars
  <2>1. RepairRows' /\ \A u \in LegacyUsers : NewestIsStored(u)'
    BY <2>0, RowsUntouched DEF RepairInv, RepairRows
  <2>2. RepairPhases'
    BY <2>0 DEF RepairInv, RepairPhases, AllMoved, VotesMoved, Repair!OldEvents
  <2> QED BY <2>1, <2>2 DEF RepairInv
<1>7. CASE Repair!Vote
  <2>0. /\ UNCHANGED <<legacyKind, legacyComments, readable, legacyPc, merged>>
        /\ legacyPc = "serving" /\ legacyNow' = legacyNow + 1
    BY <1>7 DEF Repair!Vote
  <2>1. PICK u \in LegacyUsers, v \in {"ongoing", "cleared"}, e \in EventIDs :
        /\ legacyEvents[e] = None
        /\ legacyVotes' = [legacyVotes EXCEPT !["new"][u] = [value |-> v, at |-> legacyNow]]
        /\ legacyEvents' = [legacyEvents EXCEPT ![e] = [user |-> u, value |-> v, at |-> legacyNow, incident |-> "new"]]
        /\ newest' = [newest EXCEPT ![u] = [value |-> v, at |-> legacyNow]]
    BY <1>7 DEF Repair!Vote, Repair!Values
  <2> DEFINE cast == [value |-> v, at |-> legacyNow]
             event == [user |-> u, value |-> v, at |-> legacyNow, incident |-> "new"]
  <2>2. legacyNow \in Nat
    BY DEF RepairInv, RepairRows
  <2>3. IsCast(cast, legacyNow') /\ IsEvent(event, legacyNow') /\ cast # None /\ event # None
    <3>1. cast \in [value : {"ongoing", "cleared"}, at : Nat]
      BY <2>2
    <3>2. event \in [user : LegacyUsers, value : {"ongoing", "cleared"}, at : Nat, incident : {"old", "new"}]
      BY <2>2
    <3>3. cast # None /\ event # None
      BY <3>1, <3>2, RepairAssumption
    <3> QED BY <2>0, <2>2, <3>3 DEF IsCast, IsEvent
  <2>4. /\ DOMAIN legacyEvents' = EventIDs /\ DOMAIN legacyVotes' = {"old", "new"} /\ DOMAIN newest' = LegacyUsers
        /\ \A i \in {"old", "new"} : DOMAIN legacyVotes'[i] = LegacyUsers
    BY <2>1 DEF RepairInv, RepairRows
  <2>5. /\ \A d \in EventIDs : legacyEvents'[d] = IF d = e THEN event ELSE legacyEvents[d]
        /\ \A w \in LegacyUsers : newest'[w] = IF w = u THEN cast ELSE newest[w]
        /\ \A i \in {"old", "new"}, w \in LegacyUsers :
              legacyVotes'[i][w] = IF i = "new" /\ w = u THEN cast ELSE legacyVotes[i][w]
    BY <2>1 DEF RepairInv, RepairRows
  <2>a. event.user = u /\ event.value = v /\ event.at = legacyNow /\ event.incident = "new" /\ cast.at = legacyNow
    OBVIOUS
  <2> HIDE DEF cast, event
  <2>6. RepairRows'
    <3>1. ASSUME NEW d \in EventIDs, legacyEvents'[d] # None PROVE IsEvent(legacyEvents'[d], legacyNow')
      <4>1. CASE d = e
        BY <2>3, <2>5, <4>1
      <4>2. CASE d # e
        BY <2>0, <2>2, <2>5, <3>1, <4>2 DEF RepairInv, RepairRows, IsEvent
      <4> QED BY <4>1, <4>2
    <3>2. ASSUME NEW i \in {"old", "new"}, NEW w \in LegacyUsers, legacyVotes'[i][w] # None
          PROVE  IsCast(legacyVotes'[i][w], legacyNow')
      <4>1. CASE i = "new" /\ w = u
        BY <2>3, <2>5, <4>1
      <4>2. CASE ~(i = "new" /\ w = u)
        BY <2>0, <2>2, <2>5, <3>2, <4>2 DEF RepairInv, RepairRows, IsCast
      <4> QED BY <4>1, <4>2
    <3> QED BY <2>0, <2>2, <2>4, <3>1, <3>2 DEF RepairInv, RepairRows
  <2>7. ASSUME NEW w \in LegacyUsers PROVE NewestIsStored(w)'
    <3>b. \A c : c \in Repair!Casts(w)' <=>
              \/ \E d \in EventIDs : /\ legacyEvents'[d] # None /\ legacyEvents'[d].user = w
                                     /\ c = [value |-> legacyEvents'[d].value, at |-> legacyEvents'[d].at]
              \/ \E i \in {"old", "new"} : legacyVotes'[i][w] # None /\ c = legacyVotes'[i][w]
      BY DEF Repair!Casts
    <3>1. CASE w # u
      <4>1. \A i \in {"old", "new"} : legacyVotes'[i][w] = legacyVotes[i][w]
        BY <2>5, <3>1
      <4>2. \A d \in EventIDs : (legacyEvents'[d] # None /\ legacyEvents'[d].user = w)
                                <=> (legacyEvents[d] # None /\ legacyEvents[d].user = w)
        BY <2>1, <2>5, <2>a, <3>1
      <4>3. \A d \in EventIDs : legacyEvents[d] # None => legacyEvents'[d] = legacyEvents[d]
        BY <2>1, <2>5
      <4>4. ASSUME NEW c PROVE c \in Repair!Casts(w)' <=> c \in Repair!Casts(w)
        <5>1. c \in Repair!Casts(w) <=>
              \/ \E d \in EventIDs : /\ legacyEvents[d] # None /\ legacyEvents[d].user = w
                                     /\ c = [value |-> legacyEvents[d].value, at |-> legacyEvents[d].at]
              \/ \E i \in {"old", "new"} : legacyVotes[i][w] # None /\ c = legacyVotes[i][w]
          BY CastsAre
        <5> QED BY <3>b, <4>1, <4>2, <4>3, <5>1
      <4>5. Repair!Casts(w)' = Repair!Casts(w) /\ newest'[w] = newest[w]
        BY <2>5, <3>1, <4>4
      <4> QED BY <4>5 DEF RepairInv, NewestIsStored
    <3>2. CASE w = u
      <4>1. cast \in Repair!Casts(w)'
        BY <2>3, <2>5, <3>b, <3>2
      <4>2. ASSUME NEW c \in Repair!Casts(w)' PROVE c.at <= legacyNow
        <5>1. CASE \E d \in EventIDs : /\ legacyEvents'[d] # None
                                       /\ c = [value |-> legacyEvents'[d].value, at |-> legacyEvents'[d].at]
          <6>1. PICK d \in EventIDs : legacyEvents'[d] # None /\ c.at = legacyEvents'[d].at
            BY <5>1
          <6>2. c.at \in Nat /\ c.at < legacyNow'
            BY <2>6, <6>1 DEF RepairRows, IsEvent
          <6> QED BY <2>0, <2>2, <6>2
        <5>2. CASE \E i \in {"old", "new"} : legacyVotes'[i][w] # None /\ c = legacyVotes'[i][w]
          <6>1. c.at \in Nat /\ c.at < legacyNow'
            BY <2>6, <5>2 DEF RepairRows, IsCast
          <6> QED BY <2>0, <2>2, <6>1
        <5> QED BY <3>b, <4>2, <5>1, <5>2
      <4> QED BY <2>5, <2>a, <3>2, <4>1, <4>2 DEF NewestIsStored
    <3> QED BY <3>1, <3>2
  <2>8. RepairPhases'
    <3>1. VotesMoved'
      BY <2>0, <2>5 DEF RepairInv, RepairPhases, AllMoved, VotesMoved
    <3>2. Repair!OldEvents' = {}
      BY <2>0, <2>5, <2>a DEF RepairInv, RepairPhases, AllMoved, Repair!OldEvents
    <3>3. AllMoved'
      BY <2>0, <3>1, <3>2 DEF RepairInv, RepairPhases, AllMoved
    <3> QED BY <2>0, <3>3 DEF RepairPhases
  <2> QED BY <2>6, <2>7, <2>8 DEF RepairInv
<1> QED BY <1>1, <1>2, <1>3, <1>4, <1>5, <1>6, <1>7, <1>8 DEF Repair!Next

LEMMA RepairInit == ASSUME Repair!Init PROVE RepairInv
<1> DEFINE Of(u) == {[value |-> legacyEvents[e].value, at |-> legacyEvents[e].at] :
                       e \in {i \in EventIDs : legacyEvents[i] # None /\ legacyEvents[i].user = u}}
<1>0. Cardinality(EventIDs) \in Nat /\ EventIDs = 1 .. Cardinality(EventIDs)
  BY RepairAssumption, FS_CardinalityType
<1>1. legacyNow = 1 + Cardinality(EventIDs) /\ legacyNow \in Nat
  <2>1. Repair!Cardinality(EventIDs) = Cardinality(EventIDs)
    BY DEF Repair!Cardinality, Cardinality
  <2> QED BY <1>0, <2>1 DEF Repair!Init
<1>2. /\ DOMAIN legacyEvents = EventIDs
      /\ \A e \in EventIDs : legacyEvents[e] # None => IsEvent(legacyEvents[e], legacyNow)
  <2>1. PICK who \in [EventIDs -> LegacyUsers \cup {None}], v \in [EventIDs -> {"ongoing", "cleared"}] :
           legacyEvents = [e \in EventIDs |-> IF who[e] = None THEN None
                ELSE [user |-> who[e], value |-> v[e], at |-> (e + 1) \div 2, incident |-> "old"]]
    BY DEF Repair!Init, Repair!Values
  <2>2. ASSUME NEW e \in EventIDs, legacyEvents[e] # None PROVE IsEvent(legacyEvents[e], legacyNow)
    <3>1. who[e] \in LegacyUsers /\ v[e] \in {"ongoing", "cleared"} /\ e \in 1 .. Cardinality(EventIDs)
      BY <1>0, <2>1, <2>2
    <3>2. (e + 1) \div 2 \in Nat /\ (e + 1) \div 2 < legacyNow
      BY <1>0, <1>1, <3>1
    <3>3. legacyEvents[e] = [user |-> who[e], value |-> v[e], at |-> (e + 1) \div 2, incident |-> "old"]
      BY <2>1, <2>2
    <3> QED BY <2>2, <3>1, <3>2, <3>3 DEF IsEvent
  <2> QED BY <2>1, <2>2
<1>3. ASSUME NEW u \in LegacyUsers, NEW c \in Of(u) PROVE IsCast(c, legacyNow)
  <2>1. PICK e \in EventIDs : legacyEvents[e] # None /\ c = [value |-> legacyEvents[e].value, at |-> legacyEvents[e].at]
    BY <1>3
  <2>2. IsEvent(legacyEvents[e], legacyNow)
    BY <1>2, <2>1
  <2> QED BY <2>1, <2>2 DEF IsEvent, IsCast
<1> HIDE DEF Of
<1>4. ASSUME NEW u \in LegacyUsers, Of(u) # {} PROVE IsCast(Repair!NewestOf(Of(u)), legacyNow)
  <2>1. \A c \in Of(u) : c.at \in Nat /\ c.at < legacyNow
    BY <1>3 DEF IsCast
  <2>2. Repair!NewestOf(Of(u)) \in Of(u)
    BY <1>1, <1>4, <2>1, NewestExists
  <2> QED BY <1>3, <2>2
<1>5. /\ DOMAIN legacyVotes = {"old", "new"} /\ \A i \in {"old", "new"} : DOMAIN legacyVotes[i] = LegacyUsers
      /\ \A i \in {"old", "new"}, u \in LegacyUsers : legacyVotes[i][u] # None => IsCast(legacyVotes[i][u], legacyNow)
  <2>1. PICK early \in [LegacyUsers -> {None} \cup [value : {"ongoing", "cleared"}, at : {0}]] :
           legacyVotes = [id \in {"old", "new"} |-> [u \in LegacyUsers |->
              IF id = "new" THEN None ELSE IF Of(u) = {} THEN early[u] ELSE Repair!NewestOf(Of(u))]]
    BY DEF Repair!Init, Repair!Values, Of
  <2>2. ASSUME NEW i \in {"old", "new"}, NEW u \in LegacyUsers, legacyVotes[i][u] # None
        PROVE  IsCast(legacyVotes[i][u], legacyNow)
    <3>1. CASE legacyVotes[i][u] = early[u]
      <4>1. early[u] \in [value : {"ongoing", "cleared"}, at : {0}]
        BY <2>2, <3>1
      <4>2. early[u].value \in {"ongoing", "cleared"} /\ early[u].at = 0 /\ DOMAIN early[u] = {"value", "at"}
            /\ early[u] = [value |-> early[u].value, at |-> early[u].at]
        BY <4>1
      <4> QED BY <1>0, <1>1, <3>1, <4>2 DEF IsCast
    <3>2. CASE Of(u) # {} /\ legacyVotes[i][u] = Repair!NewestOf(Of(u))
      BY <1>4, <3>2
    <3> QED BY <2>1, <2>2, <3>1, <3>2
  <2> QED BY <2>1, <2>2
<1>6. RepairRows
  BY <1>1, <1>2, <1>5 DEF Repair!Init, RepairRows
<1>7. ASSUME NEW u \in LegacyUsers PROVE NewestIsStored(u)
  <2>1. newest[u] = IF Repair!Casts(u) = {} THEN None ELSE Repair!NewestOf(Repair!Casts(u))
    BY DEF Repair!Init, Repair!Latest
  <2>2. CASE Repair!Casts(u) # {}
    <3>1. \A c \in Repair!Casts(u) : c.at \in Nat /\ c.at < legacyNow
      BY <1>6, CastsAreCasts DEF IsCast
    <3> QED BY <1>1, <2>1, <2>2, <3>1, NewestExists DEF NewestIsStored
  <2> QED BY <2>1, <2>2 DEF NewestIsStored
<1>8. RepairPhases
  BY RepairAssumption DEF Repair!Init, RepairPhases
<1> QED BY <1>6, <1>7, <1>8 DEF RepairInv

(* After any number of interrupted repairs the opaque id of an incident     *)
(* carries every user's newest vote and every event and comment, for every  *)
(* number of users, events, comments and area reports.                      *)
THEOREM RepairIsLossless == BotSpec => []RepairKeepsNewest
<1> DEFINE Inv == Repaired => RepairInv
<1>1. BotInit => Inv
  BY RepairInit DEF BotInit
<1>2. Inv /\ [BotNext]_BotVars => Inv'
  <2> SUFFICES ASSUME Inv, [BotNext]_BotVars, Repaired' PROVE RepairInv'
    OBVIOUS
  <2>1. Repaired /\ RepairInv
    BY DEF BotNext, BotVars
  <2>2. CASE UNCHANGED repairVars
    <3>1. UNCHANGED <<legacyKind, legacyVotes, legacyEvents, legacyComments, readable, legacyPc, merged, legacyNow, newest>>
      BY <2>2 DEF repairVars
    <3>2. RepairRows' /\ \A u \in LegacyUsers : NewestIsStored(u)'
      BY <2>1, <3>1, RowsUntouched DEF RepairInv, RepairRows
    <3>3. RepairPhases'
      BY <2>1, <3>1 DEF RepairInv, RepairPhases, AllMoved, VotesMoved, Repair!OldEvents
    <3> QED BY <3>2, <3>3 DEF RepairInv
  <2>3. CASE Repair!Next
    BY <2>1, <2>3, RepairStep
  <2> QED BY <2>1, <2>2, <2>3 DEF BotNext, BotVars
<1>3. Inv => RepairKeepsNewest
  BY DEF RepairInv, RepairPhases, AllMoved, VotesMoved, RepairKeepsNewest, Repair!RepairKeepsNewest
<1> QED BY <1>1, <1>2, <1>3, PTL DEF BotSpec

-----------------------------------------------------------------------------
(*                      The chat analyzer (ChatAnalyzer)                    *)

Messages(b) == 1 .. b.messages
ActionSet(b) == [batch : Nat, kind : {"report", "vote"}, target : Targets, sources : SUBSET (1 .. b.messages)]

(* Every source of a published action carries the action's id until its row *)
(* is settled, and an id a row carries is that of an action about it.       *)
ChatRows(b) ==
    /\ DOMAIN row = Messages(b) /\ DOMAIN claim = Messages(b)
    /\ committed \subseteq ActionSet(b)
    /\ \A a \in committed : \A m \in a.sources : row[m] # "absent" /\ (claim[m] = a \/ row[m] # "pending")
    /\ \A m \in Messages(b) : claim[m] # None => m \in claim[m].sources
    /\ Chat(b)!AppliedIsCommitted
    /\ Chat(b)!ActedOnAtMostOnce

(* Where a message of the batch stands.                                     *)
IsOutcome(m) ==
    /\ outcome[m].status # "absent"
    /\ outcome[m].claim # None => m \in outcome[m].claim.sources
    /\ outcome[m].status = "applied" => outcome[m].claim \in committed /\ m \in outcome[m].claim.sources
    /\ \A a \in committed : m \in a.sources => outcome[m].claim = a

(* A batch begins with messages no action was published for, and only those *)
(* with an outcome have one since.                                          *)
ChatBatch(b) ==
    /\ work \subseteq Messages(b) /\ DOMAIN outcome \subseteq work /\ started \in Nat
    /\ chatPc \in {"idle", "enqueue", "list", "reconcile", "model", "reason"} => DOMAIN outcome = {}
    /\ chatPc = "reconcile" => \A m \in work : row[m] = "pending"
    /\ chatPc \in {"model", "reason", "decide", "claim", "finalize"} =>
        current \in Nat /\ \A m \in work : row[m] # "absent"
    /\ chatPc \in {"model", "reason", "decide", "claim"} =>
        \A a \in committed : \A m \in a.sources : m \in work => m \in DOMAIN outcome
    /\ \A m \in DOMAIN outcome : IsOutcome(m)
    /\ chatPc = "model" => \A m \in work : seen[m] # None => m \in seen[m].sources
    /\ chatPc = "claim" =>
        /\ action \in ActionSet(b) /\ action.sources \subseteq work \ DOMAIN outcome
        /\ unmarked \subseteq action.sources
        /\ \A m \in action.sources \ unmarked : claim[m] = action
    /\ chatPc = "finalize" /\ ~portable => work \subseteq DOMAIN outcome

(* Messages are numbered as they are posted; what the checkpoint will pass  *)
(* is stored, too old or still in hand.                                     *)
ChatHistory(b) ==
    /\ DOMAIN chatKind = Messages(b)
    /\ Chat(b)!posted \in 0 .. b.messages
    /\ \A m \in Messages(b) : chatKind[m] # "none" <=> m <= Chat(b)!posted
    /\ upto \in Nat /\ upto <= Chat(b)!posted
    /\ checkpoint # None => checkpoint \in Nat /\ first \in Nat /\ checkpoint <= Chat(b)!posted
    /\ Chat(b)!NoMessageSkipped
    /\ chatPc = "enqueue" /\ checkpoint # None =>
        \A m \in (checkpoint + 1) .. upto : chatKind[m] = "text" => row[m] # "absent" \/ m \in old \/ m \in work

ChatInv(b) == ChatRows(b) /\ ChatBatch(b) /\ ChatHistory(b)

LEMMA ChatMessages ==
    ASSUME NEW b PROVE Chat(b)!Messages = Messages(b)
BY DEF Messages, Chat!Messages

LEMMA PostedIs ==
    ASSUME NEW b, b.messages \in Nat, NEW p \in 0 .. b.messages,
           \A m \in Messages(b) : chatKind[m] # "none" <=> m <= p
    PROVE  Chat(b)!posted = p
<1>1. {m \in Chat(b)!Messages : chatKind[m] # "none"} = 1 .. p
  BY DEF Messages, Chat!Messages
<1>2. Cardinality(1 .. p) = p
  BY FS_Interval
<1>3. Chat(b)!Cardinality(1 .. p) = Cardinality(1 .. p)
  BY DEF Chat!Cardinality, Cardinality
<1> QED BY <1>1, <1>2, <1>3 DEF Chat!posted

(* Steps that read and write no history and lose no row.                    *)
LEMMA HistoryKept ==
    ASSUME NEW b, b.messages \in Nat, ChatHistory(b), DOMAIN row = Messages(b),
           UNCHANGED <<chatKind, checkpoint, first>>, upto' = upto \/ upto' = 0,
           old \subseteq old', chatPc' # "enqueue",
           \A m \in Messages(b) : row[m] # "absent" => row'[m] # "absent"
    PROVE  ChatHistory(b)'
<1>1. Chat(b)!posted' = Chat(b)!posted
  BY DEF Chat!posted, Chat!Messages
<1>2. Chat(b)!NoMessageSkipped'
  <2> SUFFICES ASSUME checkpoint # None, NEW m \in (first + 1) .. checkpoint, chatKind[m] = "text"
               PROVE  row'[m] # "absent" \/ m \in old'
    BY DEF Chat!NoMessageSkipped
  <2>1. m \in Messages(b)
    BY DEF ChatHistory, Messages
  <2> QED BY <2>1 DEF ChatHistory, Chat!NoMessageSkipped
<1> QED BY <1>1, <1>2 DEF ChatHistory

(* Steps that touch neither the rows nor the batch.                         *)
LEMMA RowsKept ==
    ASSUME NEW b, ChatRows(b), UNCHANGED <<row, claim, committed>> PROVE ChatRows(b)'
BY DEF ChatRows, Chat!AppliedIsCommitted, Chat!ActedOnAtMostOnce, Chat!Messages

(* The pass is over.                                                        *)
LEMMA BatchOver ==
    ASSUME NEW b, ChatBatch(b), work' = {}, DOMAIN outcome' = {}, chatPc' = "idle", started' = started
    PROVE  ChatBatch(b)'
BY DEF ChatBatch

LEMMA ChatIdle ==
    ASSUME NEW b, Chat(b)!GoIdle
    PROVE  work' = {} /\ DOMAIN outcome' = {} /\ chatPc' = "idle" /\ upto' = 0
BY DEF Chat!GoIdle, Chat!NoFunction

(* The fields of a set of actions.                                          *)
LEMMA ActionFields ==
    ASSUME NEW b \in ChatSizes, NEW a \in ActionSet(b) PROVE a # None /\ a.sources \subseteq Messages(b)
BY ChatAssumption DEF ActionSet, Messages

(* The world, and the collection of messages.                               *)
LEMMA ChatCollects ==
    ASSUME NEW b \in ChatSizes, ChatInv(b),
           \/ \E k \in {"text", "service"} : Chat(b)!Post(k)
           \/ \E m \in Chat(b)!Messages : Chat(b)!Age(m)
           \/ Chat(b)!CircuitCloses \/ Chat(b)!Collect \/ Chat(b)!Enqueue \/ Chat(b)!SetCheckpoint
    PROVE  ChatInv(b)'
<1> USE ChatAssumption DEF ChatInv
<1>1. ASSUME NEW k \in {"text", "service"}, Chat(b)!Post(k) PROVE ChatInv(b)'
  <2>1. /\ UNCHANGED <<row, claim, committed, started, chatPc, work, upto, current, seen, outcome, action, unmarked,
                       checkpoint, first, old, portable>>
        /\ chatKind' = [chatKind EXCEPT ![Chat(b)!posted + 1] = k] /\ Chat(b)!posted < b.messages
    BY <1>1 DEF Chat!Post, Chat!durable, Chat!memory
  <2>2. ChatRows(b)'
    BY <2>1, RowsKept
  <2>3. ChatBatch(b)'
    BY <2>1 DEF ChatBatch, IsOutcome
  <2>4. Chat(b)!posted + 1 \in 0 .. b.messages /\ Chat(b)!posted \in Nat
    BY <2>1 DEF ChatHistory
  <2>5. \A m \in Messages(b) : chatKind'[m] = IF m = Chat(b)!posted + 1 THEN k ELSE chatKind[m]
    BY <2>1 DEF ChatHistory
  <2>6. Chat(b)!posted' = Chat(b)!posted + 1
    <3> DEFINE p == Chat(b)!posted + 1
    <3>1. \A m \in Messages(b) : chatKind'[m] # "none" <=> m <= p
      BY <2>4, <2>5 DEF ChatHistory, Messages
    <3>2. {m \in Chat(b)!Messages : chatKind'[m] # "none"} = 1 .. p
      BY <2>4, <3>1 DEF Messages, Chat!Messages
    <3>3. p \in Nat
      BY <2>4
    <3> HIDE DEF p
    <3>4. Cardinality(1 .. p) = p
      BY <3>3, FS_Interval
    <3>5. Chat(b)!Cardinality(1 .. p) = Cardinality(1 .. p)
      BY DEF Chat!Cardinality, Cardinality
    <3> QED BY <3>2, <3>4, <3>5 DEF Chat!posted, Chat!Messages, p
  <2>7. ChatHistory(b)'
    <3>1. \A m \in Messages(b) : m <= Chat(b)!posted => chatKind'[m] = chatKind[m]
      BY <2>4, <2>5 DEF Messages
    <3>2. Chat(b)!NoMessageSkipped'
      <4> SUFFICES ASSUME checkpoint # None, NEW m \in (first + 1) .. checkpoint, chatKind'[m] = "text"
                   PROVE  row[m] # "absent" \/ m \in old
        BY <2>1 DEF Chat!NoMessageSkipped
      <4>1. m \in Messages(b) /\ m <= Chat(b)!posted
        BY <2>4 DEF ChatHistory, Messages
      <4> QED BY <3>1, <4>1 DEF ChatHistory, Chat!NoMessageSkipped
    <3>3. ASSUME chatPc = "enqueue", checkpoint # None, NEW m \in (checkpoint + 1) .. upto, chatKind'[m] = "text"
          PROVE  row[m] # "absent" \/ m \in old \/ m \in work
      <4>1. m \in Messages(b) /\ m <= Chat(b)!posted
        BY <2>4, <3>3 DEF ChatHistory, Messages
      <4> QED BY <3>1, <3>3, <4>1 DEF ChatHistory
    <3>4. \A m \in Messages(b) : chatKind'[m] # "none" <=> m <= Chat(b)!posted + 1
      BY <2>4, <2>5 DEF ChatHistory, Messages
    <3> QED BY <2>1, <2>4, <2>6, <3>2, <3>3, <3>4 DEF ChatHistory
  <2> QED BY <2>2, <2>3, <2>7
<1>2. CASE Chat(b)!CircuitCloses \/ \E m \in Chat(b)!Messages : Chat(b)!Age(m)
  <2>1. /\ UNCHANGED <<row, claim, committed, started, chatPc, work, upto, current, seen, outcome, action, unmarked,
                       checkpoint, first, chatKind, portable>>
        /\ old \subseteq old'
    BY <1>2 DEF Chat!Age, Chat!CircuitCloses, Chat!durable, Chat!memory, Chat!world
  <2>2. ChatRows(b)'
    BY <2>1, RowsKept
  <2>3. ChatBatch(b)'
    BY <2>1 DEF ChatBatch, IsOutcome
  <2>4. Chat(b)!posted' = Chat(b)!posted
    BY <2>1 DEF Chat!posted, Chat!Messages
  <2>5. ChatHistory(b)'
    BY <2>1, <2>4 DEF ChatHistory, Chat!NoMessageSkipped
  <2> QED BY <2>2, <2>3, <2>5
<1>3. CASE Chat(b)!Collect
  <2>1. /\ UNCHANGED <<row, claim, committed, started, current, seen, outcome, action, unmarked,
                       checkpoint, first, old, chatKind, portable>>
        /\ chatPc = "idle" /\ chatPc' = "enqueue"
    BY <1>3 DEF Chat!Collect, Chat!durable, Chat!world
  <2>2. ChatRows(b)'
    BY <2>1, RowsKept
  <2>3. upto' \in Nat /\ upto' <= Chat(b)!posted /\ work' \subseteq Messages(b)
        /\ (checkpoint # None => work' = {m \in (checkpoint + 1) .. upto' : chatKind[m] = "text" /\ m \notin old})
    <3>1. Chat(b)!posted \in Nat /\ Chat(b)!posted <= b.messages /\ b.messages \in Nat
      BY DEF ChatHistory
    <3>2. CASE checkpoint = None
      BY <1>3, <3>1, <3>2 DEF Chat!Collect
    <3>3. CASE checkpoint # None
      <4>1. PICK to \in Chat(b)!PageEnds(checkpoint) : upto' = to /\ work' = Chat(b)!Collected(checkpoint, to)
        BY <1>3, <3>3 DEF Chat!Collect
      <4>2. PICK k \in 1 .. MaxPages : to = IF checkpoint + k * PageSize < Chat(b)!posted
                                           THEN checkpoint + k * PageSize ELSE Chat(b)!posted
        BY <4>1 DEF Chat!PageEnds
      <4>3. k * PageSize \in Nat /\ checkpoint \in Nat
        BY <3>3 DEF ChatHistory
      <4>4. to \in Nat /\ to <= Chat(b)!posted
        BY <3>1, <4>2, <4>3
      <4>5. work' = {m \in (checkpoint + 1) .. to : chatKind[m] = "text" /\ m \notin old}
        BY <4>1 DEF Chat!Collected, Chat!Fresh
      <4> QED BY <3>1, <4>1, <4>3, <4>4, <4>5 DEF Messages
    <3> QED BY <3>2, <3>3
  <2>4. ChatBatch(b)'
    BY <2>1, <2>3 DEF ChatBatch
  <2>5. Chat(b)!posted' = Chat(b)!posted
    BY <2>1 DEF Chat!posted, Chat!Messages
  <2>6. ChatHistory(b)'
    BY <2>1, <2>3, <2>5 DEF ChatHistory, Chat!NoMessageSkipped
  <2> QED BY <2>2, <2>4, <2>6
<1>4. CASE Chat(b)!Enqueue
  <2> DEFINE m == Chat(b)!Min(work)
  <2>1. /\ UNCHANGED <<claim, committed, started, chatPc, upto, current, seen, outcome, action, unmarked,
                       checkpoint, first, old, chatKind, portable>>
        /\ chatPc = "enqueue" /\ work' = work \ {m}
        /\ row' = [row EXCEPT ![m] = IF @ = "absent" THEN "pending" ELSE @]
    BY <1>4 DEF Chat!Enqueue, Chat!world
  <2> HIDE DEF m
  <2>2. /\ DOMAIN row' = Messages(b)
        /\ \A x \in Messages(b) : row'[x] = IF x = m /\ row[x] = "absent" THEN "pending" ELSE row[x]
    BY <2>1 DEF ChatRows
  <2>3. ChatRows(b)'
    <3>1. \A a \in committed : a.sources \subseteq Messages(b)
      BY ActionFields DEF ChatRows
    <3>2. \A a \in committed : \A x \in a.sources : row'[x] # "absent" /\ (claim[x] = a \/ row'[x] # "pending")
      BY <2>2, <3>1 DEF ChatRows
    <3>3. Chat(b)!AppliedIsCommitted'
      BY <2>1, <2>2 DEF ChatRows, Chat!AppliedIsCommitted, Chat!Messages, Messages
    <3> QED BY <2>1, <2>2, <3>2, <3>3 DEF ChatRows, Chat!ActedOnAtMostOnce
  <2>4. ChatBatch(b)'
    BY <2>1 DEF ChatBatch
  <2>5. Chat(b)!posted' = Chat(b)!posted
    BY <2>1 DEF Chat!posted, Chat!Messages
  <2>6. Chat(b)!NoMessageSkipped'
    <3> SUFFICES ASSUME checkpoint # None, NEW x \in (first + 1) .. checkpoint, chatKind[x] = "text"
                 PROVE  row'[x] # "absent" \/ x \in old
      BY <2>1 DEF Chat!NoMessageSkipped
    <3>1. x \in Messages(b)
      BY DEF ChatHistory, Messages
    <3> QED BY <2>2, <3>1 DEF ChatHistory, Chat!NoMessageSkipped
  <2>7. ASSUME checkpoint # None, NEW x \in (checkpoint + 1) .. upto, chatKind[x] = "text"
        PROVE  row'[x] # "absent" \/ x \in old \/ x \in work'
    <3>1. x \in Messages(b)
      BY <2>7 DEF ChatHistory, Messages
    <3> QED BY <2>1, <2>2, <2>7, <3>1 DEF ChatHistory
  <2>8. ChatHistory(b)'
    BY <2>1, <2>5, <2>6, <2>7 DEF ChatHistory
  <2> QED BY <2>3, <2>4, <2>8
<1>5. CASE Chat(b)!SetCheckpoint
  <2>1. /\ UNCHANGED <<row, claim, committed, started, work, current, seen, outcome, action, unmarked,
                       old, chatKind, portable>>
        /\ chatPc = "enqueue" /\ chatPc' = "idle" /\ work = {} /\ upto' = 0
    BY <1>5 DEF Chat!SetCheckpoint, Chat!world
  <2>2. ChatRows(b)'
    BY <2>1, RowsKept
  <2>3. ChatBatch(b)'
    BY <2>1 DEF ChatBatch
  <2>4. Chat(b)!posted' = Chat(b)!posted
    BY <2>1 DEF Chat!posted, Chat!Messages
  <2>5. (checkpoint' # None => checkpoint' \in Nat /\ first' \in Nat /\ checkpoint' <= Chat(b)!posted) /\ Chat(b)!NoMessageSkipped'
    <3>1. CASE UNCHANGED <<checkpoint, first>>
      BY <2>1, <3>1 DEF ChatHistory, Chat!NoMessageSkipped
    <3>2. CASE checkpoint' = upto /\ first' = upto
      <4>1. upto \in Nat /\ (upto + 1) .. upto = {}
        BY DEF ChatHistory
      <4> QED BY <3>2, <4>1 DEF ChatHistory, Chat!NoMessageSkipped
    <3>3. CASE checkpoint # None /\ checkpoint' = Chat(b)!Max({checkpoint, upto}) /\ first' = first
      <4>1. checkpoint \in Nat /\ upto \in Nat /\ first \in Nat
        BY <3>3 DEF ChatHistory
      <4>2. \E x \in {checkpoint, upto} : \A y \in {checkpoint, upto} : x >= y
        BY <4>1
      <4>3. Chat(b)!Max({checkpoint, upto}) \in {checkpoint, upto}
        BY <4>2 DEF Chat!Max
      <4>4. Chat(b)!Max({checkpoint, upto}) <= Chat(b)!posted
        BY <3>3, <4>3 DEF ChatHistory
      <4>5. ASSUME NEW m \in (first + 1) .. checkpoint', chatKind[m] = "text" PROVE row[m] # "absent" \/ m \in old
        <5>1. m \in (first + 1) .. checkpoint \/ m \in (checkpoint + 1) .. upto
          BY <3>3, <4>1, <4>3, <4>5
        <5> QED BY <2>1, <3>3, <4>5, <5>1 DEF ChatHistory, Chat!NoMessageSkipped
      <4> QED BY <2>1, <3>3, <4>1, <4>3, <4>4, <4>5 DEF Chat!NoMessageSkipped
    <3> QED BY <1>5, <3>1, <3>2, <3>3 DEF Chat!SetCheckpoint
  <2>6. ChatHistory(b)'
    <3>1. 0 \in Nat /\ 0 <= Chat(b)!posted
      BY DEF ChatHistory
    <3> QED BY <2>1, <2>4, <2>5, <3>1 DEF ChatHistory
  <2> QED BY <2>2, <2>3, <2>6
<1> QED BY <1>1, <1>2, <1>3, <1>4, <1>5

(* One processing pass, up to the model's answer.                           *)
LEMMA ChatPasses ==
    ASSUME NEW b \in ChatSizes, ChatInv(b),
           \/ Chat(b)!RecoverStaleBatches \/ Chat(b)!ListPending \/ Chat(b)!Reconcile
           \/ \E S \in SUBSET Chat(b)!Messages : Chat(b)!ExpireStale(S) \/ Chat(b)!StartBatch(S)
           \/ Chat(b)!ModelFails \/ Chat(b)!ModelAnswersInvalid
           \/ \E d \in [work -> Chat(b)!Decisions] : Chat(b)!ModelAnswers(d)
           \/ \E S \in SUBSET work : Chat(b)!DeduceLocations(S)
    PROVE  ChatInv(b)'
<1> USE ChatAssumption DEF ChatInv
<1>1. CASE Chat(b)!RecoverStaleBatches
  <2>1. UNCHANGED <<row, claim, committed, started, chatPc, work, upto, current, seen, outcome, action, unmarked,
                    checkpoint, first, old, chatKind, portable>> /\ chatPc = "idle"
    BY <1>1 DEF Chat!RecoverStaleBatches, Chat!memory, Chat!world
  <2>2. ChatRows(b)' /\ ChatHistory(b)'
    BY <2>1, RowsKept, HistoryKept DEF ChatRows
  <2>3. ChatBatch(b)'
    BY <2>1 DEF ChatBatch
  <2> QED BY <2>2, <2>3
<1>2. CASE Chat(b)!ListPending
  <2>1. /\ UNCHANGED <<row, claim, committed, started, upto, current, seen, outcome, action, unmarked,
                       checkpoint, first, old, chatKind, portable>>
        /\ chatPc = "list" /\ chatPc' = "reconcile"
        /\ work' \subseteq Messages(b) /\ \A m \in work' : row[m] = "pending"
    BY <1>2 DEF Chat!ListPending, Chat!durable, Chat!world, Chat!Pending, Chat!Messages, Messages
  <2>2. ChatRows(b)' /\ ChatHistory(b)'
    BY <2>1, RowsKept, HistoryKept DEF ChatRows
  <2>3. ChatBatch(b)'
    BY <2>1 DEF ChatBatch
  <2> QED BY <2>2, <2>3
<1>3. CASE Chat(b)!Reconcile
  <2> DEFINE m == Chat(b)!Min(Chat(b)!Unreconciled)
  <2>1. /\ UNCHANGED <<committed, started, chatPc, upto, current, seen, outcome, action, unmarked,
                       checkpoint, first, old, chatKind, portable>>
        /\ chatPc = "reconcile" /\ work' = work \ {m} /\ Chat(b)!Unreconciled # {}
        /\ row' = [row EXCEPT ![m] = "applied"] /\ claim' = [claim EXCEPT ![m] = claim[m]]
    BY <1>3 DEF Chat!Reconcile, Chat!Mark, Chat!world
  <2>2. m \in work /\ claim[m] \in committed
    <3>1. Chat(b)!Unreconciled \in SUBSET Nat
      BY DEF Chat!Unreconciled, ChatBatch, Messages
    <3>2. \E x \in Chat(b)!Unreconciled : \A y \in Chat(b)!Unreconciled : x <= y
      BY <2>1, <3>1, LeastExists
    <3>3. m \in Chat(b)!Unreconciled
      BY <3>2 DEF Chat!Min
    <3> QED BY <3>3 DEF Chat!Unreconciled
  <2> HIDE DEF m
  <2>3. m \in Messages(b) /\ claim[m] # None /\ m \in claim[m].sources
    BY <2>2, ActionFields DEF ChatBatch, ChatRows
  <2>4. /\ DOMAIN row' = Messages(b) /\ DOMAIN claim' = Messages(b)
        /\ \A x \in Messages(b) : row'[x] = (IF x = m THEN "applied" ELSE row[x]) /\ claim'[x] = claim[x]
    BY <2>1 DEF ChatRows
  <2>5. ChatRows(b)'
    <3>1. \A a \in committed : a.sources \subseteq Messages(b)
      BY ActionFields DEF ChatRows
    <3>2. \A a \in committed : \A x \in a.sources : row'[x] # "absent" /\ (claim'[x] = a \/ row'[x] # "pending")
      BY <2>4, <3>1 DEF ChatRows
    <3>3. Chat(b)!AppliedIsCommitted'
      BY <2>1, <2>2, <2>3, <2>4 DEF ChatRows, Chat!AppliedIsCommitted, Chat!Messages, Messages
    <3> QED BY <2>1, <2>4, <3>2, <3>3 DEF ChatRows, Chat!ActedOnAtMostOnce
  <2>6. ChatBatch(b)'
    BY <2>1, <2>4 DEF ChatBatch
  <2>7. ChatHistory(b)'
    BY <2>1, <2>4, HistoryKept DEF ChatRows
  <2> QED BY <2>5, <2>6, <2>7
<1>4. ASSUME NEW S \in SUBSET Chat(b)!Messages, Chat(b)!ExpireStale(S) PROVE ChatInv(b)'
  <2>1. /\ UNCHANGED <<committed, started, work, upto, current, seen, outcome, action, unmarked,
                       checkpoint, first, old, chatKind, portable>>
        /\ chatPc = "idle" /\ chatPc' \in {"idle", "list"}
        /\ row' = [m \in Messages(b) |-> IF m \in S THEN "ignored" ELSE row[m]]
        /\ claim' = [m \in Messages(b) |-> IF portable /\ m \in S THEN None ELSE claim[m]]
        /\ \A m \in S : row[m] = "pending"
    BY <1>4 DEF Chat!ExpireStale, Chat!Messages, Messages, Chat!Pending, Chat!world
  <2>2. ChatRows(b)'
    <3>1. \A a \in committed : a.sources \subseteq Messages(b)
      BY ActionFields DEF ChatRows
    <3>2. \A a \in committed : \A x \in a.sources : row'[x] # "absent" /\ (claim'[x] = a \/ row'[x] # "pending")
      BY <2>1, <3>1 DEF ChatRows
    <3>3. Chat(b)!AppliedIsCommitted'
      BY <2>1 DEF ChatRows, Chat!AppliedIsCommitted, Chat!Messages, Messages
    <3>4. \A m \in Messages(b) : claim'[m] # None => m \in claim'[m].sources
      BY <2>1 DEF ChatRows
    <3> QED BY <2>1, <3>2, <3>3, <3>4 DEF ChatRows, Chat!ActedOnAtMostOnce
  <2>3. ChatBatch(b)'
    BY <2>1 DEF ChatBatch
  <2>4. ChatHistory(b)'
    BY <2>1, HistoryKept DEF ChatRows
  <2> QED BY <2>2, <2>3, <2>4
<1>5. ASSUME NEW S \in SUBSET Chat(b)!Messages, Chat(b)!StartBatch(S) PROVE ChatInv(b)'
  <2>1. /\ UNCHANGED <<row, claim, committed, upto, outcome, action, unmarked, checkpoint, first, old, chatKind, portable>>
        /\ chatPc = "reconcile" /\ Chat(b)!Unreconciled = {} /\ S \subseteq work
    BY <1>5 DEF Chat!StartBatch, Chat!ReadySets, Chat!world
  <2>2. ASSUME chatPc' \in {"idle", "model"} PROVE ChatRows(b)' /\ ChatHistory(b)'
    BY <2>1, <2>2, RowsKept, HistoryKept DEF ChatRows
  <2>3. CASE chatPc' = "idle" /\ work' = {} /\ UNCHANGED started
    BY <2>1, <2>2, <2>3 DEF ChatBatch
  <2>4. CASE /\ started' = started + 1 /\ current' = started' /\ work' = S
             /\ seen' = [m \in S |-> claim[m]] /\ chatPc' = "model"
    <3>1. ASSUME NEW a \in committed, NEW m \in a.sources, m \in S PROVE FALSE
      <4>1. claim[m] = a
        BY <2>1, <3>1 DEF ChatRows, ChatBatch
      <4> QED BY <2>1, <3>1, <4>1 DEF Chat!Unreconciled
    <3>2. \A m \in S : m \in Messages(b) /\ row[m] = "pending"
      BY <2>1 DEF ChatBatch
    <3>3. \A m \in S : seen'[m] # None => m \in seen'[m].sources
      BY <2>4, <3>2 DEF ChatRows
    <3>4. ChatBatch(b)'
      BY <2>1, <2>4, <3>1, <3>2, <3>3 DEF ChatBatch
    <3> QED BY <2>2, <2>4, <3>4
  <2> QED BY <1>5, <2>3, <2>4 DEF Chat!StartBatch
<1>6. CASE Chat(b)!ModelFails \/ Chat(b)!ModelAnswersInvalid
  <2>1. /\ UNCHANGED <<row, claim, committed, started, work, upto, current, seen, action, unmarked,
                       checkpoint, first, old, chatKind, portable>>
        /\ chatPc \in {"model", "reason"} /\ chatPc' = "finalize"
        /\ \/ chatPc = "model" /\ outcome' = [m \in work |-> [status |-> "pending", claim |-> seen[m]]]
           \/ outcome' = [m \in work |-> [status |-> "uncertain", claim |-> None]]
    BY <1>6 DEF Chat!ModelFails, Chat!ModelAnswersInvalid, Chat!Outcome, Chat!durable, Chat!world
  <2>2. ChatRows(b)' /\ ChatHistory(b)'
    BY <2>1, RowsKept, HistoryKept DEF ChatRows
  <2>3. \A a \in committed : \A m \in a.sources : m \notin work
    BY <2>1 DEF ChatBatch
  <2>4. DOMAIN outcome' = work /\ \A m \in work : IsOutcome(m)'
    BY <2>1, <2>3 DEF ChatBatch, IsOutcome
  <2>5. ChatBatch(b)'
    BY <2>1, <2>4 DEF ChatBatch
  <2> QED BY <2>2, <2>5
<1>7. CASE \/ \E d \in [work -> Chat(b)!Decisions] : Chat(b)!ModelAnswers(d)
           \/ \E S \in SUBSET work : Chat(b)!DeduceLocations(S)
  <2>1. /\ UNCHANGED <<row, claim, committed, started, work, upto, current, seen, action, unmarked, outcome,
                       checkpoint, first, old, chatKind, portable>>
        /\ \/ chatPc = "model" /\ chatPc' = "reason"
           \/ chatPc = "reason" /\ chatPc' = "decide"
    BY <1>7 DEF Chat!ModelAnswers, Chat!DeduceLocations, Chat!durable, Chat!world
  <2>2. ChatRows(b)' /\ ChatHistory(b)'
    BY <2>1, RowsKept, HistoryKept DEF ChatRows
  <2>3. ChatBatch(b)'
    BY <2>1 DEF ChatBatch, IsOutcome
  <2> QED BY <2>2, <2>3
<1> QED BY <1>1, <1>2, <1>3, <1>4, <1>5, <1>6, <1>7

(* A decision is settled without an action.                                 *)
LEMMA Settled ==
    ASSUME NEW b \in ChatSizes, ChatInv(b), NEW S \in SUBSET (work \ DOMAIN outcome),
           NEW status \in {"uncertain", "ignored", "dry_run"},
           Chat(b)!Settle(S, Chat(b)!Outcome(status, None)),
           UNCHANGED <<row, claim, committed, started, work, upto, current, seen, checkpoint, first, old, chatKind, portable>>,
           chatPc = "decide",
           chatPc' = "decide" \/ (chatPc' = "finalize" /\ S = work \ DOMAIN outcome)
    PROVE  ChatInv(b)'
<1> USE ChatAssumption DEF ChatInv
<1>1. ChatRows(b)' /\ ChatHistory(b)'
  BY RowsKept, HistoryKept DEF ChatRows
<1>2. /\ DOMAIN outcome' = DOMAIN outcome \cup S
      /\ \A m \in S : outcome'[m] = [status |-> status, claim |-> None]
      /\ \A m \in DOMAIN outcome : outcome'[m] = outcome[m]
  BY DEF Chat!Settle, Chat!Outcome
<1>3. \A a \in committed : \A m \in a.sources : m \notin S
  BY DEF ChatBatch
<1>4. \A m \in DOMAIN outcome' : IsOutcome(m)'
  <2>1. \A m \in S : IsOutcome(m)'
    BY <1>2, <1>3 DEF IsOutcome
  <2>2. \A m \in DOMAIN outcome : IsOutcome(m)'
    BY <1>2 DEF ChatBatch, IsOutcome
  <2> QED BY <1>2, <2>1, <2>2
<1>5. ChatBatch(b)'
  BY <1>2, <1>4 DEF ChatBatch
<1> QED BY <1>1, <1>5

(* A decision becomes a claim.                                              *)
LEMMA Claimed ==
    ASSUME NEW b \in ChatSizes, ChatInv(b), NEW S \in SUBSET (work \ DOMAIN outcome),
           NEW k \in {"report", "vote"}, NEW t \in Targets,
           action' = [batch |-> current, kind |-> k, target |-> t, sources |-> S], unmarked' = S,
           UNCHANGED <<row, claim, committed, started, work, upto, current, seen, outcome, checkpoint, first, old, chatKind, portable>>,
           chatPc = "decide", chatPc' = "claim"
    PROVE  ChatInv(b)'
<1> USE ChatAssumption DEF ChatInv
<1>1. ChatRows(b)' /\ ChatHistory(b)'
  BY RowsKept, HistoryKept DEF ChatRows
<1>2. S \subseteq Messages(b) /\ current \in Nat
  BY DEF ChatBatch
<1>3. action' \in ActionSet(b) /\ action'.sources = S
  BY <1>2 DEF ActionSet, Messages
<1>4. ChatBatch(b)'
  BY <1>3 DEF ChatBatch, IsOutcome
<1> QED BY <1>1, <1>4

(* Decisions become outcomes and claims, claims become actions.             *)
LEMMA ChatDecides ==
    ASSUME NEW b \in ChatSizes, ChatInv(b),
           \/ \E t \in Targets : Chat(b)!EvaluateReport(t) \/ Chat(b)!EvaluateVote(t)
           \/ \E m \in Chat(b)!Messages, t \in Targets : Chat(b)!EvaluateOmitted(m, t)
           \/ Chat(b)!EvaluateRest
    PROVE  ChatInv(b)'
<1> DEFINE Frame == UNCHANGED <<row, claim, committed, started, work, upto, current, seen, checkpoint, first, old, chatKind, portable>>
<1>0. Chat(b)!EvaluateFrame => Frame
  BY DEF Chat!EvaluateFrame, Chat!durable, Chat!world
<1> HIDE DEF Frame
<1>1. ASSUME NEW k \in {"report", "vote"}, NEW t \in Targets, NEW S \in SUBSET (work \ DOMAIN outcome),
             Chat(b)!Evaluate(k, t, S), chatPc = "decide", Frame
      PROVE  ChatInv(b)'
  <2>1. CASE Chat(b)!Refuse(S)
    BY <1>1, <2>1, Settled DEF Chat!Refuse, Frame
  <2>2. CASE Chat(b)!Settle(S, Chat(b)!Outcome("dry_run", None)) /\ UNCHANGED <<chatPc, action, unmarked>>
    BY <1>1, <2>2, Settled DEF Frame
  <2>3. CASE /\ action' = [batch |-> current, kind |-> k, target |-> t, sources |-> S] /\ unmarked' = S
             /\ chatPc' = "claim" /\ UNCHANGED outcome
    BY <1>1, <2>3, Claimed DEF Frame
  <2> QED BY <1>1, <2>1, <2>2, <2>3 DEF Chat!Evaluate
<1>2. ASSUME NEW t \in Targets, Chat(b)!EvaluateReport(t) PROVE ChatInv(b)'
  <2> DEFINE S == {m \in Chat(b)!Undecided("report") : decision[m].target = t}
  <2>1. S \in SUBSET (work \ DOMAIN outcome)
    BY DEF Chat!Undecided
  <2>2. chatPc = "decide" /\ Frame /\ (Chat(b)!Evaluate("report", t, S) \/ Chat(b)!Evaluate("vote", t, S))
    BY <1>0, <1>2 DEF Chat!EvaluateReport
  <2> QED BY <1>1, <2>1, <2>2
<1>3. ASSUME NEW t \in Targets, Chat(b)!EvaluateVote(t) PROVE ChatInv(b)'
  <2> DEFINE S == {m \in Chat(b)!Undecided("vote") : decision[m].target = t}
  <2>1. S \in SUBSET (work \ DOMAIN outcome)
    BY DEF Chat!Undecided
  <2>2. chatPc = "decide" /\ Frame
    BY <1>0, <1>3 DEF Chat!EvaluateVote
  <2>3. CASE Chat(b)!Evaluate("vote", t, S)
    BY <1>1, <2>1, <2>2, <2>3
  <2>4. ASSUME NEW s \in {"ignored", "uncertain"}, Chat(b)!Settle(S, Chat(b)!Outcome(s, None)), UNCHANGED chatPc
        PROVE  ChatInv(b)'
    BY <2>1, <2>2, <2>4, Settled DEF Frame
  <2> QED BY <1>3, <2>3, <2>4 DEF Chat!EvaluateVote
<1>4. ASSUME NEW m, NEW t \in Targets, Chat(b)!EvaluateOmitted(m, t) PROVE ChatInv(b)'
  <2>1. {m} \in SUBSET (work \ DOMAIN outcome)
    BY <1>4 DEF Chat!EvaluateOmitted, Chat!Undecided
  <2>2. chatPc = "decide" /\ Frame /\ Chat(b)!Evaluate("report", t, {m})
    BY <1>0, <1>4 DEF Chat!EvaluateOmitted
  <2> QED BY <1>1, <2>1, <2>2
<1>5. CASE Chat(b)!EvaluateRest
  <2>1. chatPc = "decide" /\ Frame /\ chatPc' = "finalize"
        /\ Chat(b)!Settle(work \ DOMAIN outcome, Chat(b)!Outcome("ignored", None))
    BY <1>0, <1>5 DEF Chat!EvaluateRest
  <2> QED BY <2>1, Settled DEF Frame
<1> QED BY <1>2, <1>3, <1>4, <1>5

LEMMA ChatApplies ==
    ASSUME NEW b \in ChatSizes, ChatInv(b),
           \/ \E m \in Chat(b)!Messages : Chat(b)!ClaimSource(m)
           \/ Chat(b)!ClaimFails \/ Chat(b)!Apply
    PROVE  ChatInv(b)'
<1> USE ChatAssumption DEF ChatInv
<1>0. \A a \in committed : a \in ActionSet(b) /\ a # None /\ a.sources \subseteq Messages(b)
  BY ActionFields DEF ChatRows
<1>1. chatPc = "claim"
  BY DEF Chat!ClaimSource, Chat!ClaimFails, Chat!Apply
<1>2. /\ action \in ActionSet(b) /\ action # None /\ action.sources \subseteq Messages(b)
      /\ action.sources \subseteq work \ DOMAIN outcome
      /\ \A m \in action.sources \ unmarked : claim[m] = action
      /\ unmarked \subseteq action.sources
  BY <1>1, ActionFields DEF ChatBatch
<1>3. \A a \in committed : \A m \in a.sources : m \notin action.sources
  BY <1>1, <1>2 DEF ChatBatch
<1>4. ASSUME NEW m \in Chat(b)!Messages, Chat(b)!ClaimSource(m) PROVE ChatInv(b)'
  <2>1. /\ UNCHANGED <<committed, started, work, upto, current, seen, outcome, action, checkpoint, first, old, chatKind, portable, chatPc>>
        /\ m \in unmarked /\ unmarked' = unmarked \ {m}
        /\ row' = [row EXCEPT ![m] = "pending"] /\ claim' = [claim EXCEPT ![m] = action]
    BY <1>4 DEF Chat!ClaimSource, Chat!Mark, Chat!world
  <2>2. /\ DOMAIN row' = Messages(b) /\ DOMAIN claim' = Messages(b)
        /\ \A x \in Messages(b) : row'[x] = IF x = m THEN "pending" ELSE row[x]
        /\ \A x \in Messages(b) : claim'[x] = IF x = m THEN action ELSE claim[x]
    BY <2>1 DEF ChatRows
  <2>3. m \in action.sources
    BY <1>2, <2>1
  <2>4. ChatRows(b)'
    <3>2. \A a \in committed : \A x \in a.sources : row'[x] # "absent" /\ (claim'[x] = a \/ row'[x] # "pending")
      BY <1>0, <1>3, <2>2, <2>3 DEF ChatRows
    <3>3. Chat(b)!AppliedIsCommitted'
      BY <2>1, <2>2 DEF ChatRows, Chat!AppliedIsCommitted, Chat!Messages, Messages
    <3>4. \A x \in Messages(b) : claim'[x] # None => x \in claim'[x].sources
      BY <2>2, <2>3 DEF ChatRows
    <3> QED BY <2>1, <2>2, <3>2, <3>3, <3>4 DEF ChatRows, Chat!ActedOnAtMostOnce
  <2>5. ChatBatch(b)'
    <3>1. \A x \in work : x \in Messages(b) /\ row'[x] # "absent"
      BY <1>1, <2>2 DEF ChatBatch
    <3>2. \A x \in action.sources \ unmarked' : claim'[x] = action
      BY <1>2, <2>1, <2>2
    <3> QED BY <1>1, <1>2, <2>1, <3>1, <3>2 DEF ChatBatch, IsOutcome
  <2>6. ChatHistory(b)'
    BY <1>1, <2>1, <2>2, HistoryKept DEF ChatRows
  <2> QED BY <2>4, <2>5, <2>6
<1>5. ASSUME NEW status \in {"applied", "pending", "uncertain"}, Chat(b)!Ends(status),
             \/ committed' = committed /\ status # "applied"
             \/ committed' = committed \cup {action} /\ status # "uncertain" /\ unmarked = {}
      PROVE  ChatInv(b)'
  <2>1. /\ UNCHANGED <<row, claim, started, work, upto, current, seen, checkpoint, first, old, chatKind, portable>>
        /\ chatPc' = "decide"
        /\ Chat(b)!Settle(action.sources, Chat(b)!Outcome(status, IF status = "uncertain" THEN None ELSE action))
    BY <1>5 DEF Chat!Ends, Chat!world
  <2>2. /\ DOMAIN outcome' = DOMAIN outcome \cup action.sources
        /\ \A m \in action.sources : /\ outcome'[m].status = status
                                     /\ outcome'[m].claim = IF status = "uncertain" THEN None ELSE action
        /\ \A m \in DOMAIN outcome : outcome'[m] = outcome[m]
    BY <1>2, <2>1 DEF Chat!Settle, Chat!Outcome
  <2>3. \A a \in committed' : a \in committed \/ a = action
    BY <1>5
  <2>4. ChatRows(b)'
    <3>1. committed' \subseteq ActionSet(b)
      BY <1>0, <1>2, <2>3
    <3>2. ASSUME NEW a \in committed', NEW m \in a.sources PROVE row[m] # "absent" /\ (claim[m] = a \/ row[m] # "pending")
      <4>1. CASE a \in committed
        BY <3>2, <4>1 DEF ChatRows
      <4>2. CASE a = action /\ unmarked = {}
        BY <1>1, <1>2, <3>2, <4>2 DEF ChatBatch
      <4> QED BY <1>5, <4>1, <4>2
    <3>3. Chat(b)!AppliedIsCommitted'
      BY <1>5, <2>1 DEF ChatRows, Chat!AppliedIsCommitted, Chat!Messages
    <3>4. ASSUME NEW x \in committed', NEW y \in committed', x # y PROVE x.sources \cap y.sources = {}
      <4>1. CASE x \in committed /\ y \in committed
        BY <3>4, <4>1 DEF ChatRows, Chat!ActedOnAtMostOnce
      <4>2. CASE x = action \/ y = action
        BY <1>3, <2>3, <3>4, <4>2
      <4> QED BY <2>3, <4>1, <4>2
    <3> QED BY <2>1, <3>1, <3>2, <3>3, <3>4 DEF ChatRows, Chat!ActedOnAtMostOnce
  <2>5. ASSUME NEW m \in DOMAIN outcome' PROVE IsOutcome(m)'
    <3>1. CASE m \in DOMAIN outcome
      <4>1. IsOutcome(m) /\ m \notin action.sources
        BY <1>2, <3>1 DEF ChatBatch
      <4>2. outcome'[m] = outcome[m]
        BY <2>2, <3>1
      <4>3. committed \subseteq committed'
        BY <1>5
      <4> QED BY <2>3, <4>1, <4>2, <4>3 DEF IsOutcome
    <3>2. CASE m \in action.sources
      <4>1. \A a \in committed' : m \in a.sources => a = action /\ status # "uncertain"
        BY <1>3, <1>5, <2>3, <3>2
      <4> QED BY <1>2, <1>5, <2>2, <3>2, <4>1 DEF IsOutcome
    <3> QED BY <2>2, <2>5, <3>1, <3>2
  <2>6. ASSUME NEW a \in committed', NEW m \in a.sources, m \in work PROVE m \in DOMAIN outcome'
    BY <1>1, <2>2, <2>3, <2>6 DEF ChatBatch
  <2>7. ChatBatch(b)'
    BY <1>1, <1>2, <2>1, <2>2, <2>5, <2>6 DEF ChatBatch
  <2>8. ChatHistory(b)'
    BY <2>1, HistoryKept DEF ChatRows
  <2> QED BY <2>4, <2>7, <2>8
<1>6. CASE Chat(b)!ClaimFails
  BY <1>5, <1>6 DEF Chat!ClaimFails
<1>7. CASE Chat(b)!Apply
  BY <1>5, <1>7 DEF Chat!Apply
<1> QED BY <1>4, <1>6, <1>7

(* The end of a batch.                                                      *)
LEMMA ChatFinalizes ==
    ASSUME NEW b \in ChatSizes, ChatInv(b),
           \/ Chat(b)!Finalize \/ \E m \in Chat(b)!Messages : Chat(b)!FinalizeRow(m)
           \/ Chat(b)!SaveBatch \/ Chat(b)!StoreFails \/ Chat(b)!Crash
    PROVE  ChatInv(b)'
<1> USE ChatAssumption DEF ChatInv
<1>0. \A a \in committed : a.sources \subseteq Messages(b)
  BY ActionFields DEF ChatRows
<1>1. CASE Chat(b)!SaveBatch \/ Chat(b)!StoreFails \/ Chat(b)!Crash
  <2>1. UNCHANGED <<row, claim, committed, started, checkpoint, first, old, chatKind, portable>> /\ Chat(b)!GoIdle
    BY <1>1 DEF Chat!SaveBatch, Chat!StoreFails, Chat!Crash, Chat!durable, Chat!world
  <2>2. ChatRows(b)'
    BY <2>1, RowsKept
  <2>3. ChatBatch(b)'
    BY <2>1, BatchOver, ChatIdle
  <2>4. ChatHistory(b)'
    BY <2>1, ChatIdle, HistoryKept DEF ChatRows
  <2> QED BY <2>2, <2>3, <2>4
<1>2. ASSUME NEW W \in SUBSET DOMAIN outcome, DOMAIN row' = Messages(b), DOMAIN claim' = Messages(b),
             \A m \in W : row'[m] = outcome[m].status /\ claim'[m] = outcome[m].claim,
             \A m \in Messages(b) \ W : row'[m] = row[m] /\ claim'[m] = claim[m],
             committed' = committed
      PROVE  ChatRows(b)' /\ \A m \in Messages(b) : row[m] # "absent" => row'[m] # "absent"
  <2>1. W \subseteq Messages(b) /\ \A m \in W : IsOutcome(m)
    BY DEF ChatBatch
  <2>2. \A a \in committed : \A m \in a.sources : row'[m] # "absent" /\ (claim'[m] = a \/ row'[m] # "pending")
    BY <1>0, <1>2, <2>1 DEF ChatRows, IsOutcome
  <2>3. \A m \in Messages(b) : claim'[m] # None => m \in claim'[m].sources
    BY <1>2, <2>1 DEF ChatRows, IsOutcome
  <2>4. Chat(b)!AppliedIsCommitted'
    BY <1>2, <2>1 DEF ChatRows, IsOutcome, Chat!AppliedIsCommitted, Chat!Messages, Messages
  <2>5. ChatRows(b)'
    BY <1>2, <2>2, <2>3, <2>4 DEF ChatRows, Chat!ActedOnAtMostOnce
  <2> QED BY <1>2, <2>1, <2>5 DEF IsOutcome
<1>3. CASE Chat(b)!Finalize
  <2>1. /\ UNCHANGED <<committed, started, checkpoint, first, old, chatKind, portable>> /\ Chat(b)!GoIdle
        /\ row' = [m \in Messages(b) |-> IF m \in work THEN outcome[m].status ELSE row[m]]
        /\ claim' = [m \in Messages(b) |-> IF m \in work THEN outcome[m].claim ELSE claim[m]]
        /\ chatPc = "finalize" /\ ~portable
    BY <1>3 DEF Chat!Finalize, Chat!world, Chat!Messages, Messages
  <2>2. work \in SUBSET DOMAIN outcome /\ work \subseteq Messages(b)
    BY <2>1 DEF ChatBatch
  <2>3. ChatRows(b)' /\ \A m \in Messages(b) : row[m] # "absent" => row'[m] # "absent"
    BY <1>2, <2>1, <2>2
  <2>4. ChatBatch(b)'
    BY <2>1, BatchOver, ChatIdle
  <2>5. ChatHistory(b)'
    BY <2>1, <2>3, ChatIdle, HistoryKept DEF ChatRows
  <2> QED BY <2>3, <2>4, <2>5
<1>4. ASSUME NEW m \in Chat(b)!Messages, Chat(b)!FinalizeRow(m) PROVE ChatInv(b)'
  <2>1. /\ UNCHANGED <<committed, started, checkpoint, first, old, chatKind, portable, chatPc, work, upto, current, seen, action, unmarked>>
        /\ row' = [row EXCEPT ![m] = outcome[m].status] /\ claim' = [claim EXCEPT ![m] = outcome[m].claim]
        /\ chatPc = "finalize" /\ portable /\ m \in DOMAIN outcome
        /\ outcome' = [o \in DOMAIN outcome \ {m} |-> outcome[o]]
    BY <1>4 DEF Chat!FinalizeRow, Chat!Mark, Chat!world
  <2>2. DOMAIN outcome \subseteq Messages(b)
    BY DEF ChatBatch
  <2>3. /\ DOMAIN row' = Messages(b) /\ DOMAIN claim' = Messages(b)
        /\ row'[m] = outcome[m].status /\ claim'[m] = outcome[m].claim
        /\ \A x \in Messages(b) \ {m} : row'[x] = row[x] /\ claim'[x] = claim[x]
    BY <2>1, <2>2 DEF ChatRows
  <2>4. ChatRows(b)' /\ \A x \in Messages(b) : row[x] # "absent" => row'[x] # "absent"
    <3> DEFINE W == {m}
    <3>1. W \in SUBSET DOMAIN outcome /\ committed' = committed
      BY <2>1
    <3>2. /\ \A x \in W : row'[x] = outcome[x].status /\ claim'[x] = outcome[x].claim
          /\ \A x \in Messages(b) \ W : row'[x] = row[x] /\ claim'[x] = claim[x]
      BY <2>3
    <3> HIDE DEF W
    <3> QED BY <1>2, <2>3, <3>1, <3>2
  <2>5. \A x \in DOMAIN outcome' : IsOutcome(x)'
    BY <2>1 DEF ChatBatch, IsOutcome
  <2>6. ChatBatch(b)'
    BY <2>1, <2>4, <2>5 DEF ChatBatch
  <2>7. ChatHistory(b)'
    BY <2>1, <2>4, HistoryKept DEF ChatRows
  <2> QED BY <2>4, <2>6, <2>7
<1> QED BY <1>1, <1>3, <1>4

(* No message is the source of two published actions, an applied row names  *)
(* a durable action about it and the checkpoint passes nothing unread, for  *)
(* every chat, page and batch size, both stores and any number of crashes   *)
(* and failed calls.                                                        *)
THEOREM NoDoubleAction == BotSpec => []ChatIsActedOnOnce
<1> DEFINE Inv == \A b \in ChatSizes : Chatted(b) => ChatInv(b)
<1>1. BotInit => Inv
  <2> SUFFICES ASSUME BotInit, NEW b \in ChatSizes, Chatted(b) PROVE ChatInv(b)
    OBVIOUS
  <2>1. Chat(b)!Init /\ b.messages \in Nat
    BY ChatAssumption DEF BotInit
  <2>2. ChatRows(b)
    BY <2>1 DEF Chat!Init, ChatRows, Messages, Chat!Messages, Chat!AppliedIsCommitted, Chat!ActedOnAtMostOnce
  <2>3. ChatBatch(b)
    BY <2>1 DEF Chat!Init, Chat!Rest, Chat!NoFunction, ChatBatch
  <2>4. Chat(b)!posted = 0
    <3>1. 0 \in 0 .. b.messages
      BY <2>1
    <3>2. \A m \in Messages(b) : chatKind[m] # "none" <=> m <= 0
      BY <2>1 DEF Chat!Init, Chat!Messages, Messages
    <3> QED BY <2>1, <3>1, <3>2, PostedIs
  <2>5. ChatHistory(b)
    BY <2>1, <2>4 DEF Chat!Init, Chat!Rest, Chat!Messages, Messages, ChatHistory, Chat!NoMessageSkipped
  <2> QED BY <2>2, <2>3, <2>5 DEF ChatInv
<1>2. Inv /\ [BotNext]_BotVars => Inv'
  <2> SUFFICES ASSUME Inv, [BotNext]_BotVars, NEW b \in ChatSizes, Chatted(b)' PROVE ChatInv(b)'
    OBVIOUS
  <2>1. Chatted(b) /\ ChatInv(b)
    BY DEF BotNext, BotVars
  <2>2. CASE UNCHANGED analyzerVars
    <3>1. Chat(b)!posted' = Chat(b)!posted
      BY <2>2 DEF analyzerVars, Chat!posted, Chat!Messages
    <3>2. ChatRows(b)'
      BY <2>1, <2>2, RowsKept DEF analyzerVars, ChatInv
    <3>3. ChatBatch(b)'
      BY <2>1, <2>2 DEF analyzerVars, ChatInv, ChatBatch, IsOutcome
    <3>4. ChatHistory(b)'
      BY <2>1, <2>2, <3>1 DEF analyzerVars, ChatInv, ChatHistory, Chat!NoMessageSkipped
    <3> QED BY <3>2, <3>3, <3>4 DEF ChatInv
  <2>3. CASE Chat(b)!Next
    BY <2>1, <2>3, ChatCollects, ChatPasses, ChatDecides, ChatApplies, ChatFinalizes DEF Chat!Next
  <2> QED BY <2>1, <2>2, <2>3 DEF BotNext, BotVars
<1>3. Inv => ChatIsActedOnOnce
  BY DEF ChatInv, ChatRows, ChatHistory, ChatIsActedOnOnce
<1> QED BY <1>1, <1>2, <1>3, PTL DEF BotSpec

-----------------------------------------------------------------------------
(*                   Reports and incidents (IncidentReports)                *)

ClaimKey(s) == IF KindOf[s] = "vehicle" THEN PublicID[s] ELSE s
ClaimKeys == Scopes \cup Incident!Incidents

(* A request's id is new or made of its kind and key; new ids are counted.  *)
Counted(id, n) == id[1] = "new" => id[3] \in Nat /\ id[3] <= n

IsReport(r, t, n) ==
    /\ r.user \in Users /\ r.scope \in Scopes /\ r.at \in Nat /\ r.at <= t
    /\ Counted(r.id, n)
IsVoteEvent(e, t) == e.at \in Nat /\ e.at <= t

Submitting == {"submit", "entered", "limit", "insert"}

(* A request under way has not outlived MaxAge.                             *)
IsRequest(r, t, n) ==
    /\ DOMAIN r = {"pc", "user", "scope", "incident", "hidden", "value", "key", "id", "at"}
    /\ r.pc \in {"idle", "vote", "comment"} \cup Submitting
    /\ r.pc # "idle" => /\ r.user \in Users /\ r.at \in Nat /\ r.at <= t /\ t <= r.at + MaxAge
                        /\ Counted(r.id, n)
    /\ r.pc \in Submitting => r.scope \in Scopes /\ r.incident = PublicID[r.scope]
    /\ r.pc = "vote" => r.incident \in Incident!Incidents /\ r.id[1] = "new"

IncidentTypes ==
    /\ incidentNow \in Nat /\ ops \in Nat
    /\ \A r \in reports : IsReport(r, incidentNow, ops)
    /\ \A e \in incidentEvents : IsVoteEvent(e, incidentNow)
    /\ DOMAIN claims = Users /\ \A u \in Users : DOMAIN claims[u] = ClaimKeys
    /\ \A u \in Users, k \in ClaimKeys : claims[u][k] # None => claims[u][k] \in Nat
    /\ DOMAIN request = Handlers /\ \A h \in Handlers : IsRequest(request[h], incidentNow, ops)

(* Every visible report has a claim as recent as it, or is too old for the  *)
(* window of any report still to come.                                      *)
IsClaimed(r) ==
    ~r.hidden => \/ /\ claims[r.user][ClaimKey(r.scope)] # None
                    /\ r.at <= claims[r.user][ClaimKey(r.scope)]
                 \/ r.at + Dedupe + MaxAge <= incidentNow

(* Every visible report has its vote event, or is too old to be shown.      *)
HasEvent(r) ==
    ~r.hidden => \/ \E e \in incidentEvents : e.id = r.id /\ e.incident = PublicID[r.scope] /\ e.at = r.at
                 \/ r.at + Visibility < incidentNow

(* The mutexes of vehicles and areas, and what was checked under them.      *)
HoldsLock(h) ==
    request[h].pc \in {"entered", "limit", "insert"} =>
        /\ KindOf[request[h].scope] = "vehicle" => vehicleMu = h
        /\ KindOf[request[h].scope] = "area" => areaMu = h
IsAvailable(h) ==
    request[h].pc \in {"limit", "insert"} =>
        \A r \in reports : PublicID[r.scope] = PublicID[request[h].scope] => r.scope = request[h].scope

(* The new id of a vote belongs to no report, stored or under way.          *)
VoteIDIsNew(h) ==
    request[h].pc = "vote" =>
        /\ \A r \in reports : r.id # request[h].id
        /\ \A g \in Handlers : g # h /\ request[g].pc # "idle" => request[g].id # request[h].id

IncidentInv ==
    /\ IncidentTypes
    /\ \A r \in reports : IsClaimed(r) /\ HasEvent(r)
    /\ \A h \in Handlers : HoldsLock(h) /\ IsAvailable(h) /\ VoteIDIsNew(h)
    /\ Incident!OneReportPerWindow
    /\ Incident!PublicIDIsUnambiguous

(* A handler lets go of its request and perhaps of its locks.               *)
LEMMA IncidentEnds ==
    ASSUME IncidentInv, NEW h \in Handlers, request' = [request EXCEPT ![h] = Incident!Idle],
           vehicleMu' = vehicleMu \/ vehicleMu = h, areaMu' = areaMu \/ areaMu = h,
           UNCHANGED <<incidentNow, reports, claims, incidentEvents, ops>>
    PROVE  IncidentInv'
<1> USE DEF IncidentInv
<1>1. /\ DOMAIN request' = Handlers /\ request'[h].pc = "idle" /\ IsRequest(request'[h], incidentNow, ops)
      /\ \A g \in Handlers : g # h => request'[g] = request[g]
  BY DEF Incident!Idle, IncidentTypes, IsRequest, Submitting
<1>2. IncidentTypes'
  BY <1>1 DEF IncidentTypes, ClaimKeys, Incident!Incidents
<1>3. \A r \in reports' : IsClaimed(r)' /\ HasEvent(r)'
  BY DEF IsClaimed, HasEvent
<1>4. ASSUME NEW g \in Handlers PROVE HoldsLock(g)' /\ IsAvailable(g)' /\ VoteIDIsNew(g)'
  BY <1>1 DEF HoldsLock, IsAvailable, VoteIDIsNew
<1>5. Incident!OneReportPerWindow' /\ Incident!PublicIDIsUnambiguous'
  BY DEF Incident!OneReportPerWindow, Incident!PublicIDIsUnambiguous
<1> QED BY <1>2, <1>3, <1>4, <1>5

LEMMA IncidentRelease ==
    ASSUME IncidentInv, NEW h \in Handlers, Incident!Release(h),
           UNCHANGED <<incidentNow, reports, claims, incidentEvents, ops>>
    PROVE  IncidentInv'
BY IncidentEnds DEF Incident!Release

(* A handler takes a step that stores nothing.                              *)
LEMMA IncidentProceeds ==
    ASSUME IncidentInv, NEW h \in Handlers, NEW q, request' = [request EXCEPT ![h] = q],
           UNCHANGED <<incidentNow, reports, claims, incidentEvents>>, ops' \in Nat, ops <= ops',
           IsRequest(q, incidentNow, ops'), q.pc # "idle",
           vehicleMu' = vehicleMu \/ vehicleMu = None, areaMu' = areaMu \/ areaMu = None,
           q.pc \in {"entered", "limit", "insert"} =>
              /\ KindOf[q.scope] = "vehicle" => vehicleMu' = h
              /\ KindOf[q.scope] = "area" => areaMu' = h,
           q.pc \in {"limit", "insert"} => \A r \in reports : PublicID[r.scope] = PublicID[q.scope] => r.scope = q.scope,
           \/ q.id = request[h].id /\ request[h].pc # "idle" /\ q.pc # "vote"
           \/ q.id[1] = "new" => q.id[3] = ops + 1
    PROVE  IncidentInv'
<1> USE IncidentAssumption DEF IncidentInv
<1>1. DOMAIN request' = Handlers /\ \A g \in Handlers : request'[g] = IF g = h THEN q ELSE request[g]
  BY DEF IncidentTypes
<1>2. \A id : Counted(id, ops) => Counted(id, ops')
  BY DEF Counted, IncidentTypes
<1>3. IncidentTypes'
  <2>1. \A r \in reports : IsReport(r, incidentNow, ops')
    BY <1>2 DEF IncidentTypes, IsReport
  <2>2. \A g \in Handlers : IsRequest(request'[g], incidentNow, ops')
    BY <1>1, <1>2 DEF IncidentTypes, IsRequest
  <2> QED BY <1>1, <2>1, <2>2 DEF IncidentTypes, ClaimKeys, Incident!Incidents
<1>4. \A r \in reports' : IsClaimed(r)' /\ HasEvent(r)'
  BY DEF IsClaimed, HasEvent
<1>5. ASSUME NEW g \in Handlers PROVE HoldsLock(g)' /\ IsAvailable(g)'
  BY <1>1 DEF HoldsLock, IsAvailable
<1>6. ASSUME NEW g \in Handlers PROVE VoteIDIsNew(g)'
  <2>1. CASE g = h
    <3>1. SUFFICES ASSUME q.pc = "vote" PROVE VoteIDIsNew(h)'
      BY <1>1, <2>1 DEF VoteIDIsNew
    <3>2. q.id[1] = "new" /\ q.id[3] = ops + 1
      BY <3>1 DEF IsRequest
    <3>3. \A r \in reports : r.id # q.id
      BY <3>2 DEF IncidentTypes, IsReport, Counted
    <3>4. \A f \in Handlers : f # h /\ request[f].pc # "idle" => request[f].id # q.id
      BY <3>2 DEF IncidentTypes, IsRequest, Counted
    <3> QED BY <1>1, <3>3, <3>4 DEF VoteIDIsNew
  <2>2. CASE g # h
    <3>1. SUFFICES ASSUME request[g].pc = "vote" PROVE q.id # request[g].id
      BY <1>1, <2>2 DEF VoteIDIsNew
    <3>2. request[g].id[1] = "new" /\ request[g].id[3] \in Nat /\ request[g].id[3] <= ops
      BY <3>1 DEF IncidentTypes, IsRequest, Counted
    <3> QED BY <2>2, <3>1, <3>2 DEF IncidentTypes, VoteIDIsNew
  <2> QED BY <2>1, <2>2
<1>7. Incident!OneReportPerWindow' /\ Incident!PublicIDIsUnambiguous'
  BY DEF Incident!OneReportPerWindow, Incident!PublicIDIsUnambiguous
<1> QED BY <1>3, <1>4, <1>5, <1>6, <1>7

(* A submission whose checks passed goes on.                                *)
LEMMA SubmissionProceeds ==
    ASSUME IncidentInv, NEW h \in Handlers, NEW pc \in {"limit", "insert"}, Incident!Proceed(h, pc),
           request[h].pc \in Submitting, UNCHANGED <<incidentNow, reports, claims, incidentEvents, vehicleMu, areaMu, ops>>,
           request[h].pc = "submit" => KindOf[request[h].scope] = "stop",
           \A r \in reports : PublicID[r.scope] = PublicID[request[h].scope] => r.scope = request[h].scope
    PROVE  IncidentInv'
<1> DEFINE q == [request[h] EXCEPT !.pc = pc]
<1>1. IsRequest(request[h], incidentNow, ops) /\ request[h].scope \in Scopes
  BY DEF IncidentInv, IncidentTypes, IsRequest
<1>2. /\ DOMAIN q = {"pc", "user", "scope", "incident", "hidden", "value", "key", "id", "at"}
      /\ q.pc = pc /\ q.user = request[h].user /\ q.scope = request[h].scope /\ q.incident = request[h].incident
      /\ q.id = request[h].id /\ q.at = request[h].at
  BY <1>1 DEF IsRequest
<1>3. request' = [request EXCEPT ![h] = q]
  BY DEF Incident!Proceed
<1> HIDE DEF q
<1>4. IsRequest(q, incidentNow, ops)
  BY <1>1, <1>2 DEF IsRequest, Submitting
<1>5. /\ KindOf[q.scope] = "vehicle" => vehicleMu' = h
      /\ KindOf[q.scope] = "area" => areaMu' = h
  BY <1>2 DEF IncidentInv, HoldsLock, Submitting
<1>6. request[h].pc # "idle" /\ q.pc # "vote" /\ q.pc # "idle"
  BY <1>2 DEF Submitting
<1>7. ops \in Nat /\ ops <= ops
  BY DEF IncidentInv, IncidentTypes
<1> QED BY <1>2, <1>3, <1>4, <1>5, <1>6, <1>7, IncidentProceeds

LEMMA IncidentRequests ==
    ASSUME IncidentInv, NEW h \in Handlers,
           \/ Incident!submissionReportID(h) \/ Incident!SubmitStopSighting(h) \/ Incident!SubmitVehicleSighting(h)
           \/ Incident!SubmitAreaReport(h) \/ Incident!CheckPublicID(h) \/ Incident!LimitReport(h)
           \/ Incident!InsertFails(h) \/ Incident!VoteIncident(h) \/ Incident!AddIncidentComment(h)
           \/ Incident!InsertIncidentComment(h)
    PROVE  IncidentInv'
<1> USE IncidentAssumption, ChatAssumption
<1>0. incidentNow \in Nat /\ ops \in Nat /\ IsRequest(request[h], incidentNow, ops)
  BY DEF IncidentInv, IncidentTypes
<1>1. CASE Incident!submissionReportID(h)
  <2>1. PICK u \in Users, s \in Scopes, hide \in BOOLEAN, k \in Keys \cup {None} :
          request' = [request EXCEPT ![h] = [Incident!Idle EXCEPT
            !.pc = "submit", !.user = u, !.scope = s, !.incident = PublicID[s], !.hidden = hide, !.key = k,
            !.id = IF k = None THEN <<"new", None, ops'>> ELSE <<KindOf[s], u, k>>, !.at = incidentNow]]
    BY <1>1 DEF Incident!submissionReportID
  <2> DEFINE id == IF k = None THEN <<"new", None, ops'>> ELSE <<KindOf[s], u, k>>
             q == [Incident!Idle EXCEPT
            !.pc = "submit", !.user = u, !.scope = s, !.incident = PublicID[s], !.hidden = hide, !.key = k,
            !.id = id, !.at = incidentNow]
  <2>2. UNCHANGED <<incidentNow, reports, claims, incidentEvents, vehicleMu, areaMu>> /\ ops' = ops + 1
    BY <1>1 DEF Incident!submissionReportID, Incident!storeVars
  <2>3. /\ DOMAIN q = {"pc", "user", "scope", "incident", "hidden", "value", "key", "id", "at"}
        /\ q.pc = "submit" /\ q.user = u /\ q.scope = s /\ q.incident = PublicID[s] /\ q.id = id /\ q.at = incidentNow
    BY DEF Incident!Idle
  <2>4. id[1] = "new" => id[3] = ops + 1
    BY <2>2
  <2>5. request' = [request EXCEPT ![h] = q]
    BY <2>1
  <2> HIDE DEF q, id
  <2>6. IsRequest(q, incidentNow, ops')
    BY <1>0, <2>2, <2>3, <2>4 DEF IsRequest, Submitting, Counted
  <2>7. q.pc \notin {"entered", "limit", "insert", "idle"} /\ ops' \in Nat /\ ops <= ops'
    BY <1>0, <2>2, <2>3
  <2> QED BY <2>2, <2>3, <2>4, <2>5, <2>6, <2>7, IncidentProceeds
<1>2. CASE Incident!SubmitStopSighting(h)
  <2>1. /\ UNCHANGED <<incidentNow, reports, claims, incidentEvents, ops>>
        /\ request[h].pc = "submit" /\ KindOf[request[h].scope] = "stop" /\ Incident!EnterSubmission(h, TRUE)
    BY <1>2 DEF Incident!SubmitStopSighting, Incident!storeVars
  <2>2. CASE Incident!Release(h)
    BY <2>1, <2>2, IncidentRelease
  <2>3. CASE \E pc \in {"limit", "insert"} : Incident!Proceed(h, pc) /\ UNCHANGED <<vehicleMu, areaMu>>
    <3>1. request[h].scope \in Scopes /\ request[h].pc \in Submitting
      BY <1>0, <2>1 DEF IsRequest, Submitting
    <3>2. \A r \in reports : PublicID[r.scope] = PublicID[request[h].scope] => r.scope = request[h].scope
      BY <2>1, <3>1 DEF IncidentInv, IncidentTypes, IsReport
    <3> QED BY <2>1, <2>3, <3>1, <3>2, SubmissionProceeds
  <2> QED BY <2>1, <2>2, <2>3, Zenon DEF Incident!EnterSubmission
<1>3. CASE Incident!SubmitVehicleSighting(h) \/ Incident!SubmitAreaReport(h)
  <2> DEFINE q == [request[h] EXCEPT !.pc = "entered"]
  <2>1. /\ UNCHANGED <<incidentNow, reports, claims, incidentEvents, ops>> /\ request[h].pc = "submit"
        /\ request' = [request EXCEPT ![h] = q]
        /\ \/ KindOf[request[h].scope] = "vehicle" /\ vehicleMu = None /\ vehicleMu' = h /\ areaMu' = areaMu
           \/ KindOf[request[h].scope] = "area" /\ areaMu = None /\ areaMu' = h /\ vehicleMu' = vehicleMu
    BY <1>3 DEF Incident!SubmitVehicleSighting, Incident!SubmitAreaReport, Incident!LockVehicle, Incident!Proceed, Incident!storeVars
  <2>2. /\ DOMAIN q = {"pc", "user", "scope", "incident", "hidden", "value", "key", "id", "at"}
        /\ q.pc = "entered" /\ q.user = request[h].user /\ q.scope = request[h].scope /\ q.incident = request[h].incident
        /\ q.id = request[h].id /\ q.at = request[h].at
    BY <1>0 DEF IsRequest
  <2> HIDE DEF q
  <2>3. IsRequest(q, incidentNow, ops)
    BY <1>0, <2>1, <2>2 DEF IsRequest, Submitting
  <2>4. q.pc \notin {"idle", "vote", "limit", "insert"} /\ ops <= ops
    BY <1>0, <2>2
  <2>5. /\ KindOf[q.scope] = "vehicle" => vehicleMu' = h
        /\ KindOf[q.scope] = "area" => areaMu' = h
    BY <2>1, <2>2
  <2> QED BY <1>0, <2>1, <2>2, <2>3, <2>4, <2>5, IncidentProceeds
<1>4. CASE Incident!CheckPublicID(h)
  <2>1. /\ UNCHANGED <<incidentNow, reports, claims, incidentEvents, ops>> /\ request[h].pc = "entered"
        /\ Incident!EnterSubmission(h, /\ Incident!ensureVehiclePublicIDAvailable(request[h])
                                       /\ Incident!ensureAreaPublicIDAvailable(request[h]))
    BY <1>4 DEF Incident!CheckPublicID, Incident!storeVars
  <2>2. CASE Incident!Release(h)
    BY <2>1, <2>2, IncidentRelease
  <2>3. CASE /\ Incident!ensureVehiclePublicIDAvailable(request[h]) /\ Incident!ensureAreaPublicIDAvailable(request[h])
             /\ \E pc \in {"limit", "insert"} : Incident!Proceed(h, pc) /\ UNCHANGED <<vehicleMu, areaMu>>
    <3>1. request[h].scope \in Scopes /\ request[h].pc \in Submitting
      BY <1>0, <2>1 DEF IsRequest, Submitting
    <3>2. \A r \in reports : PublicID[r.scope] = PublicID[request[h].scope] => r.scope = request[h].scope
      BY <2>3, <3>1 DEF IncidentInv, IncidentTypes, IsReport, Incident!ensureVehiclePublicIDAvailable,
                        Incident!ensureAreaPublicIDAvailable
    <3> QED BY <2>1, <2>3, <3>1, <3>2, SubmissionProceeds
  <2> QED BY <2>1, <2>2, <2>3, Zenon DEF Incident!EnterSubmission
<1>5. CASE Incident!LimitReport(h)
  <2>1. UNCHANGED <<incidentNow, reports, claims, incidentEvents, ops>> /\ request[h].pc = "limit"
    BY <1>5 DEF Incident!LimitReport, Incident!storeVars
  <2>2. CASE Incident!Release(h)
    BY <2>1, <2>2, IncidentRelease
  <2>3. CASE Incident!Proceed(h, "insert") /\ UNCHANGED <<vehicleMu, areaMu>>
    <3>1. request[h].pc \in Submitting /\ \A r \in reports : PublicID[r.scope] = PublicID[request[h].scope] => r.scope = request[h].scope
      BY <2>1 DEF IncidentInv, IsAvailable, Submitting
    <3> QED BY <2>1, <2>3, <3>1, SubmissionProceeds
  <2> QED BY <1>5, <2>2, <2>3 DEF Incident!LimitReport
<1>6. CASE Incident!InsertFails(h)
  BY <1>6, IncidentRelease DEF Incident!InsertFails, Incident!storeVars
<1>7. CASE Incident!VoteIncident(h)
  <2>1. PICK u \in Users, ref \in Incident!Incidents \cup Incident!Aliases, i \in Incident!Incidents, v \in {"ongoing", "cleared"} :
          /\ Incident!IncidentDetail(ref, i)
          /\ Incident!enforceSameVoteWindow(u, i, v) /\ Incident!enforceVoteActionLimit(u)
          /\ request' = [request EXCEPT ![h] = [Incident!Idle EXCEPT
            !.pc = "vote", !.user = u, !.incident = i, !.value = v, !.id = <<"new", None, ops'>>, !.at = incidentNow]]
    BY <1>7 DEF Incident!VoteIncident
  <2> DEFINE q == [Incident!Idle EXCEPT
            !.pc = "vote", !.user = u, !.incident = i, !.value = v, !.id = <<"new", None, ops'>>, !.at = incidentNow]
  <2>2. UNCHANGED <<incidentNow, reports, claims, incidentEvents, vehicleMu, areaMu>> /\ ops' = ops + 1
    BY <1>7 DEF Incident!VoteIncident, Incident!storeVars
  <2>3. /\ DOMAIN q = {"pc", "user", "scope", "incident", "hidden", "value", "key", "id", "at"}
        /\ q.pc = "vote" /\ q.user = u /\ q.incident = i /\ q.id[1] = "new" /\ q.id[3] = ops' /\ q.at = incidentNow
    BY DEF Incident!Idle
  <2>5. request' = [request EXCEPT ![h] = q]
    BY <2>1
  <2> HIDE DEF q
  <2>6. IsRequest(q, incidentNow, ops')
    BY <1>0, <2>2, <2>3 DEF IsRequest, Submitting, Counted
  <2>7. q.pc \notin {"entered", "limit", "insert", "idle"} /\ ops' \in Nat /\ ops <= ops'
    BY <1>0, <2>2, <2>3
  <2> QED BY <2>2, <2>3, <2>5, <2>6, <2>7, IncidentProceeds
<1>8. CASE Incident!AddIncidentComment(h)
  <2>1. PICK u \in Users, i \in Incident!Incidents :
          request' = [request EXCEPT ![h] = [Incident!Idle EXCEPT
            !.pc = "comment", !.user = u, !.incident = i, !.id = <<"new", None, ops'>>, !.at = incidentNow]]
    BY <1>8 DEF Incident!AddIncidentComment
  <2> DEFINE q == [Incident!Idle EXCEPT
            !.pc = "comment", !.user = u, !.incident = i, !.id = <<"new", None, ops'>>, !.at = incidentNow]
  <2>2. UNCHANGED <<incidentNow, reports, claims, incidentEvents, vehicleMu, areaMu>> /\ ops' = ops + 1
    BY <1>8 DEF Incident!AddIncidentComment, Incident!storeVars
  <2>3. /\ DOMAIN q = {"pc", "user", "scope", "incident", "hidden", "value", "key", "id", "at"}
        /\ q.pc = "comment" /\ q.user = u /\ q.id[1] = "new" /\ q.id[3] = ops' /\ q.at = incidentNow
    BY DEF Incident!Idle
  <2>5. request' = [request EXCEPT ![h] = q]
    BY <2>1
  <2> HIDE DEF q
  <2>6. IsRequest(q, incidentNow, ops')
    BY <1>0, <2>2, <2>3 DEF IsRequest, Submitting, Counted
  <2>7. q.pc \notin {"entered", "limit", "insert", "idle"} /\ ops' \in Nat /\ ops <= ops'
    BY <1>0, <2>2, <2>3
  <2> QED BY <2>2, <2>3, <2>5, <2>6, <2>7, IncidentProceeds
<1>9. CASE Incident!InsertIncidentComment(h)
  <2>1. /\ UNCHANGED <<incidentNow, reports, claims, incidentEvents, vehicleMu, areaMu, ops>>
        /\ request' = [request EXCEPT ![h] = Incident!Idle] /\ request[h].pc = "comment"
    BY <1>9 DEF Incident!InsertIncidentComment
  <2> QED BY <2>1, IncidentEnds
<1> QED BY <1>1, <1>2, <1>3, <1>4, <1>5, <1>6, <1>7, <1>8, <1>9

(* The row of a report is stored: the claim was free, the id is new or the  *)
(* row is hidden, and the handler held its kind's mutex since the check.    *)
LEMMA ReportIsStored == ASSUME IncidentInv, NEW h \in Handlers, Incident!InsertReport(h) PROVE IncidentInv'
<1> USE IncidentAssumption DEF IncidentInv
<1> DEFINE r == request[h]
           new == Incident!Row(r)
           key == ClaimKey(r.scope)
           event == [id |-> r.id, user |-> r.user, incident |-> r.incident, value |-> r.value,
                     source |-> "map_report", at |-> r.at]
<1>1. /\ r.pc = "insert" /\ r.user \in Users /\ r.scope \in Scopes /\ r.incident = PublicID[r.scope]
      /\ r.at \in Nat /\ r.at <= incidentNow /\ incidentNow <= r.at + MaxAge /\ Counted(r.id, ops)
      /\ incidentNow \in Nat /\ ops \in Nat /\ key \in ClaimKeys
  BY DEF Incident!InsertReport, IncidentTypes, IsRequest, Submitting, ClaimKey, ClaimKeys, Incident!Incidents
<1>2. UNCHANGED <<incidentNow, ops>> /\ Incident!Release(h)
  BY DEF Incident!InsertReport
<1>3. \/ /\ ~r.hidden /\ \A q \in reports : q.id # r.id
         /\ claims[r.user][key] = None \/ claims[r.user][key] + Dedupe <= r.at
         /\ claims' = [claims EXCEPT ![r.user][key] = r.at]
         /\ reports' = reports \cup {new}
         /\ incidentEvents' = {e \in incidentEvents : e.id # r.id} \cup {event}
      \/ /\ r.hidden /\ UNCHANGED <<claims, incidentEvents>>
         /\ reports' = reports \cup {new} \/ reports' = {q \in reports : q.id # r.id} \cup {new}
  <2>1. CASE /\ ~r.hidden
             /\ \/ Incident!InsertStopSightingWithVote(r) \/ Incident!InsertVehicleSightingWithVote(r)
                \/ Incident!InsertAreaReportWithVote(r)
    <3>1. Incident!InsertWithVote(r, key)
      BY <1>1, <2>1 DEF Incident!InsertStopSightingWithVote, Incident!InsertVehicleSightingWithVote,
                        Incident!InsertAreaReportWithVote, ClaimKey
    <3>2. Incident!claimReportDedupeTx(r, key) /\ ~Incident!findReportByID(r)
      BY <3>1, Zenon DEF Incident!InsertWithVote
    <3>3. claims[r.user][key] = None \/ claims[r.user][key] + Dedupe <= r.at
      BY <3>2 DEF Incident!claimReportDedupeTx
    <3>4. \A q \in reports : q.id # r.id
      BY <3>2 DEF Incident!findReportByID
    <3>5. /\ claims' = [claims EXCEPT ![r.user][key] = r.at] /\ reports' = reports \cup {new}
          /\ Incident!recordIncidentVoteTx(r, "map_report")
      BY <3>1, Zenon DEF Incident!InsertWithVote
    <3>6. incidentEvents' = {e \in incidentEvents : e.id # r.id} \cup {event}
      BY <3>5, Zenon DEF Incident!recordIncidentVoteTx
    <3> QED BY <2>1, <3>3, <3>4, <3>5, <3>6, Zenon
  <2>2. CASE /\ r.hidden /\ UNCHANGED <<claims, incidentEvents>>
             /\ Incident!InsertStopSighting(r) \/ Incident!InsertVehicleSighting(r) \/ Incident!InsertAreaReport(r)
    BY <2>2, Zenon DEF Incident!InsertStopSighting, Incident!InsertVehicleSighting, Incident!InsertAreaReport
  <2> QED BY <2>1, <2>2 DEF Incident!InsertReport
<1>4. new.id = r.id /\ new.user = r.user /\ new.scope = r.scope /\ new.hidden = r.hidden /\ new.at = r.at
  BY DEF Incident!Row
<1>5. event.id = r.id /\ event.incident = PublicID[r.scope] /\ event.at = r.at
  BY <1>1
<1>6. \A q \in reports' : q \in reports \/ q = new
  BY <1>3
<1>7. new \in reports'
  BY <1>3
<1>8. /\ DOMAIN request' = Handlers /\ request'[h].pc = "idle" /\ IsRequest(request'[h], incidentNow, ops)
      /\ \A g \in Handlers : g # h => request'[g] = request[g]
  BY <1>2 DEF Incident!Release, Incident!Idle, IncidentTypes, IsRequest, Submitting
<1>9. /\ DOMAIN claims' = Users /\ \A u \in Users : DOMAIN claims'[u] = ClaimKeys
      /\ \A u \in Users, k \in ClaimKeys :
            claims'[u][k] = IF ~r.hidden /\ u = r.user /\ k = key THEN r.at ELSE claims[u][k]
  <2>1. CASE r.hidden
    BY <1>3, <2>1 DEF IncidentTypes
  <2>2. CASE ~r.hidden
    <3> HIDE DEF key, new, event, r
    <3>1. claims' = [claims EXCEPT ![r.user][key] = r.at]
      BY <1>3, <2>2
    <3> QED BY <1>1, <2>2, <3>1 DEF IncidentTypes
  <2> QED BY <2>1, <2>2
<1>10. ~r.hidden => event \in incidentEvents' /\ \A e \in incidentEvents : e.id # r.id => e \in incidentEvents'
  BY <1>3
<1>11. \A e \in incidentEvents' : e \in incidentEvents \/ (~r.hidden /\ e = event)
  BY <1>3
<1>12. ~r.hidden => \A q \in reports : q.id # r.id
  BY <1>3
<1>13. r.hidden => UNCHANGED <<claims, incidentEvents>>
  BY <1>3
<1>14. ~r.hidden => claims[r.user][key] = None \/ claims[r.user][key] + Dedupe <= r.at
  BY <1>3
<1>15. PublicID[new.scope] = r.incident /\ ClaimKey(new.scope) = key
  BY <1>1, <1>4
<1> HIDE DEF r, new, event
<1>16. IncidentTypes'
  <2>1. \A q \in reports' : IsReport(q, incidentNow, ops)
    BY <1>1, <1>4, <1>6 DEF IncidentTypes, IsReport
  <2>2. \A e \in incidentEvents' : IsVoteEvent(e, incidentNow)
    BY <1>1, <1>5, <1>11 DEF IncidentTypes, IsVoteEvent
  <2>3. \A u \in Users, k \in ClaimKeys : claims'[u][k] # None => claims'[u][k] \in Nat
    BY <1>1, <1>9 DEF IncidentTypes
  <2>4. \A g \in Handlers : IsRequest(request'[g], incidentNow, ops)
    BY <1>8 DEF IncidentTypes
  <2> QED BY <1>1, <1>2, <1>8, <1>9, <2>1, <2>2, <2>3, <2>4 DEF IncidentTypes
<1>17. ASSUME NEW q \in reports, ~q.hidden
       PROVE  /\ q.user \in Users /\ ClaimKey(q.scope) \in ClaimKeys /\ q.at \in Nat
              /\ \/ claims[q.user][ClaimKey(q.scope)] \in Nat /\ q.at <= claims[q.user][ClaimKey(q.scope)]
                 \/ q.at + Dedupe + MaxAge <= incidentNow
  <2>1. q.user \in Users /\ q.scope \in Scopes /\ q.at \in Nat
    BY DEF IncidentTypes, IsReport
  <2>2. ClaimKey(q.scope) \in ClaimKeys
    BY <2>1 DEF ClaimKey, ClaimKeys, Incident!Incidents
  <2> HIDE DEF ClaimKey
  <2> QED BY <1>17, <2>1, <2>2 DEF IsClaimed, IncidentTypes
<1>18. ASSUME NEW q \in reports, ~q.hidden, ~r.hidden, q.user = r.user, ClaimKey(q.scope) = key
       PROVE  q.at + Dedupe <= r.at
  <2>0. q.at \in Nat /\ ~q.hidden
    BY <1>17, <1>18
  <2>1. \/ claims[q.user][ClaimKey(q.scope)] \in Nat /\ q.at <= claims[q.user][ClaimKey(q.scope)]
        \/ q.at + Dedupe + MaxAge <= incidentNow
    BY <1>17, <1>18
  <2>2. None \notin Nat
    BY ChatAssumption
  <2>3. claims[r.user][key] = None \/ claims[r.user][key] + Dedupe <= r.at
    BY <1>14, <1>18
  <2>4. CASE claims[r.user][key] \in Nat /\ q.at <= claims[r.user][key]
    BY <1>1, <2>0, <2>2, <2>3, <2>4
  <2>5. CASE q.at + Dedupe + MaxAge <= incidentNow
    BY <1>1, <2>0, <2>5
  <2> QED BY <1>18, <2>1, <2>4, <2>5, Zenon
<1>19. ASSUME NEW q \in reports' PROVE IsClaimed(q)'
  <2> SUFFICES ASSUME ~q.hidden
               PROVE \/ claims'[q.user][ClaimKey(q.scope)] # None /\ q.at <= claims'[q.user][ClaimKey(q.scope)]
                     \/ q.at + Dedupe + MaxAge <= incidentNow
    BY <1>2 DEF IsClaimed, ClaimKey
  <2> HIDE DEF ClaimKey, key
  <2>0. r.at # None
    BY <1>1, ChatAssumption
  <2>1. CASE q = new
    BY <1>1, <1>4, <1>9, <1>15, <2>0, <2>1
  <2>2. CASE q \in reports /\ ~r.hidden /\ q.user = r.user /\ ClaimKey(q.scope) = key
    <3>1. q.at <= r.at
      BY <1>1, <1>17, <1>18, <2>2
    <3> QED BY <1>1, <1>9, <2>0, <2>2, <3>1
  <2>3. CASE q \in reports /\ ~(~r.hidden /\ q.user = r.user /\ ClaimKey(q.scope) = key)
    <3>1. claims'[q.user][ClaimKey(q.scope)] = claims[q.user][ClaimKey(q.scope)]
      BY <1>9, <1>17, <2>3
    <3> QED BY <2>3, <3>1 DEF IsClaimed
  <2> QED BY <1>6, <2>1, <2>2, <2>3
<1>20. ASSUME NEW q \in reports' PROVE HasEvent(q)'
  <2> SUFFICES ASSUME ~q.hidden
               PROVE \/ \E e \in incidentEvents' : e.id = q.id /\ e.incident = PublicID[q.scope] /\ e.at = q.at
                     \/ q.at + Visibility < incidentNow
    BY <1>2 DEF HasEvent
  <2>1. CASE q = new
    BY <1>1, <1>4, <1>5, <1>10, <2>1
  <2>2. CASE q \in reports
    BY <1>10, <1>12, <1>13, <2>2 DEF HasEvent
  <2> QED BY <1>6, <2>1, <2>2
<1>21. \A q \in reports : PublicID[q.scope] = PublicID[r.scope] => q.scope = r.scope
  BY <1>1 DEF IsAvailable, r
<1>22. ASSUME NEW g \in Handlers PROVE HoldsLock(g)' /\ IsAvailable(g)' /\ VoteIDIsNew(g)'
  <2>1. CASE g = h
    BY <1>8, <2>1 DEF HoldsLock, IsAvailable, VoteIDIsNew
  <2>2. CASE g # h
    <3>1. HoldsLock(g)'
      BY <1>2, <1>8, <2>2 DEF HoldsLock, Incident!Release
    <3>2. ASSUME request[g].pc \in {"limit", "insert"}, PublicID[r.scope] = PublicID[request[g].scope]
          PROVE  r.scope = request[g].scope
      <4>1. request[g].scope \in Scopes
        BY <3>2 DEF IncidentTypes, IsRequest, Submitting
      <4>2. KindOf[request[g].scope] = "vehicle" => vehicleMu = g
        BY <3>2 DEF HoldsLock
      <4>3. KindOf[request[g].scope] = "area" => areaMu = g
        BY <3>2 DEF HoldsLock
      <4>4. KindOf[r.scope] = "vehicle" => vehicleMu = h
        BY <1>1 DEF HoldsLock, r
      <4>5. KindOf[r.scope] = "area" => areaMu = h
        BY <1>1 DEF HoldsLock, r
      <4> QED BY <1>1, <2>2, <3>2, <4>1, <4>2, <4>3, <4>4, <4>5
    <3>3. IsAvailable(g)'
      BY <1>4, <1>6, <1>8, <2>2, <3>2 DEF IsAvailable
    <3>4. VoteIDIsNew(g)'
      <4>1. SUFFICES ASSUME request[g].pc = "vote" PROVE VoteIDIsNew(g)'
        BY <1>8, <2>2 DEF VoteIDIsNew
      <4>2. r.id # request[g].id
        BY <1>1, <2>2, <4>1 DEF VoteIDIsNew, r
      <4> QED BY <1>4, <1>6, <1>8, <2>2, <4>1, <4>2 DEF VoteIDIsNew
    <3> QED BY <3>1, <3>3, <3>4
  <2> QED BY <2>1, <2>2
<1>23. Incident!OneReportPerWindow'
  <2>1. ASSUME NEW q \in reports, ~q.hidden, ~new.hidden, q.user = new.user, q.scope = new.scope
        PROVE  q.at + Dedupe <= new.at
    BY <1>4, <1>15, <1>18, <2>1
  <2>2. \A p, q \in reports : p # q /\ ~p.hidden /\ ~q.hidden /\ p.user = q.user /\ p.scope = q.scope =>
            p.at >= q.at + Dedupe \/ q.at >= p.at + Dedupe
    BY DEF Incident!OneReportPerWindow
  <2>3. \A q \in reports : q.at \in Nat
    BY DEF IncidentTypes, IsReport
  <2>4. new.at \in Nat
    BY <1>1, <1>4
  <2>5. ASSUME NEW p \in reports', NEW q \in reports', p # q, ~p.hidden, ~q.hidden, p.user = q.user, p.scope = q.scope
        PROVE p.at >= q.at + Dedupe \/ q.at >= p.at + Dedupe
    <3>1. CASE p \in reports /\ q \in reports
      BY <2>2, <2>5, <3>1
    <3>2. CASE p \in reports /\ q = new
      BY <2>1, <2>3, <2>4, <2>5, <3>2
    <3>3. CASE p = new /\ q \in reports
      BY <2>1, <2>3, <2>4, <2>5, <3>3
    <3> QED BY <1>6, <2>5, <3>1, <3>2, <3>3
  <2> QED BY <2>5 DEF Incident!OneReportPerWindow
<1>24. Incident!PublicIDIsUnambiguous'
  <2>1. \A p, q \in reports : PublicID[p.scope] = PublicID[q.scope] => p.scope = q.scope
    BY DEF Incident!PublicIDIsUnambiguous
  <2> QED BY <1>4, <1>6, <1>21, <2>1 DEF Incident!PublicIDIsUnambiguous
<1> QED BY <1>16, <1>19, <1>20, <1>22, <1>23, <1>24

(* A vote replaces no event of a report, as its id is new.                  *)
LEMMA VoteIsStored == ASSUME IncidentInv, NEW h \in Handlers, Incident!recordIncidentVote(h) PROVE IncidentInv'
<1> USE DEF IncidentInv
<1> DEFINE r == request[h]
           event == [id |-> r.id, user |-> r.user, incident |-> r.incident, value |-> r.value,
                     source |-> "vote", at |-> r.at]
<1>1. /\ r.pc = "vote" /\ request' = [request EXCEPT ![h] = Incident!Idle]
      /\ UNCHANGED <<incidentNow, reports, claims, vehicleMu, areaMu, ops>>
  BY DEF Incident!recordIncidentVote
<1>2. incidentEvents' = {e \in incidentEvents : e.id # r.id} \cup {event}
  BY Zenon DEF Incident!recordIncidentVote, Incident!recordIncidentVoteTx
<1>3. r.at \in Nat /\ r.at <= incidentNow /\ event.at = r.at
  BY <1>1 DEF IncidentTypes, IsRequest
<1>4. \A e \in incidentEvents' : e \in incidentEvents \/ e = event
  BY <1>2
<1>5. \A e \in incidentEvents : e.id # r.id => e \in incidentEvents'
  BY <1>2
<1>6. \A q \in reports : q.id # r.id
  BY <1>1 DEF VoteIDIsNew
<1>7. /\ DOMAIN request' = Handlers /\ request'[h].pc = "idle" /\ IsRequest(request'[h], incidentNow, ops)
      /\ \A g \in Handlers : g # h => request'[g] = request[g]
  BY <1>1 DEF Incident!Idle, IncidentTypes, IsRequest, Submitting
<1> HIDE DEF r, event
<1>8. IncidentTypes'
  <2>1. \A e \in incidentEvents' : IsVoteEvent(e, incidentNow)
    BY <1>3, <1>4 DEF IncidentTypes, IsVoteEvent
  <2> QED BY <1>1, <1>7, <2>1 DEF IncidentTypes, ClaimKeys, Incident!Incidents
<1>9. \A q \in reports' : IsClaimed(q)' /\ HasEvent(q)'
  BY <1>1, <1>5, <1>6 DEF IsClaimed, HasEvent
<1>10. ASSUME NEW g \in Handlers PROVE HoldsLock(g)' /\ IsAvailable(g)' /\ VoteIDIsNew(g)'
  BY <1>1, <1>7 DEF HoldsLock, IsAvailable, VoteIDIsNew
<1>11. Incident!OneReportPerWindow' /\ Incident!PublicIDIsUnambiguous'
  BY <1>1 DEF Incident!OneReportPerWindow, Incident!PublicIDIsUnambiguous
<1> QED BY <1>8, <1>9, <1>10, <1>11

(* The store loses what is expired: reports, events or claims.              *)
LEMMA ExpiredIsDeleted == ASSUME IncidentInv, Incident!CleanupExpired PROVE IncidentInv'
<1> USE IncidentAssumption DEF IncidentInv
<1>1. UNCHANGED <<incidentNow, vehicleMu, areaMu, request, ops>> /\ incidentNow \in Nat /\ incidentNow > Retention
  BY DEF Incident!CleanupExpired, IncidentTypes
<1>2. \A q \in reports' : q \in reports
  BY DEF Incident!CleanupExpired, Incident!DeleteReports
<1>3. \A e \in incidentEvents' : e \in incidentEvents
  BY DEF Incident!CleanupExpired, Incident!DeleteEvents
<1>4. \A e \in incidentEvents : e \in incidentEvents' \/ e.at < incidentNow - Retention
  BY DEF Incident!CleanupExpired, Incident!DeleteEvents, Incident!Expired
<1>5. /\ DOMAIN claims' = Users /\ \A u \in Users : DOMAIN claims'[u] = ClaimKeys
      /\ \A u \in Users, k \in ClaimKeys :
            \/ claims'[u][k] = claims[u][k]
            \/ claims'[u][k] = None /\ claims[u][k] # None /\ claims[u][k] < incidentNow - Retention
  <2>1. CASE claims' = claims
    BY <2>1 DEF IncidentTypes
  <2>2. CASE Incident!DeleteClaims
    BY <2>2 DEF Incident!DeleteClaims, Incident!Expired, ClaimKeys
  <2> QED BY <2>1, <2>2 DEF Incident!CleanupExpired
<1>6. IncidentTypes'
  <2>1. \A q \in reports' : IsReport(q, incidentNow, ops)
    BY <1>2 DEF IncidentTypes
  <2>2. \A e \in incidentEvents' : IsVoteEvent(e, incidentNow)
    BY <1>3 DEF IncidentTypes
  <2>3. \A u \in Users, k \in ClaimKeys : claims'[u][k] # None => claims'[u][k] \in Nat
    BY <1>5 DEF IncidentTypes
  <2> QED BY <1>1, <1>5, <2>1, <2>2, <2>3 DEF IncidentTypes
<1>7. ASSUME NEW q \in reports' PROVE IsClaimed(q)'
  <2>1. q \in reports /\ q.user \in Users /\ q.at \in Nat /\ q.scope \in Scopes
    BY <1>2 DEF IncidentTypes, IsReport
  <2> DEFINE key == ClaimKey(q.scope)
  <2>2. key \in ClaimKeys
    BY <2>1 DEF ClaimKey, ClaimKeys, Incident!Incidents
  <2>3. SUFFICES ASSUME ~q.hidden
                 PROVE \/ claims'[q.user][key] # None /\ q.at <= claims'[q.user][key]
                       \/ q.at + Dedupe + MaxAge <= incidentNow
    BY <1>1 DEF IsClaimed, ClaimKey
  <2>4. \/ claims[q.user][key] # None /\ q.at <= claims[q.user][key]
        \/ q.at + Dedupe + MaxAge <= incidentNow
    BY <2>1, <2>3 DEF IsClaimed
  <2>5. claims[q.user][key] # None => claims[q.user][key] \in Nat
    BY <2>1, <2>2 DEF IncidentTypes
  <2>6. \/ claims'[q.user][key] = claims[q.user][key]
        \/ claims'[q.user][key] = None /\ claims[q.user][key] # None /\ claims[q.user][key] < incidentNow - Retention
    BY <1>5, <2>1, <2>2
  <2> HIDE DEF key
  <2> QED BY <1>1, <2>1, <2>4, <2>5, <2>6
<1>8. ASSUME NEW q \in reports' PROVE HasEvent(q)'
  <2>1. q \in reports /\ q.at \in Nat /\ HasEvent(q)
    BY <1>2 DEF IncidentTypes, IsReport
  <2>2. SUFFICES ASSUME ~q.hidden
                 PROVE \/ \E e \in incidentEvents' : e.id = q.id /\ e.incident = PublicID[q.scope] /\ e.at = q.at
                       \/ q.at + Visibility < incidentNow
    BY <1>1 DEF HasEvent
  <2>3. CASE q.at + Visibility < incidentNow
    BY <2>3
  <2>4. CASE \E e \in incidentEvents : e.id = q.id /\ e.incident = PublicID[q.scope] /\ e.at = q.at
    <3>1. PICK e \in incidentEvents : e.id = q.id /\ e.incident = PublicID[q.scope] /\ e.at = q.at
      BY <2>4
    <3>2. e \in incidentEvents' \/ q.at < incidentNow - Retention
      BY <1>4, <3>1
    <3> QED BY <1>1, <2>1, <3>1, <3>2
  <2> QED BY <2>1, <2>2, <2>3, <2>4 DEF HasEvent
<1>9. ASSUME NEW g \in Handlers PROVE HoldsLock(g)' /\ IsAvailable(g)' /\ VoteIDIsNew(g)'
  BY <1>1, <1>2 DEF HoldsLock, IsAvailable, VoteIDIsNew
<1>10. Incident!OneReportPerWindow' /\ Incident!PublicIDIsUnambiguous'
  BY <1>2 DEF Incident!OneReportPerWindow, Incident!PublicIDIsUnambiguous
<1> QED BY <1>6, <1>7, <1>8, <1>9, <1>10

LEMMA IncidentTick == ASSUME IncidentInv, Incident!Tick PROVE IncidentInv'
<1> USE IncidentAssumption DEF IncidentInv
<1>1. /\ UNCHANGED <<reports, claims, incidentEvents, vehicleMu, areaMu, request, ops>>
      /\ incidentNow' = incidentNow + 1 /\ incidentNow \in Nat
      /\ \A h \in Handlers : request[h].pc = "idle" \/ incidentNow < request[h].at + MaxAge
  BY DEF Incident!Tick, Incident!storeVars, IncidentTypes
<1>2. IncidentTypes'
  <2>1. \A q \in reports : IsReport(q, incidentNow', ops)
    BY <1>1 DEF IncidentTypes, IsReport
  <2>2. \A e \in incidentEvents : IsVoteEvent(e, incidentNow')
    BY <1>1 DEF IncidentTypes, IsVoteEvent
  <2>3. ASSUME NEW h \in Handlers PROVE IsRequest(request[h], incidentNow', ops)
    <3>1. IsRequest(request[h], incidentNow, ops)
      BY DEF IncidentTypes
    <3> QED BY <1>1, <3>1 DEF IsRequest
  <2> QED BY <1>1, <2>1, <2>2, <2>3 DEF IncidentTypes, ClaimKeys, Incident!Incidents
<1>3. ASSUME NEW q \in reports PROVE IsClaimed(q)' /\ HasEvent(q)'
  <2>1. q.at \in Nat /\ IsClaimed(q) /\ HasEvent(q)
    BY DEF IncidentTypes, IsReport
  <2>2. q.at + Dedupe + MaxAge <= incidentNow => q.at + Dedupe + MaxAge <= incidentNow'
    BY <1>1, <2>1
  <2>3. q.at + Visibility < incidentNow => q.at + Visibility < incidentNow'
    BY <1>1, <2>1
  <2> QED BY <1>1, <2>1, <2>2, <2>3 DEF IsClaimed, HasEvent, ClaimKey
<1>4. ASSUME NEW g \in Handlers PROVE HoldsLock(g)' /\ IsAvailable(g)' /\ VoteIDIsNew(g)'
  BY <1>1 DEF HoldsLock, IsAvailable, VoteIDIsNew
<1>5. Incident!OneReportPerWindow' /\ Incident!PublicIDIsUnambiguous'
  BY <1>1 DEF Incident!OneReportPerWindow, Incident!PublicIDIsUnambiguous
<1> QED BY <1>1, <1>2, <1>3, <1>4, <1>5

LEMMA GreatestExists ==
    ASSUME NEW S \in SUBSET Nat, S # {}, NEW n \in Nat, \A m \in S : m <= n
    PROVE  \E g \in S : \A m \in S : m <= g
<1> DEFINE Left == {n - m : m \in S}
<1>1. \A m \in S : m \in Nat /\ n - m \in Nat
  OBVIOUS
<1>2. Left \in SUBSET Nat /\ Left # {}
  BY <1>1
<1>3. PICK l \in Left : \A k \in Left : l <= k
  BY <1>2, LeastExists
<1>4. PICK g \in S : l = n - g
  OBVIOUS
<1>5. \A m \in S : n - m \in Left
  OBVIOUS
<1> HIDE DEF Left
<1>6. ASSUME NEW m \in S PROVE m <= g
  <2>1. n - g <= n - m
    BY <1>3, <1>4, <1>5
  <2> QED BY <1>1, <2>1
<1> QED BY <1>6

(* A sighting on the map has its event, which dates the incident.           *)
LEMMA SightingIsDated == ASSUME IncidentInv PROVE Incident!NewestReportIsShown
<1> USE IncidentAssumption DEF IncidentInv
<1> SUFFICES ASSUME NEW q \in Incident!VisibleSightings
             PROVE  LET i == PublicID[q.scope] IN
                    i \in Incident!ListActiveIncidents /\ Incident!IncidentDetail(i, i) /\ Incident!LastReportAt(i) >= q.at
  BY Zenon DEF Incident!NewestReportIsShown
<1> DEFINE i == PublicID[q.scope]
<1>1. q \in reports /\ ~q.hidden /\ q.at >= Incident!Since(Visibility) /\ q.at \in Nat /\ q.scope \in Scopes /\ HasEvent(q)
      /\ incidentNow \in Nat
  BY DEF Incident!VisibleSightings, IncidentTypes, IsReport
<1>2. q.at >= Incident!Since(Lookback) /\ ~(q.at + Visibility < incidentNow)
  BY <1>1 DEF Incident!Since
<1>3. i \in Incident!Incidents
  BY <1>1 DEF Incident!Incidents
<1>4. Incident!collectIncidentBundles(i) # {}
  BY <1>1, <1>2 DEF Incident!collectIncidentBundles
<1>5. i \in Incident!ListActiveIncidents /\ Incident!IncidentDetail(i, i)
  BY <1>3, <1>4 DEF Incident!ListActiveIncidents, Incident!IncidentDetail, Incident!canonicalIncidentID
<1>6. PICK e \in incidentEvents : e.incident = i /\ e.at = q.at
  BY <1>1, <1>2 DEF HasEvent
<1>7. e \in Incident!VoteEvents(i)
  BY <1>2, <1>6 DEF Incident!VoteEvents
<1> DEFINE S == {f.at : f \in Incident!VoteEvents(i)}
<1>8. S \in SUBSET Nat /\ \A m \in S : m <= incidentNow
  BY DEF Incident!VoteEvents, IncidentTypes, IsVoteEvent
<1>9. q.at \in S
  BY <1>6, <1>7
<1>10. Incident!LastReportAt(i) = Incident!Max(S)
  BY <1>7, Zenon DEF Incident!LastReportAt
<1> HIDE DEF S
<1>11. \E g \in S : \A m \in S : m <= g
  BY <1>1, <1>8, <1>9, GreatestExists
<1>12. \E g \in S : \A m \in S : g >= m
  BY <1>8, <1>11
<1>13. Incident!Max(S) \in S /\ \A m \in S : Incident!Max(S) >= m
  BY <1>12 DEF Incident!Max
<1> QED BY <1>5, <1>9, <1>10, <1>13

LEMMA IncidentInit == ASSUME Incident!Init PROVE IncidentInv
<1> USE IncidentAssumption DEF Incident!Init
<1>1. \A h \in Handlers : request[h] = Incident!Idle
  OBVIOUS
<1>2. IncidentTypes
  BY <1>1 DEF IncidentTypes, IsRequest, Incident!Idle, Submitting, ClaimKeys, Incident!Incidents
<1>3. \A h \in Handlers : HoldsLock(h) /\ IsAvailable(h) /\ VoteIDIsNew(h)
  BY <1>1 DEF HoldsLock, IsAvailable, VoteIDIsNew, Incident!Idle
<1>4. Incident!OneReportPerWindow /\ Incident!PublicIDIsUnambiguous
  BY DEF Incident!OneReportPerWindow, Incident!PublicIDIsUnambiguous
<1> QED BY <1>2, <1>3, <1>4 DEF IncidentInv

LEMMA IncidentUnchanged == ASSUME IncidentInv, UNCHANGED reportVars PROVE IncidentInv'
<1> USE DEF IncidentInv, reportVars
<1>1. IncidentTypes'
  BY DEF IncidentTypes, ClaimKeys, Incident!Incidents
<1>2. \A q \in reports : IsClaimed(q)' /\ HasEvent(q)'
  BY DEF IsClaimed, HasEvent, ClaimKey
<1>3. \A h \in Handlers : HoldsLock(h)' /\ IsAvailable(h)' /\ VoteIDIsNew(h)'
  BY DEF HoldsLock, IsAvailable, VoteIDIsNew
<1>4. Incident!OneReportPerWindow' /\ Incident!PublicIDIsUnambiguous'
  BY DEF Incident!OneReportPerWindow, Incident!PublicIDIsUnambiguous
<1> QED BY <1>1, <1>2, <1>3, <1>4

LEMMA IncidentStep == ASSUME IncidentInv, Incident!Next PROVE IncidentInv'
<1>1. ASSUME NEW h \in Handlers,
        \/ Incident!submissionReportID(h) \/ Incident!SubmitStopSighting(h) \/ Incident!SubmitVehicleSighting(h)
        \/ Incident!SubmitAreaReport(h) \/ Incident!CheckPublicID(h) \/ Incident!LimitReport(h)
        \/ Incident!InsertReport(h) \/ Incident!InsertFails(h) \/ Incident!VoteIncident(h)
        \/ Incident!recordIncidentVote(h) \/ Incident!AddIncidentComment(h) \/ Incident!InsertIncidentComment(h)
      PROVE IncidentInv'
  BY <1>1, IncidentRequests, ReportIsStored, VoteIsStored
<1> QED BY <1>1, ExpiredIsDeleted, IncidentTick DEF Incident!Next

(* Reports of one user about one scope stay a dedupe window apart, a public *)
(* id names one scope, and every sighting on the map has an incident dated  *)
(* no earlier, whatever requests and cleanups interleave                    *)
(* (internal/reports/service.go, internal/store/sqlite.go).                 *)
THEOREM IncidentsStayConsistent == BotSpec => []IncidentsAreConsistent
<1> DEFINE Inv == Reported => IncidentInv
<1>1. BotInit => Inv
  BY IncidentInit DEF BotInit
<1>2. Inv /\ [BotNext]_BotVars => Inv'
  <2> SUFFICES ASSUME Inv, [BotNext]_BotVars, Reported' PROVE IncidentInv'
    OBVIOUS
  <2>1. Reported /\ IncidentInv
    BY DEF BotNext, BotVars
  <2>2. CASE UNCHANGED reportVars
    BY <2>1, <2>2, IncidentUnchanged
  <2>3. CASE Incident!Next
    BY <2>1, <2>3, IncidentStep
  <2> QED BY <2>1, <2>2, <2>3 DEF BotNext, BotVars
<1>3. Inv => IncidentsAreConsistent
  BY SightingIsDated DEF IncidentInv, IncidentsAreConsistent
<1> QED BY <1>1, <1>2, <1>3, PTL DEF BotSpec
=============================================================================
