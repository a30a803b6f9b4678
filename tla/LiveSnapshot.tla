---------------------------- MODULE LiveSnapshot ----------------------------
(* The satiksme bot's live-vehicle snapshots (internal/live): a loop fetches *)
(* the vehicles, writes a versioned file, points active.json at it, removes  *)
(* the oldest files and stores the feed's state.  The process may die        *)
(* between any two of these steps.  Delays are left out: a round may start   *)
(* whenever the clock has moved since the last one.                          *)
EXTENDS Naturals, FiniteSets

CONSTANTS Feeds,        \* contents of the feed, told apart by their hash
          MaxFiles,     \* snapshot files kept
          MaxFailures,  \* consecutive failures told apart
          MaxTime, None

VARIABLES
    now,        \* seconds; a version is named by its second and its hash
    files,      \* versions whose file is in the directory
    active,     \* active.json
    stored,     \* the feed's state in the store
    catalog,    \* a catalog is loaded
    loop,       \* where the loop is
    round,      \* what this round fetched and published
    memory      \* the loop's variables

snapshotVars == <<now, files, active, stored, catalog, loop, round, memory>>

NoVersion == [at |-> 0, hash |-> None]
NoRound == [at |-> 0, hash |-> None]
State(version, status, failures) == [version |-> version, status |-> status, failures |-> failures]
Fresh(version) ==
    [current |-> version, failures |-> 0, lastStored |-> State(NoVersion, "none", 0), loaded |-> FALSE]

Init ==
    /\ now = 1 /\ files = {} /\ active = NoVersion
    /\ stored = State(NoVersion, "none", 0)
    /\ catalog \in BOOLEAN
    /\ loop = "wait" /\ round = NoRound /\ memory = Fresh(NoVersion)

(* sameLiveTransportStateMaterial: version, status, failures; the times of   *)
(* the last attempt and success do not count.                                *)
sameLiveTransportStateMaterial(left, right) == left = right

(* persistState: unchanged material is not written again; a failed write     *)
(* is tried again because lastStored stays behind.  A write whose answer is  *)
(* lost has landed all the same.                                             *)
persistState(state, next, failedNext) ==
    LET same == memory.loaded /\ sameLiveTransportStateMaterial(memory.lastStored, state)
        kept == [memory EXCEPT !.failures = state.failures, !.current = state.version]
    IN  \/ /\ same
           /\ UNCHANGED stored /\ memory' = kept /\ loop' = next
        \/ /\ ~same
           /\ stored' = state /\ memory' = [kept EXCEPT !.lastStored = state, !.loaded = TRUE] /\ loop' = next
        \/ /\ ~same
           /\ stored' \in {stored, state} /\ memory' = kept /\ loop' = failedNext

Failures(n) == IF n < MaxFailures THEN n + 1 ELSE n

(* A round that fails stores the error with the version it still serves. *)
RoundFails ==
    /\ persistState(State(memory.current, "error", Failures(memory.failures)), "wait", "wait")
    /\ round' = [round EXCEPT !.hash = None]

(* The viewers are counted; a failed count ends the round. *)
CountActiveLiveViewers ==
    /\ loop = "wait" /\ now > round.at
    /\ loop' \in {"wait", "fetch"}
    /\ round' = [at |-> now, hash |-> None]
    /\ UNCHANGED <<now, files, active, stored, catalog, memory>>

FetchFails ==
    /\ loop = "fetch"
    /\ RoundFails
    /\ UNCHANGED <<now, files, active, catalog>>

FetchVehicles ==
    /\ loop = "fetch" /\ catalog
    /\ \E h \in Feeds : round' = [round EXCEPT !.hash = h]
    /\ loop' = "publish"
    /\ UNCHANGED <<now, files, active, stored, catalog, memory>>

(* Publish: the same hash as active.json changes nothing. *)
Publish ==
    /\ loop = "publish"
    /\ loop' = IF active.hash = round.hash THEN "done" ELSE "file"
    /\ UNCHANGED <<now, files, active, stored, catalog, round, memory>>

(* writeSnapshotFile writes a temporary file and renames it: a crash leaves  *)
(* the old file or the new one.                                              *)
writeSnapshotFile ==
    /\ loop = "file"
    /\ \/ files' = files \cup {[at |-> round.at, hash |-> round.hash]} /\ loop' = "active"
          /\ UNCHANGED <<stored, round, memory>>
       \/ UNCHANGED files /\ RoundFails
    /\ UNCHANGED <<now, active, catalog>>

WriteActive ==
    /\ loop = "active"
    /\ \/ active' = [at |-> round.at, hash |-> round.hash] /\ loop' = "cleanup"
          /\ UNCHANGED <<stored, round, memory>>
       \/ UNCHANGED active /\ RoundFails
    /\ UNCHANGED <<now, files, catalog>>

Older(f) == {g \in files : g.at < f.at}

(* Variant: the names are kept from the front of the sorted list. *)
newestSnapshots == {f \in files : Cardinality(Older(f)) >= MaxFiles}

(* The names beyond maxFiles from the front of the sorted list. *)
oldSnapshots == {f \in files : Cardinality(Older(f)) + MaxFiles < Cardinality(files)}

(* The files go one by one; a failed removal fails the round. *)
cleanupOldSnapshots ==
    /\ loop = "cleanup"
    /\ \/ oldSnapshots = {} /\ loop' = "done" /\ UNCHANGED <<files, stored, round, memory>>
       \/ \E f \in oldSnapshots : files' = files \ {f} /\ UNCHANGED <<loop, stored, round, memory>>
       \/ oldSnapshots # {} /\ UNCHANGED files /\ RoundFails
    /\ UNCHANGED <<now, active, catalog>>

(* The round succeeded: what active.json names is current and is stored. *)
RoundSucceeds ==
    /\ loop = "done"
    /\ persistState(State(active, "live", 0), "wait", "wait")
    /\ UNCHANGED <<now, files, active, catalog, round>>

(* A restart reads active.json and nothing else. *)
Restart ==
    /\ loop' = "wait" /\ round' = [at |-> now, hash |-> None]
    /\ memory' = Fresh(active)
    /\ UNCHANGED <<now, files, active, stored, catalog>>

LoadCatalog == ~catalog /\ catalog' = TRUE /\ UNCHANGED <<now, files, active, stored, loop, round, memory>>

Tick ==
    /\ now < MaxTime /\ now' = now + 1
    /\ UNCHANGED <<files, active, stored, catalog, loop, round, memory>>

Next ==
    \/ CountActiveLiveViewers \/ FetchFails \/ FetchVehicles \/ Publish \/ writeSnapshotFile \/ WriteActive
    \/ cleanupOldSnapshots \/ RoundSucceeds \/ Restart \/ LoadCatalog \/ Tick

Spec == Init /\ [][Next]_snapshotVars

-----------------------------------------------------------------------------
(* active.json always names a file that is there, whenever the process dies  *)
(* and whatever earlier rounds left behind (Publish, cleanupOldSnapshots).   *)
ActiveSnapshotExists == active # NoVersion => active \in files
=============================================================================
