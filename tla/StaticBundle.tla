------------------------------- MODULE StaticBundle -------------------------------
(* The static bundle both bots publish for their web pages: a directory per version,   *)
(* whose name is a hash of its contents, and active.json, which names the version in   *)
(* use (web/static_bundle.go of the train bot and of the satiksme bot).  The train bot *)
(* writes every file under a temporary name and renames it, and its web server caches  *)
(* what it reads; the satiksme bot writes in place.  The process may be stopped        *)
(* between any two writes, and an in-place write may be cut short.                     *)
EXTENDS Naturals, FiniteSets

CONSTANTS Versions,    \* contents a publication can have, and so version names
          Readers,     \* web requests of the train bot
          MaxPublishes,\* bound on publications
          None

Slices == {"stops", "manifest"}

VARIABLES style,     \* "rename" (train bot) or "in place" (satiksme bot)
          bundles,   \* Versions -> files present in the version's directory
          torn,      \* files an interrupted in-place write left incomplete
          active,    \* the version active.json names
          synced,    \* the version the database was last told of
          publisher, \* [pc, version]
          published, \* publications so far
          cached,    \* [version, manifest, data]: staticBundleStore
          reader     \* [pc, version, answer] of each request

bundleVars == <<style, bundles, torn, active, synced, publisher, published, cached, reader>>

idleReader == [pc |-> "idle", version |-> None, answer |-> None]
noData == None

Init ==
    /\ style \in {"rename", "in place"}
    /\ bundles = [v \in Versions |-> {}] /\ torn = {}
    /\ active = None /\ synced = None
    /\ publisher = [pc |-> "idle", version |-> None] /\ published = 0
    /\ cached = [version |-> None, manifest |-> None, data |-> noData]
    /\ reader = [r \in Readers |-> idleReader]

readerVars == <<cached, reader>>

(* ---------------------------------- publication ---------------------------------- *)

\* A mutant: the old versions go before active.json names the new one.
RemovedFirst == [slices |-> "manifest", manifest |-> "remove", remove |-> "active",
                 active |-> "sync", sync |-> "idle"]

\* The next thing a publication does.
After == [slices |-> "manifest", manifest |-> "active", active |-> "remove",
          remove |-> "sync", sync |-> "idle"]

At(pc) == publisher.pc = pc

\* PublishManifest / PublishCatalog: the slices are hashed into the version's name
\* before anything is written.
Publish ==
    /\ At("idle") /\ published < MaxPublishes
    /\ published' = published + 1
    /\ \E v \in Versions : publisher' = [pc |-> "slices", version |-> v]
    /\ UNCHANGED <<style, bundles, torn, active, synced, readerVars>>

\* One file of the version's directory, complete when the call returns.
WriteFile(name, v) ==
    /\ bundles' = [bundles EXCEPT ![v] = @ \cup {name}]
    /\ torn' = torn \ {<<v, name>>}

WriteSlices ==
    /\ At("slices") /\ WriteFile("stops", publisher.version)
    /\ publisher' = [publisher EXCEPT !.pc = After.slices]
    /\ UNCHANGED <<style, active, synced, published, readerVars>>

WriteManifest ==
    /\ At("manifest") /\ WriteFile("manifest", publisher.version)
    /\ publisher' = [publisher EXCEPT !.pc = After.manifest]
    /\ UNCHANGED <<style, active, synced, published, readerVars>>

WriteActive ==
    /\ At("active") /\ active' = publisher.version
    /\ publisher' = [publisher EXCEPT !.pc = After.active]
    /\ UNCHANGED <<style, bundles, torn, synced, published, readerVars>>

Old(v) == v # publisher.version

\* removeOldStaticBundleVersions deletes file by file; the publication goes on when no
\* other directory is left.
RemoveOldVersion ==
    /\ At("remove")
    /\ \E v \in Versions, name \in Slices :
          /\ Old(v) /\ name \in bundles[v]
          /\ bundles' = [bundles EXCEPT ![v] = @ \ {name}]
          /\ torn' = torn \ {<<v, name>>}
    /\ UNCHANGED <<style, active, synced, publisher, published, readerVars>>

OldVersionsRemoved ==
    /\ At("remove") /\ \A v \in Versions : Old(v) => bundles[v] = {}
    /\ publisher' = [publisher EXCEPT !.pc = After.remove]
    /\ UNCHANGED <<style, bundles, torn, active, synced, published, readerVars>>

\* PublishActiveBundle / PublishCatalogBundle; a lost answer reports a failure of what
\* was done, and either way the publication is over.
Sync ==
    /\ At("sync")
    /\ synced' \in {synced, publisher.version}
    /\ publisher' = [pc |-> "idle", version |-> None]
    /\ UNCHANGED <<style, bundles, torn, active, published, readerVars>>

\* A write fails, or the process is stopped, at any point of a publication.  A rename
\* leaves the old file or the new one, a write in place may leave a part of one; an
\* active.json that cannot be read names no version.
Interrupted ==
    /\ ~At("idle")
    /\ publisher' = [pc |-> "idle", version |-> None]
    /\ LET name == IF At("slices") THEN "stops" ELSE "manifest"
       IN  IF style = "in place" /\ (At("slices") \/ At("manifest"))
           THEN \/ UNCHANGED <<bundles, torn>>
                \/ /\ bundles' = [bundles EXCEPT ![publisher.version] = @ \cup {name}]
                   /\ torn' = torn \cup {<<publisher.version, name>>}
           ELSE UNCHANGED <<bundles, torn>>
    /\ \/ active' = active
       \/ style = "in place" /\ At("active") /\ active' = None
    /\ UNCHANGED <<style, synced, published, readerVars>>

(* ------------------------- the train web server's requests ------------------------ *)

\* activeManifest reads active.json, and takes the manifest from the cache when it has
\* this version's.
ActiveState(r) ==
    /\ style = "rename" /\ reader[r].pc = "idle" /\ active # None
    /\ IF cached.version = active
       THEN IF cached.data # noData
            THEN reader' = [reader EXCEPT ![r] = [idleReader EXCEPT !.answer = cached.data]]
            ELSE reader' = [reader EXCEPT ![r] =
                               [pc |-> "data", version |-> cached.version, answer |-> None]]
       ELSE reader' = [reader EXCEPT ![r] =
                          [pc |-> "manifest", version |-> active, answer |-> None]]
    /\ UNCHANGED <<style, bundles, torn, active, synced, publisher, published, cached>>

\* The manifest file of that version; when it is gone the request fails.
activeManifest(r) ==
    /\ reader[r].pc = "manifest"
    /\ LET v == reader[r].version
       IN  IF "manifest" \notin bundles[v]
           THEN reader' = [reader EXCEPT ![r] = idleReader] /\ cached' = cached
           ELSE /\ cached' = [version |-> v, manifest |-> v, data |-> noData]
                /\ reader' = [reader EXCEPT ![r].pc = "data"]
    /\ UNCHANGED <<style, bundles, torn, active, synced, publisher, published>>

\* loadData reads the slices of the manifest it holds, and puts them into the cache
\* whatever version the cache is of by then.
loadData(r) ==
    /\ reader[r].pc = "data"
    /\ LET v == reader[r].version
       IN  IF "stops" \notin bundles[v]
           THEN reader' = [reader EXCEPT ![r] = idleReader] /\ cached' = cached
           ELSE /\ cached' = [cached EXCEPT !.data = v]
                /\ reader' = [reader EXCEPT ![r] = [idleReader EXCEPT !.answer = v]]
    /\ UNCHANGED <<style, bundles, torn, active, synced, publisher, published>>

Next == \/ Publish \/ WriteSlices \/ WriteManifest \/ WriteActive
        \/ RemoveOldVersion \/ OldVersionsRemoved \/ Sync \/ Interrupted
        \/ \E r \in Readers : ActiveState(r) \/ activeManifest(r) \/ loadData(r)

Spec == Init /\ [][Next]_bundleVars

(* ------------------------------------ properties --------------------------------- *)

\* The version active.json names has all of its files, at every moment and wherever a
\* publication was interrupted; with renames each of them is whole (PublishManifest,
\* PublishCatalog and removeOldStaticBundleVersions).
ActiveIsComplete ==
    active # None => /\ bundles[active] = Slices
                     /\ style = "rename" => \A name \in Slices : <<active, name>> \notin torn
=================================================================================
