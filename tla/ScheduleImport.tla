------------------------------ MODULE ScheduleImport ------------------------------
(* How the train bot stores one service day in its SpacetimeDB module: a day is sent   *)
(* in chunks under an import id and becomes visible with the commit                    *)
(* (spacetime/client.go, store/spacetime.go, spacetimedb/src/index.ts).  The bot and   *)
(* the spacetime-sync tool may import the same day at once.  A call may fail before or *)
(* after it took effect, or take effect late, when the client has already gone on; a   *)
(* process may stop between any two calls; the day may be deleted, and old rows        *)
(* cleaned up, while an import is under way.                                           *)
EXTENDS Naturals, Sequences, FiniteSets, Functions

CONSTANTS Importers,   \* processes that import: the bot and the tool
          Chunks,      \* the chunks of a day, in the order they are sent
          MaxImports,  \* bound on imports begun
          MaxLate,     \* bound on calls still to take effect
          None

VARIABLES day,       \* None or [version, chunks]: trainbot_service_day and its trips
          imports,   \* id -> None or [version, header, chunks]: trainbot_import_chunk
          importer,  \* [pc, id, version, sent, missing] of each process
          late,      \* calls given up by their client that may yet take effect
          outdated,  \* the module published at the moment lacks the import procedures
          local,     \* version in the bot's own SQLite, None at first
          begun      \* imports so far; an import's version is its number

importVars == <<day, imports, importer, late, outdated, local, begun>>

Ids == 1..MaxImports

resting == [pc |-> "idle", id |-> None, version |-> None, sent |-> 0]

newImporter == [pc |-> "idle", id |-> None, version |-> None, sent |-> 0, missing |-> {}]

Init ==
    /\ day = None
    /\ imports = [id \in Ids |-> None]
    /\ importer = [i \in Importers |-> newImporter]
    /\ late = {} /\ outdated \in BOOLEAN /\ local = None /\ begun = 0

(* ---------------------------------- the database --------------------------------- *)

\* Rows of an import, oldest first, without its header.
rowsForImport(id) == IF imports[id] = None THEN <<>> ELSE imports[id].chunks

found(id) == imports[id] # None /\ imports[id].header

\* A mutant: a commit without a header stores what it finds.
answeredWithoutHeader(c) == c.op \in {"begin", "abort"} \/ (c.op = "commit" /\ imports[c.id] # None) \/ found(c.id)

\* Whether the procedure succeeds: append and commit need the header of the import.
answered(c) == c.op \in {"begin", "abort"} \/ found(c.id)

beginServiceDayImport(c) ==
    /\ imports' = [imports EXCEPT ![c.id] = [version |-> c.version, header |-> TRUE, chunks |-> <<>>]]
    /\ UNCHANGED day

appendServiceDayChunk(c) ==
    /\ imports' = [imports EXCEPT ![c.id].chunks = Append(@, c.chunk)]
    /\ UNCHANGED day

commitServiceDayImport(c) ==
    /\ day' = [version |-> imports[c.id].version, chunks |-> Range(rowsForImport(c.id))]
    /\ imports' = [imports EXCEPT ![c.id] = None]

abortServiceDayImport(c) ==
    /\ imports' = [imports EXCEPT ![c.id] = None]
    /\ UNCHANGED day

\* A procedure is one transaction; one that fails changes nothing.
Serve(c) ==
    IF ~answered(c) THEN UNCHANGED <<day, imports>>
    ELSE \/ c.op = "begin" /\ beginServiceDayImport(c)
         \/ c.op = "append" /\ appendServiceDayChunk(c)
         \/ c.op = "commit" /\ commitServiceDayImport(c)
         \/ c.op = "abort" /\ abortServiceDayImport(c)

\* service_delete_service_day and cleanup_expired_state with the day past its retention.
DeleteDay ==
    /\ day' = None
    /\ imports' = [id \in Ids |-> None]
    /\ UNCHANGED <<importer, late, outdated, local, begun>>

\* cleanupImportArtifacts: the rows older than the retention go, the header first.
CleanupRows ==
    \E id \in Ids :
        /\ found(id)
        /\ \E n \in 0..Len(rowsForImport(id)) :
               imports' = [imports EXCEPT ![id] =
                   [version |-> @.version, header |-> FALSE, chunks |-> SubSeq(@.chunks, n + 1, Len(@.chunks))]]
        /\ UNCHANGED <<day, importer, late, outdated, local, begun>>

LateCallLands ==
    \E c \in late : /\ Serve(c)
                    /\ late' = late \ {c}
                    /\ UNCHANGED <<importer, outdated, local, begun>>

Republish == outdated' = ~outdated /\ UNCHANGED <<day, imports, importer, late, local, begun>>

(* ----------------------------------- the client ---------------------------------- *)

At(i, pc) == importer[i].pc = pc

\* The fields that r names, and the others as they were.
With(r, old) == [f \in DOMAIN old |-> IF f \in DOMAIN r THEN r[f] ELSE old[f]]

Goto(i, r) == importer' = [importer EXCEPT ![i] = With(r, @)]

\* callJSONProcedureWithToken: a procedure once reported missing is not asked again.
CallProcedure(i, c, ok, failed) ==
    IF c.op \in importer[i].missing
    THEN Goto(i, failed) /\ UNCHANGED <<day, imports, late>>
    ELSE IF outdated
    THEN /\ importer' = [importer EXCEPT ![i] = With([missing |-> @.missing \cup {c.op}], With(failed, @))]
         /\ UNCHANGED <<day, imports, late>>
    ELSE \/ Serve(c) /\ Goto(i, IF answered(c) THEN ok ELSE failed) /\ UNCHANGED late
         \/ Serve(c) /\ Goto(i, failed) /\ UNCHANGED late
         \/ Goto(i, failed) /\ UNCHANGED <<day, imports, late>>
         \/ /\ Cardinality(late) < MaxLate
            /\ late' = late \cup {c} /\ Goto(i, failed) /\ UNCHANGED <<day, imports>>

Call(i, op) == [op |-> op, id |-> importer[i].id, version |-> importer[i].version,
                chunk |-> IF op = "append" THEN <<importer[i].version, Chunks[importer[i].sent + 1]>> ELSE None]

\* The daily job and the tool replace the day whatever is there; a starting bot heals a
\* day it has read as absent, which another process may store before it begins.
syncAt(i) ==
    /\ At(i, "idle")
    /\ Goto(i, [pc |-> "replace"])
    /\ UNCHANGED <<day, imports, late, outdated, local, begun>>

\* A mutant: the id names the day, so imports of the same day share it.
dayImportID == 1

\* "schedule-" and a random token.
newImportID == begun + 1

ServiceReplaceSchedule(i) ==
    /\ At(i, "replace") /\ begun < MaxImports
    /\ begun' = begun + 1
    /\ Goto(i, [pc |-> "begin", id |-> newImportID, version |-> begun', sent |-> 0])
    /\ UNCHANGED <<day, imports, late, outdated, local>>

\* syncSingleServiceDate: begin, every chunk, commit; what fails after begin is aborted.
BeginImport(i) ==
    /\ At(i, "begin")
    /\ CallProcedure(i, Call(i, "begin"), [pc |-> "append"], resting)
    /\ UNCHANGED <<outdated, local, begun>>

\* A mutant: a chunk that failed is skipped.
appendChunkOnce(i) ==
    /\ At(i, "append") /\ importer[i].sent < Len(Chunks)
    /\ CallProcedure(i, Call(i, "append"), [sent |-> importer[i].sent + 1], [sent |-> importer[i].sent + 1])
    /\ UNCHANGED <<outdated, local, begun>>

AppendChunk(i) ==
    /\ At(i, "append") /\ importer[i].sent < Len(Chunks)
    /\ CallProcedure(i, Call(i, "append"), [sent |-> importer[i].sent + 1], [pc |-> "abort"])
    /\ UNCHANGED <<outdated, local, begun>>

CommitImport(i) ==
    /\ At(i, "append") /\ importer[i].sent = Len(Chunks)
    /\ CallProcedure(i, Call(i, "commit"), [pc |-> "local"], [pc |-> "abort"])
    /\ UNCHANGED <<outdated, local, begun>>

AbortImport(i) ==
    /\ At(i, "abort")
    /\ CallProcedure(i, Call(i, "abort"), resting, resting)
    /\ UNCHANGED <<outdated, local, begun>>

\* RoutedStore.ImportTrainData: SpacetimeDB first, the local cache when that succeeded.
ImportLocally(i) ==
    /\ At(i, "local")
    /\ local' \in {local, importer[i].version}
    /\ Goto(i, resting)
    /\ UNCHANGED <<day, imports, late, outdated, begun>>

\* The process stops and starts again.
Restart(i) ==
    /\ importer[i] # newImporter
    /\ importer' = [importer EXCEPT ![i] = newImporter]
    /\ UNCHANGED <<day, imports, late, outdated, local, begun>>

Next ==
    \/ DeleteDay \/ CleanupRows \/ LateCallLands \/ Republish
    \/ \E i \in Importers :
          \/ syncAt(i) \/ ServiceReplaceSchedule(i) \/ BeginImport(i) \/ AppendChunk(i)
          \/ CommitImport(i) \/ AbortImport(i) \/ ImportLocally(i) \/ Restart(i)

Spec == Init /\ [][Next]_importVars

(* The day SpacetimeDB serves is always the whole of one import: every chunk of it, and  *)
(* none of another's, although chunks are sent one call at a time, two processes import  *)
(* the same day, calls land late, and rows are cleaned up under a running import.        *)
StoredDayIsWhole == day = None \/ day.chunks = {<<day.version, c>> : c \in Range(Chunks)}
===================================================================================
