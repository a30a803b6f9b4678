---------------------------- MODULE Housekeeper ----------------------------
(***************************************************************************)
(* workloads/qbittorrent-housekeeper: a poller that keeps the torrents of  *)
(* one qBittorrent inside a soft cap.  A pass lists the torrents, measures *)
(* the disk and then makes API calls one after the other, deciding each of *)
(* them on the list it read, as its own calls have changed it since.  The  *)
(* tags are its only memory: a call that fails ends the pass, and the next *)
(* pass resumes from the tags it finds.                                    *)
(*                                                                         *)
(* Any call may fail without effect, take effect although its answer is    *)
(* lost, or take effect late, after the next pass has read its list.       *)
(* Meanwhile torrents download and their owner adds, starts, shrinks,      *)
(* moves, keeps and removes them.  The order by age is one fixed order of  *)
(* the hashes: the torrents are otherwise alike.                           *)
(***************************************************************************)
EXTENDS Integers, Sequences, SequencesExt, FiniteSets, FiniteSetsExt

CONSTANTS Torrents,   \* hashes; one is added at most once
          Sizes,      \* sizes of torrents
          SoftCap,    \* Policy.SoftCapBytes
          MaxEdits,   \* bound on what the owner does to torrents already added
          MaxLate,    \* bound on calls in flight after their pass gave up
          None, Gone

VARIABLES torrents,   \* qBittorrent: hash -> None, Gone or the torrent
          residue,    \* bytes of deleted torrents the disk has not freed
          phase,      \* where Reconcile stands
          items,      \* []*managedTorrent of the running pass
          usedBytes,  \* the measurement of the running pass
          todo,       \* items the current loop has still to visit
          calls,      \* API calls the visited item has still to make
          late,       \* calls whose pass has given up and that may yet land
          edits

housekeeperVars == <<torrents, residue, phase, items, usedBytes, todo, calls, late, edits>>
passVars == <<phase, items, usedBytes, todo, calls>>

Present(ts) == {h \in Torrents : ts[h] \notin {None, Gone}}

Sum(S, value(_)) == MapThenSumSet(value, S)

(* Bytes on the volume, storage.Usage: every torrent's data and what is still being freed. *)
UsedBytes == residue + Sum(Present(torrents), LAMBDA h : torrents[h].completed)

Init == /\ torrents = [h \in Torrents |-> None]
        /\ residue = 0
        /\ phase = "idle"
        /\ items = [h \in Torrents |-> None]
        /\ usedBytes = 0
        /\ todo = <<>> /\ calls = <<>>
        /\ late = {}
        /\ edits = 0

----------------------------------------------------------------------------
(* The policy, over the pass's items. *)

has(h, tag) == tag \in items[h].tags
metadataReady(h) == items[h].ready
isStopped(h) == ~items[h].running
pathsInsideDownloadRoot(h) == items[h].inside
currentlyComplete(h) == items[h].completed = items[h].size
materializedBytes(h) == items[h].completed
validPressureEvictionMetadata(h) == items[h].ready

eligibleForDeletion ==
    {h \in Present(items) : /\ ~has(h, "keep")
                            /\ pathsInsideDownloadRoot(h)
                            /\ currentlyComplete(h)
                            /\ items[h].ripe}

(* Reserved bytes are those of every torrent tagged admitted and not rejected, an admission that
   was interrupted included. *)
fitsAfterPressureEvictions(candidate, evicted) ==
    LET counted == {h \in Present(items) \ {candidate} :
                        has(h, "admitted") /\ ~has(h, "rejected") /\ h \notin evicted}
                     \cup {candidate}
        reclaimed == Sum(evicted, materializedBytes)
        predicted == Max({0, usedBytes - reclaimed})
        reserved == Sum(counted, LAMBDA h : items[h].size)
        untracked == Max({0, predicted - Sum(counted, materializedBytes)})
    IN  /\ reserved <= SoftCap
        /\ predicted <= SoftCap
        /\ untracked + reserved <= SoftCap

(* A mutant: only what is on the disk counts, not what admitted torrents will still take. *)
fitsOnDisk(candidate) == usedBytes - items[candidate].completed + items[candidate].size <= SoftCap

fits(candidate) == fitsAfterPressureEvictions(candidate, {})

(* The sets a pass may evict for a candidate: evictable torrents in some order, cut at the first
   prefix that makes room. *)
pressureEvictions(candidate) ==
    LET eligible == {h \in Present(items) : /\ items[h].tags = {"admitted"}
                                            /\ pathsInsideDownloadRoot(h)
                                            /\ validPressureEvictionMetadata(h)}
    IN  {E \in SUBSET eligible :
            /\ fitsAfterPressureEvictions(candidate, E)
            /\ \E newest \in E : ~fitsAfterPressureEvictions(candidate, E \ {newest})}

waitingCandidates ==
    {h \in Present(items) : /\ ~items[h].blocked
                            /\ metadataReady(h) /\ items[h].size <= SoftCap
                            /\ items[h].tags \cap {"waiting", "admitted", "rejected"} = {"waiting"}}

----------------------------------------------------------------------------
(* API calls an item is given. *)

Stop(h) == IF isStopped(h) THEN <<>> ELSE <<[op |-> "stop", hash |-> h, tags |-> {}]>>
Start(h) == <<[op |-> "start", hash |-> h, tags |-> {}]>>
AddTags(h, tag) == <<[op |-> "addTags", hash |-> h, tags |-> {tag}]>>
Deletes(hashes) == LET order == SetToSeq(hashes)
                   IN  [i \in DOMAIN order |-> [op |-> "delete", hash |-> order[i], tags |-> {}]]
removeTags(h, tags) == IF tags = {} THEN <<>> ELSE <<[op |-> "removeTags", hash |-> h, tags |-> tags]>>

rejectCalls(h) == Stop(h) \o (IF has(h, "rejected") THEN <<>> ELSE AddTags(h, "rejected"))
                          \o removeTags(h, items[h].tags \cap {"waiting", "admitted"})

(* normalize, for one item: reject what is off the volume or larger than the cap, take back what
   was rejected and fits now, stop whatever runs without having been admitted. *)
normalize(h) ==
    IF ~pathsInsideDownloadRoot(h) \/ (metadataReady(h) /\ items[h].size > SoftCap) THEN rejectCalls(h)
    ELSE IF ~metadataReady(h) THEN <<>>
    ELSE IF has(h, "rejected")
         THEN Stop(h) \o AddTags(h, "waiting") \o removeTags(h, {"rejected"})
    ELSE IF has(h, "admitted") THEN <<>>
    ELSE Stop(h) \o (IF has(h, "waiting") THEN <<>> ELSE AddTags(h, "waiting"))

(* A torrent found running without leave is not admitted in the same pass. *)
blockAdmission(h) == /\ pathsInsideDownloadRoot(h) /\ metadataReady(h) /\ items[h].size <= SoftCap
                     /\ items[h].tags \cap {"rejected", "admitted"} = {}
                     /\ ~isStopped(h)

finishInterruptedAdmission(h) ==
    IF ~({"admitted", "waiting"} \subseteq items[h].tags) \/ has(h, "rejected") THEN <<>>
    ELSE IF ~fits(h) THEN Stop(h)
    ELSE (IF isStopped(h) THEN Start(h) ELSE <<>>) \o removeTags(h, {"waiting"})

admit(h) == AddTags(h, "admitted") \o Start(h) \o removeTags(h, {"waiting"})

----------------------------------------------------------------------------
(* A pass. *)

List == /\ phase = "idle"
        /\ phase' = "listed"
        /\ items' = [h \in Torrents |-> IF h \in Present(torrents)
                                        THEN [blocked |-> FALSE] @@ torrents[h] ELSE None]
        /\ UNCHANGED <<torrents, residue, usedBytes, todo, calls, late, edits>>

(* Eligible torrents are deleted and the pass ends there; otherwise normalize begins. *)
Measure ==
    /\ phase = "listed"
    /\ usedBytes' = UsedBytes
    /\ IF eligibleForDeletion # {}
       THEN /\ phase' = "delete"
            /\ calls' = Deletes(eligibleForDeletion)
            /\ UNCHANGED todo
       ELSE /\ phase' = "normalize"
            /\ todo' = SetToSeq(Present(items))
            /\ UNCHANGED calls
    /\ UNCHANGED <<torrents, residue, items, late, edits>>

Visiting(p) == phase = p /\ calls = <<>> /\ todo # <<>>

VisitNormalize ==
    /\ Visiting("normalize")
    /\ calls' = normalize(Head(todo))
    /\ items' = [items EXCEPT ![Head(todo)].blocked = blockAdmission(Head(todo))]
    /\ todo' = Tail(todo)
    /\ UNCHANGED <<torrents, residue, phase, usedBytes, late, edits>>

VisitInterrupted ==
    /\ Visiting("finish")
    /\ calls' = finishInterruptedAdmission(Head(todo))
    /\ todo' = Tail(todo)
    /\ UNCHANGED <<torrents, residue, phase, items, usedBytes, late, edits>>

(* A candidate that fits is admitted; one for which others can be evicted ends the pass with
   their deletion; the first for which neither is possible ends the loop. *)
VisitCandidate ==
    /\ Visiting("admit")
    /\ LET h == Head(todo) IN
         IF ~isStopped(h) THEN todo' = Tail(todo) /\ UNCHANGED <<phase, calls>>
         ELSE IF fits(h) THEN calls' = admit(h) /\ todo' = Tail(todo) /\ UNCHANGED phase
         ELSE IF pressureEvictions(h) # {}
              THEN /\ phase' = "delete" /\ todo' = <<>>
                   /\ \E E \in pressureEvictions(h) : calls' = Deletes(E)
              ELSE todo' = <<>> /\ UNCHANGED <<phase, calls>>
    /\ UNCHANGED <<torrents, residue, items, usedBytes, late, edits>>

NextPhase ==
    /\ calls = <<>> /\ todo = <<>>
    /\ \/ phase = "normalize" /\ phase' = "finish" /\ todo' = SetToSeq(Present(items))
       \/ phase = "finish" /\ phase' = "admit" /\ todo' = SetToSeq(waitingCandidates)
    /\ UNCHANGED <<torrents, residue, items, usedBytes, calls, late, edits>>

(* What a call does to a torrent; a hash qBittorrent does not know is ignored. *)
Applied(ts, c) ==
    IF ts[c.hash] \in {None, Gone} THEN ts
    ELSE CASE c.op = "stop" -> [ts EXCEPT ![c.hash].running = FALSE]
           [] c.op = "start" -> [ts EXCEPT ![c.hash].running = TRUE]
           [] c.op = "addTags" -> [ts EXCEPT ![c.hash].tags = @ \cup c.tags]
           [] c.op = "removeTags" -> [ts EXCEPT ![c.hash].tags = @ \ c.tags]
           [] c.op = "delete" -> [ts EXCEPT ![c.hash] = Gone]

Lands(c) == /\ torrents' = Applied(torrents, c)
            /\ residue' = residue + IF c.op = "delete" /\ c.hash \in Present(torrents)
                                    THEN torrents[c.hash].completed ELSE 0

EndPass == /\ phase' = "idle" /\ todo' = <<>> /\ calls' = <<>> /\ usedBytes' = 0
           /\ items' = [h \in Torrents |-> None]

CallSucceeds == /\ calls # <<>>
                /\ Lands(Head(calls))
                /\ items' = Applied(items, Head(calls))
                /\ calls' = Tail(calls)
                /\ UNCHANGED <<phase, usedBytes, todo, late, edits>>

(* The pass ends; the call had no effect, had its effect, or is still on its way. *)
CallFails == /\ calls # <<>>
             /\ EndPass
             /\ \/ UNCHANGED <<torrents, residue, late>>
                \/ Lands(Head(calls)) /\ UNCHANGED late
                \/ /\ Cardinality(late) < MaxLate
                   /\ late' = late \cup {Head(calls)} /\ UNCHANGED <<torrents, residue>>
             /\ UNCHANGED edits

LateCallLands == \E c \in late : /\ Lands(c)
                                 /\ late' = late \ {c}
                                 /\ UNCHANGED <<passVars, edits>>

(* The pass is over; or the process is stopped, or List or UsedBytes fails. *)
PassEnds == /\ phase # "idle"
            /\ EndPass
            /\ UNCHANGED <<torrents, residue, late, edits>>

----------------------------------------------------------------------------
(* qBittorrent and the owner of the torrents. *)

Change(h, t) == torrents' = [torrents EXCEPT ![h] = t]

Add(h) == /\ torrents[h] = None
          /\ \E size \in Sizes, running, ready, inside \in BOOLEAN :
                 Change(h, [size |-> size, completed |-> 0, tags |-> {}, running |-> running,
                            ready |-> ready, inside |-> inside, ripe |-> FALSE])
          /\ UNCHANGED <<residue, passVars, late, edits>>

Progress(h) == /\ h \in Present(torrents)
               /\ LET t == torrents[h] IN
                    \/ t.running /\ t.ready /\ t.completed < t.size
                         /\ Change(h, [t EXCEPT !.completed = @ + 1])
                    \/ ~t.ready /\ Change(h, [t EXCEPT !.ready = TRUE])
                    \/ t.completed = t.size /\ ~t.ripe /\ Change(h, [t EXCEPT !.ripe = TRUE])
               /\ UNCHANGED <<residue, passVars, late, edits>>

Edit(h) == /\ h \in Present(torrents) /\ edits < MaxEdits
           /\ edits' = edits + 1
           /\ LET t == torrents[h] IN
                \/ Change(h, [t EXCEPT !.running = ~@]) /\ UNCHANGED residue
                \/ Change(h, [t EXCEPT !.inside = ~@]) /\ UNCHANGED residue
                \/ "keep" \notin t.tags /\ Change(h, [t EXCEPT !.tags = @ \cup {"keep"}])
                     /\ UNCHANGED residue
                \/ t.size > Max({1, t.completed}) /\ Change(h, [t EXCEPT !.size = @ - 1])
                     /\ UNCHANGED residue
                \/ Change(h, Gone) /\ residue' = residue + t.completed
           /\ UNCHANGED <<passVars, late>>

SpaceIsFreed == residue > 0 /\ residue' = 0 /\ UNCHANGED <<torrents, passVars, late, edits>>

Next == \/ List \/ Measure \/ VisitNormalize \/ VisitInterrupted \/ VisitCandidate \/ NextPhase
        \/ CallSucceeds \/ CallFails \/ LateCallLands \/ PassEnds \/ SpaceIsFreed
        \/ \E h \in Torrents : Add(h) \/ Progress(h) \/ Edit(h)

Spec == Init /\ [][Next]_housekeeperVars

(* The torrents whose admission is complete (tagged admitted, no longer waiting, not rejected)
   together never ask for more than the soft cap, whichever calls of admit, normalize and
   finishInterruptedAdmissions were lost, repeated or, one at a time, late: the waiting tag that
   admit removes last is what makes the next pass ask again.  Two late calls of one torrent, its
   tag and its untag, that outlive its move off the volume and back are beyond it. *)
ReservationsFit ==
    Sum({h \in Present(torrents) : torrents[h].tags \cap {"admitted", "waiting", "rejected"} = {"admitted"}},
        LAMBDA h : torrents[h].size) <= SoftCap
=============================================================================
