----------------------------- MODULE PhoneRelay -----------------------------
(***************************************************************************)
(* The relay's connection to the phone (internal/phone/relay.go): a viewer *)
(* count, a wish ("desired") to stream, one connect loop that owns the     *)
(* wish, and at most one kept media connection.  Every method takes r.mu   *)
(* once, so a method is one step; a loop goroutine takes the lock several  *)
(* times and is interleaved with everything between two of its steps.      *)
(*                                                                         *)
(* A loop is named by a slot that is free again once its goroutine has     *)
(* ended, and a connection by the loop that dialled it: a loop has one     *)
(* dial and one connection at a time, so both names are unambiguous and    *)
(* the generation counters the code compares need no bound here.           *)
(***************************************************************************)
EXTENDS Naturals, FiniteSets

CONSTANTS
    Loops,             \* slots for connect loops whose goroutine is alive
    Backends,          \* the configured phones
    MaxViewers,        \* bound on the viewer count
    MaxStops,          \* bound on stop calls on their way at one time
    NoViewerStopDelay, \* cfg.NoViewerStopDelay; 0 stops without a timer
    None               \* no loop, no connection

ASSUME RelayAssumption ==
    /\ IsFiniteSet(Loops)
    /\ None \notin Loops
    /\ MaxViewers \in Nat /\ MaxStops \in Nat /\ NoViewerStopDelay \in Nat

VARIABLES
    viewers,     \* Relay.viewers
    desired,     \* Relay.desired
    owner,       \* the loop of Relay.loopContext, or None
    videoConn,   \* the loop whose connection is Relay.videoConn, or None
    backend,     \* cfg.BackendID and cfg.BaseURL
    lastDial,    \* the loop that last advanced dialAttemptGeneration
    idleStop,    \* Relay.idleStop: "none", "armed", or "fired" but still set
    stops,       \* calls of stopIfStillIdle on their way to the lock
    loop         \* goroutine of each slot: program counter and dialled phone

relayVars == <<viewers, desired, owner, videoConn, backend, lastDial,
               idleStop, stops, loop>>

LoopPC == {"free", "check", "url", "dialing", "connected", "ended", "exiting"}

Free == [pc |-> "free", target |-> None]

TypeOK ==
    /\ viewers \in 0..MaxViewers
    /\ desired \in BOOLEAN
    /\ owner \in Loops \cup {None}
    /\ videoConn \in Loops \cup {None}
    /\ backend \in Backends
    /\ lastDial \in Loops \cup {None}
    /\ idleStop \in {"none", "armed", "fired"}
    /\ stops \in 0..MaxStops
    /\ loop \in [Loops -> [pc : LoopPC, target : Backends \cup {None}]]

(* NewRelay: nobody watches and no loop runs. *)
Init ==
    /\ viewers = 0
    /\ desired = FALSE
    /\ owner = None
    /\ videoConn = None
    /\ backend \in Backends
    /\ lastDial = None
    /\ idleStop = "none"
    /\ stops = 0
    /\ loop = [l \in Loops |-> Free]

Cancelled(l) == owner # l

ShouldRun == desired /\ viewers > 0

FreeLoops == {l \in Loops : loop[l].pc = "free"}

FreeLoop == CHOOSE l \in FreeLoops : TRUE

(* newConnectLoopLocked and the goroutine started with its context. *)
NewConnectLoop ==
    /\ FreeLoops # {}
    /\ owner' = FreeLoop
    /\ loop' = [loop EXCEPT ![FreeLoop].pc = "check"]

-----------------------------------------------------------------------------

AddViewer ==
    /\ viewers < MaxViewers
    /\ viewers' = viewers + 1
    /\ desired' = TRUE
    /\ idleStop' = "none"
    /\ IF owner = None
       THEN NewConnectLoop
       ELSE UNCHANGED <<owner, loop>>
    /\ UNCHANGED <<videoConn, backend, lastDial, stops>>

(* Mutants of RemoveViewer: no floor, and a timer only for a count above 1. *)
RemoveWithoutFloor ==
    /\ viewers' = IF viewers > 0 THEN viewers - 1 ELSE MaxViewers + 1
    /\ idleStop' = IF viewers' = 0 /\ desired THEN "armed" ELSE idleStop
    /\ UNCHANGED <<stops, desired, owner, videoConn, backend, lastDial, loop>>

RemoveTestsOldCount ==
    /\ viewers' = IF viewers > 0 THEN viewers - 1 ELSE 0
    /\ idleStop' = IF viewers = 0 /\ desired THEN "armed" ELSE idleStop
    /\ UNCHANGED <<stops, desired, owner, videoConn, backend, lastDial, loop>>

(* The last viewer to leave arms the stop timer, or starts the call itself *)
(* when no delay is configured.                                            *)
RemoveViewer ==
    /\ viewers' = IF viewers > 0 THEN viewers - 1 ELSE 0
    /\ IF viewers' = 0 /\ desired
       THEN IF NoViewerStopDelay = 0
            THEN /\ stops < MaxStops
                 /\ stops' = stops + 1
                 /\ idleStop' = "none"
            ELSE idleStop' = "armed" /\ UNCHANGED stops
       ELSE UNCHANGED <<idleStop, stops>>
    /\ UNCHANGED <<desired, owner, videoConn, backend, lastDial, loop>>

(* time.AfterFunc: from here on Timer.Stop comes too late. *)
IdleTimerFires ==
    /\ idleStop = "armed"
    /\ stops < MaxStops
    /\ idleStop' = "fired"
    /\ stops' = stops + 1
    /\ UNCHANGED <<viewers, desired, owner, videoConn, backend, lastDial, loop>>

(* The call does not know which timer started it: it forgets the current   *)
(* one, which then runs out uncancelled and calls once more.               *)
StopIfStillIdle ==
    /\ stops > 0
    /\ stops' = stops - 1 + (IF idleStop = "armed" THEN 1 ELSE 0)
    /\ idleStop' = "none"
    /\ IF viewers > 0 \/ ~desired
       THEN UNCHANGED <<desired, owner, videoConn>>
       ELSE /\ desired' = FALSE
            /\ owner' = None
            /\ videoConn' = None
    /\ UNCHANGED <<viewers, backend, lastDial, loop>>

Close ==
    /\ idleStop' = "none"
    /\ desired' = FALSE
    /\ viewers' = 0
    /\ owner' = None
    /\ videoConn' = None
    /\ UNCHANGED <<backend, lastDial, stops, loop>>

SwitchBackend(b) ==
    /\ b # backend
    /\ idleStop' = "none"
    /\ videoConn' = None
    /\ backend' = b
    /\ IF ShouldRun
       THEN NewConnectLoop
       ELSE owner' = None /\ UNCHANGED loop
    /\ UNCHANGED <<viewers, desired, lastDial, stops>>

-----------------------------------------------------------------------------
(* connectLoop: the goroutine of slot l. *)

Goto(l, from, to) ==
    /\ loop[l].pc = from
    /\ loop' = [loop EXCEPT ![l].pc = to]

Shared == <<viewers, desired, backend, idleStop, stops>>

(* The test at the head of the loop. *)
LoopCheck(l) ==
    /\ Goto(l, "check", IF Cancelled(l) \/ ~ShouldRun THEN "exiting" ELSE "url")
    /\ UNCHANGED <<Shared, owner, videoConn, lastDial>>

(* Mutant of ReadURL: the dial does not advance dialAttemptGeneration. *)
ReadURLUnclaimed(l) ==
    /\ loop[l].pc = "url"
    /\ \E b \in IF Cancelled(l) THEN Backends ELSE {backend} :
           loop' = [loop EXCEPT ![l] = [pc |-> "dialing", target |-> b]]
    /\ UNCHANGED <<Shared, lastDial, owner, videoConn>>

(* websocketURL reads cfg.BaseURL without the lock: a loop that races with *)
(* a switch may see either phone.                                          *)
ReadURL(l) ==
    /\ loop[l].pc = "url"
    /\ \E b \in IF Cancelled(l) THEN Backends ELSE {backend} :
           loop' = [loop EXCEPT ![l] = [pc |-> "dialing", target |-> b]]
    /\ lastDial' = l
    /\ UNCHANGED <<Shared, owner, videoConn>>

(* The dial failed, timed out, or was cancelled. *)
DialFails(l) ==
    /\ Goto(l, "dialing", "ended")
    /\ UNCHANGED <<Shared, owner, videoConn, lastDial>>

(* Mutant of Admitted: the loop's context is not looked at again. *)
AdmittedUnchecked(l) == desired /\ lastDial = l

(* The phone answered: the connection is kept only while this dial is the  *)
(* newest and its loop still owns the wish; otherwise it is closed at once.*)
Admitted(l) == desired /\ lastDial = l /\ ~Cancelled(l)

DialSucceeds(l) ==
    /\ Goto(l, "dialing", IF Admitted(l) THEN "connected" ELSE "ended")
    /\ videoConn' = IF Admitted(l) THEN l ELSE videoConn
    /\ UNCHANGED <<Shared, owner, lastDial>>

(* The reader or the liveness loop failed, or the loop was cancelled; the  *)
(* deferred clean-up clears the connection only if it is still this one.   *)
Disconnect(l) ==
    /\ Goto(l, "connected", "ended")
    /\ videoConn' = IF videoConn = l THEN None ELSE videoConn
    /\ UNCHANGED <<Shared, owner, lastDial>>

(* The second test; a loop that goes on waits out its delay first, and a   *)
(* cancelled wait ends where the test at the head would end it.            *)
AfterAttempt(l) ==
    /\ Goto(l, "ended", IF Cancelled(l) \/ ~ShouldRun THEN "exiting" ELSE "check")
    /\ UNCHANGED <<Shared, owner, videoConn, lastDial>>

(* Mutant of FinishConnectLoop: nobody takes over from a loop that ends. *)
FinishWithoutHandOver(l) ==
    /\ loop[l].pc = "exiting"
    /\ loop' = [loop EXCEPT ![l] = Free]
    /\ owner' = IF Cancelled(l) THEN owner ELSE None
    /\ UNCHANGED <<Shared, videoConn, lastDial>>

(* finishConnectLoop: an owner that ends hands the wish to a new loop when *)
(* a viewer arrived after it had decided to end.                           *)
FinishConnectLoop(l) ==
    /\ loop[l].pc = "exiting"
    /\ IF Cancelled(l)
       THEN /\ loop' = [loop EXCEPT ![l] = Free]
            /\ UNCHANGED owner
       ELSE IF ShouldRun
            THEN /\ FreeLoops # {}
                 /\ owner' = FreeLoop
                 /\ loop' = [loop EXCEPT ![l] = Free, ![FreeLoop].pc = "check"]
            ELSE /\ loop' = [loop EXCEPT ![l] = Free]
                 /\ owner' = None
    /\ UNCHANGED <<Shared, videoConn, lastDial>>

LoopStep(l) ==
    \/ LoopCheck(l)
    \/ ReadURL(l)
    \/ DialFails(l)
    \/ DialSucceeds(l)
    \/ Disconnect(l)
    \/ AfterAttempt(l)
    \/ FinishConnectLoop(l)

Next ==
    \/ AddViewer
    \/ RemoveViewer
    \/ IdleTimerFires
    \/ StopIfStillIdle
    \/ Close
    \/ \E b \in Backends : SwitchBackend(b)
    \/ \E l \in Loops : LoopStep(l)

Spec == Init /\ [][Next]_relayVars

(* Timers and goroutines run; a kept connection may last for ever, but a   *)
(* cancelled one is given up; and a phone that is dialled again and again  *)
(* answers a dial that is still wanted in the end.                         *)
Fairness ==
    /\ WF_relayVars(IdleTimerFires)
    /\ WF_relayVars(StopIfStillIdle)
    /\ \A l \in Loops :
          /\ WF_relayVars(LoopStep(l) /\ (Cancelled(l) \/ loop[l].pc # "connected"))
          /\ SF_relayVars(DialSucceeds(l) /\ Admitted(l))

LiveSpec == Spec /\ Fairness

-----------------------------------------------------------------------------

(* While somebody watches there is a live loop that owns the wish: the     *)
(* last test of a loop and its clean-up are two critical sections, and a   *)
(* viewer who arrives between them is handed to a new loop.                *)
NoViewerWithoutLoop ==
    viewers > 0 => /\ desired
                   /\ owner # None
                   /\ loop[owner].pc # "free"

(* The kept connection belongs to the loop that owns the wish and leads to *)
(* the configured phone, whatever dial answered late around a switch.      *)
ConnectionIsCurrent ==
    videoConn # None => /\ owner = videoConn
                        /\ loop[videoConn].pc = "connected"
                        /\ loop[videoConn].target = backend

(* A connection nobody watches has a stop call ahead of it, although the   *)
(* stop calls cancel and overtake each other.                              *)
IdleConnectionIsStopped ==
    videoConn # None /\ viewers = 0 => idleStop = "armed" \/ stops > 0

(* The relay's state is well-formed, viewers have a live loop, the kept    *)
(* connection is the owner's to the configured phone, and one that nobody  *)
(* watches is about to be stopped.                                         *)
RelayIsSound ==
    TypeOK /\ NoViewerWithoutLoop /\ ConnectionIsCurrent /\ IdleConnectionIsStopped

(* Once the phone is no longer switched, somebody who watches gets a       *)
(* connection or leaves: no loop ends, backs off or overtakes another dial *)
(* in a way that leaves a viewer waiting for ever.                         *)
ViewerGetsConnection ==
    <>[][\A b \in Backends : ~SwitchBackend(b)]_relayVars
        => (viewers > 0 ~> (videoConn # None \/ viewers = 0))
=============================================================================
