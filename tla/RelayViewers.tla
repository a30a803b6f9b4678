---------------------------- MODULE RelayViewers ----------------------------
(***************************************************************************)
(* Who keeps the phone streaming: the browser sockets, the two timed       *)
(* leases of a session (startup grace and page-open warmth), the reference *)
(* count they share (internal/web/relay_viewers.go), the opening that owns *)
(* the startup lease (event_sink.go), the newest-only writer of the        *)
(* desired state (stream_control.go) and the cold-restart barrier that     *)
(* wipes all of it (cold_restart.go).                                      *)
(*                                                                         *)
(* A critical section of streamLifecycleMu is one step; startupLeaseMu     *)
(* makes a lease change and its reference one step as well.  A socket      *)
(* takes these locks one after the other and is interleaved in between.    *)
(***************************************************************************)
EXTENDS Naturals, FiniteSets

CONSTANTS
    Sockets,        \* browser video sockets
    Sessions,       \* browser sessions
    Openings,       \* page loads, each with a fresh trace id
    SessionOf,      \* session of a socket and of an opening
    OpeningOf,      \* page load a socket belongs to
    MaxPerSession,  \* maxBrowserSocketsPerSession
    MaxGeneration,  \* bound on relayViewerGeneration
    None

Unowned == "unowned"

ASSUME ViewersAssumption ==
    /\ IsFiniteSet(Sockets) /\ IsFiniteSet(Sessions)
    /\ SessionOf \in [Sockets \cup Openings -> Sessions]
    /\ OpeningOf \in [Sockets -> Openings]
    /\ Openings \cap {None, Unowned} = {} /\ Sockets \cap {"startup", "warm"} = {}
    /\ None # Unowned /\ None \notin BOOLEAN
    /\ MaxPerSession \in Nat /\ MaxGeneration \in Nat

VARIABLES
    barrier,      \* "open", "blocking" (flag stored), "quiesced"
    generation,   \* relayViewerGeneration
    refs,         \* relayViewerRefs
    viewers,      \* viewer count of the phone relay
    startup,      \* startup lease of a session: owner, Unowned, or None
    warm,         \* sessions with a page-open lease
    opening,      \* directStreamHub.opening: trace id, or None
    active,       \* the opening is neither complete nor too old
    page,         \* a page load: "new", "prewarm", "warm", "done"
    sock,         \* program counter of a socket
    trace,        \* startupTraceID of a socket: its opening, or None
    held,         \* generation a socket was told by addRelayViewer
    counted,      \* history: addRelayViewer took a reference for the socket
    shown,        \* sockets whose browser reported a picture
    videoClients, \* activeVideoClients
    pending,      \* streamDesiredPending
    writing,      \* update the writer has taken
    published,    \* desired state in the database, None after a failed write
    timer,        \* idle release timer is armed
    releasing     \* a release call is on its way to the lock

sockVars == <<sock, trace, held, counted, shown, videoClients>>
leaseVars == <<refs, viewers, startup, warm>>
openVars == <<opening, active, page>>
pubVars == <<pending, writing, published, timer, releasing>>
viewerVars == <<barrier, generation, leaseVars, openVars, sockVars, pubVars>>

SockPC == {"closed", "referenced", "open", "leaving", "left"}

TypeOK ==
    /\ barrier \in {"open", "blocking", "quiesced"}
    /\ generation \in 0..MaxGeneration
    /\ refs \in [Sessions -> 0..(Cardinality(Sockets) + 2)]
    /\ viewers \in 0..Cardinality(Sessions)
    /\ startup \in [Sessions -> Openings \cup {Unowned, None}]
    /\ warm \in SUBSET Sessions
    /\ opening \in Openings \cup {None}
    /\ active \in BOOLEAN
    /\ page \in [Openings -> {"new", "prewarm", "warm", "done"}]
    /\ sock \in [Sockets -> SockPC]
    /\ trace \in [Sockets -> Openings \cup {None}]
    /\ held \in [Sockets -> 0..MaxGeneration]
    /\ counted \in [Sockets -> BOOLEAN]
    /\ shown \in SUBSET Sockets
    /\ videoClients \in 0..Cardinality(Sockets)
    /\ pending \in BOOLEAN \cup {None}
    /\ writing \in BOOLEAN \cup {None}
    /\ published \in BOOLEAN \cup {None}
    /\ timer \in BOOLEAN
    /\ releasing \in BOOLEAN

Init ==
    /\ barrier = "open"
    /\ generation = 0
    /\ refs = [s \in Sessions |-> 0]
    /\ viewers = 0
    /\ startup = [s \in Sessions |-> None]
    /\ warm = {}
    /\ opening = None
    /\ active = FALSE
    /\ page = [o \in Openings |-> "new"]
    /\ sock = [c \in Sockets |-> "closed"]
    /\ trace = [c \in Sockets |-> None]
    /\ held = [c \in Sockets |-> 0]
    /\ counted = [c \in Sockets |-> FALSE]
    /\ shown = {}
    /\ videoClients = 0
    /\ pending = None
    /\ writing = None
    /\ published = FALSE
    /\ timer = FALSE
    /\ releasing = FALSE

Blocked == barrier # "open"

(* streamDemandStillPresent, in this state and in the next one. *)
Demand == videoClients > 0 \/ viewers > 0

-----------------------------------------------------------------------------
(* Publication of the desired state. *)

(* Mutant of Enqueue: an update that is waiting is not replaced. *)
EnqueueKeepsOldest(v) == pending' = IF Blocked \/ pending # None THEN pending ELSE v

(* enqueueStreamDesiredState: newest-only, and nothing behind the barrier. *)
Enqueue(v) == pending' = IF Blocked THEN pending ELSE v

(* scheduleIdleStreamDesiredRelease: the timer it leaves when m viewers    *)
(* are counted.                                                            *)
IdleRelease(m) == IF Blocked THEN timer ELSE videoClients = 0 /\ m = 0

(* addRelayViewerLocked: the first reference of a session adds a viewer.   *)
(* AddRef and DropRef set refs, viewers and pending, and leave timer t     *)
(* when they do not touch the release timer themselves.                    *)
AddRef(s, t) ==
    IF Blocked
    THEN timer' = t /\ UNCHANGED <<refs, viewers, pending>>
    ELSE /\ refs' = [refs EXCEPT ![s] = @ + 1]
         /\ IF refs[s] > 0
            THEN timer' = t /\ UNCHANGED <<viewers, pending>>
            ELSE /\ viewers' = viewers + 1
                 /\ timer' = FALSE
                 /\ Enqueue(TRUE)

(* removeRelayViewerLocked. *)
DropRef(s, t) ==
    /\ refs' = [refs EXCEPT ![s] = IF @ > 0 THEN @ - 1 ELSE 0]
    /\ IF refs[s] # 1
       THEN timer' = t /\ UNCHANGED <<viewers, pending>>
       ELSE /\ viewers' = IF viewers > 0 THEN viewers - 1 ELSE 0
            /\ IF \E u \in Sessions \ {s} : refs[u] > 0
               THEN Enqueue(TRUE) /\ timer' = t
               ELSE timer' = IdleRelease(viewers') /\ UNCHANGED pending

(* takePendingStreamDesiredState by the sole writer. *)
TakePending ==
    /\ writing = None /\ pending # None
    /\ writing' = pending
    /\ pending' = None
    /\ UNCHANGED <<barrier, generation, leaseVars, openVars, sockVars,
                   published, timer, releasing>>

(* publishStreamDesiredState: under the lifecycle lock, and only while the *)
(* update still says what the demand is.  A failed write is logged.        *)
Publish(ok) ==
    /\ writing # None
    /\ writing' = None
    /\ IF Blocked \/ writing # Demand
       THEN ok /\ UNCHANGED published
       ELSE published' = IF ok THEN writing ELSE None
    /\ UNCHANGED <<barrier, generation, leaseVars, openVars, sockVars,
                   pending, timer, releasing>>

(* The timer of the newest schedule runs out; its call is on its way. *)
ReleaseTimerFires ==
    /\ timer
    /\ timer' = FALSE
    /\ releasing' = TRUE
    /\ UNCHANGED <<barrier, generation, leaseVars, openVars, sockVars,
                   pending, writing, published>>

(* handlePhoneDisconnect: without a video client it starts the same call,  *)
(* otherwise it schedules it.                                              *)
PhoneDisconnects ==
    /\ IF videoClients = 0
       THEN releasing' = TRUE /\ UNCHANGED timer
       ELSE timer' = IdleRelease(viewers) /\ UNCHANGED releasing
    /\ UNCHANGED <<barrier, generation, leaseVars, openVars, sockVars,
                   pending, writing, published>>

(* releaseStreamDesiredIfNoVideoClients. *)
ReleaseIfIdle ==
    /\ releasing
    /\ releasing' = FALSE
    /\ IF Demand THEN UNCHANGED pending ELSE Enqueue(FALSE)
    /\ UNCHANGED <<barrier, generation, leaseVars, openVars, sockVars,
                   writing, published, timer>>

-----------------------------------------------------------------------------
(* Leases. *)

ActiveFor(s) == active /\ SessionOf[opening] = s

(* Mutants of Retain: a renewed lease takes another reference, and a lease  *)
(* is granted to an opening that has already shown its picture.             *)
RetainCountsRenewals(s, o, t) ==
    LET may == /\ ~Blocked /\ refs[s] < Cardinality(Sockets) + 2
               /\ IF o # None THEN active /\ opening = o ELSE ~ActiveFor(s)
               /\ o # None \/ startup[s] \in {None, Unowned}
    IN  /\ startup' = IF may
                      THEN [startup EXCEPT ![s] = IF o = None THEN Unowned ELSE o]
                      ELSE startup
        /\ IF may THEN AddRef(s, t)
           ELSE timer' = t /\ UNCHANGED <<refs, viewers, pending>>

RetainPainted(s, o, t) ==
    LET may == ~Blocked /\ (o # None \/ (~ActiveFor(s) /\ startup[s] \in {None, Unowned}))
    IN  /\ startup' = IF may
                      THEN [startup EXCEPT ![s] = IF o = None THEN Unowned ELSE o]
                      ELSE startup
        /\ IF may /\ startup[s] = None
           THEN AddRef(s, t)
           ELSE timer' = t /\ UNCHANGED <<refs, viewers, pending>>

(* retainRelayViewerForOpening: a lease of opening o while o is active, or *)
(* an unowned one while the session has no active opening; an owner is     *)
(* replaced only by an opening.  The first lease takes a reference.        *)
Retain(s, o, t) ==
    LET may == /\ ~Blocked
               /\ IF o # None THEN active /\ opening = o ELSE ~ActiveFor(s)
               /\ o # None \/ startup[s] \in {None, Unowned}
    IN  /\ startup' = IF may
                      THEN [startup EXCEPT ![s] = IF o = None THEN Unowned ELSE o]
                      ELSE startup
        /\ IF may /\ startup[s] = None
           THEN AddRef(s, t)
           ELSE timer' = t /\ UNCHANGED <<refs, viewers, pending>>

(* The timer of a startup lease runs out. *)
StartupLeaseExpires(s) ==
    /\ startup[s] # None
    /\ startup' = [startup EXCEPT ![s] = None]
    /\ DropRef(s, timer)
    /\ UNCHANGED <<barrier, generation, warm, openVars, sockVars, writing,
                   published, releasing>>

WarmLeaseExpires(s) ==
    /\ s \in warm
    /\ warm' = warm \ {s}
    /\ DropRef(s, timer)
    /\ UNCHANGED <<barrier, generation, startup, openVars, sockVars, writing,
                   published, releasing>>

-----------------------------------------------------------------------------
(* A page load (identifyMemberFromRequest, prewarmAfterFreshMembership).   *)

(* startOpeningForRun replaces whatever opening there was. *)
PageLoads(o) ==
    /\ page[o] = "new"
    /\ opening' = o
    /\ active' = TRUE
    /\ page' = [page EXCEPT ![o] = "prewarm"]
    /\ UNCHANGED <<barrier, generation, leaseVars, sockVars, pubVars>>

(* prewarmStreamForSession once membership is confirmed; a superseded page *)
(* does nothing while its session has a newer opening.                     *)
Prewarm(o) ==
    /\ page[o] = "prewarm"
    /\ page' = [page EXCEPT ![o] = "warm"]
    /\ IF active /\ opening = o
       THEN Retain(SessionOf[o], o, timer)
       ELSE Retain(SessionOf[o], None, timer)
    /\ UNCHANGED <<barrier, generation, warm, opening, active, sockVars,
                   writing, published, releasing>>

(* The fresh lookup failed or the member is gone. *)
PrewarmRejected(o) ==
    /\ page[o] = "prewarm"
    /\ page' = [page EXCEPT ![o] = "done"]
    /\ UNCHANGED <<barrier, generation, leaseVars, opening, active, sockVars,
                   pubVars>>

(* retainRelayViewerForPageOpen. *)
PageOpenWarm(o) ==
    LET s == SessionOf[o] IN
    /\ page[o] = "warm"
    /\ page' = [page EXCEPT ![o] = "done"]
    /\ IF Blocked \/ s \in warm
       THEN UNCHANGED <<warm, refs, viewers, pending, timer>>
       ELSE warm' = warm \cup {s} /\ AddRef(s, timer)
    /\ UNCHANGED <<barrier, generation, startup, opening, active, sockVars,
                   writing, published, releasing>>

(* An opening is active for streamOpeningMaxAge at most. *)
OpeningTooOld ==
    /\ active
    /\ active' = FALSE
    /\ UNCHANGED <<barrier, generation, leaseVars, opening, page, sockVars, pubVars>>

-----------------------------------------------------------------------------
(* A browser socket (handleBrowserSocket). *)

Step(c, from, to) ==
    /\ sock[c] = from
    /\ sock' = [sock EXCEPT ![c] = to]

(* joinOpeningForRun: the opening of the socket's own page load, if active. *)
JoinOpening(c) == IF active /\ opening = OpeningOf[c] THEN OpeningOf[c] ELSE None

Registered(s) == {c \in Sockets : SessionOf[c] = s
                                  /\ sock[c] \in {"referenced", "open"}}

(* tryAddClient, joinOpeningForRun and addRelayViewer: behind the barrier  *)
(* no reference is taken, but the socket is told the current generation    *)
(* all the same.                                                           *)
SocketOpens(c) ==
    /\ Step(c, "closed", "referenced")
    /\ Cardinality(Registered(SessionOf[c])) < MaxPerSession
    /\ trace' = [trace EXCEPT ![c] = JoinOpening(c)]
    /\ AddRef(SessionOf[c], timer)
    /\ held' = [held EXCEPT ![c] = generation]
    /\ counted' = [counted EXCEPT ![c] = ~Blocked]
    /\ shown' = shown \ {c}
    /\ UNCHANGED <<barrier, generation, startup, warm, openVars, videoClients,
                   writing, published, releasing>>

(* The startup grace, cancelIdleStreamDesiredRelease and addVideoClient;   *)
(* then the video writer starts.                                           *)
SocketStreams(c) ==
    /\ Step(c, "referenced", "open")
    /\ Retain(SessionOf[c], trace[c], FALSE)
    /\ videoClients' = videoClients + 1
    /\ UNCHANGED <<barrier, generation, warm, openVars, trace, held, counted, shown,
                   writing, published, releasing>>

(* The first presented picture (handleStreamFeedback) completes the        *)
(* opening and gives its startup lease back.                               *)
SocketPresents(c) ==
    LET s == SessionOf[c]
        t == trace[c]
        mine == IF t # None THEN startup[s] = t
                            ELSE startup[s] = Unowned /\ ~ActiveFor(s)
    IN
    /\ sock[c] = "open" /\ c \notin shown
    /\ shown' = shown \cup {c}
    /\ active' = (active /\ opening # t)
    /\ IF mine
       THEN startup' = [startup EXCEPT ![s] = None] /\ DropRef(s, timer)
       ELSE UNCHANGED <<startup, refs, viewers, pending, timer>>
    /\ UNCHANGED <<barrier, generation, warm, opening, page, sock, trace, held, counted,
                   videoClients, writing, published, releasing>>

(* Mutant of SocketEnds: the video client is not removed. *)
SocketEndsCounted(c) ==
    /\ Step(c, "open", "leaving")
    /\ UNCHANGED <<videoClients, barrier, generation, leaseVars, openVars, trace, held,
                   counted, shown, pubVars>>

(* The reader ends: removeClient and removeVideoClient. *)
SocketEnds(c) ==
    /\ Step(c, "open", "leaving")
    /\ videoClients' = videoClients - 1
    /\ UNCHANGED <<barrier, generation, leaseVars, openVars, trace, held, counted, shown,
                   pubVars>>

(* A browser that never saw a picture leaves its grace lease behind. *)
SocketLeavesGrace(c) ==
    /\ Step(c, "leaving", "left")
    /\ IF c \in shown
       THEN UNCHANGED <<startup, refs, viewers, pending, timer>>
       ELSE Retain(SessionOf[c], trace[c], timer)
    /\ UNCHANGED <<barrier, generation, warm, openVars, trace, held, counted, shown,
                   videoClients, writing, published, releasing>>

(* scheduleIdleStreamDesiredRelease and removeRelayViewerGeneration, which *)
(* is ignored when the barrier moved on.                                   *)
SocketReleases(c) ==
    /\ Step(c, "left", "closed")
    /\ IF held[c] = generation
       THEN DropRef(SessionOf[c], IdleRelease(viewers))
       ELSE timer' = IdleRelease(viewers) /\ UNCHANGED <<refs, viewers, pending>>
    /\ counted' = [counted EXCEPT ![c] = FALSE]
    /\ trace' = [trace EXCEPT ![c] = None]
    /\ held' = [held EXCEPT ![c] = 0]
    /\ UNCHANGED <<barrier, generation, startup, warm, openVars, shown,
                   videoClients, writing, published, releasing>>

-----------------------------------------------------------------------------
(* The cold-restart barrier. *)

(* begin_cold_restart clears the desired state and refuses writes from     *)
(* then on; apply stores the flag.                                         *)
BarrierRises ==
    /\ barrier = "open" /\ generation < MaxGeneration
    /\ barrier' = "blocking"
    /\ published' = FALSE
    /\ UNCHANGED <<generation, leaseVars, openVars, sockVars, pending, writing,
                   timer, releasing>>

(* quiesceForColdRestart, at the first blocked version and at "confirmed". *)
Quiesce ==
    /\ Blocked /\ generation < MaxGeneration
    /\ barrier' = "quiesced"
    /\ generation' = generation + 1
    /\ refs' = [s \in Sessions |-> 0]
    /\ viewers' = 0
    /\ startup' = [s \in Sessions |-> None]
    /\ warm' = {}
    /\ timer' = FALSE
    /\ pending' = None
    /\ UNCHANGED <<openVars, sockVars, writing, published, releasing>>

BarrierFalls ==
    /\ barrier = "quiesced"
    /\ barrier' = "open"
    /\ UNCHANGED <<generation, leaseVars, openVars, sockVars, pubVars>>

-----------------------------------------------------------------------------

SocketStep(c) ==
    SocketStreams(c) \/ SocketLeavesGrace(c) \/ SocketReleases(c)

LeaseStep ==
    \E s \in Sessions : StartupLeaseExpires(s) \/ WarmLeaseExpires(s)

PublishStep ==
    \/ TakePending
    \/ \E ok \in BOOLEAN : Publish(ok)
    \/ ReleaseTimerFires
    \/ ReleaseIfIdle

Next ==
    \/ \E c \in Sockets : SocketOpens(c) \/ SocketStep(c) \/ SocketPresents(c)
                          \/ SocketEnds(c)
    \/ \E o \in Openings : PageLoads(o) \/ Prewarm(o) \/ PrewarmRejected(o)
                           \/ PageOpenWarm(o)
    \/ OpeningTooOld
    \/ LeaseStep
    \/ PublishStep
    \/ PhoneDisconnects
    \/ BarrierRises \/ Quiesce \/ BarrierFalls

Spec == Init /\ [][Next]_viewerVars

-----------------------------------------------------------------------------

(* Those who stand behind a reference of session s. *)
Holders(s) ==
    {c \in Sockets : SessionOf[c] = s /\ counted[c] /\ held[c] = generation}
        \cup (IF startup[s] # None THEN {"startup"} ELSE {})
        \cup (IF s \in warm THEN {"warm"} ELSE {})

(* No reference outlives its holders, and the relay counts exactly the     *)
(* sessions that have one: across leases that change owners, sockets that  *)
(* close late and the barrier that wipes the counts, nothing keeps the     *)
(* phone awake for a browser that is gone.                                 *)
NoLeakedReference ==
    /\ \A s \in Sessions : refs[s] <= Cardinality(Holders(s))
    /\ viewers = Cardinality({s \in Sessions : refs[s] > 0})

(* When nothing is on its way, the database says what the relay wants: a   *)
(* viewer is never left with a phone told to stop, and a phone is never    *)
(* left running for nobody, unless the last write failed.                  *)
QuietStateIsPublished ==
    (/\ ~Blocked /\ published # None
     /\ \A c \in Sockets : sock[c] \in {"closed", "open"}
     /\ pending = None /\ writing = None /\ ~timer /\ ~releasing)
        => (viewers > 0 => published) /\ (published => Demand)

(* After a browser has reported its first picture and given its startup    *)
(* lease back, no sibling socket or late prewarm revives that lease.       *)
PaintedOpeningHoldsNothing ==
    \A c \in shown : trace[c] # None => startup[SessionOf[c]] # trace[c]

(* The counters keep their shapes, no reference leaks, the published state *)
(* is the wanted one when all is quiet, and a painted opening is over.     *)
ViewersAreSound ==
    /\ TypeOK
    /\ NoLeakedReference
    /\ QuietStateIsPublished
    /\ PaintedOpeningHoldsNothing

(* A socket whose reference was taken in this generation keeps its viewer  *)
(* until it gives the reference back itself.                               *)
OwnViewerIsKept ==
    ~Blocked => \A c \in Sockets : counted[c] /\ held[c] = generation
                                        => refs[SessionOf[c]] > 0
=============================================================================
