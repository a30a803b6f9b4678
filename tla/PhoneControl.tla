---------------------------- MODULE PhoneControl ----------------------------
(***************************************************************************)
(* The phone's own account of what its screen allows                       *)
(* (workloads/ticket-remote/spacetimedb/src/phone_control.rs): one row,    *)
(* owned by the phone worker's current session, that a member's request    *)
(* must find ready before it may act on what the member saw.               *)
(*                                                                         *)
(* Worker processes come and go.  Each draws a session identifier of its   *)
(* own, reads the row's owner once when it starts, and its calls may then  *)
(* arrive late, repeated or out of order, also after a newer process has   *)
(* taken over.                                                             *)
(***************************************************************************)
EXTENDS Integers

CONSTANTS
    Sessions,   \* identifiers of worker sessions
    NoSession,  \* the empty identifier: no row yet
    TTL,        \* PHONE_OBSERVATION_TTL_MS (3 s)
    MaxSeq,     \* bound: observations per session
    MaxTime     \* bound: how long the clock runs

ASSUME SessionAssumption == NoSession \notin Sessions
ASSUME BoundAssumption == TTL \in Nat \ {0} /\ MaxSeq \in Nat /\ MaxTime \in Nat

VARIABLES
    row,      \* ticketremote_phone_control_state
    lane,     \* is the phone-mutation lane taken (PhoneLane)
    now,      \* the database's clock
    read,     \* external: the owner each process has read
    sent,     \* external: observations the processes have published
    former    \* history: sessions that have been superseded

vars == <<row, lane, now, read, sent, former>>

(* detail: one of the two ticket-detail views.  A contextRevision starts   *)
(* with the session that made it and is kept as that session.              *)
Row == [session : Sessions \cup {NoSession}, context : Sessions \cup {NoSession},
        seq : Nat, detail : BOOLEAN, ready : BOOLEAN, busy : BOOLEAN,
        observedAt : Nat, expiresAt : Nat]

(* captured: when the screen was really read, which the worker only knows  *)
(* a lower bound of (observedAt).                                          *)
Observation == [session : Sessions, context : Sessions, seq : Nat \ {0},
                detail : BOOLEAN, ready : BOOLEAN, busy : BOOLEAN,
                observedAt : Nat, captured : Nat]

-----------------------------------------------------------------------------
(* Mutant: the empty lease is dated back instead of ending now.            *)
LeaseDatedBack(s) ==
    [session |-> s, context |-> NoSession, seq |-> 0, detail |-> FALSE,
     ready |-> FALSE, busy |-> FALSE, observedAt |-> 0, expiresAt |-> now - TTL]

begin_session(s) ==
    [session |-> s, context |-> NoSession, seq |-> 0, detail |-> FALSE,
     ready |-> FALSE, busy |-> FALSE, observedAt |-> 0, expiresAt |-> now]

(* Mutant: the expected owner is not compared.                             *)
OwnerUnchecked(s) == row.session # s

OwnerUnchanged(s) == row.session # s /\ row.session = read[s]

(* The owner's own call again only renews its clock anchor.                *)
begin_phone_control_session(s) ==
    /\ read[s] # s /\ OwnerUnchanged(s)
    /\ row' = begin_session(s)
    /\ former' = former \cup ({row.session} \ {NoSession})
    /\ UNCHANGED <<lane, now, read, sent>>

(* Mutant: a repeated observation is accepted again.                       *)
AcceptRepeated(m) ==
    /\ m.session = row.session /\ m.seq >= row.seq /\ m.context = m.session
    /\ m.ready => ~m.busy /\ m.detail

validate_observation(m) ==
    /\ m.session = row.session /\ m.seq > row.seq
    /\ m.context = m.session
    /\ m.ready =>
         /\ m.observedAt > 0 /\ m.observedAt > row.observedAt
         /\ m.observedAt <= now /\ now - m.observedAt < TTL
         /\ ~m.busy /\ m.detail

(* Mutant: the lease runs from the moment the observation arrives.         *)
LeaseFromArrival(m, ready) == IF ready THEN now + TTL ELSE now

Lease(m, ready) == IF ready THEN m.observedAt + TTL ELSE now

publish_phone_control_state(m) ==
    LET busy == m.busy \/ lane
        ready == m.ready /\ ~busy
    IN /\ m \in sent /\ validate_observation(m)
       /\ row' = [session |-> row.session, context |-> m.context, seq |-> m.seq,
                  detail |-> m.detail, ready |-> ready, busy |-> busy,
                  observedAt |-> m.observedAt, expiresAt |-> Lease(m, ready)]
       /\ UNCHANGED <<lane, now, read, sent, former>>

phone_control_ready(expected) ==
    /\ row.ready /\ ~row.busy /\ row.detail /\ row.context = expected
    /\ row.observedAt > 0 /\ row.observedAt <= now /\ row.expiresAt > now

-----------------------------------------------------------------------------
(* The worker processes (external), the lane and the clock.                *)

ProcessStarts(s) ==
    /\ read[s] = s /\ row.session # s /\ s \notin former
    /\ read' = [read EXCEPT ![s] = row.session]
    /\ UNCHANGED <<row, lane, now, sent, former>>

(* A process publishes once its own begin call has succeeded.              *)
Observe(m) ==
    /\ m.session \in former \cup {row.session}
    /\ m.captured = now /\ m.observedAt <= now
    /\ m.seq <= MaxSeq
    /\ \A older \in sent : older.session = m.session => older.seq < m.seq
    /\ sent' = sent \cup {m}
    /\ UNCHANGED <<row, lane, now, read, former>>

LaneChanges == lane' = ~lane /\ UNCHANGED <<row, now, read, sent, former>>

Tick == now < MaxTime /\ now' = now + 1 /\ UNCHANGED <<row, lane, read, sent, former>>

Init ==
    /\ row = [session |-> NoSession, context |-> NoSession, seq |-> 0, detail |-> FALSE,
              ready |-> FALSE, busy |-> FALSE, observedAt |-> 0, expiresAt |-> 0]
    /\ lane = FALSE /\ now = 1 /\ read = [s \in Sessions |-> s]
    /\ sent = {} /\ former = {}

(* What one reading of the screen can say: ready on a detail view, not     *)
(* ready because the worker is busy there, or another view, of which no    *)
(* time of observation is kept.                                            *)
Readings ==
    {m \in [session : Sessions, context : Sessions, seq : 1..MaxSeq,
            detail : BOOLEAN, ready : BOOLEAN, busy : BOOLEAN,
            observedAt : 0..now, captured : {now}] :
        /\ m.context = m.session
        /\ m.ready = (m.detail /\ ~m.busy) /\ (m.busy => m.detail)
        /\ m.busy => m.observedAt = now
        /\ ~m.detail => m.observedAt = 0}

Next ==
    \/ \E s \in Sessions : ProcessStarts(s) \/ begin_phone_control_session(s)
    \/ \E m \in Readings : Observe(m)
    \/ \E m \in sent : publish_phone_control_state(m)
    \/ LaneChanges
    \/ Tick

Spec == Init /\ [][Next]_vars

-----------------------------------------------------------------------------
(* The shapes of the state.                                                *)
TypeOK ==
    /\ row \in Row /\ lane \in BOOLEAN /\ now \in Nat
    /\ read \in [Sessions -> Sessions \cup {NoSession}]
    /\ sent \subseteq Observation /\ former \subseteq Sessions

(* A session that has been superseded never owns the row again, however    *)
(* late its calls arrive: the compare-and-set of begin_session.            *)
NoReclaim == row.session \notin former

(* What a member's request relies on: the context it names is of the       *)
(* current session, and that session itself said ready in its newest       *)
(* accepted observation, of a screen read less than TTL ago.               *)
ReadinessIsCurrent ==
    \A c \in Sessions : phone_control_ready(c) =>
       /\ c = row.session /\ c \notin former
       /\ \E m \in sent : /\ m.session = c /\ m.seq = row.seq /\ m.ready
                          /\ now < m.captured + TTL

(* The row is well-formed, is never a superseded session's again, and tells *)
(* of the current session's screen whenever a request may rely on it.      *)
ControlIsSound == TypeOK /\ NoReclaim /\ ReadinessIsCurrent

(* Only a newer observation of the session renews its lease: a repeated    *)
(* or overtaken publication, a reconnect or the passing of time does not,  *)
(* and an older observation never replaces a newer one.                    *)
OnlyNewerRenews ==
    [][row'.session = row.session =>
         /\ row'.seq >= row.seq
         /\ row'.expiresAt > row.expiresAt => row'.seq > row.seq]_vars
=============================================================================
