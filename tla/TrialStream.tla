--------------------------------- MODULE TrialStream ----------------------------------
(* The metered trial of an invitation (web/trial_stream.go, web/server.go,               *)
(* spacetimedb/src/invitations.rs): a guest may watch for a limited time, which the      *)
(* database reserves in slices before any picture is sent.  Each socket has a meter; a   *)
(* timer gives back what a slice has left when pictures stop; a new socket of the page   *)
(* replaces the old one, another page or browser may take over, and the invitation may   *)
(* be revoked, redeemed or expire.  The answer of the database may be lost.              *)
EXTENDS Integers, FiniteSets

CONSTANTS Sockets,
          PageOf,       \* socket -> the page that opens it
          SessionOf,    \* page -> its guest session
          Slice,        \* STREAM_SLICE_MS
          Allowance,    \* streamAllowanceMs
          FrameLife,    \* how long a picture stays fresh
          MaxTime, MaxSequence,
          None

VARIABLES row,     \* TicketremoteInvitation, the parts that concern the stream
          meter,   \* socket -> trialStreamMeter, with where its writer is
          lock,    \* trialAdmissionMu: None or the socket being admitted
          time,
          result   \* resultDeliveryUntilMs: until when an accepted action's result may be shown

trialVars == <<row, meter, lock, time, result>>

Pages == {PageOf[c] : c \in Sockets}
NoTime == -1

\* generation only decides whether a callback that waits for the lock is still the newest.
newMeter == [pc |-> "off", until |-> NoTime, sequence |-> 0, closed |-> FALSE, timer |-> None, callback |-> None]

\* The timer is stopped and the generation goes on: a callback already waiting for the lock is out of date.
Stopped(m) == [m EXCEPT !.timer = None, !.callback = IF @ = None THEN None ELSE "old"]

Init ==
    /\ row = [open |-> TRUE, used |-> 0, session |-> None, past |-> {}, sequence |-> 0, started |-> 0, until |-> 0,
              charged |-> FALSE]
    /\ meter = [c \in Sockets |-> newMeter] /\ lock = None /\ time = 0
    /\ result \in {0, 2}

Least(a, b) == IF a < b THEN a ELSE b
Most(a, b) == IF a > b THEN a ELSE b

(* ---------------------------------- the database ---------------------------------- *)

release_unused(r) ==
    [r EXCEPT !.used = IF r.charged THEN @ - Most(0, r.until - Most(time, r.started)) ELSE @,
              !.charged = FALSE, !.until = time]

trial_available(r) ==
    r.open /\ r.used - (IF r.charged THEN Most(0, r.until - time) ELSE 0) < Allowance

\* A browser that takes over gets a session of its own: one that was replaced never returns.
start_invitation(page, takeover) ==
    LET session == SessionOf[page]
        mine == IF row.session = session THEN row
                ELSE [release_unused(row) EXCEPT !.session = session, !.past = @ \cup {session}]
    IN  /\ row.open /\ (row.session \in {None, session} \/ takeover)
        /\ row.session # session => session \notin row.past
        /\ trial_available(mine)
        /\ row' = mine
        /\ UNCHANGED <<meter, lock, time, result>>

mayReserve(c, sequence) == row.open /\ row.session = SessionOf[PageOf[c]] /\ row.until <= time /\ sequence > row.sequence

\* The row after a reservation, or None if it is refused.
reserve_stream(c, sequence, resultOnly) ==
    IF row.open /\ row.session = SessionOf[PageOf[c]] /\ sequence = row.sequence /\ sequence # 0 THEN row
    ELSE IF ~mayReserve(c, sequence) THEN None
    ELSE IF resultOnly
    THEN IF result <= time THEN None
         ELSE [row EXCEPT !.sequence = sequence, !.started = time, !.until = Least(time + Slice, result), !.charged = FALSE]
    ELSE IF ~trial_available(row) THEN None
    ELSE LET length == Least(Slice, Allowance - row.used) IN
         [row EXCEPT !.used = @ + length, !.charged = TRUE, !.sequence = sequence, !.started = time, !.until = time + length]

release_stream(c, sequence) ==
    IF row.session = SessionOf[PageOf[c]] /\ row.sequence = sequence THEN release_unused(row) ELSE row

\* Revoked by an administrator, or redeemed by an account.
InvitationEnds ==
    /\ row.open
    /\ row' = [release_unused(row) EXCEPT !.open = FALSE]
    /\ UNCHANGED <<meter, lock, time, result>>

(* ----------------------------------- the meter ------------------------------------ *)

\* releaseLocked: a write under way is cancelled; the call may fail.
releaseLocked(c, m) ==
    /\ \/ m.until = NoTime /\ UNCHANGED row
       \/ m.until # NoTime /\ row' \in {row, release_stream(c, m.sequence)}
    /\ meter' = [meter EXCEPT ![c] = [m EXCEPT !.until = NoTime, !.pc = IF @ = "write" THEN "ending" ELSE @]]

\* The page is hidden, or the picture has grown old after it was admitted.
pause(c) ==
    /\ meter[c].pc \in {"idle", "admitted", "write"}
    /\ releaseLocked(c, [Stopped(meter[c]) EXCEPT !.pc = IF @ = "admitted" THEN "idle" ELSE @])
    /\ UNCHANGED <<lock, time, result>>

Closed(c) == releaseLocked(c, [Stopped(meter[c]) EXCEPT !.closed = TRUE, !.pc = "off"])

SocketEnds(c) ==
    /\ meter[c].pc # "off" /\ Closed(c)
    /\ UNCHANGED <<lock, time, result>>

\* admit: within the slice nothing is asked, and the timer still runs.
AdmitAgain(c) ==
    /\ meter[c].pc = "idle" /\ time < meter[c].until
    /\ meter' = [meter EXCEPT ![c].pc = "admitted"]
    /\ UNCHANGED <<row, lock, time, result>>

\* The call, and after an error or a lost answer the same sequence once more for a result only.
admit(c) ==
    /\ meter[c].pc = "idle" /\ time >= meter[c].until /\ meter[c].sequence < MaxSequence
    /\ LET sequence == meter[c].sequence + 1
           first == reserve_stream(c, sequence, FALSE)
           second == reserve_stream(c, sequence, TRUE)
           asked == [Stopped(meter[c]) EXCEPT !.sequence = sequence]
           Granted(r) == /\ row' = r
                         /\ meter' = [meter EXCEPT ![c] = [asked EXCEPT
                                        !.pc = IF time < r.until THEN "admitted" ELSE "ending", !.until = r.until]]
           Refused(r) == row' = r /\ meter' = [meter EXCEPT ![c] = [asked EXCEPT !.pc = "ending"]]
       IN  \/ first # None /\ (Granted(first) \/ Refused(first))     \* refused: both answers are lost
           \/ second # None /\ (Granted(second) \/ Refused(second))  \* the first call is refused, or never arrives
           \/ Refused(row)
    /\ UNCHANGED <<lock, time, result>>

\* writeContext: the write has until the end of the slice; a timer may have given it back since admit.
writeContext(c) ==
    /\ meter[c].pc = "admitted"
    /\ meter' = [meter EXCEPT ![c] = [Stopped(@) EXCEPT !.pc = IF time < meter[c].until THEN "write" ELSE "ending"]]
    /\ UNCHANGED <<row, lock, time, result>>

\* written: the timer is set for the end of the picture's life or of the slice.
written(c) ==
    /\ meter[c].pc = "write" /\ time < meter[c].until
    /\ meter' = [meter EXCEPT ![c] = [Stopped(@) EXCEPT !.pc = "idle", !.timer = Least(time + FrameLife, meter[c].until)]]
    /\ UNCHANGED <<row, lock, time, result>>

TimerExpires(c) ==
    /\ meter[c].timer # None /\ time >= meter[c].timer
    /\ meter' = [meter EXCEPT ![c].timer = None, ![c].callback = "newest"]
    /\ UNCHANGED <<row, lock, time, result>>

\* The callback gets the lock.
CallbackRuns(c) ==
    /\ meter[c].callback # None
    /\ LET m == [meter[c] EXCEPT !.callback = None] IN
         \/ meter[c].callback = "newest" /\ releaseLocked(c, m)
         \/ meter[c].callback = "old" /\ meter' = [meter EXCEPT ![c] = m] /\ UNCHANGED row
    /\ UNCHANGED <<lock, time, result>>

(* ------------------------------ admission of a socket ------------------------------ *)

Trials == {c \in Sockets : meter[c].pc # "off"}

\* handleBrowserSocket: another page of the invitation has to be taken over first.
BeginAdmission(c) ==
    /\ lock = None /\ meter[c].pc = "off" /\ ~meter[c].closed
    /\ row.open /\ row.session = SessionOf[PageOf[c]]
    /\ \A other \in Trials : PageOf[other] = PageOf[c]
    /\ lock' = c
    /\ UNCHANGED <<row, meter, time, result>>

\* A mutant: the sequence is read before the sockets it replaces are closed.
admitBeforeClosing(c) ==
    /\ lock = c
    /\ meter' = [meter EXCEPT ![c] = [newMeter EXCEPT !.pc = "idle", !.sequence = row.sequence]]
    /\ lock' = None
    /\ UNCHANGED <<row, time, result>>

closeTrialClients(c) ==
    /\ lock = c
    /\ \E other \in Trials : Closed(other)
    /\ UNCHANGED <<lock, time, result>>

EndAdmission(c) ==
    /\ lock = c /\ Trials = {}
    /\ meter' = [meter EXCEPT ![c] = [newMeter EXCEPT !.pc = "idle", !.sequence = row.sequence]]
    /\ lock' = None
    /\ UNCHANGED <<row, time, result>>

AdmissionFails(c) == lock = c /\ lock' = None /\ UNCHANGED <<row, meter, time, result>>

\* A timer that is due expires, and a write whose slice is over ends, before the clock moves on.
Tick ==
    /\ time < MaxTime
    /\ \A c \in Sockets : meter[c].timer # None => time < meter[c].timer
    /\ \A c \in Sockets : meter[c].pc = "write" => time < meter[c].until
    /\ time' = time + 1
    /\ UNCHANGED <<row, meter, lock, result>>

Next ==
    \/ \E p \in Pages, takeover \in BOOLEAN : start_invitation(p, takeover)
    \/ InvitationEnds \/ Tick
    \/ \E c \in Sockets :
          \/ pause(c) \/ SocketEnds(c) \/ AdmitAgain(c) \/ admit(c) \/ writeContext(c) \/ written(c)
          \/ TimerExpires(c) \/ CallbackRuns(c)
          \/ BeginAdmission(c) \/ closeTrialClients(c) \/ EndAdmission(c) \/ AdmissionFails(c)

Spec == Init /\ [][Next]_trialVars

(* ---------------------------------- properties ------------------------------------ *)

(* While the session is still the guest's, a socket sends pictures only in a slice the   *)
(* database holds for it: no timer, lost answer, replaced socket or repeated reservation *)
(* leaves a meter running on a slice that was given back or is another's.                *)
ViewingIsReserved ==
    \A c \in Sockets : meter[c].pc = "write" /\ row.open /\ row.session = SessionOf[PageOf[c]]
        => row.sequence = meter[c].sequence /\ row.until = meter[c].until
=======================================================================================
