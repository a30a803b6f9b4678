--------------------------- MODULE TicketServices ---------------------------
(* The ticket services beside the lane, the barrier and the relay: the      *)
(* phone's account of its screen and, part by part, monitoring, access of   *)
(* members, the trial stream and the phone's clock.  The parts share no     *)
(* state, so a behaviour is one of a single part and the others stand       *)
(* still.                                                                   *)
EXTENDS PhoneControl

CONSTANTS Devices, MaxAttempts,
          MonitoringSizes,  \* bounds of TicketMonitoring, several choices of them
          Users, Requests, CacheAge, LookupTime, CookieTTL,
          AccessSizes,      \* bounds of MemberAccess
          Sockets, PageOf, SessionOf, Slice, Allowance, FrameLife, TrialTime,
          MaxSequence,
          ProbeLimit, UncertaintyMax, MaxAge, Tolerance, ForwardAge, Start,
          ClockTime, MaxConns, MaxProbes, MaxWire,
          None

ASSUME AccessAssumption == CacheAge \in Nat /\ LookupTime \in Nat /\ CookieTTL \in Nat
ASSUME MonitoringAssumption ==
    MaxAttempts \in Nat /\ None \notin Nat /\ None \notin {"sent", "retry", "invalid", "failed"}
ASSUME TrialAssumption == \A c \in Sockets : SessionOf[PageOf[c]] # None
ASSUME ClockAssumption == Start \in Nat \ {0} /\ MaxConns \in Nat

VARIABLES part, size  \* which part runs, with which bounds

VARIABLES health, subscribed, admins, deliveries, sender, receipts, pushPhone,
          reports, clock, sends, warned, recovered, subscribes
VARIABLES members, removed, invitation, cache, cookie, flow, request, accessTime,
          changes, servedLate, wokeLate
VARIABLES trialRow, meter, lock, trialTime, result
VARIABLES phoneTime, boot, base, conn, dialled, probes, counter, down, up,
          phonePhone, held, hub

monitorVars == <<health, subscribed, admins, deliveries, sender, receipts,
                 pushPhone, reports, clock, sends, warned, recovered, subscribes>>
accessVars == <<members, removed, invitation, cache, cookie, flow, request,
                accessTime, changes, servedLate, wokeLate>>
trialVars == <<trialRow, meter, lock, trialTime, result>>
clockVars == <<phoneTime, boot, base, conn, dialled, probes, counter, down, up,
               phonePhone, held, hub>>

Monitoring(b) == INSTANCE TicketMonitoring WITH
    MaxTime <- b.time, MaxReports <- b.reports, MaxEpochs <- b.epochs,
    MaxSessions <- b.sessions, MaxSubscribes <- b.subscribes, phone <- pushPhone
Access(b) == INSTANCE MemberAccess WITH
    MaxTime <- b.time, MaxChanges <- b.changes, time <- accessTime
Trial == INSTANCE TrialStream WITH
    MaxTime <- TrialTime, row <- trialRow, time <- trialTime
Clock == INSTANCE PhoneClock WITH
    MaxTime <- ClockTime, time <- phoneTime, phone <- phonePhone

(* The variables of a part that does not take part. *)
NoMonitoring ==
    /\ health = None /\ subscribed = None /\ admins = None /\ deliveries = None
    /\ sender = None /\ receipts = None /\ pushPhone = None /\ reports = None
    /\ clock = None /\ sends = None /\ warned = None /\ recovered = None
    /\ subscribes = None
NoAccess ==
    /\ members = None /\ removed = None /\ invitation = None /\ cache = None
    /\ cookie = None /\ flow = None /\ request = None /\ accessTime = None
    /\ changes = None /\ servedLate = None /\ wokeLate = None
NoTrial ==
    /\ trialRow = None /\ meter = None /\ lock = None /\ trialTime = None
    /\ result = None
NoClock ==
    /\ phoneTime = None /\ boot = None /\ base = None /\ conn = None
    /\ dialled = None /\ probes = None /\ counter = None /\ down = None
    /\ up = None /\ phonePhone = None /\ held = None /\ hub = None

Controlled == part = "control" /\ size = None
Monitored(b) == part = "monitoring" /\ size = b
Accessed(b) == part = "access" /\ size = b
Tried == part = "trial" /\ size = None
Clocked == part = "clock" /\ size = None

ServicesInit ==
    /\ Init
    /\ \/ /\ Controlled
          /\ NoMonitoring /\ NoAccess /\ NoTrial /\ NoClock
       \/ /\ \E b \in MonitoringSizes : Monitored(b) /\ Monitoring(b)!Init
          /\ NoAccess /\ NoTrial /\ NoClock
       \/ /\ \E b \in AccessSizes : Accessed(b) /\ Access(b)!Init
          /\ NoMonitoring /\ NoTrial /\ NoClock
       \/ /\ Tried /\ Trial!Init
          /\ NoMonitoring /\ NoAccess /\ NoClock
       \/ /\ Clocked /\ Clock!Init
          /\ NoMonitoring /\ NoAccess /\ NoTrial

ServicesNext ==
    /\ UNCHANGED <<part, size>>
    /\ \/ /\ Controlled /\ Next
          /\ UNCHANGED <<monitorVars, accessVars, trialVars, clockVars>>
       \/ /\ \E b \in MonitoringSizes : Monitored(b) /\ Monitoring(b)!Next
          /\ UNCHANGED <<vars, accessVars, trialVars, clockVars>>
       \/ /\ \E b \in AccessSizes : Accessed(b) /\ Access(b)!Next
          /\ UNCHANGED <<vars, monitorVars, trialVars, clockVars>>
       \/ /\ Tried /\ Trial!Next
          /\ UNCHANGED <<vars, monitorVars, accessVars, clockVars>>
       \/ /\ Clocked /\ Clock!Next
          /\ UNCHANGED <<vars, monitorVars, accessVars, trialVars>>

ServicesVars == <<part, size, vars, monitorVars, accessVars, trialVars, clockVars>>

ServicesSpec == ServicesInit /\ [][ServicesNext]_ServicesVars

(* A device is warned of an incident at most MAX_ATTEMPTS times, and told   *)
(* of a recovery only after a warning (monitoring.rs, monitoring.go).      *)
MonitoringIsFair ==
    \A b \in MonitoringSizes :
        Monitored(b) => Monitoring(b)!RecoveryIsEarned /\ Monitoring(b)!WarningsAreBounded

(* Somebody removed is soon served nothing and does not wake the phone      *)
(* (server.go, session_policy.go).                                          *)
RemovedMemberIsShutOut ==
    \A b \in AccessSizes : Accessed(b) => Access(b)!RemovedMemberIsShutOut

(* A guest's socket sends pictures only in a slice the database holds for   *)
(* it (trial_stream.go, invitations.rs).                                   *)
ViewingIsReserved == Tried => Trial!ViewingIsReserved

(* No picture is taken for fresher than it is (phone clock calibration).    *)
AgeIsNotUnderestimated == Clocked => Clock!AgeIsNotUnderestimated
=============================================================================
