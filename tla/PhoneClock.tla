--------------------------------- MODULE PhoneClock ------------------------------------
(* How old a picture is (phone/relay.go, web/direct_stream.go).  A picture carries the   *)
(* phone's uptime; four timestamps of a probe bound what must be added to it to get the  *)
(* relay's wall clock.  Probes, their answers, uptime samples and pictures travel on one *)
(* connection in order, but a reader may hold a message while the phone restarts and the *)
(* next connection is already in use.                                                    *)
EXTENDS Integers, Sequences, FiniteSets

CONSTANTS ProbeLimit,     \* outstanding probes before they are forgotten
          UncertaintyMax, \* phoneClockUncertaintyMax
          MaxAge,         \* phoneClockCalibrationMaxAge
          Tolerance,      \* phoneClockFutureTolerance
          ForwardAge,     \* bridgeForwardFrameMaxAge
          Start,          \* the wall time at first, well after zero
          MaxTime, MaxConns, MaxProbes, MaxWire,
          None

VARIABLES time,     \* the relay's wall clock
          boot,     \* the wall time at which the phone's uptime was zero
          base,     \* boot, when the current connection was made
          conn,     \* videoConn: the number of the current connection, 0 without one
          dialled,  \* how many connections there have been
          probes,   \* outstandingClockProbes
          counter,  \* clockProbeCounter
          down, up, \* what is on its way to the phone and back
          phone,    \* the phone's connection, pending probe and pending capture
          held,     \* connection -> what its readLoop has read and not handed over yet
          hub       \* directStreamHub: the mapping of the clocks

wire == <<conn, dialled, probes, counter, down, up>>
clockVars == <<time, boot, base, wire, phone, held, hub>>

Conns == 1..MaxConns
uptime == time - boot

idlePhone(c) == [conn |-> c, probe |-> None, shot |-> None]

Init ==
    /\ time = Start /\ boot = Start - 1 /\ base = Start - 1 /\ conn = 0 /\ dialled = 0
    /\ probes = {} /\ counter = 0 /\ down = <<>> /\ up = <<>>
    /\ phone = idlePhone(0)
    /\ held = [c \in Conns |-> None]
    /\ hub = [bounded |-> FALSE, offset |-> 0, uncertainty |-> 0, at |-> 0, last |-> 0]

(* --------------------------------- the connection --------------------------------- *)

\* connectOnceMeasured: the phone dialled is the one that runs now.
Connect ==
    /\ conn = 0 /\ dialled < MaxConns
    /\ dialled' = dialled + 1 /\ conn' = dialled + 1 /\ base' = boot
    /\ probes' = {} /\ down' = <<>> /\ up' = <<>>
    /\ phone' = idlePhone(dialled + 1)
    /\ UNCHANGED <<time, boot, counter, held, hub>>

Disconnect ==
    /\ conn # 0
    /\ conn' = 0 /\ probes' = {p \in probes : p.conn # conn}
    /\ down' = <<>> /\ up' = <<>>
    /\ phone' = idlePhone(0)
    /\ UNCHANGED <<time, boot, base, dialled, counter, held, hub>>

sendClockProbe ==
    /\ conn # 0 /\ counter < MaxProbes
    /\ LET probe == [id |-> counter + 1, conn |-> conn, sent |-> time]
           kept == IF Cardinality(probes) >= ProbeLimit THEN {p \in probes : p.conn # conn} ELSE probes
       IN  /\ counter' = counter + 1
           /\ probes' = kept \cup {probe}
           /\ down' = IF phone.conn = conn THEN Append(down, probe) ELSE down
    /\ UNCHANGED <<time, boot, base, conn, dialled, up, phone, held, hub>>

(* ----------------------------------- the phone ------------------------------------ *)

PhoneReceives ==
    /\ down # <<>> /\ phone.conn = conn /\ phone.probe = None
    /\ down' = Tail(down)
    /\ phone' = [phone EXCEPT !.probe = [id |-> Head(down).id, sent |-> Head(down).sent, received |-> uptime]]
    /\ UNCHANGED <<time, boot, base, conn, dialled, probes, counter, up, held, hub>>

PhoneSends(message) ==
    /\ conn # 0 /\ phone.conn = conn /\ Len(up) < MaxWire
    /\ up' = Append(up, message)
    /\ UNCHANGED <<time, boot, base, conn, dialled, probes, counter, down, held, hub>>

PhoneAnswers ==
    /\ phone.probe # None
    /\ PhoneSends([kind |-> "result", id |-> phone.probe.id, sent |-> phone.probe.sent,
                   received |-> phone.probe.received, answered |-> uptime])
    /\ phone' = [phone EXCEPT !.probe = None]

PhoneCaptures ==
    /\ phone.conn # 0 /\ phone.shot = None
    /\ phone' = [phone EXCEPT !.shot = [capture |-> uptime, truth |-> time]]
    /\ UNCHANGED <<time, boot, base, wire, held, hub>>

PhoneEmits ==
    /\ phone.shot # None
    /\ PhoneSends([kind |-> "frame", capture |-> phone.shot.capture, truth |-> phone.shot.truth,
                   emission |-> uptime])
    /\ phone' = [phone EXCEPT !.shot = None]

\* The health, the configuration and other texts carry an uptime.
PhoneReports == PhoneSends([kind |-> "uptime", uptime |-> uptime]) /\ UNCHANGED phone

\* What it had sent is still on its way; the relay notices the loss later.
PhoneRestarts ==
    /\ boot < time /\ boot' = time
    /\ phone' = idlePhone(0)
    /\ down' = <<>>
    /\ UNCHANGED <<time, base, conn, dialled, probes, counter, up, held, hub>>

(* ----------------------------------- the relay ------------------------------------ *)

\* A probe is answered once, on the connection it was sent on.
consumeClockProbeResult(m) ==
    \E p \in probes : p.id = m.id /\ p.conn = conn /\ p.sent = m.sent /\ m.received > 0

\* readLoop takes a message of the current connection; what was received is stamped at once.
readLoop ==
    /\ conn # 0 /\ up # <<>> /\ held[conn] = None
    /\ up' = Tail(up)
    /\ LET m == Head(up) IN
         IF m.kind # "result"
         THEN held' = [held EXCEPT ![conn] = m] /\ UNCHANGED probes
         ELSE /\ held' = IF consumeClockProbeResult(m)
                         THEN [held EXCEPT ![conn] = [kind |-> "clock", sent |-> m.sent, received |-> m.received,
                                                      answered |-> m.answered, returned |-> time]]
                         ELSE held
              /\ probes' = {p \in probes : ~(p.id = m.id /\ p.conn = conn)}
    /\ UNCHANGED <<time, boot, base, conn, dialled, counter, down, phone, hub>>

\* A sample that goes back revokes the mapping.
recordPhoneClock(h, sample) ==
    IF sample <= 0 THEN h
    ELSE [h EXCEPT !.bounded = @ /\ ~(h.last > 0 /\ sample < h.last), !.last = sample]

\* A mutant: the half of an odd width is rounded down.
narrowMapping(m) ==
    LET lower == m.sent - m.received
        upper == m.returned - m.answered
    IN  [ok |-> m.sent <= m.returned /\ m.received <= m.answered /\ lower > 0 /\ lower <= upper,
         offset |-> lower + (upper - lower + 1) \div 2, uncertainty |-> (upper - lower) \div 2]

\* The offset lies between what the way there and the way back allow.
boundedPhoneClockMapping(m) ==
    LET lower == m.sent - m.received
        upper == m.returned - m.answered
    IN  [ok |-> m.sent <= m.returned /\ m.received <= m.answered /\ lower > 0 /\ lower <= upper,
         offset |-> lower + (upper - lower) \div 2, uncertainty |-> (upper - lower + 1) \div 2]

recordBoundedPhoneClock(m) ==
    LET mapping == boundedPhoneClockMapping(m) IN
    IF mapping.ok /\ mapping.uncertainty <= UncertaintyMax /\ m.answered > 0
    THEN [hub EXCEPT !.bounded = TRUE, !.offset = mapping.offset, !.uncertainty = mapping.uncertainty,
                     !.at = m.returned, !.last = m.answered]
    ELSE hub

calibrated == hub.bounded /\ time - hub.at \in 0..MaxAge

estimateFrameTiming(m) ==
    LET old == time - (m.capture + hub.offset) IN
    [ok |-> /\ calibrated /\ m.capture > 0
            /\ time - (m.emission + hub.offset) >= -(Tolerance + hub.uncertainty),
     age |-> (IF old > 0 THEN old ELSE 0) + hub.uncertainty]

\* recordFrameForBroadcast: the other conditions are those of VideoWriter.
Forwarded(m) == estimateFrameTiming(m).ok /\ estimateFrameTiming(m).age <= ForwardAge

\* Every text but a configuration that is refused brings its uptime.
handlePhoneText(m) == recordPhoneClock(hub, m.uptime)

\* Nothing is handled while a cold restart holds the capture down (ColdRestart).
handlePhoneMessage(c) ==
    /\ held[c] # None
    /\ held' = [held EXCEPT ![c] = None]
    /\ LET m == held[c] IN
         \/ UNCHANGED hub
         \/ m.kind = "clock" /\ hub' = recordBoundedPhoneClock(m)
         \/ m.kind = "uptime" /\ hub' = handlePhoneText(m)
    /\ UNCHANGED <<time, boot, base, wire, phone>>

Tick == time < MaxTime /\ time' = time + 1 /\ UNCHANGED <<boot, base, wire, phone, held, hub>>

Next ==
    \/ Connect \/ Disconnect \/ sendClockProbe \/ Tick
    \/ PhoneReceives \/ PhoneAnswers \/ PhoneCaptures \/ PhoneEmits \/ PhoneReports \/ PhoneRestarts
    \/ readLoop \/ \E c \in Conns : handlePhoneMessage(c)

Spec == Init /\ [][Next]_clockVars

(* ---------------------------------- properties ------------------------------------ *)

(* No picture is taken for fresher than it is: a picture of the newest connection is     *)
(* forwarded only with an estimated age that is at least its real one, whatever the      *)
(* delays of the probes, across reconnects, restarts of the phone and results that are   *)
(* handed over late.                                                                     *)
AgeIsNotUnderestimated ==
    \A c \in Conns :
        (c = dialled /\ held[c] # None) =>
            (held[c].kind = "frame" => (Forwarded(held[c]) => estimateFrameTiming(held[c]).age >= time - held[c].truth))
=======================================================================================
