---------------------------- MODULE VideoWriter -----------------------------
(***************************************************************************)
(* How pictures reach one viewer: the hub that admits the phone's          *)
(* configurations and frames (internal/web/direct_stream.go), the viewer's *)
(* queue and its writer goroutine (video_writer.go), and the browser that  *)
(* acknowledges what it received.  A frame is a stream epoch, a sequence   *)
(* number and the configuration generation it was queued under.            *)
(*                                                                         *)
(* Every section under hub.mu or videoMu is one step.  Three goroutines    *)
(* interleave between sections: the phone reader (hub, then the viewer),   *)
(* the socket handler's warm start (viewer, hub, viewer again), and the    *)
(* writer, whose socket write lies between two sections so that the        *)
(* browser may answer before the write has been noted.                     *)
(***************************************************************************)
EXTENDS Naturals, Sequences, FiniteSets, SequencesExt

CONSTANTS
    MaxEpoch,        \* bound on stream epochs
    MaxSequence,     \* bound on the sequence numbers of an epoch
    MaxGeneration,   \* bound on configurations queued for the viewer
    ControlQueueMax, \* controlQueueMaxMessages
    None             \* no value

ASSUME WriterAssumption ==
    /\ {MaxEpoch, MaxSequence, MaxGeneration} \subseteq Nat \ {0}
    /\ ControlQueueMax \in Nat \ {0}

VARIABLES
    hub,      \* directStreamHub: stream epoch, whether its configuration is
              \* valid, last admitted frame, cached picture, clock mapping
    relayed,  \* what the phone reader has taken from the hub to broadcast
    warming,  \* progress of sendBrowserVideoWarmStart
    cfg,      \* videoConfigGeneration, videoEpoch and videoConfigWrittenGen
    queue,    \* controlQueue
    pend,     \* videoPending
    inFlight, \* videoInFlight
    item,     \* what the writer goroutine holds
    sent,     \* whether it has reached the socket
    credit,   \* written, received and awaited sequence (videoReceiptSequence)
    closed,   \* writerClosed
    browser,  \* generation, epoch and last sequence the browser received
    feedback  \* stream_feedback messages the browser has sent

hubVars == <<hub, relayed>>
clientVars == <<cfg, queue, pend, inFlight, credit, closed>>
writerVars == <<item, sent>>
browserVars == <<browser, feedback>>
vars == <<hubVars, warming, clientVars, writerVars, browserVars>>

Epochs == 1..MaxEpoch
Sequences1 == 1..MaxSequence
Frame == [kind : {"frame"}, epoch : Epochs, seq : Sequences1, gen : 1..MaxGeneration]
Config == [kind : {"config"}, epoch : Epochs, gen : 1..MaxGeneration]
Text == [kind |-> "text"]
Picture == [epoch : Epochs, seq : 0..MaxSequence]  \* seq 0: no cached picture
Ack == [gen : 1..MaxGeneration, epoch : Epochs, seq : Sequences1]
Relay == [kind : {"config", "frame"}, epoch : Epochs, seq : 0..MaxSequence]

ASSUME NoValueAssumption == None \notin Frame \cup Config \cup {Text} \cup Picture \cup Relay

TypeOK ==
    /\ hub \in [epoch : 0..MaxEpoch, valid : BOOLEAN, admitted : Picture \cup {None},
                cached : 0..MaxSequence, clock : BOOLEAN]
    /\ relayed \in Relay \cup {None}
    /\ warming \in [at : {"start", "read", "enqueue", "done"}, expected : 0..MaxGeneration,
                    picture : Picture \cup {None}]
    /\ cfg \in [gen : 0..MaxGeneration, epoch : 0..MaxEpoch, noted : 0..MaxGeneration]
    /\ queue \in Seq(Config \cup {Text}) /\ Len(queue) <= ControlQueueMax
    /\ pend \in Frame \cup {None} /\ inFlight \in Frame \cup {None}
    /\ item \in Frame \cup Config \cup {Text, None} /\ sent \in BOOLEAN
    /\ credit \in [written : 0..MaxSequence, received : 0..MaxSequence, awaited : 0..MaxSequence]
    /\ closed \in BOOLEAN
    /\ browser \in [gen : 0..MaxGeneration, epoch : 0..MaxEpoch, seq : 0..MaxSequence]
    /\ feedback \in Seq(Ack)

Init ==
    /\ hub \in {[epoch |-> 0, valid |-> FALSE, admitted |-> None, cached |-> 0, clock |-> FALSE],
                [epoch |-> 1, valid |-> TRUE, admitted |-> [epoch |-> 1, seq |-> 1],
                 cached |-> 1, clock |-> TRUE]}
    /\ relayed = None
    /\ warming = [at |-> "start", expected |-> 0, picture |-> None]
    /\ cfg = [gen |-> 0, epoch |-> 0, noted |-> 0]
    /\ queue = <<Text>>  \* the "opening" message of handleVideoStream
    /\ pend = None /\ inFlight = None /\ item = None /\ sent = FALSE
    /\ credit = [written |-> 0, received |-> 0, awaited |-> 0]
    /\ closed = FALSE
    /\ browser = [gen |-> 0, epoch |-> 0, seq |-> 0]
    /\ feedback = <<>>

-----------------------------------------------------------------------------
(* The viewer's queue, under videoMu.                                      *)

\* Mutants of MakeRoom: a queue without a bound, and one that drops its oldest
\* message whatever it is.
UnboundedRoom(q) == q
OldestMakesRoom(q) == IF Len(q) < ControlQueueMax THEN q ELSE Tail(q)

\* The first message that is not a configuration makes room (lines 489-506).
MakeRoom(q) ==
    IF Len(q) < ControlQueueMax THEN q
    ELSE LET i == SelectInSeq(q, LAMBDA m : m = Text) IN
         IF i = 0 THEN q ELSE RemoveAt(q, i)

\* What is left of a queue without its configurations.
Texts(q) == [i \in 1..Cardinality({j \in DOMAIN q : q[j] = Text}) |-> Text]

\* Mutant of EnqueueConfig: without a cached picture the pending one stays.
ConfigKeepsPending(p) ==
    LET gen == cfg.gen + 1 IN
    /\ cfg' = [gen |-> gen, epoch |-> p.epoch, noted |-> 0]
    /\ queue' = Append(MakeRoom(Texts(queue)),
                       [kind |-> "config", epoch |-> p.epoch, gen |-> gen])
    /\ pend' = IF p.seq = 0 THEN pend
               ELSE [kind |-> "frame", epoch |-> p.epoch, seq |-> p.seq, gen |-> gen]
    /\ inFlight' = None
    /\ credit' = [written |-> 0, received |-> 0, awaited |-> 0]
    /\ UNCHANGED closed

\* enqueueConfigAndKeyframe: the configuration replaces queued ones, starts a
\* new generation and drops the media of the old one; a matching picture is
\* admitted with it (seq 0 for none).
EnqueueConfig(p) ==
    LET gen == cfg.gen + 1 IN
    /\ cfg' = [gen |-> gen, epoch |-> p.epoch, noted |-> 0]
    /\ queue' = Append(MakeRoom(Texts(queue)),
                       [kind |-> "config", epoch |-> p.epoch, gen |-> gen])
    /\ pend' = IF p.seq = 0 THEN None
               ELSE [kind |-> "frame", epoch |-> p.epoch, seq |-> p.seq, gen |-> gen]
    /\ inFlight' = None
    /\ credit' = [written |-> 0, received |-> 0, awaited |-> 0]
    /\ UNCHANGED closed

\* enqueueControl of an ordinary text message.
EnqueueText ==
    /\ ~closed
    /\ Len(MakeRoom(queue)) < ControlQueueMax
    /\ queue' = Append(MakeRoom(queue), Text)
    /\ UNCHANGED <<hubVars, warming, cfg, pend, inFlight, credit, closed, writerVars, browserVars>>

NewestQueued ==
    Max({credit.written} \cup {f.seq : f \in {inFlight, pend} \ {None}})

\* enqueueVideoFrame: only a frame of the viewer's epoch, newer than everything
\* written, being written or pending; it replaces the pending one.
EnqueueFrame(p) ==
    /\ pend' = IF closed \/ cfg.gen = 0 \/ p.epoch # cfg.epoch \/ p.seq <= NewestQueued
               THEN pend
               ELSE [kind |-> "frame", epoch |-> p.epoch, seq |-> p.seq, gen |-> cfg.gen]
    /\ UNCHANGED <<cfg, queue, inFlight, credit, closed>>

-----------------------------------------------------------------------------
(* The phone reader: configurations, frames and the phone's clock.         *)

\* warmKeyFrameAllowedLocked: the cached picture, or none once it is too old.
WarmPicture(h) == {[epoch |-> h.epoch, seq |-> n] : n \in {0, h.cached}}

\* setConfig: a regressed epoch is dropped unless the phone restarted; an
\* invalid configuration and a new epoch clear the cache, and a restart revokes
\* the clock mapping (recordPhoneClockLocked).
SetConfig(e, valid, restarted) ==
    /\ relayed = None
    /\ cfg.gen + (IF warming.at = "done" THEN 0 ELSE 1) < MaxGeneration
    /\ valid => e # 0
    /\ (hub.epoch # 0 /\ e # 0 /\ e < hub.epoch) => restarted
    /\ hub' = [hub EXCEPT !.epoch = e, !.valid = valid, !.clock = @ /\ ~restarted,
                          !.cached = IF valid /\ e = hub.epoch THEN @ ELSE 0]
    /\ \E p \in WarmPicture(hub') :
         relayed' = IF valid THEN [kind |-> "config", epoch |-> e, seq |-> p.seq] ELSE None
    /\ UNCHANGED <<warming, clientVars, writerVars, browserVars>>

\* recordFrameForBroadcast: a frame of the valid epoch, newer than the last
\* admitted one, whose capture time the clock mapping can place.
RecordFrame(n) ==
    /\ relayed = None
    /\ hub.valid /\ hub.clock
    /\ hub.admitted # None /\ hub.admitted.epoch = hub.epoch => n > hub.admitted.seq
    /\ hub' = [hub EXCEPT !.admitted = [epoch |-> hub.epoch, seq |-> n], !.cached = n]
    /\ relayed' = [kind |-> "frame", epoch |-> hub.epoch, seq |-> n]
    /\ UNCHANGED <<warming, clientVars, writerVars, browserVars>>

\* The rest of handlePhoneMessage: hand what the hub admitted to the viewer.
Broadcast ==
    /\ relayed # None
    /\ LET p == [epoch |-> relayed.epoch, seq |-> relayed.seq] IN
       IF relayed.kind = "frame" THEN EnqueueFrame(p)
       ELSE IF closed THEN UNCHANGED clientVars
       ELSE EnqueueConfig(p)
    /\ relayed' = None
    /\ UNCHANGED <<hub, warming, writerVars, browserVars>>

\* recordBoundedPhoneClock: a complete four-timestamp probe bounds the mapping.
CalibrateClock ==
    /\ relayed = None /\ ~hub.clock
    /\ hub' = [hub EXCEPT !.clock = TRUE]
    /\ UNCHANGED <<relayed, warming, clientVars, writerVars, browserVars>>

\* boundedPhoneClockCalibratedLocked: the mapping grows too old, or an uptime
\* sample of a restarted phone revokes it.
LoseClock ==
    /\ hub.clock
    /\ hub' = [hub EXCEPT !.clock = FALSE]
    /\ UNCHANGED <<relayed, warming, clientVars, writerVars, browserVars>>

-----------------------------------------------------------------------------
(* sendBrowserVideoWarmStart, in the socket handler: the generation it      *)
(* expects is read before the hub, and compared again when it enqueues.     *)
WarmSnapshot ==
    /\ warming.at = "start"
    /\ warming' = [warming EXCEPT !.at = "read", !.expected = cfg.gen]
    /\ UNCHANGED <<hubVars, clientVars, writerVars, browserVars>>

WarmRead ==
    /\ warming.at = "read"
    /\ IF hub.valid
       THEN \E p \in WarmPicture(hub) :
              warming' = [warming EXCEPT !.at = "enqueue", !.picture = p]
       ELSE warming' = [warming EXCEPT !.at = "done"]
    /\ UNCHANGED <<hubVars, clientVars, writerVars, browserVars>>

\* Mutant of WarmEnqueue: the expected generation is not compared.
WarmEnqueueAlways ==
    /\ warming.at = "enqueue" /\ cfg.gen < MaxGeneration
    /\ IF closed THEN UNCHANGED clientVars ELSE EnqueueConfig(warming.picture)
    /\ warming' = [warming EXCEPT !.at = "done"]
    /\ UNCHANGED <<hubVars, writerVars, browserVars>>

WarmEnqueue ==
    /\ warming.at = "enqueue"
    /\ IF closed \/ cfg.gen # warming.expected THEN UNCHANGED clientVars
       ELSE EnqueueConfig(warming.picture)
    /\ warming' = [warming EXCEPT !.at = "done"]
    /\ UNCHANGED <<hubVars, writerVars, browserVars>>

-----------------------------------------------------------------------------
(* The writer goroutine.                                                   *)

IsFrame(m) == m # None /\ m.kind = "frame"
ClearInFlight(f) == inFlight' = IF inFlight = f THEN None ELSE inFlight

\* Mutant of WriterTakes: a picture is taken before the credit is back.
WriterTakesEarly ==
    /\ item = None /\ ~closed
    /\ \/ /\ queue # <<>>
          /\ item' = Head(queue) /\ queue' = Tail(queue)
          /\ UNCHANGED <<pend, inFlight>>
       \/ /\ queue = <<>> /\ pend # None
          /\ pend' = None /\ item' = pend /\ inFlight' = pend
          /\ UNCHANGED queue
    /\ UNCHANGED <<hubVars, warming, cfg, credit, closed, sent, browserVars>>

\* nextVideoWriteItem: control first; a picture only with the credit back, and
\* one that grew too old in the queue is dropped.
WriterTakes ==
    /\ item = None /\ ~closed
    /\ \/ /\ queue # <<>>
          /\ item' = Head(queue) /\ queue' = Tail(queue)
          /\ UNCHANGED <<pend, inFlight>>
       \/ /\ queue = <<>> /\ credit.awaited = 0 /\ pend # None
          /\ pend' = None
          /\ \/ item' = pend /\ inFlight' = pend
             \/ UNCHANGED <<item, inFlight>>
          /\ UNCHANGED queue
    /\ UNCHANGED <<hubVars, warming, cfg, credit, closed, sent, browserVars>>

\* The trial meter holds a picture back (hidden viewer, or expired while the
\* allowance was reserved) or ends the socket.
TrialRefuses(ends) ==
    /\ IsFrame(item) /\ ~sent
    /\ item' = None
    /\ ClearInFlight(item)
    /\ closed' = (closed \/ ends)
    /\ UNCHANGED <<hubVars, warming, cfg, queue, pend, credit, sent, browserVars>>

\* conn.Write succeeds: the browser has the item and acknowledges a picture.
WriteSucceeds ==
    /\ item # None /\ ~sent
    /\ sent' = TRUE
    /\ browser' = CASE item.kind = "config" -> [gen |-> item.gen, epoch |-> item.epoch, seq |-> 0]
                    [] item.kind = "frame" -> [browser EXCEPT !.seq = item.seq]
                    [] OTHER -> browser
    /\ feedback' = IF IsFrame(item)
                   THEN Append(feedback, [gen |-> browser.gen, epoch |-> browser.epoch, seq |-> item.seq])
                   ELSE feedback
    /\ UNCHANGED <<hubVars, warming, clientVars, item>>

\* A failed or late write closes the viewer.
WriteFails ==
    /\ item # None /\ ~sent
    /\ item' = None
    /\ ClearInFlight(item)
    /\ closed' = TRUE
    /\ UNCHANGED <<hubVars, warming, cfg, queue, pend, credit, sent, browserVars>>

\* noteVideoFrameWrittenAt and noteVideoConfigWritten: a write of an earlier
\* generation leaves no trace, and no receipt is awaited that has arrived.
NoteWritten ==
    /\ item # None /\ sent
    /\ item' = None /\ sent' = FALSE
    /\ LET current == ~closed /\ item # Text /\ item.gen = cfg.gen IN
       /\ credit' = IF IsFrame(item) /\ current
                    THEN [credit EXCEPT !.written = item.seq,
                                        !.awaited = IF credit.received < item.seq
                                                    THEN item.seq ELSE @]
                    ELSE credit
       /\ cfg' = IF item.kind = "config" /\ current THEN [cfg EXCEPT !.noted = item.gen] ELSE cfg
    /\ ClearInFlight(item)
    /\ UNCHANGED <<hubVars, warming, queue, pend, closed, browserVars>>

\* Mutant of ReceiptExpires: the deadline is only watched with an empty queue.
IdleReceiptExpires ==
    /\ item = None /\ credit.awaited # 0 /\ pend = None
    /\ closed' = TRUE
    /\ pend' = None
    /\ credit' = [credit EXCEPT !.awaited = 0]
    /\ UNCHANGED <<hubVars, warming, cfg, queue, inFlight, writerVars, browserVars>>

\* closeExpiredVideoReceipt, which the loop looks at before every item.
ReceiptExpires ==
    /\ item = None /\ credit.awaited # 0
    /\ closed' = TRUE
    /\ pend' = None
    /\ credit' = [credit EXCEPT !.awaited = 0]
    /\ UNCHANGED <<hubVars, warming, cfg, queue, inFlight, writerVars, browserVars>>

\* stopVideoWriter: the socket's reader ended.
StopWriter ==
    /\ ~closed
    /\ closed' = TRUE
    /\ pend' = None /\ inFlight' = None
    /\ credit' = [credit EXCEPT !.awaited = 0]
    /\ UNCHANGED <<hubVars, warming, cfg, queue, writerVars, browserVars>>

-----------------------------------------------------------------------------
(* acceptStreamFeedbackOutcome: cumulative, for the current generation, and *)
(* never ahead of what was written except for the very picture in flight.   *)
(* The browser may repeat a message.                                        *)

EarlyReceipt(a) ==
    /\ a.seq > credit.written
    /\ IsFrame(inFlight)
    /\ inFlight.gen = a.gen /\ inFlight.epoch = a.epoch /\ inFlight.seq = a.seq

Acceptable(a) ==
    /\ ~closed /\ a.epoch = cfg.epoch /\ a.gen = cfg.gen
    /\ a.seq > credit.written => EarlyReceipt(a)
    /\ a.seq >= credit.received

AcceptFeedback(repeated) ==
    /\ feedback # <<>>
    /\ LET a == Head(feedback) IN
       credit' = IF Acceptable(a)
                 THEN [credit EXCEPT !.received = a.seq,
                                     !.awaited = IF @ = a.seq THEN 0 ELSE @]
                 ELSE credit
    /\ feedback' = IF repeated THEN feedback ELSE Tail(feedback)
    /\ UNCHANGED <<hubVars, warming, cfg, queue, pend, inFlight, closed, writerVars, browser>>

-----------------------------------------------------------------------------
Writer == WriterTakes \/ WriteSucceeds \/ WriteFails \/ NoteWritten

Next ==
    \/ \E e \in 0..MaxEpoch, valid, restarted \in BOOLEAN : SetConfig(e, valid, restarted)
    \/ \E n \in Sequences1 : RecordFrame(n)
    \/ Broadcast \/ CalibrateClock \/ LoseClock \/ EnqueueText
    \/ WarmSnapshot \/ WarmRead \/ WarmEnqueue
    \/ Writer \/ ReceiptExpires \/ StopWriter
    \/ \E ends \in BOOLEAN : TrialRefuses(ends)
    \/ \E repeated \in BOOLEAN : AcceptFeedback(repeated)

Spec == Init /\ [][Next]_vars

\* The writer goroutine runs, and its loop looks at the receipt deadline before
\* every item it takes.  Nothing is assumed of the browser.
LiveSpec == Spec /\ WF_vars(Writer) /\ SF_vars(ReceiptExpires)

-----------------------------------------------------------------------------
\* "media cannot overtake decoder configuration" (line 302): a picture on its
\* way to the socket is of the configuration the browser has, and newer than
\* every picture it got under it.
MediaFitsTheDecoder ==
    IsFrame(item) /\ ~sent =>
        item.gen = browser.gen /\ item.epoch = browser.epoch /\ item.seq > browser.seq

\* "receivedSequence is also the per-socket delivery credit" (line 48): a
\* picture of the current configuration is only written when the browser's
\* receipt of the one before it has been counted.
OnePictureUnacknowledged ==
    IsFrame(item) /\ ~sent /\ item.gen = cfg.gen /\ ~closed => credit.received = browser.seq

\* The newest configuration is never displaced from the bounded queue: it is
\* queued, in the writer's hands, or with the browser.
NewestConfigIsNotLost ==
    ~closed /\ cfg.gen # 0 =>
        \/ \E i \in DOMAIN queue : queue[i].kind = "config" /\ queue[i].gen = cfg.gen
        \/ item # None /\ item.kind = "config" /\ item.gen = cfg.gen
        \/ browser.gen = cfg.gen

\* When neither the reader nor the warm start has anything in hand, the viewer
\* has the hub's configuration: a warm start that read an older epoch cannot
\* overwrite the one broadcast meanwhile.
ViewerFollowsHub ==
    relayed = None /\ warming.at = "done" /\ hub.valid /\ ~closed => cfg.epoch = hub.epoch

\* A picture that is sent fits the decoder and has no unacknowledged one before it, the
\* newest configuration is queued or known to the browser, and a viewer follows the hub.
WriterIsSound ==
    /\ TypeOK
    /\ MediaFitsTheDecoder
    /\ OnePictureUnacknowledged
    /\ NewestConfigIsNotLost
    /\ ViewerFollowsHub

\* Once ordinary messages cease, a pending picture leaves the queue, whatever
\* the browser does: an unacknowledged one ends the socket instead.
PictureLeavesTheQueue ==
    <>[][~EnqueueText]_vars => (pend # None ~> pend = None \/ closed)
=============================================================================
