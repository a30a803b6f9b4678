------------------------- MODULE ColdRestartProofs -------------------------
(* Proofs about ColdRestart, for any number of operations and any deadline.*)
EXTENDS ColdRestart, SequenceTheorems, TLAPS

(* The row names an operation that has begun, unless there has been none.  *)
RowIsBegun == op \in begun \cup {NoOp} /\ (phase # "none" => op \in Ops)

(* Nothing is known of an operation before it begins.                      *)
Fresh == \A o \in Ops : o \notin begun => stop[o] = "none" /\ <<o, TRUE>> \notin acks

(* The barrier was closed over a table without pending start commands, and *)
(* once the phone has proved the shutdown its capture stays down.          *)
Purged == blocks(phase) => starting # "pending"
StaysDown == blocks(phase) /\ <<op, TRUE>> \in acks => ~capturing /\ starting = "none"

(* Only the operation's own proof confirms it.                             *)
Answered == phase = "confirmed" => <<op, TRUE>> \in acks

(* What the coordinator acts on is a real operation.                       *)
ViewIsReal == view.phase \in Closing \/ armed => view.op \in Ops

(* The inductive invariant, in the half the database and the phone write   *)
(* and the half the relay writes.                                          *)
BarrierInv == RowIsBegun /\ Fresh /\ Purged /\ StaysDown /\ Answered
Inv == TypeOK /\ BarrierInv /\ ViewIsReal

USE OpAssumption, DeadlineAssumption

-----------------------------------------------------------------------------
(* Appending a version of the row keeps the feed a sequence of versions.   *)
LEMMA SaveType ==
  ASSUME TypeOK, NEW o \in Ops, NEW p \in Phases, save(o, p)
  PROVE  /\ op' \in Ops /\ phase' \in Phases
         /\ feed' \in Seq([op : Ops, phase : Phases])
  BY DEF TypeOK, save

(* Answers are calls for real operations.                                  *)
LEMMA AnswerType ==
  ASSUME NEW v \in [op : Ops \cup {NoOp}, phase : Phases],
         v.phase \in Closing => v.op \in Ops,
         NEW viewers \in BOOLEAN
  PROVE  Answer(v, viewers) \subseteq Ops \X Requests
<1>1. CASE Expired(v)
  BY <1>1 DEF Answer, Expired, Requests
<1>2. CASE ~Expired(v) /\ v.phase = "quiescing"
  BY <1>2 DEF Answer, Closing, Requests
<1>3. CASE ~Expired(v) /\ v.phase = "confirmed"
  BY <1>3 DEF Answer, Closing, Requests
<1>4. CASE ~Expired(v) /\ v.phase \notin {"quiescing", "confirmed"}
  BY <1>4 DEF Answer
<1> QED  BY <1>1, <1>2, <1>3, <1>4

(* apply leaves a well-formed coordinator.                                 *)
LEMMA ApplyType ==
  ASSUME TypeOK,
         NEW v \in [op : Ops \cup {NoOp}, phase : Phases],
         v.phase \in Closing => v.op \in Ops,
         NEW seen \in Ops \cup {NoOp}, NEW had \in BOOLEAN, NEW present \in BOOLEAN,
         apply(v, seen, had, present)
  PROVE  /\ view' \in [op : Ops \cup {NoOp}, phase : Phases] /\ armed' \in BOOLEAN
         /\ quiesced' \in Ops \cup {NoOp} /\ hadViewers' \in BOOLEAN
         /\ calls' \subseteq Ops \X Requests
         /\ ViewIsReal'
<1> DEFINE viewers == IF ~Expired(v) /\ First(v, seen) THEN present ELSE had
<1>1. viewers \in BOOLEAN
  OBVIOUS
<1>2. Answer(v, viewers) \subseteq Ops \X Requests
  BY <1>1, AnswerType
<1>3. calls' = calls \cup Answer(v, viewers) /\ hadViewers' = viewers
  BY DEF apply
<1>4. quiesced' \in Ops \cup {NoOp}
  BY DEF apply
<1>5. view' = v /\ armed' = (v.phase \in Closing /\ ~Expired(v))
  BY DEF apply
<1>6. ViewIsReal'
  BY <1>5 DEF ViewIsReal
<1> QED  BY <1>1, <1>2, <1>3, <1>4, <1>5, <1>6 DEF TypeOK

-----------------------------------------------------------------------------
(* Before the first operation.                                             *)
LEMMA InitInv == Init => Inv
<1> SUFFICES ASSUME Init PROVE Inv
  OBVIOUS
<1>1. TypeOK
  <2>1. /\ op \in Ops \cup {NoOp} /\ phase \in Phases
        /\ left \in [Ops -> 0..Deadline] /\ begun \subseteq Ops
        /\ stop \in [Ops -> {"none", "pending", "retained"}]
        /\ starting \in {"none", "pending", "taken"}
        /\ feed \in Seq([op : Ops, phase : Phases])
        /\ view \in [op : Ops \cup {NoOp}, phase : Phases]
    BY DEF Init, Phases
  <2>2. /\ calls \subseteq Ops \X Requests /\ acks \subseteq Ops \X BOOLEAN
        /\ quiesced \in Ops \cup {NoOp}
    BY DEF Init
  <2>3. /\ capturing \in BOOLEAN /\ armed \in BOOLEAN /\ hadViewers \in BOOLEAN
        /\ clients \in BOOLEAN /\ relayUp \in BOOLEAN
        /\ inHand \in BOOLEAN /\ cached \in BOOLEAN
    BY DEF Init
  <2> QED  BY <2>1, <2>2, <2>3 DEF TypeOK
<1>2. BarrierInv /\ ViewIsReal
  BY DEF Init, BarrierInv, RowIsBegun, Fresh, Purged, StaysDown, Answered, ViewIsReal,
         blocks, Closing
<1> QED  BY <1>1, <1>2 DEF Inv

(* A new operation closes the barrier.                                     *)
LEMMA BeginInv ==
  ASSUME Inv, NEW o \in Ops, begin_cold_restart(o)
  PROVE  Inv'
<1> USE DEF begin_cold_restart, purge_pending_idle_background_commands
<1>1. TypeOK'
  <2>1. "quiescing" \in Phases
    BY DEF Phases, Closing
  <2>2. /\ op' \in Ops /\ phase' \in Phases
        /\ feed' \in Seq([op : Ops, phase : Phases])
    BY <2>1, SaveType DEF Inv
  <2>3. left' \in [Ops -> 0..Deadline] /\ begun' \subseteq Ops
    BY DEF Inv, TypeOK
  <2>4. starting' \in {"none", "pending", "taken"}
    BY DEF Inv, TypeOK
  <2> QED  BY <2>2, <2>3, <2>4 DEF Inv, TypeOK, coordinator, stream
<1>2. op' = o /\ phase' = "quiescing" /\ begun' = begun \cup {o} /\ <<o, TRUE>> \notin acks'
  BY DEF save, Inv, BarrierInv, Fresh
<1>3. RowIsBegun' /\ Answered'
  BY <1>2 DEF RowIsBegun, Answered
<1>4. Fresh'
  BY <1>2 DEF Inv, BarrierInv, Fresh
<1>5. Purged' /\ StaysDown'
  BY <1>2 DEF Inv, TypeOK, Purged, StaysDown
<1>6. ViewIsReal'
  BY DEF Inv, ViewIsReal, coordinator
<1> QED  BY <1>1, <1>3, <1>4, <1>5, <1>6 DEF Inv, BarrierInv

(* A call of the relay is executed or rejected.                            *)
LEMMA AdvanceInv ==
  ASSUME Inv, NEW o \in Ops, NEW request \in Requests, advance_cold_restart(o, request)
  PROVE  Inv'
<1> USE DEF advance_cold_restart
<1>1. UNCHANGED <<left, begun, starting, acks, capturing, view, armed, quiesced, hadViewers,
                  clients, relayUp, inHand, cached>> /\ calls' \subseteq calls
  BY DEF coordinator, stream
<1>2. ViewIsReal'
  BY <1>1 DEF Inv, ViewIsReal
<1>3. CASE ~Accepted(o, request)
  <2>1. UNCHANGED <<op, phase, feed, stop>>
    BY <1>3
  <2>2. TypeOK'
    BY <1>1, <2>1 DEF Inv, TypeOK
  <2>3. RowIsBegun' /\ Fresh'
    BY <1>1, <2>1 DEF Inv, BarrierInv, RowIsBegun, Fresh
  <2>4. Purged' /\ StaysDown' /\ Answered'
    BY <1>1, <2>1 DEF Inv, BarrierInv, Purged, StaysDown, Answered
  <2> QED  BY <1>2, <2>2, <2>3, <2>4 DEF Inv, BarrierInv
<1>4. CASE Accepted(o, request)
  <2>1. /\ o = op /\ phase \in Closing
        /\ op' = op /\ phase' = Advanced(request)
        /\ Advanced(request) \in {"failed", "stopping", "reloading", "asleep"}
    BY <1>4 DEF Accepted, save, Requests, Advanced, Closing
  <2>2. /\ save(o, Advanced(request)) /\ Advanced(request) \in Phases
    BY <1>4, <2>1 DEF Phases, Closing, Released
  <2>3. /\ op' \in Ops /\ phase' \in Phases
        /\ feed' \in Seq([op : Ops, phase : Phases])
    BY <2>2, SaveType DEF Inv
  <2>4. stop' \in [Ops -> {"none", "pending", "retained"}]
        /\ \A x \in Ops : x # o => stop'[x] = stop[x]
    BY <1>4 DEF Inv, TypeOK
  <2>5. TypeOK'
    BY <1>1, <2>3, <2>4 DEF Inv, TypeOK
  <2>6. blocks(phase)
    BY <2>1 DEF blocks
  <2>7. RowIsBegun' /\ Answered'
    BY <1>1, <2>1 DEF Inv, BarrierInv, RowIsBegun, Answered
  <2>8. Fresh'
    BY <1>1, <2>1, <2>4 DEF Inv, BarrierInv, RowIsBegun, Fresh
  <2>9. Purged' /\ StaysDown'
    BY <1>1, <2>1, <2>6 DEF Inv, BarrierInv, Purged, StaysDown
  <2> QED  BY <1>2, <2>5, <2>7, <2>8, <2>9 DEF Inv, BarrierInv
<1> QED  BY <1>3, <1>4

(* The phone's acknowledgement reaches the database.                       *)
LEMMA AcknowledgeInv ==
  ASSUME Inv, NEW o \in Ops, NEW proved \in BOOLEAN, acknowledge(o, proved)
  PROVE  Inv'
<1> USE DEF acknowledge
<1>1. UNCHANGED <<left, begun, starting, calls, acks, capturing, view, armed, quiesced,
                  hadViewers, clients, relayUp, inHand, cached>>
  BY DEF coordinator, stream
<1>2. ViewIsReal'
  BY <1>1 DEF Inv, ViewIsReal
<1>3. /\ stop' \in [Ops -> {"none", "pending", "retained"}]
      /\ \A x \in Ops : stop[x] = "none" => stop'[x] = "none"
  <2>1. PICK kept \in IF proved THEN {"none"} ELSE {"none", "retained"} :
                 stop' = [stop EXCEPT ![o] = kept]
    OBVIOUS
  <2>2. kept \in {"none", "retained"}
    BY <2>1
  <2>3. stop \in [Ops -> {"none", "pending", "retained"}] /\ stop[o] # "none"
    BY DEF Inv, TypeOK
  <2> QED  BY <2>1, <2>2, <2>3
<1>4. Fresh'
  BY <1>1, <1>3 DEF Inv, BarrierInv, Fresh
<1>5. CASE o = op /\ phase = "stopping"
  <2> DEFINE p == IF proved /\ within_deadline(op) THEN "confirmed" ELSE "failed"
  <2>1. save(o, p) /\ p \in Phases /\ op' = op /\ phase' = p
    BY <1>5 DEF save, Phases, Closing
  <2>2. /\ op' \in Ops /\ phase' \in Phases
        /\ feed' \in Seq([op : Ops, phase : Phases])
    BY <2>1, SaveType DEF Inv
  <2>3. TypeOK'
    BY <1>1, <1>3, <2>2 DEF Inv, TypeOK
  <2>4. p = "confirmed" => <<op, TRUE>> \in acks
    BY <1>5
  <2>5. RowIsBegun' /\ Answered'
    BY <1>1, <2>1, <2>2, <2>4 DEF Inv, BarrierInv, RowIsBegun, Answered
  <2>6. blocks(phase)
    BY <1>5 DEF blocks, Closing
  <2>7. Purged' /\ StaysDown'
    BY <1>1, <2>1, <2>6 DEF Inv, BarrierInv, Purged, StaysDown
  <2> QED  BY <1>2, <1>4, <2>3, <2>5, <2>7 DEF Inv, BarrierInv
<1>6. CASE ~(o = op /\ phase = "stopping")
  <2>1. UNCHANGED <<op, phase, feed>>
    BY <1>6
  <2>2. TypeOK'
    BY <1>1, <1>3, <2>1 DEF Inv, TypeOK
  <2>3. RowIsBegun' /\ Answered' /\ Purged' /\ StaysDown'
    BY <1>1, <2>1 DEF Inv, BarrierInv, RowIsBegun, Answered, Purged, StaysDown
  <2> QED  BY <1>2, <1>4, <2>2, <2>3 DEF Inv, BarrierInv
<1> QED  BY <1>5, <1>6

(* A dropped command, a live report and a start command.                   *)
LEMMA RowStepInv ==
  ASSUME Inv,
         (\E o \in Ops : CommandDropped(o)) \/ note_live_report \/ append_stream_command
  PROVE  Inv'
<1>1. ASSUME NEW o \in Ops, CommandDropped(o) PROVE Inv'
  <2>1. UNCHANGED <<op, phase, left, begun, starting, calls, acks, capturing, feed, view, armed,
                    quiesced, hadViewers, clients, relayUp, inHand, cached>>
    BY <1>1 DEF CommandDropped, coordinator, stream
  <2>2. /\ stop' \in [Ops -> {"none", "pending", "retained"}]
        /\ \A x \in Ops : stop[x] = "none" => stop'[x] = "none"
    BY <1>1 DEF CommandDropped, Inv, TypeOK
  <2>3. TypeOK'
    BY <2>1, <2>2 DEF Inv, TypeOK
  <2>4. RowIsBegun' /\ Fresh' /\ ViewIsReal'
    BY <2>1, <2>2 DEF Inv, BarrierInv, RowIsBegun, Fresh, ViewIsReal
  <2>5. Purged' /\ StaysDown' /\ Answered'
    BY <2>1 DEF Inv, BarrierInv, Purged, StaysDown, Answered
  <2> QED  BY <2>3, <2>4, <2>5 DEF Inv, BarrierInv
<1>2. CASE note_live_report
  <2>1. UNCHANGED <<left, begun, stop, starting, calls, acks, capturing, view, armed,
                    quiesced, hadViewers, clients, relayUp, inHand, cached>>
    BY <1>2 DEF note_live_report, coordinator, stream
  <2>2. op \in Ops /\ "live" \in Phases /\ save(op, "live") /\ op' = op /\ phase' = "live"
    BY <1>2 DEF note_live_report, save, Inv, BarrierInv, RowIsBegun, Phases, Released
  <2>3. /\ op' \in Ops /\ phase' \in Phases
        /\ feed' \in Seq([op : Ops, phase : Phases])
    BY <2>2, SaveType DEF Inv
  <2>4. TypeOK'
    BY <2>1, <2>3 DEF Inv, TypeOK
  <2>5. ~blocks(phase')
    BY <2>2 DEF blocks, Closing
  <2>6. RowIsBegun' /\ Fresh' /\ ViewIsReal'
    BY <2>1, <2>2 DEF Inv, BarrierInv, RowIsBegun, Fresh, ViewIsReal
  <2>7. Purged' /\ StaysDown' /\ Answered'
    BY <2>2, <2>5 DEF Purged, StaysDown, Answered
  <2> QED  BY <2>4, <2>6, <2>7 DEF Inv, BarrierInv
<1>3. CASE append_stream_command
  <2>1. UNCHANGED <<op, phase, left, begun, stop, calls, acks, capturing, feed, view, armed,
                    quiesced, hadViewers, clients, relayUp, inHand, cached>>
        /\ starting' = "pending" /\ ~blocks(phase)
    BY <1>3 DEF append_stream_command, coordinator, stream
  <2>2. TypeOK'
    BY <2>1 DEF Inv, TypeOK
  <2>3. RowIsBegun' /\ Fresh' /\ ViewIsReal'
    BY <2>1 DEF Inv, BarrierInv, RowIsBegun, Fresh, ViewIsReal
  <2>4. Purged' /\ StaysDown' /\ Answered'
    BY <2>1 DEF Inv, BarrierInv, Purged, StaysDown, Answered
  <2> QED  BY <2>2, <2>3, <2>4 DEF Inv, BarrierInv
<1> QED  BY <1>1, <1>2, <1>3

(* The phone takes and executes commands one at a time.                    *)
LEMMA PhoneInv ==
  ASSUME Inv,
         PhoneTakes \/ PhoneStarts
           \/ (\E o \in Ops, proved \in BOOLEAN : PhoneStops(o, proved))
  PROVE  Inv'
<1>1. CASE PhoneTakes
  <2>1. UNCHANGED <<op, phase, left, begun, stop, calls, acks, capturing, feed, view, armed,
                    quiesced, hadViewers, clients, relayUp, inHand, cached>>
        /\ starting = "pending" /\ starting' = "taken"
    BY <1>1 DEF PhoneTakes, coordinator, stream
  <2>2. TypeOK'
    BY <2>1 DEF Inv, TypeOK
  <2>3. RowIsBegun' /\ Fresh' /\ ViewIsReal'
    BY <2>1 DEF Inv, BarrierInv, RowIsBegun, Fresh, ViewIsReal
  <2>4. Purged' /\ StaysDown' /\ Answered'
    BY <2>1 DEF Inv, BarrierInv, Purged, StaysDown, Answered
  <2> QED  BY <2>2, <2>3, <2>4 DEF Inv, BarrierInv
<1>2. CASE PhoneStarts
  <2>1. UNCHANGED <<op, phase, left, begun, stop, calls, acks, feed, view, armed,
                    quiesced, hadViewers, clients, relayUp, inHand, cached>>
        /\ starting = "taken" /\ starting' = "none" /\ capturing' = TRUE
    BY <1>2 DEF PhoneStarts, coordinator, stream
  <2>2. TypeOK'
    BY <2>1 DEF Inv, TypeOK
  <2>3. RowIsBegun' /\ Fresh' /\ ViewIsReal'
    BY <2>1 DEF Inv, BarrierInv, RowIsBegun, Fresh, ViewIsReal
  <2>4. ~(blocks(phase) /\ <<op, TRUE>> \in acks)
    BY <2>1 DEF Inv, BarrierInv, StaysDown
  <2>5. Purged' /\ StaysDown' /\ Answered'
    BY <2>1, <2>4 DEF Inv, BarrierInv, Purged, StaysDown, Answered
  <2> QED  BY <2>2, <2>3, <2>5 DEF Inv, BarrierInv
<1>3. ASSUME NEW o \in Ops, NEW proved \in BOOLEAN, PhoneStops(o, proved) PROVE Inv'
  <2>1. UNCHANGED <<op, phase, left, begun, stop, starting, calls, feed, view, armed,
                    quiesced, hadViewers, clients, relayUp, inHand, cached>>
        /\ stop[o] = "pending" /\ starting # "taken"
        /\ acks' = acks \cup {<<o, proved>>}
    BY <1>3 DEF PhoneStops, db, coordinator, stream
  <2>2. capturing' \in BOOLEAN /\ (capturing' => capturing) /\ (proved => ~capturing')
    BY <1>3, Zenon DEF PhoneStops, Inv, TypeOK
  <2>3. acks' \subseteq Ops \X BOOLEAN
    BY <2>1 DEF Inv, TypeOK
  <2>4. TypeOK'
    BY <2>1, <2>2, <2>3 DEF Inv, TypeOK
  <2>5. o \in begun
    BY <2>1 DEF Inv, BarrierInv, Fresh
  <2>6. Fresh'
    BY <2>1, <2>5 DEF Inv, BarrierInv, Fresh
  <2>7. RowIsBegun' /\ ViewIsReal' /\ Purged' /\ Answered'
    BY <2>1 DEF Inv, BarrierInv, RowIsBegun, ViewIsReal, Purged, Answered
  <2>8. StaysDown'
    <3> SUFFICES ASSUME blocks(phase), <<op, TRUE>> \in acks' PROVE ~capturing' /\ starting = "none"
      BY <2>1 DEF StaysDown
    <3>1. CASE <<op, TRUE>> \in acks
      BY <2>2, <3>1 DEF Inv, BarrierInv, StaysDown
    <3>2. CASE <<op, TRUE>> \notin acks
      <4>1. proved = TRUE
        BY <2>1, <3>2
      <4>2. starting = "none"
        BY <2>1 DEF Inv, TypeOK, BarrierInv, Purged
      <4> QED  BY <2>2, <4>1, <4>2
    <3> QED  BY <3>1, <3>2
  <2> QED  BY <2>4, <2>6, <2>7, <2>8 DEF Inv, BarrierInv
<1> QED  BY <1>1, <1>2, <1>3

(* The relay and the clock do not write what the barrier's half is about.  *)
LEMMA BarrierFrame ==
  ASSUME BarrierInv, UNCHANGED <<op, phase, begun, stop, starting, acks, capturing>>
  PROVE  BarrierInv'
<1>1. RowIsBegun' /\ Fresh'
  BY DEF BarrierInv, RowIsBegun, Fresh
<1>2. Purged' /\ StaysDown' /\ Answered'
  BY DEF BarrierInv, Purged, StaysDown, Answered
<1> QED  BY <1>1, <1>2 DEF BarrierInv

(* A version of the row arrives.                                           *)
LEMMA ReceiveInv ==
  ASSUME Inv, NEW i \in 1..Len(feed), Receive(i)
  PROVE  Inv'
<1>1. UNCHANGED <<op, phase, left, begun, stop, starting, acks, capturing>>
  BY DEF Receive, db
<1>2. BarrierInv'
  BY <1>1, BarrierFrame DEF Inv
<1> DEFINE Version == [op : Ops, phase : Phases]
<1>3. feed \in Seq(Version) /\ feed' = SubSeq(feed, i + 1, Len(feed))
  BY DEF Receive, Inv, TypeOK
<1>4. feed[i] \in Version /\ feed' \in Seq(Version)
  <2> HIDE DEF Version
  <2>1. \A k \in 1..Len(feed) : feed[k] \in Version
    BY <1>3, ElementOfSeq
  <2>2. Len(feed) \in Nat /\ i + 1 \in Int /\ \A k \in i + 1..Len(feed) : feed[k] \in Version
    BY <1>3, <2>1
  <2> QED  BY <1>3, <2>1, <2>2, SubSeqProperties
<1>5. CASE feed[i] = view
  <2>1. UNCHANGED <<calls, view, armed, quiesced, hadViewers, clients, relayUp, inHand, cached>>
    BY <1>5 DEF Receive, coordinator, stream
  <2>2. TypeOK' /\ ViewIsReal'
    BY <1>1, <1>4, <2>1 DEF Inv, TypeOK, ViewIsReal
  <2> QED  BY <1>2, <2>2 DEF Inv
<1>6. CASE feed[i] # view
  <2>1. apply(feed[i], quiesced, hadViewers, clients)
    BY <1>6 DEF Receive
  <2>2. feed[i] \in [op : Ops \cup {NoOp}, phase : Phases] /\ feed[i].op \in Ops
    BY <1>4
  <2>3. quiesced \in Ops \cup {NoOp} /\ hadViewers \in BOOLEAN /\ clients \in BOOLEAN
    BY DEF Inv, TypeOK
  <2>4. /\ view' \in [op : Ops \cup {NoOp}, phase : Phases] /\ armed' \in BOOLEAN
        /\ quiesced' \in Ops \cup {NoOp} /\ hadViewers' \in BOOLEAN
        /\ calls' \subseteq Ops \X Requests
        /\ ViewIsReal'
    BY <2>1, <2>2, <2>3, ApplyType DEF Inv
  <2>5. /\ clients' \in BOOLEAN /\ relayUp' \in BOOLEAN
        /\ inHand' \in BOOLEAN /\ cached' \in BOOLEAN
    <3>1. \/ StreamIsDown /\ UNCHANGED inHand
          \/ UNCHANGED <<clients, relayUp, inHand, cached>>
      BY <1>6 DEF Receive, stream
    <3> QED  BY <3>1 DEF StreamIsDown, Inv, TypeOK
  <2>6. TypeOK'
    BY <1>1, <1>4, <2>4, <2>5 DEF Inv, TypeOK
  <2> QED  BY <1>2, <2>4, <2>6 DEF Inv
<1> QED  BY <1>5, <1>6

(* The relay restarts from the row as it is.                               *)
LEMMA RestartInv ==
  ASSUME Inv, Restart
  PROVE  Inv'
<1> DEFINE v == [op |-> op, phase |-> phase]
<1>1. UNCHANGED <<op, phase, left, begun, stop, starting, acks, capturing>>
  BY DEF Restart, db
<1>2. BarrierInv'
  BY <1>1, BarrierFrame DEF Inv
<1>3. v \in [op : Ops \cup {NoOp}, phase : Phases] /\ (v.phase \in Closing => v.op \in Ops)
  BY DEF Inv, TypeOK, BarrierInv, RowIsBegun, Closing
<1>4. apply(v, NoOp, FALSE, FALSE) /\ NoOp \in Ops \cup {NoOp} /\ FALSE \in BOOLEAN
  BY DEF Restart
<1>5. /\ view' \in [op : Ops \cup {NoOp}, phase : Phases] /\ armed' \in BOOLEAN
      /\ quiesced' \in Ops \cup {NoOp} /\ hadViewers' \in BOOLEAN
      /\ calls' \subseteq Ops \X Requests
      /\ ViewIsReal'
  <2> HIDE DEF v
  <2> QED  BY <1>3, <1>4, ApplyType DEF Inv
<1>6. /\ clients' \in BOOLEAN /\ relayUp' \in BOOLEAN
      /\ inHand' \in BOOLEAN /\ cached' \in BOOLEAN
  BY DEF Restart, StreamIsDown
<1>7. feed' \in Seq([op : Ops, phase : Phases])
  BY DEF Restart
<1>8. TypeOK'
  BY <1>1, <1>5, <1>6, <1>7 DEF Inv, TypeOK
<1> QED  BY <1>2, <1>5, <1>8 DEF Inv

(* The deadline timer, viewers, messages and the clock.                    *)
LEMMA RelayInv ==
  ASSUME Inv,
         \/ DeadlineFires \/ addRelayViewer \/ removeRelayViewer
         \/ readLoop \/ handlePhoneMessage \/ Tick
  PROVE  Inv'
<1>1. CASE DeadlineFires
  <2>1. UNCHANGED <<op, phase, left, begun, stop, starting, acks, capturing, feed, view,
                    quiesced, hadViewers, clients, relayUp, inHand, cached>>
        /\ armed /\ armed' = FALSE /\ calls' = calls \cup {<<view.op, "failed">>}
    BY <1>1 DEF DeadlineFires, db, stream
  <2>2. view.op \in Ops
    BY <2>1 DEF Inv, ViewIsReal
  <2>3. calls' \subseteq Ops \X Requests
    BY <2>1, <2>2 DEF Inv, TypeOK, Requests
  <2>4. TypeOK'
    <3>1. armed' \in BOOLEAN
      BY <2>1
    <3>2. TypeOK
      BY DEF Inv
    <3> QED  BY <2>1, <2>3, <3>1, <3>2 DEF TypeOK
  <2>5. ViewIsReal'
    BY <2>1, <2>2 DEF ViewIsReal
  <2> QED  BY <2>1, <2>4, <2>5, BarrierFrame DEF Inv
<1>2. CASE addRelayViewer \/ removeRelayViewer \/ readLoop \/ handlePhoneMessage
  <2>1. UNCHANGED <<op, phase, left, begun, stop, starting, calls, acks, capturing, feed, view,
                    armed, quiesced, hadViewers>>
    BY <1>2 DEF addRelayViewer, removeRelayViewer, readLoop, handlePhoneMessage, db, coordinator
  <2>2. /\ clients' \in BOOLEAN /\ relayUp' \in BOOLEAN
        /\ inHand' \in BOOLEAN /\ cached' \in BOOLEAN
    BY <1>2, Zenon DEF addRelayViewer, removeRelayViewer, readLoop, handlePhoneMessage, Inv, TypeOK
  <2>3. TypeOK' /\ ViewIsReal'
    BY <2>1, <2>2 DEF Inv, TypeOK, ViewIsReal
  <2> QED  BY <2>1, <2>3, BarrierFrame DEF Inv
<1>3. CASE Tick
  <2>1. UNCHANGED <<op, phase, begun, stop, starting, calls, acks, capturing, feed, view, armed,
                    quiesced, hadViewers, clients, relayUp, inHand, cached>>
    BY <1>3 DEF Tick, coordinator, stream
  <2>2. left' \in [Ops -> 0..Deadline]
    BY <1>3 DEF Tick, Inv, TypeOK
  <2>3. TypeOK' /\ ViewIsReal'
    BY <2>1, <2>2 DEF Inv, TypeOK, ViewIsReal
  <2> QED  BY <2>1, <2>3, BarrierFrame DEF Inv
<1> QED  BY <1>1, <1>2, <1>3

(* Every step preserves the invariant.                                     *)
LEMMA StepInv == Inv /\ [Next]_vars => Inv'
<1> SUFFICES ASSUME Inv, [Next]_vars PROVE Inv'
  OBVIOUS
<1>1. CASE UNCHANGED vars
  <2>1. UNCHANGED <<op, phase, begun, stop, starting, acks, capturing>>
    BY <1>1 DEF vars
  <2>2. TypeOK' /\ ViewIsReal'
    BY <1>1 DEF vars, Inv, TypeOK, ViewIsReal
  <2> QED  BY <2>1, <2>2, BarrierFrame DEF Inv
<1>2. CASE Next
  BY <1>2, BeginInv, AdvanceInv, AcknowledgeInv, RowStepInv, PhoneInv, ReceiveInv, RestartInv,
     RelayInv DEF Next
<1> QED  BY <1>1, <1>2

(* The invariant holds in every reachable state.                           *)
LEMMA Invariance == Spec => []Inv
  BY InitInv, StepInv, PTL DEF Spec

-----------------------------------------------------------------------------
(* The barrier row, the calls and the relay's state keep their shapes.     *)
THEOREM RestartTypeCorrect == Spec => []TypeOK
<1>1. Inv => TypeOK
  BY DEF Inv
<1> QED  BY <1>1, Invariance, PTL

(* acknowledge confirms only over a phone whose capture is down for good:  *)
(* begin_cold_restart purged the pending start, and the proof came after   *)
(* any start the phone had taken.                                          *)
THEOREM ConfirmedIsDown == Spec => []CaptureIsDown
<1>1. Inv => CaptureIsDown
  BY DEF Inv, BarrierInv, StaysDown, Answered, CaptureIsDown, blocks, Closing
<1> QED  BY <1>1, Invariance, PTL

(* The shapes of the state, and that a confirmed shutdown is one.          *)
THEOREM ShutdownSoundness == Spec => []ShutdownIsProved
<1>1. TypeOK /\ CaptureIsDown <=> ShutdownIsProved
  BY DEF ShutdownIsProved
<1> QED  BY <1>1, RestartTypeCorrect, ConfirmedIsDown, PTL

(* The reducers, the coordinator and the phone implement the barrier.      *)
THEOREM BarrierIsImplemented == Spec => ImplementsBarrier
<1> DEFINE gate == IF phase \in Closing THEN "closed"
                   ELSE IF phase = "failed" THEN "failed" ELSE "open"
<1> DEFINE released == {o \in Ops : <<o, TRUE>> \in acks}
<1>1. Init => Barrier!Init
  BY DEF Init, Barrier!Init, Closing
<1>2. Inv /\ [Next]_vars => [Barrier!Next]_(Barrier!vars)
  <2> SUFFICES ASSUME Inv, [Next]_vars PROVE Barrier!Next \/ UNCHANGED Barrier!vars
    OBVIOUS
  <2>1. ASSUME NEW o \in Ops, begin_cold_restart(o) PROVE Barrier!Close(o)
    BY <2>1 DEF begin_cold_restart, save, Barrier!Close, Closing, Inv, BarrierInv, RowIsBegun
  <2>2. ASSUME NEW o \in Ops, NEW request \in Requests, advance_cold_restart(o, request)
        PROVE  Barrier!Next \/ UNCHANGED Barrier!vars
    <3>1. CASE ~Accepted(o, request)
      BY <2>2, <3>1 DEF advance_cold_restart, Barrier!vars
    <3>2. CASE Accepted(o, request)
      <4>1. /\ op' = op /\ acks' = acks /\ phase \in Closing /\ phase' = Advanced(request)
            /\ op \in Ops
        BY <2>2, <3>2 DEF advance_cold_restart, Accepted, save, Closing
      <4>2. CASE Advanced(request) = "failed"
        BY <4>1, <4>2 DEF Barrier!Next, Barrier!Fail, Closing
      <4>3. CASE Advanced(request) = "stopping"
        BY <4>1, <4>3 DEF Barrier!vars, Closing
      <4>4. CASE Advanced(request) \in {"reloading", "asleep"}
        <5>1. phase = "confirmed"
          BY <3>2, <4>4 DEF Accepted, Advanced
        <5>2. <<op, TRUE>> \in acks
          BY <5>1 DEF Inv, BarrierInv, Answered
        <5> QED  BY <4>1, <4>4, <5>2 DEF Barrier!Next, Barrier!Open, Closing
      <4> QED  BY <4>2, <4>3, <4>4 DEF Advanced, Requests
    <3> QED  BY <3>1, <3>2
  <2>3. ASSUME NEW o \in Ops, NEW proved \in BOOLEAN, acknowledge(o, proved)
        PROVE  Barrier!Next \/ UNCHANGED Barrier!vars
    <3>1. op' = op /\ acks' = acks
      BY <2>3 DEF acknowledge, save
    <3>2. CASE phase' = phase
      BY <3>1, <3>2 DEF Barrier!vars
    <3>3. CASE phase = "stopping" /\ phase' \in {"confirmed", "failed"}
      BY <3>1, <3>3 DEF Barrier!Next, Barrier!Fail, Barrier!vars, Closing
    <3> QED  BY <2>3, <3>2, <3>3 DEF acknowledge, save
  <2>4. ASSUME NEW o \in Ops, NEW proved \in BOOLEAN, PhoneStops(o, proved)
        PROVE  Barrier!Next \/ UNCHANGED Barrier!vars
    <3>1. op' = op /\ phase' = phase /\ acks' = acks \cup {<<o, proved>>}
      BY <2>4 DEF PhoneStops, db
    <3>2. CASE proved = TRUE
      <4>1. released' = released \cup {o}
        BY <3>1, <3>2
      <4> QED  BY <3>1, <4>1 DEF Barrier!Next, Barrier!Prove
    <3>3. CASE proved = FALSE
      <4>1. released' = released
        BY <3>1, <3>3
      <4> QED  BY <3>1, <4>1 DEF Barrier!vars
    <3> QED  BY <3>2, <3>3
  <2>5. CASE note_live_report
    BY <2>5 DEF note_live_report, save, Barrier!vars, Closing
  <2>6. CASE UNCHANGED <<op, phase, acks>>
    BY <2>6 DEF Barrier!vars
  <2>7. CASE \/ \E o \in Ops : CommandDropped(o)
             \/ append_stream_command \/ PhoneTakes \/ PhoneStarts
             \/ \E i \in 1..Len(feed) : Receive(i)
             \/ DeadlineFires \/ Restart \/ addRelayViewer \/ removeRelayViewer
             \/ readLoop \/ handlePhoneMessage \/ Tick
    BY <2>6, <2>7 DEF CommandDropped, append_stream_command, PhoneTakes, PhoneStarts, Receive,
       DeadlineFires, Restart, addRelayViewer, removeRelayViewer, readLoop,
       handlePhoneMessage, Tick, db
  <2>8. CASE UNCHANGED vars
    BY <2>6, <2>8 DEF vars
  <2>9. ASSUME NEW o \in Ops, begin_cold_restart(o) PROVE Barrier!Next
    BY <2>1, <2>9 DEF Barrier!Next
  <2> QED  BY <2>2, <2>3, <2>4, <2>5, <2>7, <2>8, <2>9 DEF Next
<1> QED  BY <1>1, <1>2, Invariance, PTL DEF Spec, ImplementsBarrier, Barrier!Spec

-----------------------------------------------------------------------------
(* Why a release finds the relay cold.  The row's versions reach the       *)
(* coordinator in order and late, so what it knows is a suffix of the row's *)
(* history that ends in the row itself.                                    *)
Row == [op |-> op, phase |-> phase]
Confirmation == [op |-> op, phase |-> "confirmed"]
ReleaseCalled(o) == <<o, "reloading">> \in calls \/ <<o, "asleep">> \in calls
NotDelivered == \A i \in 1..Len(feed) : feed[i] # Confirmation

(* Versions and calls are of operations that have begun.                   *)
FeedIsBegun == \A i \in 1..Len(feed) : feed[i].op \in begun
CallsAreBegun == \A o \in Ops : ReleaseCalled(o) => o \in begun

(* The newest version, delivered or not, is the row.                       *)
FeedEndsInRow == IF feed = <<>> THEN view = Row ELSE feed[Len(feed)] = Row

(* Before the phone's proof nobody has heard of a confirmation, and no     *)
(* release has been called for; the confirmation is the operation's last   *)
(* version until it is released.                                           *)
NotYetConfirmed == phase \in {"quiescing", "stopping"} => ~ReleaseCalled(op) /\ NotDelivered
ConfirmedLast == phase = "confirmed" => \A i \in 1..Len(feed) - 1 : feed[i] # Confirmation

(* Who called for the release has seen the confirmation, torn its own      *)
(* streaming down, and still acts on the closed row.                       *)
TornDown == phase = "confirmed" /\ ReleaseCalled(op) => feed = <<>> /\ ~relayUp /\ ~cached

FeedInv == FeedIsBegun /\ CallsAreBegun /\ FeedEndsInRow
ColdInv == FeedInv /\ NotYetConfirmed /\ ConfirmedLast /\ TornDown

(* A release is called for only by an answer to an unexpired confirmation. *)
LEMMA AnswersConfirmation ==
  ASSUME NEW v, NEW viewers \in BOOLEAN, NEW o, NEW request \in {"reloading", "asleep"},
         <<o, request>> \in Answer(v, viewers)
  PROVE  o = v.op /\ v.phase = "confirmed" /\ ~Expired(v)
<1>1. CASE Expired(v)
  BY <1>1 DEF Answer
<1>2. CASE ~Expired(v) /\ v.phase = "quiescing"
  BY <1>2 DEF Answer
<1>3. CASE ~Expired(v) /\ v.phase = "confirmed"
  BY <1>3 DEF Answer
<1>4. CASE ~Expired(v) /\ v.phase \notin {"quiescing", "confirmed"}
  BY <1>4 DEF Answer
<1> QED  BY <1>1, <1>2, <1>3, <1>4

(* A version the coordinator applies adds releases of its own kind only.   *)
LEMMA ApplyCalls ==
  ASSUME NEW v, NEW seen, NEW had \in BOOLEAN, NEW present \in BOOLEAN,
         apply(v, seen, had, present), NEW o, ReleaseCalled(o)'
  PROVE  ReleaseCalled(o) \/ (o = v.op /\ v.phase = "confirmed" /\ ~Expired(v))
<1> DEFINE viewers == IF ~Expired(v) /\ First(v, seen) THEN present ELSE had
<1>1. viewers \in BOOLEAN /\ calls' = calls \cup Answer(v, viewers)
  BY DEF apply
<1>2. PICK request \in {"reloading", "asleep"} : <<o, request>> \in calls'
  BY DEF ReleaseCalled
<1>3. CASE <<o, request>> \in calls
  BY <1>3 DEF ReleaseCalled
<1>4. CASE <<o, request>> \in Answer(v, viewers)
  <2> HIDE DEF viewers
  <2> QED  BY <1>1, <1>4, AnswersConfirmation
<1> QED  BY <1>1, <1>2, <1>3, <1>4

(* A version is appended behind the ones not yet delivered.                *)
LEMMA SaveAppends ==
  ASSUME TypeOK, NEW o \in Ops, NEW p \in Phases, save(o, p)
  PROVE  /\ Len(feed') = Len(feed) + 1 /\ Len(feed) \in Nat /\ feed' # <<>>
         /\ feed'[Len(feed')] = [op |-> o, phase |-> p]
         /\ \A i \in 1..Len(feed) : feed'[i] = feed[i]
<1>1. feed \in Seq([op : Ops, phase : Phases]) /\ [op |-> o, phase |-> p] \in [op : Ops, phase : Phases]
  BY DEF TypeOK
<1>2. feed' = Append(feed, [op |-> o, phase |-> p])
  BY DEF save
<1> HIDE DEF Phases
<1>3. Len(feed') = Len(feed) + 1 /\ Len(feed) \in Nat
  BY <1>1, <1>2
<1>4. feed'[Len(feed')] = [op |-> o, phase |-> p]
  BY <1>1, <1>2
<1>5. \A i \in 1..Len(feed) : feed'[i] = feed[i]
  BY <1>1, <1>2
<1>6. feed' # <<>>
  BY <1>1, <1>2, <1>3
<1> QED  BY <1>3, <1>4, <1>5, <1>6

(* Saving keeps the feed in order, as long as the operation has begun.     *)
LEMMA SaveFeeds ==
  ASSUME TypeOK, FeedInv, NEW o \in Ops, NEW p \in Phases, save(o, p),
         o \in begun', begun \subseteq begun', calls' \subseteq calls
  PROVE  FeedInv'
<1>1. op' = o /\ phase' = p
  BY DEF save
<1>2. /\ Len(feed') = Len(feed) + 1 /\ Len(feed) \in Nat /\ feed' # <<>>
      /\ feed'[Len(feed')] = [op |-> o, phase |-> p]
      /\ \A i \in 1..Len(feed) : feed'[i] = feed[i]
  BY SaveAppends
<1>3. FeedIsBegun'
  <2> SUFFICES ASSUME NEW i \in 1..Len(feed') PROVE feed'[i].op \in begun'
    BY DEF FeedIsBegun
  <2>1. CASE i = Len(feed')
    BY <1>2, <2>1
  <2>2. CASE i # Len(feed')
    <3>1. i \in 1..Len(feed)
      BY <1>2, <2>2
    <3> QED  BY <1>2, <3>1 DEF FeedInv, FeedIsBegun
  <2> QED  BY <2>1, <2>2
<1>4. CallsAreBegun'
  BY DEF FeedInv, CallsAreBegun, ReleaseCalled
<1>5. FeedEndsInRow'
  BY <1>1, <1>2 DEF FeedEndsInRow, Row
<1> QED  BY <1>3, <1>4, <1>5 DEF FeedInv

(* Before the first operation.                                             *)
LEMMA InitCold == Init => ColdInv
<1> SUFFICES ASSUME Init PROVE ColdInv
  OBVIOUS
<1>1. feed = <<>> /\ calls = {} /\ phase = "none" /\ view = Row
  BY DEF Init, Row
<1>2. FeedIsBegun /\ CallsAreBegun /\ FeedEndsInRow
  BY <1>1 DEF FeedIsBegun, CallsAreBegun, FeedEndsInRow, ReleaseCalled
<1>3. NotYetConfirmed /\ ConfirmedLast /\ TornDown
  BY <1>1 DEF NotYetConfirmed, ConfirmedLast, TornDown
<1> QED  BY <1>2, <1>3 DEF ColdInv, FeedInv

(* A new operation: nobody has heard of it.                                *)
LEMMA BeginCold ==
  ASSUME Inv, ColdInv, NEW o \in Ops, begin_cold_restart(o)
  PROVE  ColdInv'
<1>1. /\ save(o, "quiescing") /\ o \notin begun /\ begun' = begun \cup {o} /\ calls' = calls
      /\ op' = o /\ phase' = "quiescing" /\ "quiescing" \in Phases
  BY DEF begin_cold_restart, save, Phases, Closing
<1>2. FeedInv'
  BY <1>1, SaveFeeds DEF Inv, ColdInv
<1>3. /\ Len(feed') = Len(feed) + 1 /\ Len(feed) \in Nat
      /\ feed'[Len(feed')] = [op |-> o, phase |-> "quiescing"]
      /\ \A i \in 1..Len(feed) : feed'[i] = feed[i]
  BY <1>1, SaveAppends DEF Inv
<1>4. ~ReleaseCalled(op)'
  BY <1>1 DEF ColdInv, FeedInv, CallsAreBegun, ReleaseCalled
<1>5. ASSUME NEW i \in 1..Len(feed') PROVE feed'[i] # Confirmation'
  <2>1. CASE i = Len(feed')
    BY <1>1, <1>3, <2>1 DEF Confirmation
  <2>2. CASE i # Len(feed')
    <3>1. i \in 1..Len(feed)
      BY <1>3, <2>2
    <3>2. feed'[i].op # o
      BY <1>1, <1>3, <3>1 DEF ColdInv, FeedInv, FeedIsBegun
    <3> QED  BY <1>1, <3>2 DEF Confirmation
  <2> QED  BY <2>1, <2>2
<1>6. NotYetConfirmed'
  BY <1>4, <1>5 DEF NotYetConfirmed, NotDelivered
<1>7. ConfirmedLast' /\ TornDown'
  BY <1>1 DEF ConfirmedLast, TornDown
<1> QED  BY <1>2, <1>6, <1>7 DEF ColdInv

(* A call only leaves the set, and an accepted one moves the row on.       *)
LEMMA AdvanceCold ==
  ASSUME Inv, ColdInv, NEW o \in Ops, NEW request \in Requests,
         advance_cold_restart(o, request)
  PROVE  ColdInv'
<1>1. UNCHANGED <<begun, view, relayUp, cached>> /\ calls' \subseteq calls
  BY DEF advance_cold_restart, coordinator, stream
<1>2. \A x : ReleaseCalled(x)' => ReleaseCalled(x)
  BY <1>1 DEF ReleaseCalled
<1>3. CASE ~Accepted(o, request)
  <2>1. UNCHANGED <<op, phase, feed>>
    BY <1>3 DEF advance_cold_restart
  <2>2. FeedInv'
    BY <1>1, <1>2, <2>1 DEF ColdInv, FeedInv, FeedIsBegun, CallsAreBegun, FeedEndsInRow, Row
  <2>3. NotYetConfirmed' /\ ConfirmedLast' /\ TornDown'
    BY <1>1, <1>2, <2>1
       DEF ColdInv, NotYetConfirmed, NotDelivered, ConfirmedLast, TornDown, Confirmation
  <2> QED  BY <2>2, <2>3 DEF ColdInv
<1>4. CASE Accepted(o, request)
  <2>1. /\ save(op, Advanced(request)) /\ op' = op /\ phase' = Advanced(request)
        /\ Advanced(request) \in {"failed", "stopping", "reloading", "asleep"}
        /\ o = op /\ (Advanced(request) = "stopping" => phase = "quiescing")
    BY <1>4 DEF advance_cold_restart, Accepted, save, Requests, Advanced
  <2>2. Advanced(request) \in Phases /\ op \in Ops /\ op \in begun
    BY <2>1 DEF Phases, Closing, Released, Inv, BarrierInv, RowIsBegun
  <2>3. FeedInv'
    BY <1>1, <2>1, <2>2, SaveFeeds DEF Inv, ColdInv
  <2>4. ConfirmedLast' /\ TornDown'
    BY <2>1 DEF ConfirmedLast, TornDown
  <2>5. NotYetConfirmed'
    <3> SUFFICES ASSUME phase' \in {"quiescing", "stopping"}
                 PROVE  ~ReleaseCalled(op)' /\ NotDelivered'
      BY DEF NotYetConfirmed
    <3>1. phase = "quiescing" /\ Advanced(request) = "stopping"
      BY <2>1
    <3>2. ~ReleaseCalled(op) /\ NotDelivered
      BY <3>1 DEF ColdInv, NotYetConfirmed
    <3>3. /\ Len(feed') = Len(feed) + 1 /\ Len(feed) \in Nat
          /\ feed'[Len(feed')] = [op |-> op, phase |-> "stopping"]
          /\ \A i \in 1..Len(feed) : feed'[i] = feed[i]
      BY <2>1, <2>2, <3>1, SaveAppends DEF Inv
    <3>4. \A i \in 1..Len(feed') : i \in 1..Len(feed) \/ i = Len(feed')
      BY <3>3
    <3>5. [op |-> op, phase |-> "stopping"] # Confirmation
      BY DEF Confirmation
    <3>6. NotDelivered'
      BY <2>1, <3>2, <3>3, <3>4, <3>5 DEF NotDelivered, Confirmation
    <3> QED  BY <1>2, <2>1, <3>2, <3>6 DEF ReleaseCalled
  <2> QED  BY <2>3, <2>4, <2>5 DEF ColdInv
<1> QED  BY <1>3, <1>4

(* The phone's proof is the first confirmation the feed carries.           *)
LEMMA AcknowledgeCold ==
  ASSUME Inv, ColdInv, NEW o \in Ops, NEW proved \in BOOLEAN, acknowledge(o, proved)
  PROVE  ColdInv'
<1>1. UNCHANGED <<begun, view, relayUp, cached, calls>>
  BY DEF acknowledge, coordinator, stream
<1>2. CASE ~(o = op /\ phase = "stopping")
  <2>1. UNCHANGED <<op, phase, feed>>
    BY <1>2 DEF acknowledge
  <2>2. FeedInv'
    BY <1>1, <2>1 DEF ColdInv, FeedInv, FeedIsBegun, CallsAreBegun, FeedEndsInRow, Row,
       ReleaseCalled
  <2>3. NotYetConfirmed' /\ ConfirmedLast' /\ TornDown'
    BY <1>1, <2>1 DEF ColdInv, NotYetConfirmed, NotDelivered, ConfirmedLast, TornDown,
       Confirmation, ReleaseCalled
  <2> QED  BY <2>2, <2>3 DEF ColdInv
<1>3. CASE o = op /\ phase = "stopping"
  <2> DEFINE p == IF proved /\ within_deadline(op) THEN "confirmed" ELSE "failed"
  <2>1. save(op, p) /\ op' = op /\ phase' = p /\ p \in {"confirmed", "failed"} /\ p \in Phases
    BY <1>3 DEF acknowledge, save, Phases, Closing
  <2> HIDE DEF p
  <2>2. op \in Ops /\ op \in begun
    BY <1>3 DEF Inv, BarrierInv, RowIsBegun
  <2>3. FeedInv'
    BY <1>1, <2>1, <2>2, SaveFeeds DEF Inv, ColdInv
  <2>4. ~ReleaseCalled(op) /\ NotDelivered
    BY <1>3 DEF ColdInv, NotYetConfirmed
  <2>5. Len(feed') = Len(feed) + 1 /\ Len(feed) \in Nat
        /\ \A i \in 1..Len(feed) : feed'[i] = feed[i]
    BY <2>1, <2>2, SaveAppends DEF Inv
  <2>6. 1..Len(feed') - 1 = 1..Len(feed)
    BY <2>5
  <2>7. ConfirmedLast'
    BY <2>1, <2>4, <2>5, <2>6 DEF ConfirmedLast, NotDelivered, Confirmation
  <2>8. NotYetConfirmed' /\ TornDown'
    BY <1>1, <2>1, <2>4 DEF NotYetConfirmed, TornDown, ReleaseCalled
  <2> QED  BY <2>3, <2>7, <2>8 DEF ColdInv
<1> QED  BY <1>2, <1>3

(* What neither the row, the feed nor the calls are written by leaves      *)
(* ColdInv alone, unless it opens the relay's stream.                      *)
LEMMA ColdFrame ==
  ASSUME ColdInv, UNCHANGED <<op, phase, begun, feed, view>>,
         \A x : ReleaseCalled(x)' => ReleaseCalled(x),
         view = Confirmation => (relayUp' => relayUp) /\ (cached' => cached)
  PROVE  ColdInv'
<1>1. FeedInv'
  BY DEF ColdInv, FeedInv, FeedIsBegun, CallsAreBegun, FeedEndsInRow, Row
<1>2. NotYetConfirmed' /\ ConfirmedLast'
  BY DEF ColdInv, NotYetConfirmed, NotDelivered, ConfirmedLast, Confirmation
<1>3. TornDown'
  <2> SUFFICES ASSUME phase = "confirmed", ReleaseCalled(op)'
               PROVE  feed = <<>> /\ ~relayUp' /\ ~cached'
    BY DEF TornDown, ReleaseCalled
  <2>1. ReleaseCalled(op)
    OBVIOUS
  <2>2. feed = <<>> /\ ~relayUp /\ ~cached
    BY <2>1 DEF ColdInv, TornDown
  <2>3. view = Confirmation
    BY <2>2 DEF ColdInv, FeedInv, FeedEndsInRow, Row, Confirmation
  <2> QED  BY <2>2, <2>3
<1> QED  BY <1>1, <1>2, <1>3 DEF ColdInv

(* A live report moves the row out of the barrier.                         *)
LEMMA LiveCold ==
  ASSUME Inv, ColdInv, note_live_report
  PROVE  ColdInv'
<1>1. /\ save(op, "live") /\ op' = op /\ phase' = "live" /\ begun' = begun /\ calls' = calls
      /\ op \in Ops /\ op \in begun /\ "live" \in Phases
  BY DEF note_live_report, save, Inv, BarrierInv, RowIsBegun, Phases, Released
<1>2. FeedInv'
  BY <1>1, SaveFeeds DEF Inv, ColdInv
<1>3. NotYetConfirmed' /\ ConfirmedLast' /\ TornDown'
  BY <1>1 DEF NotYetConfirmed, ConfirmedLast, TornDown
<1> QED  BY <1>2, <1>3 DEF ColdInv

(* What is left of the feed after a delivery.                              *)
LEMMA DeliveryKeepsTheRest ==
  ASSUME TypeOK, NEW i \in 1..Len(feed), Receive(i)
  PROVE  /\ Len(feed) \in Nat /\ Len(feed') = Len(feed) - i
         /\ \A k \in 1..Len(feed') : i + k \in 1..Len(feed) /\ feed'[k] = feed[i + k]
         /\ (feed' = <<>> <=> i = Len(feed))
<1> DEFINE Version == [op : Ops, phase : Phases]
<1>1. feed \in Seq(Version) /\ feed' = SubSeq(feed, i + 1, Len(feed))
  BY DEF Receive, TypeOK
<1> HIDE DEF Version
<1>2. Len(feed) \in Nat /\ i \in Nat
  BY <1>1
<1>3. \A k \in 1..Len(feed) : feed[k] \in Version
  BY <1>1, ElementOfSeq
<1>4. \A k \in i + 1..Len(feed) : feed[k] \in Version
  BY <1>2, <1>3
<1>5. /\ feed' \in Seq(Version) /\ Len(feed') = Len(feed) - i
      /\ \A k \in 1..Len(feed) - i : feed'[k] = feed[i + k]
  <2>1. /\ feed' \in Seq(Version)
        /\ Len(feed') = IF i + 1 <= Len(feed) THEN Len(feed) - (i + 1) + 1 ELSE 0
        /\ \A k \in 1..Len(feed) - (i + 1) + 1 : feed'[k] = feed[(i + 1) + k - 1]
    BY <1>1, <1>2, <1>4, SubSeqProperties
  <2>2. Len(feed') = Len(feed) - i
    BY <1>2, <2>1
  <2>3. \A k \in 1..Len(feed) - i : (i + 1) + k - 1 = i + k
    BY <1>2
  <2>4. Len(feed) - (i + 1) + 1 = Len(feed) - i
    BY <1>2
  <2> QED  BY <2>1, <2>2, <2>3, <2>4
<1>6. feed' = <<>> <=> Len(feed') = 0
  BY <1>5
<1> QED  BY <1>2, <1>5, <1>6

(* The coordinator gets to know a version of the row.                      *)
LEMMA ReceiveCold ==
  ASSUME Inv, ColdInv, NEW i \in 1..Len(feed), Receive(i)
  PROVE  ColdInv'
<1>1. UNCHANGED <<op, phase, left, begun>>
  BY DEF Receive, db
<1>2. /\ Len(feed) \in Nat /\ Len(feed') = Len(feed) - i
      /\ \A k \in 1..Len(feed') : i + k \in 1..Len(feed) /\ feed'[k] = feed[i + k]
      /\ (feed' = <<>> <=> i = Len(feed))
  BY DeliveryKeepsTheRest DEF Inv
<1>3. view' = feed[i]
  BY DEF Receive, apply, coordinator
<1>4. feed # <<>>
  BY <1>2
<1>5. feed[i].op \in Ops /\ feed[i].op \in begun /\ feed[i] \in [op : Ops, phase : Phases]
  <2>1. feed \in Seq([op : Ops, phase : Phases])
    BY DEF Inv, TypeOK
  <2> HIDE DEF Phases
  <2>2. feed[i] \in [op : Ops, phase : Phases]
    BY <2>1, ElementOfSeq
  <2>3. feed[i].op \in Ops
    BY <2>2
  <2> QED  BY <2>2, <2>3 DEF ColdInv, FeedInv, FeedIsBegun
<1>6. \A o : ReleaseCalled(o)' =>
        ReleaseCalled(o) \/ (/\ o = feed[i].op /\ feed[i].phase = "confirmed"
                             /\ relayUp' = FALSE /\ cached' = FALSE)
  <2>1. CASE feed[i] = view
    BY <2>1 DEF Receive, ReleaseCalled
  <2>2. CASE feed[i] # view
    <3>1. apply(feed[i], quiesced, hadViewers, clients) /\ hadViewers \in BOOLEAN /\ clients \in BOOLEAN
      BY <2>2 DEF Receive, Inv, TypeOK
    <3>2. Quiesce(feed[i], quiesced) => relayUp' = FALSE /\ cached' = FALSE
      BY <2>2 DEF Receive, StreamIsDown
    <3> SUFFICES ASSUME NEW o, ReleaseCalled(o)', ~ReleaseCalled(o)
                 PROVE  /\ o = feed[i].op /\ feed[i].phase = "confirmed"
                        /\ relayUp' = FALSE /\ cached' = FALSE
      OBVIOUS
    <3>3. o = feed[i].op /\ feed[i].phase = "confirmed" /\ ~Expired(feed[i])
      BY <3>1, ApplyCalls
    <3> QED  BY <3>2, <3>3 DEF Quiesce
  <2> QED  BY <2>1, <2>2
<1>7. feed[i].op = op /\ feed[i].phase = "confirmed" => feed[i] = Confirmation
  BY <1>5 DEF Confirmation
<1>8. FeedInv'
  <2>1. FeedIsBegun'
    BY <1>1, <1>2 DEF ColdInv, FeedInv, FeedIsBegun
  <2>2. CallsAreBegun'
    BY <1>1, <1>5, <1>6 DEF ColdInv, FeedInv, CallsAreBegun
  <2>3. feed[Len(feed)] = Row /\ Row' = Row
    BY <1>1, <1>4 DEF ColdInv, FeedInv, FeedEndsInRow, Row
  <2>4. FeedEndsInRow'
    <3>1. CASE feed' = <<>>
      BY <1>2, <1>3, <2>3, <3>1 DEF FeedEndsInRow
    <3>2. CASE feed' # <<>>
      <4>1. Len(feed') \in 1..Len(feed') /\ i + Len(feed') = Len(feed)
        BY <1>2, <3>2
      <4>2. feed'[Len(feed')] = feed[Len(feed)]
        BY <1>2, <4>1
      <4> QED  BY <2>3, <3>2, <4>2 DEF FeedEndsInRow
    <3> QED  BY <3>1, <3>2
  <2> QED  BY <2>1, <2>2, <2>4 DEF FeedInv
<1>9. NotYetConfirmed'
  <2> SUFFICES ASSUME phase \in {"quiescing", "stopping"}
               PROVE  ~ReleaseCalled(op)' /\ NotDelivered'
    BY <1>1 DEF NotYetConfirmed, ReleaseCalled
  <2>1. ~ReleaseCalled(op) /\ NotDelivered
    BY DEF ColdInv, NotYetConfirmed
  <2>2. feed[i] # Confirmation
    BY <2>1 DEF NotDelivered
  <2>3. ~ReleaseCalled(op)'
    BY <1>1, <1>6, <1>7, <2>1, <2>2 DEF ReleaseCalled
  <2>4. NotDelivered'
    BY <1>1, <1>2, <2>1 DEF NotDelivered, Confirmation
  <2> QED  BY <2>3, <2>4
<1>10. ConfirmedLast'
  <2> SUFFICES ASSUME phase = "confirmed", NEW k \in 1..Len(feed') - 1
               PROVE  feed'[k] # Confirmation
    BY <1>1 DEF ConfirmedLast, Confirmation
  <2>1. k \in 1..Len(feed') /\ i + k \in 1..Len(feed) - 1
    BY <1>2
  <2> QED  BY <1>2, <2>1 DEF ColdInv, ConfirmedLast
<1>11. TornDown'
  <2> SUFFICES ASSUME phase = "confirmed", ReleaseCalled(op)'
               PROVE  feed' = <<>> /\ ~relayUp' /\ ~cached'
    BY <1>1 DEF TornDown, ReleaseCalled
  <2>1. ~ReleaseCalled(op)
    BY <1>4 DEF ColdInv, TornDown
  <2>2. /\ feed[i].op = op /\ feed[i].phase = "confirmed"
        /\ relayUp' = FALSE /\ cached' = FALSE
    BY <1>1, <1>6, <2>1 DEF ReleaseCalled
  <2>3. feed[i] = Confirmation
    BY <1>7, <2>2
  <2>4. i = Len(feed)
    BY <1>2, <2>3 DEF ColdInv, ConfirmedLast
  <2> QED  BY <1>2, <2>2, <2>4
<1> QED  BY <1>8, <1>9, <1>10, <1>11 DEF ColdInv

(* A restarted relay acts on the row itself, over no stream.               *)
LEMMA RestartCold ==
  ASSUME Inv, ColdInv, Restart
  PROVE  ColdInv'
<1>1. /\ UNCHANGED <<op, phase, begun>> /\ feed' = <<>> /\ relayUp' = FALSE /\ cached' = FALSE
      /\ apply(Row, NoOp, FALSE, FALSE)
  BY DEF Restart, db, StreamIsDown, Row
<1>2. view' = Row' /\ Row.op = op /\ Row.phase = phase
  BY <1>1 DEF apply, Row
<1>3. \A o : ReleaseCalled(o)' => ReleaseCalled(o) \/ (o = op /\ phase = "confirmed")
  <2> SUFFICES ASSUME NEW o, ReleaseCalled(o)'
               PROVE  ReleaseCalled(o) \/ (o = op /\ phase = "confirmed")
    OBVIOUS
  <2> HIDE DEF Row
  <2>1. ReleaseCalled(o) \/ (o = Row.op /\ Row.phase = "confirmed" /\ ~Expired(Row))
    BY <1>1, ApplyCalls
  <2> QED  BY <1>2, <2>1
<1>4. FeedIsBegun' /\ FeedEndsInRow' /\ ConfirmedLast' /\ NotDelivered'
  BY <1>1, <1>2 DEF FeedIsBegun, FeedEndsInRow, ConfirmedLast, NotDelivered
<1>5. CallsAreBegun'
  BY <1>1, <1>3 DEF ColdInv, FeedInv, CallsAreBegun, Inv, BarrierInv, RowIsBegun
<1>6. NotYetConfirmed'
  <2> SUFFICES ASSUME phase \in {"quiescing", "stopping"} PROVE ~ReleaseCalled(op)'
    BY <1>1, <1>4 DEF NotYetConfirmed
  <2> QED  BY <1>1, <1>3 DEF ColdInv, NotYetConfirmed, ReleaseCalled
<1>7. TornDown'
  BY <1>1 DEF TornDown
<1> QED  BY <1>4, <1>5, <1>6, <1>7 DEF ColdInv, FeedInv

(* Everything else: only a start of the stream could disturb ColdInv, and  *)
(* the closed row the coordinator acts on keeps it down.                   *)
LEMMA OthersCold ==
  ASSUME ColdInv,
         \/ \E o \in Ops : CommandDropped(o)
         \/ \E o \in Ops, proved \in BOOLEAN : PhoneStops(o, proved)
         \/ append_stream_command \/ PhoneTakes \/ PhoneStarts
         \/ DeadlineFires \/ addRelayViewer \/ removeRelayViewer
         \/ readLoop \/ handlePhoneMessage \/ Tick \/ UNCHANGED vars
  PROVE  ColdInv'
<1>1. UNCHANGED <<op, phase, begun, feed, view>>
  BY DEF CommandDropped, PhoneStops, append_stream_command, PhoneTakes, PhoneStarts,
     DeadlineFires, addRelayViewer, removeRelayViewer, readLoop, handlePhoneMessage, Tick,
     vars, db, coordinator
<1>2. \A x : ReleaseCalled(x)' => ReleaseCalled(x)
  <2>1. CASE DeadlineFires
    BY <2>1 DEF DeadlineFires, ReleaseCalled
  <2>2. CASE ~DeadlineFires
    <3>1. calls' = calls
      BY <2>2 DEF CommandDropped, PhoneStops, append_stream_command, PhoneTakes, PhoneStarts,
         addRelayViewer, removeRelayViewer, readLoop, handlePhoneMessage, Tick, vars
    <3> QED  BY <3>1 DEF ReleaseCalled
  <2> QED  BY <2>1, <2>2
<1>3. view = Confirmation => (relayUp' => relayUp) /\ (cached' => cached)
  <2> SUFFICES ASSUME view = Confirmation PROVE (relayUp' => relayUp) /\ (cached' => cached)
    OBVIOUS
  <2>1. blocks(view.phase)
    BY DEF Confirmation, blocks, Closing
  <2>2. CASE addRelayViewer
    <3>1. relayUp' = (relayUp \/ ~blocks(view.phase)) /\ cached' = cached
      BY <2>2 DEF addRelayViewer
    <3> QED  BY <2>1, <3>1, Zenon
  <2>3. CASE removeRelayViewer
    <3>1. relayUp' = FALSE /\ cached' = cached
      BY <2>3 DEF removeRelayViewer
    <3> QED  BY <3>1, Zenon
  <2>4. CASE handlePhoneMessage
    <3>1. cached' = (cached \/ ~blocks(view.phase)) /\ relayUp' = relayUp
      BY <2>4 DEF handlePhoneMessage
    <3> QED  BY <2>1, <3>1, Zenon
  <2>5. CASE ~(addRelayViewer \/ removeRelayViewer \/ handlePhoneMessage)
    <3>1. relayUp' = relayUp /\ cached' = cached
      BY <2>5 DEF CommandDropped, PhoneStops, append_stream_command, PhoneTakes, PhoneStarts,
         DeadlineFires, readLoop, Tick, vars, stream
    <3> QED  BY <3>1, Zenon
  <2> QED  BY <2>2, <2>3, <2>4, <2>5
<1> QED  BY <1>1, <1>2, <1>3, ColdFrame

(* Every step preserves what a cold release rests on.                      *)
LEMMA StepCold == Inv /\ ColdInv /\ [Next]_vars => ColdInv'
  BY BeginCold, AdvanceCold, AcknowledgeCold, LiveCold, ReceiveCold, RestartCold, OthersCold
     DEF Next

(* Only an executed release moves a confirmed row on to reloading or       *)
(* asleep, and it was called for by a coordinator that had torn down and   *)
(* has been kept down by the closed row it still acts on.                  *)
THEOREM ReleasesCold == Spec => ReleaseIsCold
<1>1. Inv /\ ColdInv /\ [Next]_vars
        => [phase = "confirmed" /\ phase' \in {"reloading", "asleep"}
              => ~relayUp /\ ~cached]_vars
  <2> SUFFICES ASSUME Inv, ColdInv, Next, phase = "confirmed", phase' \in {"reloading", "asleep"}
               PROVE  ~relayUp /\ ~cached
    OBVIOUS
  <2>1. ReleaseCalled(op)
    <3>1. ASSUME NEW o \in Ops, begin_cold_restart(o) PROVE FALSE
      BY <3>1 DEF begin_cold_restart, save
    <3>2. ASSUME NEW o \in Ops, NEW request \in Requests, advance_cold_restart(o, request)
          PROVE  ReleaseCalled(op)
      <4>1. Accepted(o, request) /\ phase' = Advanced(request) /\ <<o, request>> \in calls
        BY <3>2 DEF advance_cold_restart, save
      <4>2. request \in {"reloading", "asleep"} /\ o = op
        BY <4>1 DEF Accepted, Advanced
      <4> QED  BY <4>1, <4>2 DEF ReleaseCalled
    <3>3. ASSUME NEW o \in Ops, NEW proved \in BOOLEAN, acknowledge(o, proved) PROVE FALSE
      BY <3>3 DEF acknowledge
    <3>4. CASE note_live_report
      BY <3>4 DEF note_live_report
    <3>5. CASE \/ \E o \in Ops : CommandDropped(o)
               \/ \E o \in Ops, proved \in BOOLEAN : PhoneStops(o, proved)
               \/ append_stream_command \/ PhoneTakes \/ PhoneStarts
               \/ \E i \in 1..Len(feed) : Receive(i)
               \/ DeadlineFires \/ Restart \/ addRelayViewer \/ removeRelayViewer
               \/ readLoop \/ handlePhoneMessage \/ Tick
      <4>1. phase' = phase
        BY <3>5 DEF CommandDropped, PhoneStops, append_stream_command, PhoneTakes, PhoneStarts,
           Receive, DeadlineFires, Restart, addRelayViewer, removeRelayViewer, readLoop,
           handlePhoneMessage, Tick, db
      <4> QED  BY <4>1
    <3> QED  BY <3>1, <3>2, <3>3, <3>4, <3>5 DEF Next
  <2> QED  BY <2>1 DEF ColdInv, TornDown
<1> QED  BY <1>1, InitCold, StepCold, Invariance, PTL DEF Spec, ReleaseIsCold
=============================================================================
