------------------------- MODULE RelayDemandProofs --------------------------
(* Proofs about the relay's two demands, for every number of sockets,       *)
(* sessions, page loads and senders and whatever the bounds on teardowns,   *)
(* epochs and connections.                                                  *)
EXTENDS RelayDemand, FiniteSetTheorems, TLAPS

(***************************************************************************)
(* The capture demand.                                                      *)
(***************************************************************************)

(* The values a demand takes, and a receipt that is current.                *)
Demands == [epoch : 0..MaxEpoch, conn : 0..MaxConnection,
            sending : Senders \cup {None}, receipt : Capture!Receipt \cup {None}]
Current(d) ==
    d.receipt # None =>
        d.receipt.epoch = d.epoch /\ d.conn \in {0, d.receipt.conn} /\ d.sending = None

(* Before a first message has named the connection nothing is asked for,    *)
(* and whatever a sender carries is of an epoch.                            *)
NothingUnheard ==
    demand.conn = 0 =>
        /\ epoch = 0 /\ asking = {} /\ demand.receipt = None
        /\ \A s \in Senders : sender[s].at = "idle"
SendersHaveEpochs == \A s \in Senders : sender[s].at # "idle" => sender[s].epoch # 0

CaptureInv == ReceiptIsCurrent /\ NothingUnheard /\ SendersHaveEpochs

LEMMA SendersAreCounted == Capture!Cardinality(Senders) = Cardinality(Senders) /\ Cardinality(Senders) \in Nat
<1>1. \A S : Capture!Cardinality(S) = Cardinality(S)
  BY DEF Capture!Cardinality, Cardinality
<1> QED
  BY <1>1, FS_CardinalityType, DemandAssumption

LEMMA CaptureStarts == Capture!Init => CaptureInv
<1> SUFFICES ASSUME Capture!Init PROVE CaptureInv
  OBVIOUS
<1>1. Capture!Cardinality(Senders) \in Nat
  BY SendersAreCounted
<1>2. Capture!TypeOK
  <2>1. /\ epoch = 0 /\ conn = 0 /\ connected = FALSE /\ owed = 0 /\ asking = {}
        /\ reader = [c \in Capture!Connections |-> Capture!Ended]
        /\ viewer = [epoch |-> 0, credit |-> TRUE, visible |-> TRUE]
        /\ demand = [epoch |-> 0, conn |-> 0, sending |-> None, receipt |-> None]
        /\ sender = [s \in Senders |-> [at |-> "idle", epoch |-> 0, conn |-> 0]]
    BY DEF Capture!Init, Capture!Idle
  <2>2. reader \in [Capture!Connections -> Capture!Message \cup {Capture!Nothing, Capture!Ended}]
    BY <2>1
  <2>3. 0 \in 0..MaxEpoch /\ 0 \in 0..MaxConnection /\ 0 \in 0..Capture!Cardinality(Senders)
    BY <1>1, DemandAssumption
  <2>4. demand \in Demands /\ viewer \in [epoch : 0..MaxEpoch, credit : BOOLEAN, visible : BOOLEAN]
    BY <2>1, <2>3 DEF Demands
  <2>5. sender \in [Senders -> [at : {"idle", "check", "write", "finish"},
                               epoch : 0..MaxEpoch, conn : 0..MaxConnection]]
    BY <2>1, <2>3
  <2>6. /\ epoch \in 0..MaxEpoch /\ conn \in 0..MaxConnection /\ connected \in BOOLEAN
        /\ owed \in 0..Capture!Cardinality(Senders) /\ asking \subseteq Capture!Epochs
    BY <2>1, <2>3
  <2> QED
    BY <2>2, <2>4, <2>5, <2>6, Zenon DEF Capture!TypeOK, Demands
<1>3. Capture!ReceiptIsCurrent /\ NothingUnheard /\ SendersHaveEpochs
  BY DEF Capture!Init, Capture!ReceiptIsCurrent, NothingUnheard, SendersHaveEpochs, Capture!Idle
<1> QED
  BY <1>2, <1>3 DEF CaptureInv, ReceiptIsCurrent

(* What fencing and a new connection do to the demand.                      *)
LEMMA FencedIsEmpty ==
    ASSUME NEW d \in Demands
    PROVE  /\ Capture!Fenced(d) \in Demands
           /\ Capture!Fenced(d).epoch = d.epoch /\ Capture!Fenced(d).conn = d.conn
           /\ Capture!Fenced(d).receipt = None /\ Capture!Fenced(d).sending = None
BY DEF Demands, Capture!Fenced

LEMMA FencedAtIsEmpty ==
    ASSUME NEW d \in Demands, NEW e \in 0..MaxEpoch
    PROVE  /\ Capture!FencedAt(d, e) \in Demands
           /\ Capture!FencedAt(d, e).epoch = e /\ Capture!FencedAt(d, e).conn = d.conn
           /\ Capture!FencedAt(d, e).receipt = None /\ Capture!FencedAt(d, e).sending = None
<1>1. Capture!Fenced(d) \in Demands
  BY FencedIsEmpty
<1>2. Capture!FencedAt(d, e) = [Capture!Fenced(d) EXCEPT !.epoch = e]
  BY DEF Capture!FencedAt
<1> QED
  BY <1>1, <1>2, FencedIsEmpty DEF Demands

LEMMA ObservedIsCurrent ==
    ASSUME NEW d \in Demands, NEW c \in Capture!Connections, Current(d), d.conn = 0 => d.receipt = None
    PROVE  /\ Capture!Observed(d, c) \in Demands /\ Current(Capture!Observed(d, c))
           /\ Capture!Observed(d, c).conn = c /\ Capture!Observed(d, c).epoch = d.epoch
<1>1. CASE d.conn \notin {0, c}
  <2>1. Capture!Observed(d, c) = [Capture!Fenced(d) EXCEPT !.conn = c]
    BY <1>1 DEF Capture!Observed
  <2> QED
    BY <2>1, FencedIsEmpty, DemandAssumption DEF Demands, Current, Capture!Connections
<1>2. CASE d.conn \in {0, c}
  <2>1. Capture!Observed(d, c) = [d EXCEPT !.conn = c]
    BY <1>2 DEF Capture!Observed
  <2> QED
    BY <1>2, <2>1, DemandAssumption DEF Demands, Current, Capture!Connections
<1> QED
  BY <1>1, <1>2

(* The types of what a step changes, one after the other.                   *)
Viewers == [epoch : 0..MaxEpoch, credit : BOOLEAN, visible : BOOLEAN]
SenderStates == [at : {"idle", "check", "write", "finish"}, epoch : 0..MaxEpoch, conn : 0..MaxConnection]
Readers == [Capture!Connections -> Capture!Message \cup {Capture!Nothing, Capture!Ended}]
OwedBound == 0..Capture!Cardinality(Senders)

LEMMA CaptureTypes ==
    Capture!TypeOK <=>
        /\ epoch \in 0..MaxEpoch /\ conn \in 0..MaxConnection /\ connected \in BOOLEAN
        /\ reader \in Readers /\ owed \in OwedBound /\ viewer \in Viewers
        /\ asking \subseteq Capture!Epochs /\ demand \in Demands /\ sender \in [Senders -> SenderStates]
BY DEF Capture!TypeOK, Readers, OwedBound, Viewers, Demands, SenderStates

(* What a viewer that can use a picture asks for is a real epoch.           *)
LEMMA AskedAreEpochs ==
    ASSUME epoch' \in 0..MaxEpoch, asking \subseteq Capture!Epochs, Capture!Ask
    PROVE  /\ asking' \subseteq Capture!Epochs
           /\ epoch' = 0 => asking' = asking
BY DEF Capture!Ask, Capture!Useful, Capture!Epochs

LEMMA SenderSteps ==
    ASSUME CaptureInv, NEW s \in Senders,
           Capture!SenderChecks(s) \/ Capture!SenderWrites(s) \/ Capture!SenderFinishes(s)
    PROVE  CaptureInv'
<1>1. /\ Capture!TypeOK /\ Current(demand) /\ NothingUnheard /\ SendersHaveEpochs
      /\ sender \in [Senders -> SenderStates] /\ demand \in Demands /\ owed \in OwedBound
      /\ epoch \in 0..MaxEpoch /\ conn \in 0..MaxConnection
  BY CaptureTypes DEF CaptureInv, ReceiptIsCurrent, Capture!ReceiptIsCurrent, Current
<1>2. sender[s].at # "idle"
  BY DEF Capture!SenderChecks, Capture!SenderWrites, Capture!SenderFinishes
<1>3. demand.conn # 0
  BY <1>1, <1>2 DEF NothingUnheard
<1>4. ASSUME sender' \in [Senders -> SenderStates], demand' \in Demands, owed' \in OwedBound,
             UNCHANGED <<epoch, conn, connected, reader, viewer, asking>>
      PROVE  Capture!TypeOK'
  BY <1>1, <1>4, CaptureTypes DEF Readers, OwedBound, Viewers, Demands, SenderStates, Capture!TypeOK
<1>5. ASSUME sender' \in [Senders -> SenderStates], \A x \in Senders \ {s} : sender'[x] = sender[x],
             sender'[s].at # "idle" => sender'[s].epoch = sender[s].epoch
      PROVE  SendersHaveEpochs'
  BY <1>1, <1>2, <1>5 DEF SendersHaveEpochs
<1>6. CASE Capture!SenderChecks(s)
  <2>1. /\ sender' = [sender EXCEPT ![s].at = IF Capture!Useful(viewer, sender[s].epoch) THEN "write" ELSE "finish"]
        /\ UNCHANGED <<epoch, conn, connected, reader, owed, viewer, asking, demand>>
    BY <1>6 DEF Capture!SenderChecks
  <2>2. PICK at \in {"write", "finish"} : sender' = [sender EXCEPT ![s].at = at]
    BY <2>1
  <2>3. /\ sender' \in [Senders -> SenderStates] /\ \A x \in Senders \ {s} : sender'[x] = sender[x]
        /\ sender'[s].epoch = sender[s].epoch
    BY <1>1, <2>2 DEF SenderStates
  <2> QED
    BY <1>1, <1>3, <1>4, <1>5, <2>1, <2>3
       DEF CaptureInv, ReceiptIsCurrent, Capture!ReceiptIsCurrent, Current, NothingUnheard
<1>7. CASE Capture!SenderWrites(s)
  <2>1. /\ UNCHANGED <<epoch, conn, connected, reader, viewer, asking, demand>>
        /\ owed' \in OwedBound
    BY <1>1, <1>7, SendersAreCounted DEF Capture!SenderWrites, OwedBound
  <2>2. PICK at \in {"finish"}, k \in 0..MaxConnection : sender' = [sender EXCEPT ![s].at = at, ![s].conn = k]
    <3>1. CASE sender' = [sender EXCEPT ![s].at = "finish", ![s].conn = conn]
      BY <1>1, <3>1
    <3>2. CASE sender' = [sender EXCEPT ![s].at = "finish"]
      <4>1. sender' = [sender EXCEPT ![s].at = "finish", ![s].conn = sender[s].conn] /\ sender[s].conn \in 0..MaxConnection
        BY <1>1, <3>2 DEF SenderStates
      <4> QED
        BY <4>1
    <3> QED
      BY <1>7, <3>1, <3>2 DEF Capture!SenderWrites
  <2>3. /\ sender' \in [Senders -> SenderStates] /\ \A x \in Senders \ {s} : sender'[x] = sender[x]
        /\ sender'[s].epoch = sender[s].epoch
    BY <1>1, <2>2 DEF SenderStates
  <2> QED
    BY <1>1, <1>3, <1>4, <1>5, <2>1, <2>3
       DEF CaptureInv, ReceiptIsCurrent, Capture!ReceiptIsCurrent, Current, NothingUnheard
<1>8. CASE Capture!SenderFinishes(s)
  <2> DEFINE x == sender[s]
  <2> DEFINE arrived == x.conn # 0 /\ connected /\ conn = x.conn /\ demand.conn \in {0, x.conn}
  <2>1. /\ sender' = [sender EXCEPT ![s] = [at |-> "idle", epoch |-> 0, conn |-> 0]]
        /\ UNCHANGED <<epoch, conn, connected, reader, owed, viewer, asking>>
        /\ demand' = IF demand.sending # s \/ demand.epoch # x.epoch THEN demand
                     ELSE [demand EXCEPT !.sending = None,
                             !.receipt = IF arrived THEN [epoch |-> x.epoch, conn |-> x.conn] ELSE demand.receipt]
    BY <1>8 DEF Capture!SenderFinishes, Capture!Idle
  <2>2. sender' \in [Senders -> SenderStates] /\ \A y \in Senders \ {s} : sender'[y] = sender[y]
        /\ sender'[s].at = "idle"
    BY <1>1, <2>1, DemandAssumption DEF SenderStates
  <2>3. x.epoch \in Capture!Epochs /\ (x.conn # 0 => x.conn \in Capture!Connections)
    BY <1>1, <1>2 DEF SendersHaveEpochs, SenderStates, Capture!Epochs, Capture!Connections
  <2>4. demand' \in Demands /\ Current(demand') /\ demand'.conn = demand.conn
    <3>1. CASE demand.sending # s \/ demand.epoch # x.epoch
      BY <1>1, <2>1, <3>1
    <3>2. CASE demand.sending = s /\ demand.epoch = x.epoch
      <4>1. demand.receipt = None
        BY <1>1, <3>2, DemandAssumption DEF Current
      <4>2. CASE arrived
        <5>1. [epoch |-> x.epoch, conn |-> x.conn] \in Capture!Receipt
          BY <2>3, <4>2 DEF Capture!Receipt
        <5>2. demand' = [demand EXCEPT !.sending = None, !.receipt = [epoch |-> x.epoch, conn |-> x.conn]]
          BY <2>1, <3>2, <4>2
        <5> HIDE DEF x
        <5> QED
          BY <1>1, <3>2, <4>2, <5>1, <5>2 DEF Demands, Current
      <4>3. CASE ~arrived
        <5>1. demand' = [demand EXCEPT !.sending = None, !.receipt = None]
          BY <2>1, <3>2, <4>1, <4>3
        <5> QED
          BY <1>1, <5>1 DEF Demands, Current
      <4> QED
        BY <4>2, <4>3
    <3> QED
      BY <3>1, <3>2
  <2> QED
    BY <1>1, <1>3, <1>4, <1>5, <2>1, <2>2, <2>4
       DEF CaptureInv, ReceiptIsCurrent, Capture!ReceiptIsCurrent, Current, NothingUnheard
<1> QED
  BY <1>6, <1>7, <1>8

LEMMA RequestSteps ==
    ASSUME CaptureInv, NEW e \in Capture!Epochs, Capture!Request(e)
    PROVE  CaptureInv'
<1>1. /\ Capture!TypeOK /\ Current(demand) /\ NothingUnheard /\ SendersHaveEpochs
      /\ sender \in [Senders -> SenderStates] /\ demand \in Demands
      /\ asking \subseteq Capture!Epochs
  BY CaptureTypes DEF CaptureInv, ReceiptIsCurrent, Capture!ReceiptIsCurrent, Current
<1> DEFINE d == [(IF demand.epoch \notin {0, e} THEN Capture!Fenced(demand) ELSE demand) EXCEPT !.epoch = e]
<1>2. /\ e \in asking /\ asking' = asking \ {e}
      /\ UNCHANGED <<epoch, conn, connected, reader, owed, viewer>>
      /\ \/ /\ d.receipt # None \/ d.sending # None
            /\ demand' = d /\ UNCHANGED sender
         \/ /\ d.receipt = None /\ d.sending = None
            /\ \E s \in Senders :
              /\ sender[s].at = "idle"
              /\ sender' = [sender EXCEPT ![s] = [at |-> "check", epoch |-> e, conn |-> 0]]
              /\ demand' = [d EXCEPT !.sending = s]
  BY DEF Capture!Request
<1>3. demand.conn # 0
  BY <1>1, <1>2 DEF NothingUnheard
<1>4. d \in Demands /\ Current(d) /\ d.conn = demand.conn
  <2>1. CASE demand.epoch \notin {0, e}
    <3>1. d = [Capture!Fenced(demand) EXCEPT !.epoch = e]
      BY <2>1
    <3> HIDE DEF d
    <3> QED
      BY <1>1, <3>1, FencedIsEmpty DEF Demands, Current, Capture!Epochs
  <2>2. CASE demand.epoch \in {0, e}
    <3>1. d = [demand EXCEPT !.epoch = e]
      BY <2>2
    <3>2. demand.epoch = 0 => demand.receipt = None
      BY <1>1 DEF Current, Demands, Capture!Receipt, Capture!Epochs
    <3> HIDE DEF d
    <3> QED
      BY <1>1, <2>2, <3>1, <3>2 DEF Demands, Current, Capture!Epochs
  <2> QED
    BY <2>1, <2>2
<1> HIDE DEF d
<1>5. /\ sender' \in [Senders -> SenderStates] /\ SendersHaveEpochs'
      /\ demand' \in Demands /\ Current(demand') /\ demand'.conn = demand.conn
  <2>1. CASE demand' = d /\ UNCHANGED sender
    BY <1>1, <1>4, <2>1 DEF SendersHaveEpochs
  <2>2. ASSUME NEW s \in Senders, d.receipt = None,
               sender' = [sender EXCEPT ![s] = [at |-> "check", epoch |-> e, conn |-> 0]],
               demand' = [d EXCEPT !.sending = s]
        PROVE  /\ sender' \in [Senders -> SenderStates] /\ SendersHaveEpochs'
               /\ demand' \in Demands /\ Current(demand') /\ demand'.conn = demand.conn
    <3>1. [at |-> "check", epoch |-> e, conn |-> 0] \in SenderStates /\ e # 0
      BY DemandAssumption DEF SenderStates, Capture!Epochs
    <3>2. sender' \in [Senders -> SenderStates] /\ SendersHaveEpochs'
      BY <1>1, <2>2, <3>1 DEF SendersHaveEpochs
    <3> QED
      BY <1>4, <2>2, <3>2 DEF Demands, Current
  <2> QED
    BY <1>2, <2>1, <2>2
<1>6. Capture!TypeOK'
  BY <1>1, <1>2, <1>5, CaptureTypes
     DEF Readers, OwedBound, Viewers, Demands, SenderStates, Capture!TypeOK
<1> QED
  BY <1>1, <1>3, <1>5, <1>6
     DEF CaptureInv, ReceiptIsCurrent, Capture!ReceiptIsCurrent, Current, NothingUnheard

(* The viewer's own steps, the end of a receipt's time and the connection's *)
(* coming and going.                                                        *)
LEMMA ViewerSteps ==
    ASSUME CaptureInv,
           \/ Capture!Expire \/ Capture!LoseConnection \/ Capture!WritesConfig
           \/ Capture!ReceiptReleased \/ Capture!BecomesVisible \/ Capture!Hides
           \/ \E e \in Capture!Epochs : Capture!Connect(e)
           \/ \E m \in Capture!Message : Capture!Read(m)
    PROVE  CaptureInv'
<1>1. /\ Capture!TypeOK /\ Current(demand) /\ NothingUnheard /\ SendersHaveEpochs
      /\ epoch \in 0..MaxEpoch /\ conn \in 0..MaxConnection /\ connected \in BOOLEAN
      /\ reader \in Readers /\ owed \in OwedBound /\ viewer \in Viewers
      /\ asking \subseteq Capture!Epochs /\ demand \in Demands /\ sender \in [Senders -> SenderStates]
  BY CaptureTypes DEF CaptureInv, ReceiptIsCurrent, Capture!ReceiptIsCurrent, Current
<1>2. UNCHANGED <<epoch, sender>>
  BY DEF Capture!Expire, Capture!LoseConnection, Capture!WritesConfig, Capture!ReceiptReleased,
         Capture!BecomesVisible, Capture!Hides, Capture!ViewerChanges, Capture!Connect, Capture!Read
<1>3. ASSUME demand' \in Demands, Current(demand'), demand'.conn = demand.conn,
             demand.receipt = None => demand'.receipt = None,
             conn' \in 0..MaxConnection, connected' \in BOOLEAN, reader' \in Readers, owed' \in OwedBound,
             viewer' \in Viewers, asking' = asking \/ Capture!Ask
      PROVE  CaptureInv'
  <2>1. asking' \subseteq Capture!Epochs /\ (epoch = 0 => asking' = asking)
    BY <1>1, <1>2, <1>3, AskedAreEpochs
  <2>2. Capture!TypeOK'
    BY <1>1, <1>2, <1>3, <2>1, CaptureTypes
       DEF Readers, OwedBound, Viewers, Demands, SenderStates, Capture!TypeOK
  <2>3. NothingUnheard' /\ SendersHaveEpochs'
    BY <1>1, <1>2, <1>3, <2>1 DEF NothingUnheard, SendersHaveEpochs
  <2> QED
    BY <1>3, <2>2, <2>3 DEF CaptureInv, ReceiptIsCurrent, Capture!ReceiptIsCurrent, Current
<1>4. CASE Capture!Expire
  <2>1. demand' = [demand EXCEPT !.receipt = None] /\ UNCHANGED <<conn, connected, reader, owed, viewer>> /\ Capture!Ask
    BY <1>4 DEF Capture!Expire
  <2>2. demand' \in Demands /\ Current(demand') /\ demand'.conn = demand.conn /\ demand'.receipt = None
    BY <1>1, <2>1 DEF Demands, Current
  <2> QED
    BY <1>1, <1>3, <2>1, <2>2
<1>5. CASE Capture!LoseConnection
  <2>1. /\ connected' = FALSE /\ owed' = 0
        /\ UNCHANGED <<conn, reader, viewer, asking, demand>>
    BY <1>5 DEF Capture!LoseConnection
  <2>2. owed' \in OwedBound
    BY <2>1, SendersAreCounted DEF OwedBound
  <2> QED
    BY <1>1, <1>3, <2>1, <2>2
<1>6. CASE Capture!WritesConfig \/ Capture!ReceiptReleased \/ Capture!BecomesVisible
  <2>1. /\ UNCHANGED <<conn, connected, reader, owed, demand>> /\ Capture!Ask
        /\ \/ viewer' = [viewer EXCEPT !.epoch = epoch]
           \/ viewer' = [viewer EXCEPT !.credit = TRUE]
           \/ viewer' = [viewer EXCEPT !.visible = TRUE]
    BY <1>6
       DEF Capture!WritesConfig, Capture!ReceiptReleased, Capture!BecomesVisible,
           Capture!ViewerChanges
  <2>2. viewer' \in Viewers
    BY <1>1, <2>1 DEF Viewers
  <2> QED
    BY <1>1, <1>3, <2>1, <2>2
<1>7. CASE Capture!Hides
  <2>1. viewer' = [viewer EXCEPT !.visible = FALSE] /\ UNCHANGED <<conn, connected, reader, owed, asking, demand>>
    BY <1>7 DEF Capture!Hides
  <2>2. viewer' \in Viewers
    BY <1>1, <2>1 DEF Viewers
  <2> QED
    BY <1>1, <1>3, <2>1, <2>2
<1>8. ASSUME NEW e \in Capture!Epochs, Capture!Connect(e) PROVE CaptureInv'
  <2>1. /\ conn < MaxConnection /\ conn' = conn + 1 /\ connected' = TRUE /\ owed' = 0
        /\ reader' = [reader EXCEPT ![conn + 1] = [kind |-> "config", epoch |-> e]]
        /\ UNCHANGED <<viewer, asking, demand>>
    BY <1>8 DEF Capture!Connect
  <2>2. [kind |-> "config", epoch |-> e] \in Capture!Message
    BY DEF Capture!Message
  <2>3. PICK m \in Capture!Message : reader' = [reader EXCEPT ![conn + 1] = m]
    BY <2>1, <2>2
  <2>4. reader' \in Readers
    BY <1>1, <2>3 DEF Readers
  <2>5. conn' \in 0..MaxConnection /\ owed' \in OwedBound
    BY <1>1, <2>1, SendersAreCounted, DemandAssumption DEF OwedBound
  <2> QED
    BY <1>1, <1>3, <2>1, <2>4, <2>5
<1>9. ASSUME NEW m \in Capture!Message, Capture!Read(m) PROVE CaptureInv'
  <2>1. /\ m.kind = "frame" => owed > 0
        /\ owed' = IF m.kind = "frame" THEN owed - 1 ELSE IF m.kind = "config" /\ m.epoch # epoch THEN 0 ELSE owed
        /\ reader' = [reader EXCEPT ![conn] = m]
        /\ UNCHANGED <<conn, connected, viewer, asking, demand>>
    BY <1>9 DEF Capture!Read
  <2>2. reader' \in Readers
    BY <1>1, <2>1 DEF Readers
  <2>3. owed' \in OwedBound
    BY <1>1, <2>1, SendersAreCounted DEF OwedBound
  <2> QED
    BY <1>1, <1>3, <2>1, <2>2, <2>3
<1> QED
  BY <1>4, <1>5, <1>6, <1>7, <1>8, <1>9

(* The handler of the phone's messages, of a connection that may be gone.   *)
LEMMA HandlerSteps ==
    ASSUME CaptureInv, NEW c \in Capture!Connections, Capture!ReaderEnds(c) \/ Capture!Handle(c)
    PROVE  CaptureInv'
<1>1. /\ Capture!TypeOK /\ Current(demand) /\ NothingUnheard /\ SendersHaveEpochs
      /\ epoch \in 0..MaxEpoch /\ conn \in 0..MaxConnection /\ connected \in BOOLEAN
      /\ reader \in Readers /\ owed \in OwedBound /\ viewer \in Viewers
      /\ asking \subseteq Capture!Epochs /\ demand \in Demands /\ sender \in [Senders -> SenderStates]
  BY CaptureTypes DEF CaptureInv, ReceiptIsCurrent, Capture!ReceiptIsCurrent, Current
<1>2. CASE Capture!ReaderEnds(c)
  <2>1. /\ reader' = [reader EXCEPT ![c] = Capture!Ended] /\ demand' = Capture!FencedAt(demand, 0)
        /\ UNCHANGED <<epoch, conn, connected, owed, viewer, asking, sender>>
    BY <1>2 DEF Capture!ReaderEnds
  <2>2. reader' \in Readers
    BY <1>1, <2>1 DEF Readers
  <2>3. demand' \in Demands /\ demand'.conn = demand.conn /\ demand'.receipt = None
    BY <1>1, <2>1, FencedAtIsEmpty, DemandAssumption
  <2>4. Capture!TypeOK'
    BY <1>1, <2>1, <2>2, <2>3, CaptureTypes
       DEF Readers, OwedBound, Viewers, Demands, SenderStates, Capture!TypeOK
  <2> QED
    BY <1>1, <2>1, <2>3, <2>4
       DEF CaptureInv, ReceiptIsCurrent, Capture!ReceiptIsCurrent, NothingUnheard,
           SendersHaveEpochs
<1>3. CASE Capture!Handle(c)
  <2> DEFINE m == reader[c]
  <2> DEFINE d == Capture!Observed(demand, c)
  <2> DEFINE accepted == m.kind = "config" /\ m.epoch >= epoch
  <2>1. /\ m \in Capture!Message /\ reader' = [reader EXCEPT ![c] = Capture!Nothing]
        /\ epoch' = IF accepted THEN m.epoch ELSE epoch
        /\ viewer' = IF accepted THEN [viewer EXCEPT !.epoch = 0, !.credit = TRUE]
                     ELSE IF m.kind = "frame" /\ viewer.epoch = epoch THEN [viewer EXCEPT !.credit = FALSE] ELSE viewer
        /\ demand' = IF accepted /\ m.epoch # epoch THEN Capture!FencedAt(d, m.epoch)
                     ELSE IF m.kind = "frame" THEN Capture!Fenced(d) ELSE d
        /\ IF m.kind = "frame" THEN Capture!Ask ELSE UNCHANGED asking
        /\ UNCHANGED <<conn, connected, owed, sender>>
    BY <1>3 DEF Capture!Handle, Capture!Completed
  <2>2. d \in Demands /\ Current(d) /\ d.conn = c
    BY <1>1, ObservedIsCurrent DEF NothingUnheard
  <2>3. m.epoch \in 0..MaxEpoch
    BY <2>1, DemandAssumption DEF Capture!Message, Capture!Epochs
  <2> HIDE DEF d, m
  <2>4. demand' \in Demands /\ Current(demand') /\ demand'.conn = c
    BY <2>1, <2>2, <2>3, FencedAtIsEmpty, FencedIsEmpty DEF Current
  <2>5. epoch' \in 0..MaxEpoch /\ reader' \in Readers
    BY <1>1, <2>1, <2>3 DEF Readers
  <2>6. viewer' \in Viewers
    <3>1. \/ viewer' = [viewer EXCEPT !.epoch = 0, !.credit = TRUE]
          \/ viewer' = [viewer EXCEPT !.credit = FALSE]
          \/ viewer' = viewer
      BY <2>1, Zenon
    <3>2. 0 \in 0..MaxEpoch
      BY DemandAssumption
    <3>3. /\ [viewer EXCEPT !.epoch = 0, !.credit = TRUE] \in Viewers
          /\ [viewer EXCEPT !.credit = FALSE] \in Viewers
      BY <1>1, <3>2 DEF Viewers
    <3> QED
      BY <1>1, <3>1, <3>3
  <2>7. asking' \subseteq Capture!Epochs
    BY <1>1, <2>1, <2>5, AskedAreEpochs
  <2>8. c # 0
    BY DEF Capture!Connections
  <2>9. Capture!TypeOK'
    BY <1>1, <2>1, <2>4, <2>5, <2>6, <2>7, CaptureTypes
       DEF Readers, OwedBound, Viewers, Demands, SenderStates, Capture!TypeOK
  <2> QED
    BY <1>1, <2>1, <2>4, <2>8, <2>9
       DEF CaptureInv, ReceiptIsCurrent, Capture!ReceiptIsCurrent, Current, NothingUnheard,
           SendersHaveEpochs
<1> QED
  BY <1>2, <1>3

LEMMA CaptureSteps == CaptureInv /\ Capture!Next => CaptureInv'
BY SenderSteps, RequestSteps, ViewerSteps, HandlerSteps DEF Capture!Next

(* A receipt in force is of the epoch and of the connection the demand is   *)
(* about, with no sender beside it, whatever reconnects, late messages of a *)
(* replaced connection and late senders interleave (capture_demand.go).     *)
THEOREM ReceiptsAreCurrent == DemandSpec => []ReceiptIsCurrent
<1>1. DemandInit => CaptureInv
  BY CaptureStarts DEF DemandInit
<1>2. CaptureInv /\ [DemandNext]_<<part, viewerVars, captureVars>> => CaptureInv'
  <2> SUFFICES ASSUME CaptureInv, [DemandNext]_<<part, viewerVars, captureVars>> PROVE CaptureInv'
    OBVIOUS
  <2>1. CASE UNCHANGED captureVars
    BY <2>1
       DEF captureVars, CaptureInv, ReceiptIsCurrent, Capture!TypeOK, Capture!ReceiptIsCurrent,
           NothingUnheard, SendersHaveEpochs
  <2>2. CASE Capture!Next
    BY <2>2, CaptureSteps
  <2> QED
    BY <2>1, <2>2 DEF DemandNext
<1>3. CaptureInv => ReceiptIsCurrent
  BY DEF CaptureInv
<1> QED
  BY <1>1, <1>2, <1>3, PTL DEF DemandSpec

(***************************************************************************)
(* The viewers' references and the published state.                         *)
(***************************************************************************)

ViewerShapes ==
    /\ barrier \in {"open", "blocking", "quiesced"} /\ generation \in 0..MaxGeneration
    /\ refs \in [Sessions -> Nat] /\ viewers \in Nat /\ videoClients \in Nat
    /\ startup \in [Sessions -> Openings \cup {Unowned, None}] /\ warm \in SUBSET Sessions
    /\ opening \in Openings \cup {None} /\ active \in BOOLEAN
    /\ page \in [Openings -> {"new", "prewarm", "warm", "done"}]
    /\ sock \in [Sockets -> SockPC] /\ trace \in [Sockets -> Openings \cup {None}]
    /\ held \in [Sockets -> 0..MaxGeneration] /\ counted \in [Sockets -> BOOLEAN]
    /\ shown \in SUBSET Sockets
    /\ pending \in BOOLEAN \cup {None} /\ writing \in BOOLEAN \cup {None}
    /\ published \in BOOLEAN \cup {None} /\ timer \in BOOLEAN /\ releasing \in BOOLEAN

(* The counters count what is there.                                        *)
Streaming == {c \in Sockets : sock[c] = "open"}
Viewed == {s \in Sessions : refs[s] > 0}
ViewersAreCounted == viewers = Cardinality(Viewed)
ClientsAreCounted == videoClients = Cardinality(Streaming)

(* Every reference has a holder, and a socket that is closed holds nothing. *)
ReferencesAreHeld ==
    /\ \A s \in Sessions : refs[s] <= Cardinality(Holders(s))
    /\ \A c \in Sockets : sock[c] = "closed" => ~counted[c]

(* Whatever the database lacks is on its way: the start when a session is   *)
(* viewed, the stop when nothing is.  Behind the barrier nothing is wanted. *)
Leaving == \E c \in Sockets : sock[c] \in {"leaving", "left"}
StartIsComing == pending = TRUE \/ (pending = None /\ (writing = TRUE \/ published # FALSE))
StopIsComing == timer \/ releasing \/ pending = FALSE \/ (pending = None /\ writing = FALSE) \/ Leaving
Publication ==
    /\ barrier = "quiesced" => viewers = 0
    /\ Blocked => published = FALSE
    /\ ~Blocked /\ viewers > 0 => StartIsComing
    /\ ~Blocked /\ published = TRUE /\ ~Demand => StopIsComing

(* An opening whose picture was seen is not active and owns no lease.       *)
PaintedIsOver ==
    /\ active => opening \in Openings
    /\ opening # None => page[opening] # "new"
    /\ \A c \in Sockets : trace[c] # None => page[trace[c]] # "new"
    /\ \A c \in shown : trace[c] # None =>
           startup[SessionOf[c]] # trace[c] /\ ~(active /\ opening = trace[c])

ViewerInv ==
    /\ ViewerShapes /\ ViewersAreCounted /\ ClientsAreCounted
    /\ ReferencesAreHeld /\ Publication /\ PaintedIsOver

LEMMA ViewersStart == Init => ViewerInv
<1> SUFFICES ASSUME Init PROVE ViewerInv
  OBVIOUS
<1>1. ViewerShapes
  <2>1. /\ barrier \in {"open", "blocking", "quiesced"} /\ generation \in 0..MaxGeneration
        /\ refs \in [Sessions -> Nat] /\ viewers \in Nat /\ videoClients \in Nat
    BY ViewersAssumption DEF Init
  <2>2. /\ startup \in [Sessions -> Openings \cup {Unowned, None}] /\ warm \in SUBSET Sessions
        /\ opening \in Openings \cup {None} /\ active \in BOOLEAN
        /\ page \in [Openings -> {"new", "prewarm", "warm", "done"}]
        /\ shown \in SUBSET Sockets
    BY DEF Init
  <2>3. /\ sock \in [Sockets -> SockPC] /\ trace \in [Sockets -> Openings \cup {None}]
        /\ held \in [Sockets -> 0..MaxGeneration] /\ counted \in [Sockets -> BOOLEAN]
    BY ViewersAssumption DEF Init, SockPC
  <2>4. /\ pending \in BOOLEAN \cup {None} /\ writing \in BOOLEAN \cup {None}
        /\ published \in BOOLEAN \cup {None} /\ timer \in BOOLEAN /\ releasing \in BOOLEAN
    BY DEF Init
  <2> QED
    BY <2>1, <2>2, <2>3, <2>4 DEF ViewerShapes
<1>2. Viewed = {} /\ Streaming = {}
  BY DEF Init, Viewed, Streaming
<1>3. ViewersAreCounted /\ ClientsAreCounted
  BY <1>2, FS_EmptySet DEF Init, ViewersAreCounted, ClientsAreCounted
<1>4. \A s \in Sessions : Holders(s) = {}
  BY DEF Init, Holders
<1>5. ReferencesAreHeld
  BY <1>4, FS_EmptySet DEF Init, ReferencesAreHeld
<1>6. Publication /\ PaintedIsOver
  BY DEF Init, Publication, PaintedIsOver, Blocked
<1> QED
  BY <1>1, <1>3, <1>5, <1>6 DEF ViewerInv

LEMMA SetsAreFinite ==
    /\ Cardinality(Sockets) \in Nat /\ Cardinality(Sessions) \in Nat
    /\ \A S \in SUBSET Sessions :
          IsFiniteSet(S) /\ Cardinality(S) \in Nat /\ Cardinality(S) <= Cardinality(Sessions)
    /\ \A S \in SUBSET Sockets :
          IsFiniteSet(S) /\ Cardinality(S) \in Nat /\ Cardinality(S) <= Cardinality(Sockets)
    /\ \A S \in SUBSET (Sockets \cup {"startup", "warm"}) :
          IsFiniteSet(S) /\ Cardinality(S) \in Nat /\ Cardinality(S) <= Cardinality(Sockets) + 2
<1>1. IsFiniteSet(Sockets) /\ IsFiniteSet(Sessions)
  BY ViewersAssumption
<1>2. Cardinality(Sockets) \in Nat /\ Cardinality(Sessions) \in Nat
  BY <1>1, FS_CardinalityType
<1>3. ASSUME NEW S \in SUBSET Sessions
      PROVE  IsFiniteSet(S) /\ Cardinality(S) \in Nat /\ Cardinality(S) <= Cardinality(Sessions)
  BY <1>1, FS_Subset, FS_CardinalityType
<1>4. ASSUME NEW S \in SUBSET Sockets
      PROVE  IsFiniteSet(S) /\ Cardinality(S) \in Nat /\ Cardinality(S) <= Cardinality(Sockets)
  BY <1>1, FS_Subset, FS_CardinalityType
<1>5. ASSUME NEW S \in SUBSET (Sockets \cup {"startup", "warm"})
      PROVE  IsFiniteSet(S) /\ Cardinality(S) \in Nat /\ Cardinality(S) <= Cardinality(Sockets) + 2
  <2> DEFINE one == Sockets \cup {"startup"}
             two == one \cup {"warm"}
  <2>1. IsFiniteSet(one)
    BY <1>1, FS_AddElement
  <2>2. Cardinality(one) = Cardinality(Sockets) \/ Cardinality(one) = Cardinality(Sockets) + 1
    BY <1>1, FS_AddElement
  <2> HIDE DEF one
  <2>3. IsFiniteSet(two)
    BY <2>1, FS_AddElement
  <2>4. Cardinality(two) = Cardinality(one) \/ Cardinality(two) = Cardinality(one) + 1
    BY <2>1, FS_AddElement
  <2>5. S \in SUBSET two
    BY DEF one
  <2> HIDE DEF two
  <2>6. IsFiniteSet(S) /\ Cardinality(S) <= Cardinality(two)
    BY <2>3, <2>5, FS_Subset
  <2>7. Cardinality(S) \in Nat /\ Cardinality(two) \in Nat /\ Cardinality(one) \in Nat
    BY <2>1, <2>3, <2>6, FS_CardinalityType
  <2> QED
    BY <1>2, <2>2, <2>4, <2>6, <2>7
<1> QED
  BY <1>2, <1>3, <1>4, <1>5

(* The sets that are counted, in any state.                                 *)
LEMMA WhereTheyAre ==
    /\ Viewed \in SUBSET Sessions /\ Viewed' \in SUBSET Sessions
    /\ Streaming \in SUBSET Sockets /\ Streaming' \in SUBSET Sockets
    /\ \A s : Holders(s) \in SUBSET (Sockets \cup {"startup", "warm"})
    /\ \A s : Holders(s)' \in SUBSET (Sockets \cup {"startup", "warm"})
  BY DEF Viewed, Streaming, Holders

(* A reference more: the session is viewed, and the database hears of it.   *)
LEMMA ReferenceAdded ==
    ASSUME ViewerShapes, ViewersAreCounted, NEW s \in Sessions, NEW t \in BOOLEAN, AddRef(s, t)
    PROVE  /\ refs' = [refs EXCEPT ![s] = IF Blocked THEN @ ELSE @ + 1]
           /\ viewers' = Cardinality(Viewed)' /\ viewers' \in Nat
           /\ timer' \in BOOLEAN /\ pending' \in BOOLEAN \cup {None}
           /\ Blocked => (viewers' = viewers /\ pending' = pending)
           /\ ~Blocked => (viewers' > 0 /\ ((viewers' = viewers /\ pending' = pending) \/ pending' = TRUE))
<1>1. CASE Blocked
  <2>1. timer' = t /\ UNCHANGED <<refs, viewers, pending>>
    BY <1>1 DEF AddRef
  <2>2. Viewed' = Viewed
    BY <2>1 DEF Viewed
  <2> QED
    BY <1>1, <2>1, <2>2 DEF ViewerShapes, ViewersAreCounted
<1>2. CASE ~Blocked /\ refs[s] > 0
  <2>1. timer' = t /\ UNCHANGED <<viewers, pending>> /\ refs' = [refs EXCEPT ![s] = @ + 1]
    BY <1>2 DEF AddRef
  <2>2. Viewed' = Viewed
    BY <1>2, <2>1 DEF Viewed, ViewerShapes
  <2>3. Viewed # {}
    BY <1>2 DEF Viewed
  <2>4. viewers > 0
    BY <2>3, SetsAreFinite, WhereTheyAre, FS_EmptySet DEF ViewersAreCounted
  <2> QED
    BY <1>2, <2>1, <2>2, <2>4 DEF ViewerShapes, ViewersAreCounted
<1>3. CASE ~Blocked /\ ~(refs[s] > 0)
  <2>1. /\ timer' = FALSE /\ viewers' = viewers + 1 /\ pending' = TRUE
        /\ refs' = [refs EXCEPT ![s] = @ + 1]
    BY <1>3 DEF AddRef, Enqueue
  <2>2. Viewed' = Viewed \cup {s} /\ s \notin Viewed
    BY <1>3, <2>1 DEF Viewed, ViewerShapes
  <2>3. Cardinality(Viewed') = Cardinality(Viewed) + 1
    BY <2>2, SetsAreFinite, WhereTheyAre, FS_AddElement
  <2>4. viewers' = Cardinality(Viewed') /\ viewers' \in Nat /\ viewers' > 0
    BY <2>1, <2>3 DEF ViewerShapes, ViewersAreCounted
  <2>5. timer' \in BOOLEAN /\ pending' \in BOOLEAN \cup {None}
    BY <2>1
  <2> QED
    BY <1>3, <2>1, <2>4, <2>5
<1> QED
  BY <1>1, <1>2, <1>3

(* A reference less: the last session that is not viewed any more starts    *)
(* the release timer, unless somebody streams.                              *)
LEMMA ReferenceDropped ==
    ASSUME ViewerShapes, ViewersAreCounted, NEW s \in Sessions, NEW t \in BOOLEAN, DropRef(s, t)
    PROVE  /\ refs' = [refs EXCEPT ![s] = IF @ > 0 THEN @ - 1 ELSE 0]
           /\ viewers' = Cardinality(Viewed)' /\ viewers' \in Nat
           /\ timer' \in BOOLEAN /\ pending' \in BOOLEAN \cup {None}
           /\ viewers' <= viewers
           /\ Blocked => pending' = pending
           /\ ~Blocked => \/ viewers' = viewers /\ pending' = pending /\ timer' = t
                          \/ viewers' > 0 /\ pending' = TRUE /\ timer' = t
                          \/ viewers' = 0 /\ pending' = pending /\ timer' = (videoClients = 0)
<1>1. refs' = [refs EXCEPT ![s] = IF @ > 0 THEN @ - 1 ELSE 0] /\ refs[s] \in Nat
  BY DEF DropRef, ViewerShapes
<1>2. CASE refs[s] # 1
  <2>1. timer' = t /\ UNCHANGED <<viewers, pending>>
    BY <1>2 DEF DropRef
  <2>2. Viewed' = Viewed
    BY <1>1, <1>2 DEF Viewed, ViewerShapes
  <2> QED
    BY <1>1, <2>1, <2>2 DEF ViewerShapes, ViewersAreCounted
<1>3. CASE refs[s] = 1
  <2>1. /\ viewers' = IF viewers > 0 THEN viewers - 1 ELSE 0
        /\ IF \E u \in Sessions \ {s} : refs[u] > 0
           THEN Enqueue(TRUE) /\ timer' = t
           ELSE timer' = IdleRelease(viewers') /\ UNCHANGED pending
    BY <1>3 DEF DropRef
  <2>2. Viewed' = Viewed \ {s} /\ s \in Viewed
    BY <1>1, <1>3 DEF Viewed, ViewerShapes
  <2>3. IsFiniteSet(Viewed') /\ Cardinality(Viewed') = Cardinality(Viewed) - 1 /\ Cardinality(Viewed') \in Nat
    BY <2>2, SetsAreFinite, WhereTheyAre, FS_RemoveElement, FS_CardinalityType
  <2>4. viewers' = Cardinality(Viewed') /\ viewers' \in Nat /\ viewers' <= viewers
    BY <2>1, <2>3, SetsAreFinite, WhereTheyAre DEF ViewersAreCounted
  <2>5. CASE \E u \in Sessions \ {s} : refs[u] > 0
    <3>1. Viewed' # {}
      BY <2>2, <2>5 DEF Viewed
    <3>2. viewers' > 0
      BY <2>3, <2>4, <3>1, FS_EmptySet
    <3>3. timer' = t /\ pending' = IF Blocked THEN pending ELSE TRUE
      BY <2>1, <2>5 DEF Enqueue
    <3> QED
      BY <1>1, <2>4, <3>2, <3>3 DEF ViewerShapes
  <2>6. CASE ~\E u \in Sessions \ {s} : refs[u] > 0
    <3>1. Viewed' = {}
      BY <2>2, <2>6 DEF Viewed
    <3>2. viewers' = 0
      BY <2>4, <3>1, FS_EmptySet
    <3>3. pending' = pending /\ timer' = IF Blocked THEN timer ELSE videoClients = 0 /\ viewers' = 0
      BY <2>1, <2>6 DEF IdleRelease
    <3> QED
      BY <1>1, <2>4, <3>2, <3>3 DEF ViewerShapes
  <2> QED
    BY <2>5, <2>6
<1> QED
  BY <1>2, <1>3

(* What a lease change may do.                                              *)
LEMMA LeaseRetained ==
    ASSUME ViewerShapes, NEW s \in Sessions, NEW o \in Openings \cup {None}, NEW t \in BOOLEAN, Retain(s, o, t)
    PROVE  \/ UNCHANGED <<startup, refs, viewers, pending>> /\ timer' = t
           \/ \E v \in Openings \cup {Unowned} :
                  /\ ~Blocked /\ startup' = [startup EXCEPT ![s] = v]
                  /\ v # Unowned => v = o /\ active /\ opening = o
                  /\ \/ startup[s] = None /\ AddRef(s, t)
                     \/ startup[s] # None /\ UNCHANGED <<refs, viewers, pending>> /\ timer' = t
<1> DEFINE may == /\ ~Blocked
                  /\ IF o # None THEN active /\ opening = o ELSE ~ActiveFor(s)
                  /\ o # None \/ startup[s] \in {None, Unowned}
<1>1. /\ startup' = IF may THEN [startup EXCEPT ![s] = IF o = None THEN Unowned ELSE o] ELSE startup
      /\ IF may /\ startup[s] = None
         THEN AddRef(s, t)
         ELSE timer' = t /\ UNCHANGED <<refs, viewers, pending>>
  BY DEF Retain
<1>2. CASE ~may
  BY <1>1, <1>2
<1>3. CASE may
  <2> DEFINE v == IF o = None THEN Unowned ELSE o
  <2>1. ~Blocked /\ v \in Openings \cup {Unowned} /\ (v # Unowned => v = o /\ active /\ opening = o)
    BY <1>3
  <2>2. startup' = [startup EXCEPT ![s] = v]
    BY <1>1, <1>3
  <2>3. \/ startup[s] = None /\ AddRef(s, t)
        \/ startup[s] # None /\ UNCHANGED <<refs, viewers, pending>> /\ timer' = t
    BY <1>1, <1>3
  <2> HIDE DEF v, may
  <2> QED
    BY <2>1, <2>2, <2>3
<1> QED
  BY <1>2, <1>3

(* A step that leaves the writer, the release calls and the barrier alone   *)
(* keeps the publication on its way.                                        *)
LEMMA QuietPublication ==
    ASSUME Publication, viewers \in Nat, viewers' \in Nat,
           UNCHANGED <<barrier, writing, published, releasing>>,
           Blocked => viewers' <= viewers,
           ~Blocked => ((viewers' = viewers /\ pending' = pending) \/ pending' = TRUE
                        \/ (viewers' = 0 /\ pending' = pending)),
           ~Blocked /\ ~Demand' =>
               \/ timer' = TRUE \/ Leaving'
               \/ (~Demand /\ pending' = pending /\ (timer => timer' = TRUE) /\ (Leaving => Leaving'))
    PROVE  Publication'
<1>1. (barrier = "quiesced" => viewers = 0) /\ (Blocked => published = FALSE) /\ (Blocked' <=> Blocked)
  BY DEF Publication, Blocked
<1>2. (barrier = "quiesced" => viewers = 0)'
  BY <1>1 DEF Blocked
<1>3. ASSUME ~Blocked, viewers' > 0 PROVE StartIsComing'
  <2>1. CASE pending' = TRUE
    BY <2>1 DEF StartIsComing
  <2>2. CASE viewers' = viewers /\ pending' = pending
    <3>1. StartIsComing
      BY <1>3, <2>2 DEF Publication
    <3> QED
      BY <2>2, <3>1 DEF StartIsComing
  <2>3. CASE viewers' = 0
    <3>1. ~(0 > 0)
      OBVIOUS
    <3> QED
      BY <1>3, <2>3, <3>1
  <2> HIDE DEF StartIsComing, Publication
  <2>4. (viewers' = viewers /\ pending' = pending) \/ pending' = TRUE \/ viewers' = 0
    BY <1>3, Zenon
  <2> QED
    BY <2>1, <2>2, <2>3, <2>4, Zenon
<1>4. ASSUME ~Blocked, published = TRUE, ~Demand' PROVE StopIsComing'
  <2>1. CASE timer' = TRUE \/ Leaving'
    BY <2>1 DEF StopIsComing
  <2>2. CASE ~Demand /\ pending' = pending /\ (timer => timer' = TRUE) /\ (Leaving => Leaving')
    <3>1. StopIsComing
      BY <1>4, <2>2 DEF Publication
    <3> QED
      BY <2>2, <3>1 DEF StopIsComing
  <2> QED
    BY <1>4, <2>1, <2>2
<1> QED
  BY <1>1, <1>2, <1>3, <1>4 DEF Publication

(* A reference and its holder come together.                                *)
LEMMA HolderAdded ==
    ASSUME ViewerShapes, ReferencesAreHeld, NEW s \in Sessions, NEW x,
           refs' = [refs EXCEPT ![s] = @ + 1], x \notin Holders(s),
           Holders(s) \cup {x} \in SUBSET Holders(s)',
           \A u \in Sessions : u # s => Holders(u)' = Holders(u)
    PROVE  \A u \in Sessions : refs'[u] <= Cardinality(Holders(u)')
<1> SUFFICES ASSUME NEW u \in Sessions PROVE refs'[u] <= Cardinality(Holders(u)')
  OBVIOUS
<1>1. refs[u] <= Cardinality(Holders(u)) /\ refs[u] \in Nat
  BY DEF ReferencesAreHeld, ViewerShapes
<1>2. CASE u # s
  <2>1. refs'[u] = refs[u] /\ Holders(u)' = Holders(u)
    BY <1>2 DEF ViewerShapes
  <2> QED
    BY <1>1, <2>1
<1>3. CASE u = s
  <2>1. Cardinality(Holders(s) \cup {x}) = Cardinality(Holders(s)) + 1
    BY SetsAreFinite, WhereTheyAre, FS_AddElement
  <2>2. IsFiniteSet(Holders(s)') /\ Cardinality(Holders(s)') \in Nat /\ Cardinality(Holders(s)) \in Nat
    BY SetsAreFinite, WhereTheyAre
  <2>3. Cardinality(Holders(s) \cup {x}) <= Cardinality(Holders(s)')
    BY <2>2, FS_Subset
  <2>4. refs'[s] = refs[s] + 1
    BY DEF ViewerShapes
  <2> QED
    BY <1>1, <1>3, <2>1, <2>2, <2>3, <2>4
<1> QED
  BY <1>2, <1>3

(* A holder that goes takes its reference along.                            *)
LEMMA HolderDropped ==
    ASSUME ViewerShapes, ReferencesAreHeld, NEW s \in Sessions, NEW x,
           refs' = [refs EXCEPT ![s] = IF @ > 0 THEN @ - 1 ELSE 0],
           Holders(s) \ {x} \in SUBSET Holders(s)',
           \A u \in Sessions : u # s => Holders(u)' = Holders(u)
    PROVE  \A u \in Sessions : refs'[u] <= Cardinality(Holders(u)')
<1> SUFFICES ASSUME NEW u \in Sessions PROVE refs'[u] <= Cardinality(Holders(u)')
  OBVIOUS
<1>1. refs[u] <= Cardinality(Holders(u)) /\ refs[u] \in Nat
  BY DEF ReferencesAreHeld, ViewerShapes
<1>2. CASE u # s
  <2>1. refs'[u] = refs[u] /\ Holders(u)' = Holders(u)
    BY <1>2 DEF ViewerShapes
  <2> QED
    BY <1>1, <2>1
<1>3. CASE u = s
  <2>1. Cardinality(Holders(s) \ {x}) >= Cardinality(Holders(s)) - 1
    <3>1. CASE x \in Holders(s)
      <4>1. IsFiniteSet(Holders(s)) /\ Cardinality(Holders(s)) \in Nat
        BY SetsAreFinite, WhereTheyAre
      <4>2. Cardinality(Holders(s) \ {x}) = Cardinality(Holders(s)) - 1
        BY <3>1, <4>1, FS_RemoveElement
      <4> QED
        BY <4>1, <4>2
    <3>2. CASE x \notin Holders(s)
      <4>1. Holders(s) \ {x} = Holders(s)
        BY <3>2
      <4>2. Cardinality(Holders(s)) \in Nat
        BY SetsAreFinite, WhereTheyAre
      <4> QED
        BY <4>1, <4>2
    <3> QED
      BY <3>1, <3>2
  <2>2. IsFiniteSet(Holders(s)') /\ Cardinality(Holders(s)') \in Nat /\ Cardinality(Holders(s)) \in Nat
    BY SetsAreFinite, WhereTheyAre
  <2>3. Cardinality(Holders(s) \ {x}) <= Cardinality(Holders(s)') /\ Cardinality(Holders(s) \ {x}) \in Nat
    BY <2>2, FS_Subset, SetsAreFinite, WhereTheyAre
  <2>4. refs'[s] = IF refs[s] > 0 THEN refs[s] - 1 ELSE 0
    BY DEF ViewerShapes
  <2> QED
    BY <1>1, <1>3, <2>1, <2>2, <2>3, <2>4
<1> QED
  BY <1>2, <1>3

(* A lease that is taken, or given back, by one that is not painted.        *)
LEMMA PaintedKept ==
    ASSUME ViewerShapes, PaintedIsOver, UNCHANGED <<opening, trace>>,
           \A o \in Openings : page[o] # "new" => page'[o] # "new",
           NEW s \in Sessions, NEW v,
           startup' = startup \/ startup' = [startup EXCEPT ![s] = v],
           v \in {Unowned, None} \/ (active /\ opening = v),
           shown' \in SUBSET shown, active' => active
    PROVE  PaintedIsOver'
<1>1. ASSUME NEW c \in shown', trace[c] # None
      PROVE  startup'[SessionOf[c]] # trace[c] /\ ~(active' /\ opening = trace[c])
  <2>1. c \in Sockets /\ trace[c] \in Openings /\ SessionOf[c] \in Sessions
    BY <1>1, ViewersAssumption DEF ViewerShapes
  <2>2. startup[SessionOf[c]] # trace[c] /\ ~(active /\ opening = trace[c])
    BY <1>1 DEF PaintedIsOver
  <2>3. v # trace[c]
    BY <2>1, <2>2, ViewersAssumption
  <2> QED
    BY <2>1, <2>2, <2>3 DEF ViewerShapes
<1>2. (active' => opening \in Openings) /\ (opening # None => page'[opening] # "new")
  BY DEF PaintedIsOver, ViewerShapes
<1>3. \A c \in Sockets : trace[c] # None => page'[trace[c]] # "new"
  BY DEF PaintedIsOver, ViewerShapes
<1> QED
  BY <1>1, <1>2, <1>3 DEF PaintedIsOver

(* What a lease change does, with timer t: the references stay held and     *)
(* counted, the start is asked for, and no lease goes to a painted opening. *)
LeaseKept(s, t) ==
    /\ refs' \in [Sessions -> Nat] /\ viewers' \in Nat /\ ViewersAreCounted'
    /\ startup' \in [Sessions -> Openings \cup {Unowned, None}]
    /\ pending' \in BOOLEAN \cup {None} /\ timer' \in BOOLEAN
    /\ \A u \in Sessions : refs'[u] <= Cardinality(Holders(u)')
    /\ \/ viewers' = viewers /\ pending' = pending /\ timer' = t
       \/ ~Blocked /\ viewers' > 0 /\ viewers' = viewers /\ pending' = pending
       \/ ~Blocked /\ viewers' > 0 /\ pending' = TRUE
    /\ \E v : /\ startup' = startup \/ startup' = [startup EXCEPT ![s] = v]
              /\ v \in {Unowned, None} \/ (active /\ opening = v)

LEMMA RetainKeeps ==
    ASSUME ViewerInv, NEW s \in Sessions, NEW o \in Openings \cup {None}, NEW t \in BOOLEAN,
           Retain(s, o, t), UNCHANGED <<generation, warm, counted, held>>
    PROVE  LeaseKept(s, t)
<1> USE DEF ViewerInv
<1>1. CASE UNCHANGED <<startup, refs, viewers, pending>> /\ timer' = t
  <2>1. \A u \in Sessions : refs[u] <= Cardinality(Holders(u)) /\ Holders(u)' = Holders(u)
    BY <1>1 DEF ReferencesAreHeld, Holders
  <2>2. ViewersAreCounted'
    BY <1>1 DEF ViewersAreCounted, Viewed
  <2> QED
    BY <1>1, <2>1, <2>2 DEF ViewerShapes, LeaseKept
<1>2. ASSUME NEW v \in Openings \cup {Unowned},
             ~Blocked, startup' = [startup EXCEPT ![s] = v],
             v # Unowned => v = o /\ active /\ opening = o,
             \/ startup[s] = None /\ AddRef(s, t)
             \/ startup[s] # None /\ UNCHANGED <<refs, viewers, pending>> /\ timer' = t
      PROVE  LeaseKept(s, t)
  <2>1. startup' \in [Sessions -> Openings \cup {Unowned, None}] /\ v # None /\ startup'[s] = v
    BY <1>2, ViewersAssumption DEF ViewerShapes
  <2>2. \A u \in Sessions : u # s => Holders(u)' = Holders(u)
    BY <1>2 DEF Holders, ViewerShapes
  <2>3. \E w : /\ startup' = startup \/ startup' = [startup EXCEPT ![s] = w]
               /\ w \in {Unowned, None} \/ (active /\ opening = w)
    BY <1>2
  <2>4. CASE startup[s] = None /\ AddRef(s, t)
    <3>1. /\ refs' = [refs EXCEPT ![s] = @ + 1]
          /\ viewers' = Cardinality(Viewed)' /\ viewers' \in Nat
          /\ timer' \in BOOLEAN /\ pending' \in BOOLEAN \cup {None}
          /\ viewers' > 0 /\ ((viewers' = viewers /\ pending' = pending) \/ pending' = TRUE)
      BY <1>2, <2>4, ReferenceAdded
    <3>2. "startup" \notin Holders(s) /\ Holders(s) \cup {"startup"} \in SUBSET Holders(s)'
      BY <2>1, <2>4, ViewersAssumption DEF Holders
    <3>3. \A u \in Sessions : refs'[u] <= Cardinality(Holders(u)')
      BY <2>2, <3>1, <3>2, HolderAdded
    <3>4. refs' \in [Sessions -> Nat]
      BY <3>1 DEF ViewerShapes
    <3>5. ViewersAreCounted'
      BY <3>1 DEF ViewersAreCounted
    <3> QED
      BY <1>2, <2>1, <2>3, <3>1, <3>3, <3>4, <3>5 DEF LeaseKept
  <2>5. CASE startup[s] # None /\ UNCHANGED <<refs, viewers, pending>> /\ timer' = t
    <3>1. Holders(s)' = Holders(s)
      BY <2>1, <2>5 DEF Holders
    <3>2. \A u \in Sessions : refs'[u] <= Cardinality(Holders(u)')
      BY <2>2, <2>5, <3>1 DEF ReferencesAreHeld
    <3>3. ViewersAreCounted'
      BY <2>5 DEF ViewersAreCounted, Viewed
    <3> QED
      BY <2>1, <2>3, <2>5, <3>2, <3>3 DEF ViewerShapes, LeaseKept
  <2> QED
    BY <1>2, <2>4, <2>5
<1>3. ViewerShapes
  OBVIOUS
<1> HIDE DEF ViewerInv
<1>4. \/ UNCHANGED <<startup, refs, viewers, pending>> /\ timer' = t
      \/ \E v \in Openings \cup {Unowned} :
             /\ ~Blocked /\ startup' = [startup EXCEPT ![s] = v]
             /\ v # Unowned => v = o /\ active /\ opening = o
             /\ \/ startup[s] = None /\ AddRef(s, t)
                \/ startup[s] # None /\ UNCHANGED <<refs, viewers, pending>> /\ timer' = t
  BY <1>3, LeaseRetained
<1>5. CASE ~(UNCHANGED <<startup, refs, viewers, pending>> /\ timer' = t)
  <2>1. PICK v \in Openings \cup {Unowned} :
             /\ ~Blocked /\ startup' = [startup EXCEPT ![s] = v]
             /\ v # Unowned => v = o /\ active /\ opening = o
             /\ \/ startup[s] = None /\ AddRef(s, t)
                \/ startup[s] # None /\ UNCHANGED <<refs, viewers, pending>> /\ timer' = t
    BY <1>4, <1>5
  <2> QED
    BY <2>1, <1>2
<1> QED
  BY <1>1, <1>5

(* A reference given back keeps them so too.                                *)
LEMMA DropKeeps ==
    ASSUME ViewerInv, NEW s \in Sessions, NEW t \in BOOLEAN, DropRef(s, t), NEW x,
           Holders(s) \ {x} \in SUBSET Holders(s)',
           \A u \in Sessions : u # s => Holders(u)' = Holders(u)
    PROVE  /\ refs' \in [Sessions -> Nat] /\ viewers' \in Nat /\ ViewersAreCounted'
           /\ pending' \in BOOLEAN \cup {None} /\ timer' \in BOOLEAN
           /\ \A u \in Sessions : refs'[u] <= Cardinality(Holders(u)')
           /\ viewers' <= viewers
           /\ ~Blocked => \/ viewers' = viewers /\ pending' = pending /\ timer' = t
                          \/ viewers' > 0 /\ pending' = TRUE /\ timer' = t
                          \/ viewers' = 0 /\ pending' = pending /\ timer' = (videoClients = 0)
<1>1. ViewerShapes /\ ViewersAreCounted /\ ReferencesAreHeld
  BY DEF ViewerInv
<1>2. /\ refs' = [refs EXCEPT ![s] = IF @ > 0 THEN @ - 1 ELSE 0]
      /\ viewers' = Cardinality(Viewed)' /\ viewers' \in Nat
      /\ timer' \in BOOLEAN /\ pending' \in BOOLEAN \cup {None}
      /\ viewers' <= viewers
      /\ ~Blocked => \/ viewers' = viewers /\ pending' = pending /\ timer' = t
                     \/ viewers' > 0 /\ pending' = TRUE /\ timer' = t
                     \/ viewers' = 0 /\ pending' = pending /\ timer' = (videoClients = 0)
  BY <1>1, ReferenceDropped
<1>3. refs' \in [Sessions -> Nat]
  <2>1. \A n \in Nat : (IF n > 0 THEN n - 1 ELSE 0) \in Nat
    OBVIOUS
  <2> QED
    BY <1>1, <1>2, <2>1 DEF ViewerShapes
<1>4. \A u \in Sessions : refs'[u] <= Cardinality(Holders(u)')
  BY <1>1, <1>2, HolderDropped
<1>5. ViewersAreCounted'
  BY <1>2 DEF ViewersAreCounted
<1> QED
  BY <1>2, <1>3, <1>4, <1>5

(* A lease runs out.                                                        *)
LEMMA LeaseExpires ==
    ASSUME ViewerInv, NEW s \in Sessions, StartupLeaseExpires(s) \/ WarmLeaseExpires(s)
    PROVE  ViewerInv'
<1> DEFINE x == IF StartupLeaseExpires(s) THEN "startup" ELSE "warm"
<1>1. ViewerShapes /\ ViewersAreCounted /\ ClientsAreCounted /\ ReferencesAreHeld
      /\ Publication /\ PaintedIsOver
  BY DEF ViewerInv
<1>2. /\ DropRef(s, timer)
      /\ UNCHANGED <<barrier, generation, openVars, sockVars, writing, published, releasing>>
  BY DEF StartupLeaseExpires, WarmLeaseExpires
<1>3. /\ startup' = startup \/ startup' = [startup EXCEPT ![s] = None]
      /\ warm' = warm \/ warm' = warm \ {s}
  BY DEF StartupLeaseExpires, WarmLeaseExpires
<1>4. \A u \in Sessions : u # s => Holders(u)' = Holders(u)
  BY <1>1, <1>2, <1>3 DEF Holders, ViewerShapes, sockVars
<1>5. Holders(s) \ {x} \in SUBSET Holders(s)'
  <2>1. CASE StartupLeaseExpires(s)
    <3>1. UNCHANGED <<generation, warm, counted, held>>
      BY <2>1 DEF StartupLeaseExpires, sockVars
    <3> QED
      BY <2>1, <3>1 DEF Holders
  <2>2. CASE ~StartupLeaseExpires(s)
    <3>1. UNCHANGED <<generation, startup, counted, held>>
      BY <2>2 DEF WarmLeaseExpires, sockVars
    <3> QED
      BY <2>2, <3>1 DEF Holders
  <2> QED
    BY <2>1, <2>2
<1> HIDE DEF x
<1>6. timer \in BOOLEAN
  BY <1>1 DEF ViewerShapes
<1>7. /\ refs' \in [Sessions -> Nat] /\ viewers' \in Nat /\ ViewersAreCounted'
      /\ pending' \in BOOLEAN \cup {None} /\ timer' \in BOOLEAN
      /\ \A u \in Sessions : refs'[u] <= Cardinality(Holders(u)')
      /\ viewers' <= viewers
      /\ ~Blocked => \/ viewers' = viewers /\ pending' = pending /\ timer' = timer
                     \/ viewers' > 0 /\ pending' = TRUE /\ timer' = timer
                     \/ viewers' = 0 /\ pending' = pending /\ timer' = (videoClients = 0)
  BY <1>2, <1>4, <1>5, <1>6, DropKeeps
<1>8. ViewerShapes'
  <2>1. startup' \in [Sessions -> Openings \cup {Unowned, None}] /\ warm' \in SUBSET Sessions
    BY <1>1, <1>3 DEF ViewerShapes
  <2> QED
    BY <1>1, <1>2, <1>7, <2>1 DEF ViewerShapes, sockVars, openVars
<1>9. ReferencesAreHeld'
  BY <1>1, <1>2, <1>7 DEF ReferencesAreHeld, sockVars
<1>10. ClientsAreCounted'
  BY <1>1, <1>2 DEF ClientsAreCounted, Streaming, sockVars
<1>11. Publication'
  <2>1. ~Blocked /\ ~Demand' =>
            \/ timer' = TRUE \/ Leaving'
            \/ (~Demand /\ pending' = pending /\ (timer => timer' = TRUE) /\ (Leaving => Leaving'))
    <3> SUFFICES ASSUME ~Blocked, ~(videoClients' > 0), ~(viewers' > 0)
                 PROVE  \/ timer' = TRUE
                        \/ (~Demand /\ pending' = pending /\ (timer => timer' = TRUE) /\ (Leaving => Leaving'))
      BY DEF Demand
    <3>1. videoClients = 0 /\ UNCHANGED <<videoClients, sock>> /\ (Leaving => Leaving')
      BY <1>1, <1>2 DEF ViewerShapes, sockVars, Leaving
    <3>2. CASE viewers' = viewers /\ pending' = pending /\ timer' = timer
      BY <1>6, <3>1, <3>2 DEF Demand
    <3>3. CASE viewers' = 0 /\ pending' = pending /\ timer' = (videoClients = 0)
      BY <3>1, <3>3
    <3> QED
      BY <1>7, <3>2, <3>3
  <2>2. ~Blocked => ((viewers' = viewers /\ pending' = pending) \/ pending' = TRUE
                     \/ (viewers' = 0 /\ pending' = pending))
    BY <1>7
  <2>3. viewers \in Nat /\ UNCHANGED <<barrier, writing, published, releasing>>
    BY <1>1, <1>2 DEF ViewerShapes
  <2> QED
    BY <1>1, <1>7, <2>1, <2>2, <2>3, QuietPublication
<1>12. PaintedIsOver'
  BY <1>1, <1>2, <1>3, PaintedKept DEF sockVars, openVars
<1> QED
  BY <1>7, <1>8, <1>9, <1>10, <1>11, <1>12 DEF ViewerInv

(* A page load, before and at its prewarm.                                  *)
LEMMA PagePrewarms ==
    ASSUME ViewerInv, NEW o \in Openings, Prewarm(o)
    PROVE  ViewerInv'
<1> DEFINE s == SessionOf[o]
           by == IF active /\ opening = o THEN o ELSE None
<1>1. ViewerShapes /\ ViewersAreCounted /\ ClientsAreCounted /\ ReferencesAreHeld
      /\ Publication /\ PaintedIsOver
  BY DEF ViewerInv
<1>2. /\ Retain(s, by, timer) /\ page' = [page EXCEPT ![o] = "warm"]
      /\ UNCHANGED <<barrier, generation, warm, opening, active, sockVars, writing, published, releasing>>
  BY DEF Prewarm
<1>3. s \in Sessions /\ by \in Openings \cup {None} /\ timer \in BOOLEAN
  BY <1>1, ViewersAssumption DEF ViewerShapes
<1> HIDE DEF s, by
<1>9. UNCHANGED <<generation, warm, counted, held>>
  BY <1>2 DEF sockVars
<1>10. LeaseKept(s, timer)
  BY <1>2, <1>3, <1>9, RetainKeeps
<1>4. /\ refs' \in [Sessions -> Nat] /\ viewers' \in Nat /\ ViewersAreCounted'
      /\ startup' \in [Sessions -> Openings \cup {Unowned, None}]
      /\ pending' \in BOOLEAN \cup {None} /\ timer' \in BOOLEAN
      /\ \A u \in Sessions : refs'[u] <= Cardinality(Holders(u)')
      /\ \/ viewers' = viewers /\ pending' = pending /\ timer' = timer
         \/ ~Blocked /\ viewers' > 0 /\ viewers' = viewers /\ pending' = pending
         \/ ~Blocked /\ viewers' > 0 /\ pending' = TRUE
  BY <1>10 DEF LeaseKept
<1>5. ViewerShapes'
  <2>1. page' \in [Openings -> {"new", "prewarm", "warm", "done"}]
    BY <1>1, <1>2 DEF ViewerShapes
  <2>2. /\ UNCHANGED <<sock, trace, held, counted, shown, videoClients>>
        /\ UNCHANGED <<barrier, generation, warm, opening, active, writing, published, releasing>>
    BY <1>2 DEF sockVars
  <2> QED
    BY <1>1, <1>4, <2>1, <2>2 DEF ViewerShapes
<1>6. ReferencesAreHeld' /\ ClientsAreCounted'
  BY <1>1, <1>2, <1>4 DEF ReferencesAreHeld, ClientsAreCounted, Streaming, sockVars
<1>7. Publication'
  <2>1. UNCHANGED <<videoClients, sock>> /\ viewers \in Nat /\ timer \in BOOLEAN
    BY <1>1, <1>2 DEF ViewerShapes, sockVars
  <2>2. ~Blocked /\ ~Demand' =>
            \/ timer' = TRUE \/ Leaving'
            \/ (~Demand /\ pending' = pending /\ (timer => timer' = TRUE) /\ (Leaving => Leaving'))
    BY <1>4, <2>1 DEF Demand, Leaving
  <2>3. /\ Blocked => viewers' <= viewers
        /\ ~Blocked => ((viewers' = viewers /\ pending' = pending) \/ pending' = TRUE
                        \/ (viewers' = 0 /\ pending' = pending))
    BY <1>4, <2>1
  <2> QED
    BY <1>1, <1>2, <1>4, <2>1, <2>2, <2>3, QuietPublication
<1>8. PaintedIsOver'
  <2>1. PICK v : /\ startup' = startup \/ startup' = [startup EXCEPT ![s] = v]
                 /\ v \in {Unowned, None} \/ (active /\ opening = v)
    BY <1>10 DEF LeaseKept
  <2>2. \A p \in Openings : page[p] # "new" => page'[p] # "new"
    BY <1>1, <1>2 DEF ViewerShapes
  <2> QED
    BY <1>1, <1>2, <1>3, <2>1, <2>2, PaintedKept DEF sockVars
<1> QED
  BY <1>4, <1>5, <1>6, <1>7, <1>8 DEF ViewerInv

LEMMA PageOpens ==
    ASSUME ViewerInv, NEW o \in Openings, PageOpenWarm(o)
    PROVE  ViewerInv'
<1> DEFINE s == SessionOf[o]
<1>1. ViewerShapes /\ ViewersAreCounted /\ ClientsAreCounted /\ ReferencesAreHeld
      /\ Publication /\ PaintedIsOver
  BY DEF ViewerInv
<1>2. /\ page' = [page EXCEPT ![o] = "done"]
      /\ UNCHANGED <<barrier, generation, startup, opening, active, writing, published, releasing>>
      /\ UNCHANGED <<sock, trace, held, counted, shown, videoClients>>
      /\ \/ UNCHANGED <<warm, refs, viewers, pending, timer>>
         \/ ~Blocked /\ s \notin warm /\ warm' = warm \cup {s} /\ AddRef(s, timer)
  BY DEF PageOpenWarm, sockVars
<1>3. s \in Sessions /\ timer \in BOOLEAN
  BY <1>1, ViewersAssumption DEF ViewerShapes
<1> HIDE DEF s
<1>4. /\ refs' \in [Sessions -> Nat] /\ viewers' \in Nat /\ ViewersAreCounted'
      /\ pending' \in BOOLEAN \cup {None} /\ timer' \in BOOLEAN /\ warm' \in SUBSET Sessions
      /\ \A u \in Sessions : refs'[u] <= Cardinality(Holders(u)')
      /\ \/ viewers' = viewers /\ pending' = pending /\ timer' = timer
         \/ ~Blocked /\ viewers' > 0 /\ viewers' = viewers /\ pending' = pending
         \/ ~Blocked /\ viewers' > 0 /\ pending' = TRUE
  <2>1. CASE UNCHANGED <<warm, refs, viewers, pending, timer>>
    <3>1. \A u \in Sessions : refs[u] <= Cardinality(Holders(u)) /\ Holders(u)' = Holders(u)
      BY <1>1, <1>2, <2>1 DEF ReferencesAreHeld, Holders
    <3>2. ViewersAreCounted'
      BY <1>1, <2>1 DEF ViewersAreCounted, Viewed
    <3> QED
      BY <1>1, <2>1, <3>1, <3>2 DEF ViewerShapes
  <2>2. CASE ~Blocked /\ s \notin warm /\ warm' = warm \cup {s} /\ AddRef(s, timer)
    <3>1. /\ refs' = [refs EXCEPT ![s] = @ + 1]
          /\ viewers' = Cardinality(Viewed)' /\ viewers' \in Nat
          /\ timer' \in BOOLEAN /\ pending' \in BOOLEAN \cup {None}
          /\ viewers' > 0 /\ ((viewers' = viewers /\ pending' = pending) \/ pending' = TRUE)
      BY <1>1, <1>3, <2>2, ReferenceAdded
    <3>2. "warm" \notin Holders(s) /\ Holders(s) \cup {"warm"} \in SUBSET Holders(s)'
      BY <1>2, <2>2, ViewersAssumption DEF Holders
    <3>3. \A u \in Sessions : u # s => Holders(u)' = Holders(u)
      BY <1>2, <2>2 DEF Holders
    <3>4. \A u \in Sessions : refs'[u] <= Cardinality(Holders(u)')
      BY <1>1, <1>3, <3>1, <3>2, <3>3, HolderAdded
    <3>5. refs' \in [Sessions -> Nat] /\ warm' \in SUBSET Sessions
      BY <1>1, <1>3, <2>2, <3>1 DEF ViewerShapes
    <3>6. ViewersAreCounted'
      BY <3>1 DEF ViewersAreCounted
    <3> QED
      BY <2>2, <3>1, <3>4, <3>5, <3>6
  <2> QED
    BY <1>2, <2>1, <2>2
<1>5. ViewerShapes'
  <2>1. page' \in [Openings -> {"new", "prewarm", "warm", "done"}]
    BY <1>1, <1>2 DEF ViewerShapes
  <2> QED
    BY <1>1, <1>2, <1>4, <2>1 DEF ViewerShapes
<1>6. ReferencesAreHeld' /\ ClientsAreCounted'
  BY <1>1, <1>2, <1>4 DEF ReferencesAreHeld, ClientsAreCounted, Streaming
<1>7. Publication'
  <2>1. UNCHANGED <<videoClients, sock>> /\ viewers \in Nat /\ timer \in BOOLEAN
    BY <1>1, <1>2 DEF ViewerShapes
  <2>2. ~Blocked /\ ~Demand' =>
            \/ timer' = TRUE \/ Leaving'
            \/ (~Demand /\ pending' = pending /\ (timer => timer' = TRUE) /\ (Leaving => Leaving'))
    BY <1>4, <2>1 DEF Demand, Leaving
  <2>3. /\ Blocked => viewers' <= viewers
        /\ ~Blocked => ((viewers' = viewers /\ pending' = pending) \/ pending' = TRUE
                        \/ (viewers' = 0 /\ pending' = pending))
    BY <1>4, <2>1
  <2> QED
    BY <1>1, <1>2, <1>4, <2>1, <2>2, <2>3, QuietPublication
<1>8. PaintedIsOver'
  <2>1. \A p \in Openings : page[p] # "new" => page'[p] # "new"
    BY <1>1, <1>2 DEF ViewerShapes
  <2> QED
    BY <1>1, <1>2, <1>3, <2>1, PaintedKept
<1> QED
  BY <1>4, <1>5, <1>6, <1>7, <1>8 DEF ViewerInv

(* What touches neither references nor leases nor sockets keeps the counts. *)
LEMMA CountsKept ==
    ASSUME ViewerInv, UNCHANGED <<generation, leaseVars, sock, held, counted, videoClients>>
    PROVE  ViewersAreCounted' /\ ClientsAreCounted' /\ ReferencesAreHeld'
<1>1. Viewed' = Viewed /\ Streaming' = Streaming
  BY DEF Viewed, Streaming, leaseVars
<1>2. \A u \in Sessions : Holders(u)' = Holders(u)
  BY DEF Holders, leaseVars
<1>3. ViewersAreCounted' /\ ClientsAreCounted'
  BY <1>1 DEF ViewersAreCounted, ClientsAreCounted, ViewerInv, leaseVars
<1>4. ReferencesAreHeld'
  BY <1>2 DEF ReferencesAreHeld, ViewerInv, leaseVars
<1> QED
  BY <1>3, <1>4

(* A page load starts an opening, is turned away, or its opening is too     *)
(* old to count.                                                            *)
LEMMA OpeningMoves ==
    ASSUME ViewerInv,
           OpeningTooOld \/ \E o \in Openings : PageLoads(o) \/ PrewarmRejected(o)
    PROVE  ViewerInv'
<1>1. ViewerShapes /\ ViewersAreCounted /\ ClientsAreCounted /\ ReferencesAreHeld
      /\ Publication /\ PaintedIsOver
  BY DEF ViewerInv
<1>2. UNCHANGED <<barrier, generation, leaseVars, sockVars, pubVars>>
  BY DEF OpeningTooOld, PageLoads, PrewarmRejected
<1>3. ViewersAreCounted' /\ ClientsAreCounted' /\ ReferencesAreHeld'
  BY <1>2, CountsKept DEF sockVars
<1>4. Publication'
  BY <1>1, <1>2 DEF Publication, StartIsComing, StopIsComing, Demand, Leaving, Blocked,
     leaseVars, sockVars, pubVars
<1>5. ViewerShapes' /\ PaintedIsOver'
  <2>1. CASE OpeningTooOld
    <3>1. active' = FALSE /\ UNCHANGED <<opening, page>>
      BY <2>1 DEF OpeningTooOld
    <3>2. ViewerShapes'
      BY <1>1, <1>2, <3>1 DEF ViewerShapes, leaseVars, sockVars, pubVars
    <3>3. PaintedIsOver'
      BY <1>1, <1>2, <3>1 DEF PaintedIsOver, leaseVars, sockVars
    <3> QED
      BY <3>2, <3>3
  <2>2. ASSUME NEW o \in Openings, PageLoads(o) PROVE ViewerShapes' /\ PaintedIsOver'
    <3>1. /\ page[o] = "new" /\ page' = [page EXCEPT ![o] = "prewarm"]
          /\ opening' = o /\ active' = TRUE
      BY <2>2 DEF PageLoads
    <3>2. page' \in [Openings -> {"new", "prewarm", "warm", "done"}]
      BY <1>1, <3>1 DEF ViewerShapes
    <3>3. ViewerShapes'
      BY <1>1, <1>2, <3>1, <3>2 DEF ViewerShapes, leaseVars, sockVars, pubVars
    <3>4. UNCHANGED <<trace, shown, startup>>
      BY <1>2 DEF leaseVars, sockVars
    <3>5. \A c \in Sockets : trace[c] # None => trace[c] # o /\ page'[trace[c]] # "new"
      BY <1>1, <3>1 DEF ViewerShapes, PaintedIsOver
    <3>6. page'[opening'] # "new"
      BY <1>1, <3>1 DEF ViewerShapes
    <3>7. shown \in SUBSET Sockets
      BY <1>1 DEF ViewerShapes
    <3>8. PaintedIsOver'
      BY <1>1, <3>1, <3>4, <3>5, <3>6, <3>7 DEF PaintedIsOver
    <3> QED
      BY <3>3, <3>8
  <2>3. ASSUME NEW o \in Openings, PrewarmRejected(o) PROVE ViewerShapes' /\ PaintedIsOver'
    <3>1. page' = [page EXCEPT ![o] = "done"] /\ UNCHANGED <<opening, active>>
      BY <2>3 DEF PrewarmRejected
    <3>2. page' \in [Openings -> {"new", "prewarm", "warm", "done"}]
      BY <1>1, <3>1 DEF ViewerShapes
    <3>3. ViewerShapes'
      BY <1>1, <1>2, <3>1, <3>2 DEF ViewerShapes, leaseVars, sockVars, pubVars
    <3>4. UNCHANGED <<trace, shown, startup>> /\ \A p \in Openings : page[p] # "new" => page'[p] # "new"
      BY <1>1, <1>2, <3>1 DEF ViewerShapes, leaseVars, sockVars
    <3>5. SessionOf[o] \in Sessions
      BY ViewersAssumption
    <3>6. PaintedIsOver'
      BY <1>1, <3>1, <3>4, <3>5, PaintedKept
    <3> QED
      BY <3>3, <3>6
  <2> QED
    BY <2>1, <2>2, <2>3
<1> QED
  BY <1>3, <1>4, <1>5 DEF ViewerInv

(* A socket opens: its reference is taken unless the barrier is up, and it  *)
(* holds nothing from before.                                               *)
LEMMA SocketOpensKeeps ==
    ASSUME ViewerInv, NEW c \in Sockets, SocketOpens(c)
    PROVE  ViewerInv'
<1> DEFINE s == SessionOf[c]
           joined == JoinOpening(c)
<1>1. ViewerShapes /\ ViewersAreCounted /\ ClientsAreCounted /\ ReferencesAreHeld
      /\ Publication /\ PaintedIsOver
  BY DEF ViewerInv
<1>2. /\ sock[c] = "closed" /\ sock' = [sock EXCEPT ![c] = "referenced"]
      /\ trace' = [trace EXCEPT ![c] = joined] /\ AddRef(s, timer)
      /\ held' = [held EXCEPT ![c] = generation] /\ counted' = [counted EXCEPT ![c] = ~Blocked]
      /\ shown' = shown \ {c}
      /\ UNCHANGED <<barrier, generation, startup, warm, opening, active, page, videoClients,
                     writing, published, releasing>>
  BY DEF SocketOpens, Step, openVars
<1>3. s \in Sessions /\ timer \in BOOLEAN /\ joined \in Openings \cup {None}
  BY <1>1, ViewersAssumption DEF ViewerShapes, JoinOpening
<1>4. joined # None => joined = opening
  BY DEF JoinOpening
<1> HIDE DEF joined
<1>5. /\ refs' = [refs EXCEPT ![s] = IF Blocked THEN @ ELSE @ + 1]
      /\ viewers' = Cardinality(Viewed)' /\ viewers' \in Nat
      /\ timer' \in BOOLEAN /\ pending' \in BOOLEAN \cup {None}
      /\ Blocked => (viewers' = viewers /\ pending' = pending)
      /\ ~Blocked => (viewers' > 0 /\ ((viewers' = viewers /\ pending' = pending) \/ pending' = TRUE))
  BY <1>1, <1>2, <1>3, ReferenceAdded
<1>6. c \notin Holders(s) /\ \A u : c \notin Holders(u)
  BY <1>1, <1>2, ViewersAssumption DEF Holders, ReferencesAreHeld
<1>7. \A u \in Sessions : u # s => Holders(u)' = Holders(u)
  BY <1>1, <1>2 DEF Holders, ViewerShapes
<1>8. refs' \in [Sessions -> Nat] /\ \A u \in Sessions : refs'[u] <= Cardinality(Holders(u)')
  <2>1. CASE Blocked
    <3>1. refs' = refs
      BY <1>1, <1>5, <2>1 DEF ViewerShapes
    <3>2. counted'[c] = FALSE
      BY <1>1, <1>2, <2>1 DEF ViewerShapes
    <3>3. Holders(s)' = Holders(s)
      BY <1>1, <1>2, <1>6, <3>2 DEF Holders, ViewerShapes
    <3> QED
      BY <1>1, <1>7, <3>1, <3>3 DEF ReferencesAreHeld, ViewerShapes
  <2>2. CASE ~Blocked
    <3>1. refs' = [refs EXCEPT ![s] = @ + 1]
      BY <1>5, <2>2
    <3>2. counted'[c] /\ held'[c] = generation
      <4>1. counted'[c] = ~Blocked /\ held'[c] = generation
        BY <1>1, <1>2 DEF ViewerShapes
      <4> QED
        BY <2>2, <4>1, Zenon
    <3>3. Holders(s) \cup {c} \in SUBSET Holders(s)'
      BY <1>1, <1>2, <1>6, <3>2 DEF Holders, ViewerShapes
    <3>4. refs' \in [Sessions -> Nat]
      BY <1>1, <1>3, <3>1 DEF ViewerShapes
    <3> QED
      BY <1>1, <1>3, <1>6, <1>7, <3>1, <3>3, <3>4, HolderAdded
  <2> QED
    BY <2>1, <2>2
<1>9. ViewerShapes'
  <2>1. /\ sock' \in [Sockets -> SockPC] /\ trace' \in [Sockets -> Openings \cup {None}]
        /\ held' \in [Sockets -> 0..MaxGeneration] /\ shown' \in SUBSET Sockets
    BY <1>1, <1>2, <1>3 DEF ViewerShapes, SockPC
  <2>2. counted' \in [Sockets -> BOOLEAN]
    BY <1>1, <1>2 DEF ViewerShapes
  <2> QED
    BY <1>1, <1>2, <1>5, <1>8, <2>1, <2>2 DEF ViewerShapes
<1>10. ViewersAreCounted' /\ ReferencesAreHeld' /\ ClientsAreCounted'
  <2>1. ViewersAreCounted'
    BY <1>5 DEF ViewersAreCounted
  <2>2. ReferencesAreHeld'
    BY <1>1, <1>2, <1>8 DEF ReferencesAreHeld, ViewerShapes
  <2>3. Streaming' = Streaming
    BY <1>1, <1>2 DEF Streaming, ViewerShapes
  <2> QED
    BY <1>1, <1>2, <2>1, <2>2, <2>3 DEF ClientsAreCounted
<1>11. Publication'
  <2>1. viewers \in Nat
    BY <1>1 DEF ViewerShapes
  <2>2. /\ Blocked => viewers' <= viewers
        /\ ~Blocked => ((viewers' = viewers /\ pending' = pending) \/ pending' = TRUE
                        \/ (viewers' = 0 /\ pending' = pending))
    BY <1>5, <2>1
  <2>3. ~Blocked => Demand'
    BY <1>5 DEF Demand
  <2> QED
    BY <1>1, <1>2, <1>5, <2>1, <2>2, <2>3, QuietPublication
<1>12. PaintedIsOver'
  <2>1. shown' \in SUBSET shown /\ c \notin shown' /\ shown \in SUBSET Sockets
    BY <1>1, <1>2 DEF ViewerShapes
  <2>2. \A d \in Sockets : d # c => trace'[d] = trace[d]
    BY <1>1, <1>2 DEF ViewerShapes
  <2>3. trace'[c] = joined
    BY <1>1, <1>2 DEF ViewerShapes
  <2>4. \A d \in Sockets : trace'[d] # None => page'[trace'[d]] # "new"
    BY <1>1, <1>2, <1>4, <2>2, <2>3 DEF PaintedIsOver
  <2>5. \A d \in shown' : trace'[d] # None =>
            startup'[SessionOf[d]] # trace'[d] /\ ~(active' /\ opening' = trace'[d])
    BY <1>1, <1>2, <2>1, <2>2 DEF PaintedIsOver
  <2> QED
    BY <1>1, <1>2, <2>4, <2>5 DEF PaintedIsOver
<1> QED
  BY <1>9, <1>10, <1>11, <1>12 DEF ViewerInv

(* It streams, after a lease change.                                        *)
LEMMA SocketStreamsKeeps ==
    ASSUME ViewerInv, NEW c \in Sockets, SocketStreams(c)
    PROVE  ViewerInv'
<1> DEFINE s == SessionOf[c]
<1>1. ViewerShapes /\ ViewersAreCounted /\ ClientsAreCounted /\ ReferencesAreHeld
      /\ Publication /\ PaintedIsOver
  BY DEF ViewerInv
<1>2. /\ sock[c] = "referenced" /\ sock' = [sock EXCEPT ![c] = "open"]
      /\ Retain(s, trace[c], FALSE) /\ videoClients' = videoClients + 1
      /\ UNCHANGED <<barrier, generation, warm, opening, active, page, trace, held, counted, shown,
                     writing, published, releasing>>
  BY DEF SocketStreams, Step, openVars
<1>3. s \in Sessions /\ trace[c] \in Openings \cup {None}
  BY <1>1, ViewersAssumption DEF ViewerShapes
<1> HIDE DEF s
<1>4. LeaseKept(s, FALSE)
  BY <1>2, <1>3, RetainKeeps
<1>5. /\ refs' \in [Sessions -> Nat] /\ viewers' \in Nat /\ ViewersAreCounted'
      /\ startup' \in [Sessions -> Openings \cup {Unowned, None}]
      /\ pending' \in BOOLEAN \cup {None} /\ timer' \in BOOLEAN
      /\ \A u \in Sessions : refs'[u] <= Cardinality(Holders(u)')
      /\ \/ viewers' = viewers /\ pending' = pending
         \/ ~Blocked /\ viewers' > 0 /\ pending' = TRUE
  BY <1>4 DEF LeaseKept
<1>6. ViewerShapes'
  <2>1. sock' \in [Sockets -> SockPC] /\ videoClients' \in Nat
    BY <1>1, <1>2 DEF ViewerShapes, SockPC
  <2> QED
    BY <1>1, <1>2, <1>5, <2>1 DEF ViewerShapes
<1>7. ReferencesAreHeld' /\ ClientsAreCounted'
  <2>1. ReferencesAreHeld'
    BY <1>1, <1>2, <1>5 DEF ReferencesAreHeld, ViewerShapes
  <2>2. Streaming' = Streaming \cup {c} /\ c \notin Streaming
    BY <1>1, <1>2 DEF Streaming, ViewerShapes
  <2>3. Cardinality(Streaming') = Cardinality(Streaming) + 1
    BY <2>2, SetsAreFinite, WhereTheyAre, FS_AddElement
  <2> QED
    BY <1>1, <1>2, <2>1, <2>3 DEF ClientsAreCounted
<1>8. Publication'
  <2>1. viewers \in Nat /\ videoClients \in Nat
    BY <1>1 DEF ViewerShapes
  <2>2. /\ Blocked => viewers' <= viewers
        /\ ~Blocked => ((viewers' = viewers /\ pending' = pending) \/ pending' = TRUE
                        \/ (viewers' = 0 /\ pending' = pending))
    BY <1>5, <2>1
  <2>3. Demand'
    BY <1>2, <2>1 DEF Demand
  <2> QED
    BY <1>1, <1>2, <1>5, <2>1, <2>2, <2>3, QuietPublication
<1>9. PaintedIsOver'
  <2>1. PICK v : /\ startup' = startup \/ startup' = [startup EXCEPT ![s] = v]
                 /\ v \in {Unowned, None} \/ (active /\ opening = v)
    BY <1>4 DEF LeaseKept
  <2> QED
    BY <1>1, <1>2, <1>3, <2>1, PaintedKept
<1> QED
  BY <1>5, <1>6, <1>7, <1>8, <1>9 DEF ViewerInv

(* Its first picture completes the opening and gives the lease back.        *)
LEMMA SocketPresentsKeeps ==
    ASSUME ViewerInv, NEW c \in Sockets, SocketPresents(c)
    PROVE  ViewerInv'
<1> DEFINE s == SessionOf[c]
           t == trace[c]
           mine == IF t # None THEN startup[s] = t ELSE startup[s] = Unowned /\ ~ActiveFor(s)
<1>1. ViewerShapes /\ ViewersAreCounted /\ ClientsAreCounted /\ ReferencesAreHeld
      /\ Publication /\ PaintedIsOver
  BY DEF ViewerInv
<1>2. /\ sock[c] = "open" /\ shown' = shown \cup {c} /\ active' = (active /\ opening # t)
      /\ UNCHANGED <<barrier, generation, warm, opening, page, sock, trace, held, counted,
                     videoClients, writing, published, releasing>>
  BY DEF SocketPresents
<1>3. s \in Sessions /\ timer \in BOOLEAN /\ t \in Openings \cup {None} /\ startup[s] \in Openings \cup {Unowned, None}
  BY <1>1, ViewersAssumption DEF ViewerShapes
<1>4. \/ mine /\ startup' = [startup EXCEPT ![s] = None] /\ DropRef(s, timer)
      \/ ~mine /\ UNCHANGED <<startup, refs, viewers, pending, timer>>
  BY DEF SocketPresents
<1>5. t # None => startup'[s] # t
  BY <1>1, <1>3, <1>4, ViewersAssumption DEF ViewerShapes
<1>6. \A u \in Sessions : startup'[u] = startup[u] \/ startup'[u] = None
  BY <1>1, <1>4 DEF ViewerShapes
<1> HIDE DEF mine, t, s
<1>7. /\ refs' \in [Sessions -> Nat] /\ viewers' \in Nat /\ ViewersAreCounted'
      /\ startup' \in [Sessions -> Openings \cup {Unowned, None}]
      /\ pending' \in BOOLEAN \cup {None} /\ timer' \in BOOLEAN
      /\ \A u \in Sessions : refs'[u] <= Cardinality(Holders(u)')
      /\ viewers' <= viewers
      /\ ~Blocked => ((viewers' = viewers /\ pending' = pending) \/ pending' = TRUE
                      \/ (viewers' = 0 /\ pending' = pending))
  <2>1. CASE startup' = [startup EXCEPT ![s] = None] /\ DropRef(s, timer)
    <3>1. \A u \in Sessions : u # s => Holders(u)' = Holders(u)
      BY <1>1, <1>2, <2>1 DEF Holders, ViewerShapes
    <3>2. Holders(s) \ {"startup"} \in SUBSET Holders(s)'
      BY <1>2 DEF Holders
    <3>3. /\ refs' \in [Sessions -> Nat] /\ viewers' \in Nat /\ ViewersAreCounted'
          /\ pending' \in BOOLEAN \cup {None} /\ timer' \in BOOLEAN
          /\ \A u \in Sessions : refs'[u] <= Cardinality(Holders(u)')
          /\ viewers' <= viewers
          /\ ~Blocked => \/ viewers' = viewers /\ pending' = pending /\ timer' = timer
                         \/ viewers' > 0 /\ pending' = TRUE /\ timer' = timer
                         \/ viewers' = 0 /\ pending' = pending /\ timer' = (videoClients = 0)
      BY <1>3, <2>1, <3>1, <3>2, DropKeeps
    <3>4. startup' \in [Sessions -> Openings \cup {Unowned, None}]
      BY <1>1, <2>1 DEF ViewerShapes
    <3> QED
      BY <3>3, <3>4
  <2>2. CASE UNCHANGED <<startup, refs, viewers, pending, timer>>
    <3>1. \A u \in Sessions : refs[u] <= Cardinality(Holders(u)) /\ Holders(u)' = Holders(u)
      BY <1>1, <1>2, <2>2 DEF ReferencesAreHeld, Holders
    <3>2. ViewersAreCounted'
      BY <1>1, <2>2 DEF ViewersAreCounted, Viewed
    <3> QED
      BY <1>1, <2>2, <3>1, <3>2 DEF ViewerShapes
  <2> QED
    BY <1>4, <2>1, <2>2
<1>8. ViewerShapes'
  <2>1. shown' \in SUBSET Sockets /\ active' \in BOOLEAN
    BY <1>1, <1>2 DEF ViewerShapes
  <2> QED
    BY <1>1, <1>2, <1>7, <2>1 DEF ViewerShapes
<1>9. ReferencesAreHeld' /\ ClientsAreCounted'
  BY <1>1, <1>2, <1>7 DEF ReferencesAreHeld, ClientsAreCounted, Streaming
<1>10. Publication'
  <2>1. viewers \in Nat /\ videoClients \in Nat
    BY <1>1 DEF ViewerShapes
  <2>2. Streaming # {}
    BY <1>2 DEF Streaming
  <2>3. videoClients > 0
    BY <1>1, <2>1, <2>2, SetsAreFinite, WhereTheyAre, FS_EmptySet DEF ClientsAreCounted
  <2>4. Demand'
    BY <1>2, <2>3 DEF Demand
  <2> QED
    BY <1>1, <1>2, <1>7, <2>1, <2>4, QuietPublication
<1>11. PaintedIsOver'
  <2>1. ASSUME NEW d \in shown', trace[d] # None
        PROVE  startup'[SessionOf[d]] # trace[d] /\ ~(active' /\ opening = trace[d])
    <3>1. d \in Sockets /\ trace[d] \in Openings /\ SessionOf[d] \in Sessions
      BY <1>1, <1>2, <2>1, ViewersAssumption DEF ViewerShapes
    <3>2. CASE d = c
      BY <1>2, <1>5, <2>1, <3>2 DEF t, s
    <3>3. CASE d \in shown
      BY <1>1, <1>2, <1>6, <2>1, <3>1, <3>3 DEF PaintedIsOver
    <3> QED
      BY <1>2, <3>2, <3>3
  <2> QED
    BY <1>1, <1>2, <2>1 DEF PaintedIsOver
<1> QED
  BY <1>7, <1>8, <1>9, <1>10, <1>11 DEF ViewerInv

(* Its reader ends.                                                         *)
LEMMA SocketEndsKeeps ==
    ASSUME ViewerInv, NEW c \in Sockets, SocketEnds(c)
    PROVE  ViewerInv'
<1>1. ViewerShapes /\ ViewersAreCounted /\ ClientsAreCounted /\ ReferencesAreHeld
      /\ Publication /\ PaintedIsOver
  BY DEF ViewerInv
<1>2. /\ sock[c] = "open" /\ sock' = [sock EXCEPT ![c] = "leaving"]
      /\ videoClients' = videoClients - 1
      /\ UNCHANGED <<barrier, generation, refs, viewers, startup, warm, opening, active, page>>
      /\ UNCHANGED <<trace, held, counted, shown, pending, writing, published, timer, releasing>>
  BY DEF SocketEnds, Step, leaseVars, openVars, pubVars
<1>3. Streaming' = Streaming \ {c} /\ c \in Streaming
  BY <1>1, <1>2 DEF Streaming, ViewerShapes
<1>4. Cardinality(Streaming') = Cardinality(Streaming) - 1 /\ Cardinality(Streaming') \in Nat
  BY <1>3, SetsAreFinite, WhereTheyAre, FS_RemoveElement
<1>5. ClientsAreCounted' /\ videoClients' \in Nat
  BY <1>1, <1>2, <1>4 DEF ClientsAreCounted
<1>6. sock' \in [Sockets -> SockPC] /\ sock'[c] = "leaving"
  BY <1>1, <1>2 DEF ViewerShapes, SockPC
<1>7. ViewerShapes'
  BY <1>1, <1>2, <1>5, <1>6 DEF ViewerShapes
<1>8. ViewersAreCounted'
  BY <1>1, <1>2 DEF ViewersAreCounted, Viewed
<1>9. ReferencesAreHeld'
  <2>1. \A u \in Sessions : Holders(u)' = Holders(u)
    BY <1>2 DEF Holders
  <2> QED
    BY <1>1, <1>2, <2>1 DEF ReferencesAreHeld, ViewerShapes
<1>10. Publication'
  <2>1. Leaving'
    BY <1>6 DEF Leaving
  <2>2. viewers \in Nat
    BY <1>1 DEF ViewerShapes
  <2> QED
    BY <1>1, <1>2, <2>1, <2>2, QuietPublication
<1>11. PaintedIsOver'
  BY <1>1, <1>2 DEF PaintedIsOver
<1> QED
  BY <1>5, <1>7, <1>8, <1>9, <1>10, <1>11 DEF ViewerInv

(* It leaves its grace lease behind.                                        *)
LEMMA SocketLeavesKeeps ==
    ASSUME ViewerInv, NEW c \in Sockets, SocketLeavesGrace(c)
    PROVE  ViewerInv'
<1> DEFINE s == SessionOf[c]
<1>1. ViewerShapes /\ ViewersAreCounted /\ ClientsAreCounted /\ ReferencesAreHeld
      /\ Publication /\ PaintedIsOver
  BY DEF ViewerInv
<1>2. /\ sock[c] = "leaving" /\ sock' = [sock EXCEPT ![c] = "left"]
      /\ Retain(s, trace[c], timer) \/ UNCHANGED <<startup, refs, viewers, pending, timer>>
      /\ UNCHANGED <<barrier, generation, warm, opening, active, page, trace, held, counted, shown,
                     videoClients, writing, published, releasing>>
  BY DEF SocketLeavesGrace, Step, openVars
<1>3. s \in Sessions /\ trace[c] \in Openings \cup {None} /\ timer \in BOOLEAN
  BY <1>1, ViewersAssumption DEF ViewerShapes
<1> HIDE DEF s
<1>4. LeaseKept(s, timer)
  <2>1. CASE Retain(s, trace[c], timer)
    BY <1>2, <1>3, <2>1, RetainKeeps
  <2>2. CASE UNCHANGED <<startup, refs, viewers, pending, timer>>
    <3>1. \A u \in Sessions : refs[u] <= Cardinality(Holders(u)) /\ Holders(u)' = Holders(u)
      BY <1>1, <1>2, <2>2 DEF ReferencesAreHeld, Holders
    <3>2. ViewersAreCounted'
      BY <1>1, <2>2 DEF ViewersAreCounted, Viewed
    <3> QED
      BY <1>1, <2>2, <3>1, <3>2 DEF ViewerShapes, LeaseKept
  <2> QED
    BY <1>2, <2>1, <2>2
<1>5. /\ refs' \in [Sessions -> Nat] /\ viewers' \in Nat /\ ViewersAreCounted'
      /\ startup' \in [Sessions -> Openings \cup {Unowned, None}]
      /\ pending' \in BOOLEAN \cup {None} /\ timer' \in BOOLEAN
      /\ \A u \in Sessions : refs'[u] <= Cardinality(Holders(u)')
      /\ \/ viewers' = viewers /\ pending' = pending
         \/ ~Blocked /\ viewers' > 0 /\ pending' = TRUE
  BY <1>4 DEF LeaseKept
<1>6. sock' \in [Sockets -> SockPC] /\ sock'[c] = "left"
  BY <1>1, <1>2 DEF ViewerShapes, SockPC
<1>7. ViewerShapes'
  BY <1>1, <1>2, <1>5, <1>6 DEF ViewerShapes
<1>8. ReferencesAreHeld' /\ ClientsAreCounted'
  <2>1. ReferencesAreHeld'
    BY <1>1, <1>2, <1>5 DEF ReferencesAreHeld, ViewerShapes
  <2>2. Streaming' = Streaming
    BY <1>1, <1>2 DEF Streaming, ViewerShapes
  <2> QED
    BY <1>1, <1>2, <2>1, <2>2 DEF ClientsAreCounted
<1>9. Publication'
  <2>1. viewers \in Nat
    BY <1>1 DEF ViewerShapes
  <2>2. /\ Blocked => viewers' <= viewers
        /\ ~Blocked => ((viewers' = viewers /\ pending' = pending) \/ pending' = TRUE
                        \/ (viewers' = 0 /\ pending' = pending))
    BY <1>5, <2>1
  <2>3. Leaving'
    BY <1>6 DEF Leaving
  <2> QED
    BY <1>1, <1>2, <1>5, <2>1, <2>2, <2>3, QuietPublication
<1>10. PaintedIsOver'
  <2>1. PICK v : /\ startup' = startup \/ startup' = [startup EXCEPT ![s] = v]
                 /\ v \in {Unowned, None} \/ (active /\ opening = v)
    BY <1>4 DEF LeaseKept
  <2> QED
    BY <1>1, <1>2, <1>3, <2>1, PaintedKept
<1> QED
  BY <1>5, <1>7, <1>8, <1>9, <1>10 DEF ViewerInv

(* It gives its reference back, unless the barrier has wiped it.            *)
LEMMA SocketReleasesKeeps ==
    ASSUME ViewerInv, NEW c \in Sockets, SocketReleases(c)
    PROVE  ViewerInv'
<1> DEFINE s == SessionOf[c]
           idle == IdleRelease(viewers)
<1>1. ViewerShapes /\ ViewersAreCounted /\ ClientsAreCounted /\ ReferencesAreHeld
      /\ Publication /\ PaintedIsOver
  BY DEF ViewerInv
<1>2. /\ sock[c] = "left" /\ sock' = [sock EXCEPT ![c] = "closed"]
      /\ counted' = [counted EXCEPT ![c] = FALSE] /\ trace' = [trace EXCEPT ![c] = None]
      /\ held' = [held EXCEPT ![c] = 0]
      /\ UNCHANGED <<barrier, generation, startup, warm, opening, active, page, shown,
                     videoClients, writing, published, releasing>>
  BY DEF SocketReleases, Step, openVars
<1>3. \/ held[c] = generation /\ DropRef(s, idle)
      \/ held[c] # generation /\ timer' = idle /\ UNCHANGED <<refs, viewers, pending>>
  BY DEF SocketReleases
<1>4. s \in Sessions /\ idle \in BOOLEAN /\ (~Blocked /\ videoClients = 0 /\ viewers = 0 => idle = TRUE)
  BY <1>1, ViewersAssumption DEF ViewerShapes, IdleRelease
<1>5. \A u \in Sessions : u # s => Holders(u)' = Holders(u)
  BY <1>1, <1>2 DEF Holders, ViewerShapes
<1>6. Holders(s) \ {c} \in SUBSET Holders(s)'
  BY <1>1, <1>2 DEF Holders, ViewerShapes
<1>7. held[c] # generation => Holders(s) \in SUBSET Holders(s)'
  BY <1>1, <1>2, <1>6, ViewersAssumption DEF Holders
<1> HIDE DEF s, idle
<1>8. /\ refs' \in [Sessions -> Nat] /\ viewers' \in Nat /\ ViewersAreCounted'
      /\ pending' \in BOOLEAN \cup {None} /\ timer' \in BOOLEAN
      /\ \A u \in Sessions : refs'[u] <= Cardinality(Holders(u)')
      /\ viewers' <= viewers
      /\ ~Blocked => \/ viewers' = viewers /\ pending' = pending /\ timer' = idle
                     \/ viewers' > 0 /\ pending' = TRUE /\ timer' = idle
                     \/ viewers' = 0 /\ pending' = pending /\ timer' = (videoClients = 0)
  <2>1. CASE DropRef(s, idle)
    BY <1>4, <1>5, <1>6, <2>1, DropKeeps
  <2>2. CASE held[c] # generation /\ timer' = idle /\ UNCHANGED <<refs, viewers, pending>>
    <3>1. Cardinality(Holders(s)) <= Cardinality(Holders(s)') /\ Cardinality(Holders(s)') \in Nat
          /\ Cardinality(Holders(s)) \in Nat
      BY <1>7, <2>2, SetsAreFinite, WhereTheyAre, FS_Subset
    <3>2. ASSUME NEW u \in Sessions PROVE refs'[u] <= Cardinality(Holders(u)')
      <4>1. refs[u] <= Cardinality(Holders(u)) /\ refs[u] \in Nat /\ refs' = refs
        BY <1>1, <2>2 DEF ReferencesAreHeld, ViewerShapes
      <4>2. CASE u = s
        BY <3>1, <4>1, <4>2
      <4>3. CASE u # s
        BY <1>5, <4>1, <4>3
      <4> QED
        BY <4>2, <4>3
    <3>3. ViewersAreCounted'
      BY <1>1, <2>2 DEF ViewersAreCounted, Viewed
    <3> QED
      BY <1>1, <1>4, <2>2, <3>2, <3>3 DEF ViewerShapes
  <2> QED
    BY <1>3, <2>1, <2>2
<1>9. ViewerShapes'
  <2>1. /\ sock' \in [Sockets -> SockPC] /\ trace' \in [Sockets -> Openings \cup {None}]
        /\ held' \in [Sockets -> 0..MaxGeneration] /\ counted' \in [Sockets -> BOOLEAN]
    <3>1. 0 \in 0..MaxGeneration
      BY ViewersAssumption
    <3> QED
      BY <1>1, <1>2, <3>1 DEF ViewerShapes, SockPC
  <2> QED
    BY <1>1, <1>2, <1>8, <2>1 DEF ViewerShapes
<1>10. ReferencesAreHeld' /\ ClientsAreCounted'
  <2>1. ReferencesAreHeld'
    BY <1>1, <1>2, <1>8 DEF ReferencesAreHeld, ViewerShapes
  <2>2. Streaming' = Streaming
    BY <1>1, <1>2 DEF Streaming, ViewerShapes
  <2> QED
    BY <1>1, <1>2, <2>1, <2>2 DEF ClientsAreCounted
<1>11. Publication'
  <2>1. viewers \in Nat /\ videoClients \in Nat /\ videoClients' = videoClients
    BY <1>1, <1>2 DEF ViewerShapes
  <2>2. /\ Blocked => viewers' <= viewers
        /\ ~Blocked => ((viewers' = viewers /\ pending' = pending) \/ pending' = TRUE
                        \/ (viewers' = 0 /\ pending' = pending))
    BY <1>8, <2>1
  <2>3. ASSUME ~Blocked, ~Demand' PROVE timer' = TRUE
    <3>1. videoClients = 0 /\ ~(viewers' > 0) /\ viewers' = 0
      BY <1>8, <2>1, <2>3 DEF Demand
    <3>2. CASE viewers' = viewers /\ timer' = idle
      BY <1>4, <2>3, <3>1, <3>2
    <3>3. CASE timer' = (videoClients = 0)
      BY <3>1, <3>3
    <3> QED
      BY <1>8, <2>3, <3>1, <3>2, <3>3
  <2> QED
    BY <1>1, <1>2, <1>8, <2>1, <2>2, <2>3, QuietPublication
<1>12. PaintedIsOver'
  <2>1. /\ \A d \in Sockets : trace'[d] # None => trace'[d] = trace[d]
        /\ shown \in SUBSET Sockets
    BY <1>1, <1>2 DEF ViewerShapes
  <2> QED
    BY <1>1, <1>2, <2>1 DEF PaintedIsOver
<1> QED
  BY <1>8, <1>9, <1>10, <1>11, <1>12 DEF ViewerInv

(* The writer, the release timer and the barrier.                           *)
LEMMA WriterKeeps ==
    ASSUME ViewerInv, TakePending \/ \E ok \in BOOLEAN : Publish(ok)
    PROVE  ViewerInv'
<1>1. ViewerShapes /\ PaintedIsOver /\ Publication
  BY DEF ViewerInv
<1>2. UNCHANGED <<barrier, generation, leaseVars, openVars, sockVars, timer, releasing>>
  BY DEF TakePending, Publish
<1>3. ViewersAreCounted' /\ ClientsAreCounted' /\ ReferencesAreHeld'
  BY <1>2, CountsKept DEF sockVars
<1>4. PaintedIsOver'
  BY <1>1, <1>2 DEF PaintedIsOver, leaseVars, sockVars, openVars
<1>5. (Blocked' <=> Blocked) /\ viewers' = viewers /\ (Demand' <=> Demand) /\ (Leaving' <=> Leaving)
  BY <1>2 DEF Blocked, Demand, Leaving, leaseVars, sockVars
<1>6. (barrier = "quiesced" => viewers = 0)'
  BY <1>1, <1>2, <1>5 DEF Publication
<1>7. CASE TakePending
  <2>1. writing = None /\ pending # None /\ writing' = pending /\ pending' = None /\ published' = published
    BY <1>7 DEF TakePending
  <2>2. ViewerShapes'
    BY <1>1, <1>2, <2>1 DEF ViewerShapes, leaseVars, sockVars, openVars
  <2>3. ~Blocked /\ viewers > 0 => StartIsComing'
    BY <1>1, <2>1 DEF Publication, StartIsComing
  <2>4. ~Blocked /\ published = TRUE /\ ~Demand => StopIsComing'
    <3> SUFFICES ASSUME ~Blocked, published = TRUE, ~Demand PROVE StopIsComing'
      OBVIOUS
    <3>1. StopIsComing
      BY <1>1 DEF Publication
    <3>2. CASE timer \/ releasing \/ Leaving
      BY <1>2, <1>5, <3>2 DEF StopIsComing
    <3>3. CASE pending = FALSE
      BY <2>1, <3>3 DEF StopIsComing
    <3> QED
      BY <2>1, <3>1, <3>2, <3>3 DEF StopIsComing
  <2>5. Publication'
    BY <1>1, <1>5, <1>6, <2>1, <2>3, <2>4 DEF Publication
  <2> QED
    BY <1>3, <1>4, <2>2, <2>5 DEF ViewerInv
<1>8. ASSUME NEW ok \in BOOLEAN, Publish(ok) PROVE ViewerInv'
  <2>1. /\ writing # None /\ writing' = None /\ pending' = pending
        /\ \/ (Blocked \/ writing # Demand) /\ published' = published
           \/ ~Blocked /\ writing = Demand /\ published' \in {writing, None}
    BY <1>8 DEF Publish
  <2>2. writing \in BOOLEAN /\ published \in BOOLEAN \cup {None}
    BY <1>1, <2>1 DEF ViewerShapes
  <2>3. ViewerShapes'
    BY <1>1, <1>2, <2>1, <2>2 DEF ViewerShapes, leaseVars, sockVars, openVars
  <2>4. Blocked => published' = FALSE
    BY <1>1, <2>1 DEF Publication
  <2>5. ASSUME ~Blocked, viewers > 0 PROVE StartIsComing'
    <3>1. Demand = TRUE
      BY <2>5 DEF Demand
    <3>2. StartIsComing
      BY <1>1, <2>5 DEF Publication
    <3>3. published' # FALSE \/ (writing = FALSE /\ published' = published)
      <4>1. CASE writing = TRUE
        <5>1. published' \in {TRUE, None}
          BY <2>1, <2>5, <3>1, <4>1
        <5>2. None # FALSE /\ TRUE # FALSE
          BY ViewersAssumption
        <5> QED
          BY <5>1, <5>2
      <4>2. CASE writing = FALSE
        <5>1. writing # Demand
          BY <3>1, <4>2
        <5> QED
          BY <2>1, <4>2, <5>1
      <4> QED
        BY <2>2, <4>1, <4>2
    <3> QED
      BY <2>1, <3>2, <3>3 DEF StartIsComing
  <2>6. ASSUME ~Blocked, published' = TRUE, ~Demand PROVE StopIsComing'
    <3>1. Demand = FALSE
      BY <2>6 DEF Demand
    <3>2. writing = TRUE /\ published = TRUE
      BY <2>1, <2>2, <2>6, <3>1, ViewersAssumption
    <3>3. StopIsComing
      BY <1>1, <2>6, <3>2 DEF Publication
    <3> QED
      BY <1>2, <1>5, <2>1, <3>2, <3>3 DEF StopIsComing
  <2>7. Publication'
    BY <1>5, <1>6, <2>4, <2>5, <2>6 DEF Publication
  <2> QED
    BY <1>3, <1>4, <2>3, <2>7 DEF ViewerInv
<1> QED
  BY <1>7, <1>8

LEMMA ReleaseKeeps ==
    ASSUME ViewerInv, ReleaseTimerFires \/ ReleaseIfIdle \/ PhoneDisconnects
    PROVE  ViewerInv'
<1>1. ViewerShapes /\ PaintedIsOver /\ Publication
  BY DEF ViewerInv
<1>2. UNCHANGED <<barrier, generation, leaseVars, openVars, sockVars, writing, published>>
  BY DEF ReleaseTimerFires, ReleaseIfIdle, PhoneDisconnects
<1>3. ViewersAreCounted' /\ ClientsAreCounted' /\ ReferencesAreHeld'
  BY <1>2, CountsKept DEF sockVars
<1>4. PaintedIsOver'
  BY <1>1, <1>2 DEF PaintedIsOver, leaseVars, sockVars, openVars
<1>5. (Blocked' <=> Blocked) /\ viewers' = viewers /\ (Demand' <=> Demand) /\ (Leaving' <=> Leaving)
  BY <1>2 DEF Blocked, Demand, Leaving, leaseVars, sockVars
<1>6. viewers \in Nat /\ videoClients \in Nat /\ timer \in BOOLEAN /\ releasing \in BOOLEAN
      /\ pending \in BOOLEAN \cup {None}
  BY <1>1 DEF ViewerShapes
<1>7. /\ timer' \in BOOLEAN /\ releasing' \in BOOLEAN /\ pending' \in BOOLEAN \cup {None}
      /\ pending' = pending \/ (~Demand /\ pending' = FALSE)
      /\ ~Blocked /\ ~Demand => \/ releasing' = TRUE \/ pending' = FALSE
                                \/ (timer' = timer /\ releasing' = releasing /\ pending' = pending)
  <2>1. CASE ReleaseTimerFires
    BY <1>6, <2>1 DEF ReleaseTimerFires
  <2>2. CASE ReleaseIfIdle
    BY <1>6, <2>2 DEF ReleaseIfIdle, Enqueue
  <2>3. CASE PhoneDisconnects
    <3>1. pending' = pending
      BY <2>3 DEF PhoneDisconnects
    <3>2. CASE videoClients = 0
      BY <1>6, <2>3, <3>1, <3>2 DEF PhoneDisconnects
    <3>3. CASE videoClients # 0
      <4>1. releasing' = releasing /\ timer' = IdleRelease(viewers)
        BY <2>3, <3>3 DEF PhoneDisconnects
      <4>2. IdleRelease(viewers) \in BOOLEAN
        BY <1>6 DEF IdleRelease
      <4>3. Demand
        BY <1>6, <3>3 DEF Demand
      <4> QED
        BY <1>6, <3>1, <4>1, <4>2, <4>3
    <3> QED
      BY <3>2, <3>3
  <2> QED
    BY <2>1, <2>2, <2>3
<1>8. ViewerShapes'
  BY <1>1, <1>2, <1>7 DEF ViewerShapes, leaseVars, sockVars, openVars
<1>9. Publication'
  <2>1. ASSUME ~Blocked, viewers > 0 PROVE StartIsComing'
    <3>1. StartIsComing /\ pending' = pending
      BY <1>1, <1>7, <2>1 DEF Publication, Demand
    <3> QED
      BY <1>2, <3>1 DEF StartIsComing
  <2>2. ASSUME ~Blocked, published = TRUE, ~Demand PROVE StopIsComing'
    <3>1. StopIsComing
      BY <1>1, <2>2 DEF Publication
    <3>2. CASE releasing' = TRUE \/ pending' = FALSE
      BY <3>2 DEF StopIsComing
    <3>3. CASE timer' = timer /\ releasing' = releasing /\ pending' = pending
      BY <1>2, <1>5, <3>1, <3>3 DEF StopIsComing
    <3> QED
      BY <1>7, <2>2, <3>2, <3>3
  <2> QED
    BY <1>1, <1>2, <1>5, <2>1, <2>2 DEF Publication
<1> QED
  BY <1>3, <1>4, <1>8, <1>9 DEF ViewerInv

(* The cold-restart barrier wipes references, leases and what was pending   *)
(* together; between its rise and its fall nothing is published.            *)
LEMMA BarrierKeeps ==
    ASSUME ViewerInv, BarrierRises \/ Quiesce \/ BarrierFalls
    PROVE  ViewerInv'
<1>1. ViewerShapes /\ ViewersAreCounted /\ ClientsAreCounted /\ ReferencesAreHeld
      /\ Publication /\ PaintedIsOver
  BY DEF ViewerInv
<1>2. UNCHANGED <<openVars, sockVars, writing, releasing>>
  BY DEF BarrierRises, Quiesce, BarrierFalls, pubVars
<1>3. CASE BarrierRises
  <2>1. /\ barrier = "open" /\ barrier' = "blocking" /\ published' = FALSE
        /\ UNCHANGED <<generation, leaseVars, pending, timer>>
    BY <1>3 DEF BarrierRises
  <2>2. ViewersAreCounted' /\ ClientsAreCounted' /\ ReferencesAreHeld'
    BY <1>2, <2>1, CountsKept DEF sockVars
  <2>3. ViewerShapes'
    BY <1>1, <1>2, <2>1 DEF ViewerShapes, leaseVars, sockVars, openVars
  <2>4. Publication' /\ PaintedIsOver'
    BY <1>1, <1>2, <2>1 DEF Publication, PaintedIsOver, Blocked, leaseVars, sockVars, openVars
  <2> QED
    BY <2>2, <2>3, <2>4 DEF ViewerInv
<1>4. CASE Quiesce
  <2>1. /\ Blocked /\ generation < MaxGeneration /\ barrier' = "quiesced" /\ generation' = generation + 1
        /\ refs' = [s \in Sessions |-> 0] /\ viewers' = 0 /\ startup' = [s \in Sessions |-> None]
        /\ warm' = {} /\ timer' = FALSE /\ pending' = None /\ published' = published
    BY <1>4 DEF Quiesce
  <2>2. ViewerShapes'
    <3>1. generation' \in 0..MaxGeneration
      BY <1>1, <2>1, ViewersAssumption DEF ViewerShapes
    <3>2. UNCHANGED <<opening, active, page, sock, trace, held, counted, shown, videoClients>>
      BY <1>2 DEF sockVars, openVars
    <3>3. /\ refs' \in [Sessions -> Nat] /\ viewers' \in Nat
          /\ startup' \in [Sessions -> Openings \cup {Unowned, None}] /\ warm' \in SUBSET Sessions
          /\ timer' \in BOOLEAN /\ pending' \in BOOLEAN \cup {None} /\ barrier' \in {"open", "blocking", "quiesced"}
      BY <2>1
    <3> QED
      BY <1>1, <1>2, <2>1, <3>1, <3>2, <3>3 DEF ViewerShapes
  <2>3. Viewed' = {} /\ Streaming' = Streaming
    BY <1>2, <2>1 DEF Viewed, Streaming, sockVars
  <2>4. ViewersAreCounted' /\ ClientsAreCounted'
    BY <1>1, <1>2, <2>1, <2>3, FS_EmptySet DEF ViewersAreCounted, ClientsAreCounted, sockVars
  <2>5. ReferencesAreHeld'
    <3>1. ASSUME NEW u \in Sessions PROVE refs'[u] <= Cardinality(Holders(u)')
      <4>1. refs'[u] = 0 /\ Cardinality(Holders(u)') \in Nat
        BY <2>1, SetsAreFinite, WhereTheyAre
      <4> QED
        BY <4>1
    <3> QED
      BY <1>1, <1>2, <3>1 DEF ReferencesAreHeld, sockVars
  <2>6. Publication'
    BY <1>1, <2>1 DEF Publication, Blocked
  <2>7. PaintedIsOver'
    <3>1. UNCHANGED <<opening, active, page, trace, shown>>
      BY <1>2 DEF sockVars, openVars
    <3>2. \A c \in shown : trace[c] # None => startup'[SessionOf[c]] = None
      BY <1>1, <2>1, ViewersAssumption DEF ViewerShapes
    <3> QED
      BY <1>1, <3>1, <3>2 DEF PaintedIsOver
  <2> QED
    BY <2>2, <2>4, <2>5, <2>6, <2>7 DEF ViewerInv
<1>5. CASE BarrierFalls
  <2>1. barrier = "quiesced" /\ barrier' = "open" /\ UNCHANGED <<generation, leaseVars, pubVars>>
    BY <1>5 DEF BarrierFalls
  <2>2. ViewersAreCounted' /\ ClientsAreCounted' /\ ReferencesAreHeld'
    BY <1>2, <2>1, CountsKept DEF sockVars
  <2>3. ViewerShapes'
    BY <1>1, <1>2, <2>1 DEF ViewerShapes, leaseVars, sockVars, openVars, pubVars
  <2>4. viewers' = 0 /\ published' = FALSE
    BY <1>1, <2>1 DEF Publication, Blocked, leaseVars, pubVars
  <2>5. Publication'
    BY <2>1, <2>4 DEF Publication, Blocked
  <2>6. PaintedIsOver'
    BY <1>1, <1>2, <2>1 DEF PaintedIsOver, leaseVars, sockVars, openVars
  <2> QED
    BY <2>2, <2>3, <2>5, <2>6 DEF ViewerInv
<1> QED
  BY <1>3, <1>4, <1>5

LEMMA RelaySteps == ViewerInv /\ Next => ViewerInv'
<1> SUFFICES ASSUME ViewerInv, Next PROVE ViewerInv'
  OBVIOUS
<1>1. ASSUME NEW c \in Sockets, SocketOpens(c) \/ SocketStep(c) \/ SocketPresents(c) \/ SocketEnds(c)
      PROVE  ViewerInv'
  BY <1>1, SocketOpensKeeps, SocketStreamsKeeps, SocketLeavesKeeps, SocketReleasesKeeps,
     SocketPresentsKeeps, SocketEndsKeeps DEF SocketStep
<1>2. ASSUME NEW o \in Openings, PageLoads(o) \/ Prewarm(o) \/ PrewarmRejected(o) \/ PageOpenWarm(o)
      PROVE  ViewerInv'
  BY <1>2, OpeningMoves, PagePrewarms, PageOpens
<1>3. CASE OpeningTooOld
  BY <1>3, OpeningMoves
<1>4. CASE LeaseStep
  BY <1>4, LeaseExpires DEF LeaseStep
<1>5. CASE PublishStep \/ PhoneDisconnects
  BY <1>5, WriterKeeps, ReleaseKeeps DEF PublishStep
<1>6. CASE BarrierRises \/ Quiesce \/ BarrierFalls
  BY <1>6, BarrierKeeps
<1> QED
  BY <1>1, <1>2, <1>3, <1>4, <1>5, <1>6 DEF Next

LEMMA ViewerInvIsSound == ViewerInv => ViewersAreSound
<1> SUFFICES ASSUME ViewerInv PROVE ViewersAreSound
  OBVIOUS
<1>1. ViewerShapes /\ ViewersAreCounted /\ ClientsAreCounted /\ ReferencesAreHeld
      /\ Publication /\ PaintedIsOver
  BY DEF ViewerInv
<1>2. viewers \in 0..Cardinality(Sessions) /\ videoClients \in 0..Cardinality(Sockets)
  <2>1. Cardinality(Viewed) \in Nat /\ Cardinality(Viewed) <= Cardinality(Sessions)
    BY SetsAreFinite, WhereTheyAre
  <2>2. Cardinality(Streaming) \in Nat /\ Cardinality(Streaming) <= Cardinality(Sockets)
    BY SetsAreFinite, WhereTheyAre
  <2> QED
    BY <1>1, <2>1, <2>2, SetsAreFinite DEF ViewersAreCounted, ClientsAreCounted
<1>3. refs \in [Sessions -> 0..(Cardinality(Sockets) + 2)]
  <2>1. ASSUME NEW u \in Sessions PROVE refs[u] \in 0..(Cardinality(Sockets) + 2)
    <3>1. Cardinality(Holders(u)) \in Nat /\ Cardinality(Holders(u)) <= Cardinality(Sockets) + 2
      BY SetsAreFinite, WhereTheyAre
    <3>2. refs[u] \in Nat /\ refs[u] <= Cardinality(Holders(u))
      BY <1>1 DEF ViewerShapes, ReferencesAreHeld
    <3> QED
      BY <3>1, <3>2, SetsAreFinite
  <2> QED
    BY <1>1, <2>1 DEF ViewerShapes
<1>4. TypeOK
  BY <1>1, <1>2, <1>3 DEF TypeOK, ViewerShapes
<1>5. NoLeakedReference
  BY <1>1 DEF NoLeakedReference, ReferencesAreHeld, ViewersAreCounted, Viewed
<1>6. QuietStateIsPublished
  <2> SUFFICES ASSUME ~Blocked, published # None, \A c \in Sockets : sock[c] \in {"closed", "open"},
                      pending = None, writing = None, ~timer, ~releasing
               PROVE  (viewers > 0 => published) /\ (published => Demand)
    BY DEF QuietStateIsPublished
  <2>1. published \in BOOLEAN /\ None # TRUE /\ None # FALSE
    BY <1>1, ViewersAssumption DEF ViewerShapes
  <2>2. ASSUME viewers > 0 PROVE published
    BY <1>1, <2>1, <2>2 DEF Publication, StartIsComing
  <2>3. ASSUME published PROVE Demand
    <3>1. ~Leaving
      BY DEF Leaving
    <3>2. published = TRUE
      BY <2>1, <2>3
    <3>3. ~StopIsComing
      BY <2>1, <3>1 DEF StopIsComing
    <3> QED
      BY <1>1, <3>2, <3>3 DEF Publication
  <2> QED
    BY <2>2, <2>3
<1>7. PaintedOpeningHoldsNothing
  BY <1>1 DEF PaintedIsOver, PaintedOpeningHoldsNothing
<1> QED
  BY <1>4, <1>5, <1>6, <1>7 DEF ViewersAreSound

(* No reference outlives its holders, the relay counts exactly the sessions *)
(* that have one, a quiet relay has published what it wants, and a painted  *)
(* opening is over, whatever pages, sockets, leases, timers, the writer and *)
(* the cold-restart barrier interleave (relay_viewers.go,                   *)
(* stream_control.go, cold_restart.go).                                     *)
THEOREM ViewersStaySound == DemandSpec => []ViewersAreSound
<1>1. DemandInit => ViewerInv
  BY ViewersStart DEF DemandInit
<1>2. ViewerInv /\ [DemandNext]_<<part, viewerVars, captureVars>> => ViewerInv'
  <2> SUFFICES ASSUME ViewerInv, [DemandNext]_<<part, viewerVars, captureVars>> PROVE ViewerInv'
    OBVIOUS
  <2>1. CASE UNCHANGED viewerVars
    <3>1. UNCHANGED <<barrier, generation, leaseVars, openVars, sockVars, pubVars>>
      BY <2>1 DEF viewerVars
    <3>2. ViewersAreCounted' /\ ClientsAreCounted' /\ ReferencesAreHeld'
      BY <3>1, CountsKept DEF sockVars
    <3>3. ViewerShapes' /\ PaintedIsOver'
      BY <3>1 DEF ViewerInv, ViewerShapes, PaintedIsOver, leaseVars, openVars, sockVars, pubVars
    <3>4. Publication'
      BY <3>1 DEF ViewerInv, Publication, StartIsComing, StopIsComing, Demand, Leaving, Blocked,
         leaseVars, sockVars, pubVars
    <3> QED
      BY <3>2, <3>3, <3>4 DEF ViewerInv
  <2>2. CASE Next
    BY <2>2, RelaySteps
  <2> QED
    BY <2>1, <2>2 DEF DemandNext
<1>3. ViewerInv => ViewersAreSound
  BY ViewerInvIsSound
<1> QED
  BY <1>1, <1>2, <1>3, PTL DEF DemandSpec
=============================================================================
