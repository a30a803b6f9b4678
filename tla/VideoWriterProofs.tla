------------------------- MODULE VideoWriterProofs --------------------------
(* Proofs about how pictures reach a viewer, for every bound on epochs,      *)
(* sequence numbers, configurations and the length of the viewer's queue.    *)
EXTENDS VideoWriter, FiniteSetTheorems, SequenceTheorems, WellFoundedInduction, TLAPS

(***************************************************************************)
(* The queue.                                                               *)
(***************************************************************************)

Messages == Config \cup {Text}
Items == Frame \cup Config \cup {Text, None}

(* What tells the values apart that the writer may hold.                    *)
LEMMA Kinds ==
    /\ \A m \in Items :
         /\ IsFrame(m) <=> m \in Frame
         /\ m # None /\ m.kind = "config" <=> m \in Config
         /\ m \in Frame => m \notin Config /\ m # Text /\ m # None
         /\ m \in Config => m # Text /\ m # None
    /\ Text # None
<1> USE NoValueAssumption
<1>1. Text # None /\ None \notin Frame /\ None \notin Config
  OBVIOUS
<1>2. \A m \in Frame : m.kind = "frame"
  BY DEF Frame
<1>3. \A m \in Config : m.kind = "config"
  BY DEF Config
<1>4. Text.kind = "text"
  BY DEF Text
<1>5. ASSUME NEW m \in Items
      PROVE  /\ IsFrame(m) <=> m \in Frame
             /\ m # None /\ m.kind = "config" <=> m \in Config
             /\ m \in Frame => m \notin Config /\ m # Text /\ m # None
             /\ m \in Config => m # Text /\ m # None
  <2>1. CASE m \in Frame
    BY <2>1, <1>1, <1>2, <1>3, <1>4 DEF IsFrame
  <2>2. CASE m \in Config
    BY <2>2, <1>1, <1>2, <1>3, <1>4 DEF IsFrame
  <2>3. CASE m = Text
    BY <2>3, <1>1, <1>2, <1>3, <1>4 DEF IsFrame
  <2>4. CASE m = None
    BY <2>4, <1>1, <1>2, <1>3, <1>4 DEF IsFrame
  <2> QED
    BY <2>1, <2>2, <2>3, <2>4 DEF Items
<1> QED
  BY <1>1, <1>5

(* The fields of what is queued, written and acknowledged.                  *)
LEMMA Fields ==
    /\ \A m \in Frame : m.gen \in 1..MaxGeneration /\ m.epoch \in Epochs /\ m.seq \in Sequences1
    /\ \A m \in Config : m.gen \in 1..MaxGeneration /\ m.epoch \in Epochs
    /\ \A m \in Ack : m.gen \in 1..MaxGeneration /\ m.epoch \in Epochs /\ m.seq \in Sequences1
    /\ \A m \in Picture : m.epoch \in Epochs /\ m.seq \in 0..MaxSequence
    /\ \A m \in Relay : m.kind \in {"config", "frame"} /\ m.epoch \in Epochs /\ m.seq \in 0..MaxSequence
BY DEF Frame, Config, Ack, Picture, Relay

(* Every set of natural numbers has a least element.                        *)
LEMMA LeastElement ==
    ASSUME NEW T \in SUBSET Nat, T # {}
    PROVE  \E x \in T : \A y \in T : x <= y
<1> DEFINE R == {p \in Nat \X Nat : p[1] < p[2]}
<1>1. OpToRel(<, Nat) = R
  BY DEF OpToRel
<1>2. IsWellFoundedOn(R, Nat)
  BY <1>1, NatLessThanWellFounded
<1>3. T \subseteq Nat
  OBVIOUS
<1> HIDE DEF R
<1>4. PICK x \in T : \A y \in T : ~ (<<y, x>> \in R)
  BY <1>2, <1>3, WFMin
<1>5. ASSUME NEW y \in T PROVE x <= y
  <2>1. <<y, x>> \notin R
    BY <1>4
  <2> QED BY <2>1 DEF R
<1> QED BY <1>5

(* One queue holds the same configurations as another, none of them twice   *)
(* when the other holds none twice.                                         *)
OneConfig(q) == \A i, j \in DOMAIN q : q[i] # Text /\ q[j] # Text => i = j
SameConfigs(q, r) ==
    /\ r \in Seq(Messages)
    /\ \A j \in DOMAIN r : r[j] # Text => \E i \in DOMAIN q : q[i] = r[j]
    /\ \A i \in DOMAIN q : q[i] # Text => \E j \in DOMAIN r : r[j] = q[i]
    /\ OneConfig(q) => OneConfig(r)

(* What SelectInSeq finds.                                                  *)
LEMMA FirstText ==
    ASSUME NEW q \in Seq(Messages), NEW i, i = SelectInSeq(q, LAMBDA m : m = Text)
    PROVE  /\ i \in 0..Len(q)
           /\ i # 0 => q[i] = Text
           /\ i = 0 => \A k \in 1..Len(q) : q[k] # Text
<1> DEFINE I == {k \in 1..Len(q) : q[k] = Text}
<1>1. i = IF I # {} THEN Min(I) ELSE 0
  BY DEF SelectInSeq
<1>2. I \subseteq 1..Len(q) /\ Len(q) \in Nat
  OBVIOUS
<1>3. CASE I = {}
  BY <1>1, <1>2, <1>3
<1>4. CASE I # {}
  <2>1. I \in SUBSET Nat
    BY <1>2
  <2> HIDE DEF I
  <2>2. \E x \in I : \A y \in I : x <= y
    BY <2>1, <1>4, LeastElement
  <2>3. Min(I) \in I
    BY <2>2 DEF Min
  <2>4. i \in I
    BY <1>1, <1>4, <2>3
  <2> QED BY <2>4 DEF I
<1> QED BY <1>3, <1>4

(* A message is only displaced from a full queue, and it is none of the     *)
(* configurations.                                                          *)
LEMMA RoomIsMade ==
    ASSUME NEW q \in Seq(Messages), NEW r, r = MakeRoom(q)
    PROVE  /\ SameConfigs(q, r)
           /\ Len(r) \in Nat
           /\ Len(q) = ControlQueueMax /\ (\E k \in 1..Len(q) : q[k] = Text) => Len(r) < ControlQueueMax
<1>0. ControlQueueMax \in Nat \ {0}
  BY WriterAssumption
<1>1. CASE Len(q) < ControlQueueMax
  BY <1>1, <1>0 DEF MakeRoom, SameConfigs
<1>2. CASE ~(Len(q) < ControlQueueMax)
  <2> DEFINE i == SelectInSeq(q, LAMBDA m : m = Text)
  <2>1. r = IF i = 0 THEN q ELSE RemoveAt(q, i)
    BY <1>2 DEF MakeRoom
  <2>2. /\ i \in 0..Len(q)
        /\ i # 0 => q[i] = Text
        /\ i = 0 => \A k \in 1..Len(q) : q[k] # Text
    BY FirstText
  <2> HIDE DEF i
  <2>3. CASE i = 0
    BY <2>1, <2>2, <2>3, <1>2, <1>0 DEF SameConfigs
  <2>4. CASE i # 0
    <3>1. r = SubSeq(q, 1, i - 1) \o SubSeq(q, i + 1, Len(q))
      BY <2>1, <2>4 DEF RemoveAt
    <3> DEFINE a == SubSeq(q, 1, i - 1)
               b == SubSeq(q, i + 1, Len(q))
    <3>a. i \in 1..Len(q) /\ Len(q) \in Nat /\ \A j \in 1..Len(q) : q[j] \in Messages
      BY <2>2, <2>4
    <3>b. a \in Seq(Messages) /\ Len(a) = i - 1 /\ \A j \in 1..(i - 1) : a[j] = q[j]
      <4>1. \A j \in 1..(i - 1) : q[j] \in Messages
        BY <3>a
      <4>2. /\ a \in Seq(Messages)
            /\ Len(a) = IF 1 <= i - 1 THEN (i - 1) - 1 + 1 ELSE 0
            /\ \A j \in 1..((i - 1) - 1 + 1) : a[j] = q[1 + j - 1]
        BY <4>1, <3>a, SubSeqProperties
      <4> QED BY <4>2, <3>a
    <3>c. /\ b \in Seq(Messages) /\ Len(b) = Len(q) - i
          /\ \A j \in 1..(Len(q) - i) : b[j] = q[i + j]
      <4>1. \A j \in (i + 1)..Len(q) : q[j] \in Messages
        BY <3>a
      <4>2. /\ b \in Seq(Messages)
            /\ Len(b) = IF i + 1 <= Len(q) THEN Len(q) - (i + 1) + 1 ELSE 0
            /\ \A j \in 1..(Len(q) - (i + 1) + 1) : b[j] = q[i + 1 + j - 1]
        BY <4>1, <3>a, SubSeqProperties
      <4>3. Len(b) = Len(q) - i
        BY <4>2, <3>a
      <4>4. ASSUME NEW j \in 1..(Len(q) - i) PROVE b[j] = q[i + j]
        <5>1. j \in 1..(Len(q) - (i + 1) + 1) /\ i + 1 + j - 1 = i + j
          BY <3>a
        <5>2. b[j] = q[i + 1 + j - 1]
          BY <4>2, <5>1
        <5> QED BY <5>1, <5>2
      <4> HIDE DEF b
      <4> QED BY <4>2, <4>3, <4>4
    <3> HIDE DEF a, b
    <3>d. /\ r \in Seq(Messages) /\ Len(r) = Len(a) + Len(b)
          /\ \A j \in 1..(Len(a) + Len(b)) : r[j] = IF j <= Len(a) THEN a[j] ELSE b[j - Len(a)]
      <4>1. r = a \o b
        BY <3>1 DEF a, b
      <4>2. a \in Seq(Messages) /\ b \in Seq(Messages)
        BY <3>b, <3>c
      <4> HIDE DEF Messages
      <4>3. /\ a \o b \in Seq(Messages) /\ Len(a \o b) = Len(a) + Len(b)
            /\ \A j \in 1..(Len(a) + Len(b)) : (a \o b)[j] = IF j <= Len(a) THEN a[j] ELSE b[j - Len(a)]
        BY <4>2, ConcatProperties
      <4> QED BY <4>1, <4>3
    <3>2. r \in Seq(Messages) /\ Len(r) = Len(q) - 1
      BY <3>a, <3>b, <3>c, <3>d
    <3>3. ASSUME NEW j \in 1..Len(r)
          PROVE  r[j] = IF j < i THEN q[j] ELSE q[j + 1]
      <4>1. r[j] = IF j <= i - 1 THEN a[j] ELSE b[j - (i - 1)]
        BY <3>a, <3>b, <3>c, <3>d
      <4>2. CASE j < i
        <5>1. j \in 1..(i - 1) /\ j <= i - 1
          BY <4>2, <3>a, <3>2
        <5> QED BY <4>1, <4>2, <5>1, <3>b
      <4>3. CASE ~(j < i)
        <5>1. j - (i - 1) \in 1..(Len(q) - i) /\ ~(j <= i - 1) /\ i + (j - (i - 1)) = j + 1
          BY <4>3, <3>a, <3>2
        <5>2. b[j - (i - 1)] = q[i + (j - (i - 1))]
          BY <5>1, <3>c
        <5> QED BY <4>1, <4>3, <5>1, <5>2
      <4> QED BY <4>2, <4>3
    <3> DEFINE f == [j \in DOMAIN r |-> IF j < i THEN j ELSE j + 1]
    <3>4. DOMAIN r = 1..Len(r) /\ DOMAIN q = 1..Len(q) /\ Len(q) \in Nat
      BY <3>2
    <3>5. f \in [DOMAIN r -> DOMAIN q] /\ \A j \in DOMAIN r : f[j] = IF j < i THEN j ELSE j + 1
      BY <3>2, <3>4, <2>2, <2>4
    <3> HIDE DEF f
    <3>6. \A j \in DOMAIN r : r[j] = q[f[j]]
      BY <3>3, <3>4, <3>5
    <3>7. \A j, k \in DOMAIN r : f[j] = f[k] => j = k
      BY <3>4, <3>5, <2>2
    <3>8. ASSUME NEW n \in DOMAIN q, q[n] # Text PROVE \E j \in DOMAIN r : f[j] = n
      <4>1. n # i
        BY <3>8, <2>2, <2>4
      <4>2. CASE n < i
        <5>1. n \in DOMAIN r
          BY <4>2, <3>2, <3>4, <2>2
        <5> QED BY <5>1, <4>2, <3>5
      <4>3. CASE n > i
        <5>0. n \in 1..Len(q) /\ i \in 1..Len(q) /\ Len(q) \in Nat
          BY <3>4, <2>2, <2>4
        <5>1. n - 1 \in 1..Len(r) /\ ~(n - 1 < i) /\ (n - 1) + 1 = n
          BY <4>3, <3>2, <5>0
        <5> QED BY <5>1, <3>5, <3>4
      <4> QED BY <4>1, <4>2, <4>3, <3>4, <2>2
    <3>9. SameConfigs(q, r)
      <4>1. \A j \in DOMAIN r : f[j] \in DOMAIN q
        BY <3>5
      <4>2. \A j \in DOMAIN r : r[j] # Text => \E n \in DOMAIN q : q[n] = r[j]
        BY <3>6, <4>1
      <4>3. \A n \in DOMAIN q : q[n] # Text => \E j \in DOMAIN r : r[j] = q[n]
        BY <3>6, <3>8
      <4>4. OneConfig(q) => OneConfig(r)
        BY <3>6, <3>7, <4>1 DEF OneConfig
      <4> QED BY <3>2, <4>2, <4>3, <4>4 DEF SameConfigs
    <3> QED BY <3>2, <3>9, <1>2, <1>0
  <2> QED BY <2>3, <2>4
<1> QED BY <1>1, <1>2

(* Without its configurations a queue is no longer.                         *)
LEMMA TextsAreFewer ==
    ASSUME NEW q \in Seq(Messages)
    PROVE  /\ Texts(q) \in Seq({Text})
           /\ Len(Texts(q)) \in 0..Len(q)
           /\ \A i \in DOMAIN Texts(q) : Texts(q)[i] = Text
<1> DEFINE J == {j \in DOMAIN q : q[j] = Text}
<1>1. IsFiniteSet(1..Len(q)) /\ Cardinality(1..Len(q)) = Len(q)
  <2>1. Len(q) \in Nat
    OBVIOUS
  <2>2. /\ IsFiniteSet(1..Len(q))
        /\ Cardinality(1..Len(q)) = IF 1 > Len(q) THEN 0 ELSE Len(q) - 1 + 1
    BY <2>1, FS_Interval
  <2> QED BY <2>1, <2>2
<1>2. J \in SUBSET (1..Len(q))
  OBVIOUS
<1>3. Cardinality(J) <= Len(q) /\ IsFiniteSet(J)
  BY <1>1, <1>2, FS_Subset
<1>4. Cardinality(J) \in Nat
  BY <1>3, FS_CardinalityType
<1>5. Texts(q) = [i \in 1..Cardinality(J) |-> Text]
  BY DEF Texts
<1> HIDE DEF J
<1> QED BY <1>3, <1>4, <1>5

(* A configuration that is queued is the only one and stays.                *)
NewestOnly(q, c) ==
    /\ q \in Seq(Messages) /\ Len(q) <= ControlQueueMax
    /\ \E k \in DOMAIN q : q[k] = c /\ \A i \in DOMAIN q : i # k => q[i] = Text

LEMMA ConfigIsQueued ==
    ASSUME NEW q \in Seq(Messages), Len(q) <= ControlQueueMax, NEW c \in Config
    PROVE  NewestOnly(Append(MakeRoom(Texts(q)), c), c)
<1> DEFINE t == Texts(q)
           r == MakeRoom(t)
<1>0. ControlQueueMax \in Nat \ {0} /\ Len(q) \in Nat
  BY WriterAssumption
<1>1. t \in Seq(Messages) /\ Len(t) \in 0..Len(q) /\ \A i \in DOMAIN t : t[i] = Text
  <2>1. Texts(q) \in Seq({Text}) /\ Len(Texts(q)) \in 0..Len(q)
        /\ \A i \in DOMAIN Texts(q) : Texts(q)[i] = Text
    BY TextsAreFewer
  <2> QED BY <2>1 DEF Messages
<1> HIDE DEF t
<1>2. /\ SameConfigs(t, r)
      /\ Len(r) \in Nat
      /\ Len(t) = ControlQueueMax /\ (\E k \in 1..Len(t) : t[k] = Text) => Len(r) < ControlQueueMax
  BY <1>1, RoomIsMade
<1>3. r \in Seq(Messages) /\ \A j \in DOMAIN r : r[j] = Text
  BY <1>1, <1>2 DEF SameConfigs
<1>4. Len(r) < ControlQueueMax
  <2>1. CASE Len(t) < ControlQueueMax
    BY <2>1 DEF MakeRoom
  <2>2. CASE Len(t) = ControlQueueMax
    <3>1. 1 \in 1..Len(t) /\ t[1] = Text
      BY <2>2, <1>0, <1>1
    <3> QED BY <2>2, <3>1, <1>2
  <2> QED BY <2>1, <2>2, <1>0, <1>1
<1> HIDE DEF r
<1> DEFINE s == Append(r, c)
<1>5. /\ s \in Seq(Messages) /\ Len(s) = Len(r) + 1 /\ s[Len(r) + 1] = c
      /\ \A i \in 1..Len(r) : s[i] = r[i]
  BY <1>2, <1>3, AppendProperties DEF Messages
<1> HIDE DEF s
<1>6. NewestOnly(s, c)
  <2>1. DOMAIN s = 1..(Len(r) + 1) /\ DOMAIN r = 1..Len(r)
    BY <1>3, <1>5
  <2>2. \A i \in DOMAIN s : i # Len(r) + 1 => s[i] = Text
    BY <2>1, <1>2, <1>3, <1>5
  <2>3. Len(s) <= ControlQueueMax /\ Len(r) + 1 \in DOMAIN s
    BY <2>1, <1>0, <1>2, <1>4, <1>5
  <2> QED BY <2>2, <2>3, <1>5 DEF NewestOnly
<1> QED BY <1>6 DEF s, r, t

(* So does one that another message is queued after.                        *)
LEMMA TextIsQueued ==
    ASSUME NEW q \in Seq(Messages), Len(MakeRoom(q)) < ControlQueueMax
    PROVE  /\ SameConfigs(q, Append(MakeRoom(q), Text))
           /\ Len(Append(MakeRoom(q), Text)) <= ControlQueueMax
<1> DEFINE r == MakeRoom(q)
           s == Append(r, Text)
<1>0. ControlQueueMax \in Nat \ {0}
  BY WriterAssumption
<1>1. SameConfigs(q, r) /\ Len(r) \in Nat
  BY RoomIsMade
<1>2. r \in Seq(Messages)
  BY <1>1 DEF SameConfigs
<1> HIDE DEF r
<1>3. /\ s \in Seq(Messages) /\ Len(s) = Len(r) + 1 /\ s[Len(r) + 1] = Text
      /\ \A i \in 1..Len(r) : s[i] = r[i]
  BY <1>2, AppendProperties DEF Messages
<1> HIDE DEF s
<1>4. DOMAIN s = 1..(Len(r) + 1) /\ DOMAIN r = 1..Len(r)
  BY <1>2, <1>3
<1>5. /\ \A i \in DOMAIN s : s[i] # Text => i \in DOMAIN r /\ r[i] = s[i]
      /\ \A i \in DOMAIN r : i \in DOMAIN s /\ r[i] = s[i]
  BY <1>1, <1>3, <1>4
<1>6. SameConfigs(q, s)
  BY <1>1, <1>3, <1>5 DEF SameConfigs, OneConfig
<1>7. Len(s) <= ControlQueueMax
  <2>1. Len(r) < ControlQueueMax
    BY DEF r
  <2> QED BY <2>1, <1>0, <1>1, <1>3
<1> QED BY <1>6, <1>7 DEF s, r

(* What the writer takes, and what it leaves in the queue.                  *)
LEMMA HeadIsTaken ==
    ASSUME NEW q \in Seq(Messages), q # <<>>, Len(q) <= ControlQueueMax
    PROVE  /\ Head(q) \in Messages /\ Tail(q) \in Seq(Messages) /\ Len(Tail(q)) <= ControlQueueMax
           /\ 1 \in DOMAIN q /\ q[1] = Head(q)
           /\ \A j \in DOMAIN Tail(q) : \E i \in DOMAIN q : i # 1 /\ q[i] = Tail(q)[j]
           /\ \A i \in DOMAIN q : i # 1 => \E j \in DOMAIN Tail(q) : Tail(q)[j] = q[i]
           /\ OneConfig(q) => OneConfig(Tail(q))
<1>0. ControlQueueMax \in Nat \ {0}
  BY WriterAssumption
<1> DEFINE t == Tail(q)
<1>1. /\ t \in Seq(Messages) /\ Len(t) = Len(q) - 1 /\ Len(q) \in Nat /\ Len(q) # 0
      /\ \A j \in 1..Len(t) : t[j] = q[j + 1]
      /\ Head(q) \in Messages /\ Head(q) = q[1]
  BY HeadTailProperties
<1> HIDE DEF t
<1>2. DOMAIN t = 1..Len(t) /\ DOMAIN q = 1..Len(q)
  BY <1>1
<1>3. \A j \in DOMAIN t : j + 1 \in DOMAIN q /\ j + 1 # 1 /\ q[j + 1] = t[j]
  BY <1>1, <1>2
<1>4. \A i \in DOMAIN q : i # 1 => i - 1 \in DOMAIN t /\ t[i - 1] = q[i]
  <2> SUFFICES ASSUME NEW i \in DOMAIN q, i # 1 PROVE i - 1 \in DOMAIN t /\ t[i - 1] = q[i]
    OBVIOUS
  <2>1. i - 1 \in DOMAIN t /\ (i - 1) + 1 = i
    BY <1>1, <1>2
  <2> QED BY <2>1, <1>3
<1>5. OneConfig(q) => OneConfig(t)
  <2> SUFFICES ASSUME OneConfig(q), NEW i \in DOMAIN t, NEW j \in DOMAIN t, t[i] # Text, t[j] # Text
               PROVE  i = j
    BY DEF OneConfig
  <2>1. i + 1 = j + 1
    BY <1>3 DEF OneConfig
  <2> QED BY <2>1, <1>1, <1>2
<1>6. 1 \in DOMAIN q /\ Len(t) <= ControlQueueMax
  BY <1>0, <1>1, <1>2
<1> QED BY <1>1, <1>3, <1>4, <1>5, <1>6 DEF t
(***************************************************************************)
(* The invariant of the viewer: its queue, its writer and its browser.      *)
(***************************************************************************)

Media == Frame \cup Config

(* The types of what the viewer keeps, and of what leads to it.             *)
ViewerTypes ==
    /\ cfg \in [gen : 0..MaxGeneration, epoch : 0..MaxEpoch, noted : 0..MaxGeneration]
    /\ queue \in Seq(Messages) /\ Len(queue) <= ControlQueueMax
    /\ pend \in Frame \cup {None} /\ inFlight \in Frame \cup {None}
    /\ item \in Items /\ sent \in BOOLEAN
    /\ credit \in [written : 0..MaxSequence, received : 0..MaxSequence, awaited : 0..MaxSequence]
    /\ closed \in BOOLEAN
    /\ browser \in [gen : 0..MaxGeneration, epoch : 0..MaxEpoch, seq : 0..MaxSequence]
    /\ feedback \in Seq(Ack)
SourceTypes ==
    /\ hub \in [epoch : 0..MaxEpoch, valid : BOOLEAN, admitted : Picture \cup {None},
                cached : 0..MaxSequence, clock : BOOLEAN]
    /\ relayed \in Relay \cup {None}
    /\ warming \in [at : {"start", "read", "enqueue", "done"}, expected : 0..MaxGeneration,
                    picture : Picture \cup {None}]

(* A queued configuration is the newest and ahead of all the writer holds   *)
(* and the browser has; a pending picture is of it too.                     *)
QueueInv ==
    /\ \A i \in DOMAIN queue : queue[i] # Text =>
          /\ queue[i].gen = cfg.gen /\ queue[i].epoch = cfg.epoch
          /\ browser.gen < cfg.gen
          /\ item \in Media => item.gen < cfg.gen
    /\ OneConfig(queue)
    /\ pend # None => pend.gen = cfg.gen /\ pend.epoch = cfg.epoch
    /\ ~closed /\ cfg.gen # 0 =>
         \/ \E i \in DOMAIN queue : queue[i] # Text
         \/ item \in Config /\ item.gen = cfg.gen
         \/ browser.gen = cfg.gen

(* What the writer holds goes to a browser that has its configuration.      *)
ItemInv ==
    /\ item \in Media =>
         /\ item.gen <= cfg.gen
         /\ item.gen = cfg.gen => item.epoch = cfg.epoch
    /\ item \in Config =>
         IF sent THEN item.gen = browser.gen /\ item.epoch = browser.epoch ELSE browser.gen < item.gen
    /\ item \in Frame =>
         /\ item.gen = browser.gen /\ item.epoch = browser.epoch
         /\ IF sent THEN item.seq = browser.seq ELSE item.seq > browser.seq
         /\ item.gen = cfg.gen /\ ~closed => inFlight = item /\ credit.awaited = 0
    /\ inFlight # None => inFlight = item
    /\ sent => item # None

(* What the browser has was queued, and it acknowledges nothing else.       *)
BrowserInv ==
    /\ browser.gen <= cfg.gen
    /\ browser.gen = cfg.gen => browser.epoch = cfg.epoch
    /\ \A i \in DOMAIN feedback :
         /\ feedback[i].gen <= browser.gen
         /\ feedback[i].gen = browser.gen => feedback[i].seq <= browser.seq

(* Credit is counted for the newest configuration only; when no receipt is  *)
(* awaited, everything the browser has was received.                        *)
NoCredit == credit.written = 0 /\ credit.received = 0 /\ credit.awaited = 0
CreditInv ==
    ~closed =>
      /\ browser.gen < cfg.gen => NoCredit
      /\ browser.gen = cfg.gen =>
           /\ credit.received <= browser.seq
           /\ pend # None => pend.seq > browser.seq /\ (item \in Frame => pend.seq > item.seq)
           /\ ~(item \in Frame /\ sent) =>
                /\ credit.written = browser.seq
                /\ credit.awaited \in {0, browser.seq}
                /\ credit.awaited = 0 => credit.received = browser.seq

ViewerInv == ViewerTypes /\ QueueInv /\ ItemInv /\ BrowserInv /\ CreditInv

(* A configuration that is still to be queued has room, the hub that a      *)
(* message was taken from has not changed, and once neither reader nor warm *)
(* start has anything in hand the viewer has the epoch of the hub.          *)
ToRelay == relayed # None /\ relayed.kind = "config"
SourceInv ==
    /\ SourceTypes
    /\ cfg.gen + (IF warming.at = "done" THEN 0 ELSE 1) + (IF ToRelay THEN 1 ELSE 0) <= MaxGeneration
    /\ hub.valid => hub.epoch # 0
    /\ relayed # None => hub.valid /\ relayed.epoch = hub.epoch
    /\ warming.at = "enqueue" => warming.picture \in Picture
    /\ warming.expected <= cfg.gen
    /\ hub.valid /\ ~closed /\ ~ToRelay =>
         /\ warming.at = "done" => cfg.epoch = hub.epoch
         /\ warming.at \in {"read", "enqueue"} /\ cfg.gen # warming.expected => cfg.epoch = hub.epoch
         /\ warming.at = "enqueue" /\ cfg.gen = warming.expected => warming.picture.epoch = hub.epoch

WriterInv == ViewerInv /\ SourceInv

LEMMA TypesAreKept == TypeOK <=> ViewerTypes /\ SourceTypes
BY DEF TypeOK, ViewerTypes, SourceTypes, Messages, Items

(* The invariant says what the run checks.                                  *)
LEMMA InvIsEnough == WriterInv => WriterIsSound
<1> SUFFICES ASSUME WriterInv PROVE WriterIsSound
  OBVIOUS
<1>1. ViewerTypes /\ SourceTypes /\ item \in Items
  BY DEF WriterInv, ViewerInv, SourceInv, ViewerTypes
<1>2. /\ IsFrame(item) <=> item \in Frame
      /\ item # None /\ item.kind = "config" <=> item \in Config
  BY <1>1, Kinds
<1>3. MediaFitsTheDecoder
  BY <1>2 DEF WriterInv, ViewerInv, ItemInv, MediaFitsTheDecoder
<1>4. OnePictureUnacknowledged
  <2> SUFFICES ASSUME item \in Frame, ~sent, item.gen = cfg.gen, ~closed
               PROVE  credit.received = browser.seq
    BY <1>2 DEF OnePictureUnacknowledged
  <2>1. item.gen = browser.gen /\ credit.awaited = 0
    BY DEF WriterInv, ViewerInv, ItemInv
  <2> QED BY <2>1 DEF WriterInv, ViewerInv, CreditInv
<1>5. NewestConfigIsNotLost
  <2> SUFFICES ASSUME ~closed, cfg.gen # 0, NEW i \in DOMAIN queue, queue[i] # Text
               PROVE  queue[i].kind = "config" /\ queue[i].gen = cfg.gen
    BY <1>2 DEF WriterInv, ViewerInv, QueueInv, NewestConfigIsNotLost
  <2>1. queue[i] \in Messages /\ queue[i] \in Items
    BY <1>1 DEF ViewerTypes, Messages, Items
  <2>2. queue[i] \in Config
    BY <2>1 DEF Messages
  <2> QED BY <2>1, <2>2, Kinds DEF WriterInv, ViewerInv, QueueInv
<1>6. ViewerFollowsHub
  BY DEF WriterInv, SourceInv, ToRelay, ViewerFollowsHub
<1>7. TypeOK
  BY <1>1, TypesAreKept
<1> QED BY <1>3, <1>4, <1>5, <1>6, <1>7 DEF WriterIsSound

LEMMA Starts == Init => WriterInv
<1> SUFFICES ASSUME Init PROVE WriterInv
  OBVIOUS
<1>0. /\ MaxEpoch \in Nat \ {0} /\ MaxSequence \in Nat \ {0} /\ MaxGeneration \in Nat \ {0}
      /\ ControlQueueMax \in Nat \ {0}
  BY WriterAssumption
<1>1. SourceTypes
  <2>1. 0 \in 0..MaxEpoch /\ 1 \in 0..MaxEpoch /\ 0 \in 0..MaxSequence /\ 1 \in 0..MaxSequence
        /\ 0 \in 0..MaxGeneration
    BY <1>0
  <2>2. [epoch |-> 1, seq |-> 1] \in Picture
    BY <1>0, <2>1 DEF Picture, Epochs
  <2>3. hub \in [epoch : 0..MaxEpoch, valid : BOOLEAN, admitted : Picture \cup {None},
                 cached : 0..MaxSequence, clock : BOOLEAN]
    <3>1. CASE hub = [epoch |-> 0, valid |-> FALSE, admitted |-> None, cached |-> 0, clock |-> FALSE]
      BY <3>1, <2>1
    <3>2. CASE hub = [epoch |-> 1, valid |-> TRUE, admitted |-> [epoch |-> 1, seq |-> 1],
                      cached |-> 1, clock |-> TRUE]
      <4> DEFINE p == [epoch |-> 1, seq |-> 1]
      <4>1. p \in Picture /\ hub = [epoch |-> 1, valid |-> TRUE, admitted |-> p, cached |-> 1, clock |-> TRUE]
        BY <2>2, <3>2
      <4> HIDE DEF p
      <4> QED BY <4>1, <2>1
    <3> QED BY <3>1, <3>2 DEF Init
  <2> QED BY <2>1, <2>3 DEF Init, SourceTypes
<1>2. SourceInv
  BY <1>0, <1>1 DEF Init, SourceInv, ToRelay
<1>3. queue = <<Text>> /\ queue \in Seq(Messages) /\ Len(queue) = 1
      /\ \A i \in DOMAIN queue : queue[i] = Text
  BY DEF Init, Messages
<1>4. ViewerTypes
  <2>1. 0 \in 0..MaxEpoch /\ 0 \in 0..MaxSequence /\ 0 \in 0..MaxGeneration /\ 1 <= ControlQueueMax
    BY <1>0
  <2>2. cfg \in [gen : 0..MaxGeneration, epoch : 0..MaxEpoch, noted : 0..MaxGeneration]
    BY <2>1 DEF Init
  <2>3. credit \in [written : 0..MaxSequence, received : 0..MaxSequence, awaited : 0..MaxSequence]
    BY <2>1 DEF Init
  <2>4. browser \in [gen : 0..MaxGeneration, epoch : 0..MaxEpoch, seq : 0..MaxSequence]
    BY <2>1 DEF Init
  <2>5. feedback \in Seq(Ack)
    BY DEF Init
  <2> QED BY <2>1, <2>2, <2>3, <2>4, <2>5, <1>3 DEF Init, ViewerTypes, Items
<1>5. item \notin Media /\ item \notin Frame /\ item \notin Config
  BY NoValueAssumption DEF Init, Media
<1>6. QueueInv
  BY <1>3, <1>5 DEF Init, QueueInv, OneConfig
<1>7. ItemInv
  BY <1>5 DEF Init, ItemInv
<1>8. BrowserInv /\ CreditInv
  BY <1>5 DEF Init, BrowserInv, CreditInv, NoCredit
<1> QED BY <1>2, <1>4, <1>6, <1>7, <1>8 DEF WriterInv, ViewerInv
(***************************************************************************)
(* The steps.  Each of the two halves of the invariant is kept by the steps  *)
(* of the other.                                                            *)
(***************************************************************************)

LEMMA ViewerFrame ==
    ASSUME ViewerInv, UNCHANGED <<clientVars, writerVars, browserVars>>
    PROVE  ViewerInv'
<1>1. /\ cfg' = cfg /\ queue' = queue /\ pend' = pend /\ inFlight' = inFlight /\ credit' = credit
      /\ closed' = closed /\ item' = item /\ sent' = sent /\ browser' = browser /\ feedback' = feedback
  BY DEF clientVars, writerVars, browserVars
<1>2. ViewerTypes'
  BY <1>1 DEF ViewerInv, ViewerTypes
<1>3. QueueInv'
  BY <1>1 DEF ViewerInv, QueueInv
<1>4. ItemInv'
  BY <1>1 DEF ViewerInv, ItemInv
<1>5. BrowserInv' /\ CreditInv'
  BY <1>1 DEF ViewerInv, BrowserInv, CreditInv, NoCredit
<1> QED BY <1>2, <1>3, <1>4, <1>5 DEF ViewerInv

LEMMA SourceFrame ==
    ASSUME SourceInv, UNCHANGED <<hubVars, warming>>, cfg'.gen = cfg.gen, cfg'.epoch = cfg.epoch,
           ~closed' => ~closed
    PROVE  SourceInv'
<1>1. hub' = hub /\ relayed' = relayed /\ warming' = warming
  BY DEF hubVars
<1>2. SourceTypes'
  BY <1>1 DEF SourceInv, SourceTypes
<1> QED BY <1>1, <1>2 DEF SourceInv, ToRelay

(* A new configuration.                                                     *)
LEMMA ConfigArrives ==
    ASSUME ViewerInv, NEW p \in Picture, cfg.gen < MaxGeneration, EnqueueConfig(p),
           UNCHANGED <<writerVars, browserVars>>
    PROVE  ViewerInv' /\ cfg'.gen = cfg.gen + 1 /\ cfg'.epoch = p.epoch
<1> DEFINE gen == cfg.gen + 1
           c == [kind |-> "config", epoch |-> p.epoch, gen |-> gen]
           f == [kind |-> "frame", epoch |-> p.epoch, seq |-> p.seq, gen |-> gen]
<1>0. /\ MaxEpoch \in Nat \ {0} /\ MaxSequence \in Nat \ {0} /\ MaxGeneration \in Nat \ {0}
  BY WriterAssumption
<1>1. p.epoch \in Epochs /\ p.epoch \in 0..MaxEpoch /\ p.seq \in 0..MaxSequence
  BY Fields, <1>0 DEF Epochs
<1>2. ViewerTypes /\ cfg.gen \in 0..MaxGeneration /\ gen \in 1..MaxGeneration /\ gen \in 0..MaxGeneration
      /\ browser.gen \in 0..MaxGeneration
  BY <1>0 DEF ViewerInv, ViewerTypes
<1>3. /\ cfg' = [gen |-> gen, epoch |-> p.epoch, noted |-> 0]
      /\ queue' = Append(MakeRoom(Texts(queue)), c)
      /\ pend' = IF p.seq = 0 THEN None ELSE f
      /\ inFlight' = None
      /\ credit' = [written |-> 0, received |-> 0, awaited |-> 0]
      /\ closed' = closed /\ item' = item /\ sent' = sent /\ browser' = browser /\ feedback' = feedback
  BY DEF EnqueueConfig, writerVars, browserVars
<1>4. c \in Config /\ c.gen = gen /\ c.epoch = p.epoch
  BY <1>1, <1>2 DEF Config
<1>5. p.seq # 0 => f \in Frame /\ f.gen = gen /\ f.epoch = p.epoch /\ f.seq = p.seq
  BY <1>0, <1>1, <1>2 DEF Frame, Sequences1
<1>6. NewestOnly(queue', c)
  BY <1>2, <1>3, <1>4, ConfigIsQueued DEF ViewerTypes
<1>7. cfg'.gen = gen /\ cfg'.epoch = p.epoch /\ cfg' \in [gen : 0..MaxGeneration, epoch : 0..MaxEpoch, noted : 0..MaxGeneration]
  BY <1>0, <1>1, <1>2, <1>3
<1>8. /\ credit' \in [written : 0..MaxSequence, received : 0..MaxSequence, awaited : 0..MaxSequence]
      /\ credit'.written = 0 /\ credit'.received = 0 /\ credit'.awaited = 0
  BY <1>0, <1>3
<1>9. pend' \in Frame \cup {None} /\ (pend' # None => pend'.gen = gen /\ pend'.epoch = p.epoch)
  BY <1>3, <1>5
<1> HIDE DEF c, f, gen
<1>10. browser.gen < gen /\ (item \in Media => item.gen \in 1..MaxGeneration /\ item.gen < gen) /\ gen # 0
       /\ gen = cfg.gen + 1
  <2>1. item \in Media => item.gen \in 1..MaxGeneration
    BY Fields DEF Media
  <2> QED BY <2>1, <1>0, <1>2 DEF ViewerInv, BrowserInv, ItemInv, gen
<1>11. ViewerTypes'
  BY <1>2, <1>3, <1>6, <1>7, <1>8, <1>9 DEF ViewerTypes, NewestOnly
<1>12. QueueInv'
  <2>1. \A i \in DOMAIN queue' : queue'[i] # Text => queue'[i] = c
    BY <1>6 DEF NewestOnly
  <2>2. OneConfig(queue')
    BY <1>6 DEF NewestOnly, OneConfig
  <2>3. \E i \in DOMAIN queue' : queue'[i] # Text
    BY <1>4, <1>6, Kinds DEF NewestOnly, Items
  <2> QED BY <2>1, <2>2, <2>3, <1>3, <1>4, <1>7, <1>9, <1>10 DEF QueueInv
<1>13. ItemInv'
  BY <1>0, <1>2, <1>3, <1>7, <1>10 DEF ViewerInv, ItemInv, Media
<1>14. BrowserInv'
  BY <1>0, <1>2, <1>3, <1>7, <1>10 DEF ViewerInv, BrowserInv
<1>15. CreditInv'
  BY <1>2, <1>3, <1>7, <1>8, <1>10 DEF CreditInv, NoCredit
<1> QED BY <1>7, <1>10, <1>11, <1>12, <1>13, <1>14, <1>15 DEF ViewerInv, gen

(* NewestQueued is no smaller than what was written, is being written or is *)
(* pending.                                                                 *)
LEMMA NewestIsLargest ==
    ASSUME ViewerTypes
    PROVE  /\ NewestQueued \in Nat
           /\ credit.written <= NewestQueued
           /\ inFlight # None => inFlight.seq <= NewestQueued
           /\ pend # None => pend.seq <= NewestQueued
<1> DEFINE T == {credit.written} \cup {f.seq : f \in {inFlight, pend} \ {None}}
<1>0. MaxSequence \in Nat
  BY WriterAssumption
<1>1. credit.written \in Nat
  BY <1>0 DEF ViewerTypes
<1>2. /\ inFlight # None => inFlight.seq \in Nat
      /\ pend # None => pend.seq \in Nat
  BY <1>0, Fields DEF ViewerTypes, Sequences1
<1>3. T \subseteq Nat /\ credit.written \in T
  BY <1>1, <1>2
<1>4. \A x \in T : \/ x = credit.written
                   \/ inFlight # None /\ x = inFlight.seq
                   \/ pend # None /\ x = pend.seq
  OBVIOUS
<1>5. (inFlight # None => inFlight.seq \in T) /\ (pend # None => pend.seq \in T)
  OBVIOUS
<1> HIDE DEF T
<1>6. \E x \in T : \A y \in T : x >= y
  BY <1>1, <1>2, <1>3, <1>4, <1>5
<1>7. Max(T) \in T /\ \A y \in T : Max(T) >= y
  BY <1>6 DEF Max
<1>8. NewestQueued = Max(T)
  BY DEF NewestQueued, T
<1> QED BY <1>3, <1>5, <1>7, <1>8

(* A frame.                                                                 *)
LEMMA FrameArrives ==
    ASSUME ViewerInv, NEW p \in Picture, EnqueueFrame(p), UNCHANGED <<writerVars, browserVars>>
    PROVE  ViewerInv' /\ cfg' = cfg
<1> DEFINE f == [kind |-> "frame", epoch |-> p.epoch, seq |-> p.seq, gen |-> cfg.gen]
<1>0. /\ MaxEpoch \in Nat \ {0} /\ MaxSequence \in Nat \ {0} /\ MaxGeneration \in Nat \ {0}
  BY WriterAssumption
<1>1. p.epoch \in Epochs /\ p.seq \in 0..MaxSequence
  BY Fields
<1>2. ViewerTypes /\ cfg.gen \in 0..MaxGeneration /\ browser.seq \in 0..MaxSequence
  BY <1>0 DEF ViewerInv, ViewerTypes
<1>3. /\ cfg' = cfg /\ queue' = queue /\ inFlight' = inFlight /\ credit' = credit
      /\ closed' = closed /\ item' = item /\ sent' = sent /\ browser' = browser /\ feedback' = feedback
      /\ pend' = pend \/ (~closed /\ cfg.gen # 0 /\ p.epoch = cfg.epoch /\ ~(p.seq <= NewestQueued) /\ pend' = f)
  BY DEF EnqueueFrame, writerVars, browserVars
<1>4. CASE pend' = pend
  BY <1>3, <1>4, ViewerFrame DEF clientVars, writerVars, browserVars
<1>5. CASE ~closed /\ cfg.gen # 0 /\ p.epoch = cfg.epoch /\ ~(p.seq <= NewestQueued) /\ pend' = f
  <2>1. /\ NewestQueued \in Nat /\ credit.written <= NewestQueued
        /\ inFlight # None => inFlight.seq <= NewestQueued
    BY <1>2, NewestIsLargest
  <2>2. /\ pend' \in Frame /\ pend'.gen = cfg.gen /\ pend'.epoch = cfg.epoch /\ pend'.seq = p.seq
    <3>1. p.seq \in Sequences1 /\ cfg.gen \in 1..MaxGeneration
      BY <1>0, <1>1, <1>2, <1>5, <2>1 DEF Sequences1
    <3>2. f \in Frame
      BY <3>1, <1>1 DEF Frame
    <3> QED BY <3>2, <1>5
  <2> HIDE DEF f
  <2>3. ViewerTypes'
    BY <1>2, <1>3, <2>2 DEF ViewerTypes
  <2>4. QueueInv'
    BY <1>3, <2>2 DEF ViewerInv, QueueInv
  <2>5. ItemInv' /\ BrowserInv'
    BY <1>3 DEF ViewerInv, ItemInv, BrowserInv
  <2>6. CreditInv'
    <3>1. ASSUME browser.gen = cfg.gen
          PROVE  p.seq > browser.seq /\ (item \in Frame => p.seq > item.seq)
      <4>1. ASSUME item \in Frame PROVE p.seq > item.seq
        <5>1. inFlight = item /\ inFlight # None
          BY <3>1, <4>1, <1>5, NoValueAssumption DEF ViewerInv, ItemInv
        <5>2. item.seq \in 1..MaxSequence
          BY <4>1, Fields DEF Sequences1
        <5> QED BY <5>1, <5>2, <1>0, <1>1, <1>5, <2>1
      <4>2. CASE item \in Frame /\ sent
        <5>1. item.seq = browser.seq
          BY <4>2 DEF ViewerInv, ItemInv
        <5> QED BY <5>1, <4>1, <4>2
      <4>3. CASE ~(item \in Frame /\ sent)
        <5>1. credit.written = browser.seq
          BY <3>1, <4>3, <1>5 DEF ViewerInv, CreditInv
        <5>2. p.seq > browser.seq
          BY <5>1, <1>0, <1>1, <1>2, <1>5, <2>1
        <5> QED BY <5>2, <4>1
      <4> QED BY <4>2, <4>3
    <3> QED BY <3>1, <1>3, <2>2 DEF ViewerInv, CreditInv, NoCredit
  <2> QED BY <1>3, <2>3, <2>4, <2>5, <2>6 DEF ViewerInv
<1> QED BY <1>3, <1>4, <1>5
(* An ordinary message.                                                     *)
LEMMA TextArrives ==
    ASSUME ViewerInv, EnqueueText
    PROVE  ViewerInv'
<1>1. /\ cfg' = cfg /\ pend' = pend /\ inFlight' = inFlight /\ credit' = credit
      /\ closed' = closed /\ item' = item /\ sent' = sent /\ browser' = browser /\ feedback' = feedback
      /\ queue' = Append(MakeRoom(queue), Text) /\ Len(MakeRoom(queue)) < ControlQueueMax
  BY DEF EnqueueText, writerVars, browserVars
<1>2. ViewerTypes
  BY DEF ViewerInv
<1>3. SameConfigs(queue, queue') /\ Len(queue') <= ControlQueueMax
  BY <1>1, <1>2, TextIsQueued DEF ViewerTypes
<1>4. ViewerTypes'
  BY <1>1, <1>2, <1>3 DEF ViewerTypes, SameConfigs
<1>5. QueueInv'
  BY <1>1, <1>3 DEF ViewerInv, QueueInv, SameConfigs
<1>6. ItemInv' /\ BrowserInv' /\ CreditInv'
  BY <1>1 DEF ViewerInv, ItemInv, BrowserInv, CreditInv, NoCredit
<1> QED BY <1>4, <1>5, <1>6 DEF ViewerInv

(* The writer takes a control message.                                      *)
LEMMA ControlIsTaken ==
    ASSUME ViewerInv, ~closed, item = None, queue # <<>>, item' = Head(queue), queue' = Tail(queue),
           UNCHANGED <<cfg, pend, inFlight, credit, closed, sent, browserVars>>
    PROVE  ViewerInv'
<1>1. /\ cfg' = cfg /\ pend' = pend /\ inFlight' = inFlight /\ credit' = credit
      /\ closed' = closed /\ sent' = sent /\ browser' = browser /\ feedback' = feedback
  BY DEF browserVars
<1>2. ViewerTypes
  BY DEF ViewerInv
<1>3. /\ item' \in Messages /\ queue' \in Seq(Messages) /\ Len(queue') <= ControlQueueMax
      /\ 1 \in DOMAIN queue /\ queue[1] = item'
      /\ \A j \in DOMAIN queue' : \E i \in DOMAIN queue : i # 1 /\ queue[i] = queue'[j]
      /\ \A i \in DOMAIN queue : i # 1 => \E j \in DOMAIN queue' : queue'[j] = queue[i]
      /\ OneConfig(queue) => OneConfig(queue')
  BY <1>2, HeadIsTaken DEF ViewerTypes
<1>4. /\ ~sent /\ inFlight = None
      /\ item' \in Items /\ item' \notin Frame
      /\ item' \in Media <=> item' \in Config
      /\ item' \in Config <=> item' # Text
      /\ item \notin Media /\ item \notin Frame /\ item \notin Config
  BY <1>3, Kinds, NoValueAssumption DEF ViewerInv, ItemInv, Media, Messages, Items
<1>5. item' \in Config => item'.gen = cfg.gen /\ item'.epoch = cfg.epoch /\ browser.gen < cfg.gen
  BY <1>3, <1>4 DEF ViewerInv, QueueInv
<1>6. item' \in Config => \A j \in DOMAIN queue' : queue'[j] = Text
  BY <1>3, <1>4 DEF ViewerInv, QueueInv, OneConfig
<1>7. ViewerTypes'
  BY <1>1, <1>2, <1>3, <1>4 DEF ViewerTypes
<1>8. QueueInv'
  <2>1. ASSUME NEW j \in DOMAIN queue', queue'[j] # Text
        PROVE  /\ queue'[j].gen = cfg.gen /\ queue'[j].epoch = cfg.epoch /\ browser.gen < cfg.gen
               /\ item' \notin Media
    BY <2>1, <1>3, <1>4, <1>6 DEF ViewerInv, QueueInv
  <2>2. OneConfig(queue')
    BY <1>3 DEF ViewerInv, QueueInv
  <2>3. ~closed /\ cfg.gen # 0 =>
          \/ \E i \in DOMAIN queue' : queue'[i] # Text
          \/ item' \in Config /\ item'.gen = cfg.gen
          \/ browser.gen = cfg.gen
    <3>1. CASE item' \in Config
      BY <3>1, <1>5
    <3>2. CASE item' \notin Config
      BY <3>2, <1>3, <1>4 DEF ViewerInv, QueueInv
    <3> QED BY <3>1, <3>2
  <2>4. pend # None => pend.gen = cfg.gen /\ pend.epoch = cfg.epoch
    BY DEF ViewerInv, QueueInv
  <2> QED BY <2>1, <2>2, <2>3, <2>4, <1>1 DEF QueueInv
<1>9. ItemInv'
  <2>1. cfg.gen \in Nat
    BY <1>2, WriterAssumption DEF ViewerTypes
  <2> QED BY <2>1, <1>1, <1>4, <1>5 DEF ItemInv
<1>10. BrowserInv' /\ CreditInv'
  BY <1>1, <1>4 DEF ViewerInv, BrowserInv, CreditInv, NoCredit
<1> QED BY <1>7, <1>8, <1>9, <1>10 DEF ViewerInv

(* The writer takes the pending picture, or drops it.                       *)
LEMMA PictureIsTaken ==
    ASSUME ViewerInv, ~closed, item = None, queue = <<>>, credit.awaited = 0, pend # None, pend' = None,
           (item' = pend /\ inFlight' = pend) \/ (item' = item /\ inFlight' = inFlight),
           UNCHANGED <<cfg, queue, credit, closed, sent, browserVars>>
    PROVE  ViewerInv'
<1>1. /\ cfg' = cfg /\ queue' = queue /\ credit' = credit
      /\ closed' = closed /\ sent' = sent /\ browser' = browser /\ feedback' = feedback
  BY DEF browserVars
<1>2. ViewerTypes /\ pend \in Frame /\ DOMAIN queue = {}
  BY DEF ViewerInv, ViewerTypes
<1>3. /\ ~sent /\ inFlight = None
      /\ item \notin Media /\ item \notin Frame /\ item \notin Config
      /\ pend \in Items /\ pend \notin Config /\ pend \in Media
  BY <1>2, Kinds, NoValueAssumption DEF ViewerInv, ItemInv, Media, Items
<1>4. pend.gen = cfg.gen /\ pend.epoch = cfg.epoch /\ cfg.gen \in Nat /\ cfg.gen # 0
      /\ pend.gen \in 1..MaxGeneration
  BY <1>2, Fields, WriterAssumption DEF ViewerInv, QueueInv, ViewerTypes
<1>5. browser.gen = cfg.gen /\ browser.epoch = cfg.epoch
  BY <1>2, <1>3, <1>4 DEF ViewerInv, QueueInv, BrowserInv
<1>6. pend.seq > browser.seq /\ credit.received = browser.seq
  BY <1>3, <1>5 DEF ViewerInv, CreditInv
<1>7. ViewerTypes'
  BY <1>1, <1>2, <1>3 DEF ViewerTypes
<1>8. QueueInv' /\ BrowserInv'
  BY <1>1, <1>2, <1>5 DEF ViewerInv, QueueInv, BrowserInv
<1>9. ItemInv'
  <2>1. CASE item' = pend /\ inFlight' = pend
    BY <2>1, <1>1, <1>2, <1>3, <1>4, <1>5, <1>6 DEF ItemInv
  <2>2. CASE item' = item /\ inFlight' = inFlight
    BY <2>2, <1>1, <1>3 DEF ItemInv
  <2> QED BY <2>1, <2>2
<1>10. CreditInv'
  BY <1>1, <1>3 DEF ViewerInv, CreditInv, NoCredit
<1> QED BY <1>7, <1>8, <1>9, <1>10 DEF ViewerInv
(* A picture the trial meter refuses, and whatever fails to be written,     *)
(* which also closes the viewer.                                            *)
LEMMA ItemIsDropped ==
    ASSUME ViewerInv, item # None, ~sent, item' = None, ClearInFlight(item),
           closed' \in BOOLEAN, closed => closed', ~closed' => item \in Frame,
           UNCHANGED <<cfg, queue, pend, credit, sent, browserVars>>
    PROVE  ViewerInv'
<1>1. /\ cfg' = cfg /\ queue' = queue /\ pend' = pend /\ credit' = credit
      /\ sent' = sent /\ browser' = browser /\ feedback' = feedback /\ inFlight' \in {inFlight, None}
      /\ inFlight = item => inFlight' = None
  BY DEF browserVars, ClearInFlight
<1>2. ViewerTypes /\ item \in Items
  BY DEF ViewerInv, ViewerTypes
<1>3. /\ None \in Items /\ None \notin Media /\ None \notin Frame /\ None \notin Config
      /\ item \in Frame => item \notin Config
  BY <1>2, Kinds, NoValueAssumption DEF Items, Media
<1>4. inFlight' = None
  BY <1>1 DEF ViewerInv, ItemInv
<1>5. ViewerTypes'
  BY <1>1, <1>2, <1>3 DEF ViewerTypes
<1>6. QueueInv'
  BY <1>1, <1>3 DEF ViewerInv, QueueInv
<1>7. ItemInv'
  BY <1>1, <1>3, <1>4 DEF ItemInv
<1>8. BrowserInv' /\ CreditInv'
  BY <1>1, <1>3 DEF ViewerInv, BrowserInv, CreditInv, NoCredit
<1> QED BY <1>5, <1>6, <1>7, <1>8 DEF ViewerInv

(* A message reaches the browser.                                           *)
LEMMA ItemIsWritten ==
    ASSUME ViewerInv, item # None, ~sent, WriteSucceeds
    PROVE  ViewerInv'
<1>0. /\ MaxEpoch \in Nat \ {0} /\ MaxSequence \in Nat \ {0} /\ MaxGeneration \in Nat \ {0}
  BY WriterAssumption
<1>1. /\ cfg' = cfg /\ queue' = queue /\ pend' = pend /\ inFlight' = inFlight /\ credit' = credit
      /\ closed' = closed /\ item' = item /\ sent' = TRUE
  BY DEF WriteSucceeds, clientVars
<1>2. ViewerTypes /\ item \in Items /\ feedback \in Seq(Ack)
  BY DEF ViewerInv, ViewerTypes
<1>3. /\ IsFrame(item) <=> item \in Frame
      /\ item.kind = "config" <=> item \in Config
      /\ item.kind = "frame" <=> item \in Frame
      /\ item \in Frame => item \notin Config
  BY <1>2, Kinds DEF IsFrame
<1>4. /\ cfg.gen \in 0..MaxGeneration /\ cfg.epoch \in 0..MaxEpoch
      /\ browser.gen \in 0..MaxGeneration /\ browser.epoch \in 0..MaxEpoch /\ browser.seq \in 0..MaxSequence
  BY <1>2 DEF ViewerTypes
<1>5. /\ item \in Config => item.gen \in 1..MaxGeneration /\ item.epoch \in Epochs
      /\ item \in Frame => item.gen \in 1..MaxGeneration /\ item.epoch \in Epochs /\ item.seq \in Sequences1
  BY Fields
<1>6. CASE item \in Config
  <2>1. browser' = [gen |-> item.gen, epoch |-> item.epoch, seq |-> 0] /\ feedback' = feedback /\ item \notin Frame
    BY <1>3, <1>6 DEF WriteSucceeds
  <2>2. /\ browser'.gen = item.gen /\ browser'.epoch = item.epoch /\ browser'.seq = 0
        /\ browser' \in [gen : 0..MaxGeneration, epoch : 0..MaxEpoch, seq : 0..MaxSequence]
    BY <2>1, <1>0, <1>5, <1>6 DEF Epochs
  <2>3. /\ browser.gen < item.gen /\ item.gen <= cfg.gen /\ (item.gen = cfg.gen => item.epoch = cfg.epoch)
        /\ item \in Media
    BY <1>6 DEF ViewerInv, ItemInv, Media
  <2>4. ViewerTypes'
    BY <1>1, <1>2, <2>1, <2>2 DEF ViewerTypes
  <2>5. QueueInv'
    BY <1>1, <1>4, <1>5, <1>6, <2>2, <2>3 DEF ViewerInv, QueueInv
  <2>6. ItemInv'
    BY <1>1, <1>6, <2>1, <2>2, <2>3 DEF ViewerInv, ItemInv
  <2>7. BrowserInv'
    <3>1. \A i \in DOMAIN feedback : feedback[i].gen < item.gen
      <4>1. \A i \in DOMAIN feedback : feedback[i].gen \in 1..MaxGeneration
        BY <1>2, Fields
      <4> QED BY <4>1, <1>4, <1>5, <1>6, <2>3 DEF ViewerInv, BrowserInv
    <3>2. \A i \in DOMAIN feedback : feedback[i].gen <= item.gen /\ feedback[i].gen # item.gen
      <4>1. \A i \in DOMAIN feedback : feedback[i].gen \in 1..MaxGeneration
        BY <1>2, Fields
      <4> QED BY <3>1, <4>1, <1>5, <1>6
    <3> QED BY <1>1, <2>1, <2>2, <2>3, <3>2 DEF BrowserInv
  <2>8. CreditInv'
    <3>1. ~closed => NoCredit
      BY <1>4, <1>5, <1>6, <2>3 DEF ViewerInv, CreditInv
    <3>2. pend # None => pend.seq > 0
      BY <1>2, Fields, <1>0 DEF ViewerTypes, Sequences1
    <3> QED BY <1>1, <2>1, <2>2, <3>1, <3>2 DEF CreditInv, NoCredit
  <2> QED BY <2>4, <2>5, <2>6, <2>7, <2>8 DEF ViewerInv
<1>7. CASE item \in Frame
  <2> DEFINE a == [gen |-> browser.gen, epoch |-> browser.epoch, seq |-> item.seq]
  <2>1. browser' = [browser EXCEPT !.seq = item.seq] /\ feedback' = Append(feedback, a) /\ item \notin Config
    BY <1>3, <1>7 DEF WriteSucceeds
  <2>2. /\ browser'.gen = browser.gen /\ browser'.epoch = browser.epoch /\ browser'.seq = item.seq
        /\ browser' \in [gen : 0..MaxGeneration, epoch : 0..MaxEpoch, seq : 0..MaxSequence]
    <3>1. item.seq \in 0..MaxSequence
      BY <1>0, <1>5, <1>7 DEF Sequences1
    <3>2. browser \in [gen : 0..MaxGeneration, epoch : 0..MaxEpoch, seq : 0..MaxSequence]
      BY <1>2 DEF ViewerTypes
    <3> QED BY <2>1, <3>1, <3>2
  <2>3. /\ item.gen = browser.gen /\ item.epoch = browser.epoch /\ item.seq > browser.seq /\ item \in Media
    BY <1>7 DEF ViewerInv, ItemInv, Media
  <2>4. a \in Ack /\ a.gen = browser.gen /\ a.seq = item.seq
    BY <1>5, <1>7, <2>3 DEF Ack
  <2> HIDE DEF a
  <2>5. /\ feedback' \in Seq(Ack)
        /\ \A i \in DOMAIN feedback' : feedback'[i] = a \/ (i \in DOMAIN feedback /\ feedback'[i] = feedback[i])
    BY <1>2, <2>1, <2>4, AppendProperties
  <2>6. ViewerTypes'
    BY <1>1, <1>2, <2>2, <2>5 DEF ViewerTypes
  <2>7. QueueInv'
    BY <1>1, <2>2 DEF ViewerInv, QueueInv
  <2>8. ItemInv'
    BY <1>1, <1>7, <2>1, <2>2, <2>3 DEF ViewerInv, ItemInv
  <2>9. BrowserInv'
    <3>1. browser.gen <= cfg.gen /\ (browser.gen = cfg.gen => browser.epoch = cfg.epoch)
      BY DEF ViewerInv, BrowserInv
    <3>2. ASSUME NEW i \in DOMAIN feedback'
          PROVE  /\ feedback'[i].gen <= browser.gen
                 /\ feedback'[i].gen = browser.gen => feedback'[i].seq <= item.seq
      <4>1. CASE feedback'[i] = a
        BY <4>1, <2>4, <1>4, <1>5, <1>7 DEF Sequences1
      <4>2. CASE i \in DOMAIN feedback /\ feedback'[i] = feedback[i]
        <5>1. feedback[i].gen \in 1..MaxGeneration /\ feedback[i].seq \in 1..MaxSequence
          BY <4>2, <1>2, Fields DEF Sequences1
        <5>2. /\ feedback[i].gen <= browser.gen
              /\ feedback[i].gen = browser.gen => feedback[i].seq <= browser.seq
          BY <4>2 DEF ViewerInv, BrowserInv
        <5> QED BY <4>2, <5>1, <5>2, <2>3, <1>4, <1>5, <1>7 DEF Sequences1
      <4> QED BY <4>1, <4>2, <2>5
    <3> QED BY <1>1, <2>2, <3>1, <3>2 DEF BrowserInv
  <2>10. CreditInv'
    <3> SUFFICES ASSUME ~closed
                 PROVE  /\ browser.gen < cfg.gen => NoCredit
                        /\ browser.gen = cfg.gen =>
                             /\ credit.received <= item.seq
                             /\ pend # None => pend.seq > item.seq
      BY <1>1, <1>7, <2>2 DEF CreditInv, NoCredit
    <3>1. browser.gen < cfg.gen => NoCredit
      BY DEF ViewerInv, CreditInv
    <3>2. ASSUME browser.gen = cfg.gen PROVE credit.received <= item.seq
      <4>1. credit.received <= browser.seq /\ credit.received \in 0..MaxSequence
        BY <3>2, <1>2 DEF ViewerInv, CreditInv, ViewerTypes
      <4> QED BY <4>1, <2>3, <1>4, <1>5, <1>7 DEF Sequences1
    <3>3. browser.gen = cfg.gen /\ pend # None => pend.seq > item.seq
      BY <1>7 DEF ViewerInv, CreditInv
    <3> QED BY <3>1, <3>2, <3>3
  <2> QED BY <2>6, <2>7, <2>8, <2>9, <2>10 DEF ViewerInv
<1>8. CASE item \notin Config /\ item \notin Frame
  <2>1. browser' = browser /\ feedback' = feedback /\ item \notin Media
    BY <1>3, <1>8 DEF WriteSucceeds, Media
  <2>2. ViewerTypes' /\ QueueInv' /\ BrowserInv'
    BY <1>1, <2>1 DEF ViewerInv, ViewerTypes, QueueInv, BrowserInv
  <2>3. ItemInv' /\ CreditInv'
    BY <1>1, <1>8, <2>1 DEF ViewerInv, ItemInv, CreditInv, NoCredit
  <2> QED BY <2>2, <2>3 DEF ViewerInv
<1> QED BY <1>6, <1>7, <1>8
(* The writer notes what it has written.                                    *)
LEMMA ItemIsNoted ==
    ASSUME ViewerInv, NoteWritten
    PROVE  ViewerInv' /\ cfg'.gen = cfg.gen /\ cfg'.epoch = cfg.epoch
<1>0. /\ MaxEpoch \in Nat \ {0} /\ MaxSequence \in Nat \ {0} /\ MaxGeneration \in Nat \ {0}
  BY WriterAssumption
<1> DEFINE current == ~closed /\ item # Text /\ item.gen = cfg.gen
<1>1. /\ queue' = queue /\ pend' = pend /\ closed' = closed /\ browser' = browser /\ feedback' = feedback
      /\ item # None /\ sent /\ item' = None /\ sent' = FALSE
      /\ inFlight' = IF inFlight = item THEN None ELSE inFlight
      /\ cfg' = IF item.kind = "config" /\ current THEN [cfg EXCEPT !.noted = item.gen] ELSE cfg
      /\ credit' = IF IsFrame(item) /\ current
                   THEN [credit EXCEPT !.written = item.seq,
                                       !.awaited = IF credit.received < item.seq THEN item.seq ELSE @]
                   ELSE credit
  BY DEF NoteWritten, ClearInFlight, browserVars
<1>2. ViewerTypes /\ item \in Items
  BY DEF ViewerInv, ViewerTypes
<1>3. /\ IsFrame(item) <=> item \in Frame
      /\ item.kind = "config" <=> item \in Config
      /\ item \in Frame => item \notin Config /\ item # Text
      /\ None \in Items /\ None \notin Media /\ None \notin Frame /\ None \notin Config
      /\ item \in Config => item \in Media /\ item # Text
      /\ item \in Frame => item \in Media
  BY <1>1, <1>2, Kinds, NoValueAssumption DEF Items, Media
<1>4. inFlight' = None
  BY <1>1 DEF ViewerInv, ItemInv
<1>5. /\ item \in Config => item.gen \in 0..MaxGeneration
      /\ item \in Frame => item.seq \in 1..MaxSequence /\ item.seq \in 0..MaxSequence
  <2>1. /\ item \in Config => item.gen \in 1..MaxGeneration
        /\ item \in Frame => item.seq \in 1..MaxSequence
    BY Fields DEF Sequences1
  <2> QED BY <2>1, <1>0
<1>6. /\ cfg'.gen = cfg.gen /\ cfg'.epoch = cfg.epoch
      /\ cfg' \in [gen : 0..MaxGeneration, epoch : 0..MaxEpoch, noted : 0..MaxGeneration]
  <2>1. cfg \in [gen : 0..MaxGeneration, epoch : 0..MaxEpoch, noted : 0..MaxGeneration]
    BY <1>2 DEF ViewerTypes
  <2>2. CASE item \in Config /\ current
    BY <2>1, <2>2, <1>1, <1>3, <1>5
  <2>3. CASE ~(item \in Config /\ current)
    BY <2>1, <2>3, <1>1, <1>3
  <2> QED BY <2>2, <2>3
<1>7. credit \in [written : 0..MaxSequence, received : 0..MaxSequence, awaited : 0..MaxSequence]
  BY <1>2 DEF ViewerTypes
<1>8. /\ ~closed /\ item \in Frame /\ item.gen = cfg.gen =>
           /\ credit'.written = item.seq /\ credit'.received = credit.received
           /\ credit'.awaited = IF credit.received < item.seq THEN item.seq ELSE credit.awaited
      /\ ~(~closed /\ item \in Frame /\ item.gen = cfg.gen) => credit' = credit
      /\ credit' \in [written : 0..MaxSequence, received : 0..MaxSequence, awaited : 0..MaxSequence]
  <2>1. CASE item \in Frame /\ current
    BY <2>1, <1>1, <1>3, <1>5, <1>7
  <2>2. CASE ~(item \in Frame /\ current)
    BY <2>2, <1>1, <1>3, <1>7
  <2> QED BY <2>1, <2>2, <1>3
<1> HIDE DEF current
<1>9. ViewerTypes'
  BY <1>1, <1>2, <1>3, <1>4, <1>6, <1>8 DEF ViewerTypes
<1>10. QueueInv'
  BY <1>1, <1>3, <1>6 DEF ViewerInv, QueueInv, ItemInv
<1>11. ItemInv'
  BY <1>1, <1>3, <1>4 DEF ItemInv
<1>12. BrowserInv'
  BY <1>1, <1>6 DEF ViewerInv, BrowserInv
<1>13. CreditInv'
  <2>1. CASE ~closed /\ item \in Frame /\ item.gen = cfg.gen
    <3>1. browser.gen = cfg.gen /\ item.seq = browser.seq /\ credit.awaited = 0
      BY <2>1, <1>1 DEF ViewerInv, ItemInv
    <3>2. credit.received <= browser.seq /\ (pend # None => pend.seq > browser.seq)
      BY <2>1, <3>1 DEF ViewerInv, CreditInv
    <3>3. credit'.written = browser.seq /\ credit'.received <= browser.seq
      BY <2>1, <3>1, <3>2, <1>8
    <3>4. credit'.awaited \in {0, browser.seq} /\ (credit'.awaited = 0 => credit'.received = browser.seq)
      BY <2>1, <3>1, <3>2, <1>5, <1>7, <1>8
    <3>5. cfg.gen \in Nat
      BY <1>0, <1>2 DEF ViewerTypes
    <3> QED BY <3>1, <3>2, <3>3, <3>4, <3>5, <1>1, <1>3, <1>6 DEF CreditInv
  <2>2. CASE ~(~closed /\ item \in Frame /\ item.gen = cfg.gen)
    <3>1. credit' = credit
      BY <2>2, <1>8
    <3>2. ~closed /\ browser.gen = cfg.gen => item \notin Frame
      BY <2>2 DEF ViewerInv, ItemInv
    <3> QED BY <3>1, <3>2, <1>1, <1>3, <1>6 DEF ViewerInv, CreditInv, NoCredit
  <2> QED BY <2>1, <2>2
<1> QED BY <1>6, <1>9, <1>10, <1>11, <1>12, <1>13 DEF ViewerInv

(* The viewer closes on its own, because a receipt is late or its socket    *)
(* ended.                                                                   *)
LEMMA ViewerCloses ==
    ASSUME ViewerInv, closed' = TRUE, pend' = None, inFlight' \in {inFlight, None},
           credit' = [credit EXCEPT !.awaited = 0], UNCHANGED <<cfg, queue, writerVars, browserVars>>
    PROVE  ViewerInv'
<1>1. /\ cfg' = cfg /\ queue' = queue /\ item' = item /\ sent' = sent
      /\ browser' = browser /\ feedback' = feedback
  BY DEF writerVars, browserVars
<1>2. credit' \in [written : 0..MaxSequence, received : 0..MaxSequence, awaited : 0..MaxSequence]
  <2>1. 0 \in 0..MaxSequence
    BY WriterAssumption
  <2> QED BY <2>1 DEF ViewerInv, ViewerTypes
<1>3. ViewerTypes'
  BY <1>1, <1>2 DEF ViewerInv, ViewerTypes
<1>4. QueueInv' /\ BrowserInv' /\ CreditInv'
  BY <1>1 DEF ViewerInv, QueueInv, BrowserInv, CreditInv
<1>5. ItemInv'
  BY <1>1 DEF ViewerInv, ItemInv
<1> QED BY <1>3, <1>4, <1>5 DEF ViewerInv

(* The browser's receipt is counted.                                        *)
LEMMA ReceiptIsCounted ==
    ASSUME ViewerInv, NEW repeated \in BOOLEAN, AcceptFeedback(repeated)
    PROVE  ViewerInv'
<1>0. MaxSequence \in Nat \ {0}
  BY WriterAssumption
<1> DEFINE a == Head(feedback)
<1>1. /\ cfg' = cfg /\ queue' = queue /\ pend' = pend /\ inFlight' = inFlight /\ closed' = closed
      /\ item' = item /\ sent' = sent /\ browser' = browser /\ feedback # <<>>
      /\ credit' = IF Acceptable(a)
                   THEN [credit EXCEPT !.received = a.seq, !.awaited = IF @ = a.seq THEN 0 ELSE @]
                   ELSE credit
      /\ feedback' = IF repeated THEN feedback ELSE Tail(feedback)
  BY DEF AcceptFeedback, writerVars
<1>2. ViewerTypes /\ feedback \in Seq(Ack) /\ browser.seq \in 0..MaxSequence
  BY DEF ViewerInv, ViewerTypes
<1>3. /\ a \in Ack /\ 1 \in DOMAIN feedback /\ feedback[1] = a /\ Tail(feedback) \in Seq(Ack)
      /\ \A j \in DOMAIN Tail(feedback) : j + 1 \in DOMAIN feedback /\ Tail(feedback)[j] = feedback[j + 1]
  <2>1. feedback # <<>> /\ feedback \in Seq(Ack)
    BY <1>1, <1>2
  <2> HIDE DEF a
  <2>2. /\ Head(feedback) \in Ack /\ Tail(feedback) \in Seq(Ack) /\ Head(feedback) = feedback[1]
        /\ Len(feedback) \in Nat /\ Len(feedback) # 0 /\ Len(Tail(feedback)) = Len(feedback) - 1
        /\ \A j \in 1..Len(Tail(feedback)) : Tail(feedback)[j] = feedback[j + 1]
    BY <2>1, HeadTailProperties
  <2>3. 1 \in 1..Len(feedback) /\ \A j \in 1..Len(Tail(feedback)) : j + 1 \in 1..Len(feedback)
    BY <2>2
  <2> QED BY <2>1, <2>2, <2>3 DEF a
<1> HIDE DEF a
<1>4. a.seq \in 1..MaxSequence /\ a.seq \in 0..MaxSequence
  <2>1. a.seq \in 1..MaxSequence
    BY <1>3, Fields DEF Sequences1
  <2> QED BY <2>1, <1>0
<1>5. credit \in [written : 0..MaxSequence, received : 0..MaxSequence, awaited : 0..MaxSequence]
  BY <1>2 DEF ViewerTypes
<1>6. /\ credit' \in [written : 0..MaxSequence, received : 0..MaxSequence, awaited : 0..MaxSequence]
      /\ credit' = credit \/
         /\ ~closed /\ a.gen = cfg.gen /\ a.seq >= credit.received
         /\ credit'.written = credit.written /\ credit'.received = a.seq
         /\ credit'.awaited = IF credit.awaited = a.seq THEN 0 ELSE credit.awaited
  <2>1. CASE Acceptable(a)
    <3>1. ~closed /\ a.gen = cfg.gen /\ a.seq >= credit.received
      BY <2>1 DEF Acceptable
    <3>2. credit' = [credit EXCEPT !.received = a.seq, !.awaited = IF @ = a.seq THEN 0 ELSE @]
      BY <2>1, <1>1
    <3>3. 0 \in 0..MaxSequence
      BY <1>0
    <3> QED BY <3>1, <3>2, <3>3, <1>4, <1>5
  <2>2. CASE ~Acceptable(a)
    BY <2>2, <1>1, <1>5
  <2> QED BY <2>1, <2>2
<1>7. feedback' \in Seq(Ack) /\ \A j \in DOMAIN feedback' : \E i \in DOMAIN feedback : feedback'[j] = feedback[i]
  BY <1>1, <1>2, <1>3
<1>8. ViewerTypes'
  BY <1>1, <1>2, <1>6, <1>7 DEF ViewerTypes
<1>9. QueueInv'
  BY <1>1 DEF ViewerInv, QueueInv
<1>10. BrowserInv'
  BY <1>1, <1>7 DEF ViewerInv, BrowserInv
<1>11. a.gen <= browser.gen /\ (a.gen = browser.gen => a.seq <= browser.seq) /\ browser.gen <= cfg.gen
  BY <1>3 DEF ViewerInv, BrowserInv
<1>12. a.gen = cfg.gen => browser.gen = cfg.gen
  <2>1. a.gen \in 1..MaxGeneration /\ browser.gen \in 0..MaxGeneration /\ cfg.gen \in 0..MaxGeneration
        /\ MaxGeneration \in Nat
    BY <1>2, <1>3, Fields, WriterAssumption DEF ViewerTypes
  <2> QED BY <2>1, <1>11
<1>13. ItemInv'
  BY <1>1, <1>4, <1>6 DEF ViewerInv, ItemInv
<1>14. CreditInv'
  <2>1. CASE credit' = credit
    BY <2>1, <1>1 DEF ViewerInv, CreditInv, NoCredit
  <2>2. CASE /\ ~closed /\ a.gen = cfg.gen /\ a.seq >= credit.received
             /\ credit'.written = credit.written /\ credit'.received = a.seq
             /\ credit'.awaited = IF credit.awaited = a.seq THEN 0 ELSE credit.awaited
    <3>1. browser.gen = cfg.gen /\ a.seq <= browser.seq
      BY <2>2, <1>11, <1>12
    <3>2. ASSUME ~(item \in Frame /\ sent)
          PROVE  /\ credit'.written = browser.seq /\ credit'.awaited \in {0, browser.seq}
                 /\ credit'.awaited = 0 => credit'.received = browser.seq
      <4>1. /\ credit.written = browser.seq /\ credit.awaited \in {0, browser.seq}
            /\ credit.awaited = 0 => credit.received = browser.seq
        BY <2>2, <3>1, <3>2 DEF ViewerInv, CreditInv
      <4> QED BY <4>1, <2>2, <3>1, <1>2, <1>4, <1>5
    <3>3. pend # None => pend.seq > browser.seq /\ (item \in Frame => pend.seq > item.seq)
      BY <2>2, <3>1 DEF ViewerInv, CreditInv
    <3>4. ~(browser.gen < cfg.gen)
      BY <3>1, <1>2, WriterAssumption DEF ViewerTypes
    <3> QED BY <2>2, <3>1, <3>2, <3>3, <3>4, <1>1 DEF CreditInv
  <2> QED BY <2>1, <2>2, <1>6
<1> QED BY <1>8, <1>9, <1>10, <1>13, <1>14 DEF ViewerInv
(* The hub takes a configuration from the phone.                            *)
LEMMA HubTakesConfig ==
    ASSUME ViewerInv, SourceInv, NEW e \in 0..MaxEpoch, NEW valid \in BOOLEAN, NEW restarted \in BOOLEAN,
           SetConfig(e, valid, restarted)
    PROVE  SourceInv'
<1>0. /\ MaxEpoch \in Nat \ {0} /\ MaxSequence \in Nat \ {0} /\ MaxGeneration \in Nat \ {0}
  BY WriterAssumption
<1>1. /\ cfg' = cfg /\ closed' = closed /\ warming' = warming /\ relayed = None
      /\ cfg.gen + (IF warming.at = "done" THEN 0 ELSE 1) < MaxGeneration
      /\ valid => e # 0
      /\ hub' = [hub EXCEPT !.epoch = e, !.valid = valid, !.clock = @ /\ ~restarted,
                            !.cached = IF valid /\ e = hub.epoch THEN @ ELSE 0]
  BY DEF SetConfig, clientVars
<1>2. PICK p \in WarmPicture(hub') :
        relayed' = IF valid THEN [kind |-> "config", epoch |-> e, seq |-> p.seq] ELSE None
  BY DEF SetConfig
<1>3. SourceTypes /\ cfg.gen \in 0..MaxGeneration /\ warming.expected \in 0..MaxGeneration
  BY DEF ViewerInv, ViewerTypes, SourceInv, SourceTypes
<1>4. /\ hub'.epoch = e /\ hub'.valid = valid
      /\ hub' \in [epoch : 0..MaxEpoch, valid : BOOLEAN, admitted : Picture \cup {None},
                   cached : 0..MaxSequence, clock : BOOLEAN]
  <2>1. hub \in [epoch : 0..MaxEpoch, valid : BOOLEAN, admitted : Picture \cup {None},
                 cached : 0..MaxSequence, clock : BOOLEAN]
    BY <1>3 DEF SourceTypes
  <2>2. 0 \in 0..MaxSequence
    BY <1>0
  <2> QED BY <1>1, <2>1, <2>2
<1>5. p.seq \in 0..MaxSequence
  BY <1>0, <1>2, <1>4 DEF WarmPicture
<1>6. valid => relayed' \in Relay /\ relayed'.kind = "config" /\ relayed'.epoch = e
  BY <1>0, <1>1, <1>2, <1>5 DEF Relay, Epochs
<1>7. ~valid => relayed' = None
  BY <1>2
<1>8. SourceTypes'
  BY <1>1, <1>3, <1>4, <1>6, <1>7 DEF SourceTypes
<1>9. ToRelay' => valid
  BY <1>7 DEF ToRelay
<1>10. valid => ToRelay'
  BY <1>6, NoValueAssumption DEF ToRelay
<1>11. cfg'.gen + (IF warming'.at = "done" THEN 0 ELSE 1) + (IF ToRelay' THEN 1 ELSE 0) <= MaxGeneration
  BY <1>0, <1>1, <1>3
<1> QED BY <1>1, <1>4, <1>6, <1>7, <1>8, <1>10, <1>11 DEF SourceInv

(* The hub admits a frame, or its clock mapping changes.                    *)
LEMMA HubMovesOn ==
    ASSUME ViewerInv, SourceInv, (\E n \in Sequences1 : RecordFrame(n)) \/ CalibrateClock \/ LoseClock
    PROVE  SourceInv'
<1>0. /\ MaxEpoch \in Nat \ {0} /\ MaxSequence \in Nat \ {0} /\ MaxGeneration \in Nat \ {0}
  BY WriterAssumption
<1>1. /\ hub \in [epoch : 0..MaxEpoch, valid : BOOLEAN, admitted : Picture \cup {None},
                  cached : 0..MaxSequence, clock : BOOLEAN]
      /\ hub.epoch \in 0..MaxEpoch
  BY DEF SourceInv, SourceTypes
<1>2. ASSUME NEW n \in Sequences1, RecordFrame(n) PROVE SourceInv'
  <2> DEFINE q == [epoch |-> hub.epoch, seq |-> n]
  <2>1. /\ cfg' = cfg /\ closed' = closed /\ warming' = warming /\ relayed = None /\ hub.valid
        /\ hub' = [hub EXCEPT !.admitted = q, !.cached = n]
        /\ relayed' = [kind |-> "frame", epoch |-> hub.epoch, seq |-> n]
    BY <1>2 DEF RecordFrame, clientVars
  <2>2. hub.epoch \in Epochs /\ n \in 0..MaxSequence
    BY <1>0, <1>1, <2>1 DEF SourceInv, Epochs, Sequences1
  <2>3. q \in Picture
    BY <2>2 DEF Picture
  <2> HIDE DEF q
  <2>4. /\ hub'.epoch = hub.epoch /\ hub'.valid = hub.valid
        /\ hub' \in [epoch : 0..MaxEpoch, valid : BOOLEAN, admitted : Picture \cup {None},
                     cached : 0..MaxSequence, clock : BOOLEAN]
    BY <1>1, <2>1, <2>2, <2>3
  <2>5. relayed' \in Relay /\ relayed'.kind = "frame" /\ relayed'.epoch = hub.epoch
    BY <2>1, <2>2 DEF Relay
  <2>6. ~ToRelay /\ ~ToRelay'
    BY <2>1, <2>5 DEF ToRelay
  <2>7. SourceTypes'
    BY <2>1, <2>4, <2>5 DEF SourceInv, SourceTypes
  <2> QED BY <2>1, <2>4, <2>5, <2>6, <2>7 DEF SourceInv
<1>3. ASSUME CalibrateClock \/ LoseClock PROVE SourceInv'
  <2>1. /\ cfg' = cfg /\ closed' = closed /\ warming' = warming /\ relayed' = relayed
        /\ hub' = [hub EXCEPT !.clock = TRUE] \/ hub' = [hub EXCEPT !.clock = FALSE]
    BY <1>3 DEF CalibrateClock, LoseClock, clientVars
  <2>2. /\ hub'.epoch = hub.epoch /\ hub'.valid = hub.valid
        /\ hub' \in [epoch : 0..MaxEpoch, valid : BOOLEAN, admitted : Picture \cup {None},
                     cached : 0..MaxSequence, clock : BOOLEAN]
    BY <1>1, <2>1
  <2>3. SourceTypes' /\ (ToRelay' <=> ToRelay)
    BY <2>1, <2>2 DEF SourceInv, SourceTypes, ToRelay
  <2> QED BY <2>1, <2>2, <2>3 DEF SourceInv
<1> QED BY <1>2, <1>3

(* The warm start reads the viewer's generation, and then the hub.          *)
LEMMA WarmingReads ==
    ASSUME ViewerInv, SourceInv, WarmSnapshot \/ WarmRead
    PROVE  SourceInv'
<1>0. /\ MaxEpoch \in Nat \ {0} /\ MaxSequence \in Nat \ {0} /\ MaxGeneration \in Nat \ {0}
  BY WriterAssumption
<1>1. cfg.gen \in 0..MaxGeneration /\ hub.epoch \in 0..MaxEpoch /\ hub.cached \in 0..MaxSequence
      /\ warming \in [at : {"start", "read", "enqueue", "done"}, expected : 0..MaxGeneration,
                      picture : Picture \cup {None}]
  BY DEF ViewerInv, ViewerTypes, SourceInv, SourceTypes
<1>2. hub' = hub /\ relayed' = relayed /\ cfg' = cfg /\ closed' = closed /\ (ToRelay' <=> ToRelay)
  BY DEF WarmSnapshot, WarmRead, hubVars, clientVars, ToRelay
<1>3. CASE WarmSnapshot
  <2>1. /\ warming.at = "start" /\ warming'.at = "read" /\ warming'.expected = cfg.gen
        /\ warming' \in [at : {"start", "read", "enqueue", "done"}, expected : 0..MaxGeneration,
                         picture : Picture \cup {None}]
    BY <1>1, <1>3 DEF WarmSnapshot
  <2>2. SourceTypes'
    BY <1>2, <2>1 DEF SourceInv, SourceTypes
  <2>3. warming'.expected <= cfg.gen
    BY <1>0, <1>1, <2>1
  <2> QED BY <1>2, <2>1, <2>2, <2>3 DEF SourceInv
<1>4. CASE WarmRead /\ hub.valid
  <2>1. PICK p \in WarmPicture(hub) : warming' = [warming EXCEPT !.at = "enqueue", !.picture = p]
    BY <1>4 DEF WarmRead
  <2>2. p \in Picture /\ p.epoch = hub.epoch
    BY <1>0, <1>1, <1>4 DEF WarmPicture, Picture, Epochs, SourceInv
  <2>3. /\ warming.at = "read" /\ warming'.at = "enqueue" /\ warming'.expected = warming.expected
        /\ warming'.picture = p
        /\ warming' \in [at : {"start", "read", "enqueue", "done"}, expected : 0..MaxGeneration,
                         picture : Picture \cup {None}]
    BY <1>1, <1>4, <2>1, <2>2 DEF WarmRead
  <2>4. SourceTypes'
    BY <1>2, <2>3 DEF SourceInv, SourceTypes
  <2> QED BY <1>2, <2>2, <2>3, <2>4 DEF SourceInv
<1>5. CASE WarmRead /\ ~hub.valid
  <2>1. /\ warming.at = "read" /\ warming'.at = "done" /\ warming'.expected = warming.expected
        /\ warming' \in [at : {"start", "read", "enqueue", "done"}, expected : 0..MaxGeneration,
                         picture : Picture \cup {None}]
    BY <1>1, <1>5 DEF WarmRead
  <2>2. SourceTypes'
    BY <1>2, <2>1 DEF SourceInv, SourceTypes
  <2>3. cfg'.gen + (IF warming'.at = "done" THEN 0 ELSE 1) + (IF ToRelay' THEN 1 ELSE 0) <= MaxGeneration
    BY <1>0, <1>1, <1>2, <2>1 DEF SourceInv
  <2> QED BY <1>2, <1>5, <2>1, <2>2, <2>3 DEF SourceInv
<1> QED BY <1>3, <1>4, <1>5

(* The phone reader hands on what it took from the hub.                     *)
LEMMA BroadcastKeeps ==
    ASSUME ViewerInv, SourceInv, Broadcast
    PROVE  ViewerInv' /\ SourceInv'
<1> DEFINE p == [epoch |-> relayed.epoch, seq |-> relayed.seq]
<1>0. /\ MaxEpoch \in Nat \ {0} /\ MaxSequence \in Nat \ {0} /\ MaxGeneration \in Nat \ {0}
  BY WriterAssumption
<1>1. relayed \in Relay /\ relayed # None /\ relayed' = None /\ hub' = hub /\ warming' = warming
      /\ relayed.kind \in {"config", "frame"} /\ ~ToRelay'
      /\ UNCHANGED <<writerVars, browserVars>>
  BY Fields DEF Broadcast, SourceInv, SourceTypes, ToRelay
<1>2. p \in Picture /\ p.epoch = relayed.epoch
  BY <1>1, Fields DEF Picture
<1>3. cfg.gen \in 0..MaxGeneration /\ warming.expected \in 0..MaxGeneration
  BY DEF ViewerInv, ViewerTypes, SourceInv, SourceTypes
<1>4. SourceTypes'
  BY <1>1 DEF SourceInv, SourceTypes
<1>5. CASE relayed.kind = "frame"
  <2>1. EnqueueFrame(p)
    BY <1>5 DEF Broadcast
  <2> HIDE DEF p
  <2>2. ViewerInv' /\ cfg' = cfg
    BY <1>1, <1>2, <2>1, FrameArrives
  <2>3. closed' = closed /\ ~ToRelay
    BY <1>5, <2>1 DEF EnqueueFrame, ToRelay
  <2> QED BY <1>1, <1>4, <2>2, <2>3 DEF SourceInv
<1>6. CASE relayed.kind = "config" /\ closed
  <2>1. UNCHANGED clientVars
    BY <1>6 DEF Broadcast
  <2>2. ViewerInv' /\ cfg' = cfg /\ closed' = closed
    BY <1>1, <2>1, ViewerFrame DEF clientVars
  <2>3. cfg'.gen + (IF warming'.at = "done" THEN 0 ELSE 1) + (IF ToRelay' THEN 1 ELSE 0) <= MaxGeneration
    BY <1>0, <1>1, <1>3, <2>2 DEF SourceInv
  <2> QED BY <1>1, <1>4, <1>6, <2>2, <2>3 DEF SourceInv
<1>7. CASE relayed.kind = "config" /\ ~closed
  <2>1. EnqueueConfig(p)
    BY <1>7 DEF Broadcast
  <2> HIDE DEF p
  <2>2. ToRelay
    BY <1>1, <1>7 DEF ToRelay
  <2>3. /\ cfg.gen < MaxGeneration
        /\ cfg.gen + 1 + (IF warming.at = "done" THEN 0 ELSE 1) <= MaxGeneration
    BY <1>0, <1>3, <2>2 DEF SourceInv
  <2>4. ViewerInv' /\ cfg'.gen = cfg.gen + 1 /\ cfg'.epoch = hub.epoch
    BY <1>1, <1>2, <2>1, <2>3, ConfigArrives DEF SourceInv
  <2>5. warming'.expected <= cfg'.gen /\ warming'.expected # cfg'.gen
    BY <1>0, <1>1, <1>3, <2>4 DEF SourceInv
  <2>6. cfg'.gen + (IF warming'.at = "done" THEN 0 ELSE 1) + (IF ToRelay' THEN 1 ELSE 0) <= MaxGeneration
    BY <1>0, <1>1, <1>3, <2>3, <2>4
  <2>7. closed' = closed
    BY <2>1 DEF EnqueueConfig
  <2> QED BY <1>1, <1>4, <2>4, <2>5, <2>6, <2>7 DEF SourceInv
<1> QED BY <1>1, <1>5, <1>6, <1>7

(* The warm start hands on what it read, unless a configuration came first. *)
LEMMA WarmingKeeps ==
    ASSUME ViewerInv, SourceInv, WarmEnqueue
    PROVE  ViewerInv' /\ SourceInv'
<1>0. /\ MaxEpoch \in Nat \ {0} /\ MaxSequence \in Nat \ {0} /\ MaxGeneration \in Nat \ {0}
  BY WriterAssumption
<1>1. /\ hub' = hub /\ relayed' = relayed /\ (ToRelay' <=> ToRelay)
      /\ warming.at = "enqueue" /\ warming.picture \in Picture
      /\ warming' = [warming EXCEPT !.at = "done"]
      /\ UNCHANGED <<writerVars, browserVars>>
  BY DEF WarmEnqueue, hubVars, SourceInv, ToRelay
<1>2. /\ warming'.at = "done" /\ warming'.expected = warming.expected
      /\ warming' \in [at : {"start", "read", "enqueue", "done"}, expected : 0..MaxGeneration,
                       picture : Picture \cup {None}]
  BY <1>1 DEF SourceInv, SourceTypes
<1>3. cfg.gen \in 0..MaxGeneration /\ warming.expected \in 0..MaxGeneration
  BY DEF ViewerInv, ViewerTypes, SourceInv, SourceTypes
<1>4. SourceTypes'
  BY <1>1, <1>2 DEF SourceInv, SourceTypes
<1>5. CASE closed \/ cfg.gen # warming.expected
  <2>1. UNCHANGED clientVars
    BY <1>5 DEF WarmEnqueue
  <2>2. ViewerInv' /\ cfg' = cfg /\ closed' = closed
    BY <1>1, <2>1, ViewerFrame DEF clientVars
  <2>3. cfg'.gen + (IF warming'.at = "done" THEN 0 ELSE 1) + (IF ToRelay' THEN 1 ELSE 0) <= MaxGeneration
    BY <1>0, <1>1, <1>2, <1>3, <2>2 DEF SourceInv
  <2> QED BY <1>1, <1>2, <1>4, <1>5, <2>2, <2>3 DEF SourceInv
<1>6. CASE ~(closed \/ cfg.gen # warming.expected)
  <2>1. EnqueueConfig(warming.picture)
    BY <1>6 DEF WarmEnqueue
  <2>2. /\ cfg.gen < MaxGeneration
        /\ cfg.gen + 1 + (IF ToRelay THEN 1 ELSE 0) <= MaxGeneration
    BY <1>0, <1>1, <1>3 DEF SourceInv
  <2>3. ViewerInv' /\ cfg'.gen = cfg.gen + 1 /\ cfg'.epoch = warming.picture.epoch
    BY <1>1, <2>1, <2>2, ConfigArrives
  <2>4. warming'.expected <= cfg'.gen
    BY <1>0, <1>2, <1>3, <2>3 DEF SourceInv
  <2>5. cfg'.gen + (IF warming'.at = "done" THEN 0 ELSE 1) + (IF ToRelay' THEN 1 ELSE 0) <= MaxGeneration
    BY <1>0, <1>1, <1>2, <1>3, <2>2, <2>3
  <2>6. closed' = closed
    BY <2>1 DEF EnqueueConfig
  <2> QED BY <1>1, <1>2, <1>4, <1>6, <2>3, <2>4, <2>5, <2>6 DEF SourceInv
<1> QED BY <1>5, <1>6
LEMMA WriterKeeps ==
    ASSUME ViewerInv, Writer
    PROVE  ViewerInv' /\ cfg'.gen = cfg.gen /\ cfg'.epoch = cfg.epoch
<1>1. CASE WriterTakes
  <2>1. cfg' = cfg
    BY <1>1 DEF WriterTakes
  <2>2. CASE queue # <<>>
    BY <1>1, <2>1, <2>2, ControlIsTaken DEF WriterTakes
  <2>3. CASE queue = <<>>
    BY <1>1, <2>1, <2>3, PictureIsTaken DEF WriterTakes
  <2> QED BY <2>2, <2>3
<1>2. CASE WriteSucceeds
  <2>1. item # None /\ ~sent /\ cfg' = cfg
    BY <1>2 DEF WriteSucceeds, clientVars
  <2> QED BY <1>2, <2>1, ItemIsWritten
<1>3. CASE WriteFails
  BY <1>3, ItemIsDropped DEF WriteFails
<1>4. CASE NoteWritten
  BY <1>4, ItemIsNoted
<1> QED BY <1>1, <1>2, <1>3, <1>4 DEF Writer

(***************************************************************************)
(* The theorem.                                                             *)
(***************************************************************************)

LEMMA StepKeepsInv == WriterInv /\ [Next]_vars => WriterInv'
<1> SUFFICES ASSUME ViewerInv, SourceInv, [Next]_vars PROVE ViewerInv' /\ SourceInv'
  BY DEF WriterInv
<1>1. ASSUME NEW e \in 0..MaxEpoch, NEW valid \in BOOLEAN, NEW restarted \in BOOLEAN,
             SetConfig(e, valid, restarted)
      PROVE  ViewerInv' /\ SourceInv'
  BY <1>1, HubTakesConfig, ViewerFrame DEF SetConfig
<1>2. CASE (\E n \in Sequences1 : RecordFrame(n)) \/ CalibrateClock \/ LoseClock
  BY <1>2, HubMovesOn, ViewerFrame DEF RecordFrame, CalibrateClock, LoseClock
<1>3. CASE WarmSnapshot \/ WarmRead
  BY <1>3, WarmingReads, ViewerFrame DEF WarmSnapshot, WarmRead
<1>4. CASE Broadcast
  BY <1>4, BroadcastKeeps
<1>5. CASE WarmEnqueue
  BY <1>5, WarmingKeeps
<1>6. CASE EnqueueText
  BY <1>6, TextArrives, SourceFrame DEF EnqueueText
<1>7. CASE Writer
  <2>1. UNCHANGED <<hubVars, warming>> /\ (~closed' => ~closed)
    BY <1>7 DEF Writer, WriterTakes, WriteSucceeds, WriteFails, NoteWritten, clientVars
  <2> QED BY <1>7, <2>1, WriterKeeps, SourceFrame
<1>8. CASE ReceiptExpires \/ StopWriter
  <2>1. /\ closed' = TRUE /\ pend' = None /\ inFlight' \in {inFlight, None} /\ cfg' = cfg
        /\ credit' = [credit EXCEPT !.awaited = 0] /\ UNCHANGED <<cfg, queue, writerVars, browserVars>>
        /\ UNCHANGED <<hubVars, warming>>
    BY <1>8 DEF ReceiptExpires, StopWriter
  <2> QED BY <2>1, ViewerCloses, SourceFrame
<1>9. ASSUME NEW ends \in BOOLEAN, TrialRefuses(ends) PROVE ViewerInv' /\ SourceInv'
  <2>1. item \in Items /\ closed \in BOOLEAN
    BY DEF ViewerInv, ViewerTypes
  <2>2. /\ item # None /\ item \in Frame /\ ~sent /\ item' = None /\ ClearInFlight(item)
        /\ closed' = (closed \/ ends) /\ UNCHANGED <<cfg, queue, pend, credit, sent, browserVars>>
        /\ UNCHANGED <<hubVars, warming>>
    BY <1>9, <2>1, Kinds DEF TrialRefuses, IsFrame
  <2>3. closed' \in BOOLEAN /\ (closed => closed')
    BY <2>1, <2>2
  <2> QED BY <2>2, <2>3, ItemIsDropped, SourceFrame
<1>10. ASSUME NEW repeated \in BOOLEAN, AcceptFeedback(repeated) PROVE ViewerInv' /\ SourceInv'
  BY <1>10, ReceiptIsCounted, SourceFrame DEF AcceptFeedback
<1>11. CASE UNCHANGED vars
  BY <1>11, ViewerFrame, SourceFrame DEF vars, hubVars, clientVars, writerVars, browserVars
<1> QED
  BY <1>1, <1>2, <1>3, <1>4, <1>5, <1>6, <1>7, <1>8, <1>9, <1>10, <1>11 DEF Next

(* A picture that is sent fits the decoder the browser has and follows no   *)
(* unacknowledged one, the newest configuration is not lost to the bounded  *)
(* queue, and a viewer follows the hub whichever of the phone reader and    *)
(* the warm start is the later.                                             *)
THEOREM WriterSoundness == Spec => []WriterIsSound
<1>1. Init => WriterInv
  BY Starts
<1>2. WriterInv /\ [Next]_vars => WriterInv'
  BY StepKeepsInv
<1>3. WriterInv => WriterIsSound
  BY InvIsEnough
<1> QED BY <1>1, <1>2, <1>3, PTL DEF Spec
=============================================================================
