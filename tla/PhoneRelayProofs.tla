-------------------------- MODULE PhoneRelayProofs --------------------------
(***************************************************************************)
(* Proofs about the relay's connection to the phone, for any number of     *)
(* loops, phones and viewers.                                              *)
(***************************************************************************)
EXTENDS PhoneRelay, TLAPS

(* The loop that owns the wish is alive and wanted, also while nobody      *)
(* watches; then a stop is on its way.                                     *)
OwnerIsWanted ==
    owner # None => /\ desired
                    /\ loop[owner].pc # "free"
                    /\ viewers > 0 \/ idleStop = "armed" \/ stops > 0

ViewersAreOwned == viewers > 0 => desired /\ owner # None

(* The owner dials the configured phone: a switch takes the wish away from *)
(* every loop that has read the former address.                            *)
OwnerDialsBackend ==
    owner # None /\ loop[owner].pc \in {"dialing", "connected"}
        => loop[owner].target = backend

Inv == TypeOK /\ OwnerIsWanted /\ ViewersAreOwned /\ OwnerDialsBackend /\ ConnectionIsCurrent

LEMMA InitInv == Init => Inv
<1> SUFFICES ASSUME Init PROVE Inv
  OBVIOUS
<1>1. TypeOK
  <2>1. viewers \in 0..MaxViewers /\ stops \in 0..MaxStops
    BY RelayAssumption DEF Init
  <2>2. loop \in [Loops -> [pc : LoopPC, target : Backends \cup {None}]]
    BY DEF Init, Free, LoopPC
  <2> QED  BY <2>1, <2>2 DEF Init, TypeOK
<1>2. owner = None /\ videoConn = None /\ ~(viewers > 0)
  BY DEF Init
<1> QED  BY <1>1, <1>2 DEF Inv, OwnerIsWanted, ViewersAreOwned, OwnerDialsBackend, ConnectionIsCurrent

(* newConnectLoopLocked takes a slot whose goroutine has ended.            *)
LEMMA FreeLoopIsFree ==
  ASSUME FreeLoops # {}
  PROVE  FreeLoop \in Loops /\ loop[FreeLoop].pc = "free"
  BY DEF FreeLoop, FreeLoops

LEMMA NewLoopEffect ==
  ASSUME TypeOK, NewConnectLoop
  PROVE  /\ owner' \in Loops /\ owner' # None
         /\ loop' \in [Loops -> [pc : LoopPC, target : Backends \cup {None}]]
         /\ loop'[owner'].pc = "check"
         /\ \A l \in Loops : loop[l].pc # "free" => loop'[l] = loop[l]
  BY FreeLoopIsFree, RelayAssumption DEF NewConnectLoop, TypeOK, LoopPC

LEMMA AddViewerInv == Inv /\ AddViewer => Inv'
<1> SUFFICES ASSUME Inv, AddViewer PROVE Inv'
  OBVIOUS
<1> USE RelayAssumption DEF AddViewer
<1>1. CASE owner = None
  <2>1. NewConnectLoop
    BY <1>1
  <2>2. videoConn = None
    BY <1>1 DEF Inv, ConnectionIsCurrent, TypeOK
  <2> QED  BY <1>1, <2>1, <2>2, NewLoopEffect
             DEF Inv, TypeOK, OwnerIsWanted, ViewersAreOwned, OwnerDialsBackend, ConnectionIsCurrent
<1>2. CASE owner # None
  BY <1>2 DEF Inv, TypeOK, OwnerIsWanted, ViewersAreOwned, OwnerDialsBackend, ConnectionIsCurrent
<1> QED  BY <1>1, <1>2

LEMMA RemoveViewerInv == Inv /\ RemoveViewer => Inv'
<1> SUFFICES ASSUME Inv, RemoveViewer PROVE Inv'
  OBVIOUS
<1> QED  BY RelayAssumption DEF RemoveViewer, Inv, TypeOK, OwnerIsWanted, ViewersAreOwned,
                                OwnerDialsBackend, ConnectionIsCurrent

LEMMA StopInv == Inv /\ (IdleTimerFires \/ StopIfStillIdle \/ Close) => Inv'
<1> USE RelayAssumption DEF Inv, TypeOK, OwnerIsWanted, ViewersAreOwned, OwnerDialsBackend,
                            ConnectionIsCurrent
<1>1. Inv /\ IdleTimerFires => Inv'
  BY DEF IdleTimerFires
<1>2. ASSUME Inv, StopIfStillIdle PROVE Inv'
  <2>1. stops' \in 0..MaxStops /\ (idleStop = "armed" => stops' > 0)
    BY <1>2 DEF StopIfStillIdle
  <2>2. CASE viewers > 0 \/ ~desired
    BY <1>2, <2>1, <2>2 DEF StopIfStillIdle
  <2>3. CASE ~(viewers > 0 \/ ~desired)
    <3>1. desired' \in BOOLEAN /\ owner' = None /\ videoConn' = None /\ ~(viewers' > 0)
      BY <1>2, <2>3 DEF StopIfStillIdle
    <3> QED  BY <1>2, <2>1, <3>1 DEF StopIfStillIdle
  <2> QED  BY <2>2, <2>3
<1>3. ASSUME Inv, Close PROVE Inv'
  <2>1. desired' \in BOOLEAN /\ owner' = None /\ videoConn' = None /\ viewers' = 0
    BY <1>3 DEF Close
  <2> QED  BY <1>3, <2>1 DEF Close
<1> QED  BY <1>1, <1>2, <1>3

LEMMA SwitchBackendInv == ASSUME NEW b \in Backends PROVE Inv /\ SwitchBackend(b) => Inv'
<1> SUFFICES ASSUME Inv, SwitchBackend(b) PROVE Inv'
  OBVIOUS
<1> USE RelayAssumption DEF SwitchBackend
<1>1. CASE ShouldRun
  <2>1. NewConnectLoop
    BY <1>1
  <2> QED  BY <1>1, <2>1, NewLoopEffect
             DEF ShouldRun, Inv, TypeOK, OwnerIsWanted, ViewersAreOwned, OwnerDialsBackend,
                 ConnectionIsCurrent
<1>2. CASE ~ShouldRun
  BY <1>2 DEF ShouldRun, Inv, TypeOK, OwnerIsWanted, ViewersAreOwned, OwnerDialsBackend,
              ConnectionIsCurrent
<1> QED  BY <1>1, <1>2

LEMMA LoopStepInv == ASSUME NEW l \in Loops PROVE Inv /\ LoopStep(l) => Inv'
<1> SUFFICES ASSUME Inv, LoopStep(l) PROVE Inv'
  OBVIOUS
<1> USE RelayAssumption DEF Inv, TypeOK, OwnerIsWanted, ViewersAreOwned, OwnerDialsBackend,
                            ConnectionIsCurrent, LoopPC, Shared, Goto, Cancelled
<1>1. CASE LoopCheck(l)
  BY <1>1 DEF LoopCheck
<1>2. CASE ReadURL(l)
  BY <1>2 DEF ReadURL
<1>3. CASE DialFails(l)
  BY <1>3 DEF DialFails
<1>4. CASE DialSucceeds(l)
  BY <1>4 DEF DialSucceeds, Admitted
<1>5. CASE Disconnect(l)
  BY <1>5 DEF Disconnect
<1>6. CASE AfterAttempt(l)
  BY <1>6 DEF AfterAttempt
<1>7. CASE FinishConnectLoop(l)
  <2> USE <1>7 DEF FinishConnectLoop, Free
  <2>1. videoConn # l
    OBVIOUS
  <2>2. CASE owner # l
    BY <2>1, <2>2
  <2>3. CASE owner = l /\ ShouldRun
    <3>1. FreeLoops # {} /\ FreeLoop \in Loops /\ loop[FreeLoop].pc = "free" /\ FreeLoop # l
      BY <2>3, FreeLoopIsFree
    <3>2. owner' = FreeLoop /\ loop' = [loop EXCEPT ![l] = Free, ![FreeLoop].pc = "check"]
      BY <2>3
    <3> QED  BY <2>1, <2>3, <3>1, <3>2 DEF ShouldRun
  <2>4. CASE owner = l /\ ~ShouldRun
    BY <2>1, <2>4 DEF ShouldRun
  <2> QED  BY <2>2, <2>3, <2>4
<1> QED  BY <1>1, <1>2, <1>3, <1>4, <1>5, <1>6, <1>7 DEF LoopStep

LEMMA Invariance == Spec => []Inv
<1>1. Inv /\ [Next]_relayVars => Inv'
  <2> SUFFICES ASSUME Inv, [Next]_relayVars PROVE Inv'
    OBVIOUS
  <2>1. CASE UNCHANGED relayVars
    BY <2>1 DEF relayVars, Inv, TypeOK, OwnerIsWanted, ViewersAreOwned, OwnerDialsBackend,
                ConnectionIsCurrent
  <2>2. CASE Next
    BY <2>2, AddViewerInv, RemoveViewerInv, StopInv, SwitchBackendInv, LoopStepInv DEF Next
  <2> QED  BY <2>1, <2>2
<1> QED  BY <1>1, InitInv, PTL DEF Spec

(* AddViewer, finishConnectLoop: a viewer always has a live loop.          *)
THEOREM ViewersHaveALoop == Spec => []NoViewerWithoutLoop
<1>1. Inv => NoViewerWithoutLoop
  BY DEF Inv, OwnerIsWanted, ViewersAreOwned, NoViewerWithoutLoop
<1> QED  BY <1>1, Invariance, PTL

(* connectLoop, SwitchBackend: the kept connection is the owner's, to the  *)
(* configured phone.                                                       *)
THEOREM KeptConnectionIsCurrent == Spec => []ConnectionIsCurrent
<1>1. Inv => ConnectionIsCurrent
  BY DEF Inv
<1> QED  BY <1>1, Invariance, PTL

(* stopIfStillIdle: a connection that nobody watches is about to go.       *)
THEOREM IdleIsStopped == Spec => []IdleConnectionIsStopped
<1>1. Inv => IdleConnectionIsStopped
  BY RelayAssumption DEF Inv, TypeOK, OwnerIsWanted, ConnectionIsCurrent, IdleConnectionIsStopped
<1> QED  BY <1>1, Invariance, PTL

(* All of it together, with the shapes of the state.                       *)
THEOREM RelaySoundness == Spec => []RelayIsSound
<1>1. Inv => TypeOK
  BY DEF Inv
<1>2. TypeOK /\ NoViewerWithoutLoop /\ ConnectionIsCurrent /\ IdleConnectionIsStopped <=> RelayIsSound
  BY DEF RelayIsSound
<1> QED  BY <1>1, <1>2, Invariance, ViewersHaveALoop, KeptConnectionIsCurrent, IdleIsStopped, PTL
=============================================================================
