---------------------------- MODULE RelayDemand -----------------------------
(* The relay's demand for the phone and for its pictures: the viewer        *)
(* references and, beside them, the capture demand.  The two share no       *)
(* state, so a behaviour is one of either part.                             *)
EXTENDS RelayViewers

CONSTANTS Senders, MaxEpoch, MaxConnection  \* of CaptureDemand

ASSUME DemandAssumption ==
    /\ IsFiniteSet(Senders) /\ None \notin Senders
    /\ MaxEpoch \in Nat /\ MaxConnection \in Nat

VARIABLES part, epoch, conn, connected, reader, owed, viewer, asking, demand, sender

captureVars == <<epoch, conn, connected, reader, owed, viewer, asking, demand, sender>>

Capture == INSTANCE CaptureDemand

DemandInit == part \in {"viewers", "capture"} /\ Init /\ Capture!Init

DemandNext ==
    \/ part = "viewers" /\ Next /\ UNCHANGED <<part, captureVars>>
    \/ part = "capture" /\ Capture!Next /\ UNCHANGED <<part, viewerVars>>

DemandSpec == DemandInit /\ [][DemandNext]_<<part, viewerVars, captureVars>>

(* A receipt in force is of the demand's epoch and connection, and no       *)
(* sender runs beside it (capture_demand.go).                               *)
ReceiptIsCurrent == Capture!TypeOK /\ Capture!ReceiptIsCurrent
=============================================================================
