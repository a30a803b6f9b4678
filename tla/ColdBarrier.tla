---------------------------- MODULE ColdBarrier ----------------------------
(***************************************************************************)
(* What a deliberate cold restart promises: one operation at a time closes *)
(* the phone to new work, and the barrier opens again only after the phone *)
(* has proved that its capture is down in answer to that very operation.   *)
(* A failed operation keeps the barrier closed until the next one.         *)
(***************************************************************************)
CONSTANTS Ops, NoOp

VARIABLES
    holder,    \* the operation the barrier belongs to
    gate,      \* "open", "closed" or "failed"
    released   \* operations whose shutdown the phone has proved

vars == <<holder, gate, released>>

Init == holder = NoOp /\ gate = "open" /\ released = {}

Close(o) == /\ gate # "closed" /\ o # holder
            /\ holder' = o /\ gate' = "closed" /\ UNCHANGED released

Prove(o) == released' = released \cup {o} /\ UNCHANGED <<holder, gate>>

Fail == gate = "closed" /\ gate' = "failed" /\ UNCHANGED <<holder, released>>

Open == /\ gate = "closed" /\ holder \in released
        /\ gate' = "open" /\ UNCHANGED <<holder, released>>

Next == Fail \/ Open \/ \E o \in Ops : Close(o) \/ Prove(o)

Spec == Init /\ [][Next]_vars
=============================================================================
