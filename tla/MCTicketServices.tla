-------------------------- MODULE MCTicketServices --------------------------
(* Small instances of the parts of TicketServices.                          *)
EXTENDS TicketServices, TLC

CONSTANTS p1, p2, c1, c2, c3, g1, g2, s1, s2

(* One run of the phone and time for two incidents, a phone that starts     *)
(* anew, and a device that subscribes again.                                *)
MCMonitoringSizes ==
    {[time |-> 2, reports |-> 2, epochs |-> 2, sessions |-> 1, subscribes |-> 1],
     [time |-> 1, reports |-> 2, epochs |-> 2, sessions |-> 2, subscribes |-> 1],
     [time |-> 2, reports |-> 1, epochs |-> 1, sessions |-> 1, subscribes |-> 2]}

(* One change of the membership and time, and more changes in less time. *)
MCAccessSizes == {[time |-> 3, changes |-> 1], [time |-> 1, changes |-> 2]}

(* Two sockets of one page, and a page of another browser. *)
MCPageOf == (c1 :> g1) @@ (c2 :> g1) @@ (c3 :> g2)
MCSessionOf == (g1 :> s1) @@ (g2 :> s2)

Symmetry == Permutations(Sessions)
=============================================================================
