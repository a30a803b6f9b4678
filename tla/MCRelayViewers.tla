--------------------------- MODULE MCRelayViewers ---------------------------
EXTENDS RelayDemand, TLC

CONSTANTS c1, c2, o1, s1

(* Two sockets of one page load. *)
MCSessionOf == (c1 :> s1) @@ (c2 :> s1) @@ (o1 :> s1)
MCOpeningOf == (c1 :> o1) @@ (c2 :> o1)
=============================================================================
