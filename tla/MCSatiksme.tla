----------------------------- MODULE MCSatiksme -----------------------------
(* Small instances of the parts of the satiksme bot.                        *)
EXTENDS Satiksme, TLC

CONSTANTS s1, v1, v2, a1, i1, i2, i3, g1, g2, l1, l2

(* Long chats in batches of one message, and short ones in batches of two.  *)
MCChatSizes == {[messages |-> 3, batch |-> 1], [messages |-> 2, batch |-> 2]}

(* A stop, two vehicles whose public ids collide, and an area.              *)
MCScopes == {s1, v1, v2, a1}
MCKindOf == (s1 :> "stop") @@ (v1 :> "vehicle") @@ (v2 :> "vehicle") @@ (a1 :> "area")
MCPublicID == (s1 :> i1) @@ (v1 :> i2) @@ (v2 :> i2) @@ (a1 :> i3)
MCAliasOf == (s1 :> "s") @@ (v1 :> "v") @@ (v2 :> "v") @@ (a1 :> "a")

(* Two editions of the city's files: a stop is added that only GTFS         *)
(* connects.                                                                *)
MCStopsIn == <<{g1}, {g1, g2}>>
MCRoutesIn == <<{[label |-> l1, stops |-> {g1, g2}]}, {[label |-> l1, stops |-> {g1}]}>>
MCGtfsIn == <<(g1 :> {l1}), (g1 :> {l1}) @@ (g2 :> {l2})>>
MCNear == {<<g2, g1>>}

(* Files that grow old, and one more catalogue in a shorter time.           *)
MCCatalogSizes == {[time |-> 4, builds |-> 2], [time |-> 2, builds |-> 3]}
=============================================================================
