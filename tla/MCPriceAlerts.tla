---------------------------- MODULE MCPriceAlerts ----------------------------
(* Instances of PriceAlerts for TLC: lists of one row. *)
EXTENDS PriceAlerts

CONSTANTS u1, c1, s1

MCUsers == {u1}
MCComponents == {c1}
MCShops == {s1}
MCLists == {<<[key |-> k, price |-> p]>> : k \in MCComponents \X MCShops, p \in Prices}
=============================================================================
