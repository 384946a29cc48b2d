-------------------------- MODULE MCOrderFulfillment --------------------------
(***************************************************************************)
(* Two orders of up to two units, one shipped directly, the other in up to *)
(* two packages one after the other, and two requests.                     *)
(***************************************************************************)
EXTENDS OrderFulfillment, TLC

\* Three units: not enough for both orders in full.
MCOpeningLevel == [ZeroLevel EXCEPT !["on_hand"] = 3]
Interchangeable == Permutations(Reqs)

CONSTANTS o1, o2
MCMaxQty == [o \in Orders |-> 2]
MCMaxPackages == [o \in Orders |-> IF o = o1 THEN 2 ELSE 0]
=============================================================================
