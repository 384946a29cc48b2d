--------------------------- MODULE InventoryLevel ---------------------------
(***************************************************************************)
(* One row of inventory_levels and the rule that lets a movement post to   *)
(* it: src/src/modules/inventory/inventory.types.ts and the loop body of   *)
(* InventoryService.applyMovementsInternal.  The columns price and cost    *)
(* are left out (nothing about stock depends on them), and so are the      *)
(* pseudo buckets `available` and `reserved`, which setBucketValue ignores *)
(* and no caller posts to.                                                 *)
(***************************************************************************)
EXTENDS Integers, Sequences

Buckets == {"on_hand", "committed", "packed", "unavailable", "incoming"}

\* The steps of an order's life, allowed to take available below zero.
OrderLifecycleTypes == {"order_reserve", "order_release", "packing_start",
                        "packing_cancel", "order_ship"}

MovementTypes == OrderLifecycleTypes \union
    {"receipt", "transfer_out", "transfer_in", "return_out", "return_in",
     "adjust", "incoming_po", "incoming_receipt", "incoming_cancel",
     "incoming_transfer", "transfer_reserve", "transfer_release"}

Movement == [bucket : Buckets, change : Int, type : MovementTypes]

Level == [Buckets -> Int]

ZeroLevel == [b \in Buckets |-> 0]

ComputeAvailable(l) ==
    l["on_hand"] - l["committed"] - l["packed"] - l["unavailable"]

SetBucketValue(l, b, value) == [l EXCEPT ![b] = value]

\* The level after movement m, before anything checks it.
Moved(l, m) == SetBucketValue(l, m.bucket, l[m.bucket] + m.change)

\* Mutant: the sign of a change decides alone.
WorsensAvailableBySign(m) == m.bucket # "incoming" /\ m.change < 0

\* The direction in which m pulls available; incoming is outside the formula.
WorsensAvailable(m) ==
    IF m.bucket = "on_hand" THEN m.change < 0
                            ELSE m.bucket # "incoming" /\ m.change > 0

\* A movement that would leave its bucket negative throws; on_hand may pass
\* this first test when available stays non-negative, or for an adjustment.
RefusedNegative(l, m) ==
    /\ Moved(l, m)[m.bucket] < 0
    /\ m.bucket = "on_hand" => /\ ComputeAvailable(Moved(l, m)) < 0
                               /\ m.type # "adjust"

\* Any other module than the order's lifecycle may not oversell.
RefusedOversell(l, m) ==
    /\ ComputeAvailable(Moved(l, m)) < 0
    /\ WorsensAvailable(m)
    /\ m.bucket # "unavailable"
    /\ m.type \notin OrderLifecycleTypes

Refused(l, m) == RefusedNegative(l, m) \/ RefusedOversell(l, m)

\* A movement that may take available below zero without being refused.
MayOversell(m) == m.bucket = "unavailable" \/ m.type \in OrderLifecycleTypes
=============================================================================
