---------------------------- MODULE MCOrderReturns ----------------------------
(***************************************************************************)
(* Two returns of one order of one unit at a price of 2, two requests.     *)
(***************************************************************************)
EXTENDS OrderReturns, TLC

Interchangeable == Permutations(Reqs) \union Permutations(Returns)
AllOverlaps == {"none", "requests", "transactions"}
=============================================================================
