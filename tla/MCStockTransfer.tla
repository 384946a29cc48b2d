--------------------------- MODULE MCStockTransfer ---------------------------
(***************************************************************************)
(* Two transfers, one variant, two warehouses, and two or three requests.  *)
(***************************************************************************)
EXTENDS StockTransfer, TLC

MCVariants == {1}
MCLocations == {1, 2}
Content(from, to, n) == [from |-> from, to |-> to, qty |-> [v \in {1} |-> n]]
MCContents == {Content(1, 2, 1), Content(2, 1, 1), Content(1, 2, 2)}
MCOpeningLevel ==
    [r \in Rows |-> [ZeroLevel EXCEPT !["on_hand"] = IF r[2] = 1 THEN 3 ELSE 1,
                                      !["committed"] = IF r[2] = 1 THEN 1 ELSE 0]]
Interchangeable == Permutations(Reqs)

\* Bounds of the behaviours in which requests overlap on a document: orders
\* stand still, a transfer carries one unit and edits are of the warehouses.
SmallIfOverlapping ==
    overlap' =>
        /\ ordered' = ordered
        /\ \A x \in Transfers : status'[x] # "none" => content'[x].qty[1] = 1
        /\ \A q \in Reqs : req'[q].pc # "idle" =>
              req'[q].seen.qty[1] = 1 /\ "qty" \notin req'[q].sets
=============================================================================
