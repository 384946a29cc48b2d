-------------------------- MODULE MCInventoryLedger --------------------------
(***************************************************************************)
(* Three transactions over two rows: a stocked one (reserved by an earlier *)
(* order) and one nobody has written yet.  Each runs one of six documents. *)
(***************************************************************************)
EXTENDS InventoryLedger, TLC

MCVariants == {1, 2}
MCLocations == {1}

Stocked == <<1, 1>>
Unseen == <<2, 1>>

MCOpeningRows == {Stocked}
MCOpeningLevel ==
    [r \in Rows |-> IF r = Stocked
                    THEN [ZeroLevel EXCEPT !["on_hand"] = 2, !["committed"] = 1]
                    ELSE ZeroLevel]

M(bucket, change, type) == [bucket |-> bucket, change |-> change, type |-> type]
PostLine(seq) == [kind |-> "post", moves |-> seq]

\* An order of both variants, larger than what is in stock.
OrderCreate == (Stocked :> PostLine(<<M("committed", 2, "order_reserve")>>))
            @@ (Unseen :> PostLine(<<M("committed", 1, "order_reserve")>>))
\* The earlier order leaves the warehouse.
OrderShip == Stocked :> PostLine(<<M("on_hand", -1, "order_ship"),
                                   M("committed", -1, "order_ship")>>)
\* The earlier order is packed.
OrderPack == Stocked :> PostLine(<<M("committed", -1, "packing_start"),
                                   M("packed", 1, "packing_start")>>)
\* A goods receipt of the new variant: two of them race to create its row.
Receive == Unseen :> PostLine(<<M("on_hand", 1, "receipt")>>)
\* A transfer reserves one of each.
TransferSubmit == (Stocked :> PostLine(<<M("committed", 1, "transfer_reserve")>>))
               @@ (Unseen :> PostLine(<<M("committed", 1, "transfer_reserve")>>))
\* A stocktake counts one of the first and one of the second.
Stocktake == (Stocked :> [kind |-> "set", target |-> 1])
          @@ (Unseen :> [kind |-> "set", target |-> 1])

MCDocs == {OrderCreate, OrderShip, OrderPack, Receive, TransferSubmit, Stocktake}
=============================================================================
