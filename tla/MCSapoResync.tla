---------------------------- MODULE MCSapoResync ----------------------------
(***************************************************************************)
(* Two services and one resync over a row that exists and one that does    *)
(* not.  Sapo may know both rows, only the first, or agree with it.        *)
(***************************************************************************)
EXTENDS SapoResync, TLC

MCVariants == {1, 2}
MCLocations == {1}

Stocked == <<1, 1>>
Unseen == <<2, 1>>

L(onHand, committed, incoming) ==
    [ZeroLevel EXCEPT !["on_hand"] = onHand, !["committed"] = committed,
                      !["incoming"] = incoming]

MCOpeningRows == {Stocked}
MCOpeningLevel == [r \in Rows |-> IF r = Stocked THEN L(2, 1, 0) ELSE ZeroLevel]

M(bucket, change, type) == [bucket |-> bucket, change |-> change, type |-> type]
PostLine(seq) == [kind |-> "post", moves |-> seq]

OrderCreate == Stocked :> PostLine(<<M("committed", 1, "order_reserve")>>)
OrderShip == Stocked :> PostLine(<<M("on_hand", -1, "order_ship"),
                                   M("committed", -1, "order_ship")>>)
Receive == (Stocked :> PostLine(<<M("on_hand", 1, "receipt")>>))
        @@ (Unseen :> PostLine(<<M("incoming", 1, "incoming_po")>>))

MCDocs == {OrderCreate, OrderShip, Receive}

MCSapoAnswers ==
    { (Stocked :> L(3, 0, 1)) @@ (Unseen :> L(1, 0, 1)),
      Stocked :> L(1, 1, 0),
      Stocked :> L(2, 1, 0) }
=============================================================================
