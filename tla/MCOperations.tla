----------------------------- MODULE MCOperations -----------------------------
(***************************************************************************)
(* The back office on small instances.                                     *)
(***************************************************************************)
EXTENDS BackOffice, TLC

CONSTANTS
    p1, p2, r1, r2, x1, \* purchasing
    s1,                 \* stocktakes
    u1, u2, l1, l2,     \* accounts
    f1, k1, k2, t1, t2, \* sessions
    q1, q2,             \* requests
    v1, v2,             \* variants of the reports
    o1, o2              \* orders of the dashboards

L == INSTANCE InventoryLevel

MCReqs == {q1, q2}

\* One variant; a receipt's discount exceeds its costs by 1.
MCPurchaseOrders == {p1, p2}
MCReceipts == {r1, r2}
MCReturns == {x1}
MCMaxQty == p1 :> 2 @@ p2 :> 1
MCAdjustments == {-1}
MCBuyersOverlap == {"payments", "receipts"}
MCOpeningLevel == [L!ZeroLevel EXCEPT !["on_hand"] = 1, !["committed"] = 1]

\* A unit of variant 1 is held by an order.
MCShelved == {1, 2}
MCSheets == {s1}
MCCountersOverlap == {"none"}
MCOpeningLevels ==
    [v \in MCShelved |-> [L!ZeroLevel EXCEPT !["on_hand"] = 1, !["committed"] = 2 - v]]

MCUsers == {u1, u2}
MCLocations == {l1, l2}
MCAdminsOverlap == {FALSE}

MCFamilies == {f1}
MCApiKeys == {k1, k2}
MCUserOf == f1 :> "ann" @@ k1 :> "ann" @@ k2 :> "bob"
MCTabs == {t1, t2}
MCLosses == {TRUE, FALSE}

\* Nine units ordered and received, eight sold and shipped, one found by a resync.
Doc(type, onHand, committed, incoming, units) ==
    [type |-> type, onHand |-> onHand, committed |-> committed, incoming |-> incoming,
     sold |-> units]

MCVariants == {v1, v2}
MCRanges == {[gte |-> -9, lte |-> 99], [gte |-> 0, lte |-> 3], [gte |-> 1, lte |-> 99]}
MCFiles == {v1 :> 3, v2 :> 3, v1 :> 0 @@ v2 :> 3, v1 :> 3 @@ v2 :> 0}
MCDocuments ==
    {Doc("incoming_po", 0, 0, 9, 0), Doc("incoming_transfer", 0, 0, 9, 0),
     Doc("incoming_receipt", 9, 0, -9, 0), Doc("incoming_cancel", 0, 0, -9, 0),
     Doc("order_create", 0, 8, 0, 8), Doc("order_ship", -8, -8, 0, 0), Doc("adjust", 1, 0, 1, 0)}

\* 31 January 2024, 9 o'clock; 31 March, 1 and 20 o'clock.  One period of whole months,
\* and one from the 31st to the 1st.
MCSales == {o1, o2}
MCBranches == {"hn", "hcm"}
MCStaff == {"ann", "bob"}
MCKindOf ==
    o1 :> [location |-> "hn", staff |-> "ann", channel |-> "pos",
           sapo |-> FALSE, total |-> 2, refunded |-> 1, ofChannel |-> -1] @@
    o2 :> [location |-> "hcm", staff |-> "nobody", channel |-> "web",
           sapo |-> TRUE, total |-> 4, refunded |-> 0, ofChannel |-> 3]
MCMoments == <<760 * 24 + 9, 820 * 24 + 1, 820 * 24 + 20>>
MCCustoms == {[first |-> 730, last |-> 850], [first |-> 729, last |-> 821]}
MCViews == {[locations |-> {"hn", "hcm"}, channel |-> "any"]}

\* Digits up to 2, and numbers padded to one: the second overflows.
Kind(t, scheme, prefix, deleted) ==
    [table |-> t, scheme |-> scheme, prefix |-> prefix, deleted |-> deleted]

MCKinds ==
    {Kind("orders", "sequence", <<0>>, FALSE), Kind("orders", "sequence", <<1>>, FALSE),
     Kind("transfers", "sequence", <<>>, TRUE), Kind("purchase_orders", "highest", <<>>, TRUE),
     Kind("vouchers", "count", <<>>, FALSE), Kind("suppliers", "latest", <<>>, FALSE)}
MCTypedCodes == {<<2>>, <<0, 0, 1>>}

MCAmounts == {-2, 1}
MCPeriods == {[from |-> -1, to |-> -1], [from |-> 2, to |-> -1], [from |-> 1, to |-> 1],
              [from |-> 2, to |-> 1]}

Symmetry == Permutations(MCReceipts) \union Permutations(MCReqs) \union Permutations(MCVariants)

-----------------------------------------------------------------------------
\* What rests does so in one initial state.
MCInit ==
    /\ Init
    /\ area # "codes" => table = "orders"
    /\ area # "debts" => whose = "supplier"
    /\ area # "purchasing" => buyers = "payments"
    /\ area # "accounts" => roleAt[u1][l1] = "admin"
    /\ area # "sessions" => losses = FALSE

MCSpec == MCInit /\ [][Next]_vars

\* Bound: where requests on receipts overlap, there is one order.
OneOrderIfReceiptsOverlap == area = "purchasing" /\ buyers = "receipts" => po'[p2] = po[p2]
=============================================================================
