--------------------------- MODULE OrderFulfillment ---------------------------
(***************************************************************************)
(* OrderService and FulfillmentService over the stock of one variant at    *)
(* one warehouse: orders reserve goods, are confirmed, packed, handed to a *)
(* carrier, delivered or brought back, paid, completed or cancelled.  Each *)
(* handler reads the order (and the package) and checks its guards, then   *)
(* opens a transaction that mostly trusts what it read; the transaction is *)
(* atomic as AtomicLedger says.  Requests of staff, webhooks of carriers   *)
(* and payments run at once.  A unit costs 1, so that an order's total is  *)
(* its quantity.  Orders of sales channels, which hold no stock of their   *)
(* own, and the notifications are left out.                                *)
(***************************************************************************)
EXTENDS StockPosting, FiniteSets, Functions

CONSTANTS
    Orders, Reqs,
    MaxQty,         \* bound, of each order: its units
    MaxPackages,    \* and the packages made for it, one after the other
    OpeningLevel,
    OneAtATime,     \* TRUE: nobody works on an order someone works on
    FollowsFlow     \* TRUE: staff pack and send only goods still in the house

ASSUME OrdersAssumption == IsFiniteSet(Orders) /\ Orders # {}
ASSUME BoundsAssumption ==
    MaxQty \in [Orders -> Nat \ {0}] /\ MaxPackages \in [Orders -> Nat]
ASSUME OpeningAssumption == OpeningLevel \in [Buckets -> Nat]

Packages(o) == 1..MaxPackages[o]
Quantities(o) == 1..MaxQty[o]

VARIABLES
    order,      \* oms.orders
    package,    \* oms.fulfillments, by order
    level,      \* inventory_levels
    debt,       \* the customer's ledger, summed up
    req         \* what each request is doing

vars == <<order, package, level, debt, req>>

OrderStatus == {"none", "open", "closed", "cancelled"}
FinancialStatus == {"pending", "partially_paid", "paid",
                    "partially_refunded", "refunded"}
ShipmentStatus == {"none", "pending", "picked_up", "delivering", "delivered",
                   "retry_delivery", "returning", "returned", "cancelled"}

NoOrder == [status |-> "none", qty |-> 0, confirmed |-> FALSE, shipped |-> FALSE,
            fulfilled |-> FALSE, financial |-> "pending", received |-> 0,
            refunded |-> 0, returned |-> 0]
NoPackage == [packing |-> "absent", packedOn |-> FALSE, shipment |-> "none",
              open |-> FALSE]

\* The table `allowed' of applyShipmentStatus.
Allowed ==
    [s \in ShipmentStatus |->
        CASE s = "pending" -> {"picked_up", "cancelled"}
          [] s = "picked_up" -> {"delivering", "cancelled"}
          [] s = "delivering" -> {"delivered", "retry_delivery", "cancelled"}
          [] s = "retry_delivery" -> {"delivering", "returning", "cancelled"}
          [] s = "returning" -> {"returned", "cancelled"}
          [] OTHER -> {}]
Steps == UNION {Allowed[s] : s \in ShipmentStatus}

OrderOps == {"processing", "cancel", "ship", "complete", "pay", "update",
             "packing_request", "push"}
PackageOps == {"packing", "packed", "discard"} \union Steps

Idle == [pc |-> "idle", op |-> "pay", o |-> CHOOSE o \in Orders : TRUE, k |-> 1,
         n |-> 1, order |-> NoOrder, package |-> NoPackage]

OpenPackages(o) == {k \in Packages(o) : package[o][k].open}

FinancialOf(received, total) ==
    IF received >= total THEN "paid"
    ELSE IF received > 0 THEN "partially_paid" ELSE "pending"

\* recomputeOrderRefundStatuses, as far as money goes.
Recomputed(r) ==
    IF r.refunded <= 0 THEN r
    ELSE [r EXCEPT !.financial =
            IF r.refunded >= r.qty THEN "refunded" ELSE "partially_refunded"]

-----------------------------------------------------------------------------
(* What each handler demands of what it reads before its transaction.      *)

Confirmed(o) == order[o].status = "open" /\ order[o].confirmed

\* assertNotReturned, assertSufficientPhysicalStock; nothing asks whether the
\* goods have already left, which staff know (FollowsFlow).
MayBeSent(o) ==
    /\ Confirmed(o)
    /\ order[o].returned = 0
    /\ level["on_hand"] >= order[o].qty
    /\ FollowsFlow => ~order[o].shipped

MayLeaveDirectly(o) ==
    Confirmed(o) /\ OpenPackages(o) = {} /\ order[o].returned = 0

OrderAdmits(op, o, n) ==
    CASE op = "processing" -> order[o].status = "open" /\ ~order[o].confirmed
      [] op = "update" -> /\ order[o].status = "open" /\ ~order[o].confirmed
                          /\ n >= order[o].received
      [] op = "cancel" -> /\ order[o].status = "open" /\ OpenPackages(o) = {}
                          /\ ~order[o].shipped
      [] op = "ship" -> MayLeaveDirectly(o) /\ ~order[o].shipped
      [] op = "complete" -> MayLeaveDirectly(o)
      [] op = "pay" -> order[o].status \notin {"none", "cancelled"}
                          /\ order[o].financial # "paid"
      [] op \in {"packing_request", "push"} -> MayBeSent(o)

PackageAdmits(op, p) ==
    /\ p.open
    /\ CASE op = "packing" -> p.packing = "unknown"
         [] op = "packed" -> /\ p.packing \in {"unknown", "packing"}
                             /\ FollowsFlow => p.shipment \in {"none", "pending"}
         [] op = "discard" -> p.shipment \in {"none", "pending"}
         [] OTHER -> op \in Allowed[p.shipment]

-----------------------------------------------------------------------------
Init ==
    /\ order = [o \in Orders |-> NoOrder]
    /\ package = [o \in Orders |-> [k \in Packages(o) |-> NoPackage]]
    /\ level = OpeningLevel
    /\ debt = 0
    /\ req = [q \in Reqs |-> Idle]

Unwatched(o) == OneAtATime => \A q \in Reqs : req[q].pc = "idle" \/ req[q].o # o

ReadOrder(q, o, op, n) ==
    /\ req[q].pc = "idle" /\ Unwatched(o)
    /\ OrderAdmits(op, o, n)
    /\ req' = [req EXCEPT ![q] = [Idle EXCEPT !.pc = "tx", !.op = op, !.o = o,
                                              !.n = n, !.order = order[o]]]
    /\ UNCHANGED <<order, package, level, debt>>

\* loadFulfillment, or the webhook's own lookup.
ReadPackage(q, o, k, op) ==
    /\ req[q].pc = "idle" /\ Unwatched(o)
    /\ PackageAdmits(op, package[o][k])
    /\ req' = [req EXCEPT ![q] = [pc |-> "tx", op |-> op, o |-> o, k |-> k, n |-> 1,
                                  order |-> order[o], package |-> package[o][k]]]
    /\ UNCHANGED <<order, package, level, debt>>

Post(entries) ==
    /\ LinePasses(level, PostLine(entries))
    /\ level' = AfterLine(level, PostLine(entries))

\* The transaction of request q, for operation op, commits.
Ends(q, op) ==
    /\ req[q].pc = "tx" /\ req[q].op = op
    /\ req' = [req EXCEPT ![q] = Idle]

\* The row of an order of n units of which so many were paid at the counter.
NewOrder(n, paid) ==
    [NoOrder EXCEPT !.status = "open", !.qty = n, !.received = paid,
                    !.financial = FinancialOf(paid, n)]

\* OrderService.create, perhaps paid in full at the counter.
Create(o) ==
    /\ order[o].status = "none"
    /\ \E n \in Quantities(o) : \E paid \in {0, n} :
          /\ Post(<<Entry("committed", n, "order_reserve")>>)
          /\ order' = [order EXCEPT ![o] = NewOrder(n, paid)]
          /\ debt' = debt + n - paid
    /\ UNCHANGED <<package, req>>

\* update with line_items, written from the order as it was read; units are
\* given back only as far as they are held.
Update(q) ==
    LET r == req[q]
        delta == r.n - r.order.qty
        back == IF -delta <= level["committed"] THEN -delta
                ELSE IF level["committed"] > 0 THEN level["committed"] ELSE 0
    IN  /\ Ends(q, "update")
        /\ Post(IF delta = 0 THEN << >>
                ELSE IF delta > 0 THEN <<Entry("committed", delta, "order_reserve")>>
                ELSE <<Entry("committed", -back, "order_release")>>)
        /\ order' = [order EXCEPT ![r.o].qty = r.n,
                        ![r.o].financial = FinancialOf(r.order.received, r.n)]
        /\ debt' = debt + delta
        /\ UNCHANGED package

Processing(q) ==
    /\ Ends(q, "processing")
    /\ order' = [order EXCEPT ![req[q].o].confirmed = TRUE]
    /\ UNCHANGED <<package, level, debt>>

\* Mutant: what the carrier brought back is released once more.
RemainingAll(r) == r.order.qty

\* What has come back is read in the transaction.
Remaining(r) == r.order.qty - order[r.o].returned

\* Mutant: only an order paid in full is refunded.
RefundDueInFull(r) == IF r.order.financial = "paid" THEN r.order.received ELSE 0

RefundDue(r) == r.order.received

\* The units, the debt and the money to refund are those the handler read.
Cancel(q) ==
    LET r == req[q]
    IN  /\ Ends(q, "cancel")
        /\ Post(IF Remaining(r) > 0
                THEN <<Entry("committed", -Remaining(r), "order_release")>> ELSE << >>)
        /\ order' = [order EXCEPT ![r.o] = Recomputed(
                [order[r.o] EXCEPT !.status = "cancelled", !.refunded = @ + RefundDue(r)])]
        /\ debt' = debt - r.order.qty
        /\ UNCHANGED package

\* shipOrderItems
ShipEntries(n) == <<Entry("on_hand", -n, "order_ship"),
                    Entry("committed", -n, "order_ship")>>

Ship(q) ==
    LET r == req[q]
    IN  /\ Ends(q, "ship")
        /\ Post(ShipEntries(r.order.qty))
        /\ order' = [order EXCEPT ![r.o].shipped = TRUE, ![r.o].fulfilled = TRUE]
        /\ UNCHANGED <<package, debt>>

\* It ships what has not been shipped, as far as it has read.
Complete(q) ==
    LET r == req[q]
    IN  /\ Ends(q, "complete")
        /\ Post(IF r.order.shipped THEN << >> ELSE ShipEntries(r.order.qty))
        /\ order' = [order EXCEPT ![r.o].status = "closed", ![r.o].shipped = TRUE,
                                  ![r.o].fulfilled = TRUE]
        /\ UNCHANGED <<package, debt>>

\* IN_FLIGHT_FULFILLMENT_WHERE
InFlight(p) ==
    \/ p.shipment \in {"pending", "picked_up", "delivering", "retry_delivery", "returning"}
    \/ p.shipment = "none" /\ p.open

DeliveredAndNothingInFlight(o) ==
    /\ \E k \in Packages(o) : package[o][k].shipment = "delivered"
    /\ \A k \in Packages(o) : ~InFlight(package[o][k])

\* Mutant: only the open package is asked for.
ClosesWithOpenPackage(o) == order[o].status = "open" /\ OpenPackages(o) # {}

\* closeOrderIfDeliveredAndPaid
Closes(o) == order[o].status = "open" /\ DeliveredAndNothingInFlight(o)

\* Mutant: the limit is the whole total, for each payment.
PayableByTotal(r) == r.n <= order[r.o].qty

Payable(r) == order[r.o].received + r.n <= order[r.o].qty

\* Mutant: every payment takes all that has been received off the debt.
PaymentOfAll(r) == order[r.o].received + r.n

Payment(r) == r.n

\* The order row is locked and read again (lockPayment); the last payment
\* closes an order whose package has been delivered.
Pay(q) ==
    LET r == req[q]
        received == order[r.o].received + r.n
    IN  /\ Ends(q, "pay")
        /\ Payable(r)
        /\ order' = [order EXCEPT
              ![r.o].received = received,
              ![r.o].financial = FinancialOf(received, order[r.o].qty),
              ![r.o].status = IF received >= order[r.o].qty /\ Closes(r.o)
                              THEN "closed" ELSE @]
        /\ debt' = debt - Payment(r)
        /\ UNCHANGED <<package, level>>

-----------------------------------------------------------------------------
\* A package is made, unless one is open (findOpen in the transaction, and the
\* index fulfillments_one_open_per_order).
Make(o, k, shipment) ==
    /\ OpenPackages(o) = {}
    /\ package[o][k] = NoPackage /\ \A j \in 1..(k - 1) : package[o][j] # NoPackage
    /\ package' = [package EXCEPT ![o][k] =
                    [packing |-> "unknown", packedOn |-> FALSE,
                     shipment |-> shipment, open |-> TRUE]]

PackingRequest(q) ==
    /\ Ends(q, "packing_request")
    /\ \E k \in Packages(req[q].o) : Make(req[q].o, k, "none")
    /\ order' = [order EXCEPT ![req[q].o].fulfilled = TRUE]
    /\ UNCHANGED <<level, debt>>

\* The carrier has been asked; the open package gets its shipment, or a new one.
Push(q) ==
    LET o == req[q].o
    IN  /\ Ends(q, "push")
        /\ \/ \E k \in OpenPackages(o) :
                 /\ package[o][k].shipment = "none"
                 /\ package' = [package EXCEPT ![o][k].shipment = "pending"]
           \/ \E k \in Packages(o) : Make(o, k, "pending")
        /\ order' = [order EXCEPT ![o].fulfilled = TRUE]
        /\ UNCHANGED <<level, debt>>

Packing(q) ==
    /\ Ends(q, "packing")
    /\ package' = [package EXCEPT ![req[q].o][req[q].k].packing = "packing"]
    /\ UNCHANGED <<order, level, debt>>

Packed(q) ==
    LET r == req[q]
    IN  /\ Ends(q, "packed")
        /\ Post(<<Entry("committed", -r.order.qty, "packing_start"),
                  Entry("packed", r.order.qty, "packing_start")>>)
        /\ package' = [package EXCEPT ![r.o][r.k].packing = "packed",
                                      ![r.o][r.k].packedOn = TRUE]
        /\ UNCHANGED <<order, debt>>

Unpack(r) ==
    Post(IF r.package.packedOn
         THEN <<Entry("packed", -r.order.qty, "packing_cancel"),
                Entry("committed", r.order.qty, "packing_cancel")>>
         ELSE << >>)

\* FulfillmentService.cancel, once the carrier has agreed.
Discard(q) ==
    LET r == req[q]
    IN  /\ Ends(q, "discard")
        /\ Unpack(r)
        /\ package' = [package EXCEPT ![r.o][r.k].open = FALSE,
                ![r.o][r.k].shipment = IF r.package.shipment = "none" THEN @ ELSE "cancelled"]
        /\ order' = [order EXCEPT ![r.o].fulfilled = FALSE]
        /\ UNCHANGED debt

\* Where the goods of a package are reserved.
ReservedBucket(p) == IF p.packedOn THEN "packed" ELSE "committed"

\* The carrier takes the goods.
PickedUp(q) ==
    LET r == req[q]
    IN  /\ Ends(q, "picked_up")
        /\ Post(<<Entry("on_hand", -r.order.qty, "order_ship"),
                  Entry(ReservedBucket(r.package), -r.order.qty, "order_ship")>>)
        /\ package' = [package EXCEPT ![r.o][r.k].shipment = "picked_up"]
        /\ order' = [order EXCEPT ![r.o].shipped = TRUE]
        /\ UNCHANGED debt

\* delivering, retry_delivery and returning touch the package alone.
OnTheRoad(q) ==
    LET r == req[q]
    IN  \E s \in {"delivering", "retry_delivery", "returning"} :
          /\ Ends(q, s)
          /\ package' = [package EXCEPT ![r.o][r.k].shipment = s]
          /\ UNCHANGED <<order, level, debt>>

\* The order is closed if it was paid when the handler read it.
Delivered(q) ==
    LET r == req[q]
    IN  /\ Ends(q, "delivered")
        /\ package' = [package EXCEPT ![r.o][r.k].shipment = "delivered",
                                      ![r.o][r.k].open = FALSE]
        /\ order' = [order EXCEPT ![r.o].fulfilled = TRUE,
                ![r.o].status = IF r.order.financial = "paid" THEN "closed" ELSE @]
        /\ UNCHANGED <<level, debt>>

\* The carrier gives up: before it took the goods they go back to the
\* reservation, afterwards they come back and are reserved again.
CancelledByCarrier(q) ==
    LET r == req[q]
        early == r.package.shipment = "pending"
    IN  /\ Ends(q, "cancelled")
        /\ IF early THEN Unpack(r)
           ELSE Post(<<Entry("on_hand", r.order.qty, "return_in"),
                       Entry("committed", r.order.qty, "order_reserve")>>)
        /\ order' = [order EXCEPT ![r.o].fulfilled = FALSE,
                                  ![r.o].shipped = IF early THEN @ ELSE FALSE]
        /\ package' = [package EXCEPT ![r.o][r.k].shipment = "cancelled",
                                      ![r.o][r.k].open = FALSE]
        /\ UNCHANGED debt

\* The goods are back and for sale: a refund without money records them.
Returned(q) ==
    LET r == req[q]
    IN  /\ Ends(q, "returned")
        /\ Post(<<Entry("on_hand", r.order.qty, "return_in")>>)
        /\ package' = [package EXCEPT ![r.o][r.k].shipment = "returned",
                                      ![r.o][r.k].open = FALSE]
        /\ order' = [order EXCEPT ![r.o] = Recomputed(
                [order[r.o] EXCEPT !.shipped = FALSE, !.returned = @ + r.order.qty])]
        /\ UNCHANGED debt

\* A check in the transaction refuses, or it times out: nothing of it stays.
Fail(q) ==
    /\ req[q].pc = "tx"
    /\ req' = [req EXCEPT ![q] = Idle]
    /\ UNCHANGED <<order, package, level, debt>>

Next ==
    \/ \E o \in Orders : Create(o)
    \/ \E q \in Reqs, o \in Orders, op \in OrderOps :
          \E n \in IF op \in {"pay", "update"} THEN Quantities(o) ELSE {1} :
              ReadOrder(q, o, op, n)
    \/ \E q \in Reqs, o \in Orders, op \in PackageOps :
          \E k \in Packages(o) : ReadPackage(q, o, k, op)
    \/ \E q \in Reqs :
          \/ Update(q) \/ Processing(q) \/ Cancel(q) \/ Ship(q) \/ Complete(q)
          \/ Pay(q) \/ PackingRequest(q) \/ Push(q) \/ Packing(q) \/ Packed(q)
          \/ Discard(q) \/ PickedUp(q) \/ OnTheRoad(q) \/ Delivered(q)
          \/ CancelledByCarrier(q) \/ Returned(q) \/ Fail(q)

Spec == Init /\ [][Next]_vars

-----------------------------------------------------------------------------
\* The types of the orders, packages, stock and requests.
TypeOK ==
    /\ DOMAIN order = Orders /\ DOMAIN package = Orders
    /\ \A o \in Orders :
          /\ order[o] \in
                [status : OrderStatus, qty : 0..MaxQty[o], confirmed : BOOLEAN,
                 shipped : BOOLEAN, fulfilled : BOOLEAN, financial : FinancialStatus,
                 received : 0..MaxQty[o], refunded : Nat, returned : Nat]
          /\ package[o] \in [Packages(o) ->
                [packing : {"absent", "unknown", "packing", "packed"},
                 packedOn : BOOLEAN, shipment : ShipmentStatus, open : BOOLEAN]]
    /\ level \in Level
    /\ debt \in Int
    /\ \A q \in Reqs :
          /\ req[q].pc \in {"idle", "tx"} /\ req[q].op \in OrderOps \union PackageOps
          /\ req[q].o \in Orders
          /\ req[q].k \in Nat /\ req[q].n \in Quantities(req[q].o)

\* The units of all orders of which a condition holds.
UnitsOf(P(_)) == SumFunctionOnSet([o \in Orders |-> IF P(o) THEN order[o].qty ELSE 0], Orders)

Stands(o) == order[o].status \in {"open", "closed"}

Shipped(o) == order[o].shipped

\* A package packed and still in the house.
PackedInside(o) ==
    \E k \in OpenPackages(o) :
        package[o][k].packedOn /\ package[o][k].shipment \in {"none", "pending"}

Reserved(o) == Stands(o) /\ ~Shipped(o) /\ order[o].returned = 0 /\ ~PackedInside(o)

\* The physical stock lacks exactly the goods of the orders marked as shipped,
\* and what is reserved or packed are the goods of orders that hold them: no sequence of
\* packing, shipping, failed and repeated delivery and cancellation ships or
\* releases an order's goods twice, or forgets them.
StockMatchesOrders ==
    /\ level["on_hand"] = OpeningLevel["on_hand"] - UnitsOf(Shipped)
    /\ level["committed"] = OpeningLevel["committed"] + UnitsOf(Reserved)
    /\ level["packed"] = OpeningLevel["packed"] + UnitsOf(PackedInside)

\* A cancelled order has no package under way, and the customer gets back what
\* was paid ("total_refunded = what the customer has paid").
CancelledIsSettled ==
    \A o \in Orders : order[o].status = "cancelled" =>
        OpenPackages(o) = {} /\ order[o].refunded = order[o].received

\* The customer's ledger says what the orders say: the value of the orders
\* that stand, less all that has been paid.
DebtMatchesOrders ==
    debt = UnitsOf(Stands) - SumFunctionOnSet([o \in Orders |-> order[o].received], Orders)

\* "Close an order once BOTH halves are there, delivered and paid" (comment of
\* closeOrderIfDeliveredAndPaid), when nobody is working on it.
PaidAndDeliveredCloses ==
    \A o \in Orders :
        /\ order[o].financial = "paid" /\ DeliveredAndNothingInFlight(o)
        /\ \A q \in Reqs : req[q].pc = "idle" \/ req[q].o # o
        => order[o].status # "open"
=============================================================================
