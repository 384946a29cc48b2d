----------------------- MODULE OrderFulfillmentProofs -----------------------
(***************************************************************************)
(* Theorems about OrderFulfillment, for any number of orders, units,       *)
(* packages and requests.  Types are kept however requests overlap.  The   *)
(* stock, the debt, the cancelled orders and the closing of orders agree   *)
(* as long as one request at a time works on an order (OneAtATime), and,   *)
(* where the code relies on it, staff pack and send only what is still in  *)
(* the house (FollowsFlow).                                                *)
(***************************************************************************)
EXTENDS OrderFulfillment, SharedLemmas

-----------------------------------------------------------------------------
(* The inductive invariant.                                                *)

OrderRow(o) ==
    [status : OrderStatus, qty : 0..MaxQty[o], confirmed : BOOLEAN,
     shipped : BOOLEAN, fulfilled : BOOLEAN, financial : FinancialStatus,
     received : 0..MaxQty[o], refunded : Nat, returned : Nat]

PackageRow == [packing : {"absent", "unknown", "packing", "packed"},
               packedOn : BOOLEAN, shipment : ShipmentStatus, open : BOOLEAN]

PackageRows(o) == [Packages(o) -> PackageRow]

Tables ==
    /\ DOMAIN order = Orders /\ DOMAIN package = Orders
    /\ \A o \in Orders : order[o] \in OrderRow(o) /\ package[o] \in PackageRows(o)
    /\ level \in Level
    /\ debt \in Int

\* What a request remembers.
Known(x) ==
    /\ x.pc \in {"idle", "tx"} /\ x.op \in OrderOps \union PackageOps
    /\ x.o \in Orders /\ x.k \in Nat /\ x.n \in Quantities(x.o)
    /\ x.order \in OrderRow(x.o)
    /\ x.pc = "tx" /\ x.op \in PackageOps => x.k \in Packages(x.o) /\ x.package \in PackageRow

Requests == DOMAIN req = Reqs /\ \A q \in Reqs : Known(req[q])

\* What an order and its packages say of each other.
Basic(r, ps) ==
    /\ r.status = "none" => r = NoOrder /\ \A k \in DOMAIN ps : ps[k] = NoPackage
    /\ r.refunded = (IF r.status = "cancelled" THEN r.received ELSE 0)
    /\ r.returned # 0 => r.confirmed
    /\ r.shipped => r.confirmed
    /\ \A k \in DOMAIN ps :
          /\ ps[k].packedOn <=> ps[k].packing = "packed"
          /\ InFlight(ps[k]) <=> ps[k].open
          /\ ps[k].open => r.status = "open" /\ r.confirmed /\ r.returned = 0
    /\ \A j, k \in DOMAIN ps : ps[j].open /\ ps[k].open => j = k

\* What holds of them where staff follow the flow.
OnTheWay == {"picked_up", "delivering", "retry_delivery", "returning"}

Flowing(r, ps) ==
    /\ r.returned \in {0, r.qty}
    /\ \A k \in DOMAIN ps :
          /\ ps[k].open => (r.shipped <=> ps[k].shipment \in OnTheWay)
          /\ ps[k].shipment = "delivered" =>
                /\ r.shipped
                /\ \A j \in DOMAIN ps : ~ps[j].open
                /\ r.financial = "paid" => r.status # "open"

\* What a handler has demanded of the order and its package, the stock apart,
\* is still true when its transaction runs, and so is what it has read.
StillAdmits(op, o, n) ==
    IF op \in {"packing_request", "push"}
    THEN Confirmed(o) /\ order[o].returned = 0 /\ (FollowsFlow => ~order[o].shipped)
    ELSE OrderAdmits(op, o, n)

Current(x) ==
    /\ x.order = order[x.o]
    /\ IF x.op \in PackageOps
       THEN x.package = package[x.o][x.k] /\ PackageAdmits(x.op, x.package)
       ELSE StillAdmits(x.op, x.o, x.n)

OneEach ==
    \A q, p \in Reqs : q # p /\ req[q].pc = "tx" /\ req[p].pc = "tx" => req[q].o # req[p].o

\* The units an order accounts for: gone, reserved, packed and sold.
Inside(ps) == \E k \in DOMAIN ps :
    ps[k].open /\ ps[k].packedOn /\ ps[k].shipment \in {"none", "pending"}

Gone(r) == IF r.shipped THEN r.qty ELSE 0
Held(r, ps) == IF /\ r.status \in {"open", "closed"} /\ ~r.shipped
                  /\ r.returned = 0 /\ ~Inside(ps)
               THEN r.qty ELSE 0
InBoxes(r, ps) == IF Inside(ps) THEN r.qty ELSE 0
Sold(r) == IF r.status \in {"open", "closed"} THEN r.qty ELSE 0

GoneUnits == [o \in Orders |-> Gone(order[o])]
HeldUnits == [o \in Orders |-> Held(order[o], package[o])]
BoxedUnits == [o \in Orders |-> InBoxes(order[o], package[o])]
SoldUnits == [o \in Orders |-> Sold(order[o])]
PaidMoney == [o \in Orders |-> order[o].received]

Stock ==
    /\ level["on_hand"] = OpeningLevel["on_hand"] - SumFunctionOnSet(GoneUnits, Orders)
    /\ level["committed"] = OpeningLevel["committed"] + SumFunctionOnSet(HeldUnits, Orders)
    /\ level["packed"] = OpeningLevel["packed"] + SumFunctionOnSet(BoxedUnits, Orders)

Debt == debt = SumFunctionOnSet(SoldUnits, Orders) - SumFunctionOnSet(PaidMoney, Orders)

TInv == Tables /\ Requests

Orderly ==
    /\ \A o \in Orders : Basic(order[o], package[o])
    /\ \A q \in Reqs : req[q].pc = "tx" => Current(req[q])
    /\ OneEach
    /\ Debt

Flowed == Stock /\ \A o \in Orders : Flowing(order[o], package[o])

FInv ==
    /\ TInv
    /\ OneAtATime => Orderly
    /\ OneAtATime /\ FollowsFlow => Flowed

-----------------------------------------------------------------------------
(* What the invariant says of the properties.                              *)

\* The invariant of the tables says all of TypeOK.
LEMMA TInvTypes == TInv => TypeOK
BY DEF TInv, Tables, Requests, Known, OrderRow, PackageRow, PackageRows, TypeOK

\* The packages of an order are those its table has.
LEMMA PackagesOf ==
    ASSUME Tables, NEW o \in Orders
    PROVE  DOMAIN package[o] = Packages(o)
BY DEF Tables, PackageRows

\* The clause about debt is DebtMatchesOrders.
LEMMA DebtSays ==
    ASSUME Debt
    PROVE  DebtMatchesOrders
<1>1. UnitsOf(Stands) = SumFunctionOnSet(SoldUnits, Orders)
  BY DEF UnitsOf, Stands, SoldUnits, Sold
<1> QED
  BY <1>1 DEF Debt, DebtMatchesOrders, PaidMoney

\* What the invariant counts inside the house is what the property counts.
LEMMA InsideSays ==
    ASSUME Tables, NEW o \in Orders
    PROVE  Inside(package[o]) = PackedInside(o)
<1>1. Inside(package[o]) <=> PackedInside(o)
  BY PackagesOf DEF Inside, PackedInside, OpenPackages
<1> QED
  BY <1>1 DEF Inside, PackedInside

\* The clause about stock is StockMatchesOrders.
LEMMA StockSays ==
    ASSUME Tables, Stock
    PROVE  StockMatchesOrders
<1>1. UnitsOf(Shipped) = SumFunctionOnSet(GoneUnits, Orders)
  BY DEF UnitsOf, Shipped, GoneUnits, Gone
<1>2. UnitsOf(PackedInside) = SumFunctionOnSet(BoxedUnits, Orders)
  <2> DEFINE f == [o \in Orders |-> IF PackedInside(o) THEN order[o].qty ELSE 0]
  <2>1. \A o \in Orders : f[o] = BoxedUnits[o]
    BY InsideSays DEF BoxedUnits, InBoxes
  <2> HIDE DEF f
  <2>2. SumFunctionOnSet(f, Orders) = SumFunctionOnSet(BoxedUnits, Orders)
    BY <2>1, SumSame, OrdersAssumption
  <2> QED
    BY <2>2 DEF f, UnitsOf
<1>3. UnitsOf(Reserved) = SumFunctionOnSet(HeldUnits, Orders)
  <2> DEFINE f == [o \in Orders |-> IF Reserved(o) THEN order[o].qty ELSE 0]
  <2>1. \A o \in Orders : f[o] = HeldUnits[o]
    BY InsideSays DEF HeldUnits, Held, Reserved, Stands, Shipped
  <2> HIDE DEF f
  <2>2. SumFunctionOnSet(f, Orders) = SumFunctionOnSet(HeldUnits, Orders)
    BY <2>1, SumSame, OrdersAssumption
  <2> QED
    BY <2>2 DEF f, UnitsOf
<1> QED
  BY <1>1, <1>2, <1>3 DEF Stock, StockMatchesOrders

\* The clause about cancelled orders is CancelledIsSettled.
LEMMA SettledSays ==
    ASSUME Tables, Orderly
    PROVE  CancelledIsSettled
<1> SUFFICES ASSUME NEW o \in Orders, order[o].status = "cancelled"
             PROVE  OpenPackages(o) = {} /\ order[o].refunded = order[o].received
  BY DEF CancelledIsSettled
<1>1. Basic(order[o], package[o]) /\ DOMAIN package[o] = Packages(o)
  BY PackagesOf DEF Orderly
<1> QED
  BY <1>1 DEF Basic, OpenPackages

\* A delivered and paid order is closed even while somebody works on it.
LEMMA ClosingSays ==
    ASSUME Tables, Flowed
    PROVE  PaidAndDeliveredCloses
<1> SUFFICES ASSUME NEW o \in Orders, order[o].financial = "paid",
                    DeliveredAndNothingInFlight(o)
             PROVE  order[o].status # "open"
  BY DEF PaidAndDeliveredCloses
<1>1. Flowing(order[o], package[o]) /\ DOMAIN package[o] = Packages(o)
  BY PackagesOf DEF Flowed
<1> QED
  BY <1>1 DEF Flowing, DeliveredAndNothingInFlight

-----------------------------------------------------------------------------
(* What posting does.                                                      *)

\* A posting without movements changes no bucket.
LEMMA PostNone ==
    ASSUME Tables, Post(<< >>)
    PROVE  level' = level
<1> DEFINE m == << >>
<1>1. Len(m) = 0 /\ Len(m) \in Nat
  OBVIOUS
<1>2. PostLine(m).kind = "post" /\ PostLine(m).moves = m
  BY DEF PostLine
<1>3. LevelsAfter(level, m)[0] = level
  BY <1>1, LevelsUnfold
<1>4. level' = AfterLine(level, PostLine(m))
  BY DEF Post
<1> QED
  BY <1>1, <1>2, <1>3, <1>4 DEF AfterLine

\* A posting of one movement changes its bucket by it and no other.
LEMMA PostOne ==
    ASSUME Tables, NEW b \in Buckets, NEW c \in Int, NEW t \in MovementTypes,
           Post(<<Entry(b, c, t)>>)
    PROVE  /\ level' \in Level
           /\ level'[b] = level[b] + c
           /\ \A x \in Buckets \ {b} : level'[x] = level[x]
<1> DEFINE m == Entry(b, c, t)
<1>1. m \in Movement /\ m.bucket = b /\ m.change = c
  BY DEF Entry, Movement
<1>2. level' = Moved(level, m)
  BY BatchOfOne DEF Post
<1>3. level \in Level
  BY DEF Tables
<1> HIDE DEF m
<1> QED
  BY <1>1, <1>2, <1>3, MovedType

\* A posting of two movements of different buckets changes each by its own.
LEMMA PostTwo ==
    ASSUME Tables, NEW b \in Buckets, NEW c \in Int, NEW t \in MovementTypes,
           NEW d \in Buckets \ {b}, NEW e \in Int, NEW u \in MovementTypes,
           Post(<<Entry(b, c, t), Entry(d, e, u)>>)
    PROVE  /\ level' \in Level
           /\ level'[b] = level[b] + c
           /\ level'[d] = level[d] + e
           /\ \A x \in Buckets \ {b, d} : level'[x] = level[x]
<1> DEFINE m == Entry(b, c, t)
           n == Entry(d, e, u)
           mid == Moved(level, m)
<1>1. /\ m \in Movement /\ m.bucket = b /\ m.change = c
      /\ n \in Movement /\ n.bucket = d /\ n.change = e
  BY DEF Entry, Movement
<1>2. level' = Moved(mid, n)
  BY BatchOfTwo DEF Post
<1>3. level \in Level
  BY DEF Tables
<1> HIDE DEF m, n, mid
<1>4. /\ mid \in Level /\ mid[b] = level[b] + c
      /\ \A x \in Buckets \ {b} : mid[x] = level[x]
  BY <1>1, <1>3, MovedType DEF mid
<1>5. /\ level' \in Level /\ level'[d] = mid[d] + e
      /\ \A x \in Buckets \ {d} : level'[x] = mid[x]
  BY <1>1, <1>2, <1>4, MovedType
<1> QED
  BY <1>4, <1>5

-----------------------------------------------------------------------------
(* A step on one order.                                                    *)

Sets(o, r, ps) ==
    /\ DOMAIN order' = Orders /\ DOMAIN package' = Orders
    /\ order'[o] = r /\ package'[o] = ps
    /\ \A c \in Orders \ {o} : order'[c] = order[c] /\ package'[c] = package[c]

\* Those who are not on this order stay as they are.
Leaves(o) ==
    /\ DOMAIN req' = Reqs
    /\ \A p \in Reqs : \/ req'[p] = Idle
                       \/ /\ req'[p] = req[p]
                          /\ OneAtATime /\ req[p].pc = "tx" => req[p].o # o

Charged(o, r) ==
    debt' = debt + Sold(r) - Sold(order[o]) + order[o].received - r.received

Moves(o, r, ps) ==
    /\ level'["on_hand"] = level["on_hand"] + Gone(order[o]) - Gone(r)
    /\ level'["committed"] =
          level["committed"] + Held(r, ps) - Held(order[o], package[o])
    /\ level'["packed"] =
          level["packed"] + InBoxes(r, ps) - InBoxes(order[o], package[o])

\* A request at rest knows nothing.
LEMMA IdleKnown == Known(Idle)
<1>1. Idle.o \in Orders
  BY OrdersAssumption DEF Idle
<1>2. 1 \in Quantities(Idle.o) /\ NoOrder \in OrderRow(Idle.o)
  BY <1>1, BoundsAssumption
     DEF Quantities, NoOrder, OrderRow, OrderStatus, FinancialStatus
<1>3. Idle.pc = "idle" /\ Idle.op \in OrderOps /\ Idle.k \in Nat /\ Idle.n = 1
      /\ Idle.order = NoOrder
  BY DEF Idle, OrderOps
<1> QED
  BY <1>1, <1>2, <1>3 DEF Known

\* Types are kept by any step that writes rows of the right types.
LEMMA StepTypes ==
    ASSUME TInv, NEW o \in Orders, NEW r \in OrderRow(o), NEW ps \in PackageRows(o),
           Sets(o, r, ps), Leaves(o), level' \in Level, debt' \in Int
    PROVE  TInv'
<1>1. Tables'
  <2>1. ASSUME NEW c \in Orders
        PROVE  order'[c] \in OrderRow(c) /\ package'[c] \in PackageRows(c)
    <3>1. CASE c = o
      BY <3>1 DEF Sets
    <3>2. CASE c # o
      BY <3>2 DEF Sets, TInv, Tables
    <3> QED
      BY <3>1, <3>2
  <2> QED
    BY <2>1 DEF Sets, Tables, OrderRow, PackageRows
<1>2. Requests'
  <2>1. \A p \in Reqs : Known(req'[p])
    BY IdleKnown DEF Leaves, TInv, Requests
  <2> QED
    BY <2>1 DEF Leaves, Requests, Known, OrderRow
<1> QED
  BY <1>1, <1>2 DEF TInv

\* The contributions of an order are numbers.
LEMMA PartsTyped ==
    ASSUME NEW o \in Orders, NEW r \in OrderRow(o), NEW ps
    PROVE  /\ Gone(r) \in Nat /\ Held(r, ps) \in Nat /\ InBoxes(r, ps) \in Nat
           /\ Sold(r) \in Nat /\ r.received \in Nat
<1>1. r.qty \in Nat /\ r.received \in Nat
  BY BoundsAssumption DEF OrderRow
<1> QED
  BY <1>1 DEF Gone, Held, InBoxes, Sold

\* The debt follows the orders when one order and its packages change with it.
LEMMA StepDebt ==
    ASSUME TInv, NEW o \in Orders, NEW r \in OrderRow(o), NEW ps,
           Sets(o, r, ps), Charged(o, r), Debt
    PROVE  Debt'
<1>1. \A c \in Orders : order[c] \in OrderRow(c)
  BY DEF TInv, Tables
<1>2. \A c \in Orders : /\ Sold(order[c]) \in Nat /\ order[c].received \in Nat
  BY <1>1, PartsTyped
<1>3. Sold(r) \in Nat /\ r.received \in Nat
  BY PartsTyped
<1>4. order'[o] = r /\ \A c \in Orders \ {o} : order'[c] = order[c]
  BY DEF Sets
<1>5. SumFunctionOnSet(SoldUnits', Orders)
        = SumFunctionOnSet(SoldUnits, Orders) + Sold(r) - Sold(order[o])
  <2> DEFINE f == SoldUnits
             g == SoldUnits'
  <2>1. /\ \A c \in Orders : f[c] = Sold(order[c]) /\ g[c] = Sold(order'[c])
    BY DEF SoldUnits, Sold
  <2> HIDE DEF f, g
  <2>2. \A c \in Orders : f[c] \in Int /\ g[c] \in Int
    BY <1>2, <1>3, <1>4, <2>1
  <2>3. \A c \in Orders \ {o} : g[c] = f[c]
    BY <1>4, <2>1
  <2>4. SumFunctionOnSet(g, Orders) = SumFunctionOnSet(f, Orders) + g[o] - f[o]
    BY <2>2, <2>3, SumChange, OrdersAssumption
  <2>5. g[o] = Sold(r) /\ f[o] = Sold(order[o])
    BY <1>4, <2>1
  <2> QED
    BY <2>4, <2>5 DEF f, g
<1>6. SumFunctionOnSet(PaidMoney', Orders)
        = SumFunctionOnSet(PaidMoney, Orders) + r.received - order[o].received
  <2> DEFINE f == PaidMoney
             g == PaidMoney'
  <2>1. /\ \A c \in Orders : f[c] = order[c].received /\ g[c] = order'[c].received
    BY DEF PaidMoney
  <2> HIDE DEF f, g
  <2>2. \A c \in Orders : f[c] \in Int /\ g[c] \in Int
    BY <1>2, <1>3, <1>4, <2>1
  <2>3. \A c \in Orders \ {o} : g[c] = f[c]
    BY <1>4, <2>1
  <2>4. SumFunctionOnSet(g, Orders) = SumFunctionOnSet(f, Orders) + g[o] - f[o]
    BY <2>2, <2>3, SumChange, OrdersAssumption
  <2>5. g[o] = r.received /\ f[o] = order[o].received
    BY <1>4, <2>1
  <2> QED
    BY <2>4, <2>5 DEF f, g
<1>7. SumFunctionOnSet(SoldUnits, Orders) \in Int /\ SumFunctionOnSet(PaidMoney, Orders) \in Int
  <2>1. /\ \A c \in Orders : SoldUnits[c] \in Int
        /\ \A c \in Orders : PaidMoney[c] \in Int
    BY <1>2 DEF SoldUnits, PaidMoney
  <2> QED
    BY <2>1, SumType, OrdersAssumption
<1> QED
  BY <1>2, <1>3, <1>5, <1>6, <1>7 DEF Debt, Charged

\* The stock follows the orders when one order and its packages change with it.
LEMMA StepStock ==
    ASSUME TInv, NEW o \in Orders, NEW r \in OrderRow(o), NEW ps,
           Sets(o, r, ps), Moves(o, r, ps), Stock
    PROVE  Stock'
<1>1. \A c \in Orders : order[c] \in OrderRow(c)
  BY DEF TInv, Tables
<1>2. \A c \in Orders : /\ Gone(order[c]) \in Nat
                        /\ Held(order[c], package[c]) \in Nat
                        /\ InBoxes(order[c], package[c]) \in Nat
  BY <1>1, PartsTyped
<1>3. Gone(r) \in Nat /\ Held(r, ps) \in Nat /\ InBoxes(r, ps) \in Nat
  BY PartsTyped
<1>4. /\ order'[o] = r /\ package'[o] = ps
      /\ \A c \in Orders \ {o} : order'[c] = order[c] /\ package'[c] = package[c]
  BY DEF Sets
<1>5. SumFunctionOnSet(GoneUnits', Orders)
        = SumFunctionOnSet(GoneUnits, Orders) + Gone(r) - Gone(order[o])
  <2> DEFINE f == GoneUnits
             g == GoneUnits'
  <2>1. \A c \in Orders : f[c] = Gone(order[c]) /\ g[c] = Gone(order'[c])
    BY DEF GoneUnits, Gone, Held, InBoxes, Inside
  <2> HIDE DEF f, g
  <2>2. \A c \in Orders : f[c] \in Int /\ g[c] \in Int
    BY <1>2, <1>3, <1>4, <2>1
  <2>3. \A c \in Orders \ {o} : g[c] = f[c]
    BY <1>4, <2>1
  <2>4. SumFunctionOnSet(g, Orders) = SumFunctionOnSet(f, Orders) + g[o] - f[o]
    BY <2>2, <2>3, SumChange, OrdersAssumption
  <2>5. g[o] = Gone(r) /\ f[o] = Gone(order[o])
    BY <1>4, <2>1
  <2> QED
    BY <2>4, <2>5 DEF f, g
<1>6. SumFunctionOnSet(HeldUnits', Orders)
        = SumFunctionOnSet(HeldUnits, Orders) + Held(r, ps) - Held(order[o], package[o])
  <2> DEFINE f == HeldUnits
             g == HeldUnits'
  <2>1. \A c \in Orders : f[c] = Held(order[c], package[c]) /\ g[c] = Held(order'[c], package'[c])
    BY DEF HeldUnits, Gone, Held, InBoxes, Inside
  <2> HIDE DEF f, g
  <2>2. \A c \in Orders : f[c] \in Int /\ g[c] \in Int
    BY <1>2, <1>3, <1>4, <2>1
  <2>3. \A c \in Orders \ {o} : g[c] = f[c]
    BY <1>4, <2>1
  <2>4. SumFunctionOnSet(g, Orders) = SumFunctionOnSet(f, Orders) + g[o] - f[o]
    BY <2>2, <2>3, SumChange, OrdersAssumption
  <2>5. g[o] = Held(r, ps) /\ f[o] = Held(order[o], package[o])
    BY <1>4, <2>1
  <2> QED
    BY <2>4, <2>5 DEF f, g
<1>7. SumFunctionOnSet(BoxedUnits', Orders)
        = SumFunctionOnSet(BoxedUnits, Orders) + InBoxes(r, ps) - InBoxes(order[o], package[o])
  <2> DEFINE f == BoxedUnits
             g == BoxedUnits'
  <2>1. \A c \in Orders : f[c] = InBoxes(order[c], package[c]) /\ g[c] = InBoxes(order'[c], package'[c])
    BY DEF BoxedUnits, Gone, Held, InBoxes, Inside
  <2> HIDE DEF f, g
  <2>2. \A c \in Orders : f[c] \in Int /\ g[c] \in Int
    BY <1>2, <1>3, <1>4, <2>1
  <2>3. \A c \in Orders \ {o} : g[c] = f[c]
    BY <1>4, <2>1
  <2>4. SumFunctionOnSet(g, Orders) = SumFunctionOnSet(f, Orders) + g[o] - f[o]
    BY <2>2, <2>3, SumChange, OrdersAssumption
  <2>5. g[o] = InBoxes(r, ps) /\ f[o] = InBoxes(order[o], package[o])
    BY <1>4, <2>1
  <2> QED
    BY <2>4, <2>5 DEF f, g
<1>8. /\ SumFunctionOnSet(GoneUnits, Orders) \in Int
      /\ SumFunctionOnSet(HeldUnits, Orders) \in Int
      /\ SumFunctionOnSet(BoxedUnits, Orders) \in Int
  <2>1. /\ \A c \in Orders : GoneUnits[c] \in Int
        /\ \A c \in Orders : HeldUnits[c] \in Int
        /\ \A c \in Orders : BoxedUnits[c] \in Int
    BY <1>2 DEF GoneUnits, HeldUnits, BoxedUnits
  <2> QED
    BY <2>1, SumType, OrdersAssumption
<1>9. OpeningLevel["on_hand"] \in Int /\ OpeningLevel["committed"] \in Int
      /\ OpeningLevel["packed"] \in Int
  BY OpeningAssumption DEF Buckets
<1>10. /\ Gone(order[o]) \in Nat /\ Held(order[o], package[o]) \in Nat
       /\ InBoxes(order[o], package[o]) \in Nat
  BY <1>2
<1>11. level'["on_hand"] = OpeningLevel["on_hand"] - SumFunctionOnSet(GoneUnits', Orders)
  BY <1>3, <1>5, <1>8, <1>9, <1>10 DEF Stock, Moves
<1>12. level'["committed"] = OpeningLevel["committed"] + SumFunctionOnSet(HeldUnits', Orders)
  BY <1>3, <1>6, <1>8, <1>9, <1>10 DEF Stock, Moves
<1>13. level'["packed"] = OpeningLevel["packed"] + SumFunctionOnSet(BoxedUnits', Orders)
  BY <1>3, <1>7, <1>8, <1>9, <1>10 DEF Stock, Moves
<1> QED
  BY <1>11, <1>12, <1>13 DEF Stock

\* Other requests are on other orders: what they have read is still so.
LEMMA StepCurrent ==
    ASSUME TInv, NEW o \in Orders, NEW r, NEW ps, Sets(o, r, ps), Leaves(o),
           OneAtATime, Orderly
    PROVE  /\ \A p \in Reqs : req'[p].pc = "tx" => Current(req[p])'
           /\ OneEach'
<1>1. ASSUME NEW p \in Reqs, req'[p].pc = "tx"
      PROVE  req'[p] = req[p] /\ req[p].pc = "tx" /\ req[p].o # o
  BY <1>1 DEF Leaves, Idle
<1>2. ASSUME NEW p \in Reqs, req'[p].pc = "tx"
      PROVE  Current(req[p])'
  <2>1. req'[p] = req[p] /\ req[p].pc = "tx" /\ req[p].o # o /\ req[p].o \in Orders
    BY <1>1, <1>2 DEF TInv, Requests, Known
  <2>2. Current(req[p])
    BY <2>1 DEF Orderly
  <2>3. order'[req[p].o] = order[req[p].o] /\ package'[req[p].o] = package[req[p].o]
    BY <2>1 DEF Sets
  <2> DEFINE x == req[p]
  <2>4. /\ order'[x.o] = order[x.o] /\ OpenPackages(x.o)' = OpenPackages(x.o)
        /\ req'[p].o = x.o /\ req'[p].op = x.op /\ req'[p].n = x.n /\ req'[p].k = x.k
        /\ req'[p].order = x.order /\ req'[p].package = x.package
    BY <2>1, <2>3 DEF OpenPackages
  <2>5. CASE x.op \in PackageOps
    BY <2>2, <2>3, <2>4, <2>5 DEF Current
  <2>6. CASE x.op \notin PackageOps
    <3>1. x.op \in OrderOps /\ x.order = order[x.o] /\ StillAdmits(x.op, x.o, x.n)
      BY <2>1, <2>2, <2>6 DEF Current, TInv, Requests, Known
    <3>2. StillAdmits(x.op, x.o, x.n)'
      <4>1. CASE x.op \in {"packing_request", "push"}
        BY <2>4, <3>1, <4>1 DEF StillAdmits, Confirmed
      <4>2. CASE x.op \in {"processing", "cancel", "pay", "update"}
        BY <2>4, <3>1, <4>2 DEF StillAdmits, OrderAdmits
      <4>3. CASE x.op \in {"ship", "complete"}
        BY <2>4, <3>1, <4>3 DEF StillAdmits, OrderAdmits, MayLeaveDirectly, Confirmed
      <4> QED
        BY <3>1, <4>1, <4>2, <4>3 DEF OrderOps
    <3> QED
      BY <2>4, <2>6, <3>1, <3>2 DEF Current
  <2> QED
    BY <2>5, <2>6
<1> QED
  BY <1>1, <1>2 DEF Orderly, OneEach

\* The whole invariant is kept by a step that keeps its order in order and
\* moves the debt and the stock by what the order gains or loses.
LEMMA OrderStep ==
    ASSUME FInv, NEW o \in Orders, NEW r \in OrderRow(o), NEW ps \in PackageRows(o),
           Sets(o, r, ps), Leaves(o), level' \in Level, debt' \in Int,
           OneAtATime => Basic(r, ps) /\ Charged(o, r),
           OneAtATime /\ FollowsFlow => Flowing(r, ps) /\ Moves(o, r, ps)
    PROVE  FInv'
<1>1. TInv'
  BY StepTypes DEF FInv
<1>2. OneAtATime => Orderly'
  <2> SUFFICES ASSUME OneAtATime PROVE Orderly'
    OBVIOUS
  <2>1. Orderly /\ TInv
    BY DEF FInv
  <2>2. (\A c \in Orders : Basic(order[c], package[c]))'
    BY <2>1 DEF Orderly, Sets, Basic, InFlight
  <2>3. Debt'
    BY <2>1, StepDebt DEF Orderly
  <2> QED
    BY <2>1, <2>2, <2>3, StepCurrent DEF Orderly
<1>3. OneAtATime /\ FollowsFlow => Flowed'
  <2> SUFFICES ASSUME OneAtATime, FollowsFlow PROVE Flowed'
    OBVIOUS
  <2>1. Flowed /\ TInv
    BY DEF FInv
  <2>2. (\A c \in Orders : Flowing(order[c], package[c]))'
    BY <2>1 DEF Flowed, Sets, Flowing
  <2>3. Stock'
    BY <2>1, StepStock DEF Flowed
  <2> QED
    BY <2>2, <2>3 DEF Flowed
<1> QED
  BY <1>1, <1>2, <1>3 DEF FInv

\* What a transaction finds when it ends.
LEMMA EndsLeaves ==
    ASSUME FInv, NEW q \in Reqs, NEW op, Ends(q, op)
    PROVE  /\ Known(req[q]) /\ req[q].pc = "tx" /\ req[q].op = op
           /\ Leaves(req[q].o)
           /\ OneAtATime => Current(req[q])
<1>1. /\ TInv /\ req[q].pc = "tx" /\ req[q].op = op /\ req' = [req EXCEPT ![q] = Idle]
  BY DEF FInv, Ends
<1>2. Known(req[q]) /\ DOMAIN req' = Reqs /\ req'[q] = Idle
      /\ \A p \in Reqs \ {q} : req'[p] = req[p]
  BY <1>1 DEF TInv, Requests
<1>3. \A p \in Reqs \ {q} : OneAtATime /\ req[p].pc = "tx" => req[p].o # req[q].o
  BY <1>1 DEF FInv, Orderly, OneEach
<1> QED
  BY <1>1, <1>2, <1>3 DEF Leaves, FInv, Orderly

-----------------------------------------------------------------------------
(* Requests begin and are given up.                                        *)

\* What is known of an order and its packages in any state.
LEMMA Found ==
    ASSUME FInv, NEW o \in Orders
    PROVE  /\ order[o] \in OrderRow(o) /\ package[o] \in PackageRows(o)
           /\ DOMAIN package[o] = Packages(o)
           /\ level \in Level /\ debt \in Int
           /\ OneAtATime => Basic(order[o], package[o])
           /\ OneAtATime /\ FollowsFlow => Flowing(order[o], package[o])
BY DEF FInv, TInv, Tables, PackageRows, Orderly, Flowed

\* What a request has read stays so while orders and packages do.
LEMMA CurrentStays ==
    ASSUME UNCHANGED <<order, package, level>>, NEW y, Current(y)
    PROVE  Current(y)'
<1>1. Current(y)' <=>
        /\ y.order = order[y.o]
        /\ IF y.op \in PackageOps
           THEN y.package = package[y.o][y.k] /\ PackageAdmits(y.op, y.package)
           ELSE StillAdmits(y.op, y.o, y.n)'
  BY DEF Current
<1>2. StillAdmits(y.op, y.o, y.n)' <=> StillAdmits(y.op, y.o, y.n)
  <2>1. OpenPackages(y.o)' = OpenPackages(y.o) /\ Confirmed(y.o)' = Confirmed(y.o)
    BY DEF OpenPackages, Confirmed
  <2>2. MayLeaveDirectly(y.o)' = MayLeaveDirectly(y.o) /\ MayBeSent(y.o)' = MayBeSent(y.o)
    BY <2>1 DEF MayLeaveDirectly, MayBeSent
  <2>3. OrderAdmits(y.op, y.o, y.n)' = OrderAdmits(y.op, y.o, y.n)
    BY <2>1, <2>2 DEF OrderAdmits
  <2> QED
    BY <2>1, <2>3 DEF StillAdmits
<1> QED
  BY <1>1, <1>2 DEF Current

\* A step that changes nothing but what one request does.
LEMMA RequestStep ==
    ASSUME FInv, NEW q \in Reqs, NEW x, Known(x), req' = [req EXCEPT ![q] = x],
           UNCHANGED <<order, package, level, debt>>,
           OneAtATime /\ x.pc = "tx" =>
              Current(x) /\ \A p \in Reqs \ {q} : req[p].pc = "tx" => req[p].o # x.o
    PROVE  FInv'
<1>1. /\ DOMAIN req' = Reqs /\ req'[q] = x
      /\ \A p \in Reqs \ {q} : req'[p] = req[p]
  BY DEF FInv, TInv, Requests
<1>2. TInv'
  <2>1. Requests'
    <3>1. \A p \in Reqs : Known(req'[p])
      BY <1>1 DEF FInv, TInv, Requests
    <3> QED
      BY <1>1, <3>1 DEF Requests, Known, OrderRow
  <2>2. Tables'
    BY DEF FInv, TInv, Tables, OrderRow, PackageRows
  <2> QED
    BY <2>1, <2>2 DEF TInv
<1>3. ASSUME OneAtATime PROVE Orderly'
  <2>1. Orderly
    BY <1>3 DEF FInv
  <2>2. \A y : Current(y) => Current(y)'
    BY CurrentStays
  <2>3. (\A p \in Reqs : req[p].pc = "tx" => Current(req[p]))'
    BY <1>1, <1>3, <2>1, <2>2 DEF Orderly
  <2>4. OneEach'
    BY <1>1, <1>3, <2>1 DEF Orderly, OneEach
  <2>5. (\A o \in Orders : Basic(order[o], package[o]))' /\ Debt'
    BY <2>1 DEF Orderly, Basic, InFlight, Debt, SoldUnits, PaidMoney, Sold
  <2> QED
    BY <2>3, <2>4, <2>5 DEF Orderly
<1>4. ASSUME OneAtATime, FollowsFlow PROVE Flowed'
  <2>1. Flowed
    BY <1>4 DEF FInv
  <2>2. (\A o \in Orders : Flowing(order[o], package[o]))'
    BY <2>1 DEF Flowed, Flowing
  <2>3. Stock'
    BY <2>1 DEF Flowed, Stock, GoneUnits, HeldUnits, BoxedUnits, Gone, Held, InBoxes,
                Inside
  <2> QED
    BY <2>2, <2>3 DEF Flowed
<1> QED
  BY <1>2, <1>3, <1>4 DEF FInv

\* A handler that has read its order knows it as it is.
LEMMA ReadOrderKeeps ==
    ASSUME FInv, NEW q \in Reqs, NEW o \in Orders, NEW op \in OrderOps,
           NEW n \in Quantities(o), ReadOrder(q, o, op, n)
    PROVE  FInv'
<1> DEFINE x == [Idle EXCEPT !.pc = "tx", !.op = op, !.o = o, !.n = n, !.order = order[o]]
<1>1. /\ x.pc = "tx" /\ x.op = op /\ x.o = o /\ x.n = n /\ x.order = order[o] /\ x.k = 1
  BY DEF Idle
<1>2. op \notin PackageOps
  BY DEF OrderOps, PackageOps, Steps, Allowed, ShipmentStatus
<1>3. req' = [req EXCEPT ![q] = x] /\ UNCHANGED <<order, package, level, debt>>
  BY DEF ReadOrder
<1> HIDE DEF x
<1>4. Known(x)
  BY <1>1, <1>2, Found DEF Known
<1>5. StillAdmits(op, o, n)
  BY DEF ReadOrder, StillAdmits, OrderAdmits, MayBeSent
<1>6. Current(x)
  BY <1>1, <1>2, <1>5 DEF Current
<1>7. OneAtATime => \A p \in Reqs \ {q} : req[p].pc = "tx" => req[p].o # o
  BY DEF ReadOrder, Unwatched
<1> QED
  BY <1>1, <1>3, <1>4, <1>6, <1>7, RequestStep

\* So does one that has read a package and the package's order.
LEMMA ReadPackageKeeps ==
    ASSUME FInv, NEW q \in Reqs, NEW o \in Orders, NEW op \in PackageOps,
           NEW k \in Packages(o), ReadPackage(q, o, k, op)
    PROVE  FInv'
<1> DEFINE x == [pc |-> "tx", op |-> op, o |-> o, k |-> k, n |-> 1,
                 order |-> order[o], package |-> package[o][k]]
<1>1. req' = [req EXCEPT ![q] = x] /\ UNCHANGED <<order, package, level, debt>>
  BY DEF ReadPackage
<1>2. Known(x)
  <2>1. k \in Nat /\ 1 \in Quantities(o)
    BY BoundsAssumption DEF Packages, Quantities
  <2>2. package[o][k] \in PackageRow
    BY Found DEF PackageRows
  <2> QED
    BY <2>1, <2>2, Found DEF Known
<1>3. Current(x)
  BY DEF ReadPackage, Current
<1>4. OneAtATime => \A p \in Reqs \ {q} : req[p].pc = "tx" => req[p].o # o
  BY DEF ReadPackage, Unwatched
<1>5. x.o = o
  OBVIOUS
<1> HIDE DEF x
<1> QED
  BY <1>1, <1>2, <1>3, <1>4, <1>5, RequestStep

\* A handler that gives up changes no table.
LEMMA FailKeeps ==
    ASSUME FInv, NEW q \in Reqs, Fail(q)
    PROVE  FInv'
<1>1. Idle.pc = "idle"
  BY DEF Idle
<1> QED
  BY <1>1, IdleKnown, RequestStep DEF Fail

-----------------------------------------------------------------------------
(* The transactions of OrderService.                                       *)

\* The derived payment status is one of the statuses.
LEMMA FinancialTyped ==
    ASSUME NEW received, NEW total
    PROVE  FinancialOf(received, total) \in FinancialStatus
BY DEF FinancialOf, FinancialStatus

\* Posting leaves the bucket types alone; the three that are compared:
LEMMA BucketsKnown ==
    /\ {"on_hand", "committed", "packed"} \subseteq Buckets
    /\ {"order_reserve", "order_release", "packing_start", "packing_cancel",
        "order_ship", "return_in"} \subseteq MovementTypes
    /\ \A l \in Level : l["on_hand"] \in Int /\ l["committed"] \in Int /\ l["packed"] \in Int
BY DEF Buckets, MovementTypes, OrderLifecycleTypes, Level

\* An order that is created had no packages, and nobody is on it.
LEMMA CreateKeeps ==
    ASSUME FInv, NEW o \in Orders, Create(o)
    PROVE  FInv'
<1>1. PICK n \in Quantities(o) : \E paid \in {0, n} :
          /\ Post(<<Entry("committed", n, "order_reserve")>>)
          /\ order' = [order EXCEPT ![o] = NewOrder(n, paid)]
          /\ debt' = debt + n - paid
  BY DEF Create
<1>2. PICK paid \in {0, n} :
          /\ Post(<<Entry("committed", n, "order_reserve")>>)
          /\ order' = [order EXCEPT ![o] = NewOrder(n, paid)]
          /\ debt' = debt + n - paid
  BY <1>1
<1> DEFINE r == NewOrder(n, paid)
           ps == package[o]
<1>3. n \in 0..MaxQty[o] /\ paid \in 0..MaxQty[o] /\ n \in Nat /\ paid \in Nat
  BY BoundsAssumption DEF Quantities
<1>4. /\ r.status = "open" /\ r.qty = n /\ r.received = paid /\ ~r.shipped
      /\ r.returned = 0 /\ r.refunded = 0 /\ r.confirmed = FALSE
      /\ r.fulfilled = FALSE /\ r.financial = FinancialOf(paid, n)
  BY DEF NewOrder, NoOrder
<1>5. r \in OrderRow(o)
  <2>1. NoOrder \in OrderRow(o)
    BY BoundsAssumption DEF NoOrder, OrderRow, OrderStatus, FinancialStatus
  <2> QED
    BY <1>3, <2>1, FinancialTyped DEF NewOrder, OrderRow, OrderStatus
<1>6. order[o].status = "none"
  BY DEF Create
<1>7. Sets(o, r, ps)
  BY <1>2 DEF Create, Sets, FInv, TInv, Tables
<1>8. Leaves(o)
  <2>1. DOMAIN req' = Reqs /\ \A p \in Reqs : req'[p] = req[p]
    BY DEF Create, FInv, TInv, Requests
  <2>2. ASSUME NEW p \in Reqs, OneAtATime, req[p].pc = "tx", req[p].o = o
        PROVE  FALSE
    <3>1. Current(req[p]) /\ Known(req[p]) /\ Basic(order[o], package[o])
      BY <2>2 DEF FInv, TInv, Requests, Orderly
    <3>2. CASE req[p].op \in PackageOps
      <4>1. package[o][req[p].k].open /\ req[p].k \in Packages(o)
        BY <2>2, <3>1, <3>2 DEF Current, Known, PackageAdmits
      <4>2. package[o][req[p].k] = NoPackage
        BY <1>6, <3>1, <4>1, Found DEF Basic
      <4> QED
        BY <4>1, <4>2 DEF NoPackage
    <3>3. CASE req[p].op \notin PackageOps
      <4>1. StillAdmits(req[p].op, o, req[p].n) /\ req[p].op \in OrderOps
        BY <2>2, <3>1, <3>3 DEF Current, Known
      <4> QED
        BY <1>6, <4>1
           DEF StillAdmits, OrderAdmits, MayLeaveDirectly, Confirmed, OrderOps
    <3> QED
      BY <3>2, <3>3
  <2> QED
    BY <2>1, <2>2 DEF Leaves
<1>9. /\ level' \in Level
      /\ level'["committed"] = level["committed"] + n
      /\ level'["on_hand"] = level["on_hand"] /\ level'["packed"] = level["packed"]
  <2>1. Tables /\ n \in Int /\ "committed" \in Buckets /\ "order_reserve" \in MovementTypes
    BY <1>3, BucketsKnown DEF FInv, TInv
  <2>2. /\ level' \in Level /\ level'["committed"] = level["committed"] + n
        /\ \A x \in Buckets \ {"committed"} : level'[x] = level[x]
    BY <1>2, <2>1, PostOne
  <2> QED
    BY <2>2, BucketsKnown
<1>10. debt' = debt + n - paid /\ debt' \in Int
  BY <1>2, <1>3, Found
<1>11. ASSUME OneAtATime
       PROVE  /\ Basic(r, ps) /\ Charged(o, r)
              /\ FollowsFlow => Flowing(r, ps) /\ Moves(o, r, ps)
  <2>1. order[o] = NoOrder /\ \A k \in DOMAIN ps : ps[k] = NoPackage
    BY <1>6, <1>11, Found DEF Basic
  <2>2. ~Inside(ps)
    BY <2>1 DEF Inside, NoPackage
  <2> HIDE DEF r
  <2>3. Basic(r, ps) /\ Flowing(r, ps)
    BY <1>4, <2>1 DEF Basic, Flowing, NoPackage, InFlight
  <2>4. Charged(o, r)
    BY <1>3, <1>4, <1>10, <2>1, Found DEF Charged, Sold, NoOrder
  <2>5. Moves(o, r, ps)
    BY <1>3, <1>4, <1>9, <2>1, <2>2, Found, BucketsKnown
       DEF Moves, Gone, Held, InBoxes, NoOrder
  <2> QED
    BY <2>3, <2>4, <2>5
<1> HIDE DEF r
<1> QED
  BY <1>5, <1>7, <1>8, <1>9, <1>10, <1>11, Found, OrderStep

\* What an order's request has read is what there is.
LEMMA OrderAdmitted ==
    ASSUME NEW x, x.op \in OrderOps, Current(x)
    PROVE  x.order = order[x.o] /\ StillAdmits(x.op, x.o, x.n)
BY DEF Current, OrderOps, PackageOps, Steps, Allowed, ShipmentStatus

\* A step that changes neither goods sold nor money received charges nothing.
LEMMA NothingCharged ==
    ASSUME FInv, NEW o \in Orders, NEW r, debt' = debt,
           Sold(r) = Sold(order[o]), r.received = order[o].received
    PROVE  Charged(o, r)
<1>1. Sold(order[o]) \in Nat /\ order[o].received \in Nat /\ debt \in Int
  BY Found, PartsTyped
<1> QED
  BY <1>1 DEF Charged

\* A step that changes no quantity of an order moves no goods.
LEMMA NothingMoved ==
    ASSUME FInv, NEW o \in Orders, NEW r, NEW ps, level' = level,
           Gone(r) = Gone(order[o]), Held(r, ps) = Held(order[o], package[o]),
           InBoxes(r, ps) = InBoxes(order[o], package[o])
    PROVE  Moves(o, r, ps)
<1>1. /\ Gone(order[o]) \in Nat /\ Held(order[o], package[o]) \in Nat
      /\ InBoxes(order[o], package[o]) \in Nat
  BY Found, PartsTyped
<1>2. level["on_hand"] \in Int /\ level["committed"] \in Int /\ level["packed"] \in Int
  BY Found, BucketsKnown
<1> QED
  BY <1>1, <1>2 DEF Moves

\* Confirming an order moves nothing.
LEMMA ProcessingKeeps ==
    ASSUME FInv, NEW q \in Reqs, Processing(q)
    PROVE  FInv'
<1> DEFINE x == req[q]
           o == x.o
           r == [order[o] EXCEPT !.confirmed = TRUE]
           ps == package[o]
<1>1. /\ Known(x) /\ x.op = "processing" /\ Leaves(o) /\ (OneAtATime => Current(x))
  BY EndsLeaves DEF Processing
<1>2. o \in Orders
  BY <1>1 DEF Known
<1>3. order' = [order EXCEPT ![o] = r] /\ UNCHANGED <<package, level, debt>>
  BY DEF Processing
<1> HIDE DEF o, x
<1>4. r \in OrderRow(o)
  BY <1>2, Found DEF OrderRow
<1>5. Sets(o, r, ps)
  BY <1>2, <1>3 DEF Sets, FInv, TInv, Tables
<1>6. /\ r.confirmed
      /\ \A f \in DOMAIN order[o] \ {"confirmed"} : r[f] = order[o][f]
      /\ r.status = order[o].status /\ r.qty = order[o].qty
      /\ r.shipped = order[o].shipped /\ r.received = order[o].received
      /\ r.refunded = order[o].refunded /\ r.returned = order[o].returned
      /\ r.financial = order[o].financial
  BY <1>2, Found DEF OrderRow
<1> HIDE DEF r
<1>7. ASSUME OneAtATime PROVE Basic(r, ps) /\ Charged(o, r)
  <2>1. order[o].status = "open"
    <3>1. x.op \in OrderOps
      BY <1>1 DEF OrderOps
    <3>2. StillAdmits("processing", o, x.n)
      BY <1>1, <1>7, <3>1, OrderAdmitted DEF o
    <3> QED
      BY <3>2 DEF StillAdmits, OrderAdmits
  <2>2. Basic(r, ps)
    BY <1>2, <1>6, <1>7, <2>1, Found DEF Basic
  <2>3. Sold(r) = Sold(order[o])
    BY <1>6 DEF Sold
  <2> QED
    BY <1>2, <1>3, <1>6, <2>2, <2>3, NothingCharged
<1>8. ASSUME OneAtATime, FollowsFlow PROVE Flowing(r, ps) /\ Moves(o, r, ps)
  <2>1. Flowing(r, ps)
    BY <1>2, <1>6, <1>8, Found DEF Flowing
  <2>2. Gone(r) = Gone(order[o]) /\ Held(r, ps) = Held(order[o], package[o])
        /\ InBoxes(r, ps) = InBoxes(order[o], package[o])
    BY <1>6 DEF Gone, Held, InBoxes
  <2> QED
    BY <1>2, <1>3, <2>1, <2>2, NothingMoved
<1> QED
  BY <1>2, <1>3, <1>4, <1>5, <1>1, <1>7, <1>8, Found, OrderStep

\* What a transaction on an order starts from.
LEMMA OrderRequest ==
    ASSUME FInv, NEW q \in Reqs, NEW op \in OrderOps, Ends(q, op)
    PROVE  /\ req[q].o \in Orders /\ Leaves(req[q].o)
           /\ req[q].n \in Quantities(req[q].o)
           /\ req[q].order \in OrderRow(req[q].o)
           /\ OneAtATime => /\ req[q].order = order[req[q].o]
                            /\ StillAdmits(op, req[q].o, req[q].n)
<1>1. /\ Known(req[q]) /\ req[q].op = op /\ Leaves(req[q].o)
      /\ OneAtATime => Current(req[q])
  BY EndsLeaves
<1> QED
  BY <1>1, OrderAdmitted DEF Known

\* What the packages of an order say when none is open.
LEMMA NoneOpen ==
    ASSUME FInv, NEW o \in Orders, OpenPackages(o) = {}
    PROVE  (\A k \in DOMAIN package[o] : ~package[o][k].open) /\ ~Inside(package[o])
BY Found DEF OpenPackages, Inside

\* Shipping an order by hand takes its goods out of what it holds (ship).
LEMMA ShipKeeps ==
    ASSUME FInv, NEW q \in Reqs, Ship(q)
    PROVE  FInv'
<1> DEFINE x == req[q]
           o == x.o
           n == x.order.qty
           r == [order[o] EXCEPT !.shipped = TRUE, !.fulfilled = TRUE]
           ps == package[o]
<1>1. /\ o \in Orders /\ Leaves(o) /\ x.order \in OrderRow(o)
      /\ OneAtATime => x.order = order[o] /\ StillAdmits("ship", o, x.n)
  BY OrderRequest DEF Ship, OrderOps
<1>2. /\ order' = [order EXCEPT ![o] = r] /\ UNCHANGED <<package, debt>>
      /\ Post(ShipEntries(n))
  BY DEF Ship
<1>3. n \in Nat
  BY <1>1, BoundsAssumption DEF OrderRow
<1> HIDE DEF o, x, n
<1>4. r \in OrderRow(o)
  BY <1>1, Found DEF OrderRow
<1>5. Sets(o, r, ps)
  BY <1>1, <1>2 DEF Sets, FInv, TInv, Tables
<1>6. /\ r.shipped
      /\ r.status = order[o].status /\ r.qty = order[o].qty
      /\ r.confirmed = order[o].confirmed /\ r.received = order[o].received
      /\ r.refunded = order[o].refunded /\ r.returned = order[o].returned
      /\ r.financial = order[o].financial
  BY <1>1, Found DEF OrderRow
<1>7. /\ level' \in Level
      /\ level'["on_hand"] = level["on_hand"] + (-n)
      /\ level'["committed"] = level["committed"] + (-n)
      /\ level'["packed"] = level["packed"]
  <2>1. Tables /\ -n \in Int
    BY <1>3 DEF FInv, TInv
  <2>2. /\ "on_hand" \in Buckets /\ "committed" \in Buckets \ {"on_hand"}
        /\ "packed" \in Buckets \ {"on_hand", "committed"} /\ "order_ship" \in MovementTypes
    BY BucketsKnown
  <2> QED
    BY <1>2, <2>1, <2>2, PostTwo DEF ShipEntries
<1> HIDE DEF r
<1>8. ASSUME OneAtATime
      PROVE  /\ n = order[o].qty /\ order[o].status = "open" /\ order[o].confirmed
             /\ OpenPackages(o) = {} /\ order[o].returned = 0 /\ ~order[o].shipped
  BY <1>1, <1>8 DEF StillAdmits, OrderAdmits, MayLeaveDirectly, Confirmed, n
<1>9. ASSUME OneAtATime PROVE Basic(r, ps) /\ Charged(o, r)
  <2>1. Basic(r, ps)
    BY <1>1, <1>6, <1>8, <1>9, Found DEF Basic
  <2>2. Sold(r) = Sold(order[o])
    BY <1>6 DEF Sold
  <2> QED
    BY <1>1, <1>2, <1>6, <2>1, <2>2, NothingCharged
<1>10. ASSUME OneAtATime, FollowsFlow PROVE Flowing(r, ps) /\ Moves(o, r, ps)
  <2>1. (\A k \in DOMAIN ps : ~ps[k].open) /\ ~Inside(ps)
    BY <1>1, <1>8, <1>10, NoneOpen
  <2>2. Flowing(r, ps)
    BY <1>1, <1>6, <1>8, <1>10, <2>1, Found DEF Flowing
  <2>3. Moves(o, r, ps)
    BY <1>1, <1>3, <1>6, <1>7, <1>8, <1>10, <2>1, Found, BucketsKnown
       DEF Moves, Gone, Held, InBoxes
  <2> QED
    BY <2>2, <2>3
<1> QED
  BY <1>1, <1>2, <1>4, <1>5, <1>7, <1>9, <1>10, Found, OrderStep

\* complete takes the goods out unless they have left.
LEMMA CompleteKeeps ==
    ASSUME FInv, NEW q \in Reqs, Complete(q)
    PROVE  FInv'
<1> DEFINE x == req[q]
           o == x.o
           n == x.order.qty
           r == [order[o] EXCEPT !.status = "closed", !.shipped = TRUE, !.fulfilled = TRUE]
           ps == package[o]
<1>1. /\ o \in Orders /\ Leaves(o) /\ x.order \in OrderRow(o)
      /\ OneAtATime => x.order = order[o] /\ StillAdmits("complete", o, x.n)
  BY OrderRequest DEF Complete, OrderOps
<1>2. /\ order' = [order EXCEPT ![o] = r] /\ UNCHANGED <<package, debt>>
      /\ Post(IF x.order.shipped THEN << >> ELSE ShipEntries(n))
  BY DEF Complete
<1>3. n \in Nat
  BY <1>1, BoundsAssumption DEF OrderRow
<1> HIDE DEF o, x, n
<1>4. r \in OrderRow(o)
  BY <1>1, Found DEF OrderRow, OrderStatus
<1>5. Sets(o, r, ps)
  BY <1>1, <1>2 DEF Sets, FInv, TInv, Tables
<1>6. /\ r.shipped /\ r.status = "closed"
      /\ r.qty = order[o].qty
      /\ r.confirmed = order[o].confirmed /\ r.received = order[o].received
      /\ r.refunded = order[o].refunded /\ r.returned = order[o].returned
      /\ r.financial = order[o].financial
  BY <1>1, Found DEF OrderRow
<1>7. /\ level' \in Level
      /\ x.order.shipped => level' = level
      /\ ~x.order.shipped =>
            /\ level'["on_hand"] = level["on_hand"] + (-n)
            /\ level'["committed"] = level["committed"] + (-n)
            /\ level'["packed"] = level["packed"]
  <2>1. Tables /\ -n \in Int
    BY <1>3 DEF FInv, TInv
  <2>2. /\ "on_hand" \in Buckets /\ "committed" \in Buckets \ {"on_hand"}
        /\ "packed" \in Buckets \ {"on_hand", "committed"} /\ "order_ship" \in MovementTypes
    BY BucketsKnown
  <2>3. CASE x.order.shipped
    BY <1>1, <1>2, <2>1, <2>3, PostNone, Found
  <2>4. CASE ~x.order.shipped
    <3>1. Post(ShipEntries(n))
      BY <1>2, <2>4
    <3> QED
      BY <2>1, <2>2, <2>4, <3>1, PostTwo DEF ShipEntries
  <2> QED
    BY <2>3, <2>4
<1> HIDE DEF r
<1>8. ASSUME OneAtATime
      PROVE  /\ n = order[o].qty /\ order[o].status = "open" /\ order[o].confirmed
             /\ OpenPackages(o) = {} /\ order[o].returned = 0
             /\ x.order.shipped = order[o].shipped
  BY <1>1, <1>8 DEF StillAdmits, OrderAdmits, MayLeaveDirectly, Confirmed, n
<1>9. ASSUME OneAtATime PROVE Basic(r, ps) /\ Charged(o, r)
  <2>1. \A k \in DOMAIN ps : ~ps[k].open
    BY <1>1, <1>8, <1>9, NoneOpen
  <2>2. Basic(r, ps)
    BY <1>1, <1>6, <1>8, <1>9, <2>1, Found DEF Basic
  <2>3. Sold(r) = Sold(order[o])
    BY <1>6, <1>8, <1>9 DEF Sold
  <2> QED
    BY <1>1, <1>2, <1>6, <2>2, <2>3, NothingCharged
<1>10. ASSUME OneAtATime, FollowsFlow PROVE Flowing(r, ps) /\ Moves(o, r, ps)
  <2>1. (\A k \in DOMAIN ps : ~ps[k].open) /\ ~Inside(ps)
    BY <1>1, <1>8, <1>10, NoneOpen
  <2>2. Flowing(r, ps)
    BY <1>1, <1>6, <1>8, <1>10, <2>1, Found DEF Flowing
  <2>3. Moves(o, r, ps)
    <3>1. CASE order[o].shipped
      <4>1. level' = level
        BY <1>7, <1>8, <1>10, <3>1
      <4>2. /\ Gone(r) = Gone(order[o]) /\ Held(r, ps) = Held(order[o], package[o])
            /\ InBoxes(r, ps) = InBoxes(order[o], package[o])
        BY <1>6, <3>1 DEF Gone, Held, InBoxes
      <4> QED
        BY <1>1, <4>1, <4>2, NothingMoved
    <3>2. CASE ~order[o].shipped
      BY <1>1, <1>3, <1>6, <1>7, <1>8, <1>10, <2>1, <3>2, Found, BucketsKnown
         DEF Moves, Gone, Held, InBoxes
    <3> QED
      BY <3>1, <3>2
  <2> QED
    BY <2>2, <2>3
<1> QED
  BY <1>1, <1>2, <1>4, <1>5, <1>7, <1>9, <1>10, Found, OrderStep

\* An update reserves or gives back the difference; what it gives back is held.
LEMMA UpdateKeeps ==
    ASSUME FInv, NEW q \in Reqs, Update(q)
    PROVE  FInv'
<1> DEFINE x == req[q]
           o == x.o
           n == x.n
           delta == n - x.order.qty
           back == IF -delta <= level["committed"] THEN -delta
                   ELSE IF level["committed"] > 0 THEN level["committed"] ELSE 0
           r == [order[o] EXCEPT !.qty = n, !.financial = FinancialOf(x.order.received, n)]
           ps == package[o]
<1>1. /\ o \in Orders /\ Leaves(o) /\ x.order \in OrderRow(o) /\ n \in Quantities(o)
      /\ OneAtATime => x.order = order[o] /\ StillAdmits("update", o, n)
  BY OrderRequest DEF Update, OrderOps
<1>2. /\ order' = [order EXCEPT ![o] = r] /\ package' = package
      /\ debt' = debt + delta
      /\ Post(IF delta = 0 THEN << >>
              ELSE IF delta > 0 THEN <<Entry("committed", delta, "order_reserve")>>
              ELSE <<Entry("committed", -back, "order_release")>>)
  BY DEF Update
<1>3. x.order.qty \in Nat /\ n \in 0..MaxQty[o] /\ n \in Nat \ {0}
  BY <1>1, BoundsAssumption DEF OrderRow, Quantities
<1> HIDE DEF o, x, n
<1>4. level["committed"] \in Int /\ delta \in Int /\ back \in Int /\ -back \in Int
  BY <1>1, <1>3, Found, BucketsKnown
<1>5. debt' = debt + delta /\ debt' \in Int
  BY <1>1, <1>2, <1>4, Found
<1> HIDE DEF back
<1>6. r \in OrderRow(o)
  BY <1>1, <1>3, FinancialTyped, Found DEF OrderRow
<1>7. Sets(o, r, ps)
  BY <1>1, <1>2 DEF Sets, FInv, TInv, Tables
<1>8. /\ r.qty = n
      /\ r.status = order[o].status /\ r.shipped = order[o].shipped
      /\ r.confirmed = order[o].confirmed /\ r.received = order[o].received
      /\ r.refunded = order[o].refunded /\ r.returned = order[o].returned
  BY <1>1, Found DEF OrderRow
<1>9. /\ level' \in Level
      /\ level'["on_hand"] = level["on_hand"] /\ level'["packed"] = level["packed"]
      /\ level'["committed"] =
            IF delta >= 0 THEN level["committed"] + delta ELSE level["committed"] - back
  <2>1. Tables /\ level \in Level
    BY <1>1, Found DEF FInv, TInv
  <2>2. /\ "committed" \in Buckets /\ {"order_reserve", "order_release"} \subseteq MovementTypes
        /\ {"on_hand", "packed"} \subseteq Buckets \ {"committed"}
    BY BucketsKnown
  <2> HIDE DEF delta
  <2>3. CASE delta = 0
    BY <1>2, <1>4, <2>1, <2>3, PostNone
  <2>4. CASE delta > 0
    <3>1. Post(<<Entry("committed", delta, "order_reserve")>>)
      BY <1>2, <2>4, <1>4
    <3> QED
      BY <1>4, <2>1, <2>2, <2>4, <3>1, PostOne
  <2>5. CASE delta < 0
    <3>1. Post(<<Entry("committed", -back, "order_release")>>)
      BY <1>2, <2>5, <1>4
    <3>2. level'["committed"] = level["committed"] + (-back)
      BY <1>4, <2>1, <2>2, <3>1, PostOne
    <3>3. /\ level' \in Level /\ level'["on_hand"] = level["on_hand"]
          /\ level'["packed"] = level["packed"]
      BY <1>4, <2>1, <2>2, <3>1, PostOne
    <3> QED
      BY <1>4, <2>5, <3>2, <3>3
  <2> QED
    BY <1>4, <2>3, <2>4, <2>5
<1> HIDE DEF r
<1>10. ASSUME OneAtATime
       PROVE  /\ x.order.qty = order[o].qty
              /\ order[o].status = "open" /\ order[o].confirmed = FALSE
              /\ order[o].returned = 0 /\ order[o].shipped = FALSE
              /\ \A k \in DOMAIN ps : ~ps[k].open
  <2>1. order[o].status = "open" /\ ~order[o].confirmed /\ x.order = order[o]
    BY <1>1, <1>10 DEF StillAdmits, OrderAdmits
  <2>2. Basic(order[o], ps) /\ order[o] \in OrderRow(o)
    BY <1>1, <1>10, Found
  <2> QED
    BY <2>1, <2>2 DEF Basic, OrderRow
<1>11. ASSUME OneAtATime PROVE Basic(r, ps) /\ Charged(o, r)
  <2>1. Basic(r, ps)
    BY <1>1, <1>8, <1>10, <1>11, Found DEF Basic
  <2>2. order[o].received \in Nat /\ debt \in Int
    BY <1>1, Found, PartsTyped
  <2>3. Charged(o, r)
    BY <1>3, <1>5, <1>8, <1>10, <1>11, <2>2 DEF Charged, Sold
  <2> QED
    BY <2>1, <2>3
<1>12. ASSUME OneAtATime, FollowsFlow PROVE Flowing(r, ps) /\ Moves(o, r, ps)
  <2>1. ~Inside(ps)
    BY <1>10, <1>12 DEF Inside
  <2>2. Flowing(r, ps)
    BY <1>1, <1>8, <1>10, <1>12, Found DEF Flowing
  <2>3. Held(order[o], ps) = x.order.qty /\ Held(r, ps) = n
    BY <1>8, <1>10, <1>12, <2>1 DEF Held
  <2>4. x.order.qty <= level["committed"]
    <3>1. level["committed"] = OpeningLevel["committed"] + SumFunctionOnSet(HeldUnits, Orders)
      BY <1>12 DEF FInv, Flowed, Stock
    <3>2. \A c \in Orders : HeldUnits[c] \in Nat
      BY Found, PartsTyped DEF HeldUnits
    <3>3. /\ SumFunctionOnSet(HeldUnits, Orders) \in Nat
          /\ HeldUnits[o] <= SumFunctionOnSet(HeldUnits, Orders)
      BY <1>1, <3>2, SumBounds, OrdersAssumption
    <3>4. HeldUnits[o] = x.order.qty
      BY <1>1, <2>3 DEF HeldUnits
    <3>5. OpeningLevel["committed"] \in Nat
      BY OpeningAssumption, BucketsKnown
    <3> QED
      BY <1>3, <3>1, <3>3, <3>4, <3>5
  <2>5. delta < 0 => back = -delta
    BY <1>3, <1>4, <2>4 DEF back
  <2>6. level'["committed"] = level["committed"] + delta
    BY <1>4, <1>9, <2>5
  <2>7. /\ Gone(r) = Gone(order[o]) /\ Gone(r) = 0
        /\ InBoxes(r, ps) = 0 /\ InBoxes(order[o], ps) = 0
    BY <1>8, <1>10, <1>12, <2>1 DEF Gone, InBoxes
  <2>8. Moves(o, r, ps)
    BY <1>1, <1>3, <1>4, <1>9, <2>3, <2>6, <2>7, Found, BucketsKnown DEF Moves
  <2> QED
    BY <2>2, <2>8
<1> QED
  BY <1>1, <1>5, <1>6, <1>7, <1>9, <1>11, <1>12, Found, OrderStep

\* A cancellation gives back what is reserved and refunds what was paid.
LEMMA CancelKeeps ==
    ASSUME FInv, NEW q \in Reqs, Cancel(q)
    PROVE  FInv'
<1> DEFINE x == req[q]
           o == x.o
           left == Remaining(x)
           due == RefundDue(x)
           w == [order[o] EXCEPT !.status = "cancelled", !.refunded = @ + due]
           r == Recomputed(w)
           ps == package[o]
<1>1. /\ o \in Orders /\ Leaves(o) /\ x.order \in OrderRow(o)
      /\ OneAtATime => x.order = order[o] /\ StillAdmits("cancel", o, x.n)
  BY OrderRequest DEF Cancel, OrderOps
<1>2. /\ order' = [order EXCEPT ![o] = r] /\ package' = package
      /\ debt' = debt - x.order.qty
      /\ Post(IF left > 0 THEN <<Entry("committed", -left, "order_release")>> ELSE << >>)
  <2>1. order' = [order EXCEPT ![o] = r]
    BY DEF Cancel
  <2>2. package' = package /\ debt' = debt - x.order.qty
    BY DEF Cancel
  <2>3. Post(IF left > 0 THEN <<Entry("committed", -left, "order_release")>> ELSE << >>)
    BY DEF Cancel
  <2> QED
    BY <2>1, <2>2, <2>3
<1>3. /\ x.order.qty \in Nat /\ order[o].returned \in Nat /\ due \in Nat
      /\ left = x.order.qty - order[o].returned
  BY <1>1, BoundsAssumption, Found DEF OrderRow, RefundDue, Remaining
<1> HIDE DEF o, left, due
<1>4. debt' \in Int /\ debt \in Int
  BY <1>1, <1>2, <1>3, Found
<1>5. /\ w \in OrderRow(o)
      /\ w.status = "cancelled" /\ w.refunded = order[o].refunded + due
      /\ w.qty = order[o].qty /\ w.shipped = order[o].shipped
      /\ w.confirmed = order[o].confirmed /\ w.received = order[o].received
      /\ w.returned = order[o].returned
  <2>1. order[o] \in OrderRow(o) /\ due \in Nat
    BY <1>1, <1>3, Found
  <2> DEFINE back == order[o].refunded + due
  <2>2. back \in Nat /\ "cancelled" \in OrderStatus
    BY <2>1 DEF OrderRow, OrderStatus
  <2>3. w = [order[o] EXCEPT !.status = "cancelled", !.refunded = back]
    OBVIOUS
  <2> HIDE DEF w, back
  <2>4. w \in OrderRow(o) /\ w.refunded = back
    BY <2>1, <2>2, <2>3 DEF OrderRow
  <2> QED
    BY <2>1, <2>3, <2>4 DEF OrderRow, back
<1> HIDE DEF w, x
<1>6. /\ r \in OrderRow(o)
      /\ r.status = "cancelled" /\ r.refunded = order[o].refunded + due
      /\ r.qty = order[o].qty /\ r.shipped = order[o].shipped
      /\ r.confirmed = order[o].confirmed /\ r.received = order[o].received
      /\ r.returned = order[o].returned
  BY <1>5 DEF Recomputed, OrderRow, FinancialStatus
<1> HIDE DEF r
<1>7. Sets(o, r, ps)
  BY <1>1, <1>2 DEF Sets, FInv, TInv, Tables
<1>8. /\ level' \in Level
      /\ level'["on_hand"] = level["on_hand"] /\ level'["packed"] = level["packed"]
      /\ level'["committed"] = level["committed"] - (IF left > 0 THEN left ELSE 0)
  <2>1. Tables /\ level \in Level /\ -left \in Int /\ left \in Int
    BY <1>1, <1>3, Found DEF FInv, TInv
  <2>2. /\ "committed" \in Buckets /\ "order_release" \in MovementTypes
        /\ {"on_hand", "packed"} \subseteq Buckets \ {"committed"}
        /\ level["committed"] \in Int
    BY <2>1, BucketsKnown
  <2>3. CASE left > 0
    <3>1. Post(<<Entry("committed", -left, "order_release")>>)
      BY <1>2, <2>3
    <3>2. level'["committed"] = level["committed"] + (-left)
      BY <2>1, <2>2, <3>1, PostOne
    <3>3. /\ level' \in Level /\ level'["on_hand"] = level["on_hand"]
          /\ level'["packed"] = level["packed"]
      BY <2>1, <2>2, <3>1, PostOne
    <3> QED
      BY <2>1, <2>2, <2>3, <3>2, <3>3
  <2>4. CASE ~(left > 0)
    <3>1. level' = level
      BY <1>2, <2>1, <2>4, PostNone
    <3> QED
      BY <2>1, <2>2, <2>4, <3>1
  <2> QED
    BY <2>3, <2>4
<1>9. ASSUME OneAtATime
      PROVE  /\ x.order = order[o] /\ order[o].status = "open"
             /\ OpenPackages(o) = {} /\ order[o].shipped = FALSE
             /\ due = order[o].received /\ order[o].refunded = 0
  <2>1. x.order = order[o] /\ order[o].status = "open" /\ OpenPackages(o) = {}
        /\ ~order[o].shipped
    BY <1>1, <1>9 DEF StillAdmits, OrderAdmits
  <2>2. Basic(order[o], ps) /\ order[o] \in OrderRow(o)
    BY <1>1, <1>9, Found
  <2> QED
    BY <2>1, <2>2 DEF Basic, OrderRow, RefundDue, due
<1>10. ASSUME OneAtATime PROVE Basic(r, ps) /\ Charged(o, r)
  <2>1. \A k \in DOMAIN ps : ~ps[k].open
    BY <1>1, <1>9, <1>10, NoneOpen
  <2>2. order[o].received \in Nat /\ order[o].qty \in Nat
    BY <1>1, Found, BoundsAssumption DEF OrderRow
  <2>3. Basic(r, ps)
    BY <1>1, <1>6, <1>9, <1>10, <2>1, <2>2, Found DEF Basic
  <2>4. Charged(o, r)
    BY <1>2, <1>4, <1>6, <1>9, <1>10, <2>2 DEF Charged, Sold
  <2> QED
    BY <2>3, <2>4
<1>11. ASSUME OneAtATime, FollowsFlow PROVE Flowing(r, ps) /\ Moves(o, r, ps)
  <2>1. (\A k \in DOMAIN ps : ~ps[k].open) /\ ~Inside(ps)
    BY <1>1, <1>9, <1>11, NoneOpen
  <2>2. Flowing(order[o], ps)
    BY <1>1, <1>11, Found
  <2>3. Flowing(r, ps)
    BY <1>6, <1>9, <1>11, <2>1, <2>2 DEF Flowing
  <2>4. order[o].returned \in {0, order[o].qty}
    BY <2>2 DEF Flowing
  <2>5. /\ Held(r, ps) = 0 /\ Gone(r) = 0 /\ Gone(order[o]) = 0
        /\ InBoxes(r, ps) = 0 /\ InBoxes(order[o], ps) = 0
        /\ Held(order[o], ps) = IF left > 0 THEN left ELSE 0
    <3>1. order[o].qty \in Nat /\ left = order[o].qty - order[o].returned
      BY <1>3, <1>9, <1>11
    <3>2. Held(order[o], ps) = IF order[o].returned = 0 THEN order[o].qty ELSE 0
      BY <1>9, <1>11, <2>1 DEF Held
    <3>3. Held(order[o], ps) = IF left > 0 THEN left ELSE 0
      BY <2>4, <3>1, <3>2
    <3> QED
      BY <1>6, <1>9, <1>11, <2>1, <3>3 DEF Held, Gone, InBoxes
  <2>6. left \in Int
    BY <1>3
  <2>7. Moves(o, r, ps)
    BY <1>1, <1>8, <2>5, <2>6, Found, BucketsKnown DEF Moves
  <2> QED
    BY <2>3, <2>7
<1> QED
  BY <1>1, <1>4, <1>6, <1>7, <1>8, <1>10, <1>11, Found, OrderStep

\* The last payment closes an order that has been delivered.
LEMMA PayKeeps ==
    ASSUME FInv, NEW q \in Reqs, Pay(q)
    PROVE  FInv'
<1> DEFINE x == req[q]
           o == x.o
           received == order[o].received + x.n
           status == IF received >= order[o].qty /\ Closes(o) THEN "closed"
                     ELSE order[o].status
           r == [order[o] EXCEPT !.received = received,
                                 !.financial = FinancialOf(received, order[o].qty),
                                 !.status = status]
           ps == package[o]
<1>1. /\ o \in Orders /\ Leaves(o) /\ x.n \in Quantities(o)
      /\ OneAtATime => StillAdmits("pay", o, x.n)
  BY OrderRequest DEF Pay, OrderOps
<1>2. /\ order' = [order EXCEPT ![o] = r] /\ UNCHANGED <<package, level>>
      /\ debt' = debt - x.n /\ received <= order[o].qty
  BY DEF Pay, Payable, Payment
<1>3. /\ x.n \in Nat /\ order[o].received \in Nat /\ order[o].qty \in 0..MaxQty[o]
      /\ MaxQty[o] \in Nat
  BY <1>1, BoundsAssumption, Found DEF Quantities, OrderRow
<1> HIDE DEF o, x
<1>4. received \in 0..MaxQty[o] /\ debt' \in Int /\ debt \in Int
  BY <1>1, <1>2, <1>3, Found
<1>5. status \in {"closed", order[o].status} /\ order[o].status \in OrderStatus
      /\ "closed" \in OrderStatus
  BY <1>1, Found DEF OrderRow, OrderStatus
<1>6. status = "closed" => order[o].status = "closed" \/ Closes(o)
  OBVIOUS
<1>7. received >= order[o].qty /\ Closes(o) => status = "closed"
  OBVIOUS
<1> HIDE DEF received, status
<1>8. r \in OrderRow(o)
  BY <1>1, <1>4, <1>5, FinancialTyped, Found DEF OrderRow
<1>9. /\ r.received = received /\ r.status = status
      /\ r.financial = FinancialOf(received, order[o].qty)
      /\ r.qty = order[o].qty /\ r.shipped = order[o].shipped
      /\ r.confirmed = order[o].confirmed /\ r.refunded = order[o].refunded
      /\ r.returned = order[o].returned
  BY <1>1, Found DEF OrderRow
<1> HIDE DEF r
<1>10. Sets(o, r, ps)
  BY <1>1, <1>2 DEF Sets, FInv, TInv, Tables
<1>11. ASSUME OneAtATime
       PROVE  /\ order[o].status \in {"open", "closed"} /\ status \in {"open", "closed"}
              /\ status = "closed" /\ order[o].status = "open" =>
                    \A k \in DOMAIN ps : ~ps[k].open
  <2>1. order[o].status \notin {"none", "cancelled"}
    BY <1>1, <1>11 DEF StillAdmits, OrderAdmits
  <2>2. order[o].status \in {"open", "closed"}
    BY <1>5, <2>1 DEF OrderStatus
  <2>3. Basic(order[o], ps) /\ DOMAIN ps = Packages(o)
    BY <1>1, <1>11, Found
  <2>4. Closes(o) => \A k \in DOMAIN ps : ~ps[k].open
    BY <2>3 DEF Closes, DeliveredAndNothingInFlight, Basic
  <2> QED
    BY <1>5, <1>6, <2>2, <2>4
<1>12. ASSUME OneAtATime PROVE Basic(r, ps) /\ Charged(o, r)
  <2>1. Basic(order[o], ps)
    BY <1>1, <1>12, Found
  <2>2. Basic(r, ps)
    BY <1>9, <1>11, <1>12, <2>1 DEF Basic
  <2>3. Charged(o, r)
    BY <1>2, <1>3, <1>4, <1>9, <1>11, <1>12 DEF Charged, Sold, received
  <2> QED
    BY <2>2, <2>3
<1>13. ASSUME OneAtATime, FollowsFlow PROVE Flowing(r, ps) /\ Moves(o, r, ps)
  <2>1. Flowing(order[o], ps) /\ Basic(order[o], ps) /\ DOMAIN ps = Packages(o)
    BY <1>1, <1>13, Found
  <2>2. ASSUME NEW k \in DOMAIN ps, ps[k].shipment = "delivered", r.financial = "paid"
        PROVE  r.status # "open"
    <3>1. received >= order[o].qty
      BY <1>9, <2>2 DEF FinancialOf
    <3>2. order[o].status = "open" => Closes(o)
      BY <2>1, <2>2 DEF Closes, DeliveredAndNothingInFlight, Flowing, Basic
    <3> QED
      BY <1>5, <1>7, <1>9, <3>1, <3>2
  <2>3. Flowing(r, ps)
    BY <1>9, <2>1, <2>2 DEF Flowing
  <2>4. /\ Gone(r) = Gone(order[o]) /\ Held(r, ps) = Held(order[o], package[o])
        /\ InBoxes(r, ps) = InBoxes(order[o], package[o])
    BY <1>9, <1>11, <1>13 DEF Gone, Held, InBoxes
  <2> QED
    BY <1>1, <1>2, <2>3, <2>4, NothingMoved
<1> QED
  BY <1>1, <1>2, <1>4, <1>8, <1>10, <1>12, <1>13, Found, OrderStep

-----------------------------------------------------------------------------
(* A step on one package.                                                  *)

Boxed(p) == p.open /\ p.packedOn /\ p.shipment \in {"none", "pending"}

\* What the row written for a package must say beside the row of its order.
FitsBasic(r, p) ==
    /\ r.status # "none"
    /\ r.refunded = (IF r.status = "cancelled" THEN r.received ELSE 0)
    /\ r.returned # 0 => r.confirmed
    /\ r.shipped => r.confirmed
    /\ p.packedOn <=> p.packing = "packed"
    /\ InFlight(p) <=> p.open
    /\ p.open => r.status = "open" /\ r.confirmed /\ r.returned = 0

FitsFlow(r, p) ==
    /\ r.returned \in {0, r.qty}
    /\ p.open => (r.shipped <=> p.shipment \in OnTheWay)
    /\ p.shipment = "delivered" =>
          r.shipped /\ ~p.open /\ (r.financial = "paid" => r.status # "open")

\* What an order holds as reserved, given its only package that may be open.
HeldBeside(r, p) ==
    IF r.status \in {"open", "closed"} /\ ~r.shipped /\ r.returned = 0 /\ ~Boxed(p)
    THEN r.qty ELSE 0
BoxedBeside(r, p) == IF Boxed(p) THEN r.qty ELSE 0

MovesBeside(o, r, k, p) ==
    /\ level'["on_hand"] = level["on_hand"] + Gone(order[o]) - Gone(r)
    /\ level'["committed"] =
          level["committed"] + HeldBeside(r, p) - HeldBeside(order[o], package[o][k])
    /\ level'["packed"] =
          level["packed"] + BoxedBeside(r, p) - BoxedBeside(order[o], package[o][k])

\* Where no other package is open, this one decides.
LEMMA OnlyOpen ==
    ASSUME NEW r, NEW ps, NEW k \in DOMAIN ps, \A j \in DOMAIN ps \ {k} : ~ps[j].open
    PROVE  Held(r, ps) = HeldBeside(r, ps[k]) /\ InBoxes(r, ps) = BoxedBeside(r, ps[k])
<1>1. Inside(ps) <=> Boxed(ps[k])
  BY DEF Inside, Boxed
<1> QED
  BY <1>1 DEF Held, HeldBeside, InBoxes, BoxedBeside

\* A step that writes one package and its order: what it must show of the two rows and
\* the stock for the invariant to go on.
LEMMA PackageStep ==
    ASSUME FInv, NEW o \in Orders, NEW r \in OrderRow(o),
           NEW k \in Packages(o), NEW p \in PackageRow, NEW ps,
           ps = [package[o] EXCEPT ![k] = p],
           Sets(o, r, ps), Leaves(o), level' \in Level, debt' = debt,
           OneAtATime => /\ package[o][k].open \/ OpenPackages(o) = {}
                         /\ FitsBasic(r, p)
                         /\ Sold(r) = Sold(order[o]) /\ r.received = order[o].received,
           OneAtATime /\ FollowsFlow => /\ package[o][k].open \/ ~order[o].shipped
                                        /\ FitsFlow(r, p) /\ MovesBeside(o, r, k, p)
    PROVE  FInv'
<1>1. /\ ps \in PackageRows(o) /\ DOMAIN ps = Packages(o) /\ ps[k] = p
      /\ \A j \in Packages(o) \ {k} : ps[j] = package[o][j]
  BY Found DEF PackageRows
<1>2. debt' \in Int
  BY Found
<1>3. ASSUME OneAtATime PROVE Basic(r, ps) /\ Charged(o, r)
                              /\ \A j \in Packages(o) \ {k} : ~ps[j].open
  <2>1. Basic(order[o], package[o]) /\ DOMAIN package[o] = Packages(o)
    BY <1>3, Found
  <2>2. \A j \in Packages(o) \ {k} : ~ps[j].open
    BY <1>1, <1>3, <2>1 DEF Basic, OpenPackages
  <2>3. \A j \in Packages(o) \ {k} :
            /\ ps[j].packedOn <=> ps[j].packing = "packed"
            /\ InFlight(ps[j]) <=> ps[j].open
    BY <1>1, <2>1 DEF Basic
  <2>4. Basic(r, ps)
    BY <1>1, <1>3, <2>2, <2>3 DEF Basic, FitsBasic
  <2> QED
    BY <1>3, <2>2, <2>4, NothingCharged
<1>4. ASSUME OneAtATime, FollowsFlow PROVE Flowing(r, ps) /\ Moves(o, r, ps)
  <2>1. /\ Flowing(order[o], package[o]) /\ Basic(order[o], package[o])
        /\ DOMAIN package[o] = Packages(o)
    BY <1>4, Found
  <2>2. \A j \in Packages(o) \ {k} : ps[j].shipment # "delivered"
    BY <1>1, <1>4, <2>1 DEF Flowing
  <2>3. Flowing(r, ps)
    BY <1>1, <1>3, <1>4, <2>2 DEF Flowing, FitsFlow
  <2>4. \A j \in Packages(o) \ {k} : ~package[o][j].open
    BY <1>1, <1>3, <1>4
  <2>5. /\ Held(r, ps) = HeldBeside(r, p) /\ InBoxes(r, ps) = BoxedBeside(r, p)
        /\ Held(order[o], package[o]) = HeldBeside(order[o], package[o][k])
        /\ InBoxes(order[o], package[o]) = BoxedBeside(order[o], package[o][k])
    BY <1>1, <1>3, <1>4, <2>1, <2>4, OnlyOpen
  <2>6. Moves(o, r, ps)
    BY <1>4, <2>5 DEF Moves, MovesBeside
  <2> QED
    BY <2>3, <2>6
<1> QED
  BY <1>1, <1>2, <1>3, <1>4, OrderStep

\* Nothing leaves the shelf or a box.
LEMMA StaysBeside ==
    ASSUME FInv, NEW o \in Orders, NEW r, NEW k \in Packages(o), NEW p, level' = level,
           Gone(r) = Gone(order[o]), HeldBeside(r, p) = HeldBeside(order[o], package[o][k]),
           BoxedBeside(r, p) = BoxedBeside(order[o], package[o][k])
    PROVE  MovesBeside(o, r, k, p)
<1>1. order[o].qty \in Nat
  BY Found, BoundsAssumption DEF OrderRow
<1>2. /\ Gone(order[o]) \in Nat /\ HeldBeside(order[o], package[o][k]) \in Nat
      /\ BoxedBeside(order[o], package[o][k]) \in Nat
  BY <1>1 DEF Gone, HeldBeside, BoxedBeside
<1>3. level["on_hand"] \in Int /\ level["committed"] \in Int /\ level["packed"] \in Int
  BY Found, BucketsKnown
<1> QED
  BY <1>2, <1>3 DEF MovesBeside

\* The table of allowed statuses, as far as the handlers look things up in it.
LEMMA StepsKnown ==
    /\ {"packing", "packed", "discard", "picked_up", "delivering", "delivered",
        "retry_delivery", "returning", "returned", "cancelled"} \subseteq PackageOps
    /\ "pending" \in ShipmentStatus /\ "cancelled" \in ShipmentStatus
    /\ \A s \in ShipmentStatus :
          /\ "picked_up" \in Allowed[s] => s = "pending"
          /\ "delivering" \in Allowed[s] => s \in {"picked_up", "retry_delivery"}
          /\ "delivered" \in Allowed[s] => s = "delivering"
          /\ "retry_delivery" \in Allowed[s] => s = "delivering"
          /\ "returning" \in Allowed[s] => s = "retry_delivery"
          /\ "returned" \in Allowed[s] => s = "returning"
          /\ "cancelled" \in Allowed[s] => s = "pending" \/ s \in OnTheWay
<1>1. \A s \in ShipmentStatus : Allowed[s] =
          CASE s = "pending" -> {"picked_up", "cancelled"}
            [] s = "picked_up" -> {"delivering", "cancelled"}
            [] s = "delivering" -> {"delivered", "retry_delivery", "cancelled"}
            [] s = "retry_delivery" -> {"delivering", "returning", "cancelled"}
            [] s = "returning" -> {"returned", "cancelled"}
            [] OTHER -> {}
  BY DEF Allowed
<1>2. {"pending", "picked_up", "delivering", "retry_delivery", "returning", "cancelled"}
          \subseteq ShipmentStatus
  BY DEF ShipmentStatus
<1>3. /\ "picked_up" \in Allowed["pending"] /\ "cancelled" \in Allowed["pending"]
      /\ "delivering" \in Allowed["picked_up"]
      /\ "delivered" \in Allowed["delivering"] /\ "retry_delivery" \in Allowed["delivering"]
      /\ "returning" \in Allowed["retry_delivery"]
      /\ "returned" \in Allowed["returning"]
  BY <1>1, <1>2
<1>4. {"picked_up", "cancelled", "delivering", "delivered", "retry_delivery", "returning",
       "returned"} \subseteq Steps
  BY <1>2, <1>3 DEF Steps
<1>5. \A s \in ShipmentStatus :
          /\ "picked_up" \in Allowed[s] => s = "pending"
          /\ "delivering" \in Allowed[s] => s \in {"picked_up", "retry_delivery"}
          /\ "delivered" \in Allowed[s] => s = "delivering"
          /\ "retry_delivery" \in Allowed[s] => s = "delivering"
  BY <1>1
<1>6. \A s \in ShipmentStatus :
          /\ "returning" \in Allowed[s] => s = "retry_delivery"
          /\ "returned" \in Allowed[s] => s = "returning"
          /\ "cancelled" \in Allowed[s] => s = "pending" \/ s \in OnTheWay
  BY <1>1 DEF OnTheWay
<1> QED
  BY <1>2, <1>4, <1>5, <1>6 DEF PackageOps

\* What a transaction on a package starts from.
LEMMA PackageRequest ==
    ASSUME FInv, NEW q \in Reqs, NEW op \in PackageOps, Ends(q, op)
    PROVE  /\ req[q].o \in Orders /\ Leaves(req[q].o)
           /\ req[q].k \in Packages(req[q].o)
           /\ req[q].order \in OrderRow(req[q].o) /\ req[q].order.qty \in Nat
           /\ req[q].package \in PackageRow
           /\ OneAtATime => /\ req[q].order = order[req[q].o]
                            /\ req[q].package = package[req[q].o][req[q].k]
                            /\ PackageAdmits(op, req[q].package)
<1>1. /\ Known(req[q]) /\ req[q].pc = "tx" /\ req[q].op = op /\ Leaves(req[q].o)
      /\ OneAtATime => Current(req[q])
  BY EndsLeaves
<1> QED
  BY <1>1, BoundsAssumption DEF Known, Current, OrderRow

-----------------------------------------------------------------------------
(* The transactions of FulfillmentService.                                 *)

\* An open package belongs to an open, confirmed order.
LEMMA OpenPackage ==
    ASSUME FInv, OneAtATime, NEW o \in Orders, NEW k \in Packages(o), package[o][k].open
    PROVE  /\ order[o].status = "open" /\ order[o].confirmed
           /\ order[o].returned = 0 /\ order[o].refunded = 0
           /\ package[o][k].packedOn <=> package[o][k].packing = "packed"
           /\ InFlight(package[o][k])
           /\ FollowsFlow => (order[o].shipped <=> package[o][k].shipment \in OnTheWay)
BY Found DEF Basic, Flowing

\* The buckets of a package that is taken out of its box.
LEMMA UnpackMoves ==
    ASSUME FInv, NEW x, x.order.qty \in Nat, x.package \in PackageRow, Unpack(x)
    PROVE  /\ level' \in Level
           /\ level'["on_hand"] = level["on_hand"]
           /\ x.package.packedOn =>
                 /\ level'["packed"] = level["packed"] - x.order.qty
                 /\ level'["committed"] = level["committed"] + x.order.qty
           /\ ~x.package.packedOn => level' = level
<1> DEFINE n == x.order.qty
<1>1. Tables /\ level \in Level
  BY DEF FInv, TInv, Tables
<1>2. /\ "packed" \in Buckets /\ "committed" \in Buckets \ {"packed"}
      /\ "on_hand" \in Buckets \ {"packed", "committed"} /\ "packing_cancel" \in MovementTypes
      /\ level["packed"] \in Int
  BY <1>1, BucketsKnown
<1>3. n \in Int /\ -n \in Int
  OBVIOUS
<1>4. CASE x.package.packedOn
  <2>1. Post(<<Entry("packed", -n, "packing_cancel"), Entry("committed", n, "packing_cancel")>>)
    BY <1>4 DEF Unpack
  <2> HIDE DEF n
  <2>2. /\ level' \in Level /\ level'["packed"] = level["packed"] + (-n)
        /\ level'["committed"] = level["committed"] + n
        /\ level'["on_hand"] = level["on_hand"]
    BY <1>1, <1>2, <1>3, <2>1, PostTwo
  <2> QED
    BY <1>2, <1>3, <1>4, <2>2 DEF n
<1>5. CASE ~x.package.packedOn
  <2>1. Post(<< >>)
    BY <1>5 DEF Unpack
  <2> QED
    BY <1>1, <1>5, <2>1, PostNone
<1> QED
  BY <1>4, <1>5

\* A package is being packed.
LEMMA PackingKeeps ==
    ASSUME FInv, NEW q \in Reqs, Packing(q)
    PROVE  FInv'
<1> DEFINE x == req[q]
           o == x.o
           k == x.k
           old == package[o][k]
           p == [old EXCEPT !.packing = "packing"]
           r == order[o]
           ps == [package[o] EXCEPT ![k] = p]
<1>1. /\ o \in Orders /\ Leaves(o) /\ k \in Packages(o)
      /\ OneAtATime => x.package = old /\ PackageAdmits("packing", x.package)
  BY PackageRequest, StepsKnown DEF Packing
<1>2. package' = [package EXCEPT ![o] = ps] /\ UNCHANGED <<order, level, debt>>
  BY DEF Packing
<1> HIDE DEF x, o, k
<1>3. r \in OrderRow(o) /\ old \in PackageRow /\ package[o] \in PackageRows(o)
  BY <1>1, Found DEF PackageRows
<1>4. p \in PackageRow /\ p.packing = "packing"
      /\ p.packedOn = old.packedOn /\ p.shipment = old.shipment /\ p.open = old.open
  BY <1>3 DEF PackageRow
<1>5. Sets(o, r, ps)
  BY <1>1, <1>2 DEF Sets, FInv, TInv, Tables
<1>6. OneAtATime => old.open /\ old.packing = "unknown"
  BY <1>1 DEF PackageAdmits
<1> HIDE DEF p, ps, old
<1>7. ASSUME OneAtATime PROVE FitsBasic(r, p)
  BY <1>1, <1>4, <1>6, <1>7, OpenPackage DEF FitsBasic, InFlight, old
<1>8. ASSUME OneAtATime, FollowsFlow PROVE FitsFlow(r, p) /\ MovesBeside(o, r, k, p)
  <2>1. FitsFlow(r, p)
    BY <1>1, <1>3, <1>4, <1>6, <1>8, OpenPackage DEF FitsFlow, old, InFlight
  <2>2. HeldBeside(r, p) = HeldBeside(r, old) /\ BoxedBeside(r, p) = BoxedBeside(r, old)
    BY <1>4 DEF HeldBeside, BoxedBeside, Boxed
  <2> QED
    BY <1>1, <1>2, <2>1, <2>2, StaysBeside DEF old
<1>9. level' \in Level
  BY <1>1, <1>2, Found
<1> QED
  BY <1>1, <1>2, <1>3, <1>4, <1>5, <1>6, <1>7, <1>8, <1>9, PackageStep DEF ps, old

\* The goods of an order go from its reservation into the box.
LEMMA PackedKeeps ==
    ASSUME FInv, NEW q \in Reqs, Packed(q)
    PROVE  FInv'
<1> DEFINE x == req[q]
           o == x.o
           k == x.k
           n == x.order.qty
           old == package[o][k]
           p == [old EXCEPT !.packing = "packed", !.packedOn = TRUE]
           r == order[o]
           ps == [package[o] EXCEPT ![k] = p]
<1>1. /\ o \in Orders /\ Leaves(o) /\ k \in Packages(o) /\ n \in Nat
      /\ OneAtATime => /\ x.package = old /\ x.order = order[o]
                       /\ PackageAdmits("packed", x.package)
  BY PackageRequest, StepsKnown DEF Packed
<1>2. package' = [package EXCEPT ![o] = ps] /\ UNCHANGED <<order, debt>>
  BY DEF Packed
<1>3. Post(<<Entry("committed", -n, "packing_start"), Entry("packed", n, "packing_start")>>)
  BY DEF Packed
<1>4. OneAtATime => n = order[o].qty
  BY <1>1
<1> HIDE DEF x, o, k, n
<1>5. r \in OrderRow(o) /\ old \in PackageRow /\ package[o] \in PackageRows(o)
  BY <1>1, Found DEF PackageRows
<1>6. p \in PackageRow /\ p.packing = "packed" /\ p.packedOn
      /\ p.shipment = old.shipment /\ p.open = old.open
  BY <1>5 DEF PackageRow
<1>7. Sets(o, r, ps)
  BY <1>1, <1>2 DEF Sets, FInv, TInv, Tables
<1>8. OneAtATime => /\ old.open /\ old.packing # "packed"
                    /\ FollowsFlow => old.shipment \in {"none", "pending"}
  BY <1>1 DEF PackageAdmits
<1>9. /\ level' \in Level /\ level'["committed"] = level["committed"] + (-n)
      /\ level'["packed"] = level["packed"] + n
      /\ level'["on_hand"] = level["on_hand"]
  <2>1. /\ Tables /\ n \in Int /\ -n \in Int
        /\ "committed" \in Buckets /\ "packed" \in Buckets \ {"committed"}
        /\ "on_hand" \in Buckets \ {"committed", "packed"} /\ "packing_start" \in MovementTypes
    BY <1>1, BucketsKnown DEF FInv, TInv
  <2> QED
    BY <1>3, <2>1, PostTwo
<1> HIDE DEF p, ps, old
<1>10. ASSUME OneAtATime PROVE FitsBasic(r, p)
  BY <1>1, <1>6, <1>8, <1>10, OpenPackage DEF FitsBasic, InFlight, old
<1>11. ASSUME OneAtATime, FollowsFlow PROVE FitsFlow(r, p) /\ MovesBeside(o, r, k, p)
  <2>1. /\ r.status = "open" /\ r.returned = 0 /\ ~r.shipped /\ ~old.packedOn
    BY <1>1, <1>8, <1>11, OpenPackage DEF old, OnTheWay
  <2>2. FitsFlow(r, p)
    BY <1>6, <1>8, <1>11, <2>1 DEF FitsFlow, OnTheWay
  <2>3. /\ HeldBeside(r, p) = 0 /\ HeldBeside(r, old) = r.qty
        /\ BoxedBeside(r, p) = r.qty /\ BoxedBeside(r, old) = 0 /\ Gone(r) = 0
    BY <1>6, <1>8, <1>11, <2>1 DEF HeldBeside, BoxedBeside, Boxed, Gone
  <2>4. level["on_hand"] \in Int /\ level["committed"] \in Int /\ level["packed"] \in Int
    BY <1>1, Found, BucketsKnown
  <2>5. MovesBeside(o, r, k, p)
    BY <1>1, <1>4, <1>9, <1>11, <2>3, <2>4 DEF MovesBeside, old
  <2> QED
    BY <2>2, <2>5
<1> QED
  BY <1>1, <1>2, <1>5, <1>6, <1>7, <1>8, <1>9, <1>10, <1>11, PackageStep DEF ps, old

\* A package is given up before the carrier has it.
LEMMA DiscardKeeps ==
    ASSUME FInv, NEW q \in Reqs, Discard(q)
    PROVE  FInv'
<1> DEFINE x == req[q]
           o == x.o
           k == x.k
           n == x.order.qty
           old == package[o][k]
           s == IF x.package.shipment = "none" THEN old.shipment ELSE "cancelled"
           p == [old EXCEPT !.open = FALSE, !.shipment = s]
           r == [order[o] EXCEPT !.fulfilled = FALSE]
           ps == [package[o] EXCEPT ![k] = p]
<1>1. /\ o \in Orders /\ Leaves(o) /\ k \in Packages(o)
      /\ x.order.qty \in Nat /\ x.package \in PackageRow
      /\ OneAtATime => /\ x.package = old /\ x.order = order[o]
                       /\ PackageAdmits("discard", x.package)
  BY PackageRequest, StepsKnown DEF Discard
<1>2. /\ package' = [package EXCEPT ![o] = ps] /\ order' = [order EXCEPT ![o] = r]
      /\ debt' = debt
  BY DEF Discard
<1>3. /\ level' \in Level /\ level'["on_hand"] = level["on_hand"]
      /\ x.package.packedOn => /\ level'["packed"] = level["packed"] - n
                               /\ level'["committed"] = level["committed"] + n
      /\ ~x.package.packedOn => level' = level
  BY <1>1, UnpackMoves DEF Discard
<1>4. OneAtATime => n = order[o].qty /\ x.package = old
  BY <1>1
<1>5. n \in Nat
  BY <1>1
<1> HIDE DEF x, o, k, n
<1>6. order[o] \in OrderRow(o) /\ old \in PackageRow /\ package[o] \in PackageRows(o)
  BY <1>1, Found DEF PackageRows
<1>7. s \in ShipmentStatus
  BY <1>6, StepsKnown DEF PackageRow
<1>8. /\ OneAtATime => /\ old.open /\ old.shipment \in {"none", "pending"}
                       /\ s = IF old.shipment = "none" THEN "none" ELSE "cancelled"
  BY <1>1 DEF PackageAdmits
<1> HIDE DEF s
<1>9. p \in PackageRow /\ ~p.open /\ p.shipment = s
      /\ p.packedOn = old.packedOn /\ p.packing = old.packing
  BY <1>6, <1>7 DEF PackageRow
<1>10. /\ r \in OrderRow(o)
       /\ r.status = order[o].status /\ r.qty = order[o].qty
       /\ r.shipped = order[o].shipped /\ r.received = order[o].received
       /\ r.refunded = order[o].refunded /\ r.returned = order[o].returned
       /\ r.confirmed = order[o].confirmed /\ r.financial = order[o].financial
  BY <1>6 DEF OrderRow
<1>11. Sets(o, r, ps)
  BY <1>1, <1>2 DEF Sets, FInv, TInv, Tables
<1> HIDE DEF p, ps, r
<1>12. ASSUME OneAtATime PROVE FitsBasic(r, p)
  BY <1>1, <1>8, <1>9, <1>10, <1>12, OpenPackage DEF FitsBasic, InFlight
<1>13. ASSUME OneAtATime, FollowsFlow PROVE FitsFlow(r, p) /\ MovesBeside(o, r, k, p)
  <2>1. /\ r.status = "open" /\ r.returned = 0 /\ ~r.shipped /\ ~order[o].shipped
        /\ order[o].status = "open" /\ order[o].returned = 0
    BY <1>1, <1>8, <1>10, <1>13, OpenPackage DEF OnTheWay
  <2>2. FitsFlow(r, p)
    BY <1>8, <1>9, <1>13, <2>1 DEF FitsFlow, OnTheWay
  <2>3. /\ HeldBeside(r, p) = n /\ BoxedBeside(r, p) = 0
        /\ HeldBeside(order[o], old) = (IF old.packedOn THEN 0 ELSE n)
        /\ BoxedBeside(order[o], old) = (IF old.packedOn THEN n ELSE 0)
        /\ Gone(r) = 0 /\ Gone(order[o]) = 0
    BY <1>4, <1>8, <1>9, <1>10, <1>13, <2>1 DEF HeldBeside, BoxedBeside, Boxed, Gone
  <2>4. level["on_hand"] \in Int /\ level["committed"] \in Int /\ level["packed"] \in Int
    BY <1>1, Found, BucketsKnown
  <2>5. MovesBeside(o, r, k, p)
    BY <1>3, <1>4, <1>5, <1>13, <2>3, <2>4 DEF MovesBeside
  <2> QED
    BY <2>2, <2>5
<1>14. Sold(r) = Sold(order[o])
  BY <1>10 DEF Sold
<1> QED
  BY <1>1, <1>2, <1>3, <1>8, <1>9, <1>10, <1>11, <1>12, <1>13, <1>14, PackageStep DEF ps

\* The carrier takes the goods from where they are reserved.
LEMMA PickedUpKeeps ==
    ASSUME FInv, NEW q \in Reqs, PickedUp(q)
    PROVE  FInv'
<1> DEFINE x == req[q]
           o == x.o
           k == x.k
           n == x.order.qty
           b == ReservedBucket(x.package)
           old == package[o][k]
           p == [old EXCEPT !.shipment = "picked_up"]
           r == [order[o] EXCEPT !.shipped = TRUE]
           ps == [package[o] EXCEPT ![k] = p]
<1>1. /\ o \in Orders /\ Leaves(o) /\ k \in Packages(o) /\ n \in Nat
      /\ OneAtATime => /\ x.package = old /\ x.order = order[o]
                       /\ PackageAdmits("picked_up", x.package)
  BY PackageRequest, StepsKnown DEF PickedUp
<1>2. /\ package' = [package EXCEPT ![o] = ps] /\ order' = [order EXCEPT ![o] = r]
      /\ debt' = debt
  BY DEF PickedUp
<1>3. Post(<<Entry("on_hand", -n, "order_ship"), Entry(b, -n, "order_ship")>>)
  BY DEF PickedUp
<1>4. OneAtATime => /\ n = order[o].qty
                    /\ b = IF old.packedOn THEN "packed" ELSE "committed"
  BY <1>1 DEF ReservedBucket
<1>5. b \in {"packed", "committed"}
  BY DEF ReservedBucket
<1> HIDE DEF x, o, k, n, b
<1>6. order[o] \in OrderRow(o) /\ old \in PackageRow /\ package[o] \in PackageRows(o)
  BY <1>1, Found DEF PackageRows
<1>7. p \in PackageRow /\ p.shipment = "picked_up" /\ p.open = old.open
      /\ p.packedOn = old.packedOn /\ p.packing = old.packing
  BY <1>6 DEF PackageRow, ShipmentStatus
<1>8. /\ r \in OrderRow(o) /\ r.shipped
      /\ r.status = order[o].status /\ r.qty = order[o].qty
      /\ r.received = order[o].received
      /\ r.refunded = order[o].refunded /\ r.returned = order[o].returned
      /\ r.confirmed = order[o].confirmed /\ r.financial = order[o].financial
  BY <1>6 DEF OrderRow
<1>9. Sets(o, r, ps)
  BY <1>1, <1>2 DEF Sets, FInv, TInv, Tables
<1>10. OneAtATime => old.open /\ old.shipment = "pending"
  BY <1>1, <1>6, StepsKnown DEF PackageAdmits, PackageRow
<1>11. /\ level' \in Level /\ level'["on_hand"] = level["on_hand"] + (-n)
       /\ level'[b] = level[b] + (-n)
       /\ \A c \in Buckets \ {"on_hand", b} : level'[c] = level[c]
  <2>1. /\ Tables /\ -n \in Int
        /\ "on_hand" \in Buckets /\ b \in Buckets \ {"on_hand"} /\ "order_ship" \in MovementTypes
    BY <1>1, <1>5, BucketsKnown DEF FInv, TInv
  <2> QED
    BY <1>3, <2>1, PostTwo
<1> HIDE DEF p, ps, r, old
<1>12. ASSUME OneAtATime PROVE FitsBasic(r, p)
  BY <1>1, <1>7, <1>8, <1>10, <1>12, OpenPackage DEF FitsBasic, InFlight, old
<1>13. ASSUME OneAtATime, FollowsFlow PROVE FitsFlow(r, p) /\ MovesBeside(o, r, k, p)
  <2>1. order[o].status = "open" /\ order[o].returned = 0 /\ ~order[o].shipped
    BY <1>1, <1>10, <1>13, OpenPackage DEF OnTheWay, old
  <2>2. FitsFlow(r, p)
    BY <1>7, <1>8, <1>10, <1>13, <2>1 DEF FitsFlow, OnTheWay
  <2>3. /\ HeldBeside(r, p) = 0 /\ BoxedBeside(r, p) = 0
        /\ HeldBeside(order[o], old) = (IF old.packedOn THEN 0 ELSE n)
        /\ BoxedBeside(order[o], old) = (IF old.packedOn THEN n ELSE 0)
        /\ Gone(r) = n /\ Gone(order[o]) = 0
    BY <1>4, <1>7, <1>8, <1>10, <1>13, <2>1 DEF HeldBeside, BoxedBeside, Boxed, Gone
  <2>4. level["on_hand"] \in Int /\ level["committed"] \in Int /\ level["packed"] \in Int
    BY <1>1, Found, BucketsKnown
  <2>5. /\ level'["packed"] = IF old.packedOn THEN level["packed"] - n ELSE level["packed"]
        /\ level'["committed"] = IF old.packedOn THEN level["committed"]
                                 ELSE level["committed"] - n
    <3>1. {"packed", "committed"} \subseteq Buckets \ {"on_hand"}
      BY BucketsKnown
    <3>2. CASE old.packedOn
      BY <1>1, <1>4, <1>11, <1>13, <2>4, <3>1, <3>2
    <3>3. CASE ~old.packedOn
      BY <1>1, <1>4, <1>11, <1>13, <2>4, <3>1, <3>3
    <3> QED
      BY <3>2, <3>3
  <2>6. MovesBeside(o, r, k, p)
    <3>1. CASE old.packedOn
      BY <1>1, <1>11, <2>3, <2>4, <2>5, <3>1 DEF MovesBeside, old
    <3>2. CASE ~old.packedOn
      BY <1>1, <1>11, <2>3, <2>4, <2>5, <3>2 DEF MovesBeside, old
    <3> QED
      BY <3>1, <3>2
  <2> QED
    BY <2>2, <2>6
<1>14. Sold(r) = Sold(order[o])
  BY <1>8 DEF Sold
<1> QED
  BY <1>1, <1>2, <1>7, <1>8, <1>9, <1>10, <1>11, <1>12, <1>13, <1>14, PackageStep
     DEF ps, old

\* On its way a package changes alone.
LEMMA OnTheRoadKeeps ==
    ASSUME FInv, NEW q \in Reqs, OnTheRoad(q)
    PROVE  FInv'
<1> DEFINE x == req[q]
           o == x.o
           k == x.k
           old == package[o][k]
           r == order[o]
<1>1. PICK s \in {"delivering", "retry_delivery", "returning"} :
          /\ Ends(q, s)
          /\ package' = [package EXCEPT ![o][k].shipment = s]
          /\ UNCHANGED <<order, level, debt>>
  BY DEF OnTheRoad
<1> DEFINE p == [old EXCEPT !.shipment = s]
           ps == [package[o] EXCEPT ![k] = p]
<1>2. /\ o \in Orders /\ Leaves(o) /\ k \in Packages(o)
      /\ OneAtATime => x.package = old /\ PackageAdmits(s, x.package)
  BY <1>1, PackageRequest, StepsKnown
<1>3. package' = [package EXCEPT ![o] = ps]
  BY <1>1
<1> HIDE DEF x, o, k
<1>4. r \in OrderRow(o) /\ old \in PackageRow /\ package[o] \in PackageRows(o)
  BY <1>2, Found DEF PackageRows
<1>5. p \in PackageRow /\ p.packing = old.packing
      /\ p.packedOn = old.packedOn /\ p.shipment = s /\ p.open = old.open
  BY <1>4 DEF PackageRow, ShipmentStatus
<1>6. Sets(o, r, ps)
  BY <1>1, <1>2, <1>3 DEF Sets, FInv, TInv, Tables
<1>7. OneAtATime => old.open /\ old.shipment \in {"picked_up", "delivering", "retry_delivery"}
  <2>1. OneAtATime => old.open /\ s \in Allowed[old.shipment]
    BY <1>2 DEF PackageAdmits
  <2>2. old.shipment \in ShipmentStatus
    BY <1>4 DEF PackageRow
  <2> QED
    BY <2>1, <2>2, StepsKnown
<1> HIDE DEF p, ps, old
<1>8. ASSUME OneAtATime PROVE FitsBasic(r, p)
  BY <1>2, <1>5, <1>7, <1>8, OpenPackage DEF FitsBasic, InFlight, old
<1>9. ASSUME OneAtATime, FollowsFlow PROVE FitsFlow(r, p) /\ MovesBeside(o, r, k, p)
  <2>1. r.returned = 0 /\ r.shipped
    BY <1>2, <1>7, <1>9, OpenPackage DEF OnTheWay, old
  <2>2. FitsFlow(r, p)
    BY <1>5, <1>7, <1>9, <2>1 DEF FitsFlow, OnTheWay
  <2>3. HeldBeside(r, p) = HeldBeside(r, old) /\ BoxedBeside(r, p) = BoxedBeside(r, old)
    BY <1>5, <1>7, <1>9 DEF HeldBeside, BoxedBeside, Boxed
  <2> QED
    BY <1>1, <1>2, <2>2, <2>3, StaysBeside DEF old
<1>10. level' \in Level
  BY <1>1, <1>2, Found
<1> QED
  BY <1>1, <1>2, <1>4, <1>5, <1>6, <1>7, <1>8, <1>9, <1>10, PackageStep DEF ps, old

\* The customer has the goods; the order is closed if it had been paid.
LEMMA DeliveredKeeps ==
    ASSUME FInv, NEW q \in Reqs, Delivered(q)
    PROVE  FInv'
<1> DEFINE x == req[q]
           o == x.o
           k == x.k
           old == package[o][k]
           s == IF x.order.financial = "paid" THEN "closed" ELSE order[o].status
           p == [old EXCEPT !.shipment = "delivered", !.open = FALSE]
           r == [order[o] EXCEPT !.fulfilled = TRUE, !.status = s]
           ps == [package[o] EXCEPT ![k] = p]
<1>1. /\ o \in Orders /\ Leaves(o) /\ k \in Packages(o)
      /\ OneAtATime => /\ x.package = old /\ x.order = order[o]
                       /\ PackageAdmits("delivered", x.package)
  BY PackageRequest, StepsKnown DEF Delivered
<1>2. /\ package' = [package EXCEPT ![o] = ps] /\ order' = [order EXCEPT ![o] = r]
      /\ debt' = debt /\ level' = level
  BY DEF Delivered
<1>3. OneAtATime => s = IF order[o].financial = "paid" THEN "closed" ELSE order[o].status
  BY <1>1
<1>4. s \in {"closed", order[o].status}
  OBVIOUS
<1> HIDE DEF x, o, k, s
<1>5. order[o] \in OrderRow(o) /\ old \in PackageRow /\ package[o] \in PackageRows(o)
  BY <1>1, Found DEF PackageRows
<1>6. p \in PackageRow /\ p.shipment = "delivered" /\ ~p.open
      /\ p.packedOn = old.packedOn /\ p.packing = old.packing
  BY <1>5 DEF PackageRow, ShipmentStatus
<1>7. /\ r \in OrderRow(o) /\ r.status = s
      /\ r.qty = order[o].qty /\ r.shipped = order[o].shipped
      /\ r.received = order[o].received
      /\ r.refunded = order[o].refunded /\ r.returned = order[o].returned
      /\ r.confirmed = order[o].confirmed /\ r.financial = order[o].financial
  BY <1>4, <1>5 DEF OrderRow, OrderStatus
<1>8. Sets(o, r, ps)
  BY <1>1, <1>2 DEF Sets, FInv, TInv, Tables
<1>9. OneAtATime => old.open /\ old.shipment = "delivering"
  BY <1>1, <1>5, StepsKnown DEF PackageAdmits, PackageRow
<1> HIDE DEF p, ps, r, old
<1>10. ASSUME OneAtATime PROVE FitsBasic(r, p) /\ Sold(r) = Sold(order[o])
  BY <1>1, <1>3, <1>6, <1>7, <1>9, <1>10, OpenPackage DEF FitsBasic, InFlight, Sold, old
<1>11. ASSUME OneAtATime, FollowsFlow PROVE FitsFlow(r, p) /\ MovesBeside(o, r, k, p)
  <2>1. order[o].status = "open" /\ order[o].returned = 0 /\ order[o].shipped
    BY <1>1, <1>9, <1>11, OpenPackage DEF OnTheWay, old
  <2>2. FitsFlow(r, p)
    BY <1>3, <1>6, <1>7, <1>11, <2>1 DEF FitsFlow
  <2>3. /\ HeldBeside(r, p) = HeldBeside(order[o], old) /\ Gone(r) = Gone(order[o])
        /\ BoxedBeside(r, p) = BoxedBeside(order[o], old)
    BY <1>6, <1>7, <1>9, <1>11, <2>1 DEF HeldBeside, BoxedBeside, Boxed, Gone
  <2> QED
    BY <1>1, <1>2, <2>2, <2>3, StaysBeside DEF old
<1>12. level' \in Level
  BY <1>1, <1>2, Found
<1> QED
  BY <1>1, <1>2, <1>6, <1>7, <1>8, <1>9, <1>10, <1>11, <1>12, PackageStep DEF ps, old

\* The carrier gives up: the goods are reserved again.
LEMMA CancelledByCarrierKeeps ==
    ASSUME FInv, NEW q \in Reqs, CancelledByCarrier(q)
    PROVE  FInv'
<1> DEFINE x == req[q]
           o == x.o
           k == x.k
           n == x.order.qty
           early == x.package.shipment = "pending"
           old == package[o][k]
           out == IF early THEN order[o].shipped ELSE FALSE
           p == [old EXCEPT !.shipment = "cancelled", !.open = FALSE]
           r == [order[o] EXCEPT !.fulfilled = FALSE, !.shipped = out]
           ps == [package[o] EXCEPT ![k] = p]
<1>1. /\ o \in Orders /\ Leaves(o) /\ k \in Packages(o)
      /\ x.order.qty \in Nat /\ x.package \in PackageRow
      /\ OneAtATime => /\ x.package = old /\ x.order = order[o]
                       /\ PackageAdmits("cancelled", x.package)
  BY PackageRequest, StepsKnown DEF CancelledByCarrier
<1>2. /\ package' = [package EXCEPT ![o] = ps] /\ order' = [order EXCEPT ![o] = r]
      /\ debt' = debt
  BY DEF CancelledByCarrier
<1>3. early => /\ level' \in Level /\ level'["on_hand"] = level["on_hand"]
               /\ x.package.packedOn => /\ level'["packed"] = level["packed"] - n
                                        /\ level'["committed"] = level["committed"] + n
               /\ ~x.package.packedOn => level' = level
  <2>1. early => Unpack(x)
    BY DEF CancelledByCarrier
  <2> QED
    BY <1>1, <2>1, UnpackMoves
<1>4. ~early => Post(<<Entry("on_hand", n, "return_in"), Entry("committed", n, "order_reserve")>>)
  BY DEF CancelledByCarrier
<1>5. OneAtATime => /\ n = order[o].qty /\ x.package = old
                    /\ early <=> old.shipment = "pending"
  BY <1>1
<1>6. n \in Nat
  BY <1>1
<1> HIDE DEF x, o, k, n, early
<1>7. order[o] \in OrderRow(o) /\ old \in PackageRow /\ package[o] \in PackageRows(o)
  BY <1>1, Found DEF PackageRows
<1>8. out \in BOOLEAN /\ out = IF early THEN order[o].shipped ELSE FALSE
  BY <1>7 DEF OrderRow
<1>9. ~early => /\ level' \in Level /\ level'["on_hand"] = level["on_hand"] + n
                /\ level'["committed"] = level["committed"] + n
                /\ level'["packed"] = level["packed"]
  <2>1. /\ Tables /\ n \in Int
        /\ "on_hand" \in Buckets /\ "committed" \in Buckets \ {"on_hand"}
        /\ "packed" \in Buckets \ {"on_hand", "committed"}
        /\ "order_reserve" \in MovementTypes /\ "return_in" \in MovementTypes
    BY <1>6, BucketsKnown DEF FInv, TInv
  <2> QED
    BY <1>4, <2>1, PostTwo
<1> HIDE DEF out
<1>10. p \in PackageRow /\ ~p.open /\ p.shipment = "cancelled"
       /\ p.packedOn = old.packedOn /\ p.packing = old.packing
  BY <1>7, StepsKnown DEF PackageRow
<1>11. /\ r \in OrderRow(o) /\ r.shipped = out
       /\ r.status = order[o].status /\ r.qty = order[o].qty
       /\ r.received = order[o].received
       /\ r.refunded = order[o].refunded /\ r.returned = order[o].returned
       /\ r.confirmed = order[o].confirmed /\ r.financial = order[o].financial
  BY <1>7, <1>8 DEF OrderRow
<1>12. Sets(o, r, ps)
  BY <1>1, <1>2 DEF Sets, FInv, TInv, Tables
<1>13. OneAtATime => old.open /\ (old.shipment = "pending" \/ old.shipment \in OnTheWay)
  BY <1>1, <1>7, StepsKnown DEF PackageAdmits, PackageRow
<1>14. level' \in Level
  BY <1>3, <1>9
<1> HIDE DEF p, ps, r, old
<1>15. ASSUME OneAtATime PROVE FitsBasic(r, p)
  BY <1>1, <1>8, <1>10, <1>11, <1>13, <1>15, OpenPackage DEF FitsBasic, InFlight, old
<1>16. ASSUME OneAtATime, FollowsFlow PROVE FitsFlow(r, p) /\ MovesBeside(o, r, k, p)
  <2>1. /\ order[o].status = "open" /\ order[o].returned = 0
        /\ order[o].shipped <=> old.shipment \in OnTheWay
        /\ ~(early /\ old.shipment \in OnTheWay)
    BY <1>1, <1>5, <1>13, <1>16, OpenPackage DEF OnTheWay, old
  <2>2. FitsFlow(r, p) /\ ~r.shipped
    BY <1>5, <1>8, <1>10, <1>11, <1>13, <1>16, <2>1 DEF FitsFlow
  <2>3. HeldBeside(r, p) = n /\ BoxedBeside(r, p) = 0 /\ Gone(r) = 0
    BY <1>5, <1>10, <1>11, <1>16, <2>1, <2>2 DEF HeldBeside, BoxedBeside, Boxed, Gone
  <2>4. level["on_hand"] \in Int /\ level["committed"] \in Int /\ level["packed"] \in Int
    BY <1>1, Found, BucketsKnown
  <2>5. CASE early
    <3>1. /\ Gone(order[o]) = 0
          /\ HeldBeside(order[o], old) = (IF old.packedOn THEN 0 ELSE n)
          /\ BoxedBeside(order[o], old) = (IF old.packedOn THEN n ELSE 0)
      BY <1>5, <1>13, <1>16, <2>1, <2>5 DEF HeldBeside, BoxedBeside, Boxed, Gone
    <3>2. MovesBeside(o, r, k, p)
      BY <1>3, <1>5, <1>6, <1>16, <2>3, <2>4, <2>5, <3>1 DEF MovesBeside, old
    <3> QED
      BY <2>2, <3>2
  <2>6. CASE ~early
    <3>1. /\ Gone(order[o]) = n /\ HeldBeside(order[o], old) = 0
          /\ BoxedBeside(order[o], old) = 0
      BY <1>5, <1>13, <1>16, <2>1, <2>6 DEF HeldBeside, BoxedBeside, Boxed, Gone, OnTheWay
    <3>2. MovesBeside(o, r, k, p)
      BY <1>6, <1>9, <2>3, <2>4, <2>6, <3>1 DEF MovesBeside, old
    <3> QED
      BY <2>2, <3>2
  <2> QED
    BY <2>5, <2>6
<1>17. Sold(r) = Sold(order[o])
  BY <1>11 DEF Sold
<1>18. ASSUME OneAtATime, FollowsFlow PROVE package[o][k].open \/ ~order[o].shipped
  BY <1>13, <1>18 DEF old
<1> QED
  BY <1>1, <1>2, <1>10, <1>11, <1>12, <1>13, <1>14, <1>15, <1>16, <1>17, <1>18,
     PackageStep DEF ps, old

\* The goods are back on the shelf, for anybody.
LEMMA ReturnedKeeps ==
    ASSUME FInv, NEW q \in Reqs, Returned(q)
    PROVE  FInv'
<1> DEFINE x == req[q]
           o == x.o
           k == x.k
           n == x.order.qty
           old == package[o][k]
           p == [old EXCEPT !.shipment = "returned", !.open = FALSE]
           w == [order[o] EXCEPT !.shipped = FALSE, !.returned = @ + n]
           r == Recomputed(w)
           ps == [package[o] EXCEPT ![k] = p]
<1>1. /\ o \in Orders /\ Leaves(o) /\ k \in Packages(o) /\ n \in Nat
      /\ OneAtATime => /\ x.package = old /\ x.order = order[o]
                       /\ PackageAdmits("returned", x.package)
  BY PackageRequest, StepsKnown DEF Returned
<1>2. /\ package' = [package EXCEPT ![o] = ps] /\ order' = [order EXCEPT ![o] = r]
      /\ debt' = debt /\ Post(<<Entry("on_hand", n, "return_in")>>)
  <2>1. order' = [order EXCEPT ![o] = r]
    BY DEF Returned
  <2>2. /\ package' = [package EXCEPT ![o] = ps] /\ debt' = debt
        /\ Post(<<Entry("on_hand", n, "return_in")>>)
    BY DEF Returned
  <2> QED
    BY <2>1, <2>2
<1>3. OneAtATime => n = order[o].qty
  BY <1>1
<1> HIDE DEF x, o, k, n
<1>4. order[o] \in OrderRow(o) /\ old \in PackageRow /\ package[o] \in PackageRows(o)
  BY <1>1, Found DEF PackageRows
<1>5. p \in PackageRow /\ ~p.open /\ p.shipment = "returned"
      /\ p.packedOn = old.packedOn /\ p.packing = old.packing
  BY <1>4 DEF PackageRow, ShipmentStatus
<1>6. /\ w \in OrderRow(o) /\ ~w.shipped /\ w.returned = order[o].returned + n
      /\ w.status = order[o].status /\ w.qty = order[o].qty
      /\ w.received = order[o].received /\ w.refunded = order[o].refunded
      /\ w.confirmed = order[o].confirmed /\ w.financial = order[o].financial
  <2> DEFINE back == order[o].returned + n
  <2>1. back \in Nat
    BY <1>1, <1>4 DEF OrderRow
  <2>2. w = [order[o] EXCEPT !.shipped = FALSE, !.returned = back]
    OBVIOUS
  <2> HIDE DEF w, back
  <2>3. w \in OrderRow(o) /\ w.returned = back
    BY <1>4, <2>1, <2>2 DEF OrderRow
  <2> QED
    BY <1>4, <2>2, <2>3 DEF OrderRow, back
<1> HIDE DEF w
<1>7. r \in OrderRow(o)
  BY <1>6 DEF Recomputed, OrderRow, FinancialStatus
<1>8. OneAtATime => old.open /\ old.shipment = "returning"
  BY <1>1, <1>4, StepsKnown DEF PackageAdmits, PackageRow
<1>9. ASSUME OneAtATime
      PROVE  /\ r = w /\ order[o].status = "open" /\ order[o].confirmed
             /\ order[o].returned = 0 /\ order[o].refunded = 0
  BY <1>1, <1>6, <1>8, <1>9, OpenPackage DEF Recomputed
<1>10. Sets(o, r, ps)
  BY <1>1, <1>2 DEF Sets, FInv, TInv, Tables
<1>11. /\ level' \in Level /\ level'["on_hand"] = level["on_hand"] + n
       /\ level'["committed"] = level["committed"] /\ level'["packed"] = level["packed"]
  <2>1. /\ Tables /\ n \in Int /\ "on_hand" \in Buckets
        /\ {"committed", "packed"} \subseteq Buckets \ {"on_hand"}
        /\ "return_in" \in MovementTypes
    BY <1>1, BucketsKnown DEF FInv, TInv
  <2> QED
    BY <1>2, <2>1, PostOne
<1> HIDE DEF p, ps, r, old
<1>12. ASSUME OneAtATime PROVE FitsBasic(r, p) /\ Sold(r) = Sold(order[o])
                               /\ r.received = order[o].received
  BY <1>1, <1>5, <1>6, <1>8, <1>9, <1>12, OpenPackage DEF FitsBasic, InFlight, Sold, old
<1>13. ASSUME OneAtATime, FollowsFlow PROVE FitsFlow(r, p) /\ MovesBeside(o, r, k, p)
  <2>1. order[o].shipped
    BY <1>1, <1>8, <1>13, OpenPackage DEF OnTheWay, old
  <2>2. r.returned = n /\ r.qty = n /\ ~r.shipped
    BY <1>1, <1>3, <1>6, <1>9, <1>13
  <2>3. FitsFlow(r, p)
    BY <1>5, <2>2 DEF FitsFlow
  <2>4. /\ HeldBeside(r, p) = 0 /\ BoxedBeside(r, p) = 0 /\ Gone(r) = 0
        /\ HeldBeside(order[o], old) = 0 /\ BoxedBeside(order[o], old) = 0
        /\ Gone(order[o]) = n
    BY <1>3, <1>5, <1>8, <1>13, <2>1, <2>2 DEF HeldBeside, BoxedBeside, Boxed, Gone
  <2>5. level["on_hand"] \in Int /\ level["committed"] \in Int /\ level["packed"] \in Int
    BY <1>1, Found, BucketsKnown
  <2>6. MovesBeside(o, r, k, p)
    BY <1>1, <1>11, <2>4, <2>5 DEF MovesBeside, old
  <2> QED
    BY <2>3, <2>6
<1>14. ASSUME OneAtATime PROVE package[o][k].open
  BY <1>8, <1>14 DEF old
<1> QED
  BY <1>1, <1>2, <1>5, <1>7, <1>10, <1>11, <1>12, <1>13, <1>14, PackageStep DEF ps, old

\* A package is made for an order that has none open.
LEMMA MakeKeeps ==
    ASSUME FInv, NEW o \in Orders, NEW k \in Packages(o), NEW s \in {"none", "pending"},
           Make(o, k, s), order' = [order EXCEPT ![o].fulfilled = TRUE],
           level' = level, debt' = debt, Leaves(o),
           OneAtATime => /\ Confirmed(o) /\ order[o].returned = 0
                         /\ FollowsFlow => ~order[o].shipped
    PROVE  FInv'
<1> DEFINE p == [packing |-> "unknown", packedOn |-> FALSE, shipment |-> s, open |-> TRUE]
           r == [order[o] EXCEPT !.fulfilled = TRUE]
           ps == [package[o] EXCEPT ![k] = p]
<1>1. /\ package' = [package EXCEPT ![o] = ps] /\ OpenPackages(o) = {}
      /\ package[o][k] = NoPackage
  BY DEF Make
<1>2. order' = [order EXCEPT ![o] = r]
  OBVIOUS
<1>3. order[o] \in OrderRow(o) /\ level' \in Level
  BY Found
<1>4. p \in PackageRow /\ p.open /\ p.shipment = s /\ ~p.packedOn /\ p.packing = "unknown"
  BY DEF PackageRow, ShipmentStatus
<1>5. /\ r \in OrderRow(o) /\ r.shipped = order[o].shipped
      /\ r.status = order[o].status /\ r.qty = order[o].qty
      /\ r.received = order[o].received
      /\ r.refunded = order[o].refunded /\ r.returned = order[o].returned
      /\ r.confirmed = order[o].confirmed /\ r.financial = order[o].financial
  BY <1>3 DEF OrderRow
<1>6. Sets(o, r, ps)
  BY <1>1, <1>2 DEF Sets, FInv, TInv, Tables
<1> HIDE DEF p, r, ps
<1>7. ASSUME OneAtATime PROVE FitsBasic(r, p)
  <2>1. Basic(order[o], package[o])
    BY <1>7, Found
  <2> QED
    BY <1>4, <1>5, <1>7, <2>1 DEF FitsBasic, InFlight, Confirmed, Basic
<1>8. ASSUME OneAtATime, FollowsFlow PROVE FitsFlow(r, p) /\ MovesBeside(o, r, k, p)
  <2>1. FitsFlow(r, p)
    BY <1>4, <1>5, <1>8 DEF FitsFlow, OnTheWay
  <2>2. /\ HeldBeside(r, p) = HeldBeside(order[o], package[o][k])
        /\ BoxedBeside(r, p) = BoxedBeside(order[o], package[o][k])
        /\ Gone(r) = Gone(order[o])
    BY <1>1, <1>4, <1>5 DEF HeldBeside, BoxedBeside, Boxed, NoPackage, Gone
  <2> QED
    BY <2>1, <2>2, StaysBeside
<1>9. Sold(r) = Sold(order[o])
  BY <1>5 DEF Sold
<1> QED
  BY <1>1, <1>3, <1>4, <1>5, <1>6, <1>7, <1>8, <1>9, PackageStep DEF ps

\* Staff ask for the packing.
LEMMA PackingRequestKeeps ==
    ASSUME FInv, NEW q \in Reqs, PackingRequest(q)
    PROVE  FInv'
<1> DEFINE o == req[q].o
<1>1. /\ o \in Orders /\ Leaves(o)
      /\ OneAtATime => StillAdmits("packing_request", o, req[q].n)
  BY OrderRequest DEF PackingRequest, OrderOps
<1>2. OneAtATime => /\ Confirmed(o) /\ order[o].returned = 0
                    /\ FollowsFlow => ~order[o].shipped
  BY <1>1 DEF StillAdmits
<1>3. PICK k \in Packages(o) : Make(o, k, "none")
  BY DEF PackingRequest
<1>4. order' = [order EXCEPT ![o].fulfilled = TRUE] /\ level' = level /\ debt' = debt
  BY DEF PackingRequest
<1> HIDE DEF o
<1> QED
  BY <1>1, <1>2, <1>3, <1>4, MakeKeeps

\* Staff hand the order to the carrier.
LEMMA PushKeeps ==
    ASSUME FInv, NEW q \in Reqs, Push(q)
    PROVE  FInv'
<1> DEFINE o == req[q].o
           r == [order[o] EXCEPT !.fulfilled = TRUE]
<1>1. /\ o \in Orders /\ Leaves(o)
      /\ OneAtATime => StillAdmits("push", o, req[q].n)
  BY OrderRequest DEF Push, OrderOps
<1>2. OneAtATime => /\ Confirmed(o) /\ order[o].returned = 0
                    /\ FollowsFlow => ~order[o].shipped
  BY <1>1 DEF StillAdmits
<1>3. order' = [order EXCEPT ![o].fulfilled = TRUE] /\ level' = level /\ debt' = debt
  BY DEF Push
<1>4. \/ \E k \in OpenPackages(o) :
            /\ package[o][k].shipment = "none"
            /\ package' = [package EXCEPT ![o][k].shipment = "pending"]
      \/ \E k \in Packages(o) : Make(o, k, "pending")
  BY DEF Push
<1> HIDE DEF o
<1>5. CASE \E k \in Packages(o) : Make(o, k, "pending")
  <2>1. PICK k \in Packages(o) : Make(o, k, "pending")
    BY <1>5
  <2> QED
    BY <1>1, <1>2, <1>3, <2>1, MakeKeeps
<1>6. CASE \E k \in OpenPackages(o) :
              /\ package[o][k].shipment = "none"
              /\ package' = [package EXCEPT ![o][k].shipment = "pending"]
  <2>1. PICK k \in OpenPackages(o) :
              /\ package[o][k].shipment = "none"
              /\ package' = [package EXCEPT ![o][k].shipment = "pending"]
    BY <1>6
  <2> DEFINE old == package[o][k]
             p == [old EXCEPT !.shipment = "pending"]
             ps == [package[o] EXCEPT ![k] = p]
  <2>2. k \in Packages(o) /\ old.open /\ old.shipment = "none"
        /\ package' = [package EXCEPT ![o] = ps]
    BY <2>1 DEF OpenPackages
  <2>3. order[o] \in OrderRow(o) /\ old \in PackageRow /\ level' \in Level
    BY <1>1, <1>3, <2>2, Found DEF PackageRows
  <2>4. p \in PackageRow /\ p.shipment = "pending" /\ p.open
        /\ p.packedOn = old.packedOn /\ p.packing = old.packing
    BY <2>2, <2>3 DEF PackageRow, ShipmentStatus
  <2>5. /\ r \in OrderRow(o) /\ r.shipped = order[o].shipped
        /\ r.status = order[o].status /\ r.qty = order[o].qty
        /\ r.received = order[o].received
        /\ r.refunded = order[o].refunded /\ r.returned = order[o].returned
        /\ r.confirmed = order[o].confirmed /\ r.financial = order[o].financial
    BY <2>3 DEF OrderRow
  <2>6. Sets(o, r, ps)
    BY <1>1, <1>3, <2>2 DEF Sets, FInv, TInv, Tables
  <2> HIDE DEF p, r, ps, old
  <2>7. ASSUME OneAtATime PROVE FitsBasic(r, p)
    BY <1>1, <2>2, <2>4, <2>5, <2>7, OpenPackage DEF FitsBasic, InFlight, old
  <2>8. ASSUME OneAtATime, FollowsFlow PROVE FitsFlow(r, p) /\ MovesBeside(o, r, k, p)
    <3>1. order[o].returned = 0 /\ ~order[o].shipped
      BY <1>2, <2>8
    <3>2. FitsFlow(r, p)
      BY <2>4, <2>5, <3>1 DEF FitsFlow, OnTheWay
    <3>3. /\ HeldBeside(r, p) = HeldBeside(order[o], old)
          /\ BoxedBeside(r, p) = BoxedBeside(order[o], old)
          /\ Gone(r) = Gone(order[o])
      BY <2>2, <2>4, <2>5 DEF HeldBeside, BoxedBeside, Boxed, Gone
    <3> QED
      BY <1>1, <1>3, <2>2, <3>2, <3>3, StaysBeside DEF old
  <2>9. Sold(r) = Sold(order[o])
    BY <2>5 DEF Sold
  <2> QED
    BY <1>1, <1>3, <2>2, <2>3, <2>4, <2>5, <2>6, <2>7, <2>8, <2>9, PackageStep DEF ps, old
<1> QED
  BY <1>4, <1>5, <1>6

-----------------------------------------------------------------------------
(* The theorems.                                                           *)

\* Next, its inputs bound in the order the proof takes them in.
LEMMA NextNames == [Next]_vars <=>
    \/ \E o \in Orders : Create(o)
    \/ \E q \in Reqs, o \in Orders, op \in OrderOps :
          \E n \in IF op \in {"pay", "update"} THEN Quantities(o) ELSE {1} :
              ReadOrder(q, o, op, n)
    \/ \E q \in Reqs, o \in Orders, op \in PackageOps :
          \E k \in Packages(o) : ReadPackage(q, o, k, op)
    \/ \E q \in Reqs : Update(q) \/ Processing(q) \/ Cancel(q) \/ Ship(q) \/ Complete(q)
    \/ \E q \in Reqs : Pay(q) \/ PackingRequest(q) \/ Push(q) \/ Packing(q) \/ Packed(q)
    \/ \E q \in Reqs : Discard(q) \/ PickedUp(q) \/ OnTheRoad(q) \/ Delivered(q)
    \/ \E q \in Reqs : CancelledByCarrier(q) \/ Returned(q) \/ Fail(q)
    \/ UNCHANGED vars
BY DEF Next

\* At the start there are no orders, no packages and no debt.
LEMMA FInvInit == Init => FInv
<1> SUFFICES ASSUME Init PROVE FInv
  OBVIOUS
<1>1. Tables
  <2>1. \A o \in Orders : order[o] = NoOrder
                          /\ package[o] = [k \in Packages(o) |-> NoPackage]
    BY DEF Init
  <2>2. ASSUME NEW o \in Orders PROVE NoOrder \in OrderRow(o)
    BY BoundsAssumption DEF NoOrder, OrderRow, OrderStatus, FinancialStatus
  <2>3. NoPackage \in PackageRow
    BY DEF NoPackage, PackageRow, ShipmentStatus
  <2>4. level \in Level /\ debt \in Int
    BY OpeningAssumption DEF Init, Level
  <2> QED
    BY <2>1, <2>2, <2>3, <2>4 DEF Init, Tables, PackageRows
<1>2. TInv
  BY <1>1, IdleKnown DEF Init, TInv, Requests
<1>3. /\ \A o \in Orders : order[o] = NoOrder
      /\ \A o \in Orders : \A k \in DOMAIN package[o] : package[o][k] = NoPackage
  BY DEF Init
<1>4. Orderly
  <2>1. \A o \in Orders : Basic(order[o], package[o])
    BY <1>3 DEF Basic, NoOrder, NoPackage, InFlight
  <2>2. \A q \in Reqs : req[q].pc = "idle"
    BY DEF Init, Idle
  <2>3. /\ \A o \in Orders : SoldUnits[o] = 0
        /\ \A o \in Orders : PaidMoney[o] = 0
    BY <1>3 DEF SoldUnits, Sold, PaidMoney, NoOrder
  <2>4. SumFunctionOnSet(SoldUnits, Orders) = 0 /\ SumFunctionOnSet(PaidMoney, Orders) = 0
    BY <2>3, SumOfZeros, OrdersAssumption
  <2>5. Debt
    BY <2>4 DEF Debt, Init
  <2> QED
    BY <2>1, <2>2, <2>5 DEF Orderly, OneEach
<1>5. Flowed
  <2>1. \A o \in Orders : Flowing(order[o], package[o]) /\ ~Inside(package[o])
    BY <1>3 DEF Flowing, Inside, NoOrder, NoPackage
  <2>2. /\ \A o \in Orders : GoneUnits[o] = 0
        /\ \A o \in Orders : HeldUnits[o] = 0
        /\ \A o \in Orders : BoxedUnits[o] = 0
    BY <1>3, <2>1 DEF GoneUnits, HeldUnits, BoxedUnits, Gone, Held, InBoxes, NoOrder
  <2>3. /\ SumFunctionOnSet(GoneUnits, Orders) = 0
        /\ SumFunctionOnSet(HeldUnits, Orders) = 0
        /\ SumFunctionOnSet(BoxedUnits, Orders) = 0
    BY <2>2, SumOfZeros, OrdersAssumption
  <2>4. Stock
    BY <2>3, OpeningAssumption, BucketsKnown DEF Stock, Init
  <2> QED
    BY <2>1, <2>4 DEF Flowed
<1> QED
  BY <1>2, <1>4, <1>5 DEF FInv

\* Every step keeps the invariant.
LEMMA FInvStep == FInv /\ [Next]_vars => FInv'
<1> SUFFICES ASSUME FInv, [Next]_vars PROVE FInv'
  OBVIOUS
<1>1. CASE \E o \in Orders : Create(o)
  BY <1>1, CreateKeeps
<1>2. CASE \E q \in Reqs, o \in Orders, op \in OrderOps :
          \E n \in IF op \in {"pay", "update"} THEN Quantities(o) ELSE {1} :
              ReadOrder(q, o, op, n)
  <2>1. PICK q \in Reqs, o \in Orders, op \in OrderOps :
          \E n \in IF op \in {"pay", "update"} THEN Quantities(o) ELSE {1} :
              ReadOrder(q, o, op, n)
    BY <1>2
  <2>2. 1 \in Quantities(o)
    BY BoundsAssumption DEF Quantities
  <2> QED
    BY <2>1, <2>2, ReadOrderKeeps
<1>3. CASE \E q \in Reqs, o \in Orders, op \in PackageOps :
          \E k \in Packages(o) : ReadPackage(q, o, k, op)
  BY <1>3, ReadPackageKeeps
<1>4. CASE \E q \in Reqs : Update(q) \/ Processing(q) \/ Cancel(q) \/ Ship(q) \/ Complete(q)
  BY <1>4, UpdateKeeps, ProcessingKeeps, CancelKeeps, ShipKeeps, CompleteKeeps
<1>5. CASE \E q \in Reqs : Pay(q) \/ PackingRequest(q) \/ Push(q) \/ Packing(q) \/ Packed(q)
  BY <1>5, PayKeeps, PackingRequestKeeps, PushKeeps, PackingKeeps, PackedKeeps
<1>6. CASE \E q \in Reqs : Discard(q) \/ PickedUp(q) \/ OnTheRoad(q) \/ Delivered(q)
  BY <1>6, DiscardKeeps, PickedUpKeeps, OnTheRoadKeeps, DeliveredKeeps
<1>7. CASE \E q \in Reqs : CancelledByCarrier(q) \/ Returned(q) \/ Fail(q)
  BY <1>7, CancelledByCarrierKeeps, ReturnedKeeps, FailKeeps
<1>8. CASE UNCHANGED vars
  <2>1. UNCHANGED <<order, package, level, debt>> /\ req' = req
    BY <1>8 DEF vars
  <2>2. TInv'
    BY <2>1 DEF FInv, TInv, Tables, Requests, Known, OrderRow, PackageRows
  <2>3. \A y : Current(y) => Current(y)'
    BY <2>1, CurrentStays
  <2>4. (\A p \in Reqs : req[p].pc = "tx" => Current(req[p])) =>
            (\A p \in Reqs : req[p].pc = "tx" => Current(req[p]))'
    BY <2>1, <2>3
  <2>5. (\A o \in Orders : Basic(order[o], package[o])) =>
            (\A o \in Orders : Basic(order[o], package[o]))'
    BY <2>1 DEF Basic, InFlight
  <2>6. (Debt => Debt') /\ (OneEach => OneEach')
    BY <2>1 DEF Debt, SoldUnits, PaidMoney, Sold, OneEach
  <2>7. Orderly => Orderly'
    BY <2>4, <2>5, <2>6 DEF Orderly
  <2>8. Stock => Stock'
    BY <2>1 DEF Stock, GoneUnits, HeldUnits, BoxedUnits, Gone, Held, InBoxes, Inside
  <2>9. Flowed => Flowed'
    BY <2>1, <2>8 DEF Flowed, Flowing
  <2> QED
    BY <2>2, <2>7, <2>9 DEF FInv
<1> QED
  BY <1>1, <1>2, <1>3, <1>4, <1>5, <1>6, <1>7, <1>8, NextNames

\* The invariant holds of every behaviour.
LEMMA FInvAlways == Spec => []FInv
BY FInvInit, FInvStep, PTL DEF Spec

\* Whatever requests, webhooks and payments run at once: statuses, quantities
\* and money stay of their types, and nobody is paid back less than nothing.
THEOREM OrdersTypeCorrect == Spec => []TypeOK
<1>1. FInv => TypeOK
  BY TInvTypes DEF FInv
<1> QED
  BY <1>1, FInvAlways, PTL

\* The customer's ledger says what the orders say (create, update, cancel and
\* the payments charge what they change), as long as one request at a time
\* works on an order.
THEOREM DebtAgrees ==
    ASSUME OneAtATime
    PROVE  Spec => []DebtMatchesOrders
<1>1. FInv => DebtMatchesOrders
  BY DebtSays DEF FInv, Orderly
<1> QED
  BY <1>1, FInvAlways, PTL

\* A cancelled order has no package under way and is refunded in full
\* (OrderService.cancel), as long as one request at a time works on an order.
THEOREM CancelledIsRefunded ==
    ASSUME OneAtATime
    PROVE  Spec => []CancelledIsSettled
<1>1. FInv => CancelledIsSettled
  BY SettledSays DEF FInv, TInv
<1> QED
  BY <1>1, FInvAlways, PTL

\* What is on the shelves, reserved and in boxes is what the orders say is
\* there, through packing, delivery, failed delivery and cancellation, where
\* one request at a time works on an order and staff send only what is there.
THEOREM StockFollowsOrders ==
    ASSUME OneAtATime, FollowsFlow
    PROVE  Spec => []StockMatchesOrders
<1>1. FInv => StockMatchesOrders
  BY StockSays DEF FInv, TInv, Flowed
<1> QED
  BY <1>1, FInvAlways, PTL

\* An order delivered and paid is closed, whichever came first
\* (closeOrderIfDeliveredAndPaid and the delivery of the package), under the
\* same two conditions.
THEOREM DeliveredAndPaidCloses ==
    ASSUME OneAtATime, FollowsFlow
    PROVE  Spec => []PaidAndDeliveredCloses
<1>1. FInv => PaidAndDeliveredCloses
  BY ClosingSays DEF FInv, TInv
<1> QED
  BY <1>1, FInvAlways, PTL
=============================================================================
