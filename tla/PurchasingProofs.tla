--------------------------- MODULE PurchasingProofs ---------------------------
(***************************************************************************)
(* Theorems about Purchasing for every value of the constants: however     *)
(* requests overlap, no receipt is paid beyond what is due; and when those *)
(* on receipts do not, the books agree.                                    *)
(***************************************************************************)
EXTENDS Purchasing, SharedLemmas

-----------------------------------------------------------------------------
(* Types.                                                                  *)

Order == [status : {"none", "draft", "pending", "received", "deleted"},
          qty : Nat, received : Nat, deposit : Nat]
Receipt == [status : {"none", "pending", "received", "deleted"},
            parts : [Orders -> Nat], header : Orders \union {"none"},
            adjust : Int, due : Int, paid : Int, deposit : Int,
            payment : {"unpaid", "partially_paid", "paid"}]
ReturnOut == [status : {"none", "no_refund", "refunded"}, qty : Nat]

OrderReqs == [pc : {"read"}, op : {"submit", "discard", "update", "close"},
              d : Orders, seen : Order]
ReceiptReqs == [pc : {"read"}, op : {"confirm", "drop", "pay"}, d : Receipts, seen : Receipt]
ReturnReqs == [pc : {"read"}, op : {"refund"}, d : Returns, seen : ReturnOut]
ConfirmReqs == [pc : {"tx"}, op : {"confirm"}, d : Receipts, seen : Receipt,
                orders : [Orders -> Order]]
BatchReqs == UNION {[pc : {"tx"}, op : {"batch"}, d : {S}, seen : [S -> Receipt]] :
                        S \in SUBSET Receipts}
Requests == {NoReq} \union OrderReqs \union ReceiptReqs \union ReturnReqs
                    \union ConfirmReqs \union BatchReqs

BuyTypes ==
    /\ po \in [Orders -> Order]
    /\ rei \in [Receipts -> Receipt]
    /\ pvn \in [Returns -> ReturnOut]
    /\ active \in BOOLEAN
    /\ level \in Level /\ balance \in Int /\ cash \in Int
    /\ req \in [Reqs -> Requests]
    /\ overlap \in Overlaps

\* What a request is for tells what it carries.
LEMMA RequestKinds ==
    ASSUME BuyTypes, NEW q \in Reqs
    PROVE  /\ req[q].pc \in {"idle", "read", "tx"}
           /\ ~Active(q) => req[q] = NoReq
           /\ Active(q) => req[q].op \in {"submit", "discard", "update", "close", "confirm",
                                          "drop", "pay", "refund", "batch"}
           /\ Active(q) /\ req[q].op \in {"submit", "discard", "update", "close"}
                 => req[q] \in OrderReqs
           /\ Active(q) /\ req[q].op \in {"drop", "pay"} => req[q] \in ReceiptReqs
           /\ Active(q) /\ req[q].op = "refund" => req[q] \in ReturnReqs
           /\ req[q].pc = "read" /\ req[q].op = "confirm" => req[q] \in ReceiptReqs
           /\ req[q].pc = "tx" /\ req[q].op = "confirm" => req[q] \in ConfirmReqs
           /\ Active(q) /\ req[q].op = "batch" =>
                 /\ req[q].pc = "tx" /\ req[q].d \in SUBSET Receipts
                 /\ req[q].seen \in [req[q].d -> Receipt]
<1>1. req[q] \in Requests
  BY DEF BuyTypes
<1>2. CASE req[q] = NoReq
  BY <1>2 DEF NoReq, Active
<1>3. CASE req[q] \in OrderReqs
  BY <1>3 DEF OrderReqs, Active
<1>4. CASE req[q] \in ReceiptReqs
  BY <1>4 DEF ReceiptReqs, Active
<1>5. CASE req[q] \in ReturnReqs
  BY <1>5 DEF ReturnReqs, Active
<1>6. CASE req[q] \in ConfirmReqs
  BY <1>6 DEF ConfirmReqs, Active
<1>7. CASE req[q] \in BatchReqs
  BY <1>7 DEF BatchReqs, Active
<1> QED
  BY <1>1, <1>2, <1>3, <1>4, <1>5, <1>6, <1>7 DEF Requests

\* The sums of the documents are sums over sets, and numbers.
LEMMA SumOver == ASSUME NEW f PROVE SumFunction(f) = SumFunctionOnSet(f, DOMAIN f)
  BY DEF SumFunction, SumFunctionOnSet

\* The parts of a receipt add up to a natural.
LEMMA PartsSum ==
    ASSUME PurchasingAssumption, NEW f \in [Orders -> Nat]
    PROVE  SumFunction(f) \in Nat
<1>1. IsFiniteSet(Orders) /\ \A p \in Orders : f[p] \in Nat
  BY DEF PurchasingAssumption
<1> QED
  BY <1>1, SumOver, SumBounds

\* What a receipt costs: its lines and its other costs.
Cost(x) == SumFunction(x.parts) + x.adjust

\* A receipt costs an integer, which returns of goods may bring below zero.
LEMMA CostType == ASSUME PurchasingAssumption, NEW x \in Receipt PROVE Cost(x) \in Int
<1>1. x.parts \in [Orders -> Nat] /\ x.adjust \in Int
  BY DEF Receipt
<1> QED
  BY <1>1, PartsSum DEF Cost

\* The deposit that goes into a receipt is a number, and not more than what is due.
LEMMA AppliedType ==
    ASSUME PurchasingAssumption, BuyTypes, NEW r \in Receipts, NEW x \in Receipt, NEW due \in Int
    PROVE  /\ DepositApplied(r, x, due) \in Int
           /\ DepositApplied(r, x, due) <= Most(due, 0)
           /\ due >= 0 => DepositApplied(r, x, due) \in 0..due
           /\ due < 0 => DepositApplied(r, x, due) >= due
<1>1. CASE ~(x.header # "none" /\ po[x.header].deposit > 0)
  BY <1>1 DEF DepositApplied, Most
<1>2. CASE x.header # "none" /\ po[x.header].deposit > 0
  <2> DEFINE T == {s \in Receipts \ {r} : rei[s].header = x.header}
             f == [s \in T |-> rei[s].deposit]
  <2>1. x.header \in Orders /\ po[x.header].deposit \in Nat
    BY <1>2 DEF BuyTypes, Order, Receipt
  <2>2. IsFiniteSet(T) /\ \A s \in T : f[s] \in Int
    BY FS_Subset DEF PurchasingAssumption, BuyTypes, Receipt
  <2>3. SumFunction(f) \in Int
    <3>1. DOMAIN f = T
      OBVIOUS
    <3> HIDE DEF T, f
    <3> QED
      BY <2>2, <3>1, SumOver, SumType
  <2>4. DepositLeft(r, x) \in Int
    BY <2>1, <2>3 DEF DepositLeft
  <2>5. DepositApplied(r, x, due) = Least(Most(DepositLeft(r, x), 0), due)
    BY <1>2 DEF DepositApplied
  <2> HIDE DEF T, f
  <2> QED
    BY <2>4, <2>5 DEF Least, Most
<1> QED
  BY <1>1, <1>2

-----------------------------------------------------------------------------
(* The types are kept.                                                     *)

\* At the start there are no documents and no requests.
LEMMA TypesInit == PurchasingAssumption /\ Init => BuyTypes
<1> SUFFICES ASSUME PurchasingAssumption, Init PROVE BuyTypes
  OBVIOUS
<1>1. NoOrder \in Order /\ NoReturnOut \in ReturnOut /\ NoReq \in Requests
  BY DEF NoOrder, Order, NoReturnOut, ReturnOut, Requests
<1>2. NoReceipt \in Receipt
  BY DEF NoReceipt, Receipt
<1> QED
  BY <1>1, <1>2 DEF Init, BuyTypes, PurchasingAssumption

\* A request that begins or ends keeps the types of the others.
LEMMA StartTypes ==
    ASSUME BuyTypes, NEW q \in Reqs, NEW r \in Requests, Start(q, r)
    PROVE  BuyTypes'
BY DEF BuyTypes, Start, docs, books

\* A request that ends is one at rest.
LEMMA DoneTypes ==
    ASSUME BuyTypes, NEW q \in Reqs, Done(q)
    PROVE  req' \in [Reqs -> Requests] /\ overlap' \in Overlaps
BY DEF BuyTypes, Done, Requests

\* What a batch of one or two movements does to the level.
LEMMA EntryType ==
    ASSUME NEW b \in Buckets, NEW n \in Int, NEW type \in MovementTypes
    PROVE  /\ Entry(b, n, type) \in Movement
           /\ Entry(b, n, type).bucket = b /\ Entry(b, n, type).change = n
BY DEF Entry, Movement

\* A line of one movement, and what it does to the incoming bucket.
LEMMA OneEntry ==
    ASSUME NEW l \in Level, NEW b \in Buckets, NEW n \in Int, NEW type \in MovementTypes,
           NEW k, k = AfterLine(l, PostLine(<<Entry(b, n, type)>>))
    PROVE  /\ k \in Level
           /\ k["incoming"] = IF b = "incoming" THEN l["incoming"] + n ELSE l["incoming"]
<1> DEFINE m == Entry(b, n, type)
<1>1. m \in Movement /\ m.bucket = b /\ m.change = n
  BY EntryType
<1>2. k = Moved(l, m)
  BY BatchOfOne
<1> HIDE DEF m
<1> QED
  BY <1>1, <1>2, MovedType DEF Buckets

\* A received line takes its units out of incoming and puts them on hand.
LEMMA ReceiptEntries ==
    ASSUME NEW l \in Level, NEW n \in Int, NEW k,
           k = AfterLine(l, PostLine(<<Entry("incoming", -n, "incoming_receipt"),
                                       Entry("on_hand", n, "receipt")>>))
    PROVE  k \in Level /\ k["incoming"] = l["incoming"] - n
<1> DEFINE a == Entry("incoming", -n, "incoming_receipt")
           b == Entry("on_hand", n, "receipt")
<1>1. a \in Movement /\ a.bucket = "incoming" /\ a.change = -n
  BY EntryType DEF Buckets, MovementTypes
<1>2. b \in Movement /\ b.bucket = "on_hand"
  BY EntryType DEF Buckets, MovementTypes
<1>3. k = Moved(Moved(l, a), b)
  BY BatchOfTwo
<1> HIDE DEF a, b
<1>4. Moved(l, a) \in Level /\ Moved(l, a)["incoming"] = l["incoming"] - n
  <2>1. /\ Moved(l, a) \in Level
        /\ Moved(l, a)[a.bucket] = l[a.bucket] + a.change
    BY <1>1, MovedType
  <2>2. l["incoming"] \in Int
    BY DEF Level, Buckets
  <2> QED
    BY <1>1, <2>1, <2>2
<1>5. /\ Moved(Moved(l, a), b) \in Level
      /\ Moved(Moved(l, a), b)["incoming"] = Moved(l, a)["incoming"]
  BY <1>2, <1>4, MovedType DEF Buckets
<1> QED
  BY <1>3, <1>4, <1>5

\* New documents, and the supplier's switch, keep the types.
LEMMA NewDocumentTypes ==
    ASSUME PurchasingAssumption, BuyTypes
    PROVE  /\ \A p \in Orders : DraftOrder(p) => BuyTypes'
           /\ \A r \in Receipts : DraftReceipt(r) => BuyTypes'
           /\ \A x \in Returns : ReturnGoods(x) => BuyTypes'
           /\ Deactivate \/ SetActive => BuyTypes'
<1>1. ASSUME NEW p \in Orders, DraftOrder(p) PROVE BuyTypes'
  <2>1. PICK n \in 1..MaxQty[p], d \in 0..MaxQty[p] :
            po' = [po EXCEPT ![p] = [NoOrder EXCEPT !.status = "draft", !.qty = n,
                                                    !.deposit = d]]
    BY <1>1 DEF DraftOrder
  <2>2. n \in Nat /\ d \in Nat
    BY DEF PurchasingAssumption
  <2>3. [NoOrder EXCEPT !.status = "draft", !.qty = n, !.deposit = d] \in Order
    BY <2>2 DEF NoOrder, Order
  <2> QED
    BY <1>1, <2>1, <2>3 DEF BuyTypes, DraftOrder, books
<1>2. ASSUME NEW r \in Receipts, DraftReceipt(r) PROVE BuyTypes'
  <2>1. PICK parts \in Quantities, a \in Adjustments, h \in Orders \union {"none"} :
            rei' = [rei EXCEPT ![r] = [NoReceipt EXCEPT !.status = "pending",
                                 !.parts = parts, !.header = h, !.adjust = a]]
    BY <1>2 DEF DraftReceipt, Used
  <2>2. parts \in [Orders -> Nat] /\ a \in Int
    BY DEF Quantities, PurchasingAssumption
  <2>3. [NoReceipt EXCEPT !.status = "pending", !.parts = parts, !.header = h,
                          !.adjust = a] \in Receipt
    <3>1. NoReceipt \in Receipt
      BY DEF NoReceipt, Receipt
    <3> QED
      BY <2>2, <3>1 DEF Receipt
  <2> QED
    BY <1>2, <2>1, <2>3 DEF BuyTypes, DraftReceipt, books
<1>3. ASSUME NEW x \in Returns, ReturnGoods(x) PROVE BuyTypes'
  <2>1. ComputeAvailable(level) \in Int
    BY AvailableType DEF BuyTypes
  <2>2. PICK n \in 1..ComputeAvailable(level) :
            /\ level' = AfterLine(level, OutLine(n))
            /\ pvn' = [pvn EXCEPT ![x] = [status |-> "no_refund", qty |-> n]]
            /\ balance' = balance + n
    BY <1>3 DEF ReturnGoods
  <2>3. n \in Nat /\ -n \in Int
    BY <2>1
  <2>4. level' \in Level
    BY <2>2, <2>3, OneEntry DEF OutLine, BuyTypes, Buckets, MovementTypes
  <2>5. [status |-> "no_refund", qty |-> n] \in ReturnOut
    BY <2>3 DEF ReturnOut
  <2> QED
    BY <1>3, <2>2, <2>3, <2>4, <2>5 DEF BuyTypes, ReturnGoods
<1>4. ASSUME Deactivate \/ SetActive PROVE BuyTypes'
  BY <1>4 DEF BuyTypes, Deactivate, SetActive, books
<1> QED
  BY <1>1, <1>2, <1>3, <1>4

\* So do the handlers' reads.
LEMMA ReadTypes ==
    ASSUME PurchasingAssumption, BuyTypes, NEW q \in Reqs
    PROVE  /\ \A p \in Orders : ReadOrder(q, p) => BuyTypes'
           /\ \A r \in Receipts : ReadReceipt(q, r) => BuyTypes'
           /\ \A x \in Returns : ReadReturn(q, x) => BuyTypes'
           /\ \A S \in SUBSET Receipts : ReadBatch(q, S) => BuyTypes'
           /\ BeginConfirm(q) => BuyTypes'
<1>1. ASSUME NEW p \in Orders, ReadOrder(q, p) PROVE BuyTypes'
  <2>1. PICK op \in {"submit", "discard", "update", "close"}, seen \in Order :
            Start(q, [pc |-> "read", op |-> op, d |-> p, seen |-> seen])
    <3>1. po[p] \in Order
      BY DEF BuyTypes
    <3>2. ASSUME NEW n \in 1..MaxQty[p], NEW d \in 0..MaxQty[p]
          PROVE  [po[p] EXCEPT !.qty = n, !.deposit = d] \in Order
      <4>1. n \in Nat /\ d \in Nat
        BY DEF PurchasingAssumption
      <4> QED
        BY <3>1, <4>1 DEF Order
    <3> QED
      BY <1>1, <3>1, <3>2 DEF ReadOrder
  <2>2. [pc |-> "read", op |-> op, d |-> p, seen |-> seen] \in Requests
    BY DEF Requests, OrderReqs
  <2> QED
    BY <2>1, <2>2, StartTypes
<1>2. ASSUME NEW r \in Receipts, ReadReceipt(q, r) PROVE BuyTypes'
  <2>1. PICK op \in {"confirm", "drop", "pay"} :
            Start(q, [pc |-> "read", op |-> op, d |-> r, seen |-> rei[r]])
    BY <1>2 DEF ReadReceipt
  <2>2. [pc |-> "read", op |-> op, d |-> r, seen |-> rei[r]] \in Requests
    BY DEF Requests, ReceiptReqs, BuyTypes
  <2> QED
    BY <2>1, <2>2, StartTypes
<1>3. ASSUME NEW x \in Returns, ReadReturn(q, x) PROVE BuyTypes'
  <2>1. [pc |-> "read", op |-> "refund", d |-> x, seen |-> pvn[x]] \in Requests
    BY DEF Requests, ReturnReqs, BuyTypes
  <2> QED
    BY <1>3, <2>1, StartTypes DEF ReadReturn
<1>4. ASSUME NEW S \in SUBSET Receipts, ReadBatch(q, S) PROVE BuyTypes'
  <2> DEFINE r == [pc |-> "tx", op |-> "batch", d |-> S, seen |-> [s \in S |-> rei[s]]]
  <2>1. r \in [pc : {"tx"}, op : {"batch"}, d : {S}, seen : [S -> Receipt]]
    BY DEF BuyTypes
  <2>2. r \in Requests
    BY <2>1 DEF Requests, BatchReqs
  <2>3. Start(q, r)
    BY <1>4 DEF ReadBatch
  <2> QED
    BY <2>2, <2>3, StartTypes
<1>5. ASSUME BeginConfirm(q) PROVE BuyTypes'
  <2>1. req[q] \in ReceiptReqs
    BY <1>5, RequestKinds DEF BeginConfirm
  <2> DEFINE r == [pc |-> "tx", op |-> "confirm", d |-> req[q].d,
                   seen |-> req[q].seen, orders |-> po]
  <2>2. r \in Requests
    BY <2>1 DEF Requests, ConfirmReqs, ReceiptReqs, BuyTypes
  <2>3. req' = [req EXCEPT ![q] = r]
    BY <1>5 DEF BeginConfirm
  <2> HIDE DEF r
  <2> QED
    BY <1>5, <2>2, <2>3 DEF BuyTypes, BeginConfirm, docs, books
<1> QED
  BY <1>1, <1>2, <1>3, <1>4, <1>5

\* The rows that a transaction writes, and that the others stay.
LEMMA OrderReq ==
    ASSUME BuyTypes, NEW q \in Reqs, req[q].pc = "read",
           req[q].op \in {"submit", "discard", "update", "close"}
    PROVE  req[q].d \in Orders /\ req[q].seen \in Order
BY RequestKinds DEF OrderReqs, Active

\* A request about a receipt has read a receipt.
LEMMA ReceiptReq ==
    ASSUME BuyTypes, NEW q \in Reqs, req[q].pc = "read", req[q].op \in {"confirm", "drop", "pay"}
    PROVE  req[q].d \in Receipts /\ req[q].seen \in Receipt
BY RequestKinds DEF ReceiptReqs, Active

\* One in the transaction of a confirmation has read the orders as well.
LEMMA ConfirmReq ==
    ASSUME BuyTypes, NEW q \in Reqs, At(q, "tx", "confirm")
    PROVE  /\ req[q].d \in Receipts /\ req[q].seen \in Receipt
           /\ req[q].orders \in [Orders -> Order]
BY RequestKinds DEF ConfirmReqs, At

\* What the update of a draft writes.
LEMMA UpdateRow ==
    ASSUME BuyTypes, NEW q \in Reqs, Update(q)
    PROVE  LET r == req[q]
           IN  po' = [po EXCEPT ![r.d] = [po[r.d] EXCEPT !.qty = r.seen.qty,
                                            !.deposit = r.seen.deposit, !.received = 0]]
<1>1. req[q].d \in Orders
  BY OrderReq DEF Update, At
<1> QED
  BY <1>1 DEF Update, BuyTypes, Order

\* The handlers of purchase orders keep the types.
LEMMA OrderTypes ==
    ASSUME BuyTypes, NEW q \in Reqs
    PROVE  /\ Update(q) => BuyTypes'
           /\ Submit(q) => BuyTypes'
           /\ Close(q) => BuyTypes'
           /\ Discard(q) => BuyTypes'
<1>1. ASSUME Update(q) PROVE BuyTypes'
  <2>1. req[q].d \in Orders /\ req[q].seen \in Order
    BY <1>1, OrderReq DEF Update, At
  <2>2. [po[req[q].d] EXCEPT !.qty = req[q].seen.qty, !.deposit = req[q].seen.deposit,
                             !.received = 0] \in Order
    BY <2>1 DEF BuyTypes, Order
  <2> QED
    BY <1>1, <2>1, <2>2, UpdateRow, DoneTypes DEF Update, BuyTypes, books
<1>2. ASSUME Submit(q) PROVE BuyTypes'
  <2>1. req[q].d \in Orders /\ req[q].seen \in Order
    BY <1>2, OrderReq DEF Submit, At
  <2>2. po' \in [Orders -> Order]
    BY <1>2, <2>1 DEF Submit, BuyTypes, Order
  <2>3. req[q].seen.qty \in Int /\ req[q].seen.deposit \in Int
    BY <2>1 DEF Order
  <2>4. level' \in Level
    BY <1>2, <2>3, OneEntry DEF Submit, Post, BuyTypes, Buckets, MovementTypes
  <2> QED
    BY <1>2, <2>2, <2>3, <2>4, DoneTypes DEF Submit, BuyTypes
<1>3. ASSUME Close(q) PROVE BuyTypes'
  <2>1. req[q].d \in Orders /\ req[q].seen \in Order
    BY <1>3, OrderReq DEF Close, At
  <2>2. po' \in [Orders -> Order]
    BY <1>3, <2>1 DEF Close, BuyTypes, Order
  <2>3. -Remaining(req[q].seen) \in Int
    BY <2>1 DEF Order, Remaining
  <2>4. level' \in Level
    BY <1>3, <2>3, OneEntry DEF Close, Post, BuyTypes, Buckets, MovementTypes
  <2> QED
    BY <1>3, <2>2, <2>4, DoneTypes DEF Close, BuyTypes
<1>4. ASSUME Discard(q) PROVE BuyTypes'
  <2>1. req[q].d \in Orders
    BY <1>4, OrderReq DEF Discard, At
  <2>2. po' \in [Orders -> Order]
    BY <1>4, <2>1 DEF Discard, BuyTypes, Order
  <2> QED
    BY <1>4, <2>2, DoneTypes DEF Discard, BuyTypes, books
<1> QED
  BY <1>1, <1>2, <1>3, <1>4

\* The receipt as its confirmation leaves it.
LEMMA ConfirmRow ==
    ASSUME PurchasingAssumption, BuyTypes, NEW q \in Reqs, Confirm(q)
    PROVE  LET r == req[q]
               x == rei[r.d]
               due == Cost(r.seen)
               applied == DepositApplied(r.d, r.seen, due)
           IN  /\ r.d \in Receipts /\ r.seen \in Receipt /\ r.orders \in [Orders -> Order]
               /\ due \in Int /\ applied \in Int
               /\ SumFunction(r.seen.parts) \in Nat
               /\ rei' = [rei EXCEPT ![r.d] = [x EXCEPT
                            !.status = "received", !.due = due, !.deposit = applied,
                            !.paid = applied, !.payment = PaymentOf(applied, due)]]
               /\ balance' = balance - due + Most(applied, 0)
               /\ \A p \in Orders : po'[p] =
                     IF r.seen.parts[p] = 0 THEN po[p]
                     ELSE Completed([po[p] EXCEPT
                            !.received = r.orders[p].received + r.seen.parts[p]])
               /\ level' \in Level
               /\ level'["incoming"] = level["incoming"] - SumFunction(r.seen.parts)
<1> DEFINE r == req[q]
           due == Cost(r.seen)
           applied == DepositApplied(r.d, r.seen, due)
<1>1. r.d \in Receipts /\ r.seen \in Receipt /\ r.orders \in [Orders -> Order]
  BY ConfirmReq DEF Confirm
<1>2. due \in Int
  BY <1>1, CostType
<1>3. applied \in Int
  BY <1>1, <1>2, AppliedType
<1>4. SumFunction(r.seen.parts) \in Nat
  BY <1>1, PartsSum DEF Receipt
<1>5. /\ rei' = [rei EXCEPT ![r.d].status = "received", ![r.d].due = due,
                            ![r.d].deposit = applied, ![r.d].paid = applied,
                            ![r.d].payment = PaymentOf(applied, due)]
      /\ balance' = balance - due + Most(applied, 0)
      /\ po' = [p \in Orders |->
                    IF r.seen.parts[p] = 0 THEN po[p]
                    ELSE Completed([po[p] EXCEPT
                             !.received = r.orders[p].received + r.seen.parts[p]])]
      /\ level' = AfterLine(level,
                    PostLine(<<Entry("incoming", -SumFunction(r.seen.parts), "incoming_receipt"),
                               Entry("on_hand", SumFunction(r.seen.parts), "receipt")>>))
  BY DEF Confirm, Cost, Post
<1> HIDE DEF due, applied
<1>6. rei' = [rei EXCEPT ![r.d] = [rei[r.d] EXCEPT
                            !.status = "received", !.due = due, !.deposit = applied,
                            !.paid = applied, !.payment = PaymentOf(applied, due)]]
  BY <1>1, <1>5 DEF BuyTypes, Receipt
<1>7. level' \in Level /\ level'["incoming"] = level["incoming"] - SumFunction(r.seen.parts)
  BY <1>4, <1>5, ReceiptEntries DEF BuyTypes
<1> QED
  BY <1>1, <1>2, <1>3, <1>4, <1>5, <1>6, <1>7 DEF due, applied

\* The confirmation of a receipt keeps them.
LEMMA ConfirmTypes ==
    ASSUME PurchasingAssumption, BuyTypes, NEW q \in Reqs, Confirm(q)
    PROVE  BuyTypes'
<1> DEFINE r == req[q]
           due == Cost(r.seen)
           applied == DepositApplied(r.d, r.seen, due)
           y == [rei[r.d] EXCEPT !.status = "received", !.due = due, !.deposit = applied,
                                 !.paid = applied, !.payment = PaymentOf(applied, due)]
<1>1. /\ r.d \in Receipts /\ r.seen \in Receipt /\ r.orders \in [Orders -> Order]
      /\ due \in Int /\ applied \in Int /\ level' \in Level
      /\ rei' = [rei EXCEPT ![r.d] = y]
      /\ balance' = balance - due + Most(applied, 0)
      /\ \A p \in Orders : po'[p] =
            IF r.seen.parts[p] = 0 THEN po[p]
            ELSE Completed([po[p] EXCEPT !.received = r.orders[p].received + r.seen.parts[p]])
  BY ConfirmRow
<1>2. y \in Receipt
  <2>1. PaymentOf(applied, due) \in {"unpaid", "partially_paid", "paid"}
    BY DEF PaymentOf
  <2>2. rei[r.d] \in Receipt
    BY <1>1 DEF BuyTypes
  <2> HIDE DEF due, applied
  <2> QED
    BY <1>1, <2>1, <2>2 DEF Receipt
<1>3. rei' \in [Receipts -> Receipt]
  BY <1>1, <1>2 DEF BuyTypes
<1>4. balance' \in Int
  BY <1>1 DEF BuyTypes, Most
<1>5. \A p \in Orders : po'[p] \in Order
  <2> TAKE p \in Orders
  <2>1. po[p] \in Order /\ r.seen.parts[p] \in Nat /\ r.orders[p].received \in Nat
    BY <1>1 DEF BuyTypes, Order, Receipt
  <2>2. [po[p] EXCEPT !.received = r.orders[p].received + r.seen.parts[p]] \in Order
    BY <2>1 DEF Order
  <2>3. \A o \in Order : Completed(o) \in Order
    BY DEF Completed, Order
  <2> QED
    BY <1>1, <2>1, <2>2, <2>3
<1>6. po' \in [Orders -> Order]
  <2>1. po' = [p \in Orders |-> po'[p]]
    BY DEF Confirm
  <2> QED
    BY <1>5, <2>1
<1>7. req' \in [Reqs -> Requests] /\ overlap' \in Overlaps
  BY DoneTypes DEF Confirm
<1> QED
  BY <1>1, <1>3, <1>4, <1>6, <1>7 DEF Confirm, BuyTypes

\* The receipt as a payment leaves it.
LEMMA PayRow ==
    ASSUME BuyTypes, NEW q \in Reqs, Pay(q)
    PROVE  /\ req[q].d \in Receipts
           /\ rei[req[q].d] \in Receipt
           /\ \E a \in Nat \ {0} :
                 /\ a <= rei[req[q].d].due - rei[req[q].d].paid
                 /\ rei' = [rei EXCEPT ![req[q].d] = [rei[req[q].d] EXCEPT
                        !.paid = rei[req[q].d].paid + a,
                        !.payment = IF rei[req[q].d].paid + a >= rei[req[q].d].due
                                    THEN "paid" ELSE "partially_paid"]]
                 /\ cash' = cash + a /\ balance' = balance + a
<1> DEFINE d == req[q].d
<1>1. d \in Receipts
  BY ReceiptReq DEF Pay, At
<1>2. rei[d] \in Receipt
  BY <1>1 DEF BuyTypes
<1>3. PICK a \in 1..(rei[d].due - rei[d].paid) :
         /\ rei' = [rei EXCEPT ![d].paid = rei[d].paid + a,
                        ![d].payment = IF rei[d].paid + a >= rei[d].due
                                    THEN "paid" ELSE "partially_paid"]
         /\ cash' = cash + a /\ balance' = balance + a
  BY DEF Pay, AmountsOf
<1>4. rei[d].due \in Int /\ rei[d].paid \in Int
  BY <1>2 DEF Receipt
<1>5. a \in Nat \ {0} /\ a <= rei[d].due - rei[d].paid
  BY <1>3, <1>4
<1>6. rei' = [rei EXCEPT ![d] = [rei[d] EXCEPT !.paid = rei[d].paid + a,
                    !.payment = IF rei[d].paid + a >= rei[d].due
                                THEN "paid" ELSE "partially_paid"]]
  BY <1>1, <1>2, <1>3 DEF BuyTypes, Receipt
<1> QED
  BY <1>1, <1>2, <1>3, <1>5, <1>6

\* The receipts as a batch of payments leaves them.
LEMMA BatchRows ==
    ASSUME PurchasingAssumption, BuyTypes, NEW q \in Reqs, PayBatch(q)
    PROVE  LET r == req[q]
               f == [s \in r.d |-> r.seen[s].due - r.seen[s].paid]
           IN  /\ r.d \in SUBSET Receipts /\ r.seen \in [r.d -> Receipt]
               /\ Active(q) /\ r.op = "batch"
               /\ rei' = [s \in Receipts |->
                     IF s \in r.d THEN [rei[s] EXCEPT !.paid = r.seen[s].due,
                                                      !.payment = "paid"]
                     ELSE rei[s]]
               /\ SumFunction(f) \in Int
               /\ cash' = cash + SumFunction(f) /\ balance' = balance + SumFunction(f)
<1> DEFINE r == req[q]
           f == [s \in r.d |-> r.seen[s].due - r.seen[s].paid]
<1>1. Active(q) /\ r.op = "batch"
  BY DEF PayBatch, At, Active
<1>2. r.d \in SUBSET Receipts /\ r.seen \in [r.d -> Receipt]
  BY <1>1, RequestKinds
<1>3. SumFunction(f) \in Int
  <2>1. IsFiniteSet(r.d) /\ \A s \in r.d : f[s] \in Int
    BY <1>2, FS_Subset DEF PurchasingAssumption, Receipt
  <2>2. DOMAIN f = r.d
    OBVIOUS
  <2> HIDE DEF f
  <2> QED
    BY <2>1, <2>2, SumOver, SumType
<1> QED
  BY <1>1, <1>2, <1>3 DEF PayBatch

\* The other handlers of receipts and returns keep them.
LEMMA ReceiptTypes ==
    ASSUME PurchasingAssumption, BuyTypes, NEW q \in Reqs
    PROVE  /\ Drop(q) => BuyTypes'
           /\ PayNothing(q) => BuyTypes'
           /\ Pay(q) => BuyTypes'
           /\ PayBatch(q) => BuyTypes'
           /\ ConfirmRefund(q) => BuyTypes'
           /\ Fail(q) => BuyTypes'
<1>1. ASSUME Drop(q) PROVE BuyTypes'
  <2>1. req[q].d \in Receipts
    BY <1>1, ReceiptReq DEF Drop, At
  <2>2. rei' \in [Receipts -> Receipt]
    BY <1>1, <2>1 DEF Drop, BuyTypes, Receipt
  <2> QED
    BY <1>1, <2>2, DoneTypes DEF Drop, BuyTypes, books
<1>2. ASSUME PayNothing(q) PROVE BuyTypes'
  <2>1. req[q].d \in Receipts
    BY <1>2, ReceiptReq DEF PayNothing, At
  <2>2. rei' \in [Receipts -> Receipt]
    BY <1>2, <2>1 DEF PayNothing, BuyTypes, Receipt
  <2> QED
    BY <1>2, <2>2, DoneTypes DEF PayNothing, BuyTypes, books
<1>3. ASSUME Pay(q) PROVE BuyTypes'
  <2> DEFINE d == req[q].d
  <2>1. PICK a \in Nat \ {0} :
           /\ rei' = [rei EXCEPT ![d] = [rei[d] EXCEPT !.paid = rei[d].paid + a,
                        !.payment = IF rei[d].paid + a >= rei[d].due
                                    THEN "paid" ELSE "partially_paid"]]
           /\ cash' = cash + a /\ balance' = balance + a
    BY <1>3, PayRow
  <2>2. d \in Receipts /\ rei[d] \in Receipt
    BY <1>3, PayRow
  <2> DEFINE paid == rei[d].paid + a
             payment == IF rei[d].paid + a >= rei[d].due THEN "paid" ELSE "partially_paid"
  <2>3. [rei[d] EXCEPT !.paid = paid, !.payment = payment] \in Receipt
    <3>1. paid \in Int /\ payment \in {"unpaid", "partially_paid", "paid"}
      BY <2>2 DEF Receipt
    <3> HIDE DEF d, paid, payment
    <3> QED
      BY <2>2, <3>1 DEF Receipt
  <2>4. rei' \in [Receipts -> Receipt]
    BY <2>1, <2>2, <2>3 DEF BuyTypes
  <2>5. UNCHANGED <<po, pvn, active, level>> /\ Done(q)
    BY <1>3 DEF Pay
  <2>6. cash' \in Int /\ balance' \in Int
    BY <2>1 DEF BuyTypes
  <2> QED
    BY <2>4, <2>5, <2>6, DoneTypes DEF BuyTypes
<1>4. ASSUME PayBatch(q) PROVE BuyTypes'
  <2> DEFINE r == req[q]
             total == SumFunction([s \in r.d |-> r.seen[s].due - r.seen[s].paid])
  <2>1. /\ r.seen \in [r.d -> Receipt]
        /\ rei' = [s \in Receipts |->
                     IF s \in r.d THEN [rei[s] EXCEPT !.paid = r.seen[s].due,
                                                      !.payment = "paid"]
                     ELSE rei[s]]
    BY <1>4, BatchRows
  <2>2. \A s \in Receipts : rei[s] \in Receipt
    BY DEF BuyTypes
  <2>3. \A s \in r.d : r.seen[s].due \in Int
    BY <2>1 DEF Receipt
  <2>4. \A s \in Receipts : s \in r.d =>
            [rei[s] EXCEPT !.paid = r.seen[s].due, !.payment = "paid"] \in Receipt
    BY <2>2, <2>3 DEF Receipt
  <2>5. rei' \in [Receipts -> Receipt]
    BY <2>1, <2>2, <2>4
  <2>6. UNCHANGED <<po, pvn, active, level>> /\ Done(q)
    BY <1>4 DEF PayBatch
  <2>7. total \in Int /\ cash' = cash + total /\ balance' = balance + total
    BY <1>4, BatchRows
  <2> HIDE DEF total
  <2>8. cash' \in Int /\ balance' \in Int
    BY <2>7 DEF BuyTypes
  <2> QED
    BY <2>5, <2>6, <2>8, DoneTypes DEF BuyTypes
<1>5. ASSUME ConfirmRefund(q) PROVE BuyTypes'
  <2>1. req[q].d \in Returns /\ req[q].seen \in ReturnOut
    BY <1>5, RequestKinds DEF ConfirmRefund, At, Active, ReturnReqs
  <2>2. pvn' \in [Returns -> ReturnOut]
    BY <1>5, <2>1 DEF ConfirmRefund, BuyTypes, ReturnOut
  <2>3. req[q].seen.qty \in Int
    BY <2>1 DEF ReturnOut
  <2> QED
    BY <1>5, <2>2, <2>3, DoneTypes DEF ConfirmRefund, BuyTypes
<1>6. ASSUME Fail(q) PROVE BuyTypes'
  BY <1>6, DoneTypes DEF Fail, BuyTypes, docs, books
<1> QED
  BY <1>1, <1>2, <1>3, <1>4, <1>5, <1>6

\* Every step keeps the types.
LEMMA TypesStep == PurchasingAssumption /\ BuyTypes /\ [Next]_vars => BuyTypes'
<1> SUFFICES ASSUME PurchasingAssumption, BuyTypes, [Next]_vars PROVE BuyTypes'
  OBVIOUS
<1>1. CASE UNCHANGED vars
  BY <1>1 DEF vars, docs, books, BuyTypes
<1>2. CASE Next
  BY <1>2, NewDocumentTypes, ReadTypes, OrderTypes, ConfirmTypes, ReceiptTypes DEF Next
<1> QED
  BY <1>1, <1>2

-----------------------------------------------------------------------------
(* However requests overlap.                                               *)

\* A received receipt costs what its lines and other costs add up to, and is
\* not paid beyond that.
RightPaid(x) ==
    x.status = "received" => x.due = Cost(x) /\ x.paid <= Most(x.due, 0)

\* What a receipt costs does not change once it is drawn up, so a request that
\* has read it knows it.
KnowsCost(q) ==
    /\ Active(q) /\ req[q].op = "confirm" =>
          /\ rei[req[q].d].status # "none"
          /\ req[q].seen.parts = rei[req[q].d].parts
          /\ req[q].seen.adjust = rei[req[q].d].adjust
    /\ Active(q) /\ req[q].op = "batch" =>
          \A s \in req[q].d :
              rei[s].status # "none" /\ req[q].seen[s].due = Cost(rei[s])

PaidInv ==
    /\ \A r \in Receipts : RightPaid(rei[r])
    /\ \A q \in Reqs : KnowsCost(q)

\* Whatever happens to a receipt, it keeps its lines and other costs.
SameGoods(x, y) ==
    x.status # "none" => y.status # "none" /\ y.parts = x.parts /\ y.adjust = x.adjust

\* A request that knows its receipt's cost still does after a step on another receipt.
LEMMA KnowsStill ==
    ASSUME BuyTypes, NEW q \in Reqs, KnowsCost(q),
           \A r \in Receipts : SameGoods(rei[r], rei'[r]),
           req'[q] \in {req[q], NoReq}
    PROVE  KnowsCost(q)'
<1>1. CASE req'[q] = NoReq
  BY <1>1 DEF KnowsCost, Active, NoReq
<1>2. CASE req'[q] = req[q]
  <2>1. Active(q)' <=> Active(q)
    BY <1>2 DEF Active
  <2>2. ASSUME Active(q), req[q].op = "confirm"
        PROVE  /\ rei'[req[q].d].status # "none"
               /\ req[q].seen.parts = rei'[req[q].d].parts
               /\ req[q].seen.adjust = rei'[req[q].d].adjust
    <3>1. req[q].d \in Receipts
      BY <2>2, RequestKinds DEF ReceiptReqs, ConfirmReqs, Active
    <3> QED
      BY <2>2, <3>1 DEF KnowsCost, SameGoods
  <2>3. ASSUME Active(q), req[q].op = "batch", NEW s \in req[q].d
        PROVE  rei'[s].status # "none" /\ req[q].seen[s].due = Cost(rei'[s])
    <3>1. s \in Receipts
      BY <2>3, RequestKinds
    <3> QED
      BY <2>3, <3>1 DEF KnowsCost, SameGoods, Cost
  <2> QED
    BY <1>2, <2>1, <2>2, <2>3 DEF KnowsCost
<1> QED
  BY <1>1, <1>2

\* The requests of a step that ends one of them, or none.
LEMMA OthersWait ==
    ASSUME BuyTypes, NEW q \in Reqs, Done(q)
    PROVE  /\ \A p \in Reqs : req'[p] \in {req[p], NoReq}
           /\ \A p \in Reqs \ {q} : req'[p] = req[p]
           /\ req'[q] = NoReq
BY DEF BuyTypes, Done

\* At the start nothing is paid.
LEMMA PaidInit == PurchasingAssumption /\ Init => PaidInv
BY DEF Init, PaidInv, RightPaid, KnowsCost, Active, NoReq, NoReceipt

\* A step that leaves the receipts alone.
LEMMA PaidUntouched ==
    ASSUME BuyTypes, PaidInv, UNCHANGED rei, \A q \in Reqs : req'[q] \in {req[q], NoReq}
    PROVE  PaidInv'
<1>1. \A r \in Receipts : SameGoods(rei[r], rei'[r]) /\ RightPaid(rei'[r])
  BY DEF SameGoods, PaidInv
<1>2. \A q \in Reqs : KnowsCost(q)'
  BY <1>1, KnowsStill DEF PaidInv
<1> QED
  BY <1>1, <1>2 DEF PaidInv

\* A step that writes one receipt.
LEMMA PaidOneRow ==
    ASSUME BuyTypes, PaidInv, NEW r \in Receipts, NEW y,
           rei' = [rei EXCEPT ![r] = y], SameGoods(rei[r], y), RightPaid(y),
           \A q \in Reqs : req'[q] \in {req[q], NoReq}
    PROVE  PaidInv'
<1>1. \A s \in Receipts : rei'[s] = IF s = r THEN y ELSE rei[s]
  BY DEF BuyTypes
<1>2. \A s \in Receipts : SameGoods(rei[s], rei'[s]) /\ RightPaid(rei'[s])
  BY <1>1 DEF SameGoods, PaidInv
<1>3. \A q \in Reqs : KnowsCost(q)'
  BY <1>2, KnowsStill DEF PaidInv
<1> QED
  BY <1>2, <1>3 DEF PaidInv

\* A new document is unpaid.
LEMMA PaidNewDocument ==
    ASSUME PurchasingAssumption, BuyTypes, PaidInv
    PROVE  /\ \A p \in Orders : DraftOrder(p) => PaidInv'
           /\ \A r \in Receipts : DraftReceipt(r) => PaidInv'
           /\ \A x \in Returns : ReturnGoods(x) => PaidInv'
           /\ Deactivate \/ SetActive => PaidInv'
<1>1. \A p \in Orders : DraftOrder(p) => PaidInv'
  BY PaidUntouched DEF DraftOrder
<1>2. ASSUME NEW r \in Receipts, DraftReceipt(r) PROVE PaidInv'
  <2>1. PICK y : rei' = [rei EXCEPT ![r] = y] /\ y.status = "pending"
    <3>1. PICK parts \in Quantities, a \in Adjustments, h \in Orders \union {"none"} :
            rei' = [rei EXCEPT ![r] = [NoReceipt EXCEPT !.status = "pending",
                                 !.parts = parts, !.header = h, !.adjust = a]]
      BY <1>2 DEF DraftReceipt, Used
    <3> DEFINE y == [NoReceipt EXCEPT !.status = "pending", !.parts = parts,
                                      !.header = h, !.adjust = a]
    <3>2. y.status = "pending"
      BY DEF NoReceipt
    <3> HIDE DEF y
    <3> QED
      BY <3>1, <3>2 DEF y
  <2>2. SameGoods(rei[r], y) /\ RightPaid(y)
    BY <1>2, <2>1 DEF SameGoods, RightPaid, DraftReceipt
  <2>3. UNCHANGED req
    BY <1>2 DEF DraftReceipt
  <2> QED
    BY <2>1, <2>2, <2>3, PaidOneRow
<1>3. \A x \in Returns : ReturnGoods(x) => PaidInv'
  BY PaidUntouched DEF ReturnGoods
<1>4. Deactivate \/ SetActive => PaidInv'
  BY PaidUntouched DEF Deactivate, SetActive
<1> QED
  BY <1>1, <1>2, <1>3, <1>4

\* A request that begins knows what it has read.
LEMMA PaidStart ==
    ASSUME BuyTypes, PaidInv, NEW q \in Reqs, NEW r, req' = [req EXCEPT ![q] = r],
           UNCHANGED rei, KnowsCost(q)'
    PROVE  PaidInv'
<1>1. \A s \in Receipts : SameGoods(rei[s], rei'[s]) /\ RightPaid(rei'[s])
  BY DEF SameGoods, PaidInv
<1>2. \A p \in Reqs \ {q} : req'[p] = req[p]
  BY DEF BuyTypes
<1>3. \A p \in Reqs : KnowsCost(p)'
  BY <1>1, <1>2, KnowsStill DEF PaidInv
<1> QED
  BY <1>1, <1>3 DEF PaidInv

\* A read learns a cost that no longer changes once the receipt is confirmed.
LEMMA PaidRead ==
    ASSUME PurchasingAssumption, BuyTypes, PaidInv, NEW q \in Reqs
    PROVE  /\ \A p \in Orders : ReadOrder(q, p) => PaidInv'
           /\ \A r \in Receipts : ReadReceipt(q, r) => PaidInv'
           /\ \A x \in Returns : ReadReturn(q, x) => PaidInv'
           /\ \A S \in SUBSET Receipts : ReadBatch(q, S) => PaidInv'
           /\ BeginConfirm(q) => PaidInv'
<1>1. ASSUME NEW p \in Orders, ReadOrder(q, p) PROVE PaidInv'
  <2>0. PICK op \in {"submit", "discard", "update", "close"} :
            \E seen : Start(q, [pc |-> "read", op |-> op, d |-> p, seen |-> seen])
    BY <1>1 DEF ReadOrder
  <2>1. PICK seen : Start(q, [pc |-> "read", op |-> op, d |-> p, seen |-> seen])
    BY <2>0
  <2> DEFINE r == [pc |-> "read", op |-> op, d |-> p, seen |-> seen]
  <2>2. req' = [req EXCEPT ![q] = r] /\ UNCHANGED rei /\ req'[q] = r
    BY <2>1 DEF Start, docs, BuyTypes
  <2>3. KnowsCost(q)'
    BY <2>1, <2>2 DEF KnowsCost
  <2> QED
    BY <2>2, <2>3, PaidStart
<1>2. ASSUME NEW r \in Receipts, ReadReceipt(q, r) PROVE PaidInv'
  <2>1. PICK op \in {"confirm", "drop", "pay"} :
            Start(q, [pc |-> "read", op |-> op, d |-> r, seen |-> rei[r]])
    BY <1>2 DEF ReadReceipt
  <2> DEFINE k == [pc |-> "read", op |-> op, d |-> r, seen |-> rei[r]]
  <2>2. req' = [req EXCEPT ![q] = k] /\ UNCHANGED rei /\ req'[q] = k
    BY <2>1 DEF Start, docs, BuyTypes
  <2>3. op # "batch" /\ rei[r].status # "none"
    BY <1>2 DEF ReadReceipt
  <2>4. KnowsCost(q)'
    BY <2>2, <2>3 DEF KnowsCost
  <2> QED
    BY <2>2, <2>4, PaidStart
<1>3. ASSUME NEW x \in Returns, ReadReturn(q, x) PROVE PaidInv'
  <2>1. PICK r : Start(q, r) /\ r.op \notin {"confirm", "batch"}
    BY <1>3 DEF ReadReturn
  <2>2. req' = [req EXCEPT ![q] = r] /\ UNCHANGED rei /\ req'[q] = r
    BY <2>1 DEF Start, docs, BuyTypes
  <2>3. KnowsCost(q)'
    BY <2>1, <2>2 DEF KnowsCost
  <2> QED
    BY <2>2, <2>3, PaidStart
<1>4. ASSUME NEW S \in SUBSET Receipts, ReadBatch(q, S) PROVE PaidInv'
  <2> DEFINE k == [pc |-> "tx", op |-> "batch", d |-> S, seen |-> [r \in S |-> rei[r]]]
  <2>1. req' = [req EXCEPT ![q] = k] /\ UNCHANGED rei /\ req'[q] = k
    BY <1>4 DEF ReadBatch, Start, docs, BuyTypes
  <2>2. \A s \in S : rei[s].status # "none" /\ rei[s].due = Cost(rei[s])
    BY <1>4 DEF ReadBatch, PaidInv, RightPaid
  <2>3. KnowsCost(q)'
    BY <2>1, <2>2 DEF KnowsCost
  <2> QED
    BY <2>1, <2>3, PaidStart
<1>5. ASSUME BeginConfirm(q) PROVE PaidInv'
  <2> DEFINE k == [pc |-> "tx", op |-> "confirm", d |-> req[q].d,
                   seen |-> req[q].seen, orders |-> po]
  <2>1. req' = [req EXCEPT ![q] = k] /\ UNCHANGED rei /\ req'[q] = k
    BY <1>5 DEF BeginConfirm, docs, BuyTypes
  <2>2. Active(q) /\ req[q].op = "confirm" /\ KnowsCost(q)
    BY <1>5 DEF BeginConfirm, Active, PaidInv
  <2>3. KnowsCost(q)'
    BY <2>1, <2>2 DEF KnowsCost
  <2> QED
    BY <2>1, <2>3, PaidStart
<1> QED
  BY <1>1, <1>2, <1>3, <1>4, <1>5

\* A confirmation fixes the cost, of which the deposit is at most a part.
LEMMA PaidConfirm ==
    ASSUME PurchasingAssumption, BuyTypes, PaidInv, NEW q \in Reqs, Confirm(q)
    PROVE  PaidInv'
<1> DEFINE r == req[q]
           due == Cost(r.seen)
           applied == DepositApplied(r.d, r.seen, due)
           y == [rei[r.d] EXCEPT !.status = "received", !.due = due, !.deposit = applied,
                                 !.paid = applied, !.payment = PaymentOf(applied, due)]
<1>1. /\ r.d \in Receipts /\ r.seen \in Receipt
      /\ due \in Int /\ applied \in Int
      /\ rei' = [rei EXCEPT ![r.d] = y]
  BY ConfirmRow
<1>2. rei[r.d] \in Receipt
  BY <1>1 DEF BuyTypes
<1>3. r.seen.parts = rei[r.d].parts /\ r.seen.adjust = rei[r.d].adjust
  BY DEF PaidInv, KnowsCost, Confirm, At, Active
<1>4. applied <= Most(due, 0)
  BY <1>1, AppliedType
<1>5. due = Cost(rei[r.d])
  BY <1>3 DEF Cost
<1>6. \A p \in Reqs : req'[p] \in {req[p], NoReq}
  BY OthersWait DEF Confirm
<1> HIDE DEF due, applied
<1>7. /\ y.status = "received" /\ y.parts = rei[r.d].parts /\ y.adjust = rei[r.d].adjust
      /\ y.due = due /\ y.paid = applied
  BY <1>2 DEF Receipt
<1> HIDE DEF y
<1>8. SameGoods(rei[r.d], y) /\ RightPaid(y)
  BY <1>4, <1>5, <1>7 DEF SameGoods, RightPaid, Cost
<1> QED
  BY <1>1, <1>6, <1>8, PaidOneRow

\* A payment is at most what was due when it was read, and the write adds only to that.
LEMMA PaidPay ==
    ASSUME BuyTypes, PaidInv, NEW q \in Reqs, Pay(q)
    PROVE  PaidInv'
<1> DEFINE d == req[q].d
<1>1. d \in Receipts /\ rei[d] \in Receipt /\ RightPaid(rei[d])
  BY PayRow DEF PaidInv
<1>2. PICK a \in Nat \ {0} :
         /\ a <= rei[d].due - rei[d].paid
         /\ rei' = [rei EXCEPT ![d] = [rei[d] EXCEPT !.paid = rei[d].paid + a,
                        !.payment = IF rei[d].paid + a >= rei[d].due
                                    THEN "paid" ELSE "partially_paid"]]
  BY PayRow
<1> DEFINE y == [rei[d] EXCEPT !.paid = rei[d].paid + a,
                        !.payment = IF rei[d].paid + a >= rei[d].due
                                    THEN "paid" ELSE "partially_paid"]
<1>3. /\ y.status = rei[d].status /\ y.parts = rei[d].parts /\ y.adjust = rei[d].adjust
      /\ y.due = rei[d].due /\ y.paid = rei[d].paid + a
  BY <1>1 DEF Receipt
<1>4. rei' = [rei EXCEPT ![d] = y]
  BY <1>2
<1> HIDE DEF y
<1>5. rei[d].due \in Int /\ rei[d].paid \in Int
  BY <1>1 DEF Receipt
<1>6. SameGoods(rei[d], y) /\ RightPaid(y)
  BY <1>1, <1>2, <1>3, <1>5 DEF SameGoods, RightPaid, Cost, Most
<1>7. \A p \in Reqs : req'[p] \in {req[p], NoReq}
  BY OthersWait DEF Pay
<1> QED
  BY <1>1, <1>4, <1>6, <1>7, PaidOneRow

\* A batch pays each receipt what it is due and no more.
LEMMA PaidBatch ==
    ASSUME PurchasingAssumption, BuyTypes, PaidInv, NEW q \in Reqs, PayBatch(q)
    PROVE  PaidInv'
<1> DEFINE r == req[q]
<1>1. /\ r.d \in SUBSET Receipts /\ r.seen \in [r.d -> Receipt]
      /\ Active(q) /\ r.op = "batch"
      /\ rei' = [s \in Receipts |->
                     IF s \in r.d THEN [rei[s] EXCEPT !.paid = r.seen[s].due,
                                                      !.payment = "paid"]
                     ELSE rei[s]]
  BY BatchRows
<1>2. \A s \in Receipts : SameGoods(rei[s], rei'[s]) /\ RightPaid(rei'[s])
  <2> TAKE s \in Receipts
  <2>1. CASE s \notin r.d
    BY <1>1, <2>1 DEF SameGoods, PaidInv
  <2>2. CASE s \in r.d
    <3>1. rei[s] \in Receipt /\ RightPaid(rei[s])
      BY DEF BuyTypes, PaidInv
    <3>2. r.seen[s].due = Cost(rei[s]) /\ Cost(rei[s]) \in Int
      BY <1>1, <2>2, <3>1, CostType DEF PaidInv, KnowsCost
    <3>3. rei'[s] = [rei[s] EXCEPT !.paid = r.seen[s].due, !.payment = "paid"]
      BY <1>1, <2>2
    <3>4. /\ rei'[s].status = rei[s].status /\ rei'[s].parts = rei[s].parts
          /\ rei'[s].adjust = rei[s].adjust /\ rei'[s].due = rei[s].due
          /\ rei'[s].paid = r.seen[s].due
      BY <3>1, <3>3 DEF Receipt
    <3> QED
      BY <3>1, <3>2, <3>4 DEF SameGoods, RightPaid, Cost, Most
  <2> QED
    BY <2>1, <2>2
<1>3. \A p \in Reqs : req'[p] \in {req[p], NoReq}
  BY OthersWait DEF PayBatch
<1>4. \A p \in Reqs : KnowsCost(p)'
  BY <1>2, <1>3, KnowsStill DEF PaidInv
<1> QED
  BY <1>2, <1>4 DEF PaidInv

\* The other handlers pay nothing.
LEMMA PaidOthers ==
    ASSUME BuyTypes, PaidInv, NEW q \in Reqs
    PROVE  /\ Update(q) \/ Submit(q) \/ Close(q) \/ Discard(q) => PaidInv'
           /\ Drop(q) => PaidInv'
           /\ PayNothing(q) => PaidInv'
           /\ ConfirmRefund(q) \/ Fail(q) => PaidInv'
<1>1. ASSUME Update(q) \/ Submit(q) \/ Close(q) \/ Discard(q) PROVE PaidInv'
  <2>1. UNCHANGED rei /\ Done(q)
    BY <1>1 DEF Update, Submit, Close, Discard
  <2> QED
    BY <2>1, OthersWait, PaidUntouched
<1>2. ASSUME Drop(q) PROVE PaidInv'
  <2> DEFINE d == req[q].d
             y == [rei[d] EXCEPT !.status = "deleted"]
  <2>1. d \in Receipts /\ rei[d] \in Receipt
    BY <1>2, ReceiptReq DEF Drop, At, BuyTypes
  <2>2. rei' = [rei EXCEPT ![d] = y]
    BY <1>2, <2>1 DEF Drop, BuyTypes
  <2>3. SameGoods(rei[d], y) /\ RightPaid(y)
    BY <2>1 DEF SameGoods, RightPaid, Receipt
  <2>4. Done(q)
    BY <1>2 DEF Drop
  <2> HIDE DEF y
  <2> QED
    BY <2>1, <2>2, <2>3, <2>4, OthersWait, PaidOneRow
<1>3. ASSUME PayNothing(q) PROVE PaidInv'
  <2> DEFINE d == req[q].d
             y == [rei[d] EXCEPT !.payment = "paid"]
  <2>1. d \in Receipts /\ rei[d] \in Receipt /\ RightPaid(rei[d])
    BY <1>3, ReceiptReq DEF PayNothing, At, BuyTypes, PaidInv
  <2>2. rei' = [rei EXCEPT ![d] = y]
    BY <1>3, <2>1 DEF PayNothing, BuyTypes
  <2>3. /\ y.status = rei[d].status /\ y.parts = rei[d].parts /\ y.adjust = rei[d].adjust
        /\ y.due = rei[d].due /\ y.paid = rei[d].paid
    BY <2>1 DEF Receipt
  <2>4. Done(q)
    BY <1>3 DEF PayNothing
  <2> HIDE DEF y
  <2>5. SameGoods(rei[d], y) /\ RightPaid(y)
    BY <2>1, <2>3 DEF SameGoods, RightPaid, Cost
  <2> QED
    BY <2>1, <2>2, <2>4, <2>5, OthersWait, PaidOneRow
<1>4. ASSUME ConfirmRefund(q) \/ Fail(q) PROVE PaidInv'
  <2>1. UNCHANGED rei /\ Done(q)
    BY <1>4 DEF ConfirmRefund, Fail, docs
  <2> QED
    BY <2>1, OthersWait, PaidUntouched
<1> QED
  BY <1>1, <1>2, <1>3, <1>4

\* Every step keeps receipts from being overpaid.
LEMMA PaidStep ==
    PurchasingAssumption /\ BuyTypes /\ PaidInv /\ [Next]_vars => PaidInv'
<1> SUFFICES ASSUME PurchasingAssumption, BuyTypes, PaidInv, [Next]_vars PROVE PaidInv'
  OBVIOUS
<1>1. CASE UNCHANGED vars
  BY <1>1, PaidUntouched DEF vars, docs
<1>2. CASE Next
  BY <1>2, PaidNewDocument, PaidRead, PaidConfirm, PaidPay, PaidBatch, PaidOthers DEF Next
<1> QED
  BY <1>1, <1>2

\* However requests overlap, no receipt is paid beyond what is due: payments of one
\* receipt at the same moment lock it, and a batch pays what the receipt costs, which
\* does not change once it has been drawn up (NeverOverpaid).
THEOREM ReceiptsNeverOverpaid == ASSUME PurchasingAssumption PROVE Spec => []NeverOverpaid
<1>1. Init => BuyTypes /\ PaidInv
  BY TypesInit, PaidInit
<1>2. BuyTypes /\ PaidInv /\ [Next]_vars => (BuyTypes /\ PaidInv)'
  BY TypesStep, PaidStep
<1>3. BuyTypes /\ PaidInv => NeverOverpaid
  BY DEF PaidInv, RightPaid, NeverOverpaid, Received
<1> QED
  BY <1>1, <1>2, <1>3, PTL DEF Spec

-----------------------------------------------------------------------------
(* What each document adds to the books.                                   *)

ExpectedBy(o) == IF o.status = "pending" THEN Remaining(o) ELSE 0
DepositOf(o) == IF o.status \in {"pending", "received"} THEN o.deposit ELSE 0
BroughtBy(x, p) == IF x.status = "received" THEN x.parts[p] ELSE 0
OwedFor(x) == IF x.status = "received" THEN x.due - Most(x.paid, 0) ELSE 0
PaidFor(x) == IF x.status = "received" THEN x.paid - x.deposit ELSE 0
CreditOf(y) == IF y.status = "no_refund" THEN y.qty ELSE 0
RefundOf(y) == IF y.status = "refunded" THEN y.qty ELSE 0

Expected == SumFunction([p \in Orders |-> ExpectedBy(po[p])])
Deposits == SumFunction([p \in Orders |-> DepositOf(po[p])])
Brought(p) == SumFunction([r \in Receipts |-> BroughtBy(rei[r], p)])
Owed == SumFunction([r \in Receipts |-> OwedFor(rei[r])])
PaidOut == SumFunction([r \in Receipts |-> PaidFor(rei[r])])
Credits == SumFunction([x \in Returns |-> CreditOf(pvn[x])])
Refunds == SumFunction([x \in Returns |-> RefundOf(pvn[x])])

BooksInv ==
    /\ level["incoming"] = OpeningLevel["incoming"] + Expected
    /\ \A p \in Orders : po[p].received = Brought(p)
    /\ balance = Credits - Owed
    /\ cash = PaidOut + Deposits - Refunds

\* What a row expects, brings, owes and has paid are integers.
LEMMA RowNumbers ==
    /\ \A o \in Order : ExpectedBy(o) \in Int /\ DepositOf(o) \in Int
    /\ \A x \in Receipt : /\ OwedFor(x) \in Int /\ PaidFor(x) \in Int
                          /\ \A p \in Orders : BroughtBy(x, p) \in Int
    /\ \A y \in ReturnOut : CreditOf(y) \in Int /\ RefundOf(y) \in Int
<1>1. \A o \in Order : ExpectedBy(o) \in Int /\ DepositOf(o) \in Int
  BY DEF Order, ExpectedBy, DepositOf, Remaining
<1>2. \A x \in Receipt : OwedFor(x) \in Int /\ PaidFor(x) \in Int
  BY DEF Receipt, OwedFor, PaidFor, Most
<1>3. \A x \in Receipt : \A p \in Orders : BroughtBy(x, p) \in Int
  BY DEF Receipt, BroughtBy
<1>4. \A y \in ReturnOut : CreditOf(y) \in Int /\ RefundOf(y) \in Int
  BY DEF ReturnOut, CreditOf, RefundOf
<1> QED
  BY <1>1, <1>2, <1>3, <1>4

\* A sum over the rows of a table is a number, and when one row changes, so does
\* the sum by what that row adds.
LEMMA TableSum ==
    ASSUME NEW S, IsFiniteSet(S), NEW f, DOMAIN f = S, \A x \in S : f[x] \in Int
    PROVE  SumFunction(f) \in Int
BY SumOver, SumType

\* A sum over a table in which one row changes.
LEMMA TableChange ==
    ASSUME NEW S, IsFiniteSet(S), NEW f, NEW g, DOMAIN f = S, DOMAIN g = S,
           \A x \in S : f[x] \in Int /\ g[x] \in Int,
           NEW a \in S, \A x \in S \ {a} : g[x] = f[x]
    PROVE  SumFunction(g) = SumFunction(f) + g[a] - f[a]
<1>1. SumFunctionOnSet(g, S) = SumFunctionOnSet(f, S) + g[a] - f[a]
  BY SumChange
<1> QED
  BY <1>1, SumOver

\* The sums of the supplier's account are integers.
LEMMA SumsTyped ==
    ASSUME PurchasingAssumption, BuyTypes
    PROVE  /\ Expected \in Int /\ Deposits \in Int /\ Owed \in Int /\ PaidOut \in Int
           /\ Credits \in Int /\ Refunds \in Int
           /\ \A p \in Orders : Brought(p) \in Int
<1>1. IsFiniteSet(Orders) /\ IsFiniteSet(Receipts) /\ IsFiniteSet(Returns)
  BY DEF PurchasingAssumption
<1>2. /\ \A p \in Orders : po[p] \in Order
      /\ \A r \in Receipts : rei[r] \in Receipt
      /\ \A x \in Returns : pvn[x] \in ReturnOut
  BY DEF BuyTypes
<1>3. Expected \in Int
  <2> DEFINE f == [p \in Orders |-> ExpectedBy(po[p])]
  <2>1. DOMAIN f = Orders /\ \A p \in Orders : f[p] \in Int
    BY <1>2, RowNumbers
  <2> HIDE DEF f
  <2>2. SumFunction(f) \in Int
    BY <1>1, <2>1, TableSum
  <2> QED
    BY <2>2 DEF Expected, f
<1>4. Deposits \in Int
  <2> DEFINE f == [p \in Orders |-> DepositOf(po[p])]
  <2>1. DOMAIN f = Orders /\ \A p \in Orders : f[p] \in Int
    BY <1>2, RowNumbers
  <2> HIDE DEF f
  <2>2. SumFunction(f) \in Int
    BY <1>1, <2>1, TableSum
  <2> QED
    BY <2>2 DEF Deposits, f
<1>5. Owed \in Int
  <2> DEFINE f == [r \in Receipts |-> OwedFor(rei[r])]
  <2>1. DOMAIN f = Receipts /\ \A r \in Receipts : f[r] \in Int
    BY <1>2, RowNumbers
  <2> HIDE DEF f
  <2>2. SumFunction(f) \in Int
    BY <1>1, <2>1, TableSum
  <2> QED
    BY <2>2 DEF Owed, f
<1>6. PaidOut \in Int
  <2> DEFINE f == [r \in Receipts |-> PaidFor(rei[r])]
  <2>1. DOMAIN f = Receipts /\ \A r \in Receipts : f[r] \in Int
    BY <1>2, RowNumbers
  <2> HIDE DEF f
  <2>2. SumFunction(f) \in Int
    BY <1>1, <2>1, TableSum
  <2> QED
    BY <2>2 DEF PaidOut, f
<1>7. \A p \in Orders : Brought(p) \in Int
  <2> TAKE p \in Orders
  <2> DEFINE f == [r \in Receipts |-> BroughtBy(rei[r], p)]
  <2>1. DOMAIN f = Receipts /\ \A r \in Receipts : f[r] \in Int
    BY <1>2, RowNumbers
  <2> HIDE DEF f
  <2>2. SumFunction(f) \in Int
    BY <1>1, <2>1, TableSum
  <2> QED
    BY <2>2 DEF Brought, f
<1>8. Credits \in Int
  <2> DEFINE f == [x \in Returns |-> CreditOf(pvn[x])]
  <2>1. DOMAIN f = Returns /\ \A x \in Returns : f[x] \in Int
    BY <1>2, RowNumbers
  <2> HIDE DEF f
  <2>2. SumFunction(f) \in Int
    BY <1>1, <2>1, TableSum
  <2> QED
    BY <2>2 DEF Credits, f
<1>9. Refunds \in Int
  <2> DEFINE f == [x \in Returns |-> RefundOf(pvn[x])]
  <2>1. DOMAIN f = Returns /\ \A x \in Returns : f[x] \in Int
    BY <1>2, RowNumbers
  <2> HIDE DEF f
  <2>2. SumFunction(f) \in Int
    BY <1>1, <2>1, TableSum
  <2> QED
    BY <2>2 DEF Refunds, f
<1> QED
  BY <1>3, <1>4, <1>5, <1>6, <1>7, <1>8, <1>9

\* An order changes.
LEMMA OrderChanges ==
    ASSUME PurchasingAssumption, BuyTypes, BuyTypes', NEW p \in Orders,
           \A s \in Orders \ {p} : po'[s] = po[s]
    PROVE  /\ Expected' = Expected + ExpectedBy(po'[p]) - ExpectedBy(po[p])
           /\ Deposits' = Deposits + DepositOf(po'[p]) - DepositOf(po[p])
<1>1. IsFiniteSet(Orders) /\ \A s \in Orders : po[s] \in Order /\ po'[s] \in Order
  BY DEF PurchasingAssumption, BuyTypes
<1>2. Expected' = Expected + ExpectedBy(po'[p]) - ExpectedBy(po[p])
  <2> DEFINE f == [s \in Orders |-> ExpectedBy(po[s])]
             g == [s \in Orders |-> ExpectedBy(po'[s])]
  <2>1. /\ DOMAIN f = Orders /\ DOMAIN g = Orders
        /\ g[p] = ExpectedBy(po'[p]) /\ f[p] = ExpectedBy(po[p])
    OBVIOUS
  <2>2. \A s \in Orders : f[s] \in Int /\ g[s] \in Int
    BY <1>1, RowNumbers
  <2>3. \A s \in Orders \ {p} : g[s] = f[s]
    OBVIOUS
  <2>4. Expected = SumFunction(f) /\ Expected' = SumFunction(g)
    BY DEF Expected
  <2> HIDE DEF f, g
  <2>5. SumFunction(g) = SumFunction(f) + g[p] - f[p]
    BY <1>1, <2>1, <2>2, <2>3, TableChange
  <2> QED
    BY <2>1, <2>4, <2>5
<1>3. Deposits' = Deposits + DepositOf(po'[p]) - DepositOf(po[p])
  <2> DEFINE f == [s \in Orders |-> DepositOf(po[s])]
             g == [s \in Orders |-> DepositOf(po'[s])]
  <2>1. /\ DOMAIN f = Orders /\ DOMAIN g = Orders
        /\ g[p] = DepositOf(po'[p]) /\ f[p] = DepositOf(po[p])
    OBVIOUS
  <2>2. \A s \in Orders : f[s] \in Int /\ g[s] \in Int
    BY <1>1, RowNumbers
  <2>3. \A s \in Orders \ {p} : g[s] = f[s]
    OBVIOUS
  <2>4. Deposits = SumFunction(f) /\ Deposits' = SumFunction(g)
    BY DEF Deposits
  <2> HIDE DEF f, g
  <2>5. SumFunction(g) = SumFunction(f) + g[p] - f[p]
    BY <1>1, <2>1, <2>2, <2>3, TableChange
  <2> QED
    BY <2>1, <2>4, <2>5
<1> QED
  BY <1>2, <1>3

\* A receipt changes.
LEMMA ReceiptChanges ==
    ASSUME PurchasingAssumption, BuyTypes, BuyTypes', NEW r \in Receipts,
           \A s \in Receipts \ {r} : rei'[s] = rei[s]
    PROVE  /\ Owed' = Owed + OwedFor(rei'[r]) - OwedFor(rei[r])
           /\ PaidOut' = PaidOut + PaidFor(rei'[r]) - PaidFor(rei[r])
           /\ \A p \in Orders :
                 Brought(p)' = Brought(p) + BroughtBy(rei'[r], p) - BroughtBy(rei[r], p)
<1>1. IsFiniteSet(Receipts) /\ \A s \in Receipts : rei[s] \in Receipt /\ rei'[s] \in Receipt
  BY DEF PurchasingAssumption, BuyTypes
<1>2. Owed' = Owed + OwedFor(rei'[r]) - OwedFor(rei[r])
  <2> DEFINE f == [s \in Receipts |-> OwedFor(rei[s])]
             g == [s \in Receipts |-> OwedFor(rei'[s])]
  <2>1. /\ DOMAIN f = Receipts /\ DOMAIN g = Receipts
        /\ g[r] = OwedFor(rei'[r]) /\ f[r] = OwedFor(rei[r])
    OBVIOUS
  <2>2. \A s \in Receipts : f[s] \in Int /\ g[s] \in Int
    BY <1>1, RowNumbers
  <2>3. \A s \in Receipts \ {r} : g[s] = f[s]
    OBVIOUS
  <2>4. Owed = SumFunction(f) /\ Owed' = SumFunction(g)
    BY DEF Owed
  <2> HIDE DEF f, g
  <2>5. SumFunction(g) = SumFunction(f) + g[r] - f[r]
    BY <1>1, <2>1, <2>2, <2>3, TableChange
  <2> QED
    BY <2>1, <2>4, <2>5
<1>3. PaidOut' = PaidOut + PaidFor(rei'[r]) - PaidFor(rei[r])
  <2> DEFINE f == [s \in Receipts |-> PaidFor(rei[s])]
             g == [s \in Receipts |-> PaidFor(rei'[s])]
  <2>1. /\ DOMAIN f = Receipts /\ DOMAIN g = Receipts
        /\ g[r] = PaidFor(rei'[r]) /\ f[r] = PaidFor(rei[r])
    OBVIOUS
  <2>2. \A s \in Receipts : f[s] \in Int /\ g[s] \in Int
    BY <1>1, RowNumbers
  <2>3. \A s \in Receipts \ {r} : g[s] = f[s]
    OBVIOUS
  <2>4. PaidOut = SumFunction(f) /\ PaidOut' = SumFunction(g)
    BY DEF PaidOut
  <2> HIDE DEF f, g
  <2>5. SumFunction(g) = SumFunction(f) + g[r] - f[r]
    BY <1>1, <2>1, <2>2, <2>3, TableChange
  <2> QED
    BY <2>1, <2>4, <2>5
<1>4. ASSUME NEW p \in Orders
      PROVE  Brought(p)' = Brought(p) + BroughtBy(rei'[r], p) - BroughtBy(rei[r], p)
  <2> DEFINE f == [s \in Receipts |-> BroughtBy(rei[s], p)]
             g == [s \in Receipts |-> BroughtBy(rei'[s], p)]
  <2>1. /\ DOMAIN f = Receipts /\ DOMAIN g = Receipts
        /\ g[r] = BroughtBy(rei'[r], p) /\ f[r] = BroughtBy(rei[r], p)
    OBVIOUS
  <2>2. \A s \in Receipts : f[s] \in Int /\ g[s] \in Int
    BY <1>1, RowNumbers
  <2>3. \A s \in Receipts \ {r} : g[s] = f[s]
    OBVIOUS
  <2>4. Brought(p) = SumFunction(f) /\ Brought(p)' = SumFunction(g)
    BY DEF Brought
  <2> HIDE DEF f, g
  <2>5. SumFunction(g) = SumFunction(f) + g[r] - f[r]
    BY <1>1, <2>1, <2>2, <2>3, TableChange
  <2> QED
    BY <2>1, <2>4, <2>5
<1> QED
  BY <1>2, <1>3, <1>4

\* A return changes.
LEMMA ReturnChanges ==
    ASSUME PurchasingAssumption, BuyTypes, BuyTypes', NEW x \in Returns,
           \A s \in Returns \ {x} : pvn'[s] = pvn[s]
    PROVE  /\ Credits' = Credits + CreditOf(pvn'[x]) - CreditOf(pvn[x])
           /\ Refunds' = Refunds + RefundOf(pvn'[x]) - RefundOf(pvn[x])
<1>1. IsFiniteSet(Returns) /\ \A s \in Returns : pvn[s] \in ReturnOut /\ pvn'[s] \in ReturnOut
  BY DEF PurchasingAssumption, BuyTypes
<1>2. Credits' = Credits + CreditOf(pvn'[x]) - CreditOf(pvn[x])
  <2> DEFINE f == [s \in Returns |-> CreditOf(pvn[s])]
             g == [s \in Returns |-> CreditOf(pvn'[s])]
  <2>1. /\ DOMAIN f = Returns /\ DOMAIN g = Returns
        /\ g[x] = CreditOf(pvn'[x]) /\ f[x] = CreditOf(pvn[x])
    OBVIOUS
  <2>2. \A s \in Returns : f[s] \in Int /\ g[s] \in Int
    BY <1>1, RowNumbers
  <2>3. \A s \in Returns \ {x} : g[s] = f[s]
    OBVIOUS
  <2>4. Credits = SumFunction(f) /\ Credits' = SumFunction(g)
    BY DEF Credits
  <2> HIDE DEF f, g
  <2>5. SumFunction(g) = SumFunction(f) + g[x] - f[x]
    BY <1>1, <2>1, <2>2, <2>3, TableChange
  <2> QED
    BY <2>1, <2>4, <2>5
<1>3. Refunds' = Refunds + RefundOf(pvn'[x]) - RefundOf(pvn[x])
  <2> DEFINE f == [s \in Returns |-> RefundOf(pvn[s])]
             g == [s \in Returns |-> RefundOf(pvn'[s])]
  <2>1. /\ DOMAIN f = Returns /\ DOMAIN g = Returns
        /\ g[x] = RefundOf(pvn'[x]) /\ f[x] = RefundOf(pvn[x])
    OBVIOUS
  <2>2. \A s \in Returns : f[s] \in Int /\ g[s] \in Int
    BY <1>1, RowNumbers
  <2>3. \A s \in Returns \ {x} : g[s] = f[s]
    OBVIOUS
  <2>4. Refunds = SumFunction(f) /\ Refunds' = SumFunction(g)
    BY DEF Refunds
  <2> HIDE DEF f, g
  <2>5. SumFunction(g) = SumFunction(f) + g[x] - f[x]
    BY <1>1, <2>1, <2>2, <2>3, TableChange
  <2> QED
    BY <2>1, <2>4, <2>5
<1> QED
  BY <1>2, <1>3

-----------------------------------------------------------------------------
(* When requests on receipts do not overlap.                               *)

OrderRight(o) ==
    /\ o.status \in {"none", "draft"} => o.received = 0
    /\ o.status = "draft" => o.qty >= 1
    /\ o.status = "pending" => o.received < o.qty

ReceiptRight(x) ==
    x.status = "received" =>
        /\ x.payment = "paid" <=> x.paid >= x.due
        /\ x.due >= 0 => x.paid >= 0
        /\ x.due < 0 => x.paid >= x.due

\* Requests are alone, or pay.
Alone ==
    \A p, q \in Reqs :
        Active(p) /\ Active(q) => p = q \/ (req[p].op = "pay" /\ req[q].op = "pay")

\* What the request has found still holds.
Holds(q) ==
    LET r == req[q]
    IN  Active(q) =>
            /\ r.op \in {"submit", "discard", "update"} => po[r.d].status = "draft"
            /\ r.op = "close" => po[r.d].status = "pending"
            /\ r.op \in {"submit", "close"} => r.seen = po[r.d]
            /\ r.op = "update" => r.seen.qty >= 1
            /\ r.op \in {"confirm", "drop"} => rei[r.d].status = "pending"
            /\ r.op = "confirm" /\ r.pc = "tx" =>
                  \A p \in Used(r.seen.parts) :
                      /\ po[p].status = "pending" /\ r.orders[p] = po[p]
                      /\ r.seen.parts[p] <= Remaining(po[p])
            /\ r.op = "pay" =>
                  rei[r.d].status = "received" /\ r.seen.due > r.seen.paid
            /\ r.op = "batch" =>
                  \A s \in r.d : /\ rei[s].status = "received" /\ r.seen[s] = rei[s]
                                 /\ rei[s].paid < rei[s].due
            /\ r.op = "refund" => pvn[r.d].status = "no_refund" /\ r.seen = pvn[r.d]

RowsRight ==
    /\ \A p \in Orders : OrderRight(po[p])
    /\ \A r \in Receipts : ReceiptRight(rei[r])

Serial == RowsRight /\ Alone /\ (\A q \in Reqs : Holds(q)) /\ BooksInv

BuyInv == BuyTypes /\ PaidInv /\ (overlap # "receipts" => Serial)

\* New documents are rows that nothing has been read of.
HoldsBesideNew(q) ==
    /\ \A p \in Orders : po[p].status # "none" => po'[p] = po[p]
    /\ \A r \in Receipts : rei[r].status # "none" => rei'[r] = rei[r]
    /\ \A x \in Returns : pvn[x].status # "none" => pvn'[x] = pvn[x]
    /\ req'[q] = req[q]

\* A request's knowledge outlives a step of another on rows it does not hold.
LEMMA HoldsStill ==
    ASSUME BuyTypes, NEW q \in Reqs, Holds(q), HoldsBesideNew(q)
    PROVE  Holds(q)'
<1> DEFINE r == req[q]
<1> SUFFICES ASSUME Active(q) PROVE Holds(q)'
  BY DEF Holds, HoldsBesideNew, Active
<1>1. req'[q] = r
  BY DEF HoldsBesideNew
<1>2. CASE r.op \in {"submit", "discard", "update", "close"}
  <2>1. r.d \in Orders
    BY <1>2, RequestKinds DEF OrderReqs
  <2>2. po[r.d].status # "none"
    BY <1>2 DEF Holds
  <2>3. po'[r.d] = po[r.d]
    BY <2>1, <2>2 DEF HoldsBesideNew
  <2> QED
    BY <1>1, <1>2, <2>3 DEF Holds
<1>3. CASE r.op \in {"drop", "pay"}
  <2>1. r.d \in Receipts
    BY <1>3, RequestKinds DEF ReceiptReqs
  <2>2. rei[r.d].status # "none"
    BY <1>3 DEF Holds
  <2>3. rei'[r.d] = rei[r.d]
    BY <2>1, <2>2 DEF HoldsBesideNew
  <2> QED
    BY <1>1, <1>3, <2>3 DEF Holds
<1>4. CASE r.op = "confirm"
  <2>1. r.d \in Receipts
    BY <1>4, RequestKinds DEF ReceiptReqs, ConfirmReqs, Active
  <2>2. rei[r.d].status # "none"
    BY <1>4 DEF Holds
  <2>3. rei'[r.d] = rei[r.d]
    BY <2>1, <2>2 DEF HoldsBesideNew
  <2>4. ASSUME r.pc = "tx", NEW p \in Used(r.seen.parts)
        PROVE  /\ po'[p].status = "pending" /\ r.orders[p] = po'[p]
               /\ r.seen.parts[p] <= Remaining(po'[p])
    <3>1. /\ po[p].status = "pending" /\ r.orders[p] = po[p]
          /\ r.seen.parts[p] <= Remaining(po[p])
      BY <1>4, <2>4 DEF Holds
    <3>2. po'[p] = po[p]
      BY <3>1 DEF Used, HoldsBesideNew
    <3> QED
      BY <3>1, <3>2
  <2>5. rei[r.d].status = "pending"
    BY <1>4 DEF Holds
  <2> QED
    BY <1>1, <1>4, <2>3, <2>4, <2>5 DEF Holds
<1>5. CASE r.op = "batch"
  <2>1. r.d \in SUBSET Receipts
    BY <1>5, RequestKinds
  <2>2. \A s \in r.d : /\ rei[s].status = "received" /\ r.seen[s] = rei[s]
                       /\ rei[s].paid < rei[s].due
    BY <1>5 DEF Holds
  <2>3. \A s \in r.d : rei'[s] = rei[s]
    BY <2>1, <2>2 DEF HoldsBesideNew
  <2> QED
    BY <1>1, <1>5, <2>2, <2>3 DEF Holds
<1>6. CASE r.op = "refund"
  <2>1. r.d \in Returns
    BY <1>6, RequestKinds DEF ReturnReqs
  <2>2. pvn[r.d].status = "no_refund" /\ r.seen = pvn[r.d]
    BY <1>6 DEF Holds
  <2>3. pvn'[r.d] = pvn[r.d]
    BY <2>1, <2>2 DEF HoldsBesideNew
  <2> QED
    BY <1>1, <1>6, <2>2, <2>3 DEF Holds
<1>7. r.op \in {"submit", "discard", "update", "close", "confirm",
                "drop", "pay", "refund", "batch"}
  BY RequestKinds
<1> QED
  BY <1>2, <1>3, <1>4, <1>5, <1>6, <1>7

\* Once a request that was alone has ended, none is under way.
LEMMA AloneEnds ==
    ASSUME BuyTypes, Alone, NEW q \in Reqs, Active(q), req[q].op # "pay", Done(q)
    PROVE  Alone' /\ \A p \in Reqs : Holds(p)'
<1>1. \A p \in Reqs : req'[p].pc = "idle"
  <2> TAKE p \in Reqs
  <2>1. CASE p = q
    BY <2>1, OthersWait DEF NoReq
  <2>2. CASE p # q
    BY <2>2, OthersWait DEF Alone, Active
  <2> QED
    BY <2>1, <2>2
<1> QED
  BY <1>1 DEF Alone, Holds, Active

\* A payment ends beside others: their receipts stay received.
LEMMA PaymentEnds ==
    ASSUME BuyTypes, Alone, NEW q \in Reqs, Active(q), req[q].op = "pay", Done(q),
           \A p \in Reqs : Holds(p),
           \A r \in Receipts : rei'[r].status = rei[r].status
    PROVE  Alone' /\ \A p \in Reqs : Holds(p)'
<1>1. \A p \in Reqs : Active(p)' => req'[p] = req[p] /\ Active(p) /\ req[p].op = "pay"
  <2> TAKE p \in Reqs
  <2>1. CASE p = q
    BY <2>1, OthersWait DEF NoReq, Active
  <2>2. CASE p # q
    BY <2>2, OthersWait DEF Alone, Active
  <2> QED
    BY <2>1, <2>2
<1>2. Alone'
  BY <1>1 DEF Alone
<1>3. \A p \in Reqs : Holds(p)'
  <2> TAKE p \in Reqs
  <2> SUFFICES ASSUME Active(p)' PROVE Holds(p)'
    BY DEF Holds
  <2>1. req'[p] = req[p] /\ Active(p) /\ req[p].op = "pay"
    BY <1>1
  <2>2. req[p].d \in Receipts
    BY <2>1, RequestKinds DEF ReceiptReqs
  <2>3. rei[req[p].d].status = "received" /\ req[p].seen.due > req[p].seen.paid
    BY <2>1 DEF Holds
  <2> QED
    BY <2>1, <2>2, <2>3 DEF Holds
<1> QED
  BY <1>2, <1>3

\* A request that begins is alone, or pays beside others that pay.
LEMMA StartsAlone ==
    ASSUME PurchasingAssumption, BuyTypes, Alone, overlap # "receipts",
           NEW q \in Reqs, NEW r, Start(q, r)
    PROVE  Alone'
<1>1. overlap \in {"none", "payments"}
  BY DEF BuyTypes, PurchasingAssumption
<1>2. \A p \in Reqs : Active(p) => {r.op, req[p].op} = {"pay"}
  BY <1>1 DEF Start, MayStart
<1>3. req'[q] = r /\ \A p \in Reqs \ {q} : req'[p] = req[p]
  BY DEF Start, BuyTypes
<1>4. ~Active(q)
  BY DEF Start, MayStart
<1>5. \A p \in Reqs \ {q} : Active(p)' => r.op = "pay" /\ req'[p].op = "pay" /\ Active(p)
  BY <1>2, <1>3 DEF Active
<1> QED
  BY <1>3, <1>5 DEF Alone

\* At the start the books are empty and agree.
LEMMA SerialInit == PurchasingAssumption /\ Init => Serial
<1> SUFFICES ASSUME PurchasingAssumption, Init PROVE Serial
  OBVIOUS
<1>1. RowsRight
  BY DEF Init, RowsRight, OrderRight, ReceiptRight, NoOrder, NoReceipt
<1>2. Alone /\ \A q \in Reqs : Holds(q)
  BY DEF Init, Alone, Holds, Active, NoReq
<1>3. IsFiniteSet(Orders) /\ IsFiniteSet(Receipts) /\ IsFiniteSet(Returns)
  BY DEF PurchasingAssumption
<1>4. ASSUME NEW S, IsFiniteSet(S) PROVE SumFunction([x \in S |-> 0]) = 0
  <2> DEFINE f == [x \in S |-> 0]
  <2>1. DOMAIN f = S /\ \A x \in S : f[x] = 0
    OBVIOUS
  <2> HIDE DEF f
  <2>2. SumFunction(f) = 0
    BY <1>4, <2>1, SumOver, SumOfZeros
  <2> QED
    BY <2>2 DEF f
<1>5. Expected = 0 /\ Deposits = 0
  <2>1. /\ [p \in Orders |-> ExpectedBy(po[p])] = [p \in Orders |-> 0]
        /\ [p \in Orders |-> DepositOf(po[p])] = [p \in Orders |-> 0]
    BY DEF Init, NoOrder, ExpectedBy, DepositOf
  <2> QED
    BY <1>3, <1>4, <2>1 DEF Expected, Deposits
<1>6. Owed = 0 /\ PaidOut = 0 /\ \A p \in Orders : Brought(p) = 0
  <2>1. /\ [r \in Receipts |-> OwedFor(rei[r])] = [r \in Receipts |-> 0]
        /\ [r \in Receipts |-> PaidFor(rei[r])] = [r \in Receipts |-> 0]
        /\ \A p \in Orders :
              [r \in Receipts |-> BroughtBy(rei[r], p)] = [r \in Receipts |-> 0]
    BY DEF Init, NoReceipt, OwedFor, PaidFor, BroughtBy
  <2> QED
    BY <1>3, <1>4, <2>1 DEF Owed, PaidOut, Brought
<1>7. Credits = 0 /\ Refunds = 0
  <2>1. /\ [x \in Returns |-> CreditOf(pvn[x])] = [x \in Returns |-> 0]
        /\ [x \in Returns |-> RefundOf(pvn[x])] = [x \in Returns |-> 0]
    BY DEF Init, NoReturnOut, CreditOf, RefundOf
  <2> QED
    BY <1>3, <1>4, <2>1 DEF Credits, Refunds
<1>8. OpeningLevel["incoming"] \in Int
  BY DEF PurchasingAssumption, Level, Buckets
<1>9. BooksInv
  BY <1>5, <1>6, <1>7, <1>8 DEF Init, BooksInv, NoOrder
<1> QED
  BY <1>1, <1>2, <1>9 DEF Serial

\* Tables that rest, and what is summed over them.
LEMMA RestingSums ==
    /\ UNCHANGED po => UNCHANGED <<Expected, Deposits>>
    /\ UNCHANGED rei => UNCHANGED <<Owed, PaidOut>> /\ \A p \in Orders : Brought(p)' = Brought(p)
    /\ UNCHANGED pvn => UNCHANGED <<Credits, Refunds>>
<1>1. UNCHANGED po => UNCHANGED <<Expected, Deposits>>
  BY DEF Expected, Deposits
<1>2. UNCHANGED rei => UNCHANGED <<Owed, PaidOut>> /\ \A p \in Orders : Brought(p)' = Brought(p)
  BY DEF Owed, PaidOut, Brought
<1>3. UNCHANGED pvn => UNCHANGED <<Credits, Refunds>>
  BY DEF Credits, Refunds
<1> QED
  BY <1>1, <1>2, <1>3

\* The books agree as long as nobody writes.
LEMMA BooksRest ==
    ASSUME BooksInv, UNCHANGED <<docs, books>>
    PROVE  BooksInv'
BY RestingSums DEF BooksInv, docs, books

\* A drafted order expects nothing.
LEMMA SerialDraftOrder ==
    ASSUME PurchasingAssumption, BuyTypes, BuyTypes', Serial, NEW p \in Orders, DraftOrder(p)
    PROVE  Serial'
<1>1. PICK n \in 1..MaxQty[p], d \in 0..MaxQty[p] :
          po' = [po EXCEPT ![p] = [NoOrder EXCEPT !.status = "draft", !.qty = n, !.deposit = d]]
  BY DEF DraftOrder
<1>2. n \in Nat /\ n >= 1
  BY DEF PurchasingAssumption
<1>3. /\ po'[p].status = "draft" /\ po'[p].received = 0 /\ po'[p].qty = n
      /\ \A s \in Orders \ {p} : po'[s] = po[s]
  BY <1>1 DEF BuyTypes, NoOrder
<1>4. po[p].status = "none" /\ UNCHANGED <<rei, pvn, level, balance, cash, req>>
  BY DEF DraftOrder, books
<1>5. RowsRight'
  <2>1. OrderRight(po'[p])
    BY <1>2, <1>3 DEF OrderRight
  <2> QED
    BY <1>3, <1>4, <2>1 DEF RowsRight, Serial
<1>6. \A q \in Reqs : HoldsBesideNew(q)
  BY <1>3, <1>4 DEF HoldsBesideNew
<1>7. \A q \in Reqs : Holds(q)'
  BY <1>6, HoldsStill DEF Serial
<1>8. Alone'
  BY <1>4 DEF Serial, Alone, Active
<1>9. /\ Expected' = Expected + ExpectedBy(po'[p]) - ExpectedBy(po[p])
      /\ Deposits' = Deposits + DepositOf(po'[p]) - DepositOf(po[p])
  BY <1>3, OrderChanges
<1>10. /\ ExpectedBy(po'[p]) = 0 /\ ExpectedBy(po[p]) = 0
       /\ DepositOf(po'[p]) = 0 /\ DepositOf(po[p]) = 0
  BY <1>3, <1>4 DEF ExpectedBy, DepositOf
<1>11. Expected' = Expected /\ Deposits' = Deposits
  BY <1>9, <1>10, SumsTyped
<1>12. \A s \in Orders : po'[s].received = po[s].received
  BY <1>3, <1>4 DEF Serial, RowsRight, OrderRight
<1>13. BooksInv'
  BY <1>4, <1>11, <1>12, RestingSums DEF Serial, BooksInv
<1> QED
  BY <1>5, <1>7, <1>8, <1>13 DEF Serial

\* A drafted receipt owes nothing.
LEMMA SerialDraftReceipt ==
    ASSUME PurchasingAssumption, BuyTypes, BuyTypes', Serial, NEW r \in Receipts, DraftReceipt(r)
    PROVE  Serial'
<1>1. PICK parts \in Quantities, a \in Adjustments, h \in Orders \union {"none"} :
            rei' = [rei EXCEPT ![r] = [NoReceipt EXCEPT !.status = "pending",
                                 !.parts = parts, !.header = h, !.adjust = a]]
  BY DEF DraftReceipt, Used
<1>2. rei'[r].status = "pending" /\ \A s \in Receipts \ {r} : rei'[s] = rei[s]
  BY <1>1 DEF BuyTypes, NoReceipt
<1>3. rei[r].status = "none" /\ UNCHANGED <<po, pvn, level, balance, cash, req>>
  BY DEF DraftReceipt, books
<1>4. RowsRight'
  BY <1>2, <1>3 DEF RowsRight, Serial, ReceiptRight
<1>5. \A q \in Reqs : HoldsBesideNew(q)
  BY <1>2, <1>3 DEF HoldsBesideNew
<1>6. \A q \in Reqs : Holds(q)'
  BY <1>5, HoldsStill DEF Serial
<1>7. Alone'
  BY <1>3 DEF Serial, Alone, Active
<1>8. /\ OwedFor(rei'[r]) = 0 /\ OwedFor(rei[r]) = 0
      /\ PaidFor(rei'[r]) = 0 /\ PaidFor(rei[r]) = 0
      /\ \A p \in Orders : BroughtBy(rei'[r], p) = 0 /\ BroughtBy(rei[r], p) = 0
  BY <1>2, <1>3 DEF OwedFor, PaidFor, BroughtBy
<1>9. /\ Owed' = Owed + OwedFor(rei'[r]) - OwedFor(rei[r])
      /\ PaidOut' = PaidOut + PaidFor(rei'[r]) - PaidFor(rei[r])
      /\ \A p \in Orders :
            Brought(p)' = Brought(p) + BroughtBy(rei'[r], p) - BroughtBy(rei[r], p)
  BY <1>2, ReceiptChanges
<1>10. Owed' = Owed /\ PaidOut' = PaidOut /\ \A p \in Orders : Brought(p)' = Brought(p)
  BY <1>8, <1>9, SumsTyped
<1>11. BooksInv'
  BY <1>3, <1>10, RestingSums DEF Serial, BooksInv
<1> QED
  BY <1>4, <1>6, <1>7, <1>11 DEF Serial

\* A return of goods credits the supplier's account with what it is worth.
LEMMA SerialReturn ==
    ASSUME PurchasingAssumption, BuyTypes, BuyTypes', Serial, NEW x \in Returns, ReturnGoods(x)
    PROVE  Serial'
<1>1. ComputeAvailable(level) \in Int
  BY AvailableType DEF BuyTypes
<1>2. PICK n \in 1..ComputeAvailable(level) :
            /\ level' = AfterLine(level, OutLine(n))
            /\ pvn' = [pvn EXCEPT ![x] = [status |-> "no_refund", qty |-> n]]
            /\ balance' = balance + n
  BY DEF ReturnGoods
<1>3. n \in Int /\ -n \in Int
  BY <1>1
<1>4. level'["incoming"] = level["incoming"]
  BY <1>2, <1>3, OneEntry DEF OutLine, BuyTypes, Buckets, MovementTypes
<1>5. /\ pvn'[x].status = "no_refund" /\ pvn'[x].qty = n
      /\ \A s \in Returns \ {x} : pvn'[s] = pvn[s]
  BY <1>2 DEF BuyTypes
<1>6. pvn[x].status = "none" /\ UNCHANGED <<po, rei, cash, req>>
  BY DEF ReturnGoods
<1>7. RowsRight'
  BY <1>6 DEF RowsRight, Serial
<1>8. \A q \in Reqs : HoldsBesideNew(q)
  BY <1>5, <1>6 DEF HoldsBesideNew
<1>9. \A q \in Reqs : Holds(q)'
  BY <1>8, HoldsStill DEF Serial
<1>10. Alone'
  BY <1>6 DEF Serial, Alone, Active
<1>11. /\ CreditOf(pvn'[x]) = n /\ CreditOf(pvn[x]) = 0
       /\ RefundOf(pvn'[x]) = 0 /\ RefundOf(pvn[x]) = 0
  BY <1>5, <1>6 DEF CreditOf, RefundOf
<1>12. /\ Credits' = Credits + CreditOf(pvn'[x]) - CreditOf(pvn[x])
       /\ Refunds' = Refunds + RefundOf(pvn'[x]) - RefundOf(pvn[x])
  BY <1>5, ReturnChanges
<1>13. Credits' = Credits + n /\ Refunds' = Refunds
  BY <1>3, <1>11, <1>12, SumsTyped
<1>14. /\ UNCHANGED <<Expected, Deposits, Owed, PaidOut>>
       /\ \A p \in Orders : Brought(p)' = Brought(p)
  BY <1>6, RestingSums
<1>15. balance' = Credits' - Owed' /\ cash' = PaidOut' + Deposits' - Refunds'
  BY <1>2, <1>3, <1>6, <1>13, <1>14, SumsTyped DEF Serial, BooksInv
<1>16. BooksInv'
  BY <1>4, <1>6, <1>14, <1>15 DEF Serial, BooksInv
<1> QED
  BY <1>7, <1>9, <1>10, <1>16 DEF Serial

\* A request begins with what it has just read.
LEMMA SerialStarts ==
    ASSUME PurchasingAssumption, BuyTypes, Serial, overlap # "receipts",
           NEW q \in Reqs, NEW r, Start(q, r), Holds(q)'
    PROVE  Serial'
<1>1. UNCHANGED <<docs, books>> /\ \A p \in Reqs \ {q} : req'[p] = req[p]
  BY DEF Start, BuyTypes
<1>2. Alone'
  BY StartsAlone DEF Serial
<1>3. \A p \in Reqs \ {q} : HoldsBesideNew(p)
  BY <1>1 DEF HoldsBesideNew, docs
<1>4. \A p \in Reqs : Holds(p)'
  BY <1>3, HoldsStill DEF Serial
<1>5. RowsRight'
  BY <1>1 DEF Serial, RowsRight, docs
<1>6. BooksInv'
  BY <1>1, BooksRest DEF Serial
<1> QED
  BY <1>2, <1>4, <1>5, <1>6 DEF Serial

\* A request that starts changes no document.
LEMMA StartedReq ==
    ASSUME BuyTypes, NEW q \in Reqs, NEW r, Start(q, r)
    PROVE  req'[q] = r /\ UNCHANGED <<po, rei, pvn>>
BY DEF BuyTypes, Start, docs

\* A handler that reads an order is the only one on it.
LEMMA SerialReadOrder ==
    ASSUME PurchasingAssumption, BuyTypes, Serial, overlap # "receipts",
           NEW q \in Reqs, NEW p \in Orders, ReadOrder(q, p)
    PROVE  Serial'
<1>1. ASSUME NEW op \in {"submit", "discard"}, po[p].status = "draft",
             Start(q, [pc |-> "read", op |-> op, d |-> p, seen |-> po[p]])
      PROVE  Serial'
  <2>1. Holds(q)'
    BY <1>1, StartedReq DEF Holds
  <2> QED
    BY <1>1, <2>1, SerialStarts
<1>2. ASSUME NEW n \in 1..MaxQty[p], NEW d \in 0..MaxQty[p], po[p].status = "draft",
             Start(q, [pc |-> "read", op |-> "update", d |-> p,
                       seen |-> [po[p] EXCEPT !.qty = n, !.deposit = d]])
      PROVE  Serial'
  <2> DEFINE seen == [po[p] EXCEPT !.qty = n, !.deposit = d]
  <2>1. seen.qty >= 1
    BY DEF BuyTypes, Order, PurchasingAssumption
  <2> HIDE DEF seen
  <2>2. Start(q, [pc |-> "read", op |-> "update", d |-> p, seen |-> seen])
    BY <1>2 DEF seen
  <2>3. Holds(q)'
    BY <1>2, <2>1, <2>2, StartedReq DEF Holds
  <2> QED
    BY <2>2, <2>3, SerialStarts
<1>3. ASSUME po[p].status = "pending",
             Start(q, [pc |-> "read", op |-> "close", d |-> p, seen |-> po[p]])
      PROVE  Serial'
  <2>1. Holds(q)'
    BY <1>3, StartedReq DEF Holds
  <2> QED
    BY <1>3, <2>1, SerialStarts
<1> QED
  BY <1>1, <1>2, <1>3 DEF ReadOrder

\* A handler that reads a receipt, a return or a batch is the only one on it, payments
\* apart.
LEMMA SerialReadReceipt ==
    ASSUME PurchasingAssumption, BuyTypes, PaidInv, Serial, overlap # "receipts",
           NEW q \in Reqs
    PROVE  /\ \A r \in Receipts : ReadReceipt(q, r) => Serial'
           /\ \A x \in Returns : ReadReturn(q, x) => Serial'
           /\ \A S \in SUBSET Receipts : ReadBatch(q, S) => Serial'
<1>1. ASSUME NEW r \in Receipts, NEW op \in {"confirm", "drop"}, rei[r].status = "pending",
             Start(q, [pc |-> "read", op |-> op, d |-> r, seen |-> rei[r]])
      PROVE  Serial'
  <2>1. Holds(q)'
    BY <1>1, StartedReq DEF Holds
  <2> QED
    BY <1>1, <2>1, SerialStarts
<1>2. \A r \in Receipts :
          rei[r].status = "received" /\ rei[r].payment # "paid" => rei[r].paid < rei[r].due
  <2>1. \A r \in Receipts : rei[r].due \in Int /\ rei[r].paid \in Int
    BY DEF BuyTypes, Receipt
  <2> QED
    BY <2>1 DEF Serial, RowsRight, ReceiptRight
<1>3. ASSUME NEW r \in Receipts, rei[r].status = "received", rei[r].payment # "paid",
             Start(q, [pc |-> "read", op |-> "pay", d |-> r, seen |-> rei[r]])
      PROVE  Serial'
  <2>1. rei[r].due > rei[r].paid
    BY <1>2, <1>3 DEF BuyTypes, Receipt
  <2>2. Holds(q)'
    BY <1>3, <2>1, StartedReq DEF Holds
  <2> QED
    BY <1>3, <2>2, SerialStarts
<1>4. ASSUME NEW x \in Returns, ReadReturn(q, x) PROVE Serial'
  <2>1. Start(q, [pc |-> "read", op |-> "refund", d |-> x, seen |-> pvn[x]])
    BY <1>4 DEF ReadReturn
  <2>2. Holds(q)'
    BY <1>4, <2>1, StartedReq DEF Holds, ReadReturn
  <2> QED
    BY <2>1, <2>2, SerialStarts
<1>5. ASSUME NEW S \in SUBSET Receipts, ReadBatch(q, S) PROVE Serial'
  <2> DEFINE seen == [r \in S |-> rei[r]]
  <2>1. Start(q, [pc |-> "tx", op |-> "batch", d |-> S, seen |-> seen])
    BY <1>5 DEF ReadBatch
  <2>2. \A s \in S : /\ rei[s].status = "received" /\ seen[s] = rei[s]
                     /\ rei[s].paid < rei[s].due
    BY <1>2, <1>5 DEF ReadBatch
  <2> HIDE DEF seen
  <2>3. Holds(q)'
    BY <2>1, <2>2, StartedReq DEF Holds
  <2> QED
    BY <2>1, <2>3, SerialStarts
<1> QED
  BY <1>1, <1>3, <1>4, <1>5 DEF ReadReceipt

\* The transaction of a confirmation reads the orders it is about to credit.
LEMMA SerialBeginConfirm ==
    ASSUME PurchasingAssumption, FollowsFlow, BuyTypes, Serial, NEW q \in Reqs, BeginConfirm(q)
    PROVE  Serial'
<1> DEFINE r == req[q]
           k == [pc |-> "tx", op |-> "confirm", d |-> r.d, seen |-> r.seen, orders |-> po]
<1>1. /\ r.pc = "read" /\ r.op = "confirm"
      /\ \A p \in Used(r.seen.parts) :
            r.seen.parts[p] <= Remaining(po[p]) /\ po[p].status = "pending"
      /\ req' = [req EXCEPT ![q] = k]
      /\ UNCHANGED <<docs, books>>
  BY DEF BeginConfirm
<1>2. req'[q] = k /\ \A p \in Reqs \ {q} : req'[p] = req[p]
  BY <1>1 DEF BuyTypes
<1>3. rei[r.d].status = "pending"
  BY <1>1 DEF Serial, Holds, Active
<1>4. Holds(q)'
  <2>1. \A p \in Used(r.seen.parts) : p \in Orders
    BY DEF Used
  <2> QED
    BY <1>1, <1>2, <1>3, <2>1 DEF Holds, docs
<1>5. \A p \in Reqs \ {q} : HoldsBesideNew(p)
  BY <1>1, <1>2 DEF HoldsBesideNew, docs
<1>6. \A p \in Reqs : Holds(p)'
  BY <1>4, <1>5, HoldsStill DEF Serial
<1>7. Alone'
  <2>1. Active(q) /\ r.op # "pay"
    BY <1>1 DEF Active
  <2>2. \A p \in Reqs \ {q} : ~Active(p)
    BY <2>1 DEF Serial, Alone
  <2>3. \A p \in Reqs \ {q} : ~Active(p)'
    BY <1>2, <2>2 DEF Active
  <2> QED
    BY <2>3 DEF Alone
<1>8. RowsRight'
  BY <1>1 DEF Serial, RowsRight, docs
<1>9. BooksInv'
  BY <1>1, BooksRest DEF Serial
<1> QED
  BY <1>6, <1>7, <1>8, <1>9 DEF Serial

\* A request that fails changes no book.
LEMMA SerialFail ==
    ASSUME BuyTypes, Serial, NEW q \in Reqs, Fail(q)
    PROVE  Serial'
<1>1. Active(q) /\ UNCHANGED <<docs, books>> /\ Done(q)
  BY DEF Fail
<1>2. Alone' /\ \A p \in Reqs : Holds(p)'
  <2>1. CASE req[q].op # "pay"
    BY <1>1, <2>1, AloneEnds DEF Serial
  <2>2. CASE req[q].op = "pay"
    <3>1. \A r \in Receipts : rei'[r].status = rei[r].status
      BY <1>1 DEF docs
    <3> QED
      BY <1>1, <2>2, <3>1, PaymentEnds DEF Serial
  <2> QED
    BY <2>1, <2>2
<1>3. RowsRight'
  BY <1>1 DEF Serial, RowsRight, docs
<1>4. BooksInv'
  BY <1>1, BooksRest DEF Serial
<1> QED
  BY <1>2, <1>3, <1>4 DEF Serial

\* What ends alone leaves nothing under way: the rows and the books remain to be seen.
LEMMA SerialEnds ==
    ASSUME BuyTypes, Serial, NEW q \in Reqs, Active(q), req[q].op # "pay", Done(q),
           RowsRight', BooksInv'
    PROVE  Serial'
BY AloneEnds DEF Serial

\* A step that writes one order.
LEMMA SerialOneOrder ==
    ASSUME PurchasingAssumption, BuyTypes, BuyTypes', Serial, NEW q \in Reqs,
           Active(q), req[q].op # "pay", Done(q), UNCHANGED <<rei, pvn, balance>>,
           NEW p \in Orders, NEW o, po' = [po EXCEPT ![p] = o], OrderRight(o),
           o.received = po[p].received,
           level'["incoming"] = level["incoming"] + ExpectedBy(o) - ExpectedBy(po[p]),
           cash' = cash + DepositOf(o) - DepositOf(po[p])
    PROVE  Serial'
<1>1. po'[p] = o /\ \A s \in Orders \ {p} : po'[s] = po[s]
  BY DEF BuyTypes
<1>2. RowsRight'
  BY <1>1 DEF Serial, RowsRight
<1>3. /\ Expected' = Expected + ExpectedBy(po'[p]) - ExpectedBy(po[p])
      /\ Deposits' = Deposits + DepositOf(po'[p]) - DepositOf(po[p])
  BY <1>1, OrderChanges
<1>4. /\ ExpectedBy(o) \in Int /\ ExpectedBy(po[p]) \in Int
      /\ DepositOf(o) \in Int /\ DepositOf(po[p]) \in Int
  <2>1. po[p] \in Order /\ po'[p] \in Order
    BY DEF BuyTypes
  <2> QED
    BY <1>1, <2>1, RowNumbers
<1>5. level["incoming"] \in Int /\ OpeningLevel["incoming"] \in Int
  BY DEF BuyTypes, PurchasingAssumption, Level, Buckets
<1>6. level'["incoming"] = OpeningLevel["incoming"] + Expected'
  BY <1>1, <1>3, <1>4, <1>5, SumsTyped DEF Serial, BooksInv
<1>7. UNCHANGED <<Owed, PaidOut, Credits, Refunds>> /\ \A s \in Orders : Brought(s)' = Brought(s)
  BY RestingSums
<1>8. cash' = PaidOut' + Deposits' - Refunds'
  BY <1>1, <1>3, <1>4, <1>7, SumsTyped DEF Serial, BooksInv
<1>9. \A s \in Orders : po'[s].received = Brought(s)'
  BY <1>1, <1>7 DEF Serial, BooksInv
<1>10. BooksInv'
  BY <1>6, <1>7, <1>8, <1>9 DEF Serial, BooksInv
<1> QED
  BY <1>2, <1>10, SerialEnds

\* A draft that is written again is in no book.
LEMMA SerialUpdate ==
    ASSUME PurchasingAssumption, BuyTypes, BuyTypes', Serial, NEW q \in Reqs, Update(q)
    PROVE  Serial'
<1> DEFINE r == req[q]
           o == [po[r.d] EXCEPT !.qty = r.seen.qty, !.deposit = r.seen.deposit, !.received = 0]
<1>1. r.d \in Orders /\ r.seen \in Order /\ po[r.d] \in Order
  BY OrderReq DEF Update, At, BuyTypes
<1>2. po' = [po EXCEPT ![r.d] = o]
  BY UpdateRow
<1>3. Active(q) /\ r.op = "update" /\ Done(q) /\ UNCHANGED <<rei, pvn, balance, level, cash>>
  BY DEF Update, At, Active, books
<1>4. po[r.d].status = "draft" /\ r.seen.qty >= 1
  BY <1>3 DEF Serial, Holds
<1>5. po[r.d].received = 0
  BY <1>1, <1>4 DEF Serial, RowsRight, OrderRight
<1>6. o.status = "draft" /\ o.qty = r.seen.qty /\ o.received = 0
  BY <1>1, <1>4 DEF Order
<1> HIDE DEF o
<1>7. OrderRight(o)
  BY <1>4, <1>6 DEF OrderRight
<1>8. ExpectedBy(o) = 0 /\ ExpectedBy(po[r.d]) = 0 /\ DepositOf(o) = 0 /\ DepositOf(po[r.d]) = 0
  BY <1>4, <1>6 DEF ExpectedBy, DepositOf
<1>9. /\ level'["incoming"] = level["incoming"] + ExpectedBy(o) - ExpectedBy(po[r.d])
      /\ cash' = cash + DepositOf(o) - DepositOf(po[r.d])
  BY <1>3, <1>8 DEF BuyTypes, Level, Buckets
<1> QED
  BY <1>1, <1>2, <1>3, <1>5, <1>6, <1>7, <1>9, SerialOneOrder

\* A submitted order announces its goods and its deposit (submit).
LEMMA SerialSubmit ==
    ASSUME PurchasingAssumption, BuyTypes, BuyTypes', Serial, NEW q \in Reqs, Submit(q)
    PROVE  Serial'
<1> DEFINE r == req[q]
           o == [po[r.d] EXCEPT !.status = "pending"]
<1>1. r.d \in Orders /\ r.seen \in Order /\ po[r.d] \in Order
  BY OrderReq DEF Submit, At, BuyTypes
<1>2. po' = [po EXCEPT ![r.d] = o]
  BY <1>1 DEF Submit, BuyTypes
<1>3. Active(q) /\ r.op = "submit" /\ Done(q) /\ UNCHANGED <<rei, pvn, balance>>
  BY DEF Submit, At, Active
<1>4. po[r.d].status = "draft" /\ r.seen = po[r.d]
  BY <1>3 DEF Serial, Holds
<1>5. po[r.d].received = 0 /\ po[r.d].qty >= 1
  BY <1>1, <1>4 DEF Serial, RowsRight, OrderRight
<1>6. /\ o.status = "pending" /\ o.qty = po[r.d].qty /\ o.received = po[r.d].received
      /\ o.deposit = po[r.d].deposit
  BY <1>1 DEF Order
<1> HIDE DEF o
<1>7. po[r.d].qty \in Int /\ po[r.d].deposit \in Int
  BY <1>1 DEF Order
<1>8. OrderRight(o)
  BY <1>5, <1>6, <1>7 DEF OrderRight
<1>9. /\ ExpectedBy(o) = po[r.d].qty /\ ExpectedBy(po[r.d]) = 0
      /\ DepositOf(o) = po[r.d].deposit /\ DepositOf(po[r.d]) = 0
  BY <1>4, <1>5, <1>6, <1>7 DEF ExpectedBy, DepositOf, Remaining
<1>10. level'["incoming"] = level["incoming"] + po[r.d].qty
  <2>1. level' = AfterLine(level, PostLine(<<Entry("incoming", po[r.d].qty, "incoming_po")>>))
    BY <1>4 DEF Submit, Post
  <2> QED
    BY <1>7, <2>1, OneEntry DEF BuyTypes, Buckets, MovementTypes
<1>11. cash' = cash + po[r.d].deposit
  BY <1>4 DEF Submit
<1>12. /\ level'["incoming"] = level["incoming"] + ExpectedBy(o) - ExpectedBy(po[r.d])
       /\ cash' = cash + DepositOf(o) - DepositOf(po[r.d])
  BY <1>7, <1>9, <1>10, <1>11 DEF BuyTypes, Level, Buckets
<1> QED
  BY <1>1, <1>2, <1>3, <1>6, <1>8, <1>12, SerialOneOrder

\* A closed order takes back what it still announces (close).
LEMMA SerialClose ==
    ASSUME PurchasingAssumption, BuyTypes, BuyTypes', Serial, NEW q \in Reqs, Close(q)
    PROVE  Serial'
<1> DEFINE r == req[q]
           o == [po[r.d] EXCEPT !.status = "received"]
<1>1. r.d \in Orders /\ po[r.d] \in Order
  BY OrderReq DEF Close, At, BuyTypes
<1>2. po' = [po EXCEPT ![r.d] = o]
  BY <1>1 DEF Close, BuyTypes
<1>3. Active(q) /\ r.op = "close" /\ Done(q) /\ UNCHANGED <<rei, pvn, balance, cash>>
  BY DEF Close, At, Active
<1>4. po[r.d].status = "pending" /\ r.seen = po[r.d]
  BY <1>3 DEF Serial, Holds
<1>5. Remaining(po[r.d]) \in Int /\ Remaining(po[r.d]) > 0
  BY <1>1, <1>4 DEF Serial, RowsRight, OrderRight, Order, Remaining
<1>6. o.status = "received" /\ o.received = po[r.d].received /\ o.deposit = po[r.d].deposit
  BY <1>1 DEF Order
<1> HIDE DEF o
<1>7. OrderRight(o)
  BY <1>6 DEF OrderRight
<1>8. /\ ExpectedBy(o) = 0 /\ ExpectedBy(po[r.d]) = Remaining(po[r.d])
      /\ DepositOf(o) = DepositOf(po[r.d]) /\ DepositOf(po[r.d]) \in Int
  BY <1>1, <1>4, <1>6 DEF ExpectedBy, DepositOf, Order
<1>9. level'["incoming"] = level["incoming"] + (-Remaining(po[r.d]))
  <2>1. level' = AfterLine(level,
                     PostLine(<<Entry("incoming", -Remaining(po[r.d]), "incoming_cancel")>>))
    BY <1>4, <1>5 DEF Close, Post
  <2>2. -Remaining(po[r.d]) \in Int
    BY <1>5
  <2> QED
    BY <2>1, <2>2, OneEntry DEF BuyTypes, Buckets, MovementTypes
<1>10. level["incoming"] \in Int /\ cash \in Int
  BY DEF BuyTypes, Level, Buckets
<1>11. /\ level'["incoming"] = level["incoming"] + ExpectedBy(o) - ExpectedBy(po[r.d])
       /\ cash' = cash + DepositOf(o) - DepositOf(po[r.d])
  BY <1>3, <1>5, <1>8, <1>9, <1>10
<1> QED
  BY <1>1, <1>2, <1>3, <1>6, <1>7, <1>11, SerialOneOrder

\* A discarded order was a draft (remove).
LEMMA SerialDiscard ==
    ASSUME PurchasingAssumption, BuyTypes, BuyTypes', Serial, NEW q \in Reqs, Discard(q)
    PROVE  Serial'
<1> DEFINE r == req[q]
           o == [po[r.d] EXCEPT !.status = "deleted"]
<1>1. r.d \in Orders /\ po[r.d] \in Order
  BY OrderReq DEF Discard, At, BuyTypes
<1>2. po' = [po EXCEPT ![r.d] = o]
  BY <1>1 DEF Discard, BuyTypes
<1>3. Active(q) /\ r.op = "discard" /\ Done(q) /\ UNCHANGED <<rei, pvn, balance, level, cash>>
  BY DEF Discard, At, Active, books
<1>4. po[r.d].status = "draft"
  BY <1>3 DEF Serial, Holds
<1>5. o.status = "deleted" /\ o.received = po[r.d].received
  BY <1>1 DEF Order
<1> HIDE DEF o
<1>6. OrderRight(o)
  BY <1>5 DEF OrderRight
<1>7. ExpectedBy(o) = 0 /\ ExpectedBy(po[r.d]) = 0 /\ DepositOf(o) = 0 /\ DepositOf(po[r.d]) = 0
  BY <1>4, <1>5 DEF ExpectedBy, DepositOf
<1>8. /\ level'["incoming"] = level["incoming"] + ExpectedBy(o) - ExpectedBy(po[r.d])
      /\ cash' = cash + DepositOf(o) - DepositOf(po[r.d])
  BY <1>3, <1>7 DEF BuyTypes, Level, Buckets
<1> QED
  BY <1>1, <1>2, <1>3, <1>5, <1>6, <1>8, SerialOneOrder

\* A dropped receipt was a draft.
LEMMA SerialDrop ==
    ASSUME PurchasingAssumption, BuyTypes, BuyTypes', Serial, NEW q \in Reqs, Drop(q)
    PROVE  Serial'
<1> DEFINE d == req[q].d
<1>1. d \in Receipts /\ rei[d] \in Receipt
  BY ReceiptReq DEF Drop, At, BuyTypes
<1>2. /\ Active(q) /\ req[q].op = "drop" /\ Done(q)
      /\ UNCHANGED <<po, pvn, active, level, balance, cash>>
  BY DEF Drop, At, Active, books
<1>3. rei[d].status = "pending"
  BY <1>2 DEF Serial, Holds
<1>4. rei'[d].status = "deleted" /\ \A s \in Receipts \ {d} : rei'[s] = rei[s]
  BY <1>1 DEF Drop, BuyTypes, Receipt
<1>5. RowsRight'
  BY <1>2, <1>4 DEF Serial, RowsRight, ReceiptRight
<1>6. /\ OwedFor(rei'[d]) = 0 /\ OwedFor(rei[d]) = 0
      /\ PaidFor(rei'[d]) = 0 /\ PaidFor(rei[d]) = 0
      /\ \A p \in Orders : BroughtBy(rei'[d], p) = 0 /\ BroughtBy(rei[d], p) = 0
  BY <1>3, <1>4 DEF OwedFor, PaidFor, BroughtBy
<1>7. /\ Owed' = Owed + OwedFor(rei'[d]) - OwedFor(rei[d])
      /\ PaidOut' = PaidOut + PaidFor(rei'[d]) - PaidFor(rei[d])
      /\ \A p \in Orders :
            Brought(p)' = Brought(p) + BroughtBy(rei'[d], p) - BroughtBy(rei[d], p)
  BY <1>1, <1>4, ReceiptChanges
<1>8. Owed' = Owed /\ PaidOut' = PaidOut /\ \A p \in Orders : Brought(p)' = Brought(p)
  BY <1>6, <1>7, SumsTyped
<1>9. BooksInv'
  BY <1>2, <1>8, RestingSums DEF Serial, BooksInv
<1> QED
  BY <1>2, <1>5, <1>9, SerialEnds

\* A confirmed refund is paid once.
LEMMA SerialRefund ==
    ASSUME PurchasingAssumption, BuyTypes, BuyTypes', Serial, NEW q \in Reqs, ConfirmRefund(q)
    PROVE  Serial'
<1> DEFINE x == req[q].d
           n == pvn[x].qty
<1>1. Active(q) /\ req[q].op = "refund" /\ Done(q) /\ UNCHANGED <<po, rei, active, level>>
  BY DEF ConfirmRefund, At, Active
<1>2. x \in Returns /\ pvn[x] \in ReturnOut
  BY <1>1, RequestKinds DEF ReturnReqs, BuyTypes
<1>3. pvn[x].status = "no_refund" /\ req[q].seen = pvn[x]
  BY <1>1 DEF Serial, Holds
<1>4. balance' = balance - n /\ cash' = cash - n /\ n \in Int
  BY <1>2, <1>3 DEF ConfirmRefund, ReturnOut
<1>5. /\ pvn'[x].status = "refunded" /\ pvn'[x].qty = n
      /\ \A s \in Returns \ {x} : pvn'[s] = pvn[s]
  BY <1>2 DEF ConfirmRefund, BuyTypes, ReturnOut
<1>6. RowsRight'
  BY <1>1 DEF Serial, RowsRight
<1>7. /\ CreditOf(pvn'[x]) = 0 /\ CreditOf(pvn[x]) = n
      /\ RefundOf(pvn'[x]) = n /\ RefundOf(pvn[x]) = 0
  BY <1>3, <1>5 DEF CreditOf, RefundOf
<1>8. /\ Credits' = Credits + CreditOf(pvn'[x]) - CreditOf(pvn[x])
      /\ Refunds' = Refunds + RefundOf(pvn'[x]) - RefundOf(pvn[x])
  BY <1>2, <1>5, ReturnChanges
<1> HIDE DEF n
<1>9. Credits' = Credits - n /\ Refunds' = Refunds + n
  BY <1>4, <1>7, <1>8, SumsTyped
<1>10. /\ UNCHANGED <<Expected, Deposits, Owed, PaidOut>>
       /\ \A p \in Orders : Brought(p)' = Brought(p)
  BY <1>1, RestingSums
<1>11. balance' = Credits' - Owed' /\ cash' = PaidOut' + Deposits' - Refunds'
  BY <1>4, <1>9, <1>10, SumsTyped DEF Serial, BooksInv
<1>12. BooksInv'
  BY <1>1, <1>10, <1>11 DEF Serial, BooksInv
<1> QED
  BY <1>1, <1>6, <1>12, SerialEnds

\* A payment reaches the receipt, its voucher and the balance together.
LEMMA SerialPay ==
    ASSUME PurchasingAssumption, BuyTypes, BuyTypes', PaidInv, Serial, NEW q \in Reqs, Pay(q)
    PROVE  Serial'
<1> DEFINE d == req[q].d
           x == rei[d]
<1>1. d \in Receipts /\ x \in Receipt /\ RightPaid(x) /\ ReceiptRight(x)
  BY PayRow DEF PaidInv, Serial, RowsRight
<1>2. PICK a \in Nat \ {0} :
         /\ a <= x.due - x.paid
         /\ rei' = [rei EXCEPT ![d] = [x EXCEPT !.paid = x.paid + a,
                        !.payment = IF x.paid + a >= x.due THEN "paid" ELSE "partially_paid"]]
         /\ cash' = cash + a /\ balance' = balance + a
  BY PayRow
<1> DEFINE y == [x EXCEPT !.paid = x.paid + a,
                          !.payment = IF x.paid + a >= x.due THEN "paid" ELSE "partially_paid"]
<1>3. /\ y.status = x.status /\ y.parts = x.parts /\ y.due = x.due /\ y.paid = x.paid + a
      /\ y.deposit = x.deposit
      /\ y.payment = IF x.paid + a >= x.due THEN "paid" ELSE "partially_paid"
  BY <1>1 DEF Receipt
<1>4. rei'[d] = y /\ \A s \in Receipts \ {d} : rei'[s] = rei[s]
  BY <1>1, <1>2 DEF BuyTypes
<1>5. Active(q) /\ req[q].op = "pay" /\ Done(q) /\ UNCHANGED <<po, pvn, active, level>>
  BY DEF Pay, At, Active
<1>6. x.status = "received"
  BY <1>5 DEF Serial, Holds
<1> HIDE DEF y
<1>7. x.due \in Int /\ x.paid \in Int /\ x.deposit \in Int
  BY <1>1 DEF Receipt
<1> HIDE DEF x
<1>8. x.due >= 0 /\ x.paid >= 0
  BY <1>1, <1>2, <1>6, <1>7 DEF ReceiptRight
<1>9. ReceiptRight(y)
  BY <1>2, <1>3, <1>6, <1>7, <1>8 DEF ReceiptRight
<1>10. RowsRight'
  BY <1>4, <1>5, <1>9 DEF Serial, RowsRight
<1>11. Alone' /\ \A p \in Reqs : Holds(p)'
  <2>1. \A r \in Receipts : rei'[r].status = rei[r].status
    BY <1>3, <1>4 DEF x
  <2> QED
    BY <1>5, <2>1, PaymentEnds DEF Serial
<1>12. /\ OwedFor(y) = OwedFor(x) - a /\ OwedFor(x) \in Int
       /\ PaidFor(y) = PaidFor(x) + a /\ PaidFor(x) \in Int
  BY <1>2, <1>3, <1>6, <1>7, <1>8 DEF OwedFor, PaidFor, Most
<1>13. \A p \in Orders : BroughtBy(y, p) = BroughtBy(x, p) /\ BroughtBy(x, p) \in Int
  BY <1>1, <1>3, RowNumbers DEF BroughtBy
<1>14. /\ Owed' = Owed + OwedFor(y) - OwedFor(x)
       /\ PaidOut' = PaidOut + PaidFor(y) - PaidFor(x)
       /\ \A p \in Orders : Brought(p)' = Brought(p) + BroughtBy(y, p) - BroughtBy(x, p)
  BY <1>1, <1>4, ReceiptChanges DEF x
<1>15. Owed' = Owed - a /\ PaidOut' = PaidOut + a
  BY <1>12, <1>14, SumsTyped
<1>16. \A p \in Orders : Brought(p)' = Brought(p)
  BY <1>13, <1>14, SumsTyped
<1>17. UNCHANGED <<Expected, Deposits, Credits, Refunds>>
  BY <1>5, RestingSums
<1>18. balance' = Credits' - Owed' /\ cash' = PaidOut' + Deposits' - Refunds'
  BY <1>2, <1>15, <1>17, SumsTyped DEF Serial, BooksInv
<1>19. BooksInv'
  BY <1>5, <1>16, <1>17, <1>18 DEF Serial, BooksInv
<1> QED
  BY <1>10, <1>11, <1>19 DEF Serial

\* Nobody pays nothing, where receipts are handled one at a time.
LEMMA SerialPayNothing ==
    ASSUME BuyTypes, Serial, NEW q \in Reqs, PayNothing(q)
    PROVE  FALSE
<1>1. Active(q) /\ req[q].op = "pay" /\ req[q].seen \in Receipt
  BY ReceiptReq DEF PayNothing, At, Active
<1>2. req[q].seen.due > req[q].seen.paid
  BY <1>1 DEF Serial, Holds
<1>3. req[q].seen.due <= req[q].seen.paid
  BY DEF PayNothing
<1> QED
  BY <1>1, <1>2, <1>3 DEF Receipt

\* A batch of payments reaches each receipt, its voucher and the balance together.
LEMMA SerialBatch ==
    ASSUME PurchasingAssumption, BuyTypes, BuyTypes', PaidInv, Serial, NEW q \in Reqs,
           PayBatch(q)
    PROVE  Serial'
<1> DEFINE r == req[q]
           f == [s \in r.d |-> r.seen[s].due - r.seen[s].paid]
           total == SumFunction(f)
           h == [s \in Receipts |-> IF s \in r.d THEN rei[s].due - rei[s].paid ELSE 0]
<1>1. /\ r.d \in SUBSET Receipts
      /\ Active(q) /\ r.op = "batch"
      /\ rei' = [s \in Receipts |->
                     IF s \in r.d THEN [rei[s] EXCEPT !.paid = r.seen[s].due,
                                                      !.payment = "paid"]
                     ELSE rei[s]]
  BY BatchRows
<1>2. total \in Int /\ cash' = cash + total /\ balance' = balance + total
  BY BatchRows
<1>3. Done(q) /\ UNCHANGED <<po, pvn, active, level>>
  BY DEF PayBatch
<1>4. \A s \in r.d : /\ rei[s].status = "received" /\ r.seen[s] = rei[s]
                     /\ rei[s].paid < rei[s].due
  BY <1>1 DEF Serial, Holds
<1>5. \A s \in Receipts : rei[s] \in Receipt /\ rei[s].due \in Int /\ rei[s].paid \in Int
                              /\ ReceiptRight(rei[s])
  BY DEF BuyTypes, Receipt, Serial, RowsRight
<1>6. ASSUME NEW s \in r.d
      PROVE  /\ rei'[s].status = "received" /\ rei'[s].payment = "paid"
             /\ rei'[s].due = rei[s].due /\ rei'[s].paid = rei[s].due
             /\ rei'[s].parts = rei[s].parts /\ rei'[s].deposit = rei[s].deposit
             /\ rei[s].due >= 0 /\ rei[s].paid >= 0
  <2>1. s \in Receipts
    BY <1>1
  <2>2. rei[s].status = "received" /\ r.seen[s] = rei[s] /\ rei[s].paid < rei[s].due
    BY <1>4
  <2>3. rei'[s] = [rei[s] EXCEPT !.paid = rei[s].due, !.payment = "paid"]
    BY <1>1, <2>1, <2>2
  <2>4. rei[s].due >= 0 /\ rei[s].paid >= 0
    BY <1>5, <2>1, <2>2 DEF ReceiptRight
  <2> QED
    BY <1>5, <2>1, <2>2, <2>3, <2>4 DEF Receipt
<1>7. \A s \in Receipts : s \notin r.d => rei'[s] = rei[s]
  BY <1>1
<1>8. IsFiniteSet(Receipts) /\ IsFiniteSet(r.d)
  BY <1>1, FS_Subset DEF PurchasingAssumption
<1>9. total = SumFunctionOnSet(h, Receipts)
  <2>1. \A s \in r.d : f[s] = h[s]
    BY <1>1, <1>4
  <2>2. \A s \in Receipts \ r.d : h[s] = 0
    OBVIOUS
  <2>3. \A s \in Receipts : h[s] \in Int
    BY <1>5
  <2>4. DOMAIN f = r.d
    OBVIOUS
  <2>5. r.d \in SUBSET Receipts
    BY <1>1
  <2> HIDE DEF f, h
  <2>6. SumFunctionOnSet(f, r.d) = SumFunctionOnSet(h, Receipts)
    BY <1>8, <2>1, <2>2, <2>3, <2>5, SumWhere
  <2> QED
    BY <2>4, <2>6, SumOver
<1>10. RowsRight'
  <2>1. ASSUME NEW s \in Receipts PROVE ReceiptRight(rei'[s])
    <3>1. CASE s \in r.d
      BY <1>5, <1>6, <3>1 DEF ReceiptRight
    <3>2. CASE s \notin r.d
      BY <1>5, <1>7, <3>2
    <3> QED
      BY <3>1, <3>2
  <2> QED
    BY <1>3, <2>1 DEF Serial, RowsRight
<1>11. Owed' = Owed - total
  <2> DEFINE a == [s \in Receipts |-> OwedFor(rei[s])]
             b == [s \in Receipts |-> OwedFor(rei'[s])]
  <2>1. ASSUME NEW s \in Receipts
        PROVE  b[s] \in Int /\ h[s] \in Int /\ a[s] = b[s] + h[s]
    <3>1. OwedFor(rei[s]) \in Int
      BY <1>5, RowNumbers
    <3>2. CASE s \in r.d
      <4>1. OwedFor(rei[s]) = rei[s].due - rei[s].paid /\ OwedFor(rei'[s]) = 0
        BY <1>4, <1>5, <1>6, <3>2 DEF OwedFor, Most
      <4> QED
        BY <1>5, <3>2, <4>1
    <3>3. CASE s \notin r.d
      BY <1>7, <3>1, <3>3
    <3> QED
      BY <3>2, <3>3
  <2>2. DOMAIN a = Receipts /\ DOMAIN b = Receipts /\ Owed = SumFunction(a)
             /\ Owed' = SumFunction(b)
    BY DEF Owed
  <2> HIDE DEF a, b, h
  <2>3. SumFunctionOnSet(a, Receipts)
            = SumFunctionOnSet(b, Receipts) + SumFunctionOnSet(h, Receipts)
    BY <1>8, <2>1, SumPlus
  <2>4. SumFunctionOnSet(b, Receipts) \in Int /\ SumFunctionOnSet(h, Receipts) \in Int
    BY <1>8, <2>1, SumType
  <2> QED
    BY <1>9, <2>2, <2>3, <2>4, SumOver
<1>12. PaidOut' = PaidOut + total
  <2> DEFINE a == [s \in Receipts |-> PaidFor(rei[s])]
             b == [s \in Receipts |-> PaidFor(rei'[s])]
  <2>1. ASSUME NEW s \in Receipts
        PROVE  a[s] \in Int /\ h[s] \in Int /\ b[s] = a[s] + h[s]
    <3>1. PaidFor(rei[s]) \in Int /\ rei[s].deposit \in Int
      BY <1>5, RowNumbers DEF Receipt
    <3>2. CASE s \in r.d
      <4>1. /\ PaidFor(rei[s]) = rei[s].paid - rei[s].deposit
            /\ PaidFor(rei'[s]) = rei[s].due - rei[s].deposit
        BY <1>4, <1>6, <3>2 DEF PaidFor
      <4> QED
        BY <1>5, <3>1, <3>2, <4>1
    <3>3. CASE s \notin r.d
      BY <1>7, <3>1, <3>3
    <3> QED
      BY <3>2, <3>3
  <2>2. DOMAIN a = Receipts /\ DOMAIN b = Receipts /\ PaidOut = SumFunction(a)
             /\ PaidOut' = SumFunction(b)
    BY DEF PaidOut
  <2> HIDE DEF a, b, h
  <2>3. SumFunctionOnSet(b, Receipts)
            = SumFunctionOnSet(a, Receipts) + SumFunctionOnSet(h, Receipts)
    BY <1>8, <2>1, SumPlus
  <2> QED
    BY <1>9, <2>2, <2>3, SumOver
<1>13. \A p \in Orders : Brought(p)' = Brought(p)
  <2> TAKE p \in Orders
  <2>1. \A s \in Receipts : BroughtBy(rei'[s], p) = BroughtBy(rei[s], p)
    <3> TAKE s \in Receipts
    <3>1. CASE s \in r.d
      BY <1>4, <1>6, <3>1 DEF BroughtBy
    <3>2. CASE s \notin r.d
      BY <1>7, <3>2
    <3> QED
      BY <3>1, <3>2
  <2>2. [s \in Receipts |-> BroughtBy(rei'[s], p)] = [s \in Receipts |-> BroughtBy(rei[s], p)]
    BY <2>1
  <2> QED
    BY <2>2 DEF Brought
<1>14. UNCHANGED <<Expected, Deposits, Credits, Refunds>>
  BY <1>3, RestingSums
<1> HIDE DEF total
<1>15. balance' = Credits' - Owed' /\ cash' = PaidOut' + Deposits' - Refunds'
  <2>1. balance = Credits - Owed /\ cash = PaidOut + Deposits - Refunds
    BY DEF Serial, BooksInv
  <2>2. /\ Owed \in Int /\ PaidOut \in Int /\ Credits \in Int /\ Deposits \in Int
        /\ Refunds \in Int
    BY SumsTyped
  <2> QED
    BY <1>2, <1>11, <1>12, <1>14, <2>1, <2>2
<1>16. BooksInv'
  BY <1>3, <1>13, <1>14, <1>15 DEF Serial, BooksInv
<1>17. r.op # "pay"
  BY <1>1
<1> QED
  BY <1>1, <1>3, <1>10, <1>16, <1>17, SerialEnds

\* The orders of a receipt that comes in expect that much less.
LEMMA ConfirmOrders ==
    ASSUME PurchasingAssumption, BuyTypes, Serial, NEW q \in Reqs, Confirm(q), NEW p \in Orders
    PROVE  LET n == req[q].seen.parts[p]
           IN  /\ n \in Nat
               /\ po'[p].received = po[p].received + n
               /\ ExpectedBy(po[p]) = ExpectedBy(po'[p]) + n
               /\ ExpectedBy(po'[p]) \in Int
               /\ DepositOf(po'[p]) = DepositOf(po[p])
               /\ OrderRight(po'[p])
<1> DEFINE r == req[q]
           n == r.seen.parts[p]
           o == po[p]
<1>1. o \in Order /\ OrderRight(o) /\ n \in Nat
  BY ConfirmReq DEF BuyTypes, Serial, RowsRight, Confirm, Receipt
<1>2. po'[p] = IF n = 0 THEN o ELSE Completed([o EXCEPT !.received = r.orders[p].received + n])
  BY ConfirmRow
<1>3. Active(q) /\ r.op = "confirm" /\ r.pc = "tx"
  BY DEF Confirm, At, Active
<1>4. CASE n = 0
  BY <1>1, <1>2, <1>4 DEF ExpectedBy, Remaining, Order
<1>5. CASE n # 0
  <2>1. p \in Used(r.seen.parts)
    BY <1>1, <1>5 DEF Used
  <2>2. o.status = "pending" /\ r.orders[p] = o /\ n <= Remaining(o)
    BY <1>3, <2>1 DEF Serial, Holds
  <2> DEFINE k == [o EXCEPT !.received = o.received + n]
  <2>3. /\ k.status = "pending" /\ k.qty = o.qty /\ k.received = o.received + n
        /\ k.deposit = o.deposit
    BY <1>1, <2>2 DEF Order
  <2>4. po'[p] = Completed(k)
    BY <1>2, <1>5, <2>2
  <2>5. k \in Order
    BY <1>1 DEF Order
  <2>6. o.qty \in Nat /\ o.received \in Nat
    BY <1>1 DEF Order
  <2> HIDE DEF k
  <2>7. CASE k.received >= k.qty
    <3>1. po'[p] = [k EXCEPT !.status = "received"]
      BY <2>3, <2>4, <2>7 DEF Completed
    <3>2. /\ po'[p].status = "received" /\ po'[p].received = k.received
          /\ po'[p].deposit = k.deposit
      BY <2>5, <3>1 DEF Order
    <3> HIDE DEF o, n
    <3>3. ExpectedBy(po'[p]) = 0 /\ ExpectedBy(o) = n
      BY <1>1, <2>2, <2>3, <2>6, <2>7, <3>2 DEF ExpectedBy, Remaining
    <3> QED
      BY <1>1, <2>2, <2>3, <3>2, <3>3 DEF DepositOf, OrderRight, o, n
  <2>8. CASE ~(k.received >= k.qty)
    <3>1. po'[p] = k
      BY <2>4, <2>8 DEF Completed
    <3> HIDE DEF o, n
    <3>2. ExpectedBy(k) \in Int /\ ExpectedBy(o) = ExpectedBy(k) + n
      BY <1>1, <2>2, <2>3, <2>6 DEF ExpectedBy, Remaining
    <3>3. OrderRight(k)
      BY <1>1, <2>3, <2>6, <2>8 DEF OrderRight
    <3> QED
      BY <1>1, <2>2, <2>3, <3>1, <3>2, <3>3 DEF DepositOf, o, n
  <2> QED
    BY <2>7, <2>8
<1> QED
  BY <1>4, <1>5

\* A confirmation takes out of incoming what it brings, and books what it costs.
LEMMA SerialConfirm ==
    ASSUME PurchasingAssumption, BuyTypes, BuyTypes', PaidInv, Serial, NEW q \in Reqs,
           Confirm(q)
    PROVE  Serial'
<1> DEFINE r == req[q]
           x == rei[r.d]
           due == Cost(r.seen)
           applied == DepositApplied(r.d, r.seen, due)
           y == [x EXCEPT !.status = "received", !.due = due, !.deposit = applied,
                          !.paid = applied, !.payment = PaymentOf(applied, due)]
           parts == r.seen.parts
           total == SumFunction(parts)
<1>1. /\ r.d \in Receipts /\ r.seen \in Receipt
      /\ due \in Int /\ applied \in Int
      /\ total \in Nat
      /\ rei' = [rei EXCEPT ![r.d] = y]
      /\ balance' = balance - due + Most(applied, 0)
      /\ level'["incoming"] = level["incoming"] - total
  BY ConfirmRow
<1>2. Active(q) /\ r.op = "confirm" /\ r.pc = "tx" /\ Done(q) /\ UNCHANGED <<pvn, cash>>
  BY DEF Confirm, At, Active
<1>3. x \in Receipt /\ x.status = "pending" /\ parts = x.parts
  BY <1>1, <1>2 DEF BuyTypes, Serial, Holds, PaidInv, KnowsCost
<1>4. /\ due >= 0 => applied \in 0..due
      /\ due < 0 => applied >= due
  BY <1>1, AppliedType
<1>5. parts \in [Orders -> Nat]
  BY <1>1 DEF Receipt
<1> HIDE DEF due, applied, parts
<1>6. /\ y.status = "received" /\ y.parts = x.parts /\ y.due = due /\ y.deposit = applied
      /\ y.paid = applied /\ y.payment = PaymentOf(applied, due)
  BY <1>3 DEF Receipt
<1>7. rei'[r.d] = y /\ \A s \in Receipts \ {r.d} : rei'[s] = rei[s]
  BY <1>1 DEF BuyTypes
<1> HIDE DEF y
<1>8. ReceiptRight(y)
  BY <1>1, <1>4, <1>6 DEF ReceiptRight, PaymentOf
<1>9. \A p \in Orders :
          /\ parts[p] \in Nat
          /\ po'[p].received = po[p].received + parts[p]
          /\ ExpectedBy(po[p]) = ExpectedBy(po'[p]) + parts[p]
          /\ ExpectedBy(po'[p]) \in Int
          /\ DepositOf(po'[p]) = DepositOf(po[p])
          /\ OrderRight(po'[p])
  BY ConfirmOrders DEF parts
<1>10. RowsRight'
  <2>1. \A s \in Receipts : ReceiptRight(rei'[s])
    BY <1>7, <1>8 DEF Serial, RowsRight
  <2> QED
    BY <1>9, <2>1 DEF RowsRight
<1>11. Expected' = Expected - total
  <2> DEFINE f == [p \in Orders |-> ExpectedBy(po'[p])]
             h == [p \in Orders |-> ExpectedBy(po[p])]
  <2>1. \A p \in Orders : f[p] \in Int /\ parts[p] \in Int /\ h[p] = f[p] + parts[p]
    BY <1>9
  <2>2. /\ DOMAIN f = Orders /\ DOMAIN h = Orders /\ DOMAIN parts = Orders
        /\ Expected = SumFunction(h) /\ Expected' = SumFunction(f)
    BY <1>5 DEF Expected
  <2>3. IsFiniteSet(Orders)
    BY DEF PurchasingAssumption
  <2> HIDE DEF f, h
  <2>4. SumFunctionOnSet(h, Orders) = SumFunctionOnSet(f, Orders) + SumFunctionOnSet(parts, Orders)
    BY <2>1, <2>3, SumPlus
  <2>5. SumFunctionOnSet(f, Orders) \in Int
    BY <2>1, <2>3, SumType
  <2>6. SumFunctionOnSet(parts, Orders) = total
    BY <2>2, SumOver
  <2> HIDE DEF total
  <2> QED
    BY <1>1, <2>2, <2>4, <2>5, <2>6, SumOver
<1>12. Deposits' = Deposits
  <2>1. [p \in Orders |-> DepositOf(po'[p])] = [p \in Orders |-> DepositOf(po[p])]
    BY <1>9
  <2> QED
    BY <2>1 DEF Deposits
<1>13. /\ OwedFor(x) = 0 /\ OwedFor(y) = due - Most(applied, 0)
       /\ PaidFor(x) = 0 /\ PaidFor(y) = 0
       /\ \A p \in Orders : BroughtBy(x, p) = 0 /\ BroughtBy(y, p) = parts[p]
  BY <1>1, <1>3, <1>6 DEF OwedFor, PaidFor, BroughtBy
<1>14. /\ Owed' = Owed + OwedFor(y) - OwedFor(x)
       /\ PaidOut' = PaidOut + PaidFor(y) - PaidFor(x)
       /\ \A p \in Orders : Brought(p)' = Brought(p) + BroughtBy(y, p) - BroughtBy(x, p)
  BY <1>1, <1>7, ReceiptChanges
<1> HIDE DEF x, total
<1>15. Owed' = Owed + (due - Most(applied, 0)) /\ PaidOut' = PaidOut
  BY <1>1, <1>13, <1>14, SumsTyped DEF Most
<1>16. \A p \in Orders : Brought(p)' = Brought(p) + parts[p]
  BY <1>9, <1>13, <1>14, SumsTyped
<1>17. Credits' = Credits /\ Refunds' = Refunds
  BY <1>2, RestingSums
<1>18. balance' = Credits' - Owed'
  <2>1. balance = Credits - Owed /\ Credits \in Int /\ Owed \in Int /\ Most(applied, 0) \in Int
    BY <1>1, SumsTyped DEF Serial, BooksInv, Most
  <2> QED
    BY <1>1, <1>15, <1>17, <2>1
<1>19. cash' = PaidOut' + Deposits' - Refunds'
  BY <1>2, <1>12, <1>15, <1>17 DEF Serial, BooksInv
<1>20. level'["incoming"] = OpeningLevel["incoming"] + Expected'
  <2>1. level["incoming"] = OpeningLevel["incoming"] + Expected
    BY DEF Serial, BooksInv
  <2>2. OpeningLevel["incoming"] \in Int /\ Expected \in Int
    BY SumsTyped DEF PurchasingAssumption, Level, Buckets
  <2> QED
    BY <1>1, <1>11, <2>1, <2>2
<1>21. \A p \in Orders : po'[p].received = Brought(p)'
  BY <1>9, <1>16 DEF Serial, BooksInv
<1>22. BooksInv'
  BY <1>18, <1>19, <1>20, <1>21 DEF BooksInv
<1>23. r.op # "pay"
  BY <1>2
<1> QED
  BY <1>2, <1>10, <1>22, <1>23, SerialEnds

\* Every step keeps the books in agreement, as long as receipts do not overlap.
LEMMA SerialStep ==
    ASSUME PurchasingAssumption, FollowsFlow, BuyTypes, BuyTypes', PaidInv, Serial,
           overlap # "receipts", [Next]_vars
    PROVE  Serial'
<1>1. CASE UNCHANGED vars
  <2>1. UNCHANGED <<docs, books, req>>
    BY <1>1 DEF vars
  <2>2. \A q \in Reqs : HoldsBesideNew(q)
    BY <2>1 DEF HoldsBesideNew, docs
  <2>3. \A q \in Reqs : Holds(q)'
    BY <2>2, HoldsStill DEF Serial
  <2>4. Alone' /\ RowsRight'
    BY <2>1 DEF Serial, Alone, Active, RowsRight, docs
  <2>5. BooksInv'
    BY <2>1, BooksRest DEF Serial
  <2> QED
    BY <2>3, <2>4, <2>5 DEF Serial
<1>2. ASSUME NEW p \in Orders, DraftOrder(p) PROVE Serial'
  BY <1>2, SerialDraftOrder
<1>3. ASSUME NEW r \in Receipts, DraftReceipt(r) PROVE Serial'
  BY <1>3, SerialDraftReceipt
<1>4. ASSUME NEW x \in Returns, ReturnGoods(x) PROVE Serial'
  BY <1>4, SerialReturn
<1>5. CASE Deactivate \/ SetActive
  <2>1. UNCHANGED <<po, rei, pvn, books, req>>
    BY <1>5 DEF Deactivate, SetActive
  <2>2. \A q \in Reqs : HoldsBesideNew(q)
    BY <2>1 DEF HoldsBesideNew
  <2>3. \A q \in Reqs : Holds(q)'
    BY <2>2, HoldsStill DEF Serial
  <2>4. Alone' /\ RowsRight'
    BY <2>1 DEF Serial, Alone, Active, RowsRight
  <2>5. BooksInv'
    BY <2>1, RestingSums DEF Serial, BooksInv, books
  <2> QED
    BY <2>3, <2>4, <2>5 DEF Serial
<1>6. ASSUME NEW q \in Reqs,
             \/ \E p \in Orders : ReadOrder(q, p)
             \/ \E r \in Receipts : ReadReceipt(q, r)
             \/ \E x \in Returns : ReadReturn(q, x)
             \/ \E S \in SUBSET Receipts : ReadBatch(q, S)
             \/ BeginConfirm(q)
      PROVE  Serial'
  BY <1>6, SerialReadOrder, SerialReadReceipt, SerialBeginConfirm
<1>7. ASSUME NEW q \in Reqs,
             \/ Update(q) \/ Submit(q) \/ Close(q) \/ Discard(q)
             \/ Confirm(q) \/ Drop(q) \/ PayNothing(q) \/ Pay(q) \/ PayBatch(q)
             \/ ConfirmRefund(q) \/ Fail(q)
      PROVE  Serial'
  BY <1>7, SerialUpdate, SerialSubmit, SerialClose, SerialDiscard, SerialConfirm, SerialDrop,
     SerialPayNothing, SerialPay, SerialBatch, SerialRefund, SerialFail
<1> QED
  BY <1>1, <1>2, <1>3, <1>4, <1>5, <1>6, <1>7 DEF Next

\* A behaviour's kind of overlap does not change.
LEMMA OverlapStays == [Next]_vars => UNCHANGED overlap
<1>1. UNCHANGED vars => UNCHANGED overlap
  BY DEF vars
<1>2. \A q, r : Start(q, r) => UNCHANGED overlap
  BY DEF Start
<1>3. \A q : Done(q) => UNCHANGED overlap
  BY DEF Done
<1>4. /\ \A p : DraftOrder(p) => UNCHANGED overlap
      /\ \A r : DraftReceipt(r) => UNCHANGED overlap
      /\ \A x : ReturnGoods(x) => UNCHANGED overlap
      /\ Deactivate \/ SetActive => UNCHANGED overlap
      /\ \A q : BeginConfirm(q) => UNCHANGED overlap
  BY DEF DraftOrder, DraftReceipt, ReturnGoods, Deactivate, SetActive, BeginConfirm
<1>5. /\ \A q, p : ReadOrder(q, p) => UNCHANGED overlap
      /\ \A q, r : ReadReceipt(q, r) => UNCHANGED overlap
      /\ \A q, x : ReadReturn(q, x) => UNCHANGED overlap
      /\ \A q, S : ReadBatch(q, S) => UNCHANGED overlap
  BY <1>2 DEF ReadOrder, ReadReceipt, ReadReturn, ReadBatch
<1>6. /\ \A q : Update(q) \/ Submit(q) \/ Close(q) \/ Discard(q) => UNCHANGED overlap
      /\ \A q : Confirm(q) \/ Drop(q) \/ PayNothing(q) \/ Pay(q) => UNCHANGED overlap
      /\ \A q : PayBatch(q) \/ ConfirmRefund(q) \/ Fail(q) => UNCHANGED overlap
  BY <1>3 DEF Update, Submit, Close, Discard, Confirm, Drop, PayNothing, Pay, PayBatch,
              ConfirmRefund, Fail
<1> QED
  BY <1>1, <1>4, <1>5, <1>6 DEF Next

\* Every step keeps the whole invariant.
LEMMA BuyStep == PurchasingAssumption /\ FollowsFlow /\ BuyInv /\ [Next]_vars => BuyInv'
<1> SUFFICES ASSUME PurchasingAssumption, FollowsFlow, BuyInv, [Next]_vars PROVE BuyInv'
  OBVIOUS
<1>1. BuyTypes' /\ PaidInv'
  BY TypesStep, PaidStep DEF BuyInv
<1>2. overlap' = overlap
  BY OverlapStays
<1>3. overlap # "receipts" => Serial'
  BY <1>1, SerialStep DEF BuyInv
<1> QED
  BY <1>1, <1>2, <1>3 DEF BuyInv

-----------------------------------------------------------------------------
(* What SupplierService and the stock tell.                                *)

\* A sum over some rows is the sum over all of them where the others add nothing.
LEMMA SomeRows ==
    ASSUME NEW S, IsFiniteSet(S), NEW R \in SUBSET S, NEW f, NEW g,
           DOMAIN f = R, DOMAIN g = S, \A x \in S : g[x] \in Int,
           \A x \in R : f[x] = g[x], \A x \in S \ R : g[x] = 0
    PROVE  SumFunction(f) = SumFunction(g)
<1>1. SumFunctionOnSet(f, R) = SumFunctionOnSet(g, S)
  BY SumWhere
<1> QED
  BY <1>1, SumOver

\* The invariant says what is announced.
LEMMA IncomingAgrees ==
    ASSUME PurchasingAssumption, BuyTypes, Serial
    PROVE  IncomingMatchesOrders
<1>1. IsFiniteSet(Orders) /\ IsFiniteSet(Receipts)
  BY DEF PurchasingAssumption
<1>2. \A p \in Orders : po[p] \in Order /\ OrderRight(po[p])
  BY DEF BuyTypes, Serial, RowsRight
<1>3. SumFunction([p \in Pending |-> Remaining(po[p])]) = Expected
  <2> DEFINE f == [p \in Pending |-> Remaining(po[p])]
             g == [p \in Orders |-> ExpectedBy(po[p])]
  <2>1. \A p \in Orders : g[p] \in Int
    BY <1>2, RowNumbers
  <2>2. /\ Pending \in SUBSET Orders
        /\ \A p \in Pending : f[p] = g[p]
        /\ \A p \in Orders \ Pending : g[p] = 0
    BY DEF Pending, ExpectedBy
  <2>3. DOMAIN f = Pending /\ DOMAIN g = Orders
    OBVIOUS
  <2> HIDE DEF f, g
  <2>4. SumFunction(f) = SumFunction(g)
    BY <1>1, <2>1, <2>2, <2>3, SomeRows
  <2> QED
    BY <2>4 DEF Expected, f, g
<1>4. ASSUME NEW p \in Orders
      PROVE  SumFunction([r \in Received |-> rei[r].parts[p]]) = Brought(p)
  <2> DEFINE f == [r \in Received |-> rei[r].parts[p]]
             g == [r \in Receipts |-> BroughtBy(rei[r], p)]
  <2>1. \A r \in Receipts : g[r] \in Int
    BY RowNumbers DEF BuyTypes
  <2>2. /\ Received \in SUBSET Receipts
        /\ \A r \in Received : f[r] = g[r]
        /\ \A r \in Receipts \ Received : g[r] = 0
    BY DEF Received, BroughtBy
  <2>3. DOMAIN f = Received /\ DOMAIN g = Receipts
    OBVIOUS
  <2> HIDE DEF f, g
  <2>4. SumFunction(f) = SumFunction(g)
    BY <1>1, <2>1, <2>2, <2>3, SomeRows
  <2> QED
    BY <2>4 DEF Brought, f, g
<1>5. \A p \in Pending : po[p].received < po[p].qty
  BY <1>2 DEF Pending, OrderRight
<1>6. level["incoming"] = OpeningLevel["incoming"]
                              + SumFunction([p \in Pending |-> Remaining(po[p])])
  BY <1>3 DEF Serial, BooksInv
<1>7. \A p \in Orders : po[p].received = SumFunction([r \in Received |-> rei[r].parts[p]])
  BY <1>4 DEF Serial, BooksInv
<1> QED
  BY <1>5, <1>6, <1>7 DEF IncomingMatchesOrders

\* The invariant says that balance, vouchers, summary and debts agree.
LEMMA StoryAgrees ==
    ASSUME PurchasingAssumption, BuyTypes, PaidInv, Serial
    PROVE  BooksAgree
<1> DEFINE UnpaidBy(x) == IF x.status = "received" /\ x.payment # "paid" THEN x.due - x.paid ELSE 0
           BelowBy(x) == IF x.status = "received" /\ x.due < 0 THEN x.due ELSE 0
           unpaid == [r \in Receipts |-> UnpaidBy(rei[r])]
           below == [r \in Receipts |-> BelowBy(rei[r])]
           owed == [r \in Receipts |-> OwedFor(rei[r])]
           open == [r \in Outstanding |-> rei[r].due - rei[r].paid]
           negative == {r \in Received : rei[r].due < 0}
<1>1. IsFiniteSet(Orders) /\ IsFiniteSet(Receipts) /\ IsFiniteSet(Returns)
  BY DEF PurchasingAssumption
<1>2. ASSUME NEW r \in Receipts
      PROVE  /\ unpaid[r] \in Int /\ below[r] \in Int /\ owed[r] = unpaid[r] + below[r]
             /\ rei[r].status = "received" /\ rei[r].payment # "paid" => unpaid[r] >= 1
  <2> DEFINE x == rei[r]
  <2>1. ReceiptRight(x) /\ RightPaid(x)
    BY DEF Serial, RowsRight, PaidInv
  <2>2. x.due \in Int /\ x.paid \in Int
    BY DEF BuyTypes, Receipt
  <2> HIDE DEF x
  <2>3. /\ UnpaidBy(x) \in Int /\ BelowBy(x) \in Int
        /\ OwedFor(x) = UnpaidBy(x) + BelowBy(x)
        /\ x.status = "received" /\ x.payment # "paid" => UnpaidBy(x) >= 1
    BY <2>1, <2>2 DEF ReceiptRight, RightPaid, OwedFor, Most
  <2> QED
    BY <2>3 DEF x
<1>3. SumFunction(open) = SumFunction(unpaid)
  <2>1. /\ Outstanding \in SUBSET Receipts
        /\ \A r \in Outstanding : open[r] = unpaid[r]
        /\ \A r \in Receipts \ Outstanding : unpaid[r] = 0
    BY DEF Outstanding, Received
  <2>2. DOMAIN open = Outstanding /\ DOMAIN unpaid = Receipts
    OBVIOUS
  <2>3. \A r \in Receipts : unpaid[r] \in Int
    BY <1>2
  <2> HIDE DEF open, unpaid
  <2> QED
    BY <1>1, <2>1, <2>2, <2>3, SomeRows
<1>4. SumFunction([r \in negative |-> rei[r].due]) = SumFunction(below)
  <2> DEFINE f == [r \in negative |-> rei[r].due]
  <2>1. /\ negative \in SUBSET Receipts
        /\ \A r \in negative : f[r] = below[r]
        /\ \A r \in Receipts \ negative : below[r] = 0
    BY DEF Received
  <2>2. DOMAIN f = negative /\ DOMAIN below = Receipts
    OBVIOUS
  <2>3. \A r \in Receipts : below[r] \in Int
    BY <1>2
  <2> HIDE DEF f, below, negative
  <2>4. SumFunction(f) = SumFunction(below)
    BY <1>1, <2>1, <2>2, <2>3, SomeRows
  <2> QED
    BY <2>4 DEF f
<1>5. Owed = SumFunction(unpaid) + SumFunction(below)
  <2>1. /\ DOMAIN owed = Receipts /\ DOMAIN unpaid = Receipts /\ DOMAIN below = Receipts
        /\ Owed = SumFunction(owed)
    BY DEF Owed
  <2> HIDE DEF owed, unpaid, below
  <2>2. SumFunctionOnSet(owed, Receipts)
            = SumFunctionOnSet(unpaid, Receipts) + SumFunctionOnSet(below, Receipts)
    BY <1>1, <1>2, SumPlus
  <2> QED
    BY <2>1, <2>2, SumOver
<1>6. SumFunction([x \in Unrefunded |-> pvn[x].qty]) = Credits
  <2> DEFINE f == [x \in Unrefunded |-> pvn[x].qty]
             g == [x \in Returns |-> CreditOf(pvn[x])]
  <2>1. \A x \in Returns : g[x] \in Int
    BY RowNumbers DEF BuyTypes
  <2>2. /\ Unrefunded \in SUBSET Returns
        /\ \A x \in Unrefunded : f[x] = g[x]
        /\ \A x \in Returns \ Unrefunded : g[x] = 0
    BY DEF Unrefunded, CreditOf
  <2>3. DOMAIN f = Unrefunded /\ DOMAIN g = Returns
    OBVIOUS
  <2> HIDE DEF f, g
  <2>4. SumFunction(f) = SumFunction(g)
    BY <1>1, <2>1, <2>2, <2>3, SomeRows
  <2> QED
    BY <2>4 DEF Credits, f, g
<1>7. SumFunction([r \in Received |-> rei[r].paid - rei[r].deposit]) = PaidOut
  <2> DEFINE f == [r \in Received |-> rei[r].paid - rei[r].deposit]
             g == [r \in Receipts |-> PaidFor(rei[r])]
  <2>1. \A r \in Receipts : g[r] \in Int
    BY RowNumbers DEF BuyTypes
  <2>2. /\ Received \in SUBSET Receipts
        /\ \A r \in Received : f[r] = g[r]
        /\ \A r \in Receipts \ Received : g[r] = 0
    BY DEF Received, PaidFor
  <2>3. DOMAIN f = Received /\ DOMAIN g = Receipts
    OBVIOUS
  <2> HIDE DEF f, g
  <2>4. SumFunction(f) = SumFunction(g)
    BY <1>1, <2>1, <2>2, <2>3, SomeRows
  <2> QED
    BY <2>4 DEF PaidOut, f, g
<1>8. SumFunction([p \in {p \in Orders : po[p].status \in {"pending", "received"}}
                      |-> po[p].deposit]) = Deposits
  <2> DEFINE R == {p \in Orders : po[p].status \in {"pending", "received"}}
             f == [p \in R |-> po[p].deposit]
             g == [p \in Orders |-> DepositOf(po[p])]
  <2>1. \A p \in Orders : g[p] \in Int
    BY RowNumbers DEF BuyTypes
  <2>2. /\ R \in SUBSET Orders
        /\ \A p \in R : f[p] = g[p]
        /\ \A p \in Orders \ R : g[p] = 0
    BY DEF DepositOf
  <2>3. DOMAIN f = R /\ DOMAIN g = Orders
    OBVIOUS
  <2>4. Deposits = SumFunction(g)
    BY DEF Deposits
  <2> HIDE DEF R, f, g
  <2>5. SumFunction(f) = SumFunction(g)
    BY <1>1, <2>1, <2>2, <2>3, SomeRows
  <2> QED
    BY <2>4, <2>5 DEF R, f
<1>9. SumFunction([x \in {x \in Returns : pvn[x].status = "refunded"} |-> pvn[x].qty]) = Refunds
  <2> DEFINE R == {x \in Returns : pvn[x].status = "refunded"}
             f == [x \in R |-> pvn[x].qty]
             g == [x \in Returns |-> RefundOf(pvn[x])]
  <2>1. \A x \in Returns : g[x] \in Int
    BY RowNumbers DEF BuyTypes
  <2>2. /\ R \in SUBSET Returns
        /\ \A x \in R : f[x] = g[x]
        /\ \A x \in Returns \ R : g[x] = 0
    BY DEF RefundOf
  <2>3. DOMAIN f = R /\ DOMAIN g = Returns
    OBVIOUS
  <2>4. Refunds = SumFunction(g)
    BY DEF Refunds
  <2> HIDE DEF R, f, g
  <2>5. SumFunction(f) = SumFunction(g)
    BY <1>1, <2>1, <2>2, <2>3, SomeRows
  <2> QED
    BY <2>4, <2>5 DEF R, f
<1>10. SumFunction(open) >= Cardinality(Outstanding)
  <2>1. IsFiniteSet(Outstanding)
    BY <1>1, FS_Subset DEF Outstanding, Received
  <2>2. \A r \in Outstanding : open[r] \in Int /\ open[r] >= 1
    BY <1>2 DEF Outstanding, Received
  <2>3. DOMAIN open = Outstanding
    OBVIOUS
  <2> HIDE DEF open
  <2>4. SumFunctionOnSet(open, Outstanding) >= Cardinality(Outstanding)
    BY <2>1, <2>2, SumCounts
  <2> QED
    BY <2>3, <2>4, SumOver
<1>11. /\ Summary.debt = balance /\ Summary.unrefunded = Credits
       /\ Summary.unpaid = SumFunction(open)
  BY <1>6 DEF Summary
<1>12. SumFunction(unpaid) \in Int /\ SumFunction(below) \in Int
  <2>1. DOMAIN unpaid = Receipts /\ DOMAIN below = Receipts
    OBVIOUS
  <2> HIDE DEF unpaid, below
  <2> QED
    BY <1>1, <1>2, <2>1, TableSum
<1>13. \A row \in Debts : Summary.unpaid >= row.outstanding
  <2>1. \A row \in Debts : row.outstanding = Cardinality(Outstanding)
    BY DEF Debts
  <2> HIDE DEF open
  <2> QED
    BY <1>10, <1>11, <2>1
<1>14. Summary.debt = Summary.unrefunded - Summary.unpaid
                          - SumFunction([r \in negative |-> rei[r].due])
  <2>1. balance = Credits - Owed /\ Credits \in Int
    BY SumsTyped DEF Serial, BooksInv
  <2> HIDE DEF open, unpaid, below, negative
  <2> QED
    BY <1>3, <1>4, <1>5, <1>11, <1>12, <2>1
<1>15. cash = PaidOut + Deposits - Refunds
  BY DEF Serial, BooksInv
<1> QED
  BY <1>7, <1>8, <1>9, <1>13, <1>14, <1>15 DEF BooksAgree

\* Where requests on receipts do not overlap and receipts follow the flow, what is
\* announced as incoming is what the open orders still expect, each order has received
\* what its receipts brought (IncomingMatchesOrders), and the supplier's balance, the
\* receipts and the vouchers tell one story (BooksAgree): a request that checked a
\* document keeps it as it was, since only payments run beside one another, and those
\* lock the receipt and read it again.
THEOREM SupplierBooksAgree ==
    ASSUME PurchasingAssumption, FollowsFlow
    PROVE  Spec => [](IncomingMatchesOrders /\ BooksAgree /\ NeverOverpaid)
<1>1. Init => BuyInv
  BY TypesInit, PaidInit, SerialInit DEF BuyInv
<1>2. BuyInv /\ [Next]_vars => BuyInv'
  BY BuyStep
<1>3. BuyInv => IncomingMatchesOrders /\ BooksAgree /\ NeverOverpaid
  <2>1. BuyInv => NeverOverpaid
    BY DEF BuyInv, PaidInv, RightPaid, NeverOverpaid, Received
  <2>2. overlap = "receipts" => IncomingMatchesOrders /\ BooksAgree
    BY DEF IncomingMatchesOrders, BooksAgree
  <2>3. BuyInv /\ overlap # "receipts" => IncomingMatchesOrders /\ BooksAgree
    BY IncomingAgrees, StoryAgrees DEF BuyInv
  <2> QED
    BY <2>1, <2>2, <2>3
<1> QED
  BY <1>1, <1>2, <1>3, PTL DEF Spec

\* The documents and the books have their types (TypeOK).
THEOREM PurchasingTyped == ASSUME PurchasingAssumption PROVE Spec => []TypeOK
<1>1. Init => BuyTypes
  BY TypesInit
<1>2. BuyTypes /\ [Next]_vars => BuyTypes'
  BY TypesStep
<1>3. BuyTypes => TypeOK
  BY DEF BuyTypes, TypeOK, Order, Receipt, ReturnOut
<1> QED
  BY <1>1, <1>2, <1>3, PTL DEF Spec
=============================================================================
