------------------------------ MODULE Purchasing ------------------------------
(***************************************************************************)
(* Buying from one supplier for one warehouse: PurchaseOrderService,       *)
(* GoodsReceiptService, PurchaseReturnService and the payments of          *)
(* SupplierService, with the incoming stock, the supplier's ledger and the *)
(* cash vouchers they share.  A handler checks the document as it reads    *)
(* it; of the transactions only `pay' locks it and reads it again.         *)
(* Confirming a receipt writes received quantities computed from an        *)
(* unlocked read of the orders.  One variant, a unit costs 1.              *)
(***************************************************************************)
EXTENDS StockPosting, FiniteSets, Functions

CONSTANTS
    Orders, Receipts, Returns,  \* documents
    Reqs,
    MaxQty,                     \* bound: units of each order
    Adjustments,                \* extra costs less discount of a receipt
    Overlaps,                   \* how requests of this run may overlap:
                                \*   "none"      one at a time
                                \*   "payments"  a single payment beside another
                                \*   "receipts"  whatever is done to receipts
    FollowsFlow,                \* TRUE: nothing is received for closed orders
    OpeningLevel

\* The values of the constants, assumed by the module that instantiates this one.
PurchasingAssumption ==
    /\ IsFiniteSet(Orders) /\ IsFiniteSet(Receipts) /\ IsFiniteSet(Returns)
    /\ MaxQty \in [Orders -> Nat \ {0}]
    /\ Adjustments \subseteq Int
    /\ Overlaps \subseteq {"none", "payments", "receipts"}
    /\ OpeningLevel \in Level

VARIABLES
    po,         \* purchase_orders with their items
    rei,        \* goods_receipts with their items
    pvn,        \* purchase_returns
    active,     \* suppliers.is_active
    level,      \* the variant's inventory level
    balance,    \* sum of supplier_ledger_entries
    cash,       \* vouchers: money paid out less money received
    req,
    overlap

docs == <<po, rei, pvn, active>>
books == <<level, balance, cash>>
vars == <<docs, books, req, overlap>>

NoOrder == [status |-> "none", qty |-> 0, received |-> 0, deposit |-> 0]
NoReceipt == [status |-> "none", parts |-> [p \in Orders |-> 0], header |-> "none",
              adjust |-> 0, due |-> 0, paid |-> 0, deposit |-> 0, payment |-> "unpaid"]
NoReturnOut == [status |-> "none", qty |-> 0]
NoReq == [pc |-> "idle"]

Least(a, b) == IF a < b THEN a ELSE b
Most(a, b) == IF a > b THEN a ELSE b

Active(q) == req[q].pc # "idle"

MayStart(q, op) ==
    /\ ~Active(q)
    /\ overlap = "none" => \A p \in Reqs : ~Active(p)
    /\ \A p \in Reqs : Active(p) =>
          /\ overlap = "payments" => {op, req[p].op} = {"pay"}
          /\ overlap = "receipts" =>
                {op, req[p].op} \subseteq {"confirm", "drop", "pay", "batch"}

Init ==
    /\ po = [p \in Orders |-> NoOrder]
    /\ rei = [r \in Receipts |-> NoReceipt]
    /\ pvn = [x \in Returns |-> NoReturnOut]
    /\ active = TRUE
    /\ level = OpeningLevel
    /\ balance = 0 /\ cash = 0
    /\ req = [q \in Reqs |-> NoReq]
    /\ overlap \in Overlaps

-----------------------------------------------------------------------------
(* Drawing documents up: checks and one insert.                            *)

\* PurchaseOrderService.create
DraftOrder(p) ==
    /\ active /\ po[p].status = "none"
    /\ \E n \in 1..MaxQty[p], d \in 0..MaxQty[p] :
          /\ d <= n
          /\ po' = [po EXCEPT ![p] = [NoOrder EXCEPT !.status = "draft", !.qty = n,
                                                     !.deposit = d]]
    /\ UNCHANGED <<rei, pvn, active, books, req, overlap>>

Used(parts) == {p \in Orders : parts[p] > 0}

Quantities ==
    {f \in [Orders -> UNION {0..MaxQty[p] : p \in Orders}] :
        \A p \in Orders : f[p] <= MaxQty[p]}

\* GoodsReceiptService.create: each line belongs to an open order.  The header
\* names the one order there is, or one of several, or none.
DraftReceipt(r) ==
    /\ active /\ rei[r].status = "none"
    /\ \E parts \in Quantities, a \in Adjustments :
          /\ Used(parts) # {}
          /\ \A p \in Used(parts) : po[p].status = "pending"
          /\ \E h \in IF Cardinality(Used(parts)) = 1 THEN Used(parts)
                                                     ELSE Used(parts) \union {"none"} :
                rei' = [rei EXCEPT ![r] = [NoReceipt EXCEPT !.status = "pending",
                                 !.parts = parts, !.header = h, !.adjust = a]]
    /\ UNCHANGED <<po, pvn, active, books, req, overlap>>

OutLine(n) == PostLine(<<Entry("on_hand", -n, "return_out")>>)

\* PurchaseReturnService.create: goods go back at once and lower the debt.
ReturnGoods(x) ==
    /\ active /\ pvn[x].status = "none"
    /\ \E n \in 1..ComputeAvailable(level) :
          /\ LinePasses(level, OutLine(n))
          /\ level' = AfterLine(level, OutLine(n))
          /\ pvn' = [pvn EXCEPT ![x] = [status |-> "no_refund", qty |-> n]]
          /\ balance' = balance + n
    /\ UNCHANGED <<po, rei, active, cash, req, overlap>>

\* assertNotInUse: documents that are open, not debts
InUse ==
    \/ \E p \in Orders : po[p].status \in {"draft", "pending"}
    \/ \E r \in Receipts : rei[r].status = "pending"

\* softDelete asks for open documents, update sets is_active without asking.
Deactivate ==
    /\ ~InUse
    /\ active' = FALSE
    /\ UNCHANGED <<po, rei, pvn, books, req, overlap>>

SetActive ==
    /\ active' \in BOOLEAN
    /\ UNCHANGED <<po, rei, pvn, books, req, overlap>>

-----------------------------------------------------------------------------
(* Handlers that read a document first.                                    *)

Start(q, r) ==
    /\ MayStart(q, r.op)
    /\ req' = [req EXCEPT ![q] = r]
    /\ UNCHANGED <<docs, books, overlap>>

ReadOrder(q, p) ==
    \/ /\ po[p].status = "draft"
       /\ \E op \in {"submit", "discard"} :
             Start(q, [pc |-> "read", op |-> op, d |-> p, seen |-> po[p]])
    \/ /\ po[p].status = "draft"
       /\ \E n \in 1..MaxQty[p], d \in 0..MaxQty[p] :
             /\ d <= n
             /\ Start(q, [pc |-> "read", op |-> "update", d |-> p,
                          seen |-> [po[p] EXCEPT !.qty = n, !.deposit = d]])
    \/ /\ po[p].status = "pending"
       /\ Start(q, [pc |-> "read", op |-> "close", d |-> p, seen |-> po[p]])

ReadReceipt(q, r) ==
    \/ /\ rei[r].status = "pending"
       /\ \E op \in {"confirm", "drop"} :
             Start(q, [pc |-> "read", op |-> op, d |-> r, seen |-> rei[r]])
    \/ /\ rei[r].status = "received" /\ rei[r].payment # "paid"
       /\ Start(q, [pc |-> "read", op |-> "pay", d |-> r, seen |-> rei[r]])

ReadReturn(q, x) ==
    /\ pvn[x].status = "no_refund"
    /\ Start(q, [pc |-> "read", op |-> "refund", d |-> x, seen |-> pvn[x]])

\* SupplierService.createPayment reads the receipts inside its transaction.
ReadBatch(q, S) ==
    /\ S # {}
    /\ \A r \in S : rei[r].status = "received" /\ rei[r].payment # "paid"
    /\ Start(q, [pc |-> "tx", op |-> "batch", d |-> S, seen |-> [r \in S |-> rei[r]]])

\* Units the order may still receive, as confirm and close count them.
Remaining(o) == o.qty - o.received

\* The transaction of confirm reads the orders and checks the quantities.
BeginConfirm(q) ==
    LET r == req[q]
    IN  /\ r.pc = "read" /\ r.op = "confirm"
        /\ \A p \in Used(r.seen.parts) :
              /\ r.seen.parts[p] <= Remaining(po[p])
              /\ FollowsFlow => po[p].status = "pending"
        /\ req' = [req EXCEPT ![q] = [pc |-> "tx", op |-> "confirm", d |-> r.d,
                                      seen |-> r.seen, orders |-> po]]
        /\ UNCHANGED <<docs, books, overlap>>

-----------------------------------------------------------------------------
(* The transactions.                                                       *)

At(q, pc, op) == req[q].pc = pc /\ req[q].op = op
Done(q) == req' = [req EXCEPT ![q] = NoReq] /\ UNCHANGED overlap

Post(moves) == LinePasses(level, PostLine(moves)) /\ level' = AfterLine(level, PostLine(moves))

\* update replaces the items and touches nothing else.
Update(q) ==
    LET r == req[q]
    IN  /\ At(q, "read", "update")
        /\ po[r.d].status # "deleted"
        /\ po' = [po EXCEPT ![r.d].qty = r.seen.qty, ![r.d].deposit = r.seen.deposit,
                            ![r.d].received = 0]
        /\ UNCHANGED <<rei, pvn, active, books>>
        /\ Done(q)

\* The goods are announced, the deposit is paid.
Submit(q) ==
    LET r == req[q]
    IN  /\ At(q, "read", "submit")
        /\ po[r.d].status # "deleted"
        /\ Post(<<Entry("incoming", r.seen.qty, "incoming_po")>>)
        /\ po' = [po EXCEPT ![r.d].status = "pending"]
        /\ cash' = cash + r.seen.deposit
        /\ UNCHANGED <<rei, pvn, active, balance>>
        /\ Done(q)

\* close takes back what has not come.
Close(q) ==
    LET r == req[q]
        rest == Remaining(r.seen)
    IN  /\ At(q, "read", "close")
        /\ IF rest > 0 THEN Post(<<Entry("incoming", -rest, "incoming_cancel")>>)
                       ELSE UNCHANGED level
        /\ po' = [po EXCEPT ![r.d].status = "received"]
        /\ UNCHANGED <<rei, pvn, active, balance, cash>>
        /\ Done(q)

\* cancel deletes the draft.
Discard(q) ==
    LET r == req[q]
    IN  /\ At(q, "read", "discard")
        /\ po[r.d].status # "deleted"
        /\ po' = [po EXCEPT ![r.d].status = "deleted"]
        /\ UNCHANGED <<rei, pvn, active, books>>
        /\ Done(q)

\* What is left of the deposit of the order in the header.
DepositLeft(r, seen) ==
    po[seen.header].deposit
        - SumFunction([s \in {s \in Receipts \ {r} : rei[s].header = seen.header} |->
                          rei[s].deposit])

DepositApplied(r, seen, due) ==
    IF seen.header # "none" /\ po[seen.header].deposit > 0
    THEN Least(Most(DepositLeft(r, seen), 0), due) ELSE 0

PaymentOf(paid, due) ==
    IF due <= 0 \/ paid >= due THEN "paid"
    ELSE IF paid > 0 THEN "partially_paid" ELSE "unpaid"

\* tryCompleteIfFullyReceived
Completed(o) ==
    IF o.status = "pending" /\ o.received >= o.qty
    THEN [o EXCEPT !.status = "received"] ELSE o

\* The goods come in, order by order; received quantities are written from
\* what was read before the level was locked, the rest is read after.
Confirm(q) ==
    LET r == req[q]
        parts == r.seen.parts
        total == SumFunction(parts)
        due == total + r.seen.adjust
        applied == DepositApplied(r.d, r.seen, due)
    IN  /\ At(q, "tx", "confirm")
        /\ rei[r.d].status # "deleted"
        /\ Post(<<Entry("incoming", -total, "incoming_receipt"),
                  Entry("on_hand", total, "receipt")>>)
        /\ po' = [p \in Orders |->
                    IF parts[p] = 0 THEN po[p]
                    ELSE Completed([po[p] EXCEPT
                             !.received = r.orders[p].received + parts[p]])]
        /\ rei' = [rei EXCEPT ![r.d].status = "received", ![r.d].due = due,
                              ![r.d].deposit = applied, ![r.d].paid = applied,
                              ![r.d].payment = PaymentOf(applied, due)]
        /\ balance' = balance - due + Most(applied, 0)
        /\ UNCHANGED <<pvn, active, cash>>
        /\ Done(q)

\* GoodsReceiptService.cancel deletes a receipt that has not come.
Drop(q) ==
    LET r == req[q]
    IN  /\ At(q, "read", "drop")
        /\ rei[r.d].status # "deleted"
        /\ rei' = [rei EXCEPT ![r.d].status = "deleted"]
        /\ UNCHANGED <<po, pvn, active, books>>
        /\ Done(q)

\* Mutant: the amounts the handler has read, without the lock.
AmountsSeen(r) == r.seen

\* SELECT ... FOR UPDATE: the amounts are those of this moment.
AmountsOf(r) == rei[r.d]

\* A receipt whose money is there by now is only marked.
PayNothing(q) ==
    LET r == req[q]
    IN  /\ At(q, "read", "pay")
        /\ r.seen.due <= r.seen.paid
        /\ rei[r.d].status # "deleted"
        /\ rei' = [rei EXCEPT ![r.d].payment = "paid"]
        /\ UNCHANGED <<po, pvn, active, books>>
        /\ Done(q)

Pay(q) ==
    LET r == req[q]
        due == AmountsOf(r).due
        paid == AmountsOf(r).paid
    IN  /\ At(q, "read", "pay")
        /\ r.seen.due > r.seen.paid
        /\ rei[r.d].status # "deleted"
        /\ \E a \in 1..(due - paid) :
              /\ rei' = [rei EXCEPT ![r.d].paid = paid + a,
                           ![r.d].payment = IF paid + a >= due THEN "paid"
                                                               ELSE "partially_paid"]
              /\ cash' = cash + a
              /\ balance' = balance + a
        /\ UNCHANGED <<po, pvn, active, level>>
        /\ Done(q)

\* All the receipts chosen are paid in full by one voucher.
PayBatch(q) ==
    LET r == req[q]
        total == SumFunction([s \in r.d |-> r.seen[s].due - r.seen[s].paid])
    IN  /\ At(q, "tx", "batch")
        /\ rei' = [s \in Receipts |->
                     IF s \in r.d THEN [rei[s] EXCEPT !.paid = r.seen[s].due,
                                                      !.payment = "paid"]
                     ELSE rei[s]]
        /\ cash' = cash + total
        /\ balance' = balance + total
        /\ UNCHANGED <<po, pvn, active, level>>
        /\ Done(q)

\* confirmRefund: the supplier gives money instead of lowering the debt.
ConfirmRefund(q) ==
    LET r == req[q]
    IN  /\ At(q, "read", "refund")
        /\ pvn' = [pvn EXCEPT ![r.d].status = "refunded"]
        /\ balance' = balance - r.seen.qty
        /\ cash' = cash - r.seen.qty
        /\ UNCHANGED <<po, rei, active, level>>
        /\ Done(q)

\* A check or a movement refuses, or the transaction is lost.
Fail(q) ==
    /\ Active(q)
    /\ UNCHANGED <<docs, books>>
    /\ Done(q)

Next ==
    \/ \E p \in Orders : DraftOrder(p)
    \/ \E r \in Receipts : DraftReceipt(r)
    \/ \E x \in Returns : ReturnGoods(x)
    \/ Deactivate \/ SetActive
    \/ \E q \in Reqs :
          \/ \E p \in Orders : ReadOrder(q, p)
          \/ \E r \in Receipts : ReadReceipt(q, r)
          \/ \E x \in Returns : ReadReturn(q, x)
          \/ \E S \in SUBSET Receipts : ReadBatch(q, S)
          \/ BeginConfirm(q)
          \/ Update(q) \/ Submit(q) \/ Close(q) \/ Discard(q)
          \/ Confirm(q) \/ Drop(q) \/ PayNothing(q) \/ Pay(q) \/ PayBatch(q)
          \/ ConfirmRefund(q) \/ Fail(q)

Spec == Init /\ [][Next]_vars

-----------------------------------------------------------------------------
(* What SupplierService tells of the supplier.                             *)

Received == {r \in Receipts : rei[r].status = "received"}
Outstanding == {r \in Received : rei[r].payment # "paid"}

\* getSummary, of any time
Unrefunded == {x \in Returns : pvn[x].status = "no_refund"}
Summary ==
    [unpaid |-> SumFunction([r \in Outstanding |-> rei[r].due - rei[r].paid]),
     unrefunded |-> SumFunction([x \in Unrefunded |-> pvn[x].qty]),
     debt |-> balance]

\* listDebts: the row of the supplier, if it is active and has one
Debts ==
    IF active /\ (balance # 0 \/ Outstanding # {})
    THEN {[balance |-> balance, outstanding |-> Cardinality(Outstanding)]} ELSE {}

-----------------------------------------------------------------------------
\* The types of the documents and the books.
TypeOK ==
    /\ po \in [Orders -> [status : {"none", "draft", "pending", "received", "deleted"},
                          qty : Nat, received : Nat, deposit : Nat]]
    /\ \A r \in Receipts :
          /\ rei[r].status \in {"none", "pending", "received", "deleted"}
          /\ rei[r].payment \in {"unpaid", "partially_paid", "paid"}
          /\ rei[r].parts \in [Orders -> Nat]
    /\ pvn \in [Returns -> [status : {"none", "no_refund", "refunded"}, qty : Nat]]
    /\ active \in BOOLEAN /\ level \in Level /\ balance \in Int /\ cash \in Int

Pending == {p \in Orders : po[p].status = "pending"}

\* Requests one at a time, payments aside, what is announced as incoming is what the open
\* orders still expect, each order has received what its receipts brought, and
\* none stays open that has received everything.
IncomingMatchesOrders ==
    overlap # "receipts" =>
        /\ level["incoming"] = OpeningLevel["incoming"]
                                  + SumFunction([p \in Pending |-> Remaining(po[p])])
        /\ \A p \in Pending : po[p].received < po[p].qty
        /\ \A p \in Orders :
              po[p].received = SumFunction([r \in Received |-> rei[r].parts[p]])

\* However requests overlap, no receipt is paid beyond what is due.
NeverOverpaid == \A r \in Received : rei[r].paid <= Most(rei[r].due, 0)

\* The supplier's balance, the receipts and the vouchers tell one story, payments of one
\* receipt at the same moment included, since each locks it: what the supplier's page and
\* the list of debts call unpaid and unrefunded is the debt they show, but for receipts
\* that cost less than nothing, which they count as paid; and each receipt that the list
\* counts owes something.
BooksAgree ==
    overlap # "receipts" =>
        /\ Summary.debt = Summary.unrefunded - Summary.unpaid
                             - SumFunction([r \in {r \in Received : rei[r].due < 0} |->
                                               rei[r].due])
        /\ \A row \in Debts : Summary.unpaid >= row.outstanding
        /\ cash = SumFunction([r \in Received |-> rei[r].paid - rei[r].deposit])
                    + SumFunction([p \in {p \in Orders : po[p].status \in {"pending", "received"}}
                                      |-> po[p].deposit])
                    - SumFunction([x \in {x \in Returns : pvn[x].status = "refunded"} |->
                                      pvn[x].qty])

\* "Deduct the deposit paid on the order" (comment in confirm): what receipts
\* are credited for is never more than the deposit.
DepositCreditedOnce ==
    overlap = "none" =>
        \A p \in Orders :
            SumFunction([r \in {r \in Received : rei[r].header = p} |->
                            Most(rei[r].deposit, 0)]) <= po[p].deposit
=============================================================================
