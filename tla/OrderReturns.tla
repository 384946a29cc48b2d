----------------------------- MODULE OrderReturns -----------------------------
(***************************************************************************)
(* OrderReturnService over one delivered order of a single variant: return *)
(* documents are drawn up, their goods received, their money refunded, and *)
(* they are completed or cancelled.  A handler reads the document (or the  *)
(* order's earlier returns) and checks its guards; its transaction reads   *)
(* the document once more, writes, and at last recomputes the statuses of  *)
(* the order from all its refunds.  Transactions run at READ COMMITTED:    *)
(* what they read is not locked, what they write is, until they commit.    *)
(* Whether a refund is paid out or taken off the customer's debt matters   *)
(* here for one wait alone, that for another voucher of the same code.     *)
(***************************************************************************)
EXTENDS Integers, FiniteSets, Functions

CONSTANTS
    Returns, Reqs,
    OrderQty, OrderTotal,   \* units sold and the price of the order
    Overlaps                \* how requests of this run may overlap:
                            \*   "none"          one at a time
                            \*   "requests"      but one transaction at a time
                            \*   "transactions"  transactions too

ASSUME ReturnsAssumption == IsFiniteSet(Returns)
ASSUME OrderAssumption == OrderQty \in Nat \ {0} /\ OrderTotal \in Nat
ASSUME OverlapsAssumption == Overlaps \subseteq {"none", "requests", "transactions"}

VARIABLES
    ret,        \* order_returns
    lines,      \* order_refund_line_items: units returned, and restocked of them
    refunded,   \* money of the order's refunds
    status,     \* return_status, refund_status and restock_status of the order
    req,        \* what each request is doing
    overlap

vars == <<ret, lines, refunded, status, req, overlap>>

NoReturn == [status |-> "none", qty |-> 0, amount |-> 0, refunded |-> 0,
             received |-> FALSE, restocked |-> FALSE]
NoStatuses == [return |-> "no_return", refund |-> "no_refund", restock |-> "no_restock"]
NoRequest == [pc |-> "idle"]

Ops == {"create", "receive", "refund", "cancel", "complete"}
Means == {"none", "cash", "debt"}

Open == {d \in Returns : ret[d].status = "in_progress"}
Left(r) == r.amount - r.refunded

\* What the returns come to, of which a condition holds.
Units(P(_)) ==
    SumFunctionOnSet([d \in Returns |-> IF P(ret[d]) THEN ret[d].qty ELSE 0], Returns)

Active(p) == req[p].pc # "idle"
InTransaction(p) == req[p].pc \in {"tx", "written"}

-----------------------------------------------------------------------------
(* recomputeOrderRefundStatuses                                            *)

DeriveReturnStatus(qty, hasOpen) ==
    IF qty > 0 /\ qty >= OrderQty /\ ~hasOpen THEN "returned"
    ELSE IF qty > 0 \/ hasOpen THEN "in_progress" ELSE "no_return"

Statuses(l, money, hasOpen) ==
    [return |-> DeriveReturnStatus(l.returned, hasOpen),
     refund |-> IF money <= 0 THEN "no_refund"
                ELSE IF money >= OrderTotal THEN "refunded" ELSE "partial",
     restock |-> IF l.returned = 0 \/ l.restocked = 0 THEN "no_restock"
                 ELSE IF l.restocked >= l.returned THEN "restocked" ELSE "partial"]

-----------------------------------------------------------------------------
Init ==
    /\ ret = [d \in Returns |-> NoReturn]
    /\ lines = [returned |-> 0, restocked |-> 0]
    /\ refunded = 0
    /\ status = Statuses(lines, 0, FALSE)
    /\ req = [q \in Reqs |-> NoRequest]
    /\ overlap \in Overlaps

MayStart(q) ==
    /\ ~Active(q)
    /\ overlap = "none" => \A p \in Reqs : ~Active(p)

\* validateReturnQty
QtyLeft ==
    OrderQty - lines.returned
        - Units(LAMBDA r : r.status = "in_progress" /\ ~r.received)

\* validateRefundAmount
AmountLeft ==
    OrderTotal - refunded
        - SumFunctionOnSet([d \in Returns |-> IF d \in Open THEN Left(ret[d]) ELSE 0],
                           Returns)

\* What a request knows, from its start on; `doc' and `status' are what its
\* transaction has written.
Request(op, d, qty, amount, receive, restock, pay) ==
    [pc |-> "read", op |-> op, d |-> d, qty |-> qty, amount |-> amount,
     receive |-> receive, restock |-> restock, pay |-> pay,
     doc |-> NoReturn, status |-> NoStatuses]

\* create, with its steps "receive" and "refund" taken at once or later.
ReadCreate(q, d) ==
    /\ MayStart(q)
    /\ ret[d] = NoReturn
    /\ \A p \in Reqs : Active(p) => req[p].d # d
    /\ \E n \in 0..OrderQty, a \in 0..OrderTotal,
          receive \in BOOLEAN, restock \in BOOLEAN, pay \in Means :
          /\ n <= QtyLeft
          /\ a <= AmountLeft
          /\ restock => receive
          /\ a = 0 => pay = "none"
          /\ req' = [req EXCEPT ![q] =
                        Request("create", d, n, a, receive, restock, pay)]
    /\ UNCHANGED <<ret, lines, refunded, status, overlap>>

Cancellable(r) == r.status = "in_progress" /\ ~r.received /\ r.refunded = 0

\* loadManaged and the guards of receive, refund, cancel and complete; without
\* an amount, refund takes what it reads to be left.
ReadReturn(q, d) ==
    /\ MayStart(q)
    /\ ret[d].status = "in_progress"
    /\ \/ \E restock \in BOOLEAN :
             req' = [req EXCEPT ![q] = Request("receive", d, 0, 0, TRUE, restock, "none")]
       \/ \E a \in 1..OrderTotal, pay \in Means \ {"none"} :
             req' = [req EXCEPT ![q] = Request("refund", d, 0, a, FALSE, FALSE, pay)]
       \/ /\ Cancellable(ret[d])
          /\ req' = [req EXCEPT ![q] = Request("cancel", d, 0, 0, FALSE, FALSE, "none")]
       \/ /\ ret[d].received
          /\ req' = [req EXCEPT ![q] = Request("complete", d, 0, 0, FALSE, FALSE, "none")]
    /\ UNCHANGED <<ret, lines, refunded, status, overlap>>

\* Mutant: the transaction relies on what the handler saw before it.
ReceivableUnread(r) == r.op \in Ops

\* The checks of applyReceive and applyRefund.
Receivable(r) == r.op = "receive" => ~ret[r.d].received

Refundable(r) == r.op = "refund" => r.amount > 0 /\ r.amount <= Left(ret[r.d])

\* The transaction begins and reads the document.
Begin(q) ==
    /\ req[q].pc = "read"
    /\ overlap # "transactions" => \A p \in Reqs : ~InTransaction(p)
    /\ Receivable(req[q]) /\ Refundable(req[q])
    /\ req' = [req EXCEPT ![q].pc = "tx"]
    /\ UNCHANGED <<ret, lines, refunded, status, overlap>>

-----------------------------------------------------------------------------
\* Mutant: the refund is entered with the wrong sign.
PaidReversed(r) == IF r.pay = "none" THEN 0 ELSE -r.amount

Paid(r) == IF r.pay = "none" THEN 0 ELSE r.amount

\* The document the transaction starts from, which create inserts.
Before(r) ==
    IF r.op = "create"
    THEN [NoReturn EXCEPT !.status = "in_progress", !.qty = r.qty, !.amount = r.amount]
    ELSE ret[r.d]

\* The document as the transaction writes it, before settle.
Written(r) ==
    [Before(r) EXCEPT !.received = @ \/ r.receive,
                      !.restocked = IF r.receive THEN r.restock ELSE @,
                      !.refunded = @ + Paid(r),
                      !.status = CASE r.op = "cancel" -> "cancelled"
                                   [] r.op = "complete" -> "completed"
                                   [] OTHER -> @]

Completes(doc) ==
    doc.status = "in_progress" /\ doc.received /\ doc.refunded >= doc.amount

\* Mutant: only the receipt of the goods settles the document.
SettledByReceipt(r) ==
    IF r.op \in {"create", "receive"} /\ Completes(Written(r))
    THEN [Written(r) EXCEPT !.status = "completed"] ELSE Written(r)

\* settle reads the document again, whose row this transaction has locked.
Settled(r) ==
    IF r.op \in {"create", "receive", "refund"} /\ Completes(Written(r))
    THEN [Written(r) EXCEPT !.status = "completed"] ELSE Written(r)

LinesOf(r, doc) ==
    [returned |-> IF r.receive THEN doc.qty ELSE 0,
     restocked |-> IF r.receive /\ r.restock THEN doc.qty ELSE 0]

Plus(l, m) == [returned |-> l.returned + m.returned, restocked |-> l.restocked + m.restocked]

\* Waited for until the commit: the document, the stock of the variant, and the code
\* that two vouchers would share (the second then fails, or counts the first).
Locks(r) == {<<"return", r.d>>}
                \union (IF r.restock THEN {<<"stock">>} ELSE {})
                \union (IF r.pay = "cash" THEN {<<"code">>} ELSE {})

\* The transaction's statements: each waits for the locks it needs.  The last
\* one recomputes the order's statuses from the rows that are committed by
\* now and its own.
Write(q) ==
    LET r == req[q]
        doc == Settled(r)
        openOthers == Open \ {r.d}
    IN  /\ r.pc = "tx"
        /\ \A p \in Reqs \ {q} :
              req[p].pc = "written" => Locks(req[p]) \intersect Locks(r) = {}
        /\ req' = [req EXCEPT
              ![q].pc = "written", ![q].doc = doc,
              ![q].status = Statuses(Plus(lines, LinesOf(r, doc)), refunded + Paid(r),
                                openOthers # {} \/ doc.status = "in_progress")]
        /\ UNCHANGED <<ret, lines, refunded, status, overlap>>

\* Mutant: the order's statuses are left as they were.
StatusKept(r) == IF r.op = "cancel" THEN status ELSE r.status

StatusWritten(r) == r.status

Commit(q) ==
    LET r == req[q]
    IN  /\ r.pc = "written"
        /\ ret' = [ret EXCEPT ![r.d] = r.doc]
        /\ lines' = Plus(lines, LinesOf(r, r.doc))
        /\ refunded' = refunded + Paid(r)
        /\ status' = StatusWritten(r)
        /\ req' = [req EXCEPT ![q] = NoRequest]
        /\ UNCHANGED overlap

\* A check refuses, the transaction times out or the connection is lost.
Fail(q) ==
    /\ Active(q)
    /\ req' = [req EXCEPT ![q] = NoRequest]
    /\ UNCHANGED <<ret, lines, refunded, status, overlap>>

Next ==
    \/ \E q \in Reqs, d \in Returns : ReadCreate(q, d) \/ ReadReturn(q, d)
    \/ \E q \in Reqs : Begin(q) \/ Write(q) \/ Commit(q) \/ Fail(q)

Spec == Init /\ [][Next]_vars

-----------------------------------------------------------------------------
\* The types of the documents, the order and the requests.
TypeOK ==
    /\ ret \in [Returns ->
          [status : {"none", "in_progress", "completed", "cancelled"},
           qty : 0..OrderQty, amount : 0..OrderTotal, refunded : Nat,
           received : BOOLEAN, restocked : BOOLEAN]]
    /\ lines \in [returned : Nat, restocked : Nat]
    /\ refunded \in Nat
    /\ status \in [return : {"no_return", "in_progress", "returned"},
                   refund : {"no_refund", "partial", "refunded"},
                   restock : {"no_restock", "partial", "restocked"}]
    /\ \A q \in Reqs :
          /\ req[q].pc \in {"idle", "read", "tx", "written"}
          /\ Active(q) => req[q].op \in Ops /\ req[q].d \in Returns
    /\ overlap \in Overlaps

\* settle's promise, however transactions interleave: no return stays in
\* progress whose goods have come and whose money has been refunded in full.
NoSettledReturnLeftOpen == \A d \in Returns : ~Completes(ret[d])

\* The checks inside the transactions see to it that goods come back and are
\* put on the shelf once per return, and that a return refunds no more than
\* was agreed, though requests overlap (as long as transactions do not).
ReceivedAndRefundedOnce ==
    overlap # "transactions" =>
        /\ lines = [returned |-> Units(LAMBDA r : r.received),
                    restocked |-> Units(LAMBDA r : r.restocked)]
        /\ \A d \in Returns : ret[d].refunded <= ret[d].amount

\* The order's three statuses are what its refunds and open returns say.
StatusesDerived ==
    overlap # "transactions" => status = Statuses(lines, refunded, Open # {})
=============================================================================
