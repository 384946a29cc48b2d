-------------------------- MODULE OrderTrafficProofs --------------------------
(***************************************************************************)
(* Theorems about the goods of orders on their way back and forth.         *)
(* OrderReturns, for any number of returns, requests, units and money, and *)
(* for every way in which transactions may overlap: types, and that no     *)
(* return stays open that has got its goods and its money.                 *)
(* CarrierShipment, for any number of pushes and of late reports: the      *)
(* goods are where the statuses of the parcels say.  MarketplaceMirror,    *)
(* for any orders, changes and stops of the process: types, and that known *)
(* lines are kept.                                                         *)
(***************************************************************************)
EXTENDS OrderReturns, Integrations, SharedLemmas

Doc == [status : {"none", "in_progress", "completed", "cancelled"},
        qty : 0..OrderQty, amount : 0..OrderTotal, refunded : Nat,
        received : BOOLEAN, restocked : BOOLEAN]

OrderStatuses == [return : {"no_return", "in_progress", "returned"},
                  refund : {"no_refund", "partial", "refunded"},
                  restock : {"no_restock", "partial", "restocked"}]

Asked == {"pc", "op", "d", "qty", "amount", "receive", "restock", "pay", "doc", "status"}

\* What a request knows from its start on.
Typed(x) ==
    /\ Asked \subseteq DOMAIN x
    /\ x.op \in Ops /\ x.d \in Returns
    /\ x.qty \in 0..OrderQty /\ x.amount \in 0..OrderTotal
    /\ x.receive \in BOOLEAN /\ x.restock \in BOOLEAN /\ x.pay \in Means

\* What a transaction has written is not left open either.
Sound(x) ==
    \/ x.pc = "idle"
    \/ /\ x.pc \in {"read", "tx"} /\ Typed(x)
    \/ /\ x.pc = "written" /\ Typed(x)
       /\ x.doc \in Doc /\ x.status \in OrderStatuses
       /\ ~Completes(x.doc)

Tables ==
    /\ ret \in [Returns -> Doc]
    /\ lines \in [returned : Nat, restocked : Nat]
    /\ refunded \in Nat
    /\ status \in OrderStatuses
    /\ overlap \in Overlaps

RInv ==
    /\ Tables
    /\ DOMAIN req = Reqs
    /\ \A q \in Reqs : Sound(req[q])
    /\ NoSettledReturnLeftOpen

\* The invariant holds the types of the specification.
LEMMA RInvTypes == RInv => TypeOK
<1> SUFFICES ASSUME RInv PROVE TypeOK
  OBVIOUS
<1>1. \A q \in Reqs :
          /\ req[q].pc \in {"idle", "read", "tx", "written"}
          /\ Active(q) => req[q].op \in Ops /\ req[q].d \in Returns
  BY DEF RInv, Sound, Typed, Active
<1> QED
  BY <1>1 DEF RInv, Tables, Doc, OrderStatuses, TypeOK

\* Whatever its arguments, the recomputation yields statuses the schema knows.
LEMMA StatusesTyped ==
    ASSUME NEW l, NEW money, NEW open
    PROVE  Statuses(l, money, open) \in OrderStatuses
BY DEF Statuses, DeriveReturnStatus, OrderStatuses

\* What returns have paid back is a natural.
LEMMA PaidTyped ==
    ASSUME NEW x, Typed(x)
    PROVE  Paid(x) \in Nat
BY OrderAssumption DEF Paid, Typed

\* The document a transaction writes is a document.
LEMMA WrittenTyped ==
    ASSUME NEW x, Typed(x), ret \in [Returns -> Doc]
    PROVE  Written(x) \in Doc
<1> DEFINE before == Before(x)
<1>1. before \in Doc
  BY OrderAssumption DEF Before, NoReturn, Doc, Typed
<1>2. Paid(x) \in Nat
  BY PaidTyped
<1> DEFINE received == before.received \/ x.receive
           restocked == IF x.receive THEN x.restock ELSE before.restocked
           paid == before.refunded + Paid(x)
           closed == CASE x.op = "cancel" -> "cancelled"
                       [] x.op = "complete" -> "completed"
                       [] OTHER -> before.status
<1>3. Written(x) = [before EXCEPT !.received = received, !.restocked = restocked,
                                  !.refunded = paid, !.status = closed]
  BY DEF Written
<1>4. /\ before.received \in BOOLEAN /\ before.restocked \in BOOLEAN
      /\ before.refunded \in Nat
      /\ before.status \in {"none", "in_progress", "completed", "cancelled"}
  BY <1>1 DEF Doc
<1> HIDE DEF before
<1>5. received \in BOOLEAN
  OBVIOUS
<1>6. restocked \in BOOLEAN
  BY <1>4 DEF Typed
<1>7. paid \in Nat
  BY <1>2, <1>4
<1>8. closed \in {"none", "in_progress", "completed", "cancelled"}
  BY <1>4
<1> HIDE DEF received, restocked, paid, closed
<1> QED
  BY <1>1, <1>3, <1>5, <1>6, <1>7, <1>8 DEF Doc

\* settle leaves no document open that could be completed, and cancel and
\* complete, which do not call it, leave none open at all.
LEMMA SettledCloses ==
    ASSUME NEW x, Typed(x), ret \in [Returns -> Doc]
    PROVE  Settled(x) \in Doc /\ ~Completes(Settled(x))
<1>1. Written(x) \in Doc
  BY WrittenTyped
<1>2. CASE x.op \in {"create", "receive", "refund"}
  BY <1>1, <1>2 DEF Settled, Completes, Doc
<1>3. CASE x.op \in {"cancel", "complete"}
  <2>1. Written(x).status = IF x.op = "cancel" THEN "cancelled" ELSE "completed"
    <3>1. Before(x) \in Doc
      BY <1>3 DEF Before, Typed
    <3> QED
      BY <1>3, <3>1 DEF Written, Doc
  <2> QED
    BY <1>1, <1>3, <2>1 DEF Settled, Completes
<1> QED
  BY <1>2, <1>3 DEF Typed, Ops

\* At the start there are no returns.
LEMMA RInvInit == Init => RInv
<1> SUFFICES ASSUME Init PROVE RInv
  OBVIOUS
<1>1. Tables
  <2>1. NoReturn \in Doc
    BY OrderAssumption DEF NoReturn, Doc
  <2>2. status \in OrderStatuses
    BY StatusesTyped DEF Init
  <2> QED
    BY <2>1, <2>2 DEF Init, Tables
<1>2. DOMAIN req = Reqs /\ \A q \in Reqs : Sound(req[q])
  BY DEF Init, NoRequest, Sound
<1>3. NoSettledReturnLeftOpen
  BY DEF Init, NoReturn, NoSettledReturnLeftOpen, Completes
<1> QED
  BY <1>1, <1>2, <1>3 DEF RInv

\* A step that changes one request alone.
LEMMA RequestStep ==
    ASSUME RInv, NEW q \in Reqs, NEW x, Sound(x), req' = [req EXCEPT ![q] = x],
           UNCHANGED <<ret, lines, refunded, status, overlap>>
    PROVE  RInv'
<1>1. Tables' /\ NoSettledReturnLeftOpen'
  BY DEF RInv, Tables, NoSettledReturnLeftOpen, Completes
<1>2. DOMAIN req' = Reqs /\ \A p \in Reqs : req'[p] = IF p = q THEN x ELSE req[p]
  BY DEF RInv
<1>3. \A p \in Reqs : Sound(req'[p])
  BY <1>2 DEF RInv
<1> QED
  BY <1>1, <1>2, <1>3 DEF RInv, Sound, Typed, Completes

\* A request with arguments of the right kind is sound.
LEMMA RequestSound ==
    ASSUME NEW op \in Ops, NEW d \in Returns, NEW n \in 0..OrderQty,
           NEW a \in 0..OrderTotal, NEW receive \in BOOLEAN,
           NEW restock \in BOOLEAN, NEW pay \in Means
    PROVE  Sound(Request(op, d, n, a, receive, restock, pay))
BY DEF Sound, Typed, Asked, Request

\* Every request starts with arguments of the right kind.
LEMMA ReadKeeps ==
    ASSUME RInv, NEW q \in Reqs, NEW d \in Returns,
           ReadCreate(q, d) \/ ReadReturn(q, d)
    PROVE  RInv'
<1> DEFINE Starts(r) == req' = [req EXCEPT ![q] = r]
<1>1. ASSUME NEW op \in Ops, NEW n \in 0..OrderQty, NEW a \in 0..OrderTotal,
             NEW receive \in BOOLEAN, NEW restock \in BOOLEAN, NEW pay \in Means,
             Starts(Request(op, d, n, a, receive, restock, pay))
      PROVE  RInv'
  <2>1. Sound(Request(op, d, n, a, receive, restock, pay))
    BY RequestSound
  <2>2. UNCHANGED <<ret, lines, refunded, status, overlap>>
    BY DEF ReadCreate, ReadReturn
  <2> QED
    BY <1>1, <2>1, <2>2, RequestStep
<1>2. /\ 0 \in 0..OrderQty /\ 0 \in 0..OrderTotal
      /\ 1..OrderTotal \subseteq 0..OrderTotal
      /\ {"create", "receive", "refund", "cancel", "complete"} \subseteq Ops
      /\ "none" \in Means
  BY OrderAssumption DEF Ops, Means
<1>3. CASE ReadCreate(q, d)
  <2>1. PICK n \in 0..OrderQty, a \in 0..OrderTotal, receive \in BOOLEAN,
             restock \in BOOLEAN, pay \in Means :
             Starts(Request("create", d, n, a, receive, restock, pay))
    BY <1>3 DEF ReadCreate
  <2> QED
    BY <1>1, <1>2, <2>1
<1>4. CASE ReadReturn(q, d)
  <2>1. CASE \E restock \in BOOLEAN :
                 Starts(Request("receive", d, 0, 0, TRUE, restock, "none"))
    BY <1>1, <1>2, <2>1
  <2>2. CASE \E a \in 1..OrderTotal, pay \in Means :
                 Starts(Request("refund", d, 0, a, FALSE, FALSE, pay))
    BY <1>1, <1>2, <2>2
  <2>3. CASE Starts(Request("cancel", d, 0, 0, FALSE, FALSE, "none"))
    BY <1>1, <1>2, <2>3
  <2>4. CASE Starts(Request("complete", d, 0, 0, FALSE, FALSE, "none"))
    BY <1>1, <1>2, <2>4
  <2> QED
    BY <1>4, <2>1, <2>2, <2>3, <2>4 DEF ReadReturn
<1> QED
  BY <1>3, <1>4

\* A transaction's own read of the return is one of a written return.
LEMMA BeginKeeps ==
    ASSUME RInv, NEW q \in Reqs, Begin(q)
    PROVE  RInv'
<1> DEFINE x == [req[q] EXCEPT !.pc = "tx"]
<1>1. req[q].pc = "read" /\ Typed(req[q])
  BY DEF Begin, RInv, Sound
<1>2. req' = [req EXCEPT ![q] = x]
  BY DEF Begin
<1>3. Sound(x)
  <2>1. /\ Asked \subseteq DOMAIN x
        /\ \A f \in Asked \ {"pc"} : x[f] = req[q][f]
    BY <1>1 DEF Typed, Asked
  <2>2. Typed(x)
    BY <1>1, <2>1 DEF Typed, Asked
  <2>3. x.pc \in {"read", "tx"}
    BY <1>1 DEF Typed, Asked
  <2> QED
    BY <2>2, <2>3 DEF Sound
<1> QED
  BY <1>2, <1>3, RequestStep DEF Begin

\* The statements of a transaction leave the tables alone; what it has written
\* is closed if it can be.
LEMMA WriteKeeps ==
    ASSUME RInv, NEW q \in Reqs, Write(q)
    PROVE  RInv'
<1> DEFINE r == req[q]
           doc == Settled(r)
           S == Statuses(Plus(lines, LinesOf(r, doc)), refunded + Paid(r),
                         Open \ {r.d} # {} \/ doc.status = "in_progress")
           x == [r EXCEPT !.pc = "written", !.doc = doc, !.status = S]
<1>1. req' = [req EXCEPT ![q] = x] /\ UNCHANGED <<ret, lines, refunded, status, overlap>>
  BY DEF Write
<1>2. Typed(r) /\ ret \in [Returns -> Doc]
  BY DEF Write, RInv, Sound, Tables
<1>3. doc \in Doc /\ ~Completes(doc)
  BY <1>2, SettledCloses
<1>4. S \in OrderStatuses
  BY StatusesTyped
<1> HIDE DEF r, doc, S
<1>5. x.pc = "written" /\ x.doc = doc /\ x.status = S
  BY <1>2 DEF Typed, Asked
<1>6. /\ Asked \subseteq DOMAIN x
      /\ \A f \in Asked \ {"pc", "doc", "status"} : x[f] = r[f]
  BY <1>2 DEF Typed, Asked
<1> HIDE DEF x
<1>7. Typed(x)
  BY <1>2, <1>6 DEF Typed, Asked
<1>8. Sound(x)
  BY <1>3, <1>4, <1>5, <1>7 DEF Sound
<1> QED
  BY <1>1, <1>8, RequestStep

\* The commit publishes what the transaction wrote.
LEMMA CommitKeeps ==
    ASSUME RInv, NEW q \in Reqs, Commit(q)
    PROVE  RInv'
<1> DEFINE r == req[q]
<1>1. /\ Typed(r) /\ r.doc \in Doc /\ r.status \in OrderStatuses
      /\ ~Completes(r.doc)
  BY DEF Commit, RInv, Sound
<1>2. /\ ret' = [ret EXCEPT ![r.d] = r.doc]
      /\ lines' = Plus(lines, LinesOf(r, r.doc))
      /\ refunded' = refunded + Paid(r)
      /\ status' = r.status
      /\ req' = [req EXCEPT ![q] = NoRequest]
      /\ overlap' = overlap
  BY DEF Commit, StatusWritten
<1> HIDE DEF r
<1>3. Tables'
  <2>1. r.doc.qty \in Nat
    BY <1>1, OrderAssumption DEF Doc
  <2>2. Plus(lines, LinesOf(r, r.doc)) \in [returned : Nat, restocked : Nat]
    BY <2>1 DEF Plus, LinesOf, RInv, Tables
  <2>3. refunded + Paid(r) \in Nat
    BY <1>1, PaidTyped DEF RInv, Tables
  <2> QED
    BY <1>1, <1>2, <2>2, <2>3 DEF RInv, Tables
<1>4. DOMAIN req' = Reqs /\ \A p \in Reqs : Sound(req'[p])
  BY <1>2 DEF RInv, Sound, NoRequest
<1>5. NoSettledReturnLeftOpen'
  <2>1. \A d \in Returns : ret'[d] = ret[d] \/ ret'[d] = r.doc
    BY <1>2 DEF RInv, Tables
  <2> QED
    BY <1>1, <2>1 DEF RInv, NoSettledReturnLeftOpen, Completes
<1> QED
  BY <1>3, <1>4, <1>5 DEF RInv, Sound, Typed, Completes

\* A transaction that fails leaves the committed rows alone.
LEMMA FailKeeps ==
    ASSUME RInv, NEW q \in Reqs, Fail(q)
    PROVE  RInv'
<1>1. Sound(NoRequest)
  BY DEF Sound, NoRequest
<1> QED
  BY <1>1, RequestStep DEF Fail

\* Every step keeps the invariant.
LEMMA RInvInductive == RInv /\ [Next]_vars => RInv'
<1> SUFFICES ASSUME RInv, [Next]_vars PROVE RInv'
  OBVIOUS
<1>1. ASSUME NEW q \in Reqs, NEW d \in Returns, ReadCreate(q, d) \/ ReadReturn(q, d)
      PROVE  RInv'
  BY <1>1, ReadKeeps
<1>3. ASSUME NEW q \in Reqs, Begin(q) PROVE RInv'
  BY <1>3, BeginKeeps
<1>4. ASSUME NEW q \in Reqs, Write(q) PROVE RInv'
  BY <1>4, WriteKeeps
<1>5. ASSUME NEW q \in Reqs, Commit(q) PROVE RInv'
  BY <1>5, CommitKeeps
<1>6. ASSUME NEW q \in Reqs, Fail(q) PROVE RInv'
  BY <1>6, FailKeeps
<1>7. CASE UNCHANGED vars
  BY <1>7 DEF vars, RInv, Tables, Sound, Typed, NoSettledReturnLeftOpen, Completes
<1> QED
  BY <1>1, <1>3, <1>4, <1>5, <1>6, <1>7 DEF Next

\* The invariant holds of every behaviour.
LEMMA RInvAlways == Spec => []RInv
<1> QED
  BY RInvInit, RInvInductive, PTL DEF Spec

-----------------------------------------------------------------------------
(* Requests whose transactions do not overlap.                             *)

\* The arguments a request of each kind comes with.
Shaped(x) ==
    /\ x.op = "create" => (x.restock => x.receive)
    /\ x.op = "receive" => x.receive /\ x.pay = "none"
    /\ x.op = "refund" => ~x.receive /\ ~x.restock
    /\ x.op \in {"cancel", "complete"} => ~x.receive /\ ~x.restock /\ x.pay = "none"

\* A return that is being drawn up is nobody else's.
Fits(q, x) ==
    /\ Shaped(x)
    /\ x.op = "create" => ret[x.d] = NoReturn
    /\ \A p \in Reqs \ {q} :
          Active(p) /\ "create" \in {x.op, req[p].op} => req[p].d # x.d

\* What a transaction checked at its beginning is still true at its end.
Alone(q, x) ==
    /\ \A p \in Reqs \ {q} : ~InTransaction(p)
    /\ Receivable(x) /\ Refundable(x)

\* What a transaction has written, in terms of the tables of now.
Outcome(x) ==
    /\ x.doc.qty = Before(x).qty /\ x.doc.amount = Before(x).amount
    /\ x.doc.received = (Before(x).received \/ x.receive)
    /\ x.doc.restocked = (IF x.receive THEN x.restock ELSE Before(x).restocked)
    /\ x.doc.refunded = Before(x).refunded + Paid(x)
    /\ x.status = Statuses(Plus(lines, LinesOf(x, x.doc)), refunded + Paid(x),
                           Open \ {x.d} # {} \/ x.doc.status = "in_progress")

Claim(q, x) ==
    /\ x.pc # "idle" => Fits(q, x)
    /\ x.pc \in {"tx", "written"} => Alone(q, x)
    /\ x.pc = "written" => Outcome(x)

Claims == \A q \in Reqs : Claim(q, req[q])

ReceivedUnits == [d \in Returns |-> IF ret[d].received THEN ret[d].qty ELSE 0]
RestockedUnits == [d \in Returns |-> IF ret[d].restocked THEN ret[d].qty ELSE 0]

Books ==
    /\ \A d \in Returns : ret[d].restocked => ret[d].received
    /\ lines.returned = SumFunctionOnSet(ReceivedUnits, Returns)
    /\ lines.restocked = SumFunctionOnSet(RestockedUnits, Returns)
    /\ \A d \in Returns : ret[d].refunded <= ret[d].amount
    /\ status = Statuses(lines, refunded, Open # {})

OInv == RInv /\ (overlap # "transactions" => Claims /\ Books)

\* The invariant holds what the two properties promise.
LEMMA BooksSay ==
    ASSUME OInv
    PROVE  ReceivedAndRefundedOnce /\ StatusesDerived
<1> SUFFICES ASSUME overlap # "transactions"
             PROVE  /\ lines = [returned |-> Units(LAMBDA r : r.received),
                                restocked |-> Units(LAMBDA r : r.restocked)]
                    /\ \A d \in Returns : ret[d].refunded <= ret[d].amount
                    /\ status = Statuses(lines, refunded, Open # {})
  BY DEF ReceivedAndRefundedOnce, StatusesDerived
<1>1. Units(LAMBDA r : r.received) = SumFunctionOnSet(ReceivedUnits, Returns)
  BY DEF Units, ReceivedUnits
<1>2. Units(LAMBDA r : r.restocked) = SumFunctionOnSet(RestockedUnits, Returns)
  BY DEF Units, RestockedUnits
<1>3. Books /\ lines \in [returned : Nat, restocked : Nat]
  BY DEF OInv, RInv, Tables
<1>4. lines = [returned |-> lines.returned, restocked |-> lines.restocked]
  BY <1>3
<1> QED
  BY <1>1, <1>2, <1>3, <1>4 DEF Books

\* At the start nothing was received, refunded or claimed.
LEMMA OInvInit == Init => OInv
<1> SUFFICES ASSUME Init PROVE OInv
  OBVIOUS
<1>1. Claims
  BY DEF Init, Claims, Claim, NoRequest
<1>2. \A d \in Returns : ret[d] = NoReturn
  BY DEF Init
<1>3. Open = {}
  BY <1>2 DEF Open, NoReturn
<1>4. /\ SumFunctionOnSet(ReceivedUnits, Returns) = 0
      /\ SumFunctionOnSet(RestockedUnits, Returns) = 0
  <2>1. \A d \in Returns : ReceivedUnits[d] = 0
    BY <1>2 DEF ReceivedUnits, NoReturn
  <2>2. \A d \in Returns : RestockedUnits[d] = 0
    BY <1>2 DEF RestockedUnits, NoReturn
  <2> QED
    BY <2>1, <2>2, SumOfZeros, ReturnsAssumption
<1>5. Books
  <2>1. \A d \in Returns : ~ret[d].restocked /\ ret[d].refunded <= ret[d].amount
    BY <1>2 DEF NoReturn
  <2>2. lines.returned = 0 /\ lines.restocked = 0 /\ refunded = 0
    BY DEF Init
  <2>3. status = Statuses(lines, refunded, Open # {})
    BY <1>3 DEF Init
  <2> QED
    BY <1>4, <2>1, <2>2, <2>3 DEF Books
<1> QED
  BY <1>1, <1>5, RInvInit DEF OInv

\* Where the tables stay as they are, it is enough to look at the request that
\* takes the step: what it claims of the others is what they claim of it.
LEMMA ClaimsKept ==
    ASSUME RInv, Claims, NEW q \in Reqs, NEW x, Claim(q, x),
           req' = [req EXCEPT ![q] = x],
           UNCHANGED <<ret, lines, refunded, status, overlap>>
    PROVE  Claims'
<1>1. \A p \in Reqs : req'[p] = IF p = q THEN x ELSE req[p]
  BY DEF RInv
<1>2. ASSUME NEW p \in Reqs PROVE Claim(p, req[p])'
  <2>1. (req[p].pc # "idle" => Fits(p, req[p]))'
    <3>1. CASE p = q
      BY <1>1, <3>1 DEF Claim, Fits, Shaped, Active
    <3>2. CASE p # q
      <4>1. req'[p] = req[p] /\ Claim(p, req[p])
        BY <1>1, <3>2 DEF Claims
      <4>2. req[p].pc # "idle" /\ x.pc # "idle" /\ "create" \in {req[p].op, x.op}
            => x.d # req[p].d
        BY <3>2, <4>1 DEF Claim, Fits, Active
      <4> QED
        BY <1>1, <3>2, <4>1, <4>2 DEF Claim, Fits, Shaped, Active
    <3> QED
      BY <3>1, <3>2
  <2>2. (req[p].pc \in {"tx", "written"} => Alone(p, req[p]))'
    <3>1. CASE p = q
      BY <1>1, <3>1 DEF Claim, Alone, InTransaction, Receivable, Refundable, Left
    <3>2. CASE p # q
      <4>1. req'[p] = req[p] /\ Claim(p, req[p])
        BY <1>1, <3>2 DEF Claims
      <4>2. req[p].pc \in {"tx", "written"} => ~(x.pc \in {"tx", "written"})
        BY <3>2, <4>1 DEF Claim, Alone, InTransaction
      <4> QED
        BY <1>1, <3>2, <4>1, <4>2
           DEF Claim, Alone, InTransaction, Receivable, Refundable, Left
    <3> QED
      BY <3>1, <3>2
  <2>3. (req[p].pc = "written" => Outcome(req[p]))'
    <3>1. (req'[p] = req[p] \/ req'[p] = x) /\ Claim(p, req[p]) /\ Claim(q, x)
      BY <1>1 DEF Claims
    <3> QED
      BY <3>1 DEF Claim, Outcome, Before, Open, LinesOf, Plus, Paid, Statuses,
                  DeriveReturnStatus
  <2> QED
    BY <2>1, <2>2, <2>3 DEF Claim
<1> QED
  BY <1>2 DEF Claims

\* A step that changes one request alone keeps the whole invariant.
LEMMA QuietStep ==
    ASSUME OInv, RInv', NEW q \in Reqs, NEW x, overlap # "transactions" => Claim(q, x),
           req' = [req EXCEPT ![q] = x],
           UNCHANGED <<ret, lines, refunded, status, overlap>>
    PROVE  OInv'
<1> SUFFICES ASSUME overlap # "transactions" PROVE Claims' /\ Books'
  BY DEF OInv
<1>1. Claims'
  BY ClaimsKept DEF OInv
<1>2. Books'
  BY DEF OInv, Books, ReceivedUnits, RestockedUnits, Open
<1> QED
  BY <1>1, <1>2

\* A request that starts takes a return nobody is drawing up, and draws up one
\* that nobody is at.
LEMMA ReadClaims ==
    ASSUME OInv, NEW q \in Reqs, NEW d \in Returns,
           ReadCreate(q, d) \/ ReadReturn(q, d)
    PROVE  OInv'
<1> DEFINE Starts(r) == req' = [req EXCEPT ![q] = r]
<1>1. ASSUME NEW op \in Ops, NEW n \in 0..OrderQty, NEW a \in 0..OrderTotal,
             NEW receive \in BOOLEAN, NEW restock \in BOOLEAN, NEW pay \in Means,
             Starts(Request(op, d, n, a, receive, restock, pay)),
             Shaped(Request(op, d, n, a, receive, restock, pay)),
             IF op = "create"
             THEN ret[d] = NoReturn /\ \A p \in Reqs : Active(p) => req[p].d # d
             ELSE ret[d].status = "in_progress"
      PROVE  OInv'
  <2> DEFINE x == Request(op, d, n, a, receive, restock, pay)
  <2>1. x.pc = "read" /\ x.op = op /\ x.d = d
    BY DEF Request
  <2>2. UNCHANGED <<ret, lines, refunded, status, overlap>>
    BY DEF ReadCreate, ReadReturn
  <2>3. Claims => Claim(q, x)
    <3> SUFFICES ASSUME Claims,
                        NEW p \in Reqs, Active(p), "create" \in {op, req[p].op}
                 PROVE  req[p].d # d
      BY <1>1, <2>1 DEF Claim, Fits
    <3>1. CASE op = "create"
      BY <1>1, <3>1
    <3>2. CASE op # "create"
      <4>1. ret[req[p].d] = NoReturn
        BY <3>2 DEF Claims, Claim, Fits, Active
      <4> QED
        BY <1>1, <3>2, <4>1 DEF NoReturn
    <3> QED
      BY <3>1, <3>2
  <2>4. RInv'
    BY ReadKeeps DEF OInv
  <2> HIDE DEF x
  <2> QED
    BY <1>1, <2>2, <2>3, <2>4, QuietStep DEF x, OInv
<1>2. /\ 0 \in 0..OrderQty /\ 0 \in 0..OrderTotal
      /\ 1..OrderTotal \subseteq 0..OrderTotal
      /\ {"create", "receive", "refund", "cancel", "complete"} \subseteq Ops
      /\ "none" \in Means
  BY OrderAssumption DEF Ops, Means
<1>3. CASE ReadCreate(q, d)
  <2>1. PICK n \in 0..OrderQty, a \in 0..OrderTotal, receive \in BOOLEAN,
             restock \in BOOLEAN, pay \in Means :
             /\ Starts(Request("create", d, n, a, receive, restock, pay))
             /\ restock => receive
    BY <1>3 DEF ReadCreate
  <2>2. Shaped(Request("create", d, n, a, receive, restock, pay))
    BY <2>1 DEF Shaped, Request
  <2>3. ret[d] = NoReturn /\ \A p \in Reqs : Active(p) => req[p].d # d
    BY <1>3 DEF ReadCreate
  <2> QED
    BY <1>1, <1>2, <2>1, <2>2, <2>3
<1>4. CASE ReadReturn(q, d)
  <2>1. CASE \E restock \in BOOLEAN :
                 Starts(Request("receive", d, 0, 0, TRUE, restock, "none"))
    <3>1. \A restock \in BOOLEAN : Shaped(Request("receive", d, 0, 0, TRUE, restock, "none"))
      BY DEF Shaped, Request
    <3> QED
      BY <1>1, <1>2, <1>4, <2>1, <3>1 DEF ReadReturn
  <2>2. CASE \E a \in 1..OrderTotal, pay \in Means :
                 Starts(Request("refund", d, 0, a, FALSE, FALSE, pay))
    <3>1. \A a \in 1..OrderTotal, pay \in Means :
              Shaped(Request("refund", d, 0, a, FALSE, FALSE, pay))
      BY DEF Shaped, Request
    <3> QED
      BY <1>1, <1>2, <1>4, <2>2, <3>1 DEF ReadReturn
  <2>3. CASE Starts(Request("cancel", d, 0, 0, FALSE, FALSE, "none"))
    <3>1. Shaped(Request("cancel", d, 0, 0, FALSE, FALSE, "none"))
      BY DEF Shaped, Request
    <3> QED
      BY <1>1, <1>2, <1>4, <2>3, <3>1 DEF ReadReturn
  <2>4. CASE Starts(Request("complete", d, 0, 0, FALSE, FALSE, "none"))
    <3>1. Shaped(Request("complete", d, 0, 0, FALSE, FALSE, "none"))
      BY DEF Shaped, Request
    <3> QED
      BY <1>1, <1>2, <1>4, <2>4, <3>1 DEF ReadReturn
  <2> QED
    BY <1>4, <2>1, <2>2, <2>3, <2>4 DEF ReadReturn
<1> QED
  BY <1>3, <1>4

\* What a request is about, its transaction does not change.
LEMMA SameRequest ==
    ASSUME NEW q \in Reqs, NEW r, NEW x,
           \A f \in Asked \ {"pc", "doc", "status"} : x[f] = r[f],
           Fits(q, r), Alone(q, r)
    PROVE  Fits(q, x) /\ Alone(q, x)
<1>1. /\ x.op = r.op /\ x.d = r.d /\ x.amount = r.amount
      /\ x.receive = r.receive /\ x.restock = r.restock /\ x.pay = r.pay
  BY DEF Asked
<1> QED
  BY <1>1 DEF Fits, Alone, Shaped, Receivable, Refundable

\* A second read claims what the transaction is about to write.
LEMMA BeginClaims ==
    ASSUME OInv, NEW q \in Reqs, Begin(q)
    PROVE  OInv'
<1> DEFINE r == req[q]
           x == [req[q] EXCEPT !.pc = "tx"]
<1>1. r.pc = "read" /\ Typed(r)
  BY DEF Begin, OInv, RInv, Sound
<1>2. req' = [req EXCEPT ![q] = x] /\ UNCHANGED <<ret, lines, refunded, status, overlap>>
  BY DEF Begin
<1>3. /\ x.pc = "tx"
      /\ \A f \in Asked \ {"pc", "doc", "status"} : x[f] = r[f]
  BY <1>1 DEF Typed, Asked
<1>4. ASSUME overlap # "transactions" PROVE Claim(q, x)
  <2>1. Alone(q, r)
    BY <1>4 DEF Begin, Alone
  <2>2. Fits(q, r)
    BY <1>1, <1>4 DEF OInv, Claims, Claim
  <2> HIDE DEF x, r
  <2> QED
    BY <1>3, <2>1, <2>2, SameRequest DEF Claim
<1>5. RInv'
  BY BeginKeeps DEF OInv
<1> HIDE DEF x
<1> QED
  BY <1>2, <1>4, <1>5, QuietStep

\* The transaction writes what its request asks for.
LEMMA WriteClaims ==
    ASSUME OInv, NEW q \in Reqs, Write(q)
    PROVE  OInv'
<1> DEFINE r == req[q]
           doc == Settled(r)
           S == Statuses(Plus(lines, LinesOf(r, doc)), refunded + Paid(r),
                         Open \ {r.d} # {} \/ doc.status = "in_progress")
           x == [r EXCEPT !.pc = "written", !.doc = doc, !.status = S]
<1>1. req' = [req EXCEPT ![q] = x] /\ UNCHANGED <<ret, lines, refunded, status, overlap>>
  BY DEF Write
<1>2. r.pc = "tx" /\ Typed(r) /\ ret \in [Returns -> Doc]
  BY DEF Write, OInv, RInv, Sound, Tables
<1>3. /\ doc.qty = Before(r).qty /\ doc.amount = Before(r).amount
      /\ doc.received = (Before(r).received \/ r.receive)
      /\ doc.restocked = (IF r.receive THEN r.restock ELSE Before(r).restocked)
      /\ doc.refunded = Before(r).refunded + Paid(r)
  <2>1. Before(r) \in Doc
    BY <1>2, OrderAssumption DEF Before, NoReturn, Doc, Typed
  <2> DEFINE w == Written(r)
  <2>2. /\ w.qty = Before(r).qty /\ w.amount = Before(r).amount
        /\ w.received = (Before(r).received \/ r.receive)
        /\ w.restocked = (IF r.receive THEN r.restock ELSE Before(r).restocked)
        /\ w.refunded = Before(r).refunded + Paid(r)
    BY <2>1 DEF Written, Doc
  <2>3. w \in Doc
    BY <1>2, WrittenTyped
  <2>4. doc = w \/ doc = [w EXCEPT !.status = "completed"]
    BY DEF Settled
  <2> HIDE DEF w, doc, r
  <2> QED
    BY <2>2, <2>3, <2>4 DEF Doc
<1>4. /\ x.pc = "written" /\ x.doc = doc /\ x.status = S
      /\ \A f \in Asked \ {"pc", "doc", "status"} : x[f] = r[f]
  BY <1>2 DEF Typed, Asked
<1>5. ASSUME overlap # "transactions" PROVE Claim(q, x)
  <2>1. Fits(q, r) /\ Alone(q, r)
    BY <1>2, <1>5 DEF OInv, Claims, Claim
  <2> HIDE DEF x, r, doc, S
  <2>2. Fits(q, x) /\ Alone(q, x)
    BY <1>4, <2>1, SameRequest
  <2>3. /\ x.op = r.op /\ x.d = r.d /\ x.qty = r.qty /\ x.amount = r.amount
        /\ x.receive = r.receive /\ x.restock = r.restock /\ x.pay = r.pay
    BY <1>4 DEF Asked
  <2>4. /\ Before(x) = Before(r) /\ Paid(x) = Paid(r)
        /\ LinesOf(x, doc) = LinesOf(r, doc)
    BY <2>3 DEF Before, Paid, LinesOf
  <2>5. Outcome(x)
    BY <1>3, <1>4, <2>3, <2>4 DEF Outcome, S
  <2> QED
    BY <2>2, <2>5 DEF Claim
<1>6. RInv'
  BY WriteKeeps DEF OInv
<1> HIDE DEF x
<1> QED
  BY <1>1, <1>5, <1>6, QuietStep

\* A failure gives up the claim and nothing else.
LEMMA FailClaims ==
    ASSUME OInv, NEW q \in Reqs, Fail(q)
    PROVE  OInv'
<1>1. Claim(q, NoRequest)
  BY DEF Claim, NoRequest
<1>2. RInv'
  BY FailKeeps DEF OInv
<1> QED
  BY <1>1, <1>2, QuietStep DEF Fail

\* A commit leaves the claims of the others true: none of them is inside its
\* transaction, and none draws up the return that is committed.
LEMMA CommitClaims ==
    ASSUME OInv, overlap # "transactions", NEW q \in Reqs, Commit(q)
    PROVE  Claims'
<1>1. /\ req[q].pc = "written" /\ req[q].d \in Returns
      /\ Fits(q, req[q]) /\ Alone(q, req[q])
  BY DEF Commit, OInv, RInv, Sound, Typed, Claims, Claim
<1>2. /\ \A p \in Reqs : req'[p] = IF p = q THEN NoRequest ELSE req[p]
      /\ \A d \in Returns \ {req[q].d} : ret'[d] = ret[d]
  BY DEF Commit, OInv, RInv, Tables
<1>3. ASSUME NEW p \in Reqs PROVE Claim(p, req[p])'
  <2>1. CASE p = q
    BY <1>2, <2>1 DEF Claim, NoRequest
  <2>2. CASE p # q
    <3>1. req'[p] = req[p] /\ Claim(p, req[p]) /\ ~InTransaction(p) /\ Sound(req[p])
      BY <1>1, <1>2, <2>2 DEF Alone, OInv, RInv, Claims
    <3>2. CASE req[p].pc = "idle"
      BY <3>1, <3>2 DEF Claim
    <3>3. CASE req[p].pc # "idle"
      <4>1. Fits(p, req[p]) /\ req[p].d \in Returns
        BY <3>1, <3>3 DEF Claim, Sound, Typed, InTransaction
      <4>2. req[p].op = "create" => req[p].d # req[q].d
        BY <1>1, <2>2, <3>3 DEF Fits, Active
      <4>3. Fits(p, req[p])'
        <5>1. Shaped(req[p])'
          BY <3>1, <4>1 DEF Fits, Shaped
        <5>2. (req[p].op = "create" => ret[req[p].d] = NoReturn)'
          BY <1>2, <3>1, <4>1, <4>2 DEF Fits
        <5>3. ASSUME NEW b \in Reqs \ {p}, Active(b)',
                     "create" \in {req'[p].op, req'[b].op}
              PROVE  req'[b].d # req'[p].d
          <6>1. b # q /\ req'[b] = req[b]
            BY <1>2, <5>3 DEF Active, NoRequest
          <6> QED
            BY <3>1, <4>1, <5>3, <6>1 DEF Fits, Active
        <5> QED
          BY <5>1, <5>2, <5>3 DEF Fits
      <4> QED
        BY <3>1, <4>3 DEF Claim, InTransaction
    <3> QED
      BY <3>2, <3>3
  <2> QED
    BY <2>1, <2>2
<1> QED
  BY <1>3 DEF Claims

\* A commit adds to the order what its return has gained.
LEMMA CommitBooks ==
    ASSUME OInv, overlap # "transactions", NEW q \in Reqs, Commit(q)
    PROVE  Books'
<1> DEFINE r == req[q]
           d == r.d
           old == ret[d]
           new == r.doc
<1>1. /\ Typed(r) /\ new \in Doc /\ d \in Returns /\ old \in Doc
      /\ ret \in [Returns -> Doc]
      /\ lines \in [returned : Nat, restocked : Nat] /\ refunded \in Nat
  BY DEF Commit, OInv, RInv, Sound, Typed, Tables
<1>2. /\ ret' = [ret EXCEPT ![d] = new]
      /\ lines' = Plus(lines, LinesOf(r, new))
      /\ refunded' = refunded + Paid(r)
      /\ status' = r.status
  BY DEF Commit, StatusWritten
<1>3. Shaped(r) /\ Receivable(r) /\ Refundable(r) /\ Outcome(r)
  BY DEF Commit, OInv, Claims, Claim, Fits, Alone
<1>4. r.op = "create" => old = NoReturn
  BY DEF Commit, OInv, Claims, Claim, Fits
<1>5. Books
  BY DEF OInv
<1> DEFINE before == Before(r)
<1>6. /\ new.qty = before.qty /\ new.amount = before.amount
      /\ new.received = (before.received \/ r.receive)
      /\ new.restocked = (IF r.receive THEN r.restock ELSE before.restocked)
      /\ new.refunded = before.refunded + Paid(r)
  BY <1>3 DEF Outcome
<1>7. r.op = "create" =>
         /\ before.qty = r.qty /\ before.amount = r.amount
         /\ ~before.received /\ ~before.restocked /\ before.refunded = 0
         /\ ~old.received /\ ~old.restocked
  BY <1>4 DEF Before, NoReturn
<1>8. r.op # "create" => before = old
  BY DEF Before
<1>9. r.op \in {"create", "receive", "refund", "cancel", "complete"}
  BY <1>1 DEF Typed, Ops
<1>10. r.receive => ~old.received /\ ~old.restocked
  BY <1>1, <1>3, <1>5, <1>7, <1>9 DEF Shaped, Receivable, Books
<1>11. /\ r.receive => new.received /\ new.restocked = r.restock
       /\ ~r.receive => /\ new.received = old.received
                        /\ new.restocked = old.restocked
                        /\ new.received => new.qty = old.qty
                        /\ new.restocked => new.qty = old.qty
  BY <1>6, <1>7, <1>8, <1>1 DEF Doc
<1>12. ~r.receive => ~r.restock
  BY <1>3, <1>9 DEF Shaped
<1>13. new.qty \in Nat /\ old.qty \in Nat
  BY <1>1, OrderAssumption DEF Doc
<1>14. \A c \in Returns : ret'[c] = IF c = d THEN new ELSE ret[c]
  BY <1>1, <1>2
<1>15. \A c \in Returns : ret[c].qty \in Int /\ ret'[c].qty \in Int
  BY <1>1, <1>14, OrderAssumption DEF Doc
<1>16. ~old.received => old.restocked = FALSE
  BY <1>1, <1>5 DEF Books, Doc
<1> HIDE DEF r, d, old, new, before
<1>17. lines'.returned = SumFunctionOnSet(ReceivedUnits', Returns)
  <2> DEFINE f == ReceivedUnits
             g == ReceivedUnits'
             gain == IF r.receive THEN new.qty ELSE 0
  <2>1. f = [c \in Returns |-> IF ret[c].received THEN ret[c].qty ELSE 0]
    BY DEF ReceivedUnits
  <2>2. g = [c \in Returns |-> IF ret'[c].received THEN ret'[c].qty ELSE 0]
    BY DEF ReceivedUnits
  <2>3. g[d] - f[d] = gain
    BY <1>1, <1>10, <1>11, <1>13, <1>14, <2>1, <2>2 DEF old
  <2>4. \A c \in Returns : f[c] \in Int /\ g[c] \in Int
    BY <1>15, <2>1, <2>2
  <2>5. \A c \in Returns \ {d} : g[c] = f[c]
    BY <1>14, <2>1, <2>2
  <2>6. d \in Returns
    BY <1>1
  <2> HIDE DEF f, g
  <2>7. SumFunctionOnSet(g, Returns) = SumFunctionOnSet(f, Returns) + g[d] - f[d]
    BY <2>4, <2>5, <2>6, ReturnsAssumption, SumChange
  <2>8. lines'.returned = lines.returned + gain
    BY <1>2 DEF Plus, LinesOf
  <2>9. lines.returned = SumFunctionOnSet(f, Returns) /\ lines.returned \in Int
    BY <1>1, <1>5 DEF Books, f
  <2>10. f[d] \in Int /\ g[d] \in Int
    BY <2>4, <2>6
  <2>11. lines'.returned = SumFunctionOnSet(g, Returns)
    BY <2>3, <2>7, <2>8, <2>9, <2>10
  <2> QED
    BY <2>11 DEF g
<1>18. lines'.restocked = SumFunctionOnSet(RestockedUnits', Returns)
  <2> DEFINE f == RestockedUnits
             g == RestockedUnits'
             gain == IF r.receive /\ r.restock THEN new.qty ELSE 0
  <2>1. f = [c \in Returns |-> IF ret[c].restocked THEN ret[c].qty ELSE 0]
    BY DEF RestockedUnits
  <2>2. g = [c \in Returns |-> IF ret'[c].restocked THEN ret'[c].qty ELSE 0]
    BY DEF RestockedUnits
  <2>3. g[d] - f[d] = gain
    BY <1>1, <1>10, <1>11, <1>13, <1>14, <2>1, <2>2 DEF old
  <2>4. \A c \in Returns : f[c] \in Int /\ g[c] \in Int
    BY <1>15, <2>1, <2>2
  <2>5. \A c \in Returns \ {d} : g[c] = f[c]
    BY <1>14, <2>1, <2>2
  <2>6. d \in Returns
    BY <1>1
  <2> HIDE DEF f, g
  <2>7. SumFunctionOnSet(g, Returns) = SumFunctionOnSet(f, Returns) + g[d] - f[d]
    BY <2>4, <2>5, <2>6, ReturnsAssumption, SumChange
  <2>8. lines'.restocked = lines.restocked + gain
    BY <1>2 DEF Plus, LinesOf
  <2>9. lines.restocked = SumFunctionOnSet(f, Returns) /\ lines.restocked \in Int
    BY <1>1, <1>5 DEF Books, f
  <2>10. f[d] \in Int /\ g[d] \in Int
    BY <2>4, <2>6
  <2>11. lines'.restocked = SumFunctionOnSet(g, Returns)
    BY <2>3, <2>7, <2>8, <2>9, <2>10
  <2> QED
    BY <2>11 DEF g
<1>19. ASSUME NEW c \in Returns
       PROVE  (ret'[c].restocked => ret'[c].received) /\ ret'[c].refunded <= ret'[c].amount
  <2>1. CASE c # d
    BY <1>5, <1>14, <2>1 DEF Books
  <2>2. new.restocked => new.received
    BY <1>1, <1>5, <1>11, <1>12 DEF Books, old
  <2>3. new.refunded <= new.amount
    <3>1. Paid(r) \in Nat
      BY <1>1, PaidTyped
    <3>2. Paid(r) = 0 \/ Paid(r) = r.amount
      BY DEF Paid
    <3>3. r.amount \in Nat /\ old.amount \in Nat /\ old.refunded \in Nat
      BY <1>1, OrderAssumption DEF Doc, Typed
    <3>4. old.refunded <= old.amount
      BY <1>1, <1>5 DEF Books, old
    <3>5. CASE r.op = "create"
      BY <1>6, <1>7, <3>1, <3>2, <3>3, <3>5
    <3>6. CASE r.op = "refund"
      <4>1. r.amount <= old.amount - old.refunded
        BY <1>3, <3>6 DEF Refundable, Left, old, d
      <4> QED
        BY <1>6, <1>8, <3>2, <3>3, <3>4, <3>6, <4>1
    <3>7. CASE r.op \in {"receive", "cancel", "complete"}
      <4>1. Paid(r) = 0
        BY <1>3, <3>7 DEF Paid, Shaped
      <4> QED
        BY <1>6, <1>8, <3>3, <3>4, <3>7, <4>1
    <3> QED
      BY <1>9, <3>5, <3>6, <3>7
  <2> QED
    BY <1>14, <2>1, <2>2, <2>3
<1>20. status' = Statuses(lines', refunded', Open' # {})
  <2>1. r.status = Statuses(Plus(lines, LinesOf(r, new)), refunded + Paid(r),
                            Open \ {d} # {} \/ new.status = "in_progress")
    BY <1>3 DEF Outcome, new, d
  <2>2. (Open \ {d} # {} \/ new.status = "in_progress") <=> Open' # {}
    BY <1>1, <1>14 DEF Open
  <2> HIDE DEF Open
  <2>3. (Open \ {d} # {} \/ new.status = "in_progress") = (Open' # {})
    BY <2>2
  <2> QED
    BY <1>2, <2>1, <2>3
<1> QED
  BY <1>17, <1>18, <1>19, <1>20 DEF Books

\* Every step keeps the claims apart and the statuses derived.
LEMMA OInvInductive == OInv /\ [Next]_vars => OInv'
<1> SUFFICES ASSUME OInv, [Next]_vars PROVE OInv'
  OBVIOUS
<1>1. ASSUME NEW q \in Reqs, NEW d \in Returns, ReadCreate(q, d) \/ ReadReturn(q, d)
      PROVE  OInv'
  BY <1>1, ReadClaims
<1>2. ASSUME NEW q \in Reqs, Begin(q) PROVE OInv'
  BY <1>2, BeginClaims
<1>3. ASSUME NEW q \in Reqs, Write(q) PROVE OInv'
  BY <1>3, WriteClaims
<1>4. ASSUME NEW q \in Reqs, Commit(q) PROVE OInv'
  <2>1. RInv'
    BY <1>4, CommitKeeps DEF OInv
  <2>2. overlap' = overlap
    BY <1>4 DEF Commit
  <2> QED
    BY <1>4, <2>1, <2>2, CommitClaims, CommitBooks DEF OInv
<1>5. ASSUME NEW q \in Reqs, Fail(q) PROVE OInv'
  BY <1>5, FailClaims
<1>6. CASE UNCHANGED vars
  <2>1. RInv'
    BY <1>6, RInvInductive DEF OInv
  <2>2. Claims => Claims'
    BY <1>6 DEF vars, Claims, Claim, Fits, Alone, Outcome, Shaped, Active, Before,
                InTransaction, Receivable, Refundable, Left, Open, LinesOf, Plus,
                Paid, Statuses, DeriveReturnStatus
  <2>3. Books => Books'
    BY <1>6 DEF vars, Books, ReceivedUnits, RestockedUnits, Open
  <2> QED
    BY <1>6, <2>1, <2>2, <2>3 DEF OInv, vars
<1> QED
  BY <1>1, <1>2, <1>3, <1>4, <1>5, <1>6 DEF Next

\* The invariant holds of every behaviour.
LEMMA OInvAlways == Spec => []OInv
<1> QED
  BY OInvInit, OInvInductive, PTL DEF Spec

\* The tables and the requests keep their types: no interleaving of the
\* handlers yields a refund of less than nothing, a status the schema does not
\* know or a document with more units than the order.
THEOREM ReturnsTypeCorrect == Spec => []TypeOK
<1> QED
  BY RInvAlways, RInvTypes, PTL

\* settle's promise for every value of the constants and every overlap: no
\* return is left in progress that has got its goods and all its money.
THEOREM SettledReturnsClose == Spec => []NoSettledReturnLeftOpen
<1>1. RInv => NoSettledReturnLeftOpen
  BY DEF RInv
<1> QED
  BY <1>1, RInvAlways, PTL

\* Where at most one transaction of the order runs at a time, requests may
\* overlap as they will: each return's goods come back and go on the level
\* once, and none refunds more than was agreed.
THEOREM GoodsAndMoneyOnce == Spec => []ReceivedAndRefundedOnce
<1> QED
  BY OInvAlways, BooksSay, PTL

\* Under the same condition recomputeOrderRefundStatuses, called at the end of
\* every transaction, leaves the statuses that the order's rows say.
THEOREM StatusesFollowReturns == Spec => []StatusesDerived
<1> QED
  BY OInvAlways, BooksSay, PTL

-----------------------------------------------------------------------------
(* Counting parcels, and what a status posts.                              *)

\* One parcel more or less in a set of parcels.
LEMMA CountMoves ==
    ASSUME IsFiniteSet(Parcels), NEW S \in SUBSET Parcels, NEW T \in SUBSET Parcels,
           NEW j \in Parcels, S \ {j} = T \ {j}
    PROVE  /\ Cardinality(S) \in Nat
           /\ Cardinality(T) = Cardinality(S) + (IF j \in T THEN 1 ELSE 0)
                                              - (IF j \in S THEN 1 ELSE 0)
<1>1. IsFiniteSet(S) /\ IsFiniteSet(T) /\ Cardinality(S) \in Nat /\ Cardinality(T) \in Nat
  BY FS_Subset, FS_CardinalityType
<1>2. CASE j \in S /\ j \notin T
  <2>1. T = S \ {j}
    BY <1>2
  <2> QED
    BY <1>1, <1>2, <2>1, FS_RemoveElement
<1>3. CASE j \notin S /\ j \in T
  <2>1. T = S \union {j}
    BY <1>3
  <2> QED
    BY <1>1, <1>3, <2>1, FS_AddElement
<1>4. CASE (j \in S) = (j \in T)
  <2>1. S = T
    BY <1>4
  <2> QED
    BY <1>1, <1>4, <2>1
<1> QED
  BY <1>2, <1>3, <1>4

\* The carrier's module posts as every other does.
LEMMA SamePosting ==
    ASSUME NEW l, NEW moves
    PROVE  /\ C!AfterLine(l, C!PostLine(moves)) = AfterLine(l, PostLine(moves))
           /\ C!LinePasses(l, C!PostLine(moves)) = LinePasses(l, PostLine(moves))
<1>1. C!LevelsAfter(l, moves) = LevelsAfter(l, moves)
  BY DEF C!LevelsAfter, LevelsAfter, C!Moved, Moved, C!SetBucketValue, SetBucketValue
<1>2. \A k, m : C!Refused(k, m) = Refused(k, m)
  BY DEF C!Refused, Refused, C!RefusedNegative, RefusedNegative, C!RefusedOversell,
         RefusedOversell, C!Moved, Moved, C!SetBucketValue, SetBucketValue,
         C!ComputeAvailable, ComputeAvailable, C!WorsensAvailable, WorsensAvailable,
         C!OrderLifecycleTypes, OrderLifecycleTypes
<1> QED
  BY <1>1, <1>2 DEF C!AfterLine, AfterLine, C!LinePasses, LinePasses, C!PostLine, PostLine

Posted(l, moves) == C!AfterLine(l, C!PostLine(moves))

\* One movement, and two of different buckets, on a level.
LEMMA OneEntry ==
    ASSUME NEW l, l \in Level, NEW x, x.bucket \in Buckets, x.change \in Int
    PROVE  /\ Posted(l, <<x>>) \in Level
           /\ Posted(l, <<x>>)[x.bucket] = l[x.bucket] + x.change
           /\ \A b \in Buckets \ {x.bucket} : Posted(l, <<x>>)[b] = l[b]
<1> DEFINE after == Posted(l, <<x>>)
<1>1. after = Moved(l, x)
  BY SamePosting, BatchOfOne DEF Posted
<1> HIDE DEF after
<1>2. /\ after \in Level /\ after[x.bucket] = l[x.bucket] + x.change
      /\ \A b \in Buckets \ {x.bucket} : after[b] = l[b]
  BY <1>1 DEF Moved, SetBucketValue, Level
<1> QED
  BY <1>2 DEF after

\* A posting of two movements of different buckets, read bucket by bucket.
LEMMA TwoEntries ==
    ASSUME NEW l, l \in Level, NEW x, x.bucket \in Buckets, x.change \in Int,
           NEW y, y.bucket \in Buckets, y.change \in Int, x.bucket # y.bucket
    PROVE  /\ Posted(l, <<x, y>>) \in Level
           /\ Posted(l, <<x, y>>)[x.bucket] = l[x.bucket] + x.change
           /\ Posted(l, <<x, y>>)[y.bucket] = l[y.bucket] + y.change
           /\ \A b \in Buckets \ {x.bucket, y.bucket} : Posted(l, <<x, y>>)[b] = l[b]
<1> DEFINE after == Posted(l, <<x, y>>)
           k == Moved(l, x)
<1>1. after = Moved(k, y)
  BY SamePosting, BatchOfTwo DEF Posted
<1>2. /\ k \in Level /\ k[x.bucket] = l[x.bucket] + x.change
      /\ \A b \in Buckets \ {x.bucket} : k[b] = l[b]
  BY DEF Moved, SetBucketValue, Level
<1> HIDE DEF after, k
<1>3. /\ after \in Level /\ after[y.bucket] = k[y.bucket] + y.change
      /\ \A b \in Buckets \ {y.bucket} : after[b] = k[b]
  BY <1>1, <1>2 DEF Moved, SetBucketValue, Level
<1>4. /\ after[x.bucket] = l[x.bucket] + x.change
      /\ after[y.bucket] = l[y.bucket] + y.change
      /\ \A b \in Buckets \ {x.bucket, y.bucket} : after[b] = l[b]
  BY <1>2, <1>3
<1> QED
  BY <1>3, <1>4 DEF after

\* A posting without movements changes nothing.
LEMMA NoEntry == ASSUME NEW l PROVE Posted(l, << >>) = l
<1> DEFINE moves == << >>
<1>1. Len(moves) = 0
  OBVIOUS
<1> HIDE DEF moves
<1>2. LevelsAfter(l, moves)[0] = l
  BY <1>1, LevelsUnfold
<1> QED
  BY <1>1, <1>2, SamePosting DEF Posted, AfterLine, PostLine, moves

Parcel == [status : C!Status \union {"none"}, open : BOOLEAN, packed : BOOLEAN,
           tracking : Parcels \union {0}]

\* Where a parcel of that status, packed or not, has its goods.
IsOut(r) == r.status \in C!Gone
IsPacked(r) == r.packed /\ r.status = "pending"
IsTaken(r) == IsOut(r) \/ r.status = "returned" \/ IsPacked(r)

One(p) == IF p THEN 1 ELSE 0

\* What a parcel may become next.
LEMMA NextStatus ==
    ASSUME NEW u, u \in C!Status, NEW s, s \in C!Allowed(u)
    PROVE  /\ s \in C!Status
           /\ u \in {"pending", "picked_up", "delivering", "retry_delivery", "returning"}
           /\ \/ s = "cancelled"
              \/ u = "pending" /\ s = "picked_up"
              \/ u = "picked_up" /\ s = "delivering"
              \/ u = "delivering" /\ s \in {"delivered", "retry_delivery"}
              \/ u = "retry_delivery" /\ s \in {"delivering", "returning"}
              \/ u = "returning" /\ s = "returned"
<1>1. u \notin C!Final /\ (s = "cancelled" \/ s \in C!Transitions[u])
  BY DEF C!Allowed
<1>2. C!Transitions[u] =
        CASE u = "pending" -> {"picked_up"}
          [] u = "picked_up" -> {"delivering"}
          [] u = "delivering" -> {"delivered", "retry_delivery"}
          [] u = "retry_delivery" -> {"delivering", "returning"}
          [] u = "returning" -> {"returned"}
          [] OTHER -> {}
  BY DEF C!Transitions
<1> QED
  BY <1>1, <1>2 DEF C!Status, C!Final

\* A status reached from the one before it posts what the goods' place has changed by.
LEMMA StatusPosts ==
    ASSUME NEW l, l \in Level, NEW r, r \in Parcel, NEW s, r.status # "none",
           s \in C!Allowed(r.status), NEW n, n.status = s, n.packed = r.packed
    PROVE  /\ Posted(l, C!Entries(r, s)) \in Level
           /\ Posted(l, C!Entries(r, s))["on_hand"]
                = l["on_hand"] + One(IsOut(r)) - One(IsOut(n))
           /\ Posted(l, C!Entries(r, s))["packed"]
                = l["packed"] + One(IsPacked(n)) - One(IsPacked(r))
           /\ Posted(l, C!Entries(r, s))["committed"]
                = l["committed"] + One(IsTaken(r)) - One(IsTaken(n))
<1> DEFINE u == r.status
           after == Posted(l, C!Entries(r, s))
<1>1. u \in C!Status /\ r.packed \in BOOLEAN
  BY DEF Parcel
<1>2. /\ s \in C!Status
      /\ u \in {"pending", "picked_up", "delivering", "retry_delivery", "returning"}
      /\ \/ s = "cancelled"
         \/ u = "pending" /\ s = "picked_up"
         \/ u = "picked_up" /\ s = "delivering"
         \/ u = "delivering" /\ s \in {"delivered", "retry_delivery"}
         \/ u = "retry_delivery" /\ s \in {"delivering", "returning"}
         \/ u = "returning" /\ s = "returned"
  BY <1>1, NextStatus
<1>3. /\ "on_hand" \in Buckets /\ "packed" \in Buckets /\ "committed" \in Buckets
      /\ l["on_hand"] \in Int /\ l["packed"] \in Int /\ l["committed"] \in Int
      /\ 1 \in Int /\ -1 \in Int
      /\ "on_hand" # "committed" /\ "packed" # "committed"
  BY DEF Buckets, Level
<1>4. CASE s = "picked_up"
  <2> DEFINE from == IF r.packed THEN "packed" ELSE "committed"
             a == C!Entry("on_hand", -1, "order_ship")
             b == C!Entry(from, -1, "order_ship")
  <2>1. C!Entries(r, s) = <<a, b>>
    BY <1>4 DEF C!Entries, C!ReservedBucket
  <2>2. from \in Buckets /\ from # "on_hand"
    BY <1>3
  <2> HIDE DEF from
  <2>3. a.bucket = "on_hand" /\ a.change = -1 /\ b.bucket = from /\ b.change = -1
    BY DEF C!Entry
  <2> HIDE DEF a, b
  <2>4. /\ after \in Level /\ after["on_hand"] = l["on_hand"] + (-1)
        /\ after[from] = l[from] + (-1)
        /\ \A c \in Buckets \ {"on_hand", from} : after[c] = l[c]
    BY <1>3, <2>1, <2>2, <2>3, TwoEntries
  <2> HIDE DEF after
  <2>5. /\ ~IsOut(r) /\ IsOut(n) /\ ~IsPacked(n) /\ IsTaken(n)
        /\ IsPacked(r) = r.packed /\ IsTaken(r) = r.packed
    BY <1>1, <1>2, <1>4 DEF IsOut, IsPacked, IsTaken, C!Gone
  <2>6. CASE r.packed
    BY <1>3, <2>4, <2>5, <2>6 DEF One, from, after
  <2>7. CASE ~r.packed
    BY <1>3, <2>4, <2>5, <2>7 DEF One, from, after
  <2> QED
    BY <2>6, <2>7
<1>5. CASE s = "cancelled" /\ u = "pending" /\ r.packed
  <2> DEFINE a == C!Entry("packed", -1, "packing_cancel")
             b == C!Entry("committed", 1, "packing_cancel")
  <2>1. C!Entries(r, s) = <<a, b>>
    BY <1>5 DEF C!Entries, C!Unpack
  <2>2. a.bucket = "packed" /\ a.change = -1 /\ b.bucket = "committed" /\ b.change = 1
    BY DEF C!Entry
  <2> HIDE DEF a, b
  <2>3. /\ after \in Level /\ after["on_hand"] = l["on_hand"]
        /\ after["packed"] = l["packed"] + (-1) /\ after["committed"] = l["committed"] + 1
    BY <1>3, <2>1, <2>2, TwoEntries
  <2> HIDE DEF after
  <2>4. ~IsOut(r) /\ ~IsOut(n) /\ IsPacked(r) /\ ~IsPacked(n) /\ IsTaken(r) /\ ~IsTaken(n)
    BY <1>5 DEF IsOut, IsPacked, IsTaken, C!Gone
  <2> QED
    BY <1>3, <2>3, <2>4 DEF One, after
<1>6. CASE s = "cancelled" /\ u = "pending" /\ ~r.packed
  <2>1. C!Entries(r, s) = << >>
    BY <1>6 DEF C!Entries, C!Unpack
  <2>2. after = l
    BY <2>1, NoEntry
  <2> HIDE DEF after
  <2>3. ~IsOut(r) /\ ~IsOut(n) /\ ~IsPacked(r) /\ ~IsPacked(n) /\ ~IsTaken(r) /\ ~IsTaken(n)
    BY <1>6 DEF IsOut, IsPacked, IsTaken, C!Gone
  <2> QED
    BY <1>3, <2>2, <2>3 DEF One, after
<1>7. CASE s = "cancelled" /\ u # "pending"
  <2> DEFINE a == C!Entry("on_hand", 1, "return_in")
             b == C!Entry("committed", 1, "order_reserve")
  <2>1. C!Entries(r, s) = <<a, b>>
    BY <1>7 DEF C!Entries
  <2>2. a.bucket = "on_hand" /\ a.change = 1 /\ b.bucket = "committed" /\ b.change = 1
    BY DEF C!Entry
  <2> HIDE DEF a, b
  <2>3. /\ after \in Level /\ after["on_hand"] = l["on_hand"] + 1
        /\ after["packed"] = l["packed"] /\ after["committed"] = l["committed"] + 1
    BY <1>3, <2>1, <2>2, TwoEntries
  <2> HIDE DEF after
  <2>4. IsOut(r) /\ ~IsOut(n) /\ ~IsPacked(r) /\ ~IsPacked(n) /\ IsTaken(r) /\ ~IsTaken(n)
    BY <1>2, <1>7 DEF IsOut, IsPacked, IsTaken, C!Gone
  <2> QED
    BY <1>3, <2>3, <2>4 DEF One, after
<1>8. CASE s = "returned"
  <2> DEFINE a == C!Entry("on_hand", 1, "return_in")
  <2>1. C!Entries(r, s) = <<a>>
    BY <1>8 DEF C!Entries
  <2>2. a.bucket = "on_hand" /\ a.change = 1
    BY DEF C!Entry
  <2> HIDE DEF a
  <2>3. /\ after \in Level /\ after["on_hand"] = l["on_hand"] + 1
        /\ after["packed"] = l["packed"] /\ after["committed"] = l["committed"]
    BY <1>3, <2>1, <2>2, OneEntry
  <2> HIDE DEF after
  <2>4. IsOut(r) /\ ~IsOut(n) /\ ~IsPacked(r) /\ ~IsPacked(n) /\ IsTaken(r) /\ IsTaken(n)
    BY <1>2, <1>8 DEF IsOut, IsPacked, IsTaken, C!Gone
  <2> QED
    BY <1>3, <2>3, <2>4 DEF One, after
<1>9. CASE s \notin {"picked_up", "cancelled", "returned"}
  <2>1. C!Entries(r, s) = << >>
    BY <1>9 DEF C!Entries
  <2>2. after = l
    BY <2>1, NoEntry
  <2> HIDE DEF after
  <2>3. IsOut(r) /\ IsOut(n) /\ ~IsPacked(r) /\ ~IsPacked(n) /\ IsTaken(r) /\ IsTaken(n)
    BY <1>2, <1>9 DEF IsOut, IsPacked, IsTaken, C!Gone
  <2> QED
    BY <1>3, <2>2, <2>3 DEF One, after
<1> QED
  BY <1>4, <1>5, <1>6, <1>7, <1>8, <1>9

\* Packing moves one unit from the order's goods to the packed ones.
LEMMA PackPosts ==
    ASSUME NEW l, l \in C!Level
    PROVE  /\ Posted(l, C!PackEntries) \in C!Level
           /\ Posted(l, C!PackEntries)["on_hand"] = l["on_hand"]
           /\ Posted(l, C!PackEntries)["committed"] = l["committed"] - 1
           /\ Posted(l, C!PackEntries)["packed"] = l["packed"] + 1
<1> DEFINE a == C!Entry("committed", -1, "packing_start")
           b == C!Entry("packed", 1, "packing_start")
           after == Posted(l, C!PackEntries)
<1>1. C!PackEntries = <<a, b>>
  BY DEF C!PackEntries
<1>2. a.bucket = "committed" /\ a.change = -1 /\ b.bucket = "packed" /\ b.change = 1
  BY DEF C!Entry
<1>3. /\ "on_hand" \in Buckets /\ "packed" \in Buckets /\ "committed" \in Buckets
      /\ -1 \in Int /\ 1 \in Int /\ "on_hand" # "committed" /\ "packed" # "committed"
      /\ l["committed"] \in Int
  BY DEF Buckets, C!Level, C!Buckets
<1>4. C!Level = Level
  BY DEF C!Level, Level, C!Buckets, Buckets
<1> HIDE DEF a, b
<1>5. /\ after \in Level
      /\ after["committed"] = l["committed"] + (-1) /\ after["packed"] = l["packed"] + 1
      /\ after["on_hand"] = l["on_hand"]
  BY <1>1, <1>2, <1>3, <1>4, TwoEntries
<1> HIDE DEF after
<1> QED
  BY <1>3, <1>4, <1>5 DEF after

-----------------------------------------------------------------------------
(* The parcels, the reports and the staff: what every step keeps.          *)

Known(r) == r.status # "none"

Doing(w) ==
    \/ w = C!NoWork
    \/ /\ w = [pc |-> w.pc, j |-> w.j, path |-> w.path, seen |-> w.seen]
       /\ w.pc \in {"apply", "reread"} /\ w.j \in Parcels
       /\ w.seen \in Parcel /\ Known(w.seen)

Asking(w) ==
    \/ w = C!NoWork
    \/ w = [pc |-> "push", j |-> w.j] /\ w.j \in Parcels
    \/ /\ w = [pc |-> "cancel", j |-> w.j, seen |-> w.seen]
       /\ w.j \in Parcels /\ w.seen \in Parcel /\ w.seen.status = "pending"
    \/ /\ w = [pc |-> "status", j |-> w.j, seen |-> w.seen, s |-> w.s]
       /\ w.j \in Parcels /\ w.seen \in Parcel
       /\ Known(w.seen) /\ w.s \in C!Allowed(w.seen.status)

CarrierTypes ==
    /\ C!TypeOK
    /\ work = [k \in Parcels |-> work[k]] /\ \A k \in Parcels : Doing(work[k])
    /\ Asking(staff)

\* A report and a record are about a parcel that was asked for, and a job or a
\* request about one that is recorded, or about to be.
Told(k) == (mail[k] # {} \/ queue[k] # << >>) => parcel[k] # "none"

Recorded(k) ==
    /\ ~Known(ship[k]) => ship[k] = C!NoShip
    /\ ship[k].open => Known(ship[k])
    /\ Known(ship[k]) => parcel[k] # "none" /\ ship[k].tracking # 0

Traced ==
    /\ \A k \in Parcels : Told(k) /\ Recorded(k)
    /\ \A k \in Parcels : work[k].pc # "idle" => Known(ship[work[k].j])
    /\ staff.pc = "push" => parcel[staff.j] # "none" /\ ~Known(ship[staff.j])
    /\ staff.pc \in {"cancel", "status"} => Known(ship[staff.j])

\* The staff's requests and the jobs of the queue take turns.
Apart == trouble # "staff" /\ staff.pc # "idle" => ~C!Working

Basics == CarrierTypes /\ Traced /\ Apart

Clean == trouble # "staff" /\ C!Unrecorded = {}

\* What a job or a request has read still stands when it posts.
Fresh(k) ==
    /\ ship[k].open <=> ship[k].status \notin C!Final \union {"none"}
    /\ Known(ship[k]) => ship[k].tracking = k
    /\ work[k].pc # "idle" => work[k].j = k
    /\ work[k].pc = "apply" => work[k].seen = ship[k] /\ ship[k].open

StaffFresh ==
    staff.pc \in {"cancel", "status"} => staff.seen = ship[staff.j] /\ ship[staff.j].open

Reading == (\A k \in Parcels : Fresh(k)) /\ StaffFresh

CarrierInv == Basics /\ (Clean => Reading /\ C!GoodsWhereStatusSays)

\* The module counts as every other does, and its parcels are the first numbers.
LEMMA SameCounting == \A S : C!Cardinality(S) = Cardinality(S)
BY DEF C!Cardinality, Cardinality

\* The parcels are numbered from one on.
LEMMA ParcelsCounted ==
    ASSUME C!CarrierAssumption
    PROVE  /\ IsFiniteSet(Parcels) /\ Parcels \subseteq Nat \ {0}
           /\ \E n \in Nat : Parcels = 1..n
<1>1. IsFiniteSet(Parcels)
  BY DEF C!CarrierAssumption, C!IsFiniteSet, IsFiniteSet
<1>2. Parcels = 1..Cardinality(Parcels)
  BY SameCounting DEF C!CarrierAssumption
<1>3. Cardinality(Parcels) \in Nat
  BY <1>1, FS_CardinalityType
<1> HIDE DEF C!CarrierAssumption
<1> QED
  BY <1>1, <1>2, <1>3

\* A report finds only parcels that were recorded (findByTracking and by the order's
\* name).
LEMMA LookupKnown ==
    ASSUME C!CarrierAssumption, Basics, NEW k, k \in Parcels, NEW j, j \in C!Lookup(k)
    PROVE  j \in Parcels /\ Known(ship[j])
<1>1. \A i \in Parcels : /\ ~Known(ship[i]) => ship[i].tracking = 0
                         /\ ship[i].open => Known(ship[i])
  BY DEF Basics, Traced, Recorded, C!NoShip
<1>2. k # 0
  BY ParcelsCounted
<1> DEFINE known == {i \in Parcels : ship[i].tracking = k}
<1>3. CASE known = {}
  <2>1. j \in C!Open
    BY <1>3 DEF C!Lookup
  <2> QED
    BY <1>1, <2>1 DEF C!Open
<1>4. CASE known # {}
  <2>1. j = C!Max(known)
    BY <1>4 DEF C!Lookup
  <2>2. PICK n \in Nat : Parcels = 1..n
    BY ParcelsCounted
  <2>3. known # {} /\ known \subseteq 0..n /\ known \subseteq Nat
    BY <1>4, <2>2
  <2> HIDE DEF known
  <2>5. PICK x \in known : \A y \in known : y <= x
    BY <2>2, <2>3, GreatestUpTo
  <2>6. x \in known /\ \A y \in known : x >= y
    BY <2>3, <2>5
  <2>7. C!Max(known) \in known
    BY <2>6 DEF C!Max
  <2> QED
    BY <1>1, <1>2, <2>1, <2>7 DEF known
<1> QED
  BY <1>3, <1>4

\* A job that has taken its next step, and one that has read again.
LEMMA JobMoves ==
    ASSUME NEW w, Doing(w), w.pc # "idle", NEW b
    PROVE  /\ Doing([w EXCEPT !.pc = "reread", !.path = b])
           /\ b \in Parcel /\ Known(b) => Doing([w EXCEPT !.pc = "apply", !.seen = b])
<1> DEFINE x == [w EXCEPT !.pc = "reread"]
           y == [w EXCEPT !.pc = "apply"]
<1>1. PICK p, j, q, n : /\ w = [pc |-> p, j |-> j, path |-> q, seen |-> n]
                        /\ j \in Parcels /\ n \in Parcel /\ Known(n)
  BY DEF Doing, C!NoWork
<1>2. /\ x = [pc |-> "reread", j |-> j, path |-> q, seen |-> n]
      /\ y = [pc |-> "apply", j |-> j, path |-> q, seen |-> n]
  BY <1>1
<1> HIDE DEF x, y
<1> DEFINE u == [x EXCEPT !.path = b]
           v == [y EXCEPT !.seen = b]
<1>3. /\ u = [pc |-> "reread", j |-> j, path |-> b, seen |-> n]
      /\ v = [pc |-> "apply", j |-> j, path |-> q, seen |-> b]
  BY <1>2
<1> HIDE DEF u, v
<1>4. Doing(u) /\ (b \in Parcel /\ Known(b) => Doing(v))
  BY <1>1, <1>3 DEF Doing
<1> QED
  BY <1>4 DEF u, v, x, y

\* Every step keeps the types of parcels, reports, jobs and stock.
LEMMA TypesStep ==
    ASSUME C!CarrierAssumption, Basics, C!Next
    PROVE  CarrierTypes'
<1> USE DEF CarrierTypes, C!TypeOK
<1>0. /\ CarrierTypes /\ Parcels \subseteq Nat \ {0}
      /\ \A s \in C!Status : s # "none"
  BY ParcelsCounted DEF Basics, C!Status
<1>1. ASSUME NEW k \in Parcels, NEW s \in C!Status, C!CarrierMoves(k, s) PROVE CarrierTypes'
  BY <1>0, <1>1 DEF C!CarrierMoves, C!Report, C!shop, C!memory
<1>2. ASSUME NEW k \in Parcels, NEW s \in C!Status, C!Deliver(k, s) PROVE CarrierTypes'
  BY <1>0, <1>2 DEF C!Deliver, C!shop
<1>3. ASSUME NEW k \in Parcels, C!Take(k) PROVE CarrierTypes'
  <2>1. CASE C!Lookup(k) = {}
    BY <1>0, <1>3, <2>1 DEF C!Take
  <2>2. CASE C!Lookup(k) # {}
    <3> DEFINE j == CHOOSE j \in C!Lookup(k) : TRUE
               s == Head(queue[k])
               seen == [ship[j] EXCEPT !.tracking = k]
               path == C!PathTo[seen.status][s]
               walk == [pc |-> "apply", j |-> j, path |-> path, seen |-> seen]
    <3>1. /\ ship' = [ship EXCEPT ![j] = seen]
          /\ work' = IF s = seen.status \/ ~seen.open \/ path = << >> THEN work
                     ELSE [work EXCEPT ![k] = walk]
          /\ UNCHANGED <<trouble, parcel, mail, connected, staff, level>>
          /\ queue' = [queue EXCEPT ![k] = Tail(@)] /\ queue[k] # << >>
      BY <1>3, <2>2 DEF C!Take
    <3>2. j \in C!Lookup(k)
      BY <2>2
    <3> HIDE DEF j
    <3>3. j \in Parcels /\ Known(ship[j])
      BY <3>2, LookupKnown
    <3>4. seen \in Parcel /\ Known(seen)
      BY <1>0, <3>3 DEF Parcel, Known
    <3> HIDE DEF seen, path, s
    <3>5. Doing(walk)
      BY <3>3, <3>4 DEF Doing
    <3> HIDE DEF walk
    <3>6. work' = [i \in Parcels |-> work'[i]] /\ \A i \in Parcels : Doing(work'[i])
      BY <1>0, <3>1, <3>5
    <3>7. ship' \in [Parcels -> Parcel]
      BY <1>0, <3>1, <3>3, <3>4 DEF Parcel
    <3>8. queue' \in [Parcels -> Seq(C!Status)]
      BY <1>0, <3>1
    <3> QED
      BY <1>0, <3>1, <3>6, <3>7, <3>8 DEF Parcel
  <2> QED
    BY <2>1, <2>2
<1>4. ASSUME NEW j, j \in Parcels, NEW r, r \in Parcel, Known(r), NEW s, s \in C!Allowed(r.status),
             C!Applies(j, r, s)
      PROVE  level' \in C!Level /\ ship' \in [Parcels -> Parcel]
  <2> DEFINE n == [r EXCEPT !.status = s]
             m == [ship[j] EXCEPT !.status = s, !.open = ship[j].open /\ s \notin C!Final]
  <2>1. level' = Posted(level, C!Entries(r, s)) /\ ship' = [ship EXCEPT ![j] = m]
    BY <1>4 DEF C!Applies, Posted
  <2>2. n.status = s /\ n.packed = r.packed
    BY <1>4 DEF Parcel
  <2>3. r.status \in C!Status
    BY <1>4 DEF Parcel, Known
  <2>4. s \in C!Status
    BY <1>4, <2>3, NextStatus
  <2>5. m \in Parcel
    BY <1>0, <1>4, <2>4 DEF Parcel
  <2> HIDE DEF n, m
  <2>6. level \in Level
    BY <1>0 DEF C!Level, Level, C!Buckets, Buckets
  <2>7. Posted(level, C!Entries(r, s)) \in Level
    BY <1>4, <2>2, <2>6, StatusPosts DEF Known
  <2>8. level' \in C!Level
    BY <2>1, <2>7 DEF C!Level, Level, C!Buckets, Buckets
  <2> QED
    BY <1>0, <1>4, <2>1, <2>5, <2>8 DEF Parcel
<1>5. ASSUME NEW k \in Parcels, C!Apply(k) PROVE CarrierTypes'
  <2> DEFINE w == work[k]
             x == [w EXCEPT !.pc = "reread", !.path = Tail(w.path)]
  <2>1. /\ w.pc = "apply" /\ Head(w.path) \in C!Allowed(w.seen.status)
        /\ C!Applies(w.j, w.seen, Head(w.path))
        /\ work' = [work EXCEPT ![k] = x]
        /\ UNCHANGED <<trouble, parcel, mail, connected, queue, staff>>
    BY <1>5 DEF C!Apply
  <2>2. /\ w = [pc |-> w.pc, j |-> w.j, path |-> w.path, seen |-> w.seen]
        /\ w.pc \in {"apply", "reread"} /\ w.j \in Parcels
        /\ w.seen \in Parcel /\ Known(w.seen)
    BY <1>0, <2>1 DEF Doing, C!NoWork
  <2>9. Doing(w)
    BY <1>0
  <2> HIDE DEF w
  <2>3. Doing(x)
    BY <2>1, <2>9, JobMoves
  <2>4. level' \in C!Level /\ ship' \in [Parcels -> Parcel]
    BY <1>4, <2>1, <2>2
  <2> HIDE DEF x
  <2>5. work' = [i \in Parcels |-> work'[i]] /\ \A i \in Parcels : Doing(work'[i])
    BY <1>0, <2>1, <2>3
  <2> QED
    BY <1>0, <2>1, <2>4, <2>5 DEF Parcel
<1>6. ASSUME NEW k \in Parcels, C!Reread(k) PROVE CarrierTypes'
  <2> DEFINE w == work[k]
             x == [w EXCEPT !.pc = "apply", !.seen = ship[w.j]]
  <2>1. /\ w.pc = "reread"
        /\ work' = [work EXCEPT ![k] =
                       IF w.path = << >> \/ ~ship[w.j].open THEN C!NoWork ELSE x]
        /\ UNCHANGED <<trouble, parcel, mail, connected, queue, staff, ship, level>>
    BY <1>6 DEF C!Reread, C!shop
  <2>2. /\ w = [pc |-> w.pc, j |-> w.j, path |-> w.path, seen |-> w.seen]
        /\ w.j \in Parcels
    BY <1>0, <2>1 DEF Doing, C!NoWork
  <2>3. Recorded(w.j) /\ ship[w.j] \in Parcel
    BY <1>0, <2>2 DEF Basics, Traced, Parcel
  <2>9. Doing(w)
    BY <1>0
  <2> HIDE DEF w
  <2>4. ship[w.j].open => Doing(x)
    BY <2>1, <2>3, <2>9, JobMoves DEF Recorded
  <2> HIDE DEF x
  <2>5. Doing(C!NoWork)
    BY DEF Doing
  <2>6. work' = [i \in Parcels |-> work'[i]] /\ \A i \in Parcels : Doing(work'[i])
    BY <1>0, <2>1, <2>4, <2>5
  <2> QED
    BY <1>0, <2>1, <2>6
<1>7. ASSUME NEW k \in Parcels, C!Blocked(k) \/ C!JobFails(k) PROVE CarrierTypes'
  <2>1. /\ work' = [work EXCEPT ![k] = C!NoWork]
        /\ UNCHANGED <<trouble, parcel, mail, connected, queue, staff, ship, level>>
    BY <1>7 DEF C!Blocked, C!JobFails, C!shop
  <2>2. Doing(C!NoWork)
    BY DEF Doing
  <2>3. work' = [i \in Parcels |-> work'[i]] /\ \A i \in Parcels : Doing(work'[i])
    BY <1>0, <2>1, <2>2
  <2> QED
    BY <1>0, <2>1, <2>3
<1>8. CASE C!Crash
  <2>1. /\ queue' = [k \in Parcels |-> << >>] /\ work' = [k \in Parcels |-> C!NoWork]
        /\ staff' = C!NoWork
        /\ UNCHANGED <<trouble, parcel, mail, connected, ship, level>>
    BY <1>8 DEF C!Crash, C!shop
  <2>2. Doing(C!NoWork) /\ Asking(C!NoWork)
    BY DEF Doing, Asking
  <2>3. queue' \in [Parcels -> Seq(C!Status)]
    BY <2>1
  <2> QED
    BY <1>0, <2>1, <2>2, <2>3
<1>9. ASSUME NEW k \in Parcels, C!Push(k) PROVE CarrierTypes'
  <2>1. Asking([pc |-> "push", j |-> k])
    BY DEF Asking
  <2>2. "pending" \in C!Status
    BY DEF C!Status
  <2> QED
    BY <1>0, <1>9, <2>1, <2>2 DEF C!Push, C!AskForParcel, C!shop
<1>10. CASE C!Record
  <2> DEFINE new == [status |-> "pending", open |-> TRUE, packed |-> FALSE, tracking |-> staff.j]
  <2>1. /\ staff.pc = "push" /\ ship' = [ship EXCEPT ![staff.j] = new] /\ staff' = C!NoWork
        /\ UNCHANGED <<trouble, parcel, mail, connected, queue, work, level>>
    BY <1>10 DEF C!Record
  <2>2. staff.j \in Parcels
    BY <1>0, <2>1 DEF Asking, C!NoWork
  <2>3. new \in Parcel
    BY <2>2 DEF Parcel, C!Status
  <2> HIDE DEF new
  <2>4. ship' \in [Parcels -> Parcel]
    BY <1>0, <2>1, <2>3 DEF Parcel
  <2>5. Asking(C!NoWork)
    BY DEF Asking
  <2> QED
    BY <1>0, <2>1, <2>4, <2>5 DEF Parcel
<1>11. ASSUME NEW j \in Parcels, C!Pack(j) PROVE CarrierTypes'
  <2> DEFINE n == [ship[j] EXCEPT !.packed = TRUE]
  <2>1. /\ level' = Posted(level, C!PackEntries) /\ ship' = [ship EXCEPT ![j] = n]
        /\ UNCHANGED <<trouble, parcel, mail, connected, queue, work, staff>>
    BY <1>0, <1>11 DEF C!Pack, Posted, C!memory
  <2>2. n \in Parcel
    BY <1>0 DEF Parcel
  <2> HIDE DEF n
  <2>3. level' \in C!Level
    BY <1>0, <2>1, PackPosts
  <2>4. ship' \in [Parcels -> Parcel]
    BY <1>0, <2>1, <2>2 DEF Parcel
  <2> QED
    BY <1>0, <2>1, <2>3, <2>4 DEF Parcel
<1>12. ASSUME NEW j \in Parcels, C!AskCancel(j) PROVE CarrierTypes'
  <2> DEFINE t == ship[j].tracking
             q == [pc |-> "cancel", j |-> j, seen |-> ship[j]]
  <2>1. /\ parcel' = [parcel EXCEPT ![t] = "cancelled"]
        /\ mail' = [mail EXCEPT ![t] = @ \union {"cancelled"}]
        /\ ship[j].open /\ ship[j].status = "pending" /\ staff' = q
        /\ UNCHANGED <<trouble, connected, queue, work, ship, level>>
    BY <1>12 DEF C!AskCancel, C!AskBack, C!Report, C!shop
  <2>2. ship[j] \in Parcel /\ "cancelled" \in C!Status
    BY <1>0 DEF Parcel, C!Status
  <2>3. Asking(q)
    BY <2>1, <2>2 DEF Asking
  <2> HIDE DEF q, t
  <2>4. parcel' \in [Parcels -> C!Status \union {"none"}] /\ mail' \in [Parcels -> SUBSET C!Status]
    BY <1>0, <2>1, <2>2
  <2> QED
    BY <1>0, <2>1, <2>3, <2>4
<1>13. CASE C!Cancel \/ C!SetStatus
  <2> DEFINE s == IF C!Cancel THEN "cancelled" ELSE staff.s
  <2>1. /\ staff.pc \in {"cancel", "status"} /\ C!Applies(staff.j, staff.seen, s)
        /\ staff' = C!NoWork /\ ((s = "cancelled" /\ staff.pc = "cancel") \/ (s = staff.s /\ staff.pc = "status"))
        /\ UNCHANGED <<trouble, parcel, mail, connected, queue, work>>
    BY <1>13 DEF C!Cancel, C!SetStatus
  <2> HIDE DEF s
  <2>2. /\ staff.j \in Parcels /\ staff.seen \in Parcel /\ Known(staff.seen)
        /\ staff.pc = "cancel" => staff.seen.status = "pending"
        /\ staff.pc = "status" => staff.s \in C!Allowed(staff.seen.status)
    BY <1>0, <2>1 DEF Asking, C!NoWork, Known
  <2>3. s \in C!Allowed(staff.seen.status)
    BY <2>1, <2>2 DEF C!Allowed, C!Final
  <2>4. level' \in C!Level /\ ship' \in [Parcels -> Parcel]
    BY <1>4, <2>1, <2>2, <2>3
  <2>5. Asking(C!NoWork)
    BY DEF Asking
  <2> QED
    BY <1>0, <2>1, <2>4, <2>5 DEF Parcel
<1>14. ASSUME NEW j \in Parcels, NEW s \in C!Status, C!Reads(j, s),
              UNCHANGED <<trouble, parcel, mail, connected, queue, work, ship, level>>
       PROVE  CarrierTypes'
  <2> DEFINE q == [pc |-> "status", j |-> j, seen |-> ship[j], s |-> s]
  <2>1. ship[j].open /\ s \in C!Allowed(ship[j].status) /\ staff' = q
    BY <1>14 DEF C!Reads
  <2>2. ship[j] \in Parcel /\ Known(ship[j])
    BY <1>0, <2>1 DEF Parcel, Basics, Traced, Recorded
  <2>3. Asking(q)
    BY <2>1, <2>2 DEF Asking
  <2> HIDE DEF q
  <2> QED
    BY <1>0, <1>14, <2>1, <2>3
<1>15. ASSUME NEW k \in Parcels, NEW s \in C!Status, C!ReadForStatus(k, s) \/ C!Webhook(k, s)
       PROVE  CarrierTypes'
  <2>1. \E j \in Parcels : C!Reads(j, s)
    BY <1>15 DEF C!ReadForStatus, C!Webhook
  <2>2. UNCHANGED <<trouble, parcel, mail, connected, queue, work, ship, level>>
    BY <1>15 DEF C!ReadForStatus, C!Webhook, C!shop
  <2> QED
    BY <1>14, <2>1, <2>2
<1>16. CASE C!StaffFails \/ C!Connect \/ C!Disconnect
  <2>1. /\ connected' \in BOOLEAN /\ (staff' = C!NoWork \/ staff' = staff)
        /\ UNCHANGED <<trouble, parcel, mail, queue, work, ship, level>>
    BY <1>0, <1>16 DEF C!StaffFails, C!Connect, C!Disconnect, C!shop, C!memory
  <2>2. Asking(C!NoWork)
    BY DEF Asking
  <2> QED
    BY <1>0, <2>1, <2>2
<1> QED
  BY <1>1, <1>2, <1>3, <1>5, <1>6, <1>7, <1>8, <1>9, <1>10, <1>11, <1>12, <1>13, <1>15, <1>16
     DEF C!Next, C!Staff, C!Job

\* A transaction that sets a status leaves every other fulfilment alone.
LEMMA AppliedShip ==
    ASSUME ship \in [Parcels -> Parcel], NEW j, j \in Parcels, Recorded(j), Known(ship[j]),
           NEW u, u \in C!Status, NEW s, s \in C!Allowed(u),
           NEW r, C!Applies(j, r, s)
    PROVE  /\ \A k \in Parcels \ {j} : ship'[k] = ship[k]
           /\ Known(ship'[j]) /\ ship'[j].tracking = ship[j].tracking
           /\ ship'[j].status = s /\ ship'[j].packed = ship[j].packed
           /\ ship'[j].open = (ship[j].open /\ s \notin C!Final)
<1> DEFINE m == [ship[j] EXCEPT !.status = s, !.open = ship[j].open /\ s \notin C!Final]
<1>1. ship' = [ship EXCEPT ![j] = m]
  BY DEF C!Applies
<1>2. s \in C!Status
  BY NextStatus
<1>3. /\ m.status = s /\ m.packed = ship[j].packed /\ m.tracking = ship[j].tracking
      /\ m.open = (ship[j].open /\ s \notin C!Final)
  BY DEF Parcel
<1>4. s # "none"
  BY <1>2 DEF C!Status
<1> HIDE DEF m
<1>5. ship'[j] = m /\ \A k \in Parcels \ {j} : ship'[k] = ship[k]
  BY <1>1
<1> QED
  BY <1>3, <1>4, <1>5 DEF Known, m

\* Every step keeps each status at the shop one the carrier has passed through.
LEMMA TracedStep ==
    ASSUME C!CarrierAssumption, Basics, C!Next
    PROVE  Traced'
<1> USE DEF CarrierTypes, C!TypeOK
<1>0. /\ CarrierTypes /\ Traced /\ Parcels \subseteq Nat \ {0}
      /\ \A s \in C!Status : s # "none"
      /\ ship \in [Parcels -> Parcel]
  BY ParcelsCounted DEF Basics, C!Status, Parcel
<1>17. C!NoWork.pc = "idle" /\ ~Known(C!NoShip)
  BY DEF C!NoWork, C!NoShip, Known
<1>1. ASSUME NEW k \in Parcels, NEW s \in C!Status, C!CarrierMoves(k, s) PROVE Traced'
  BY <1>0, <1>1 DEF C!CarrierMoves, C!Report, C!shop, C!memory, Traced, Told, Recorded
<1>2. ASSUME NEW k \in Parcels, NEW s \in C!Status, C!Deliver(k, s) PROVE Traced'
  BY <1>0, <1>2 DEF C!Deliver, C!shop, Traced, Told, Recorded
<1>3. ASSUME NEW k \in Parcels, C!Take(k) PROVE Traced'
  <2>1. CASE C!Lookup(k) = {}
    BY <1>0, <1>3, <2>1 DEF C!Take, Traced, Told, Recorded
  <2>2. CASE C!Lookup(k) # {}
    <3> DEFINE j == CHOOSE j \in C!Lookup(k) : TRUE
               s == Head(queue[k])
               seen == [ship[j] EXCEPT !.tracking = k]
               path == C!PathTo[seen.status][s]
               walk == [pc |-> "apply", j |-> j, path |-> path, seen |-> seen]
    <3>1. /\ ship' = [ship EXCEPT ![j] = seen]
          /\ work' = IF s = seen.status \/ ~seen.open \/ path = << >> THEN work
                     ELSE [work EXCEPT ![k] = walk]
          /\ UNCHANGED <<trouble, parcel, mail, connected, staff, level>>
          /\ queue' = [queue EXCEPT ![k] = Tail(@)] /\ queue[k] # << >>
      BY <1>3, <2>2 DEF C!Take
    <3>2. j \in C!Lookup(k)
      BY <2>2
    <3> HIDE DEF j
    <3>3. j \in Parcels /\ Known(ship[j])
      BY <3>2, LookupKnown
    <3>4. /\ Known(seen) /\ seen.tracking = k /\ seen.open = ship[j].open
          /\ seen.status = ship[j].status
      BY <1>0, <3>3 DEF Parcel, Known
    <3>5. walk.j = j
      OBVIOUS
    <3> HIDE DEF seen, path, s, walk
    <3>6. \A i \in Parcels : Known(ship'[i]) <=> Known(ship[i])
      BY <1>0, <3>1, <3>3, <3>4
    <3>7. \A i \in Parcels : Told(i)' /\ Recorded(i)'
      <4>1. \A i \in Parcels : Told(i)'
        BY <1>0, <3>1 DEF Traced, Told
      <4>2. \A i \in Parcels : Recorded(i)'
        BY <1>0, <3>1, <3>3, <3>4 DEF Traced, Recorded, Known
      <4> QED
        BY <4>1, <4>2
    <3>8. \A i \in Parcels : work'[i].pc # "idle" => work'[i].j \in Parcels /\ Known(ship[work'[i].j])
      BY <1>0, <3>1, <3>3, <3>5 DEF Traced, Doing, C!NoWork
    <3>9. staff.pc # "idle" => staff.j \in Parcels
      BY <1>0 DEF Asking, C!NoWork
    <3> QED
      BY <1>0, <3>1, <3>6, <3>7, <3>8, <3>9 DEF Traced
  <2> QED
    BY <2>1, <2>2
<1>4. ASSUME NEW j, j \in Parcels, Known(ship[j]), NEW u, u \in C!Status, NEW s, s \in C!Allowed(u),
             NEW r, C!Applies(j, r, s), UNCHANGED <<parcel, mail, queue>>,
             \A k \in Parcels : work'[k].pc # "idle" => work[k].pc # "idle" /\ work'[k].j = work[k].j,
             staff' = staff \/ staff' = C!NoWork
      PROVE  Traced'
  <2>1. Recorded(j)
    BY <1>0, <1>4 DEF Traced
  <2>2. /\ \A k \in Parcels \ {j} : ship'[k] = ship[k]
        /\ Known(ship'[j]) /\ ship'[j].tracking = ship[j].tracking
    BY <1>0, <1>4, <2>1, AppliedShip
  <2>3. \A k \in Parcels : Recorded(k)' /\ Told(k)'
    BY <1>0, <1>4, <2>1, <2>2 DEF Traced, Recorded, Told
  <2>4. \A k \in Parcels : Known(ship'[k]) <=> Known(ship[k])
    BY <1>4, <2>2
  <2>5. \A k \in Parcels : work'[k].pc # "idle" => work'[k].j \in Parcels /\ Known(ship'[work'[k].j])
    <3>1. \A k \in Parcels : work[k].pc # "idle" => work[k].j \in Parcels /\ Known(ship[work[k].j])
      BY <1>0 DEF Traced, Doing, C!NoWork
    <3> QED
      BY <1>4, <2>4, <3>1
  <2>6. staff.pc # "idle" => staff.j \in Parcels
    BY <1>0 DEF Asking, C!NoWork
  <2> QED
    BY <1>0, <1>4, <1>17, <2>3, <2>4, <2>5, <2>6 DEF Traced
<1>5. ASSUME NEW k \in Parcels, C!Apply(k) PROVE Traced'
  <2> DEFINE w == work[k]
             x == [w EXCEPT !.pc = "reread", !.path = Tail(w.path)]
  <2>1. /\ w.pc = "apply" /\ Head(w.path) \in C!Allowed(w.seen.status)
        /\ C!Applies(w.j, w.seen, Head(w.path))
        /\ work' = [work EXCEPT ![k] = x]
        /\ UNCHANGED <<trouble, parcel, mail, connected, queue, staff>>
    BY <1>5 DEF C!Apply
  <2>2. /\ w.j \in Parcels /\ w.seen.status \in C!Status /\ Known(ship[w.j])
    BY <1>0, <2>1 DEF Doing, C!NoWork, Parcel, Known, Traced
  <2>3. x.j = w.j
    BY <1>0, <2>1 DEF Doing, C!NoWork
  <2> HIDE DEF x
  <2>4. \A i \in Parcels : work'[i].pc # "idle" => work[i].pc # "idle" /\ work'[i].j = work[i].j
    BY <1>0, <2>1, <2>3
  <2> HIDE DEF w
  <2> QED
    BY <1>4, <2>1, <2>2, <2>4
<1>6. ASSUME NEW k \in Parcels, C!Reread(k) \/ C!Blocked(k) \/ C!JobFails(k) PROVE Traced'
  <2> DEFINE w == work[k]
             x == [w EXCEPT !.pc = "apply", !.seen = ship[w.j]]
  <2>1. /\ w.pc # "idle"
        /\ \/ work' = [work EXCEPT ![k] = C!NoWork]
           \/ work' = [work EXCEPT ![k] = x]
        /\ UNCHANGED <<trouble, parcel, mail, connected, queue, staff, ship, level>>
    BY <1>6 DEF C!Reread, C!Blocked, C!JobFails, C!shop
  <2>2. x.j = w.j
    BY <1>0, <2>1 DEF Doing, C!NoWork
  <2> HIDE DEF x
  <2>3. \A i \in Parcels : work'[i].pc # "idle" => work[i].pc # "idle" /\ work'[i].j = work[i].j
    BY <1>0, <1>17, <2>1, <2>2
  <2> QED
    BY <1>0, <2>1, <2>3 DEF Traced, Told, Recorded
<1>8. CASE C!Crash
  BY <1>0, <1>8, <1>17 DEF C!Crash, C!shop, Traced, Told, Recorded
<1>9. ASSUME NEW k \in Parcels, C!Push(k) PROVE Traced'
  <2>1. /\ parcel[k] = "none" /\ parcel' = [parcel EXCEPT ![k] = "pending"]
        /\ staff' = [pc |-> "push", j |-> k]
        /\ UNCHANGED <<trouble, mail, connected, queue, work, ship, level>>
    BY <1>9 DEF C!Push, C!AskForParcel, C!shop
  <2>2. ~Known(ship[k])
    BY <1>0, <2>1 DEF Traced, Recorded
  <2> QED
    BY <1>0, <2>1, <2>2 DEF Traced, Told, Recorded
<1>10. CASE C!Record
  <2> DEFINE new == [status |-> "pending", open |-> TRUE, packed |-> FALSE, tracking |-> staff.j]
  <2>1. /\ staff.pc = "push" /\ ship' = [ship EXCEPT ![staff.j] = new] /\ staff' = C!NoWork
        /\ UNCHANGED <<trouble, parcel, mail, connected, queue, work, level>>
    BY <1>10 DEF C!Record
  <2>2. staff.j \in Parcels /\ parcel[staff.j] # "none"
    BY <1>0, <2>1 DEF Asking, C!NoWork, Traced
  <2>3. Known(new) /\ new.tracking # 0
    BY <1>0, <2>2 DEF Known
  <2> HIDE DEF new
  <2>4. \A k \in Parcels : Recorded(k)' /\ Told(k)'
    BY <1>0, <2>1, <2>2, <2>3 DEF Traced, Recorded, Told
  <2>5. \A k \in Parcels : Known(ship[k]) => Known(ship'[k])
    BY <1>0, <2>1, <2>3
  <2>6. \A k \in Parcels : work[k].pc # "idle" => work[k].j \in Parcels
    BY <1>0 DEF Doing, C!NoWork
  <2> QED
    BY <1>0, <1>17, <2>1, <2>4, <2>5, <2>6 DEF Traced
<1>11. ASSUME NEW j \in Parcels, C!Pack(j) PROVE Traced'
  <2> DEFINE n == [ship[j] EXCEPT !.packed = TRUE]
  <2>1. /\ ship' = [ship EXCEPT ![j] = n] /\ ship[j].open
        /\ UNCHANGED <<trouble, parcel, mail, connected, queue, work, staff>>
    BY <1>0, <1>11 DEF C!Pack, C!memory
  <2>2. Recorded(j)
    BY <1>0 DEF Traced
  <2>3. Known(ship[j]) /\ n.status = ship[j].status /\ n.tracking = ship[j].tracking
    BY <1>0, <2>1, <2>2 DEF Parcel, Recorded
  <2> HIDE DEF n
  <2>4. \A k \in Parcels : /\ Known(ship'[k]) <=> Known(ship[k])
                           /\ ship'[k].tracking = ship[k].tracking
                           /\ k # j => ship'[k] = ship[k]
    BY <1>0, <2>1, <2>3 DEF Known
  <2>5. \A k \in Parcels : Recorded(k)' /\ Told(k)'
    BY <1>0, <2>1, <2>3, <2>4 DEF Traced, Recorded, Told
  <2>6. \A k \in Parcels : work[k].pc # "idle" => work[k].j \in Parcels
    BY <1>0 DEF Doing, C!NoWork
  <2>7. staff.pc # "idle" => staff.j \in Parcels
    BY <1>0 DEF Asking, C!NoWork
  <2> QED
    BY <1>0, <2>1, <2>4, <2>5, <2>6, <2>7 DEF Traced
<1>12. ASSUME NEW j \in Parcels, C!AskCancel(j) PROVE Traced'
  <2> DEFINE t == ship[j].tracking
  <2>1. /\ parcel[t] = "pending"
        /\ parcel' = [parcel EXCEPT ![t] = "cancelled"]
        /\ mail' = [mail EXCEPT ![t] = @ \union {"cancelled"}]
        /\ ship[j].open /\ ship[j].status = "pending"
        /\ staff' = [pc |-> "cancel", j |-> j, seen |-> ship[j]]
        /\ UNCHANGED <<trouble, connected, queue, work, ship, level>>
    BY <1>12 DEF C!AskCancel, C!AskBack, C!CarrierGivesUp, C!Report, C!shop
  <2>2. Known(ship[j])
    BY <2>1 DEF Known
  <2> HIDE DEF t
  <2>3. staff'.pc = "cancel" /\ staff'.j = j
    BY <2>1
  <2>4. \A k \in Parcels : Recorded(k)' /\ Told(k)'
    BY <1>0, <2>1 DEF Traced, Recorded, Told
  <2> QED
    BY <1>0, <2>1, <2>2, <2>3, <2>4 DEF Traced
<1>13. CASE C!Cancel \/ C!SetStatus
  <2> DEFINE s == IF C!Cancel THEN "cancelled" ELSE staff.s
  <2>1. /\ staff.pc \in {"cancel", "status"} /\ C!Applies(staff.j, staff.seen, s)
        /\ staff' = C!NoWork
        /\ (s = "cancelled" /\ staff.pc = "cancel") \/ (s = staff.s /\ staff.pc = "status")
        /\ UNCHANGED <<trouble, parcel, mail, connected, queue, work>>
    BY <1>13 DEF C!Cancel, C!SetStatus
  <2> HIDE DEF s
  <2>2. /\ staff.j \in Parcels /\ staff.seen \in Parcel /\ Known(staff.seen)
        /\ staff.pc = "cancel" => staff.seen.status = "pending"
        /\ staff.pc = "status" => staff.s \in C!Allowed(staff.seen.status)
    BY <1>0, <2>1 DEF Asking, C!NoWork, Known
  <2>3. s \in C!Allowed(staff.seen.status) /\ staff.seen.status \in C!Status
    BY <2>1, <2>2 DEF C!Allowed, C!Final, Known, Parcel
  <2>4. Known(ship[staff.j])
    BY <1>0, <2>1 DEF Traced
  <2> QED
    BY <1>4, <2>1, <2>2, <2>3, <2>4
<1>14. ASSUME NEW j \in Parcels, NEW s \in C!Status, C!Reads(j, s),
              UNCHANGED <<trouble, parcel, mail, connected, queue, work, ship, level>>
       PROVE  Traced'
  <2>1. ship[j].open /\ staff' = [pc |-> "status", j |-> j, seen |-> ship[j], s |-> s]
    BY <1>14 DEF C!Reads
  <2>2. Known(ship[j])
    BY <1>0, <2>1 DEF Traced, Recorded
  <2>3. staff'.pc = "status" /\ staff'.j = j
    BY <2>1
  <2> QED
    BY <1>0, <1>14, <2>2, <2>3 DEF Traced, Told, Recorded
<1>15. ASSUME NEW k \in Parcels, NEW s \in C!Status, C!ReadForStatus(k, s) \/ C!Webhook(k, s)
       PROVE  Traced'
  <2>1. \E j \in Parcels : C!Reads(j, s)
    BY <1>15 DEF C!ReadForStatus, C!Webhook
  <2>2. UNCHANGED <<trouble, parcel, mail, connected, queue, work, ship, level>>
    BY <1>15 DEF C!ReadForStatus, C!Webhook, C!shop
  <2> QED
    BY <1>14, <2>1, <2>2
<1>16. CASE C!StaffFails \/ C!Connect \/ C!Disconnect
  <2>1. /\ staff' = C!NoWork \/ staff' = staff
        /\ UNCHANGED <<trouble, parcel, mail, queue, work, ship, level>>
    BY <1>0, <1>16 DEF C!StaffFails, C!Connect, C!Disconnect, C!shop, C!memory
  <2> QED
    BY <1>0, <1>17, <2>1 DEF Traced, Told, Recorded
<1> QED
  BY <1>1, <1>2, <1>3, <1>5, <1>6, <1>8, <1>9, <1>10, <1>11, <1>12, <1>13, <1>15, <1>16
     DEF C!Next, C!Staff, C!Job

\* Every step keeps pushes and jobs from working on one parcel at a time.
LEMMA ApartStep ==
    ASSUME C!CarrierAssumption, Basics, C!Next
    PROVE  Apart'
<1>0. /\ CarrierTypes /\ Apart /\ work = [k \in Parcels |-> work[k]] /\ trouble' = trouble
  BY DEF Basics, CarrierTypes, C!Next, C!Staff, C!Job, C!CarrierMoves, C!Deliver, C!Take,
         C!Apply, C!Reread, C!Blocked, C!JobFails, C!Crash, C!Push, C!Record, C!Pack,
         C!AskCancel, C!Cancel, C!ReadForStatus, C!Webhook, C!SetStatus, C!StaffFails,
         C!Connect, C!Disconnect
<1>1. SUFFICES ASSUME trouble # "staff", staff'.pc # "idle" PROVE ~C!Working'
  BY <1>0 DEF Apart
<1>2. C!NoWork.pc = "idle"
  BY DEF C!NoWork
<1>3. ASSUME staff' = staff, \A k \in Parcels : work'[k].pc # "idle" => work[k].pc # "idle"
      PROVE  ~C!Working'
  BY <1>0, <1>1, <1>3 DEF Apart, C!Working
<1>4. ASSUME C!MayAct, work' = work PROVE ~C!Working'
  BY <1>1, <1>4 DEF C!MayAct, C!Working
<1>5. ASSUME NEW k \in Parcels, C!Take(k) PROVE ~C!Working'
  BY <1>1, <1>5 DEF C!Take, C!MayWork
<1>6. ASSUME NEW k \in Parcels,
             C!Apply(k) \/ C!Reread(k) \/ C!Blocked(k) \/ C!JobFails(k) PROVE ~C!Working'
  <2>1. work[k].pc # "idle" /\ staff' = staff
    BY <1>6 DEF C!Apply, C!Reread, C!Blocked, C!JobFails
  <2> QED
    BY <1>0, <1>1, <2>1 DEF Apart, C!Working
<1>7. ASSUME NEW k \in Parcels, NEW s \in C!Status, C!CarrierMoves(k, s) \/ C!Deliver(k, s)
      PROVE ~C!Working'
  BY <1>3, <1>7 DEF C!CarrierMoves, C!Deliver, C!memory
<1>8. ASSUME NEW k \in Parcels, C!Push(k) \/ C!Pack(k) \/ C!AskCancel(k) PROVE ~C!Working'
  BY <1>4, <1>8 DEF C!Push, C!Pack, C!AskCancel, C!memory
<1>9. ASSUME NEW k \in Parcels, NEW s \in C!Status, C!ReadForStatus(k, s) \/ C!Webhook(k, s)
      PROVE ~C!Working'
  BY <1>4, <1>9 DEF C!ReadForStatus, C!Webhook
<1>10. CASE C!Connect \/ C!Disconnect
  BY <1>4, <1>10 DEF C!Connect, C!Disconnect, C!memory
<1>11. CASE C!Crash \/ C!Record \/ C!Cancel \/ C!SetStatus \/ C!StaffFails
  BY <1>1, <1>2, <1>11 DEF C!Crash, C!Record, C!Cancel, C!SetStatus, C!StaffFails
<1> QED
  BY <1>5, <1>6, <1>7, <1>8, <1>9, <1>10, <1>11 DEF C!Next, C!Staff, C!Job

\* A parcel the carrier has and no fulfilment tells of stays such a parcel.
LEMMA CleanStays ==
    ASSUME C!CarrierAssumption, Basics, C!Next, Basics', Clean'
    PROVE  Clean
<1>1. trouble' = trouble
  BY DEF C!Next, C!Staff, C!Job, C!CarrierMoves, C!Deliver, C!Take,
         C!Apply, C!Reread, C!Blocked, C!JobFails, C!Crash, C!Push, C!Record, C!Pack,
         C!AskCancel, C!Cancel, C!ReadForStatus, C!Webhook, C!SetStatus, C!StaffFails,
         C!Connect, C!Disconnect
<1>2. SUFFICES ASSUME NEW k \in Parcels, parcel[k] # "none", ~Known(ship[k]),
                      ~(staff.pc = "push" /\ staff.j = k)
               PROVE  /\ parcel'[k] # "none" /\ ~Known(ship'[k])
                      /\ ~(staff'.pc = "push" /\ staff'.j = k)
  BY <1>1 DEF Clean, C!Unrecorded, Known
<1>3. /\ CarrierTypes /\ Traced /\ Recorded(k) /\ C!TypeOK
      /\ \A s \in C!Status : s # "none"
      /\ ship \in [Parcels -> Parcel] /\ C!NoWork.pc = "idle"
  BY DEF Basics, Traced, CarrierTypes, C!TypeOK, C!Status, Parcel, C!NoWork
<1>4. ASSUME NEW j, j \in Parcels, Known(ship[j]), NEW s, NEW r, C!Applies(j, r, s)
      PROVE  ~Known(ship'[k])
  BY <1>2, <1>3, <1>4 DEF C!Applies
<1>5. ASSUME NEW i \in Parcels, C!Take(i) PROVE ~Known(ship'[k])
  <2>1. CASE C!Lookup(i) = {}
    BY <1>2, <1>5, <2>1 DEF C!Take
  <2>2. CASE C!Lookup(i) # {}
    <3> DEFINE j == CHOOSE j \in C!Lookup(i) : TRUE
               seen == [ship[j] EXCEPT !.tracking = i]
    <3>1. ship' = [ship EXCEPT ![j] = seen]
      BY <1>5, <2>2 DEF C!Take
    <3>2. j \in C!Lookup(i)
      BY <2>2
    <3> HIDE DEF j
    <3>3. j \in Parcels /\ Known(ship[j])
      BY <3>2, LookupKnown
    <3> HIDE DEF seen
    <3> QED
      BY <1>2, <1>3, <3>1, <3>3
  <2> QED
    BY <2>1, <2>2
<1>6. ASSUME NEW i \in Parcels, C!Apply(i) PROVE ~Known(ship'[k])
  <2>1. work[i].pc = "apply" /\ C!Applies(work[i].j, work[i].seen, Head(work[i].path))
    BY <1>6 DEF C!Apply
  <2>2. work[i].j \in Parcels /\ Known(ship[work[i].j])
    BY <1>3, <2>1 DEF CarrierTypes, Doing, C!NoWork, Traced
  <2> QED
    BY <1>4, <2>1, <2>2
<1>7. ASSUME C!Cancel \/ C!SetStatus PROVE ~Known(ship'[k])
  <2>1. PICK r, s : staff.pc \in {"cancel", "status"} /\ C!Applies(staff.j, r, s)
    BY <1>7 DEF C!Cancel, C!SetStatus
  <2>2. Known(ship[staff.j]) /\ staff.j \in Parcels
    BY <1>3, <2>1 DEF CarrierTypes, Asking, C!NoWork, Traced
  <2> QED
    BY <1>4, <2>1, <2>2
<1>8. ASSUME NEW j \in Parcels, C!Pack(j) PROVE ~Known(ship'[k])
  BY <1>2, <1>3, <1>8 DEF C!Pack, Traced, Recorded, Known, Parcel
<1>9. ASSUME C!Record PROVE ~Known(ship'[k])
  <2>1. staff.j \in Parcels
    BY <1>3, <1>9 DEF C!Record, CarrierTypes, Asking, C!NoWork
  <2> QED
    BY <1>2, <1>3, <1>9, <2>1 DEF C!Record
<1>10. ~Known(ship'[k])
  BY <1>2, <1>5, <1>6, <1>7, <1>8, <1>9
     DEF C!Next, C!Staff, C!Job, C!CarrierMoves, C!Deliver, C!Reread, C!Blocked, C!JobFails,
         C!Crash, C!Push, C!AskCancel, C!ReadForStatus, C!Webhook, C!StaffFails,
         C!Connect, C!Disconnect, C!shop
<1>11. parcel'[k] # "none"
  BY <1>2, <1>3
     DEF C!TypeOK, C!Next, C!Staff, C!Job, C!CarrierMoves, C!Deliver, C!Take, C!Apply, C!Reread,
         C!Blocked, C!JobFails, C!Crash, C!Push, C!AskForParcel, C!Record, C!Pack, C!AskCancel,
         C!AskBack, C!Cancel, C!ReadForStatus, C!Webhook, C!SetStatus, C!StaffFails,
         C!Connect, C!Disconnect
<1>12. ~(staff'.pc = "push" /\ staff'.j = k)
  <2>1. ASSUME NEW i \in Parcels, C!Push(i) PROVE staff'.j # k
    BY <1>2, <2>1 DEF C!Push
  <2>2. ASSUME NEW i \in Parcels, C!AskCancel(i) PROVE staff'.pc = "cancel"
    BY <2>2 DEF C!AskCancel
  <2>3. ASSUME NEW i \in Parcels, NEW s \in C!Status, C!ReadForStatus(i, s) \/ C!Webhook(i, s)
        PROVE  staff'.pc = "status"
    BY <2>3 DEF C!ReadForStatus, C!Webhook, C!Reads
  <2>4. CASE C!Crash \/ C!Record \/ C!Cancel \/ C!SetStatus \/ C!StaffFails
    BY <1>3, <2>4 DEF C!Crash, C!Record, C!Cancel, C!SetStatus, C!StaffFails
  <2>5. CASE staff' = staff
    BY <1>2, <2>5
  <2> QED
    BY <2>1, <2>2, <2>3, <2>4, <2>5
       DEF C!Next, C!Staff, C!Job, C!CarrierMoves, C!Deliver, C!Take, C!Apply, C!Reread,
           C!Blocked, C!JobFails, C!Pack, C!Connect, C!Disconnect, C!memory
<1> QED
  BY <1>10, <1>11, <1>12

\* Goods that moved as one parcel's place did are still where the statuses say.
LEMMA GoodsMove ==
    ASSUME C!CarrierAssumption, C!GoodsWhereStatusSays, NEW j, j \in Parcels,
           \A k \in Parcels \ {j} : ship'[k] = ship[k], level \in C!Level,
           level'["on_hand"] = level["on_hand"] + One(IsOut(ship[j])) - One(IsOut(ship'[j])),
           level'["packed"] = level["packed"] + One(IsPacked(ship'[j])) - One(IsPacked(ship[j])),
           level'["committed"]
             = level["committed"] + One(IsTaken(ship[j])) - One(IsTaken(ship'[j]))
    PROVE  C!GoodsWhereStatusSays'
<1> DEFINE a == {k \in Parcels : IsOut(ship[k])}
           b == {k \in Parcels : IsPacked(ship[k])}
           c == {k \in Parcels : IsTaken(ship[k])}
<1>1. C!Out = a /\ C!PackedUp = b /\ C!Out \union C!Back \union C!PackedUp = c
  BY DEF C!Out, C!PackedUp, C!Back, IsOut, IsPacked, IsTaken
<1>2. C!Out' = a' /\ C!PackedUp' = b' /\ (C!Out \union C!Back \union C!PackedUp)' = c'
  BY DEF C!Out, C!PackedUp, C!Back, IsOut, IsPacked, IsTaken
<1>3. /\ a \in SUBSET Parcels /\ a' \in SUBSET Parcels /\ a \ {j} = a' \ {j}
      /\ j \in a <=> IsOut(ship[j])
      /\ j \in a' <=> IsOut(ship'[j])
  OBVIOUS
<1>4. /\ b \in SUBSET Parcels /\ b' \in SUBSET Parcels /\ b \ {j} = b' \ {j}
      /\ j \in b <=> IsPacked(ship[j])
      /\ j \in b' <=> IsPacked(ship'[j])
  OBVIOUS
<1>5. /\ c \in SUBSET Parcels /\ c' \in SUBSET Parcels /\ c \ {j} = c' \ {j}
      /\ j \in c <=> IsTaken(ship[j])
      /\ j \in c' <=> IsTaken(ship'[j])
  OBVIOUS
<1>6. IsFiniteSet(Parcels)
  BY ParcelsCounted
<1>7. /\ level["on_hand"] \in Int /\ level["packed"] \in Int /\ level["committed"] \in Int
      /\ OpeningLevel["on_hand"] \in Int /\ OpeningLevel["packed"] \in Int
      /\ OpeningLevel["committed"] \in Int
  BY DEF C!Level, C!Buckets, C!CarrierAssumption
<1>8. /\ level["on_hand"] = OpeningLevel["on_hand"] - Cardinality(a)
      /\ level["packed"] = OpeningLevel["packed"] + Cardinality(b)
      /\ level["committed"] = OpeningLevel["committed"] - Cardinality(c)
  BY <1>1, SameCounting DEF C!GoodsWhereStatusSays
<1> HIDE DEF a, b, c
<1>9. /\ Cardinality(a) \in Nat
      /\ Cardinality(a') = Cardinality(a) + One(IsOut(ship'[j])) - One(IsOut(ship[j]))
  BY <1>3, <1>6, CountMoves DEF One
<1>10. /\ Cardinality(b) \in Nat
       /\ Cardinality(b') = Cardinality(b) + One(IsPacked(ship'[j])) - One(IsPacked(ship[j]))
  BY <1>4, <1>6, CountMoves DEF One
<1>11. /\ Cardinality(c) \in Nat
       /\ Cardinality(c') = Cardinality(c) + One(IsTaken(ship'[j])) - One(IsTaken(ship[j]))
  BY <1>5, <1>6, CountMoves DEF One
<1>12. \A p : One(p) \in Int
  BY DEF One
<1>13. /\ level'["on_hand"] = OpeningLevel["on_hand"] - Cardinality(a')
       /\ level'["packed"] = OpeningLevel["packed"] + Cardinality(b')
       /\ level'["committed"] = OpeningLevel["committed"] - Cardinality(c')
  BY <1>7, <1>8, <1>9, <1>10, <1>11, <1>12
<1> QED
  BY <1>2, <1>13, SameCounting DEF C!GoodsWhereStatusSays

\* So they are after a status set from what was read, when that still stands.
LEMMA AppliedGoods ==
    ASSUME C!CarrierAssumption, C!GoodsWhereStatusSays, C!TypeOK, NEW j, j \in Parcels,
           Known(ship[j]), Recorded(j), NEW s, s \in C!Allowed(ship[j].status),
           NEW r, r = ship[j], C!Applies(j, r, s)
    PROVE  C!GoodsWhereStatusSays'
<1>1. ship \in [Parcels -> Parcel] /\ level \in C!Level
  BY DEF C!TypeOK, Parcel
<1>2. r \in Parcel /\ r.status # "none" /\ r.status \in C!Status
  BY <1>1 DEF Known, Parcel
<1>3. /\ \A k \in Parcels \ {j} : ship'[k] = ship[k]
      /\ ship'[j].status = s /\ ship'[j].packed = ship[j].packed
  <2>1. PICK u : u = r.status /\ u \in C!Status /\ s \in C!Allowed(u)
    BY <1>2
  <2> QED
    BY <1>1, <2>1, AppliedShip
<1>4. C!Level = Level
  BY DEF C!Level, Level, C!Buckets, Buckets
<1>5. level' = Posted(level, C!Entries(r, s))
  BY DEF C!Applies, Posted
<1> DEFINE n == ship'[j]
<1>6. n.status = s /\ n.packed = r.packed
  BY <1>3
<1> HIDE DEF n
<1>7. /\ level'["on_hand"] = level["on_hand"] + One(IsOut(r)) - One(IsOut(n))
      /\ level'["packed"] = level["packed"] + One(IsPacked(n)) - One(IsPacked(r))
      /\ level'["committed"] = level["committed"] + One(IsTaken(r)) - One(IsTaken(n))
  BY <1>1, <1>2, <1>4, <1>5, <1>6, StatusPosts
<1> QED
  BY <1>1, <1>3, <1>7, GoodsMove DEF n

\* What a job or a request has read still stands when it posts, so that what it
\* posts is what the goods' place changes by.
LEMMA ReadingStep ==
    ASSUME C!CarrierAssumption, Basics, Clean, Reading, C!GoodsWhereStatusSays, C!Next, Basics'
    PROVE  Reading' /\ C!GoodsWhereStatusSays'
<1> DEFINE Goal == Reading' /\ C!GoodsWhereStatusSays'
<1>1. /\ CarrierTypes /\ Traced /\ Apart /\ C!TypeOK
      /\ ship \in [Parcels -> Parcel] /\ level \in C!Level
      /\ work = [k \in Parcels |-> work[k]]
      /\ \A k \in Parcels : Recorded(k) /\ Fresh(k) /\ Doing(work[k])
      /\ StaffFresh
  BY DEF Basics, Traced, CarrierTypes, C!TypeOK, Parcel, Reading
<1>2. C!NoWork.pc = "idle" /\ ~Known(C!NoShip)
  BY DEF C!NoWork, C!NoShip, Known
<1>3. staff.pc # "idle" => staff.j \in Parcels /\ \A k \in Parcels : work[k].pc = "idle"
  BY <1>1 DEF Apart, Clean, C!Working, Asking, CarrierTypes, C!NoWork
<1>4. ASSUME UNCHANGED <<ship, level>> PROVE C!GoodsWhereStatusSays'
  BY <1>4 DEF C!GoodsWhereStatusSays, C!Out, C!Back, C!PackedUp
<1>5. ASSUME UNCHANGED <<ship, level>>,
             staff' = staff \/ staff'.pc \in {"idle", "push"},
             NEW k \in Parcels, NEW w, work' = [work EXCEPT ![k] = w] \/ work' = work,
             w.pc # "idle" => w.j = k,
             w.pc = "apply" => w.seen = ship[k] /\ ship[k].open
      PROVE  Goal
  <2>1. \A i \in Parcels : Fresh(i)'
    BY <1>1, <1>5 DEF Fresh
  <2>2. StaffFresh'
    BY <1>1, <1>5 DEF StaffFresh
  <2> QED
    BY <1>4, <1>5, <2>1, <2>2 DEF Reading
<1>6. ASSUME UNCHANGED <<ship, level, work>>,
             \/ staff' = staff \/ staff'.pc \in {"idle", "push"}
             \/ staff'.j \in Parcels /\ staff'.seen = ship[staff'.j] /\ ship[staff'.j].open
      PROVE  Goal
  <2>1. \A i \in Parcels : Fresh(i)'
    BY <1>1, <1>6 DEF Fresh
  <2>2. StaffFresh'
    BY <1>1, <1>6 DEF StaffFresh
  <2> QED
    BY <1>4, <1>6, <2>1, <2>2 DEF Reading
<1>7. ASSUME NEW j, j \in Parcels, Known(ship[j]), ship[j].open,
             NEW s, s \in C!Allowed(ship[j].status), NEW r, r = ship[j], C!Applies(j, r, s),
             \A i \in Parcels : work'[i].pc # "idle" => work'[i].j = i,
             \A i \in Parcels : work'[i].pc = "apply" => i # j /\ work'[i] = work[i],
             staff'.pc = "idle"
      PROVE  Goal
  <2>1. C!GoodsWhereStatusSays'
    BY <1>1, <1>7, AppliedGoods
  <2>2. ship[j].status \in C!Status
    BY <1>1, <1>7 DEF Known, Parcel
  <2>3. PICK u : u \in C!Status /\ s \in C!Allowed(u)
    BY <1>7, <2>2
  <2>4. /\ \A k \in Parcels \ {j} : ship'[k] = ship[k]
        /\ Known(ship'[j]) /\ ship'[j].tracking = ship[j].tracking
        /\ ship'[j].status = s
        /\ ship'[j].open = (ship[j].open /\ s \notin C!Final)
    BY <1>1, <1>7, <2>3, AppliedShip
  <2>5. Fresh(j)'
    BY <1>1, <1>7, <2>4 DEF Fresh, Known
  <2>6. \A i \in Parcels \ {j} : Fresh(i)'
    BY <1>1, <1>7, <2>4 DEF Fresh
  <2>7. StaffFresh'
    BY <1>7 DEF StaffFresh
  <2> QED
    BY <2>1, <2>5, <2>6, <2>7 DEF Reading
<1>8. ASSUME NEW k \in Parcels, C!Take(k) PROVE Goal
  <2>1. Known(ship[k])
    <3>1. queue[k] # << >> /\ staff.pc = "idle"
      BY <1>8 DEF C!Take, C!MayWork, Clean
    <3>2. parcel[k] # "none"
      BY <1>1, <3>1 DEF Traced, Told
    <3> QED
      BY <3>1, <3>2 DEF Clean, C!Unrecorded, Known
  <2>2. C!Lookup(k) = {k}
    <3> DEFINE known == {j \in Parcels : ship[j].tracking = k}
    <3>1. \A j \in Parcels : ship[j].tracking = k => j = k
      <4>1. \A j \in Parcels : /\ ~Known(ship[j]) => ship[j].tracking = 0
                               /\ Known(ship[j]) => ship[j].tracking = j
        BY <1>1 DEF Recorded, Fresh, C!NoShip
      <4> QED
        BY <4>1, ParcelsCounted
    <3>2. known = {k}
      BY <1>1, <2>1, <3>1 DEF Fresh
    <3>3. C!Max({k}) = k
      BY ParcelsCounted DEF C!Max
    <3>4. C!Lookup(k) = IF known # {} THEN {C!Max(known)} ELSE C!Open
      BY DEF C!Lookup
    <3> HIDE DEF known
    <3> QED
      BY <3>2, <3>3, <3>4
  <2> DEFINE s == Head(queue[k])
             seen == [ship[k] EXCEPT !.tracking = k]
             path == C!PathTo[seen.status][s]
             walk == [pc |-> "apply", j |-> k, path |-> path, seen |-> seen]
  <2>3. /\ ship' = [ship EXCEPT ![k] = seen]
        /\ work' = IF s = seen.status \/ ~seen.open \/ path = << >> THEN work
                   ELSE [work EXCEPT ![k] = walk]
        /\ UNCHANGED <<trouble, parcel, mail, connected, staff, level>>
    BY <1>8, <2>2 DEF C!Take
  <2>4. seen = ship[k]
    BY <1>1, <2>1 DEF Fresh, Parcel
  <2>5. walk.pc = "apply" /\ walk.j = k /\ walk.seen = seen
    OBVIOUS
  <2> HIDE DEF seen, s, path, walk
  <2>6. ship' = ship
    BY <1>1, <2>3, <2>4
  <2>7. CASE work' = work
    BY <1>6, <2>3, <2>6, <2>7
  <2>8. CASE seen.open /\ work' = [work EXCEPT ![k] = walk]
    BY <1>5, <2>3, <2>4, <2>5, <2>6, <2>8
  <2> QED
    BY <2>3, <2>7, <2>8
<1>9. ASSUME NEW k \in Parcels, C!Apply(k) PROVE Goal
  <2> DEFINE w == work[k]
             x == [w EXCEPT !.pc = "reread", !.path = Tail(w.path)]
             s == Head(w.path)
             r == w.seen
  <2>1. /\ w.pc = "apply" /\ s \in C!Allowed(r.status)
        /\ C!Applies(w.j, r, s)
        /\ work' = [work EXCEPT ![k] = x] /\ staff' = staff
    BY <1>9 DEF C!Apply
  <2>2. w.j = k /\ r = ship[k] /\ ship[k].open /\ Known(ship[k])
    BY <1>1, <2>1 DEF Fresh, Traced
  <2>3. x.pc = "reread" /\ x.j = k
    BY <1>1, <2>1, <2>2 DEF Doing, C!NoWork
  <2>4. staff.pc = "idle"
    BY <1>3, <2>1
  <2> HIDE DEF w, x, s, r
  <2>5. C!Applies(k, r, s) /\ s \in C!Allowed(ship[k].status)
    BY <2>1, <2>2
  <2>6. \A i \in Parcels : /\ work'[i].pc # "idle" => work'[i].j = i
                           /\ work'[i].pc = "apply" => i # k /\ work'[i] = work[i]
    BY <1>1, <2>1, <2>3 DEF Fresh
  <2> QED
    BY <1>7, <2>1, <2>2, <2>4, <2>5, <2>6
<1>10. ASSUME NEW k \in Parcels, C!Reread(k) PROVE Goal
  <2> DEFINE w == work[k]
             x == [w EXCEPT !.pc = "apply", !.seen = ship[w.j]]
  <2>1. /\ w.pc = "reread"
        /\ work' = [work EXCEPT ![k] =
                       IF w.path = << >> \/ ~ship[w.j].open THEN C!NoWork ELSE x]
        /\ UNCHANGED <<trouble, parcel, mail, connected, queue, staff, ship, level>>
    BY <1>10 DEF C!Reread, C!shop
  <2>2. w.j = k
    BY <1>1, <2>1 DEF Fresh
  <2>3. x.pc = "apply" /\ x.j = k /\ x.seen = ship[k]
    BY <1>1, <2>1, <2>2 DEF Doing, C!NoWork
  <2> HIDE DEF w, x
  <2>4. CASE work' = [work EXCEPT ![k] = C!NoWork]
    BY <1>2, <1>5, <2>1, <2>4
  <2>5. CASE ship[k].open /\ work' = [work EXCEPT ![k] = x]
    BY <1>5, <2>1, <2>3, <2>5
  <2> QED
    BY <2>1, <2>2, <2>4, <2>5
<1>11. ASSUME NEW k \in Parcels, C!Blocked(k) \/ C!JobFails(k) PROVE Goal
  <2>1. /\ work' = [work EXCEPT ![k] = C!NoWork]
        /\ UNCHANGED <<staff, ship, level>>
    BY <1>11 DEF C!Blocked, C!JobFails, C!shop
  <2> QED
    BY <1>2, <1>5, <2>1
<1>12. CASE C!Crash
  <2>1. /\ work' = [k \in Parcels |-> C!NoWork] /\ staff' = C!NoWork
        /\ UNCHANGED <<ship, level>>
    BY <1>12 DEF C!Crash, C!shop
  <2>2. \A i \in Parcels : Fresh(i)'
    BY <1>1, <1>2, <2>1 DEF Fresh
  <2>3. StaffFresh'
    BY <1>2, <2>1 DEF StaffFresh
  <2> QED
    BY <1>4, <2>1, <2>2, <2>3 DEF Reading
<1>13. ASSUME NEW k \in Parcels, NEW s \in C!Status,
              C!CarrierMoves(k, s) \/ C!Deliver(k, s) PROVE Goal
  BY <1>6, <1>13 DEF C!CarrierMoves, C!Deliver, C!shop, C!memory
<1>14. ASSUME NEW k \in Parcels, C!Push(k) PROVE Goal
  <2>1. staff'.pc = "push" /\ UNCHANGED <<ship, level, work>>
    BY <1>14 DEF C!Push, C!shop
  <2> QED
    BY <1>6, <2>1
<1>15. CASE C!Record
  <2> DEFINE j == staff.j
             new == [status |-> "pending", open |-> TRUE, packed |-> FALSE, tracking |-> j]
  <2>1. /\ staff.pc = "push" /\ ship' = [ship EXCEPT ![j] = new] /\ staff' = C!NoWork
        /\ UNCHANGED <<trouble, parcel, mail, connected, queue, work, level>>
    BY <1>15 DEF C!Record
  <2>2. j \in Parcels /\ ship[j] = C!NoShip /\ \A k \in Parcels : work[k].pc = "idle"
    BY <1>1, <1>3, <2>1 DEF Traced, Recorded
  <2>3. /\ new.open /\ new.status = "pending" /\ new.tracking = j /\ ~new.packed
        /\ ~IsOut(new) /\ ~IsPacked(new) /\ ~IsTaken(new)
        /\ ~IsOut(C!NoShip) /\ ~IsPacked(C!NoShip) /\ ~IsTaken(C!NoShip)
    BY DEF IsOut, IsPacked, IsTaken, C!Gone, C!NoShip
  <2> HIDE DEF new, j
  <2>4. ship'[j] = new /\ \A k \in Parcels \ {j} : ship'[k] = ship[k]
    BY <1>1, <2>1, <2>2
  <2>5. \A i \in Parcels : Fresh(i)'
    BY <1>1, <2>1, <2>2, <2>3, <2>4 DEF Fresh, C!Final
  <2>6. StaffFresh'
    BY <1>2, <2>1 DEF StaffFresh
  <2>7. /\ level["on_hand"] \in Int /\ level["packed"] \in Int /\ level["committed"] \in Int
    BY <1>1 DEF C!Level, C!Buckets
  <2>8. /\ level'["on_hand"] = level["on_hand"] + One(IsOut(ship[j])) - One(IsOut(ship'[j]))
        /\ level'["packed"] = level["packed"] + One(IsPacked(ship'[j])) - One(IsPacked(ship[j]))
        /\ level'["committed"]
             = level["committed"] + One(IsTaken(ship[j])) - One(IsTaken(ship'[j]))
    BY <2>1, <2>2, <2>3, <2>4, <2>7 DEF One
  <2>9. C!GoodsWhereStatusSays'
    BY <1>1, <2>2, <2>4, <2>8, GoodsMove
  <2> QED
    BY <2>5, <2>6, <2>9 DEF Reading
<1>16. ASSUME NEW j \in Parcels, C!Pack(j) PROVE Goal
  <2> DEFINE n == [ship[j] EXCEPT !.packed = TRUE]
  <2>1. /\ C!MayAct /\ ship[j].open /\ ~ship[j].packed /\ ship[j].status = "pending"
        /\ level' = Posted(level, C!PackEntries) /\ ship' = [ship EXCEPT ![j] = n]
        /\ UNCHANGED <<trouble, parcel, mail, connected, queue, work, staff>>
    BY <1>16 DEF C!Pack, Posted, C!memory
  <2>2. /\ n.status = "pending" /\ n.packed /\ n.open /\ n.tracking = ship[j].tracking
    BY <1>1, <2>1 DEF Parcel
  <2> HIDE DEF n
  <2>3. staff.pc = "idle" /\ \A k \in Parcels : work[k].pc = "idle"
    BY <2>1 DEF C!MayAct, Clean, C!Working
  <2>4. ship'[j] = n /\ \A k \in Parcels \ {j} : ship'[k] = ship[k]
    BY <1>1, <2>1
  <2>5. \A i \in Parcels : Fresh(i)'
    BY <1>1, <2>1, <2>2, <2>3, <2>4 DEF Fresh, C!Final, Known
  <2>6. StaffFresh'
    BY <2>1, <2>3 DEF StaffFresh
  <2>7. /\ ~IsOut(n) /\ IsPacked(n) /\ IsTaken(n)
        /\ ~IsOut(ship[j]) /\ ~IsPacked(ship[j]) /\ ~IsTaken(ship[j])
    BY <2>1, <2>2 DEF IsOut, IsPacked, IsTaken, C!Gone
  <2>8. /\ level["on_hand"] \in Int /\ level["packed"] \in Int /\ level["committed"] \in Int
    BY <1>1 DEF C!Level, C!Buckets
  <2>9. /\ level'["on_hand"] = level["on_hand"] /\ level'["packed"] = level["packed"] + 1
        /\ level'["committed"] = level["committed"] - 1
    BY <1>1, <2>1, PackPosts
  <2>10. /\ level'["on_hand"] = level["on_hand"] + One(IsOut(ship[j])) - One(IsOut(ship'[j]))
         /\ level'["packed"] = level["packed"] + One(IsPacked(ship'[j])) - One(IsPacked(ship[j]))
         /\ level'["committed"]
              = level["committed"] + One(IsTaken(ship[j])) - One(IsTaken(ship'[j]))
    BY <2>4, <2>7, <2>8, <2>9 DEF One
  <2>11. C!GoodsWhereStatusSays'
    BY <1>1, <2>4, <2>10, GoodsMove
  <2> QED
    BY <2>5, <2>6, <2>11 DEF Reading
<1>17. ASSUME NEW j \in Parcels, C!AskCancel(j) PROVE Goal
  <2>1. /\ ship[j].open /\ staff' = [pc |-> "cancel", j |-> j, seen |-> ship[j]]
        /\ UNCHANGED <<ship, level, work>>
    BY <1>17 DEF C!AskCancel, C!shop
  <2>2. staff'.j = j /\ staff'.seen = ship[j]
    BY <2>1
  <2> QED
    BY <1>6, <2>1, <2>2
<1>18. CASE C!Cancel \/ C!SetStatus
  <2> DEFINE j == staff.j
  <2>1. PICK s : /\ C!Applies(staff.j, staff.seen, s) /\ staff.pc \in {"cancel", "status"}
                 /\ \/ s = "cancelled" /\ staff.pc = "cancel"
                    \/ s = staff.s /\ staff.pc = "status"
                 /\ staff' = C!NoWork /\ work' = work
    BY <1>18 DEF C!Cancel, C!SetStatus
  <2>2. /\ j \in Parcels /\ staff.seen = ship[j] /\ ship[j].open /\ Known(ship[j])
        /\ \A k \in Parcels : work[k].pc = "idle"
    BY <1>1, <1>3, <2>1 DEF StaffFresh, Traced
  <2>3. /\ staff.pc = "cancel" => staff.seen.status = "pending"
        /\ staff.pc = "status" => staff.s \in C!Allowed(staff.seen.status)
    BY <1>1 DEF CarrierTypes, Asking, C!NoWork
  <2>4. s \in C!Allowed(ship[j].status)
    BY <2>1, <2>2, <2>3 DEF C!Allowed, C!Final
  <2>5. C!Applies(j, ship[j], s)
    BY <2>1, <2>2
  <2> HIDE DEF j
  <2>6. staff'.pc = "idle"
    BY <1>2, <2>1
  <2>7. \A i \in Parcels : work'[i].pc = "idle"
    BY <2>1, <2>2
  <2> QED
    BY <1>7, <2>2, <2>4, <2>5, <2>6, <2>7
<1>19. ASSUME NEW k \in Parcels, NEW s \in C!Status, C!ReadForStatus(k, s) \/ C!Webhook(k, s)
       PROVE  Goal
  <2>1. PICK j \in Parcels : C!Reads(j, s)
    BY <1>19 DEF C!ReadForStatus, C!Webhook
  <2>2. UNCHANGED <<work, ship, level>>
    BY <1>19 DEF C!ReadForStatus, C!Webhook, C!shop
  <2>3. ship[j].open /\ staff' = [pc |-> "status", j |-> j, seen |-> ship[j], s |-> s]
    BY <2>1 DEF C!Reads
  <2>4. staff'.j = j /\ staff'.seen = ship[j]
    BY <2>3
  <2> QED
    BY <1>6, <2>2, <2>3, <2>4
<1>20. CASE C!StaffFails \/ C!Connect \/ C!Disconnect
  <2>1. (staff' = C!NoWork \/ staff' = staff) /\ UNCHANGED <<ship, level, work>>
    BY <1>20 DEF C!StaffFails, C!Connect, C!Disconnect, C!shop, C!memory
  <2> QED
    BY <1>2, <1>6, <2>1
<1> QED
  BY <1>8, <1>9, <1>10, <1>11, <1>12, <1>13, <1>14, <1>15, <1>16, <1>17, <1>18, <1>19, <1>20
     DEF C!Next, C!Staff, C!Job

\* One order and its parcels: the invariant holds at first and is kept.
LEMMA CarrierInit == ASSUME C!CarrierAssumption, C!Init PROVE CarrierInv
<1>1. CarrierTypes
  <2>1. Doing(C!NoWork) /\ Asking(C!NoWork)
    BY DEF Doing, Asking
  <2>2. C!NoShip \in Parcel
    BY DEF C!NoShip, Parcel
  <2> HIDE DEF C!NoShip
  <2>3. queue \in [Parcels -> Seq(C!Status)]
    BY DEF C!Init
  <2> QED
    BY <2>1, <2>2, <2>3 DEF C!Init, CarrierTypes, C!TypeOK, Parcel, C!CarrierAssumption
<1>2. Traced
  BY DEF C!Init, Traced, Told, Recorded, C!NoWork, C!NoShip, Known
<1>3. Apart
  BY DEF C!Init, Apart, C!NoWork
<1>4. Reading
  BY DEF C!Init, Reading, Fresh, StaffFresh, C!NoWork, C!NoShip, Known
<1>5. C!GoodsWhereStatusSays
  <2>1. C!Out = {} /\ C!PackedUp = {} /\ C!Out \union C!Back \union C!PackedUp = {}
    BY DEF C!Init, C!NoShip, C!Out, C!PackedUp, C!Back, C!Gone
  <2>2. C!Cardinality({}) = 0
    BY SameCounting, FS_EmptySet
  <2>3. /\ OpeningLevel["on_hand"] \in Int /\ OpeningLevel["packed"] \in Int
        /\ OpeningLevel["committed"] \in Int
    BY DEF C!Level, C!Buckets, C!CarrierAssumption
  <2>4. level = OpeningLevel
    BY DEF C!Init
  <2> DEFINE taken == C!Out \union C!Back \union C!PackedUp
  <2>5. C!Cardinality(C!Out) = 0 /\ C!Cardinality(C!PackedUp) = 0 /\ C!Cardinality(taken) = 0
    BY <2>1, <2>2
  <2> HIDE DEF taken
  <2>6. /\ level["on_hand"] = OpeningLevel["on_hand"] - C!Cardinality(C!Out)
        /\ level["packed"] = OpeningLevel["packed"] + C!Cardinality(C!PackedUp)
        /\ level["committed"] = OpeningLevel["committed"] - C!Cardinality(taken)
    BY <2>3, <2>4, <2>5
  <2> QED
    BY <2>6 DEF C!GoodsWhereStatusSays, taken
<1> QED
  BY <1>1, <1>2, <1>3, <1>4, <1>5 DEF CarrierInv, Basics

\* Every step keeps the carrier's whole invariant.
LEMMA CarrierStep ==
    ASSUME C!CarrierAssumption, CarrierInv, [C!Next]_(C!vars)
    PROVE  CarrierInv'
<1>1. CASE C!Next
  <2>1. Basics /\ (Clean => Reading /\ C!GoodsWhereStatusSays)
    BY DEF CarrierInv
  <2>2. Basics'
    BY <1>1, <2>1, TypesStep, TracedStep, ApartStep DEF Basics
  <2>3. Clean' => Clean
    BY <1>1, <2>1, <2>2, CleanStays
  <2>4. Clean => Reading' /\ C!GoodsWhereStatusSays'
    BY <1>1, <2>1, <2>2, ReadingStep
  <2> QED
    BY <2>2, <2>3, <2>4 DEF CarrierInv
<1>2. CASE UNCHANGED C!vars
  <2>1. UNCHANGED <<trouble, parcel, mail, connected, queue, work, staff, ship, level>>
    BY <1>2 DEF C!vars, C!memory, C!shop
  <2>2. CarrierTypes' = CarrierTypes
    BY <2>1 DEF CarrierTypes, C!TypeOK
  <2>3. Traced' = Traced
    BY <2>1 DEF Traced, Told, Recorded
  <2>4. Apart' = Apart /\ Clean' = Clean
    BY <2>1 DEF Apart, C!Working, Clean, C!Unrecorded
  <2>5. Reading' = Reading
    BY <2>1 DEF Reading, Fresh, StaffFresh
  <2>6. C!GoodsWhereStatusSays' = C!GoodsWhereStatusSays
    BY <2>1 DEF C!GoodsWhereStatusSays, C!Out, C!Back, C!PackedUp
  <2> QED
    BY <2>2, <2>3, <2>4, <2>5, <2>6 DEF CarrierInv, Basics
<1> QED
  BY <1>1, <1>2

-----------------------------------------------------------------------------
(* The copies of a marketplace's orders.                                   *)

Row == [status : {"absent", "open", "closed", "cancelled"},
        lines : {"none", "partial", "full"},
        shipment : {"none", "pending", "delivering", "delivered", "cancelled", "returned"},
        packed : {"unknown", "packed"},
        back : {"no_return", "in_progress", "returned"}]

RemoteStatuses == {"NEW", "UNPAID", "AWAITING_SHIPMENT", "READY_TO_SHIP", "AWAITING_COLLECTION",
                   "PROCESSED", "IN_TRANSIT", "SHIPPED", "DELIVERED", "COMPLETED",
                   "IN_CANCEL", "CANCELLED"}

Backs == {"none", "pending", "done", "dropped"}

MirrorInv ==
    /\ platform \in Platforms
    /\ remote \in [MarketOrders -> [status : RemoteStatuses, backs : [MarketReturns -> Backs]]]
    /\ \A o \in MarketOrders : remote[o].status \in DOMAIN M!RemoteNext[platform]
    /\ fresh \subseteq MarketOrders /\ freshBack \subseteq MarketOrders
    /\ told \subseteq MarketOrders /\ running \in BOOLEAN
    /\ DOMAIN job = M!Jobs
    /\ \A j \in M!Jobs : "pc" \in DOMAIN job[j] /\ job[j].pc \in {"idle", "asked", "write"}
    /\ mirror \in [MarketOrders -> Row]

\* What a marketplace's order may become next is one of its statuses.
LEMMA RemoteTable ==
    ASSUME NEW p, p \in {"tiktok", "shopee"}
    PROVE  /\ DOMAIN M!RemoteNext[p] \subseteq RemoteStatuses
           /\ \A s \in DOMAIN M!RemoteNext[p] :
                 M!RemoteNext[p][s] \subseteq DOMAIN M!RemoteNext[p]
<1>1. CASE p = "tiktok"
  BY <1>1 DEF M!RemoteNext, RemoteStatuses
<1>2. CASE p = "shopee"
  BY <1>2 DEF M!RemoteNext, RemoteStatuses
<1> QED
  BY <1>1, <1>2

\* The outcome of the returns leaves a row's lines alone.
LEMMA RowWithReturns ==
    ASSUME NEW m, m \in Row, NEW a, a \in {"no_return", "in_progress", "returned"},
           NEW b, b \in {"returned", m.shipment}
    PROVE  LET row == [m EXCEPT !.back = a, !.shipment = b]
           IN  row \in Row /\ row.lines = m.lines
<1> DEFINE n == [m EXCEPT !.back = a]
<1>1. n \in Row /\ n.lines = m.lines /\ n.shipment = m.shipment
  BY DEF Row
<1>2. b \in {"none", "pending", "delivering", "delivered", "cancelled", "returned"}
  BY DEF Row
<1> HIDE DEF n
<1>3. [n EXCEPT !.shipment = b] \in Row /\ [n EXCEPT !.shipment = b].lines = m.lines
  BY <1>1, <1>2 DEF Row
<1> QED
  BY <1>3 DEF n

\* A row stays a row when an order is written into it, and a TikTok order's lines
\* that were known are known.
LEMMA UpsertKeeps ==
    ASSUME NEW row, row \in Row, NEW s, NEW view
    PROVE  /\ M!Upserted(row, s, view) \in Row
           /\ platform = "tiktok" /\ row.lines = "full"
                 => M!Upserted(row, s, view).lines = "full"
<1> DEFINE shipment == M!ShipmentOf(s)
           packed == M!SyncedPacked(shipment, row.packed)
           written == IF platform = "tiktok" THEN M!TiktokFields(row, s, view)
                                             ELSE M!ShopeeFields(row, s, view)
<1>1. shipment \in {"none", "pending", "delivering", "delivered", "cancelled"}
  BY DEF M!ShipmentOf, M!TiktokShipment, M!ShopeeShipment
<1>2. packed \in {"unknown", "packed"}
  BY DEF Row, M!SyncedPacked
<1>3. M!LinesFound(view) \in {"none", "partial", "full"}
  BY DEF M!LinesFound
<1>4. /\ M!TiktokStatus(s) \in {"open", "closed", "cancelled"}
      /\ M!ShopeeStatus(s) \in {"open", "closed", "cancelled"}
  BY DEF M!TiktokStatus, M!ShopeeStatus
<1>5. /\ M!TiktokLines(row, view) \in {"none", "partial", "full"}
      /\ row.lines = "full" => M!TiktokLines(row, view) = "full"
  BY <1>3 DEF M!TiktokLines, M!ReplacesLines, M!LinesFound, M!Absent, Row
<1>6. written \in Row /\ (platform = "tiktok" /\ row.lines = "full" => written.lines = "full")
  <2>1. CASE platform = "tiktok"
    BY <1>4, <1>5, <2>1 DEF M!TiktokFields, Row
  <2>2. CASE platform # "tiktok"
    BY <1>3, <1>4, <2>2 DEF M!ShopeeFields, M!ShopeeLines, Row
  <2> QED
    BY <2>1, <2>2
<1>7. M!Upserted(row, s, view) =
        IF shipment = "none" THEN written
        ELSE [written EXCEPT !.shipment = shipment, !.packed = packed]
  BY DEF M!Upserted
<1> HIDE DEF shipment, packed, written
<1> QED
  BY <1>1, <1>2, <1>6, <1>7 DEF Row

\* At the start nothing is copied.
LEMMA MirrorInit == ASSUME M!MirrorAssumption, M!Init PROVE MirrorInv
<1>1. M!Absent \in Row
  BY DEF M!Absent, Row
<1>2. DOMAIN M!RemoteNext[platform] \subseteq RemoteStatuses
  BY RemoteTable DEF M!MirrorAssumption, M!Init
<1>3. PICK st : /\ st \in [MarketOrders -> DOMAIN M!RemoteNext[platform]]
                /\ remote = [o \in MarketOrders |->
                       [status |-> st[o], backs |-> [x \in MarketReturns |-> "none"]]]
  BY DEF M!Init
<1>4. \A o \in MarketOrders : remote[o].status = st[o]
  BY <1>3
<1>5. remote \in [MarketOrders -> [status : RemoteStatuses, backs : [MarketReturns -> Backs]]]
  BY <1>2, <1>3 DEF Backs
<1>6. \A o \in MarketOrders : remote[o].status \in DOMAIN M!RemoteNext[platform]
  BY <1>3, <1>4
<1>7. "pc" \in DOMAIN M!Idle /\ M!Idle.pc = "idle"
  BY DEF M!Idle
<1> HIDE DEF M!Absent, M!Idle
<1> QED
  BY <1>1, <1>5, <1>6, <1>7 DEF M!Init, MirrorInv

\* A step keeps the types and, of a TikTok order, the lines that were known.
LEMMA MirrorStep ==
    ASSUME M!MirrorAssumption, MirrorInv, [M!Next]_(M!vars)
    PROVE  /\ MirrorInv'
           /\ \A o \in MarketOrders : platform = "tiktok" /\ mirror[o].lines = "full"
                                        => mirror'[o].lines = "full"
<1> USE DEF MirrorInv
<1> DEFINE Goal == /\ MirrorInv'
                   /\ \A o \in MarketOrders : platform = "tiktok" /\ mirror[o].lines = "full"
                                                => mirror'[o].lines = "full"
           Working(jobs) == /\ DOMAIN jobs = M!Jobs
                            /\ \A j \in M!Jobs : /\ "pc" \in DOMAIN jobs[j]
                                                 /\ jobs[j].pc \in {"idle", "asked", "write"}
<1>1. Working(job) /\ M!Jobs = {"poll", "sweep", "hook", "returns"} /\ M!Pollers = {"poll", "sweep"}
  BY DEF M!Jobs, M!Pollers
<1>2. ASSUME NEW j \in M!Jobs, NEW w, "pc" \in DOMAIN w, w.pc \in {"idle", "asked", "write"}
      PROVE  Working([job EXCEPT ![j] = w])
  BY <1>1, <1>2
<1>3. ASSUME NEW j \in M!Jobs, NEW o PROVE Working(M!Without(j, o))
  <2> DEFINE b == M!Restrict(job[j].batch, M!Batch(j) \ {o})
             w == [job[j] EXCEPT !.batch = b]
  <2>1. M!Without(j, o) = [job EXCEPT ![j] = w]
    BY DEF M!Without
  <2>2. "pc" \in DOMAIN w /\ w.pc = job[j].pc
    BY <1>1
  <2> HIDE DEF w
  <2> QED
    BY <1>1, <1>2, <2>1, <2>2
<1>4. ASSUME NEW o \in MarketOrders, NEW s, M!RemoteMoves(o, s) PROVE Goal
  <2>1. s \in DOMAIN M!RemoteNext[platform] /\ s \in RemoteStatuses
    BY <1>4, RemoteTable DEF M!RemoteMoves, M!MirrorAssumption
  <2>2. /\ remote' = [remote EXCEPT ![o].status = s] /\ fresh' = fresh \union {o}
        /\ told' \in {told, told \union {o}}
        /\ UNCHANGED <<platform, freshBack, running, job, mirror, restarts>>
    BY <1>4 DEF M!RemoteMoves
  <2> QED
    BY <2>1, <2>2
<1>5. ASSUME NEW o \in MarketOrders, NEW x \in MarketReturns, NEW s \in {"pending", "done", "dropped"},
             M!ReturnMoves(o, x, s) PROVE Goal
  <2>1. /\ remote' = [remote EXCEPT ![o].backs[x] = s] /\ freshBack' = freshBack \union {o}
        /\ UNCHANGED <<platform, fresh, told, running, job, mirror, restarts>>
    BY <1>5 DEF M!ReturnMoves
  <2>2. remote' \in [MarketOrders -> [status : RemoteStatuses, backs : [MarketReturns -> Backs]]]
    BY <2>1 DEF Backs
  <2>3. \A i \in MarketOrders : remote'[i].status = remote[i].status
    BY <2>1
  <2> QED
    BY <2>1, <2>2, <2>3
<1>6. ASSUME NEW o \in MarketOrders, M!Passes(o) PROVE Goal
  BY <1>6 DEF M!Passes
<1>7. ASSUME UNCHANGED <<platform, remote, mirror, fresh, freshBack>>,
             told' \subseteq told, running' \in BOOLEAN, Working(job')
      PROVE  Goal
  BY <1>7
<1>8. ASSUME NEW j \in M!Pollers, M!Ask(j) \/ M!Fetch(j) \/ M!FetchFails(j) PROVE Goal
  <2>1. PICK w : /\ job' = [job EXCEPT ![j] = w]
                 /\ "pc" \in DOMAIN w /\ w.pc \in {"idle", "asked", "write"}
    BY <1>8 DEF M!Ask, M!Fetch, M!FetchFails, M!Fetched, M!Idle
  <2>2. Working(job')
    BY <1>1, <1>2, <2>1
  <2> HIDE DEF Working
  <2> QED
    BY <1>7, <1>8, <2>2 DEF M!Ask, M!Fetch, M!FetchFails, M!market
<1>9. ASSUME NEW o \in MarketOrders, M!HookFetch(o) PROVE Goal
  <2> DEFINE w == M!Fetched({o})
  <2>1. job' = [job EXCEPT !["hook"] = w]
    BY <1>9 DEF M!HookFetch
  <2>2. Working(job')
    <3>1. "pc" \in DOMAIN w /\ w.pc = "write"
      BY DEF M!Fetched
    <3> HIDE DEF w
    <3> QED
      BY <1>1, <1>2, <2>1, <3>1
  <2> HIDE DEF Working
  <2> QED
    BY <1>7, <1>9, <2>2 DEF M!HookFetch
<1>10. ASSUME M!ReturnsFetch PROVE Goal
  <2> DEFINE w == [pc |-> "write", batch |-> [o \in freshBack |-> remote[o].backs]]
  <2>1. job' = [job EXCEPT !["returns"] = w]
    BY <1>10 DEF M!ReturnsFetch
  <2>2. Working(job')
    <3>1. "pc" \in DOMAIN w /\ w.pc = "write"
      OBVIOUS
    <3> HIDE DEF w
    <3> QED
      BY <1>1, <1>2, <2>1, <3>1
  <2> HIDE DEF Working
  <2> QED
    BY <1>7, <1>10, <2>2 DEF M!ReturnsFetch, M!market
<1>11. ASSUME NEW j \in M!Jobs, M!Finish(j) PROVE Goal
  <2>1. "pc" \in DOMAIN M!Idle /\ M!Idle.pc = "idle"
    BY DEF M!Idle
  <2>2. Working(job')
    BY <1>2, <1>11, <2>1 DEF M!Finish
  <2> HIDE DEF Working
  <2> QED
    BY <1>7, <1>11, <2>2 DEF M!Finish, M!market
<1>12. ASSUME M!Restart PROVE Goal
  <2>1. Working(job')
    BY <1>12 DEF M!Restart, M!Idle
  <2> HIDE DEF Working
  <2> QED
    BY <1>7, <1>12, <2>1 DEF M!Restart, M!market
<1>13. ASSUME NEW j \in M!Jobs, NEW o \in MarketOrders, M!Skip(j, o) PROVE Goal
  <2>1. Working(job')
    BY <1>3, <1>13 DEF M!Skip
  <2> HIDE DEF Working
  <2> QED
    BY <1>7, <1>13, <2>1 DEF M!Skip, M!market
<1>14. ASSUME NEW o \in MarketOrders, NEW row, row \in Row, mirror' = [mirror EXCEPT ![o] = row],
              platform = "tiktok" /\ mirror[o].lines = "full" => row.lines = "full",
              UNCHANGED <<platform, remote, fresh, freshBack, told, running>>, Working(job')
       PROVE  Goal
  BY <1>14
<1>15. ASSUME NEW j \in M!Jobs, NEW o \in MarketOrders, NEW view \in Views, M!Write(j, o, view)
       PROVE  Goal
  <2> DEFINE row == M!Upserted(mirror[o], job[j].batch[o], view)
  <2>1. mirror' = [mirror EXCEPT ![o] = row]
    BY <1>15 DEF M!Write
  <2>2. row \in Row /\ (platform = "tiktok" /\ mirror[o].lines = "full" => row.lines = "full")
    BY UpsertKeeps
  <2>3. Working(job')
    BY <1>3, <1>15 DEF M!Write
  <2> HIDE DEF Working, row
  <2> QED
    BY <1>14, <1>15, <2>1, <2>2, <2>3 DEF M!Write, M!market
<1>16. ASSUME NEW o \in MarketOrders, M!WriteReturns(o) PROVE Goal
  <2> DEFINE back == M!Summary({job["returns"].batch[o][x] : x \in MarketReturns})
             known == mirror[o] # M!Absent
             closes == known /\ back = "returned" /\ mirror[o].shipment # "none"
             a == IF known THEN back ELSE mirror[o].back
             b == IF closes THEN "returned" ELSE mirror[o].shipment
             row == [mirror[o] EXCEPT !.back = a, !.shipment = b]
  <2>1. back \in {"no_return", "in_progress", "returned"}
    BY DEF M!Summary
  <2>2. mirror' = [mirror EXCEPT ![o] = row]
    BY <1>16 DEF M!WriteReturns
  <2> HIDE DEF back, known, closes
  <2>3. a \in {"no_return", "in_progress", "returned"} /\ b \in {"returned", mirror[o].shipment}
    BY <2>1 DEF Row
  <2> HIDE DEF a, b
  <2>4. row \in Row /\ row.lines = mirror[o].lines
    <3>1. mirror[o] \in Row
      OBVIOUS
    <3> QED
      BY <2>3, <3>1, RowWithReturns
  <2> HIDE DEF row
  <2>5. Working(job')
    <3>1. "returns" \in M!Jobs /\ job' = M!Without("returns", o)
      BY <1>1, <1>16 DEF M!WriteReturns
    <3> HIDE DEF Working
    <3> QED
      BY <1>3, <3>1
  <2>6. UNCHANGED <<platform, remote, fresh, freshBack, told, running>>
    BY <1>16 DEF M!WriteReturns, M!market
  <2> HIDE DEF Working
  <2> QED
    BY <1>14, <2>2, <2>4, <2>5, <2>6
<1>17. ASSUME NEW o \in MarketOrders, M!Pack(o) PROVE Goal
  <2> DEFINE row == [mirror[o] EXCEPT !.packed = "packed"]
  <2>1. mirror' = [mirror EXCEPT ![o] = row] /\ job' = job
    BY <1>17 DEF M!Pack
  <2>2. row \in Row /\ row.lines = mirror[o].lines
    BY DEF Row
  <2>3. Working(job')
    BY <1>1, <2>1
  <2> HIDE DEF row, Working
  <2> QED
    BY <1>14, <1>17, <2>1, <2>2, <2>3 DEF M!Pack, M!market
<1>18. CASE UNCHANGED M!vars
  BY <1>18 DEF M!vars, M!market
<1> QED
  BY <1>4, <1>5, <1>6, <1>8, <1>9, <1>10, <1>11, <1>12, <1>13, <1>15, <1>16, <1>17, <1>18
     DEF M!Next

-----------------------------------------------------------------------------
(* The two areas, each as it is alone.                                     *)

\* Seen from one area a behaviour of Integrations is one of that area's module.
LEMMA AreasAsAlone ==
    /\ OutsideInit => C!Init /\ M!Init
    /\ [OutsideNext]_outsideVars => [C!Next]_(C!vars) /\ [M!Next]_(M!vars)
<1>1. OutsideInit => C!Init /\ M!Init
  BY DEF OutsideInit
<1>2. InCarrier /\ C!Next => UNCHANGED M!vars
  BY DEF InCarrier, mVars, M!vars, M!market
<1>3. InMarketplaces /\ M!Next => UNCHANGED C!vars
  BY DEF InMarketplaces, cVars, C!vars, C!memory, C!shop
<1>4. UNCHANGED outsideVars => UNCHANGED C!vars /\ UNCHANGED M!vars
  BY DEF outsideVars, cVars, mVars, C!vars, C!memory, C!shop, M!vars, M!market
<1> QED
  BY <1>1, <1>2, <1>3, <1>4 DEF OutsideNext

\* Parcels, reports, copies and callers have their types, for any number of pushes,
\* of reports on their way, of orders, changes and stops of the process.
THEOREM IntegrationsTypesCorrect == OutsideSpec => []TypesOK
<1>1. C!CarrierAssumption /\ M!MirrorAssumption
  BY IntegrationsAssumption
<1>2. C!Init => CarrierInv
  BY <1>1, CarrierInit
<1>3. CarrierInv /\ [C!Next]_(C!vars) => CarrierInv'
  BY <1>1, CarrierStep
<1>4. M!Init => MirrorInv
  BY <1>1, MirrorInit
<1>5. MirrorInv /\ [M!Next]_(M!vars) => MirrorInv'
  BY <1>1, MirrorStep
<1>6. CarrierInv => C!TypeOK
  BY DEF CarrierInv, Basics, CarrierTypes
<1>7. MirrorInv => M!TypeOK
  BY DEF MirrorInv, M!TypeOK, M!Pc, Row
<1>8. CarrierInv /\ MirrorInv => TypesOK
  BY <1>6, <1>7 DEF TypesOK
<1> QED
  BY <1>2, <1>3, <1>4, <1>5, <1>8, AreasAsAlone, PTL DEF OutsideSpec

\* Whatever the carrier reports, in whatever order, and wherever the process stops,
\* the goods are where the statuses of the order's parcels say, for any number of
\* pushes and of reports on their way.
THEOREM GoodsAlwaysFollowShipment == OutsideSpec => []GoodsFollowShipment
<1>1. C!CarrierAssumption
  BY IntegrationsAssumption
<1>2. C!Init => CarrierInv
  BY <1>1, CarrierInit
<1>3. CarrierInv /\ [C!Next]_(C!vars) => CarrierInv'
  BY <1>1, CarrierStep
<1>4. CarrierInv => C!GoodsFollowShipment
  BY DEF CarrierInv, Clean, C!GoodsFollowShipment
<1>5. CarrierInv => GoodsFollowShipment
  BY <1>4 DEF GoodsFollowShipment
<1> QED
  BY <1>2, <1>3, <1>5, AreasAsAlone, PTL DEF OutsideSpec

\* No sync, however late what it writes was read, takes from a TikTok order lines
\* that it had in full: for any orders, returns, changes and stops of the process.
THEOREM LinesAlwaysKept == OutsideSpec => KnownLinesKept
<1> DEFINE Keeps == \A o \in MarketOrders : platform = "tiktok" /\ mirror[o].lines = "full"
                                              => mirror'[o].lines = "full"
<1>1. M!MirrorAssumption
  BY IntegrationsAssumption
<1>2. M!Init => MirrorInv
  BY <1>1, MirrorInit
<1>3. MirrorInv /\ [M!Next]_(M!vars) => MirrorInv' /\ [Keeps]_(M!vars)
  BY <1>1, MirrorStep
<1> QED
  BY <1>2, <1>3, AreasAsAlone, PTL DEF OutsideSpec, KnownLinesKept, M!KnownLinesKept
=============================================================================
