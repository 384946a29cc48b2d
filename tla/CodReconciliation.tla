-------------------------- MODULE CodReconciliation --------------------------
(***************************************************************************)
(* CodReconciliationService: the carrier has collected money at the door   *)
(* for a delivered parcel, and each request takes it into the order's      *)
(* books by a payment (OrderService.pay, a transaction of its own) and     *)
(* then marks the parcel.  The request may end between the two and is made *)
(* again.  Meanwhile the order is paid over the counter.                   *)
(***************************************************************************)
EXTENDS Integers, FiniteSetsExt

CONSTANTS
    Reqs,
    Total,          \* the order's price
    Cod,            \* fulfillments.cod_amount: what the carrier collects
    Repeats         \* bound: requests made

\* The values of the constants, assumed by the module that instantiates this one.
CodAssumption == Total \in Nat \ {0} /\ Cod \in 0..Total /\ Repeats \in Nat

VARIABLES
    received,       \* orders.total_received
    collected,      \* what reconciliations have paid into it
    reconciled,     \* fulfillments.cod_reconciled_on
    req, made

vars == <<received, collected, reconciled, req, made>>

Idle == [pc |-> "idle", n |-> 0]

Init ==
    /\ received = 0 /\ collected = 0 /\ reconciled = FALSE
    /\ req = [q \in Reqs |-> Idle]
    /\ made = 0

\* The order row is locked and read again (lockPayment).
MayPay(n) == n > 0 /\ n <= Total - received

PayDirectly(n) ==
    /\ MayPay(n)
    /\ received' = received + n
    /\ UNCHANGED <<collected, reconciled, req, made>>

Collect == Min({Cod, Total - received})

\* The parcel and the order are read without locks.
Read(q) ==
    /\ req[q].pc = "idle" /\ ~reconciled /\ made < Repeats
    /\ req' = [req EXCEPT ![q] = [pc |-> IF Collect > 0 THEN "pay" ELSE "mark",
                                  n |-> Collect]]
    /\ made' = made + 1
    /\ UNCHANGED <<received, collected, reconciled>>

CollectCod(q) ==
    /\ req[q].pc = "pay" /\ MayPay(req[q].n)
    /\ received' = received + req[q].n
    /\ collected' = collected + req[q].n
    /\ req' = [req EXCEPT ![q].pc = "mark"]
    /\ UNCHANGED <<reconciled, made>>

MarkReconciled(q) ==
    /\ req[q].pc = "mark"
    /\ reconciled' = TRUE
    /\ req' = [req EXCEPT ![q] = Idle]
    /\ UNCHANGED <<received, collected, made>>

\* pay refuses, or a transaction fails.
Fail(q) ==
    /\ req[q].pc # "idle"
    /\ req' = [req EXCEPT ![q] = Idle]
    /\ UNCHANGED <<received, collected, reconciled, made>>

Next ==
    \/ \E n \in 1..Total : PayDirectly(n)
    \/ \E q \in Reqs : Read(q) \/ CollectCod(q) \/ MarkReconciled(q) \/ Fail(q)

Spec == Init /\ [][Next]_vars

-----------------------------------------------------------------------------
\* The types of the books and the requests.
TypeOK ==
    /\ received \in Nat /\ collected \in Nat
    /\ reconciled \in BOOLEAN /\ made \in 0..Repeats
    /\ req \in [Reqs -> [pc : {"idle", "pay", "mark"}, n : 0..Total]]

\* The order never takes in more than it costs, and no more of it is called
\* collected at the door than the carrier collects, when the amount was all
\* that remained to be paid at the push.
CodWithinOrder ==
    /\ received <= Total
    /\ Cod = Total => collected <= Cod

\* The comment of reconcile: a request cut off before the mark, made again, does
\* not collect a second time.
CodCollectedOnce == collected <= Cod
=============================================================================
