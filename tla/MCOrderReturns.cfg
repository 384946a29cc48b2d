\* Requests one at a time, overlapping, and with overlapping transactions.
\* The system may stop: the order has been returned.
SPECIFICATION Spec
CONSTANTS
    d1 = d1
    d2 = d2
    q1 = q1
    q2 = q2
    Returns = {d1, d2}
    Reqs = {q1, q2}
    OrderQty = 1
    OrderTotal = 2
    Overlaps <- AllOverlaps
SYMMETRY Interchangeable
INVARIANTS
    TypeOK
    NoSettledReturnLeftOpen
    ReceivedAndRefundedOnce
    StatusesDerived
CHECK_DEADLOCK FALSE
