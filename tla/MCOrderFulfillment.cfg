\* Requests of two users, never two on one order.  The system may stop: every
\* order has been completed, cancelled or brought back.
SPECIFICATION Spec
CONSTANTS
    o1 = o1
    o2 = o2
    q1 = q1
    q2 = q2
    Orders = {o1, o2}
    Reqs = {q1, q2}
    MaxQty <- MCMaxQty
    MaxPackages <- MCMaxPackages
    OneAtATime = TRUE
    FollowsFlow = TRUE
    OpeningLevel <- MCOpeningLevel
SYMMETRY Interchangeable
INVARIANTS
    TypeOK
    StockMatchesOrders
    CancelledIsSettled
    DebtMatchesOrders
    PaidAndDeliveredCloses
CHECK_DEADLOCK FALSE
