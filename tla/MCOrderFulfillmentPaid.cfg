\* The last payment and the delivery at the same time.
SPECIFICATION Spec
CONSTANTS
    o1 = o1
    o2 = o2
    q1 = q1
    q2 = q2
    Orders = {o1, o2}
    Reqs = {q1, q2}
    OneAtATime = FALSE
    FollowsFlow = TRUE
    MaxQty <- MCMaxQty
    MaxPackages <- MCMaxPackages
    OpeningLevel <- MCOpeningLevel
SYMMETRY Interchangeable
INVARIANTS
    PaidAndDeliveredCloses
CHECK_DEADLOCK FALSE
