\* Requests of two users, in some behaviours on one document at the same time.
\* The system may stop: in those orders stand still, and once both documents
\* have ended there is nothing more to do.
SPECIFICATION Spec
CONSTANTS
    x1 = x1
    x2 = x2
    q1 = q1
    q2 = q2
    Transfers = {x1, x2}
    Reqs = {q1, q2}
    MaxOrders = 1
    Overlaps = {TRUE, FALSE}
    Variants <- MCVariants
    Locations <- MCLocations
    Contents <- MCContents
    OpeningLevel <- MCOpeningLevel
ACTION_CONSTRAINT SmallIfOverlapping
SYMMETRY Interchangeable
INVARIANTS
    TypeOK
    ReservationsAndTransitExact
    NeverStranded
    GoodsConserved
CHECK_DEADLOCK FALSE
