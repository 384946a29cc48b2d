\* Two shipments in opposite directions.
SPECIFICATION Spec
CONSTANTS
    x1 = x1
    x2 = x2
    q1 = q1
    q2 = q2
    Transfers = {x1, x2}
    Reqs = {q1, q2}
    MaxOrders = 1
    Overlaps = {FALSE}
    Variants <- MCVariants
    Locations <- MCLocations
    Contents <- MCContents
    OpeningLevel <- MCOpeningLevel
INVARIANTS
    NoWaitCycle
