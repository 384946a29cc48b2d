\* Two of the order's three units of money were paid before the push.
SPECIFICATION Spec
CONSTANTS
    Reqs = {q1, q2}
    Total = 3
    Cod = 1
    Repeats = 3
INVARIANTS
    CodCollectedOnce
CHECK_DEADLOCK FALSE
