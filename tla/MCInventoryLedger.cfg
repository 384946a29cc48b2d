\* Safety of concurrent transactions, the oversell rule and serializability.
SPECIFICATION Spec
CONSTANTS
    t1 = t1
    t2 = t2
    t3 = t3
    Txns = {t1, t2, t3}
    MaxId = 2
    Variants <- MCVariants
    Locations <- MCLocations
    Docs <- MCDocs
    OpeningRows <- MCOpeningRows
    OpeningLevel <- MCOpeningLevel
INVARIANTS
    TypeOK
    LedgerMatchesLevel
    AvailableFormula
    NoWaitCycle
PROPERTIES
    OnlyOrdersOversell
    ImplementsAtomicLedger
