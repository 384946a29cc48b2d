\* INV-2 after a resync that ran beside the services.
\* each transaction and the resync run once.
SPECIFICATION SyncSpec
CONSTANTS
    t1 = t1
    t2 = t2
    Txns = {t1, t2}
    MaxId = 2
    Variants <- MCVariants
    Locations <- MCLocations
    Docs <- MCDocs
    OpeningRows <- MCOpeningRows
    OpeningLevel <- MCOpeningLevel
    SapoAnswers <- MCSapoAnswers
INVARIANTS
    ResyncKeepsLedger
CHECK_DEADLOCK FALSE
