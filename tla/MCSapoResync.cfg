\* What a resync keeps when services work beside it.  The system may stop:
\* each transaction and the resync run once.
SPECIFICATION LiveSyncSpec
CONSTANTS
    t1 = t1
    t2 = t2
    Txns = {t1, t2}
    MaxId = 2
    Variants <- MCVariants
    Locations <- MCLocations
    Docs <- MCDocs
    OpeningRows <- MCOpeningRows
    OpeningLevel <- MCOpeningLevel
    SapoAnswers <- MCSapoAnswers

    
PROPERTIES
    EveryTransactionEnds
CHECK_DEADLOCK FALSE
