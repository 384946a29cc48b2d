CONSTANTS
    p1 = p1
    p2 = p2
    r1 = r1
    r2 = r2
    x1 = x1
    s1 = s1
    u1 = u1
    u2 = u2
    l1 = l1
    l2 = l2
    f1 = f1
    k1 = k1
    k2 = k2
    t1 = t1
    t2 = t2
    q1 = q1
    q2 = q2
    v1 = v1
    v2 = v2
    o1 = o1
    o2 = o2
    Reqs <- MCReqs
    PurchaseOrders <- MCPurchaseOrders
    Receipts <- MCReceipts
    Returns <- MCReturns
    MaxQty <- MCMaxQty
    Adjustments <- MCAdjustments
    BuyersOverlap <- MCBuyersOverlap
    OpeningLevel <- MCOpeningLevel
    Shelved <- MCShelved
    Sheets <- MCSheets
    CountersOverlap <- MCCountersOverlap
    OpeningLevels <- MCOpeningLevels
    Users <- MCUsers
    Locations <- MCLocations
    AdminsOverlap <- MCAdminsOverlap
    Families <- MCFamilies
    ApiKeys <- MCApiKeys
    UserOf <- MCUserOf
    Tabs <- MCTabs
    Losses <- MCLosses
    Variants <- MCVariants
    Ranges <- MCRanges
    Files <- MCFiles
    Documents <- MCDocuments
    Sales <- MCSales
    Branches <- MCBranches
    Staff <- MCStaff
    KindOf <- MCKindOf
    Moments <- MCMoments
    Customs <- MCCustoms
    Views <- MCViews
    Kinds <- MCKinds
    TypedCodes <- MCTypedCodes
    Amounts <- MCAmounts
    Periods <- MCPeriods
    FollowsFlow = TRUE
    Total = 3
    Cod = 3
    Repeats = 3
    First = u1
    MaxChanges = 3
    MaxTokens = 3
    MaxCached = 2
    LowStock = 1
    MaxPosts = 3
    Radix = 3
    Width = 1
    MaxIds = 4
    PageSize = 2
    MaxEntries = 3
    MaxMoment = 2
    MaxStock = 1
SPECIFICATION MCSpec
ACTION_CONSTRAINT OneOrderIfReceiptsOverlap
SYMMETRY Symmetry
INVARIANTS
    TypesOK
    
    SheetTellsTheStock
    RightsAddUp
    SessionsKept
    ReportsAgree
    CodesAreFree
CHECK_DEADLOCK FALSE
