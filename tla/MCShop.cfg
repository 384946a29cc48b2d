CONSTANTS
    c1 = c1
    c2 = c2
    g1 = g1
    e1 = e1
    e2 = e2
    l1 = l1
    l2 = l2
    q1 = q1
    q2 = q2
    Reqs <- MCReqs
    Customers <- MCCustomers
    Groups <- MCGroups
    Savers <- MCSavers
    Phones <- MCPhones
    Profiles <- MCProfiles
    RuleSets <- MCRuleSets
    Troubles <- MCTroubles
    SaversOverlap <- MCSaversOverlap
    Variants <- MCVariants
    SapoOrder <- MCSapoOrder
    Combinations <- MCCombinations
    Skus <- MCSkus
    EditorsOverlap <- MCEditorsOverlap
    Passes <- MCPasses
    MayBeOpen <- MCMayBeOpen
    Unknown <- MCUnknown
    Explicit <- MCExplicit
    Entries <- MCEntries
    Stores <- MCStores
    Opening <- MCOpening
    Tagged <- MCTagged
    Words <- MCWords
    Rules <- MCRules
    Categories <- MCCategories
    Users <- MCUsers
    Items <- MCItems
    Rows <- MCRows
    Drawers <- MCDrawers
    Lists <- MCLists
    Prices <- MCPrices
    Lines <- MCLines
    Discounts <- MCDiscounts
    Rates <- MCRates
    SapoIds <- MCSapoIds
    Codes <- MCCodes
    Forms <- MCForms
    Views <- MCViews
    MaxOrder = 3
    Window = 1
    Lag = 1
    PageSize = 1
    MaxPages = 2
    MaxCount = 1
    MaxMade = 2
    MaxDay = 2
    MaxUnits = 3
    CreatedOn = 1
    TTL = 1
    MaxTime = 2
    MaxNotices = 2
    MaxLines = 2
    MaxChanges = 1
    MaxRequests = 2
    MaxRows = 3
SPECIFICATION MCSpec
ACTION_CONSTRAINT UntilSnapshot
SYMMETRY Symmetry
INVARIANTS
    TypesOK
    GroupsFollowRules
    CopiesSettle
    
    NeverOlderThanTruth
    
    OrdersPricedRight
CHECK_DEADLOCK FALSE
