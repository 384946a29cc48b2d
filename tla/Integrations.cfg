CONSTANTS
    Parcels = {1}
    MaxLate = 2
    MaxQueue = 2
    Troubles = {"none", "crash"}
    OpeningLevel <- OneOrderPacked
    MarketOrders = {o1}
    MarketReturns = {x1}
    Platforms = {"tiktok", "shopee"}
    Views = {"full", "empty"}
    MaxChanges = 2
    MaxRestarts = 1
SPECIFICATION OutsideSpec
INVARIANTS
    TypesOK
    GoodsFollowShipment
PROPERTIES
    ShipmentCatchesUp
    
    
CHECK_DEADLOCK FALSE
