SPECIFICATION HistorySpec
CONSTANTS
    PriceMax = 3
    OrderIds = {o1, o2, o3}
    Owners = {alice, bob}
    Orders <- MCOrders
    Depth = 2
    NoAnswer = NoAnswer
    NoOrder = NoOrder
    MaxQuantity = 2
    MCTypes = {"limit", "market"}
    MCTimesInForce = {"gtc", "ioc", "fok"}
SYMMETRY Symmetry
INVARIANTS TypeOK QuantitiesInLockstep IndexIsLive PointersCoverBook NotCrossed FokFillsEntirely
PROPERTIES ImplementsAtomicBook NoOvertaking
