SPECIFICATION FairSpec
CONSTANTS
    PriceMax = 2
    OrderIds = {o1, o2, o3}
    Owners = {alice, bob}
    Orders <- MCOrders
    Depth = 2
    NoAnswer = NoAnswer
    NoOrder = NoOrder
    MaxQuantity = 2
    MCTypes = {"limit"}
    MCTimesInForce = {"gtc", "fok"}
PROPERTIES MatchEnds
