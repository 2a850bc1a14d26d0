SPECIFICATION Spec
CONSTANTS
    PriceMax = 2
    Threads = {t1}
    NoThread = NoThread
    NoRow = NoRow
    NoJob = NoJob
    NoOutcome = NoOutcome
    alice = alice
    bob = bob
    carol = carol
    m1 = m1
    m2 = m2
    o1 = o1
    o2 = o2
    o3 = o3
    o4 = o4
    o5 = o5
    Users = {alice, bob}
    Markets = {m1}
    OrderIds = {o1, o2}
    Requests <- MCPricedMarketOrder
    Operations = {"submit"}
    StartingCash = 6
    MaxRestarts = 0
INVARIANTS HoldCoversCost
CHECK_DEADLOCK FALSE
