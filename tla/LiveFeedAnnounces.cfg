SPECIFICATION Spec
CONSTANTS
    NoCounter = NoCounter
    Market = Market
    Ticker = Ticker
    ann = ann
    ben = ben
    eve = eve
    r1 = r1
    r2 = r2
    s1 = s1
    s2 = s2
    RequestIds = {r1, r2}
    Loads <- MCLoads
    Past <- MCPast
    Users = {ann, ben, eve}
    Channels = {Market}
    Sockets = {s1, s2}
    Owner <- MCOwner
INVARIANT AnnouncedIsCommitted
CHECK_DEADLOCK FALSE
