CONSTANTS
    server = server
    space = space
    daily = daily
    monthly = monthly
    Point = {p1, p2}
    NoPoint = NoPoint
    Pruning = {r1}
    Scope = {server, space}
    ServerScope = server
    Tier = {daily, monthly}
    Limit <- TwoDaysOneMonth
    SlotOf <- Slots
    LastDay = 2
SPECIFICATION Spec
INVARIANTS ServerPointStands
SYMMETRY PointSymmetry
CHECK_DEADLOCK FALSE
