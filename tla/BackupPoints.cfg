CONSTANTS
    server = server
    daily = daily
    monthly = monthly
    Point = {p1, p2, p3}
    NoPoint = NoPoint
    Pruning = {r1, r2, w}
    Worker = {w}
    Job = {1, 2}
    NoJob = NoJob
    Export = {e}
    Download = {d}
    Import = {i1, i2}
    NoImport = NoImport
    Scope = {server}
    ServerScope = server
    Tier = {daily, monthly}
    Limit <- TwoDaysOneMonth
    SlotOf <- Slots
    LastDay = 2
SPECIFICATION SpecOperations
INVARIANTS TypeOK CommittedIsComplete RetainedPointsStand PackageWithMarkerIsComplete LeaseIsHeld FailureIsTold SchedulerGoesOn
PROPERTIES ImportIsAllOrNothing JobEndsOnce ImplementsTarget
SYMMETRY PointSymmetry
CONSTRAINT Focus
CHECK_DEADLOCK FALSE
