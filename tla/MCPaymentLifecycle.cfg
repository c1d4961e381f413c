SPECIFICATION MCSpec
CONSTANTS
    Orders = {o1}
    Handlers = {h1, h2}
    MaxAttempts = 2
    MaxCollections = 2
    MaxCrashes = 0
    None = None
    EventKeys = {"order", "grade"}
    Purchases = {"order"}
    Callers = {h1, h2}
    Clients = {c1}
    MaxReplay = 1
    JobIds = {p1}
    Candidates = {u1}
    Clerks = {h1, h2}
    MaxJobRecords = 4
    Foci = {"payment", "notifications", "jobs", "applications"}
\* A decided order with no payment under way may stay as it is for ever.
CHECK_DEADLOCK FALSE
SYMMETRY Symmetry

INVARIANTS TypeOK PaidOnce DeliveredOnce PayOsClosedFirst NotificationsKept
    JobsConsistent
PROPERTIES GuardedMoves KeepsPromise
