SPECIFICATION MCRunningSpec
CONSTANTS
    Orders = {o1}
    Handlers = {h1, h2}
    MaxAttempts = 1
    MaxCollections = 2
    MaxCrashes = 1
    None = None
    EventKeys = {}
    Purchases = {}
    Callers = {}
    Clients = {}
    MaxReplay = 1
    JobIds = {}
    Candidates = {}
    Clerks = {}
    MaxJobRecords = 0
    Foci = {"payment"}
CHECK_DEADLOCK FALSE
PROPERTIES
    WindowCloses
    LostHandoffRecovered
    LostWebhookRecovered
