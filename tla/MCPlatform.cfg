SPECIFICATION PlatformSpec
CONSTANTS
    Target = "target"
    Bank = "bank"
    Receipts <- MCReceipts
    Revenue <- MCRevenue
    MaxTraffic = 2
    MaxFailures = 3
    Posts = {p1}
    Comments = {m1}
    Resources = {r1}
    Categories = {g1}
    Writers = {k1, k2}
    People = {u1}
    MaxModerations = 2
    Learners = {l1}
    Handins = {c1, c2}
    Markers = {k1, k2}
    QuestionIds = {c1, c2}
    Orders = {1, 2}
    Keys = {1, 2}
    Points = {1}
    PassingScores = {0, 50}
    AttemptLimits = {1}
    Scores = {1, 2}
    Duration = 15
    Seconds = {0, 5, 10, 15}
    MaxAttempts = 2
    MaxVersions = 3
    MaxReports = 3
    CourseRows = {r1}
    Users = {u1}
    PortfolioItems = {p1}
    LessonRows = {c1, c2}
    ImageKeys = {i1, i2, i3}
    VideoKeys = {v1}
    DocumentKeys = {d1}
    Authors = {k1, k2}
    Uploaders = {k1, k2}
    NoKey = NoKey
    NullKey = NullKey
    Classes = {p1}
    Attendees = {u1}
    Visits = {k1, k2}
    Slots = {1, 2}
    MaxClock = 3
    VnPay = {va}
    PayOs = {pa}
    Foreign = foreign
    Collections = {c1, c2}
    Handlers = {k1, k2}
    Price = 1
    Raw = {100, 150, 200}
    MaxRaw = 200
    Nothing = Nothing
    Attempts = {1, 2}
    Limit = 1
    Runs = {k1, k2}
    RunTime = 1
    Slack = 1
    MaxTime = 2
    Nobody = Nobody
SYMMETRY Alike
CHECK_DEADLOCK FALSE

INVARIANTS ReleaseSafe CommunityConsistent CourseworkConsistent MediaKept
    ClassroomsConsistent EvidenceSound SweepsSound
PROPERTIES NothingTakenBack AppliesWhatWasAdmitted
