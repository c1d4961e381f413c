SPECIFICATION GdsSpec
CONSTANTS
    u = u
    a = a
    t1 = t1
    o1 = o1
    w1 = w1
    w2 = w2
    p1 = p1
    p2 = p2
    None = None
    Owner = u
    Admins = {u, a}
    Topups = {t1}
    TopupAmount <- MCTopupAmount
    Orders = {o1}
    Payable <- MCPayable
    Withdrawals = {w1, w2}
    Limits = {1, 2}
    Periods <- MCPeriods
    Share <- MCShare
    s1 = s1
    s2 = s2
    Plans = {p1, p2}
    Offers <- MCOffers
    Includes <- MCIncludes
    Durations = {1, 2}
    GraceMonths = 1
    Quota = 1
    MemberOrders = {s1, s2}
    Horizon = 2
    NoMonth = NoMonth
    Courses = {s1, s2}
    MaxVersions = 2
    MaxByHand = 1
    Policies = {1, 2}
    NoPolicy = NoPolicy
    Foci = {"members"}
SYMMETRY Alike
CHECK_DEADLOCK FALSE

INVARIANT UpgradeActivates
