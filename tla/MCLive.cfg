SPECIFICATION LiveSpec
CONSTANTS
    h1 = h1
    h2 = h2
    u = u
    a = a
    p1 = p1
    p2 = p2
    t1 = t1
    x1 = x1
    c1 = c1
    None = None
CHECK_DEADLOCK FALSE

PROPERTIES EarningsReachWallet TransfersAnswered
