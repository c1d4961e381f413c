SPECIFICATION MoneyInSpec

CONSTANTS
    o1 = o1
    o2 = o2
    x1 = x1
    x2 = x2
    p1 = p1
    p2 = p2
    i1 = i1
    i2 = i2
    k1 = k1
    k2 = k2
    None = None
    BankOrders = {o1, o2}
    Transactions = {x1, x2}
    Operators = {p1, p2}
    Images = {i1, i2}
    TransferCodes = {"t"}
    ReceiptLimit = 2
    MaxGenerations = 2
    Topups = {t1}
    Transfers = {x1, x2}
    Cancels = {c1}
    Hooks = {h1}
    Workers = {k1, k2}
    MaxAttempts = 2

SYMMETRY Alike

INVARIANTS OrdersSettled ReceiptsConsistent TopupsSound
PROPERTIES MoneyInSteps
CHECK_DEADLOCK FALSE
