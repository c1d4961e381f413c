SPECIFICATION CommerceSpec
CONSTANTS
    a1 = a1
    a2 = a2
    k1 = k1
    k2 = k2
    r3 = r3
    o3 = o3
    v1 = v1
    course = course
    plan = plan
    Courses = {a1, a2}
    CheckoutKeys = {k1, k2}
    MaxCatalogEdits = 4
    MaxOrders = 2
    Learners = {a1, a2}
    Rewards = {"r1"}
    Campaigns = {"c1"}
    RedeemKeys = {k1, k2}
    Policies <- MCPolicies
    AdminEdits = 2
    Orders = {a1, a2, o3}
    Claims = {v1}
    Buyers = {"b1", "b2"}
    BuyerOf <- MCBuyerOf
    Admins = {"admin"}
    Limits = {1, 2}
    None = None
    Lines = {course, plan}
    Price <- MCPrice
    Settlements = {a1, a2}
    Refunds = {k1, k2, r3}
    Missing = Missing
    Foci = {"vouchers"}
SYMMETRY Alike
CHECK_DEADLOCK FALSE

INVARIANT QuotaHolds
