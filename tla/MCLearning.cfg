SPECIFICATION LearningSpec
CONSTANTS
    l1 = l1
    q1 = q1
    a1 = a1
    r1 = r1
    r2 = r2
    e1 = e1
    e2 = e2
    e3 = e3
    i1 = i1
    u1 = u1
    u2 = u2
    None = None
    Lessons = {l1}
    Quizzes = {q1}
    Assignments = {a1}
    Videos = {l1}
    Position <- MCPosition
    Limits = {1, 2}
    Requests = {r1, r2}
    MaxTries = 2
    MaxEdits = 1
    Emails = {e1, e2, e3}
    Uids = {u1}
    Identities = {i1}
    ProviderEmail <- MCProviderEmail
    Flows = {r1, r2}
SYMMETRY Alike
CHECK_DEADLOCK FALSE

INVARIANTS LearningConsistent LastItemCounts AccountsConsistent
