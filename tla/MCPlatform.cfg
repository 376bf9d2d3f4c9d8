SPECIFICATION MCSpec
CONSTANTS
    Calls = {c1, c2}
    c1 = c1
    c2 = c2
    Mixes <- MCMixes
    NULL = NULL
    u1 = u1
    u2 = u2
    k1 = k1
    k2 = k2
    Members = {m1, m2}
    Comments = {k1, k2}
    Batches = {b1, b2}
    Keys = {o1, o2, o3}
    Facts = {f1}
    MaxEvents = 3
    Reviewers = {r1}
    Replies = {t1, t2}
    Moderators = {a1, a2}
    MaxTurns = 3
    Owners = {u1, u2}
    News <- MCNews
    MaxInbox = 2
    Campaigns = {d1}
    Admins = {a1, a2}
    e1 = e1
    e2 = e2
    g1 = g1
    Users = {u1, u2}
    Emails = {e1, e2}
    Uids = {g1}
    Seeded <- MCSeeded
    SeededTokens <- MCSeededTokens
    SeededCodes <- MCSeededCodes
    Purposes = {"register", "login"}
    Codes = {k1}
    Limit = 2
    MaxCodes = 5
    MaxClock = 1
    Lifetime = 1
    MaxTokens = 3
    MaxChanges = 2
SYMMETRY Symmetry
INVARIANTS
    CountersAddUp
    TimelineHasNoGap
    AppendsAreNotInTheWay
    RepliesStay
    DecisionsAreTold
    CodesAreUsedOnce
    CodesAreLimited
    OneLiveTokenPerLogin
    LockedOutFromNowOn
    ChangesAreAudited
