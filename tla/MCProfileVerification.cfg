SPECIFICATION VerificationSpec
CONSTANTS
    Calls = {c1, c2}
    Mixes = {{"loading", "finding"}}
    NULL = NULL
    front = front
    back = back
    licence = licence
    f1 = f1
    f2 = f2
    f3 = f3
    Kinds <- MCKinds
    Columns <- MCColumns
    Overlapping = {"enterprise"}
    Files = {f1, f2, f3}
    Offered <- MCOffered
    Reviewers = {r1, r2}
    Ids = {i1, i2}
    MaxStamp = 3
SYMMETRY CallReviewerSymmetry
INVARIANTS
    FilesFollowTheDecision
    AttachmentsAreLinked
    AuditedOnce
PROPERTIES
    EarlierVerdictsStand
