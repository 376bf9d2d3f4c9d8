SPECIFICATION FairSpec
CONSTANTS
    Calls = {c1, c2}
    Sweeps = {s1}
    Files = {f1}
    Resources = {r1, r2}
    NULL = NULL
INVARIANTS
    ReviewedWasValidated
PROPERTIES
    AttachmentsAreClaimed
    RetriesEnd
