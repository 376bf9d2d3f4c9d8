SPECIFICATION CatalogueSpec
CONSTANTS
    Calls = {c1, c2}
    c1 = c1
    c2 = c2
    Mixes <- MCMixes
    NULL = NULL
    u1 = u1
    Owners = {u1}
    News <- MCNews
    MaxInbox = 1
    MaxImages = 3
    MaxCerts = 2
    Papers = {p1, p2}
    Agents = {a1, a2}
    Fans = {u1}
    MaxMoves = 1
SYMMETRY Symmetry
INVARIANTS
    AuditsTellWhatChanged
    CertificatesMatchFiles
    UndisturbedReviewerWins
