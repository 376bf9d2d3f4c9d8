SPECIFICATION Spec
CONSTANTS
    Calls = {c1, c2}
    buyer = buyer
    seller = seller
    carrier = carrier
    admin = admin
    Actors = {buyer, seller}
    OperationTypes = {"create-order", "transition-order"}
    IdempotencyKeys = {k1, k2, k3}
    Aggregates = {o1}
    NULL = NULL
    RoleOf <- MCRoleOf
    Seller = seller
    Prices = {1, 2}
    Targets = {"confirmed", "preparing", "cancelled"}
    Versions = {1, 2}
SYMMETRY CallAndKeySymmetry
INVARIANTS
    HistoryIsTheWalk
    HistoryMatchesLedger
    ChargedAsFingerprinted
PROPERTIES
    KeepsPromise
