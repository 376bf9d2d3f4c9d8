SPECIFICATION MCSpec
CONSTANTS
    Calls = {c1, c2}
    buyer = buyer
    seller = seller
    p1 = p1
    x1 = x1
    Actors = {buyer, seller}
    OperationTypes = {"create-purchase-request", "close-purchase-request", "cancel-purchase-request", "create-contract", "sign-contract", "transition-contract"}
    IdempotencyKeys = {k1, k2}
    PurchaseRequests = {p1}
    ContractIds = {x1, x2}
    Aggregates <- MCAggregates
    NULL = NULL
    RoleOf <- MCRoleOf
    Quantities = {1, 2}
    Targets = {"completed", "cancelled"}
    Versions = {1, 2, 3, 4, 5}
    Lag = 1
    Lead = 1
SYMMETRY CallAndKeySymmetry
INVARIANTS
    AllocationWithinNeed
    InForceMeansSigned
    AcknowledgedSignaturesStay
    SignaturesWereAskedFor
PROPERTIES
    EndedRequestsRest
