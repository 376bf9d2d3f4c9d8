SPECIFICATION Spec
CONSTANTS
    Calls = {c1, c2}
    buyer = buyer
    seller = seller
    admin = admin
    o1 = o1
    Actors = {buyer, admin}
    OperationTypes = {"create-payment", "mark-payment-paid", "refund-payment"}
    IdempotencyKeys = {k1, k2, k3}
    Aggregates = {o1}
    NULL = NULL
    RoleOf <- MCRoleOf
    BuyerOf <- MCBuyerOf
    SellerOf <- MCSellerOf
    Total <- MCTotal
    RefundAmounts = {1, 2}
    Versions = {1, 2, 3, 4}
    OnlySeenVersions = FALSE
SYMMETRY CallSymmetry
INVARIANTS
    RefundTotalsWithinPaid
