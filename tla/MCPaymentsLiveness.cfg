SPECIFICATION FairSpec
CONSTANTS
    Calls = {c1, c2}
    buyer = buyer
    seller = seller
    admin = admin
    o1 = o1
    Actors = {buyer, seller, admin}
    OperationTypes = {"create-payment", "mark-payment-paid", "refund-payment"}
    IdempotencyKeys = {k1}
    Aggregates = {o1}
    NULL = NULL
    RoleOf <- MCRoleOf
    BuyerOf <- MCBuyerOf
    SellerOf <- MCSellerOf
    Total <- MCTotal
    RefundAmounts = {1}
    Versions = {1, 2}
    OnlySeenVersions = TRUE
PROPERTIES
    CallsEnd
