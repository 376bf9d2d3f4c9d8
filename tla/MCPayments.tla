------------------------------ MODULE MCPayments ------------------------------
(* Instances of Payments for TLC: one order of three VND, its buyer, its seller *)
(* and an administrator.                                                       *)
EXTENDS Payments, TLC

CONSTANTS buyer, seller, admin, o1

Roles == buyer :> "BUYER" @@ seller :> "SELLER" @@ admin :> "ADMIN"
MCRoleOf == [a \in Actors |-> Roles[a]]
MCBuyerOf == o1 :> buyer
MCSellerOf == o1 :> seller
MCTotal == o1 :> 3

CallSymmetry == Permutations(Calls) \cup Permutations(IdempotencyKeys)
=============================================================================
