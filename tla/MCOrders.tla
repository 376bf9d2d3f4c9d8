------------------------------- MODULE MCOrders -------------------------------
(* Instances of Orders for TLC: a buyer, the product's seller, a carrier and an *)
(* administrator.                                                              *)
EXTENDS Orders, TLC

CONSTANTS buyer, seller, carrier, admin

Roles == buyer :> "BUYER" @@ seller :> "SELLER" @@ carrier :> "LOGISTICS" @@ admin :> "ADMIN"
MCRoleOf == [a \in Actors |-> Roles[a]]

CallAndKeySymmetry == Permutations(Calls) \cup Permutations(IdempotencyKeys)
=============================================================================
