----------------------------- MODULE MCContracts -----------------------------
(* Instance of Contracts for TLC: an enterprise and a seller.  A behaviour either *)
(* creates a purchase request, draws contracts from it and ends it, or signs and *)
(* ends a contract that was sent to be signed.                                  *)
EXTENDS Contracts, TLC

CONSTANTS buyer, seller, p1, x1

VARIABLE part   \* "allocating" or "signing"

MCRoleOf == [a \in Actors |-> IF a = seller THEN "SELLER" ELSE "ENTERPRISE"]
MCAggregates == PurchaseRequests \cup ContractIds

CallAndKeySymmetry == Permutations(Calls) \cup Permutations(IdempotencyKeys)

\* A contract drawn from a purchase request, negotiated and sent to be signed.
\* The calls that brought it there used keys that no call of the run uses, so
\* the part of the ledger the run speaks of is empty.
SigningInit ==
    /\ LedgerInit
    /\ purchases = p1 :> [status |-> "open", version |-> 1, buyer |-> buyer, needed |-> 1]
    /\ contracts = [x \in ContractIds |-> IF x # x1 THEN NULL ELSE
                         [status |-> "pending_signature", version |-> 3, buyer |-> buyer,
                          seller |-> seller, purchase |-> p1, quantity |-> 1, signed |-> {}]]
    /\ entity = [c \in Calls |-> NULL]
    /\ pending = [c \in Calls |-> NULL]

MCInit ==
    \/ part = "allocating" /\ Init
    \/ part = "signing" /\ SigningInit

\* Those who sign and end contracts send versions they have been shown.
Served(r) ==
    IF part = "signing"
    THEN /\ IsContractChange(r) /\ contracts[r.aggregate] # NULL
         /\ r.version <= contracts[r.aggregate].version
    ELSE ~IsContractChange(r) /\ r.version <= 2

MCNext ==
    /\ \E c \in Calls :
         \/ pc[c] = "idle" /\ ReceiveRequest(c) /\ Served(request'[c])
         \/ Serve(c) \/ CrashCall(c)
    /\ UNCHANGED part

MCSpec == MCInit /\ [][MCNext]_<<vars, part>>
=============================================================================
