------------------------------ MODULE Contracts ------------------------------
(***************************************************************************)
(* Purchase requests and the contracts that consume them: the use case's    *)
(* checks, the transaction, and the row locks between the two tables.       *)
(* Creating a contract locks its purchase request (SELECT ... FOR UPDATE)   *)
(* before it adds up what is allocated; closing and cancelling a request do *)
(* not lock it before their conditional UPDATE.                             *)
(***************************************************************************)
EXTENDS CommerceLedger, FiniteSets

CONSTANTS
    RoleOf,            \* role of each actor: "ENTERPRISE" or "SELLER"
    PurchaseRequests,  \* ids of purchase requests; bounds those ever created
    ContractIds,       \* ids of contracts; bounds those ever created
    Quantities,        \* quantities a request needs or a contract consumes
    Targets,           \* toStatus values a contract transition may carry
    Versions,          \* expectedVersion values a request may carry
    Lag, Lead          \* bounds: how far a request's version may be behind and
                       \* ahead of the stored one when it is received

AllOperationTypes ==
    {"create-purchase-request", "close-purchase-request", "cancel-purchase-request",
     "create-contract", "sign-contract", "transition-contract"}
ContractStatus ==
    {"draft", "negotiating", "pending_signature", "active", "completed", "cancelled"}

ASSUME ContractsAssumption ==
    /\ OperationTypes \subseteq AllOperationTypes
    /\ RoleOf \in [Actors -> {"ENTERPRISE", "SELLER"}]
    /\ Aggregates = PurchaseRequests \cup ContractIds
    /\ PurchaseRequests \cap ContractIds = {}
    /\ Quantities \subseteq Nat \ {0}
    /\ Targets \subseteq ContractStatus
    /\ Versions \subseteq Nat \ {0}
    /\ Lag \in Nat /\ Lead \in Nat

VARIABLES
    purchases,   \* committed row of each purchase request
    contracts,   \* committed row of each contract
    entity,      \* the row each transaction read
    pending      \* the row each transaction wrote and has not committed

contractVars == <<purchases, contracts, entity, pending>>
vars == <<ledgerVars, contractVars>>

PurchaseRows ==
    [status : {"open", "closed", "cancelled"}, version : Nat,
     buyer : Actors, needed : Quantities]
\* signed: the parties whose *_signed_at column is set
ContractRows ==
    [status : ContractStatus, version : Nat, buyer : Actors, seller : Actors,
     purchase : PurchaseRequests, quantity : Quantities, signed : SUBSET Actors]

RequestsOf(types, aggregates, versions, to, quantities, sellers) ==
    [actor : Actors, type : types \cap OperationTypes, key : IdempotencyKeys,
     aggregate : aggregates, version : versions, to : to,
     quantity : quantities, seller : sellers]
Requests ==
    UNION {
      RequestsOf({"create-purchase-request"}, {NULL}, {0}, {NULL}, Quantities, {NULL}),
      RequestsOf({"close-purchase-request"}, PurchaseRequests, Versions, {"closed"}, {0}, {NULL}),
      RequestsOf({"cancel-purchase-request"}, PurchaseRequests, Versions, {"cancelled"}, {0}, {NULL}),
      RequestsOf({"create-contract"}, PurchaseRequests, {0}, {NULL}, Quantities, Actors),
      RequestsOf({"sign-contract"}, ContractIds, Versions, {NULL}, {0}, {NULL}),
      RequestsOf({"transition-contract"}, ContractIds, Versions, Targets, {0}, {NULL})}

\* Beside the stages of every call: the allocations are added up under the lock,
\* and a signature whose UPDATE matched nothing reads the contract again.
ContractStages == Stages \cup {"summing", "rereading"}

Init ==
    /\ LedgerInit
    /\ purchases = [p \in PurchaseRequests |-> NULL]
    /\ contracts = [x \in ContractIds |-> NULL]
    /\ entity = [c \in Calls |-> NULL]
    /\ pending = [c \in Calls |-> NULL]

ASSUME ContractRowsAssumption == NULL \notin PurchaseRows \cup ContractRows

-----------------------------------------------------------------------------
(* The domain objects *)

Successors ==
    [draft |-> {"negotiating", "cancelled"},
     negotiating |-> {"pending_signature", "cancelled"},
     pending_signature |-> {"active", "cancelled"},
     active |-> {"completed"},
     completed |-> {},
     cancelled |-> {}]

Parties(x) == {x.buyer, x.seller}

CanTransition(x, to) ==
    /\ to \in Successors[x.status]
    /\ to = "active" => Parties(x) \subseteq x.signed

\* Mutant of Signed: the other party's column is set.
SignedSwapped(x, actor) ==
    LET signed == x.signed \cup (Parties(x) \ {actor}) IN
    [x EXCEPT !.signed = signed,
              !.status = IF Parties(x) \subseteq signed THEN "active" ELSE @]

\* sign(), and the transition to active that follows the second signature.
Signed(x, actor) ==
    LET signed == x.signed \cup {actor} IN
    [x EXCEPT !.signed = signed,
              !.status = IF Parties(x) \subseteq signed THEN "active" ELSE @]

IsPurchaseChange(r) == r.type \in {"close-purchase-request", "cancel-purchase-request"}
IsContractChange(r) == r.type \in {"sign-contract", "transition-contract"}

Row(r) == IF r.aggregate \in PurchaseRequests
          THEN purchases[r.aggregate] ELSE contracts[r.aggregate]

\* Mutant of DomainAccepts: a contract may be drawn from an ended request.
DomainAcceptsEnded(row, r) ==
    /\ row # NULL
    /\ IsPurchaseChange(r) => row.buyer = r.actor /\ row.status = "open"
    /\ r.type = "create-contract" => row.buyer = r.actor
    /\ IsContractChange(r) => r.actor \in Parties(row)
    /\ r.type = "sign-contract" => row.status = "pending_signature"
    /\ r.type = "transition-contract" => CanTransition(row, r.to)

\* What the transaction requires of the row it read.
DomainAccepts(row, r) ==
    /\ row # NULL
    /\ IsPurchaseChange(r) => row.buyer = r.actor /\ row.status = "open"
    /\ r.type = "create-contract" => row.buyer = r.actor /\ row.status = "open"
    /\ IsContractChange(r) => r.actor \in Parties(row)
    /\ r.type = "sign-contract" => row.status = "pending_signature"
    /\ r.type = "transition-contract" => CanTransition(row, r.to)

\* What the use case requires before it opens a transaction: closing and
\* cancelling check the role alone, and a contract may be asked of an ended
\* request.
CheckPasses(r) ==
    /\ r.type \in AllOperationTypes \ {"sign-contract", "transition-contract"} =>
         RoleOf[r.actor] = "ENTERPRISE"
    /\ r.type = "create-contract" =>
         Row(r) # NULL /\ Row(r).buyer = r.actor /\ r.seller # r.actor
    /\ IsContractChange(r) => DomainAccepts(Row(r), r)

-----------------------------------------------------------------------------
(* One action per stage of a call *)

\* With Lead 0 clients send only versions they have been shown.
WithinBounds(r) ==
    LET current == IF Row(r) = NULL THEN 0 ELSE Row(r).version IN
    r.version + Lag >= current /\ r.version <= current + Lead

ReceiveRequest(c) ==
    /\ \E r \in Requests :
         /\ r.version > 0 => WithinBounds(r)
         /\ Receive(c, r)
    /\ UNCHANGED contractVars

Check(c) ==
    /\ CheckThen(c, CheckPasses(request[c]))
    /\ UNCHANGED contractVars

Claim(c) ==
    /\ \/ ClaimNew(c, IF request[c].type = "create-purchase-request"
                      THEN "writing" ELSE "reading")
       \/ ClaimExisting(c)
    /\ UNCHANGED contractVars

\* Call c goes on at another stage, touching only what it read.
Goto(c, stage, row) ==
    /\ pc' = [pc EXCEPT ![c] = stage]
    /\ entity' = [entity EXCEPT ![c] = row]
    /\ UNCHANGED <<ledger, request>>

GiveUp(c) ==
    /\ Rollback(c)
    /\ entity' = [entity EXCEPT ![c] = NULL]
    /\ pending' = [pending EXCEPT ![c] = NULL]

\* findOneBy: a row the domain does not accept rolls back.
Read(c) ==
    LET row == Row(request[c]) IN
    /\ pc[c] = "reading"
    /\ request[c].type # "create-contract"
    /\ \/ /\ DomainAccepts(row, request[c])
          /\ Goto(c, "writing", row)
          /\ UNCHANGED <<lock, pending>>
       \/ /\ ~DomainAccepts(row, request[c])
          /\ GiveUp(c)
    /\ UNCHANGED <<purchases, contracts>>

\* Mutant of LockPurchase: a plain read of the purchase request.
ReadPurchaseUnlocked(c) ==
    /\ pc[c] = "reading"
    /\ request[c].type = "create-contract"
    /\ DomainAccepts(Row(request[c]), request[c])
    /\ Goto(c, "summing", Row(request[c]))
    /\ UNCHANGED <<lock, purchases, contracts, pending>>

\* SELECT ... FOR UPDATE of the purchase request: waits for its lock, then sees
\* the row the last holder left.  allocate() rejects an ended request after the
\* sum; the order of its two checks does not matter, both roll back.
LockPurchase(c) ==
    LET p == request[c].aggregate IN
    /\ pc[c] = "reading"
    /\ request[c].type = "create-contract"
    /\ lock[p] = NULL
    /\ \/ /\ DomainAccepts(purchases[p], request[c])
          /\ Goto(c, "summing", purchases[p])
          /\ lock' = [lock EXCEPT ![p] = c]
          /\ UNCHANGED pending
       \/ /\ ~DomainAccepts(purchases[p], request[c])
          /\ GiveUp(c)
    /\ UNCHANGED <<purchases, contracts>>

ContractsOf(p) == {x \in ContractIds : contracts[x] # NULL /\ contracts[x].purchase = p}

\* The units of every contract of the request, cancelled ones included, and
\* their SUM(quantity).
Units(p) == UNION {{x} \X (1 .. contracts[x].quantity) : x \in ContractsOf(p)}
Allocated(p) == Cardinality(Units(p))

\* readAllocated and allocate().
Allocate(c) ==
    LET r == request[c]
        fits == Allocated(r.aggregate) + r.quantity <= entity[c].needed
    IN
    /\ pc[c] = "summing"
    /\ \/ fits /\ Goto(c, "writing", entity[c]) /\ UNCHANGED <<lock, pending>>
       \/ ~fits /\ GiveUp(c)
    /\ UNCHANGED <<purchases, contracts>>

\* The row of aggregate a is written, not yet visible, and locked.
Written(c, a, row) ==
    /\ pending' = [pending EXCEPT ![c] = row]
    /\ lock' = [lock EXCEPT ![a] = c]
    /\ Complete(c, a)
    /\ pc' = [pc EXCEPT ![c] = "committing"]
    /\ UNCHANGED <<request, entity, purchases, contracts>>

\* INSERT under a new id.  PurchaseRequests and ContractIds bound the rows ever
\* created: with no id left the call waits.
WritePurchase(c) ==
    LET r == request[c] IN
    /\ pc[c] = "writing"
    /\ r.type = "create-purchase-request"
    /\ \E p \in PurchaseRequests :
         /\ purchases[p] = NULL /\ lock[p] = NULL
         /\ Written(c, p, [status |-> "open", version |-> 1,
                           buyer |-> r.actor, needed |-> r.quantity])

WriteContract(c) ==
    LET r == request[c] IN
    /\ pc[c] = "writing"
    /\ r.type = "create-contract"
    /\ \E x \in ContractIds :
         /\ contracts[x] = NULL /\ lock[x] = NULL
         /\ Written(c, x, [status |-> "draft", version |-> 1, buyer |-> r.actor,
                           seller |-> r.seller, purchase |-> r.aggregate,
                           quantity |-> r.quantity, signed |-> {}])

\* Mutant of UpdateMatches: the version is not compared.
UpdateMatchesStatus(c) == Row(request[c]).status = entity[c].status

\* The WHERE clause of every conditional UPDATE.
UpdateMatches(c) ==
    LET row == Row(request[c]) IN
    row.version = request[c].version /\ row.status = entity[c].status

\* Mutant of Changed: a signature clears that of the other party.
ChangedLosingSignatures(stored, read, r) ==
    IF r.type = "sign-contract"
    THEN LET x == Signed(read, r.actor) IN
         [stored EXCEPT !.status = x.status, !.signed = {r.actor}, !.version = @ + 1]
    ELSE [stored EXCEPT !.status = r.to, !.version = @ + 1]

\* A signature writes both signature columns and the status as the domain made
\* them from the row read; other changes write the status alone.
Changed(stored, read, r) ==
    IF r.type = "sign-contract"
    THEN LET x == Signed(read, r.actor) IN
         [stored EXCEPT !.status = x.status, !.signed = x.signed, !.version = @ + 1]
    ELSE [stored EXCEPT !.status = r.to, !.version = @ + 1]

\* A committed row that does not match is no candidate at all; a matching one
\* that another open transaction has written makes the UPDATE wait.
Update(c) ==
    LET r == request[c]  a == r.aggregate IN
    /\ pc[c] = "writing"
    /\ IsPurchaseChange(r) \/ IsContractChange(r)
    /\ \/ /\ UpdateMatches(c)
          /\ lock[a] = NULL
          /\ Written(c, a, Changed(Row(r), entity[c], r))
       \/ /\ ~UpdateMatches(c)
          /\ r.type # "sign-contract"
          /\ GiveUp(c)
          /\ UNCHANGED <<purchases, contracts>>
       \/ /\ ~UpdateMatches(c)
          /\ r.type = "sign-contract"
          /\ Goto(c, "rereading", NULL)
          /\ UNCHANGED <<lock, pending, purchases, contracts>>

\* A signature that matched no row succeeds, without a change, if the contract
\* it finds has the actor's signature already.
Reread(c) ==
    LET r == request[c] IN
    /\ pc[c] = "rereading"
    /\ \/ /\ r.actor \in contracts[r.aggregate].signed
          /\ Complete(c, r.aggregate)
          /\ pc' = [pc EXCEPT ![c] = "committing"]
          /\ UNCHANGED <<request, lock, entity, pending>>
       \/ /\ r.actor \notin contracts[r.aggregate].signed
          /\ GiveUp(c)
    /\ UNCHANGED <<purchases, contracts>>

\* The row call c wrote, if it wrote one, becomes visible.
Wrote(c, a) == pending[c] # NULL /\ ledger[OpKey(request[c])].result = a

Commit(c) ==
    /\ CommitLedger(c)
    /\ purchases' = [p \in PurchaseRequests |->
                        IF Wrote(c, p) THEN pending[c] ELSE purchases[p]]
    /\ contracts' = [x \in ContractIds |->
                        IF Wrote(c, x) THEN pending[c] ELSE contracts[x]]
    /\ entity' = [entity EXCEPT ![c] = NULL]
    /\ pending' = [pending EXCEPT ![c] = NULL]

CrashCall(c) ==
    /\ pc[c] # "idle"
    /\ GiveUp(c)
    /\ UNCHANGED <<purchases, contracts>>

Write(c) == WritePurchase(c) \/ WriteContract(c) \/ Update(c)

Serve(c) ==
    \/ Check(c) \/ Claim(c) \/ Read(c) \/ LockPurchase(c) \/ Allocate(c)
    \/ Write(c) \/ Reread(c) \/ Commit(c)

Next == \E c \in Calls : ReceiveRequest(c) \/ Serve(c) \/ CrashCall(c)

Spec == Init /\ [][Next]_vars

-----------------------------------------------------------------------------
(* Properties *)

\* Every variable has its type.
TypeOK ==
    /\ ledger \in [OpKeys ->
           [status : {"absent", "started", "completed"},
            request : Requests \cup {NULL},
            owner : Calls \cup {NULL},
            result : Aggregates \cup {NULL}]]
    /\ pc \in [Calls -> ContractStages]
    /\ request \in [Calls -> Requests \cup {NULL}]
    /\ lock \in [Aggregates -> Calls \cup {NULL}]
    /\ purchases \in [PurchaseRequests -> PurchaseRows \cup {NULL}]
    /\ contracts \in [ContractIds -> ContractRows \cup {NULL}]
    /\ entity \in [Calls -> PurchaseRows \cup ContractRows \cup {NULL}]
    /\ pending \in [Calls -> PurchaseRows \cup ContractRows \cup {NULL}]

\* Phase 6 decision D07: "aggregate quantity cannot exceed quantity_needed",
\* however many contracts are drawn from one request at the same time.
AllocationWithinNeed ==
    \A p \in PurchaseRequests :
        purchases[p] # NULL => Allocated(p) <= purchases[p].needed

\* Phase 6 decision D07: "closed or cancelled requests are terminal and cannot
\* allocate again", not even for a contract whose checks passed before.
EndedRequestsRest ==
    [][\A p \in PurchaseRequests :
         purchases[p] # NULL /\ purchases[p].status # "open" =>
             /\ purchases'[p] = purchases[p]
             /\ ContractsOf(p)' = ContractsOf(p)]_vars

\* A contract is in force only with the signatures of both its parties.
InForceMeansSigned ==
    \A x \in ContractIds :
        contracts[x] # NULL /\ contracts[x].status \in {"active", "completed"} =>
            Parties(contracts[x]) \subseteq contracts[x].signed

\* A party told that it signed has signed: no later or concurrent signature,
\* transition or retry removes a signature that was acknowledged, and the
\* fallback acknowledges none that is not there.
AcknowledgedSignaturesStay ==
    \A k \in OpKeys :
        Committed(k) /\ k[2] = "sign-contract" =>
            k[1] \in contracts[ledger[k].result].signed

\* Actor a has a committed operation that signed contract x, or found it signed.
AskedToSign(a, x) ==
    \E k \in OpKeys : /\ Committed(k) /\ ledger[k].result = x
                      /\ k[1] = a /\ k[2] = "sign-contract"

\* The converse: a party's signature is on a contract only if that party asked
\* to sign it.
SignaturesWereAskedFor ==
    \A x \in ContractIds : contracts[x] # NULL =>
        \A a \in contracts[x].signed : AskedToSign(a, x)

-----------------------------------------------------------------------------
(* The inductive invariant *)

Transacting == InTransaction \cup {"summing", "rereading"}

\* The row a committing call wrote, or found signed.
Target(c) == ledger[OpKey(request[c])].result

\* What the status of a contract says of its signatures.
Tells(x) ==
    /\ x.signed \subseteq Parties(x)
    /\ x.status \in {"draft", "negotiating"} => x.signed = {}
    /\ x.status = "pending_signature" => ~(Parties(x) \subseteq x.signed)
    /\ x.status \in {"active", "completed"} => Parties(x) \subseteq x.signed

\* An open transaction owns the ledger row of its key.
CallMatches(c) ==
    LET r == request[c]  row == ledger[OpKey(r)] IN
    /\ pc[c] # "idle" => r \in Requests
    /\ pc[c] # "committing" => pending[c] = NULL
    /\ pc[c] = "reading" => r.type # "create-purchase-request"
    /\ pc[c] = "summing" => r.type = "create-contract"
    /\ pc[c] = "rereading" => r.type = "sign-contract"
    /\ pc[c] \in Transacting =>
         /\ row.owner = c /\ row.request = r
         /\ row.status = IF pc[c] = "committing" THEN "completed" ELSE "started"
    /\ pc[c] = "committing" =>
         /\ r.type = "create-purchase-request" => Target(c) \in PurchaseRequests
         /\ r.type = "create-contract" => Target(c) \in ContractIds
         /\ IsPurchaseChange(r) \/ IsContractChange(r) => Target(c) = r.aggregate

\* A row that is owned is its owner's only one; a committed signature names a
\* contract.
RowMatches(k) ==
    /\ ledger[k].owner \in Calls =>
         /\ pc[ledger[k].owner] \in Transacting
         /\ OpKey(request[ledger[k].owner]) = k
    /\ Committed(k) /\ k[2] = "sign-contract" =>
         ledger[k].result \in ContractIds /\ contracts[ledger[k].result] # NULL

\* What a transaction has locked: the request it draws a contract from, and the
\* row it wrote.
Drawing(c) == pc[c] \in {"summing", "writing", "committing"} /\ request[c].type = "create-contract"
HasWritten(c) == pc[c] = "committing" /\ pending[c] # NULL
LocksMatch(c) ==
    /\ Drawing(c) => lock[request[c].aggregate] = c
    /\ HasWritten(c) => lock[Target(c)] = c

\* With Lead 0 a client names a version it has been shown.
VersionSeen(c) ==
    Lead = 0 /\ pc[c] # "idle" /\ request[c].version > 0 =>
        Row(request[c]) # NULL /\ request[c].version <= Row(request[c]).version

\* The request a contract is drawn from stays as it was read.  A request to be
\* ended was open.  A contract was one the actor could sign or move, an earlier
\* version of what is there now or the same.
ReadMatches(c) ==
    LET r == request[c]  read == entity[c]  x == contracts[r.aggregate] IN
    /\ Drawing(c) =>
         read \in PurchaseRows /\ read.status = "open" /\ purchases[r.aggregate] = read
    /\ pc[c] = "writing" /\ IsPurchaseChange(r) =>
         purchases[r.aggregate] # NULL /\ read.status = "open"
    /\ pc[c] = "writing" /\ IsContractChange(r) =>
         /\ read \in ContractRows /\ Tells(read) /\ DomainAccepts(read, r)
         /\ \A a \in read.signed : AskedToSign(a, r.aggregate)
         /\ x # NULL /\ Parties(x) = Parties(read)
         /\ read.version <= x.version /\ (read.version = x.version => read = x)
         /\ Lead = 0 => r.version <= read.version
    /\ pc[c] = "rereading" => x # NULL

\* A written row is the first of its id, the end of an open request, or the next
\* version of a contract with the signatures of those who asked.
PurchaseWritten(c) ==
    LET row == pending[c]  p == purchases[Target(c)] IN
    /\ request[c].type = "create-purchase-request" => row \in PurchaseRows /\ p = NULL
    /\ IsPurchaseChange(request[c]) =>
         /\ row \in PurchaseRows /\ p # NULL /\ p.status = "open"
         /\ p.version <= row.version
DrawnWritten(c) ==
    LET row == pending[c] IN
    request[c].type = "create-contract" =>
        /\ row \in ContractRows /\ Tells(row) /\ row.signed = {}
        /\ row.purchase = request[c].aggregate /\ contracts[Target(c)] = NULL
ChangeWritten(c) ==
    LET r == request[c]  row == pending[c]  x == contracts[Target(c)] IN
    IsContractChange(r) =>
        /\ row \in ContractRows /\ Tells(row)
        /\ \A b \in row.signed :
             (b = r.actor /\ r.type = "sign-contract") \/ AskedToSign(b, Target(c))
        /\ r.type = "sign-contract" => r.actor \in row.signed
        /\ x # NULL /\ Parties(row) = Parties(x)
        /\ row.purchase = x.purchase /\ row.version = x.version + 1
        /\ Lead = 0 => x.signed \subseteq row.signed
\* A signature that was found is of a request to sign.
FoundSigned(c) ==
    LET r == request[c]  x == contracts[Target(c)] IN
    /\ r.type = "sign-contract" /\ x # NULL
    /\ Lead = 0 => r.actor \in x.signed
WriteMatches(c) ==
    pc[c] = "committing" =>
        IF pending[c] = NULL THEN FoundSigned(c)
        ELSE PurchaseWritten(c) /\ DrawnWritten(c) /\ ChangeWritten(c)

CallHolds(c) ==
    CallMatches(c) /\ LocksMatch(c) /\ VersionSeen(c) /\ ReadMatches(c) /\ WriteMatches(c)

ContractsTell == \A x \in ContractIds : contracts[x] # NULL => Tells(contracts[x])

IInv ==
    /\ TypeOK
    /\ \A c \in Calls : CallHolds(c)
    /\ \A k \in OpKeys : RowMatches(k)
    /\ ContractsTell
    /\ SignaturesWereAskedFor
    /\ Lead = 0 => AcknowledgedSignaturesStay

\* Beside IInv, for the allocation.  What a transaction draws still fits when it
\* is committed, and is what it asked for; other changes leave quantities and
\* needs alone.
CallAllocates(c) ==
    LET r == request[c]  row == pending[c] IN
    /\ pc[c] \in {"writing", "committing"} /\ r.type = "create-contract" =>
         Allocated(r.aggregate) + r.quantity <= purchases[r.aggregate].needed
    /\ HasWritten(c) /\ r.type = "create-contract" => row.quantity = r.quantity
    /\ HasWritten(c) /\ IsContractChange(r) =>
         row.quantity = contracts[r.aggregate].quantity
    /\ HasWritten(c) /\ IsPurchaseChange(r) =>
         row.needed = purchases[r.aggregate].needed

\* Contracts are drawn from requests that exist.
DrawnFromRows ==
    \A p \in PurchaseRequests :
        /\ IsFiniteSet(Units(p))
        /\ purchases[p] = NULL => ContractsOf(p) = {}

AllocInv ==
    /\ \A c \in Calls : CallAllocates(c)
    /\ DrawnFromRows
    /\ AllocationWithinNeed
=============================================================================
