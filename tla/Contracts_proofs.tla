--------------------------- MODULE Contracts_proofs ---------------------------
(***************************************************************************)
(* Proofs about Contracts for every set of calls, actors, keys, purchase    *)
(* requests and contracts, and every version a client may send.             *)
(***************************************************************************)
EXTENDS Contracts, FiniteSetTheorems, TLAPS

USE NullAssumption, ContractsAssumption, ContractRowsAssumption

\* What membership in Requests says of a request's fields.
LEMMA RequestFields ==
    ASSUME NEW r \in Requests
    PROVE  /\ OpKey(r) \in OpKeys
           /\ OpKey(r)[1] = r.actor /\ OpKey(r)[2] = r.type
           /\ r.actor \in Actors /\ r.version \in Nat
           /\ r.type \in AllOperationTypes
           /\ r.type = "create-purchase-request" => r.quantity \in Quantities /\ r.version = 0
           /\ IsPurchaseChange(r) =>
                r.aggregate \in PurchaseRequests /\ r.to \in {"closed", "cancelled"}
           /\ r.type = "create-contract" =>
                /\ r.aggregate \in PurchaseRequests /\ r.version = 0
                /\ r.quantity \in Quantities /\ r.seller \in Actors
           /\ IsContractChange(r) => r.aggregate \in ContractIds
           /\ r.type = "transition-contract" => r.to \in ContractStatus
           /\ ~IsPurchaseChange(r) \/ ~IsContractChange(r)
<1> USE DEF RequestsOf
<1>1. CASE r \in RequestsOf({"create-purchase-request"}, {NULL}, {0}, {NULL}, Quantities, {NULL})
    BY <1>1 DEF OpKey, OpKeys, AllOperationTypes, IsPurchaseChange, IsContractChange
<1>2. CASE r \in RequestsOf({"close-purchase-request"}, PurchaseRequests, Versions, {"closed"}, {0}, {NULL})
    BY <1>2 DEF OpKey, OpKeys, AllOperationTypes, IsPurchaseChange, IsContractChange
<1>3. CASE r \in RequestsOf({"cancel-purchase-request"}, PurchaseRequests, Versions, {"cancelled"}, {0}, {NULL})
    BY <1>3 DEF OpKey, OpKeys, AllOperationTypes, IsPurchaseChange, IsContractChange
<1>4. CASE r \in RequestsOf({"create-contract"}, PurchaseRequests, {0}, {NULL}, Quantities, Actors)
    BY <1>4 DEF OpKey, OpKeys, AllOperationTypes, IsPurchaseChange, IsContractChange
<1>5. CASE r \in RequestsOf({"sign-contract"}, ContractIds, Versions, {NULL}, {0}, {NULL})
    BY <1>5 DEF OpKey, OpKeys, AllOperationTypes, IsPurchaseChange, IsContractChange
<1>6. CASE r \in RequestsOf({"transition-contract"}, ContractIds, Versions, Targets, {0}, {NULL})
    BY <1>6 DEF OpKey, OpKeys, AllOperationTypes, IsPurchaseChange, IsContractChange, ContractStatus
<1> QED
    BY <1>1, <1>2, <1>3, <1>4, <1>5, <1>6 DEF Requests

\* The kinds of requests.
LEMMA Kinds ==
    ASSUME NEW r \in Requests
    PROVE  \/ r.type = "create-purchase-request" /\ ~IsPurchaseChange(r) /\ ~IsContractChange(r)
           \/ r.type \notin {"create-purchase-request", "create-contract", "sign-contract"}
                /\ IsPurchaseChange(r) /\ ~IsContractChange(r)
           \/ r.type = "create-contract" /\ ~IsPurchaseChange(r) /\ ~IsContractChange(r)
           \/ r.type \notin {"create-purchase-request", "create-contract"}
                /\ ~IsPurchaseChange(r) /\ IsContractChange(r)
BY RequestFields DEF AllOperationTypes, IsPurchaseChange, IsContractChange

-----------------------------------------------------------------------------
(* What no step takes back *)

\* Rows stay, contracts keep their parties and get a new version with every
\* change; signatures stay if clients send only versions they have been shown;
\* committed operations stay.
Grows ==
    /\ \A p \in PurchaseRequests : purchases[p] # NULL =>
         purchases'[p] # NULL /\ purchases[p].version <= purchases'[p].version
    /\ \A x \in ContractIds : contracts[x] # NULL =>
         /\ contracts'[x] # NULL
         /\ Parties(contracts'[x]) = Parties(contracts[x])
         /\ contracts'[x] # contracts[x] => contracts[x].version < contracts'[x].version
         /\ Lead = 0 => contracts[x].signed \subseteq contracts'[x].signed
    /\ \A k \in OpKeys : Committed(k) => Committed(k)' /\ ledger'[k] = ledger[k]

LEMMA AskedStays ==
    ASSUME Grows, NEW a, NEW x, AskedToSign(a, x)
    PROVE  AskedToSign(a, x)'
BY DEF Grows, AskedToSign

\* Tables that stay, and the versions of rows.
LEMMA RowVersions ==
    ASSUME TypeOK
    PROVE  /\ \A p \in PurchaseRequests : purchases[p] # NULL =>
                purchases[p] \in PurchaseRows /\ purchases[p].version \in Nat
           /\ \A x \in ContractIds : contracts[x] # NULL =>
                contracts[x] \in ContractRows /\ contracts[x].version \in Nat
BY DEF TypeOK, PurchaseRows, ContractRows

LEMMA NextRowVersions ==
    ASSUME TypeOK'
    PROVE  /\ \A p \in PurchaseRequests : purchases'[p] # NULL =>
                purchases'[p] \in PurchaseRows /\ purchases'[p].version \in Nat
           /\ \A x \in ContractIds : contracts'[x] # NULL =>
                contracts'[x] \in ContractRows /\ contracts'[x].version \in Nat
BY DEF TypeOK, PurchaseRows, ContractRows

LEMMA SameGrows ==
    ASSUME TypeOK, UNCHANGED <<purchases, contracts>>,
           \A k \in OpKeys : Committed(k) => Committed(k)' /\ ledger'[k] = ledger[k]
    PROVE  Grows
BY RowVersions DEF Grows

\* A call that does not move, while others leave its ledger row, its locks and
\* the rows it has locked alone, holds on.
LEMMA OthersHold ==
    ASSUME TypeOK, TypeOK', NEW d \in Calls, CallHolds(d), Grows,
           UNCHANGED <<pc[d], request[d], entity[d], pending[d]>>,
           pc[d] \in Transacting => UNCHANGED ledger[OpKey(request[d])],
           \A a \in Aggregates : lock[a] = d => lock'[a] = d,
           \A p \in PurchaseRequests : lock[p] = d => UNCHANGED purchases[p],
           \A x \in ContractIds : lock[x] = d => UNCHANGED contracts[x]
    PROVE  CallHolds(d)'
<1> USE DEF CallHolds
<1> PICK r : r = request[d]
    OBVIOUS
<1>1. (pc[d] # "idle" => r \in Requests) /\ request'[d] = r
    BY DEF CallMatches
<1>2. CallMatches(d)'
    BY DEF CallMatches, Transacting, InTransaction, Target
<1>3. pc[d] = "committing" => Target(d)' = Target(d)
    BY DEF Target, Transacting, InTransaction
<1>4. /\ Drawing(d) => r.aggregate \in PurchaseRequests /\ lock[r.aggregate] = d
      /\ HasWritten(d) => lock[Target(d)] = d /\ Target(d) \in Aggregates
    <2>1. pc[d] = "committing" => Target(d) \in Aggregates
        BY <1>1, RequestFields, Kinds DEF CallMatches
    <2> QED
        BY <1>1, <2>1, RequestFields DEF LocksMatch, Drawing, HasWritten
<1>5. (Drawing(d)' <=> Drawing(d)) /\ (HasWritten(d)' <=> HasWritten(d))
    BY DEF Drawing, HasWritten
<1>6. LocksMatch(d)'
    BY <1>3, <1>4, <1>5 DEF LocksMatch, HasWritten
<1>7. VersionSeen(d)'
    <2> SUFFICES ASSUME Lead = 0, pc[d] # "idle", r.version > 0
                 PROVE  Row(r)' # NULL /\ r.version <= Row(r)'.version
        BY <1>1 DEF VersionSeen, Row
    <2>1. Row(r) # NULL /\ r.version <= Row(r).version
        BY DEF VersionSeen
    <2>2. r.version \in Nat /\ r.aggregate \in Aggregates
        BY <1>1, RequestFields, Kinds
    <2>3. CASE r.aggregate \in PurchaseRequests
        BY <2>1, <2>2, <2>3, RowVersions, NextRowVersions DEF Row, Grows
    <2>4. CASE r.aggregate \notin PurchaseRequests
        <3>1. r.aggregate \in ContractIds
            BY <2>2, <2>4
        <3> QED
            BY <2>1, <2>2, <2>4, <3>1, RowVersions, NextRowVersions DEF Row, Grows
    <2> QED
        BY <2>3, <2>4
<1>8. ReadMatches(d)'
    <2>1. Drawing(d) => purchases'[r.aggregate] = purchases[r.aggregate]
        BY <1>4
    <2>2. pc[d] = "writing" /\ IsPurchaseChange(r) =>
             purchases'[r.aggregate] # NULL /\ entity[d].status = "open"
        BY <1>1, RequestFields DEF Grows, ReadMatches
    <2>3. ASSUME pc[d] = "writing", IsContractChange(r)
          PROVE  LET read == entity[d]  x == contracts'[r.aggregate] IN
                 /\ read \in ContractRows /\ Tells(read) /\ DomainAccepts(read, r)
                 /\ \A a \in read.signed : AskedToSign(a, r.aggregate)'
                 /\ x # NULL /\ Parties(x) = Parties(read)
                 /\ read.version <= x.version /\ (read.version = x.version => read = x)
                 /\ Lead = 0 => r.version <= read.version
        <3> DEFINE x == contracts[r.aggregate]
                   y == contracts'[r.aggregate]
        <3> PICK read : read = entity[d]
            OBVIOUS
        <3>1. r.aggregate \in ContractIds
            BY <1>1, <2>3, RequestFields
        <3>2. /\ read \in ContractRows /\ Tells(read) /\ DomainAccepts(read, r)
              /\ \A a \in read.signed : AskedToSign(a, r.aggregate)
              /\ x # NULL /\ Parties(x) = Parties(read)
              /\ read.version <= x.version /\ (read.version = x.version => read = x)
              /\ Lead = 0 => r.version <= read.version
            BY <2>3 DEF ReadMatches
        <3>3. \A a \in read.signed : AskedToSign(a, r.aggregate)'
            BY <3>2, AskedStays
        <3>4. read.version \in Nat /\ x.version \in Nat
            BY <3>1, <3>2, RowVersions DEF ContractRows
        <3>5. /\ y # NULL /\ Parties(y) = Parties(x)
              /\ y = x \/ (y.version \in Nat /\ x.version < y.version)
            BY <3>1, <3>2, NextRowVersions DEF Grows
        <3> HIDE DEF x, y
        <3>6. read.version <= y.version /\ (read.version = y.version => read = y)
            BY <3>2, <3>4, <3>5
        <3> QED
            BY <3>2, <3>3, <3>5, <3>6 DEF y
    <2>4. pc[d] = "rereading" => contracts'[r.aggregate] # NULL
        BY <1>1, RequestFields DEF CallMatches, ReadMatches, Grows, IsContractChange
    <2> QED
        BY <1>5, <2>1, <2>2, <2>3, <2>4
        DEF ReadMatches, Drawing, DomainAccepts, CanTransition, Parties, Tells,
            IsPurchaseChange, IsContractChange
<1>9. WriteMatches(d)'
    <2> PICK a : a = Target(d)
        OBVIOUS
    <2> PICK row : row = pending[d]
        OBVIOUS
    <2>1. HasWritten(d) =>
            /\ a \in PurchaseRequests => purchases'[a] = purchases[a]
            /\ a \in ContractIds => contracts'[a] = contracts[a]
        BY <1>4
    <2>2. HasWritten(d) =>
            /\ r.type = "create-purchase-request" \/ IsPurchaseChange(r) => a \in PurchaseRequests
            /\ r.type = "create-contract" \/ IsContractChange(r) => a \in ContractIds
        BY <1>1, RequestFields DEF HasWritten, CallMatches
    <2>3. ASSUME HasWritten(d) PROVE PurchaseWritten(d)'
        BY <1>1, <1>3, <2>1, <2>2, <2>3
        DEF WriteMatches, PurchaseWritten, HasWritten, IsPurchaseChange
    <2>4. ASSUME HasWritten(d) PROVE DrawnWritten(d)'
        BY <1>1, <1>3, <2>1, <2>2, <2>4 DEF WriteMatches, DrawnWritten, HasWritten, Tells, Parties
    <2>5. ASSUME HasWritten(d) PROVE ChangeWritten(d)'
        <3> SUFFICES ASSUME IsContractChange(r)
                     PROVE  ChangeWritten(d)'
            BY <1>1 DEF ChangeWritten, IsContractChange
        <3>1. Target(d)' = a /\ contracts'[a] = contracts[a] /\ pending'[d] = row
            BY <1>3, <2>1, <2>2, <2>5 DEF HasWritten
        <3>2. /\ row \in ContractRows /\ Tells(row)
              /\ \A b \in row.signed :
                   (b = r.actor /\ r.type = "sign-contract") \/ AskedToSign(b, a)
              /\ r.type = "sign-contract" => r.actor \in row.signed
              /\ contracts[a] # NULL /\ Parties(row) = Parties(contracts[a])
              /\ row.purchase = contracts[a].purchase
              /\ row.version = contracts[a].version + 1
              /\ Lead = 0 => contracts[a].signed \subseteq row.signed
            BY <2>5 DEF WriteMatches, ChangeWritten, HasWritten
        <3>3. \A b \in row.signed :
                 (b = r.actor /\ r.type = "sign-contract") \/ AskedToSign(b, a)'
            BY <3>2, AskedStays
        <3> QED
            BY <1>1, <3>1, <3>2, <3>3 DEF ChangeWritten, AskedToSign, Tells, Parties
    <2>6. ASSUME pc[d] = "committing", row = NULL PROVE FoundSigned(d)'
        <3>1. /\ r.type = "sign-contract" /\ contracts[a] # NULL
              /\ Lead = 0 => r.actor \in contracts[a].signed
            BY <2>6 DEF WriteMatches, FoundSigned
        <3>2. a \in ContractIds /\ Target(d)' = a
            BY <1>1, <1>3, <2>6, <3>1, RequestFields DEF CallMatches, IsContractChange
        <3> QED
            BY <1>1, <3>1, <3>2 DEF Grows, FoundSigned
    <2> QED
        BY <2>3, <2>4, <2>5, <2>6 DEF WriteMatches, HasWritten
<1> QED
    BY <1>2, <1>6, <1>7, <1>8, <1>9

-----------------------------------------------------------------------------
(* Steps before the COMMIT *)

\* A step of call c that commits nothing and leaves the other calls, their ledger
\* rows and their locks alone.
LEMMA LocalIInv ==
    ASSUME IInv, NEW c \in Calls, UNCHANGED <<purchases, contracts>>, TypeOK',
           \A d \in Calls \ {c} : UNCHANGED <<pc[d], request[d], entity[d], pending[d]>>,
           \A a \in Aggregates : lock[a] \in Calls \ {c} => lock'[a] = lock[a],
           \A k \in OpKeys :
              \/ ledger'[k] = ledger[k]
              \/ /\ ledger[k].owner = c \/ ledger[k].status = "absent"
                 /\ ~Committed(k)',
           CallHolds(c)', \A k \in OpKeys : RowMatches(k)'
    PROVE  IInv'
<1> USE DEF IInv
<1>1. \A k \in OpKeys :
        /\ Committed(k)' <=> Committed(k)
        /\ Committed(k) => ledger'[k] = ledger[k]
    BY DEF Committed
<1>2. Grows
    BY <1>1, SameGrows
<1>3. ASSUME NEW d \in Calls \ {c} PROVE CallHolds(d)'
    <2>1. pc[d] \in Transacting => UNCHANGED ledger[OpKey(request[d])]
        <3> SUFFICES ASSUME pc[d] \in Transacting
                     PROVE  ledger'[OpKey(request[d])] = ledger[OpKey(request[d])]
            OBVIOUS
        <3>1. CallMatches(d) /\ request[d] \in Requests
            BY DEF CallHolds, CallMatches, Transacting, InTransaction
        <3>2. OpKey(request[d]) \in OpKeys
            BY <3>1, RequestFields
        <3>3. ledger[OpKey(request[d])].owner = d
            BY <3>1 DEF CallMatches
        <3>4. ledger[OpKey(request[d])].status # "absent"
            BY <3>1 DEF CallMatches
        <3> QED
            BY <3>2, <3>3, <3>4
    <2>2. \A a \in Aggregates : lock[a] = d => lock'[a] = d
        OBVIOUS
    <2> QED
        BY <1>2, <2>1, <2>2, OthersHold
<1>4. ContractsTell'
    BY DEF ContractsTell, Tells, Parties
<1>5. SignaturesWereAskedFor'
    BY <1>2, AskedStays DEF SignaturesWereAskedFor
<1>6. Lead = 0 => AcknowledgedSignaturesStay'
    BY <1>1 DEF AcknowledgedSignaturesStay
<1> QED
    BY <1>3, <1>4, <1>5, <1>6

\* A step of call c outside transactions: a request arrives, a check ends, a key
\* is found.
LEMMA OutsideIInv ==
    ASSUME IInv, NEW c \in Calls, pc[c] \notin Transacting,
           NEW s \in Stages \ InTransaction, pc' = [pc EXCEPT ![c] = s],
           NEW r \in Requests \cup {NULL}, request' = [request EXCEPT ![c] = r],
           s # "idle" => r \in Requests,
           Lead = 0 /\ s # "idle" /\ r.version > 0 =>
               Row(r) # NULL /\ r.version <= Row(r).version,
           UNCHANGED <<ledger, lock, contractVars>>
    PROVE  IInv'
<1> USE DEF IInv, contractVars
<1>1. TypeOK'
    BY DEF TypeOK, Stages, ContractStages
<1>2. pc'[c] = s /\ request'[c] = r /\ \A d \in Calls \ {c} : UNCHANGED <<pc[d], request[d]>>
    BY DEF TypeOK
<1>3. s \notin Transacting
    BY DEF Stages, InTransaction, Transacting
<1>4. CallHolds(c)'
    <2>1. VersionSeen(c)'
        BY <1>2 DEF VersionSeen, Row
    <2> QED
        BY <1>2, <1>3, <2>1
        DEF CallHolds, CallMatches, LocksMatch, ReadMatches, WriteMatches, Drawing, HasWritten,
            Transacting, InTransaction
<1>5. ASSUME NEW k \in OpKeys PROVE RowMatches(k)'
    BY <1>2 DEF RowMatches, Committed
<1> QED
    BY <1>1, <1>2, <1>4, <1>5, LocalIInv

LEMMA ReceiveIInv ==
    ASSUME IInv, NEW c \in Calls, ReceiveRequest(c)
    PROVE  IInv'
<1> USE DEF IInv
<1>1. PICK r \in Requests : Receive(c, r) /\ (r.version > 0 => WithinBounds(r))
    BY DEF ReceiveRequest
<1>2. r.version \in Nat /\ (r.aggregate \in Aggregates \/ r.version = 0)
    BY RequestFields, Kinds
<1>3. ASSUME Lead = 0, r.version > 0
      PROVE  Row(r) # NULL /\ r.version <= Row(r).version
    <2>1. r.version <= (IF Row(r) = NULL THEN 0 ELSE Row(r).version) + 0
        BY <1>1, <1>3 DEF WithinBounds
    <2>2. Row(r) # NULL => Row(r).version \in Nat
        BY <1>2, <1>3, RowVersions DEF Row
    <2> QED
        BY <1>2, <1>3, <2>1, <2>2
<1>4. "checking" \in Stages \ InTransaction /\ pc[c] \notin Transacting
    BY <1>1 DEF Receive, Stages, InTransaction, Transacting
<1>5. /\ pc' = [pc EXCEPT ![c] = "checking"] /\ request' = [request EXCEPT ![c] = r]
      /\ UNCHANGED <<ledger, lock, contractVars>>
    BY <1>1 DEF Receive, ReceiveRequest
<1> QED
    BY <1>3, <1>4, <1>5, OutsideIInv

\* A call that ends before its transaction has written anything.
LEMMA EndIInv ==
    ASSUME IInv, NEW c \in Calls, pc[c] \in {"checking", "claiming"}, End(c),
           UNCHANGED <<ledger, lock, contractVars>>
    PROVE  IInv'
<1>1. "idle" \in Stages \ InTransaction /\ pc[c] \notin Transacting
    BY DEF Stages, InTransaction, Transacting
<1> QED
    BY <1>1, OutsideIInv DEF End

LEMMA CheckIInv ==
    ASSUME IInv, NEW c \in Calls, Check(c)
    PROVE  IInv'
<1> USE DEF IInv
<1>1. pc[c] = "checking" /\ UNCHANGED <<ledger, lock, contractVars>>
    BY DEF Check, CheckThen
<1>2. CASE End(c)
    BY <1>1, <1>2, EndIInv
<1>3. CASE ~End(c)
    <2> PICK r : r = request[c]
        OBVIOUS
    <2>1. pc' = [pc EXCEPT ![c] = "claiming"] /\ request' = request
        BY <1>3 DEF Check, CheckThen
    <2>2. r \in Requests /\ request' = [request EXCEPT ![c] = r]
        BY <1>1, <2>1 DEF CallHolds, CallMatches, TypeOK
    <2>3. Lead = 0 /\ r.version > 0 => Row(r) # NULL /\ r.version <= Row(r).version
        BY <1>1 DEF CallHolds, VersionSeen
    <2>4. "claiming" \in Stages \ InTransaction /\ pc[c] \notin Transacting
        BY <1>1 DEF Stages, InTransaction, Transacting
    <2> QED
        BY <1>1, <2>1, <2>2, <2>3, <2>4, OutsideIInv
<1> QED
    BY <1>2, <1>3

LEMMA ClaimNewIInv ==
    ASSUME IInv, NEW c \in Calls, NEW s \in {"writing", "reading"}, ClaimNew(c, s),
           s = "writing" <=> request[c].type = "create-purchase-request",
           UNCHANGED contractVars
    PROVE  IInv'
<1> USE DEF IInv, contractVars
<1> PICK r \in Requests : r = request[c]
    BY DEF ClaimNew, CallHolds, CallMatches
<1> PICK k \in OpKeys : k = OpKey(r)
    BY RequestFields
<1>1. /\ pc[c] = "claiming" /\ ledger[k].status = "absent"
      /\ ledger' = [ledger EXCEPT ![k] =
             [status |-> "started", request |-> r, owner |-> c, result |-> NULL]]
      /\ pc' = [pc EXCEPT ![c] = s]
      /\ UNCHANGED <<request, lock>>
    BY DEF ClaimNew
<1>2. TypeOK'
    <2>1. ledger' \in [OpKeys ->
              [status : {"absent", "started", "completed"}, request : Requests \cup {NULL},
               owner : Calls \cup {NULL}, result : Aggregates \cup {NULL}]]
        BY <1>1 DEF TypeOK
    <2>2. pc' \in [Calls -> ContractStages]
        BY <1>1 DEF TypeOK, ContractStages, Stages
    <2> QED
        BY <1>1, <2>1, <2>2 DEF TypeOK
<1>3. /\ pc'[c] = s /\ \A d \in Calls \ {c} : pc'[d] = pc[d]
      /\ ledger'[k] = [status |-> "started", request |-> r, owner |-> c, result |-> NULL]
      /\ \A j \in OpKeys \ {k} : ledger'[j] = ledger[j]
    BY <1>1 DEF TypeOK
<1>4. CallHolds(c)'
    <2>1. CallMatches(c)'
        BY <1>1, <1>3 DEF CallHolds, CallMatches
    <2>2. VersionSeen(c)'
        BY <1>1, <1>3 DEF CallHolds, VersionSeen, Row
    <2>3. r.type = "create-contract" => s = "reading"
        OBVIOUS
    <2>4. (~IsPurchaseChange(r) /\ ~IsContractChange(r)) \/ s = "reading"
        BY DEF IsPurchaseChange, IsContractChange
    <2> QED
        BY <1>1, <1>3, <2>1, <2>2, <2>3, <2>4
        DEF CallHolds, LocksMatch, Drawing, HasWritten, ReadMatches, WriteMatches,
            IsPurchaseChange, IsContractChange
<1>5. ASSUME NEW j \in OpKeys PROVE RowMatches(j)'
    <2>1. CASE j = k
        BY <1>1, <1>3, <2>1, RequestFields
        DEF RowMatches, Committed, Transacting, InTransaction, TypeOK
    <2>2. CASE j # k
        <3>1. ledger[j].owner # c
            BY <1>1 DEF RowMatches, Transacting, InTransaction
        <3> QED
            BY <1>1, <1>3, <2>2, <3>1 DEF RowMatches, Committed
    <2> QED
        BY <2>1, <2>2
<1>6. ~Committed(k)'
    BY <1>3 DEF Committed
<1> QED
    BY <1>1, <1>2, <1>3, <1>4, <1>5, <1>6, LocalIInv

LEMMA ClaimIInv ==
    ASSUME IInv, NEW c \in Calls, Claim(c)
    PROVE  IInv'
<1> DEFINE s == IF request[c].type = "create-purchase-request" THEN "writing" ELSE "reading"
<1>1. CASE ClaimExisting(c)
    BY <1>1, EndIInv DEF ClaimExisting, Claim
<1>2. CASE ClaimNew(c, s)
    <2>1. s \in {"writing", "reading"} /\ (s = "writing" <=> request[c].type = "create-purchase-request")
        OBVIOUS
    <2>2. UNCHANGED contractVars
        BY DEF Claim
    <2> HIDE DEF s
    <2> QED
        BY <1>2, <2>1, <2>2, ClaimNewIInv
<1> QED
    BY <1>1, <1>2 DEF Claim

\* A rollback: the end of every failing stage and of a crash.
LEMMA GiveUpIInv ==
    ASSUME IInv, NEW c \in Calls, GiveUp(c), UNCHANGED <<purchases, contracts>>
    PROVE  IInv'
<1> USE DEF IInv, GiveUp, Rollback, End
<1>1. TypeOK'
    <2>1. ledger' \in [OpKeys ->
              [status : {"absent", "started", "completed"}, request : Requests \cup {NULL},
               owner : Calls \cup {NULL}, result : Aggregates \cup {NULL}]]
        BY DEF TypeOK, NoRow
    <2>2. /\ pc' \in [Calls -> ContractStages]
          /\ request' \in [Calls -> Requests \cup {NULL}]
          /\ lock' \in [Aggregates -> Calls \cup {NULL}]
          /\ entity' \in [Calls -> PurchaseRows \cup ContractRows \cup {NULL}]
          /\ pending' \in [Calls -> PurchaseRows \cup ContractRows \cup {NULL}]
        BY DEF TypeOK, ContractStages, Stages
    <2> QED
        BY <2>1, <2>2 DEF TypeOK
<1>2. /\ pc'[c] = "idle" /\ request'[c] = NULL /\ pending'[c] = NULL
      /\ \A d \in Calls \ {c} : UNCHANGED <<pc[d], request[d], entity[d], pending[d]>>
    BY DEF TypeOK
<1>3. CallHolds(c)'
    BY <1>2 DEF CallHolds, CallMatches, LocksMatch, VersionSeen, ReadMatches, WriteMatches,
                Drawing, HasWritten, Transacting, InTransaction
<1>4. ASSUME NEW k \in OpKeys PROVE RowMatches(k)'
    <2>1. CASE ledger[k].owner = c
        BY <2>1 DEF RowMatches, Committed, NoRow
    <2>2. CASE ledger[k].owner # c
        BY <1>2, <2>2 DEF RowMatches, Committed
    <2> QED
        BY <2>1, <2>2
<1>5. \A a \in Aggregates : lock[a] \in Calls \ {c} => lock'[a] = lock[a]
    OBVIOUS
<1>6. \A k \in OpKeys : \/ ledger'[k] = ledger[k]
                        \/ ledger[k].owner = c /\ ~Committed(k)'
    BY DEF Committed, NoRow
<1> QED
    BY <1>1, <1>2, <1>3, <1>4, <1>5, <1>6, LocalIInv

\* A transaction goes on to another statement, with a new lock or none.
LEMMA GotoIInv ==
    ASSUME IInv, NEW c \in Calls, pc[c] \in {"reading", "summing", "writing"},
           NEW s \in {"summing", "writing", "rereading"},
           NEW row \in PurchaseRows \cup ContractRows \cup {NULL}, Goto(c, s, row),
           NEW a \in Aggregates, lock' \in {lock, [lock EXCEPT ![a] = c]},
           lock'[a] = c /\ lock[a] # c => lock[a] = NULL,
           UNCHANGED <<purchases, contracts, pending>>,
           s = "summing" => request[c].type = "create-contract",
           s = "rereading" => request[c].type = "sign-contract",
           Drawing(c)' => lock'[request[c].aggregate] = c,
           ReadMatches(c)'
    PROVE  IInv'
<1> USE DEF IInv
<1>1. /\ pc'[c] = s /\ request'[c] = request[c]
      /\ \A d \in Calls \ {c} : UNCHANGED <<pc[d], request[d], entity[d], pending[d]>>
      /\ UNCHANGED <<ledger, request>>
    BY DEF Goto, TypeOK
<1>2. TypeOK'
    <2>1. lock' \in [Aggregates -> Calls \cup {NULL}]
        BY DEF TypeOK
    <2> QED
        BY <2>1 DEF TypeOK, Goto, ContractStages, Stages
<1>3. CallHolds(c)'
    <2>1. CallMatches(c)'
        BY <1>1 DEF CallHolds, CallMatches, Transacting, InTransaction
    <2>2. VersionSeen(c)'
        BY <1>1 DEF CallHolds, VersionSeen, Row
    <2>3. LocksMatch(c)' /\ WriteMatches(c)'
        BY <1>1 DEF LocksMatch, WriteMatches, HasWritten
    <2> QED
        BY <2>1, <2>2, <2>3 DEF CallHolds
<1>4. ASSUME NEW k \in OpKeys PROVE RowMatches(k)'
    BY <1>1 DEF RowMatches, Committed, Transacting, InTransaction
<1>5. \A b \in Aggregates : lock[b] \in Calls \ {c} => lock'[b] = lock[b]
    BY DEF TypeOK
<1> QED
    BY <1>1, <1>2, <1>3, <1>4, <1>5, LocalIInv

LEMMA ReadIInv ==
    ASSUME IInv, NEW c \in Calls, Read(c)
    PROVE  IInv'
<1> USE DEF IInv
<1> PICK r \in Requests : r = request[c]
    BY DEF Read, CallHolds, CallMatches
<1>1. /\ pc[c] = "reading" /\ r.type # "create-contract"
      /\ UNCHANGED <<purchases, contracts>>
    BY DEF Read
<1>2. IsPurchaseChange(r) \/ IsContractChange(r)
    BY <1>1, Kinds DEF CallHolds, CallMatches
<1>3. CASE GiveUp(c)
    BY <1>1, <1>3, GiveUpIInv
<1>4. CASE ~GiveUp(c)
    <2> PICK row : row = Row(r)
        OBVIOUS
    <2>1. /\ DomainAccepts(row, r) /\ Goto(c, "writing", row) /\ UNCHANGED <<lock, pending>>
        BY <1>4 DEF Read
    <2>2. /\ r.aggregate \in Aggregates
          /\ pc'[c] = "writing" /\ entity'[c] = row /\ request'[c] = r
        BY <1>2, <2>1, RequestFields DEF Goto, TypeOK
    <2>3. row # NULL
        BY <2>1 DEF DomainAccepts
    <2>4. ReadMatches(c)'
        <3>1. CASE IsPurchaseChange(r)
            <4>1. row = purchases[r.aggregate] /\ row.status = "open"
                BY <2>1, <3>1, RequestFields DEF Row, DomainAccepts
            <4> QED
                BY <1>1, <2>2, <2>3, <3>1, <4>1, RequestFields DEF ReadMatches, Drawing
        <3>2. CASE IsContractChange(r)
            <4>1. row = contracts[r.aggregate] /\ r.aggregate \in ContractIds
                BY <3>2, RequestFields DEF Row
            <4>2. row \in ContractRows /\ Tells(row) /\ row.version \in Nat
                BY <2>3, <4>1, RowVersions DEF ContractsTell
            <4>3. ASSUME NEW a \in row.signed PROVE AskedToSign(a, r.aggregate)'
                BY <1>1, <2>1, <2>3, <4>1
                DEF SignaturesWereAskedFor, AskedToSign, Committed, Goto
            <4>4. Lead = 0 => r.version <= row.version
                BY <1>1, <4>2, RequestFields DEF CallHolds, VersionSeen
            <4>5. ~IsPurchaseChange(r)
                BY <3>2, RequestFields
            <4> QED
                BY <1>1, <2>1, <2>2, <2>3, <4>1, <4>2, <4>3, <4>4, <4>5
                DEF ReadMatches, Drawing
        <3> QED
            BY <1>2, <3>1, <3>2
    <2>5. row \in PurchaseRows \cup ContractRows
        BY <1>2, <2>3, RequestFields, RowVersions DEF Row
    <2>6. ~Drawing(c)'
        BY <1>1, <2>2 DEF Drawing
    <2> QED
        BY <1>1, <2>1, <2>2, <2>4, <2>5, <2>6, GotoIInv
<1> QED
    BY <1>3, <1>4

LEMMA LockPurchaseIInv ==
    ASSUME IInv, NEW c \in Calls, LockPurchase(c)
    PROVE  IInv'
<1> USE DEF IInv
<1> PICK r \in Requests : r = request[c]
    BY DEF LockPurchase, CallHolds, CallMatches
<1> PICK p \in PurchaseRequests : p = r.aggregate
    BY RequestFields DEF LockPurchase
<1>1. /\ pc[c] = "reading" /\ r.type = "create-contract" /\ lock[p] = NULL
      /\ UNCHANGED <<purchases, contracts>>
    BY DEF LockPurchase
<1>2. CASE GiveUp(c)
    BY <1>1, <1>2, GiveUpIInv
<1>3. CASE ~GiveUp(c)
    <2> PICK row : row = purchases[p]
        OBVIOUS
    <2>1. /\ DomainAccepts(row, r) /\ Goto(c, "summing", row)
          /\ lock' = [lock EXCEPT ![p] = c] /\ UNCHANGED pending
        BY <1>3 DEF LockPurchase
    <2>2. row \in PurchaseRows /\ row.status = "open"
        BY <1>1, <2>1, RowVersions DEF DomainAccepts
    <2>3. /\ pc'[c] = "summing" /\ entity'[c] = row /\ request'[c] = r /\ lock'[p] = c
        BY <2>1 DEF Goto, TypeOK
    <2>4. ReadMatches(c)'
        BY <1>1, <2>2, <2>3 DEF ReadMatches, IsPurchaseChange, IsContractChange
    <2> QED
        BY <1>1, <2>1, <2>2, <2>3, <2>4, GotoIInv
<1> QED
    BY <1>2, <1>3

LEMMA AllocateIInv ==
    ASSUME IInv, NEW c \in Calls, Allocate(c)
    PROVE  IInv'
<1> USE DEF IInv
<1> PICK r \in Requests : r = request[c]
    BY DEF Allocate, CallHolds, CallMatches
<1>1. /\ pc[c] = "summing" /\ UNCHANGED <<purchases, contracts>>
    BY DEF Allocate
<1>2. /\ r.type = "create-contract" /\ Drawing(c) /\ r.aggregate \in PurchaseRequests
    BY <1>1, RequestFields DEF CallHolds, CallMatches, Drawing
<1>3. CASE GiveUp(c)
    BY <1>1, <1>3, GiveUpIInv
<1>4. CASE ~GiveUp(c)
    <2> PICK row : row = entity[c]
        OBVIOUS
    <2>1. Goto(c, "writing", row) /\ UNCHANGED <<lock, pending>>
        BY <1>4 DEF Allocate
    <2>2. /\ row \in PurchaseRows /\ row.status = "open" /\ purchases[r.aggregate] = row
          /\ lock[r.aggregate] = c
        BY <1>2 DEF CallHolds, ReadMatches, LocksMatch
    <2>3. pc'[c] = "writing" /\ entity'[c] = row /\ request'[c] = r
        BY <2>1 DEF Goto, TypeOK
    <2>4. ReadMatches(c)'
        BY <1>1, <1>2, <2>2, <2>3 DEF ReadMatches, IsPurchaseChange, IsContractChange
    <2> QED
        BY <1>1, <1>2, <2>1, <2>2, <2>3, <2>4, GotoIInv
<1> QED
    BY <1>3, <1>4

\* A transaction that has written a row, or found a signature, and completed the
\* ledger row.
LEMMA CompletedIInv ==
    ASSUME IInv, NEW c \in Calls, pc[c] \in {"writing", "rereading"},
           NEW a \in Aggregates, Complete(c, a), pc' = [pc EXCEPT ![c] = "committing"],
           NEW row \in PurchaseRows \cup ContractRows \cup {NULL},
           pending' = [pending EXCEPT ![c] = row],
           lock' \in {lock, [lock EXCEPT ![a] = c]},
           row # NULL => lock[a] = NULL /\ lock'[a] = c,
           row = NULL => lock' = lock,
           UNCHANGED <<request, entity, purchases, contracts>>,
           request[c].type = "create-purchase-request" => a \in PurchaseRequests,
           request[c].type = "create-contract" => a \in ContractIds /\ pc[c] = "writing",
           IsPurchaseChange(request[c]) \/ IsContractChange(request[c]) =>
               a = request[c].aggregate,
           Target(c)' = a => WriteMatches(c)'
    PROVE  IInv'
<1> USE DEF IInv
<1> PICK r \in Requests : r = request[c]
    BY DEF CallHolds, CallMatches
<1> PICK k \in OpKeys : k = OpKey(r)
    BY RequestFields
<1>1. ledger[k].owner = c /\ ledger[k].request = r /\ ledger[k].status = "started"
    BY DEF CallHolds, CallMatches, Transacting, InTransaction
<1>2. ledger' = [ledger EXCEPT ![k] =
          [status |-> "completed", request |-> r, owner |-> c, result |-> a]]
    BY <1>1 DEF Complete
<1>3. /\ pc'[c] = "committing" /\ request'[c] = r
      /\ \A d \in Calls \ {c} : UNCHANGED <<pc[d], request[d], entity[d], pending[d]>>
      /\ ledger'[k] = [status |-> "completed", request |-> r, owner |-> c, result |-> a]
      /\ \A j \in OpKeys \ {k} : ledger'[j] = ledger[j]
    BY <1>2 DEF TypeOK
<1>4. TypeOK'
    <2>1. ledger' \in [OpKeys ->
              [status : {"absent", "started", "completed"}, request : Requests \cup {NULL},
               owner : Calls \cup {NULL}, result : Aggregates \cup {NULL}]]
        BY <1>2 DEF TypeOK
    <2>2. lock' \in [Aggregates -> Calls \cup {NULL}]
        BY DEF TypeOK
    <2> QED
        BY <2>1, <2>2 DEF TypeOK, ContractStages, Stages
<1>5. Target(c)' = a
    BY <1>3 DEF Target
<1>6. CallHolds(c)'
    <2>1. CallMatches(c)'
        BY <1>3, <1>5 DEF CallMatches, Transacting, IsPurchaseChange, IsContractChange
    <2>2. VersionSeen(c)'
        BY <1>3 DEF CallHolds, VersionSeen, Row
    <2>3. Drawing(c)' => Drawing(c) /\ lock[r.aggregate] = c /\ r.aggregate \in PurchaseRequests
        BY <1>3, RequestFields DEF Drawing, CallHolds, LocksMatch
    <2>4. LocksMatch(c)'
        BY <1>3, <1>5, <2>3 DEF LocksMatch, HasWritten, TypeOK
    <2>5. ReadMatches(c)'
        BY <1>3, <2>3 DEF CallHolds, ReadMatches, Drawing
    <2> QED
        BY <1>5, <2>1, <2>2, <2>4, <2>5 DEF CallHolds
<1>7. ASSUME NEW j \in OpKeys PROVE RowMatches(j)'
    <2>1. CASE j = k
        BY <1>3, <2>1 DEF RowMatches, Committed, Transacting, InTransaction
    <2>2. CASE j # k
        <3>1. ledger[j].owner # c
            BY <2>2 DEF RowMatches
        <3> QED
            BY <1>3, <2>2, <3>1 DEF RowMatches, Committed
    <2> QED
        BY <2>1, <2>2
<1>8. ~Committed(k)'
    BY <1>3 DEF Committed
<1>9. \A b \in Aggregates : lock[b] \in Calls \ {c} => lock'[b] = lock[b]
    BY DEF TypeOK
<1> QED
    BY <1>1, <1>3, <1>4, <1>6, <1>7, <1>8, <1>9, LocalIInv

LEMMA WritePurchaseIInv ==
    ASSUME IInv, NEW c \in Calls, WritePurchase(c)
    PROVE  IInv'
<1> USE DEF IInv
<1> PICK r \in Requests : r = request[c]
    BY DEF WritePurchase, CallHolds, CallMatches
<1> DEFINE new == [status |-> "open", version |-> 1, buyer |-> r.actor, needed |-> r.quantity]
<1>1. PICK p \in PurchaseRequests : purchases[p] = NULL /\ lock[p] = NULL /\ Written(c, p, new)
    BY DEF WritePurchase
<1>2. pc[c] = "writing" /\ r.type = "create-purchase-request"
    BY DEF WritePurchase
<1>3. new \in PurchaseRows
    BY <1>2, RequestFields DEF PurchaseRows
<1> PICK row \in PurchaseRows : row = new
    BY <1>3
<1> HIDE DEF new
<1>4. row # NULL /\ pending'[c] = row /\ lock'[p] = c
    BY <1>1 DEF Written, TypeOK
<1>5. Target(c)' = p => WriteMatches(c)'
    BY <1>1, <1>2, <1>4, Kinds
    DEF WriteMatches, PurchaseWritten, DrawnWritten, ChangeWritten, Written
<1> QED
    BY <1>1, <1>2, <1>4, <1>5, Kinds, CompletedIInv DEF Written

LEMMA WriteContractIInv ==
    ASSUME IInv, NEW c \in Calls, WriteContract(c)
    PROVE  IInv'
<1> USE DEF IInv
<1> PICK r \in Requests : r = request[c]
    BY DEF WriteContract, CallHolds, CallMatches
<1> DEFINE new == [status |-> "draft", version |-> 1, buyer |-> r.actor,
                   seller |-> r.seller, purchase |-> r.aggregate,
                   quantity |-> r.quantity, signed |-> {}]
<1>1. PICK x \in ContractIds : contracts[x] = NULL /\ lock[x] = NULL /\ Written(c, x, new)
    BY DEF WriteContract
<1>2. pc[c] = "writing" /\ r.type = "create-contract"
    BY DEF WriteContract
<1>3. new \in ContractRows /\ Tells(new) /\ new.signed = {} /\ new.purchase = r.aggregate
    BY <1>2, RequestFields DEF ContractRows, ContractStatus, Tells, Parties
<1> PICK row \in ContractRows : row = new
    BY <1>3
<1> HIDE DEF new
<1>4. row # NULL /\ pending'[c] = row /\ lock'[x] = c
    BY <1>1 DEF Written, TypeOK
<1>5. Target(c)' = x => WriteMatches(c)'
    BY <1>1, <1>2, <1>3, <1>4, Kinds
    DEF WriteMatches, PurchaseWritten, DrawnWritten, ChangeWritten, Written, Tells, Parties
<1> QED
    BY <1>1, <1>2, <1>4, <1>5, Kinds, CompletedIInv DEF Written

\* A signature or a transition that was accepted on one version and is written on
\* a version of the same status leaves a contract that tells its signatures.
LEMMA ChangedContract ==
    ASSUME NEW x \in ContractRows, NEW read \in ContractRows, NEW r \in Requests,
           IsContractChange(r), Tells(x), Tells(read), DomainAccepts(read, r),
           Parties(x) = Parties(read), x.status = read.status
    PROVE  LET row == Changed(x, read, r) IN
           /\ row \in ContractRows /\ Tells(row)
           /\ Parties(row) = Parties(x) /\ row.purchase = x.purchase
           /\ row.version = x.version + 1
           /\ r.type = "sign-contract" => row.signed = read.signed \cup {r.actor}
           /\ r.type # "sign-contract" => row.signed = x.signed
<1>1. /\ r.actor \in Parties(read) /\ r.actor \in Actors
      /\ x = [status |-> x.status, version |-> x.version, buyer |-> x.buyer, seller |-> x.seller,
              purchase |-> x.purchase, quantity |-> x.quantity, signed |-> x.signed]
      /\ x.version \in Nat /\ x.buyer \in Actors /\ x.seller \in Actors
      /\ x.signed \subseteq Actors /\ read.signed \subseteq Actors
    BY RequestFields DEF DomainAccepts, ContractRows
<1>2. CASE r.type = "sign-contract"
    <2> DEFINE signed == read.signed \cup {r.actor}
               status == IF Parties(read) \subseteq signed THEN "active" ELSE read.status
    <2>1. read.status = "pending_signature"
        BY <1>2 DEF DomainAccepts
    <2>2. Signed(read, r.actor).signed = signed /\ Signed(read, r.actor).status = status
        BY DEF Signed, ContractRows
    <2>3. Changed(x, read, r) = [x EXCEPT !.status = status, !.signed = signed, !.version = @ + 1]
        BY <1>2, <2>2 DEF Changed
    <2> HIDE DEF signed, status
    <2>4. signed \subseteq Actors /\ status \in ContractStatus
        BY <1>1, <2>1 DEF signed, status, ContractStatus
    <2>5. PICK row : row = Changed(x, read, r)
        OBVIOUS
    <2>6. /\ row \in ContractRows /\ row.status = status /\ row.signed = signed
          /\ row.version = x.version + 1 /\ row.purchase = x.purchase
          /\ row.buyer = x.buyer /\ row.seller = x.seller
        <3>1. row = [status |-> status, version |-> x.version + 1, buyer |-> x.buyer,
                     seller |-> x.seller, purchase |-> x.purchase, quantity |-> x.quantity,
                     signed |-> signed]
            BY <1>1, <2>3, <2>5
        <3>2. x.purchase \in PurchaseRequests /\ x.quantity \in Quantities /\ x.version + 1 \in Nat
            BY <1>1 DEF ContractRows
        <3> QED
            BY <1>1, <2>4, <3>1, <3>2 DEF ContractRows
    <2>7. Parties(row) = Parties(x)
        BY <2>6 DEF Parties
    <2>8. Tells(row)
        <3>1. signed \subseteq Parties(row)
            BY <1>1, <2>7 DEF signed, Tells
        <3>2. status = IF Parties(row) \subseteq signed THEN "active" ELSE "pending_signature"
            BY <2>1, <2>7 DEF status
        <3> QED
            BY <2>6, <3>1, <3>2 DEF Tells
    <2> QED
        BY <1>2, <2>5, <2>6, <2>7, <2>8 DEF signed
<1>3. CASE r.type = "transition-contract"
    <2>1. /\ r.to \in Successors[x.status] /\ r.to \in ContractStatus
          /\ r.to = "active" => Parties(read) \subseteq read.signed
        BY <1>3, RequestFields DEF DomainAccepts, CanTransition
    <2>2. Changed(x, read, r) = [x EXCEPT !.status = r.to, !.version = @ + 1]
        BY <1>3 DEF Changed
    <2>3. PICK row : row = Changed(x, read, r)
        OBVIOUS
    <2>4. /\ row \in ContractRows /\ row.status = r.to /\ row.signed = x.signed
          /\ row.version = x.version + 1 /\ row.purchase = x.purchase
          /\ row.buyer = x.buyer /\ row.seller = x.seller
        <3>1. row = [status |-> r.to, version |-> x.version + 1, buyer |-> x.buyer,
                     seller |-> x.seller, purchase |-> x.purchase, quantity |-> x.quantity,
                     signed |-> x.signed]
            BY <1>1, <2>2, <2>3
        <3>2. x.purchase \in PurchaseRequests /\ x.quantity \in Quantities /\ x.version + 1 \in Nat
            BY <1>1 DEF ContractRows
        <3> QED
            BY <1>1, <2>1, <3>1, <3>2 DEF ContractRows
    <2>5. Parties(row) = Parties(x) /\ x.buyer \in Parties(row)
        BY <2>4 DEF Parties
    <2>6. x.status \in ContractStatus
        BY DEF ContractRows
    <2>7. Tells(row)
        BY <2>1, <2>4, <2>5, <2>6 DEF Tells, Successors, ContractStatus
    <2> QED
        BY <1>3, <2>3, <2>4, <2>5, <2>7
<1> QED
    BY <1>2, <1>3 DEF IsContractChange

LEMMA UpdatePurchaseIInv ==
    ASSUME IInv, NEW c \in Calls, pc[c] = "writing", IsPurchaseChange(request[c]),
           UpdateMatches(c), lock[request[c].aggregate] = NULL,
           Written(c, request[c].aggregate, Changed(Row(request[c]), entity[c], request[c]))
    PROVE  IInv'
<1> USE DEF IInv
<1> PICK r \in Requests : r = request[c]
    BY DEF CallHolds, CallMatches
<1> PICK p \in PurchaseRequests : p = r.aggregate
    BY RequestFields
<1> PICK old : old = purchases[p]
    OBVIOUS
<1>1. /\ old \in PurchaseRows /\ old.version \in Nat /\ old.status = "open"
      /\ Row(r) = old /\ old # NULL
    BY RowVersions DEF CallHolds, ReadMatches, UpdateMatches, Row
<1>2. r.type # "sign-contract" /\ r.to \in {"closed", "cancelled"}
    BY RequestFields DEF IsPurchaseChange
<1> PICK row : row = Changed(old, entity[c], r)
    OBVIOUS
<1>3. row = [old EXCEPT !.status = r.to, !.version = @ + 1]
    BY <1>2 DEF Changed
<1>4. row \in PurchaseRows /\ old.version <= row.version
    <2>1. /\ old = [status |-> old.status, version |-> old.version, buyer |-> old.buyer,
                    needed |-> old.needed]
          /\ old.buyer \in Actors /\ old.needed \in Quantities
        BY <1>1 DEF PurchaseRows
    <2>2. row = [status |-> r.to, version |-> old.version + 1, buyer |-> old.buyer,
                 needed |-> old.needed]
        BY <1>3, <2>1
    <2> QED
        BY <1>1, <1>2, <2>1, <2>2 DEF PurchaseRows
<1>5. row # NULL /\ pending'[c] = row /\ lock'[p] = c
    BY <1>1, <1>4 DEF Written, TypeOK
<1>6. Target(c)' = p => WriteMatches(c)'
    BY <1>1, <1>4, <1>5, Kinds
    DEF WriteMatches, PurchaseWritten, DrawnWritten, ChangeWritten, Written
<1> QED
    BY <1>1, <1>4, <1>5, <1>6, Kinds, CompletedIInv DEF Written

LEMMA UpdateContractIInv ==
    ASSUME IInv, NEW c \in Calls, pc[c] = "writing", IsContractChange(request[c]),
           UpdateMatches(c), lock[request[c].aggregate] = NULL,
           Written(c, request[c].aggregate, Changed(Row(request[c]), entity[c], request[c]))
    PROVE  IInv'
<1> USE DEF IInv
<1> PICK r \in Requests : r = request[c]
    BY DEF CallHolds, CallMatches
<1> PICK x \in ContractIds : x = r.aggregate
    BY RequestFields
<1> PICK old : old = contracts[x]
    OBVIOUS
<1> PICK read : read = entity[c]
    OBVIOUS
<1>1. /\ read \in ContractRows /\ Tells(read) /\ DomainAccepts(read, r)
      /\ \A a \in read.signed : AskedToSign(a, x)
      /\ old # NULL /\ Parties(old) = Parties(read)
      /\ read.version <= old.version /\ (read.version = old.version => read = old)
      /\ Lead = 0 => r.version <= read.version
    BY DEF CallHolds, ReadMatches
<1>2. old \in ContractRows /\ Tells(old) /\ old.version \in Nat /\ read.version \in Nat
    BY <1>1, RowVersions DEF ContractsTell, ContractRows
<1>3. Row(r) = old /\ old.version = r.version /\ old.status = read.status
    BY DEF UpdateMatches, Row
<1> PICK row : row = Changed(old, read, r)
    OBVIOUS
<1>4. /\ row \in ContractRows /\ Tells(row)
      /\ Parties(row) = Parties(old) /\ row.purchase = old.purchase
      /\ row.version = old.version + 1
      /\ r.type = "sign-contract" => row.signed = read.signed \cup {r.actor}
      /\ r.type # "sign-contract" => row.signed = old.signed
    BY <1>1, <1>2, <1>3, ChangedContract
<1>5. row # NULL /\ pending'[c] = row /\ lock'[x] = c /\ Written(c, x, row)
    BY <1>3, <1>4 DEF Written, TypeOK
<1>6. Lead = 0 => old.signed \subseteq row.signed
    <2>1. CASE r.type # "sign-contract"
        BY <1>4, <2>1
    <2>2. CASE r.type = "sign-contract"
        <3>1. Lead = 0 => read.version = old.version
            BY <1>1, <1>2, <1>3
        <3> QED
            BY <1>1, <1>4, <2>2, <3>1
    <2> QED
        BY <2>1, <2>2
<1>7. ASSUME NEW b \in row.signed
      PROVE  (b = r.actor /\ r.type = "sign-contract") \/ AskedToSign(b, x)
    BY <1>1, <1>4 DEF SignaturesWereAskedFor
<1>8. ASSUME NEW b, AskedToSign(b, x) PROVE AskedToSign(b, x)'
    <2> PICK k \in OpKeys : Committed(k) /\ ledger[k].result = x
                            /\ k[1] = b /\ k[2] = "sign-contract"
        BY <1>8 DEF AskedToSign
    <2>1. OpKey(r) \in OpKeys /\ ledger[OpKey(r)].owner = c
        BY RequestFields DEF CallHolds, CallMatches, Transacting, InTransaction
    <2>2. k # OpKey(r)
        BY <2>1 DEF Committed
    <2>3. ledger'[k] = ledger[k]
        BY <2>1, <2>2 DEF Written, Complete, TypeOK
    <2> QED
        BY <2>3 DEF AskedToSign, Committed
<1>9. Target(c)' = x => WriteMatches(c)'
    <2> SUFFICES ASSUME Target(c)' = x PROVE ChangeWritten(c)'
        BY <1>5, Kinds DEF WriteMatches, PurchaseWritten, DrawnWritten, Written
    <2>1. request'[c] = r /\ contracts'[x] = old /\ pending'[c] = row
        BY <1>5 DEF Written
    <2>2. \A b \in row.signed :
             (b = r.actor /\ r.type = "sign-contract") \/ AskedToSign(b, x)'
        BY <1>7, <1>8
    <2>3. r.type = "sign-contract" => r.actor \in row.signed
        BY <1>4
    <2>4. /\ row \in ContractRows /\ Tells(row) /\ old # NULL /\ Parties(row) = Parties(old)
          /\ row.purchase = old.purchase /\ row.version = old.version + 1
        BY <1>1, <1>4
    <2>5. \A b \in row.signed :
             (b = r.actor /\ r.type = "sign-contract") \/ AskedToSign(b, Target(c))'
        <3>1. ASSUME NEW b, AskedToSign(b, x)' PROVE AskedToSign(b, Target(c))'
            BY <3>1 DEF AskedToSign
        <3> QED
            BY <2>2, <3>1
    <2>6. Tells(row)' /\ (Parties(row) = Parties(contracts[Target(c)]))'
        BY <2>1, <2>4 DEF Tells, Parties
    <2> HIDE DEF IInv
    <2> QED
        BY <1>6, <2>1, <2>3, <2>4, <2>5, <2>6 DEF ChangeWritten
<1>10. /\ lock[x] = NULL /\ x = request[c].aggregate /\ x \in Aggregates
       /\ request[c].type \notin {"create-purchase-request", "create-contract"}
    BY Kinds
<1>11. /\ Complete(c, x) /\ pc' = [pc EXCEPT ![c] = "committing"]
       /\ pending' = [pending EXCEPT ![c] = row] /\ lock' = [lock EXCEPT ![x] = c]
       /\ UNCHANGED <<request, entity, purchases, contracts>>
    BY <1>5 DEF Written
<1> QED
    BY <1>4, <1>5, <1>9, <1>10, <1>11, CompletedIInv

LEMMA UpdateIInv ==
    ASSUME IInv, NEW c \in Calls, Update(c)
    PROVE  IInv'
<1> PICK r \in Requests : r = request[c]
    BY DEF Update, IInv, CallHolds, CallMatches
<1>1. /\ pc[c] = "writing" /\ r.aggregate \in Aggregates
      /\ IsPurchaseChange(r) \/ IsContractChange(r)
    BY RequestFields DEF Update
<1>2. CASE UpdateMatches(c)
    <2>1. /\ lock[r.aggregate] = NULL
          /\ Written(c, r.aggregate, Changed(Row(r), entity[c], r))
        BY <1>2 DEF Update
    <2> QED
        BY <1>1, <1>2, <2>1, UpdatePurchaseIInv, UpdateContractIInv
<1>3. CASE ~UpdateMatches(c) /\ r.type # "sign-contract"
    BY <1>3, GiveUpIInv DEF Update
<1>4. CASE ~UpdateMatches(c) /\ r.type = "sign-contract"
    <2>1. Goto(c, "rereading", NULL) /\ UNCHANGED <<lock, pending, purchases, contracts>>
        BY <1>4 DEF Update
    <2>2. IsContractChange(r) /\ contracts[r.aggregate] # NULL
        BY <1>1, <1>4 DEF IInv, CallHolds, ReadMatches, IsContractChange
    <2>3. pc'[c] = "rereading" /\ request'[c] = r
        BY <2>1 DEF Goto, IInv, TypeOK
    <2>4. ReadMatches(c)' /\ ~Drawing(c)'
        BY <2>1, <2>2, <2>3 DEF ReadMatches, Drawing
    <2> QED
        BY <1>1, <1>4, <2>1, <2>4, GotoIInv
<1> QED
    BY <1>2, <1>3, <1>4

LEMMA RereadIInv ==
    ASSUME IInv, NEW c \in Calls, Reread(c)
    PROVE  IInv'
<1> PICK r \in Requests : r = request[c]
    BY DEF Reread, IInv, CallHolds, CallMatches
<1>1. /\ pc[c] = "rereading" /\ r.type = "sign-contract" /\ pending[c] = NULL
      /\ contracts[r.aggregate] # NULL /\ UNCHANGED <<purchases, contracts>>
    BY DEF Reread, IInv, CallHolds, CallMatches, ReadMatches
<1> PICK x \in ContractIds : x = r.aggregate
    BY <1>1, RequestFields DEF IsContractChange
<1>2. CASE r.actor \in contracts[x].signed
    <2>1. /\ Complete(c, x) /\ pc' = [pc EXCEPT ![c] = "committing"]
          /\ UNCHANGED <<request, lock, entity, pending>>
        BY <1>2 DEF Reread
    <2>2. pending' = [pending EXCEPT ![c] = NULL]
        BY <1>1, <2>1 DEF IInv, TypeOK
    <2>3. Target(c)' = x => WriteMatches(c)'
        BY <1>1, <1>2, <2>1 DEF WriteMatches, FoundSigned
    <2>4. /\ request[c].type \notin {"create-purchase-request", "create-contract"}
          /\ x = request[c].aggregate /\ x \in Aggregates /\ lock' = lock
          /\ UNCHANGED <<request, entity, purchases, contracts>>
        BY <1>1, <2>1
    <2> QED
        BY <1>1, <2>1, <2>2, <2>3, <2>4, CompletedIInv
<1>3. CASE r.actor \notin contracts[x].signed
    BY <1>1, <1>3, GiveUpIInv DEF Reread
<1> QED
    BY <1>2, <1>3

-----------------------------------------------------------------------------
(* The COMMIT *)

\* What a commit of operation k does to the tables: the row written, if one was,
\* is row a's next.
CommitsTo(c, k, a) ==
    /\ k = OpKey(request[c]) /\ a = Target(c) /\ request[c] \in Requests
    /\ ~Committed(k) /\ Committed(k)' /\ ledger'[k].result = a
    /\ \A j \in OpKeys \ {k} : ledger'[j] = ledger[j]
    /\ \A p \in PurchaseRequests :
         purchases'[p] = IF pending[c] # NULL /\ p = a THEN pending[c] ELSE purchases[p]
    /\ \A x \in ContractIds :
         contracts'[x] = IF pending[c] # NULL /\ x = a THEN pending[c] ELSE contracts[x]
    /\ pending[c] # NULL => lock[a] = c
    /\ \/ pending[c] = NULL /\ FoundSigned(c) /\ a \in ContractIds
       \/ /\ pending[c] # NULL /\ PurchaseWritten(c) /\ a \in PurchaseRequests
          /\ request[c].type = "create-purchase-request" \/ IsPurchaseChange(request[c])
       \/ /\ pending[c] # NULL /\ DrawnWritten(c) /\ a \in ContractIds
          /\ request[c].type = "create-contract"
       \/ /\ pending[c] # NULL /\ ChangeWritten(c) /\ a \in ContractIds
          /\ IsContractChange(request[c])

LEMMA CommitEffect ==
    ASSUME IInv, NEW c \in Calls, Commit(c)
    PROVE  \E k \in OpKeys, a \in Aggregates : CommitsTo(c, k, a)
<1> USE DEF IInv
<1> PICK r \in Requests : r = request[c]
    BY DEF Commit, CommitLedger, CallHolds, CallMatches
<1> PICK k \in OpKeys : k = OpKey(r)
    BY RequestFields
<1> PICK a : a = Target(c)
    OBVIOUS
<1>1. /\ pc[c] = "committing" /\ ledger' = [ledger EXCEPT ![k].owner = NULL]
      /\ ledger[k].owner = c /\ ledger[k].status = "completed" /\ ledger[k].result = a
    BY DEF Commit, CommitLedger, CallHolds, CallMatches, Transacting, InTransaction, Target
<1>2. /\ ~Committed(k) /\ Committed(k)' /\ ledger'[k].result = a
      /\ \A j \in OpKeys \ {k} : ledger'[j] = ledger[j]
    BY <1>1 DEF TypeOK, Committed
<1>3. /\ r.type = "create-purchase-request" \/ IsPurchaseChange(r) => a \in PurchaseRequests
      /\ r.type = "create-contract" \/ IsContractChange(r) => a \in ContractIds
    BY <1>1, RequestFields DEF CallHolds, CallMatches
<1>4. a \in Aggregates
    BY <1>3, Kinds
<1>5. /\ \A p \in PurchaseRequests :
           purchases'[p] = IF pending[c] # NULL /\ p = a THEN pending[c] ELSE purchases[p]
      /\ \A x \in ContractIds :
           contracts'[x] = IF pending[c] # NULL /\ x = a THEN pending[c] ELSE contracts[x]
    BY <1>1 DEF Commit, Wrote
<1>6. /\ pending[c] # NULL => lock[a] = c
      /\ IF pending[c] = NULL THEN FoundSigned(c)
         ELSE PurchaseWritten(c) /\ DrawnWritten(c) /\ ChangeWritten(c)
    BY <1>1 DEF CallHolds, LocksMatch, HasWritten, WriteMatches
<1>7. pending[c] = NULL => IsContractChange(r)
    BY <1>6 DEF FoundSigned, IsContractChange
<1>8. CommitsTo(c, k, a)
    BY <1>2, <1>3, <1>5, <1>6, <1>7, Kinds DEF CommitsTo
<1> QED
    BY <1>4, <1>8

LEMMA CommitGrows ==
    ASSUME IInv, NEW c \in Calls, NEW k \in OpKeys, NEW a \in Aggregates, CommitsTo(c, k, a)
    PROVE  Grows
<1> USE DEF IInv
<1>1. \A j \in OpKeys : Committed(j) => Committed(j)' /\ ledger'[j] = ledger[j]
    <2> SUFFICES ASSUME NEW j \in OpKeys, Committed(j)
                 PROVE  Committed(j)' /\ ledger'[j] = ledger[j]
        OBVIOUS
    <2>1. j # k
        BY DEF CommitsTo
    <2>2. ledger'[j] = ledger[j]
        BY <2>1 DEF CommitsTo
    <2> QED
        BY <2>2 DEF Committed
<1>2. ASSUME NEW p \in PurchaseRequests, purchases[p] # NULL
      PROVE  purchases'[p] # NULL /\ purchases[p].version <= purchases'[p].version
    <2>1. purchases[p].version \in Nat
        BY <1>2, RowVersions
    <2>2. CASE pending[c] # NULL /\ p = a
        <3>1. /\ IsPurchaseChange(request[c]) /\ PurchaseWritten(c) /\ purchases'[p] = pending[c]
              /\ purchases[Target(c)] = purchases[p]
            BY <1>2, <2>2 DEF CommitsTo, PurchaseWritten
        <3> QED
            BY <2>2, <3>1 DEF PurchaseWritten
    <2>3. CASE ~(pending[c] # NULL /\ p = a)
        BY <1>2, <2>1, <2>3 DEF CommitsTo
    <2> QED
        BY <2>2, <2>3
<1>3. ASSUME NEW x \in ContractIds, contracts[x] # NULL
      PROVE  /\ contracts'[x] # NULL
             /\ Parties(contracts'[x]) = Parties(contracts[x])
             /\ contracts'[x] # contracts[x] => contracts[x].version < contracts'[x].version
             /\ Lead = 0 => contracts[x].signed \subseteq contracts'[x].signed
    <2>1. contracts[x].version \in Nat
        BY <1>3, RowVersions
    <2>2. CASE pending[c] # NULL /\ x = a
        <3>1. /\ IsContractChange(request[c]) /\ ChangeWritten(c) /\ contracts'[x] = pending[c]
              /\ contracts[Target(c)] = contracts[x]
            BY <1>3, <2>2 DEF CommitsTo, DrawnWritten
        <3> QED
            BY <2>1, <2>2, <3>1 DEF ChangeWritten
    <2>3. CASE ~(pending[c] # NULL /\ x = a)
        BY <1>3, <2>1, <2>3 DEF CommitsTo
    <2> QED
        BY <2>2, <2>3
<1> QED
    BY <1>1, <1>2, <1>3 DEF Grows

LEMMA CommitIInv ==
    ASSUME IInv, NEW c \in Calls, Commit(c)
    PROVE  IInv'
<1> USE DEF IInv
<1> PICK k \in OpKeys, a \in Aggregates : CommitsTo(c, k, a)
    BY CommitEffect
<1> PICK r \in Requests : r = request[c]
    BY DEF CommitsTo
<1>1. Grows
    BY CommitGrows
<1>2. TypeOK'
    <2>1. ledger' \in [OpKeys ->
              [status : {"absent", "started", "completed"}, request : Requests \cup {NULL},
               owner : Calls \cup {NULL}, result : Aggregates \cup {NULL}]]
        <3>1. ledger' = [ledger EXCEPT ![k] = [ledger[k] EXCEPT !.owner = NULL]]
            BY DEF Commit, CommitLedger, CommitsTo, TypeOK
        <3>2. [ledger[k] EXCEPT !.owner = NULL] \in
                 [status : {"absent", "started", "completed"}, request : Requests \cup {NULL},
                  owner : Calls \cup {NULL}, result : Aggregates \cup {NULL}]
            BY DEF TypeOK
        <3> QED
            BY <3>1, <3>2 DEF TypeOK
    <2>2. pc' \in [Calls -> ContractStages] /\ request' \in [Calls -> Requests \cup {NULL}]
        BY DEF TypeOK, Commit, CommitLedger, End, ContractStages, Stages
    <2>3. lock' \in [Aggregates -> Calls \cup {NULL}]
        BY DEF TypeOK, Commit, CommitLedger
    <2>4. purchases' \in [PurchaseRequests -> PurchaseRows \cup {NULL}]
        <3>1. \A p \in PurchaseRequests : purchases'[p] \in PurchaseRows \cup {NULL}
            BY DEF CommitsTo, PurchaseWritten, TypeOK
        <3> QED
            BY <3>1 DEF Commit
    <2>5. contracts' \in [ContractIds -> ContractRows \cup {NULL}]
        <3>1. \A x \in ContractIds : contracts'[x] \in ContractRows \cup {NULL}
            BY DEF CommitsTo, DrawnWritten, ChangeWritten, TypeOK
        <3> QED
            BY <3>1 DEF Commit
    <2>6. /\ entity' \in [Calls -> PurchaseRows \cup ContractRows \cup {NULL}]
          /\ pending' \in [Calls -> PurchaseRows \cup ContractRows \cup {NULL}]
        BY DEF TypeOK, Commit
    <2> QED
        BY <2>1, <2>2, <2>3, <2>4, <2>5, <2>6 DEF TypeOK
<1>3. /\ pc'[c] = "idle" /\ pending'[c] = NULL
      /\ \A d \in Calls \ {c} : UNCHANGED <<pc[d], request[d], entity[d], pending[d]>>
      /\ \A b \in Aggregates : lock'[b] = IF lock[b] = c THEN NULL ELSE lock[b]
    BY DEF TypeOK, Commit, CommitLedger, End
<1>4. CallHolds(c)'
    BY <1>3 DEF CallHolds, CallMatches, LocksMatch, VersionSeen, ReadMatches, WriteMatches,
                Drawing, HasWritten, Transacting, InTransaction
<1>5. ASSUME NEW d \in Calls \ {c} PROVE CallHolds(d)'
    <2>1. pc[d] \in Transacting => UNCHANGED ledger[OpKey(request[d])]
        <3> SUFFICES ASSUME pc[d] \in Transacting
                     PROVE  ledger'[OpKey(request[d])] = ledger[OpKey(request[d])]
            BY <1>3
        <3>1. CallMatches(d) /\ request[d] \in Requests
            BY DEF CallHolds, CallMatches, Transacting, InTransaction
        <3>2. OpKey(request[d]) \in OpKeys /\ ledger[OpKey(request[d])].owner = d
            BY <3>1, RequestFields DEF CallMatches
        <3>3. ledger[k].owner = c
            BY DEF Commit, CommitLedger, CommitsTo, CallHolds, CallMatches, Transacting, InTransaction
        <3> QED
            BY <3>2, <3>3 DEF CommitsTo
    <2>2. \A b \in Aggregates : lock[b] = d => lock'[b] = d
        BY <1>3
    <2>3. /\ \A p \in PurchaseRequests : lock[p] = d => UNCHANGED purchases[p]
          /\ \A x \in ContractIds : lock[x] = d => UNCHANGED contracts[x]
        BY DEF CommitsTo
    <2> QED
        BY <1>1, <1>2, <1>3, <2>1, <2>2, <2>3, OthersHold
<1>6. ASSUME NEW j \in OpKeys PROVE RowMatches(j)'
    <2>1. CASE j = k
        <3>1. ledger'[k].owner = NULL
            BY DEF CommitsTo, Committed
        <3>2. k[2] = "sign-contract" => a \in ContractIds /\ contracts'[a] # NULL
            BY RequestFields, Kinds
            DEF CommitsTo, FoundSigned, ChangeWritten, IsContractChange, IsPurchaseChange
        <3> QED
            BY <2>1, <3>1, <3>2 DEF RowMatches, CommitsTo
    <2>2. CASE j # k
        <3>1. ledger'[j] = ledger[j] /\ (Committed(j)' <=> Committed(j))
            BY <2>2 DEF CommitsTo, Committed
        <3>2. ledger[j].owner # c
            BY <2>2 DEF RowMatches, CommitsTo
        <3> QED
            BY <1>1, <1>3, <3>1, <3>2 DEF RowMatches, Grows
    <2> QED
        BY <2>1, <2>2
<1>7. ContractsTell'
    BY DEF ContractsTell, CommitsTo, DrawnWritten, ChangeWritten, Tells, Parties
<1>8. ASSUME NEW x \in ContractIds, contracts'[x] # NULL, NEW b \in contracts'[x].signed
      PROVE  AskedToSign(b, x)'
    <2>1. CASE contracts'[x] = contracts[x]
        BY <1>1, <1>8, <2>1, AskedStays DEF SignaturesWereAskedFor
    <2>2. CASE contracts'[x] # contracts[x]
        <3>1. x = a /\ contracts'[x] = pending[c] /\ pending[c] # NULL
            BY <2>2 DEF CommitsTo
        <3>2. /\ IsContractChange(r)
              /\ (b = r.actor /\ r.type = "sign-contract") \/ AskedToSign(b, x)
            BY <1>8, <3>1 DEF CommitsTo, DrawnWritten, ChangeWritten
        <3>3. CASE b = r.actor /\ r.type = "sign-contract"
            BY <3>1, <3>3, RequestFields DEF CommitsTo, AskedToSign
        <3>4. CASE AskedToSign(b, x)
            BY <1>1, <3>4, AskedStays
        <3> QED
            BY <3>2, <3>3, <3>4
    <2> QED
        BY <2>1, <2>2
<1>9. SignaturesWereAskedFor'
    BY <1>8 DEF SignaturesWereAskedFor
<1>10. ASSUME Lead = 0, NEW j \in OpKeys, Committed(j)', j[2] = "sign-contract"
       PROVE  j[1] \in contracts'[ledger'[j].result].signed
    <2>1. CASE j = k
        BY <1>10, <2>1, RequestFields, Kinds
        DEF CommitsTo, FoundSigned, ChangeWritten, IsContractChange, IsPurchaseChange
    <2>2. CASE j # k
        <3>1. ledger'[j] = ledger[j] /\ Committed(j)
            BY <1>10, <2>2 DEF CommitsTo, Committed
        <3>2. /\ ledger[j].result \in ContractIds /\ contracts[ledger[j].result] # NULL
              /\ j[1] \in contracts[ledger[j].result].signed
            BY <1>10, <3>1 DEF RowMatches, AcknowledgedSignaturesStay
        <3> QED
            BY <1>1, <1>10, <3>1, <3>2 DEF Grows
    <2> QED
        BY <2>1, <2>2
<1>11. Lead = 0 => AcknowledgedSignaturesStay'
    BY <1>10 DEF AcknowledgedSignaturesStay
<1> QED
    BY <1>2, <1>4, <1>5, <1>6, <1>7, <1>9, <1>11

-----------------------------------------------------------------------------
(* The invariant *)

LEMMA InitIInv == Init => IInv
<1> SUFFICES ASSUME Init PROVE IInv
    OBVIOUS
<1> USE DEF Init, LedgerInit, NoRow
<1>1. TypeOK
    BY DEF TypeOK, ContractStages, Stages
<1>2. ASSUME NEW c \in Calls PROVE CallHolds(c)
    BY DEF CallHolds, CallMatches, LocksMatch, VersionSeen, ReadMatches, WriteMatches,
           Drawing, HasWritten, Transacting, InTransaction
<1>3. \A k \in OpKeys : ~Committed(k) /\ RowMatches(k)
    BY DEF Committed, RowMatches
<1>4. ContractsTell /\ SignaturesWereAskedFor /\ AcknowledgedSignaturesStay
    BY <1>3 DEF ContractsTell, SignaturesWereAskedFor, AcknowledgedSignaturesStay
<1> QED
    BY <1>1, <1>2, <1>3, <1>4 DEF IInv

LEMMA StutterIInv == IInv /\ UNCHANGED vars => IInv'
<1> SUFFICES ASSUME IInv, UNCHANGED vars PROVE IInv'
    OBVIOUS
<1> USE DEF IInv, vars, ledgerVars, contractVars
<1>1. TypeOK'
    BY DEF TypeOK
<1>2. \A k \in OpKeys : (Committed(k)' <=> Committed(k)) /\ ledger'[k] = ledger[k]
    BY DEF Committed
<1>3. Grows
    BY <1>2, SameGrows
<1>4. ASSUME NEW c \in Calls PROVE CallHolds(c)'
    BY <1>1, <1>3, OthersHold
<1>5. \A k \in OpKeys : RowMatches(k)'
    BY <1>2 DEF RowMatches
<1>6. ContractsTell'
    BY DEF ContractsTell, Tells, Parties
<1>7. SignaturesWereAskedFor'
    BY <1>3, AskedStays DEF SignaturesWereAskedFor
<1>8. Lead = 0 => AcknowledgedSignaturesStay'
    BY <1>2 DEF AcknowledgedSignaturesStay
<1> QED
    BY <1>1, <1>4, <1>5, <1>6, <1>7, <1>8

LEMMA NextIInv == IInv /\ [Next]_vars => IInv'
<1> SUFFICES ASSUME IInv, Next PROVE IInv'
    BY StutterIInv
<1> PICK c \in Calls : ReceiveRequest(c) \/ Serve(c) \/ CrashCall(c)
    BY DEF Next
<1>1. CASE ReceiveRequest(c)
    BY <1>1, ReceiveIInv
<1>2. CASE Check(c)
    BY <1>2, CheckIInv
<1>3. CASE Claim(c)
    BY <1>3, ClaimIInv
<1>4. CASE Read(c)
    BY <1>4, ReadIInv
<1>5. CASE LockPurchase(c)
    BY <1>5, LockPurchaseIInv
<1>6. CASE Allocate(c)
    BY <1>6, AllocateIInv
<1>7. CASE WritePurchase(c)
    BY <1>7, WritePurchaseIInv
<1>8. CASE WriteContract(c)
    BY <1>8, WriteContractIInv
<1>9. CASE Update(c)
    BY <1>9, UpdateIInv
<1>10. CASE Reread(c)
    BY <1>10, RereadIInv
<1>11. CASE Commit(c)
    BY <1>11, CommitIInv
<1>12. CASE CrashCall(c)
    BY <1>12, GiveUpIInv DEF CrashCall
<1> QED
    BY <1>1, <1>2, <1>3, <1>4, <1>5, <1>6, <1>7, <1>8, <1>9, <1>10, <1>11, <1>12
    DEF Serve, Write

\* The inductive invariant of purchase requests and contracts holds in every
\* reachable state.
THEOREM InvariantOfSpec == Spec => []IInv
BY InitIInv, NextIInv, PTL DEF Spec

\* The tables, the ledger and the transactions have their types.
THEOREM TypeCorrect == Spec => []TypeOK
<1>1. IInv => TypeOK
    BY DEF IInv
<1> QED
    BY <1>1, InvariantOfSpec, PTL

\* A contract that is active or completed carries the signatures of both its
\* parties, whatever they sign at once and whatever versions they send.
THEOREM InForceIsSigned == Spec => []InForceMeansSigned
<1>1. IInv => InForceMeansSigned
    BY DEF IInv, ContractsTell, Tells, InForceMeansSigned
<1> QED
    BY <1>1, InvariantOfSpec, PTL

\* Every signature on a contract was asked for by its party in a committed
\* operation.
THEOREM SignaturesAsked == Spec => []SignaturesWereAskedFor
<1>1. IInv => SignaturesWereAskedFor
    BY DEF IInv
<1> QED
    BY <1>1, InvariantOfSpec, PTL

\* While clients send only versions they have been shown, a signature that was
\* acknowledged is never cleared, and none is acknowledged that is not there.
THEOREM AcknowledgedStay == Spec => [](Lead = 0 => AcknowledgedSignaturesStay)
<1>1. IInv => (Lead = 0 => AcknowledgedSignaturesStay)
    BY DEF IInv
<1> QED
    BY <1>1, InvariantOfSpec, PTL

\* Steps other than a COMMIT leave both tables alone.
LEMMA OtherStepsKeep ==
    ASSUME [Next]_vars, \A c \in Calls : ~Commit(c)
    PROVE  UNCHANGED <<purchases, contracts>>
<1>1. CASE UNCHANGED vars
    BY <1>1 DEF vars, contractVars
<1>2. CASE Next
    <2> PICK c \in Calls : ReceiveRequest(c) \/ Serve(c) \/ CrashCall(c)
        BY <1>2 DEF Next
    <2>1. CASE ReceiveRequest(c) \/ Check(c) \/ Claim(c) \/ CrashCall(c)
        BY <2>1 DEF ReceiveRequest, Check, Claim, CrashCall, contractVars
    <2>2. CASE Read(c) \/ LockPurchase(c) \/ Allocate(c) \/ Reread(c)
        BY <2>2 DEF Read, LockPurchase, Allocate, Reread
    <2>3. CASE WritePurchase(c) \/ WriteContract(c)
        BY <2>3 DEF WritePurchase, WriteContract, Written
    <2>4. CASE Update(c)
        BY <2>4 DEF Update, Written
    <2> QED
        BY <2>1, <2>2, <2>3, <2>4 DEF Serve, Write
<1> QED
    BY <1>1, <1>2

\* D07: a request that is closed or cancelled never changes again, and no contract
\* is drawn from it any more, although closing does not take the lock under which
\* contracts are drawn.
THEOREM EndedRest == Spec => EndedRequestsRest
<1>1. IInv /\ [Next]_vars =>
        [\A p \in PurchaseRequests :
           purchases[p] # NULL /\ purchases[p].status # "open" =>
               /\ purchases'[p] = purchases[p]
               /\ ContractsOf(p)' = ContractsOf(p)]_vars
    <2> SUFFICES ASSUME IInv, [Next]_vars, NEW p \in PurchaseRequests,
                        purchases[p] # NULL, purchases[p].status # "open"
                 PROVE  purchases'[p] = purchases[p] /\ ContractsOf(p)' = ContractsOf(p)
        OBVIOUS
    <2>1. CASE \A c \in Calls : ~Commit(c)
        BY <2>1, OtherStepsKeep DEF ContractsOf
    <2>2. ASSUME NEW c \in Calls, Commit(c)
          PROVE  purchases'[p] = purchases[p] /\ ContractsOf(p)' = ContractsOf(p)
        <3> PICK k \in OpKeys, a \in Aggregates : CommitsTo(c, k, a)
            BY <2>2, CommitEffect
        <3>1. purchases'[p] = purchases[p]
            BY DEF CommitsTo, PurchaseWritten
        <3>2. ASSUME NEW x \in ContractIds
              PROVE  contracts'[x] # NULL /\ contracts'[x].purchase = p
                        <=> contracts[x] # NULL /\ contracts[x].purchase = p
            <4>1. CASE ~(pending[c] # NULL /\ x = a)
                BY <4>1 DEF CommitsTo
            <4>2. CASE pending[c] # NULL /\ x = a /\ request[c].type = "create-contract"
                <5>1. /\ contracts[x] = NULL /\ contracts'[x] = pending[c]
                      /\ pending[c].purchase = request[c].aggregate
                    BY <4>2, RequestFields, Kinds DEF CommitsTo, DrawnWritten, FoundSigned
                <5>2. /\ pc[c] = "committing" /\ Drawing(c)
                    BY <2>2, <4>2 DEF Commit, CommitLedger, Drawing
                <5>3. purchases[request[c].aggregate].status = "open"
                    BY <5>2 DEF IInv, CallHolds, ReadMatches
                <5> QED
                    BY <5>1, <5>3
            <4>3. CASE pending[c] # NULL /\ x = a /\ request[c].type # "create-contract"
                BY <4>3, Kinds DEF CommitsTo, ChangeWritten
            <4> QED
                BY <4>1, <4>2, <4>3
        <3> QED
            BY <3>1, <3>2 DEF ContractsOf
    <2> QED
        BY <2>1, <2>2
<1> QED
    BY <1>1, InvariantOfSpec, PTL DEF Spec, EndedRequestsRest

-----------------------------------------------------------------------------
(* The allocation *)

\* While the contracts stay, so does what they allocate.
LEMMA SameUnits ==
    ASSUME UNCHANGED contracts, NEW p
    PROVE  /\ Units(p)' = Units(p) /\ ContractsOf(p)' = ContractsOf(p)
           /\ Allocated(p)' = Allocated(p)
BY DEF Units, ContractsOf, Allocated

\* What a contract takes: as many units as its quantity.
LEMMA UnitsOfOne ==
    ASSUME NEW x, NEW n \in Nat
    PROVE  IsFiniteSet({x} \X (1 .. n)) /\ Cardinality({x} \X (1 .. n)) = n
<1>1. IsFiniteSet(1 .. n) /\ Cardinality(1 .. n) = n
    BY FS_Interval
<1>2. IsFiniteSet({x}) /\ Cardinality({x}) = 1
    BY FS_Singleton
<1>3. /\ IsFiniteSet({x} \X (1 .. n))
      /\ Cardinality({x} \X (1 .. n)) = Cardinality({x}) * Cardinality(1 .. n)
    BY <1>1, <1>2, FS_Product
<1> QED
    BY <1>1, <1>2, <1>3

\* A call that does not move keeps what it allocates, while what it locked stays.
LEMMA OthersAllocate ==
    ASSUME NEW d \in Calls, NEW r, r = request[d], CallAllocates(d),
           UNCHANGED <<pc[d], request[d], pending[d]>>,
           pc[d] \in {"writing", "committing"} /\ r.type = "create-contract" =>
               Allocated(r.aggregate)' = Allocated(r.aggregate)
               /\ purchases'[r.aggregate] = purchases[r.aggregate],
           HasWritten(d) /\ IsContractChange(r) =>
               contracts'[r.aggregate] = contracts[r.aggregate],
           HasWritten(d) /\ IsPurchaseChange(r) =>
               purchases'[r.aggregate] = purchases[r.aggregate]
    PROVE  CallAllocates(d)'
<1>1. request'[d] = r /\ pc'[d] = pc[d] /\ pending'[d] = pending[d]
    OBVIOUS
<1>2. HasWritten(d)' <=> HasWritten(d)
    BY DEF HasWritten
<1>3. Allocated(request[d].aggregate)' = Allocated(r.aggregate)'
    BY <1>1 DEF Allocated, Units, ContractsOf
<1> QED
    BY <1>1, <1>2, <1>3 DEF CallAllocates, IsContractChange, IsPurchaseChange

\* A step of one call leaves the others where they are.
LEMMA OthersStay ==
    ASSUME TypeOK, NEW c \in Calls, ReceiveRequest(c) \/ Serve(c) \/ CrashCall(c),
           NEW d \in Calls \ {c}
    PROVE  UNCHANGED <<pc[d], request[d], pending[d]>>
<1> USE DEF TypeOK
<1>1. CASE ReceiveRequest(c)
    BY <1>1 DEF ReceiveRequest, Receive, contractVars
<1>2. CASE Check(c)
    BY <1>2 DEF Check, CheckThen, End, contractVars
<1>3. CASE Claim(c)
    BY <1>3 DEF Claim, ClaimNew, ClaimExisting, End, contractVars
<1>4. CASE Read(c)
    BY <1>4 DEF Read, Goto, GiveUp, Rollback, End
<1>5. CASE LockPurchase(c)
    BY <1>5 DEF LockPurchase, Goto, GiveUp, Rollback, End
<1>6. CASE Allocate(c)
    BY <1>6 DEF Allocate, Goto, GiveUp, Rollback, End
<1>7. CASE WritePurchase(c)
    BY <1>7 DEF WritePurchase, Written
<1>8. CASE WriteContract(c)
    BY <1>8 DEF WriteContract, Written
<1>9. CASE Update(c)
    BY <1>9 DEF Update, Written, Goto, GiveUp, Rollback, End
<1>10. CASE Reread(c)
    BY <1>10 DEF Reread, GiveUp, Rollback, End
<1>11. CASE Commit(c)
    BY <1>11 DEF Commit, CommitLedger, End
<1>12. CASE CrashCall(c)
    BY <1>12 DEF CrashCall, GiveUp, Rollback, End
<1> QED
    BY <1>1, <1>2, <1>3, <1>4, <1>5, <1>6, <1>7, <1>8, <1>9, <1>10, <1>11, <1>12
    DEF Serve, Write

\* A call at another stage than writing and committing allocates nothing.
LEMMA IdleAllocates ==
    ASSUME NEW c \in Calls, pc'[c] \notin {"writing", "committing"}
    PROVE  CallAllocates(c)'
BY DEF CallAllocates, HasWritten

\* A step of a call before its COMMIT: what it draws fits when it goes on to
\* write, and it writes what it asked for.
LEMMA MoverAllocates ==
    ASSUME IInv, AllocInv, NEW c \in Calls, ReceiveRequest(c) \/ Serve(c) \/ CrashCall(c),
           ~Commit(c), UNCHANGED <<purchases, contracts>>
    PROVE  CallAllocates(c)'
<1> USE DEF IInv
<1>1. CASE ReceiveRequest(c)
    BY <1>1, IdleAllocates DEF ReceiveRequest, Receive, TypeOK
<1>2. CASE Check(c)
    BY <1>2, IdleAllocates DEF Check, CheckThen, End, TypeOK
<1>3. CASE Claim(c)
    <2>1. pc'[c] = "writing" => request[c].type = "create-purchase-request"
        BY <1>3 DEF Claim, ClaimNew, ClaimExisting, End, TypeOK
    <2>2. (pc'[c] # "committing" /\ request'[c] = request[c]) \/ pc'[c] = "idle"
        BY <1>3 DEF Claim, ClaimNew, ClaimExisting, End, TypeOK
    <2> QED
        BY <2>1, <2>2, IdleAllocates DEF CallAllocates, HasWritten
<1>4. CASE Read(c)
    <2>1. GiveUp(c) \/ Goto(c, "writing", Row(request[c]))
        BY <1>4 DEF Read
    <2>2. pc'[c] = "idle" \/ (pc'[c] = "writing" /\ request'[c] = request[c])
        BY <2>1 DEF Goto, GiveUp, Rollback, End, TypeOK
    <2> QED
        BY <1>4, <2>2, IdleAllocates DEF CallAllocates, HasWritten, Read
<1>5. CASE LockPurchase(c)
    BY <1>5, IdleAllocates DEF LockPurchase, Goto, GiveUp, Rollback, End, TypeOK
<1>6. CASE Allocate(c)
    <2> PICK r : r = request[c]
        OBVIOUS
    <2>1. \/ pc'[c] = "idle"
          \/ /\ pc'[c] = "writing" /\ request'[c] = r
             /\ Allocated(r.aggregate) + r.quantity <= entity[c].needed
        BY <1>6 DEF Allocate, Goto, GiveUp, Rollback, End, TypeOK
    <2>2. pc[c] = "summing" /\ r.type = "create-contract"
        BY <1>6 DEF Allocate, CallHolds, CallMatches
    <2>3. purchases[r.aggregate] = entity[c]
        BY <2>2 DEF CallHolds, ReadMatches, Drawing
    <2>4. Allocated(r.aggregate)' = Allocated(r.aggregate)
        BY SameUnits
    <2>5. CASE pc'[c] = "writing" /\ request'[c] = r
        <3>1. Allocated(request[c].aggregate)' = Allocated(r.aggregate)'
            BY <2>5 DEF Allocated, Units, ContractsOf
        <3> QED
            BY <2>1, <2>3, <2>4, <2>5, <3>1 DEF CallAllocates, HasWritten
    <2> QED
        BY <2>1, <2>5, IdleAllocates
<1>7. CASE WritePurchase(c)
    <2> PICK p, new : /\ Written(c, p, new)
                      /\ pc[c] = "writing" /\ request[c].type = "create-purchase-request"
        BY <1>7 DEF WritePurchase
    <2> QED
        BY DEF Written, CallAllocates, HasWritten, IsContractChange, IsPurchaseChange
<1>8. CASE WriteContract(c)
    <2> PICK r : r = request[c]
        OBVIOUS
    <2> DEFINE new == [status |-> "draft", version |-> 1, buyer |-> r.actor,
                       seller |-> r.seller, purchase |-> r.aggregate,
                       quantity |-> r.quantity, signed |-> {}]
    <2>1. PICK x \in ContractIds : Written(c, x, new)
        BY <1>8 DEF WriteContract
    <2>2. pc[c] = "writing" /\ r.type = "create-contract" /\ new.quantity = r.quantity
        BY <1>8 DEF WriteContract
    <2> HIDE DEF new
    <2>3. pc'[c] = "committing" /\ pending'[c] = new /\ request'[c] = r
        BY <2>1 DEF Written, TypeOK
    <2>4. Allocated(r.aggregate) + r.quantity <= purchases[r.aggregate].needed
        BY <2>2 DEF AllocInv, CallAllocates
    <2>5. Allocated(request[c].aggregate)' = Allocated(r.aggregate)
        <3>1. Allocated(request[c].aggregate)' = Allocated(r.aggregate)'
            BY <2>3 DEF Allocated, Units, ContractsOf
        <3> QED
            BY <3>1, SameUnits
    <2> QED
        BY <2>2, <2>3, <2>4, <2>5
        DEF CallAllocates, IsContractChange, IsPurchaseChange
<1>9. CASE Update(c)
    <2> PICK r : r = request[c]
        OBVIOUS
    <2>1. /\ pc[c] = "writing" /\ r.type # "create-contract" /\ r \in Requests
          /\ IsPurchaseChange(r) \/ IsContractChange(r)
        BY <1>9 DEF Update, CallHolds, CallMatches, IsPurchaseChange, IsContractChange
    <2>2. CASE pc'[c] \notin {"writing", "committing"}
        BY <2>2, IdleAllocates
    <2>3. CASE pc'[c] \in {"writing", "committing"}
        <3>1. UpdateMatches(c) /\ Written(c, r.aggregate, Changed(Row(r), entity[c], r))
            BY <1>9, <2>3 DEF Update, Goto, GiveUp, Rollback, End, TypeOK
        <3> PICK old : old = Row(r)
            OBVIOUS
        <3> PICK new : new = Changed(old, entity[c], r)
            OBVIOUS
        <3>2. pending'[c] = new /\ request'[c] = r
            BY <3>1 DEF Written, TypeOK
        <3>3. CASE IsPurchaseChange(r)
            <4>1. r.aggregate \in PurchaseRequests /\ old = purchases[r.aggregate] /\ old # NULL
                BY <2>1, <3>3, RequestFields DEF Row, CallHolds, ReadMatches
            <4>2. old \in PurchaseRows
                BY <4>1, RowVersions
            <4>3. new = [old EXCEPT !.status = r.to, !.version = @ + 1]
                BY <3>3 DEF Changed, IsPurchaseChange
            <4>4. new.needed = old.needed
                BY <4>2, <4>3 DEF PurchaseRows
            <4>5. r.type \notin {"create-contract", "sign-contract", "transition-contract"}
                BY <3>3 DEF IsPurchaseChange
            <4> QED
                BY <3>2, <4>1, <4>4, <4>5 DEF CallAllocates, IsContractChange
        <3>4. CASE IsContractChange(r)
            <4>1. r.aggregate \in ContractIds /\ old = contracts[r.aggregate] /\ old # NULL
                BY <2>1, <3>4, RequestFields DEF Row, CallHolds, ReadMatches
            <4>2. old \in ContractRows
                BY <4>1, RowVersions
            <4>3. new.quantity = old.quantity
                BY <4>2 DEF Changed, ContractRows
            <4>4. r.type \notin {"create-contract", "close-purchase-request",
                                 "cancel-purchase-request"}
                BY <3>4 DEF IsContractChange
            <4> QED
                BY <3>2, <4>1, <4>3, <4>4 DEF CallAllocates, IsPurchaseChange
        <3> QED
            BY <2>1, <3>3, <3>4
    <2> QED
        BY <2>2, <2>3
<1>10. CASE Reread(c)
    <2>1. pc[c] = "rereading" /\ request[c].type = "sign-contract" /\ pending[c] = NULL
        BY <1>10 DEF Reread, CallHolds, CallMatches
    <2>2. pc'[c] = "idle" \/ (request'[c] = request[c] /\ pending'[c] = NULL)
        BY <1>10, <2>1 DEF Reread, GiveUp, Rollback, End, TypeOK
    <2> QED
        BY <2>1, <2>2, IdleAllocates DEF CallAllocates, HasWritten
<1>11. CASE CrashCall(c)
    BY <1>11, IdleAllocates DEF CrashCall, GiveUp, Rollback, End, TypeOK
<1> QED
    BY <1>1, <1>2, <1>3, <1>4, <1>5, <1>6, <1>7, <1>8, <1>9, <1>10, <1>11 DEF Serve, Write

\* A COMMIT of anything but a contract drawn leaves the allocations alone: a
\* changed contract keeps its request and its quantity.
LEMMA CommitKeepsUnits ==
    ASSUME IInv, AllocInv, NEW c \in Calls, Commit(c),
           NEW k \in OpKeys, NEW a \in Aggregates, CommitsTo(c, k, a),
           NEW p \in PurchaseRequests,
           request[c].type = "create-contract" => request[c].aggregate # p
    PROVE  /\ Units(p)' = Units(p) /\ ContractsOf(p)' = ContractsOf(p)
           /\ Allocated(p)' = Allocated(p)
<1> USE DEF IInv
<1>1. ASSUME NEW x \in ContractIds
      PROVE  /\ (contracts'[x] # NULL /\ contracts'[x].purchase = p)
                    <=> (contracts[x] # NULL /\ contracts[x].purchase = p)
             /\ contracts[x] # NULL /\ contracts[x].purchase = p =>
                    contracts'[x].quantity = contracts[x].quantity
    <2>1. CASE ~(pending[c] # NULL /\ x = a)
        BY <2>1 DEF CommitsTo
    <2>2. CASE pending[c] # NULL /\ x = a /\ request[c].type = "create-contract"
        <3>1. /\ contracts[x] = NULL /\ contracts'[x] = pending[c]
              /\ pending[c].purchase = request[c].aggregate
            BY <2>2, RequestFields, Kinds DEF CommitsTo, DrawnWritten, FoundSigned
        <3> QED
            BY <2>2, <3>1
    <2>3. CASE pending[c] # NULL /\ x = a /\ request[c].type # "create-contract"
        <3>1. IsContractChange(request[c]) /\ ChangeWritten(c) /\ contracts'[x] = pending[c]
              /\ x = Target(c)
            BY <2>3, Kinds DEF CommitsTo
        <3>2. pc[c] = "committing" /\ Target(c) = request[c].aggregate /\ HasWritten(c)
            BY <2>3, <3>1 DEF Commit, CommitLedger, CallHolds, CallMatches, HasWritten
        <3>3. pending[c].quantity = contracts[x].quantity
            BY <3>1, <3>2 DEF AllocInv, CallAllocates
        <3> QED
            BY <3>1, <3>3 DEF ChangeWritten
    <2> QED
        BY <2>1, <2>2, <2>3
<1>2. ContractsOf(p)' = ContractsOf(p)
    BY <1>1 DEF ContractsOf
<1>3. \A x \in ContractsOf(p) : contracts'[x].quantity = contracts[x].quantity
    BY <1>1 DEF ContractsOf
<1>4. Units(p)' = Units(p)
    BY <1>2, <1>3 DEF Units
<1> QED
    BY <1>2, <1>4 DEF Allocated

\* The COMMIT of a contract adds its units to those of its request.
LEMMA CommitDraws ==
    ASSUME IInv, AllocInv, NEW c \in Calls, Commit(c),
           NEW k \in OpKeys, NEW a \in Aggregates, CommitsTo(c, k, a),
           NEW p \in PurchaseRequests,
           request[c].type = "create-contract", request[c].aggregate = p
    PROVE  /\ IsFiniteSet(Units(p)') /\ purchases'[p] = purchases[p] /\ purchases[p] # NULL
           /\ Allocated(p)' <= purchases[p].needed
<1> USE DEF IInv
<1> PICK r \in Requests : r = request[c]
    BY DEF CommitsTo
<1>1. /\ pc[c] = "committing" /\ r.type = "create-contract" /\ r.aggregate = p
      /\ r.quantity \in Nat
    BY RequestFields DEF Commit, CommitLedger
<1>2. pending[c] # NULL /\ DrawnWritten(c) /\ a \in ContractIds /\ a = Target(c)
    BY <1>1, Kinds DEF CommitsTo, FoundSigned
<1> PICK row : row = pending[c]
    OBVIOUS
<1>3. /\ row # NULL /\ contracts[a] = NULL /\ row.purchase = p
      /\ row.quantity = r.quantity
      /\ Allocated(p) + r.quantity <= purchases[p].needed
    BY <1>1, <1>2 DEF DrawnWritten, AllocInv, CallAllocates, HasWritten
<1>4. /\ purchases'[p] = purchases[p] /\ purchases[p] # NULL
      /\ purchases[p].needed \in Nat
    <2>1. purchases[p] = entity[c] /\ entity[c] \in PurchaseRows
        BY <1>1 DEF CallHolds, ReadMatches, Drawing
    <2>2. p # a
        BY <1>2
    <2> QED
        BY <2>1, <2>2 DEF CommitsTo, PurchaseRows
<1>5. \A x \in ContractIds : contracts'[x] = IF x = a THEN row ELSE contracts[x]
    BY <1>2 DEF CommitsTo
<1> DEFINE new == {a} \X (1 .. r.quantity)
<1>6. ContractsOf(p)' = ContractsOf(p) \cup {a} /\ a \notin ContractsOf(p)
    BY <1>2, <1>3, <1>5 DEF ContractsOf
<1>7. Units(p)' = Units(p) \cup new
    <2> DEFINE Taken(x) == {x} \X (1 .. contracts'[x].quantity)
               old == ContractsOf(p)
               all == ContractsOf(p)'
    <2>1. /\ \A x \in old : contracts'[x] = contracts[x]
          /\ contracts'[a] = row /\ all = old \cup {a}
        BY <1>2, <1>5, <1>6 DEF ContractsOf
    <2>2. Units(p) = UNION {Taken(x) : x \in old}
        BY <2>1 DEF Units
    <2>3. Units(p)' = UNION {Taken(x) : x \in all}
        BY DEF Units
    <2>4. Taken(a) = new
        BY <1>3, <2>1
    <2> HIDE DEF Taken, old, all, new
    <2>5. \A u : u \in Units(p) <=> \E x \in old : u \in Taken(x)
        BY <2>2
    <2>6. \A u : u \in Units(p)' <=> \E x \in all : u \in Taken(x)
        BY <2>3
    <2>7. \A u : u \in Units(p)' <=> u \in Units(p) \cup new
        BY <2>1, <2>4, <2>5, <2>6
    <2> QED
        BY <2>7
<1>8. Units(p) \cap new = {}
    BY <1>6 DEF Units
<1>9. IsFiniteSet(Units(p)) /\ Cardinality(Units(p)) \in Nat
    BY FS_CardinalityType DEF AllocInv, DrawnFromRows
<1>10. IsFiniteSet(new) /\ Cardinality(new) = r.quantity
    BY <1>1, UnitsOfOne
<1> HIDE DEF new
<1>11. /\ IsFiniteSet(Units(p) \cup new)
       /\ Cardinality(Units(p) \cup new) = Cardinality(Units(p)) + r.quantity
    <2>1. /\ IsFiniteSet(Units(p) \cup new)
          /\ Cardinality(Units(p) \cup new) =
               Cardinality(Units(p)) + Cardinality(new) - Cardinality(Units(p) \cap new)
        BY <1>9, <1>10, FS_Union
    <2>2. Cardinality(Units(p) \cap new) = 0
        BY <1>8, FS_EmptySet
    <2> QED
        BY <1>1, <1>9, <1>10, <2>1, <2>2
<1>12. Allocated(p)' = Allocated(p) + r.quantity
    <2>1. Allocated(p)' = Cardinality(Units(p)')
        BY DEF Allocated
    <2> QED
        BY <1>7, <1>11, <2>1 DEF Allocated
<1>13. IsFiniteSet(Units(p)')
    BY <1>7, <1>11
<1> QED
    BY <1>3, <1>4, <1>12, <1>13

\* The other transactions that draw from a request, or write a row, hold its lock.
LEMMA CommitLeavesOthers ==
    ASSUME IInv, AllocInv, NEW c \in Calls, Commit(c), NEW d \in Calls \ {c}
    PROVE  CallAllocates(d)'
<1> USE DEF IInv
<1> PICK k \in OpKeys, a \in Aggregates : CommitsTo(c, k, a)
    BY CommitEffect
<1> PICK r : r = request[d]
    OBVIOUS
<1>1. UNCHANGED <<pc[d], request[d], pending[d]>>
    BY OthersStay DEF Serve
<1>2. pc[d] # "idle" => r \in Requests
    BY DEF CallHolds, CallMatches
<1>3. \A b \in Aggregates : lock[b] = d =>
          /\ b \in PurchaseRequests => purchases'[b] = purchases[b]
          /\ b \in ContractIds => contracts'[b] = contracts[b]
    BY DEF CommitsTo
<1>4. HasWritten(d) /\ (IsPurchaseChange(r) \/ IsContractChange(r)) =>
          lock[r.aggregate] = d
    BY DEF CallHolds, CallMatches, LocksMatch, HasWritten
<1>5. HasWritten(d) /\ IsContractChange(r) => contracts'[r.aggregate] = contracts[r.aggregate]
    BY <1>2, <1>3, <1>4, RequestFields DEF HasWritten
<1>6. HasWritten(d) /\ IsPurchaseChange(r) => purchases'[r.aggregate] = purchases[r.aggregate]
    BY <1>2, <1>3, <1>4, RequestFields DEF HasWritten
<1>7. ASSUME pc[d] \in {"writing", "committing"}, r.type = "create-contract"
      PROVE  /\ Allocated(r.aggregate)' = Allocated(r.aggregate)
             /\ purchases'[r.aggregate] = purchases[r.aggregate]
    <2>1. r.aggregate \in PurchaseRequests /\ lock[r.aggregate] = d
        BY <1>2, <1>7, RequestFields DEF CallHolds, LocksMatch, Drawing
    <2>2. request[c].type = "create-contract" => lock[request[c].aggregate] = c
        BY DEF Commit, CommitLedger, CallHolds, LocksMatch, Drawing
    <2>3. Allocated(r.aggregate)' = Allocated(r.aggregate)
        BY <2>1, <2>2, CommitKeepsUnits
    <2> QED
        BY <1>3, <2>1, <2>3
<1> QED
    BY <1>1, <1>5, <1>6, <1>7, OthersAllocate DEF AllocInv

\* After a COMMIT every request has enough for what is drawn from it.
LEMMA CommitFits ==
    ASSUME IInv, AllocInv, NEW c \in Calls, Commit(c), NEW p \in PurchaseRequests
    PROVE  /\ IsFiniteSet(Units(p)')
           /\ purchases'[p] = NULL => ContractsOf(p)' = {}
           /\ purchases'[p] # NULL => Allocated(p)' <= purchases'[p].needed
<1> USE DEF IInv
<1> PICK k \in OpKeys, a \in Aggregates : CommitsTo(c, k, a)
    BY CommitEffect
<1> PICK r \in Requests : r = request[c]
    BY DEF CommitsTo
<1>1. CASE r.type = "create-contract" /\ r.aggregate = p
    BY <1>1, CommitDraws
<1>2. CASE ~(r.type = "create-contract" /\ r.aggregate = p)
    <2>1. /\ Units(p)' = Units(p) /\ ContractsOf(p)' = ContractsOf(p)
          /\ Allocated(p)' = Allocated(p)
        BY <1>2, CommitKeepsUnits
    <2>2. /\ IsFiniteSet(Units(p)) /\ (purchases[p] = NULL => ContractsOf(p) = {})
          /\ purchases[p] # NULL => Allocated(p) <= purchases[p].needed
        BY DEF AllocInv, DrawnFromRows, AllocationWithinNeed
    <2>3. CASE purchases'[p] = purchases[p]
        BY <2>1, <2>2, <2>3
    <2>4. CASE purchases'[p] # purchases[p]
        <3>1. /\ pending[c] # NULL /\ p = a /\ a = Target(c) /\ purchases'[p] = pending[c]
              /\ PurchaseWritten(c)
              /\ r.type = "create-purchase-request" \/ IsPurchaseChange(r)
            BY <2>4 DEF CommitsTo
        <3>2. CASE r.type = "create-purchase-request"
            <4>1. purchases[p] = NULL /\ purchases'[p] \in PurchaseRows
                BY <3>1, <3>2 DEF PurchaseWritten
            <4>2. Units(p) = {}
                BY <2>2, <4>1 DEF Units
            <4>3. Allocated(p) = 0
                BY <4>2, FS_EmptySet DEF Allocated
            <4>4. purchases'[p].needed \in Nat
                BY <4>1 DEF PurchaseRows
            <4> QED
                BY <2>1, <2>2, <4>1, <4>3, <4>4
        <3>3. CASE IsPurchaseChange(r)
            <4>1. HasWritten(c) /\ Target(c) = r.aggregate
                BY <3>1, <3>3 DEF Commit, CommitLedger, HasWritten, CallHolds, CallMatches
            <4>2. pending[c].needed = purchases[p].needed
                BY <3>1, <3>3, <4>1 DEF AllocInv, CallAllocates
            <4>3. purchases[p] # NULL /\ pending[c] # NULL
                BY <3>1, <3>3 DEF PurchaseWritten
            <4> QED
                BY <2>1, <2>2, <3>1, <4>2, <4>3
        <3> QED
            BY <3>1, <3>2, <3>3
    <2> QED
        BY <2>3, <2>4
<1> QED
    BY <1>1, <1>2

LEMMA InitAllocInv == Init => AllocInv
<1> SUFFICES ASSUME Init PROVE AllocInv
    OBVIOUS
<1> USE DEF Init, LedgerInit
<1>1. ASSUME NEW c \in Calls PROVE CallAllocates(c)
    BY DEF CallAllocates, HasWritten
<1>2. ASSUME NEW p \in PurchaseRequests PROVE Units(p) = {} /\ ContractsOf(p) = {}
    BY DEF Units, ContractsOf
<1>3. DrawnFromRows
    BY <1>2, FS_EmptySet DEF DrawnFromRows
<1> QED
    BY <1>1, <1>3 DEF AllocInv, AllocationWithinNeed

LEMMA NextAllocInv == IInv /\ AllocInv /\ [Next]_vars => AllocInv'
<1> SUFFICES ASSUME IInv, AllocInv, [Next]_vars PROVE AllocInv'
    OBVIOUS
<1>1. ASSUME NEW c \in Calls, Commit(c) PROVE AllocInv'
    <2>1. ASSUME NEW p \in PurchaseRequests
          PROVE  /\ IsFiniteSet(Units(p)')
                 /\ purchases'[p] = NULL => ContractsOf(p)' = {}
                 /\ purchases'[p] # NULL => Allocated(p)' <= purchases'[p].needed
        BY <1>1, CommitFits
    <2>2. pc'[c] = "idle"
        BY <1>1 DEF Commit, CommitLedger, End, IInv, TypeOK
    <2>3. CallAllocates(c)'
        BY <2>2, IdleAllocates
    <2>4. \A d \in Calls : CallAllocates(d)'
        BY <1>1, <2>3, CommitLeavesOthers
    <2> QED
        BY <2>1, <2>4 DEF AllocInv, DrawnFromRows, AllocationWithinNeed
<1>2. ASSUME \A c \in Calls : ~Commit(c) PROVE AllocInv'
    <2>1. UNCHANGED <<purchases, contracts>>
        BY <1>2, OtherStepsKeep
    <2>2. ASSUME NEW p \in PurchaseRequests
          PROVE  /\ Units(p)' = Units(p) /\ ContractsOf(p)' = ContractsOf(p)
                 /\ Allocated(p)' = Allocated(p)
        BY <2>1, SameUnits
    <2>3. DrawnFromRows'
        BY <2>1, <2>2 DEF AllocInv, DrawnFromRows
    <2>4. AllocationWithinNeed'
        BY <2>1, <2>2 DEF AllocInv, AllocationWithinNeed
    <2>5. ASSUME NEW d \in Calls, UNCHANGED <<pc[d], request[d], pending[d]>>
          PROVE  CallAllocates(d)'
        <3> PICK r : r = request[d]
            OBVIOUS
        <3>1. Allocated(r.aggregate)' = Allocated(r.aggregate)
            BY <2>1, SameUnits
        <3>2. CallAllocates(d)
            BY DEF AllocInv
        <3> QED
            BY <2>1, <2>5, <3>1, <3>2, OthersAllocate
    <2>6. ASSUME NEW d \in Calls PROVE CallAllocates(d)'
        <3>1. CASE UNCHANGED vars
            BY <2>5, <3>1 DEF vars, ledgerVars, contractVars
        <3>2. CASE Next
            <4> PICK c \in Calls : ReceiveRequest(c) \/ Serve(c) \/ CrashCall(c)
                BY <3>2 DEF Next
            <4>1. CASE d = c
                BY <1>2, <2>1, <4>1, MoverAllocates
            <4>2. CASE d # c
                <5>1. UNCHANGED <<pc[d], request[d], pending[d]>>
                    BY <4>2, OthersStay DEF IInv
                <5> QED
                    BY <2>5, <5>1
            <4> QED
                BY <4>1, <4>2
        <3> QED
            BY <3>1, <3>2
    <2> QED
        BY <2>3, <2>4, <2>6 DEF AllocInv
<1> QED
    BY <1>1, <1>2

\* The allocation in every reachable state: what is being drawn fits as well.
THEOREM AllocationInvariant == Spec => [](IInv /\ AllocInv)
<1>1. IInv /\ AllocInv /\ [Next]_vars => (IInv /\ AllocInv)'
    BY NextIInv, NextAllocInv
<1> QED
    BY <1>1, InitIInv, InitAllocInv, PTL DEF Spec

\* D07: what is drawn from a purchase request stays within what it needs, however
\* many contracts are drawn from it at once: the sum is read under its lock, and
\* the lock is held until the contract is committed.
THEOREM AllocationIsBounded == Spec => []AllocationWithinNeed
<1>1. IInv /\ AllocInv => AllocationWithinNeed
    BY DEF AllocInv
<1> QED
    BY <1>1, AllocationInvariant, PTL
=============================================================================
