-------------------------------- MODULE Orders --------------------------------
(***************************************************************************)
(* Orders: CreateOrder and TransitionOrderStatus, from the use case's checks *)
(* to the COMMIT, with the status history written beside each change.  The  *)
(* product an order buys belongs to another module: its price may change    *)
(* between any two statements of a call.                                    *)
(***************************************************************************)
EXTENDS CommerceLedger, Sequences, FiniteSets

CONSTANTS
    RoleOf,     \* role of each actor: "BUYER", "SELLER", "LOGISTICS" or "ADMIN"
    Seller,     \* the seller of the product
    Prices,     \* unit prices the product may have
    Targets,    \* toStatus values a request may carry
    Versions    \* expectedVersion values a request may carry

OrderStatus == {"pending", "confirmed", "preparing", "handed_to_logistics",
                "shipping", "delivered", "cancelled"}

ASSUME OrdersAssumption ==
    /\ OperationTypes = {"create-order", "transition-order"}
    /\ RoleOf \in [Actors -> {"BUYER", "SELLER", "LOGISTICS", "ADMIN"}]
    /\ Prices \subseteq Nat
    /\ Targets \subseteq OrderStatus
    /\ Versions \subseteq Nat \ {0}
    /\ NULL \notin Prices

VARIABLES
    price,     \* what findCommerceProduct reads: NULL while it is not active
    orders,    \* committed row of each order
    history,   \* committed order_status_history rows of each order, oldest first
    entity,    \* the row each transaction read
    pending    \* the row each transaction wrote and has not committed

orderVars == <<orders, history, entity, pending>>
vars == <<ledgerVars, price, orderVars>>

NoOrder == [status |-> "none", version |-> 0, buyer |-> NULL, total |-> 0]
OrderRows == {NoOrder} \cup
    [status : OrderStatus, version : Nat, buyer : Actors, total : Prices]
HistoryRows ==
    [from : OrderStatus \cup {"none"}, to : OrderStatus, by : Actors, key : IdempotencyKeys]

\* A creation names no order and no version yet; its price is read by the check
\* and is part of its fingerprint.
CreateRequests ==
    [actor : Actors, type : {"create-order"}, key : IdempotencyKeys,
     aggregate : {NULL}, version : {0}, to : {"pending"}, price : {NULL} \cup Prices]
TransitionRequests ==
    [actor : Actors, type : {"transition-order"}, key : IdempotencyKeys,
     aggregate : Aggregates, version : Versions, to : Targets, price : {NULL}]
Requests == CreateRequests \cup TransitionRequests

Init ==
    /\ LedgerInit
    /\ price \in Prices
    /\ orders = [o \in Aggregates |-> NoOrder]
    /\ history = [o \in Aggregates |-> <<>>]
    /\ entity = [c \in Calls |-> NoOrder]
    /\ pending = [c \in Calls |-> NoOrder]

-----------------------------------------------------------------------------
(* The order state machine *)

Successors ==
    [pending |-> {"confirmed", "cancelled"},
     confirmed |-> {"preparing", "cancelled"},
     preparing |-> {"handed_to_logistics", "cancelled"},
     handed_to_logistics |-> {"shipping"},
     shipping |-> {"delivered"},
     delivered |-> {},
     cancelled |-> {}]

CancellableBySeller == {"pending", "confirmed", "preparing"}

MayTransition(role, from, to) ==
    \/ role = "ADMIN"
    \/ role = "BUYER" /\ from = "pending" /\ to = "cancelled"
    \/ role = "SELLER" /\ to \in {"confirmed", "preparing", "handed_to_logistics"}
    \/ role = "SELLER" /\ from \in CancellableBySeller /\ to = "cancelled"
    \/ role = "LOGISTICS" /\ to \in {"shipping", "delivered"}

Owns(actor, o) ==
    /\ RoleOf[actor] = "BUYER" => o.buyer = actor
    /\ RoleOf[actor] = "SELLER" => Seller = actor

\* What is required of a row read, by the use case and again by the transaction.
Accepts(o, r) ==
    /\ o # NoOrder
    /\ Owns(r.actor, o)
    /\ r.to \in Successors[o.status]
    /\ MayTransition(RoleOf[r.actor], o.status, r.to)

-----------------------------------------------------------------------------
(* One action per stage of a call *)

ReceiveRequest(c) ==
    /\ \E r \in Requests : r.price = NULL /\ Receive(c, r)
    /\ UNCHANGED <<price, orderVars>>

\* The price becomes part of the fingerprint, and of the order if there is one.
CheckCreate(c) ==
    LET r == request[c]
        passes == RoleOf[r.actor] = "BUYER" /\ price # NULL
    IN
    /\ pc[c] = "checking"
    /\ r.type = "create-order"
    /\ \/ /\ passes
          /\ pc' = [pc EXCEPT ![c] = "claiming"]
          /\ request' = [request EXCEPT ![c].price = price]
       \/ ~passes /\ End(c)
    /\ UNCHANGED <<ledger, lock, price, orderVars>>

CheckTransition(c) ==
    /\ request[c] # NULL /\ request[c].type = "transition-order"
    /\ CheckThen(c, Accepts(orders[request[c].aggregate], request[c]))
    /\ UNCHANGED <<price, orderVars>>

Claim(c) ==
    /\ \/ ClaimNew(c, IF request[c].type = "create-order" THEN "writing" ELSE "reading")
       \/ ClaimExisting(c)
    /\ UNCHANGED <<price, orderVars>>

Read(c) ==
    LET o == orders[request[c].aggregate] IN
    /\ pc[c] = "reading"
    /\ \/ /\ Accepts(o, request[c])
          /\ entity' = [entity EXCEPT ![c] = o]
          /\ pc' = [pc EXCEPT ![c] = "writing"]
          /\ UNCHANGED <<ledger, request, lock>>
       \/ /\ ~Accepts(o, request[c])
          /\ Rollback(c)
          /\ UNCHANGED entity
    /\ UNCHANGED <<price, orders, history, pending>>

\* The row is written and not yet visible: row lock held, ledger row completed.
Written(c, o, row) ==
    /\ pending' = [pending EXCEPT ![c] = row]
    /\ lock' = [lock EXCEPT ![o] = c]
    /\ Complete(c, o)
    /\ pc' = [pc EXCEPT ![c] = "committing"]
    /\ UNCHANGED <<request, entity>>

\* Mutant of ChargedPrice: the product's price when the order is written.
CurrentPrice(c) == price

\* createOrder() is given the product the use case read.
ChargedPrice(c) == request[c].price

\* INSERT of an order, its items and its first history row under a new id.
\* Aggregates bounds the orders ever created: with none left the call waits.
WriteCreate(c) ==
    /\ pc[c] = "writing"
    /\ request[c].type = "create-order"
    /\ \E o \in Aggregates :
         /\ orders[o] = NoOrder
         /\ lock[o] = NULL
         /\ Written(c, o, [status |-> "pending", version |-> 1,
                           buyer |-> request[c].actor, total |-> ChargedPrice(c)])
    /\ UNCHANGED <<price, orders, history>>

\* Mutants of UpdateMatches: one half of the WHERE clause is missing.
UpdateMatchesVersion(c) == orders[request[c].aggregate].version = request[c].version
UpdateMatchesStatus(c) == orders[request[c].aggregate].status = entity[c].status

\* The UPDATE finds the version the client expects and the status that was read.
UpdateMatches(c) ==
    LET o == orders[request[c].aggregate] IN
    o.version = request[c].version /\ o.status = entity[c].status

\* The UPDATE sets the status, and adds one to the version that is stored.
Transitioned(o, to) ==
    [status |-> to, version |-> o.version + 1, buyer |-> o.buyer, total |-> o.total]

\* UNIQUE (order_id, operation_key) of the history.
KeyUnused(c) ==
    \A i \in DOMAIN history[request[c].aggregate] :
        history[request[c].aggregate][i].key # request[c].key

\* The UPDATE waits for the open transaction that wrote a matching row; no match,
\* or a key the order's history has already, rolls back.
WriteTransition(c) ==
    LET o == request[c].aggregate IN
    /\ pc[c] = "writing"
    /\ request[c].type = "transition-order"
    /\ \/ /\ UpdateMatches(c) /\ KeyUnused(c)
          /\ lock[o] = NULL
          /\ Written(c, o, Transitioned(orders[o], request[c].to))
       \/ /\ ~(UpdateMatches(c) /\ KeyUnused(c))
          /\ Rollback(c)
          /\ entity' = [entity EXCEPT ![c] = NoOrder]
          /\ UNCHANGED pending
    /\ UNCHANGED <<price, orders, history>>

\* The history row of call c's transaction.
Entry(c) ==
    [from |-> entity[c].status, to |-> request[c].to,
     by |-> request[c].actor, key |-> request[c].key]

Commit(c) ==
    /\ CommitLedger(c)
    /\ orders' = [o \in Aggregates |-> IF lock[o] = c THEN pending[c] ELSE orders[o]]
    /\ history' = [o \in Aggregates |->
           IF lock[o] = c THEN Append(history[o], Entry(c)) ELSE history[o]]
    /\ entity' = [entity EXCEPT ![c] = NoOrder]
    /\ pending' = [pending EXCEPT ![c] = NoOrder]
    /\ UNCHANGED price

CrashCall(c) ==
    /\ Crash(c)
    /\ entity' = [entity EXCEPT ![c] = NoOrder]
    /\ pending' = [pending EXCEPT ![c] = NoOrder]
    /\ UNCHANGED <<price, orders, history>>

\* Products: the seller changes the price, or the product leaves or re-enters
\* the catalogue.
ChangeProduct ==
    /\ price' \in (Prices \cup {NULL}) \ {price}
    /\ UNCHANGED <<ledgerVars, orderVars>>

Serve(c) ==
    \/ CheckCreate(c) \/ CheckTransition(c) \/ Claim(c) \/ Read(c)
    \/ WriteCreate(c) \/ WriteTransition(c) \/ Commit(c)

Next ==
    \/ \E c \in Calls : ReceiveRequest(c) \/ Serve(c) \/ CrashCall(c)
    \/ ChangeProduct

Spec == Init /\ [][Next]_vars

-----------------------------------------------------------------------------
(* Properties *)

\* Every variable has its type.
TypeOK ==
    /\ ledger \in [OpKeys ->
           [status : {"absent", "started", "completed"},
            request : Requests \cup {NULL},
            owner : Calls \cup {NULL},
            result : Aggregates \cup {NULL}]]
    /\ pc \in [Calls -> Stages]
    /\ request \in [Calls -> Requests \cup {NULL}]
    /\ lock \in [Aggregates -> Calls \cup {NULL}]
    /\ price \in Prices \cup {NULL}
    /\ orders \in [Aggregates -> OrderRows]
    /\ history \in [Aggregates -> Seq(HistoryRows)]
    /\ entity \in [Calls -> OrderRows]
    /\ pending \in [Calls -> OrderRows]

\* The history of an order is the walk that led to its status: it starts with
\* the buyer's creation, every row continues from the last by a legal step of
\* the one who made it, and there is one row per version.
HistoryIsTheWalk ==
    \A o \in Aggregates :
        LET h == history[o]  row == orders[o] IN
        /\ Len(h) = row.version
        /\ h # <<>> =>
             /\ h[1].from = "none" /\ h[1].to = "pending" /\ h[1].by = row.buyer
             /\ h[Len(h)].to = row.status
        /\ \A i \in 2..Len(h) :
             /\ h[i].from = h[i - 1].to
             /\ h[i].to \in Successors[h[i].from]
             /\ MayTransition(RoleOf[h[i].by], h[i].from, h[i].to)
             /\ Owns(h[i].by, row)

CommittedOps == {k \in OpKeys : Committed(k)}

\* The operation a history row records: the first row is the creation's.
OperationOf(h, i) ==
    <<h[i].by, IF i = 1 THEN "create-order" ELSE "transition-order", h[i].key>>

\* "Every successful mutation appends one operation-keyed history record in the
\* same transaction": the history rows of an order and the committed ledger rows
\* whose result it is are the same operations, in crashes and rollbacks too.
HistoryMatchesLedger ==
    \A o \in Aggregates :
        {OperationOf(history[o], i) : i \in DOMAIN history[o]}
            = {k \in CommittedOps : ledger[k].result = o}

\* An order is charged the price its own request was fingerprinted with,
\* whatever the product costs when the order is written.
ChargedAsFingerprinted ==
    \A k \in CommittedOps :
        k[2] = "create-order" => orders[ledger[k].result].total = ledger[k].request.price

\* "delivered and cancelled are terminal": no interleaving of requests that were
\* accepted before the order ended changes it afterwards.
TerminalOrdersRest ==
    [][\A o \in Aggregates :
         orders[o].status \in {"delivered", "cancelled"} => orders'[o] = orders[o]]_vars

VersionColumn == [o \in Aggregates |-> orders[o].version]
AppliedOperations ==
    [k \in OpKeys |->
        IF Committed(k) THEN {<<ledger[k].result, ledger[k].request.version>>} ELSE {}]

Promise == INSTANCE VersionedAggregate WITH
    Operations <- OpKeys, version <- VersionColumn, applied <- AppliedOperations

\* Orders implement the promise of ADR 0008: operations apply at most once,
\* atomically, each to the version it named.
KeepsPromise == Promise!Spec

\* Phase 6 decision D06: "Scope: (actor_id, operation_type, idempotency_key)".
\* A transition that may claim its key is not refused for the use another actor,
\* or the creation, made of the same key on this order.
KeyScopeRespected ==
    \A c \in Calls :
        pc[c] = "writing" /\ request[c].type = "transition-order" /\ UpdateMatches(c)
            => KeyUnused(c)

-----------------------------------------------------------------------------
(* The inductive invariant behind the properties above *)

\* The order a committing call wrote.
Target(c) == ledger[OpKey(request[c])].result

\* An open transaction owns the ledger row of its key, with the order it wrote
\* once the write is done.
CallMatches(c) ==
    /\ pc[c] # "idle" => request[c] \in Requests
    /\ pc[c] = "reading" => request[c].type = "transition-order"
    /\ pc[c] \in {"claiming"} \cup InTransaction /\ request[c].type = "create-order"
         => request[c].price \in Prices
    /\ pc[c] \in InTransaction =>
         LET row == ledger[OpKey(request[c])] IN
         /\ row.owner = c
         /\ row.request = request[c]
         /\ row.status = IF pc[c] = "committing" THEN "completed" ELSE "started"
    /\ pc[c] = "committing" =>
         /\ Target(c) \in Aggregates
         /\ request[c].type = "transition-order" => Target(c) = request[c].aggregate

\* A row that is owned is its owner's only one; a committed row is complete.
RowMatches(k) ==
    /\ ledger[k].owner \in Calls =>
         /\ ledger[k].status # "absent"
         /\ pc[ledger[k].owner] \in InTransaction
         /\ OpKey(request[ledger[k].owner]) = k
    /\ Committed(k) =>
         /\ ledger[k].status = "completed"
         /\ ledger[k].result \in Aggregates
         /\ orders[ledger[k].result] # NoOrder

ClaimsMatchCalls ==
    /\ \A c \in Calls : CallMatches(c)
    /\ \A k \in OpKeys : RowMatches(k)

\* The lock of an order is held by the transaction that wrote it.
LocksMatchCalls ==
    /\ \A o \in Aggregates : lock[o] \in Calls =>
         pc[lock[o]] = "committing" /\ Target(lock[o]) = o
    /\ \A c \in Calls : pc[c] = "committing" => lock[Target(c)] = c

\* A transition goes on from a row it was allowed to change, of the same buyer as
\* the row that is there when it writes; a creation has read nothing.
ReadMatches(c) ==
    LET r == request[c]
        inHand == pc[c] \in {"writing", "committing"} /\ r.type = "transition-order"
    IN
    /\ inHand =>
         /\ Accepts(entity[c], r)
         /\ orders[r.aggregate] # NoOrder
         /\ entity[c].buyer = orders[r.aggregate].buyer
    /\ ~inHand => entity[c] = NoOrder

ReadsAccepted == \A c \in Calls : ReadMatches(c)

\* A written row is the first of its order, or the next version of the row the
\* request named, in the status that was read.
WrittenIsNext(c) ==
    LET r == request[c]  o == orders[Target(c)] IN
    /\ r.type = "create-order" =>
         /\ o = NoOrder
         /\ pending[c] = [status |-> "pending", version |-> 1,
                          buyer |-> r.actor, total |-> r.price]
    /\ r.type # "create-order" =>
         /\ o.status = entity[c].status
         /\ o.version = r.version
         /\ pending[c] = Transitioned(o, r.to)

WritesAreNext == \A c \in Calls : pc[c] = "committing" => WrittenIsNext(c)

RowsHaveVersions == \A o \in Aggregates : orders[o] # NoOrder => orders[o].version > 0

IInv ==
    /\ TypeOK
    /\ ClaimsMatchCalls
    /\ LocksMatchCalls
    /\ ReadsAccepted
    /\ WritesAreNext
    /\ RowsHaveVersions
=============================================================================
