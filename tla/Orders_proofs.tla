---------------------------- MODULE Orders_proofs ----------------------------
(***************************************************************************)
(* Proofs about Orders for every set of calls, actors, keys and orders.     *)
(***************************************************************************)
EXTENDS Orders, SequenceTheorems, TLAPS

\* What membership in Requests says of a request's fields.
LEMMA RequestFields ==
    ASSUME NEW r \in Requests
    PROVE  /\ OpKey(r) \in OpKeys
           /\ r.actor \in Actors
           /\ r.key \in IdempotencyKeys
           /\ r.to \in OrderStatus
           /\ r.version \in Nat
           /\ r.type \in {"create-order", "transition-order"}
           /\ r.type = "create-order" =>
                r \in CreateRequests /\ r.version = 0 /\ r.to = "pending"
           /\ r.type = "transition-order" => r.aggregate \in Aggregates
<1> USE OrdersAssumption
<1>1. CASE r \in CreateRequests
    <2>1. /\ r.actor \in Actors
          /\ r.type = "create-order"
          /\ r.key \in IdempotencyKeys
          /\ r.version = 0
          /\ r.to = "pending"
        BY <1>1 DEF CreateRequests
    <2>2. OpKey(r) \in OpKeys
        BY <2>1 DEF OpKey, OpKeys
    <2> QED
        BY <1>1, <2>1, <2>2 DEF OrderStatus
<1>2. CASE r \in TransitionRequests
    <2>1. /\ r.actor \in Actors
          /\ r.type = "transition-order"
          /\ r.key \in IdempotencyKeys
          /\ r.aggregate \in Aggregates
          /\ r.version \in Versions
          /\ r.to \in Targets
        BY <1>2 DEF TransitionRequests
    <2>2. OpKey(r) \in OpKeys
        BY <2>1 DEF OpKey, OpKeys
    <2> QED
        BY <2>1, <2>2
<1> QED
    BY <1>1, <1>2 DEF Requests

\* A creation stays a request when the check puts the product's price in it.
LEMMA PricedRequest ==
    ASSUME NEW r \in CreateRequests, NEW p \in Prices
    PROVE  /\ [r EXCEPT !.price = p] \in Requests
           /\ [r EXCEPT !.price = p].type = "create-order"
           /\ [r EXCEPT !.price = p].price = p
BY DEF CreateRequests, Requests

\* A row of the history, from its columns.
LEMMA HistoryRow ==
    ASSUME NEW from \in OrderStatus \cup {"none"}, NEW to \in OrderStatus,
           NEW by \in Actors, NEW key \in IdempotencyKeys
    PROVE  [from |-> from, to |-> to, by |-> by, key |-> key] \in HistoryRows
BY DEF HistoryRows

\* Rows that are orders, as opposed to none.
LEMMA OrderRow ==
    ASSUME NEW o \in OrderRows
    PROVE  /\ o.version \in Nat
           /\ o.status \in OrderStatus \cup {"none"}
           /\ o # NoOrder =>
                /\ o.status \in OrderStatus
                /\ o.buyer \in Actors
                /\ o.total \in Prices
                /\ o = [status |-> o.status, version |-> o.version,
                        buyer |-> o.buyer, total |-> o.total]
BY DEF OrderRows, NoOrder

\* A transition leaves an order, the next version of the row it found.
LEMMA NextRow ==
    ASSUME NEW o \in OrderRows, o # NoOrder, NEW s \in OrderStatus
    PROVE  LET row == Transitioned(o, s) IN
           /\ row \in OrderRows
           /\ row.status = s
           /\ row.version = o.version + 1
           /\ row.buyer = o.buyer
           /\ row.total = o.total
           /\ row # NoOrder
<1>1. /\ o.version \in Nat
      /\ o.buyer \in Actors
      /\ o.total \in Prices
    BY OrderRow
<1>2. s # "none"
    BY DEF OrderStatus
<1> QED
    BY <1>1, <1>2 DEF Transitioned, OrderRows, NoOrder

LEMMA NoOrderRow == NoOrder \in OrderRows
BY DEF OrderRows

\* A call whose stage, request and copy stay, as does the buyer of its order.
LEMMA SameReadMatches ==
    ASSUME NEW c \in Calls, ReadMatches(c),
           UNCHANGED <<pc[c], request[c], entity[c]>>,
           orders[request[c].aggregate] # NoOrder =>
              /\ orders'[request[c].aggregate] # NoOrder
              /\ orders'[request[c].aggregate].buyer = orders[request[c].aggregate].buyer
    PROVE  ReadMatches(c)'
BY DEF ReadMatches, Accepts, Owns, MayTransition

\* A call whose request and copies stay, as does the order it wrote.
LEMMA SameWrittenIsNext ==
    ASSUME NEW c \in Calls, WrittenIsNext(c), Target(c)' = Target(c),
           UNCHANGED <<request[c], entity[c], pending[c], orders[Target(c)]>>
    PROVE  WrittenIsNext(c)'
BY DEF WrittenIsNext, Transitioned

\* The invariant holds before the first request.
LEMMA InitIInv == Init => IInv
<1> SUFFICES ASSUME Init PROVE IInv
    OBVIOUS
<1> USE DEF Init, LedgerInit, NoRow
<1>1. TypeOK
    <2>1. <<>> \in Seq(HistoryRows)
        OBVIOUS
    <2> QED
        BY <2>1, NoOrderRow DEF TypeOK, Stages
<1>2. ClaimsMatchCalls
    BY NullAssumption DEF ClaimsMatchCalls, CallMatches, RowMatches, InTransaction, Committed
<1>3. LocksMatchCalls
    BY NullAssumption DEF LocksMatchCalls
<1>4. ReadsAccepted /\ WritesAreNext /\ RowsHaveVersions
    BY DEF ReadsAccepted, ReadMatches, WritesAreNext, RowsHaveVersions
<1> QED
    BY <1>1, <1>2, <1>3, <1>4 DEF IInv

\* A rollback, and what its caller does to the transaction's local copies,
\* preserves the invariant: it is the end of every failing stage and of a crash.
LEMMA RollbackIInv ==
    ASSUME IInv, NEW c \in Calls, Rollback(c),
           UNCHANGED <<price, orders, history>>,
           entity' = [entity EXCEPT ![c] = NoOrder],
           pending' \in {pending, [pending EXCEPT ![c] = NoOrder]}
    PROVE  IInv'
<1> USE DEF IInv, Rollback, End
<1>1. TypeOK'
    <2>1. ledger' \in [OpKeys ->
              [status : {"absent", "started", "completed"},
               request : Requests \cup {NULL},
               owner : Calls \cup {NULL},
               result : Aggregates \cup {NULL}]]
        BY DEF TypeOK, NoRow
    <2>2. /\ pc' \in [Calls -> Stages]
          /\ request' \in [Calls -> Requests \cup {NULL}]
          /\ lock' \in [Aggregates -> Calls \cup {NULL}]
        BY DEF TypeOK, Stages
    <2>3. /\ entity' \in [Calls -> OrderRows]
          /\ pending' \in [Calls -> OrderRows]
        BY NoOrderRow DEF TypeOK
    <2> QED
        BY <2>1, <2>2, <2>3 DEF TypeOK
<1>2. \A d \in Calls \ {c} :
        /\ UNCHANGED <<pc[d], request[d], entity[d], pending[d]>>
        /\ pc[d] \in InTransaction => UNCHANGED ledger[OpKey(request[d])]
    BY RequestFields DEF ClaimsMatchCalls, CallMatches, TypeOK, InTransaction
<1>3. pc'[c] = "idle" /\ entity'[c] = NoOrder
    BY DEF TypeOK
<1>4. ClaimsMatchCalls'
    <2>1. \A k \in OpKeys : Committed(k)' => Committed(k) /\ ledger'[k] = ledger[k]
        BY NullAssumption DEF Committed, NoRow
    <2>2. \A k \in OpKeys : ledger'[k].owner \in Calls =>
              ledger'[k] = ledger[k] /\ ledger[k].owner # c
        BY NullAssumption DEF NoRow
    <2>3. \A d \in Calls \ {c} : CallMatches(d)'
        BY <1>2 DEF ClaimsMatchCalls, CallMatches, InTransaction, Target
    <2>4. CallMatches(c)'
        BY <1>3 DEF CallMatches, InTransaction
    <2>5. \A k \in OpKeys : RowMatches(k)'
        BY <1>2, <2>1, <2>2 DEF ClaimsMatchCalls, RowMatches
    <2> QED
        BY <2>3, <2>4, <2>5 DEF ClaimsMatchCalls
<1>5. \A d \in Calls : pc'[d] = "committing" =>
        /\ d # c
        /\ pc[d] = "committing"
        /\ Target(d)' = Target(d)
        /\ UNCHANGED <<request[d], entity[d], pending[d]>>
    BY <1>2, <1>3 DEF Target, InTransaction
<1>6. \A o \in Aggregates : lock'[o] = IF lock[o] = c THEN NULL ELSE lock[o]
    OBVIOUS
<1>7. LocksMatchCalls'
    <2>1. ASSUME NEW o \in Aggregates, lock'[o] \in Calls
          PROVE  (pc[lock[o]] = "committing" /\ Target(lock[o]) = o)'
        <3>1. lock'[o] = lock[o] /\ lock[o] \in Calls \ {c}
            BY <2>1, <1>6, NullAssumption
        <3>2. PICK d \in Calls \ {c} : lock[o] = d
            BY <3>1
        <3>3. pc[d] = "committing" /\ Target(d) = o
            BY <3>2 DEF LocksMatchCalls
        <3>4. pc'[d] = "committing"
            BY <1>2, <3>3
        <3> QED
            BY <1>5, <3>1, <3>2, <3>3, <3>4 DEF Target
    <2>2. ASSUME NEW d \in Calls, pc'[d] = "committing"
          PROVE  (lock[Target(d)] = d)'
        <3>1. lock[Target(d)] = d /\ Target(d) \in Aggregates /\ d # c
            BY <1>5, <2>2 DEF LocksMatchCalls, ClaimsMatchCalls, CallMatches
        <3> QED
            BY <1>5, <1>6, <2>2, <3>1
    <2> QED
        BY <2>1, <2>2 DEF LocksMatchCalls
<1>9. ReadsAccepted'
    <2>1. ReadMatches(c)'
        BY <1>3 DEF ReadMatches
    <2>2. \A d \in Calls \ {c} : ReadMatches(d)'
        BY <1>2, SameReadMatches DEF ReadsAccepted
    <2> QED
        BY <2>1, <2>2 DEF ReadsAccepted
<1>10. WritesAreNext'
    BY <1>5, SameWrittenIsNext DEF WritesAreNext
<1>11. RowsHaveVersions'
    BY DEF RowsHaveVersions
<1> QED
    BY <1>1, <1>4, <1>7, <1>9, <1>10, <1>11

\* A step of call c outside transactions: a request arrives, a check ends, a key
\* is found.
LEMMA OutsideIInv ==
    ASSUME IInv, NEW c \in Calls,
           pc[c] \notin InTransaction,
           pc' \in {[pc EXCEPT ![c] = s] : s \in Stages \ InTransaction},
           request' \in [Calls -> Requests \cup {NULL}],
           \A d \in Calls \ {c} : request'[d] = request[d],
           pc'[c] # "idle" => request'[c] \in Requests,
           pc'[c] = "claiming" /\ request'[c].type = "create-order"
               => request'[c].price \in Prices,
           UNCHANGED <<ledger, lock, price, orders, history, entity, pending>>
    PROVE  IInv'
<1> USE DEF IInv
<1>1. pc' \in [Calls -> Stages] /\ \A d \in Calls \ {c} : pc'[d] = pc[d]
    BY DEF TypeOK
<1>2. pc'[c] \in Stages \ InTransaction
    BY DEF TypeOK
<1>3. TypeOK'
    BY <1>1 DEF TypeOK
<1>4. ClaimsMatchCalls'
    <2>1. \A d \in Calls : CallMatches(d)'
        BY <1>1, <1>2 DEF ClaimsMatchCalls, CallMatches, Target, InTransaction
    <2>2. \A k \in OpKeys : RowMatches(k)'
        <3>1. \A d \in Calls : pc[d] \in InTransaction => d # c
            OBVIOUS
        <3> QED
            BY <1>1, <3>1 DEF ClaimsMatchCalls, RowMatches, Committed
    <2> QED
        BY <2>1, <2>2 DEF ClaimsMatchCalls
<1>5. \A d \in Calls : pc'[d] = "committing" <=> pc[d] = "committing"
    BY <1>1, <1>2 DEF InTransaction
<1>6. \A d \in Calls : pc[d] = "committing" =>
        request'[d] = request[d] /\ Target(d)' = Target(d)
    <2>1. \A d \in Calls : pc[d] = "committing" => d # c
        BY DEF InTransaction
    <2> QED
        BY <2>1 DEF Target
<1>7. LocksMatchCalls'
    BY <1>5, <1>6 DEF LocksMatchCalls
<1>9. ReadsAccepted'
    <2>1. ReadMatches(c)'
        BY <1>2 DEF ReadsAccepted, ReadMatches, InTransaction
    <2> QED
        BY <1>1, <2>1, SameReadMatches DEF ReadsAccepted
<1>10. WritesAreNext'
    BY <1>5, <1>6, SameWrittenIsNext DEF WritesAreNext
<1>11. RowsHaveVersions'
    BY DEF RowsHaveVersions
<1> QED
    BY <1>3, <1>4, <1>7, <1>9, <1>10, <1>11

LEMMA ReceiveIInv ==
    ASSUME IInv, NEW c \in Calls, ReceiveRequest(c)
    PROVE  IInv'
<1>1. PICK r \in Requests : Receive(c, r)
    BY DEF ReceiveRequest
<1> QED
    BY <1>1, OutsideIInv
    DEF Receive, ReceiveRequest, IInv, TypeOK, Stages, InTransaction, orderVars

LEMMA CheckCreateIInv ==
    ASSUME IInv, NEW c \in Calls, CheckCreate(c)
    PROVE  IInv'
<1>1. /\ pc[c] = "checking"
      /\ request[c] \in CreateRequests
      /\ UNCHANGED <<ledger, lock, price, orders, history, entity, pending>>
    BY RequestFields DEF CheckCreate, IInv, ClaimsMatchCalls, CallMatches, orderVars
<1>2. CASE End(c)
    BY <1>1, <1>2, OutsideIInv DEF End, IInv, TypeOK, Stages, InTransaction
<1>3. CASE ~End(c)
    <2>1. /\ price \in Prices
          /\ pc' = [pc EXCEPT ![c] = "claiming"]
          /\ request' = [request EXCEPT ![c] = [request[c] EXCEPT !.price = price]]
        BY <1>3 DEF CheckCreate, IInv, TypeOK
    <2>2. request'[c] \in Requests /\ request'[c].price \in Prices
        BY <1>1, <2>1, PricedRequest DEF IInv, TypeOK
    <2> QED
        BY <1>1, <2>1, <2>2, OutsideIInv DEF IInv, TypeOK, Stages, InTransaction
<1> QED
    BY <1>2, <1>3

LEMMA CheckTransitionIInv ==
    ASSUME IInv, NEW c \in Calls, CheckTransition(c)
    PROVE  IInv'
<1>1. /\ pc[c] = "checking"
      /\ request[c] \in Requests
      /\ request[c].type = "transition-order"
      /\ UNCHANGED <<ledger, lock, price, orders, history, entity, pending>>
    BY DEF CheckTransition, CheckThen, IInv, ClaimsMatchCalls, CallMatches, orderVars
<1>2. CASE End(c)
    BY <1>1, <1>2, OutsideIInv DEF End, IInv, TypeOK, Stages, InTransaction
<1>3. CASE ~End(c)
    <2>1. pc' = [pc EXCEPT ![c] = "claiming"] /\ UNCHANGED request
        BY <1>3 DEF CheckTransition, CheckThen
    <2> QED
        BY <1>1, <2>1, OutsideIInv DEF IInv, TypeOK, Stages, InTransaction
<1> QED
    BY <1>2, <1>3

LEMMA ClaimIInv ==
    ASSUME IInv, NEW c \in Calls, Claim(c)
    PROVE  IInv'
<1> DEFINE next == IF request[c].type = "create-order" THEN "writing" ELSE "reading"
<1>1. CASE ClaimExisting(c)
    BY <1>1, OutsideIInv
    DEF ClaimExisting, Claim, End, IInv, TypeOK, Stages, InTransaction, orderVars
<1>2. CASE ClaimNew(c, next)
    <2> USE <1>2 DEF ClaimNew, Claim, IInv
    <2> PICK k \in OpKeys : k = OpKey(request[c])
        BY RequestFields DEF ClaimsMatchCalls, CallMatches
    <2>1. /\ request[c] \in Requests
          /\ request[c].type \in {"create-order", "transition-order"}
          /\ request[c].type = "create-order" => request[c].price \in Prices
        BY RequestFields DEF ClaimsMatchCalls, CallMatches
    <2>2. /\ pc[c] = "claiming"
          /\ ledger' = [ledger EXCEPT ![k] =
                 [status |-> "started", request |-> request[c], owner |-> c, result |-> NULL]]
          /\ ledger[k].status = "absent"
          /\ pc' = [pc EXCEPT ![c] = next]
          /\ UNCHANGED <<request, lock>>
        OBVIOUS
    <2>3. UNCHANGED <<price, orders, history, entity, pending>>
        BY DEF orderVars
    <2>4. /\ next \in {"writing", "reading"}
          /\ next = "reading" => request[c].type = "transition-order"
          /\ next = "writing" => request[c].type = "create-order"
        BY <2>1
    <2> HIDE DEF next
    <2>5. TypeOK'
        <3>1. ledger' \in [OpKeys ->
                  [status : {"absent", "started", "completed"},
                   request : Requests \cup {NULL},
                   owner : Calls \cup {NULL},
                   result : Aggregates \cup {NULL}]]
            BY <2>1, <2>2 DEF TypeOK
        <3>2. pc' \in [Calls -> Stages]
            BY <2>2, <2>4 DEF TypeOK, Stages
        <3> QED
            BY <2>2, <2>3, <3>1, <3>2 DEF TypeOK
    <2>6. ledger[k].owner \notin Calls
        BY <2>1, <2>2, <2>3, <2>4 DEF ClaimsMatchCalls, RowMatches
    <2>7. \A d \in Calls \ {c} :
            /\ pc'[d] = pc[d]
            /\ pc[d] \in InTransaction => UNCHANGED ledger[OpKey(request[d])]
        <3>1. \A d \in Calls : pc[d] \in InTransaction => OpKey(request[d]) # k
            BY <2>6 DEF ClaimsMatchCalls, CallMatches
        <3> QED
            BY <2>2, <2>3, <2>4, <3>1 DEF TypeOK
    <2>8. /\ pc'[c] = next
          /\ ledger'[k] = [status |-> "started", request |-> request[c],
                           owner |-> c, result |-> NULL]
          /\ \A j \in OpKeys \ {k} : ledger'[j] = ledger[j]
        BY <2>1, <2>2, <2>3, <2>4 DEF TypeOK
    <2>9. ClaimsMatchCalls'
        <3>1. \A d \in Calls \ {c} : CallMatches(d)'
            BY <2>2, <2>3, <2>4, <2>7 DEF ClaimsMatchCalls, CallMatches, InTransaction, Target
        <3>2. CallMatches(c)'
            BY <2>1, <2>2, <2>3, <2>4, <2>8 DEF CallMatches, InTransaction
        <3>3. RowMatches(k)'
            BY <2>1, <2>2, <2>3, <2>4, <2>8, NullAssumption DEF RowMatches, Committed, InTransaction
        <3>4. \A j \in OpKeys \ {k} : RowMatches(j)'
            <4> SUFFICES ASSUME NEW j \in OpKeys \ {k} PROVE RowMatches(j)'
                OBVIOUS
            <4>1. ledger[j].owner \in Calls => ledger[j].owner # c
                BY <2>2, <2>3, <2>4 DEF ClaimsMatchCalls, RowMatches, InTransaction
            <4>2. ledger'[j] = ledger[j]
                BY <2>8
            <4>3. \A d \in Calls \ {c} : pc'[d] = pc[d]
                BY <2>7
            <4> QED
                BY <2>2, <2>3, <2>4, <4>1, <4>2, <4>3 DEF ClaimsMatchCalls, RowMatches, Committed
        <3> QED
            BY <3>1, <3>2, <3>3, <3>4 DEF ClaimsMatchCalls
    <2>10. \A d \in Calls : pc'[d] = "committing" => d # c /\ pc[d] = "committing"
        BY <2>2, <2>3, <2>4, <2>7, <2>8
    <2>11. \A d \in Calls \ {c} : pc[d] = "committing" =>
              pc'[d] = "committing" /\ Target(d)' = Target(d)
        BY <2>2, <2>3, <2>4, <2>7 DEF Target, InTransaction
    <2>12. LocksMatchCalls'
        BY <2>2, <2>3, <2>4, <2>10, <2>11 DEF LocksMatchCalls
    <2>13. ReadsAccepted'
        <3>1. ReadMatches(c)'
            BY <2>1, <2>2, <2>3, <2>4, <2>8 DEF ReadsAccepted, ReadMatches
        <3>2. \A d \in Calls \ {c} : ReadMatches(d)'
            BY <2>2, <2>3, <2>4, <2>7, SameReadMatches DEF ReadsAccepted
        <3> QED
            BY <3>1, <3>2 DEF ReadsAccepted
    <2>14. WritesAreNext' /\ RowsHaveVersions'
        BY <2>2, <2>3, <2>4, <2>10, <2>11, SameWrittenIsNext
        DEF WritesAreNext, RowsHaveVersions
    <2> QED
        BY <2>5, <2>9, <2>12, <2>13, <2>14
<1> QED
    BY <1>1, <1>2 DEF Claim

LEMMA ReadIInv ==
    ASSUME IInv, NEW c \in Calls, Read(c)
    PROVE  IInv'
<1> DEFINE o == orders[request[c].aggregate]
<1>1. /\ pc[c] = "reading"
      /\ request[c].type = "transition-order"
      /\ request[c].aggregate \in Aggregates
      /\ UNCHANGED <<price, orders, history, pending>>
    BY RequestFields DEF Read, IInv, ClaimsMatchCalls, CallMatches
<1>2. CASE ~Accepts(o, request[c])
    <2>1. entity[c] = NoOrder
        BY <1>1 DEF IInv, ReadsAccepted, ReadMatches
    <2>2. entity' = [entity EXCEPT ![c] = NoOrder]
        BY <1>2, <2>1 DEF Read, IInv, TypeOK
    <2> QED
        BY <1>1, <1>2, <2>2, RollbackIInv DEF Read
<1>3. CASE Accepts(o, request[c])
    <2>1. /\ pc' = [pc EXCEPT ![c] = "writing"]
          /\ entity' = [entity EXCEPT ![c] = o]
          /\ UNCHANGED <<ledger, request, lock, price, orders, history, pending>>
        BY <1>1, <1>3 DEF Read
    <2> USE <1>1, <2>1 DEF IInv
    <2>2. o \in OrderRows
        BY DEF TypeOK
    <2>3. TypeOK'
        BY <2>2 DEF TypeOK, Stages
    <2>4. /\ \A d \in Calls \ {c} : pc'[d] = pc[d]
          /\ pc'[c] = "writing"
        BY DEF TypeOK
    <2>5. ClaimsMatchCalls'
        <3>1. \A d \in Calls : CallMatches(d)'
            BY <2>4 DEF ClaimsMatchCalls, CallMatches, InTransaction, Target
        <3>2. \A k \in OpKeys : RowMatches(k)'
            BY <2>4 DEF ClaimsMatchCalls, RowMatches, InTransaction, Committed
        <3> QED
            BY <3>1, <3>2 DEF ClaimsMatchCalls
    <2>6. \A d \in Calls : pc'[d] = "committing" => d # c /\ pc[d] = "committing"
        BY <2>4
    <2>7. LocksMatchCalls'
        <3>1. \A d \in Calls : Target(d)' = Target(d)
            BY DEF Target
        <3>2. \A d \in Calls : pc[d] = "committing" => pc'[d] = "committing"
            BY <2>4
        <3> QED
            BY <2>6, <3>1, <3>2 DEF LocksMatchCalls
    <2>8. ReadsAccepted'
        <3>1. /\ entity'[c] = o
              /\ \A d \in Calls \ {c} : entity'[d] = entity[d]
            BY DEF TypeOK
        <3>2. o # NoOrder
            BY <1>3 DEF Accepts
        <3>3. /\ Accepts(entity[c], request[c])'
              /\ entity'[c].buyer = orders'[request'[c].aggregate].buyer
              /\ orders'[request'[c].aggregate] # NoOrder
            BY <1>3, <3>1, <3>2 DEF Accepts, Owns, MayTransition
        <3>4. ReadMatches(c)'
            BY <2>4, <3>3 DEF ReadMatches
        <3>5. \A d \in Calls \ {c} : ReadMatches(d)'
            BY <2>4, <3>1, SameReadMatches DEF ReadsAccepted
        <3> QED
            BY <3>4, <3>5 DEF ReadsAccepted
    <2>9. WritesAreNext' /\ RowsHaveVersions'
        <3>1. \A d \in Calls : pc'[d] = "committing" =>
                  Target(d)' = Target(d) /\ entity'[d] = entity[d]
            BY <2>6 DEF Target, TypeOK
        <3> QED
            BY <2>6, <3>1, SameWrittenIsNext DEF WritesAreNext, RowsHaveVersions
    <2> QED
        BY <2>3, <2>5, <2>7, <2>8, <2>9
<1> QED
    BY <1>2, <1>3

\* A successful write: the row is in the transaction, the lock is held and the
\* ledger row is completed with the order.
LEMMA WrittenIInv ==
    ASSUME IInv, NEW c \in Calls, NEW o \in Aggregates, NEW row \in OrderRows,
           pc[c] = "writing", lock[o] = NULL, Written(c, o, row),
           UNCHANGED <<price, orders, history>>,
           request[c].type = "create-order" =>
              /\ orders[o] = NoOrder
              /\ row = [status |-> "pending", version |-> 1,
                        buyer |-> request[c].actor, total |-> request[c].price],
           request[c].type # "create-order" =>
              /\ o = request[c].aggregate
              /\ orders[o].status = entity[c].status
              /\ orders[o].version = request[c].version
              /\ row = Transitioned(orders[o], request[c].to)
    PROVE  IInv'
<1> USE DEF IInv
<1> PICK k \in OpKeys : k = OpKey(request[c])
    BY RequestFields DEF ClaimsMatchCalls, CallMatches
<1>1. /\ request[c] \in Requests
      /\ ledger[k].owner = c
      /\ ledger[k].request = request[c]
      /\ ledger[k].status = "started"
    BY DEF ClaimsMatchCalls, CallMatches, InTransaction
<1>2. /\ ledger' = [ledger EXCEPT ![k] =
             [status |-> "completed", request |-> request[c], owner |-> c, result |-> o]]
      /\ lock' = [lock EXCEPT ![o] = c]
      /\ pending' = [pending EXCEPT ![c] = row]
      /\ pc' = [pc EXCEPT ![c] = "committing"]
      /\ UNCHANGED <<request, entity>>
    BY <1>1 DEF Written, Complete
<1>3. TypeOK'
    <2>1. ledger' \in [OpKeys ->
              [status : {"absent", "started", "completed"},
               request : Requests \cup {NULL},
               owner : Calls \cup {NULL},
               result : Aggregates \cup {NULL}]]
        BY <1>1, <1>2 DEF TypeOK
    <2>2. /\ pc' \in [Calls -> Stages]
          /\ lock' \in [Aggregates -> Calls \cup {NULL}]
          /\ pending' \in [Calls -> OrderRows]
        BY <1>2 DEF TypeOK, Stages
    <2> QED
        BY <1>2, <2>1, <2>2 DEF TypeOK
<1>4. /\ pc'[c] = "committing"
      /\ ledger'[k] = [status |-> "completed", request |-> request[c],
                       owner |-> c, result |-> o]
      /\ Target(c)' = o
      /\ pending'[c] = row
    BY <1>2 DEF TypeOK, Target
<1>5. \A d \in Calls \ {c} :
        /\ UNCHANGED <<pc[d], pending[d]>>
        /\ pc[d] \in InTransaction => UNCHANGED ledger[OpKey(request[d])]
        /\ pc[d] = "committing" => Target(d)' = Target(d)
    <2>1. \A d \in Calls \ {c} : pc[d] \in InTransaction => OpKey(request[d]) # k
        BY <1>1 DEF ClaimsMatchCalls, CallMatches
    <2> QED
        BY <1>2, <2>1 DEF TypeOK, Target, InTransaction
<1>6. \A j \in OpKeys \ {k} : ledger'[j] = ledger[j]
    BY <1>2 DEF TypeOK
<1>7. ClaimsMatchCalls'
    <2>1. \A d \in Calls \ {c} : CallMatches(d)'
        BY <1>2, <1>5 DEF ClaimsMatchCalls, CallMatches, InTransaction
    <2>2. CallMatches(c)'
        <3>1. request[c].type # "create-order" => request[c].type = "transition-order"
            BY <1>1, RequestFields
        <3>2. request[c].type = "create-order" => request[c].price \in Prices
            BY DEF ClaimsMatchCalls, CallMatches, InTransaction
        <3> QED
            BY <1>1, <1>2, <1>4, <3>1, <3>2 DEF CallMatches, InTransaction
    <2>3. RowMatches(k)'
        BY <1>1, <1>2, <1>4, NullAssumption DEF RowMatches, Committed, InTransaction
    <2>4. \A j \in OpKeys \ {k} : RowMatches(j)'
        <3> SUFFICES ASSUME NEW j \in OpKeys \ {k} PROVE RowMatches(j)'
            OBVIOUS
        <3>1. ledger[j].owner \in Calls => ledger[j].owner # c
            BY <1>1 DEF ClaimsMatchCalls, RowMatches
        <3>2. ledger'[j] = ledger[j]
            BY <1>6
        <3>3. \A d \in Calls \ {c} : pc'[d] = pc[d]
            BY <1>5
        <3> QED
            BY <1>2, <3>1, <3>2, <3>3 DEF ClaimsMatchCalls, RowMatches, Committed
    <2> QED
        BY <2>1, <2>2, <2>3, <2>4 DEF ClaimsMatchCalls
<1>8. LocksMatchCalls'
    <2>1. /\ lock'[o] = c
          /\ \A a \in Aggregates \ {o} : lock'[a] = lock[a]
        BY <1>2 DEF TypeOK
    <2>2. ASSUME NEW a \in Aggregates, lock'[a] \in Calls
          PROVE  (pc[lock[a]] = "committing" /\ Target(lock[a]) = a)'
        <3>1. CASE a = o
            BY <1>4, <2>1, <3>1 DEF Target
        <3>2. CASE a # o
            <4>1. lock'[a] = lock[a] /\ pc[lock[a]] = "committing" /\ Target(lock[a]) = a
                BY <2>1, <2>2, <3>2 DEF LocksMatchCalls
            <4>2. PICK d \in Calls \ {c} : lock[a] = d
                BY <2>1, <2>2, <4>1
            <4> QED
                BY <1>5, <4>1, <4>2 DEF Target
        <3> QED
            BY <3>1, <3>2
    <2>3. ASSUME NEW d \in Calls, pc'[d] = "committing"
          PROVE  (lock[Target(d)] = d)'
        <3>1. CASE d = c
            BY <1>4, <2>1, <3>1
        <3>2. CASE d # c
            <4>1. /\ pc[d] = "committing"
                  /\ Target(d) \in Aggregates
                  /\ lock[Target(d)] = d
                BY <1>5, <2>3, <3>2 DEF LocksMatchCalls, ClaimsMatchCalls, CallMatches
            <4> QED
                BY <1>5, <2>1, <3>2, <4>1, NullAssumption
        <3> QED
            BY <3>1, <3>2
    <2> QED
        BY <2>2, <2>3 DEF LocksMatchCalls
<1>9. ReadsAccepted'
    <2>1. \A d \in Calls \ {c} : ReadMatches(d)'
        BY <1>2, <1>5, SameReadMatches DEF ReadsAccepted
    <2>2. ReadMatches(c)'
        BY <1>2, <1>4 DEF ReadsAccepted, ReadMatches, Accepts, Owns, MayTransition
    <2> QED
        BY <2>1, <2>2 DEF ReadsAccepted
<1>10. WritesAreNext'
    <2>1. \A d \in Calls \ {c} : pc'[d] = "committing" => WrittenIsNext(d)'
        BY <1>2, <1>5, SameWrittenIsNext DEF WritesAreNext
    <2>2. WrittenIsNext(c)'
        BY <1>2, <1>4 DEF WrittenIsNext, Transitioned
    <2> QED
        BY <2>1, <2>2 DEF WritesAreNext
<1>11. RowsHaveVersions'
    BY DEF RowsHaveVersions
<1> QED
    BY <1>3, <1>7, <1>8, <1>9, <1>10, <1>11

LEMMA WriteCreateIInv ==
    ASSUME IInv, NEW c \in Calls, WriteCreate(c)
    PROVE  IInv'
<1> DEFINE row == [status |-> "pending", version |-> 1,
                   buyer |-> request[c].actor, total |-> request[c].price]
<1>1. PICK o \in Aggregates :
           orders[o] = NoOrder /\ lock[o] = NULL /\ Written(c, o, row)
    BY DEF WriteCreate, ChargedPrice
<1>2. /\ pc[c] = "writing"
      /\ request[c].type = "create-order"
      /\ UNCHANGED <<price, orders, history>>
    BY DEF WriteCreate
<1>3. request[c].actor \in Actors /\ request[c].price \in Prices
    BY <1>2, RequestFields DEF IInv, ClaimsMatchCalls, CallMatches, InTransaction
<1>4. row \in OrderRows
    BY <1>3 DEF OrderRows, OrderStatus
<1> QED
    BY <1>1, <1>2, <1>4, WrittenIInv

LEMMA WriteTransitionIInv ==
    ASSUME IInv, NEW c \in Calls, WriteTransition(c)
    PROVE  IInv'
<1> DEFINE o == request[c].aggregate
           row == Transitioned(orders[o], request[c].to)
<1>1. /\ pc[c] = "writing"
      /\ request[c].type = "transition-order"
      /\ request[c] \in Requests
      /\ o \in Aggregates
      /\ UNCHANGED <<price, orders, history>>
    BY RequestFields DEF WriteTransition, IInv, ClaimsMatchCalls, CallMatches
<1>2. CASE UpdateMatches(c) /\ KeyUnused(c)
    <2>1. lock[o] = NULL /\ Written(c, o, row)
        BY <1>2 DEF WriteTransition
    <2>2. row \in OrderRows
        <3>1. orders[o] \in OrderRows /\ orders[o] # NoOrder
            BY <1>1 DEF IInv, TypeOK, ReadsAccepted, ReadMatches
        <3>2. request[c].to \in OrderStatus
            BY <1>1, RequestFields
        <3> QED
            BY <3>1, <3>2, NextRow
    <2>3. orders[o].status = entity[c].status /\ orders[o].version = request[c].version
        BY <1>2 DEF UpdateMatches
    <2> QED
        BY <1>1, <2>1, <2>2, <2>3, WrittenIInv
<1>3. CASE ~(UpdateMatches(c) /\ KeyUnused(c))
    BY <1>1, <1>3, RollbackIInv DEF WriteTransition
<1> QED
    BY <1>2, <1>3

\* What a COMMIT of call c does: order o, one row of its history and row k of the
\* ledger.
CommitsTo(c, k, o) ==
    /\ pc[c] = "committing"
    /\ k = OpKey(request[c]) /\ o = Target(c)
    /\ request[c] \in Requests
    /\ Entry(c) \in HistoryRows
    /\ orders' = [orders EXCEPT ![o] = pending[c]]
    /\ history' = [history EXCEPT ![o] = Append(@, Entry(c))]
    /\ ledger[k].owner = c
    /\ ledger'[k] = [status |-> "completed", request |-> request[c],
                     owner |-> NULL, result |-> o]
    /\ \A j \in OpKeys \ {k} : ledger'[j] = ledger[j]
    /\ WrittenIsNext(c)
    /\ ReadMatches(c)
    /\ pending[c] \in OrderRows
    /\ pending[c] # NoOrder
    /\ orders[o] # NoOrder => pending[c].buyer = orders[o].buyer
    /\ request[c].type # "create-order" =>
         request[c].type = "transition-order" /\ o = request[c].aggregate
           /\ orders[o] # NoOrder
    /\ \A d \in Calls \ {c} : pc[d] = "committing" => Target(d) # o
    /\ \A d \in Calls \ {c} : pc[d] \in InTransaction => OpKey(request[d]) # k

LEMMA CommitEffect ==
    ASSUME IInv, NEW c \in Calls, Commit(c)
    PROVE  \E k \in OpKeys, o \in Aggregates : CommitsTo(c, k, o)
<1> USE DEF IInv
<1>1. /\ pc[c] = "committing"
      /\ ledger' = [ledger EXCEPT ![OpKey(request[c])].owner = NULL]
      /\ orders' = [o \in Aggregates |-> IF lock[o] = c THEN pending[c] ELSE orders[o]]
      /\ history' = [o \in Aggregates |->
             IF lock[o] = c THEN Append(history[o], Entry(c)) ELSE history[o]]
    BY DEF Commit, CommitLedger
<1>2. PICK k \in OpKeys, o \in Aggregates : k = OpKey(request[c]) /\ o = Target(c)
    BY <1>1, RequestFields DEF ClaimsMatchCalls, CallMatches
<1>3. /\ request[c] \in Requests
      /\ request[c].type \in {"create-order", "transition-order"}
      /\ ledger[k].owner = c
      /\ ledger[k].request = request[c]
      /\ ledger[k].status = "completed"
      /\ ledger[k].result = o
      /\ request[c].type = "transition-order" => o = request[c].aggregate
      /\ request[c].type = "create-order" => request[c].price \in Prices
    BY <1>1, <1>2, RequestFields
    DEF ClaimsMatchCalls, CallMatches, InTransaction, Target
<1>4. /\ ledger'[k] = [status |-> "completed", request |-> request[c],
                       owner |-> NULL, result |-> o]
      /\ \A j \in OpKeys \ {k} : ledger'[j] = ledger[j]
    BY <1>1, <1>2, <1>3 DEF TypeOK
<1>5. /\ lock[o] = c
      /\ \A a \in Aggregates : lock[a] = c => a = o
      /\ \A d \in Calls \ {c} : pc[d] = "committing" => Target(d) # o
    BY <1>1, <1>2 DEF LocksMatchCalls
<1>6. /\ orders' = [orders EXCEPT ![o] = pending[c]]
      /\ history' = [history EXCEPT ![o] = Append(@, Entry(c))]
    BY <1>1, <1>5 DEF TypeOK
<1>7. \A d \in Calls \ {c} : pc[d] \in InTransaction => OpKey(request[d]) # k
    BY <1>3 DEF ClaimsMatchCalls, CallMatches
<1>8. WrittenIsNext(c) /\ ReadMatches(c)
    BY <1>1 DEF WritesAreNext, ReadsAccepted
<1>9. /\ pending[c] \in OrderRows
      /\ pending[c] # NoOrder
      /\ orders[o] # NoOrder => pending[c].buyer = orders[o].buyer
      /\ request[c].type # "create-order" => orders[o] # NoOrder
    <2>1. CASE request[c].type = "create-order"
        BY <1>2, <1>8, <2>1 DEF WrittenIsNext, TypeOK, NoOrder
    <2>2. CASE request[c].type = "transition-order"
        <3>1. orders[o] # NoOrder /\ orders[o] \in OrderRows
            BY <1>1, <1>3, <1>8, <2>2 DEF ReadMatches, TypeOK
        <3>2. pending[c] = Transitioned(orders[o], request[c].to)
            BY <1>2, <1>8, <2>2 DEF WrittenIsNext
        <3>3. request[c].to \in OrderStatus
            BY <1>3, RequestFields
        <3> QED
            BY <3>1, <3>2, <3>3, NextRow
    <2> QED
        BY <1>3, <2>1, <2>2
<1>10. Entry(c) \in HistoryRows
    <2>1. entity[c] \in OrderRows
        BY DEF TypeOK
    <2>2. entity[c].status \in OrderStatus \cup {"none"}
        BY <2>1, OrderRow
    <2>3. /\ request[c].to \in OrderStatus
          /\ request[c].actor \in Actors
          /\ request[c].key \in IdempotencyKeys
        BY <1>3, RequestFields
    <2> HIDE DEF IInv
    <2> QED
        BY <2>2, <2>3, HistoryRow DEF Entry
<1> HIDE DEF IInv
<1>11. request[c].type # "create-order" =>
           request[c].type = "transition-order" /\ o = request[c].aggregate
    BY <1>3
<1>12. CommitsTo(c, k, o)
    BY <1>1, <1>2, <1>3, <1>4, <1>5, <1>6, <1>7, <1>8, <1>9, <1>10, <1>11 DEF CommitsTo
<1> QED
    BY <1>12

LEMMA CommitIInv ==
    ASSUME IInv, NEW c \in Calls, Commit(c)
    PROVE  IInv'
<1> USE DEF IInv
<1> PICK k \in OpKeys, o \in Aggregates : CommitsTo(c, k, o)
    BY CommitEffect
<1>1. /\ k = OpKey(request[c]) /\ o = Target(c)
      /\ request[c] \in Requests
      /\ orders' = [orders EXCEPT ![o] = pending[c]]
      /\ history' = [history EXCEPT ![o] = Append(@, Entry(c))]
      /\ ledger[k].owner = c
      /\ ledger'[k] = [status |-> "completed", request |-> request[c],
                       owner |-> NULL, result |-> o]
      /\ \A j \in OpKeys \ {k} : ledger'[j] = ledger[j]
      /\ WrittenIsNext(c)
      /\ pending[c] \in OrderRows
      /\ pending[c] # NoOrder
      /\ orders[o] # NoOrder => pending[c].buyer = orders[o].buyer
      /\ request[c].type # "create-order" => orders[o] # NoOrder
      /\ \A d \in Calls \ {c} : pc[d] = "committing" => Target(d) # o
      /\ \A d \in Calls \ {c} : pc[d] \in InTransaction => OpKey(request[d]) # k
    BY DEF CommitsTo
<1>2. /\ pc[c] = "committing"
      /\ ledger' = [ledger EXCEPT ![k].owner = NULL]
      /\ lock' = [a \in Aggregates |-> IF lock[a] = c THEN NULL ELSE lock[a]]
      /\ pc' = [pc EXCEPT ![c] = "idle"]
      /\ request' = [request EXCEPT ![c] = NULL]
      /\ entity' = [entity EXCEPT ![c] = NoOrder]
      /\ pending' = [pending EXCEPT ![c] = NoOrder]
      /\ UNCHANGED price
    BY <1>1 DEF Commit, CommitLedger, End
<1>3. /\ pc'[c] = "idle"
      /\ entity'[c] = NoOrder
      /\ orders'[o] = pending[c]
      /\ \A a \in Aggregates \ {o} : orders'[a] = orders[a]
      /\ \A d \in Calls \ {c} :
           /\ UNCHANGED <<pc[d], request[d], entity[d], pending[d]>>
           /\ pc[d] \in InTransaction => UNCHANGED ledger[OpKey(request[d])]
           /\ pc[d] = "committing" => Target(d)' = Target(d)
    <2>1. \A d \in Calls \ {c} : pc[d] \in InTransaction =>
              OpKey(request[d]) \in OpKeys \ {k}
        BY <1>1, RequestFields DEF ClaimsMatchCalls, CallMatches, InTransaction
    <2> QED
        BY <1>1, <1>2, <2>1 DEF TypeOK, Target, InTransaction
<1>4. TypeOK'
    <2>1. ledger' \in [OpKeys ->
              [status : {"absent", "started", "completed"},
               request : Requests \cup {NULL},
               owner : Calls \cup {NULL},
               result : Aggregates \cup {NULL}]]
        <3>1. ledger \in [OpKeys ->
                  [status : {"absent", "started", "completed"},
                   request : Requests \cup {NULL},
                   owner : Calls \cup {NULL},
                   result : Aggregates \cup {NULL}]]
            BY DEF TypeOK
        <3>2. k \in OpKeys
            BY <1>1
        <3>3. ledger'[k] = [ledger[k] EXCEPT !.owner = NULL]
            BY <1>2, <3>1, <3>2
        <3> HIDE DEF IInv
        <3> QED
            BY <1>2, <3>1, <3>2, <3>3
    <2>2. /\ pc' \in [Calls -> Stages]
          /\ request' \in [Calls -> Requests \cup {NULL}]
          /\ lock' \in [Aggregates -> Calls \cup {NULL}]
          /\ orders' \in [Aggregates -> OrderRows]
          /\ entity' \in [Calls -> OrderRows]
          /\ pending' \in [Calls -> OrderRows]
        BY <1>1, <1>2, NoOrderRow DEF TypeOK, Stages
    <2>3. Entry(c) \in HistoryRows
        BY DEF CommitsTo
    <2>4. Append(history[o], Entry(c)) \in Seq(HistoryRows)
        BY <2>3 DEF TypeOK
    <2>5. history' \in [Aggregates -> Seq(HistoryRows)]
        BY <1>1, <2>4 DEF TypeOK
    <2> QED
        BY <1>2, <2>1, <2>2, <2>5 DEF TypeOK
<1>5. \A a \in Aggregates : orders[a] # NoOrder =>
          orders'[a] # NoOrder /\ orders'[a].buyer = orders[a].buyer
    BY <1>1, <1>3
<1>6. ClaimsMatchCalls'
    <2>1. \A d \in Calls \ {c} : CallMatches(d)'
        BY <1>3 DEF ClaimsMatchCalls, CallMatches, InTransaction
    <2>2. CallMatches(c)'
        BY <1>3 DEF CallMatches, InTransaction
    <2>3. RowMatches(k)'
        BY <1>1, <1>3, NullAssumption DEF RowMatches, Committed
    <2>4. \A j \in OpKeys \ {k} : RowMatches(j)'
        <3> SUFFICES ASSUME NEW j \in OpKeys \ {k} PROVE RowMatches(j)'
            OBVIOUS
        <3>1. ledger[j].owner \in Calls => ledger[j].owner # c
            BY <1>1 DEF ClaimsMatchCalls, RowMatches
        <3>2. ledger'[j] = ledger[j]
            BY <1>1
        <3>3. \A d \in Calls \ {c} : pc'[d] = pc[d] /\ request'[d] = request[d]
            BY <1>3
        <3> QED
            BY <1>5, <3>1, <3>2, <3>3 DEF ClaimsMatchCalls, RowMatches, Committed
    <2> QED
        BY <2>1, <2>2, <2>3, <2>4 DEF ClaimsMatchCalls
<1>7. LocksMatchCalls'
    <2>1. ASSUME NEW a \in Aggregates, lock'[a] \in Calls
          PROVE  (pc[lock[a]] = "committing" /\ Target(lock[a]) = a)'
        <3>1. lock'[a] = lock[a] /\ lock[a] \in Calls \ {c}
            BY <1>2, <2>1, NullAssumption
        <3>2. PICK d \in Calls \ {c} : lock[a] = d
            BY <3>1
        <3>3. pc[d] = "committing" /\ Target(d) = a
            BY <3>2 DEF LocksMatchCalls
        <3> QED
            BY <1>3, <3>1, <3>2, <3>3 DEF Target
    <2>2. ASSUME NEW d \in Calls, pc'[d] = "committing"
          PROVE  (lock[Target(d)] = d)'
        <3>1. /\ d # c
              /\ pc[d] = "committing"
              /\ lock[Target(d)] = d
              /\ Target(d) \in Aggregates
            BY <1>3, <2>2 DEF LocksMatchCalls, ClaimsMatchCalls, CallMatches
        <3> QED
            BY <1>2, <1>3, <3>1
    <2> QED
        BY <2>1, <2>2 DEF LocksMatchCalls
<1>8. ReadsAccepted'
    <2>1. ReadMatches(c)'
        BY <1>3 DEF ReadMatches
    <2>2. ASSUME NEW d \in Calls \ {c} PROVE ReadMatches(d)'
        <3>1. CASE pc[d] \in {"writing", "committing"}
                   /\ request[d].type = "transition-order"
            <4>1. request[d].aggregate \in Aggregates
                BY <3>1, RequestFields DEF ClaimsMatchCalls, CallMatches
            <4> QED
                BY <1>3, <1>5, <4>1, SameReadMatches DEF ReadsAccepted
        <3>2. CASE ~(pc[d] \in {"writing", "committing"}
                     /\ request[d].type = "transition-order")
            BY <1>3, <3>2 DEF ReadsAccepted, ReadMatches
        <3> QED
            BY <3>1, <3>2
    <2> QED
        BY <2>1, <2>2 DEF ReadsAccepted
<1>9. WritesAreNext'
    <2> SUFFICES ASSUME NEW d \in Calls, pc'[d] = "committing"
                 PROVE  WrittenIsNext(d)'
        BY DEF WritesAreNext
    <2>1. /\ d # c
          /\ pc[d] = "committing"
          /\ Target(d) \in Aggregates \ {o}
        BY <1>1, <1>3 DEF ClaimsMatchCalls, CallMatches
    <2> QED
        BY <1>3, <2>1, SameWrittenIsNext DEF WritesAreNext
<1>10. RowsHaveVersions'
    <2>1. orders[o].version \in Nat
        BY OrderRow DEF TypeOK
    <2>2. pending[c].version > 0
        <3>1. CASE request[c].type = "create-order"
            BY <1>1, <3>1 DEF WrittenIsNext
        <3>2. CASE request[c].type # "create-order"
            <4>1. pending[c] = Transitioned(orders[o], request[c].to)
                BY <1>1, <3>2 DEF WrittenIsNext
            <4>2. orders[o] # NoOrder /\ orders[o] \in OrderRows
                BY <1>1, <3>2 DEF TypeOK
            <4>3. request[c].to \in OrderStatus
                BY <1>1, RequestFields
            <4>4. pending[c].version = orders[o].version + 1
                BY <4>1, <4>2, <4>3, NextRow
            <4> QED
                BY <2>1, <4>4
        <3> QED
            BY <3>1, <3>2
    <2> QED
        BY <1>3, <2>2 DEF RowsHaveVersions
<1> QED
    BY <1>4, <1>6, <1>7, <1>8, <1>9, <1>10

\* Steps of no call.
LEMMA StutterIInv ==
    ASSUME IInv, price' \in Prices \cup {NULL},
           UNCHANGED <<ledger, pc, request, lock, orders, history, entity, pending>>
    PROVE  IInv'
<1> USE DEF IInv
<1>1. TypeOK'
    BY DEF TypeOK
<1>2. \A d \in Calls : Target(d)' = Target(d)
    BY DEF Target
<1>3. ClaimsMatchCalls'
    BY <1>2 DEF ClaimsMatchCalls, CallMatches, RowMatches, Committed
<1>4. LocksMatchCalls'
    BY <1>2 DEF LocksMatchCalls
<1>5. ReadsAccepted'
    BY SameReadMatches DEF ReadsAccepted
<1>6. WritesAreNext'
    BY <1>2, SameWrittenIsNext DEF WritesAreNext
<1> QED
    BY <1>1, <1>3, <1>4, <1>5, <1>6 DEF RowsHaveVersions

\* Every step preserves the invariant.
LEMMA NextIInv == IInv /\ [Next]_vars => IInv'
<1> SUFFICES ASSUME IInv, [Next]_vars PROVE IInv'
    OBVIOUS
<1>1. CASE UNCHANGED vars
    BY <1>1, StutterIInv DEF vars, ledgerVars, orderVars, IInv, TypeOK
<1>2. CASE ChangeProduct
    BY <1>2, StutterIInv DEF ChangeProduct, ledgerVars, orderVars
<1>3. ASSUME NEW c \in Calls, CrashCall(c) PROVE IInv'
    BY <1>3, RollbackIInv DEF CrashCall, Crash
<1> QED
    BY <1>1, <1>2, <1>3, ReceiveIInv, CheckCreateIInv, CheckTransitionIInv, ClaimIInv,
       ReadIInv, WriteCreateIInv, WriteTransitionIInv, CommitIInv DEF Next, Serve

\* The invariant of every behaviour.
THEOREM InvariantOfSpec == Spec => []IInv
BY InitIInv, NextIInv, PTL DEF Spec

\* Every variable keeps its type.
THEOREM TypeCorrect == Spec => []TypeOK
<1>1. IInv => TypeOK
    BY DEF IInv
<1> QED
    BY <1>1, InvariantOfSpec, PTL

-----------------------------------------------------------------------------
(* What every step but a COMMIT leaves alone *)

LEMMA OtherStepsKeep ==
    ASSUME IInv, [Next]_vars, \A c \in Calls : ~Commit(c)
    PROVE  /\ orders' = orders
           /\ history' = history
           /\ \A k \in OpKeys :
                /\ Committed(k)' <=> Committed(k)
                /\ Committed(k) => ledger'[k] = ledger[k]
<1>1. CASE UNCHANGED vars \/ ChangeProduct
    BY <1>1 DEF vars, ChangeProduct, ledgerVars, orderVars, Committed
<1>2. ASSUME NEW c \in Calls, ReceiveRequest(c) \/ Serve(c) \/ CrashCall(c)
      PROVE  /\ orders' = orders
             /\ history' = history
             /\ \A k \in OpKeys :
                  /\ Committed(k)' <=> Committed(k)
                  /\ Committed(k) => ledger'[k] = ledger[k]
    <2>1. orders' = orders /\ history' = history
        BY <1>2
        DEF ReceiveRequest, Serve, CheckCreate, CheckTransition, Claim, Read,
            WriteCreate, WriteTransition, CrashCall, orderVars
    <2> SUFFICES ASSUME NEW k \in OpKeys
                 PROVE  /\ Committed(k)' <=> Committed(k)
                        /\ Committed(k) => ledger'[k] = ledger[k]
        BY <2>1
    <2>2. CASE UNCHANGED ledger
        BY <2>2 DEF Committed
    <2>3. CASE Rollback(c)
        BY <2>3, NullAssumption DEF Rollback, Committed, NoRow
    <2>4. ASSUME NEW next, ClaimNew(c, next)
          PROVE  /\ Committed(k)' <=> Committed(k)
                 /\ Committed(k) => ledger'[k] = ledger[k]
        BY <2>4, NullAssumption DEF ClaimNew, Committed, IInv, TypeOK
    <2>5. ASSUME NEW o, pc[c] = "writing", Complete(c, o)
          PROVE  /\ Committed(k)' <=> Committed(k)
                 /\ Committed(k) => ledger'[k] = ledger[k]
        <3>1. /\ ledger[OpKey(request[c])].owner = c
              /\ ledger[OpKey(request[c])].status = "started"
            BY <2>5 DEF IInv, ClaimsMatchCalls, CallMatches, InTransaction
        <3> QED
            BY <2>5, <3>1, NullAssumption DEF Complete, Committed, IInv, TypeOK
    <2>6. CASE ReceiveRequest(c) \/ CheckCreate(c) \/ CheckTransition(c)
        BY <2>2, <2>6
        DEF ReceiveRequest, Receive, CheckCreate, CheckTransition, CheckThen
    <2>7. CASE Claim(c)
        BY <2>2, <2>4, <2>7 DEF Claim, ClaimExisting
    <2>8. CASE Read(c)
        BY <2>2, <2>3, <2>8 DEF Read
    <2>9. CASE WriteCreate(c)
        BY <2>5, <2>9 DEF WriteCreate, Written
    <2>10. CASE WriteTransition(c)
        BY <2>3, <2>5, <2>10 DEF WriteTransition, Written
    <2>11. CASE CrashCall(c)
        BY <2>3, <2>11 DEF CrashCall, Crash
    <2> QED
        BY <1>2, <2>6, <2>7, <2>8, <2>9, <2>10, <2>11 DEF Serve
<1> QED
    BY <1>1, <1>2 DEF Next

\* The committed rows after a COMMIT: one more.
LEMMA CommitCommits ==
    ASSUME IInv, NEW c \in Calls, NEW k \in OpKeys, NEW o \in Aggregates,
           CommitsTo(c, k, o)
    PROVE  /\ ~Committed(k)
           /\ Committed(k)'
           /\ \A j \in OpKeys \ {k} : (Committed(j)' <=> Committed(j)) /\ ledger'[j] = ledger[j]
BY NullAssumption DEF CommitsTo, Committed

-----------------------------------------------------------------------------
(* The history of an order *)

\* HistoryIsTheWalk, order by order.
Walk(h, row) ==
    /\ Len(h) = row.version
    /\ h # <<>> =>
         /\ h[1].from = "none" /\ h[1].to = "pending" /\ h[1].by = row.buyer
         /\ h[Len(h)].to = row.status
    /\ \A i \in 2..Len(h) :
         /\ h[i].from = h[i - 1].to
         /\ h[i].to \in Successors[h[i].from]
         /\ MayTransition(RoleOf[h[i].by], h[i].from, h[i].to)
         /\ Owns(h[i].by, row)

\* The walk goes on: the row a transaction writes is the next one of its history.
LEMMA WalkGoesOn ==
    ASSUME IInv, NEW c \in Calls, NEW k \in OpKeys, NEW o \in Aggregates,
           CommitsTo(c, k, o), Walk(history[o], orders[o])
    PROVE  Walk(Append(history[o], Entry(c)), pending[c])
<1> DEFINE h == history[o]
           r == request[c]
           g == Append(h, Entry(c))
           new == pending[c]
<1>1. /\ h \in Seq(HistoryRows)
      /\ Entry(c) \in HistoryRows
      /\ Len(h) \in Nat
      /\ Len(h) = orders[o].version
      /\ orders[o] \in OrderRows
      /\ orders[o].version \in Nat
    BY OrderRow DEF IInv, TypeOK, Walk, CommitsTo
<1>2. PICK n \in Nat :
        /\ n = Len(h)
        /\ Len(g) = n + 1
        /\ g[n + 1] = Entry(c)
        /\ \A i \in 1..n : g[i] = h[i]
        /\ g # <<>>
    BY <1>1, AppendProperties
<1>3. /\ Entry(c).from = entity[c].status
      /\ Entry(c).to = r.to
      /\ Entry(c).by = r.actor
    BY DEF Entry
<1>4. CASE r.type = "create-order"
    <2>1. /\ orders[o] = NoOrder
          /\ new = [status |-> "pending", version |-> 1, buyer |-> r.actor, total |-> r.price]
          /\ entity[c] = NoOrder
          /\ r.to = "pending"
          /\ o = Target(c)
        BY <1>4, RequestFields DEF CommitsTo, WrittenIsNext, ReadMatches
    <2>2. Len(h) = 0
        BY <1>1, <2>1 DEF NoOrder
    <2>3. /\ Len(g) = 1
          /\ g[1] = Entry(c)
        BY <1>2, <2>2
    <2> HIDE DEF g
    <2> QED
        BY <1>2, <1>3, <2>1, <2>3 DEF Walk, NoOrder
<1>5. CASE r.type # "create-order"
    <2>1. /\ orders[o] # NoOrder
          /\ orders[o].status = entity[c].status
          /\ new = Transitioned(orders[o], r.to)
          /\ Accepts(entity[c], r)
          /\ entity[c].buyer = orders[o].buyer
          /\ r.to \in OrderStatus
        <3>1. o = Target(c) /\ r.type = "transition-order" /\ o = r.aggregate
            BY <1>5 DEF CommitsTo
        <3>2. pc[c] = "committing"
            BY DEF CommitsTo
        <3> QED
            BY <1>5, <3>1, <3>2, RequestFields
            DEF CommitsTo, WrittenIsNext, ReadMatches, NoOrder
    <2>2. /\ new.status = r.to
          /\ new.version = n + 1
          /\ new.buyer = orders[o].buyer
        BY <1>1, <1>2, <2>1, NextRow
    <2>3. n > 0 /\ h # <<>> /\ Walk(h, orders[o])
        BY <1>1, <1>2, <2>1 DEF IInv, RowsHaveVersions
    <2> HIDE DEF g, new, h
    <2>4. g[1] = h[1] /\ g[n] = h[n]
        BY <1>2, <2>3
    <2>5. \A i \in 2..n : g[i] = h[i] /\ g[i - 1] = h[i - 1]
        BY <1>2
    <2>6. ASSUME NEW i \in 2..Len(g)
          PROVE  /\ g[i].from = g[i - 1].to
                 /\ g[i].to \in Successors[g[i].from]
                 /\ MayTransition(RoleOf[g[i].by], g[i].from, g[i].to)
                 /\ Owns(g[i].by, new)
        <3>1. CASE i \in 2..n
            BY <1>2, <2>2, <2>3, <2>5, <3>1 DEF Walk, Owns
        <3>2. CASE i = n + 1
            <4>1. g[i] = Entry(c) /\ g[i - 1] = h[n]
                BY <1>2, <2>3, <2>4, <3>2
            <4>2. h[n].to = orders[o].status
                BY <1>2, <2>3 DEF Walk
            <4> QED
                BY <1>3, <2>1, <2>2, <4>1, <4>2 DEF Accepts, Owns
        <3> QED
            BY <1>2, <3>1, <3>2
    <2>7. g[n + 1].to = new.status
        BY <1>2, <1>3, <2>2
    <2>8. g[1].from = "none" /\ g[1].to = "pending" /\ g[1].by = new.buyer
        BY <2>2, <2>3, <2>4 DEF Walk
    <2>9. Len(g) = new.version /\ g[Len(g)].to = new.status
        BY <1>2, <2>2, <2>7
    <2>10. Walk(g, new)
        BY <2>6, <2>8, <2>9 DEF Walk
    <2> QED
        BY <2>10 DEF g, h, new
<1> QED
    BY <1>4, <1>5

\* Every order's history is the walk that led to its status, whatever requests,
\* crashes and retries interleave: each row goes on from the last by a step that
\* is legal and was its actor's to make.
THEOREM HistoryCorrect == Spec => []HistoryIsTheWalk
<1>1. HistoryIsTheWalk <=> \A o \in Aggregates : Walk(history[o], orders[o])
    BY DEF HistoryIsTheWalk, Walk
<1>2. Init => HistoryIsTheWalk
    BY DEF Init, HistoryIsTheWalk, NoOrder
<1>3. IInv /\ HistoryIsTheWalk /\ [Next]_vars => HistoryIsTheWalk'
    <2> SUFFICES ASSUME IInv, HistoryIsTheWalk, [Next]_vars,
                        NEW o \in Aggregates
                 PROVE  Walk(history'[o], orders'[o])
        BY DEF HistoryIsTheWalk, Walk, Owns, MayTransition
    <2>1. CASE \A c \in Calls : ~Commit(c)
        BY <1>1, <2>1, OtherStepsKeep
    <2>2. ASSUME NEW c \in Calls, Commit(c) PROVE Walk(history'[o], orders'[o])
        <3>1. PICK k \in OpKeys, a \in Aggregates : CommitsTo(c, k, a)
            BY <2>2, CommitEffect
        <3>2. /\ orders' = [orders EXCEPT ![a] = pending[c]]
              /\ history' = [history EXCEPT ![a] = Append(@, Entry(c))]
            BY <3>1 DEF CommitsTo
        <3>3. CASE o = a
            BY <1>1, <3>1, <3>2, <3>3, WalkGoesOn DEF IInv, TypeOK
        <3>4. CASE o # a
            BY <1>1, <3>2, <3>4 DEF IInv, TypeOK
        <3> QED
            BY <3>3, <3>4
    <2> QED
        BY <2>1, <2>2
<1> QED
    BY <1>2, <1>3, InvariantOfSpec, PTL DEF Spec

-----------------------------------------------------------------------------
(* The history and the ledger *)

\* The operations of an order's history, and of its committed ledger rows.
Recorded(o) == {OperationOf(history[o], i) : i \in DOMAIN history[o]}
Answered(o) == {k \in CommittedOps : ledger[k].result = o}

\* D06 and ADR 0008, "one operation-keyed history record in the same transaction":
\* an order's history rows are its committed ledger rows.
THEOREM HistoryHasItsOperations == Spec => []HistoryMatchesLedger
<1>1. HistoryMatchesLedger <=> \A o \in Aggregates : Recorded(o) = Answered(o)
    BY DEF HistoryMatchesLedger, Recorded, Answered
<1>2. Init => HistoryMatchesLedger
    BY DEF Init, LedgerInit, NoRow, HistoryMatchesLedger, CommittedOps, Committed
<1>3. IInv /\ HistoryIsTheWalk /\ HistoryMatchesLedger /\ [Next]_vars => HistoryMatchesLedger'
    <2> SUFFICES ASSUME IInv, HistoryIsTheWalk, HistoryMatchesLedger, [Next]_vars,
                        NEW o \in Aggregates
                 PROVE  Recorded(o)' = Answered(o)'
        BY DEF HistoryMatchesLedger, Recorded, Answered
    <2>1. CASE \A c \in Calls : ~Commit(c)
        <3>1. Recorded(o)' = Recorded(o)
            BY <2>1, OtherStepsKeep DEF Recorded
        <3>2. Answered(o)' = Answered(o)
            BY <2>1, OtherStepsKeep DEF Answered, CommittedOps
        <3> QED
            BY <1>1, <3>1, <3>2
    <2>2. ASSUME NEW c \in Calls, Commit(c) PROVE Recorded(o)' = Answered(o)'
        <3> PICK k \in OpKeys, a \in Aggregates : CommitsTo(c, k, a)
            BY <2>2, CommitEffect
        <3>1. /\ history' = [history EXCEPT ![a] = Append(@, Entry(c))]
              /\ ledger'[k].result = a
              /\ Entry(c) \in HistoryRows
              /\ k = OpKey(request[c])
              /\ request[c] \in Requests
            BY DEF CommitsTo
        <3>2. /\ ~Committed(k)
              /\ Committed(k)'
              /\ \A j \in OpKeys \ {k} :
                   (Committed(j)' <=> Committed(j)) /\ ledger'[j] = ledger[j]
            BY CommitCommits
        <3>3. Answered(a)' = Answered(a) \cup {k}
            BY <3>1, <3>2 DEF Answered, CommittedOps
        <3>4. o # a => Answered(o)' = Answered(o)
            BY <3>1, <3>2 DEF Answered, CommittedOps
        <3>5. o # a => Recorded(o)' = Recorded(o)
            BY <3>1 DEF Recorded, IInv, TypeOK
        <3>6. Recorded(a)' = Recorded(a) \cup {k}
            <4> DEFINE h == history[a]
                       g == Append(h, Entry(c))
            <4>1. PICK n \in Nat :
                    /\ n = Len(h)
                    /\ DOMAIN h = 1..n
                    /\ DOMAIN g = 1..(n + 1)
                    /\ g[n + 1] = Entry(c)
                    /\ \A i \in 1..n : g[i] = h[i]
                <5>1. h \in Seq(HistoryRows)
                    BY DEF IInv, TypeOK
                <5>2. /\ g \in Seq(HistoryRows)
                      /\ Len(g) = Len(h) + 1
                      /\ g[Len(h) + 1] = Entry(c)
                      /\ \A i \in 1..Len(h) : g[i] = h[i]
                    BY <3>1, <5>1, AppendProperties
                <5> HIDE DEF g, h
                <5>3. /\ Len(h) \in Nat
                      /\ DOMAIN h = 1..Len(h)
                      /\ DOMAIN g = 1..Len(g)
                    BY <5>1, <5>2
                <5> QED
                    BY <5>2, <5>3
            <4>2. history'[a] = g
                BY <3>1 DEF IInv, TypeOK
            <4>3. n = orders[a].version
                BY <4>1 DEF HistoryIsTheWalk
            <4>4. n = 0 <=> request[c].type = "create-order"
                <5>1. CASE request[c].type = "create-order"
                    BY <4>3, <5>1 DEF CommitsTo, WrittenIsNext, NoOrder
                <5>2. CASE request[c].type # "create-order"
                    BY <4>3, <5>2 DEF CommitsTo, IInv, RowsHaveVersions
                <5> QED
                    BY <5>1, <5>2
            <4>5. Entry(c).by = request[c].actor /\ Entry(c).key = request[c].key
                BY DEF Entry
            <4> HIDE DEF g, h
            <4>6. OperationOf(g, n + 1) = k
                BY <3>1, <4>1, <4>4, <4>5, RequestFields DEF OperationOf, OpKey
            <4>7. \A i \in 1..n : OperationOf(g, i) = OperationOf(h, i)
                BY <4>1 DEF OperationOf
            <4>8. Recorded(a) = {OperationOf(h, i) : i \in 1..n}
                BY <4>1 DEF Recorded, h
            <4>9. Recorded(a)' = {OperationOf(g, i) : i \in 1..(n + 1)}
                BY <4>1, <4>2 DEF Recorded, OperationOf
            <4>10. 1..(n + 1) = 1..n \cup {n + 1}
                OBVIOUS
            <4> QED
                BY <4>6, <4>7, <4>8, <4>9, <4>10
        <3> QED
            BY <1>1, <3>3, <3>4, <3>5, <3>6
    <2> QED
        BY <2>1, <2>2
<1> QED
    BY <1>2, <1>3, InvariantOfSpec, HistoryCorrect, PTL DEF Spec

-----------------------------------------------------------------------------
(* Prices and terminal states *)

\* What a COMMIT does to the order's total, and to an order that has ended.
LEMMA CommitKeepsTotal ==
    ASSUME IInv, NEW c \in Calls, NEW k \in OpKeys, NEW o \in Aggregates,
           CommitsTo(c, k, o)
    PROVE  /\ orders[o] # NoOrder => pending[c].total = orders[o].total
           /\ orders[o] = NoOrder =>
                request[c].type = "create-order" /\ pending[c].total = request[c].price
           /\ orders[o].status \notin {"delivered", "cancelled"}
<1>1. CASE request[c].type = "create-order"
    BY <1>1 DEF CommitsTo, WrittenIsNext, NoOrder
<1>2. CASE request[c].type # "create-order"
    <2>1. /\ orders[o] # NoOrder
          /\ orders[o] \in OrderRows
          /\ orders[o].status = entity[c].status
          /\ pending[c] = Transitioned(orders[o], request[c].to)
          /\ Accepts(entity[c], request[c])
        BY <1>2 DEF CommitsTo, WrittenIsNext, ReadMatches, IInv, TypeOK
    <2>2. request[c].to \in OrderStatus
        BY RequestFields DEF CommitsTo
    <2>3. request[c].to \in Successors[orders[o].status]
        BY <2>1 DEF Accepts
    <2> QED
        BY <2>1, <2>2, <2>3, NextRow DEF Successors
<1> QED
    BY <1>1, <1>2

\* An order is charged the price its own request was fingerprinted with, whenever
\* the seller changes the product's.
THEOREM PriceIsFingerprinted == Spec => []ChargedAsFingerprinted
<1>1. Init => ChargedAsFingerprinted
    BY DEF Init, LedgerInit, NoRow, ChargedAsFingerprinted, CommittedOps, Committed
<1>2. IInv /\ ChargedAsFingerprinted /\ [Next]_vars => ChargedAsFingerprinted'
    <2> SUFFICES ASSUME IInv, ChargedAsFingerprinted, [Next]_vars,
                        NEW j \in OpKeys, Committed(j)', j[2] = "create-order"
                 PROVE  orders'[ledger'[j].result].total = ledger'[j].request.price
        BY DEF ChargedAsFingerprinted, CommittedOps
    <2>1. Committed(j) =>
            /\ ledger[j].result \in Aggregates
            /\ orders[ledger[j].result] # NoOrder
            /\ orders[ledger[j].result].total = ledger[j].request.price
        BY DEF IInv, ClaimsMatchCalls, RowMatches, ChargedAsFingerprinted, CommittedOps
    <2>2. CASE \A c \in Calls : ~Commit(c)
        BY <2>1, <2>2, OtherStepsKeep
    <2>3. ASSUME NEW c \in Calls, Commit(c)
          PROVE  orders'[ledger'[j].result].total = ledger'[j].request.price
        <3> PICK k \in OpKeys, o \in Aggregates : CommitsTo(c, k, o)
            BY <2>3, CommitEffect
        <3>1. /\ orders'[o] = pending[c]
              /\ \A a \in Aggregates \ {o} : orders'[a] = orders[a]
              /\ ledger'[k].result = o
              /\ ledger'[k].request = request[c]
              /\ k = OpKey(request[c])
            BY DEF CommitsTo, IInv, TypeOK
        <3>2. CASE j = k
            <4>1. request[c].type = "create-order"
                BY <3>1, <3>2 DEF OpKey
            <4>2. orders[o] = NoOrder
                BY <4>1 DEF CommitsTo, WrittenIsNext
            <4> QED
                BY <3>1, <3>2, <4>2, CommitKeepsTotal
        <3>3. CASE j # k
            <4>1. Committed(j) /\ ledger'[j] = ledger[j]
                BY <3>3, CommitCommits
            <4> QED
                BY <2>1, <3>1, <4>1, CommitKeepsTotal
        <3> QED
            BY <3>2, <3>3
    <2> QED
        BY <2>2, <2>3
<1> QED
    BY <1>1, <1>2, InvariantOfSpec, PTL DEF Spec

\* Nothing that was accepted before an order ended changes it afterwards.
THEOREM EndedOrdersRest == Spec => TerminalOrdersRest
<1>1. IInv /\ [Next]_vars =>
        [\A o \in Aggregates :
           orders[o].status \in {"delivered", "cancelled"} => orders'[o] = orders[o]]_vars
    <2> SUFFICES ASSUME IInv, [Next]_vars, NEW o \in Aggregates,
                        orders[o].status \in {"delivered", "cancelled"}
                 PROVE  orders'[o] = orders[o]
        OBVIOUS
    <2>1. CASE \A c \in Calls : ~Commit(c)
        BY <2>1, OtherStepsKeep
    <2>2. ASSUME NEW c \in Calls, Commit(c) PROVE orders'[o] = orders[o]
        <3> PICK k \in OpKeys, a \in Aggregates : CommitsTo(c, k, a)
            BY <2>2, CommitEffect
        <3>1. o # a
            BY CommitKeepsTotal
        <3> QED
            BY <3>1 DEF CommitsTo, IInv, TypeOK
    <2> QED
        BY <2>1, <2>2
<1> QED
    BY <1>1, InvariantOfSpec, PTL DEF Spec, TerminalOrdersRest

-----------------------------------------------------------------------------
(* Orders keep the promise of VersionedAggregate *)

LEMMA CommitApplies ==
    ASSUME IInv, NEW c \in Calls, NEW k \in OpKeys, NEW o \in Aggregates,
           CommitsTo(c, k, o)
    PROVE  Promise!Apply(k, o)
<1>1. /\ orders'[o] = pending[c]
      /\ \A a \in Aggregates \ {o} : orders'[a] = orders[a]
      /\ ledger'[k].result = o
      /\ ledger'[k].request = request[c]
    BY DEF CommitsTo, IInv, TypeOK
<1>2. request[c].version = orders[o].version /\ pending[c].version = orders[o].version + 1
    <2>1. CASE request[c].type = "create-order"
        BY <2>1, RequestFields DEF CommitsTo, WrittenIsNext, NoOrder
    <2>2. CASE request[c].type # "create-order"
        BY <2>2, RequestFields DEF CommitsTo, WrittenIsNext, Transitioned
    <2> QED
        BY <2>1, <2>2
<1>3. /\ ~Committed(k)
      /\ Committed(k)'
      /\ \A j \in OpKeys \ {k} : (Committed(j)' <=> Committed(j)) /\ ledger'[j] = ledger[j]
    BY CommitCommits
<1>4. AppliedOperations[k] = {} /\ VersionColumn[o] = orders[o].version
    BY <1>3 DEF AppliedOperations, VersionColumn
<1>5. AppliedOperations' = [AppliedOperations EXCEPT ![k] = {<<o, VersionColumn[o]>>}]
    BY <1>1, <1>2, <1>3, <1>4 DEF AppliedOperations
<1>6. VersionColumn' = [VersionColumn EXCEPT ![o] = @ + 1]
    BY <1>1, <1>2 DEF VersionColumn
<1> QED
    BY <1>4, <1>5, <1>6 DEF Promise!Apply

\* Creation and transition, their checks, transactions, crashes and retries
\* implement VersionedAggregate, with the version column as its version and the
\* committed ledger rows as its applied operations.
THEOREM PromiseKept == Spec => KeepsPromise
<1>1. Init => Promise!Init
    BY DEF Init, LedgerInit, NoOrder, NoRow, Promise!Init, Committed, VersionColumn,
           AppliedOperations
<1>2. IInv /\ [Next]_vars => [Promise!Next]_Promise!vars
    <2> SUFFICES ASSUME IInv, [Next]_vars
                 PROVE  [Promise!Next]_Promise!vars
        OBVIOUS
    <2>1. ASSUME NEW c \in Calls, Commit(c) PROVE Promise!Next
        BY <2>1, CommitEffect, CommitApplies DEF Promise!Next
    <2>2. CASE \A c \in Calls : ~Commit(c)
        BY <2>2, OtherStepsKeep DEF Promise!vars, VersionColumn, AppliedOperations
    <2> QED
        BY <2>1, <2>2
<1> QED
    BY <1>1, <1>2, InvariantOfSpec, PTL DEF Spec, KeepsPromise, Promise!Spec
=============================================================================
