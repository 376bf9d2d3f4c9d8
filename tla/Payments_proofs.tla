--------------------------- MODULE Payments_proofs ---------------------------
(***************************************************************************)
(* Proofs about Payments for every set of calls, actors, keys and orders.   *)
(***************************************************************************)
EXTENDS Payments, FiniteSetTheorems, TLAPS

\* What membership in Requests says of a request's fields.
LEMMA RequestFields ==
    ASSUME NEW r \in Requests
    PROVE  /\ OpKey(r) \in OpKeys
           /\ r.aggregate \in Aggregates
           /\ r.version \in Nat
           /\ r.amount \in Nat
           /\ r.type \in {"create-payment", "mark-payment-paid", "refund-payment"}
           /\ r.type = "create-payment" => r.version = 0 /\ r.amount = 0
           /\ r.type = "mark-payment-paid" => r.amount = 0
<1> USE PaymentsAssumption
<1>1. CASE r \in CreateRequests
    <2>1. /\ r.actor \in Actors
          /\ r.type = "create-payment"
          /\ r.key \in IdempotencyKeys
          /\ r.aggregate \in Aggregates
          /\ r.version = 0
          /\ r.amount = 0
        BY <1>1 DEF CreateRequests
    <2> QED
        BY <2>1 DEF OpKey, OpKeys
<1>2. CASE r \in MarkPaidRequests
    <2>1. /\ r.actor \in Actors
          /\ r.type = "mark-payment-paid"
          /\ r.key \in IdempotencyKeys
          /\ r.aggregate \in Aggregates
          /\ r.version \in Versions
          /\ r.amount = 0
        BY <1>2 DEF MarkPaidRequests
    <2>2. r.version \in Nat
        BY <2>1
    <2>3. OpKey(r) \in OpKeys
        BY <2>1 DEF OpKey, OpKeys
    <2> QED
        BY <2>1, <2>2, <2>3
<1>3. CASE r \in RefundRequests
    BY <1>3 DEF RefundRequests, OpKey, OpKeys
<1> QED
    BY <1>1, <1>2, <1>3 DEF Requests

\* The invariant holds before the first request.
LEMMA InitIInv == Init => IInv
<1> SUFFICES ASSUME Init PROVE IInv
    OBVIOUS
<1> USE DEF Init, LedgerInit, NoRow, NoPayment
<1>1. TypeOK
    BY PaymentsAssumption DEF TypeOK, Stages, PaymentRows, PaymentStatus
<1>2. ClaimsMatchCalls
    BY NullAssumption DEF ClaimsMatchCalls, InTransaction, Committed
<1>3. LocksMatchCalls
    BY NullAssumption DEF LocksMatchCalls
<1>4. ReadsAccepted /\ WritesAreNext
    BY DEF ReadsAccepted, WritesAreNext
<1>5. VersionsUsed
    BY DEF VersionsUsed, CommittedOps, Committed
<1> QED
    BY <1>1, <1>2, <1>3, <1>4, <1>5 DEF IInv

\* A rollback, and what its caller does to the transaction's local copies,
\* preserves the invariant: it is the end of every failing stage and of a crash.
LEMMA RollbackIInv ==
    ASSUME IInv, NEW c \in Calls, Rollback(c),
           payments' = payments, acknowledged' = acknowledged,
           entity' \in {entity, [entity EXCEPT ![c] = NoPayment]},
           pending' \in {pending, [pending EXCEPT ![c] = NoPayment]}
    PROVE  IInv'
<1> USE DEF IInv, Rollback, End
<1>1. TypeOK'
    <2>1. ledger' \in [OpKeys ->
              [status : {"absent", "started", "completed"},
               request : Requests \cup {NULL},
               owner : Calls \cup {NULL},
               result : Aggregates \cup {NULL}]]
        BY DEF TypeOK, NoRow
    <2>2. /\ pc' \in [Calls -> Stages]
          /\ request' \in [Calls -> Requests \cup {NULL}]
          /\ lock' \in [Aggregates -> Calls \cup {NULL}]
        BY DEF TypeOK, Stages
    <2>3. /\ entity' \in [Calls -> PaymentRows]
          /\ pending' \in [Calls -> PaymentRows]
        <3>1. NoPayment \in PaymentRows
            BY DEF NoPayment, PaymentRows, PaymentStatus
        <3> QED
            BY <3>1 DEF TypeOK
    <2> QED
        BY <2>1, <2>2, <2>3 DEF TypeOK
<1>2. ClaimsMatchCalls'
    BY NullAssumption, RequestFields
    DEF ClaimsMatchCalls, TypeOK, NoRow, InTransaction, Committed
<1>3. LocksMatchCalls'
    BY NullAssumption, RequestFields DEF LocksMatchCalls, TypeOK, ClaimsMatchCalls
<1>4. ReadsAccepted'
    BY DEF ReadsAccepted, TypeOK, DomainAccepts, CanMarkPaid, CanRefund
<1>5. WritesAreNext'
    BY DEF WritesAreNext, TypeOK
<1>6. VersionsUsed'
    BY NullAssumption DEF VersionsUsed, TypeOK, CommittedOps, Committed, NoRow
<1> QED
    BY <1>1, <1>2, <1>3, <1>4, <1>5, <1>6

\* A step of call c that leaves the ledger's rows, the locks and every table row
\* alone, outside transactions: a request arrives, a check ends, a key is found.
LEMMA OutsideIInv ==
    ASSUME IInv, NEW c \in Calls,
           pc[c] \notin InTransaction,
           pc' \in {[pc EXCEPT ![c] = s] : s \in Stages \ InTransaction},
           request' \in [Calls -> Requests \cup {NULL}],
           \A d \in Calls \ {c} : request'[d] = request[d],
           pc'[c] # "idle" => request'[c] \in Requests,
           UNCHANGED <<ledger, lock, payments, entity, pending, acknowledged>>
    PROVE  IInv'
<1> USE DEF IInv
<1>1. pc' \in [Calls -> Stages] /\ \A d \in Calls \ {c} : pc'[d] = pc[d]
    BY DEF TypeOK
<1>2. pc'[c] \in Stages \ InTransaction
    BY DEF TypeOK
<1>3. TypeOK'
    BY <1>1 DEF TypeOK
<1>4. ClaimsMatchCalls'
    <2>1. \A d \in Calls : d # c => pc'[d] = pc[d] /\ request'[d] = request[d]
        BY <1>1
    <2>2. \A d \in Calls : pc'[d] \in InTransaction => d # c
        BY <1>2
    <2>3. \A k \in OpKeys : ledger[k].owner \in Calls => ledger[k].owner # c
        BY DEF ClaimsMatchCalls
    <2> QED
        BY <2>1, <2>2, <2>3 DEF ClaimsMatchCalls, Committed
<1>5. LocksMatchCalls'
    BY <1>1, <1>2 DEF LocksMatchCalls, TypeOK, InTransaction
<1>6. ReadsAccepted'
    BY <1>1, <1>2
    DEF ReadsAccepted, InTransaction, DomainAccepts, CanMarkPaid, CanRefund
<1>7. WritesAreNext'
    BY <1>1, <1>2 DEF WritesAreNext, InTransaction
<1>8. VersionsUsed'
    BY DEF VersionsUsed, CommittedOps, Committed
<1> QED
    BY <1>3, <1>4, <1>5, <1>6, <1>7, <1>8

LEMMA ReceiveIInv ==
    ASSUME IInv, NEW c \in Calls, ReceiveRequest(c)
    PROVE  IInv'
<1>1. PICK r \in Requests : Receive(c, r)
    BY DEF ReceiveRequest
<1> QED
    BY <1>1, OutsideIInv
    DEF Receive, ReceiveRequest, IInv, TypeOK, Stages, InTransaction

LEMMA CheckIInv ==
    ASSUME IInv, NEW c \in Calls, Check(c)
    PROVE  IInv'
BY OutsideIInv
   DEF Check, CheckThen, End, IInv, TypeOK, ClaimsMatchCalls, Stages, InTransaction

LEMMA ClaimIInv ==
    ASSUME IInv, NEW c \in Calls, Claim(c)
    PROVE  IInv'
<1> DEFINE k == OpKey(request[c])
           next == IF request[c].type = "create-payment" THEN "writing" ELSE "reading"
<1>1. CASE ClaimExisting(c)
    BY <1>1, OutsideIInv
    DEF ClaimExisting, Claim, End, IInv, TypeOK, Stages, InTransaction
<1>2. CASE ClaimNew(c, next)
    <2> USE <1>2 DEF ClaimNew, Claim, IInv
    <2>1. request[c] \in Requests /\ k \in OpKeys
        BY RequestFields DEF ClaimsMatchCalls
    <2>2. /\ ledger' = [ledger EXCEPT ![k] =
                 [status |-> "started", request |-> request[c], owner |-> c, result |-> NULL]]
          /\ ledger[k].status = "absent"
          /\ pc' = [pc EXCEPT ![c] = next]
          /\ next \in {"writing", "reading"}
        OBVIOUS
    <2> HIDE DEF k, next
    <2>3. TypeOK'
        BY <2>1, <2>2 DEF TypeOK, Stages
    <2>4. ClaimsMatchCalls'
        <3>1. ledger[k].owner \notin Calls
            BY <2>1, <2>2 DEF ClaimsMatchCalls
        <3>2. \A d \in Calls \ {c} : pc[d] \in InTransaction => OpKey(request[d]) # k
            BY <3>1 DEF ClaimsMatchCalls
        <3> QED
            BY <2>1, <2>2, <3>1, <3>2, NullAssumption, RequestFields
            DEF ClaimsMatchCalls, TypeOK, InTransaction, Committed, k
    <2>5. LocksMatchCalls'
        BY <2>2 DEF LocksMatchCalls, TypeOK
    <2>6. ReadsAccepted'
        BY <2>2 DEF ReadsAccepted, TypeOK, DomainAccepts, CanMarkPaid, CanRefund, next
    <2>7. WritesAreNext'
        BY <2>2 DEF WritesAreNext, TypeOK
    <2>8. VersionsUsed'
        BY <2>1, <2>2, NullAssumption DEF VersionsUsed, TypeOK, CommittedOps, Committed
    <2> QED
        BY <2>3, <2>4, <2>5, <2>6, <2>7, <2>8
<1> QED
    BY <1>1, <1>2 DEF Claim

LEMMA ReadIInv ==
    ASSUME IInv, NEW c \in Calls, Read(c)
    PROVE  IInv'
<1> DEFINE p == payments[request[c].aggregate]
<1>1. CASE ~DomainAccepts(p, request[c])
    BY <1>1, RollbackIInv DEF Read
<1>2. CASE DomainAccepts(p, request[c])
    <2>1. /\ pc[c] = "reading"
          /\ pc' = [pc EXCEPT ![c] = "writing"]
          /\ entity' = [entity EXCEPT ![c] = p]
          /\ UNCHANGED <<ledger, request, lock, payments, pending, acknowledged>>
        BY <1>2 DEF Read
    <2> USE <2>1 DEF IInv
    <2>2. p \in PaymentRows
        BY RequestFields DEF ClaimsMatchCalls, TypeOK
    <2>3. TypeOK'
        BY <2>2 DEF TypeOK, Stages
    <2>4. ClaimsMatchCalls'
        BY DEF ClaimsMatchCalls, TypeOK, InTransaction, Committed
    <2>5. LocksMatchCalls'
        BY DEF LocksMatchCalls, TypeOK
    <2>6. ReadsAccepted'
        BY <1>2 DEF ReadsAccepted, TypeOK, DomainAccepts, CanMarkPaid, CanRefund
    <2>7. WritesAreNext'
        BY DEF WritesAreNext, TypeOK
    <2>8. VersionsUsed'
        BY DEF VersionsUsed, CommittedOps, Committed
    <2> QED
        BY <2>3, <2>4, <2>5, <2>6, <2>7, <2>8
<1> QED
    BY <1>1, <1>2

\* What a successful write leaves in the transaction: the next version of the
\* row the request named, refunded within the amount.
LEMMA ChangedRow ==
    ASSUME IInv, NEW c \in Calls, pc[c] = "writing", WriteMatches(c)
    PROVE  LET o == request[c].aggregate
               row == Changed(payments[o], entity[c], request[c])
           IN  /\ row \in PaymentRows
               /\ request[c].version = payments[o].version
               /\ row.version = payments[o].version + 1
               /\ row.refunded <= Total[o]
<1> DEFINE r == request[c]
           o == r.aggregate
           row == Changed(payments[o], entity[c], r)
<1>1. r \in Requests
    BY DEF IInv, ClaimsMatchCalls
<1>2. /\ o \in Aggregates
      /\ payments[o] \in PaymentRows
      /\ entity[c] \in PaymentRows
      /\ payments[o].refunded <= Total[o]
      /\ Total[o] \in Nat
    BY <1>1, RequestFields, PaymentsAssumption DEF IInv, TypeOK
<1>3. CASE r.type = "create-payment"
    BY <1>1, <1>2, <1>3, RequestFields
    DEF WriteMatches, Changed, NoPayment, PaymentRows, PaymentStatus
<1>4. CASE r.type = "mark-payment-paid"
    BY <1>1, <1>2, <1>4 DEF WriteMatches, Changed, PaymentRows, PaymentStatus
<1>5. CASE r.type = "refund-payment"
    <2>1. entity[c].refunded + r.amount <= Total[o]
        BY <1>5 DEF IInv, ReadsAccepted, DomainAccepts, CanRefund
    <2> QED
        BY <1>1, <1>2, <1>5, <2>1, RequestFields
        DEF WriteMatches, Changed, RefundStatus, PaymentRows, PaymentStatus
<1> QED
    BY <1>1, <1>3, <1>4, <1>5, RequestFields

LEMMA WriteIInv ==
    ASSUME IInv, NEW c \in Calls, Write(c)
    PROVE  IInv'
<1> DEFINE o == request[c].aggregate
           k == OpKey(request[c])
           row == Changed(payments[o], entity[c], request[c])
<1>1. CASE ~WriteMatches(c)
    BY <1>1, RollbackIInv DEF Write
<1>2. CASE WriteMatches(c)
    <2>1. /\ pc[c] = "writing"
          /\ lock[o] = NULL
          /\ pending' = [pending EXCEPT ![c] = row]
          /\ lock' = [lock EXCEPT ![o] = c]
          /\ pc' = [pc EXCEPT ![c] = "committing"]
          /\ UNCHANGED <<request, entity, payments, acknowledged>>
        BY <1>2 DEF Write
    <2>2. /\ request[c] \in Requests
          /\ k \in OpKeys
          /\ o \in Aggregates
          /\ ledger[k].owner = c
          /\ ledger[k].request = request[c]
          /\ ledger[k].status = "started"
        BY <2>1, RequestFields DEF IInv, ClaimsMatchCalls, InTransaction
    <2>3. ledger' = [ledger EXCEPT ![k] =
               [status |-> "completed", request |-> request[c], owner |-> c, result |-> o]]
        BY <1>2, <2>2 DEF Write, Complete
    <2>4. /\ row \in PaymentRows
          /\ request[c].version = payments[o].version
          /\ row.version = payments[o].version + 1
          /\ row.refunded <= Total[o]
        BY <1>2, <2>1, ChangedRow
    <2> HIDE DEF row
    <2>5. TypeOK'
        BY <2>1, <2>2, <2>3, <2>4 DEF IInv, TypeOK, Stages
    <2>6. ClaimsMatchCalls'
        <3>1. \A d \in Calls \ {c} : pc[d] \in InTransaction => OpKey(request[d]) # k
            BY <2>2 DEF IInv, ClaimsMatchCalls
        <3> QED
            BY <2>1, <2>2, <2>3, <3>1, NullAssumption, RequestFields
            DEF IInv, ClaimsMatchCalls, TypeOK, InTransaction, Committed
    <2>7. LocksMatchCalls'
        BY <2>1, <2>2, NullAssumption DEF IInv, LocksMatchCalls, TypeOK
    <2>8. ReadsAccepted'
        BY <2>1 DEF IInv, ReadsAccepted, TypeOK, DomainAccepts, CanMarkPaid, CanRefund
    <2>9. WritesAreNext'
        BY <2>1, <2>4 DEF IInv, WritesAreNext, TypeOK
    <2>10. VersionsUsed'
        BY <2>2, <2>3, <2>1, NullAssumption
        DEF IInv, VersionsUsed, TypeOK, CommittedOps, Committed
    <2> QED
        BY <2>5, <2>6, <2>7, <2>8, <2>9, <2>10 DEF IInv
<1> QED
    BY <1>1, <1>2

\* Facts of a committing call: its ledger row, its payment and its lock.
LEMMA Committing ==
    ASSUME IInv, NEW c \in Calls, pc[c] = "committing"
    PROVE  LET k == OpKey(request[c])  o == request[c].aggregate IN
           /\ request[c] \in Requests
           /\ k \in OpKeys
           /\ o \in Aggregates
           /\ ledger[k] = [status |-> "completed", request |-> request[c], owner |-> c,
                          result |-> o]
           /\ \A d \in Calls \ {c} : pc[d] \in InTransaction => OpKey(request[d]) # k
           /\ \A d \in Calls \ {c} : pc[d] = "committing" => request[d].aggregate # o
           /\ request[c].version = payments[o].version
           /\ pending[c].version = payments[o].version + 1
           /\ pending[c].refunded <= Total[o]
<1> USE DEF IInv
<1>1. /\ request[c] \in Requests
      /\ OpKey(request[c]) \in OpKeys
      /\ request[c].aggregate \in Aggregates
    BY RequestFields DEF ClaimsMatchCalls
<1>2. ledger[OpKey(request[c])]
        = [status |-> "completed", request |-> request[c], owner |-> c,
           result |-> request[c].aggregate]
    BY <1>1 DEF ClaimsMatchCalls, InTransaction, TypeOK
<1> QED
    BY <1>1, <1>2 DEF ClaimsMatchCalls, LocksMatchCalls, WritesAreNext, InTransaction

LEMMA CommitIInv ==
    ASSUME IInv, NEW c \in Calls, Commit(c)
    PROVE  IInv'
<1> DEFINE o == request[c].aggregate
           k == OpKey(request[c])
<1>1. /\ pc[c] = "committing"
      /\ ledger' = [ledger EXCEPT ![k].owner = NULL]
      /\ lock' = [a \in Aggregates |-> IF lock[a] = c THEN NULL ELSE lock[a]]
      /\ pc' = [pc EXCEPT ![c] = "idle"]
      /\ request' = [request EXCEPT ![c] = NULL]
      /\ payments' = [payments EXCEPT ![o] = pending[c]]
      /\ acknowledged' = [acknowledged EXCEPT ![o] = @ + request[c].amount]
      /\ entity' = [entity EXCEPT ![c] = NoPayment]
      /\ pending' = [pending EXCEPT ![c] = NoPayment]
    BY DEF Commit, CommitLedger, End
<1>2. /\ request[c] \in Requests
      /\ k \in OpKeys
      /\ o \in Aggregates
      /\ ledger[k] = [status |-> "completed", request |-> request[c], owner |-> c,
                          result |-> o]
      /\ \A d \in Calls \ {c} : pc[d] \in InTransaction => OpKey(request[d]) # k
      /\ \A d \in Calls \ {c} : pc[d] = "committing" => request[d].aggregate # o
      /\ request[c].version = payments[o].version
      /\ pending[c].version = payments[o].version + 1
      /\ pending[c].refunded <= Total[o]
    BY <1>1, Committing
<1>3. TypeOK'
    <2>1. NoPayment \in PaymentRows
        BY DEF NoPayment, PaymentRows, PaymentStatus
    <2>2. /\ payments' \in [Aggregates -> PaymentRows]
          /\ \A a \in Aggregates : payments'[a].refunded <= Total[a]
          /\ acknowledged' \in [Aggregates -> Nat]
        BY <1>1, <1>2, RequestFields DEF IInv, TypeOK
    <2>3. ledger' \in [OpKeys ->
              [status : {"absent", "started", "completed"},
               request : Requests \cup {NULL},
               owner : Calls \cup {NULL},
               result : Aggregates \cup {NULL}]]
        BY <1>1, <1>2 DEF IInv, TypeOK
    <2>4. /\ pc' \in [Calls -> Stages]
          /\ request' \in [Calls -> Requests \cup {NULL}]
          /\ lock' \in [Aggregates -> Calls \cup {NULL}]
        BY <1>1 DEF IInv, TypeOK, Stages
    <2>5. entity' \in [Calls -> PaymentRows] /\ pending' \in [Calls -> PaymentRows]
        BY <1>1, <2>1 DEF IInv, TypeOK
    <2> QED
        BY <2>2, <2>3, <2>4, <2>5 DEF TypeOK
<1>4. ClaimsMatchCalls'
    BY <1>1, <1>2, NullAssumption
    DEF IInv, ClaimsMatchCalls, TypeOK, InTransaction, Committed
<1>5. LocksMatchCalls'
    BY <1>1, <1>2, NullAssumption, RequestFields
    DEF IInv, LocksMatchCalls, TypeOK, ClaimsMatchCalls
<1>6. ReadsAccepted'
    BY <1>1 DEF IInv, ReadsAccepted, TypeOK, DomainAccepts, CanMarkPaid, CanRefund
<1>7. WritesAreNext'
    BY <1>1, <1>2 DEF IInv, WritesAreNext, TypeOK
<1>8. VersionsUsed'
    <2> SUFFICES ASSUME NEW j \in OpKeys, Committed(j)'
                 PROVE  ledger'[j].request.version
                          < payments'[ledger'[j].request.aggregate].version
        BY DEF VersionsUsed, CommittedOps
    <2>1. CASE j = k
        BY <1>1, <1>2, <2>1, RequestFields DEF IInv, TypeOK, PaymentRows
    <2>2. CASE j # k
        <3>1. /\ ledger'[j] = ledger[j]
              /\ ledger[j].request.version
                   < payments[ledger[j].request.aggregate].version
              /\ ledger[j].request \in Requests
            BY <1>1, <2>2 DEF IInv, VersionsUsed, CommittedOps, Committed,
                              ClaimsMatchCalls, TypeOK
        <3>2. payments[o].version \in Nat
            BY <1>2 DEF IInv, TypeOK, PaymentRows
        <3> QED
            BY <1>1, <1>2, <3>1, <3>2, RequestFields DEF IInv, TypeOK
    <2> QED
        BY <2>1, <2>2
<1> QED
    BY <1>3, <1>4, <1>5, <1>6, <1>7, <1>8 DEF IInv

LEMMA NextIInv ==
    ASSUME IInv, [Next]_vars
    PROVE  IInv'
<1>1. CASE UNCHANGED vars
    BY <1>1
    DEF vars, ledgerVars, IInv, TypeOK, ClaimsMatchCalls, LocksMatchCalls,
        ReadsAccepted, WritesAreNext, VersionsUsed, CommittedOps, Committed,
        DomainAccepts, CanMarkPaid, CanRefund
<1>2. ASSUME NEW c \in Calls, CrashCall(c) PROVE IInv'
    BY <1>2, RollbackIInv DEF CrashCall, Crash
<1> QED
    BY <1>1, <1>2, ReceiveIInv, CheckIInv, ClaimIInv, ReadIInv, WriteIInv, CommitIInv
    DEF Next, Serve

\* The inductive invariant holds in every behaviour.
THEOREM InvariantOfSpec == Spec => []IInv
BY InitIInv, NextIInv, PTL DEF Spec

\* Every variable keeps its type, and the refunds recorded for a payment never
\* exceed its amount, in every interleaving of any number of calls.
THEOREM TypeCorrect == Spec => []TypeOK
BY InvariantOfSpec, PTL DEF IInv

\* A replay always finds a completed row and its payment: the "in progress" and
\* "result is missing" errors of replay() are unreachable.
THEOREM ReplaySucceeds == Spec => []ReplayFindsResult
<1>1. IInv => ReplayFindsResult
    <2> SUFFICES ASSUME IInv, NEW k \in CommittedOps
                 PROVE  /\ ledger[k].status = "completed"
                        /\ ledger[k].result = ledger[k].request.aggregate
                        /\ payments[ledger[k].result] # NoPayment
        BY DEF ReplayFindsResult, Exists
    <2>1. /\ ledger[k].status = "completed"
          /\ ledger[k].result = ledger[k].request.aggregate
          /\ ledger[k].request \in Requests
        BY DEF IInv, ClaimsMatchCalls, CommittedOps
    <2>2. ledger[k].request.version < payments[ledger[k].result].version
        BY <2>1 DEF IInv, VersionsUsed
    <2> QED
        BY <2>1, <2>2, RequestFields DEF NoPayment
<1> QED
    BY <1>1, InvariantOfSpec, PTL

-----------------------------------------------------------------------------
(* One winner per version *)

\* A committed row of the next state was committed already, or it is the row of
\* the call that commits, which names the version its payment has now.
LEMMA NewlyCommitted ==
    ASSUME IInv, [Next]_vars, NEW k \in OpKeys, Committed(k)'
    PROVE  \/ Committed(k) /\ ledger'[k] = ledger[k]
           \/ \E c \in Calls :
                /\ Commit(c)
                /\ k = OpKey(request[c])
                /\ ledger'[k].request = request[c]
<1>1. CASE UNCHANGED vars
    BY <1>1 DEF vars, ledgerVars, Committed
<1>2. ASSUME NEW c \in Calls, Rollback(c)
      PROVE  Committed(k) /\ ledger'[k] = ledger[k]
    BY <1>2, NullAssumption DEF Rollback, Committed, NoRow
<1>3. ASSUME NEW c \in Calls, UNCHANGED ledger
      PROVE  Committed(k) /\ ledger'[k] = ledger[k]
    BY <1>3 DEF Committed
<1>4. ASSUME NEW c \in Calls, NEW next, ClaimNew(c, next)
      PROVE  Committed(k) /\ ledger'[k] = ledger[k]
    BY <1>4, NullAssumption DEF ClaimNew, Committed, IInv, TypeOK
<1>5. ASSUME NEW c \in Calls, pc[c] = "writing", Complete(c, request[c].aggregate)
      PROVE  Committed(k) /\ ledger'[k] = ledger[k]
    <2>1. ledger[OpKey(request[c])].owner = c
        BY <1>5 DEF IInv, ClaimsMatchCalls, InTransaction
    <2> QED
        BY <1>5, <2>1, NullAssumption DEF Complete, Committed, IInv, TypeOK
<1>6. ASSUME NEW c \in Calls, Commit(c), k # OpKey(request[c])
      PROVE  Committed(k) /\ ledger'[k] = ledger[k]
    BY <1>6 DEF Commit, CommitLedger, Committed, IInv, TypeOK
<1>7. ASSUME NEW c \in Calls, Commit(c), k = OpKey(request[c])
      PROVE  ledger'[k].request = request[c]
    <2>1. ledger' = [ledger EXCEPT ![k].owner = NULL] /\ pc[c] = "committing"
        BY <1>7 DEF Commit, CommitLedger
    <2>2. ledger[k].request = request[c]
        BY <1>7, <2>1 DEF IInv, ClaimsMatchCalls, InTransaction
    <2> QED
        BY <2>1, <2>2 DEF IInv, TypeOK
<1>8. ASSUME NEW c \in Calls, ReceiveRequest(c) \/ Check(c)
      PROVE  Committed(k) /\ ledger'[k] = ledger[k]
    BY <1>8, <1>3 DEF ReceiveRequest, Receive, Check, CheckThen
<1>9. ASSUME NEW c \in Calls, Claim(c)
      PROVE  Committed(k) /\ ledger'[k] = ledger[k]
    BY <1>9, <1>3, <1>4 DEF Claim, ClaimExisting
<1>10. ASSUME NEW c \in Calls, Read(c)
       PROVE  Committed(k) /\ ledger'[k] = ledger[k]
    BY <1>10, <1>2, <1>3 DEF Read
<1>11. ASSUME NEW c \in Calls, Write(c)
       PROVE  Committed(k) /\ ledger'[k] = ledger[k]
    BY <1>11, <1>2, <1>5 DEF Write
<1>12. ASSUME NEW c \in Calls, CrashCall(c)
       PROVE  Committed(k) /\ ledger'[k] = ledger[k]
    BY <1>12, <1>2 DEF CrashCall, Crash
<1> QED
    BY <1>1, <1>6, <1>7, <1>8, <1>9, <1>10, <1>11, <1>12 DEF Next, Serve

LEMMA OneWinnerStep ==
    ASSUME IInv, OneWinnerPerVersion, [Next]_vars
    PROVE  OneWinnerPerVersion'
<1> SUFFICES ASSUME NEW k1 \in OpKeys, Committed(k1)',
                    NEW k2 \in OpKeys, Committed(k2)',
                    ledger'[k1].request.aggregate = ledger'[k2].request.aggregate,
                    ledger'[k1].request.version = ledger'[k2].request.version
             PROVE  k1 = k2
    BY DEF OneWinnerPerVersion, CommittedOps
<1>1. ASSUME NEW j \in OpKeys, Committed(j), NEW c \in Calls, Commit(c),
             ledger[j].request.aggregate = request[c].aggregate,
             ledger[j].request.version = request[c].version
      PROVE  FALSE
    <2>1. request[c].version = payments[request[c].aggregate].version
        BY <1>1, Committing DEF Commit, CommitLedger
    <2>2. request[c].version < payments[request[c].aggregate].version
        BY <1>1 DEF IInv, VersionsUsed, CommittedOps
    <2>3. request[c].version \in Nat
        BY <1>1, Committing, RequestFields DEF Commit, CommitLedger
    <2> QED
        BY <2>1, <2>2, <2>3
<1>2. ASSUME NEW c \in Calls, Commit(c), NEW d \in Calls, Commit(d)
      PROVE  c = d
    BY <1>2, Committing DEF Commit, CommitLedger, End, IInv, TypeOK, Stages
<1> QED
    BY <1>1, <1>2, NewlyCommitted DEF OneWinnerPerVersion, CommittedOps

\* ADR 0008, "same-version concurrent state changes have one winner": whatever
\* versions clients send, no two operations that named the same version of a
\* payment both commit.
THEOREM OneWinner == Spec => []OneWinnerPerVersion
<1>1. Init => OneWinnerPerVersion
    BY DEF Init, LedgerInit, NoRow, OneWinnerPerVersion, CommittedOps, Committed
<1>2. IInv /\ OneWinnerPerVersion /\ [Next]_vars => OneWinnerPerVersion'
    BY OneWinnerStep
<1> QED
    BY <1>1, <1>2, InvariantOfSpec, PTL DEF Spec

-----------------------------------------------------------------------------
(* Payments keep the promise of VersionedAggregate *)

\* Every step other than a COMMIT leaves the committed rows of both tables alone.
LEMMA OtherStepsStutter ==
    ASSUME IInv, [Next]_vars, \A c \in Calls : ~Commit(c)
    PROVE  /\ payments' = payments
           /\ \A k \in OpKeys :
                /\ Committed(k)' <=> Committed(k)
                /\ Committed(k) => ledger'[k] = ledger[k]
<1>1. CASE UNCHANGED vars
    BY <1>1 DEF vars, ledgerVars, Committed
<1>2. CASE \E c \in Calls : ReceiveRequest(c) \/ Serve(c) \/ CrashCall(c)
    <2> PICK c \in Calls : ReceiveRequest(c) \/ Serve(c) \/ CrashCall(c)
        BY <1>2
    <2>1. payments' = payments
        BY DEF ReceiveRequest, Serve, Check, Claim, Read, Write, CrashCall
    <2> SUFFICES ASSUME NEW k \in OpKeys
                 PROVE  /\ Committed(k)' <=> Committed(k)
                        /\ Committed(k) => ledger'[k] = ledger[k]
        BY <2>1
    <2>2. Committed(k)' => Committed(k) /\ ledger'[k] = ledger[k]
        BY NewlyCommitted
    <2>3. ASSUME Committed(k) PROVE ledger'[k] = ledger[k]
        <3>1. CASE UNCHANGED ledger
            BY <3>1
        <3>2. CASE Rollback(c)
            BY <2>3, <3>2, NullAssumption DEF Rollback, Committed
        <3>3. ASSUME NEW next, ClaimNew(c, next) PROVE ledger'[k] = ledger[k]
            BY <2>3, <3>3 DEF ClaimNew, Committed, IInv, TypeOK
        <3>4. CASE pc[c] = "writing" /\ Complete(c, request[c].aggregate)
            <4>1. ledger[OpKey(request[c])].owner = c
                BY <3>4 DEF IInv, ClaimsMatchCalls, InTransaction
            <4> QED
                BY <2>3, <3>4, <4>1, NullAssumption
                DEF Complete, Committed, IInv, TypeOK
        <3> QED
            BY <3>1, <3>2, <3>3, <3>4
            DEF ReceiveRequest, Receive, Serve, Check, CheckThen, Claim,
                ClaimExisting, Read, Write, CrashCall, Crash
    <2> QED
        BY <2>2, <2>3 DEF Committed
<1> QED
    BY <1>1, <1>2 DEF Next

\* A COMMIT is one application of the abstract specification: its operation was
\* not applied, named the current version, and makes the next one.
LEMMA CommitApplies ==
    ASSUME IInv, NEW c \in Calls, Commit(c)
    PROVE  \E k \in OpKeys, o \in Aggregates : Promise!Apply(k, o)
<1>1. pc[c] = "committing"
    BY DEF Commit, CommitLedger
<1>2. PICK k \in OpKeys, o \in Aggregates :
           k = OpKey(request[c]) /\ o = request[c].aggregate
    BY <1>1, RequestFields DEF IInv, ClaimsMatchCalls
<1>3. /\ ledger' = [ledger EXCEPT ![k].owner = NULL]
      /\ payments' = [payments EXCEPT ![o] = pending[c]]
    BY <1>2 DEF Commit, CommitLedger
<1>4. /\ ledger[k].owner = c
      /\ ledger[k].status = "completed"
      /\ ledger[k].request = request[c]
    BY <1>1, <1>2 DEF IInv, ClaimsMatchCalls, InTransaction
<1>5. /\ request[c].version = payments[o].version
      /\ pending[c].version = payments[o].version + 1
    BY <1>1, <1>2 DEF IInv, WritesAreNext
<1>6. /\ ledger'[k].status = "completed"
      /\ ledger'[k].owner = NULL
      /\ ledger'[k].request = request[c]
      /\ \A j \in OpKeys \ {k} : ledger'[j] = ledger[j]
    BY <1>3, <1>4 DEF IInv, TypeOK
<1>7. ~Committed(k) /\ Committed(k)'
    BY <1>4, <1>6, NullAssumption DEF Committed
<1>8. \A j \in OpKeys \ {k} : Committed(j)' <=> Committed(j)
    BY <1>6 DEF Committed
<1>9. /\ payments'[o].version = payments[o].version + 1
      /\ \A a \in Aggregates \ {o} : payments'[a] = payments[a]
    BY <1>3, <1>5 DEF IInv, TypeOK
<1>10. /\ request[c].aggregate = o
       /\ ledger'[k].request.aggregate = o
       /\ ledger'[k].request.version = payments[o].version
    BY <1>2, <1>5, <1>6
<1>11. AppliedOperations[k] = {} /\ VersionColumn[o] = payments[o].version
    BY <1>7 DEF AppliedOperations, VersionColumn
<1>12. AppliedOperations' = [AppliedOperations EXCEPT ![k] = {<<o, VersionColumn[o]>>}]
    BY <1>6, <1>7, <1>8, <1>10, <1>11 DEF AppliedOperations
<1>13. VersionColumn' = [VersionColumn EXCEPT ![o] = @ + 1]
    BY <1>9 DEF VersionColumn
<1> QED
    BY <1>11, <1>12, <1>13 DEF Promise!Apply

\* The use cases, their checks, their transactions, crashes and retries together
\* implement VersionedAggregate, with the version column as its version and the
\* committed ledger rows as its applied operations.
THEOREM PromiseKept == Spec => KeepsPromise
<1>1. Init => Promise!Init
    BY DEF Init, LedgerInit, NoPayment, NoRow, Promise!Init, Committed, VersionColumn, AppliedOperations
<1>2. IInv /\ [Next]_vars => [Promise!Next]_Promise!vars
    <2> SUFFICES ASSUME IInv, [Next]_vars
                 PROVE  [Promise!Next]_Promise!vars
        OBVIOUS
    <2>1. ASSUME NEW c \in Calls, Commit(c) PROVE Promise!Next
        BY <2>1, CommitApplies DEF Promise!Next
    <2>2. CASE \A c \in Calls : ~Commit(c)
        BY <2>2, OtherStepsStutter DEF Promise!vars, VersionColumn, AppliedOperations
    <2> QED
        BY <2>1, <2>2
<1> QED
    BY <1>1, <1>2, InvariantOfSpec, PTL DEF Spec, KeepsPromise, Promise!Spec

-----------------------------------------------------------------------------
(* Every version has its operation *)

\* The strengthening of EveryVersionHasItsOperation: Cardinality says nothing of
\* a set that is not finite.
Counted ==
    \A o \in Aggregates :
        IsFiniteSet(OperationsOn(o)) /\ payments[o].version = Cardinality(OperationsOn(o))

LEMMA CommitCounted ==
    ASSUME IInv, Counted, [Next]_vars, NEW c \in Calls, Commit(c)
    PROVE  Counted'
<1>1. pc[c] = "committing"
    BY DEF Commit, CommitLedger
<1>2. PICK k \in OpKeys, o \in Aggregates :
           k = OpKey(request[c]) /\ o = request[c].aggregate
    BY <1>1, RequestFields DEF IInv, ClaimsMatchCalls
<1>3. /\ ledger' = [ledger EXCEPT ![k].owner = NULL]
      /\ payments' = [payments EXCEPT ![o] = pending[c]]
    BY <1>2 DEF Commit, CommitLedger
<1>4. /\ ledger[k].owner = c
      /\ ledger[k].status = "completed"
      /\ ledger[k].request.aggregate = o
      /\ pending[c].version = payments[o].version + 1
    BY <1>1, <1>2 DEF IInv, ClaimsMatchCalls, InTransaction, WritesAreNext
<1>5. /\ ledger'[k].status = "completed"
      /\ ledger'[k].owner = NULL
      /\ ledger'[k].request.aggregate = o
      /\ \A j \in OpKeys \ {k} : ledger'[j] = ledger[j]
    BY <1>3, <1>4 DEF IInv, TypeOK
<1>6. k \notin OperationsOn(o)
    BY <1>4, NullAssumption DEF OperationsOn, CommittedOps, Committed
<1>7. OperationsOn(o)' = OperationsOn(o) \cup {k}
    BY <1>5 DEF OperationsOn, CommittedOps, Committed
<1>8. \A a \in Aggregates \ {o} : OperationsOn(a)' = OperationsOn(a)
    BY <1>4, <1>5 DEF OperationsOn, CommittedOps, Committed
<1>9. /\ payments'[o].version = payments[o].version + 1
      /\ \A a \in Aggregates \ {o} : payments'[a] = payments[a]
    BY <1>3, <1>4 DEF IInv, TypeOK
<1>10. /\ IsFiniteSet(OperationsOn(o) \cup {k})
       /\ Cardinality(OperationsOn(o) \cup {k}) = Cardinality(OperationsOn(o)) + 1
    BY <1>6, FS_AddElement DEF Counted
<1> QED
    BY <1>7, <1>8, <1>9, <1>10 DEF Counted

\* Neither a retry, a crash nor a rollback leaves a version without the ledger
\* row that made it, or a row without its version.
THEOREM VersionsCountOperations == Spec => []EveryVersionHasItsOperation
<1>1. Init => Counted
    <2> SUFFICES ASSUME Init, NEW o \in Aggregates
                 PROVE  /\ IsFiniteSet(OperationsOn(o))
                        /\ payments[o].version = Cardinality(OperationsOn(o))
        BY DEF Counted
    <2>1. OperationsOn(o) = {}
        BY DEF Init, LedgerInit, NoRow, OperationsOn, CommittedOps, Committed
    <2> QED
        BY <2>1, FS_EmptySet DEF Init, NoPayment
<1>2. IInv /\ Counted /\ [Next]_vars => Counted'
    <2> SUFFICES ASSUME IInv, Counted, [Next]_vars PROVE Counted'
        OBVIOUS
    <2>1. CASE \A c \in Calls : ~Commit(c)
        <3>1. \A o \in Aggregates : OperationsOn(o)' = OperationsOn(o)
            BY <2>1, OtherStepsStutter DEF OperationsOn, CommittedOps
        <3> QED
            BY <2>1, <3>1, OtherStepsStutter DEF Counted
    <2> QED
        BY <2>1, CommitCounted
<1>3. Counted => EveryVersionHasItsOperation
    BY DEF Counted, EveryVersionHasItsOperation
<1> QED
    BY <1>1, <1>2, <1>3, InvariantOfSpec, PTL DEF Spec

-----------------------------------------------------------------------------
(* Refunds add up, when clients send only versions they have been shown *)

SeenParts == RowsHaveVersions /\ ReadsAreFresh /\ WritesAddUp /\ RefundsAddUp

\* Steps that leave payments and what calls have read or written alone.
LEMMA KeptSeenParts ==
    ASSUME IInv, SeenParts, NEW c \in Calls,
           UNCHANGED <<payments, acknowledged>>,
           \A d \in Calls \ {c} :
               UNCHANGED <<pc[d], request[d], entity[d], pending[d]>>,
           \/ pc'[c] = "idle"
           \/ pc'[c] = "checking" /\ Shown(request'[c])
           \/ /\ pc[c] = "checking" /\ pc'[c] = "claiming"
              /\ request'[c] = request[c] /\ CheckPasses(request[c])
           \/ /\ pc[c] = "claiming" /\ request'[c] = request[c]
              /\ \/ pc'[c] = "reading"
                 \/ pc'[c] = "writing" /\ request[c].type = "create-payment"
    PROVE  SeenParts'
<1> USE DEF SeenParts
<1>1. RowsHaveVersions' /\ RefundsAddUp'
    BY DEF RowsHaveVersions, RefundsAddUp, Exists
<1>2. WritesAddUp'
    BY DEF WritesAddUp
<1>3. ReadsAreFresh'
    <2> SUFFICES ASSUME NEW d \in Calls
                 PROVE  LET r == request'[d]  p == payments[r.aggregate] IN
                        /\ pc'[d] = "checking" => Shown(r)
                        /\ /\ pc'[d] \in {"claiming", "reading", "writing"}
                           /\ r.type # "create-payment"
                           => r.version <= p.version
                        /\ pc'[d] = "writing" /\ r.type # "create-payment" =>
                             /\ r.version <= entity'[d].version
                             /\ entity'[d].version <= p.version
                             /\ entity'[d].version = p.version => entity'[d] = p
        BY DEF ReadsAreFresh, Shown
    <2>1. CASE d # c
        BY <2>1 DEF ReadsAreFresh
    <2>2. CASE d = c /\ pc[c] = "checking" /\ pc'[c] = "claiming"
        <3>1. request[c] \in Requests
            BY <2>2 DEF IInv, ClaimsMatchCalls
        <3>2. CASE request[c].type # "create-payment"
            <4>1. /\ Exists(request[c].aggregate)
                  /\ Shown(request[c])
                  /\ request'[c] = request[c]
                BY <2>2, <3>2 DEF CheckPasses, ReadsAreFresh
            <4>2. payments[request[c].aggregate].version > 0
                BY <3>1, <4>1, RequestFields DEF RowsHaveVersions
            <4>3. payments[request[c].aggregate].version \in Nat /\ request[c].version \in Nat
                BY <3>1, RequestFields DEF IInv, TypeOK, PaymentRows
            <4> QED
                BY <2>2, <4>1, <4>2, <4>3 DEF Shown
        <3> QED
            BY <2>2, <3>2
    <2>3. CASE d = c /\ ~(pc[c] = "checking" /\ pc'[c] = "claiming")
        BY <2>3 DEF ReadsAreFresh
    <2> QED
        BY <2>1, <2>2, <2>3
<1> QED
    BY <1>1, <1>2, <1>3

LEMMA ReadSeenParts ==
    ASSUME IInv, SeenParts, NEW c \in Calls, Read(c),
           DomainAccepts(payments[request[c].aggregate], request[c])
    PROVE  SeenParts'
<1> DEFINE p == payments[request[c].aggregate]
<1>1. /\ pc[c] = "reading"
      /\ pc' = [pc EXCEPT ![c] = "writing"]
      /\ entity' = [entity EXCEPT ![c] = p]
      /\ UNCHANGED <<ledger, request, lock, payments, pending, acknowledged>>
    BY DEF Read
<1>2. RowsHaveVersions' /\ RefundsAddUp'
    BY <1>1 DEF SeenParts, RowsHaveVersions, RefundsAddUp, Exists
<1>3. WritesAddUp'
    BY <1>1 DEF IInv, TypeOK, SeenParts, WritesAddUp
<1>4. p.version \in Nat
    BY <1>1, RequestFields DEF IInv, ClaimsMatchCalls, TypeOK, PaymentRows
<1>5. ReadsAreFresh'
    BY <1>1, <1>4 DEF IInv, TypeOK, SeenParts, ReadsAreFresh, Shown
<1> QED
    BY <1>2, <1>3, <1>5 DEF SeenParts

\* The conditional UPDATE found the version that was named; as the read was not
\* older, it was of that version, and so of the row being rewritten.
LEMMA WriteSeenParts ==
    ASSUME IInv, SeenParts, NEW c \in Calls, Write(c), WriteMatches(c)
    PROVE  SeenParts'
<1> DEFINE r == request[c]
           p == payments[r.aggregate]
           row == Changed(p, entity[c], r)
<1>1. /\ pc[c] = "writing"
      /\ pending' = [pending EXCEPT ![c] = row]
      /\ pc' = [pc EXCEPT ![c] = "committing"]
      /\ UNCHANGED <<request, entity, payments, acknowledged>>
    BY DEF Write
<1>2. /\ r \in Requests
      /\ p \in PaymentRows
      /\ entity[c] \in PaymentRows
    BY <1>1, RequestFields DEF IInv, ClaimsMatchCalls, TypeOK
<1>3. row.refunded = p.refunded + r.amount
    <2>1. CASE r.type = "create-payment"
        BY <1>2, <2>1, RequestFields DEF WriteMatches, Changed, NoPayment
    <2>2. CASE r.type = "mark-payment-paid"
        BY <1>2, <2>2, RequestFields DEF Changed, PaymentRows
    <2>3. CASE r.type = "refund-payment"
        <3>1. /\ r.version <= entity[c].version
              /\ entity[c].version <= p.version
              /\ entity[c].version = p.version => entity[c] = p
            BY <1>1, <2>3 DEF SeenParts, ReadsAreFresh
        <3>2. entity[c] = p
            BY <1>2, <2>3, <3>1 DEF WriteMatches, PaymentRows
        <3> QED
            BY <2>3, <3>2 DEF Changed
    <2> QED
        BY <1>2, <2>1, <2>2, <2>3, RequestFields
<1> HIDE DEF row
<1>4. RowsHaveVersions' /\ RefundsAddUp'
    BY <1>1 DEF SeenParts, RowsHaveVersions, RefundsAddUp, Exists
<1>5. WritesAddUp'
    BY <1>1, <1>3 DEF IInv, TypeOK, SeenParts, WritesAddUp
<1>6. ReadsAreFresh'
    BY <1>1 DEF IInv, TypeOK, SeenParts, ReadsAreFresh, Shown
<1> QED
    BY <1>4, <1>5, <1>6 DEF SeenParts

LEMMA CommitSeenParts ==
    ASSUME IInv, SeenParts, NEW c \in Calls, Commit(c)
    PROVE  SeenParts'
<1> DEFINE r == request[c]
           o == r.aggregate
<1>1. /\ pc[c] = "committing"
      /\ pc' = [pc EXCEPT ![c] = "idle"]
      /\ request' = [request EXCEPT ![c] = NULL]
      /\ payments' = [payments EXCEPT ![o] = pending[c]]
      /\ acknowledged' = [acknowledged EXCEPT ![o] = @ + r.amount]
      /\ entity' = [entity EXCEPT ![c] = NoPayment]
      /\ pending' = [pending EXCEPT ![c] = NoPayment]
    BY DEF Commit, CommitLedger, End
<1>2. /\ r \in Requests
      /\ o \in Aggregates
      /\ \A d \in Calls \ {c} : pc[d] = "committing" => request[d].aggregate # o
      /\ pending[c].version = payments[o].version + 1
    BY <1>1, Committing
<1>3. pending[c].refunded = payments[o].refunded + r.amount
    BY <1>1 DEF SeenParts, WritesAddUp
<1>4. /\ payments[o].version \in Nat
      /\ payments' \in [Aggregates -> PaymentRows]
    BY <1>1, <1>2 DEF IInv, TypeOK, PaymentRows
<1>5. RowsHaveVersions'
    BY <1>1, <1>2, <1>4 DEF IInv, TypeOK, SeenParts, RowsHaveVersions, Exists
<1>6. RefundsAddUp'
    BY <1>1, <1>2, <1>3 DEF IInv, TypeOK, SeenParts, RefundsAddUp
<1>7. WritesAddUp'
    BY <1>1, <1>2 DEF IInv, TypeOK, SeenParts, WritesAddUp
<1>8. ReadsAreFresh'
    <2> SUFFICES ASSUME NEW d \in Calls, pc'[d] \in {"checking", "claiming", "reading", "writing"}
                 PROVE  LET q == request'[d]  p == payments'[q.aggregate] IN
                        /\ pc'[d] = "checking" => q.version <= 1 \/ q.version <= p.version
                        /\ /\ pc'[d] \in {"claiming", "reading", "writing"}
                           /\ q.type # "create-payment"
                           => q.version <= p.version
                        /\ pc'[d] = "writing" /\ q.type # "create-payment" =>
                             /\ q.version <= entity'[d].version
                             /\ entity'[d].version <= p.version
                             /\ entity'[d].version = p.version => entity'[d] = p
        BY DEF ReadsAreFresh, Shown
    <2>1. /\ d # c
          /\ pc'[d] = pc[d]
          /\ request'[d] = request[d]
          /\ entity'[d] = entity[d]
          /\ entity[d].version \in Nat
        BY <1>1 DEF IInv, TypeOK, PaymentRows
    <2>2. request[d] \in Requests
        BY <2>1 DEF IInv, ClaimsMatchCalls
    <2>3. request[d].aggregate \in Aggregates /\ request[d].version \in Nat
        BY <2>2, RequestFields
    <2>4. CASE request[d].aggregate # o
        BY <1>1, <2>1, <2>3, <2>4 DEF IInv, TypeOK, SeenParts, ReadsAreFresh, Shown
    <2>5. CASE request[d].aggregate = o
        <3>1. payments'[o].version = payments[o].version + 1
            BY <1>1, <1>2 DEF IInv, TypeOK
        <3> QED
            BY <1>4, <2>1, <2>3, <2>5, <3>1 DEF SeenParts, ReadsAreFresh, Shown
    <2> QED
        BY <2>4, <2>5
<1> QED
    BY <1>5, <1>6, <1>7, <1>8 DEF SeenParts

LEMMA NextIInvSeen ==
    ASSUME IInv, IInvSeen, [Next]_vars
    PROVE  IInvSeen'
<1> SUFFICES ASSUME OnlySeenVersions, SeenParts PROVE SeenParts'
    BY DEF IInvSeen, SeenParts
<1>1. CASE UNCHANGED vars
    BY <1>1 DEF vars, ledgerVars, SeenParts, RowsHaveVersions, ReadsAreFresh,
                WritesAddUp, RefundsAddUp, Exists, Shown
<1>2. ASSUME NEW c \in Calls, ReceiveRequest(c) PROVE SeenParts'
    BY <1>2, KeptSeenParts DEF ReceiveRequest, Receive, IInv, TypeOK
<1>3. ASSUME NEW c \in Calls, Check(c) PROVE SeenParts'
    BY <1>3, KeptSeenParts DEF Check, CheckThen, End, IInv, TypeOK
<1>4. ASSUME NEW c \in Calls, Claim(c) PROVE SeenParts'
    BY <1>4, KeptSeenParts DEF Claim, ClaimNew, ClaimExisting, End, IInv, TypeOK
<1>5. ASSUME NEW c \in Calls, Rollback(c),
             payments' = payments, acknowledged' = acknowledged,
             entity' \in {entity, [entity EXCEPT ![c] = NoPayment]},
             pending' \in {pending, [pending EXCEPT ![c] = NoPayment]}
      PROVE  SeenParts'
    BY <1>5, KeptSeenParts DEF Rollback, End, IInv, TypeOK
<1>6. ASSUME NEW c \in Calls, Read(c) PROVE SeenParts'
    BY <1>5, <1>6, ReadSeenParts DEF Read
<1>7. ASSUME NEW c \in Calls, Write(c) PROVE SeenParts'
    BY <1>5, <1>7, WriteSeenParts DEF Write
<1>8. ASSUME NEW c \in Calls, CrashCall(c) PROVE SeenParts'
    BY <1>5, <1>8 DEF CrashCall, Crash
<1> QED
    BY <1>1, <1>2, <1>3, <1>4, <1>6, <1>7, <1>8, CommitSeenParts DEF Next, Serve

\* No refund is lost: when clients send only versions they have been shown, the
\* recorded refund is the sum of the committed ones, although the UPDATE never
\* compares the version of the row the amount was computed from.
THEOREM NoRefundLost == Spec => [](OnlySeenVersions => RefundsAddUp)
<1>1. Init => IInvSeen
    BY DEF Init, LedgerInit, NoPayment, IInvSeen, RowsHaveVersions, ReadsAreFresh,
           WritesAddUp, RefundsAddUp, Exists
<1>2. IInv /\ IInvSeen /\ [Next]_vars => IInvSeen'
    BY NextIInvSeen
<1>3. IInvSeen => (OnlySeenVersions => RefundsAddUp)
    BY DEF IInvSeen
<1> QED
    BY <1>1, <1>2, <1>3, InvariantOfSpec, PTL DEF Spec

-----------------------------------------------------------------------------
(* The status tells the refunds, whatever versions clients send *)

Tells(p, total) ==
    /\ p.status \in {"none", "unpaid", "paid"} => p.refunded = 0
    /\ p.status = "partially_refunded" => p.refunded \in 1..(total - 1)
    /\ p.status = "refunded" => p.refunded = total

\* Committed rows tell their refunds, and so do rows about to be committed.
TellingParts ==
    /\ \A o \in Aggregates : Tells(payments[o], Total[o])
    /\ \A c \in Calls : pc[c] = "committing" =>
           Tells(pending[c], Total[request[c].aggregate])

\* Domain and conditional UPDATE together: a refund writes status and amount as
\* one; a payment is marked paid in the status it was read, which tells that
\* nothing is refunded, even if the row is not the one that was read.
LEMMA ChangedTells ==
    ASSUME IInv, TellingParts, NEW c \in Calls, pc[c] = "writing", WriteMatches(c)
    PROVE  LET o == request[c].aggregate IN
           Tells(Changed(payments[o], entity[c], request[c]), Total[o])
<1> DEFINE r == request[c]
           o == r.aggregate
<1>1. /\ r \in Requests
      /\ o \in Aggregates
      /\ r.amount \in Nat
      /\ Total[o] \in Nat
      /\ payments[o] \in PaymentRows
      /\ entity[c] \in PaymentRows
    BY RequestFields, PaymentsAssumption DEF IInv, ClaimsMatchCalls, TypeOK
<1>2. CASE r.type = "create-payment"
    BY <1>2 DEF Changed, Tells
<1>3. CASE r.type = "mark-payment-paid"
    <2>1. payments[o].status = "unpaid"
        BY <1>3 DEF IInv, ReadsAccepted, DomainAccepts, CanMarkPaid, WriteMatches
    <2>2. payments[o].refunded = 0
        BY <1>1, <2>1 DEF TellingParts, Tells
    <2> QED
        BY <1>3, <2>2 DEF Changed, Tells
<1>4. CASE r.type = "refund-payment"
    <2>1. r.amount > 0 /\ entity[c].refunded + r.amount <= Total[o]
        BY <1>4 DEF IInv, ReadsAccepted, DomainAccepts, CanRefund
    <2>2. entity[c].refunded \in Nat
        BY <1>1 DEF PaymentRows
    <2> QED
        BY <1>1, <1>4, <2>1, <2>2 DEF Changed, RefundStatus, Tells
<1> QED
    BY <1>1, <1>2, <1>3, <1>4, RequestFields

LEMMA TellingStep ==
    ASSUME IInv, TellingParts, [Next]_vars
    PROVE  TellingParts'
<1> USE DEF TellingParts
<1>1. CASE UNCHANGED vars
    BY <1>1 DEF vars, ledgerVars
<1>2. ASSUME NEW c \in Calls, payments' = payments, pc'[c] # "committing",
             \A d \in Calls \ {c} : UNCHANGED <<pc[d], request[d], pending[d]>>
      PROVE  TellingParts'
    BY <1>2
<1>3. ASSUME NEW c \in Calls, ReceiveRequest(c) PROVE TellingParts'
    BY <1>2, <1>3 DEF ReceiveRequest, Receive, IInv, TypeOK
<1>4. ASSUME NEW c \in Calls, Check(c) PROVE TellingParts'
    BY <1>2, <1>4 DEF Check, CheckThen, End, IInv, TypeOK
<1>5. ASSUME NEW c \in Calls, Claim(c) PROVE TellingParts'
    BY <1>2, <1>5 DEF Claim, ClaimNew, ClaimExisting, End, IInv, TypeOK
<1>6. ASSUME NEW c \in Calls, Read(c) PROVE TellingParts'
    BY <1>2, <1>6 DEF Read, Rollback, End, IInv, TypeOK
<1>7. ASSUME NEW c \in Calls, Write(c) PROVE TellingParts'
    <2>1. CASE WriteMatches(c)
        <3> DEFINE o == request[c].aggregate
                   row == Changed(payments[o], entity[c], request[c])
        <3>1. /\ pc[c] = "writing"
              /\ pending' = [pending EXCEPT ![c] = row]
              /\ pc' = [pc EXCEPT ![c] = "committing"]
              /\ UNCHANGED <<request, payments>>
            BY <1>7, <2>1 DEF Write
        <3>2. Tells(row, Total[o])
            BY <2>1, <3>1, ChangedTells
        <3> HIDE DEF row
        <3> QED
            BY <3>1, <3>2 DEF IInv, TypeOK
    <2>2. CASE ~WriteMatches(c)
        BY <1>2, <1>7, <2>2 DEF Write, Rollback, End, IInv, TypeOK
    <2> QED
        BY <2>1, <2>2
<1>8. ASSUME NEW c \in Calls, Commit(c) PROVE TellingParts'
    <2> DEFINE o == request[c].aggregate
    <2>1. /\ pc[c] = "committing"
          /\ pc' = [pc EXCEPT ![c] = "idle"]
          /\ request' = [request EXCEPT ![c] = NULL]
          /\ payments' = [payments EXCEPT ![o] = pending[c]]
          /\ pending' = [pending EXCEPT ![c] = NoPayment]
        BY <1>8 DEF Commit, CommitLedger, End
    <2> QED
        BY <2>1 DEF IInv, TypeOK
<1>9. ASSUME NEW c \in Calls, CrashCall(c) PROVE TellingParts'
    BY <1>2, <1>9 DEF CrashCall, Crash, Rollback, End, IInv, TypeOK
<1> QED
    BY <1>1, <1>3, <1>4, <1>5, <1>6, <1>7, <1>8, <1>9 DEF Next, Serve

\* A payment's status and refunded amount agree in every reachable state, also
\* when clients send versions in advance: what such a client can lose is a
\* refund, not the agreement of the two columns.
THEOREM StatusAgrees == Spec => []StatusTellsRefunds
<1>1. Init => TellingParts
    BY DEF Init, LedgerInit, NoPayment, TellingParts, Tells
<1>2. IInv /\ TellingParts /\ [Next]_vars => TellingParts'
    BY TellingStep
<1>3. TellingParts => StatusTellsRefunds
    BY DEF TellingParts, Tells, StatusTellsRefunds
<1> QED
    BY <1>1, <1>2, <1>3, InvariantOfSpec, PTL DEF Spec
=============================================================================
