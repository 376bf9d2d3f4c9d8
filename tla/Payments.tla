------------------------------- MODULE Payments -------------------------------
(***************************************************************************)
(* Payments: CreateManualPayment, MarkPaymentPaid and RefundPayment, from    *)
(* the use case's checks to the COMMIT.  The aggregate is the payment of an *)
(* order, named by the order because payments.order_id is unique.           *)
(***************************************************************************)
EXTENDS CommerceLedger, FiniteSets

CONSTANTS
    RoleOf,        \* role of each actor: "BUYER", "SELLER" or "ADMIN"
    BuyerOf,       \* buyer of each order
    SellerOf,      \* seller of each order
    Total,         \* total_amount of each order, in VND
    RefundAmounts, \* amounts a refund request may carry
    Versions,      \* expectedVersion values a request may carry
    OnlySeenVersions \* TRUE: clients send only versions they have been shown

ASSUME PaymentsAssumption ==
    /\ OperationTypes = {"create-payment", "mark-payment-paid", "refund-payment"}
    /\ RoleOf \in [Actors -> {"BUYER", "SELLER", "ADMIN"}]
    /\ Total \in [Aggregates -> Nat]
    /\ RefundAmounts \subseteq Nat
    /\ Versions \subseteq Nat \ {0}
    /\ OnlySeenVersions \in BOOLEAN

VARIABLES
    payments,      \* committed payment row of each order
    entity,        \* the row each transaction read
    pending,       \* the row each transaction wrote and has not committed
    acknowledged   \* history: sum of the refunds committed, per order

vars == <<ledgerVars, payments, entity, pending, acknowledged>>

PaymentStatus == {"none", "unpaid", "paid", "partially_refunded", "refunded"}
PaymentRows == [status : PaymentStatus, refunded : Nat, version : Nat]
NoPayment == [status |-> "none", refunded |-> 0, version |-> 0]

\* Requests carry every field the fingerprint covers; a creation expects no
\* row, which version 0 stands for.
CreateRequests ==
    [actor : Actors, type : {"create-payment"}, key : IdempotencyKeys,
     aggregate : Aggregates, version : {0}, amount : {0}]
MarkPaidRequests ==
    [actor : Actors, type : {"mark-payment-paid"}, key : IdempotencyKeys,
     aggregate : Aggregates, version : Versions, amount : {0}]
RefundRequests ==
    [actor : Actors, type : {"refund-payment"}, key : IdempotencyKeys,
     aggregate : Aggregates, version : Versions, amount : RefundAmounts]
Requests == CreateRequests \cup MarkPaidRequests \cup RefundRequests

Init ==
    /\ LedgerInit
    /\ payments = [o \in Aggregates |-> NoPayment]
    /\ entity = [c \in Calls |-> NoPayment]
    /\ pending = [c \in Calls |-> NoPayment]
    /\ acknowledged = [o \in Aggregates |-> 0]

-----------------------------------------------------------------------------
(* The Payment domain object *)

CanMarkPaid(p) == p.status = "unpaid"

CanRefund(p, total, amount) ==
    /\ p.status \in {"paid", "partially_refunded"}
    /\ amount > 0
    /\ p.refunded + amount <= total

\* refund() decides on the amounts the entity was rehydrated with.
RefundStatus(total, refunded) ==
    IF refunded = total THEN "refunded" ELSE "partially_refunded"

\* The row left by request r: the statement increments the stored version, and
\* sets status and refunded amount to what the domain made of the row it read.
Changed(stored, read, r) ==
    CASE r.type = "create-payment" ->
           [status |-> "unpaid", refunded |-> 0, version |-> 1]
      [] r.type = "mark-payment-paid" ->
           [status |-> "paid", refunded |-> stored.refunded, version |-> stored.version + 1]
      [] r.type = "refund-payment" ->
           [status |-> RefundStatus(Total[r.aggregate], read.refunded + r.amount),
            refunded |-> read.refunded + r.amount,
            version |-> stored.version + 1]

DomainAccepts(p, r) ==
    CASE r.type = "create-payment" -> TRUE
      [] r.type = "mark-payment-paid" -> CanMarkPaid(p)
      [] r.type = "refund-payment" -> CanRefund(p, Total[r.aggregate], r.amount)

-----------------------------------------------------------------------------
(* Who may ask: roles and ownership, before and after the row is read *)

Authorized(r) ==
    CASE r.type = "create-payment" ->
           RoleOf[r.actor] = "BUYER" /\ BuyerOf[r.aggregate] = r.actor
      [] r.type = "mark-payment-paid" ->
           \/ RoleOf[r.actor] = "ADMIN"
           \/ RoleOf[r.actor] = "SELLER" /\ SellerOf[r.aggregate] = r.actor
      [] r.type = "refund-payment" -> RoleOf[r.actor] = "ADMIN"

Exists(o) == payments[o] # NoPayment

\* What the use case requires of committed rows before it opens a transaction.
CheckPasses(r) ==
    /\ Authorized(r)
    /\ r.type # "create-payment" =>
           Exists(r.aggregate) /\ DomainAccepts(payments[r.aggregate], r)

-----------------------------------------------------------------------------
(* One action per stage of a call *)

\* A client that only sends versions it has been shown has seen the stored one
\* at most; version 1 is what a creation returns.
Shown(r) == r.version <= 1 \/ r.version <= payments[r.aggregate].version

ReceiveRequest(c) ==
    /\ \E r \in Requests : (OnlySeenVersions => Shown(r)) /\ Receive(c, r)
    /\ UNCHANGED <<payments, entity, pending, acknowledged>>

Check(c) ==
    /\ CheckThen(c, CheckPasses(request[c]))
    /\ UNCHANGED <<payments, entity, pending, acknowledged>>

Claim(c) ==
    /\ \/ ClaimNew(c, IF request[c].type = "create-payment" THEN "writing" ELSE "reading")
       \/ ClaimExisting(c)
    /\ UNCHANGED <<payments, entity, pending, acknowledged>>

\* The transaction's own read; a row the domain no longer accepts rolls back.
Read(c) ==
    LET p == payments[request[c].aggregate] IN
    /\ pc[c] = "reading"
    /\ \/ /\ DomainAccepts(p, request[c])
          /\ entity' = [entity EXCEPT ![c] = p]
          /\ pc' = [pc EXCEPT ![c] = "writing"]
          /\ UNCHANGED <<ledger, request, lock>>
       \/ /\ ~DomainAccepts(p, request[c])
          /\ Rollback(c)
          /\ UNCHANGED entity
    /\ UNCHANGED <<payments, pending, acknowledged>>

\* Mutant of WriteMatches: the version is not compared.
WriteMatchesStatusOnly(c) ==
    LET p == payments[request[c].aggregate] IN
    IF request[c].type = "create-payment"
    THEN p = NoPayment
    ELSE p.status = entity[c].status

\* The INSERT meets no row of the order; the UPDATE finds the version the client
\* expects and the status the transaction read.
WriteMatches(c) ==
    LET p == payments[request[c].aggregate] IN
    IF request[c].type = "create-payment"
    THEN p = NoPayment
    ELSE p.version = request[c].version /\ p.status = entity[c].status

\* A committed row that does not match is no candidate of the statement; one that
\* matches, while another open transaction has written it, makes it wait.
Write(c) ==
    LET o == request[c].aggregate IN
    /\ pc[c] = "writing"
    /\ \/ /\ WriteMatches(c)
          /\ lock[o] = NULL
          /\ pending' = [pending EXCEPT ![c] =
                 Changed(payments[o], entity[c], request[c])]
          /\ lock' = [lock EXCEPT ![o] = c]
          /\ Complete(c, o)
          /\ pc' = [pc EXCEPT ![c] = "committing"]
          /\ UNCHANGED <<request, entity>>
       \/ /\ ~WriteMatches(c)
          /\ Rollback(c)
          /\ entity' = [entity EXCEPT ![c] = NoPayment]
          /\ UNCHANGED pending
    /\ UNCHANGED <<payments, acknowledged>>

Commit(c) ==
    LET o == request[c].aggregate IN
    /\ CommitLedger(c)
    /\ payments' = [payments EXCEPT ![o] = pending[c]]
    /\ acknowledged' = [acknowledged EXCEPT ![o] = @ + request[c].amount]
    /\ entity' = [entity EXCEPT ![c] = NoPayment]
    /\ pending' = [pending EXCEPT ![c] = NoPayment]

CrashCall(c) ==
    /\ Crash(c)
    /\ entity' = [entity EXCEPT ![c] = NoPayment]
    /\ pending' = [pending EXCEPT ![c] = NoPayment]
    /\ UNCHANGED <<payments, acknowledged>>

Serve(c) == Check(c) \/ Claim(c) \/ Read(c) \/ Write(c) \/ Commit(c)

Next == \E c \in Calls : ReceiveRequest(c) \/ Serve(c) \/ CrashCall(c)

Spec == Init /\ [][Next]_vars

\* Node's event loop and PostgreSQL run every statement that waits for nothing;
\* a statement waiting for another transaction runs if it can again and again.
Fairness ==
    \A c \in Calls :
        /\ WF_vars(Check(c) \/ Read(c) \/ Commit(c))
        /\ SF_vars(Claim(c))
        /\ SF_vars(Write(c))

FairSpec == Spec /\ Fairness

-----------------------------------------------------------------------------
(* Properties *)

\* Every variable has its type; the refunds recorded never exceed the amount,
\* as the CHECK constraint of the table requires.
TypeOK ==
    /\ ledger \in [OpKeys ->
           [status : {"absent", "started", "completed"},
            request : Requests \cup {NULL},
            owner : Calls \cup {NULL},
            result : Aggregates \cup {NULL}]]
    /\ pc \in [Calls -> Stages]
    /\ request \in [Calls -> Requests \cup {NULL}]
    /\ lock \in [Aggregates -> Calls \cup {NULL}]
    /\ payments \in [Aggregates -> PaymentRows]
    /\ \A o \in Aggregates : payments[o].refunded <= Total[o]
    /\ entity \in [Calls -> PaymentRows]
    /\ pending \in [Calls -> PaymentRows]
    /\ acknowledged \in [Aggregates -> Nat]

\* No refund is lost: the recorded amount is the sum of the refunds whose
\* transactions committed, however refunds of one payment interleave between
\* their read and their conditional UPDATE.
RefundsAddUp == \A o \in Aggregates : payments[o].refunded = acknowledged[o]

\* The status and the amount, written together from a row read earlier, agree.
StatusTellsRefunds ==
    \A o \in Aggregates :
        LET p == payments[o] IN
        /\ p.status \in {"none", "unpaid", "paid"} => p.refunded = 0
        /\ p.status = "partially_refunded" => p.refunded \in 1..(Total[o] - 1)
        /\ p.status = "refunded" => p.refunded = Total[o]

CommittedOps == {k \in OpKeys : Committed(k)}

\* The operations committed on the payment of order o.
OperationsOn(o) == {k \in CommittedOps : ledger[k].request.aggregate = o}

\* Same-version concurrent state changes have one winner: two committed
\* operations on a payment were not sent against the same version of it.
OneWinnerPerVersion ==
    \A k1, k2 \in CommittedOps :
        /\ ledger[k1].request.aggregate = ledger[k2].request.aggregate
        /\ ledger[k1].request.version = ledger[k2].request.version
        => k1 = k2

\* Each version was made by one committed ledger row and each row made one: a
\* retry, a crash or a rollback leaves neither a change without its row nor a
\* row without its change.
EveryVersionHasItsOperation ==
    \A o \in Aggregates : payments[o].version = Cardinality(OperationsOn(o))

\* A replay finds a completed row with its payment, so neither the "in progress"
\* answer nor the "result is missing" error of replay() is ever given.
ReplayFindsResult ==
    \A k \in CommittedOps :
        /\ ledger[k].status = "completed"
        /\ ledger[k].result = ledger[k].request.aggregate
        /\ Exists(ledger[k].result)

\* The abstract state: the version column, and the version each committed
\* operation named.
VersionColumn == [o \in Aggregates |-> payments[o].version]
AppliedOperations ==
    [k \in OpKeys |->
        IF Committed(k)
        THEN {<<ledger[k].request.aggregate, ledger[k].request.version>>}
        ELSE {}]

Promise == INSTANCE VersionedAggregate WITH
    Operations <- OpKeys, version <- VersionColumn, applied <- AppliedOperations

\* Payments implement the promise of ADR 0008: operations apply at most once,
\* atomically, each to the version it named.
KeepsPromise == Promise!Spec

\* Every call is answered or dies: no cycle of transactions waiting for each
\* other's ledger rows and payment rows leaves one hanging.
CallsEnd == \A c \in Calls : pc[c] # "idle" ~> pc[c] = "idle"

\* Phase 6 decision D06: "Same key and fingerprint replays the stored result."
\* A request whose operation was applied reaches the ledger to be replayed.
ReplayReachable ==
    \A c \in Calls :
        /\ pc[c] = "checking"
        /\ AppliedFor(OpKey(request[c]), request[c])
        => CheckPasses(request[c])

\* Phase 6 decision D04: "Refund totals cannot exceed the paid amount."
RefundTotalsWithinPaid == \A o \in Aggregates : acknowledged[o] <= Total[o]

-----------------------------------------------------------------------------
(* The inductive invariant behind TypeOK, OneWinnerPerVersion, KeepsPromise *)
(* and RefundsAddUp                                                          *)

\* An open transaction owns exactly the ledger row of its key, completed once
\* the write is done; a committed row is complete and holds its own request.
ClaimsMatchCalls ==
    /\ \A c \in Calls :
         /\ pc[c] # "idle" => request[c] \in Requests
         /\ pc[c] \in InTransaction =>
              LET row == ledger[OpKey(request[c])] IN
              /\ row.owner = c
              /\ row.request = request[c]
              /\ row.status = IF pc[c] = "committing" THEN "completed" ELSE "started"
              /\ pc[c] = "committing" => row.result = request[c].aggregate
    /\ \A k \in OpKeys :
         /\ ledger[k].owner \in Calls =>
              /\ ledger[k].status # "absent"
              /\ pc[ledger[k].owner] \in InTransaction
              /\ OpKey(request[ledger[k].owner]) = k
         /\ ledger[k].status # "absent" => ledger[k].request \in Requests
         /\ Committed(k) =>
              ledger[k].status = "completed" /\ ledger[k].result = ledger[k].request.aggregate

\* The lock of a payment is held by the transaction that wrote it.
LocksMatchCalls ==
    /\ \A o \in Aggregates : lock[o] \in Calls =>
         pc[lock[o]] = "committing" /\ request[lock[o]].aggregate = o
    /\ \A c \in Calls : pc[c] = "committing" => lock[request[c].aggregate] = c

\* A transaction writes what the domain accepted on the row it read.
ReadsAccepted ==
    \A c \in Calls :
        pc[c] = "writing" /\ request[c].type # "create-payment" =>
            DomainAccepts(entity[c], request[c])

\* A written row is the next version of the row its request named.
WritesAreNext ==
    \A c \in Calls : pc[c] = "committing" =>
        LET p == payments[request[c].aggregate] IN
        /\ request[c].version = p.version
        /\ pending[c].version = p.version + 1
        /\ pending[c].refunded <= Total[request[c].aggregate]

\* Committed operations named versions that are past.
VersionsUsed ==
    \A k \in CommittedOps :
        ledger[k].request.version < payments[ledger[k].request.aggregate].version

IInv ==
    /\ TypeOK
    /\ ClaimsMatchCalls
    /\ LocksMatchCalls
    /\ ReadsAccepted
    /\ WritesAreNext
    /\ VersionsUsed

\* With clients that send only versions they have seen: the row a transaction
\* read is at least as new as the version its request names, so a conditional
\* UPDATE that finds that version rewrites the very row that was read.
ReadsAreFresh ==
    \A c \in Calls :
        LET r == request[c]  p == payments[r.aggregate] IN
        /\ pc[c] = "checking" => Shown(r)
        /\ pc[c] \in {"claiming", "reading", "writing"} /\ r.type # "create-payment"
             => r.version <= p.version
        /\ pc[c] = "writing" /\ r.type # "create-payment" =>
             /\ r.version <= entity[c].version
             /\ entity[c].version <= p.version
             /\ entity[c].version = p.version => entity[c] = p

WritesAddUp ==
    \A c \in Calls : pc[c] = "committing" =>
        pending[c].refunded = payments[request[c].aggregate].refunded + request[c].amount

RowsHaveVersions == \A o \in Aggregates : Exists(o) => payments[o].version > 0

IInvSeen ==
    OnlySeenVersions =>
        RowsHaveVersions /\ ReadsAreFresh /\ WritesAddUp /\ RefundsAddUp
=============================================================================
