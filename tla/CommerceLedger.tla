---------------------------- MODULE CommerceLedger ----------------------------
(***************************************************************************)
(* The idempotency ledger of the Commerce module (table commerce_operations) *)
(* and the life of one mutation request, shared by Orders, Payments and     *)
(* Contracts.                                                               *)
(*                                                                         *)
(* A call is one HTTP mutation being served.  It runs the use case's checks *)
(* against committed rows ("checking"), opens a transaction, claims its     *)
(* ledger row ("claiming"), re-reads the aggregate ("reading"), runs the    *)
(* conditional UPDATE or the INSERT ("writing") and commits ("committing"). *)
(* Every stage is one SQL statement, so calls interleave between statements *)
(* as READ COMMITTED transactions do.  A call slot is free again when its   *)
(* call ends, so any number of calls, retries included, can follow.         *)
(***************************************************************************)
EXTENDS Naturals

CONSTANTS
    Calls,            \* slots of requests served at the same time
    Actors,           \* authenticated principals that send mutations
    OperationTypes,   \* operation_type values of the aggregate's mutations
    IdempotencyKeys,  \* Idempotency-Key header values
    Aggregates,       \* identities of the rows the mutations lock
    NULL              \* null column, free lock, empty call slot

ASSUME NullAssumption == NULL \notin Calls

VARIABLES
    ledger,    \* commerce_operations, by (actor, operation type, key)
    pc,        \* stage of each call
    request,   \* what each call asks for; equality is fingerprint equality
    lock       \* the call whose open transaction wrote the row, per aggregate

ledgerVars == <<ledger, pc, request, lock>>

OpKeys == Actors \X OperationTypes \X IdempotencyKeys

\* The unique key of the ledger row of request r.
OpKey(r) == <<r.actor, r.type, r.key>>

Stages == {"idle", "checking", "claiming", "reading", "writing", "committing"}

\* The stages at which the call's transaction holds its ledger row.
InTransaction == {"reading", "writing", "committing"}

NoRow == [status |-> "absent", request |-> NULL, owner |-> NULL, result |-> NULL]

LedgerInit ==
    /\ ledger = [k \in OpKeys |-> NoRow]
    /\ pc = [c \in Calls |-> "idle"]
    /\ request = [c \in Calls |-> NULL]
    /\ lock = [a \in Aggregates |-> NULL]

\* A row other transactions can see.
Committed(k) == ledger[k].status # "absent" /\ ledger[k].owner = NULL

\* Operation k was applied for request r, and its transaction committed.
AppliedFor(k, r) ==
    Committed(k) /\ ledger[k].status = "completed" /\ ledger[k].request = r

-----------------------------------------------------------------------------
(* Parts of the calls' steps *)

Receive(c, r) ==
    /\ pc[c] = "idle"
    /\ pc' = [pc EXCEPT ![c] = "checking"]
    /\ request' = [request EXCEPT ![c] = r]
    /\ UNCHANGED <<ledger, lock>>

\* The call answers its client and its slot is free.
End(c) ==
    /\ pc' = [pc EXCEPT ![c] = "idle"]
    /\ request' = [request EXCEPT ![c] = NULL]

\* The use case's checks pass or end the call before any transaction.
CheckThen(c, passes) ==
    /\ pc[c] = "checking"
    /\ \/ /\ passes
          /\ pc' = [pc EXCEPT ![c] = "claiming"]
          /\ UNCHANGED request
       \/ ~passes /\ End(c)
    /\ UNCHANGED <<ledger, lock>>

\* Mutant of ClaimNew: a completed row is claimed again.
ClaimNewOrCompleted(c, next) ==
    LET k == OpKey(request[c]) IN
    /\ pc[c] = "claiming"
    /\ ledger[k].owner = NULL
    /\ ledger' = [ledger EXCEPT ![k] =
           [status |-> "started", request |-> request[c], owner |-> c, result |-> NULL]]
    /\ pc' = [pc EXCEPT ![c] = next]
    /\ UNCHANGED <<request, lock>>

\* INSERT ... ON CONFLICT DO NOTHING returns a row: the operation is new and the
\* call goes on at stage next.  While another open transaction holds a row of
\* the same key the statement waits, so no claim is enabled.
ClaimNew(c, next) ==
    LET k == OpKey(request[c]) IN
    /\ pc[c] = "claiming"
    /\ ledger[k].status = "absent"
    /\ ledger' = [ledger EXCEPT ![k] =
           [status |-> "started", request |-> request[c], owner |-> c, result |-> NULL]]
    /\ pc' = [pc EXCEPT ![c] = next]
    /\ UNCHANGED <<request, lock>>

\* The key has a committed row: another fingerprint is an idempotency conflict,
\* a completed row is replayed by reading its result, a started one would be
\* reported as in progress.  None of the three answers writes.
ClaimExisting(c) ==
    /\ pc[c] = "claiming"
    /\ Committed(OpKey(request[c]))
    /\ End(c)
    /\ UNCHANGED <<ledger, lock>>

\* complete(): inside the transaction, the row it claimed is marked with the
\* aggregate a replay will read.
Complete(c, a) ==
    ledger' = [ledger EXCEPT ![OpKey(request[c])] =
        IF @.status = "started"
        THEN [status |-> "completed", request |-> @.request, owner |-> @.owner, result |-> a]
        ELSE @]

\* COMMIT: the ledger row becomes visible and the row locks are released.
CommitLedger(c) ==
    /\ pc[c] = "committing"
    /\ ledger' = [ledger EXCEPT ![OpKey(request[c])].owner = NULL]
    /\ lock' = [a \in Aggregates |-> IF lock[a] = c THEN NULL ELSE lock[a]]
    /\ End(c)

\* Mutants of Rollback: the claim, or the row locks, outlive the transaction.
RollbackKeepsClaim(c) ==
    /\ ledger' = [k \in OpKeys |->
           IF ledger[k].owner = c THEN [ledger[k] EXCEPT !.owner = NULL] ELSE ledger[k]]
    /\ lock' = [a \in Aggregates |-> IF lock[a] = c THEN NULL ELSE lock[a]]
    /\ End(c)
RollbackKeepsLocks(c) ==
    /\ ledger' = [k \in OpKeys |-> IF ledger[k].owner = c THEN NoRow ELSE ledger[k]]
    /\ UNCHANGED lock
    /\ End(c)

\* ROLLBACK: the claim disappears with everything else the transaction wrote.
Rollback(c) ==
    /\ ledger' = [k \in OpKeys |-> IF ledger[k].owner = c THEN NoRow ELSE ledger[k]]
    /\ lock' = [a \in Aggregates |-> IF lock[a] = c THEN NULL ELSE lock[a]]
    /\ End(c)

\* The process or its database connection dies while the call is in flight.
Crash(c) ==
    /\ pc[c] # "idle"
    /\ Rollback(c)

=============================================================================
