-------------------------- MODULE VersionedAggregate --------------------------
(***************************************************************************)
(* What ADR 0008 promises the clients of a Commerce aggregate, without      *)
(* tables, transactions or checks: an operation is applied at most once, in *)
(* one step, to the current version, and that step makes the next version.  *)
(***************************************************************************)
EXTENDS Naturals

CONSTANTS
    Operations,   \* (actor, operation type, idempotency key) triples
    Aggregates

VARIABLES
    version,   \* current version of each aggregate, 0 before it is created
    applied    \* {<<aggregate, version>>} of each applied operation, {} before

vars == <<version, applied>>

Init ==
    /\ version = [a \in Aggregates |-> 0]
    /\ applied = [op \in Operations |-> {}]

Apply(op, a) ==
    /\ version' = [version EXCEPT ![a] = @ + 1]
    /\ applied[op] = {}
    /\ applied' = [applied EXCEPT ![op] = {<<a, version[a]>>}]

Next == \E op \in Operations, a \in Aggregates : Apply(op, a)

Spec == Init /\ [][Next]_vars

-----------------------------------------------------------------------------

\* "Same-version concurrent state changes have one winner": no two operations
\* were applied to the same version of an aggregate.
OneWinner ==
    \A op1, op2 \in Operations :
        applied[op1] \cap applied[op2] # {} => op1 = op2
=============================================================================
