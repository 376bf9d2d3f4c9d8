------------------------------- MODULE Operations -------------------------------
(***************************************************************************)
(* What operators run against the databases: the ledger of migrations and the *)
(* onboarding of existing schemas, the boundary migration of the legacy        *)
(* lineage, the rollout of private documents and the seeds.  Each is a script  *)
(* of its own; the parts have no table in common.                             *)
(***************************************************************************)
EXTENDS Lineage, Boundaries, DocumentRollout, Seeding, TLC

operationsVars == <<call, mix, lineageRows, boundaryRows, rolloutRows, seedRows>>

OperationsInit ==
    HandlersInit /\ LineageInit /\ BoundariesInit /\ RolloutInit /\ SeedingInit

OperationsNext ==
    /\ UNCHANGED mix
    /\ \/ /\ (\E c \in Calls : LineageStep(c)) \/ LineageAround
          /\ UNCHANGED <<boundaryRows, rolloutRows, seedRows>>
       \/ /\ BoundariesAround
          /\ UNCHANGED <<lineageRows, rolloutRows, seedRows>>
       \/ /\ (\E c \in Calls : RolloutStep(c)) \/ RolloutAround
          /\ UNCHANGED <<lineageRows, boundaryRows, seedRows>>
       \/ /\ (\E c \in Calls : SeedingStep(c)) \/ SeedingAround
          /\ UNCHANGED <<lineageRows, boundaryRows, rolloutRows>>

OperationsSpec == OperationsInit /\ [][OperationsNext]_operationsVars

\* Every variable of every part has its type.
OperationsTypeOK == LineageTypeOK /\ BoundariesTypeOK /\ RolloutTypeOK /\ SeedingTypeOK
=============================================================================
