------------------------------ MODULE MCOperations ------------------------------
(* Instance of Operations for TLC: two scripts at a time, and the scripts that   *)
(* can disturb each other run together.  The parts have nothing in common, so    *)
(* one whose scripts a behaviour does not run starts in one state only.          *)
EXTENDS Operations

CONSTANTS r1, x1

LineageMixes ==
    {{"preparing-ledger", "preflight", "planning-onboarding", "writing-manifests", "changing-by-hand"},
     {"preparing-ledger", "reverting-migrations", "seeding-packages"},
     {"preparing-ledger", "preflight", "planning-onboarding", "writing-manifests", "verifying-clean"}}
RolloutMixes ==
    {{"migrating-documents", "loading-legacy", "loading-linked", "reverting-documents", "verifying"},
     {"migrating-documents", "loading-legacy", "loading-linked", "verifying", "finding-document"}}

MCMixes == LineageMixes \cup RolloutMixes \cup {{"migrating-boundaries"}, {"ordering-groups"}}

\* One fixture at a time is in conflict with another row.
FewConflicts == Cardinality(split) <= 1

\* OperationsInit, each part of it restricted to where its scripts run.
MCInit ==
    /\ HandlersInit
    /\ LineageInit /\ (mix \notin LineageMixes => target = "disposable" /\ schema = {})
    /\ BoundariesInit /\ (mix # {"migrating-boundaries"} => parts = {})
    /\ RolloutInit
    /\ mix \notin RolloutMixes => \A d \in Docs : docs[d].verdict = "pending" /\ docs[d].source = "set"
    /\ SeedingInit /\ (mix # {"ordering-groups"} => split = {}) /\ FewConflicts

\* The tests have a database of their own.
Used(g) ==
    \/ \E f \in FixturesOf(g) : rows[f] > 0
    \/ \E c \in Calls : ~At(c, "idle") /\ g \in call[c].todo \cup {call[c].group}
OneEnvironment ==
    mix = {"ordering-groups"} /\ (\E g \in Tests : Used(g)) => ~\E g \in Groups \ Tests : Used(g)

\* A run overlaps another one, or somebody signs up, once.
FewFaults ==
    mix = {"ordering-groups"} /\ disturbed /\ ~Quiet =>
        split' \subseteq split /\ \A c \in Calls : At(c, "idle") => call'[c] = call[c]

MCNext == OperationsNext /\ FewConflicts' /\ OneEnvironment' /\ FewFaults

MCSpec == MCInit /\ [][MCNext]_operationsVars

Symmetry == Permutations(Calls) \cup Permutations(FileIds) \cup Permutations(Packages)
            \cup Permutations(Keys)
=============================================================================
