------------------------------- MODULE Boundaries -------------------------------
(***************************************************************************)
(* The legacy migration EstablishCooperativePersistenceBoundaries: it creates *)
(* what is missing of the cooperatives' tables, constraints and indexes, and  *)
(* remembers in p3_phase_1_migration_state what it created, so that its down  *)
(* leaves what was there before.  Each direction is one transaction.          *)
(***************************************************************************)
EXTENDS Handlers

CONSTANT BoundaryTables   \* tables of the boundary

Kinds == {"table", "constraint", "index"}
Parts == BoundaryTables \X Kinds
TableOf(t) == <<t, "table">>

VARIABLES
    parts,      \* tables, constraints and indexes that exist
    suspect,    \* tables with ids that are no uuids, or with rows the prechecks refuse
    created,    \* p3_phase_1_migration_state: what up created; NULL, no table
    original    \* history: what was there when up was committed

boundaryRows == <<parts, suspect, created, original>>

\* Nothing stands without its table.
Standing(ps) == {p \in ps : TableOf(p[1]) \in ps}

\* A clean database, or one whose tables an earlier release left there.
BoundariesInit ==
    /\ parts \in {ps \in SUBSET Parts : Standing(ps) = ps}
    /\ suspect \in SUBSET {t \in BoundaryTables : TableOf(t) \in parts}
    /\ created = NULL /\ original = NULL

\* Tables that were there may have unsuitable ids or rows; nothing is rewritten then.
Prechecked == suspect = {}

\* Mutant of Missing: up takes everything for its own.
MissingAll == Parts

\* Tables, constraints and indexes are looked up by name and created when they are missing.
Missing == Parts \ parts

EstablishBoundaries ==
    /\ "migrating-boundaries" \in mix /\ created = NULL
    /\ IF Prechecked
       THEN /\ parts' = parts \cup Parts
            /\ created' = Missing
            /\ original' = parts
       ELSE UNCHANGED <<parts, created, original>>
    /\ UNCHANGED <<call, suspect>>

\* down drops what up created, whatever has become of it, and forgets it.
RevertBoundaries ==
    /\ "migrating-boundaries" \in mix
    /\ created # NULL
    /\ parts' = Standing(parts \ created)
    /\ created' = NULL
    /\ UNCHANGED <<call, suspect, original>>

\* An operator resolves what the prechecks reported before running up again.
ResolveLegacy ==
    /\ "migrating-boundaries" \in mix
    /\ \E t \in suspect : suspect' = suspect \ {t}
    /\ UNCHANGED <<call, parts, created, original>>

\* Before up or after it, an operator drops or creates a constraint or an index by hand.
AlterByHand ==
    /\ "migrating-boundaries" \in mix
    /\ \E t \in BoundaryTables, kind \in {"constraint", "index"} :
         /\ TableOf(t) \in parts
         /\ parts' = IF <<t, kind>> \in parts THEN parts \ {<<t, kind>>} ELSE parts \cup {<<t, kind>>}
         /\ original' = IF created = NULL \/ <<t, kind>> \in created THEN original
                        ELSE IF <<t, kind>> \in parts THEN original \ {<<t, kind>>}
                                                       ELSE original \cup {<<t, kind>>}
    /\ UNCHANGED <<call, suspect, created>>

BoundariesAround ==
    EstablishBoundaries \/ RevertBoundaries \/ ResolveLegacy \/ AlterByHand

\* Every variable has its type.
BoundariesTypeOK ==
    /\ parts \subseteq Parts /\ suspect \subseteq BoundaryTables
    /\ created \in (SUBSET Parts) \cup {NULL} /\ original \in (SUBSET Parts) \cup {NULL}

\* Reverting the migration leaves what was there before it, with what was altered by hand
\* of that since, and nothing that it had created.
RevertRestores == [][created # NULL /\ created' = NULL => parts' = original]_boundaryRows
=============================================================================
