-------------------------------- MODULE Lineage --------------------------------
(***************************************************************************)
(* The v2 migration lineage of one database: the migration runner, the onboarding *)
(* of an existing database whose schema is the canonical one, and the artefacts   *)
(* in docs/architecture/persistence the verifier compares with.  A schema is the  *)
(* set of migrations whose objects are there.  TypeORM's runner is external: it   *)
(* applies what is not in the ledger, in order, in one transaction.               *)
(***************************************************************************)
EXTENDS Handlers, Naturals, FiniteSets

CONSTANTS
    Packages,   \* rows of ad_packages
    Codes       \* package codes, each with the fingerprint of one legacy package

Baseline == 0   Commerce == 1   Traceability == 2   Expand == 3
Contract == 4   Members == 5    Prices == 6
Migrations == Baseline..Prices

VARIABLES
    target,        \* what the database's name says it is
    schema,        \* migrations whose objects are there
    ledger,        \* migrations_v2: how many rows each migration has; NULL, no table
    packages,      \* rows of ad_packages: legacy fingerprint and package_code
    manifest,      \* the schema the canonical catalog manifest was captured from
    decided,       \* migrations whose tables the baseline inclusion matrix names
    plan,          \* the onboarding plan last written: the schema it was made for
    unconfirmed    \* history: an onboarding was committed and not confirmed

lineageRows == <<target, schema, ledger, packages, manifest, decided, plan, unconfirmed>>

ASSUME LineageAssumption == NULL \notin [Migrations -> Nat]

Targets == {"disposable", "dedicated-test", "shared", "protected"}
Other == "another"
PackageRows == [print : Codes \cup {Other}, code : Codes \cup {NULL}]
NoPackages == [p \in Packages |-> NULL]
Rows == {p \in Packages : packages[p] # NULL}
Coded(code) == {p \in Rows : packages[p].code = code}
Printed(code) == {p \in Rows : packages[p].print = code}

Unregistered == [m \in Migrations |-> 0]
Registered == IF ledger = NULL THEN {} ELSE {m \in Migrations : ledger[m] > 0}

Resolved(rows) ==
    /\ \A p \in Packages : rows[p] # NULL => rows[p].code # NULL /\ rows[p].code = rows[p].print
    /\ \A p, q \in Packages : rows[p] # NULL /\ rows[q] # NULL /\ p # q => rows[p].code # rows[q].code

\* A database no release has migrated, one migrated by this or an earlier release, or one
\* that came to have the canonical schema without a ledger; the artefacts of this release.
LineageInit ==
    /\ target \in Targets
    /\ \/ schema = {} /\ ledger = NULL
       \/ \E last \in Migrations :
            /\ schema = Baseline..last
            /\ ledger = [m \in Migrations |-> IF m <= last THEN 1 ELSE 0]
       \/ schema = Baseline..Members /\ ledger \in {NULL, Unregistered}
    /\ packages \in [Packages -> PackageRows \cup {NULL}]
    /\ Baseline \notin schema => packages = NoPackages
    /\ Expand \notin schema => \A p \in Rows : packages[p].code = NULL
    /\ \A p, q \in Rows : p # q /\ packages[p].code # NULL => packages[p].code # packages[q].code
    /\ Contract \in schema => Resolved(packages)
    /\ manifest = Baseline..Members
    /\ decided = Migrations \ {Traceability}
    /\ plan = NULL /\ unconfirmed = FALSE

-----------------------------------------------------------------------------
(* The guards of the targets; an acknowledgement is the operator's own *)

MayMigrate(acknowledged) ==
    IF acknowledged THEN target # "protected" ELSE target = "disposable"
MayOnboard(acknowledged) ==
    target # "protected" /\ (target = "disposable" \/ acknowledged)
MayTest == target \in {"disposable", "dedicated-test"}

-----------------------------------------------------------------------------
(* migration:run *)

\* A command ends at once, with an error, on a target it may not touch.
Refuse(c, command) == command \in mix /\ At(c, "idle") /\ UNCHANGED call

MigrationRun(c) ==
    /\ \E acknowledged \in BOOLEAN :
         \/ MayMigrate(acknowledged) /\ Receive(c, [at |-> "preparing-ledger"])
         \/ ~MayMigrate(acknowledged) /\ Refuse(c, "preparing-ledger")
    /\ UNCHANGED lineageRows

\* The runner creates its table; it waits for another transaction that is creating it.
PrepareLedger(c) ==
    /\ At(c, "preparing-ledger")
    /\ ledger = NULL => \A d \in Calls : ~At(d, "registering")
    /\ ledger' = IF ledger = NULL THEN Unregistered ELSE ledger
    /\ Goto(c, "loading-executed")
    /\ UNCHANGED <<target, schema, packages, manifest, decided, plan, unconfirmed>>

LoadExecuted(c) ==
    /\ At(c, "loading-executed")
    /\ LET pending == Migrations \ Registered IN
         IF pending = {} THEN End(c)
         ELSE call' = [call EXCEPT ![c] = [at |-> "migrating", pending |-> pending]]
    /\ UNCHANGED lineageRows

Unmatched(p) == packages[p].code = NULL /\ packages[p].print = Other

RecognisedByCode ==
    /\ \A code \in Codes : Cardinality(Printed(code)) <= 1
    /\ \A p \in Rows : ~Unmatched(p)

\* What the backfill checks before it writes; it fails closed.
Recognised ==
    /\ \A code \in Codes : Cardinality(Printed(code)) <= 1
    /\ \A p \in Rows : packages[p].code # NULL => packages[p].print = packages[p].code
    /\ \A code \in Codes :
         ~(Coded(code) # {} /\ \E p \in Printed(code) : packages[p].code = NULL)
    /\ \A p \in Rows : ~Unmatched(p)

\* The check is one statement, and the updates are later ones.
CheckPackages(c) ==
    /\ At(c, "migrating")
    /\ IF Contract \in call[c].pending /\ ~Recognised THEN End(c) ELSE Goto(c, "committing")
    /\ UNCHANGED lineageRows

\* Only rows without a code get one.
Backfilled ==
    [p \in Packages |->
        IF p \in Rows /\ packages[p].code = NULL /\ packages[p].print \in Codes
        THEN [packages[p] EXCEPT !.code = packages[p].print]
        ELSE packages[p]]

CodesAreUnique(rows) ==
    \A p, q \in Rows : p # q /\ rows[p].code # NULL => rows[p].code # rows[q].code

\* What the second check and SET NOT NULL refuse.
Contractable(rows) == CodesAreUnique(rows) /\ \A p \in Rows : rows[p].code # NULL

Needs(m) == CASE m \in {Commerce, Expand, Members} -> {Baseline}
              [] m = Contract -> {Baseline, Expand}
              [] OTHER -> {}

\* The baseline wants an empty schema, and nothing is created IF NOT EXISTS.
Applicable(pending) ==
    /\ Baseline \in pending => schema = {}
    /\ pending \cap schema \subseteq {Contract}
    /\ \A m \in pending : Needs(m) \subseteq schema \cup pending

Applied(pending) ==
    /\ schema' = schema \cup pending
    /\ ledger' = [m \in Migrations |-> IF m \in pending THEN ledger[m] + 1 ELSE ledger[m]]
    /\ packages' = IF Contract \in pending THEN Backfilled ELSE packages

\* All pending migrations, their rows in the ledger and the commit; or nothing.
CommitMigrations(c) ==
    /\ At(c, "committing")
    /\ LET pending == call[c].pending IN
         IF Applicable(pending) /\ (Contract \in pending => Contractable(Backfilled))
         THEN Applied(pending)
         ELSE UNCHANGED <<schema, ledger, packages>>
    /\ End(c)
    /\ UNCHANGED <<target, manifest, decided, plan, unconfirmed>>

-----------------------------------------------------------------------------
(* migration:revert, by an operator who is alone with the database *)

LastRegistered == CHOOSE m \in Registered : \A n \in Registered : n <= m

\* Traceability evidence is append-only: its down throws.
Revertible(m) ==
    /\ m # Traceability
    /\ m \in {Expand, Members} => m \in schema
    /\ m = Contract => Expand \in schema

\* The baseline's tables go with the columns later migrations added to them.
Gone(m) == IF m = Baseline THEN {Baseline, Expand, Contract} ELSE {m}

Uncoded == [p \in Packages |-> IF p \in Rows THEN [packages[p] EXCEPT !.code = NULL] ELSE NULL]

RevertLast ==
    /\ "reverting-migrations" \in mix /\ Quiet
    /\ \E acknowledged \in BOOLEAN : MayMigrate(acknowledged)
    /\ Registered # {} /\ Revertible(LastRegistered)
    /\ schema' = schema \ Gone(LastRegistered)
    /\ ledger' = [ledger EXCEPT ![LastRegistered] = 0]
    /\ packages' = CASE LastRegistered = Baseline -> NoPackages
                     [] LastRegistered = Expand -> Uncoded
                     [] OTHER -> packages
    /\ UNCHANGED <<call, target, manifest, decided, plan, unconfirmed>>

-----------------------------------------------------------------------------
(* Onboarding: verify, plan, review, apply *)

\* The catalog is compared with the manifest, object by object, in both directions.
CatalogMatches == schema = manifest

\* A table the decision matrix does not name blocks the plan.
EveryTableDecided == schema \subseteq decided

Eligible == CatalogMatches /\ Registered = {} /\ EveryTableDecided

BuildPlan ==
    /\ "planning-onboarding" \in mix
    /\ Eligible
    /\ plan' = schema
    /\ UNCHANGED <<call, target, schema, ledger, packages, manifest, decided, unconfirmed>>

\* A reviewed plan, whose digest fits, with the approval it asks for.
ApplyPlan(c) ==
    /\ plan # NULL
    /\ \E acknowledged \in BOOLEAN : MayOnboard(acknowledged)
    /\ Receive(c, [at |-> "preflight", source |-> plan])
    /\ UNCHANGED lineageRows

Preflight(c) ==
    /\ At(c, "preflight")
    /\ IF Eligible /\ schema = call[c].source THEN Goto(c, "locking") ELSE End(c)
    /\ UNCHANGED lineageRows

Holding(d) == call[d].at \in {"rechecking", "counting", "registering"}

\* Mutant of LockIsFree: no advisory lock.
LockIsFreeAlways == TRUE

\* pg_advisory_xact_lock, held to the end of the transaction.
LockIsFree == \A d \in Calls : ~Holding(d)

LockOnboarding(c) ==
    /\ At(c, "locking") /\ LockIsFree
    /\ Goto(c, "rechecking")
    /\ UNCHANGED lineageRows

RecheckFingerprint(c) ==
    /\ At(c, "rechecking")
    /\ IF schema = call[c].source THEN Goto(c, "counting") ELSE End(c)
    /\ UNCHANGED lineageRows

CountLedger(c) ==
    /\ At(c, "counting")
    /\ IF Registered = {} THEN Goto(c, "registering") ELSE End(c)
    /\ UNCHANGED lineageRows

V2Lineage == {Baseline, Commerce}

\* The inserts and the commit, which creates the table if there was none.
RegisterLineage(c) ==
    /\ At(c, "registering")
    /\ ledger' = [m \in Migrations |->
                     (IF ledger = NULL THEN 0 ELSE ledger[m]) + (IF m \in V2Lineage THEN 1 ELSE 0)]
    /\ unconfirmed' = TRUE
    /\ Goto(c, "confirming")
    /\ UNCHANGED <<target, schema, packages, manifest, decided, plan>>

\* Mutant of Confirms: nothing is verified after the commit.
ConfirmsAlways(source) == TRUE

Confirms(source) == CatalogMatches /\ Registered # {} /\ schema = source

\* The verification after the commit; when it throws the rows stay.
ConfirmOnboarding(c) ==
    /\ At(c, "confirming")
    /\ unconfirmed' = (unconfirmed /\ ~Confirms(call[c].source))
    /\ End(c)
    /\ UNCHANGED <<target, schema, ledger, packages, manifest, decided, plan>>

-----------------------------------------------------------------------------
(* The tools that write the artefacts, and what else changes a database *)

\* The manifest is captured from a test database with all the entities' tables.
WriteManifest ==
    /\ "writing-manifests" \in mix
    /\ MayTest /\ Baseline..Members \subseteq schema
    /\ manifest' = schema
    /\ UNCHANGED <<call, target, schema, ledger, packages, decided, plan, unconfirmed>>

\* The matrix is written from the ownership registry, which names every table.
WriteMatrix ==
    /\ "writing-manifests" \in mix
    /\ decided' = Migrations
    /\ UNCHANGED <<call, target, schema, ledger, packages, manifest, plan, unconfirmed>>

\* A database without a lineage is still changed by the legacy tools and by hand.
LegacyChange ==
    /\ "changing-by-hand" \in mix
    /\ Registered = {} /\ schema # {}
    /\ \E m \in {Commerce, Members, Prices} :
         schema' = IF m \in schema THEN schema \ {m} ELSE schema \cup {m}
    /\ UNCHANGED <<call, target, ledger, packages, manifest, decided, plan, unconfirmed>>

\* The seed of the reference packages adds one with its code.
SeedPackage ==
    /\ "seeding-packages" \in mix
    /\ Expand \in schema
    /\ \E p \in Packages \ Rows, code \in Codes :
         /\ Coded(code) = {}
         /\ packages' = [packages EXCEPT ![p] = [print |-> code, code |-> code]]
    /\ UNCHANGED <<call, target, schema, ledger, manifest, decided, plan, unconfirmed>>

\* The clean-v2 verification forgets the lineage of its own database to onboard it.
DropLedger ==
    /\ "verifying-clean" \in mix /\ Quiet
    /\ target = "disposable" /\ ledger # NULL
    /\ ledger' = NULL /\ plan' = NULL
    /\ UNCHANGED <<call, target, schema, packages, manifest, decided, unconfirmed>>

Connected(c) ==
    call[c].at \in {"preparing-ledger", "loading-executed", "migrating", "committing", "preflight",
                   "locking", "rechecking", "counting", "registering", "confirming"}

\* Dropping a disposable database ends the sessions of whoever is connected to it.
RecreateDatabase ==
    /\ "verifying-clean" \in mix
    /\ MayTest
    /\ call' = [c \in Calls |-> IF Connected(c) THEN Idle ELSE call[c]]
    /\ schema' = {} /\ ledger' = NULL /\ packages' = NoPackages
    /\ plan' = NULL /\ unconfirmed' = FALSE
    /\ UNCHANGED <<target, manifest, decided>>

CrashLineage(c) == Connected(c) /\ Die(c) /\ UNCHANGED lineageRows

LineageStep(c) ==
    \/ MigrationRun(c) \/ PrepareLedger(c) \/ LoadExecuted(c) \/ CheckPackages(c)
    \/ CommitMigrations(c)
    \/ ApplyPlan(c) \/ Preflight(c) \/ LockOnboarding(c) \/ RecheckFingerprint(c)
    \/ CountLedger(c) \/ RegisterLineage(c) \/ ConfirmOnboarding(c)
    \/ CrashLineage(c)

LineageAround ==
    \/ RevertLast \/ BuildPlan \/ WriteManifest \/ WriteMatrix \/ LegacyChange
    \/ SeedPackage \/ DropLedger \/ RecreateDatabase

-----------------------------------------------------------------------------
\* Every variable has its type.
LineageTypeOK ==
    /\ target \in Targets
    /\ schema \subseteq Migrations
    /\ ledger \in [Migrations -> Nat] \cup {NULL}
    /\ packages \in [Packages -> PackageRows \cup {NULL}]
    /\ manifest \subseteq Migrations /\ decided \subseteq Migrations
    /\ plan \in (SUBSET Migrations) \cup {NULL} /\ unconfirmed \in BOOLEAN

\* No migration is registered twice, whatever tools run at once or die on the way.
RegisteredOnce == ledger # NULL => \A m \in Migrations : ledger[m] <= 1

\* The lineage is true: what is registered is there, unless an onboarding has been committed
\* over a schema that changed under it and has not reported success.
LineageIsTrue == ~unconfirmed => Registered \subseteq schema

\* After the contract every package has the code of its fingerprint and no two share one.
CodesFollowFingerprints == Contract \in schema => Resolved(packages)

\* ADR 0004: onboarding "registers the exact baseline after all guards pass": what is
\* pending on an onboarded database is what it lacks.
OnboardedExactly == Registered # {} /\ ~unconfirmed => Registered = schema
=============================================================================
