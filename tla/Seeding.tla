-------------------------------- MODULE Seeding --------------------------------
(***************************************************************************)
(* The seed groups.  An orchestrator checks its target, orders the selected   *)
(* groups by their dependencies and lets each reconcile its fixtures by their *)
(* unique keys: it updates the row that holds them or creates one.  Nothing is *)
(* a transaction; runs may overlap, stop half way and be repeated.            *)
(***************************************************************************)
EXTENDS Handlers, Naturals, Sequences, FiniteSets

CONSTANT
    Keys        \* the identities of the fixtures of a table, any number of them

Groups ==
    {"packages", "provinces", "categories",                         \* REFERENCE
     "users", "profiles", "products", "reviews", "members",         \* DEV
     "test-users", "test-products"}                                 \* TEST

\* A group goes through its tables one after the other.
TablesOf == [g \in Groups |-> IF g = "products" THEN <<g, "images", "certificates">> ELSE <<g>>]
Tables == Groups \cup {"images", "certificates"}
Fixtures == Tables \X Keys
FixturesOf(t) == {t} \X Keys

References == {"packages", "provinces", "categories"}
Tests == {"test-users", "test-products"}
ClassOf == [g \in Groups |-> IF g \in References THEN "REFERENCE"
                              ELSE IF g \in Tests THEN "TEST" ELSE "DEV"]

DependenciesOf ==
    [g \in Groups |-> CASE g \in {"profiles", "members"} -> {"users"}
                         [] g = "products"      -> {"categories", "users"}
                         [] g = "reviews"       -> {"users", "products"}
                         [] g = "test-products" -> {"test-users"}
                         [] OTHER               -> {}]

\* The groups in the order of their ids.
ById == <<"packages", "members", "provinces", "products", "categories", "test-products",
          "profiles", "reviews", "users", "test-users">>
Position(g) == CHOOSE i \in DOMAIN ById : ById[i] = g

VARIABLES
    rows,       \* [Fixtures -> Nat]: rows that hold all the keys of a fixture
    split,      \* fixtures of which another row holds some of the keys
    disturbed   \* history: a run crashed, or something happened while it was under way

seedRows == <<rows, split, disturbed>>

\* Those fixtures have several unique keys.
Splittable == {"users", "profiles"} \X Keys

\* Nothing is seeded yet; somebody may have signed up with a fixture's key.
SeedingInit ==
    /\ rows = [f \in Fixtures |-> 0]
    /\ split \in SUBSET FixturesOf("users")
    /\ disturbed = FALSE

-----------------------------------------------------------------------------
(* The plan *)

\* The seed command, the bootstrap of a server with the development seed on,
\* and the harness of the tests.
Registries ==
    [command   |-> References \cup {"users"},
     bootstrap |-> Groups \ (Tests \cup {"provinces"}),
     harness   |-> Tests]

SeedRequests ==
    {r \in [entry : DOMAIN Registries, target : {"disposable", "shared"},
            node : {"development", "test", "production"},
            classes : {{"REFERENCE", "DEV"}, {"TEST"}}] :
        r.entry = "harness" <=> r.classes = {"TEST"}}

\* assertSeedExecutionSafety: a disposable database, no production, and the
\* fixtures of the developers and of the tests where they belong.
SafeRequest(r) ==
    /\ r.target = "disposable" /\ r.node # "production"
    /\ "DEV" \in r.classes => r.node = "development"
    /\ "TEST" \in r.classes => r.node = "test"

Selected(r) == {g \in Registries[r.entry] : ClassOf[g] \in r.classes}

\* orderSeedMetadata: every dependency of a group is there.
Complete(gs) == \A g \in gs : DependenciesOf[g] \subseteq gs

SeedRun(c) ==
    /\ \E r \in SeedRequests :
         /\ SafeRequest(r) /\ Complete(Registries[r.entry]) /\ Complete(Selected(r))
         /\ Receive(c, [at |-> "ordering-groups", todo |-> Selected(r), done |-> {},
                        group |-> NULL, tables |-> <<>>, find |-> {}, plan |-> {}])
    /\ disturbed' = (disturbed \/ ~Quiet)
    /\ UNCHANGED <<rows, split>>

Ready(c) == {g \in call[c].todo : DependenciesOf[g] \subseteq call[c].done}
NextGroup(c) == CHOOSE g \in Ready(c) : \A h \in Ready(c) : Position(g) <= Position(h)

\* The next group is given the outputs of its dependencies, the ids of their rows.
BeginGroup(c) ==
    /\ At(c, "ordering-groups")
    /\ IF call[c].todo = {} THEN End(c)
       ELSE LET g == NextGroup(c) IN
            call' = [call EXCEPT ![c].at = "finding-fixtures", ![c].group = g,
                       ![c].todo = @ \ {g}, ![c].tables = TablesOf[g],
                       ![c].find = FixturesOf(Head(TablesOf[g]))]
    /\ UNCHANGED seedRows

-----------------------------------------------------------------------------
(* A group *)

\* Mutant of PreflightsAll: every group takes its fixtures one by one.
PreflightsAllNever(g) == FALSE

\* The reference groups find and write one fixture after the other; the others
\* find all of them before the first write.
PreflightsAll(g) == g \notin References

\* A fixture has one row to update, none, or more than the run can choose from.
Matched(f) == rows[f] = 1
Ambiguous(f) == rows[f] > 1

\* Of several keys, some may lead to different rows or to none.
Conflicts(f) == Ambiguous(f) \/ f \in split

Planned(c, f) == call[c].plan \cup {[fixture |-> f, found |-> Matched(f)]}

FindAll(c) ==
    /\ At(c, "finding-fixtures") /\ PreflightsAll(call[c].group)
    /\ \E f \in call[c].find :
         /\ ~Conflicts(f)
         /\ call' = [call EXCEPT ![c].find = @ \ {f}, ![c].plan = Planned(c, f),
                       ![c].at = IF call[c].find = {f} THEN "writing-fixtures" ELSE @]
    /\ UNCHANGED seedRows

FindNext(c) ==
    /\ At(c, "finding-fixtures") /\ ~PreflightsAll(call[c].group)
    /\ \E f \in call[c].find :
         /\ ~Conflicts(f)
         /\ call' = [call EXCEPT ![c].find = @ \ {f}, ![c].plan = Planned(c, f),
                       ![c].at = "writing-fixtures"]
    /\ UNCHANGED seedRows

\* The run fails with an identity conflict.
ReportConflict(c) ==
    /\ At(c, "finding-fixtures")
    /\ \E f \in call[c].find : Conflicts(f)
    /\ End(c)
    /\ UNCHANGED seedRows

\* The keys are unique in the database; a product may have any number of primary
\* images, and of certificates with the same number.
Unconstrained == {"images", "certificates"}
Refused(f) == f[1] \notin Unconstrained /\ (rows[f] > 0 \/ f \in split)

\* What follows a write: the rest of the table, the next table of the group, or
\* the next group.
Continue(c, left) ==
    LET ts == Tail(call[c].tables) IN
    call' = [call EXCEPT ![c].plan = left,
               ![c].at = IF left # {} THEN "writing-fixtures"
                         ELSE IF call[c].find # {} \/ ts # <<>> THEN "finding-fixtures"
                         ELSE "ordering-groups",
               ![c].tables = IF left = {} /\ call[c].find = {} THEN ts ELSE @,
               ![c].find = IF left = {} /\ @ = {} /\ ts # <<>> THEN FixturesOf(Head(ts)) ELSE @,
               ![c].done = IF left = {} /\ call[c].find = {} /\ ts = <<>>
                           THEN @ \cup {call[c].group} ELSE @]

\* The keys and what is written only once are left out of an update.
UpdateFixture(c) ==
    /\ At(c, "writing-fixtures")
    /\ \E p \in call[c].plan : p.found /\ Continue(c, call[c].plan \ {p})
    /\ UNCHANGED seedRows

CreateFixture(c) ==
    /\ At(c, "writing-fixtures")
    /\ \E p \in call[c].plan :
         /\ ~p.found /\ ~Refused(p.fixture)
         /\ rows' = [rows EXCEPT ![p.fixture] = @ + 1]
         /\ Continue(c, call[c].plan \ {p})
    /\ UNCHANGED <<split, disturbed>>

\* The run fails with a unique violation.
FailToCreate(c) ==
    /\ At(c, "writing-fixtures")
    /\ \E p \in call[c].plan : ~p.found /\ Refused(p.fixture)
    /\ End(c)
    /\ UNCHANGED seedRows

-----------------------------------------------------------------------------
(* The others *)

CrashSeed(c) ==
    /\ \E at \in {"ordering-groups", "finding-fixtures", "writing-fixtures"} : At(c, at)
    /\ Die(c)
    /\ disturbed' = TRUE
    /\ UNCHANGED <<rows, split>>

Seeded == "ordering-groups" \in mix

\* Somebody signs up, or saves a profile, with one of the keys of a fixture that
\* is not there.
SignUp ==
    /\ Seeded
    /\ \E f \in Splittable \ split : rows[f] = 0 /\ split' = split \cup {f}
    /\ disturbed' = (disturbed \/ ~Quiet)
    /\ UNCHANGED <<call, rows>>

\* A developer resolves what a run reported.
ResolveFixture ==
    /\ Seeded
    /\ \/ \E f \in split : split' = split \ {f} /\ UNCHANGED rows
       \/ \E f \in Fixtures : rows[f] > 1 /\ rows' = [rows EXCEPT ![f] = 1] /\ UNCHANGED split
    /\ disturbed' = (disturbed \/ ~Quiet)
    /\ UNCHANGED call

SeedingStep(c) ==
    \/ SeedRun(c) \/ BeginGroup(c)
    \/ FindAll(c) \/ FindNext(c) \/ ReportConflict(c)
    \/ UpdateFixture(c) \/ CreateFixture(c) \/ FailToCreate(c)
    \/ CrashSeed(c)

SeedingAround == SignUp \/ ResolveFixture

-----------------------------------------------------------------------------
(* Properties *)

\* Every variable has its type.
SeedingTypeOK ==
    /\ rows \in [Fixtures -> 0..Cardinality(Calls)]
    /\ split \subseteq Splittable /\ disturbed \in BOOLEAN

\* Runs that come one after the other, with nothing happening meanwhile, leave
\* each table of the developers and of the tests whole or untouched: a conflict
\* of one fixture is found before another is written.
GroupsAreWhole ==
    Quiet /\ ~disturbed =>
        \A t \in Tables \ References :
            (\E f \in FixturesOf(t) : rows[f] > 0) => \A f \in FixturesOf(t) : rows[f] > 0

\* Whatever overlaps and whatever crashes, a group has what it depends on: a
\* review its product and its users, a product its category and its seller.
DependenciesCameFirst ==
    \A g \in Groups : (\E f \in FixturesOf(g) : rows[f] > 0) =>
        \A d \in DependenciesOf[g] : \A f \in FixturesOf(d) : rows[f] > 0
=============================================================================
