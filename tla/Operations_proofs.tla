--------------------------- MODULE Operations_proofs ---------------------------
(***************************************************************************)
(* Proofs about Operations for every set of packages, documents, files and    *)
(* fixtures, every number of scripts at a time and every mix of them.  Each   *)
(* part has an invariant of its own over its tables and the frames of its own *)
(* scripts; a step of one part leaves the invariants of the others.           *)
(***************************************************************************)
EXTENDS Operations, WellFoundedInduction, TLAPS

USE LineageAssumption, RolloutAssumption, FileRowsAssumption

-----------------------------------------------------------------------------
(* The frames of each part *)

LineageAwaits ==
    {"preparing-ledger", "loading-executed", "migrating", "committing", "preflight",
     "locking", "rechecking", "counting", "registering", "confirming"}
RunnerFrames ==
    [at : {"preparing-ledger", "loading-executed"}]
    \cup [at : {"migrating", "committing"}, pending : SUBSET Migrations]
OnboardFrames ==
    [at : {"preflight", "locking", "rechecking", "counting", "registering", "confirming"},
     source : SUBSET Migrations]
LineageFrames == RunnerFrames \cup OnboardFrames

RolloutAwaits ==
    {"loading-legacy", "next-legacy", "hydrating", "linking", "removing-copy",
     "loading-linked", "next-linked", "clearing", "verifying", "verifying-metadata",
     "finding-document", "deciding-document", "reading-file", "reviewing-file", "taking-back"}
DocRows == [source : {"set", NULL}, link : FileIds \cup {NULL}, verdict : Verdicts]
ApplyAwaits == {"next-legacy", "hydrating", "linking", "removing-copy"}
ApplyFrames ==
    [at : ApplyAwaits, rows : [Docs -> DocRows], left : SUBSET Docs, doc : Docs \cup {NULL},
     file : FileIds \cup {NULL}]
FinalizeFrames ==
    [at : {"next-linked", "clearing"}, rows : [Docs -> [link : FileIds \cup {NULL}]],
     left : SUBSET Docs, doc : Docs \cup {NULL}]
VerifyFrames == [at : {"verifying", "verifying-metadata"}, left : SUBSET Docs, found : BOOLEAN]
ReviewAwaits ==
    {"finding-document", "deciding-document", "reading-file", "reviewing-file", "taking-back"}
ReviewFrames ==
    [at : ReviewAwaits, doc : Docs, verdict : {"approved", "rejected"}, file : FileIds \cup {NULL}]
LoadFrames == [at : {"loading-legacy", "loading-linked"}]
RolloutFrames == LoadFrames \cup ApplyFrames \cup FinalizeFrames \cup VerifyFrames \cup ReviewFrames

SeedAwaits == {"ordering-groups", "finding-fixtures", "writing-fixtures"}
\* What is left of the tables of a group.
Queues ==
    {<<g>> : g \in Groups}
    \cup {<<>>, <<"products", "images", "certificates">>, <<"images", "certificates">>,
          <<"certificates">>}
Plans == [fixture : Fixtures, found : BOOLEAN]
SeedFrames ==
    [at : SeedAwaits, todo : SUBSET Groups, done : SUBSET Groups, group : Groups \cup {NULL},
     tables : Queues, find : SUBSET Fixtures, plan : SUBSET Plans]

Frames == {Idle} \cup LineageFrames \cup RolloutFrames \cup SeedFrames

FramesOK == call \in [Calls -> Frames]

\* The script of call c is one of a part, given by its awaits.
Of(c, awaits) == call[c].at \in awaits

-----------------------------------------------------------------------------
(* The invariant of the lineage *)

\* Migrations are registered in their order.
RegisteredInOrder == \A m \in Registered, n \in Migrations : n <= m => n \in Registered

\* What a runner is about to apply: once another has registered some of it, what is in
\* the schema is in its way.
PendingHolds(pending) ==
    /\ Prices \in pending
    /\ Migrations \ pending \subseteq Registered
    /\ pending \cap Registered # {} => ~(pending \cap schema \subseteq {Contract})

LineageHolds(c) ==
    /\ call[c].at \in {"loading-executed", "migrating", "committing"} => ledger # NULL
    /\ call[c].at \in {"migrating", "committing"} => PendingHolds(call[c].pending)
    /\ call[c].at \in {"locking", "rechecking", "counting", "registering"} => Baseline \in schema
    /\ At(c, "registering") => Registered = {}

OneHolder == \A c, d \in Calls : Holding(c) /\ Holding(d) => c = d

LineageInv ==
    /\ schema \subseteq Migrations /\ ledger \in [Migrations -> Nat] \cup {NULL}
    /\ plan \in (SUBSET Migrations) \cup {NULL}
    /\ unconfirmed \in BOOLEAN
    /\ Baseline..Members \subseteq manifest
    /\ RegisteredOnce /\ LineageIsTrue
    /\ RegisteredInOrder
    /\ Prices \in Registered => Prices \in schema
    /\ \A c \in Calls : LineageHolds(c)
    /\ OneHolder

-----------------------------------------------------------------------------
(* The invariant of the boundary migration *)

\* What up created is more than what was there, and nothing of it stood in a table.
BoundariesInv ==
    /\ parts \subseteq Parts /\ Standing(parts) = parts
    /\ created # NULL =>
         /\ original = Standing(parts \ created)
         /\ \A t \in BoundaryTables, kind \in Kinds : TableOf(t) \in created => <<t, kind>> \in created

-----------------------------------------------------------------------------
(* The invariant of the rollout *)

\* Of every path there is the object, and its row, or else the one file of it, leads there.
FilesInv ==
    /\ \A d \in Docs : docs[d].link # NULL =>
         kept[docs[d].link] # NULL /\ kept[docs[d].link].doc = d
    /\ \A f \in FileIds : kept[f] # NULL =>
         kept[f].object = kept[f].doc /\ kept[f].doc \in Docs \ External
    /\ \A f, g \in FileIds :
         kept[f] # NULL /\ kept[g] # NULL /\ kept[f].doc = kept[g].doc => f = g
    /\ Docs \ External \subseteq objects
    /\ \A d \in Docs \ External :
         /\ docs[d].source = NULL => \E f \in FileIds : kept[f] # NULL /\ kept[f].doc = d
         /\ columns /\ docs[d].link = NULL => docs[d].source = NULL

UnderReview(d) == \E c \in Calls : Reviewing(c) /\ call[c].doc = d

\* The file has the status of its document's review, or it is known why not.
Tidy(f) ==
    LET d == kept[f].doc IN
    \/ kept[f].status = FileStatus(docs[d].verdict)
    \/ d \in astray
    \/ UnderReview(d)

\* A row keeps its file or can be linked to it again.
Reachable(f) ==
    kept[f] # NULL /\ (docs[kept[f].doc].link = f \/ docs[kept[f].doc].source = "set")

TidyInv == \A f \in FileIds : Reachable(f) => Tidy(f)

\* What the queries of verify establish.
CutOver(d) == docs[d].source = NULL /\ (d \notin External => docs[d].link # NULL)

PassedInv ==
    passed => \A d \in Docs : CutOver(d) /\ (d \notin External => kept[docs[d].link].sized)

RolloutHolds(c) ==
    /\ columns
    /\ call[c].at \in {"linking", "removing-copy"} => call[c].file \in FileIds
    /\ call[c].at \in {"hydrating", "clearing"} =>
         call[c].doc \in Docs /\ Row(c, call[c].doc).link # NULL
    /\ At(c, "verifying") /\ ~call[c].found => \A d \in Docs \ call[c].left : docs[d].source = NULL
    /\ At(c, "verifying-metadata") /\ ~call[c].found => \A d \in Docs : CutOver(d)
    /\ At(c, "deciding-document") \/ Reviewing(c) => call[c].file = docs[call[c].doc].link
    /\ call[c].at \in {"reviewing-file", "taking-back"} => call[c].file # NULL
    /\ Reviewing(c) => docs[call[c].doc].verdict = call[c].verdict

\* A document is reviewed by one at a time.
OneReviewer ==
    \A c, d \in Calls : Reviewing(c) /\ Reviewing(d) /\ call[c].doc = call[d].doc => c = d

RolloutInv ==
    /\ RolloutTypeOK /\ FilesInv /\ TidyInv /\ PassedInv
    /\ \A c \in Calls : Of(c, RolloutAwaits) => RolloutHolds(c)
    /\ OneReviewer

-----------------------------------------------------------------------------
(* The invariant of the seeds *)

Whole(t) == (\E f \in FixturesOf(t) : rows[f] > 0) => \A f \in FixturesOf(t) : rows[f] > 0
Full(t) == \A f \in FixturesOf(t) : rows[f] > 0

\* The groups that are done, or under way, come after their dependencies.
GroupHolds(c) ==
    LET g == call[c].group  t == Head(call[c].tables) IN
    /\ \A h \in call[c].done : Full(h)
    /\ At(c, "ordering-groups") =>
         /\ call[c].plan = {}
         /\ \A h \in call[c].todo : DependenciesOf[h] \subseteq call[c].todo \cup call[c].done
    /\ call[c].at \in {"finding-fixtures", "writing-fixtures"} =>
         /\ g \in Groups /\ DependenciesOf[g] \subseteq call[c].done
         /\ \A h \in call[c].todo : DependenciesOf[h] \subseteq call[c].todo \cup call[c].done \cup {g}
         /\ call[c].tables # <<>> /\ (t = g \/ (g = "products" /\ t \in Unconstrained /\ Full(g)))
         /\ call[c].find \subseteq FixturesOf(t)
         /\ \A p \in call[c].plan : p.fixture \in FixturesOf(t)
         /\ \A f \in FixturesOf(t) :
              f \in call[c].find \/ rows[f] > 0 \/ [fixture |-> f, found |-> FALSE] \in call[c].plan
    /\ At(c, "finding-fixtures") /\ ~PreflightsAll(g) => call[c].plan = {}
    /\ At(c, "writing-fixtures") /\ PreflightsAll(g) => call[c].find = {}

\* A run that is alone finds nothing in its way that it has not seen.
AloneHolds(c) ==
    /\ \A p \in call[c].plan : ~p.found => rows[p.fixture] = 0 /\ p.fixture \notin split
    /\ \A t \in Tables \ References :
         Whole(t) \/ (At(c, "writing-fixtures") /\ t = Head(call[c].tables))

OneRun == \A c, d \in Calls : Of(c, SeedAwaits) /\ Of(d, SeedAwaits) => c = d

SeedInv ==
    /\ rows \in [Fixtures -> Nat] /\ split \subseteq Splittable /\ disturbed \in BOOLEAN
    /\ DependenciesCameFirst
    /\ \A c \in Calls : Of(c, SeedAwaits) => GroupHolds(c)
    /\ ~disturbed =>
         /\ OneRun
         /\ \A c \in Calls : Of(c, SeedAwaits) => AloneHolds(c)
         /\ (\A c \in Calls : ~Of(c, SeedAwaits)) => \A t \in Tables \ References : Whole(t)

IInv == FramesOK /\ LineageInv /\ BoundariesInv /\ RolloutInv /\ SeedInv

-----------------------------------------------------------------------------
(* Steps and frames *)

\* The await of a frame tells the part it belongs to, and its shape.
LEMMA FrameShapes ==
    ASSUME NEW f \in Frames
    PROVE  /\ f.at \in {"preparing-ledger", "loading-executed", "migrating", "committing"} =>
                f \in RunnerFrames
           /\ f.at \in {"migrating", "committing"} => f.pending \subseteq Migrations
           /\ f.at \in {"preflight", "locking", "rechecking", "counting", "registering", "confirming"} =>
                f \in OnboardFrames
           /\ f.at \in {"loading-legacy", "loading-linked"} => f \in LoadFrames
           /\ f.at \in ApplyAwaits => f \in ApplyFrames
           /\ f.at \in {"next-linked", "clearing"} => f \in FinalizeFrames
           /\ f.at \in {"verifying", "verifying-metadata"} => f \in VerifyFrames
           /\ f.at \in ReviewAwaits => f \in ReviewFrames
           /\ f.at \in SeedAwaits => f \in SeedFrames
           /\ f.at \in {"idle"} \cup LineageAwaits \cup RolloutAwaits \cup SeedAwaits
<1>1. f = Idle => f.at = "idle"
    BY DEF Idle
<1>2. f \in RunnerFrames =>
        /\ f.at \in {"preparing-ledger", "loading-executed", "migrating", "committing"}
        /\ f.at \in {"migrating", "committing"} => f.pending \subseteq Migrations
    BY DEF RunnerFrames
<1>3. f \in OnboardFrames =>
        f.at \in {"preflight", "locking", "rechecking", "counting", "registering", "confirming"}
    BY DEF OnboardFrames
<1>4. f \in LoadFrames => f.at \in {"loading-legacy", "loading-linked"}
    BY DEF LoadFrames
<1>5. f \in ApplyFrames => f.at \in ApplyAwaits
    BY DEF ApplyFrames
<1>6. f \in FinalizeFrames => f.at \in {"next-linked", "clearing"}
    BY DEF FinalizeFrames
<1>7. f \in VerifyFrames => f.at \in {"verifying", "verifying-metadata"}
    BY DEF VerifyFrames
<1>8. f \in SeedFrames => f.at \in SeedAwaits
    BY DEF SeedFrames
<1>9. f \in ReviewFrames => f.at \in ReviewAwaits
    BY DEF ReviewFrames
<1>10. f \in {Idle} \cup RunnerFrames \cup OnboardFrames \cup LoadFrames \cup ApplyFrames
           \cup FinalizeFrames \cup VerifyFrames \cup ReviewFrames \cup SeedFrames
    BY DEF Frames, LineageFrames, RolloutFrames
<1> QED
    BY <1>1, <1>2, <1>3, <1>4, <1>5, <1>6, <1>7, <1>8, <1>9, <1>10
    DEF LineageAwaits, RolloutAwaits, SeedAwaits, ApplyAwaits, ReviewAwaits

\* A step of one script, which belongs to the part of the given awaits.
Turn(c, awaits) ==
    /\ call' = [call EXCEPT ![c] = call'[c]]
    /\ call'[c] \in Frames
    /\ call[c].at \in awaits \cup {"idle"}
    /\ call'[c].at \in awaits \cup {"idle"}

LEMMA TurnOthers ==
    ASSUME FramesOK, NEW c \in Calls, NEW awaits, Turn(c, awaits)
    PROVE  FramesOK' /\ \A d \in Calls \ {c} : call'[d] = call[d]
BY DEF FramesOK, Turn

\* The scripts of other parts are where they were.
Elsewhere(others) ==
    \A d \in Calls : Of(d, others) \/ Of(d, others)' => call'[d] = call[d]

LEMMA TurnElsewhere ==
    ASSUME FramesOK, NEW c \in Calls, NEW awaits, NEW others, Turn(c, awaits),
           awaits \cap others = {}, "idle" \notin others
    PROVE  Elsewhere(others)
BY TurnOthers DEF Turn, Of, Elsewhere

LEMMA PartsApart ==
    /\ LineageAwaits \cap RolloutAwaits = {} /\ LineageAwaits \cap SeedAwaits = {}
    /\ RolloutAwaits \cap SeedAwaits = {}
    /\ "idle" \notin LineageAwaits \cup RolloutAwaits \cup SeedAwaits
BY DEF LineageAwaits, RolloutAwaits, SeedAwaits

LEMMA Ended ==
    ASSUME FramesOK, NEW c \in Calls, End(c)
    PROVE  /\ call' = [call EXCEPT ![c] = call'[c]]
           /\ call'[c] = Idle /\ call'[c] \in Frames /\ call'[c].at = "idle"
BY DEF FramesOK, End, Frames, Idle

LEMMA Received ==
    ASSUME FramesOK, NEW c \in Calls, NEW frame, Receive(c, frame)
    PROVE  /\ call' = [call EXCEPT ![c] = call'[c]]
           /\ call'[c] = frame /\ call[c].at = "idle" /\ frame.at \in mix
BY DEF FramesOK, Receive, At

LEMMA Moved ==
    ASSUME FramesOK, NEW c \in Calls, NEW await, Goto(c, await)
    PROVE  /\ call' = [call EXCEPT ![c] = call'[c]]
           /\ call'[c] = [call[c] EXCEPT !.at = await]
BY DEF FramesOK, Goto

LEMMA Given ==
    ASSUME FramesOK, NEW c \in Calls, NEW frame, call' = [call EXCEPT ![c] = frame]
    PROVE  call' = [call EXCEPT ![c] = call'[c]] /\ call'[c] = frame
BY DEF FramesOK

-----------------------------------------------------------------------------
(* The lineage *)

\* What the frame of a runner or an onboarding becomes.
LEMMA LineageMoved ==
    ASSUME FramesOK, NEW c \in Calls, NEW await, Goto(c, await), Of(c, LineageAwaits),
           \/ call[c].at \in {"preparing-ledger", "loading-executed"} /\ await = "loading-executed"
           \/ call[c].at \in {"migrating", "committing"} /\ await = "committing"
           \/ call[c] \in OnboardFrames
                /\ await \in {"locking", "rechecking", "counting", "registering", "confirming"}
    PROVE  /\ Turn(c, LineageAwaits) /\ call'[c].at = await
           /\ await = "committing" => call'[c].pending = call[c].pending
<1>1. /\ call' = [call EXCEPT ![c] = call'[c]]
      /\ call'[c] = [call[c] EXCEPT !.at = await]
    BY Moved
<1>2. call[c] \in Frames /\ await \in LineageAwaits
    BY DEF FramesOK, LineageAwaits
<1>3. CASE call[c].at \in {"preparing-ledger", "loading-executed"} /\ await = "loading-executed"
    <2>1. call[c] \in [at : {"preparing-ledger", "loading-executed"}]
        BY <1>2, <1>3, FrameShapes DEF RunnerFrames
    <2>2. call'[c] \in [at : {"preparing-ledger", "loading-executed"}] /\ call'[c].at = await
        BY <1>1, <1>3, <2>1
    <2>3. call'[c] \in Frames
        BY <2>2 DEF Frames, LineageFrames, RunnerFrames
    <2> QED
        BY <1>1, <1>2, <1>3, <2>2, <2>3 DEF Turn, Of
<1>4. CASE call[c].at \in {"migrating", "committing"} /\ await = "committing"
    <2>1. call[c] \in [at : {"migrating", "committing"}, pending : SUBSET Migrations]
        BY <1>2, <1>4, FrameShapes DEF RunnerFrames
    <2>2. /\ call'[c] \in [at : {"migrating", "committing"}, pending : SUBSET Migrations]
          /\ call'[c].at = await /\ call'[c].pending = call[c].pending
        BY <1>1, <1>4, <2>1
    <2>3. call'[c] \in Frames
        BY <2>2 DEF Frames, LineageFrames, RunnerFrames
    <2> QED
        BY <1>1, <1>2, <1>4, <2>2, <2>3 DEF Turn, Of
<1>5. CASE call[c] \in OnboardFrames
             /\ await \in {"locking", "rechecking", "counting", "registering", "confirming"}
    <2>1. call'[c] \in OnboardFrames /\ call'[c].at = await
        BY <1>1, <1>5 DEF OnboardFrames
    <2>2. call'[c] \in Frames
        BY <2>1 DEF Frames, LineageFrames
    <2> QED
        BY <1>1, <1>2, <1>5, <2>1, <2>2 DEF Turn, Of
<1> QED
    BY <1>3, <1>4, <1>5

\* A script that ends says nothing of the tables.
LEMMA LineageEnded ==
    ASSUME FramesOK, NEW c \in Calls, End(c), Of(c, LineageAwaits)
    PROVE  Turn(c, LineageAwaits) /\ call'[c].at = "idle"
BY Ended DEF Turn, Of

\* Steps that leave schema and ledger alone keep the invariant when their frame is right.
LEMMA LineageLook ==
    ASSUME FramesOK, LineageInv, NEW c \in Calls, Turn(c, LineageAwaits),
           UNCHANGED <<schema, ledger, manifest, plan, unconfirmed>>,
           LineageHolds(c)', Holding(c)' => Holding(c) \/ LockIsFree
    PROVE  LineageInv'
<1>1. \A d \in Calls \ {c} : call'[d] = call[d]
    BY TurnOthers
<1>2. Registered' = Registered
    BY DEF Registered
<1>3. RegisteredOnce' /\ LineageIsTrue' /\ RegisteredInOrder' /\ (Prices \in Registered => Prices \in schema)'
    BY <1>2 DEF LineageInv, RegisteredOnce, LineageIsTrue, RegisteredInOrder
<1>4. \A d \in Calls : LineageHolds(d)'
    <2> SUFFICES ASSUME NEW d \in Calls, d # c PROVE LineageHolds(d)'
        OBVIOUS
    <2>1. LineageHolds(d) /\ call'[d] = call[d]
        BY <1>1 DEF LineageInv
    <2> QED
        BY <1>2, <2>1 DEF LineageHolds, PendingHolds, At
<1>5. OneHolder'
    BY <1>1 DEF LineageInv, OneHolder, Holding, LockIsFree
<1> QED
    BY <1>3, <1>4, <1>5 DEF LineageInv

LEMMA LineageStarts ==
    ASSUME FramesOK, LineageInv, NEW c \in Calls, MigrationRun(c) \/ ApplyPlan(c)
    PROVE  LineageInv' /\ Turn(c, LineageAwaits)
<1>1. UNCHANGED <<schema, ledger, manifest, plan, unconfirmed>>
    BY DEF MigrationRun, ApplyPlan, lineageRows
<1>2. /\ Turn(c, LineageAwaits)
      /\ call'[c].at \in {"idle", "preparing-ledger", "preflight"}
    <2>1. CASE UNCHANGED call /\ At(c, "idle")
        <3>1. call' = [call EXCEPT ![c] = call'[c]] /\ call'[c] \in Frames
            BY <2>1 DEF FramesOK
        <3> QED
            BY <2>1, <3>1 DEF Turn, At
    <2>2. ASSUME NEW frame \in {[at |-> "preparing-ledger"], [at |-> "preflight", source |-> plan]},
                 Receive(c, frame), frame.at = "preflight" => plan # NULL
          PROVE  Turn(c, LineageAwaits) /\ call'[c].at \in {"idle", "preparing-ledger", "preflight"}
        <3>1. /\ call' = [call EXCEPT ![c] = call'[c]]
              /\ call'[c] = frame /\ call[c].at = "idle"
            BY <2>2, Received
        <3>2. frame \in LineageFrames /\ frame.at \in {"preparing-ledger", "preflight"}
            <4>1. CASE frame = [at |-> "preparing-ledger"]
                BY <4>1 DEF LineageFrames, RunnerFrames
            <4>2. CASE frame = [at |-> "preflight", source |-> plan]
                <5>1. frame.at = "preflight"
                    BY <4>2
                <5>2. plan \in SUBSET Migrations
                    BY <2>2, <5>1 DEF LineageInv
                <5> QED
                    BY <4>2, <5>1, <5>2 DEF LineageFrames, OnboardFrames
            <4> QED
                BY <2>2, <4>1, <4>2
        <3> QED
            BY <3>1, <3>2 DEF Turn, Frames, LineageAwaits
    <2>3. CASE MigrationRun(c)
        BY <2>1, <2>2, <2>3 DEF MigrationRun, Refuse
    <2>4. CASE ApplyPlan(c)
        BY <2>2, <2>4 DEF ApplyPlan
    <2> QED
        BY <2>3, <2>4
<1>3. LineageHolds(c)' /\ ~Holding(c)'
    BY <1>2 DEF LineageHolds, Holding, At
<1> QED
    BY <1>1, <1>2, <1>3, LineageLook

LEMMA LineageLooks ==
    ASSUME FramesOK, LineageInv, NEW c \in Calls,
           \/ LoadExecuted(c) \/ CheckPackages(c) \/ Preflight(c) \/ LockOnboarding(c)
           \/ RecheckFingerprint(c) \/ CountLedger(c) \/ CrashLineage(c)
    PROVE  LineageInv' /\ Turn(c, LineageAwaits)
<1>1. /\ UNCHANGED <<schema, ledger, manifest, plan, unconfirmed>> /\ Registered' = Registered
      /\ Of(c, LineageAwaits) /\ LineageHolds(c) /\ call[c] \in Frames
    BY DEF LoadExecuted, CheckPackages, Preflight, LockOnboarding, RecheckFingerprint, CountLedger,
           CrashLineage, Connected, lineageRows, Of, At, LineageAwaits, LineageInv, Registered,
           FramesOK
<1>2. ASSUME Turn(c, LineageAwaits), LineageHolds(c)', Holding(c)' => Holding(c) \/ LockIsFree
      PROVE  LineageInv' /\ Turn(c, LineageAwaits)
    BY <1>1, <1>2, LineageLook
<1>3. CASE End(c)
    <2>1. Turn(c, LineageAwaits) /\ call'[c].at = "idle"
        BY <1>1, <1>3, LineageEnded
    <2> QED
        BY <1>2, <2>1 DEF LineageHolds, Holding, At
<1>4. CASE LoadExecuted(c) /\ ~End(c)
    <2> PICK pending : pending = Migrations \ Registered
        OBVIOUS
    <2>1. /\ pending # {} /\ call[c].at = "loading-executed"
          /\ call' = [call EXCEPT ![c] = [at |-> "migrating", pending |-> pending]]
        BY <1>4 DEF LoadExecuted, At
    <2> PICK frame : frame = [at |-> "migrating", pending |-> pending]
        OBVIOUS
    <2>2. /\ call' = [call EXCEPT ![c] = call'[c]] /\ call'[c] = frame
          /\ frame.at = "migrating" /\ frame.pending = pending
        BY <2>1, Given
    <2>3. frame \in Frames
        BY DEF Frames, LineageFrames, RunnerFrames
    <2>4. Turn(c, LineageAwaits)
        BY <2>1, <2>2, <2>3 DEF Turn, LineageAwaits
    <2>5. PendingHolds(pending)
        <3>1. Prices \in pending
            BY <2>1 DEF LineageInv, RegisteredInOrder, Migrations, Prices, Baseline
        <3> QED
            BY <3>1 DEF PendingHolds
    <2>6. PendingHolds(pending)'
        BY <1>1, <2>5 DEF PendingHolds
    <2>7. LineageHolds(c)'
        BY <1>1, <2>1, <2>2, <2>6 DEF LineageHolds, At
    <2> QED
        BY <1>2, <2>2, <2>4, <2>7 DEF Holding
<1>5. CASE CheckPackages(c) /\ Goto(c, "committing")
    <2>1. call[c].at = "migrating"
        BY <1>5 DEF CheckPackages, At
    <2>2. /\ Turn(c, LineageAwaits) /\ call'[c].at = "committing"
          /\ call'[c].pending = call[c].pending
        BY <1>1, <1>5, <2>1, LineageMoved
    <2>3. LineageHolds(c)'
        BY <1>1, <2>1, <2>2 DEF LineageHolds, PendingHolds, At
    <2> QED
        BY <1>2, <2>2, <2>3 DEF Holding
<1>6. CASE Preflight(c) /\ Goto(c, "locking") /\ Eligible
    <2>1. call[c].at = "preflight" /\ call[c] \in OnboardFrames
        BY <1>1, <1>6, FrameShapes DEF Preflight, At
    <2>2. Turn(c, LineageAwaits) /\ call'[c].at = "locking"
        BY <1>1, <1>6, <2>1, LineageMoved
    <2>3. Baseline \in schema
        BY <1>6 DEF Eligible, CatalogMatches, LineageInv, Baseline, Members
    <2> QED
        BY <1>1, <1>2, <2>2, <2>3 DEF LineageHolds, Holding, At
<1>7. CASE LockOnboarding(c)
    <2>1. call[c].at = "locking" /\ call[c] \in OnboardFrames
        BY <1>1, <1>7, FrameShapes DEF LockOnboarding, At
    <2>2. Turn(c, LineageAwaits) /\ call'[c].at = "rechecking"
        BY <1>1, <1>7, <2>1, LineageMoved DEF LockOnboarding
    <2> QED
        BY <1>1, <1>2, <1>7, <2>1, <2>2 DEF LineageHolds, LockOnboarding, At
<1>8. CASE RecheckFingerprint(c) /\ Goto(c, "counting")
    <2>1. call[c].at = "rechecking" /\ call[c] \in OnboardFrames
        BY <1>1, <1>8, FrameShapes DEF RecheckFingerprint, At
    <2>2. Turn(c, LineageAwaits) /\ call'[c].at = "counting"
        BY <1>1, <1>8, <2>1, LineageMoved
    <2> QED
        BY <1>1, <1>2, <2>1, <2>2 DEF LineageHolds, Holding, At
<1>9. CASE CountLedger(c) /\ Goto(c, "registering") /\ Registered = {}
    <2>1. call[c].at = "counting" /\ call[c] \in OnboardFrames
        BY <1>1, <1>9, FrameShapes DEF CountLedger, At
    <2>2. Turn(c, LineageAwaits) /\ call'[c].at = "registering"
        BY <1>1, <1>9, <2>1, LineageMoved
    <2> QED
        BY <1>1, <1>2, <1>9, <2>1, <2>2 DEF LineageHolds, Holding, At
<1> QED
    BY <1>3, <1>4, <1>5, <1>6, <1>7, <1>8, <1>9
    DEF LoadExecuted, CheckPackages, Preflight, RecheckFingerprint, CountLedger, CrashLineage, Die

\* The runner's table is created empty.
LEMMA PrepareLedgerInv ==
    ASSUME FramesOK, LineageInv, NEW c \in Calls, PrepareLedger(c)
    PROVE  LineageInv' /\ Turn(c, LineageAwaits)
<1>1. /\ UNCHANGED <<schema, manifest, plan, unconfirmed>>
      /\ call[c].at = "preparing-ledger" /\ Of(c, LineageAwaits)
      /\ ledger' = IF ledger = NULL THEN Unregistered ELSE ledger
    BY DEF PrepareLedger, At, Of, LineageAwaits
<1>2. Turn(c, LineageAwaits) /\ call'[c].at = "loading-executed"
    BY <1>1, LineageMoved DEF PrepareLedger
<1>3. \A d \in Calls \ {c} : call'[d] = call[d]
    BY <1>2, TurnOthers
<1>4. ledger' \in [Migrations -> Nat] /\ ledger' # NULL
    BY <1>1 DEF LineageInv, Unregistered
<1>5. Registered' = Registered
    BY <1>1, <1>4 DEF Registered, Unregistered
<1>6. RegisteredOnce'
    BY <1>1, <1>4 DEF LineageInv, RegisteredOnce, Unregistered
<1>7. LineageIsTrue' /\ RegisteredInOrder' /\ (Prices \in Registered => Prices \in schema)'
    BY <1>1, <1>5 DEF LineageInv, LineageIsTrue, RegisteredInOrder
<1>8. ASSUME NEW d \in Calls PROVE LineageHolds(d)'
    <2>1. CASE d = c
        BY <1>2, <1>4, <2>1 DEF LineageHolds, At
    <2>2. CASE d # c
        <3>1. LineageHolds(d) /\ call'[d] = call[d]
            BY <1>3, <2>2 DEF LineageInv
        <3> QED
            BY <1>1, <1>4, <1>5, <3>1 DEF LineageHolds, PendingHolds, At
    <2> QED
        BY <2>1, <2>2
<1>9. OneHolder'
    BY <1>2, <1>3 DEF LineageInv, OneHolder, Holding
<1> QED
    BY <1>1, <1>2, <1>4, <1>6, <1>7, <1>8, <1>9 DEF LineageInv

\* What commits was not registered before, and is all that was not.
LEMMA CommitMigrationsInv ==
    ASSUME FramesOK, LineageInv, NEW c \in Calls, CommitMigrations(c)
    PROVE  LineageInv' /\ Turn(c, LineageAwaits)
<1> PICK pending : pending = call[c].pending
    OBVIOUS
<1>1. /\ UNCHANGED <<manifest, plan, unconfirmed>> /\ call[c].at = "committing"
      /\ Of(c, LineageAwaits) /\ End(c) /\ call[c] \in Frames
    BY DEF CommitMigrations, At, Of, LineageAwaits, FramesOK
<1>2. Turn(c, LineageAwaits) /\ call'[c].at = "idle"
    BY <1>1, LineageEnded
<1>3. CASE UNCHANGED <<schema, ledger>>
    BY <1>1, <1>2, <1>3, LineageLook DEF LineageHolds, Holding, At
<1>4. CASE Applicable(pending) /\ Applied(pending)
    <2>1. \A d \in Calls \ {c} : call'[d] = call[d]
        BY <1>2, TurnOthers
    <2>2. /\ ledger \in [Migrations -> Nat] /\ ledger # NULL /\ PendingHolds(pending)
          /\ pending \subseteq Migrations /\ schema \subseteq Migrations
        BY <1>1, FrameShapes DEF LineageInv, LineageHolds
    <2>3. /\ schema' = schema \cup pending
          /\ ledger' = [m \in Migrations |-> IF m \in pending THEN ledger[m] + 1 ELSE ledger[m]]
        BY <1>4 DEF Applied
    <2>4. /\ ledger' \in [Migrations -> Nat] /\ ledger' # NULL
          /\ \A m \in Migrations : ledger'[m] = IF m \in pending THEN ledger[m] + 1 ELSE ledger[m]
        BY <2>2, <2>3
    <2>5. pending \cap Registered = {}
        BY <1>4, <2>2 DEF Applicable, PendingHolds
    <2>6. RegisteredOnce'
        BY <2>2, <2>4, <2>5 DEF LineageInv, RegisteredOnce, Registered
    <2>7. Registered' = Migrations
        BY <2>2, <2>4 DEF Registered, PendingHolds
    <2>8. LineageIsTrue'
        BY <1>1, <2>2, <2>3, <2>7 DEF LineageInv, LineageIsTrue, PendingHolds
    <2>9. RegisteredInOrder' /\ (Prices \in Registered => Prices \in schema)'
        BY <2>2, <2>3, <2>7 DEF RegisteredInOrder, PendingHolds
    <2>10. ASSUME NEW d \in Calls PROVE LineageHolds(d)'
        <3>1. CASE d = c
            BY <1>2, <3>1 DEF LineageHolds, At
        <3>2. CASE d # c
            <4>1. LineageHolds(d) /\ call'[d] = call[d]
                BY <2>1, <3>2 DEF LineageInv
            <4>2. call[d].at \in {"migrating", "committing"} => PendingHolds(call[d].pending)'
                <5> SUFFICES ASSUME call[d].at \in {"migrating", "committing"}
                             PROVE  PendingHolds(call[d].pending)'
                    OBVIOUS
                <5>1. Prices \in call[d].pending
                    BY <4>1 DEF LineageHolds, PendingHolds
                <5>2. Prices \in schema' /\ Prices # Contract
                    BY <2>2, <2>3 DEF PendingHolds, Prices, Contract
                <5> QED
                    BY <2>7, <4>1, <5>1, <5>2 DEF PendingHolds
            <4>3. call[d].at # "registering"
                <5>1. Prices \in Migrations
                    BY DEF Prices, Migrations, Baseline
                <5>2. ASSUME Registered = {}, Baseline \in schema PROVE FALSE
                    <6>1. Baseline \in pending
                        BY <2>2, <5>2 DEF PendingHolds, Baseline, Migrations, Prices
                    <6> QED
                        BY <1>4, <5>2, <6>1 DEF Applicable
                <5> QED
                    BY <4>1, <5>2 DEF LineageHolds, At
            <4> QED
                BY <2>3, <2>4, <4>1, <4>2, <4>3 DEF LineageHolds, At
        <3> QED
            BY <3>1, <3>2
    <2>11. OneHolder'
        BY <1>2, <2>1 DEF LineageInv, OneHolder, Holding
    <2> QED
        BY <1>1, <1>2, <2>2, <2>3, <2>4, <2>6, <2>8, <2>9, <2>10, <2>11 DEF LineageInv
<1> QED
    BY <1>3, <1>4 DEF CommitMigrations

\* The onboarding registers the lineage where nothing is registered.
LEMMA RegisterLineageInv ==
    ASSUME FramesOK, LineageInv, NEW c \in Calls, RegisterLineage(c)
    PROVE  LineageInv' /\ Turn(c, LineageAwaits)
<1>1. /\ UNCHANGED <<schema, manifest, plan>> /\ unconfirmed' = TRUE
      /\ call[c].at = "registering" /\ Of(c, LineageAwaits) /\ LineageHolds(c)
      /\ Registered = {} /\ Baseline \in schema /\ call[c] \in OnboardFrames
    BY FrameShapes DEF RegisterLineage, At, Of, LineageAwaits, LineageInv, LineageHolds, FramesOK
<1>2. Turn(c, LineageAwaits) /\ call'[c].at = "confirming"
    BY <1>1, LineageMoved DEF RegisterLineage
<1>3. \A d \in Calls \ {c} : call'[d] = call[d]
    BY <1>2, TurnOthers
<1>4. /\ ledger' \in [Migrations -> Nat] /\ ledger' # NULL
      /\ \A m \in Migrations : ledger'[m] = IF m \in V2Lineage THEN 1 ELSE 0
    <2>1. \A m \in Migrations : ledger # NULL => ledger[m] = 0
        BY <1>1 DEF LineageInv, Registered
    <2>2. ledger' = [m \in Migrations |->
                (IF ledger = NULL THEN 0 ELSE ledger[m]) + (IF m \in V2Lineage THEN 1 ELSE 0)]
        BY DEF RegisterLineage
    <2>3. \A m \in Migrations : ledger'[m] = IF m \in V2Lineage THEN 1 ELSE 0
        BY <2>1, <2>2
    <2>4. ledger' \in [Migrations -> Nat]
        BY <2>2, <2>3
    <2> QED
        BY <2>3, <2>4
<1>5. Registered' = V2Lineage /\ V2Lineage = {0, 1}
    BY <1>4 DEF Registered, V2Lineage, Baseline, Commerce, Migrations, Prices
<1>6. RegisteredOnce' /\ LineageIsTrue'
    BY <1>1, <1>4 DEF RegisteredOnce, LineageIsTrue
<1>7. RegisteredInOrder' /\ (Prices \in Registered => Prices \in schema)'
    BY <1>5 DEF RegisteredInOrder, Migrations, Baseline, Prices
<1>8. ASSUME NEW d \in Calls PROVE LineageHolds(d)'
    <2>1. CASE d = c
        BY <1>2, <2>1 DEF LineageHolds, At
    <2>2. CASE d # c
        <3>1. LineageHolds(d) /\ call'[d] = call[d]
            BY <1>3, <2>2 DEF LineageInv
        <3>2. ~At(d, "registering")
            BY <1>1, <2>2 DEF LineageInv, OneHolder, Holding, At
        <3>3. call[d].at \in {"migrating", "committing"} => PendingHolds(call[d].pending)'
            <4> SUFFICES ASSUME call[d].at \in {"migrating", "committing"}
                         PROVE  PendingHolds(call[d].pending)'
                OBVIOUS
            <4>1. Prices \in call[d].pending /\ Migrations \subseteq call[d].pending
                BY <1>1, <3>1 DEF LineageHolds, PendingHolds
            <4>2. Baseline \in call[d].pending /\ Baseline # Contract
                BY <4>1 DEF Baseline, Contract, Migrations, Prices
            <4> QED
                BY <1>1, <3>1, <4>1, <4>2 DEF PendingHolds
        <3> QED
            BY <1>1, <1>4, <3>1, <3>2, <3>3 DEF LineageHolds, At
    <2> QED
        BY <2>1, <2>2
<1>9. OneHolder'
    BY <1>2, <1>3 DEF LineageInv, OneHolder, Holding
<1> QED
    BY <1>1, <1>2, <1>4, <1>6, <1>7, <1>8, <1>9 DEF LineageInv

\* The verification after the commit.
LEMMA ConfirmInv ==
    ASSUME FramesOK, LineageInv, NEW c \in Calls, ConfirmOnboarding(c)
    PROVE  LineageInv' /\ Turn(c, LineageAwaits)
<1>1. /\ UNCHANGED <<schema, ledger, manifest, plan>> /\ Registered' = Registered
      /\ unconfirmed' = (unconfirmed /\ ~Confirms(call[c].source))
      /\ Of(c, LineageAwaits) /\ End(c)
    BY DEF ConfirmOnboarding, At, Of, LineageAwaits, Registered
<1>2. Turn(c, LineageAwaits) /\ call'[c].at = "idle"
    BY <1>1, LineageEnded
<1>3. \A d \in Calls \ {c} : call'[d] = call[d]
    BY <1>2, TurnOthers
<1>4. LineageIsTrue'
    <2> SUFFICES ASSUME ~unconfirmed' PROVE Registered \subseteq schema
        BY <1>1 DEF LineageIsTrue
    <2>1. CASE ~unconfirmed
        BY <2>1 DEF LineageInv, LineageIsTrue
    <2>2. CASE Confirms(call[c].source)
        <3>1. Baseline..Members \subseteq schema /\ (Prices \in Registered => Prices \in schema)
            BY <2>2 DEF Confirms, CatalogMatches, LineageInv
        <3>2. Registered \subseteq Migrations /\ Migrations = (Baseline..Members) \cup {Prices}
            BY DEF Registered, Migrations, Baseline, Members, Prices
        <3> QED
            BY <3>1, <3>2
    <2> QED
        BY <1>1, <2>1, <2>2 DEF LineageInv
<1>5. RegisteredOnce' /\ RegisteredInOrder' /\ (Prices \in Registered => Prices \in schema)'
    BY <1>1 DEF LineageInv, RegisteredOnce, RegisteredInOrder
<1>6. ASSUME NEW d \in Calls PROVE LineageHolds(d)'
    <2>1. CASE d = c
        BY <1>2, <2>1 DEF LineageHolds, At
    <2>2. CASE d # c
        <3>1. LineageHolds(d) /\ call'[d] = call[d]
            BY <1>3, <2>2 DEF LineageInv
        <3> QED
            BY <1>1, <3>1 DEF LineageHolds, PendingHolds, At
    <2> QED
        BY <2>1, <2>2
<1>7. OneHolder'
    BY <1>2, <1>3 DEF LineageInv, OneHolder, Holding
<1>8. unconfirmed' \in BOOLEAN
    BY <1>1 DEF LineageInv
<1> QED
    BY <1>1, <1>2, <1>4, <1>5, <1>6, <1>7, <1>8 DEF LineageInv

LEMMA LineageStepInv ==
    ASSUME FramesOK, LineageInv, NEW c \in Calls, LineageStep(c)
    PROVE  LineageInv' /\ Turn(c, LineageAwaits)
BY LineageStarts, PrepareLedgerInv, LineageLooks, CommitMigrationsInv, RegisterLineageInv, ConfirmInv
DEF LineageStep

\* Steps that leave the scripts, schema and ledger alone.
LEMMA LineageKept ==
    ASSUME LineageInv, UNCHANGED <<call, schema, ledger, unconfirmed>>,
           Baseline..Members \subseteq manifest', plan' \in (SUBSET Migrations) \cup {NULL}
    PROVE  LineageInv'
<1>1. Registered' = Registered
    BY DEF Registered
<1>2. RegisteredOnce' /\ LineageIsTrue' /\ RegisteredInOrder' /\ (Prices \in Registered => Prices \in schema)'
    BY <1>1 DEF LineageInv, RegisteredOnce, LineageIsTrue, RegisteredInOrder
<1>3. \A d \in Calls : LineageHolds(d)'
    <2> SUFFICES ASSUME NEW d \in Calls PROVE LineageHolds(d)'
        OBVIOUS
    <2>1. LineageHolds(d) /\ call'[d] = call[d]
        BY DEF LineageInv
    <2> QED
        BY <1>1, <2>1 DEF LineageHolds, PendingHolds, At
<1>4. OneHolder'
    BY DEF LineageInv, OneHolder, Holding
<1> QED
    BY <1>2, <1>3, <1>4 DEF LineageInv

\* Where no script is under way, what is left to keep is about the tables.
LEMMA LineageAlone ==
    ASSUME LineageInv, \A d \in Calls : call'[d].at \notin LineageAwaits,
           schema' \subseteq Migrations, ledger' \in [Migrations -> Nat] \cup {NULL},
           RegisteredOnce', LineageIsTrue', RegisteredInOrder', (Prices \in Registered => Prices \in schema)',
           UNCHANGED manifest, plan' \in (SUBSET Migrations) \cup {NULL}, unconfirmed' \in BOOLEAN
    PROVE  LineageInv'
<1>1. \A d \in Calls : LineageHolds(d)'
    BY DEF LineageHolds, At, LineageAwaits
<1>2. OneHolder'
    BY DEF OneHolder, Holding, LineageAwaits
<1> QED
    BY <1>1, <1>2 DEF LineageInv

\* What is registered has a last migration.
LEMMA LastIsLast ==
    ASSUME Registered # {}
    PROVE  LastRegistered \in Registered /\ \A n \in Registered : n <= LastRegistered
<1>1. Registered \subseteq Migrations
    BY DEF Registered
<1>2. Registered \subseteq {0, 1, 2, 3, 4, 5, 6}
    BY <1>1 DEF Migrations, Baseline, Prices
<1>3. \E m \in Registered : \A n \in Registered : n <= m
    <2>1. CASE 6 \in Registered
        BY <1>2, <2>1
    <2>2. CASE 6 \notin Registered /\ 5 \in Registered
        BY <1>2, <2>2
    <2>3. CASE 6 \notin Registered /\ 5 \notin Registered /\ 4 \in Registered
        BY <1>2, <2>3
    <2>4. CASE Registered \subseteq {0, 1, 2, 3}
        <3>1. CASE 3 \in Registered
            BY <2>4, <3>1
        <3>2. CASE 3 \notin Registered /\ 2 \in Registered
            BY <2>4, <3>2
        <3>3. CASE Registered \subseteq {0, 1} /\ 1 \in Registered
            BY <3>3
        <3>4. CASE Registered = {0}
            BY <3>4
        <3> QED
            BY <2>4, <3>1, <3>2, <3>3, <3>4
    <2> QED
        BY <1>2, <2>1, <2>2, <2>3, <2>4
<1> QED
    BY <1>3 DEF LastRegistered

LEMMA RevertLastInv ==
    ASSUME LineageInv, RevertLast
    PROVE  LineageInv'
<1> PICK m : m = LastRegistered
    OBVIOUS
<1>1. /\ m \in Registered /\ \A n \in Registered : n <= m
      /\ Registered \subseteq Migrations
    BY LastIsLast DEF RevertLast, Registered
<1>2. /\ \A d \in Calls : call'[d].at = "idle"
      /\ UNCHANGED <<call, manifest, plan, unconfirmed>>
      /\ schema' = schema \ Gone(m) /\ ledger' = [ledger EXCEPT ![m] = 0]
    BY DEF RevertLast, Quiet, At
<1>3. ledger \in [Migrations -> Nat]
    BY <1>1 DEF LineageInv, Registered
<1>4. /\ ledger' \in [Migrations -> Nat] /\ ledger' # NULL
      /\ \A n \in Migrations : ledger'[n] = IF n = m THEN 0 ELSE ledger[n]
    BY <1>1, <1>2, <1>3
<1>5. Registered' = Registered \ {m}
    BY <1>1, <1>3, <1>4 DEF Registered
<1>6. RegisteredOnce'
    BY <1>3, <1>4 DEF LineageInv, RegisteredOnce
<1>7. RegisteredInOrder'
    <2> SUFFICES ASSUME NEW k \in Registered', NEW n \in Migrations, n <= k
                 PROVE  n \in Registered'
        BY DEF RegisteredInOrder
    <2>1. k \in Registered /\ k # m /\ k <= m /\ n \in Registered
        BY <1>1, <1>5 DEF LineageInv, RegisteredInOrder
    <2>2. k \in Nat /\ m \in Nat /\ n \in Nat
        BY <1>1, <2>1 DEF Migrations, Baseline, Prices
    <2> QED
        BY <1>5, <2>1, <2>2
<1>8. LineageIsTrue'
    <2> SUFFICES ASSUME ~unconfirmed' PROVE Registered' \subseteq schema'
        BY DEF LineageIsTrue
    <2>1. Registered \subseteq schema
        BY <1>2 DEF LineageInv, LineageIsTrue
    <2>2. CASE m = Baseline
        <3>1. \A n \in Registered : n = m
            BY <1>1, <2>2 DEF Migrations, Baseline, Prices
        <3> QED
            BY <1>5, <3>1
    <2>3. CASE m # Baseline
        BY <1>2, <1>5, <2>1, <2>3 DEF Gone
    <2> QED
        BY <2>2, <2>3
<1>9. Prices \notin Registered'
    <2> SUFFICES ASSUME Prices \in Registered, m # Prices PROVE FALSE
        BY <1>5
    <2> QED
        BY <1>1 DEF Migrations, Baseline, Prices
<1>10. schema' \subseteq Migrations
    BY <1>2 DEF LineageInv
<1> QED
    BY <1>2, <1>4, <1>6, <1>7, <1>8, <1>9, <1>10, LineageAlone DEF LineageAwaits, LineageInv

LEMMA DropLedgerInv ==
    ASSUME LineageInv, DropLedger
    PROVE  LineageInv'
<1>1. /\ \A d \in Calls : call'[d].at = "idle"
      /\ UNCHANGED <<schema, manifest, unconfirmed>>
      /\ ledger' = NULL /\ plan' = NULL
    BY DEF DropLedger, Quiet, At
<1>2. Registered' = {}
    BY <1>1 DEF Registered
<1>3. RegisteredOnce' /\ LineageIsTrue' /\ RegisteredInOrder'
    BY <1>1, <1>2 DEF RegisteredOnce, LineageIsTrue, RegisteredInOrder
<1> QED
    BY <1>1, <1>2, <1>3, LineageAlone DEF LineageAwaits, LineageInv

LEMMA LegacyChangeInv ==
    ASSUME LineageInv, LegacyChange
    PROVE  LineageInv'
<1>1. /\ UNCHANGED <<call, ledger, manifest, plan, unconfirmed>>
      /\ Registered' = {} /\ Registered = {}
    BY DEF LegacyChange, Registered
<1>2. PICK m \in {Commerce, Members, Prices} :
        schema' = IF m \in schema THEN schema \ {m} ELSE schema \cup {m}
    BY DEF LegacyChange
<1>3. m \in Migrations /\ m # Baseline
    BY DEF Commerce, Members, Prices, Baseline, Migrations
<1>4. schema' \subseteq Migrations /\ (Baseline \in schema => Baseline \in schema')
    BY <1>2, <1>3 DEF LineageInv
<1>5. RegisteredOnce' /\ LineageIsTrue' /\ RegisteredInOrder'
    BY <1>1 DEF LineageInv, RegisteredOnce, LineageIsTrue, RegisteredInOrder
<1>6. \A d \in Calls : LineageHolds(d)'
    <2> SUFFICES ASSUME NEW d \in Calls PROVE LineageHolds(d)'
        OBVIOUS
    <2>1. LineageHolds(d) /\ call'[d] = call[d]
        BY <1>1 DEF LineageInv
    <2> QED
        BY <1>1, <1>4, <2>1 DEF LineageHolds, PendingHolds, At
<1>7. OneHolder'
    BY <1>1 DEF LineageInv, OneHolder, Holding
<1> QED
    BY <1>1, <1>4, <1>5, <1>6, <1>7 DEF LineageInv

\* The scripts that were connected to the dropped database are gone.
LEMMA RecreateInv ==
    ASSUME FramesOK, LineageInv, RecreateDatabase
    PROVE  /\ LineageInv' /\ FramesOK'
           /\ Elsewhere(RolloutAwaits) /\ Elsewhere(SeedAwaits)
<1>1. /\ UNCHANGED manifest /\ schema' = {} /\ ledger' = NULL /\ plan' = NULL
      /\ unconfirmed' = FALSE
      /\ call' = [c \in Calls |-> IF Connected(c) THEN Idle ELSE call[c]]
    BY DEF RecreateDatabase
<1>2. \A d \in Calls : call'[d] = IF Connected(d) THEN Idle ELSE call[d]
    BY <1>1
<1>3. Idle \in Frames /\ Idle.at = "idle"
    BY DEF Frames, Idle
<1>4. FramesOK'
    BY <1>1, <1>2, <1>3 DEF FramesOK
<1>5. \A d \in Calls : Connected(d) <=> call[d].at \in LineageAwaits
    BY DEF Connected, LineageAwaits
<1>6. \A d \in Calls : call'[d].at \notin LineageAwaits
    BY <1>2, <1>3, <1>5, PartsApart
<1>7. Registered' = {}
    BY <1>1 DEF Registered
<1>8. LineageInv'
    <2>1. RegisteredOnce' /\ LineageIsTrue' /\ RegisteredInOrder'
        BY <1>1, <1>7 DEF RegisteredOnce, LineageIsTrue, RegisteredInOrder
    <2> QED
        BY <1>1, <1>6, <1>7, <2>1, LineageAlone
<1>9. Elsewhere(RolloutAwaits) /\ Elsewhere(SeedAwaits)
    BY <1>2, <1>3, <1>5, PartsApart DEF Elsewhere, Of
<1> QED
    BY <1>4, <1>8, <1>9

LEMMA LineageAroundInv ==
    ASSUME FramesOK, LineageInv, LineageAround
    PROVE  /\ LineageInv' /\ FramesOK'
           /\ Elsewhere(RolloutAwaits) /\ Elsewhere(SeedAwaits)
<1>1. ASSUME UNCHANGED call
      PROVE  FramesOK' /\ Elsewhere(RolloutAwaits) /\ Elsewhere(SeedAwaits)
    BY <1>1 DEF FramesOK, Elsewhere
<1>2. CASE RevertLast
    BY <1>1, <1>2, RevertLastInv DEF RevertLast
<1>3. CASE BuildPlan
    BY <1>1, <1>3, LineageKept DEF BuildPlan, LineageInv
<1>4. CASE WriteManifest
    BY <1>1, <1>4, LineageKept DEF WriteManifest, LineageInv
<1>5. CASE WriteMatrix
    BY <1>1, <1>5, LineageKept DEF WriteMatrix, LineageInv
<1>6. CASE LegacyChange
    BY <1>1, <1>6, LegacyChangeInv DEF LegacyChange
<1>7. CASE SeedPackage
    BY <1>1, <1>7, LineageKept DEF SeedPackage, LineageInv
<1>8. CASE DropLedger
    BY <1>1, <1>8, DropLedgerInv DEF DropLedger
<1>9. CASE RecreateDatabase
    BY <1>9, RecreateInv
<1> QED
    BY <1>2, <1>3, <1>4, <1>5, <1>6, <1>7, <1>8, <1>9 DEF LineageAround

\* The steps of the other parts.
LEMMA LineageRest ==
    ASSUME LineageInv, UNCHANGED lineageRows, Elsewhere(LineageAwaits)
    PROVE  LineageInv'
<1>1. UNCHANGED <<schema, ledger, manifest, plan, unconfirmed>> /\ Registered' = Registered
    BY DEF lineageRows, Registered
<1>2. RegisteredOnce' /\ LineageIsTrue' /\ RegisteredInOrder' /\ (Prices \in Registered => Prices \in schema)'
    BY <1>1 DEF LineageInv, RegisteredOnce, LineageIsTrue, RegisteredInOrder
<1>3. \A d \in Calls : LineageHolds(d)'
    <2> SUFFICES ASSUME NEW d \in Calls PROVE LineageHolds(d)'
        OBVIOUS
    <2>1. CASE call'[d] = call[d]
        <3>1. LineageHolds(d)
            BY DEF LineageInv
        <3> QED
            BY <1>1, <2>1, <3>1 DEF LineageHolds, PendingHolds, At
    <2>2. CASE call'[d].at \notin LineageAwaits
        BY <2>2 DEF LineageHolds, At, LineageAwaits
    <2> QED
        BY <2>1, <2>2 DEF Elsewhere, Of
<1>4. OneHolder'
    <2>1. \A d \in Calls : Holding(d)' => Holding(d)
        BY DEF Holding, Elsewhere, Of, LineageAwaits
    <2> QED
        BY <2>1 DEF LineageInv, OneHolder
<1> QED
    BY <1>1, <1>2, <1>3, <1>4 DEF LineageInv

LEMMA LineageInit1 ==
    ASSUME HandlersInit, LineageInit
    PROVE  LineageInv
<1>1. \A d \in Calls : call[d].at = "idle"
    BY DEF HandlersInit, Idle
<1>2. /\ manifest = Baseline..Members /\ plan = NULL /\ unconfirmed = FALSE
    BY DEF LineageInit
<1>3. \A d \in Calls : LineageHolds(d)
    BY <1>1 DEF LineageHolds, At
<1>4. OneHolder
    BY <1>1 DEF OneHolder, Holding
<1>5. CASE (schema = {} /\ ledger = NULL) \/ (schema = Baseline..Members /\ ledger \in {NULL, Unregistered})
    <2>1. /\ ledger = NULL \/ ledger = [m \in Migrations |-> 0]
          /\ schema \subseteq Migrations
        BY <1>5 DEF Unregistered, Migrations, Baseline, Members, Prices
    <2>2. ledger \in [Migrations -> Nat] \cup {NULL} /\ Registered = {}
        BY <2>1 DEF Registered
    <2>3. RegisteredOnce /\ LineageIsTrue /\ RegisteredInOrder
        BY <2>1, <2>2 DEF RegisteredOnce, LineageIsTrue, RegisteredInOrder
    <2> QED
        BY <1>2, <1>3, <1>4, <2>1, <2>2, <2>3 DEF LineageInv
<1>6. ASSUME NEW last \in Migrations, schema = Baseline..last,
             ledger = [m \in Migrations |-> IF m <= last THEN 1 ELSE 0]
      PROVE  LineageInv
    <2>1. /\ ledger \in [Migrations -> Nat] /\ ledger # NULL
          /\ \A m \in Migrations : ledger[m] = IF m <= last THEN 1 ELSE 0
        BY <1>6
    <2>2. Registered = {m \in Migrations : m <= last} /\ last \in 0..6
        BY <2>1 DEF Registered, Migrations, Baseline, Prices
    <2>3. schema = Registered
        BY <1>6, <2>2 DEF Migrations, Baseline, Prices
    <2>4. RegisteredInOrder
        BY <2>2 DEF RegisteredInOrder, Migrations, Baseline, Prices
    <2>5. RegisteredOnce /\ LineageIsTrue /\ schema \subseteq Migrations
        BY <2>1, <2>2, <2>3 DEF RegisteredOnce, LineageIsTrue
    <2> QED
        BY <1>2, <1>3, <1>4, <2>1, <2>3, <2>4, <2>5 DEF LineageInv
<1> QED
    BY <1>5, <1>6 DEF LineageInit

-----------------------------------------------------------------------------
(* The boundary migration *)

\* A table stands in itself.
LEMMA StandingStands ==
    ASSUME NEW ps \in SUBSET Parts
    PROVE  Standing(Standing(ps)) = Standing(ps) /\ Standing(ps) \subseteq Parts
<1>1. \A p \in ps : TableOf(p[1])[1] = p[1]
    BY DEF TableOf
<1> QED
    BY <1>1 DEF Standing

LEMMA EstablishInv ==
    ASSUME BoundariesInv, EstablishBoundaries
    PROVE  BoundariesInv'
<1>1. CASE UNCHANGED <<parts, created, original>>
    BY <1>1 DEF BoundariesInv, Standing
<1>2. CASE parts' = parts \cup Parts /\ created' = Missing /\ original' = parts
    <2>1. parts \subseteq Parts /\ Standing(parts) = parts
        BY DEF BoundariesInv
    <2>2. parts' = Parts /\ created' = Parts \ parts
        BY <1>2, <2>1 DEF Missing
    <2>3. parts' \ created' = parts
        BY <2>1, <2>2
    <2>4. Standing(Parts) = Parts
        <3> SUFFICES ASSUME NEW p \in Parts PROVE TableOf(p[1]) \in Parts
            BY DEF Standing
        <3> QED
            BY DEF Parts, Kinds, TableOf
    <2>5. \A t \in BoundaryTables, kind \in Kinds : TableOf(t) \in created' => <<t, kind>> \in created'
        <3> SUFFICES ASSUME NEW t \in BoundaryTables, NEW kind \in Kinds, <<t, kind>> \in parts
                     PROVE  TableOf(t) \in parts
            BY <2>2 DEF Parts
        <3>1. <<t, kind>>[1] = t
            OBVIOUS
        <3> QED
            BY <2>1, <3>1 DEF Standing
    <2> QED
        BY <1>2, <2>1, <2>2, <2>3, <2>4, <2>5 DEF BoundariesInv
<1> QED
    BY <1>1, <1>2 DEF EstablishBoundaries

\* What the down leaves is what was there.
LEMMA RevertBoundariesInv ==
    ASSUME BoundariesInv, RevertBoundaries
    PROVE  BoundariesInv' /\ parts' = original
<1>1. /\ parts \subseteq Parts /\ parts' = Standing(parts \ created) /\ created' = NULL
      /\ original = Standing(parts \ created)
    BY DEF BoundariesInv, RevertBoundaries
<1>2. Standing(parts') = parts' /\ parts' \subseteq Parts
    BY <1>1, StandingStands
<1> QED
    BY <1>1, <1>2 DEF BoundariesInv

\* What is altered by hand is no table, and stands in one that is there.
LEMMA AlterByHandInv ==
    ASSUME BoundariesInv, AlterByHand
    PROVE  BoundariesInv'
<1>1. PICK t \in BoundaryTables, kind \in {"constraint", "index"} :
        /\ TableOf(t) \in parts
        /\ parts' = IF <<t, kind>> \in parts THEN parts \ {<<t, kind>>} ELSE parts \cup {<<t, kind>>}
        /\ original' = IF created = NULL \/ <<t, kind>> \in created THEN original
                       ELSE IF <<t, kind>> \in parts THEN original \ {<<t, kind>>}
                                                      ELSE original \cup {<<t, kind>>}
    BY DEF AlterByHand
<1>2. created' = created /\ parts \subseteq Parts /\ Standing(parts) = parts
    BY DEF AlterByHand, BoundariesInv
<1> PICK x : x = <<t, kind>>
    OBVIOUS
<1>3. x \in Parts /\ x[1] = t /\ \A s : TableOf(s) # x
    BY DEF Parts, Kinds, TableOf
<1>4. parts' \subseteq Parts
    BY <1>1, <1>2, <1>3
<1>5. ASSUME NEW ps, x \notin ps, TableOf(t) \in ps
      PROVE  Standing(ps \cup {x}) = Standing(ps) \cup {x}
    BY <1>3, <1>5 DEF Standing
<1>6. ASSUME NEW ps
      PROVE  Standing(ps \ {x}) = Standing(ps) \ {x}
    BY <1>3 DEF Standing
<1>7. Standing(parts') = parts'
    BY <1>1, <1>2, <1>5, <1>6
<1>8. ASSUME created # NULL PROVE original' = Standing(parts' \ created)
    <2>1. original = Standing(parts \ created)
        BY <1>8 DEF BoundariesInv
    <2>2. CASE x \in created
        <3>1. parts' \ created = parts \ created /\ original' = original
            BY <1>1, <2>2
        <3> QED
            BY <2>1, <3>1
    <2>3. CASE x \notin created /\ x \in parts
        <3>1. parts' \ created = (parts \ created) \ {x} /\ original' = original \ {x}
            BY <1>1, <1>8, <2>3
        <3> QED
            BY <1>6, <2>1, <3>1
    <2>4. CASE x \notin created /\ x \notin parts
        <3>1. parts' \ created = (parts \ created) \cup {x} /\ original' = original \cup {x}
            BY <1>1, <1>8, <2>4
        <3>2. TableOf(t) \in parts \ created
            BY <1>1, <1>8, <2>4 DEF BoundariesInv, Kinds
        <3> QED
            BY <1>5, <2>1, <2>4, <3>1, <3>2
    <2> QED
        BY <2>2, <2>3, <2>4
<1> QED
    BY <1>2, <1>4, <1>7, <1>8 DEF BoundariesInv

LEMMA BoundariesAroundInv ==
    ASSUME FramesOK, BoundariesInv, BoundariesAround
    PROVE  /\ BoundariesInv' /\ FramesOK' /\ UNCHANGED call
           /\ created # NULL /\ created' = NULL => parts' = original
<1>1. UNCHANGED call
    BY DEF BoundariesAround, EstablishBoundaries, RevertBoundaries, ResolveLegacy, AlterByHand
<1>2. FramesOK'
    BY <1>1 DEF FramesOK
<1>3. CASE EstablishBoundaries
    BY <1>1, <1>2, <1>3, EstablishInv DEF EstablishBoundaries
<1>4. CASE RevertBoundaries
    BY <1>1, <1>2, <1>4, RevertBoundariesInv
<1>5. CASE ResolveLegacy
    BY <1>1, <1>2, <1>5 DEF ResolveLegacy, BoundariesInv, Standing
<1>6. CASE AlterByHand
    BY <1>1, <1>2, <1>6, AlterByHandInv DEF AlterByHand
<1> QED
    BY <1>3, <1>4, <1>5, <1>6 DEF BoundariesAround

LEMMA BoundariesRest ==
    ASSUME BoundariesInv, UNCHANGED boundaryRows
    PROVE  BoundariesInv'
BY DEF BoundariesInv, boundaryRows, Standing

LEMMA BoundariesInit1 ==
    ASSUME BoundariesInit
    PROVE  BoundariesInv
BY DEF BoundariesInit, BoundariesInv

-----------------------------------------------------------------------------
(* The rollout: frames *)

LEMMA Framed ==
    ASSUME FramesOK, NEW c \in Calls, call[c].at \in RolloutAwaits \cup {"idle"},
           NEW frame \in RolloutFrames, call' = [call EXCEPT ![c] = frame]
    PROVE  Turn(c, RolloutAwaits) /\ call'[c] = frame /\ frame.at \in RolloutAwaits
<1>1. /\ call' = [call EXCEPT ![c] = call'[c]] /\ call'[c] = frame
    BY Given
<1>2. frame \in Frames
    BY DEF Frames
<1>3. frame.at \in RolloutAwaits
    BY DEF RolloutFrames, LoadFrames, ApplyFrames, ApplyAwaits, FinalizeFrames, VerifyFrames,
           ReviewFrames, ReviewAwaits, RolloutAwaits
<1> QED
    BY <1>1, <1>2, <1>3 DEF Turn

LEMMA RolloutEnded ==
    ASSUME FramesOK, NEW c \in Calls, End(c), call[c].at \in RolloutAwaits \cup {"idle"}
    PROVE  Turn(c, RolloutAwaits) /\ call'[c].at = "idle"
BY Ended DEF Turn

\* What apply works on.
LEMMA ApplyFrame ==
    ASSUME FramesOK, NEW c \in Calls, call[c].at \in ApplyAwaits
    PROVE  /\ call[c] \in ApplyFrames /\ call[c].at \in RolloutAwaits
           /\ \A d \in Docs : Row(c, d) \in DocRows /\ Row(c, d).link \in FileIds \cup {NULL}
           /\ call[c].left \subseteq Docs
<1>1. call[c] \in ApplyFrames
    BY FrameShapes DEF FramesOK
<1>2. call[c].rows \in [Docs -> DocRows] /\ call[c].left \subseteq Docs
    BY <1>1 DEF ApplyFrames
<1> QED
    BY <1>1, <1>2 DEF Row, DocRows, RolloutAwaits, ApplyAwaits

LEMMA FinalizeFrame ==
    ASSUME FramesOK, NEW c \in Calls, call[c].at \in {"next-linked", "clearing"}
    PROVE  /\ call[c] \in FinalizeFrames /\ call[c].at \in RolloutAwaits
           /\ \A d \in Docs : Row(c, d).link \in FileIds \cup {NULL}
           /\ call[c].left \subseteq Docs
<1>1. call[c] \in FinalizeFrames
    BY FrameShapes DEF FramesOK
<1>2. /\ call[c].rows \in [Docs -> [link : FileIds \cup {NULL}]]
      /\ call[c].left \subseteq Docs
    BY <1>1 DEF FinalizeFrames
<1> QED
    BY <1>1, <1>2 DEF Row, RolloutAwaits

LEMMA VerifyFrame ==
    ASSUME FramesOK, NEW c \in Calls, call[c].at \in {"verifying", "verifying-metadata"}
    PROVE  /\ call[c] \in VerifyFrames /\ call[c].at \in RolloutAwaits
           /\ call[c].left \subseteq Docs /\ call[c].found \in BOOLEAN
<1>1. call[c] \in VerifyFrames
    BY FrameShapes DEF FramesOK
<1> QED
    BY <1>1 DEF VerifyFrames, RolloutAwaits

LEMMA ReviewFrame ==
    ASSUME FramesOK, NEW c \in Calls, call[c].at \in ReviewAwaits
    PROVE  /\ call[c] \in ReviewFrames /\ call[c].at \in RolloutAwaits
           /\ call[c].doc \in Docs /\ call[c].doc # NULL /\ call[c].file \in FileIds \cup {NULL}
           /\ call[c].verdict \in {"approved", "rejected"}
<1>1. call[c] \in ReviewFrames
    BY FrameShapes DEF FramesOK
<1> QED
    BY <1>1 DEF ReviewFrames, ReviewAwaits, RolloutAwaits

LEMMA ReviewMoved ==
    ASSUME FramesOK, NEW c \in Calls, call[c].at \in ReviewAwaits,
           NEW await \in ReviewAwaits, Goto(c, await)
    PROVE  /\ Turn(c, RolloutAwaits) /\ call'[c].at = await /\ call'[c].doc = call[c].doc
           /\ call'[c].file = call[c].file /\ call'[c].verdict = call[c].verdict
<1>1. call[c] \in ReviewFrames /\ call[c].at \in RolloutAwaits
    BY ReviewFrame
<1> PICK frame : frame = [call[c] EXCEPT !.at = await]
    OBVIOUS
<1>2. /\ frame \in ReviewFrames /\ frame.at = await /\ frame.doc = call[c].doc
      /\ frame.file = call[c].file /\ frame.verdict = call[c].verdict
    BY <1>1 DEF ReviewFrames
<1>3. call' = [call EXCEPT ![c] = frame]
    BY DEF Goto, FramesOK
<1> QED
    BY <1>1, <1>2, <1>3, Framed DEF RolloutFrames

LEMMA Took ==
    ASSUME FramesOK, NEW c \in Calls, NEW d \in Docs, NEW await, Take(c, await, d),
           \/ call[c].at = "next-legacy" /\ await = "hydrating"
           \/ call[c].at = "next-linked" /\ await = "clearing"
    PROVE  /\ Turn(c, RolloutAwaits) /\ call'[c].at = await /\ call'[c].doc = d
           /\ call'[c].rows = call[c].rows
<1> PICK old : old = call[c]
    OBVIOUS
<1> PICK frame : frame = [old EXCEPT !.at = await, !.doc = d, !.left = @ \ {d}]
    OBVIOUS
<1>1. call' = [call EXCEPT ![c] = frame]
    BY DEF Take, FramesOK
<1>2. CASE old.at = "next-legacy" /\ await = "hydrating"
    <2>1. old \in ApplyFrames /\ old.at \in RolloutAwaits
        BY <1>2, ApplyFrame DEF ApplyAwaits
    <2>2. /\ frame \in ApplyFrames /\ frame.at = await /\ frame.doc = d /\ frame.rows = old.rows
        BY <1>2, <2>1 DEF ApplyFrames, ApplyAwaits
    <2> QED
        BY <1>1, <1>2, <2>1, <2>2, Framed DEF RolloutFrames
<1>3. CASE old.at = "next-linked" /\ await = "clearing"
    <2>1. old \in FinalizeFrames /\ old.at \in RolloutAwaits
        BY <1>3, FinalizeFrame
    <2>2. /\ frame \in FinalizeFrames /\ frame.at = await /\ frame.doc = d /\ frame.rows = old.rows
        BY <1>3, <2>1 DEF FinalizeFrames
    <2> QED
        BY <1>1, <1>3, <2>1, <2>2, Framed DEF RolloutFrames
<1> QED
    BY <1>2, <1>3

-----------------------------------------------------------------------------
(* The rollout: what a step leaves *)

\* What a step of one script may do to the others.
LEMMA RolloutOthers ==
    ASSUME FramesOK, RolloutInv, NEW c \in Calls, Turn(c, RolloutAwaits), UNCHANGED columns,
           \A e \in Docs : docs'[e].link = docs[e].link
                           /\ (docs[e].source = NULL => docs'[e].source = NULL),
           \A d \in Calls \ {c} : Reviewing(d) =>
               /\ docs'[call[d].doc].verdict = docs[call[d].doc].verdict
               /\ Reviewing(c)' => call[d].doc # call'[c].doc,
           Of(c, RolloutAwaits)' => RolloutHolds(c)'
    PROVE  (\A d \in Calls : Of(d, RolloutAwaits) => RolloutHolds(d))' /\ OneReviewer'
<1>1. \A d \in Calls \ {c} : call'[d] = call[d]
    BY TurnOthers
<1>2. ASSUME NEW d \in Calls, d # c, Of(d, RolloutAwaits)' PROVE RolloutHolds(d)'
    <2>1. call'[d] = call[d] /\ RolloutHolds(d) /\ Of(d, RolloutAwaits)
        BY <1>1, <1>2 DEF RolloutInv, Of
    <2>2. At(d, "deciding-document") \/ Reviewing(d) => call[d].doc \in Docs
        BY ReviewFrame DEF At, Reviewing, ReviewAwaits
    <2>3. columns' /\ (\A e \in Docs : CutOver(e) => CutOver(e)')
        BY <2>1 DEF RolloutHolds, CutOver
    <2>4. Row(d, call[d].doc)' = call[d].rows[call'[d].doc]
        BY <2>1 DEF Row
    <2>5. Reviewing(d)' <=> Reviewing(d)
        BY <2>1 DEF Reviewing
    <2> QED
        BY <1>2, <2>1, <2>2, <2>3, <2>4, <2>5 DEF RolloutHolds, At, Row
<1>3. \A d \in Calls \ {c} : Reviewing(d)' => Reviewing(d) /\ call'[d].doc = call[d].doc
    BY <1>1 DEF Reviewing
<1>4. OneReviewer'
    BY <1>3 DEF OneReviewer, RolloutInv
<1> QED
    BY <1>2, <1>4

\* The files of one document may change in a step; of the others nothing does.
LEMMA TidyStays ==
    ASSUME FramesOK, RolloutInv, NEW c \in Calls, Turn(c, RolloutAwaits), NEW d,
           \A e \in Docs : docs'[e].link = docs[e].link
                           /\ (docs'[e].source = "set" => docs[e].source = "set"),
           \A f \in FileIds : kept'[f] # NULL => kept[f] # NULL /\ kept'[f].doc = kept[f].doc,
           \A e \in Docs \ {d} : /\ docs'[e].verdict = docs[e].verdict
                                 /\ e \in astray => e \in astray',
           \A f \in FileIds : kept[f] # NULL /\ kept[f].doc # d => kept'[f].status = kept[f].status,
           Reviewing(c) => call[c].doc = d \/ (Reviewing(c)' /\ call'[c].doc = call[c].doc),
           \A f \in FileIds : Reachable(f)' /\ kept[f].doc = d => Tidy(f)'
    PROVE  TidyInv'
<1> SUFFICES ASSUME NEW f \in FileIds, Reachable(f)', kept[f].doc # d PROVE Tidy(f)'
    BY DEF TidyInv
<1> PICK e : e = kept[f].doc
    OBVIOUS
<1>1. kept[f] # NULL /\ kept'[f].doc = e /\ e \in Docs /\ e # d
    BY DEF Reachable, RolloutInv, FilesInv
<1>2. Reachable(f)
    BY <1>1 DEF Reachable
<1>3. Tidy(f)
    BY <1>2 DEF RolloutInv, TidyInv
<1>4. UnderReview(e) => UnderReview(e)'
    <2>1. \A b \in Calls \ {c} : Reviewing(b) => Reviewing(b)' /\ call'[b].doc = call[b].doc
        BY TurnOthers DEF Reviewing
    <2> QED
        BY <1>1, <2>1 DEF UnderReview
<1> QED
    BY <1>1, <1>3, <1>4 DEF Tidy

\* A linked document has no other file.
LEMMA FileOfLinked ==
    ASSUME RolloutInv, NEW d \in Docs, docs[d].link # NULL,
           NEW f \in FileIds, kept[f] # NULL, kept[f].doc = d
    PROVE  f = docs[d].link
<1>1. docs[d].link \in FileIds
    BY DEF RolloutInv, RolloutTypeOK
<1> QED
    BY <1>1 DEF RolloutInv, FilesInv

\* A path whose row has no link cannot be linked to its file while the columns are there.
LEMMA FileOfUnlinked ==
    ASSUME RolloutInv, columns, NEW d \in Docs, docs[d].link = NULL,
           NEW f \in FileIds, kept[f].doc = d
    PROVE  ~Reachable(f)
BY DEF RolloutInv, FilesInv, Reachable

\* Steps that leave the tables alone, but for the history of the documents gone astray.
LEMMA RolloutSame ==
    ASSUME FramesOK, RolloutInv, NEW c \in Calls, Turn(c, RolloutAwaits),
           UNCHANGED <<docs, kept, objects, columns, passed>>, astray' \subseteq Docs, TidyInv',
           Of(c, RolloutAwaits)' => RolloutHolds(c)',
           Reviewing(c)' => Reviewing(c) /\ call'[c].doc = call[c].doc
    PROVE  RolloutInv'
<1>1. RolloutTypeOK' /\ FilesInv'
    BY DEF RolloutInv, RolloutTypeOK, FilesInv
<1>2. PassedInv'
    BY DEF RolloutInv, PassedInv, CutOver
<1>3. \A d \in Calls \ {c} : Reviewing(d) /\ Reviewing(c)' => call[d].doc # call'[c].doc
    BY DEF RolloutInv, OneReviewer
<1>4. (\A d \in Calls : Of(d, RolloutAwaits) => RolloutHolds(d))' /\ OneReviewer'
    BY <1>3, RolloutOthers
<1> QED
    BY <1>1, <1>2, <1>4 DEF RolloutInv

\* Steps that leave everything alone.
LEMMA RolloutLook ==
    ASSUME FramesOK, RolloutInv, NEW c \in Calls, Turn(c, RolloutAwaits), UNCHANGED rolloutRows,
           Of(c, RolloutAwaits)' => RolloutHolds(c)',
           Reviewing(c) <=> Reviewing(c)', Reviewing(c) => call'[c].doc = call[c].doc
    PROVE  RolloutInv'
<1>1. UNCHANGED <<docs, kept, objects, columns, passed, astray>>
    BY DEF rolloutRows
<1>2. TidyInv'
    <2>1. \A f \in FileIds : kept[f] # NULL => kept[f].doc # NULL
        BY DEF RolloutInv, FilesInv
    <2>2. \A f \in FileIds : Reachable(f)' => kept[f] # NULL
        BY <1>1 DEF Reachable
    <2> PICK d : d = NULL
        OBVIOUS
    <2> QED
        BY <1>1, <2>1, <2>2, TidyStays
<1>3. astray' \subseteq Docs
    BY <1>1 DEF RolloutInv, RolloutTypeOK
<1> QED
    BY <1>1, <1>2, <1>3, RolloutSame

\* The tool and the reviews ask for the columns when they begin.
LEMMA ColumnsThere ==
    ASSUME FramesOK, RolloutInv, NEW c \in Calls, call[c].at \in RolloutAwaits
    PROVE  RolloutHolds(c) /\ columns
BY DEF RolloutInv, Of, RolloutHolds

\* Frames of which nothing but the columns is asked.
LEMMA NothingToHold ==
    ASSUME NEW c \in Calls, columns',
           call'[c].at \in {"idle", "loading-legacy", "next-legacy", "loading-linked", "next-linked",
                            "finding-document"}
    PROVE  RolloutHolds(c)' /\ ~Reviewing(c)'
BY DEF RolloutHolds, Reviewing, At

-----------------------------------------------------------------------------
(* The rollout: steps that only look *)

LEMMA RolloutStarts ==
    ASSUME FramesOK, RolloutInv, NEW c \in Calls,
           Apply(c) \/ Finalize(c) \/ Verify(c) \/ ReviewDocument(c)
    PROVE  RolloutInv' /\ Turn(c, RolloutAwaits)
<1>1. UNCHANGED rolloutRows /\ columns /\ columns' /\ call[c].at = "idle" /\ ~Reviewing(c)
    BY DEF Apply, Finalize, Verify, ReviewDocument, Receive, At, rolloutRows, Reviewing
<1>2. ASSUME NEW frame \in RolloutFrames, call' = [call EXCEPT ![c] = frame],
             frame.at \in {"loading-legacy", "loading-linked", "finding-document"}
      PROVE  RolloutInv' /\ Turn(c, RolloutAwaits)
    BY <1>1, <1>2, Framed, NothingToHold, RolloutLook
<1>3. CASE Apply(c) \/ Finalize(c)
    <2> PICK frame \in {[at |-> "loading-legacy"], [at |-> "loading-linked"]} :
            call' = [call EXCEPT ![c] = frame]
        BY <1>3 DEF Apply, Finalize, Receive
    <2>1. frame \in RolloutFrames /\ frame.at \in {"loading-legacy", "loading-linked"}
        BY DEF RolloutFrames, LoadFrames
    <2> QED
        BY <1>2, <2>1
<1>4. CASE ReviewDocument(c)
    <2> PICK d \in Docs, v \in {"approved", "rejected"} :
            call' = [call EXCEPT ![c] =
                [at |-> "finding-document", doc |-> d, verdict |-> v, file |-> NULL]]
        BY <1>4 DEF ReviewDocument, Receive
    <2> PICK frame : frame = [at |-> "finding-document", doc |-> d, verdict |-> v, file |-> NULL]
        OBVIOUS
    <2>1. frame \in RolloutFrames /\ frame.at = "finding-document"
        BY DEF RolloutFrames, ReviewFrames, ReviewAwaits
    <2> QED
        BY <1>2, <2>1
<1>5. CASE Verify(c)
    <2> PICK frame : frame = [at |-> "verifying", left |-> Docs, found |-> FALSE]
        OBVIOUS
    <2>1. /\ call' = [call EXCEPT ![c] = frame] /\ frame \in RolloutFrames
          /\ frame.at = "verifying" /\ frame.left = Docs
        BY <1>5 DEF Verify, Receive, RolloutFrames, VerifyFrames
    <2>2. Turn(c, RolloutAwaits) /\ call'[c].at = "verifying" /\ call'[c].left = Docs
        BY <1>1, <2>1, Framed
    <2>3. RolloutHolds(c)' /\ ~Reviewing(c)'
        BY <1>1, <2>2 DEF RolloutHolds, Reviewing, At
    <2> QED
        BY <1>1, <2>2, <2>3, RolloutLook
<1> QED
    BY <1>3, <1>4, <1>5

LEMMA RolloutLoads ==
    ASSUME FramesOK, RolloutInv, NEW c \in Calls, LoadCandidates(c) \/ LoadLinked(c)
    PROVE  RolloutInv' /\ Turn(c, RolloutAwaits)
<1>1. /\ UNCHANGED rolloutRows /\ call[c].at \in RolloutAwaits /\ ~Reviewing(c)
      /\ docs \in [Docs -> DocRows] /\ Sources \subseteq Docs
    BY DEF LoadCandidates, LoadLinked, At, RolloutAwaits, RolloutInv, RolloutTypeOK, DocRows, Sources,
           Reviewing
<1>2. columns'
    BY <1>1, ColumnsThere DEF rolloutRows
<1>3. CASE LoadCandidates(c)
    <2> PICK frame : frame = [at |-> "next-legacy", rows |-> docs, left |-> Sources,
                              doc |-> NULL, file |-> NULL]
        OBVIOUS
    <2>1. call' = [call EXCEPT ![c] = frame] /\ frame.at = "next-legacy"
        BY <1>3 DEF LoadCandidates
    <2>2. frame \in ApplyFrames
        BY <1>1 DEF ApplyFrames, ApplyAwaits
    <2>3. Turn(c, RolloutAwaits) /\ call'[c].at = "next-legacy"
        BY <1>1, <2>1, <2>2, Framed DEF RolloutFrames
    <2> QED
        BY <1>1, <1>2, <2>3, NothingToHold, RolloutLook
<1>4. CASE LoadLinked(c)
    <2> PICK links : links = [d \in Docs |-> [link |-> docs[d].link]]
        OBVIOUS
    <2> PICK frame : frame = [at |-> "next-linked", rows |-> links, left |-> Sources, doc |-> NULL]
        OBVIOUS
    <2>1. call' = [call EXCEPT ![c] = frame] /\ frame.at = "next-linked"
        BY <1>4 DEF LoadLinked
    <2>2. links \in [Docs -> [link : FileIds \cup {NULL}]]
        BY <1>1 DEF DocRows
    <2>3. frame \in FinalizeFrames
        BY <1>1, <2>2 DEF FinalizeFrames
    <2>4. Turn(c, RolloutAwaits) /\ call'[c].at = "next-linked"
        BY <1>1, <2>1, <2>3, Framed DEF RolloutFrames
    <2> QED
        BY <1>1, <1>2, <2>4, NothingToHold, RolloutLook
<1> QED
    BY <1>3, <1>4

\* A script that is not reviewing ends without a trace.
LEMMA RolloutEnds ==
    ASSUME FramesOK, RolloutInv, NEW c \in Calls, End(c), UNCHANGED rolloutRows,
           call[c].at \in RolloutAwaits, ~Reviewing(c)
    PROVE  RolloutInv' /\ Turn(c, RolloutAwaits)
<1>1. Turn(c, RolloutAwaits) /\ call'[c].at = "idle"
    BY RolloutEnded
<1>2. ~Of(c, RolloutAwaits)' /\ ~Reviewing(c)'
    BY <1>1 DEF Of, RolloutAwaits, Reviewing
<1> QED
    BY <1>1, <1>2, RolloutLook

LEMMA RolloutPasses ==
    ASSUME FramesOK, RolloutInv, NEW c \in Calls, Blocked(c) \/ FinishApply(c) \/ FinishFinalize(c)
    PROVE  RolloutInv' /\ Turn(c, RolloutAwaits)
<1>1. UNCHANGED rolloutRows /\ ~Reviewing(c) /\ call[c].at \in RolloutAwaits
    BY DEF Blocked, FinishApply, FinishFinalize, At, Reviewing, RolloutAwaits
<1>2. CASE End(c)
    BY <1>1, <1>2, RolloutEnds
<1>3. CASE Blocked(c)
    <2>1. call[c].at = "next-linked" /\ columns'
        BY <1>1, <1>3, ColumnsThere DEF Blocked, At, rolloutRows
    <2>2. PICK d \in Docs : call' = [call EXCEPT ![c].left = @ \ {d}]
        BY <1>3, <2>1, FinalizeFrame DEF Blocked
    <2> PICK old : old = call[c]
        OBVIOUS
    <2> PICK frame : frame = [old EXCEPT !.left = @ \ {d}]
        OBVIOUS
    <2>3. call' = [call EXCEPT ![c] = frame] /\ old \in FinalizeFrames
        BY <2>1, <2>2, FinalizeFrame DEF FramesOK
    <2>4. frame \in FinalizeFrames /\ frame.at = "next-linked"
        BY <2>1, <2>3 DEF FinalizeFrames
    <2>5. Turn(c, RolloutAwaits) /\ call'[c].at = "next-linked"
        BY <1>1, <2>3, <2>4, Framed DEF RolloutFrames
    <2> QED
        BY <1>1, <2>1, <2>5, NothingToHold, RolloutLook
<1> QED
    BY <1>2, <1>3 DEF FinishApply, FinishFinalize

LEMMA RolloutTakes ==
    ASSUME FramesOK, RolloutInv, NEW c \in Calls, DownloadRetained(c) \/ FindLinked(c)
    PROVE  RolloutInv' /\ Turn(c, RolloutAwaits)
<1>1. UNCHANGED rolloutRows /\ call[c].at \in {"next-legacy", "next-linked"}
    BY DEF DownloadRetained, FindLinked, At
<1>2. PICK d \in Docs, await \in {"hydrating", "clearing"} :
        /\ Take(c, await, d) /\ Row(c, d).link # NULL
        /\ \/ call[c].at = "next-legacy" /\ await = "hydrating"
           \/ call[c].at = "next-linked" /\ await = "clearing"
    BY ApplyFrame, FinalizeFrame DEF DownloadRetained, FindLinked, At, ApplyAwaits
<1>3. /\ Turn(c, RolloutAwaits) /\ call'[c].at \in {"hydrating", "clearing"} /\ call'[c].doc = d
      /\ call'[c].rows = call[c].rows
    BY <1>2, Took
<1>4. call'[c].rows[call'[c].doc].link # NULL /\ columns'
    BY <1>1, <1>2, <1>3, ColumnsThere DEF Row, rolloutRows, RolloutAwaits
<1>5. RolloutHolds(c)' /\ ~Reviewing(c)' /\ ~Reviewing(c)
    BY <1>1, <1>3, <1>4 DEF RolloutHolds, Reviewing, At, Row
<1> QED
    BY <1>1, <1>3, <1>5, RolloutLook

LEMMA CrashRolloutInv ==
    ASSUME FramesOK, RolloutInv, NEW c \in Calls, CrashRollout(c)
    PROVE  RolloutInv' /\ Turn(c, RolloutAwaits)
<1>1. End(c) /\ call[c].at \in RolloutAwaits /\ UNCHANGED <<docs, kept, objects, columns, passed>>
    BY DEF CrashRollout, Die, Rolling, Reviewing, RolloutAwaits
<1>2. CASE ~Reviewing(c)
    BY <1>1, <1>2, RolloutEnds DEF CrashRollout, rolloutRows
<1>3. CASE Reviewing(c)
    <2>1. Turn(c, RolloutAwaits) /\ call'[c].at = "idle"
        BY <1>1, RolloutEnded
    <2>2. ~Of(c, RolloutAwaits)' /\ ~Reviewing(c)'
        BY <2>1 DEF Of, RolloutAwaits, Reviewing
    <2> PICK d : d = call[c].doc
        OBVIOUS
    <2>3. d \in Docs /\ astray' = astray \cup {d}
        BY <1>3, ReviewFrame DEF CrashRollout, GoneAstray, Reviewing, ReviewAwaits
    <2>4. \A f \in FileIds : kept[f].doc = d => Tidy(f)'
        BY <1>1, <2>3 DEF Tidy
    <2>5. TidyInv'
        BY <1>1, <2>1, <2>3, <2>4, TidyStays
    <2>6. astray' \subseteq Docs
        BY <2>3 DEF RolloutInv, RolloutTypeOK
    <2> QED
        BY <1>1, <2>1, <2>2, <2>5, <2>6, RolloutSame
<1> QED
    BY <1>2, <1>3

-----------------------------------------------------------------------------
(* The rollout: verify *)

\* A row of which verify finds nothing has no source, and its file the status of the review.
LEMMA VerifySourceInv ==
    ASSUME FramesOK, RolloutInv, NEW c \in Calls, VerifySource(c)
    PROVE  RolloutInv' /\ Turn(c, RolloutAwaits)
<1>1. /\ UNCHANGED <<docs, kept, objects, columns, passed>>
      /\ call[c].at = "verifying" /\ call[c].at \in RolloutAwaits /\ ~Reviewing(c)
    BY DEF VerifySource, At, RolloutAwaits, Reviewing
<1>2. RolloutHolds(c) /\ columns
    BY <1>1, ColumnsThere
<1>3. call[c] \in VerifyFrames /\ call[c].left \subseteq Docs /\ call[c].found \in BOOLEAN
    BY <1>1, VerifyFrame
<1>4. PICK d \in Docs :
        /\ call' = [call EXCEPT ![c].left = @ \ {d}, ![c].found = @ \/ ~InOrder(d)]
        /\ astray' = IF InOrder(d) THEN astray \ {d} ELSE astray
    BY <1>3 DEF VerifySource
<1> PICK old, found : old = call[c] /\ found = (call[c].found \/ ~InOrder(d))
    OBVIOUS
<1> PICK frame : frame = [old EXCEPT !.left = @ \ {d}, !.found = found]
    OBVIOUS
<1>5. call' = [call EXCEPT ![c] = frame]
    BY <1>4 DEF FramesOK
<1>6. found \in BOOLEAN
    BY <1>3
<1>7. /\ frame \in VerifyFrames /\ frame.at = "verifying" /\ frame.left = old.left \ {d}
      /\ frame.found = found
    BY <1>1, <1>3, <1>6 DEF VerifyFrames
<1>8. Turn(c, RolloutAwaits) /\ call'[c] = frame
    BY <1>1, <1>5, <1>7, Framed DEF RolloutFrames
<1>9. ~found => \A e \in Docs \ frame.left : docs[e].source = NULL
    <2> SUFFICES ASSUME ~found, NEW e \in Docs \ frame.left PROVE docs[e].source = NULL
        OBVIOUS
    <2>1. CASE e # d
        BY <1>1, <1>2, <1>7, <2>1 DEF RolloutHolds, At
    <2>2. CASE e = d
        BY <2>2 DEF InOrder
    <2> QED
        BY <2>1, <2>2
<1>10. RolloutHolds(c)' /\ ~Reviewing(c)'
    BY <1>1, <1>2, <1>7, <1>8, <1>9 DEF RolloutHolds, Reviewing, At
<1>11. ASSUME InOrder(d), NEW f \in FileIds, Reachable(f)', kept[f].doc = d PROVE Tidy(f)'
    <2>1. docs[d].link = f /\ f # NULL
        BY <1>1, <1>11 DEF InOrder, Reachable
    <2> QED
        BY <1>1, <1>11, <2>1 DEF InOrder, InvalidLink, StatusDiffers, Tidy
<1>12. TidyInv'
    <2>1. CASE InOrder(d)
        BY <1>1, <1>4, <1>8, <1>11, <2>1, TidyStays
    <2>2. CASE ~InOrder(d)
        <3> PICK none : none = NULL
            OBVIOUS
        <3>1. \A f \in FileIds : Reachable(f)' => kept[f].doc # none
            BY <1>1 DEF Reachable, RolloutInv, FilesInv
        <3> QED
            BY <1>1, <1>4, <1>8, <2>2, <3>1, TidyStays
    <2> QED
        BY <2>1, <2>2
<1>13. astray' \subseteq Docs
    BY <1>4 DEF RolloutInv, RolloutTypeOK
<1> QED
    BY <1>1, <1>8, <1>10, <1>12, <1>13, RolloutSame

\* Where no file is without a document, a path whose source was cleared has its link.
LEMMA VerifyAttachmentsInv ==
    ASSUME FramesOK, RolloutInv, NEW c \in Calls, VerifyAttachments(c)
    PROVE  RolloutInv' /\ Turn(c, RolloutAwaits)
<1>1. /\ UNCHANGED rolloutRows /\ call[c].at = "verifying" /\ call[c].at \in RolloutAwaits
      /\ call[c].left = {} /\ ~Reviewing(c)
    BY DEF VerifyAttachments, At, RolloutAwaits, Reviewing
<1>2. RolloutHolds(c) /\ columns
    BY <1>1, ColumnsThere
<1>3. call[c] \in VerifyFrames /\ call[c].found \in BOOLEAN
    BY <1>1, VerifyFrame
<1> PICK old, found : old = call[c] /\ found = (call[c].found \/ Orphans # {})
    OBVIOUS
<1> PICK frame : frame = [old EXCEPT !.at = "verifying-metadata", !.found = found]
    OBVIOUS
<1>4. call' = [call EXCEPT ![c] = frame]
    BY DEF FramesOK, VerifyAttachments
<1>5. /\ frame \in VerifyFrames /\ frame.at = "verifying-metadata" /\ frame.found = found
    BY <1>3 DEF VerifyFrames
<1>6. Turn(c, RolloutAwaits) /\ call'[c] = frame
    BY <1>1, <1>4, <1>5, Framed DEF RolloutFrames
<1>7. ASSUME ~found, NEW d \in Docs PROVE CutOver(d)
    <2>1. docs[d].source = NULL /\ Orphans = {}
        BY <1>1, <1>2, <1>7 DEF RolloutHolds, At
    <2>2. ASSUME d \notin External PROVE docs[d].link # NULL
        <3>1. PICK f \in FileIds : kept[f] # NULL /\ kept[f].doc = d
            BY <2>1, <2>2 DEF RolloutInv, FilesInv
        <3>2. PICK e \in Docs : docs[e].link = f
            BY <2>1, <3>1 DEF Orphans
        <3>3. f # NULL
            OBVIOUS
        <3> QED
            BY <3>1, <3>2, <3>3 DEF RolloutInv, FilesInv
    <2> QED
        BY <2>1, <2>2 DEF CutOver
<1>8. columns' /\ \A e \in Docs : CutOver(e)' <=> CutOver(e)
    BY <1>1, <1>2 DEF rolloutRows, CutOver
<1>9. RolloutHolds(c)' /\ ~Reviewing(c)'
    BY <1>5, <1>6, <1>7, <1>8 DEF RolloutHolds, Reviewing, At
<1> QED
    BY <1>1, <1>6, <1>9, RolloutLook

\* Verify passes only where every row is cut over and every file was read.
LEMMA VerifyMetadataInv ==
    ASSUME FramesOK, RolloutInv, NEW c \in Calls, VerifyMetadata(c)
    PROVE  RolloutInv' /\ Turn(c, RolloutAwaits)
<1>1. /\ UNCHANGED <<docs, kept, objects, columns, astray>>
      /\ passed' = (passed \/ ~(call[c].found \/ Unsized # {}))
      /\ call[c].at = "verifying-metadata" /\ call[c].at \in RolloutAwaits
      /\ End(c) /\ ~Reviewing(c)
    BY DEF VerifyMetadata, At, RolloutAwaits, Reviewing
<1>2. RolloutHolds(c)
    BY <1>1, ColumnsThere
<1>3. Turn(c, RolloutAwaits) /\ call'[c].at = "idle"
    BY <1>1, RolloutEnded
<1>4. ~Of(c, RolloutAwaits)' /\ ~Reviewing(c)'
    BY <1>3 DEF Of, RolloutAwaits, Reviewing
<1>5. (\A d \in Calls : Of(d, RolloutAwaits) => RolloutHolds(d))' /\ OneReviewer'
    BY <1>1, <1>3, <1>4, RolloutOthers
<1>6. RolloutTypeOK' /\ FilesInv'
    <2>1. passed' \in BOOLEAN
        BY <1>1 DEF RolloutInv, RolloutTypeOK
    <2> QED
        BY <1>1, <2>1 DEF RolloutInv, RolloutTypeOK, FilesInv
<1>7. TidyInv'
    <2> PICK none : none = NULL
        OBVIOUS
    <2>1. \A f \in FileIds : Reachable(f)' => kept[f].doc # none
        BY <1>1 DEF Reachable, RolloutInv, FilesInv
    <2> QED
        BY <1>1, <1>3, <2>1, TidyStays
<1>8. PassedInv'
    <2>1. ASSUME ~passed, passed', NEW d \in Docs
          PROVE  CutOver(d) /\ (d \notin External => kept[docs[d].link].sized)
        <3>1. CutOver(d)
            BY <1>1, <1>2, <2>1 DEF RolloutHolds, At
        <3>2. docs[d].link # NULL => docs[d].link \in FileIds /\ kept[docs[d].link] # NULL
            BY DEF FilesInv, RolloutInv, RolloutTypeOK
        <3>3. docs[d].link # NULL => kept[docs[d].link] \in FileRows
            BY <3>2 DEF RolloutInv, RolloutTypeOK
        <3> QED
            BY <1>1, <2>1, <3>1, <3>2, <3>3 DEF Unsized, CutOver
    <2> QED
        BY <1>1, <2>1 DEF RolloutInv, PassedInv, CutOver
<1> QED
    BY <1>3, <1>5, <1>6, <1>7, <1>8 DEF RolloutInv

-----------------------------------------------------------------------------
(* The rollout: steps that write *)

\* Rows and files keep what leads from one to the other.
Kept ==
    /\ \A e \in Docs : /\ docs'[e].link = docs[e].link
                       /\ docs'[e].source = docs[e].source
                          \/ (docs'[e].source = NULL /\ docs[e].link # NULL)
    /\ \A f \in FileIds : /\ kept'[f] = NULL <=> kept[f] = NULL
                          /\ kept[f] # NULL =>
                               /\ kept'[f].object = kept[f].object /\ kept'[f].doc = kept[f].doc
                               /\ kept[f].sized => kept'[f].sized
    /\ UNCHANGED <<columns, passed>>
    /\ Docs \ External \subseteq objects'

LEMMA KeptStays ==
    ASSUME RolloutInv, Kept
    PROVE  FilesInv' /\ PassedInv'
<1>1. FilesInv /\ PassedInv /\ \A d \in Docs : docs[d].link \in FileIds \cup {NULL}
    BY DEF RolloutInv, RolloutTypeOK
<1>2. FilesInv'
    <2>1. \A d \in Docs : docs'[d].link # NULL =>
            kept'[docs'[d].link] # NULL /\ kept'[docs'[d].link].doc = d
        BY <1>1 DEF FilesInv, Kept
    <2>2. \A f \in FileIds : kept'[f] # NULL =>
            kept'[f].object = kept'[f].doc /\ kept'[f].doc \in Docs \ External
        BY <1>1 DEF FilesInv, Kept
    <2>3. \A f, g \in FileIds :
            kept'[f] # NULL /\ kept'[g] # NULL /\ kept'[f].doc = kept'[g].doc => f = g
        BY <1>1 DEF FilesInv, Kept
    <2>4. ASSUME NEW d \in Docs \ External, docs'[d].source = NULL
          PROVE  \E f \in FileIds : kept'[f] # NULL /\ kept'[f].doc = d
        <3>1. \E f \in FileIds : kept[f] # NULL /\ kept[f].doc = d
            BY <1>1, <2>4 DEF FilesInv, Kept
        <3> QED
            BY <3>1 DEF Kept
    <2>5. \A d \in Docs \ External : columns' /\ docs'[d].link = NULL => docs'[d].source = NULL
        BY <1>1 DEF FilesInv, Kept
    <2> QED
        BY <2>1, <2>2, <2>3, <2>4, <2>5 DEF FilesInv, Kept
<1>3. PassedInv'
    <2> SUFFICES ASSUME passed, NEW d \in Docs
                 PROVE  CutOver(d)' /\ (d \notin External => kept'[docs'[d].link].sized)
        BY DEF PassedInv, Kept
    <2>1. CutOver(d) /\ (d \notin External => kept[docs[d].link].sized)
        BY <1>1 DEF PassedInv
    <2>2. CutOver(d)'
        BY <2>1 DEF CutOver, Kept
    <2>3. d \notin External => kept[docs[d].link] # NULL /\ docs[d].link \in FileIds
        BY <1>1, <2>1 DEF CutOver, FilesInv
    <2> QED
        BY <2>1, <2>2, <2>3 DEF Kept
<1> QED
    BY <1>2, <1>3

\* Steps of the tool that write: nothing of them is a review's.
LEMMA ToolWrites ==
    ASSUME FramesOK, RolloutInv, NEW c \in Calls, Turn(c, RolloutAwaits), Kept, UNCHANGED astray,
           RolloutTypeOK', ~Reviewing(c), ~Reviewing(c)',
           \A e \in Docs : docs'[e].verdict = docs[e].verdict,
           \A f \in FileIds : kept[f] # NULL => kept'[f].status = kept[f].status,
           Of(c, RolloutAwaits)' => RolloutHolds(c)'
    PROVE  RolloutInv'
<1>1. FilesInv' /\ PassedInv'
    BY KeptStays
<1>2. TidyInv'
    <2> PICK none : none = NULL
        OBVIOUS
    <2>1. \A f \in FileIds : Reachable(f)' => kept[f].doc # none
        BY DEF Kept, Reachable, RolloutInv, FilesInv
    <2>2. /\ \A e \in Docs : docs'[e].link = docs[e].link
                           /\ (docs'[e].source = "set" => docs[e].source = "set")
          /\ \A f \in FileIds : kept'[f] # NULL => kept[f] # NULL /\ kept'[f].doc = kept[f].doc
        BY DEF Kept
    <2>3. \A e \in Docs : e \in astray => e \in astray'
        OBVIOUS
    <2> QED
        BY <2>1, <2>2, <2>3, TidyStays
<1>3. \A d \in Calls : Reviewing(d) => call[d].doc \in Docs
    BY ReviewFrame DEF Reviewing, ReviewAwaits
<1>4. (\A d \in Calls : Of(d, RolloutAwaits) => RolloutHolds(d))' /\ OneReviewer'
    BY <1>3, RolloutOthers DEF Kept
<1> QED
    BY <1>1, <1>2, <1>4 DEF RolloutInv

\* What a write to one file's row makes of the rows.
LEMMA FileWritten ==
    ASSUME RolloutInv, NEW f \in FileIds, kept[f] # NULL, NEW row \in FileRows,
           row.object = kept[f].object, row.doc = kept[f].doc, kept[f].sized => row.sized,
           kept' = [kept EXCEPT ![f] = row], UNCHANGED <<docs, objects, columns, passed>>
    PROVE  /\ Kept /\ kept' \in [FileIds -> FileRows \cup {NULL}]
           /\ \A g \in FileIds : kept'[g] = IF g = f THEN row ELSE kept[g]
<1>1. kept \in [FileIds -> FileRows \cup {NULL}]
    BY DEF RolloutInv, RolloutTypeOK
<1>2. \A g \in FileIds : kept'[g] = IF g = f THEN row ELSE kept[g]
    BY <1>1
<1>3. row # NULL /\ kept' \in [FileIds -> FileRows \cup {NULL}]
    BY <1>1
<1>4. \A g \in FileIds : /\ kept'[g] = NULL <=> kept[g] = NULL
                         /\ kept[g] # NULL =>
                              /\ kept'[g].object = kept[g].object /\ kept'[g].doc = kept[g].doc
                              /\ kept[g].sized => kept'[g].sized
    BY <1>2, <1>3
<1>5. Docs \ External \subseteq objects'
    BY DEF RolloutInv, FilesInv
<1> QED
    BY <1>2, <1>3, <1>4, <1>5 DEF Kept

\* The object is read where the file is its document's; then the tool ends.
LEMMA HydrateInv ==
    ASSUME FramesOK, RolloutInv, NEW c \in Calls, Hydrate(c)
    PROVE  RolloutInv' /\ Turn(c, RolloutAwaits)
<1> PICK d, f : d = call[c].doc /\ f = Row(c, d).link
    OBVIOUS
<1>1. /\ UNCHANGED <<docs, objects, columns, passed, astray>> /\ End(c)
      /\ kept' = IF Matches(f, d) THEN [kept EXCEPT ![f].sized = TRUE] ELSE kept
      /\ call[c].at = "hydrating" /\ call[c].at \in RolloutAwaits /\ ~Reviewing(c)
    BY DEF Hydrate, At, RolloutAwaits, Reviewing
<1>2. Turn(c, RolloutAwaits) /\ ~Of(c, RolloutAwaits)' /\ ~Reviewing(c)'
    BY <1>1, RolloutEnded DEF Of, RolloutAwaits, Reviewing
<1>3. d \in Docs /\ f \in FileIds
    BY <1>1, ColumnsThere, ApplyFrame DEF RolloutHolds, ApplyAwaits
<1>4. CASE ~Matches(f, d)
    <2>1. UNCHANGED rolloutRows
        BY <1>1, <1>4 DEF rolloutRows
    <2> QED
        BY <1>1, <2>1, RolloutEnds
<1>5. CASE Matches(f, d)
    <2> PICK was, row : was = kept[f] /\ row = [kept[f] EXCEPT !.sized = TRUE]
        OBVIOUS
    <2>1. was \in FileRows /\ was # NULL
        BY <1>3, <1>5 DEF Matches, RolloutInv, RolloutTypeOK
    <2>2. /\ row \in FileRows /\ row.object = was.object /\ row.doc = was.doc
          /\ row.status = was.status /\ row.sized
        BY <2>1 DEF FileRows
    <2>3. kept' = [kept EXCEPT ![f] = row]
        BY <1>1, <1>3, <1>5 DEF RolloutInv, RolloutTypeOK
    <2>4. /\ row.object = kept[f].object /\ row.doc = kept[f].doc /\ (kept[f].sized => row.sized)
          /\ kept[f] # NULL /\ UNCHANGED <<docs, objects, columns, passed>>
        BY <1>1, <2>1, <2>2
    <2>5. /\ Kept /\ kept' \in [FileIds -> FileRows \cup {NULL}]
          /\ \A g \in FileIds : kept'[g] = IF g = f THEN row ELSE kept[g]
        BY <1>3, <2>2, <2>3, <2>4, FileWritten
    <2>6. RolloutTypeOK'
        BY <1>1, <2>5 DEF RolloutInv, RolloutTypeOK
    <2>7. \A g \in FileIds : kept'[g].status = kept[g].status
        BY <2>2, <2>5
    <2> QED
        BY <1>1, <1>2, <2>5, <2>6, <2>7, ToolWrites
<1> QED
    BY <1>4, <1>5

\* The key of a copy is no path.
LEMMA CopyExternalInv ==
    ASSUME FramesOK, RolloutInv, NEW c \in Calls, CopyExternal(c)
    PROVE  RolloutInv' /\ Turn(c, RolloutAwaits)
<1>1. /\ UNCHANGED <<docs, kept, columns, passed, astray>>
      /\ call[c].at = "next-legacy" /\ call[c].at \in RolloutAwaits /\ ~Reviewing(c)
    BY DEF CopyExternal, At, RolloutAwaits, Reviewing
<1>2. PICK d \in Docs, f \in FileIds :
        /\ objects' = objects \cup {f}
        /\ call' = [call EXCEPT ![c].at = "linking", ![c].doc = d, ![c].file = f,
                                ![c].left = @ \ {d}]
    BY DEF CopyExternal
<1> PICK old : old = call[c]
    OBVIOUS
<1> PICK frame : frame = [old EXCEPT !.at = "linking", !.doc = d, !.file = f, !.left = @ \ {d}]
    OBVIOUS
<1>3. call' = [call EXCEPT ![c] = frame] /\ old \in ApplyFrames
    BY <1>1, <1>2, ApplyFrame DEF FramesOK, ApplyAwaits
<1>4. frame \in ApplyFrames /\ frame.at = "linking" /\ frame.file = f
    BY <1>3 DEF ApplyFrames, ApplyAwaits
<1>5. Turn(c, RolloutAwaits) /\ call'[c] = frame
    BY <1>1, <1>3, <1>4, Framed DEF RolloutFrames
<1>6. RolloutHolds(c)' /\ ~Reviewing(c)'
    BY <1>1, <1>4, <1>5, ColumnsThere DEF RolloutHolds, Reviewing, At
<1>7. Kept /\ RolloutTypeOK'
    BY <1>1, <1>2 DEF Kept, RolloutInv, RolloutTypeOK, FilesInv
<1> QED
    BY <1>1, <1>5, <1>6, <1>7, ToolWrites

\* No copy is linked.
LEMMA LinkCopyInv ==
    ASSUME FramesOK, RolloutInv, NEW c \in Calls, LinkCopy(c)
    PROVE  RolloutInv' /\ Turn(c, RolloutAwaits)
<1>1. /\ UNCHANGED rolloutRows /\ call[c].at = "linking" /\ call[c].at \in RolloutAwaits
      /\ ~Reviewing(c)
    BY DEF LinkCopy, At, RolloutAwaits, Reviewing
<1>2. CASE End(c)
    BY <1>1, <1>2, RolloutEnds
<1>3. CASE Goto(c, "removing-copy")
    <2> PICK frame : frame = [call[c] EXCEPT !.at = "removing-copy"]
        OBVIOUS
    <2>1. call' = [call EXCEPT ![c] = frame] /\ call[c] \in ApplyFrames
        BY <1>1, <1>3, ApplyFrame DEF Goto, FramesOK, ApplyAwaits
    <2>2. frame \in ApplyFrames /\ frame.at = "removing-copy" /\ frame.file = call[c].file
        BY <2>1 DEF ApplyFrames, ApplyAwaits
    <2>3. Turn(c, RolloutAwaits) /\ call'[c] = frame
        BY <1>1, <2>1, <2>2, Framed DEF RolloutFrames
    <2>4. columns' /\ call[c].file \in FileIds
        BY <1>1, ColumnsThere DEF RolloutHolds, rolloutRows
    <2>5. RolloutHolds(c)' /\ ~Reviewing(c)'
        BY <2>2, <2>3, <2>4 DEF RolloutHolds, Reviewing, At
    <2> QED
        BY <1>1, <2>3, <2>5, RolloutLook
<1> QED
    BY <1>2, <1>3 DEF LinkCopy

\* What is removed is the path of no document.
LEMMA RemoveCopyInv ==
    ASSUME FramesOK, RolloutInv, NEW c \in Calls, RemoveCopy(c)
    PROVE  RolloutInv' /\ Turn(c, RolloutAwaits)
<1> PICK f : f = call[c].file
    OBVIOUS
<1>1. /\ UNCHANGED <<docs, kept, columns, passed, astray>> /\ End(c)
      /\ objects' \in {objects, objects \ {f}}
      /\ call[c].at = "removing-copy" /\ call[c].at \in RolloutAwaits /\ ~Reviewing(c)
    BY DEF RemoveCopy, At, RolloutAwaits, Reviewing
<1>2. f \notin Docs
    BY <1>1, ColumnsThere DEF RolloutHolds
<1>3. Turn(c, RolloutAwaits) /\ ~Of(c, RolloutAwaits)' /\ ~Reviewing(c)'
    BY <1>1, RolloutEnded DEF Of, RolloutAwaits, Reviewing
<1>4. Kept /\ RolloutTypeOK'
    BY <1>1, <1>2 DEF Kept, RolloutInv, RolloutTypeOK, FilesInv
<1> QED
    BY <1>1, <1>3, <1>4, ToolWrites

\* The source is cleared only where the row is linked.
LEMMA ClearSourceInv ==
    ASSUME FramesOK, RolloutInv, NEW c \in Calls, ClearSource(c)
    PROVE  RolloutInv' /\ Turn(c, RolloutAwaits)
<1> PICK d : d = call[c].doc
    OBVIOUS
<1>1. /\ UNCHANGED <<kept, objects, columns, passed, astray>>
      /\ call[c].at = "clearing" /\ call[c].at \in RolloutAwaits /\ ~Reviewing(c)
      /\ docs' = IF LinkedAsRead(c, d) THEN [docs EXCEPT ![d].source = NULL] ELSE docs
    BY DEF ClearSource, At, RolloutAwaits, Reviewing
<1>2. d \in Docs /\ Row(c, d).link # NULL /\ columns'
    BY <1>1, ColumnsThere DEF RolloutHolds
<1>3. Turn(c, RolloutAwaits) /\ call'[c].at = "next-linked"
    <2>1. call[c] \in FinalizeFrames
        BY <1>1, FinalizeFrame
    <2> PICK frame : frame = [call[c] EXCEPT !.at = "next-linked"]
        OBVIOUS
    <2>2. frame \in FinalizeFrames /\ frame.at = "next-linked"
        BY <2>1 DEF FinalizeFrames
    <2>3. call' = [call EXCEPT ![c] = frame]
        BY DEF ClearSource, Goto, FramesOK
    <2> QED
        BY <1>1, <2>2, <2>3, Framed DEF RolloutFrames
<1>4. RolloutHolds(c)' /\ ~Reviewing(c)'
    BY <1>2, <1>3, NothingToHold
<1>5. docs \in [Docs -> DocRows]
    BY DEF RolloutInv, RolloutTypeOK, DocRows
<1>6. CASE ~LinkedAsRead(c, d)
    <2>1. UNCHANGED rolloutRows
        BY <1>1, <1>6 DEF rolloutRows
    <2> QED
        BY <1>1, <1>3, <1>4, <2>1, RolloutLook
<1>7. CASE LinkedAsRead(c, d)
    <2> PICK was, row : was = docs[d] /\ row = [docs[d] EXCEPT !.source = NULL]
        OBVIOUS
    <2>1. was \in DocRows /\ was.link # NULL
        BY <1>2, <1>5, <1>7 DEF LinkedAsRead
    <2>2. /\ row \in DocRows /\ row.link = was.link /\ row.source = NULL
          /\ row.verdict = was.verdict
        BY <2>1 DEF DocRows
    <2>3. docs' = [docs EXCEPT ![d] = row]
        BY <1>1, <1>2, <1>5, <1>7
    <2>4. docs' \in [Docs -> DocRows] /\ \A e \in Docs : docs'[e] = IF e = d THEN row ELSE docs[e]
        BY <1>2, <1>5, <2>2, <2>3
    <2>5. Kept
        BY <1>1, <2>1, <2>2, <2>4 DEF Kept, RolloutInv, FilesInv
    <2>6. RolloutTypeOK'
        BY <1>1, <2>4 DEF RolloutInv, RolloutTypeOK, DocRows
    <2>7. \A e \in Docs : docs'[e].verdict = docs[e].verdict
        BY <2>2, <2>4
    <2> QED
        BY <1>1, <1>3, <1>4, <2>5, <2>6, <2>7, ToolWrites
<1> QED
    BY <1>6, <1>7

-----------------------------------------------------------------------------
(* The rollout: reviews *)

\* The link of the row is read while no migration runs.
LEMMA FindDocumentInv ==
    ASSUME FramesOK, RolloutInv, NEW c \in Calls, FindDocument(c)
    PROVE  RolloutInv' /\ Turn(c, RolloutAwaits)
<1>1. /\ UNCHANGED rolloutRows /\ call[c].at = "finding-document" /\ ~Reviewing(c)
    BY DEF FindDocument, At, Reviewing
<1>2. call[c] \in ReviewFrames /\ call[c].doc \in Docs /\ call[c].at \in RolloutAwaits
    BY <1>1, ReviewFrame DEF ReviewAwaits
<1> PICK old, link : old = call[c] /\ link = docs[call[c].doc].link
    OBVIOUS
<1> PICK frame : frame = [old EXCEPT !.at = "deciding-document", !.file = link]
    OBVIOUS
<1>3. call' = [call EXCEPT ![c] = frame]
    BY DEF FindDocument, FramesOK
<1>4. link \in FileIds \cup {NULL}
    BY <1>2 DEF RolloutInv, RolloutTypeOK
<1>5. /\ frame \in ReviewFrames /\ frame.at = "deciding-document"
      /\ frame.file = link /\ frame.doc = old.doc
    BY <1>2, <1>4 DEF ReviewFrames, ReviewAwaits
<1>6. Turn(c, RolloutAwaits) /\ call'[c] = frame
    BY <1>2, <1>3, <1>5, Framed DEF RolloutFrames
<1>7. columns'
    BY <1>1, <1>2, ColumnsThere DEF rolloutRows
<1>8. RolloutHolds(c)' /\ ~Reviewing(c)'
    BY <1>1, <1>5, <1>6, <1>7 DEF RolloutHolds, Reviewing, At, rolloutRows
<1> QED
    BY <1>1, <1>6, <1>8, RolloutLook

\* What a write to one document's verdict makes of the rows.
LEMMA VerdictWritten ==
    ASSUME RolloutInv, NEW d \in Docs, NEW v \in Verdicts, docs' = [docs EXCEPT ![d].verdict = v],
           UNCHANGED <<kept, objects, columns, passed>>, astray' \subseteq Docs
    PROVE  /\ Kept /\ RolloutTypeOK' /\ docs'[d].verdict = v
           /\ \A e \in Docs \ {d} : docs'[e].verdict = docs[e].verdict
<1> PICK was, row : was = docs[d] /\ row = [docs[d] EXCEPT !.verdict = v]
    OBVIOUS
<1>1. docs \in [Docs -> DocRows] /\ was \in DocRows
    BY DEF RolloutInv, RolloutTypeOK, DocRows
<1>2. row \in DocRows /\ row.link = was.link /\ row.source = was.source /\ row.verdict = v
    BY <1>1 DEF DocRows
<1>3. docs' \in [Docs -> DocRows] /\ \A e \in Docs : docs'[e] = IF e = d THEN row ELSE docs[e]
    BY <1>1, <1>2
<1>4. RolloutTypeOK'
    BY <1>3 DEF RolloutInv, RolloutTypeOK, DocRows
<1>5. Kept
    BY <1>2, <1>3 DEF Kept, RolloutInv, FilesInv
<1> QED
    BY <1>2, <1>3, <1>4, <1>5

\* A review that ends, with its document astray or not, or goes on.
LEMMA ReviewWrites ==
    ASSUME FramesOK, RolloutInv, NEW c \in Calls, Turn(c, RolloutAwaits), Kept, RolloutTypeOK',
           NEW d \in Docs, call[c].at \in ReviewAwaits, call[c].doc = d,
           Of(c, RolloutAwaits)' => RolloutHolds(c)',
           Reviewing(c)' => call'[c].doc = d,
           \A b \in Calls \ {c} : Reviewing(b) => call[b].doc # d,
           \A e \in Docs \ {d} : docs'[e].verdict = docs[e].verdict /\ (e \in astray => e \in astray'),
           \A f \in FileIds : kept[f] # NULL /\ kept[f].doc # d => kept'[f].status = kept[f].status,
           \A f \in FileIds : Reachable(f)' /\ kept[f].doc = d => Tidy(f)'
    PROVE  RolloutInv'
<1>1. FilesInv' /\ PassedInv'
    BY KeptStays
<1>2. TidyInv'
    <2>1. \A e \in Docs : docs'[e].link = docs[e].link
                          /\ (docs'[e].source = "set" => docs[e].source = "set")
        BY DEF Kept
    <2>2. \A f \in FileIds : kept'[f] # NULL => kept[f] # NULL /\ kept'[f].doc = kept[f].doc
        BY DEF Kept
    <2> QED
        BY <2>1, <2>2, TidyStays
<1>3. \A b \in Calls : Reviewing(b) => call[b].doc \in Docs
    BY ReviewFrame DEF Reviewing, ReviewAwaits
<1>4. (\A b \in Calls : Of(b, RolloutAwaits) => RolloutHolds(b))' /\ OneReviewer'
    BY <1>3, RolloutOthers DEF Kept
<1> QED
    BY <1>1, <1>2, <1>4 DEF RolloutInv

\* Of a document that has gone astray or is being reviewed nothing more is asked.
LEMMA Excused ==
    ASSUME FramesOK, RolloutInv, NEW c \in Calls, NEW d \in Docs, Kept,
           d \in astray' \/ (Reviewing(c)' /\ call'[c].doc = d)
    PROVE  \A f \in FileIds : Reachable(f)' /\ kept[f].doc = d => Tidy(f)'
BY DEF Kept, Reachable, Tidy, UnderReview

\* One decision is made of a document that is pending: nobody else is reviewing it.
LEMMA DecideDocumentInv ==
    ASSUME FramesOK, RolloutInv, NEW c \in Calls, DecideDocument(c)
    PROVE  RolloutInv' /\ Turn(c, RolloutAwaits)
<1> PICK d, v : d = call[c].doc /\ v = call[c].verdict
    OBVIOUS
<1>1. /\ UNCHANGED <<kept, objects, columns, passed>> /\ call[c].at = "deciding-document"
      /\ ~Reviewing(c)
    BY DEF DecideDocument, At, Reviewing
<1>2. /\ call[c].at \in RolloutAwaits /\ call[c].at \in ReviewAwaits
      /\ d \in Docs /\ v \in {"approved", "rejected"}
    BY <1>1, ReviewFrame DEF ReviewAwaits
<1>3. columns /\ call[c].file = docs[d].link
    BY <1>1, <1>2, ColumnsThere DEF RolloutHolds, At
<1>4. CASE docs[d].verdict # "pending"
    <2>1. End(c) /\ UNCHANGED rolloutRows
        BY <1>1, <1>4 DEF DecideDocument, rolloutRows
    <2> QED
        BY <1>1, <1>2, <2>1, RolloutEnds
<1>5. CASE docs[d].verdict = "pending"
    <2>1. /\ docs' = [docs EXCEPT ![d].verdict = v]
          /\ \/ Goto(c, "reading-file") /\ UNCHANGED astray
             \/ End(c) /\ astray' = astray \cup {d}
        BY <1>5 DEF DecideDocument, GoneAstray
    <2>2. astray' \subseteq Docs
        BY <1>2, <2>1 DEF RolloutInv, RolloutTypeOK
    <2>3. /\ Kept /\ RolloutTypeOK' /\ docs'[d].verdict = v
          /\ \A e \in Docs \ {d} : docs'[e].verdict = docs[e].verdict
        BY <1>1, <1>2, <2>1, <2>2, VerdictWritten DEF Verdicts
    <2>4. \A b \in Calls \ {c} : Reviewing(b) => call[b].doc # d
        <3> SUFFICES ASSUME NEW b \in Calls, Reviewing(b), call[b].doc = d PROVE FALSE
            OBVIOUS
        <3>1. call[b].verdict \in {"approved", "rejected"} /\ call[b].at \in RolloutAwaits
            BY ReviewFrame DEF Reviewing, ReviewAwaits
        <3>2. docs[d].verdict = call[b].verdict
            BY <3>1, ColumnsThere DEF RolloutHolds
        <3> QED
            BY <1>5, <3>1, <3>2
    <2>5. CASE Goto(c, "reading-file")
        <3>1. /\ Turn(c, RolloutAwaits) /\ call'[c].at = "reading-file" /\ call'[c].doc = d
              /\ call'[c].file = call[c].file /\ call'[c].verdict = v
            BY <1>2, <2>5, ReviewMoved DEF ReviewAwaits
        <3>2. docs'[d].link = docs[d].link
            BY <1>2, <2>3 DEF Kept
        <3>3. RolloutHolds(c)' /\ Reviewing(c)'
            BY <1>1, <1>3, <2>3, <3>1, <3>2 DEF RolloutHolds, Reviewing, At
        <3>4. \A f \in FileIds : Reachable(f)' /\ kept[f].doc = d => Tidy(f)'
            BY <1>2, <2>3, <3>1, <3>3, Excused
        <3> QED
            BY <1>1, <1>2, <2>1, <2>3, <2>4, <3>1, <3>3, <3>4, ReviewWrites
    <2>6. CASE End(c) /\ astray' = astray \cup {d}
        <3>1. Turn(c, RolloutAwaits) /\ ~Of(c, RolloutAwaits)' /\ ~Reviewing(c)'
            BY <1>2, <2>6, RolloutEnded DEF Of, RolloutAwaits, Reviewing
        <3>2. \A f \in FileIds : Reachable(f)' /\ kept[f].doc = d => Tidy(f)'
            BY <1>2, <2>3, <2>6, Excused
        <3> QED
            BY <1>1, <1>2, <2>3, <2>4, <2>6, <3>1, <3>2, ReviewWrites
    <2> QED
        BY <2>1, <2>5, <2>6
<1> QED
    BY <1>4, <1>5

\* What a handler knows between the verdict and its end.
LEMMA ReviewerKnows ==
    ASSUME FramesOK, RolloutInv, NEW c \in Calls, Reviewing(c)
    PROVE  /\ call[c].at \in ReviewAwaits /\ call[c].at \in RolloutAwaits
           /\ call[c].doc \in Docs /\ call[c].verdict \in {"approved", "rejected"}
           /\ call[c].file = docs[call[c].doc].link /\ columns
           /\ docs[call[c].doc].verdict = call[c].verdict
           /\ call[c].file # NULL =>
                /\ call[c].file \in FileIds /\ kept[call[c].file] # NULL
                /\ kept[call[c].file] \in FileRows /\ kept[call[c].file].doc = call[c].doc
           /\ call[c].at \in {"reviewing-file", "taking-back"} => call[c].file # NULL
           /\ \A f \in FileIds : Reachable(f) /\ kept[f].doc = call[c].doc => f = call[c].file
           /\ \A b \in Calls \ {c} : Reviewing(b) => call[b].doc # call[c].doc
<1>1. call[c].at \in ReviewAwaits
    BY DEF Reviewing, ReviewAwaits
<1>2. /\ call[c].at \in RolloutAwaits /\ call[c].doc \in Docs
      /\ call[c].verdict \in {"approved", "rejected"}
    BY <1>1, ReviewFrame
<1>3. RolloutHolds(c) /\ columns
    BY <1>2, ColumnsThere
<1>4. call[c].file = docs[call[c].doc].link
    BY <1>3 DEF RolloutHolds
<1>5. call[c].file # NULL =>
        /\ call[c].file \in FileIds /\ kept[call[c].file] # NULL
        /\ kept[call[c].file] \in FileRows /\ kept[call[c].file].doc = call[c].doc
    BY <1>2, <1>4 DEF RolloutInv, RolloutTypeOK, FilesInv
<1>6. \A f \in FileIds : Reachable(f) /\ kept[f].doc = call[c].doc => f = call[c].file
    <2> SUFFICES ASSUME NEW f \in FileIds, Reachable(f), kept[f].doc = call[c].doc
                 PROVE  f = call[c].file
        OBVIOUS
    <2>1. kept[f] # NULL
        BY DEF Reachable
    <2> QED
        BY <1>2, <1>3, <1>4, <2>1, FileOfLinked, FileOfUnlinked
<1>7. \A b \in Calls \ {c} : Reviewing(b) => call[b].doc # call[c].doc
    BY DEF RolloutInv, OneReviewer
<1> QED
    BY <1>1, <1>2, <1>3, <1>4, <1>5, <1>6, <1>7 DEF RolloutHolds

\* The review of a file that is not there, or has its status, ends with the file as it
\* should be.
LEMMA ReadFileInv ==
    ASSUME FramesOK, RolloutInv, NEW c \in Calls, ReadFile(c)
    PROVE  RolloutInv' /\ Turn(c, RolloutAwaits)
<1> PICK d, f : d = call[c].doc /\ f = call[c].file
    OBVIOUS
<1>1. /\ UNCHANGED <<docs, kept, objects, columns, passed, astray>> /\ UNCHANGED rolloutRows
      /\ call[c].at = "reading-file" /\ Reviewing(c)
    BY DEF ReadFile, At, Reviewing, rolloutRows
<1>2. /\ call[c].at \in ReviewAwaits /\ call[c].at \in RolloutAwaits /\ d \in Docs /\ columns
      /\ call[c].file = docs[d].link /\ docs[d].verdict = call[c].verdict
      /\ \A g \in FileIds : Reachable(g) /\ kept[g].doc = d => g = f
      /\ \A b \in Calls \ {c} : Reviewing(b) => call[b].doc # d
    BY <1>1, ReviewerKnows
<1>3. ASSUME NEW await \in {"reviewing-file", "taking-back"}, Goto(c, await), f # NULL
      PROVE  RolloutInv' /\ Turn(c, RolloutAwaits)
    <2>1. /\ Turn(c, RolloutAwaits) /\ call'[c].at = await /\ call'[c].doc = d
          /\ call'[c].file = f /\ call'[c].verdict = call[c].verdict
        BY <1>2, <1>3, ReviewMoved DEF ReviewAwaits
    <2>2. RolloutHolds(c)' /\ Reviewing(c)'
        BY <1>1, <1>2, <1>3, <2>1 DEF RolloutHolds, Reviewing, At
    <2> QED
        BY <1>1, <2>1, <2>2, RolloutLook
<1>4. ASSUME End(c), f = NULL \/ kept[f].status = FileStatus(call[c].verdict)
      PROVE  RolloutInv' /\ Turn(c, RolloutAwaits)
    <2>1. Turn(c, RolloutAwaits) /\ ~Of(c, RolloutAwaits)' /\ ~Reviewing(c)'
        BY <1>2, <1>4, RolloutEnded DEF Of, RolloutAwaits, Reviewing
    <2>2. \A g \in FileIds : Reachable(g)' /\ kept[g].doc = d => Tidy(g)'
        <3> SUFFICES ASSUME NEW g \in FileIds, Reachable(g)', kept[g].doc = d PROVE Tidy(g)'
            OBVIOUS
        <3>1. Reachable(g)
            BY <1>1 DEF Reachable
        <3>2. g = f /\ f # NULL
            BY <1>2, <3>1
        <3> QED
            BY <1>1, <1>2, <1>4, <3>2 DEF Tidy
    <2>3. Kept /\ RolloutTypeOK'
        BY <1>1 DEF Kept, RolloutInv, RolloutTypeOK, FilesInv
    <2> QED
        BY <1>1, <1>2, <2>1, <2>2, <2>3, ReviewWrites
<1> QED
    BY <1>3, <1>4 DEF ReadFile

\* The file is given the status of the verdict, or the verdict will be taken back.
LEMMA ReviewFileInv ==
    ASSUME FramesOK, RolloutInv, NEW c \in Calls, ReviewFile(c)
    PROVE  RolloutInv' /\ Turn(c, RolloutAwaits)
<1> PICK d, f, v : d = call[c].doc /\ f = call[c].file /\ v = call[c].verdict
    OBVIOUS
<1>1. /\ UNCHANGED <<docs, objects, columns, passed, astray>>
      /\ call[c].at = "reviewing-file" /\ Reviewing(c)
    BY DEF ReviewFile, At, Reviewing
<1>2. /\ call[c].at \in ReviewAwaits /\ call[c].at \in RolloutAwaits /\ d \in Docs /\ columns
      /\ call[c].file = docs[d].link /\ docs[d].verdict = v
      /\ f \in FileIds /\ kept[f] # NULL /\ kept[f] \in FileRows /\ kept[f].doc = d /\ f # NULL
      /\ \A g \in FileIds : Reachable(g) /\ kept[g].doc = d => g = f
      /\ \A b \in Calls \ {c} : Reviewing(b) => call[b].doc # d
    BY <1>1, ReviewerKnows
<1>3. /\ Kept /\ RolloutTypeOK'
      /\ \A g \in FileIds : kept[g] # NULL /\ kept[g].doc # d => kept'[g].status = kept[g].status
      /\ End(c) => kept'[f].status = FileStatus(v)
    <2>1. CASE UNCHANGED kept /\ ~End(c)
        BY <1>1, <2>1 DEF Kept, RolloutInv, RolloutTypeOK, FilesInv
    <2>2. CASE kept' = [kept EXCEPT ![f].status = FileStatus(v)]
        <3> PICK was, row : was = kept[f] /\ row = [kept[f] EXCEPT !.status = FileStatus(v)]
            OBVIOUS
        <3>1. FileStatus(v) \in {"QUARANTINED", "ACTIVE", "FAILED"}
            BY DEF FileStatus
        <3>2. /\ row \in FileRows /\ row.object = was.object /\ row.doc = was.doc
              /\ row.sized = was.sized /\ row.status = FileStatus(v)
            BY <1>2, <3>1 DEF FileRows
        <3>3. kept' = [kept EXCEPT ![f] = row]
            BY <1>2, <2>2 DEF RolloutInv, RolloutTypeOK
        <3>4. /\ Kept /\ kept' \in [FileIds -> FileRows \cup {NULL}]
              /\ \A g \in FileIds : kept'[g] = IF g = f THEN row ELSE kept[g]
            BY <1>1, <1>2, <3>2, <3>3, FileWritten
        <3> QED
            BY <1>1, <1>2, <3>2, <3>4 DEF RolloutInv, RolloutTypeOK
    <2>3. UNCHANGED kept => Goto(c, "taking-back") \/ kept' = [kept EXCEPT ![f].status = FileStatus(v)]
        BY DEF ReviewFile
    <2>4. Goto(c, "taking-back") => ~End(c)
        BY <1>2, ReviewMoved, RolloutEnded DEF ReviewAwaits
    <2> QED
        BY <2>1, <2>2, <2>3, <2>4 DEF ReviewFile
<1>4. CASE Goto(c, "taking-back")
    <2>1. /\ Turn(c, RolloutAwaits) /\ call'[c].at = "taking-back" /\ call'[c].doc = d
          /\ call'[c].file = f /\ call'[c].verdict = v
        BY <1>2, <1>4, ReviewMoved DEF ReviewAwaits
    <2>2. RolloutHolds(c)' /\ Reviewing(c)'
        BY <1>1, <1>2, <2>1 DEF RolloutHolds, Reviewing, At
    <2>3. \A g \in FileIds : Reachable(g)' /\ kept[g].doc = d => Tidy(g)'
        BY <1>2, <1>3, <2>1, <2>2, Excused
    <2> QED
        BY <1>1, <1>2, <1>3, <2>1, <2>2, <2>3, ReviewWrites
<1>5. CASE End(c)
    <2>1. Turn(c, RolloutAwaits) /\ ~Of(c, RolloutAwaits)' /\ ~Reviewing(c)'
        BY <1>2, <1>5, RolloutEnded DEF Of, RolloutAwaits, Reviewing
    <2>2. \A g \in FileIds : Reachable(g)' /\ kept[g].doc = d => Tidy(g)'
        <3> SUFFICES ASSUME NEW g \in FileIds, Reachable(g)', kept[g].doc = d PROVE Tidy(g)'
            OBVIOUS
        <3>1. Reachable(g) /\ kept'[g].doc = d
            BY <1>1, <1>3 DEF Reachable, Kept
        <3>2. g = f
            BY <1>2, <3>1
        <3> QED
            BY <1>1, <1>2, <1>3, <1>5, <3>1, <3>2 DEF Tidy
    <2> QED
        BY <1>1, <1>2, <1>3, <2>1, <2>2, ReviewWrites
<1> QED
    BY <1>4, <1>5 DEF ReviewFile

\* A verdict that is taken back leaves a file in quarantine, or else the document is astray.
LEMMA TakeBackInv ==
    ASSUME FramesOK, RolloutInv, NEW c \in Calls, TakeBack(c)
    PROVE  RolloutInv' /\ Turn(c, RolloutAwaits)
<1> PICK d, f : d = call[c].doc /\ f = call[c].file
    OBVIOUS
<1>1. /\ UNCHANGED <<kept, objects, columns, passed>>
      /\ call[c].at = "taking-back" /\ Reviewing(c) /\ End(c)
    BY DEF TakeBack, At, Reviewing
<1>2. /\ call[c].at \in ReviewAwaits /\ call[c].at \in RolloutAwaits /\ d \in Docs
      /\ \A g \in FileIds : Reachable(g) /\ kept[g].doc = d => g = f
      /\ \A b \in Calls \ {c} : Reviewing(b) => call[b].doc # d
    BY <1>1, ReviewerKnows
<1>3. Turn(c, RolloutAwaits) /\ ~Of(c, RolloutAwaits)' /\ ~Reviewing(c)'
    BY <1>1, <1>2, RolloutEnded DEF Of, RolloutAwaits, Reviewing
<1>4. /\ astray' = astray \/ astray' = astray \cup {d}
      /\ \/ docs' = [docs EXCEPT ![d].verdict = "pending"]
         \/ UNCHANGED docs /\ astray' = astray \cup {d}
      /\ astray' = astray \cup {d} \/ kept[f].status = "QUARANTINED"
    BY DEF TakeBack, GoneAstray
<1>5. astray' \subseteq Docs /\ astray \subseteq astray'
    BY <1>2, <1>4 DEF RolloutInv, RolloutTypeOK
<1>6. /\ Kept /\ RolloutTypeOK'
      /\ \A e \in Docs \ {d} : docs'[e].verdict = docs[e].verdict
      /\ docs'[d].verdict = "pending" \/ d \in astray'
    <2>1. CASE docs' = [docs EXCEPT ![d].verdict = "pending"]
        BY <1>1, <1>2, <1>5, <2>1, VerdictWritten DEF Verdicts
    <2>2. CASE UNCHANGED docs /\ astray' = astray \cup {d}
        BY <1>1, <1>5, <2>2 DEF Kept, RolloutInv, RolloutTypeOK, FilesInv
    <2> QED
        BY <1>4, <2>1, <2>2
<1>7. \A g \in FileIds : Reachable(g)' /\ kept[g].doc = d => Tidy(g)'
    <2>1. CASE d \in astray'
        BY <1>2, <1>6, <2>1, Excused
    <2>2. CASE d \notin astray'
        <3> SUFFICES ASSUME NEW g \in FileIds, Reachable(g)', kept[g].doc = d PROVE Tidy(g)'
            OBVIOUS
        <3>1. docs'[d].verdict = "pending" /\ kept[f].status = "QUARANTINED"
            BY <1>4, <1>6, <2>2
        <3>2. Reachable(g) /\ kept'[g].doc = d
            BY <1>1, <1>2, <1>6 DEF Reachable, Kept
        <3>3. g = f
            BY <1>2, <3>2
        <3>4. FileStatus("pending") = "QUARANTINED"
            BY DEF FileStatus
        <3> QED
            BY <1>1, <3>1, <3>2, <3>3, <3>4 DEF Tidy
    <2> QED
        BY <2>1, <2>2
<1> QED
    BY <1>1, <1>2, <1>3, <1>5, <1>6, <1>7, ReviewWrites

LEMMA RolloutStepInv ==
    ASSUME FramesOK, RolloutInv, NEW c \in Calls, RolloutStep(c)
    PROVE  RolloutInv' /\ Turn(c, RolloutAwaits)
<1>1. CASE \/ Apply(c) \/ Finalize(c) \/ Verify(c) \/ ReviewDocument(c)
           \/ LoadCandidates(c) \/ LoadLinked(c)
    BY <1>1, RolloutStarts, RolloutLoads
<1>2. CASE \/ Blocked(c) \/ FinishApply(c) \/ FinishFinalize(c)
           \/ CrashRollout(c) \/ DownloadRetained(c) \/ FindLinked(c)
    BY <1>2, RolloutPasses, CrashRolloutInv, RolloutTakes
<1>3. CASE VerifySource(c) \/ VerifyAttachments(c) \/ VerifyMetadata(c)
    BY <1>3, VerifySourceInv, VerifyAttachmentsInv, VerifyMetadataInv
<1>4. CASE Hydrate(c) \/ CopyExternal(c) \/ LinkCopy(c) \/ RemoveCopy(c) \/ ClearSource(c)
    BY <1>4, HydrateInv, CopyExternalInv, LinkCopyInv, RemoveCopyInv, ClearSourceInv
<1>5. CASE FindDocument(c) \/ DecideDocument(c) \/ ReadFile(c) \/ ReviewFile(c) \/ TakeBack(c)
    BY <1>5, FindDocumentInv, DecideDocumentInv, ReadFileInv, ReviewFileInv, TakeBackInv
<1> QED
    BY <1>1, <1>2, <1>3, <1>4, <1>5 DEF RolloutStep

-----------------------------------------------------------------------------
(* The rollout: the migration *)

\* Where nobody is at work, what is left to keep is about the tables.
LEMMA RolloutAlone ==
    ASSUME Quiet, UNCHANGED call, RolloutTypeOK', FilesInv', TidyInv', PassedInv'
    PROVE  RolloutInv'
<1>1. \A c \in Calls : call'[c].at = "idle"
    BY DEF Quiet, At
<1> QED
    BY <1>1 DEF RolloutInv, Of, RolloutAwaits, OneReviewer, Reviewing

LEMMA RevertDocumentsInv ==
    ASSUME RolloutInv, RevertDocuments
    PROVE  RolloutInv'
<1>1. /\ UNCHANGED <<call, kept, objects, astray>> /\ Quiet
      /\ docs' = [d \in Docs |-> [docs[d] EXCEPT !.link = NULL]]
      /\ columns' = FALSE /\ passed' = FALSE
    BY DEF RevertDocuments, LeftByDown
<1>2. docs \in [Docs -> DocRows]
    BY DEF RolloutInv, RolloutTypeOK, DocRows
<1>3. ASSUME NEW d \in Docs
      PROVE  /\ docs'[d] \in DocRows /\ docs'[d].link = NULL /\ docs'[d].source = docs[d].source
             /\ docs'[d].verdict = docs[d].verdict
    <2> PICK was : was = docs[d]
        OBVIOUS
    <2>1. was \in DocRows /\ docs'[d] = [was EXCEPT !.link = NULL]
        BY <1>1, <1>2
    <2> QED
        BY <2>1 DEF DocRows
<1>4. RolloutTypeOK'
    <2>1. docs' \in [Docs -> DocRows]
        BY <1>1, <1>3
    <2> QED
        BY <1>1, <2>1 DEF RolloutInv, RolloutTypeOK, DocRows
<1>5. FilesInv' /\ PassedInv'
    BY <1>1, <1>3 DEF RolloutInv, FilesInv, PassedInv
<1>6. TidyInv'
    <2> SUFFICES ASSUME NEW f \in FileIds, Reachable(f)' PROVE Tidy(f)'
        BY DEF TidyInv
    <2>1. kept[f] # NULL /\ kept[f].doc \in Docs
        BY <1>1 DEF Reachable, RolloutInv, FilesInv
    <2>2. Reachable(f)
        BY <1>1, <1>3, <2>1 DEF Reachable
    <2>3. Tidy(f) /\ (UnderReview(kept[f].doc) => UnderReview(kept[f].doc)')
        BY <1>1, <2>2 DEF RolloutInv, TidyInv, UnderReview, Reviewing
    <2> QED
        BY <1>1, <1>3, <2>1, <2>3 DEF Tidy
<1> QED
    BY <1>1, <1>4, <1>5, <1>6, RolloutAlone

\* The migration links every path to one file, its own, which it writes if there is none.
LEMMA MigrateDocumentsInv ==
    ASSUME RolloutInv, MigrateDocuments
    PROVE  RolloutInv'
<1>1. PICK id \in [ToLink -> FileIds] :
        /\ \A d, e \in ToLink : id[d] = id[e] => d = e
        /\ \A d \in ToLink : IF FileOfPath(d) = {} THEN kept[id[d]] = NULL /\ id[d] \notin objects
                                                  ELSE id[d] \in FileOfPath(d)
        /\ kept' = Inserted(id)
        /\ docs' = [d \in Docs |-> IF d \in ToLink THEN [docs[d] EXCEPT !.link = id[d]]
                                                  ELSE docs[d]]
    BY DEF MigrateDocuments
<1>2. UNCHANGED <<call, objects, passed, astray>> /\ columns' = TRUE /\ Quiet
    BY DEF MigrateDocuments
<1>3. docs \in [Docs -> DocRows] /\ kept \in [FileIds -> FileRows \cup {NULL}] /\ FilesInv
    BY DEF RolloutInv, RolloutTypeOK, DocRows
<1>4. /\ ToLink \subseteq Docs \ External
      /\ \A d \in ToLink : docs[d].link = NULL /\ docs[d].source = "set" /\ id[d] \in FileIds
    BY DEF ToLink
<1>5. ASSUME NEW d \in ToLink
      PROVE  /\ docs'[d] \in DocRows /\ docs'[d].link = id[d] /\ docs'[d].source = docs[d].source
             /\ docs'[d].verdict = docs[d].verdict
    <2> PICK was, row, f : was = docs[d] /\ row = [docs[d] EXCEPT !.link = id[d]] /\ f = id[d]
        OBVIOUS
    <2>1. was \in DocRows /\ f \in FileIds /\ docs'[d] = row /\ row = [was EXCEPT !.link = f]
        BY <1>1, <1>3, <1>4
    <2>2. row \in DocRows /\ row.link = f /\ row.source = was.source /\ row.verdict = was.verdict
        BY <2>1 DEF DocRows
    <2> QED
        BY <2>1, <2>2
<1>6. \A d \in Docs \ ToLink : docs'[d] = docs[d]
    BY <1>1
<1>7. /\ docs' \in [Docs -> DocRows]
      /\ \A d \in Docs : docs'[d].source = docs[d].source /\ docs'[d].verdict = docs[d].verdict
    BY <1>1, <1>3, <1>4, <1>5, <1>6
<1>8. ASSUME NEW d \in ToLink, FileOfPath(d) = {}
      PROVE  /\ kept[id[d]] = NULL
             /\ kept'[id[d]] \in FileRows /\ kept'[id[d]].object = d /\ kept'[id[d]].doc = d
             /\ kept'[id[d]].status = FileStatus(docs[d].verdict)
    <2> PICK f : f = id[d]
        OBVIOUS
    <2>1. f \in FileIds /\ kept[f] = NULL
        BY <1>1, <1>4, <1>8
    <2>2. (CHOOSE e \in ToLink : id[e] = f) = d
        BY <1>1
    <2>3. kept'[f] = [object |-> d, doc |-> d, status |-> FileStatus(docs[d].verdict), sized |-> FALSE]
        BY <1>1, <1>8, <2>1, <2>2 DEF Inserted
    <2>4. FileStatus(docs[d].verdict) \in {"QUARANTINED", "ACTIVE", "FAILED"}
        BY DEF FileStatus
    <2>5. /\ kept'[f] \in FileRows /\ kept'[f].object = d /\ kept'[f].doc = d
          /\ kept'[f].status = FileStatus(docs[d].verdict)
        BY <1>4, <2>3, <2>4 DEF FileRows
    <2> QED
        BY <2>1, <2>5
<1>9. \A f \in FileIds :
        \/ kept'[f] = kept[f]
        \/ \E d \in ToLink : FileOfPath(d) = {} /\ id[d] = f
    BY <1>1 DEF Inserted
<1>10. \A f \in FileIds : kept[f] # NULL => kept'[f] = kept[f]
    BY <1>8, <1>9
<1>11. kept' \in [FileIds -> FileRows \cup {NULL}]
    <2>1. \A f \in FileIds : kept'[f] \in FileRows \cup {NULL}
        BY <1>3, <1>8, <1>9
    <2> QED
        BY <1>1, <2>1 DEF Inserted
<1>12. \A d \in Docs : docs[d].link \in FileIds \cup {NULL}
    BY <1>3 DEF DocRows
<1>13. \A d \in ToLink : kept'[id[d]] # NULL /\ kept'[id[d]].doc = d
    <2> SUFFICES ASSUME NEW d \in ToLink PROVE kept'[id[d]] # NULL /\ kept'[id[d]].doc = d
        OBVIOUS
    <2>1. CASE FileOfPath(d) = {}
        BY <1>8, <2>1
    <2>2. CASE FileOfPath(d) # {}
        <3>1. id[d] \in FileIds /\ kept[id[d]] # NULL /\ kept[id[d]].object = d
            BY <1>1, <2>2 DEF FileOfPath
        <3> QED
            BY <1>3, <1>10, <3>1 DEF FilesInv
    <2> QED
        BY <2>1, <2>2
\* A file is new, and then that of its document alone, or it was there.
<1>14. ASSUME NEW f \in FileIds, kept'[f] # NULL
       PROVE  \/ kept[f] # NULL /\ kept'[f] = kept[f]
              \/ \E d \in ToLink :
                   /\ FileOfPath(d) = {} /\ id[d] = f /\ kept'[f].object = d /\ kept'[f].doc = d
                   /\ kept'[f].status = FileStatus(docs[d].verdict) /\ docs'[d].link = f
    <2>1. CASE kept[f] # NULL
        BY <1>10, <2>1
    <2>2. CASE kept[f] = NULL
        <3>1. PICK d \in ToLink : FileOfPath(d) = {} /\ id[d] = f
            BY <1>9, <1>14, <2>2
        <3> QED
            BY <1>5, <1>8, <3>1
    <2> QED
        BY <2>1, <2>2
<1>15. RolloutTypeOK'
    BY <1>2, <1>7, <1>11 DEF RolloutInv, RolloutTypeOK, DocRows
<1>16. FilesInv'
    <2>1. ASSUME NEW d \in Docs, docs'[d].link # NULL
          PROVE  kept'[docs'[d].link] # NULL /\ kept'[docs'[d].link].doc = d
        <3>1. CASE d \in ToLink
            BY <1>5, <1>13, <3>1
        <3>2. CASE d \notin ToLink
            BY <1>3, <1>6, <1>10, <1>12, <2>1, <3>2 DEF FilesInv
        <3> QED
            BY <3>1, <3>2
    <2>2. ASSUME NEW f \in FileIds, kept'[f] # NULL
          PROVE  kept'[f].object = kept'[f].doc /\ kept'[f].doc \in Docs \ External
        BY <1>3, <1>4, <1>14, <2>2 DEF FilesInv
    <2>3. ASSUME NEW f \in FileIds, NEW g \in FileIds, kept'[f] # NULL, kept'[g] # NULL,
                 kept'[f].doc = kept'[g].doc
          PROVE  f = g
        <3>1. CASE kept[f] # NULL /\ kept[g] # NULL
            BY <1>3, <1>10, <2>3, <3>1 DEF FilesInv
        <3>2. ASSUME NEW h \in FileIds, NEW d \in ToLink, FileOfPath(d) = {}, kept[h] # NULL
              PROVE  kept[h].doc # d
            BY <1>3, <3>2 DEF FilesInv, FileOfPath
        <3>3. CASE kept[f] = NULL
            <4>1. PICK d \in ToLink : FileOfPath(d) = {} /\ id[d] = f /\ kept'[f].doc = d
                BY <1>14, <2>3, <3>3
            <4>2. PICK e \in ToLink : id[e] = g /\ kept'[g].doc = e
                BY <1>14, <2>3, <3>2, <4>1
            <4> QED
                BY <2>3, <4>1, <4>2
        <3>4. CASE kept[g] = NULL
            <4>1. PICK d \in ToLink : FileOfPath(d) = {} /\ id[d] = g /\ kept'[g].doc = d
                BY <1>14, <2>3, <3>4
            <4>2. PICK e \in ToLink : id[e] = f /\ kept'[f].doc = e
                BY <1>14, <2>3, <3>2, <4>1
            <4> QED
                BY <2>3, <4>1, <4>2
        <3> QED
            BY <3>1, <3>3, <3>4
    <2>4. Docs \ External \subseteq objects'
        BY <1>2, <1>3 DEF FilesInv
    <2>5. ASSUME NEW d \in Docs \ External, docs'[d].source = NULL
          PROVE  \E f \in FileIds : kept'[f] # NULL /\ kept'[f].doc = d
        <3>1. PICK f \in FileIds : kept[f] # NULL /\ kept[f].doc = d
            BY <1>3, <1>7, <2>5 DEF FilesInv
        <3> QED
            BY <1>10, <3>1
    <2>6. ASSUME NEW d \in Docs \ External, docs'[d].link = NULL PROVE docs'[d].source = NULL
        <3>1. d \notin ToLink /\ docs'[d] = docs[d]
            BY <1>4, <1>5, <1>6, <2>6
        <3>2. docs[d].source \in {"set", NULL}
            BY <1>3 DEF DocRows
        <3> QED
            BY <2>6, <3>1, <3>2 DEF ToLink
    <2> QED
        BY <2>1, <2>2, <2>3, <2>4, <2>5, <2>6 DEF FilesInv
<1>17. TidyInv'
    <2> SUFFICES ASSUME NEW f \in FileIds, Reachable(f)' PROVE Tidy(f)'
        BY DEF TidyInv
    <2>1. kept'[f] # NULL
        BY DEF Reachable
    <2>2. CASE kept[f] # NULL /\ kept'[f] = kept[f]
        <3> PICK d : d = kept[f].doc
            OBVIOUS
        <3>1. d \in Docs
            BY <1>3, <2>2 DEF FilesInv
        <3>2. docs'[d].link = f \/ docs'[d].source = "set"
            BY <2>2 DEF Reachable
        <3>3. Reachable(f)
            <4>1. CASE d \in ToLink
                BY <1>4, <2>2, <4>1 DEF Reachable
            <4>2. CASE d \notin ToLink
                BY <1>6, <2>2, <3>1, <3>2, <4>2 DEF Reachable
            <4> QED
                BY <4>1, <4>2
        <3>4. Tidy(f) /\ (UnderReview(d) => UnderReview(d)')
            BY <1>2, <3>3 DEF RolloutInv, TidyInv, UnderReview, Reviewing
        <3> QED
            BY <1>2, <1>7, <2>2, <3>1, <3>4 DEF Tidy
    <2>3. ASSUME NEW d \in ToLink, kept'[f].doc = d, kept'[f].status = FileStatus(docs[d].verdict)
          PROVE  Tidy(f)'
        BY <1>4, <1>7, <2>3 DEF Tidy
    <2> QED
        BY <1>14, <2>1, <2>2, <2>3
<1>18. PassedInv'
    <2> SUFFICES ASSUME passed, NEW d \in Docs
                 PROVE  CutOver(d)' /\ (d \notin External => kept'[docs'[d].link].sized)
        BY <1>2 DEF PassedInv
    <2>1. CutOver(d) /\ (d \notin External => kept[docs[d].link].sized)
        BY DEF RolloutInv, PassedInv
    <2>2. d \notin ToLink
        BY <1>3, <1>4, <2>1 DEF CutOver
    <2>3. docs[d].link # NULL => kept'[docs[d].link] = kept[docs[d].link]
        BY <1>3, <1>10, <1>12 DEF FilesInv
    <2> QED
        BY <1>6, <2>1, <2>2, <2>3 DEF CutOver
<1> QED
    BY <1>2, <1>15, <1>16, <1>17, <1>18, RolloutAlone

LEMMA RolloutAroundInv ==
    ASSUME FramesOK, RolloutInv, RolloutAround
    PROVE  RolloutInv' /\ FramesOK' /\ UNCHANGED call
<1>1. UNCHANGED call
    BY DEF RolloutAround, MigrateDocuments, RevertDocuments
<1>2. FramesOK'
    BY <1>1 DEF FramesOK
<1> QED
    BY <1>1, <1>2, MigrateDocumentsInv, RevertDocumentsInv DEF RolloutAround

LEMMA RolloutRest ==
    ASSUME RolloutInv, UNCHANGED rolloutRows, Elsewhere(RolloutAwaits)
    PROVE  RolloutInv'
<1>1. UNCHANGED <<docs, kept, objects, columns, passed, astray>>
    BY DEF rolloutRows
<1>2. RolloutTypeOK' /\ FilesInv'
    BY <1>1 DEF RolloutInv, RolloutTypeOK, FilesInv
<1>3. PassedInv'
    BY <1>1 DEF RolloutInv, PassedInv, CutOver
<1>4. \A c \in Calls : Of(c, RolloutAwaits) \/ Of(c, RolloutAwaits)' => call'[c] = call[c]
    BY DEF Elsewhere
<1>5. \A c \in Calls :
        /\ Reviewing(c) => Reviewing(c)' /\ call'[c] = call[c]
        /\ Reviewing(c)' => Reviewing(c) /\ call'[c] = call[c]
    BY <1>4 DEF Of, Reviewing, RolloutAwaits
<1>6. TidyInv'
    BY <1>1, <1>5 DEF RolloutInv, TidyInv, Tidy, Reachable, UnderReview
<1>7. OneReviewer'
    BY <1>5 DEF RolloutInv, OneReviewer
<1>8. ASSUME NEW c \in Calls, Of(c, RolloutAwaits)' PROVE RolloutHolds(c)'
    <2>1. call'[c] = call[c] /\ Of(c, RolloutAwaits)
        BY <1>4, <1>8 DEF Of
    <2>2. RolloutHolds(c)
        BY <2>1 DEF RolloutInv
    <2>3. \A d : Row(c, d)' = Row(c, d)
        BY <2>1 DEF Row
    <2> QED
        BY <1>1, <2>1, <2>2, <2>3 DEF RolloutHolds, Reviewing, At, CutOver
<1> QED
    BY <1>2, <1>3, <1>6, <1>7, <1>8 DEF RolloutInv

LEMMA RolloutInit1 ==
    ASSUME HandlersInit, RolloutInit
    PROVE  RolloutInv
<1>1. \A c \in Calls : call[c].at = "idle"
    BY DEF HandlersInit, Idle
<1>2. RolloutTypeOK
    BY DEF RolloutInit, RolloutTypeOK, Verdicts
<1>3. FilesInv
    BY DEF RolloutInit, FilesInv
<1>4. TidyInv /\ PassedInv
    BY DEF RolloutInit, TidyInv, PassedInv, Reachable
<1> QED
    BY <1>1, <1>2, <1>3, <1>4 DEF RolloutInv, Of, RolloutAwaits, OneReviewer, Reviewing

-----------------------------------------------------------------------------
(* The rollout: what follows *)

LEMMA RolloutImplies ==
    ASSUME RolloutInv
    PROVE  GateHolds
<1> SUFFICES ASSUME passed, NEW d \in Docs
             PROVE  /\ docs[d].source = NULL
                    /\ d \notin External =>
                         /\ docs[d].link # NULL
                         /\ LET file == kept[docs[d].link] IN
                              /\ file.doc = d /\ file.object = d /\ file.sized
                              /\ \/ file.status = FileStatus(docs[d].verdict)
                                 \/ d \in astray
                                 \/ \E c \in Calls : Reviewing(c) /\ call[c].doc = d
    BY DEF GateHolds
<1>1. CutOver(d) /\ (d \notin External => kept[docs[d].link].sized)
    BY DEF RolloutInv, PassedInv
<1>2. ASSUME d \notin External
      PROVE  LET file == kept[docs[d].link] IN
                 /\ file.doc = d /\ file.object = d
                 /\ \/ file.status = FileStatus(docs[d].verdict)
                    \/ d \in astray
                    \/ \E c \in Calls : Reviewing(c) /\ call[c].doc = d
    <2> PICK f : f = docs[d].link
        OBVIOUS
    <2>1. f \in FileIds /\ kept[f] # NULL /\ kept[f].doc = d /\ kept[f].object = d
        BY <1>1, <1>2 DEF CutOver, RolloutInv, RolloutTypeOK, FilesInv
    <2>2. Tidy(f)
        BY <2>1 DEF RolloutInv, TidyInv, Reachable
    <2> QED
        BY <2>1, <2>2 DEF Tidy, UnderReview
<1> QED
    BY <1>1, <1>2 DEF CutOver

\* A path stays findable by its invariant; of an external document no step clears the
\* source, since its row has no link.
LEMMA FindableStays ==
    ASSUME RolloutInv, RolloutInv', NEW d \in Docs, Findable(d),
           d \in External => docs'[d].source = docs[d].source
    PROVE  Findable(d)'
<1>1. CASE d \in External
    <2>1. docs[d].source = "set"
        BY <1>1 DEF Findable, RolloutInv, FilesInv
    <2> QED
        BY <1>1, <2>1 DEF Findable
<1>2. CASE d \notin External
    <2>1. d \in objects' /\ docs'[d].source \in {"set", NULL}
        BY <1>2 DEF RolloutInv, FilesInv, RolloutTypeOK
    <2>2. docs'[d].source = NULL =>
            \E f \in FileIds : kept'[f] # NULL /\ kept'[f].doc = d /\ kept'[f].object = d
        BY <1>2 DEF RolloutInv, FilesInv
    <2> QED
        BY <2>1, <2>2 DEF Findable
<1> QED
    BY <1>1, <1>2

\* No step changes the source of an external document.
LEMMA ExternalStays ==
    ASSUME FramesOK, RolloutInv, NEW d \in External,
           (\E c \in Calls : RolloutStep(c)) \/ RolloutAround
    PROVE  docs'[d].source = docs[d].source
<1>1. docs \in [Docs -> DocRows] /\ d \in Docs /\ docs[d].link = NULL
    BY DEF RolloutInv, RolloutTypeOK, FilesInv, DocRows
<1>2. ASSUME NEW row \in DocRows, NEW x
      PROVE  [row EXCEPT !.link = x].source = row.source /\ [row EXCEPT !.verdict = x].source = row.source
    BY DEF DocRows
<1>3. ASSUME NEW e, NEW x, docs' = [docs EXCEPT ![e].verdict = x]
      PROVE  docs'[d].source = docs[d].source
    <2> PICK row : row = [docs[d] EXCEPT !.verdict = x]
        OBVIOUS
    <2>1. row.source = docs[d].source
        BY <1>1, <1>2
    <2>2. docs'[d] = IF e = d THEN row ELSE docs[d]
        BY <1>1, <1>3
    <2> QED
        BY <2>1, <2>2
<1>4. ASSUME NEW c \in Calls, RolloutStep(c), ~ClearSource(c)
      PROVE  UNCHANGED docs \/ \E e, x : docs' = [docs EXCEPT ![e].verdict = x]
    <2>1. CASE \/ Apply(c) \/ Finalize(c) \/ Verify(c) \/ ReviewDocument(c)
               \/ LoadCandidates(c) \/ LoadLinked(c) \/ FindDocument(c) \/ ReadFile(c)
               \/ Blocked(c) \/ FinishApply(c) \/ FinishFinalize(c) \/ LinkCopy(c)
               \/ DownloadRetained(c) \/ FindLinked(c) \/ VerifyAttachments(c)
        BY <2>1 DEF Apply, Finalize, Verify, ReviewDocument, LoadCandidates, LoadLinked, FindDocument,
                    ReadFile, Blocked, FinishApply, FinishFinalize, LinkCopy, DownloadRetained,
                    FindLinked, VerifyAttachments, rolloutRows
    <2>2. CASE \/ CrashRollout(c) \/ VerifySource(c) \/ VerifyMetadata(c) \/ Hydrate(c)
               \/ CopyExternal(c) \/ RemoveCopy(c) \/ ReviewFile(c)
        BY <2>2 DEF CrashRollout, VerifySource, VerifyMetadata, Hydrate, CopyExternal, RemoveCopy,
                    ReviewFile
    <2>3. CASE DecideDocument(c) \/ TakeBack(c)
        BY <2>3 DEF DecideDocument, TakeBack
    <2> QED
        BY <1>4, <2>1, <2>2, <2>3 DEF RolloutStep
<1>5. ASSUME NEW c \in Calls, ClearSource(c) PROVE docs'[d].source = docs[d].source
    <2>1. call[c].at = "clearing"
        BY <1>5 DEF ClearSource, At
    <2>2. call[c].doc \in Docs /\ Row(c, call[c].doc).link # NULL
        BY <2>1, ColumnsThere DEF RolloutHolds, RolloutAwaits
    <2>3. LinkedAsRead(c, call[c].doc) => call[c].doc # d
        BY <1>1, <2>2 DEF LinkedAsRead
    <2>4. docs' = IF LinkedAsRead(c, call[c].doc) THEN [docs EXCEPT ![call[c].doc].source = NULL]
                                                  ELSE docs
        BY <1>5 DEF ClearSource
    <2> QED
        BY <1>1, <2>3, <2>4
<1>6. CASE MigrateDocuments
    <2>1. PICK id : docs' = [e \in Docs |-> IF e \in ToLink THEN [docs[e] EXCEPT !.link = id[e]]
                                                            ELSE docs[e]]
        BY <1>6 DEF MigrateDocuments
    <2>2. d \notin ToLink
        BY DEF ToLink
    <2> QED
        BY <1>1, <2>1, <2>2
<1>7. CASE RevertDocuments
    BY <1>1, <1>2, <1>7 DEF RevertDocuments
<1> QED
    BY <1>3, <1>4, <1>5, <1>6, <1>7 DEF RolloutAround

-----------------------------------------------------------------------------
(* The seeds: the plan *)

\* Of a set of positions one is the first.
LEMMA FirstOfSome ==
    ASSUME NEW S, S \subseteq Nat, S # {}
    PROVE  \E m \in S : \A n \in S : m <= n
<1>1. PICK m \in S : \A n \in S : ~(<<n, m>> \in OpToRel(<, Nat))
    BY NatLessThanWellFounded, WFMin
<1>2. \A n \in S : ~(n < m)
    BY <1>1 DEF OpToRel
<1>3. \A n \in S : n \in Nat /\ m \in Nat
    OBVIOUS
<1> QED
    BY <1>2, <1>3

LEMMA Positions ==
    ASSUME NEW g \in Groups
    PROVE  Position(g) \in 1..10
<1>1. /\ DOMAIN ById = 1..10
      /\ ById[1] = "packages" /\ ById[2] = "members" /\ ById[3] = "provinces"
      /\ ById[4] = "products" /\ ById[5] = "categories" /\ ById[6] = "test-products"
      /\ ById[7] = "profiles" /\ ById[8] = "reviews" /\ ById[9] = "users"
      /\ ById[10] = "test-users"
    BY DEF ById
<1>2. \E i \in DOMAIN ById : ById[i] = g
    BY <1>1 DEF Groups
<1> QED
    BY <1>1, <1>2 DEF Position

\* What is left to do has a group whose dependencies are done.
LEMMA SomeReady ==
    ASSUME NEW todo \in SUBSET Groups, NEW done, todo # {},
           \A h \in todo : DependenciesOf[h] \subseteq todo \cup done
    PROVE  \E h \in todo : DependenciesOf[h] \subseteq done
<1>1. /\ DependenciesOf["packages"] = {} /\ DependenciesOf["provinces"] = {}
      /\ DependenciesOf["categories"] = {} /\ DependenciesOf["users"] = {}
      /\ DependenciesOf["test-users"] = {}
      /\ DependenciesOf["profiles"] = {"users"} /\ DependenciesOf["members"] = {"users"}
      /\ DependenciesOf["products"] = {"categories", "users"}
      /\ DependenciesOf["reviews"] = {"users", "products"}
      /\ DependenciesOf["test-products"] = {"test-users"}
    BY DEF DependenciesOf, Groups
<1>2. CASE \E h \in {"packages", "provinces", "categories", "users", "test-users"} : h \in todo
    BY <1>1, <1>2
<1>3. CASE \A h \in {"packages", "provinces", "categories", "users", "test-users"} : h \notin todo
    <2>1. CASE \E h \in {"profiles", "members", "products", "test-products"} : h \in todo
        BY <1>1, <1>3, <2>1
    <2>2. CASE \A h \in {"profiles", "members", "products", "test-products"} : h \notin todo
        <3>1. todo = {"reviews"}
            BY <1>3, <2>2 DEF Groups
        <3> QED
            BY <1>1, <3>1
    <2> QED
        BY <2>1, <2>2
<1> QED
    BY <1>2, <1>3

LEMMA NextIsReady ==
    ASSUME NEW c \in Calls, call[c].todo \subseteq Groups, call[c].todo # {},
           \A h \in call[c].todo : DependenciesOf[h] \subseteq call[c].todo \cup call[c].done
    PROVE  NextGroup(c) \in Ready(c)
<1> PICK S : S = {Position(g) : g \in Ready(c)}
    OBVIOUS
<1>1. Ready(c) # {} /\ Ready(c) \subseteq Groups
    <2> PICK todo, done : todo = call[c].todo /\ done = call[c].done
        OBVIOUS
    <2>1. \E h \in todo : DependenciesOf[h] \subseteq done
        <3>1. todo \in SUBSET Groups /\ todo # {}
            OBVIOUS
        <3>2. \A h \in todo : DependenciesOf[h] \subseteq todo \cup done
            OBVIOUS
        <3> QED
            BY <3>1, <3>2, SomeReady
    <2> QED
        BY <2>1 DEF Ready
<1>2. S \subseteq 1..10 /\ S \subseteq Nat /\ S # {}
    BY <1>1, Positions
<1>3. PICK m \in S : \A n \in S : m <= n
    BY <1>2, FirstOfSome
<1>4. \E g \in Ready(c) : \A h \in Ready(c) : Position(g) <= Position(h)
    BY <1>3
<1> QED
    BY <1>4 DEF NextGroup

\* The tables of a group, and what is left of them.
LEMMA GroupTables ==
    ASSUME NEW g \in Groups
    PROVE  TablesOf[g] \in Queues /\ TablesOf[g] # <<>> /\ Head(TablesOf[g]) = g
<1>1. CASE g = "products"
    <2>1. TablesOf[g] = <<"products", "images", "certificates">>
        BY <1>1 DEF TablesOf
    <2> QED
        BY <1>1, <2>1 DEF Queues
<1>2. CASE g # "products"
    <2>1. TablesOf[g] = <<g>>
        BY <1>2 DEF TablesOf
    <2> QED
        BY <2>1 DEF Queues
<1> QED
    BY <1>1, <1>2

LEMMA QueueShapes ==
    ASSUME NEW q \in Queues, q # <<>>
    PROVE  /\ Head(q) \in Tables /\ Tail(q) \in Queues
           /\ Tail(q) # <<>> => Head(Tail(q)) \in Unconstrained /\ Head(q) \in {"products", "images"}
<1>1. ASSUME NEW g \in Groups, q = <<g>>
      PROVE  Head(q) \in Tables /\ Tail(q) = <<>>
    BY <1>1 DEF Tables
<1>2. CASE q = <<"products", "images", "certificates">>
    <2>1. Head(q) = "products" /\ Tail(q) = <<"images", "certificates">>
        BY <1>2
    <2>2. \A r : r = <<"images", "certificates">> => Head(r) = "images" /\ r # <<>>
        OBVIOUS
    <2> QED
        BY <2>1, <2>2 DEF Tables, Groups, Unconstrained, Queues
<1>3. CASE q = <<"images", "certificates">>
    <2>1. Head(q) = "images" /\ Tail(q) = <<"certificates">>
        BY <1>3
    <2>2. \A r : r = <<"certificates">> => Head(r) = "certificates" /\ r # <<>>
        OBVIOUS
    <2> QED
        BY <2>1, <2>2 DEF Tables, Unconstrained, Queues
<1>4. CASE q = <<"certificates">>
    <2>1. Head(q) = "certificates" /\ Tail(q) = <<>>
        BY <1>4
    <2> QED
        BY <2>1 DEF Tables, Queues
<1> QED
    BY <1>1, <1>2, <1>3, <1>4 DEF Queues

-----------------------------------------------------------------------------
(* The seeds: frames *)

\* What is known of the frame of a run.
LEMMA SeedFrame ==
    ASSUME FramesOK, NEW c \in Calls, Of(c, SeedAwaits)
    PROVE  /\ call[c] \in SeedFrames
           /\ call[c].todo \subseteq Groups /\ call[c].done \subseteq Groups
           /\ call[c].group \in Groups \cup {NULL} /\ call[c].tables \in Queues
           /\ call[c].find \subseteq Fixtures /\ call[c].plan \subseteq Plans
<1>1. call[c] \in SeedFrames
    BY FrameShapes DEF FramesOK, Of
<1> QED
    BY <1>1 DEF SeedFrames

LEMMA SeedFramed ==
    ASSUME FramesOK, NEW c \in Calls, call[c].at \in SeedAwaits \cup {"idle"},
           NEW frame \in SeedFrames, call' = [call EXCEPT ![c] = frame]
    PROVE  Turn(c, SeedAwaits) /\ call'[c] = frame /\ Of(c, SeedAwaits)'
<1>1. call' = [call EXCEPT ![c] = call'[c]] /\ call'[c] = frame
    BY Given
<1>2. frame \in Frames /\ frame.at \in SeedAwaits
    BY DEF Frames, SeedFrames
<1> QED
    BY <1>1, <1>2 DEF Turn, Of

LEMMA SeedEnded ==
    ASSUME FramesOK, NEW c \in Calls, End(c), call[c].at \in SeedAwaits \cup {"idle"}
    PROVE  Turn(c, SeedAwaits) /\ ~Of(c, SeedAwaits)'
BY Ended, PartsApart DEF Turn, Of

\* A table's fixtures are its own.
LEMMA FixturesApart ==
    /\ \A t \in Tables : FixturesOf(t) \subseteq Fixtures
    /\ \A t, u \in Tables : t # u => FixturesOf(t) \cap FixturesOf(u) = {}
    /\ \A g \in Groups : g \in Tables /\ g \notin Unconstrained
    /\ Unconstrained \subseteq Tables /\ Unconstrained \cap References = {}
BY DEF FixturesOf, Fixtures, Tables, Groups, Unconstrained, References

\* Where no row disappears what was full is full.
RowsStay ==
    /\ rows' \in [Fixtures -> Nat]
    /\ \A f \in Fixtures : rows[f] > 0 => rows'[f] > 0

LEMMA FullStays ==
    ASSUME RowsStay, NEW t \in Tables, Full(t)
    PROVE  Full(t)'
BY FixturesApart DEF RowsStay, Full

\* The table a group is at.
TableHolds(c, g, t) ==
    /\ g \in Groups /\ DependenciesOf[g] \subseteq call[c].done
    /\ \A h \in call[c].todo : DependenciesOf[h] \subseteq call[c].todo \cup call[c].done \cup {g}
    /\ call[c].tables # <<>> /\ (t = g \/ (g = "products" /\ t \in Unconstrained /\ Full(g)))
    /\ call[c].find \subseteq FixturesOf(t)
    /\ \A p \in call[c].plan : p.fixture \in FixturesOf(t)
    /\ \A f \in FixturesOf(t) :
         f \in call[c].find \/ rows[f] > 0 \/ [fixture |-> f, found |-> FALSE] \in call[c].plan

LEMMA AtTable ==
    ASSUME NEW c \in Calls, GroupHolds(c), call[c].at \in {"finding-fixtures", "writing-fixtures"}
    PROVE  /\ TableHolds(c, call[c].group, Head(call[c].tables))
           /\ Head(call[c].tables) \in Tables
           /\ \A h \in call[c].done : Full(h)
<1>1. TableHolds(c, call[c].group, Head(call[c].tables))
    BY DEF GroupHolds, TableHolds
<1>2. Head(call[c].tables) \in Tables
    BY <1>1, FixturesApart DEF TableHolds
<1> QED
    BY <1>1, <1>2 DEF GroupHolds

\* A run that does nothing itself goes on as it was.
LEMMA GroupStays ==
    ASSUME FramesOK, NEW c \in Calls, Of(c, SeedAwaits), GroupHolds(c), call'[c] = call[c], RowsStay
    PROVE  GroupHolds(c)'
<1>1. \A h \in call[c].done : Full(h)'
    BY FullStays, FixturesApart, SeedFrame DEF GroupHolds
<1>2. CASE call[c].at = "ordering-groups"
    BY <1>1, <1>2 DEF GroupHolds, At
<1>3. CASE call[c].at \in {"finding-fixtures", "writing-fixtures"}
    <2> PICK g, t : g = call[c].group /\ t = Head(call[c].tables)
        OBVIOUS
    <2>1. TableHolds(c, g, t) /\ t \in Tables /\ g \in Tables
        BY <1>3, AtTable, FixturesApart DEF TableHolds
    <2>2. Full(g) => Full(g)'
        BY <2>1, FullStays
    <2>3. \A f \in FixturesOf(t) : rows[f] > 0 => rows'[f] > 0
        BY <2>1, FixturesApart DEF RowsStay
    <2>4. TableHolds(c, g, t)'
        BY <2>1, <2>2, <2>3 DEF TableHolds
    <2>5. /\ call'[c].at = "finding-fixtures" /\ ~PreflightsAll(g) => call'[c].plan = {}
          /\ call'[c].at = "writing-fixtures" /\ PreflightsAll(g) => call'[c].find = {}
        BY DEF GroupHolds, At
    <2> QED
        BY <1>1, <1>3, <2>4, <2>5 DEF GroupHolds, TableHolds, At
<1> QED
    BY <1>2, <1>3 DEF Of, SeedAwaits

\* A step of one run.
LEMMA SeedSteps ==
    ASSUME FramesOK, SeedInv, NEW c \in Calls, Of(c, SeedAwaits), Turn(c, SeedAwaits),
           RowsStay, UNCHANGED <<split, disturbed>>, DependenciesCameFirst',
           Of(c, SeedAwaits)' => GroupHolds(c)',
           ~disturbed => IF Of(c, SeedAwaits)' THEN AloneHolds(c)'
                                               ELSE \A t \in Tables \ References : Whole(t)'
    PROVE  SeedInv'
<1>1. \A d \in Calls \ {c} : call'[d] = call[d]
    BY TurnOthers
<1>2. ASSUME NEW d \in Calls, Of(d, SeedAwaits)' PROVE GroupHolds(d)'
    <2>1. CASE d = c
        BY <1>2, <2>1
    <2>2. CASE d # c
        BY <1>1, <1>2, <2>2, GroupStays DEF SeedInv, Of
    <2> QED
        BY <2>1, <2>2
<1>3. ASSUME ~disturbed'
      PROVE  /\ OneRun'
             /\ \A d \in Calls : Of(d, SeedAwaits)' => AloneHolds(d)'
             /\ (\A d \in Calls : ~Of(d, SeedAwaits)') => \A t \in Tables \ References : Whole(t)'
    <2>1. \A d \in Calls \ {c} : ~Of(d, SeedAwaits)'
        BY <1>1, <1>3 DEF SeedInv, OneRun, Of
    <2> QED
        BY <1>3, <2>1 DEF OneRun
<1> QED
    BY <1>2, <1>3 DEF SeedInv, RowsStay

\* Where no run is under way, or the runs are disturbed.
LEMMA SeedAlone ==
    ASSUME FramesOK, SeedInv, UNCHANGED call, RowsStay, split' \subseteq Splittable,
           disturbed' = (disturbed \/ ~Quiet), DependenciesCameFirst',
           \A t \in Tables : Whole(t) => Whole(t)'
    PROVE  SeedInv'
<1>1. \A c \in Calls : Of(c, SeedAwaits)' => GroupHolds(c)'
    BY GroupStays DEF SeedInv, Of
<1>2. ASSUME ~disturbed'
      PROVE  /\ OneRun'
             /\ \A d \in Calls : Of(d, SeedAwaits)' => AloneHolds(d)'
             /\ (\A d \in Calls : ~Of(d, SeedAwaits)') => \A t \in Tables \ References : Whole(t)'
    <2>1. Quiet /\ ~disturbed
        BY <1>2
    <2>2. \A d \in Calls : ~Of(d, SeedAwaits) /\ ~Of(d, SeedAwaits)'
        BY <2>1 DEF Quiet, At, Of, SeedAwaits
    <2>3. \A t \in Tables \ References : Whole(t)
        BY <2>1, <2>2 DEF SeedInv
    <2> QED
        BY <2>2, <2>3 DEF OneRun
<1>3. disturbed' \in BOOLEAN
    BY DEF SeedInv, Quiet
<1> QED
    BY <1>1, <1>2, <1>3 DEF SeedInv, RowsStay

\* Steps that leave the rows alone.
LEMMA RowsSame ==
    ASSUME SeedInv, UNCHANGED rows
    PROVE  /\ RowsStay /\ DependenciesCameFirst' /\ \A t : Full(t)' <=> Full(t)
           /\ \A t : Whole(t)' <=> Whole(t)
BY DEF SeedInv, RowsStay, DependenciesCameFirst, Full, Whole

LEMMA SeedRest ==
    ASSUME FramesOK, SeedInv, UNCHANGED seedRows, Elsewhere(SeedAwaits)
    PROVE  SeedInv'
<1>1. UNCHANGED <<rows, split, disturbed>>
    BY DEF seedRows
<1>2. \A c \in Calls : /\ Of(c, SeedAwaits)' <=> Of(c, SeedAwaits)
                       /\ Of(c, SeedAwaits) => call'[c] = call[c]
    BY DEF Elsewhere, Of
<1>3. \A c \in Calls : Of(c, SeedAwaits)' => GroupHolds(c)'
    BY <1>1, <1>2, RowsSame, GroupStays DEF SeedInv
<1>4. ASSUME NEW c \in Calls, Of(c, SeedAwaits), AloneHolds(c) PROVE AloneHolds(c)'
    BY <1>1, <1>2, <1>4, RowsSame DEF AloneHolds, At
<1>5. OneRun' <=> OneRun
    BY <1>2 DEF OneRun
<1>6. ~disturbed' =>
        /\ OneRun'
        /\ \A d \in Calls : Of(d, SeedAwaits)' => AloneHolds(d)'
        /\ (\A d \in Calls : ~Of(d, SeedAwaits)') => \A t \in Tables \ References : Whole(t)'
    BY <1>1, <1>2, <1>4, <1>5, RowsSame DEF SeedInv
<1> QED
    BY <1>1, <1>3, <1>6, RowsSame DEF SeedInv

-----------------------------------------------------------------------------
(* The seeds: what follows a write *)

\* The frame of a run that goes on.
GoesOn(c, left) ==
    /\ call'[c].plan = left /\ call'[c].todo = call[c].todo /\ call'[c].group = call[c].group
    /\ left # {} \/ call[c].find # {} =>
         /\ call'[c].at = IF left # {} THEN "writing-fixtures" ELSE "finding-fixtures"
         /\ call'[c].tables = call[c].tables /\ call'[c].find = call[c].find
         /\ call'[c].done = call[c].done
    /\ left = {} /\ call[c].find = {} /\ Tail(call[c].tables) # <<>> =>
         /\ call'[c].at = "finding-fixtures" /\ call'[c].tables = Tail(call[c].tables)
         /\ call'[c].find = FixturesOf(Head(Tail(call[c].tables))) /\ call'[c].done = call[c].done
    /\ left = {} /\ call[c].find = {} /\ Tail(call[c].tables) = <<>> =>
         call'[c].at = "ordering-groups" /\ call'[c].done = call[c].done \cup {call[c].group}

LEMMA Continued ==
    ASSUME FramesOK, NEW c \in Calls, call[c].at = "writing-fixtures", GroupHolds(c),
           NEW left, left \subseteq call[c].plan, Continue(c, left)
    PROVE  Turn(c, SeedAwaits) /\ Of(c, SeedAwaits)' /\ GoesOn(c, left)
<1> PICK old : old = call[c]
    OBVIOUS
<1> PICK ts : ts = Tail(old.tables)
    OBVIOUS
<1>1. PICK frame : frame = [old EXCEPT
                     !.plan = left,
                     !.at = IF left # {} THEN "writing-fixtures"
                            ELSE IF old.find # {} \/ ts # <<>> THEN "finding-fixtures"
                            ELSE "ordering-groups",
                     !.tables = IF left = {} /\ old.find = {} THEN ts ELSE @,
                     !.find = IF left = {} /\ @ = {} /\ ts # <<>> THEN FixturesOf(Head(ts)) ELSE @,
                     !.done = IF left = {} /\ old.find = {} /\ ts = <<>>
                              THEN @ \cup {old.group} ELSE @]
    OBVIOUS
<1>2. call' = [call EXCEPT ![c] = frame]
    BY <1>1 DEF FramesOK, Continue
<1>3. Of(c, SeedAwaits)
    BY DEF Of, SeedAwaits
<1>4. /\ old \in SeedFrames /\ old.plan \subseteq Plans /\ old.done \subseteq Groups
      /\ old.tables \in Queues /\ old.tables # <<>> /\ old.group \in Groups
    BY <1>3, SeedFrame DEF GroupHolds
<1>5. ts \in Queues /\ (ts # <<>> => FixturesOf(Head(ts)) \subseteq Fixtures)
    BY <1>4, QueueShapes, FixturesApart
<1>6. PICK at, tables, find, done :
        /\ at = IF left # {} THEN "writing-fixtures"
                ELSE IF old.find # {} \/ ts # <<>> THEN "finding-fixtures" ELSE "ordering-groups"
        /\ tables = IF left = {} /\ old.find = {} THEN ts ELSE old.tables
        /\ find = IF left = {} /\ old.find = {} /\ ts # <<>> THEN FixturesOf(Head(ts)) ELSE old.find
        /\ done = IF left = {} /\ old.find = {} /\ ts = <<>>
                  THEN old.done \cup {old.group} ELSE old.done
    OBVIOUS
<1>7. frame = [old EXCEPT !.plan = left, !.at = at, !.tables = tables, !.find = find, !.done = done]
    BY <1>1, <1>4, <1>6 DEF SeedFrames
<1>8. /\ at \in SeedAwaits /\ tables \in Queues /\ find \subseteq Fixtures /\ done \subseteq Groups
      /\ left \subseteq Plans
    <2>1. old.find \subseteq Fixtures
        BY <1>3, SeedFrame
    <2> QED
        BY <1>4, <1>5, <1>6, <2>1 DEF SeedAwaits
<1>9. /\ frame \in SeedFrames
      /\ frame.plan = left /\ frame.at = at /\ frame.tables = tables /\ frame.find = find
      /\ frame.done = done /\ frame.todo = old.todo /\ frame.group = old.group
    BY <1>4, <1>7, <1>8 DEF SeedFrames
<1>10. Turn(c, SeedAwaits) /\ call'[c] = frame /\ Of(c, SeedAwaits)'
    <2>1. call[c].at \in SeedAwaits \cup {"idle"}
        BY DEF SeedAwaits
    <2> QED
        BY <1>2, <1>9, <2>1, SeedFramed
<1>11. GoesOn(c, left)
    BY <1>6, <1>9, <1>10 DEF GoesOn
<1> QED
    BY <1>10, <1>11

\* A write leaves one fixture less to write.
Wrote(c, p) ==
    /\ p \in call[c].plan /\ Continue(c, call[c].plan \ {p})
    /\ p.found \/ rows'[p.fixture] > 0

\* What is neither to be found nor planned is there.
LEMMA TableGoesOn ==
    ASSUME FramesOK, NEW c \in Calls, call[c].at = "writing-fixtures", GroupHolds(c), RowsStay,
           NEW p, Wrote(c, p)
    PROVE  \A f \in FixturesOf(Head(call[c].tables)) :
              \/ f \in call[c].find \/ rows'[f] > 0
              \/ [fixture |-> f, found |-> FALSE] \in call[c].plan \ {p}
<1> PICK t : t = Head(call[c].tables)
    OBVIOUS
<1>1. TableHolds(c, call[c].group, t) /\ t \in Tables
    BY AtTable
<1>2. SUFFICES ASSUME NEW f \in FixturesOf(t)
               PROVE  \/ f \in call[c].find \/ rows'[f] > 0
                      \/ [fixture |-> f, found |-> FALSE] \in call[c].plan \ {p}
    OBVIOUS
<1>3. rows[f] > 0 => rows'[f] > 0
    BY <1>1, <1>2, FixturesApart DEF RowsStay
<1>4. f \in call[c].find \/ rows[f] > 0 \/ [fixture |-> f, found |-> FALSE] \in call[c].plan
    BY <1>1, <1>2 DEF TableHolds
<1>5. p = [fixture |-> f, found |-> FALSE] => rows'[f] > 0
    BY DEF Wrote
<1> QED
    BY <1>3, <1>4, <1>5

LEMMA TableDone ==
    ASSUME FramesOK, NEW c \in Calls, call[c].at = "writing-fixtures", GroupHolds(c), RowsStay,
           NEW p, Wrote(c, p), call[c].plan \ {p} = {}, call[c].find = {},
           NEW t, t = Head(call[c].tables)
    PROVE  Full(t)'
<1>1. \A f \in FixturesOf(t) : rows'[f] > 0
    BY TableGoesOn
<1> QED
    BY <1>1 DEF Full

LEMMA ContinueHolds ==
    ASSUME FramesOK, NEW c \in Calls, call[c].at = "writing-fixtures", GroupHolds(c), RowsStay,
           NEW p, Wrote(c, p)
    PROVE  GroupHolds(c)'
<1> PICK g, t, left, find, ts :
        /\ g = call[c].group /\ t = Head(call[c].tables) /\ left = call[c].plan \ {p}
        /\ find = call[c].find /\ ts = Tail(call[c].tables)
    OBVIOUS
<1>1. /\ TableHolds(c, g, t) /\ t \in Tables /\ g \in Groups
      /\ \A h \in call[c].done : Full(h)
    BY AtTable DEF TableHolds
<1>2. GoesOn(c, left)
    BY Continued DEF Wrote
<1>3. \A h \in call[c].done : Full(h)'
    <2>1. call[c].done \subseteq Groups
        BY SeedFrame DEF Of, SeedAwaits
    <2> QED
        BY <1>1, <2>1, FullStays, FixturesApart
<1>4. /\ t # g => g = "products" /\ t \in Unconstrained /\ Full(g)'
      /\ Full(g) => Full(g)'
    <2>1. g \in Tables
        BY <1>1, FixturesApart
    <2> QED
        BY <1>1, <2>1, FullStays DEF TableHolds
<1>5. left = {} /\ find = {} => Full(t)'
    BY TableDone
<1>6. CASE left # {} \/ find # {}
    <2>1. /\ call'[c].at = IF left # {} THEN "writing-fixtures" ELSE "finding-fixtures"
          /\ call'[c].tables = call[c].tables /\ call'[c].find = find
          /\ call'[c].done = call[c].done /\ call'[c].plan = left /\ call'[c].group = g
          /\ call'[c].todo = call[c].todo
        BY <1>2, <1>6 DEF GoesOn
    <2>2. TableHolds(c, g, t)'
        <3>1. \A f \in FixturesOf(t) :
                f \in find \/ rows'[f] > 0 \/ [fixture |-> f, found |-> FALSE] \in left
            BY TableGoesOn
        <3> QED
            BY <1>1, <1>4, <2>1, <3>1 DEF TableHolds
    <2>3. PreflightsAll(g) => find = {}
        BY DEF GroupHolds, At
    <2>4. /\ call'[c].at = "finding-fixtures" => left = {}
          /\ call'[c].at \in {"finding-fixtures", "writing-fixtures"}
          /\ Head(call'[c].tables) = t
        BY <2>1
    <2> QED
        BY <1>3, <2>1, <2>2, <2>3, <2>4 DEF GroupHolds, TableHolds, At
<1>7. CASE left = {} /\ find = {} /\ ts # <<>>
    <2> PICK u : u = Head(ts)
        OBVIOUS
    <2>1. /\ call'[c].at = "finding-fixtures" /\ call'[c].tables = ts
          /\ call'[c].find = FixturesOf(u) /\ call'[c].done = call[c].done
          /\ call'[c].plan = {} /\ call'[c].group = g /\ call'[c].todo = call[c].todo
        BY <1>2, <1>7 DEF GoesOn
    <2>2. u \in Unconstrained /\ t \in {"products", "images"}
        <3>1. call[c].tables \in Queues /\ call[c].tables # <<>>
            BY <1>1, SeedFrame DEF Of, SeedAwaits, TableHolds
        <3> QED
            BY <1>7, <3>1, QueueShapes
    <2>3. g = "products" /\ Full(g)'
        BY <1>1, <1>4, <1>5, <1>7, <2>2, FixturesApart DEF Unconstrained
    <2>4. TableHolds(c, g, u)'
        BY <1>1, <1>7, <2>1, <2>2, <2>3 DEF TableHolds
    <2>5. Head(call'[c].tables) = u
        BY <2>1
    <2> QED
        BY <1>3, <2>1, <2>4, <2>5 DEF GroupHolds, TableHolds, At
<1>8. CASE left = {} /\ find = {} /\ ts = <<>>
    <2>1. /\ call'[c].at = "ordering-groups" /\ call'[c].done = call[c].done \cup {g}
          /\ call'[c].plan = {} /\ call'[c].todo = call[c].todo
        BY <1>2, <1>8 DEF GoesOn
    <2>2. Full(g)'
        BY <1>4, <1>5, <1>8
    <2>3. \A h \in call'[c].done : Full(h)'
        BY <1>3, <2>1, <2>2
    <2>4. \A h \in call[c].todo : DependenciesOf[h] \subseteq call[c].todo \cup call[c].done \cup {g}
        BY <1>1 DEF TableHolds
    <2> QED
        BY <2>1, <2>3, <2>4 DEF GroupHolds, At
<1> QED
    BY <1>6, <1>7, <1>8

\* The tables are whole again where the run does not go on writing.
LEMMA ContinueAlone ==
    ASSUME FramesOK, NEW c \in Calls, call[c].at = "writing-fixtures", GroupHolds(c), AloneHolds(c),
           RowsStay, UNCHANGED split, NEW p, Wrote(c, p),
           \A f \in Fixtures : rows'[f] # rows[f] => f = p.fixture /\ ~p.found
    PROVE  AloneHolds(c)'
<1> PICK g, t, left, find :
        /\ g = call[c].group /\ t = Head(call[c].tables) /\ left = call[c].plan \ {p}
        /\ find = call[c].find
    OBVIOUS
<1>1. TableHolds(c, g, t) /\ t \in Tables /\ g \in Groups
    BY AtTable DEF TableHolds
<1>2. GoesOn(c, left) /\ p \in call[c].plan
    BY Continued DEF Wrote
<1>3. call[c].plan \subseteq Plans
    BY SeedFrame DEF Of, SeedAwaits
<1>4. ASSUME NEW q \in left, ~q.found PROVE rows'[q.fixture] = 0 /\ q.fixture \notin split'
    <2>1. rows[q.fixture] = 0 /\ q.fixture \notin split
        BY <1>4 DEF AloneHolds
    <2>2. q.fixture = p.fixture /\ ~p.found => q = p
        BY <1>2, <1>3, <1>4 DEF Plans
    <2>3. q.fixture \in Fixtures
        BY <1>3 DEF Plans
    <2> QED
        BY <2>1, <2>2, <2>3
<1>5. ASSUME NEW u \in Tables \ References, u # t PROVE Whole(u)'
    <2>1. Whole(u)
        BY <1>5 DEF AloneHolds
    <2>2. p.fixture \in FixturesOf(t)
        BY <1>1, <1>2 DEF TableHolds
    <2>3. \A f \in FixturesOf(u) : rows'[f] = rows[f]
        BY <1>1, <1>5, <2>2, FixturesApart
    <2> QED
        BY <2>1, <2>3 DEF Whole
<1>6. CASE left # {}
    <2>1. /\ call'[c].at = "writing-fixtures" /\ call'[c].plan = left
          /\ Head(call'[c].tables) = t
        BY <1>2, <1>6 DEF GoesOn
    <2> QED
        BY <1>4, <1>5, <2>1 DEF AloneHolds, At
<1>7. CASE left = {}
    <2>1. call'[c].plan = {}
        BY <1>2, <1>7 DEF GoesOn
    <2>2. Whole(t)' \/ t \in References
        <3>1. CASE find = {}
            <4>1. Full(t)'
                BY <1>7, <3>1, TableDone
            <4> QED
                BY <4>1 DEF Full, Whole
        <3>2. CASE find # {}
            <4>1. g \in References
                BY <3>2 DEF GroupHolds, At, PreflightsAll
            <4> QED
                BY <1>1, <4>1 DEF TableHolds, References
        <3> QED
            BY <3>1, <3>2
    <2> QED
        BY <1>5, <2>1, <2>2 DEF AloneHolds
<1> QED
    BY <1>6, <1>7

-----------------------------------------------------------------------------
(* The seeds: each step *)

LEMMA SeedHolds ==
    ASSUME SeedInv, NEW c \in Calls, call[c].at \in SeedAwaits
    PROVE  Of(c, SeedAwaits) /\ GroupHolds(c) /\ (~disturbed => AloneHolds(c))
BY DEF SeedInv, Of

LEMMA UpdateFixtureInv ==
    ASSUME FramesOK, SeedInv, NEW c \in Calls, UpdateFixture(c)
    PROVE  SeedInv' /\ Turn(c, SeedAwaits)
<1>1. /\ call[c].at = "writing-fixtures" /\ UNCHANGED <<rows, split, disturbed>>
    BY DEF UpdateFixture, At, seedRows
<1>2. Of(c, SeedAwaits) /\ GroupHolds(c) /\ (~disturbed => AloneHolds(c))
    BY <1>1, SeedHolds DEF SeedAwaits
<1>3. PICK p \in call[c].plan : p.found /\ Continue(c, call[c].plan \ {p})
    BY DEF UpdateFixture
<1>4. Wrote(c, p) /\ RowsStay /\ DependenciesCameFirst'
    BY <1>1, <1>3, RowsSame DEF Wrote
<1>5. GroupHolds(c)' /\ Turn(c, SeedAwaits) /\ Of(c, SeedAwaits)'
    BY <1>1, <1>2, <1>3, <1>4, ContinueHolds, Continued
<1>6. ~disturbed => AloneHolds(c)'
    BY <1>1, <1>2, <1>4, ContinueAlone
<1> QED
    BY <1>1, <1>2, <1>4, <1>5, <1>6, SeedSteps

LEMMA CreateFixtureInv ==
    ASSUME FramesOK, SeedInv, NEW c \in Calls, CreateFixture(c)
    PROVE  SeedInv' /\ Turn(c, SeedAwaits)
<1>1. /\ call[c].at = "writing-fixtures" /\ UNCHANGED <<split, disturbed>>
    BY DEF CreateFixture, At
<1>2. Of(c, SeedAwaits) /\ GroupHolds(c) /\ (~disturbed => AloneHolds(c))
    BY <1>1, SeedHolds DEF SeedAwaits
<1>3. PICK p \in call[c].plan :
        /\ ~p.found /\ rows' = [rows EXCEPT ![p.fixture] = @ + 1]
        /\ Continue(c, call[c].plan \ {p})
    BY DEF CreateFixture
<1> PICK g, t : g = call[c].group /\ t = Head(call[c].tables)
    OBVIOUS
<1>4. TableHolds(c, g, t) /\ t \in Tables /\ \A h \in call[c].done : Full(h)
    BY <1>1, <1>2, AtTable
<1>5. p.fixture \in FixturesOf(t) /\ p.fixture \in Fixtures
    BY <1>3, <1>4, FixturesApart DEF TableHolds
<1>6. /\ RowsStay /\ rows'[p.fixture] > 0
      /\ \A f \in Fixtures : f # p.fixture => rows'[f] = rows[f]
    BY <1>3, <1>5 DEF SeedInv, RowsStay
<1>7. DependenciesCameFirst'
    <2> SUFFICES ASSUME NEW h \in Groups, \E f \in FixturesOf(h) : rows'[f] > 0,
                        NEW d \in DependenciesOf[h]
                 PROVE  Full(d)'
        BY DEF DependenciesCameFirst, Full
    <2>1. d \in Groups /\ d \in Tables /\ h \in Tables
        BY FixturesApart DEF DependenciesOf, Groups
    <2>2. CASE h = t
        <3>1. g = t
            BY <1>4, <2>2, FixturesApart DEF TableHolds
        <3>2. Full(d)
            BY <1>4, <2>2, <3>1 DEF TableHolds
        <3> QED
            BY <1>6, <2>1, <3>2, FullStays
    <2>3. CASE h # t
        <3>1. \A f \in FixturesOf(h) : f \in Fixtures /\ f # p.fixture
            BY <1>4, <1>5, <2>1, <2>3, FixturesApart
        <3>2. \E f \in FixturesOf(h) : rows[f] > 0
            BY <1>6, <3>1
        <3>3. Full(d)
            BY <3>2 DEF SeedInv, DependenciesCameFirst, Full
        <3> QED
            BY <1>6, <2>1, <3>3, FullStays
    <2> QED
        BY <2>2, <2>3
<1>8. Wrote(c, p)
    BY <1>3, <1>6 DEF Wrote
<1>9. GroupHolds(c)' /\ Turn(c, SeedAwaits) /\ Of(c, SeedAwaits)'
    BY <1>1, <1>2, <1>3, <1>6, <1>8, ContinueHolds, Continued
<1>10. ~disturbed => AloneHolds(c)'
    BY <1>1, <1>2, <1>3, <1>6, <1>8, ContinueAlone
<1> QED
    BY <1>1, <1>2, <1>6, <1>7, <1>9, <1>10, SeedSteps

\* A run that is alone creates what it has not found.
LEMMA FailToCreateInv ==
    ASSUME FramesOK, SeedInv, NEW c \in Calls, FailToCreate(c)
    PROVE  SeedInv' /\ Turn(c, SeedAwaits)
<1>1. /\ call[c].at = "writing-fixtures" /\ UNCHANGED <<rows, split, disturbed>> /\ End(c)
    BY DEF FailToCreate, At, seedRows
<1>2. Of(c, SeedAwaits) /\ GroupHolds(c) /\ (~disturbed => AloneHolds(c))
    BY <1>1, SeedHolds DEF SeedAwaits
<1>3. disturbed
    <2>1. PICK p \in call[c].plan : ~p.found /\ Refused(p.fixture)
        BY DEF FailToCreate
    <2>2. rows[p.fixture] > 0 \/ p.fixture \in split
        BY <2>1 DEF Refused
    <2> QED
        BY <1>2, <2>1, <2>2 DEF AloneHolds
<1>4. Turn(c, SeedAwaits) /\ ~Of(c, SeedAwaits)'
    BY <1>1, <1>2, SeedEnded DEF Of
<1> QED
    BY <1>1, <1>2, <1>3, <1>4, RowsSame, SeedSteps

LEMMA ReportConflictInv ==
    ASSUME FramesOK, SeedInv, NEW c \in Calls, ReportConflict(c)
    PROVE  SeedInv' /\ Turn(c, SeedAwaits)
<1>1. /\ call[c].at = "finding-fixtures" /\ UNCHANGED <<rows, split, disturbed>> /\ End(c)
    BY DEF ReportConflict, At, seedRows
<1>2. Of(c, SeedAwaits) /\ GroupHolds(c) /\ (~disturbed => AloneHolds(c))
    BY <1>1, SeedHolds DEF SeedAwaits
<1>3. ~disturbed => \A t \in Tables \ References : Whole(t)'
    BY <1>1, <1>2, RowsSame DEF AloneHolds, At
<1>4. Turn(c, SeedAwaits) /\ ~Of(c, SeedAwaits)'
    BY <1>1, <1>2, SeedEnded DEF Of
<1> QED
    BY <1>1, <1>2, <1>3, <1>4, RowsSame, SeedSteps

\* One more fixture is found, and the run goes on to await a.
Finds(c, f, a) ==
    /\ f \in call[c].find /\ ~Conflicts(f)
    /\ a \in {"finding-fixtures", "writing-fixtures"}
    /\ a = "finding-fixtures" => PreflightsAll(call[c].group)
    /\ a = "writing-fixtures" /\ PreflightsAll(call[c].group) => call[c].find = {f}
    /\ call' = [call EXCEPT ![c].find = @ \ {f}, ![c].plan = Planned(c, f), ![c].at = a]

LEMMA FindsNext ==
    ASSUME NEW c \in Calls, FindAll(c) \/ FindNext(c)
    PROVE  \E f, a : Finds(c, f, a)
<1>1. CASE FindAll(c)
    <2>1. PICK f \in call[c].find :
            /\ ~Conflicts(f)
            /\ call' = [call EXCEPT ![c].find = @ \ {f}, ![c].plan = Planned(c, f),
                          ![c].at = IF call[c].find = {f} THEN "writing-fixtures" ELSE @]
        BY <1>1 DEF FindAll
    <2>2. call[c].at = "finding-fixtures" /\ PreflightsAll(call[c].group)
        BY <1>1 DEF FindAll, At
    <2>3. CASE call[c].find = {f}
        <3>1. Finds(c, f, "writing-fixtures")
            BY <2>1, <2>3 DEF Finds
        <3> QED
            BY <3>1
    <2>4. CASE call[c].find # {f}
        <3>1. call' = [call EXCEPT ![c].find = @ \ {f}, ![c].plan = Planned(c, f), ![c].at = @]
            BY <2>1, <2>4
        <3>2. call' = [call EXCEPT ![c].find = @ \ {f}, ![c].plan = Planned(c, f),
                         ![c].at = "finding-fixtures"]
            BY <2>2, <3>1
        <3>3. Finds(c, f, "finding-fixtures")
            BY <2>1, <2>2, <3>2 DEF Finds
        <3> QED
            BY <3>3
    <2> QED
        BY <2>3, <2>4
<1>2. CASE FindNext(c)
    <2>1. PICK f \in call[c].find : Finds(c, f, "writing-fixtures")
        BY <1>2 DEF FindNext, Finds
    <2> QED
        BY <2>1
<1> QED
    BY <1>1, <1>2

LEMMA FindInv ==
    ASSUME FramesOK, SeedInv, NEW c \in Calls, FindAll(c) \/ FindNext(c)
    PROVE  SeedInv' /\ Turn(c, SeedAwaits)
<1>1. /\ call[c].at = "finding-fixtures" /\ UNCHANGED <<rows, split, disturbed>>
    BY DEF FindAll, FindNext, At, seedRows
<1>2. Of(c, SeedAwaits) /\ GroupHolds(c) /\ (~disturbed => AloneHolds(c))
    BY <1>1, SeedHolds DEF SeedAwaits
<1>3. PICK f, a : Finds(c, f, a)
    BY FindsNext
<1> PICK old, g, t, find, plan2 :
        /\ old = call[c] /\ g = old.group /\ t = Head(old.tables) /\ find = old.find \ {f}
        /\ plan2 = Planned(c, f)
    OBVIOUS
<1>4. TableHolds(c, g, t) /\ t \in Tables /\ \A h \in old.done : Full(h)
    BY <1>1, <1>2, AtTable
<1>5. f \in FixturesOf(t) /\ f \in Fixtures /\ f \in old.find
    BY <1>3, <1>4, FixturesApart DEF Finds, TableHolds
<1>6. f \notin split /\ rows[f] \in {0, 1}
    BY <1>3, <1>5 DEF Finds, Conflicts, Ambiguous, SeedInv
<1>7. PICK p : /\ p.fixture = f /\ p \in Plans /\ plan2 = old.plan \cup {p}
               /\ (rows[f] = 0 /\ p = [fixture |-> f, found |-> FALSE]) \/ (rows[f] = 1 /\ p.found)
    <2>1. CASE rows[f] = 0
        <3>1. plan2 = old.plan \cup {[fixture |-> f, found |-> FALSE]}
            <4>1. Matched(f) = FALSE
                BY <2>1 DEF Matched
            <4> QED
                BY <4>1 DEF Planned
        <3> QED
            BY <1>5, <2>1, <3>1 DEF Plans
    <2>2. CASE rows[f] = 1
        <3>1. plan2 = old.plan \cup {[fixture |-> f, found |-> TRUE]}
            <4>1. Matched(f) = TRUE
                BY <2>2 DEF Matched
            <4> QED
                BY <4>1 DEF Planned
        <3>2. PICK q \in Plans : q = [fixture |-> f, found |-> TRUE]
            BY <1>5 DEF Plans
        <3>3. q.fixture = f /\ q.found /\ plan2 = old.plan \cup {q}
            BY <3>1, <3>2
        <3> QED
            BY <2>2, <3>3
    <2> QED
        BY <1>6, <2>1, <2>2
<1>8. old \in SeedFrames /\ old.plan \subseteq Plans /\ old.find \subseteq Fixtures
    BY <1>2, SeedFrame
<1>9. PICK frame : frame = [old EXCEPT !.find = find, !.plan = plan2, !.at = a]
    OBVIOUS
<1>10. call' = [call EXCEPT ![c] = frame]
    <2>1. call' = [call EXCEPT ![c].find = @ \ {f}, ![c].plan = plan2, ![c].at = a]
        BY <1>3 DEF Finds
    <2> QED
        BY <1>9, <2>1 DEF FramesOK
<1>11. find \subseteq Fixtures /\ plan2 \subseteq Plans /\ a \in SeedAwaits
    BY <1>3, <1>5, <1>7, <1>8 DEF Finds, Plans, SeedAwaits
<1>12. /\ frame \in SeedFrames
       /\ frame.at = a /\ frame.find = find /\ frame.plan = plan2 /\ frame.todo = old.todo
       /\ frame.done = old.done /\ frame.group = g /\ frame.tables = old.tables
    BY <1>8, <1>9, <1>11 DEF SeedFrames
<1>13. Turn(c, SeedAwaits) /\ call'[c] = frame /\ Of(c, SeedAwaits)'
    BY <1>2, <1>10, <1>12, SeedFramed DEF Of
<1>14. GroupHolds(c)'
    <2>1. TableHolds(c, g, t)'
        <3>1. \A h \in FixturesOf(t) :
                h \in find \/ rows[h] > 0 \/ [fixture |-> h, found |-> FALSE] \in plan2
            <4>1. f \in find \/ rows[f] > 0 \/ [fixture |-> f, found |-> FALSE] \in plan2
                BY <1>7
            <4>2. \A h \in FixturesOf(t) :
                    h \in old.find \/ rows[h] > 0 \/ [fixture |-> h, found |-> FALSE] \in old.plan
                BY <1>4 DEF TableHolds
            <4> QED
                BY <1>7, <4>1, <4>2
        <3>2. \A q \in plan2 : q.fixture \in FixturesOf(t)
            BY <1>4, <1>5, <1>7 DEF TableHolds
        <3>3. Full(g)' <=> Full(g)
            BY <1>1, RowsSame
        <3> QED
            BY <1>1, <1>4, <1>12, <1>13, <3>1, <3>2, <3>3 DEF TableHolds
    <2>2. \A h \in call'[c].done : Full(h)'
        BY <1>1, <1>4, <1>12, <1>13, RowsSame
    <2>3. /\ a = "finding-fixtures" => PreflightsAll(g)
          /\ a = "writing-fixtures" /\ PreflightsAll(g) => find = {}
          /\ a \in {"finding-fixtures", "writing-fixtures"}
        BY <1>3 DEF Finds
    <2>4. /\ call'[c].at = a /\ call'[c].group = g /\ Head(call'[c].tables) = t
          /\ call'[c].find = find
        BY <1>12, <1>13
    <2> QED
        BY <2>1, <2>2, <2>3, <2>4 DEF GroupHolds, TableHolds, At
<1>15. ~disturbed => AloneHolds(c)'
    <2> SUFFICES ASSUME ~disturbed PROVE AloneHolds(c)'
        OBVIOUS
    <2>1. \A q \in plan2 : ~q.found => rows[q.fixture] = 0 /\ q.fixture \notin split
        <3>1. \A q \in old.plan : ~q.found => rows[q.fixture] = 0 /\ q.fixture \notin split
            BY <1>2 DEF AloneHolds
        <3> QED
            BY <1>6, <1>7, <3>1
    <2>2. \A u \in Tables \ References : Whole(u)
        BY <1>1, <1>2 DEF AloneHolds, At
    <2> QED
        BY <1>1, <1>12, <1>13, <2>1, <2>2, RowsSame DEF AloneHolds
<1> QED
    BY <1>1, <1>2, <1>13, <1>14, <1>15, RowsSame, SeedSteps

LEMMA BeginGroupInv ==
    ASSUME FramesOK, SeedInv, NEW c \in Calls, BeginGroup(c)
    PROVE  SeedInv' /\ Turn(c, SeedAwaits)
<1>1. /\ call[c].at = "ordering-groups" /\ UNCHANGED <<rows, split, disturbed>>
    BY DEF BeginGroup, At, seedRows
<1>2. Of(c, SeedAwaits) /\ GroupHolds(c) /\ (~disturbed => AloneHolds(c))
    BY <1>1, SeedHolds DEF SeedAwaits
<1>3. ~disturbed => \A t \in Tables \ References : Whole(t)
    BY <1>1, <1>2 DEF AloneHolds, At
<1> PICK old, todo, done : old = call[c] /\ todo = old.todo /\ done = old.done
    OBVIOUS
<1>4. /\ old.plan = {} /\ \A h \in done : Full(h)
      /\ \A h \in todo : DependenciesOf[h] \subseteq todo \cup done
    BY <1>1, <1>2 DEF GroupHolds, At
<1>5. old \in SeedFrames /\ todo \subseteq Groups /\ done \subseteq Groups
    BY <1>2, SeedFrame
<1>6. CASE todo = {}
    <2>1. End(c)
        BY <1>6 DEF BeginGroup
    <2>2. Turn(c, SeedAwaits) /\ ~Of(c, SeedAwaits)'
        BY <1>2, <2>1, SeedEnded DEF Of
    <2> QED
        BY <1>1, <1>2, <1>3, <2>2, RowsSame, SeedSteps
<1>7. CASE todo # {}
    <2> PICK g : g = NextGroup(c)
        OBVIOUS
    <2>1. g \in todo /\ g \in Groups /\ DependenciesOf[g] \subseteq done
        <3>1. NextGroup(c) \in Ready(c)
            <4>1. call[c].todo \subseteq Groups /\ call[c].todo # {}
                BY <1>5, <1>7
            <4>2. \A h \in call[c].todo : DependenciesOf[h] \subseteq call[c].todo \cup call[c].done
                BY <1>4
            <4> QED
                BY <4>1, <4>2, NextIsReady
        <3> QED
            BY <1>5, <3>1 DEF Ready
    <2> PICK tables, find, rest : tables = TablesOf[g] /\ find = FixturesOf(g) /\ rest = todo \ {g}
        OBVIOUS
    <2>2. tables \in Queues /\ tables # <<>> /\ Head(tables) = g /\ find \subseteq Fixtures
        BY <2>1, GroupTables, FixturesApart
    <2>3. PICK frame : frame = [old EXCEPT !.at = "finding-fixtures", !.group = g, !.todo = rest,
                                  !.tables = tables, !.find = find]
        OBVIOUS
    <2>4. call' = [call EXCEPT ![c] = frame]
        <3>1. call' = [call EXCEPT ![c].at = "finding-fixtures", ![c].group = g,
                         ![c].todo = @ \ {g}, ![c].tables = tables, ![c].find = find]
            BY <1>7, <2>2 DEF BeginGroup
        <3> QED
            BY <2>3, <3>1 DEF FramesOK
    <2>5. /\ frame \in SeedFrames
          /\ frame.at = "finding-fixtures" /\ frame.group = g /\ frame.todo = rest
          /\ frame.tables = tables /\ frame.find = find /\ frame.done = done /\ frame.plan = {}
        <3>1. rest \subseteq Groups
            BY <1>5
        <3>2. /\ frame.at = "finding-fixtures" /\ frame.group = g /\ frame.todo = rest
              /\ frame.tables = tables /\ frame.find = find
              /\ frame.done = done /\ frame.plan = old.plan
            BY <1>5, <2>3 DEF SeedFrames
        <3>3. /\ "finding-fixtures" \in SeedAwaits /\ g \in Groups \cup {NULL}
              /\ tables \in Queues /\ find \in SUBSET Fixtures /\ rest \in SUBSET Groups
            BY <2>1, <2>2, <3>1 DEF SeedAwaits
        <3>4. frame \in SeedFrames
            BY <1>5, <2>3, <3>3 DEF SeedFrames
        <3> QED
            BY <1>4, <3>2, <3>4
    <2>6. Turn(c, SeedAwaits) /\ call'[c] = frame /\ Of(c, SeedAwaits)'
        BY <1>2, <2>4, <2>5, SeedFramed DEF Of
    <2>7. GroupHolds(c)'
        <3>1. TableHolds(c, g, g)'
            BY <1>4, <2>1, <2>2, <2>5, <2>6 DEF TableHolds
        <3>2. \A h \in done : Full(h)'
            BY <1>1, <1>4, RowsSame
        <3>3. Head(call'[c].tables) = g
            BY <2>2, <2>5, <2>6
        <3> QED
            BY <2>5, <2>6, <3>1, <3>2, <3>3 DEF GroupHolds, TableHolds, At
    <2>8. ~disturbed => AloneHolds(c)'
        BY <1>1, <1>3, <2>5, <2>6, RowsSame DEF AloneHolds
    <2> QED
        BY <1>1, <1>2, <2>6, <2>7, <2>8, RowsSame, SeedSteps
<1> QED
    BY <1>6, <1>7

\* A step that begins or cuts short a run: of the others nothing changes.
LEMMA SeedOthers ==
    ASSUME FramesOK, SeedInv, NEW c \in Calls, Turn(c, SeedAwaits), UNCHANGED rows,
           NEW d \in Calls \ {c}, Of(d, SeedAwaits)'
    PROVE  GroupHolds(d)'
<1>1. call'[d] = call[d]
    BY TurnOthers
<1> QED
    BY <1>1, RowsSame, GroupStays DEF SeedInv, Of

LEMMA SeedRunInv ==
    ASSUME FramesOK, SeedInv, NEW c \in Calls, SeedRun(c)
    PROVE  SeedInv' /\ Turn(c, SeedAwaits)
<1>1. UNCHANGED <<rows, split>> /\ disturbed' = (disturbed \/ ~Quiet)
    BY DEF SeedRun
<1>2. PICK todo : /\ todo \subseteq Groups /\ \A h \in todo : DependenciesOf[h] \subseteq todo
                  /\ Receive(c, [at |-> "ordering-groups", todo |-> todo, done |-> {},
                                 group |-> NULL, tables |-> <<>>, find |-> {}, plan |-> {}])
    <2>1. PICK r \in SeedRequests :
            /\ Complete(Selected(r))
            /\ Receive(c, [at |-> "ordering-groups", todo |-> Selected(r), done |-> {},
                           group |-> NULL, tables |-> <<>>, find |-> {}, plan |-> {}])
        BY DEF SeedRun
    <2>2. r.entry \in {"command", "bootstrap", "harness"}
        BY DEF SeedRequests, Registries
    <2>3. Selected(r) \subseteq Groups
        <3>1. /\ Registries["command"] \subseteq Groups /\ Registries["bootstrap"] \subseteq Groups
              /\ Registries["harness"] \subseteq Groups
            BY DEF Registries, References, Tests, Groups
        <3> QED
            BY <2>2, <3>1 DEF Selected
    <2> QED
        BY <2>1, <2>3 DEF Complete
<1>3. PICK frame : frame = [at |-> "ordering-groups", todo |-> todo, done |-> {},
                            group |-> NULL, tables |-> <<>>, find |-> {}, plan |-> {}]
    OBVIOUS
<1>4. frame \in SeedFrames
    BY <1>2, <1>3 DEF SeedFrames, SeedAwaits, Queues
<1>5. call[c].at = "idle" /\ call' = [call EXCEPT ![c] = frame]
    BY <1>2, <1>3 DEF Receive, At
<1>6. Turn(c, SeedAwaits) /\ call'[c] = frame /\ Of(c, SeedAwaits)'
    BY <1>4, <1>5, SeedFramed
<1>7. GroupHolds(c)'
    BY <1>2, <1>3, <1>6 DEF GroupHolds, At
<1>8. \A d \in Calls : Of(d, SeedAwaits)' => GroupHolds(d)'
    BY <1>1, <1>6, <1>7, SeedOthers
<1>9. ASSUME ~disturbed'
      PROVE  OneRun' /\ \A d \in Calls : Of(d, SeedAwaits)' => AloneHolds(d)'
    <2>1. Quiet /\ ~disturbed
        BY <1>1, <1>9
    <2>2. \A d \in Calls : ~Of(d, SeedAwaits)
        BY <2>1 DEF Quiet, At, Of, SeedAwaits
    <2>3. \A d \in Calls \ {c} : ~Of(d, SeedAwaits)'
        BY <1>6, <2>2, TurnOthers DEF Of
    <2>4. \A t \in Tables \ References : Whole(t)'
        BY <1>1, <2>1, <2>2, RowsSame DEF SeedInv
    <2>5. AloneHolds(c)'
        BY <1>3, <1>6, <2>4 DEF AloneHolds
    <2> QED
        BY <2>3, <2>5 DEF OneRun
<1>10. disturbed' \in BOOLEAN
    BY <1>1 DEF SeedInv, Quiet
<1> QED
    BY <1>1, <1>6, <1>8, <1>9, <1>10, RowsSame DEF SeedInv

LEMMA CrashSeedInv ==
    ASSUME FramesOK, SeedInv, NEW c \in Calls, CrashSeed(c)
    PROVE  SeedInv' /\ Turn(c, SeedAwaits)
<1>1. UNCHANGED <<rows, split>> /\ disturbed' = TRUE /\ End(c) /\ call[c].at \in SeedAwaits
    BY DEF CrashSeed, Die, At, SeedAwaits
<1>2. Turn(c, SeedAwaits) /\ ~Of(c, SeedAwaits)'
    BY <1>1, SeedEnded
<1>3. \A d \in Calls : Of(d, SeedAwaits)' => GroupHolds(d)'
    BY <1>1, <1>2, SeedOthers
<1> QED
    BY <1>1, <1>2, <1>3, RowsSame DEF SeedInv

LEMMA SeedStepInv ==
    ASSUME FramesOK, SeedInv, NEW c \in Calls, SeedingStep(c)
    PROVE  SeedInv' /\ Turn(c, SeedAwaits)
BY SeedRunInv, BeginGroupInv, FindInv, ReportConflictInv, UpdateFixtureInv, CreateFixtureInv,
   FailToCreateInv, CrashSeedInv
DEF SeedingStep

LEMMA SeedAroundInv ==
    ASSUME FramesOK, SeedInv, SeedingAround
    PROVE  SeedInv' /\ FramesOK' /\ UNCHANGED call
<1>1. UNCHANGED call /\ disturbed' = (disturbed \/ ~Quiet)
    BY DEF SeedingAround, SignUp, ResolveFixture
<1>2. CASE UNCHANGED rows /\ split' \subseteq Splittable
    BY <1>1, <1>2, RowsSame, SeedAlone DEF FramesOK
<1>3. ASSUME NEW f \in Fixtures, rows[f] > 1, rows' = [rows EXCEPT ![f] = 1], UNCHANGED split
      PROVE  SeedInv'
    <2>1. RowsStay /\ \A h \in Fixtures : rows'[h] > 0 <=> rows[h] > 0
        BY <1>3 DEF SeedInv, RowsStay
    <2>2. ASSUME NEW t \in Tables
          PROVE  /\ (\E h \in FixturesOf(t) : rows'[h] > 0) <=> (\E h \in FixturesOf(t) : rows[h] > 0)
                 /\ (\A h \in FixturesOf(t) : rows'[h] > 0) <=> (\A h \in FixturesOf(t) : rows[h] > 0)
        BY <2>1, FixturesApart
    <2>3. DependenciesCameFirst'
        <3>1. \A g \in Groups : g \in Tables /\ DependenciesOf[g] \subseteq Tables
            BY FixturesApart DEF DependenciesOf, Groups
        <3> QED
            BY <2>2, <3>1 DEF SeedInv, DependenciesCameFirst
    <2>4. \A t \in Tables : Whole(t) => Whole(t)'
        BY <2>2 DEF Whole
    <2> QED
        BY <1>1, <1>3, <2>1, <2>3, <2>4, SeedAlone DEF SeedInv
<1>4. SeedInv'
    <2>1. split \subseteq Splittable
        BY DEF SeedInv
    <2>2. SignUp => UNCHANGED rows /\ split' \subseteq Splittable
        BY <2>1 DEF SignUp
    <2>3. ResolveFixture =>
            \/ UNCHANGED rows /\ split' \subseteq Splittable
            \/ \E f \in Fixtures : rows[f] > 1 /\ rows' = [rows EXCEPT ![f] = 1] /\ UNCHANGED split
        BY <2>1 DEF ResolveFixture
    <2> QED
        BY <1>2, <1>3, <2>2, <2>3 DEF SeedingAround
<1> QED
    BY <1>1, <1>4 DEF FramesOK

LEMMA SeedInit1 ==
    ASSUME HandlersInit, SeedingInit
    PROVE  SeedInv
<1>1. \A c \in Calls : ~Of(c, SeedAwaits)
    BY DEF HandlersInit, Idle, Of, SeedAwaits
<1>2. rows = [f \in Fixtures |-> 0] /\ split \subseteq Splittable /\ disturbed = FALSE
    BY DEF SeedingInit, FixturesOf, Splittable
<1>3. \A t \in Tables : \A f \in FixturesOf(t) : ~(rows[f] > 0)
    BY <1>2, FixturesApart
<1>4. DependenciesCameFirst /\ \A t \in Tables : Whole(t)
    BY <1>3, FixturesApart DEF DependenciesCameFirst, Whole
<1> QED
    BY <1>1, <1>2, <1>4 DEF SeedInv, OneRun

-----------------------------------------------------------------------------
(* All parts together *)

LEMMA InitIInv ==
    ASSUME OperationsInit
    PROVE  IInv
<1>1. FramesOK
    BY DEF OperationsInit, HandlersInit, FramesOK, Frames
<1> QED
    BY <1>1, LineageInit1, BoundariesInit1, RolloutInit1, SeedInit1
    DEF OperationsInit, IInv

\* Where no script takes a step none is anywhere else.
LEMMA NobodyMoves ==
    ASSUME UNCHANGED call
    PROVE  \A others : Elsewhere(others)
BY DEF Elsewhere

LEMMA LineageTurn ==
    ASSUME IInv, (\E c \in Calls : LineageStep(c)) \/ LineageAround,
           UNCHANGED <<boundaryRows, rolloutRows, seedRows>>
    PROVE  IInv' /\ Elsewhere(RolloutAwaits)
<1>1. LineageInv' /\ FramesOK' /\ Elsewhere(RolloutAwaits) /\ Elsewhere(SeedAwaits)
    <2>1. ASSUME NEW c \in Calls, LineageStep(c)
          PROVE  LineageInv' /\ FramesOK' /\ Elsewhere(RolloutAwaits) /\ Elsewhere(SeedAwaits)
        <3>1. LineageInv' /\ Turn(c, LineageAwaits)
            BY <2>1, LineageStepInv DEF IInv
        <3> QED
            BY <3>1, TurnOthers, TurnElsewhere, PartsApart DEF IInv
    <2> QED
        BY <2>1, LineageAroundInv DEF IInv
<1> QED
    BY <1>1, BoundariesRest, RolloutRest, SeedRest DEF IInv

LEMMA BoundariesTurn ==
    ASSUME IInv, BoundariesAround, UNCHANGED <<lineageRows, rolloutRows, seedRows>>
    PROVE  IInv' /\ Elsewhere(RolloutAwaits) /\ (created # NULL /\ created' = NULL => parts' = original)
BY BoundariesAroundInv, NobodyMoves, LineageRest, RolloutRest, SeedRest DEF IInv

LEMMA RolloutTurn ==
    ASSUME IInv, (\E c \in Calls : RolloutStep(c)) \/ RolloutAround,
           UNCHANGED <<lineageRows, boundaryRows, seedRows>>
    PROVE  IInv'
<1>1. RolloutInv' /\ FramesOK' /\ Elsewhere(LineageAwaits) /\ Elsewhere(SeedAwaits)
    <2>1. ASSUME NEW c \in Calls, RolloutStep(c)
          PROVE  RolloutInv' /\ FramesOK' /\ Elsewhere(LineageAwaits) /\ Elsewhere(SeedAwaits)
        <3>1. RolloutInv' /\ Turn(c, RolloutAwaits)
            BY <2>1, RolloutStepInv DEF IInv
        <3> QED
            BY <3>1, TurnOthers, TurnElsewhere, PartsApart DEF IInv
    <2> QED
        BY <2>1, RolloutAroundInv, NobodyMoves DEF IInv
<1> QED
    BY <1>1, LineageRest, BoundariesRest, SeedRest DEF IInv

LEMMA SeedTurn ==
    ASSUME IInv, (\E c \in Calls : SeedingStep(c)) \/ SeedingAround,
           UNCHANGED <<lineageRows, boundaryRows, rolloutRows>>
    PROVE  IInv' /\ Elsewhere(RolloutAwaits)
<1>1. SeedInv' /\ FramesOK' /\ Elsewhere(LineageAwaits) /\ Elsewhere(RolloutAwaits)
    <2>1. ASSUME NEW c \in Calls, SeedingStep(c)
          PROVE  SeedInv' /\ FramesOK' /\ Elsewhere(LineageAwaits) /\ Elsewhere(RolloutAwaits)
        <3>1. SeedInv' /\ Turn(c, SeedAwaits)
            BY <2>1, SeedStepInv DEF IInv
        <3> QED
            BY <3>1, TurnOthers, TurnElsewhere, PartsApart DEF IInv
    <2> QED
        BY <2>1, SeedAroundInv, NobodyMoves DEF IInv
<1> QED
    BY <1>1, LineageRest, BoundariesRest, RolloutRest DEF IInv

\* What a step that is none leaves.
LEMMA StutterIInv ==
    ASSUME IInv, UNCHANGED operationsVars
    PROVE  IInv' /\ Elsewhere(RolloutAwaits)
<1>1. UNCHANGED <<call, lineageRows, boundaryRows, rolloutRows, seedRows>> /\ FramesOK'
    BY DEF IInv, operationsVars, FramesOK
<1> QED
    BY <1>1, NobodyMoves, LineageRest, BoundariesRest, RolloutRest, SeedRest DEF IInv

LEMMA NextIInv ==
    ASSUME IInv, [OperationsNext]_operationsVars
    PROVE  IInv'
BY LineageTurn, BoundariesTurn, RolloutTurn, SeedTurn, StutterIInv DEF OperationsNext

\* The other parts have none of the documents' tables.
LEMMA NextFindable ==
    ASSUME IInv, IInv', [OperationsNext]_operationsVars
    PROVE  [\A d \in Docs : Findable(d) => Findable(d)']_rolloutRows
<1>1. CASE UNCHANGED rolloutRows
    BY <1>1
<1>2. CASE (\E c \in Calls : RolloutStep(c)) \/ RolloutAround
    BY <1>2, ExternalStays, FindableStays DEF IInv
<1> QED
    BY <1>1, <1>2 DEF OperationsNext, operationsVars

LEMMA NextRestores ==
    ASSUME IInv, [OperationsNext]_operationsVars
    PROVE  [created # NULL /\ created' = NULL => parts' = original]_boundaryRows
BY BoundariesTurn DEF OperationsNext, operationsVars

-----------------------------------------------------------------------------
(* The theorems *)

\* The invariants of the four parts hold together in every behaviour.
THEOREM OperationsInvariant == OperationsSpec => []IInv
BY InitIInv, NextIInv, PTL DEF OperationsSpec

\* However many runners and onboardings overlap, a migration has one row at most in
\* the ledger: the ledger itself has no unique key.
THEOREM MigrationsRegisteredOnce == OperationsSpec => []RegisteredOnce
<1>1. IInv => RegisteredOnce
    BY DEF IInv, LineageInv
<1> QED
    BY <1>1, OperationsInvariant, PTL

\* What the ledger says was applied is in the schema.
THEOREM LedgerIsTrue == OperationsSpec => []LineageIsTrue
<1>1. IInv => LineageIsTrue
    BY DEF IInv, LineageInv
<1> QED
    BY <1>1, OperationsInvariant, PTL

\* The revert of the boundary migration gives back what was there before it.
THEOREM BoundariesComeBack == OperationsSpec => RevertRestores
<1>1. IInv /\ [OperationsNext]_operationsVars
      => [created # NULL /\ created' = NULL => parts' = original]_boundaryRows
    BY NextRestores
<1> QED
    BY <1>1, OperationsInvariant, PTL DEF OperationsSpec, RevertRestores

\* Once the verification has passed every path is that of its row's file, which has been read
\* and has the status of the review, whatever was reviewed meanwhile, except where a review is
\* under way or has gone astray.
THEOREM TheGateHolds == OperationsSpec => []GateHolds
<1>1. IInv => GateHolds
    BY RolloutImplies DEF IInv
<1> QED
    BY <1>1, OperationsInvariant, PTL

\* No step of the migration, up or down, of the tool, where it dies too, or of a review makes
\* a document one that neither its row nor the metadata of its object leads to.
THEOREM DocumentsAreNotLost == OperationsSpec => NothingIsLost
<1>1. IInv /\ IInv' /\ [OperationsNext]_operationsVars
      => [\A d \in Docs : Findable(d) => Findable(d)']_rolloutRows
    BY NextFindable
<1> QED
    BY <1>1, OperationsInvariant, PTL DEF OperationsSpec, NothingIsLost

\* Runs of the seeds that come one after the other leave each table whole or untouched.
THEOREM TablesAreWhole == OperationsSpec => []GroupsAreWhole
<1>1. IInv => GroupsAreWhole
    <2> SUFFICES ASSUME SeedInv, Quiet, ~disturbed, NEW t \in Tables \ References
                 PROVE  Whole(t)
        BY DEF IInv, GroupsAreWhole, Whole
    <2>1. \A c \in Calls : ~Of(c, SeedAwaits)
        BY DEF Quiet, At, Of, SeedAwaits
    <2> QED
        BY <2>1 DEF SeedInv
<1> QED
    BY <1>1, OperationsInvariant, PTL

\* Whatever runs overlap or die, a group that has rows has those it depends on.
THEOREM DependenciesAreThere == OperationsSpec => []DependenciesCameFirst
<1>1. IInv => DependenciesCameFirst
    BY DEF IInv, SeedInv
<1> QED
    BY <1>1, OperationsInvariant, PTL
=============================================================================
