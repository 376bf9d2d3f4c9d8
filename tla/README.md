# A formal model of the AgriLink backend

TLA+ modules, TLC configurations and TLAPS proofs for the NestJS / PostgreSQL backend in this
repository. Paths below are relative to the repository root. `PROJECT.json` maps every
definition to the lines it translates, and lists the runs, the mutants that test each property, the
hazards and the theorems.

## 1. The system and its parts

The backend is one Node.js process (or several behind a load balancer) on one PostgreSQL database.
It holds almost no state in memory. What can go wrong happens between SQL statements: requests
interleave at every `await`, transactions run at READ COMMITTED, a process may die at any point,
and clients retry with the same `Idempotency-Key`.

| Part | State | Operations | Interacts with | Hard behaviour | What makes it correct |
|---|---|---|---|---|---|
| Commerce ledger (`commerce`, unit of work) | `commerce_operations`, unique by actor, type and key | claim, complete, replay, conflict | called in the transactions of Orders, Payments, Contracts | waiting INSERTs, crash between claim and commit, retries | an operation applies at most once, with its change or not at all |
| Payments | `payments`: status, refunded amount, version | create, mark paid, refund | reads Orders; ledger | concurrent refunds between read and conditional UPDATE | no refund lost, totals within the amount, status agrees with amount |
| Orders | `orders`, items, `order_status_history` | create, transition | reads Products; ledger | racing transitions, price changing under a creation | history is the walk to the status, terminal orders rest, price is the fingerprinted one |
| Contracts | `purchase_requests`, `contracts` | create, close, cancel; create, sign, transition | ledger | row locks between two tables, two parties signing | allocation within the need, a contract in force is signed by both, signatures stay |
| Storage | `stored_files`, objects at a provider | upload, complete, attach, detach, review, delete, cleanup cron | Profiles, Admin, Products, cloud providers | unconditional status updates, cron against requests, provider failing half way | a deleted file stays deleted, an attached file has its object, retries end |
| Profiles | farmer, enterprise, cooperative profiles with verification status | upsert with files, transition, restore | Storage, Admin | compensation instead of a transaction | an approved profile shows only reviewed files |
| Admin | audit log | verify profile, lock account, moderate product, ad, post | Profiles, Storage, Auth, Users, Products | saga of several commits, audit retried | every transition audited once, failure restores what was done |
| Auth | refresh tokens, one-time codes | login, rotate, logout, revoke all, OTP | Users | rotation racing a lock, code limit checked before insert | a locked account has no live token, one rotation per token |
| Users | accounts and status | change status, profile data | Auth, Admin | status row lock | no transition from a terminal status |
| Products | products, images, certifications, wishlist | create, update, status, images | Orders (commerce reader), Admin, Storage | read-check-save without comparing | moderation decision not overwritten, one primary image |
| Forum | posts, comments, likes, counters | edit, like, comment, hide | Admin | counters beside rows, no transaction | counter equals number of rows |
| Traceability | batches, append-only events, projection | create, append, read | Products | row and advisory locks, replay by operation key | gap-free sequence, one event per key |
| Ads | campaigns, events | create, moderate, pause, resume, track | Admin, Notifications | check then unconditional update | only approved campaigns run |
| Reviews | reviews | create, reply, hide | Orders, Products | uniqueness by index only | one review per buyer and product |
| Notifications | notifications | publish, mark read | all | best-effort push after insert | a push never precedes its row |
| Migrations and onboarding | `migrations_v2`, the schema, committed manifest and inclusion matrix, onboarding plan | run, revert, onboard, build artefacts, seed packages | everything with a table | several operators, an advisory lock taken after the checks, crashes | what is registered is there, nothing is registered twice |
| Boundary migration (legacy lineage) | `p3_phase_1_migration_state`, tables, constraints, indexes | up, down, changes by hand | cooperatives | tables may be there before | down restores what was there |
| Rollout of private documents | document columns, `stored_files`, objects | migrate, apply, finalize, verify, revert | Storage, Profiles | operators and reviews side by side, copies half way | no document lost or stored twice, `verify` is a gate |
| Seeds | rows of fixtures, by group | seed from the command, the bootstrap, the tests | everything with a table | no transaction, overlapping runs | a group is whole or untouched, dependencies first |
| Cooperatives, Geography, Market prices, HTTP guards and interceptors, shared integrations, discovery scripts | - | plain reads and writes, stubs, external calls, reports | - | none beyond single statements | - |

Every part with state of its own that more than one statement changes is modelled; section 6 says what is
left out of each and why the last row of the table is.

## 2. Modules

Commerce and Storage:

- `VersionedAggregate`: the abstract specification. Operations apply at most once, in one step, to
  the current version of an aggregate, and make the next one. It is what ADR 0008 promises; it has
  no tables, transactions or checks.
- `CommerceLedger`: the ledger table and the life of one call, extended by the next three.
- `Payments`, `Orders`, `Contracts`: one module per Commerce aggregate.
- `StoredFiles`: private files.

Handlers of the other modules of the backend:

- `Handlers`: the frames of requests being served, extended by all that follow.
- `ProfileVerification`: a profile, its documents, its verification by Admin and the audit.
- `Notifications`; `Products` and `Ads`, which extend it.
- `Forum`, `Traceability`, `Reviews`; `Community` composes them with `Ads`.
- `Accounts` (Users and one-time codes); `Sessions` (refresh tokens, account status) extends it.

What operators run:

- `Lineage` (the v2 migrations and onboarding), `Boundaries` (one legacy migration),
  `DocumentRollout`, `Seeding`; `Operations` composes them.

Proofs: `Payments_proofs`, `Orders_proofs`, `Contracts_proofs`, `StoredFiles_proofs`, `Sessions_proofs`,
`Community_proofs`, `ProfileVerification_proofs`, `Operations_proofs`. Instances for TLC: `MCPayments`,
`MCOrders`, `MCContracts`, `MCStoredFiles`, `MCProfileVerification`, `MCCatalogue` (Products with Notifications),
`MCPlatform` (Community and Sessions), `MCOperations`.

### A call, stage by stage

`Calls` are slots in which mutations are served. A call goes through the stages in `pc`, each one
await point of the code:

| Stage | Code |
|---|---|
| `idle` | no request; `ReceiveRequest` takes any request of the instance, a retry of an earlier one included |
| `checking` | the use case reads committed rows and applies role, ownership and domain checks, outside a transaction |
| `claiming` | `claim()`: `INSERT ... ON CONFLICT DO NOTHING`. While another open transaction holds the key, PostgreSQL makes the statement wait, so neither claim is enabled. A committed row ends the call: conflict, in progress, or replay |
| `reading` | the transaction's own `findOne`, followed by ownership and domain checks; Contracts add `summing` for `readAllocated` under `FOR UPDATE` |
| `writing` | INSERT, or UPDATE guarded by the client's version and the status that was read. Only a matching row makes it wait for the row's lock; Contracts add `rereading`, the fallback of a signature whose UPDATE matched nothing |
| `committing` | everything is written and `complete()` has marked the ledger row; COMMIT publishes it and releases the locks |

`lock[a]` is the open transaction that wrote (or selected for update) row `a`; `pending[c]` is the
row it wrote, `entity[c]` the row it read. Others see only committed rows. `CrashCall` rolls back at
any stage; a COMMIT whose answer is lost is `Commit` followed by the same request received again.
A request record holds what the fingerprint covers, so equal requests have equal fingerprints.

Abstractions: money and quantities are small naturals (the 2- and 3-decimal strings are exact
decimals in the code, never floats); the items and fees of an order are one price; timestamps,
addresses and descriptions are left out; a replay reads and answers without writing, so it
only ends the call. A statement is one atomic step, as PostgreSQL guarantees for one row.
`acknowledged` in Payments is a history variable: the refunds whose transactions committed.

### Private files

`StoredFiles` keeps the row of `stored_files` (`files`) and the object under its key (`bucket`) for
each file. Workers change them: `Calls` are requests being served, `Sweeps` are records the cleanup
job took up, several of which run at once (`Promise.all`, and a next run of the cron does not wait
for the last). The stages of a worker are its await points:

| Stage | Code |
|---|---|
| `reading` | `findByIdForOwner` or `findById` and the checks on what it returned (`AfterRead`); the file may change from here on |
| `examining` | `exists`, `download` and `validatePrivateContent` of a completion |
| `removing` | `fileStorage.delete`; a sweep starts here, from the snapshot it took |
| `marking` | the provider, or in a sweep the database, failed: `markDeletionRetry` |
| `writing` | the UPDATE: of `updateStatus`, without a condition, or of `attachToResource` and `detachFromResource`, with one |
| `reviewed`, `restoring` | a review that belongs to the verification of a profile may be undone by `restoreReviewedFile` |

The client uploads through its signed URL (`Upload`) and `expires_at` passes (`Expire`) at any time.
Abstractions: a call is made by the owner or an authorised reviewer on a file of the right asset
type (the other cases end the call without a change); `validated` stands for the
checksum and the detected MIME type, and says nothing of the object there is now: the history variable `removed` says which
objects a deletion took since they passed validation; a content is `document` or `garbage`; the attempts of
`runWithProviderResilience` are one step with its outcome, where a timed-out attempt may have
removed the object (that it does so even later, after the call went on, is left out);
`deletion_attempts`, which nothing reads, is left out; the check and the UPDATE of `restoreReviewedFile`
are one step, as the UPDATE repeats the check. The signed upload URL is assumed to be good until
`expires_at` and not to replace an object.

### Handlers

Outside Commerce a request is an async function, and `Handlers` models it as one: `call[c]` is the frame of
the request in slot `c`, the await it has reached (`at`, named for what is awaited: `"saving like"`,
`"marking used"`) and the local variables it goes on with. An action is what the handler does from one await to the
next: one statement with what the code computes around it, or a transaction whose statements nothing can
come between. `Receive` starts a handler, `Die` ends it at any await with what it has written so far.
Statements of a transaction that others do wait for (`Traceability`, the runner of `Lineage`) have stages
of their own, with the rows they wrote kept in the frame until the commit.

A behaviour serves one *mix* of operations, chosen at the start: `Mixes` names, by their first await, the
operations served together. Operations that touch no common row are never in one mix,
so an instance covers many operations without the product of all of them. The mixes of a run are
listed in its MC module.

| Module | State | Actions |
|---|---|---|
| `ProfileVerification` | the profile row with its `updated_at`, status and resource of each file, audit rows | `Submit` .. `Retire`: a save attaches new files one by one, saves the profile, retires replaced files, and detaches what it attached when a step fails. `Verify` .. `Audit`: the decision by a conditional UPDATE on `updated_at` and status, the review of all files, their restoration, the reopening of the profile, three attempts at the audit. An UPDATE that went through and whose answer was lost is an action of its own (`AttachUnanswered`, `DecisionUnanswered`, `ReviewUnanswered`) |
| `Products` | status, images, certifications, their files, wishlists, audit rows | load, edit, save with cascade; `ModerateStatus`, the re-reading and its audit; images with the primary flag; certifications attached and inserted, verified, read again, restored, dropped; a write may go through and its answer be lost |
| `Notifications` | rows of all users, realtime events | publish (awaited by others), mark one or all as read |
| `Forum` | a post with its counters, likes, comments | every statement of like, comment, uncomment, view, edit and removal |
| `Traceability` | committed events | `CreateBatch` under an advisory lock, `AppendEvent` under the batch's row lock, the replay of a key and the unique violation answered as one |
| `Reviews` | the review of each buyer | create, reply and hide, each found, judged, and written by a conditional UPDATE |
| `Ads` | campaigns, counted views | create, pause and resume (unconditional), moderate (conditional), read again and notify, track |
| `Accounts` | accounts, codes, time | register, Firebase sync, send, verify and consume a code, change one's account |
| `Sessions` | refresh tokens, audit rows | log in, rotate, log out, `ChangeStatus` under a row lock, then `Revoke`, then the audit |
| `Lineage` | schema, ledger, packages, manifest, matrix, plan | `MigrationRun` (TypeORM's runner is external), `RevertLast`, the onboarding from preflight to confirmation, the writers of the artefacts, the package seed, changes by hand |
| `Boundaries` | tables, constraints and indexes, what up created | up, down, an operator's changes, foreign rows resolved |
| `DocumentRollout` | document columns, files, objects | migration up and down, `apply`, `finalize`, `verify`; the review of a document with the decision, the review of its file and the compensation in statements of their own |
| `Seeding` | rows of each fixture, fixtures split over two rows | guards, order of the groups, find, report a conflict, update, create; a sign-up that takes a fixture's key |

History variables say what a property is about and what no row records: requests answered with success
(`answered`, `replied`, `verdicts`), decisions that stand, how often a code was consumed, the login a token
stems from. `disturbed`, `mixed`, `crashed`, `unsent` and `unconfirmed` say that something
happened which the code by its own documents leaves to reconciliation: a handler died between two commits,
a compensation failed, the answer of a write was lost, two requests met on a row that has no guard. `removed` and
`astray` say it of one row: a deletion took its object, a review of it stopped half way. Properties that speak of consistency in
the end exempt behaviours in which it did, and no others; the exempted disagreements are stated as definitions
of their own (section 3).

## 3. Runs

Deadlock is checked in every run. Passing runs:

| Run | Question | Instance |
|---|---|---|
| `payments` (177k states) | Refunded at once or over three partial refunds: is no refund lost, is each version one operation's, is `VersionedAggregate` implemented? | one order of 3 VND, buyer and administrator, 2 calls, 3 keys, refunds of 1 or 3, versions 1 to 4 |
| `payments_liveness` (3k) | Does every call end? | buyer, seller, administrator, 2 calls, 1 key |
| `orders` (159k) | Buyer and seller race to create, confirm, prepare and cancel while the price changes: is the history the walk to the status and does it agree with the ledger, is the price the fingerprinted one, is `VersionedAggregate` implemented? | one order, 2 calls, 3 keys, 2 prices |
| `contracts` (584k) | Two contracts are drawn while the request is closed or cancelled: is the allocation within the need, do ended requests rest? Both parties sign, sign again, cancel, complete: is a contract in force signed by both, is no acknowledged signature lost, none invented? | need of 1 or 2; a behaviour draws contracts or signs one (`part`) |
| `storage` (246k) | Two requests and a cleanup in every order, with crashes and failures: is what a quarantined or reviewed record names what passed validation, unless a deletion took it since, does one resource own a file, does a failed deletion end? | one file, 2 calls, 1 sweep, 2 resources |
| `profiles` | Do files follow the decision and the columns after every compensation, is each transition audited once, does no compensation take back another's verdict? | farmers and cooperatives one request at a time, enterprises two overlapping; 3 files, 2 reviewers |
| `catalogue` | Does the audit tell what the moderation replaced, do certifications agree with their files, does one reviewer win a certification? | one product, 2 calls, 3 images, 2 certifications, 6 mixes |
| `platform` | Do counters add up, are timelines without a gap and appends not in each other's way, do replies stay, are suppliers told; are codes used once and limited, is a login worth one token, is a locked account out from now on, is each change audited? | 2 calls, 12 mixes |
| `operations` (918k) | Is no migration registered twice or falsely, is no document lost, does the gate of the rollout hold, are seed groups whole, does down restore? | 2 scripts at a time, 7 mixes |

Runs that TLC must find violated, each a disagreement between a document and the code:

- `payments_pipelined`: decision pack, line 51, "Refund totals cannot exceed the paid amount". The UPDATE compares
  the stored version with the version the *client* sent, not with the version of the row that was
  read. A client that sends version v+1 before it has been shown it gets its refund computed from
  version v. The recorded total stays within the amount, but it forgets a committed refund, so the
  acknowledged refunds exceed it. `payments` shows that this cannot happen when clients
  send only versions they have been shown (`OnlySeenVersions`).
- `storage_lifecycle`: storage policy, line 146, "Invalid state transitions must be rejected". A
  completion or a review that read the file before it was deleted writes its status over `DELETED`:
  the checks are made on the row that was read, and the UPDATE repeats none of them.
- `onboarding`: ADR 0004, lines 71-72, onboarding "registers the exact baseline after all guards pass".
  `V2_LINEAGE` names two migrations while the canonical schema the guards compare has the tables of more. The
  trace first writes manifest and decision matrix anew from the sources: with the committed matrix, which lacks the
  tables of traceability, no such database passes the guards. Then an onboarded database calls migrations pending whose tables it has, and the next
  `migration:run` fails on the first `CREATE TABLE`.

Disagreements kept as definitions without a run of their own. Each is found by TLC when the definition
is put in place of the properties of the .cfg named:

| Definition | Config | Against | What TLC finds |
|---|---|---|---|
| `ReplayReachable` (Payments) | `MCPayments.cfg`, invariant | decision pack, line 73, "Same key and fingerprint replays the stored result" | `markPaid` and a full refund are judged on the current row before the ledger is asked, so the retry of an applied operation is refused with a domain error. It is not applied twice |
| `KeyScopeRespected` (Orders) | `MCOrders.cfg`, invariant | line 70, scope `(actor_id, operation_type, idempotency_key)` | the history is unique by order and key alone, so a key another actor or the creation used refuses a transition the ledger accepted |
| `SweepsSpareCompleted` (StoredFiles) | `MCStoredFiles.cfg`, property | storage policy, lines 144-146, the cleanup "removes expired pending objects" | an upload completed after the cleanup's snapshot loses its object |
| `OneReviewerWins` (Products) | `MCCatalogue.cfg`, invariant | ADR 0007, item 9 | an edit of the product saves, by cascade, the certification as it had loaded it before a review; the decision is gone although its reviewer was answered, and a second reviewer decides it again. `UndisturbedReviewerWins` is what is left: without such a save, a crash, a failed compensation or a lost answer one reviewer wins |
| `AuditsTellTheChange` (Products) | `MCCatalogue.cfg`, invariant | the audit row of a moderation, `admin.service.ts:399-408`, which names a previous and a new status | the new status is read by a SELECT after the UPDATE; the seller or another moderator changed it in between, and the row tells a change nobody made. `AuditsTellWhatChanged` is what is left: the previous status with the one that was asked for is a change that was made |
| `ShownIsValidated` (StoredFiles) | `MCStoredFiles.cfg`, invariant | storage policy, lines 167-168, the server validates signature bytes and the final detected type | a deletion takes the object and its process dies before it writes DELETED; the upload URL, still good, takes any content, and the record is still QUARANTINED or ACTIVE. `ReviewedWasValidated` says that there is no other way |
| `RefusalsAreTrue` (DocumentRollout) | `MCOperations.cfg`, invariant | `storage-phase9-rollout.ts:397`, "Legacy record was already migrated concurrently" | the test before it, `update.length !== 1`, compares the pair `[rows, count]` that `query()` of TypeORM 0.3.30 (package-lock.json:13494) answers an UPDATE with: every copy is taken back for a race nobody ran. Line 458 has the same test: the run ends after its first hydration. So external documents are never cut over, and a path finalized before it was hydrated is no candidate any more, so that `verify` fails from then on |
| `LockedHasNoSession` (Sessions) | `MCPlatform.cfg`, invariant | ADR 0005, item 6 | the status is read before the transaction that inserts or rotates a token: an account locked and swept in between has a live token |
| `ApprovedShowsReviewed` (ProfileVerification) | `MCProfileVerification.cfg`, invariant | rollout runbook, approval moves linked files to ACTIVE | the documents of the row read before the decision are reviewed; the owner replaced one in between |
| `DocumentsAreKept` (ProfileVerification), with `Offered <- OfferedForBoth` | `MCProfileVerification.cfg`, invariant | rollout runbook, the previous file is retired | a file moved from one column to another by one save is retired as the previous file of the first |

`contracts` lets signers send only versions they have been shown (`Served`): with a version in
advance TLC finds an acknowledged signature cleared. No document states
that property, so it is a hazard and not a finding.

Definitions that hold and are in no run because a deeper property or a theorem stands for them: the type invariants,
the inductive invariants, `OneWinnerPerVersion`, `StatusTellsRefunds`, `ReplayFindsResult`, `TerminalOrdersRest`
`ModerationsAlternate`, `AnsweredAsStored`, `DecisionStands`, `ReadOnce`, `DependenciesCameFirst`
(all proved), `PrimaryImagesAreFew`, `CodesFollowFingerprints`. Any of them can be added to the .cfg of its module.

### Bounds, and why they are enough

- Two calls: every conflict in the code is between two requests on one row, and slots are reused,
  so a third party comes by as a later call. Keys: enough for every operation of the life of a row plus a
  repeated one. Versions: the length of that life.
- A total of 3 VND gives a partial refund, a second partial one and the exact boundary.
- `Lag` and `Lead` bound how far the version of a Contracts request is behind or ahead of the stored one. One
  behind is stale; further behind is refused in the same way.
- `Aggregates`, `PurchaseRequests`, `ContractIds`, `MaxEvents`, `MaxImages`, `MaxCerts`, `MaxInbox`, `MaxCodes`,
  `MaxTokens` bound the rows ever created; `MaxMoves`, `MaxTurns`, `MaxChanges`, `MaxStamp` the changes of one row. Each leaves room for one
  more than it takes two requests to disturb each other.
- `SigningInit` starts where the two parties may sign. The steps before it are legal transitions
  of the same module by one party at a time, and their ledger rows carry other keys.
- One file, one product, one post, one profile: no operation relates two of them, except the files of a
  profile, of which there are three, and the documents of the rollout, one of each kind with a spare file id.
- `Overlapping`: requests overlap on profiles with one document, and come one after the other, with every
  failure and compensation, on profiles with two. The interplay of two requests is about one file; that
  of two files about one request's half-done work.
- Time: `clock` counts units of five minutes, the life of a code, and stops after the first: codes and tokens
  issued at the start expire, and the ten-minute window of the limit never slides.
- `FewConflicts`: one fixture is split over two rows at a time; `OneEnvironment`: the tests have a
  database of their own; `FewFaults`: runs of the seeds overlap, or somebody signs up during one, once.
- The rollout runs in two mixes: the tool with the migration up and down, and the tool with the reviews. What a
  review knows of its document is its link, which a revert would drop: the backend runs while the columns exist.
- Symmetry is over call slots and over ids which nothing compares except for equality; no run with
  symmetry checks liveness.
- One order: every clash is on one row, and a second creation with the same key ends at the ledger. The
  run cannot create a second order beside the first.

## 4. Fairness

`FairSpec` of Payments assumes weak fairness of Check, Read and Commit (the event loop and the
database run a statement that waits for nothing) and strong fairness of Claim and Write (they wait
for other transactions, again and again disabled and enabled; PostgreSQL queues lock waiters). Receiving a
request and crashing are not fair. Under it `CallsEnd` holds: a call holds its ledger row while it
waits for a payment row, whose holder is at `committing` and waits for nothing.

`FairSpec` of StoredFiles is fair to the cleanup alone: strong fairness of starting a sweep on a due
file (the cron runs every five minutes and takes every due record, also after a restart), of
`RemoveObject` and of `WriteDeletion` (the provider and the database succeed if asked again and
again, though each attempt may fail), weak fairness of `MarkDeletionRetry`. Nothing is assumed of
clients, requests or crashes. A sweep dies by a crash any number of times; `RetriesEnd` needs one to
be let through in the end.

The other modules state safety only: none of their handlers waits for anything but a row lock held by a
transaction that waits for nothing, and what a document promises in the end (an audit row, a notification, a
restored file) the code gives up after a failure instead of repeating it.

## 5. Proofs

`Payments_proofs` proves, for any calls, actors, keys, orders and amounts, from the named
assumptions `NullAssumption` (no call is the null value) and `PaymentsAssumption` (the types of the
constants):

| Theorem | Statement |
|---|---|
| `InvariantOfSpec` | `Spec => []IInv` |
| `TypeCorrect` | `Spec => []TypeOK`, recorded refunds within the amount included |
| `ReplaySucceeds` | `Spec => []ReplayFindsResult` |
| `OneWinner` | `Spec => []OneWinnerPerVersion` |
| `VersionsCountOperations` | `Spec => []EveryVersionHasItsOperation` |
| `StatusAgrees` | `Spec => []StatusTellsRefunds` |
| `PromiseKept` | `Spec => KeepsPromise`: Payments implement `VersionedAggregate` |
| `NoRefundLost` | `Spec => [](OnlySeenVersions => RefundsAddUp)` |

None of these is inductive alone. `IInv` adds what the interleavings need: an open transaction owns
exactly the ledger row of its key (`ClaimsMatchCalls`); a row lock belongs to the transaction that
wrote the row (`LocksMatchCalls`), so the committed row cannot move between the write and the
COMMIT; a transaction at `writing` read a row the domain accepted (`ReadsAccepted`); what is written
is the next version of the committed row (`WritesAreNext`); committed operations named past
versions (`VersionsUsed`). The last two make each version the work of one operation. For
`NoRefundLost`, `IInvSeen` adds that the row read is at least as new as the version the client
named (`ReadsAreFresh`): if the UPDATE then finds that version, it rewrites the very row that was
read. For `StatusAgrees`, which needs no condition on clients, `TellingParts` says the same of rows about
to be committed (`ChangedTells` is the argument). Each action has a lemma per conjunct it can disturb. TLC found
both invariants to hold on the instance of `payments` before they were proved.

`StoredFiles_proofs` proves, for any requests, cleanup jobs, files and resources, from
`StoredFilesAssumption` (a slot is a request or a sweep, not both; no resource is the null value):

| Theorem | Statement |
|---|---|
| `InvariantOfSpec` | `Spec => []IInv` |
| `OnlyValidatedReviewed` | `Spec => []ReviewedWasValidated` |
| `AttachmentsClaimed` | `Spec => AttachmentsAreClaimed` |

`ReviewedWasValidated` is not inductive: a verdict is written on whatever status the file has by
then. `VerdictsOnValidated` adds that a reviewer who is about to write found the file quarantined, hence
validated, and that no step takes this back, which is why the property survives the overwriting that
`storage_lifecycle` shows. `ValidatedStays` says of the object what the property says of the record, also between the
examination of a content and the UPDATE that records it: nobody uploads over an object, and a deletion that takes one is
remembered in `removed` until a content passes again. `StagesMatchKinds` ties stages to kinds of requests. `WorkerStep` is the one
lemma for all steps that rewrite a record, `WorkerLooks` for those that do not.

`Orders_proofs` proves, for any calls, actors, keys, orders and prices, from `NullAssumption` and
`OrdersAssumption`:

| Theorem | Statement |
|---|---|
| `InvariantOfSpec` | `Spec => []IInv` |
| `TypeCorrect` | `Spec => []TypeOK` |
| `HistoryCorrect` | `Spec => []HistoryIsTheWalk` |
| `HistoryHasItsOperations` | `Spec => []HistoryMatchesLedger` |
| `PriceIsFingerprinted` | `Spec => []ChargedAsFingerprinted` |
| `EndedOrdersRest` | `Spec => TerminalOrdersRest` |
| `PromiseKept` | `Spec => KeepsPromise`: Orders implement `VersionedAggregate` |

`IInv` is stated per call (`CallMatches`, `RowMatches`, `ReadMatches`): an open
transaction owns the ledger row of its key, and the row lock of what it wrote; what it read was accepted by the
state machine for its role; what it wrote is the next row of the committed one (`WrittenIsNext`), which its
lock keeps from moving until the COMMIT. `CommitEffect` draws from it what a commit does to the tables: one row,
one ledger row, one history row. The history theorems are inductions over steps with this one lemma: a commit
appends the step from the last status to the new one, every other step leaves tables and history
alone (`OtherStepsKeep`).

`Sessions_proofs` proves, for any accounts, codes and tokens, any number of requests at a time and any mix of
operations, from `AccountsAssumption`, `SessionsAssumption` (the bounds are naturals), `SlotsAssumption` (finitely
many requests at a time) and `SeededAccountsAssumption`, `SeededTokensAssumption` (the rows a behaviour starts with are
typed, codes unused and within the limit, tokens of accounts that may log in):

| Theorem | Statement |
|---|---|
| `InvariantOfSpec` | `SessionsSpec => []IInv` |
| `TypeCorrect` | `SessionsSpec => []SessionsTypeOK` |
| `CodesUsedOnce` | `SessionsSpec => []CodesAreUsedOnce` |
| `RotationIsExclusive` | `SessionsSpec => []OneLiveTokenPerLogin` |
| `LockedOut` | `SessionsSpec => []LockedOutFromNowOn` |
| `CountsInvariant` | `SessionsSpec => [](IInv /\ CodesInHand /\ AuditsOwed)` |
| `CodesLimited` | `SessionsSpec => []CodesAreLimited` |
| `ChangesAudited` | `SessionsSpec => []ChangesAreAudited` |

Each is about rows that were read in one statement and written in a later one, so `IInv` says what a request
in between still knows (`FramesHold`). Two facts carry it. The stage of a frame tells which local variables it
has (`Frames`, `FrameShapes`). And what a frame was read from stays: rows are never removed, the owner of a
token never changes, and `Begun(u, n)` (the account could log in when it had been locked n times) is never taken
back (`Grows`, `FrameKept`), whatever other requests did since. The conditional UPDATEs do the rest: a code that
is unused has been consumed by nobody (`UnusedMeansUnused`), and the token put in place of a rotated one is the
only live one of its login, because a login is named by the index of its first token. `TokensBegun` then gives
`LockedOut`: a token that is live while its account is locked was begun before the last lock.

The limit of codes is counted in one statement and the code stored in a later one, so it is exceeded by as many
requests as count at the same time, and by no more: `CodesInHand` says that the recent codes of an address and the
requests that have counted and not stored make `Limit` plus the other slots at most. `AuditsOwed` says the
same of the audit: its rows and the changes whose handlers have still to write theirs are the changes made.

`Contracts_proofs` proves, for any calls, actors, keys, purchase requests, contracts and versions, from
`NullAssumption`, `ContractsAssumption` and `ContractRowsAssumption` (no row is the null value):

| Theorem | Statement |
|---|---|
| `InvariantOfSpec` | `Spec => []IInv` |
| `TypeCorrect` | `Spec => []TypeOK` |
| `InForceIsSigned` | `Spec => []InForceMeansSigned` |
| `SignaturesAsked` | `Spec => []SignaturesWereAskedFor` |
| `AcknowledgedStay` | `Spec => [](Lead = 0 => AcknowledgedSignaturesStay)` |
| `EndedRest` | `Spec => EndedRequestsRest` |
| `AllocationInvariant` | `Spec => [](IInv /\ AllocInv)` |
| `AllocationIsBounded` | `Spec => []AllocationWithinNeed` |

A signature is decided on a contract read before the UPDATE, which rewrites both signature columns. `Tells` says
what a status means for them, `ReadMatches` that the row read is an earlier version of the stored one with the same
parties, or that very row, and `WriteMatches` that the row written is the next version. With `Lead = 0`
(clients send only versions they have been shown, `VersionSeen`) the version that matches is the one read, so no
signature is lost; the other theorems hold for versions sent in advance too. For `EndedRest`, a transaction that draws a
contract holds the lock of its request, which is therefore as it was read: open. `Grows` collects what no step takes
back, and `OthersHold` is the one lemma that says a call holds on while others move.

The allocation is a sum over contracts, and sums by recursion cannot be reasoned about here. `Allocated` is
therefore the cardinality of `Units`, the union of as many pairs (contract, unit) as each contract takes, which
are disjoint for different contracts, and the theorems on cardinalities do the rest. `AllocInv` adds
to `IInv` what a transaction still knows of the sum it has checked: the contracts of its request are those it
summed, because each of them is written under the lock of the request, which it holds until it commits.

`Community_proofs` proves, for any users, batches, keys, reviews, campaigns and any number of requests at a time,
from `TraceAssumption`, `ReviewsAssumption`, `AdsAssumption`, `NotificationsAssumption` and `ProductsAssumption` (bounds are
naturals, no row is the null value, what a decision announces is a notification, the product has an owner):

| Theorem | Statement |
|---|---|
| `CommunityInvariant` | `CommunitySpec => []IInv` |
| `CommunityIsTyped` | `CommunitySpec => []CommunityTypeOK` |
| `CountersAlwaysAddUp` | `CommunitySpec => []CountersAddUp` |
| `TimelinesHaveNoGap`, `AnswersAreStored`, `AppendsPass` | `TimelineHasNoGap`, `AnsweredAsStored`, `AppendsAreNotInTheWay` |
| `RepliesAreKept`, `ModerationsTakeTurns` | `RepliesStay`, `ModerationsAlternate` |
| `NoticesAreReadOnce` | `ReadOnce` |
| `DecisionsStand`, `SuppliersAreTold` | `DecisionStands`, `DecisionsAreTold` |
| `CatalogueInvariant`, `ProductsAreTyped` | `CatalogueSpec => []CatalogueInv`, `CatalogueSpec => []ProductsTypeOK` |
| `AuditsAreTrue`, `CertificatesMatch` | `AuditsTellWhatChanged`, `CertificatesMatchFiles` |
| `ReviewersWinAlone` | `UndisturbedReviewerWins` |

The parts share the slots of requests and nothing else, so `IInv` is a conjunction of one invariant per part over its own
tables and the frames of its own requests. An await belongs to one part (`FrameShapes`); a step keeps the
invariant of its part, and those of the others because it moves none of their frames. Forum: counters equal the rows but for
the requests that have written a row and not counted it (`LikesAreDue`), as long as no two requests met which have no guard
against each other (`Clash`). Traceability: the locks of open transactions are disjoint, so what a transaction
has read under one is still so at its commit. Reviews and Ads: the conditional UPDATE matches only the row that
was judged, and a decided campaign that is not told yet has exactly one request on its way to tell.

Products are proved on their own composition with the notifications (`CatalogueSpec`, with the frames and the invariant of
the notifications taken over), in three layers. In every behaviour: what a use case saves carries the certifications it
had loaded (`SaveHolds`), and a moderation about to be audited has found the status it wanted, or the change it
will name is among those made (`JudgeHolds`): the conditional UPDATE repeats the check on the status that was read,
which is why the row read an await earlier can be audited. Until `disturbed` is set (a save wrote over what it had not read,
two certifications were given one file, a handler died, a compensation failed, a write went through and its answer was lost), `PapersInv`: each certification
has an attached file of its own, a file on its way to a certification belongs to the one request that inserts or
detaches it, and a certification whose file does not agree with it is under review by exactly one request, with the row as that request left
it and the file still quarantined. So a restore brings back agreement and a review that succeeds makes it.
`WinnersInv` then adds the reviews that were answered: none of them is of a certification that is pending or being
decided, and ids are drawn once. `CertificatesMatchFiles` by itself is not inductive: it speaks of
states without requests only.

`ProfileVerification_proofs` proves, for any kinds of profile, columns, files, reviewers and any number of requests at a
time, from `VerificationAssumption` (the stamps are naturals, no id or file is the null value, the files offered
for a column are files):

| Theorem | Statement |
|---|---|
| `VerificationIsTyped` | `VerificationSpec => []VerificationTypeOK` |
| `VerdictsInvariant` | `VerificationSpec => [](TypeInv /\ VerdictsInv)` |
| `EarlierVerdictsKept` | `EarlierVerdictsStand` |
| `AgreementInvariant` | `VerificationSpec => [](TypeInv /\ AloneInv)` |
| `ProfilesMatchFiles`, `TransitionsAreAudited` | `FilesFollowTheDecision`, `AuditedOnce` |
| `LinkInvariant`, `AttachmentsMatch`, `DocumentsKeptApart` | with `OfferedApart`: `[](TypeInv /\ AloneInv /\ LinkInv)`, `AttachmentsAreLinked`, `DocumentsAreKept` |

There are three invariants because there are three kinds of claim. `VerdictsInv` holds whatever overlaps or fails: a file is
under the verdict of one request at most until that request ends, since a review takes only quarantined files. `AloneInv` is
about profiles whose saves are served alone, with any number of reviews side by side, and holds until a crash or an
inconsistency the code reports; it says of each await which files have their verdict and which audit row is owed, and that one
reviewer at most has won the conditional UPDATE and not ended. `LinkInv` is about saves, and needs `OfferedApart`: no file may
be named for two columns of a profile. The code does not demand it, and TLC shows that it is needed (section 3,
`DocumentsAreKept`).

`Operations_proofs` proves, for any packages, tables, documents, files and fixtures and any number of scripts at a time,
from `LineageAssumption`, `RolloutAssumption` and `FileRowsAssumption` (no row is the null value, ids of documents and of
files differ):

| Theorem | Statement |
|---|---|
| `OperationsInvariant` | `OperationsSpec => []IInv` |
| `MigrationsRegisteredOnce`, `LedgerIsTrue` | `RegisteredOnce`, `LineageIsTrue` |
| `BoundariesComeBack` | `OperationsSpec => RevertRestores` |
| `TheGateHolds` | `OperationsSpec => []GateHolds` |
| `DocumentsAreNotLost` | `OperationsSpec => NothingIsLost` |
| `TablesAreWhole`, `DependenciesAreThere` | `GroupsAreWhole`, `DependenciesCameFirst` |

`IInv` is again one invariant per part; `Turn` says that a step moves one script from an await of its part to another,
`Elsewhere` that the scripts of the other parts stay where they are.

- Lineage. Two runners may hold the same list of pending migrations. What saves the ledger, which has no unique key, is the
  schema: `PendingHolds` says that once somebody has registered part of the list, some table the runner is about to create
  is there already, so its transaction fails. An onboarding that has taken the lock and found the ledger empty keeps it
  empty (`OneHolder`).
- Boundary migration. However `up`, `down` and changes by hand alternate, what was there before `up`, as altered since, is
  what stands when everything `up` created is dropped: `original = Standing(parts \ created)`.
- Rollout. A link names the file of its document, the file of a path is the only one, and its object is never removed
  (`FilesInv`): so whatever columns are cleared or dropped, a path is found by the metadata of its object, and an external
  document by its source, which `finalize` leaves to the row that has no link (`NothingIsLost`, an action property: its
  proof is one lemma for each step that writes a row, a file or an object). `TidyInv` says of each file that can be reached
  from its document or from an open review that its status is that of the verdict, unless a review is at work on it
  (`OneReviewer`: at most one, since the decision is conditional) or has gone astray. `RolloutHolds` carries what `verify`
  has found through its queries: a cleared source stays cleared, and a link of a row without source stays while the tool runs.
- Seeds. `GroupHolds` is true of every run: the groups it has done are full, and of the table it is at each fixture is
  still to be found, there, or planned. Hence `DependenciesCameFirst`. `AloneHolds` is true of a run nothing has
  disturbed: what it plans to create is neither there nor split, so a creation is never refused, and all tables but the one
  it is writing are whole; the tables it writes without having looked at all of their fixtures are those of the reference
  groups, of which `GroupsAreWhole` says nothing. That a next group exists rests on the dependencies having
  no cycle (`SomeReady`) and on a set of positions having a least one (`FirstOfSome`).

Only model-checked: the disagreements of section 3, and liveness,
which is out of the prover's reach, as are ENABLED and induction over data.

## 6. Not modelled

Whole parts: Cooperatives, Geography and Market prices, whose handlers are single statements that nothing else
depends on, and stubs; HTTP guards, filters and interceptors, which keep no state; the shared
integrations (Firebase, FPT Vision, mail, SMS, Cloudinary), which appear only as steps that may
fail; the discovery and reporting scripts, which read; generated code.

Of the parts that are modelled:

- Storage: public images, which have no record, and download URLs, which change nothing.
- Admin: system configuration and disputes, single writes followed by their audit row.
- Auth: `purgeRetiredTokens` and `purgeRetiredOtps`, which nothing calls; signatures and password hashes.
- Users, Forum, Products, Reviews: names, texts, searches and lists. The creation of a post or of a product is
  the initial state of its module.
- Profiles: a supplier's profile takes the path of an enterprise's and is not an instance of its own.
- Rollout: one document to a row and its review, although a profile has several, decided together; the replacement of a
  document by its owner meanwhile, whose new file has its own checks; the loads of one row are taken at once. The
  answers of TypeORM's `query()` are those of the version in package-lock.json.
- Lineage: TypeORM's runner is external (`mode "all"`: one transaction). The committed inclusion matrix does not
  list the tables of traceability, so the canonical schema cannot be onboarded until it is regenerated, and the committed
  manifest names another last migration than its writer would. Data blockers of the preflight
  are not modelled: they refuse a database and change nothing. The undoing of a migration is done by an
  operator alone (`Quiet`). The `down` of the traceability migration always throws.
- Seeds: three entry points (the command, the bootstrap of the application, the tests) run the same groups. The
  test group of the v2 system configuration, which is one transaction, and the parents of categories are
  left out. Images and certifications of a fixture have no unique constraint, so overlapping runs may
  insert them twice, after which later runs end with "found multiple".

Everywhere: request validation and formatting; the parsing of decimals; failures of the database
other than a lost connection (a constraint violation is modelled where the code answers it); foreign keys. In Commerce
PostgreSQL's deadlock detector is not called on: each transaction waits at most for a ledger row and
then for one aggregate row, whose holder waits for neither (`CallsEnd` shows it for Payments, and a
contract drawn under the lock of its request only inserts a row of its own).

## 7. Plan

Every part that has behaviour beyond single statements is modelled, and every invariant a passing run checks is proved.
What is left are finer grains: orders of more than one product, the loads of the rollout one row at a time.
