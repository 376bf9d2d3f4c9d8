-------------------------- MODULE ProfileVerification --------------------------
(***************************************************************************)
(* The profile of one user, its private documents and the audit log.         *)
(* ProfilesService and AdminService change the profile row, the stored files *)
(* and the audit rows in separate transactions and undo by hand what they    *)
(* did when a later step fails.  One step here is one await: a query, a call *)
(* of the storage service, or a group of calls that are awaited together.    *)
(***************************************************************************)
EXTENDS Handlers, Naturals, FiniteSets

CONSTANTS
    Kinds,      \* kinds of profile: farmer, cooperative, enterprise, supplier
    Columns,    \* the document columns of each kind (CCCD sides, licences, ...)
    Overlapping,\* kinds whose owners and others act while a request is served
    Files,      \* private files the owner has uploaded
    Offered,    \* the files the owner may name for each column
    Reviewers,  \* administrators
    Ids,        \* profile ids randomUUID() may draw
    MaxStamp    \* bound on the reviewers' writes between two saves

ASSUME VerificationAssumption ==
    /\ MaxStamp \in Nat /\ NULL \notin Files \cup Ids
    /\ \A kind \in Kinds : \A s \in Columns[kind] : Offered[s] \subseteq Files

VARIABLES
    profile,    \* the row of the user's profile; stamp is its updated_at, counted
                \* in writes since the owner's last save
    files,      \* status and resource of each file
    audits,     \* rows of the audit log since that save
    decisions,  \* history: transitions committed since then and not undone
    standing,   \* history: files decided on by a request that has ended
    disturbed   \* history: a crash, an attachment, a save or a decision whose answer
                \* is lost, a reported inconsistency, or a file that was deleted
                \* or reviewed by itself

verificationVars ==
    <<call, mix, profile, files, audits, decisions, standing, disturbed>>

Slots == UNION {Columns[kind] : kind \in Kinds}
Documents(kind) ==
    {docs \in [Columns[kind] -> Files \cup {NULL}] :
        \A s \in Columns[kind] : docs[s] \in Offered[s] \cup {NULL}}

Decided == {"approved", "rejected"}
FileStatus == {"QUARANTINED", "ACTIVE", "FAILED", "DELETE_RETRY", "DELETED"}

NoProfile(kind) == [kind |-> kind, id |-> NULL, status |-> "none", by |-> NULL,
                    docs |-> [s \in Columns[kind] |-> NULL], stamp |-> 0]
Profiles == UNION {[kind : {kind}, id : Ids \cup {NULL},
                    status : {"none", "pending"} \cup Decided, by : Reviewers \cup {NULL},
                    docs : Documents(kind), stamp : 0..MaxStamp] : kind \in Kinds}
Transitions == [status : Decided, by : Reviewers, stamp : 0..MaxStamp]

DocsOf(row) == {row.docs[s] : s \in DOMAIN row.docs} \ {NULL}

VerificationInit ==
    /\ HandlersInit
    /\ \E kind \in Kinds : profile = NoProfile(kind)
    /\ files = [f \in Files |-> [status |-> "QUARANTINED", resource |-> NULL]]
    /\ audits = {}
    /\ decisions = {}
    /\ standing = {}
    /\ disturbed = FALSE

-----------------------------------------------------------------------------
(* The owner saves the profile *)

\* The awaits of a save that has read the profile.
Saving == {"attaching", "saving", "detaching", "retiring"}

\* Whether requests run into each other in this behaviour.
Overlap == profile.kind \in Overlapping

\* upsertFarmerProfile names both documents in every save, upsertB2bProfile only
\* those to be replaced.
Submit(c) ==
    /\ Overlap \/ Quiet
    /\ disturbed => Quiet
    /\ \E docs \in Documents(profile.kind) :
         /\ profile.kind = "farmer" => \A s \in DOMAIN docs : docs[s] # NULL
         /\ Receive(c, [at |-> "loading", docs |-> docs, row |-> NULL, attached |-> {}])
    /\ UNCHANGED <<profile, files, audits, decisions, standing, disturbed>>

Readable(f) == files[f].status \in {"QUARANTINED", "ACTIVE"}

\* randomUUID() draws an id that neither a file nor a handler knows.
Unused == {id \in Ids :
             /\ \A f \in Files : files[f].resource # id
             /\ \A c \in Calls : call[c].at \notin Saving \/ call[c].row.id # id}

\* readOwnedFile and the vision check, for a farmer, then findOne; a row that is
\* not there gets a new id.  Each of them may refuse or fail.
Load(c) ==
    /\ At(c, "loading")
    /\ \/ /\ profile.kind = "farmer" => \A s \in DOMAIN call[c].docs : Readable(call[c].docs[s])
          /\ \E id \in IF profile.status = "none" THEN Unused ELSE {profile.id} :
                Keep(c, "attaching", [id |-> id, docs |-> profile.docs])
       \/ End(c)
    /\ UNCHANGED <<profile, files, audits, decisions, standing, disturbed>>

\* toFileChange(): the columns whose file is named and differs from the one read.
Changes(frame) ==
    {s \in DOMAIN frame.docs : frame.docs[s] \notin {NULL, frame.row.docs[s]}}

\* The conditions of attachOwnedFile and the WHERE clause of attachToResource.
Attachable(f, id) ==
    Readable(f) /\ files[f].resource \in {NULL, id}

\* The loop of persistProfileWithFiles: one file at a time, or none is left.
Attach(c) ==
    LET left == Changes(call[c]) \ call[c].attached IN
    /\ At(c, "attaching")
    /\ \/ left = {} /\ Goto(c, "saving") /\ UNCHANGED files
       \/ \E s \in left :
            LET f == call[c].docs[s] IN
            /\ Attachable(f, call[c].row.id)
            /\ files' = [files EXCEPT ![f].resource = call[c].row.id]
            /\ call' = [call EXCEPT ![c].attached = @ \cup {s}]
       \/ left # {} /\ Goto(c, "detaching") /\ UNCHANGED files
    /\ UNCHANGED <<profile, audits, decisions, standing, disturbed>>

\* attachToResource commits and its answer is lost: the file is attached, and is
\* not among those the compensation detaches.
AttachUnanswered(c) ==
    /\ At(c, "attaching")
    /\ \E s \in Changes(call[c]) \ call[c].attached :
         LET f == call[c].docs[s] IN
         /\ Attachable(f, call[c].row.id)
         /\ files' = [files EXCEPT ![f].resource = call[c].row.id]
    /\ Goto(c, "detaching")
    /\ disturbed' = TRUE
    /\ UNCHANGED <<profile, audits, decisions, standing>>

\* The entity the owner's save writes: back to pending, nobody's decision.
Resubmitted(frame) ==
    [profile EXCEPT
        !.id = frame.row.id, !.status = "pending", !.by = NULL, !.stamp = 0,
        !.docs = [s \in DOMAIN @ |-> IF frame.docs[s] = NULL THEN frame.row.docs[s] ELSE frame.docs[s]]]

\* save(): all columns become those of the entity.  The INSERT of a second row
\* for the user violates its unique index.  The database may also fail, or
\* commit and fail to say so.
Save(c) ==
    LET collides == profile.status # "none" /\ profile.id # call[c].row.id IN
    /\ At(c, "saving")
    /\ \/ /\ ~collides
          /\ profile' = Resubmitted(call[c])
          /\ audits' = {}
          /\ decisions' = {}
          /\ \/ Goto(c, "retiring") /\ UNCHANGED disturbed
             \/ Goto(c, "detaching") /\ disturbed' = TRUE
       \/ /\ Goto(c, "detaching")
          /\ UNCHANGED <<profile, audits, decisions, disturbed>>
    /\ UNCHANGED <<files, standing>>

\* Mutant of Detachable: the compensation releases every document it was given.
DetachableAll(c) == {call[c].docs[s] : s \in DOMAIN call[c].docs} \ {NULL}

\* The files this request attached.
Detachable(c) == {call[c].docs[s] : s \in call[c].attached}

\* Promise.allSettled over detachOwnedFile: each goes through or fails, and a
\* failure is reported as an inconsistency.
Detach(c) ==
    /\ At(c, "detaching")
    /\ \E failed \in SUBSET Detachable(c) :
         /\ files' = [f \in Files |->
                        IF f \in Detachable(c) \ failed /\ files[f].resource = call[c].row.id
                        THEN [files[f] EXCEPT !.resource = NULL] ELSE files[f]]
         /\ disturbed' = (disturbed \/ failed # {})
    /\ End(c)
    /\ UNCHANGED <<profile, audits, decisions, standing>>

\* The files whose columns were overwritten.
Replaced(c) == {call[c].row.docs[s] : s \in Changes(call[c])} \ {NULL}

\* retireReplacedFiles: deleteStoredFile on each, which marks what the provider
\* does not delete; it stops at the first database failure and reports it.
Retire(c) ==
    /\ At(c, "retiring")
    /\ \E left \in SUBSET Replaced(c), refused \in SUBSET Replaced(c) :
         /\ files' = [f \in Files |->
                        IF f \in Replaced(c) \ left /\ files[f].status # "DELETED"
                        THEN [files[f] EXCEPT
                                !.status = IF f \in refused THEN "DELETE_RETRY" ELSE "DELETED"]
                        ELSE files[f]]
         /\ disturbed' = (disturbed \/ left # {})
    /\ End(c)
    /\ UNCHANGED <<profile, audits, decisions, standing>>

-----------------------------------------------------------------------------
(* An administrator verifies the profile *)

\* verifyProfile: approve, or reject with a reason.
Verify(c) ==
    /\ Overlap \/ \A d \in Calls : ~At(d, "idle") => "reviewer" \in DOMAIN call[d]
    /\ disturbed => Quiet
    /\ profile.status # "none"
    /\ \E reviewer \in Reviewers, result \in Decided :
         Receive(c, [at |-> "finding", reviewer |-> reviewer, result |-> result,
                     stamp |-> 0, docs |-> {}, left |-> {}, changed |-> {}, tries |-> 0])
    /\ UNCHANGED <<profile, files, audits, decisions, standing, disturbed>>

\* findOneBy: the row whose documents will be reviewed.
Find(c) ==
    /\ At(c, "finding")
    /\ call' = [call EXCEPT ![c].at = "deciding", ![c].docs = DocsOf(profile), ![c].left = DocsOf(profile)]
    /\ UNCHANGED <<profile, files, audits, decisions, standing, disturbed>>

\* The WHERE clause of the transition: not verified, no rejection reason.
Undecided(c) == profile.status = "pending"

\* The conditional UPDATE; the loser is told of the conflict.
Decide(c) ==
    /\ At(c, "deciding")
    /\ IF Undecided(c) /\ profile.stamp < MaxStamp
       THEN /\ profile' = [profile EXCEPT !.status = call[c].result, !.by = call[c].reviewer,
                                          !.stamp = @ + 1]
            /\ decisions' = decisions \cup {[status |-> call[c].result, by |-> call[c].reviewer,
                                             stamp |-> profile.stamp + 1]}
            /\ Goto(c, "rereading")
       ELSE End(c) /\ UNCHANGED <<profile, decisions>>
    /\ UNCHANGED <<files, audits, standing, disturbed>>

\* findOneByOrFail: its updated_at names the transition from here on.
Reread(c) ==
    /\ At(c, "rereading")
    /\ call' = [call EXCEPT ![c].at = "reviewing", ![c].stamp = profile.stamp]
    /\ UNCHANGED <<profile, files, audits, decisions, standing, disturbed>>

\* findOneByOrFail fails, or the answer of the UPDATE before it was lost: outside
\* the try, so the decision stays, and no file is reviewed and no row audited.
DecisionUnanswered(c) ==
    /\ At(c, "rereading")
    /\ End(c)
    /\ disturbed' = TRUE
    /\ UNCHANGED <<profile, files, audits, decisions, standing>>

Verdict(c) == IF call[c].result = "approved" THEN "ACTIVE" ELSE "FAILED"

\* Mutant of AllReviewed: one changed document is enough.
AllReviewedOnce(c) == call[c].left = {} \/ call[c].changed # {}

\* The loop over the documents is through.
AllReviewed(c) == call[c].left = {}

\* reviewFile on the next document: changed now, already so, or refused.
Review(c) ==
    /\ At(c, "reviewing")
    /\ \/ /\ AllReviewed(c)
          /\ Goto(c, "auditing")
          /\ UNCHANGED files
       \/ \E f \in call[c].left :
            /\ files[f].status = "QUARANTINED"
            /\ files' = [files EXCEPT ![f].status = Verdict(c)]
            /\ call' = [call EXCEPT ![c].left = @ \ {f}, ![c].changed = @ \cup {f}]
       \/ \E f \in call[c].left :
            /\ files[f].status = Verdict(c)
            /\ call' = [call EXCEPT ![c].left = @ \ {f}]
            /\ UNCHANGED files
       \/ /\ call[c].left # {}
          /\ Goto(c, "restoring")
          /\ UNCHANGED files
    /\ UNCHANGED <<profile, audits, decisions, standing, disturbed>>

\* updateStatus writes the verdict and cannot read the file again: the review has
\* failed, and this file is not among those that are taken back.
ReviewUnanswered(c) ==
    /\ At(c, "reviewing")
    /\ \E f \in call[c].left :
         /\ files[f].status = "QUARANTINED"
         /\ files' = [files EXCEPT ![f].status = Verdict(c)]
    /\ Goto(c, "restoring")
    /\ UNCHANGED <<profile, audits, decisions, standing, disturbed>>

\* Mutant of Restorable: everything under review goes back, changed or not.
RestorableAll(c) == call[c].docs

\* The files this request changed.
Restorable(c) == call[c].changed

\* Promise.allSettled over restoreReviewedFile.
RestoreFiles(c) ==
    /\ At(c, "restoring")
    /\ \E failed \in SUBSET Restorable(c) :
         /\ files' = [f \in Files |->
                        IF f \in Restorable(c) \ failed /\ files[f].status \in {"ACTIVE", "FAILED"}
                        THEN [files[f] EXCEPT !.status = "QUARANTINED"] ELSE files[f]]
         /\ disturbed' = (disturbed \/ failed # {})
    /\ Goto(c, "reopening")
    /\ UNCHANGED <<profile, audits, decisions, standing>>

\* The WHERE clause of restorePendingVerification: verdict and reviewer, no time.
OwnsDecision(c) == profile.status = call[c].result /\ profile.by = call[c].reviewer

\* restorePendingVerification; a decision that is no longer this reviewer's is
\* left alone and reported.
Reopen(c) ==
    /\ At(c, "reopening")
    /\ \/ /\ OwnsDecision(c) /\ profile.stamp < MaxStamp
          /\ profile' = [profile EXCEPT !.status = "pending", !.by = NULL, !.stamp = @ + 1]
          /\ decisions' = {d \in decisions : d.stamp # profile.stamp}
          /\ UNCHANGED disturbed
       \/ /\ disturbed' = TRUE
          /\ UNCHANGED <<profile, decisions>>
    /\ End(c)
    /\ UNCHANGED <<files, audits, standing>>

\* Mutant of AuditRow: the id of the row is drawn anew for every attempt.
AuditRowPerTry(c) == [status |-> call[c].result, by |-> call[c].reviewer,
                      stamp |-> call[c].stamp + call[c].tries]

\* verificationAuditId: result, reviewer and time of the transition.
AuditRow(c) == [status |-> call[c].result, by |-> call[c].reviewer,
                stamp |-> call[c].stamp]

\* The request is over and its verdicts stand.
Settle(c) ==
    /\ End(c)
    /\ standing' = standing \cup call[c].changed

\* writeVerificationAudit: three attempts of one upsert, each of which may store
\* the row and fail to say so; the third failure is reported.
Audit(c) ==
    /\ At(c, "auditing")
    /\ \/ audits' = audits \cup {AuditRow(c)} /\ Settle(c) /\ UNCHANGED disturbed
       \/ /\ audits' \in {audits, audits \cup {AuditRow(c)}}
          /\ IF call[c].tries < 2
             THEN /\ call' = [call EXCEPT ![c].tries = @ + 1]
                  /\ UNCHANGED <<standing, disturbed>>
             ELSE Settle(c) /\ disturbed' = TRUE
    /\ UNCHANGED <<profile, files, decisions>>

-----------------------------------------------------------------------------
(* What else happens to the files, and crashes *)

\* reviewStoredFile: an administrator decides on one file by itself.
ReviewFileAlone(f) ==
    /\ Overlap /\ ~disturbed
    /\ files[f].status = "QUARANTINED"
    /\ \E status \in {"ACTIVE", "FAILED"} : files' = [files EXCEPT ![f].status = status]
    /\ standing' = standing \cup {f}
    /\ disturbed' = TRUE
    /\ UNCHANGED <<call, profile, audits, decisions>>

\* deleteStoredFile: the owner deletes a file, in use or not.
DeleteFile(f) ==
    /\ Overlap /\ ~disturbed
    /\ files[f].status # "DELETED"
    /\ files' = [files EXCEPT ![f].status = "DELETED"]
    /\ disturbed' = TRUE
    /\ UNCHANGED <<call, profile, audits, decisions, standing>>

Crash(c) ==
    /\ ~At(c, "idle")
    /\ ~disturbed
    /\ End(c)
    /\ disturbed' = TRUE
    /\ UNCHANGED <<profile, files, audits, decisions, standing>>

VerificationNext ==
    \/ \E c \in Calls :
         \/ Submit(c) \/ Load(c) \/ Attach(c) \/ AttachUnanswered(c) \/ Save(c)
         \/ Detach(c) \/ Retire(c)
         \/ Verify(c) \/ Find(c) \/ Decide(c) \/ Reread(c) \/ DecisionUnanswered(c)
         \/ Review(c) \/ ReviewUnanswered(c)
         \/ RestoreFiles(c) \/ Reopen(c) \/ Audit(c) \/ Crash(c)
    \/ \E f \in UNION {Offered[s] : s \in Columns[profile.kind]} :
         ReviewFileAlone(f) \/ DeleteFile(f)

VerificationSpec == VerificationInit /\ [][VerificationNext /\ UNCHANGED mix]_verificationVars

-----------------------------------------------------------------------------
(* Properties *)

\* Every variable has its type.
VerificationTypeOK ==
    /\ profile \in Profiles
    /\ files \in [Files -> [status : FileStatus, resource : Ids \cup {NULL}]]
    /\ audits \subseteq Transitions
    /\ decisions \subseteq Transitions
    /\ standing \subseteq Files
    /\ disturbed \in BOOLEAN

\* No request is being served, none ran into another's, and no step failed in
\* a way the code reports for reconciliation.
Settled == Quiet /\ ~Overlap /\ ~disturbed

\* ADR 0006: an approved profile shows approved documents and a rejected one
\* rejected documents, although profile and files are decided one by one and
\* any of these steps may fail.
FilesFollowTheDecision ==
    Settled =>
        /\ profile.status = "approved" => \A f \in DocsOf(profile) : files[f].status = "ACTIVE"
        /\ profile.status = "rejected" => \A f \in DocsOf(profile) : files[f].status = "FAILED"

\* Rollout runbook, "invalidLinks": the files attached to the profile and not
\* deleted are exactly the profile's documents; a save that failed half way
\* leaves none behind, one that went through none too many.
AttachmentsAreLinked ==
    Settled =>
        DocsOf(profile) = {f \in Files : /\ files[f].resource = profile.id
                                        /\ profile.id # NULL
                                        /\ files[f].status \notin {"DELETED", "DELETE_RETRY"}}

\* Each transition that stands is audited once, under its own id, however often
\* the upsert was tried; one that was undone is not audited.
AuditedOnce == Settled => audits = decisions

\* Storage policy: a compensation takes back only a verdict its own request
\* gave; what an earlier verification decided about a file stands.
EarlierVerdictsStand ==
    [][\A f \in Files :
          /\ files[f].status \in {"ACTIVE", "FAILED"}
          /\ files'[f].status = "QUARANTINED"
          => f \notin standing]_verificationVars

\* Rollout runbook: approval moves linked files to ACTIVE.  (The code reviews
\* the documents of the row it read before it decided.)
ApprovedShowsReviewed ==
    Quiet /\ ~disturbed /\ profile.status = "approved" =>
        \A f \in DocsOf(profile) : files[f].status # "QUARANTINED"

\* Rollout runbook: the previous file is retired, and no file in use.
DocumentsAreKept ==
    Settled => \A f \in DocsOf(profile) : files[f].status \notin {"DELETED", "DELETE_RETRY"}
=============================================================================
