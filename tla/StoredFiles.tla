----------------------------- MODULE StoredFiles -----------------------------
(***************************************************************************)
(* Private files: the stored_files record, the object in the provider's     *)
(* bucket, and the requests and cleanup jobs that change both.  There are no *)
(* transactions: a worker reads the record, talks to the provider and writes *)
(* the record, and others run between any two of these.  updateStatus writes *)
(* the status whatever it has become; attach, detach and restore compare.    *)
(***************************************************************************)
EXTENDS Naturals

CONSTANTS
    Calls,      \* slots of requests served at the same time
    Sweeps,     \* slots of records being cleaned up by the cron job
    Files,      \* ids of files; bounds the upload intents ever created
    Resources,  \* domain resources a file may be attached to
    NULL        \* no resource, empty slot

ASSUME StoredFilesAssumption ==
    Calls \cap Sweeps = {} /\ NULL \notin Resources

VARIABLES
    files,      \* the record of each file
    bucket,     \* the object under each file's key
    removed,    \* history: files whose object a deletion took since it last passed validation
    pc,         \* stage of each worker
    request     \* what each worker was asked

vars == <<files, bucket, removed, pc, request>>

Workers == Calls \cup Sweeps

Status == {"none", "PENDING", "QUARANTINED", "ACTIVE", "FAILED", "DELETE_RETRY", "DELETED"}

\* validated: checksum and detected MIME are set; uploadable: an upload URL was
\* handed out; expired: expires_at has passed.
Records == [status : Status, validated : BOOLEAN, resource : Resources \cup {NULL},
            uploadable : BOOLEAN, expired : BOOLEAN]
NoFile == [status |-> "none", validated |-> FALSE, resource |-> NULL,
           uploadable |-> FALSE, expired |-> FALSE]

\* What validatePrivateContent tells apart.
Contents == {"document", "garbage"}
Objects == {"absent"} \cup Contents

Requests ==
    [kind : {"complete", "delete", "approve", "reject", "sweep"}, file : Files, resource : {NULL}]
    \cup [kind : {"attach", "detach"}, file : Files, resource : Resources]

Stages == {"idle", "reading", "examining", "removing", "marking", "writing",
           "reviewed", "restoring"}

Init ==
    /\ files = [f \in Files |-> NoFile]
    /\ bucket = [f \in Files |-> "absent"]
    /\ removed = {}
    /\ pc = [w \in Workers |-> "idle"]
    /\ request = [w \in Workers |-> NULL]

-----------------------------------------------------------------------------
(* Parts of the workers' steps *)

Record(w) == files[request[w].file]

Goto(w, stage) ==
    /\ pc' = [pc EXCEPT ![w] = stage]
    /\ UNCHANGED request

End(w) ==
    /\ pc' = [pc EXCEPT ![w] = "idle"]
    /\ request' = [request EXCEPT ![w] = NULL]

\* updateStatus(): no condition on the status the record has by now.
UpdateStatus(w, status) ==
    files' = [files EXCEPT ![request[w].file].status = status]

-----------------------------------------------------------------------------
(* The world around the workers *)

\* The record is saved, then the provider is asked for an upload URL, which may
\* fail and leave a record nobody can upload to.
CreateUploadIntent(f) ==
    /\ files[f] = NoFile
    /\ \E issued \in BOOLEAN :
         files' = [files EXCEPT ![f].status = "PENDING", ![f].uploadable = issued]
    /\ UNCHANGED <<bucket, removed, pc, request>>

\* The client puts an object under the key with the URL it was given; the
\* provider accepts it while there is none, until the intent expires.
Upload(f) ==
    /\ files[f].uploadable
    /\ ~files[f].expired
    /\ bucket[f] = "absent"
    /\ \E content \in Contents : bucket' = [bucket EXCEPT ![f] = content]
    /\ UNCHANGED <<files, removed, pc, request>>

\* expires_at of a file passes.
Expire(f) ==
    /\ files[f].status # "none"
    /\ ~files[f].expired
    /\ files' = [files EXCEPT ![f].expired = TRUE]
    /\ UNCHANGED <<bucket, removed, pc, request>>

ReceiveRequest(c) ==
    /\ pc[c] = "idle"
    /\ \E r \in Requests :
         /\ r.kind # "sweep"
         /\ files[r.file].status # "none"
         /\ request' = [request EXCEPT ![c] = r]
    /\ pc' = [pc EXCEPT ![c] = "reading"]
    /\ UNCHANGED <<files, bucket, removed>>

\* Mutant of IsDue: failed deletions are not tried again.
IsDueExpired(f) == files[f].status = "PENDING" /\ files[f].expired

\* findExpiredPending() and findDeletionRetries().
IsDue(f) ==
    \/ files[f].status = "PENDING" /\ files[f].expired
    \/ files[f].status = "DELETE_RETRY"

\* cleanup() goes on with every due record of its snapshot, each on its own.
StartSweep(s, f) ==
    /\ pc[s] = "idle"
    /\ IsDue(f)
    /\ request' = [request EXCEPT ![s] = [kind |-> "sweep", file |-> f, resource |-> NULL]]
    /\ pc' = [pc EXCEPT ![s] = "removing"]
    /\ UNCHANGED <<files, bucket, removed>>

-----------------------------------------------------------------------------
(* One action per stage of a worker *)

\* The stage each request goes on to from the record it read, or "idle" when it
\* is answered, with the record or with an error.
AfterRead(record, r) ==
    CASE r.kind = "complete" /\ record.status = "PENDING" -> "examining"
      [] r.kind = "delete" /\ record.status # "DELETED" -> "removing"
      [] r.kind \in {"approve", "reject"} /\ record.status = "QUARANTINED" -> "writing"
      [] /\ r.kind = "attach"
         /\ record.status \in {"QUARANTINED", "ACTIVE"}
         /\ record.resource \in {NULL, r.resource} -> "writing"
      [] r.kind = "detach" /\ record.resource = r.resource -> "writing"
      [] OTHER -> "idle"

Read(c) ==
    /\ pc[c] = "reading"
    /\ IF AfterRead(Record(c), request[c]) = "idle"
       THEN End(c)
       ELSE Goto(c, AfterRead(Record(c), request[c]))
    /\ UNCHANGED <<files, bucket, removed>>

\* Mutant of Acceptable: an object is there, whatever is in it.
AcceptableUnread(object) == object # "absent"

\* exists(), download() and validatePrivateContent().
Acceptable(object) == object = "document"

\* Any provider failure ends the call too.
Examine(c) ==
    /\ pc[c] = "examining"
    /\ \/ /\ Acceptable(bucket[request[c].file])
          /\ removed' = removed \ {request[c].file}
          /\ Goto(c, "writing")
       \/ End(c) /\ UNCHANGED removed
    /\ UNCHANGED <<files, bucket>>

\* The provider has the object no more.
Remove(f) ==
    /\ bucket' = [bucket EXCEPT ![f] = "absent"]
    /\ removed' = removed \cup {f}

\* The provider removes the object, or confirms that there is none.
RemoveObject(w) ==
    /\ pc[w] = "removing"
    /\ Remove(request[w].file)
    /\ Goto(w, "writing")
    /\ UNCHANGED files

\* The attempts fail or time out; a timed-out one may have removed the object.
RemoveFails(w) ==
    /\ pc[w] = "removing"
    /\ UNCHANGED <<bucket, removed>> \/ Remove(request[w].file)
    /\ Goto(w, "marking")
    /\ UNCHANGED files

\* cleanup() also catches a status the database did not store.
RecordFails(s) ==
    /\ pc[s] = "writing"
    /\ request[s].kind = "sweep"
    /\ Goto(s, "marking")
    /\ UNCHANGED <<files, bucket, removed>>

\* markDeletionRetry(); the counter it increments first is read by nothing.
MarkDeletionRetry(w) ==
    /\ pc[w] = "marking"
    /\ UpdateStatus(w, "DELETE_RETRY")
    /\ End(w)
    /\ UNCHANGED <<bucket, removed>>

\* The status and the validated metadata in one UPDATE.
Completed(record) == [record EXCEPT !.status = "QUARANTINED", !.validated = TRUE]

WriteCompletion(c) ==
    /\ pc[c] = "writing"
    /\ request[c].kind = "complete"
    /\ files' = [files EXCEPT ![request[c].file] = Completed(@)]
    /\ End(c)
    /\ UNCHANGED <<bucket, removed>>

WriteDeletion(w) ==
    /\ pc[w] = "writing"
    /\ request[w].kind \in {"delete", "sweep"}
    /\ UpdateStatus(w, "DELETED")
    /\ End(w)
    /\ UNCHANGED <<bucket, removed>>

\* A file review is answered, or belongs to the verification of a profile.
WriteReview(c) ==
    /\ pc[c] = "writing"
    /\ request[c].kind \in {"approve", "reject"}
    /\ UpdateStatus(c, IF request[c].kind = "approve" THEN "ACTIVE" ELSE "FAILED")
    /\ Goto(c, "reviewed")
    /\ UNCHANGED <<bucket, removed>>

\* The verification goes through, or a later step of it fails and the review of
\* this file is to be undone.
FinishReview(c) ==
    /\ pc[c] = "reviewed"
    /\ \/ End(c)
       \/ Goto(c, "restoring")
    /\ UNCHANGED <<files, bucket, removed>>

\* restoreReviewedFile(): its read only selects the answer, its UPDATE compares.
Restore(c) ==
    /\ pc[c] = "restoring"
    /\ files' = IF Record(c).status \in {"ACTIVE", "FAILED"}
                THEN [files EXCEPT ![request[c].file].status = "QUARANTINED"]
                ELSE files
    /\ End(c)
    /\ UNCHANGED <<bucket, removed>>

\* Mutant of MayAttach: what attachOwnedFile checked before is not compared.
MayAttachUnchecked(record, resource) == record.status \in {"QUARANTINED", "ACTIVE"}

\* The WHERE clause of attachToResource.
MayAttach(record, resource) ==
    /\ record.status \in {"QUARANTINED", "ACTIVE"}
    /\ record.resource \in {NULL, resource}

WriteAttachment(c) ==
    LET r == request[c] IN
    /\ pc[c] = "writing"
    /\ r.kind \in {"attach", "detach"}
    /\ files' =
         CASE r.kind = "attach" /\ MayAttach(Record(c), r.resource) ->
                [files EXCEPT ![r.file].resource = r.resource]
           [] r.kind = "detach" /\ Record(c).resource = r.resource ->
                [files EXCEPT ![r.file].resource = NULL]
           [] OTHER -> files
    /\ End(c)
    /\ UNCHANGED <<bucket, removed>>

\* The process dies; nothing it had to do afterwards is done.
Crash(w) ==
    /\ pc[w] # "idle"
    /\ End(w)
    /\ UNCHANGED <<files, bucket, removed>>

Work(w) ==
    \/ Read(w) \/ Examine(w) \/ RemoveObject(w) \/ RemoveFails(w) \/ RecordFails(w)
    \/ MarkDeletionRetry(w) \/ WriteCompletion(w) \/ WriteDeletion(w) \/ WriteReview(w)
    \/ FinishReview(w) \/ Restore(w) \/ WriteAttachment(w)

Next ==
    \/ \E f \in Files : CreateUploadIntent(f) \/ Upload(f) \/ Expire(f)
    \/ \E c \in Calls : ReceiveRequest(c)
    \/ \E s \in Sweeps, f \in Files : StartSweep(s, f)
    \/ \E w \in Workers : Work(w) \/ Crash(w)

Spec == Init /\ [][Next]_vars

\* The cron job starts over and over and reaches every due record; the provider
\* removes an object and the database stores a status if asked again and again.
Fairness ==
    /\ \A f \in Files : SF_vars(\E s \in Sweeps : StartSweep(s, f))
    /\ \A s \in Sweeps :
         SF_vars(RemoveObject(s)) /\ SF_vars(WriteDeletion(s)) /\ WF_vars(MarkDeletionRetry(s))

FairSpec == Spec /\ Fairness

-----------------------------------------------------------------------------
(* Properties *)

\* Every variable has its type; a sweep slot only ever cleans up.
TypeOK ==
    /\ files \in [Files -> Records]
    /\ bucket \in [Files -> Objects]
    /\ removed \subseteq Files
    /\ pc \in [Workers -> Stages]
    /\ request \in [Workers -> Requests \cup {NULL}]
    /\ \A w \in Workers : pc[w] # "idle" =>
         request[w] \in Requests /\ (request[w].kind = "sweep" <=> w \in Sweeps)

\* What passed validation is still there, unless a deletion took it since.
ContentKept(f) == bucket[f] = "document" \/ f \in removed

\* Content: what reviewers are shown (QUARANTINED), what users are shown (ACTIVE)
\* and what a reviewer refused (FAILED) is the very object whose validation
\* completed the upload, unless a deletion has taken that object since: the one way
\* to other content is an upload, with a URL still good, after such a deletion.
ReviewedWasValidated ==
    \A f \in Files :
        files[f].status \in {"QUARANTINED", "ACTIVE", "FAILED"} =>
            /\ files[f].validated
            /\ ContentKept(f)

\* Not kept: what is shown passed validation.  A deletion takes the object and its
\* process dies before it writes DELETED; the upload URL is still good and takes
\* any content, which the record, still QUARANTINED, offers to reviewers.
ShownIsValidated ==
    \A f \in Files : files[f].status \in {"QUARANTINED", "ACTIVE"} => bucket[f] # "garbage"

\* A file is taken by one resource at a time, and only while it is ready: two
\* attachments that both found it free do not both succeed.
AttachmentsAreClaimed ==
    [][\A f \in Files : files'[f].resource \notin {files[f].resource, NULL} =>
         /\ files[f].resource = NULL
         /\ files[f].status \in {"QUARANTINED", "ACTIVE"}]_vars

\* A deletion the provider refused is not forgotten: the cleanup job ends it,
\* however often it fails or dies.
RetriesEnd ==
    \A f \in Files : files[f].status = "DELETE_RETRY" ~> files[f].status # "DELETE_RETRY"

\* The lifecycle table of the storage policy, with the steps through UPLOADED
\* taken as one, the internal restoration, and the deletion retry, also where
\* another worker has deleted the file already, which is harmless.
Lifecycle ==
    {<<"none", "PENDING">>, <<"PENDING", "QUARANTINED">>,
     <<"QUARANTINED", "ACTIVE">>, <<"QUARANTINED", "FAILED">>,
     <<"ACTIVE", "QUARANTINED">>, <<"FAILED", "QUARANTINED">>}
    \cup (Status \ {"none"}) \X {"DELETE_RETRY", "DELETED"}

\* Storage policy: "Invalid state transitions must be rejected": no deleted file
\* comes back, and ACTIVE and FAILED do not follow each other.
LifecycleKept ==
    [][\A f \in Files : files'[f].status # files[f].status =>
         <<files[f].status, files'[f].status>> \in Lifecycle]_vars

\* Storage policy: "A scheduled cleanup job removes expired pending objects and
\* retries failed provider deletions", and no other object.
SweepsSpareCompleted ==
    [][\A s \in Sweeps : pc[s] = "removing" /\ pc'[s] = "writing" =>
         Record(s).status \in {"PENDING", "DELETE_RETRY", "DELETED"}]_vars

-----------------------------------------------------------------------------
(* The inductive invariant behind ReviewedWasValidated *)

\* Files are never invalidated, so a reviewer who found a file quarantined writes
\* its verdict on validated content, whatever the status has become.
VerdictsOnValidated ==
    \A w \in Workers :
        pc[w] = "writing" /\ request[w].kind \in {"approve", "reject"} => Record(w).validated

\* What passed validation stays, also while the completion is not yet written:
\* nobody uploads over an object, so only a deletion lets other content in.
ValidatedStays ==
    /\ \A f \in Files : files[f].validated => ContentKept(f)
    /\ \A w \in Workers :
         pc[w] = "writing" /\ request[w].kind = "complete" => ContentKept(request[w].file)

\* Only completions look at content, only deletions and sweeps remove it.
StagesMatchKinds ==
    \A w \in Workers :
        /\ pc[w] = "examining" => request[w].kind = "complete"
        /\ pc[w] = "removing" => request[w].kind \in {"delete", "sweep"}

IInv ==
    /\ TypeOK
    /\ ReviewedWasValidated
    /\ VerdictsOnValidated
    /\ ValidatedStays
    /\ StagesMatchKinds
=============================================================================
