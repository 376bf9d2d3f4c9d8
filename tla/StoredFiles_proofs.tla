-------------------------- MODULE StoredFiles_proofs --------------------------
(***************************************************************************)
(* Proofs about StoredFiles, for any workers, files and resources.          *)
(***************************************************************************)
EXTENDS StoredFiles, TLAPS

LEMMA InitIInv == Init => IInv
BY DEF Init, IInv, TypeOK, Records, Status, NoFile, Objects, Stages,
       ReviewedWasValidated, VerdictsOnValidated, ValidatedStays, StagesMatchKinds

\* What a step of worker w may do to the object it works on: nothing, remove it, or
\* find that it is a document.
ContentStep(w) ==
    \/ UNCHANGED <<bucket, removed>>
    \/ Remove(request[w].file)
    \/ /\ bucket[request[w].file] = "document"
       /\ removed' = removed \ {request[w].file}
       /\ bucket' = bucket

\* Such a step keeps what was validated accounted for.
LEMMA ContentStepKeeps ==
    ASSUME IInv, NEW w \in Workers, pc[w] # "idle", ContentStep(w)
    PROVE  /\ bucket' \in [Files -> Objects]
           /\ removed' \subseteq Files
           /\ \A f \in Files : ContentKept(f) => ContentKept(f)'
<1>1. request[w].file \in Files
    BY DEF IInv, TypeOK, Requests
<1> QED
    BY <1>1 DEF IInv, TypeOK, ContentStep, Remove, ContentKept, Objects

\* A step of worker w, which may rewrite the record it was asked about and ends
\* or goes on to another stage with the same request.
LEMMA WorkerStep ==
    ASSUME IInv, NEW w \in Workers, pc[w] # "idle",
           \/ Goto(w, "examining") /\ request[w].kind = "complete"
           \/ Goto(w, "removing") /\ request[w].kind \in {"delete", "sweep"}
           \/ Goto(w, "marking") \/ Goto(w, "writing") \/ Goto(w, "reviewed")
           \/ Goto(w, "restoring") \/ End(w),
           NEW record \in Records,
           files' = [files EXCEPT ![request[w].file] = record],
           record.validated => ContentKept(request[w].file),
           record.status \in {"QUARANTINED", "ACTIVE", "FAILED"} => record.validated,
           Record(w).validated => record.validated,
           Goto(w, "writing") =>
               /\ request[w].kind \in {"approve", "reject"} => record.validated
               /\ request[w].kind = "complete" => bucket[request[w].file] = "document",
           ContentStep(w)
    PROVE  IInv'
<1>0. /\ bucket' \in [Files -> Objects]
      /\ removed' \subseteq Files
      /\ \A f \in Files : ContentKept(f) => ContentKept(f)'
    BY ContentStepKeeps
<1>1. TypeOK'
    BY <1>0 DEF IInv, TypeOK, Goto, End, Stages
<1>2. request[w].file \in Files
    BY DEF IInv, TypeOK, Requests
<1>3. \A f \in Files : files'[f].validated => ContentKept(f)'
    BY <1>0, <1>2 DEF IInv, TypeOK, ValidatedStays
<1>6. ReviewedWasValidated'
    BY <1>2, <1>3 DEF IInv, TypeOK, ReviewedWasValidated
<1>7. ValidatedStays'
    <2> SUFFICES ASSUME NEW v \in Workers,
                        pc'[v] = "writing",
                        request'[v].kind = "complete"
                 PROVE  \E f \in Files : f = request'[v].file /\ ContentKept(f)
        BY <1>0, <1>3 DEF ValidatedStays, ContentKept
    <2>1. CASE v = w
        BY <1>2, <2>1 DEF IInv, TypeOK, Goto, End, ContentKept
    <2>2. CASE v # w
        <3>1. /\ pc[v] = "writing"
              /\ request'[v] = request[v]
            BY <2>2 DEF IInv, TypeOK, Goto, End
        <3>2. request[v].file \in Files
            BY <3>1 DEF IInv, TypeOK, Requests
        <3> QED
            BY <3>1, <3>2 DEF IInv, ValidatedStays
    <2> QED
        BY <2>1, <2>2
<1>4. VerdictsOnValidated'
    <2> SUFFICES ASSUME NEW v \in Workers,
                        pc'[v] = "writing",
                        request'[v].kind \in {"approve", "reject"}
                 PROVE  files'[request'[v].file].validated
        BY DEF VerdictsOnValidated, Record
    <2>1. CASE v = w
        BY <1>2, <2>1 DEF IInv, TypeOK, Goto, End
    <2>2. CASE v # w
        <3>1. /\ pc[v] = "writing"
              /\ request'[v] = request[v]
              /\ files[request[v].file].validated
            BY <2>2 DEF IInv, TypeOK, Goto, End, VerdictsOnValidated, Record
        <3>2. request[v].file \in Files
            BY <3>1 DEF IInv, TypeOK, Requests
        <3> QED
            BY <1>2, <3>1, <3>2 DEF IInv, TypeOK, Record
    <2> QED
        BY <2>1, <2>2
<1>5. StagesMatchKinds'
    BY DEF IInv, TypeOK, StagesMatchKinds, Goto, End
<1> QED
    BY <1>1, <1>4, <1>5, <1>6, <1>7 DEF IInv

\* A step of worker w that leaves every record as it is.
LEMMA WorkerLooks ==
    ASSUME IInv, NEW w \in Workers, pc[w] # "idle", files' = files,
           \/ Goto(w, "examining") /\ request[w].kind = "complete"
           \/ Goto(w, "removing") /\ request[w].kind \in {"delete", "sweep"}
           \/ Goto(w, "marking") \/ Goto(w, "restoring") \/ End(w)
           \/ /\ Goto(w, "writing")
              /\ request[w].kind \in {"approve", "reject"} => Record(w).validated
              /\ request[w].kind = "complete" => bucket[request[w].file] = "document",
           ContentStep(w)
    PROVE  IInv'
<1>1. request[w].file \in Files
    BY DEF IInv, TypeOK, Requests
<1>2. /\ Record(w) \in Records
      /\ files' = [files EXCEPT ![request[w].file] = Record(w)]
      /\ Record(w).status \in {"QUARANTINED", "ACTIVE", "FAILED"} => Record(w).validated
      /\ Record(w).validated => ContentKept(request[w].file)
    BY <1>1 DEF IInv, TypeOK, ReviewedWasValidated, ValidatedStays, Record
<1>3. Goto(w, "writing") =>
          /\ request[w].kind \in {"approve", "reject"} => Record(w).validated
          /\ request[w].kind = "complete" => bucket[request[w].file] = "document"
    BY DEF IInv, TypeOK, Goto, End
<1> QED
    BY <1>2, <1>3, WorkerStep

LEMMA ReadIInv ==
    ASSUME IInv, NEW c \in Workers, Read(c)
    PROVE  IInv'
<1> DEFINE stage == AfterRead(Record(c), request[c])
<1>1. pc[c] # "idle" /\ files' = files /\ ContentStep(c)
    BY DEF Read, ContentStep
<1>2. CASE stage = "idle"
    BY <1>1, <1>2, WorkerLooks DEF Read
<1>3. CASE stage # "idle"
    <2>1. Goto(c, stage) /\ stage \in {"examining", "removing", "writing"}
        BY <1>3 DEF Read, AfterRead
    <2>4. /\ stage = "examining" => request[c].kind = "complete"
          /\ stage = "removing" => request[c].kind = "delete"
          /\ stage = "writing" => request[c].kind # "complete"
        BY DEF AfterRead
    <2>2. request[c].file \in Files
        BY <1>1 DEF IInv, TypeOK, Requests
    <2>3. stage = "writing" /\ request[c].kind \in {"approve", "reject"} =>
              Record(c).validated
        BY <2>2 DEF AfterRead, IInv, ReviewedWasValidated, Record
    <2> HIDE DEF stage
    <2> QED
        BY <1>1, <2>1, <2>3, <2>4, WorkerLooks
<1> QED
    BY <1>2, <1>3

LEMMA ProviderIInv ==
    ASSUME IInv, NEW w \in Workers,
           \/ Examine(w) \/ RemoveObject(w) \/ RemoveFails(w) \/ RecordFails(w)
           \/ FinishReview(w) \/ Crash(w)
    PROVE  IInv'
<1>1. CASE Crash(w) \/ FinishReview(w) \/ RecordFails(w)
    BY <1>1, WorkerLooks DEF Crash, FinishReview, RecordFails, ContentStep
<1>2. CASE Examine(w)
    BY <1>2, WorkerLooks
    DEF Examine, Acceptable, ContentStep, IInv, TypeOK, StagesMatchKinds
<1>3. CASE RemoveFails(w) \/ RemoveObject(w)
    <2>1. /\ pc[w] # "idle" /\ files' = files
          /\ Goto(w, "marking") \/ Goto(w, "writing")
          /\ ContentStep(w)
        BY <1>3 DEF RemoveFails, RemoveObject, ContentStep
    <2>2. request[w].kind \in {"delete", "sweep"}
        BY <1>3 DEF RemoveFails, RemoveObject, IInv, StagesMatchKinds
    <2> QED
        BY <2>1, <2>2, WorkerLooks
<1> QED
    BY <1>1, <1>2, <1>3

LEMMA WriteIInv ==
    ASSUME IInv, NEW w \in Workers,
           \/ MarkDeletionRetry(w) \/ WriteCompletion(w) \/ WriteDeletion(w)
           \/ WriteReview(w) \/ Restore(w) \/ WriteAttachment(w)
    PROVE  IInv'
<1> DEFINE f == request[w].file
<1>1. /\ pc[w] # "idle"
      /\ Goto(w, "reviewed") \/ End(w)
      /\ ContentStep(w)
    BY DEF MarkDeletionRetry, WriteCompletion, WriteDeletion, WriteReview, Restore,
           WriteAttachment, ContentStep
<1>2. /\ request[w] \in Requests
      /\ f \in Files
      /\ Record(w) \in Records
      /\ Record(w).status \in {"QUARANTINED", "ACTIVE", "FAILED"} => Record(w).validated
      /\ Record(w).validated => ContentKept(f)
    BY <1>1 DEF IInv, TypeOK, Requests, Record, ReviewedWasValidated, ValidatedStays
<1>4. ~Goto(w, "writing")
    BY <1>1 DEF IInv, TypeOK, Goto, End
<1>5. SUFFICES \E record \in Records :
          /\ files' = [files EXCEPT ![f] = record]
          /\ record.status \in {"QUARANTINED", "ACTIVE", "FAILED"} => record.validated
          /\ Record(w).validated => record.validated
          /\ record.validated => ContentKept(f)
    BY <1>1, <1>4, WorkerStep
<1>6. ASSUME NEW s \in Status, UpdateStatus(w, s),
             s \in {"QUARANTINED", "ACTIVE", "FAILED"} => Record(w).validated
      PROVE  \E record \in Records :
          /\ files' = [files EXCEPT ![f] = record]
          /\ record.status \in {"QUARANTINED", "ACTIVE", "FAILED"} => record.validated
          /\ Record(w).validated => record.validated
          /\ record.validated => ContentKept(f)
    <2>1. [Record(w) EXCEPT !.status = s] \in Records
        BY <1>2 DEF Records
    <2>2. files' = [files EXCEPT ![f] = [Record(w) EXCEPT !.status = s]]
        BY <1>6 DEF UpdateStatus, Record
    <2> QED
        BY <1>2, <1>6, <2>1, <2>2 DEF Records
<1>7. CASE MarkDeletionRetry(w) \/ WriteDeletion(w)
    BY <1>6, <1>7 DEF MarkDeletionRetry, WriteDeletion, Status
<1>8. CASE WriteReview(w)
    <2>1. Record(w).validated
        BY <1>8 DEF WriteReview, IInv, VerdictsOnValidated
    <2> QED
        BY <1>6, <1>8, <2>1 DEF WriteReview, Status
<1>9. CASE WriteCompletion(w)
    <2>1. /\ Completed(Record(w)) \in Records
          /\ Completed(Record(w)).validated
        BY <1>2 DEF Completed, Records, Status
    <2>2. files' = [files EXCEPT ![f] = Completed(Record(w))]
        BY <1>9 DEF WriteCompletion, Record
    <2>3. ContentKept(f)
        BY <1>9 DEF WriteCompletion, IInv, ValidatedStays
    <2> QED
        BY <2>1, <2>2, <2>3
<1>10. CASE Restore(w)
    <2>1. CASE Record(w).status \in {"ACTIVE", "FAILED"}
        BY <1>2, <1>6, <1>10, <2>1 DEF Restore, UpdateStatus, Status
    <2>2. CASE Record(w).status \notin {"ACTIVE", "FAILED"}
        BY <1>2, <1>10, <2>2 DEF Restore, Record, IInv, TypeOK
    <2> QED
        BY <2>1, <2>2
<1>11. CASE WriteAttachment(w)
    <2>1. CASE files' = files
        BY <1>2, <2>1 DEF Record, IInv, TypeOK
    <2>2. ASSUME NEW resource \in Resources \cup {NULL},
                 files' = [files EXCEPT ![f].resource = resource]
          PROVE  \E record \in Records :
              /\ files' = [files EXCEPT ![f] = record]
              /\ record.status \in {"QUARANTINED", "ACTIVE", "FAILED"} => record.validated
              /\ Record(w).validated => record.validated
              /\ record.validated => ContentKept(f)
        <3>1. [Record(w) EXCEPT !.resource = resource] \in Records
            BY <1>2 DEF Records
        <3>2. files' = [files EXCEPT ![f] = [Record(w) EXCEPT !.resource = resource]]
            BY <2>2 DEF Record
        <3> QED
            BY <1>2, <3>1, <3>2 DEF Records
    <2>3. request[w].kind = "attach" => request[w].resource \in Resources
        BY <1>2 DEF Requests
    <2> QED
        BY <1>11, <2>1, <2>2, <2>3 DEF WriteAttachment
<1> QED
    BY <1>7, <1>8, <1>9, <1>10, <1>11

\* What changes a record or an object without any worker.
LEMMA WorldIInv ==
    ASSUME IInv, NEW f \in Files,
           CreateUploadIntent(f) \/ Upload(f) \/ Expire(f)
    PROVE  IInv'
<1>1. TypeOK'
    <2>1. files[f] \in Records
        BY DEF IInv, TypeOK
    <2>2. files' \in [Files -> Records]
        <3>1. CASE CreateUploadIntent(f)
            <4>1. PICK issued \in BOOLEAN :
                      files' = [files EXCEPT ![f] =
                          [files[f] EXCEPT !.status = "PENDING", !.uploadable = issued]]
                BY <3>1 DEF CreateUploadIntent
            <4>2. [files[f] EXCEPT !.status = "PENDING", !.uploadable = issued] \in Records
                BY <2>1 DEF Records, Status
            <4> QED
                BY <4>1, <4>2 DEF IInv, TypeOK
        <3>2. CASE Upload(f)
            BY <3>2 DEF Upload, IInv, TypeOK
        <3>3. CASE Expire(f)
            <4>1. [files[f] EXCEPT !.expired = TRUE] \in Records
                BY <2>1 DEF Records
            <4> QED
                BY <3>3, <4>1 DEF Expire, IInv, TypeOK
        <3> QED
            BY <3>1, <3>2, <3>3
    <2>3. bucket' \in [Files -> Objects]
        BY DEF CreateUploadIntent, Upload, Expire, IInv, TypeOK, Objects
    <2>4. UNCHANGED <<removed, pc, request>>
        BY DEF CreateUploadIntent, Upload, Expire
    <2> QED
        BY <2>2, <2>3, <2>4 DEF IInv, TypeOK
<1>2. \A g \in Files : /\ files'[g].validated = files[g].validated
                       /\ \/ files'[g].status = files[g].status
                          \/ files'[g].status = "PENDING"
    BY DEF CreateUploadIntent, Upload, Expire, IInv, TypeOK, Records
<1>4. UNCHANGED <<removed, pc, request>>
    BY DEF CreateUploadIntent, Upload, Expire
<1>7. \A g \in Files : ContentKept(g) => ContentKept(g)'
    BY DEF CreateUploadIntent, Upload, Expire, ContentKept, IInv, TypeOK
<1>3. ReviewedWasValidated'
    BY <1>2, <1>7 DEF IInv, ReviewedWasValidated
<1>8. ValidatedStays'
    BY <1>2, <1>4, <1>7 DEF IInv, TypeOK, Requests, ValidatedStays
<1>5. VerdictsOnValidated'
    BY <1>2, <1>4 DEF IInv, TypeOK, Requests, VerdictsOnValidated, Record
<1>6. StagesMatchKinds'
    BY <1>4 DEF IInv, StagesMatchKinds
<1> QED
    BY <1>1, <1>3, <1>5, <1>6, <1>8 DEF IInv

LEMMA StartIInv ==
    ASSUME IInv, NEW w \in Workers, NEW r \in Requests,
           pc' = [pc EXCEPT ![w] = IF r.kind = "sweep" THEN "removing" ELSE "reading"],
           request' = [request EXCEPT ![w] = r],
           r.kind = "sweep" <=> w \in Sweeps,
           UNCHANGED <<files, bucket, removed>>
    PROVE  IInv'
BY DEF IInv, TypeOK, Stages, ReviewedWasValidated, VerdictsOnValidated, ValidatedStays,
       StagesMatchKinds, ContentKept, Record

LEMMA NextIInv ==
    ASSUME IInv, [Next]_vars
    PROVE  IInv'
<1>1. CASE UNCHANGED vars
    BY <1>1 DEF vars, IInv, TypeOK, ReviewedWasValidated, VerdictsOnValidated,
                ValidatedStays, StagesMatchKinds, ContentKept, Record
<1>2. ASSUME NEW c \in Calls, ReceiveRequest(c) PROVE IInv'
    BY <1>2, StartIInv, StoredFilesAssumption DEF ReceiveRequest, Workers
<1>3. ASSUME NEW s \in Sweeps, NEW f \in Files, StartSweep(s, f) PROVE IInv'
    <2> DEFINE r == [kind |-> "sweep", file |-> f, resource |-> NULL]
    <2>1. r \in Requests /\ r.kind = "sweep"
        BY DEF Requests
    <2> QED
        BY <1>3, <2>1, StartIInv DEF StartSweep, Workers
<1> QED
    BY <1>1, <1>2, <1>3, WorldIInv, ReadIInv, ProviderIInv, WriteIInv DEF Next, Work

\* The conjunction that makes the properties inductive holds in every reachable
\* state, for any number of requests, cleanup jobs, files and resources.
THEOREM InvariantOfSpec == Spec => []IInv
BY InitIInv, NextIInv, PTL DEF Spec

\* Whatever the order of completions, verdicts, restorations, deletions, uploads and
\* crashes, the object under a quarantined, active or failed record is the one that
\* passed validation, unless a deletion has taken it since: although a verdict is
\* written on whatever status the record has by then, and a completion some time
\* after its content was examined.
THEOREM OnlyValidatedReviewed == Spec => []ReviewedWasValidated
BY InvariantOfSpec, PTL DEF IInv

LEMMA AttachmentStep ==
    ASSUME IInv, [Next]_vars, NEW f \in Files,
           files'[f].resource \notin {files[f].resource, NULL}
    PROVE  files[f].resource = NULL /\ files[f].status \in {"QUARANTINED", "ACTIVE"}
<1> USE DEF IInv, TypeOK
<1>1. ~UNCHANGED files
    OBVIOUS
<1>2. ASSUME NEW w \in Workers, WriteAttachment(w)
      PROVE  files[f].resource = NULL /\ files[f].status \in {"QUARANTINED", "ACTIVE"}
    BY <1>2 DEF WriteAttachment, MayAttach, Record, Records
<1>3. ASSUME NEW w \in Workers,
             \/ MarkDeletionRetry(w) \/ WriteDeletion(w) \/ WriteReview(w)
             \/ Restore(w) \/ WriteCompletion(w)
      PROVE  FALSE
    <2>1. files[f] \in Records
        OBVIOUS
    <2>2. CASE WriteCompletion(w)
        <3>1. Completed(files[f]).resource = files[f].resource
            BY <2>1 DEF Completed, Records
        <3>2. \/ files'[f] = files[f]
              \/ files'[f] = Completed(files[f])
            BY <2>2 DEF WriteCompletion
        <3> QED
            BY <3>1, <3>2
    <2>3. CASE ~WriteCompletion(w)
        <3>1. files' = files \/ \E s \in Status : UpdateStatus(w, s)
            BY <1>3, <2>3 DEF MarkDeletionRetry, WriteDeletion, WriteReview, Restore,
                              UpdateStatus, Status
        <3>2. \A s \in Status : [files[f] EXCEPT !.status = s].resource = files[f].resource
            BY <2>1 DEF Records
        <3>3. ASSUME NEW s \in Status, UpdateStatus(w, s)
              PROVE  files'[f] = files[f] \/ files'[f] = [files[f] EXCEPT !.status = s]
            BY <3>3 DEF UpdateStatus
        <3> QED
            BY <3>1, <3>2, <3>3
    <2> QED
        BY <2>2, <2>3
<1>4. ASSUME NEW g \in Files, CreateUploadIntent(g) \/ Expire(g) PROVE FALSE
    BY <1>4 DEF CreateUploadIntent, Expire, NoFile, Records
<1> QED
    BY <1>1, <1>2, <1>3, <1>4
    DEF Next, Work, vars, Upload, ReceiveRequest, StartSweep, Read, Examine,
        RemoveObject, RemoveFails, RecordFails, FinishReview, Crash

\* No two resources take one file: an attachment succeeds only on a file that is
\* free and ready when its UPDATE runs, whatever was read before.
THEOREM AttachmentsClaimed == Spec => AttachmentsAreClaimed
<1>1. IInv /\ [Next]_vars =>
          [\A f \in Files : files'[f].resource \notin {files[f].resource, NULL} =>
             /\ files[f].resource = NULL
             /\ files[f].status \in {"QUARANTINED", "ACTIVE"}]_vars
    BY AttachmentStep
<1> QED
    BY <1>1, InvariantOfSpec, PTL DEF Spec, AttachmentsAreClaimed
=============================================================================
