---------------------------- MODULE DocumentRollout ----------------------------
(***************************************************************************)
(* The move of private documents from URL columns to stored files: the       *)
(* migration AddStoredFileIdToPrivateDocuments, which links the documents     *)
(* kept as paths of the private bucket, and the operator's tool               *)
(* storage-phase9-rollout, which reads the linked objects and tries to copy   *)
(* the external ones (apply), clears the old columns (finalize) and checks    *)
(* the result (verify), while documents are reviewed.  A document is one row  *)
(* of one source; its owner and type never change, so that a file matches its *)
(* document when it is attached to it.                                       *)
(*   apply tests the answer of its UPDATE by update.length !== 1.  query() of *)
(* TypeORM 0.3.30 answers an UPDATE with [rows, count], so that the test       *)
(* always fails: no copy is ever linked, and a run that has read one object    *)
(* ends there with an error.                                                 *)
(***************************************************************************)
EXTENDS Handlers, FiniteSets

CONSTANTS
    Docs,       \* rows with a private document
    External,   \* those whose document is a public URL; the others' is a path
    FileIds     \* ids of stored_files the migration and the tool may draw

\* A path is no id, and the key of a copy is made of an id.
ASSUME RolloutAssumption ==
    /\ External \subseteq Docs /\ Docs \cap FileIds = {}
    /\ NULL \notin {"set"} \cup Docs \cup FileIds

VARIABLES
    docs,       \* the rows: source column, target column and the review's outcome
    kept,       \* rows of stored_files, NULL when there is none
    objects,    \* objects of the private bucket: paths of documents, keys of files
    columns,    \* the target columns exist
    passed,     \* history: verify has found nothing since they were created
    astray      \* history: documents whose review was given up half way, or taken
                \* back half, since verify last found their row in order

rolloutRows == <<docs, kept, objects, columns, passed, astray>>

Verdicts == {"pending", "approved", "rejected"}
FileStatus(verdict) ==
    CASE verdict = "approved" -> "ACTIVE"
      [] verdict = "rejected" -> "FAILED"
      [] OTHER -> "QUARANTINED"

\* A document that is a path has its object; an external one may have been replaced
\* since by a private file, which is none of the rollout's business.
RolloutInit ==
    /\ docs \in [Docs -> [source : {"set", NULL}, link : {NULL}, verdict : {"pending", "approved"}]]
    /\ \A d \in Docs \ External : docs[d].source = "set"
    /\ kept = [f \in FileIds |-> NULL]
    /\ objects = Docs \ External
    /\ columns = FALSE
    /\ passed = FALSE /\ astray = {}

\* The file the migration wrote for a path: object keys are unique.
FileOfPath(d) == {f \in FileIds : kept[f] # NULL /\ kept[f].object = d}

ToLink == {d \in Docs \ External : docs[d].source = "set" /\ docs[d].link = NULL}

\* What up inserts: placeholders without size, but no second row for an object.
Inserted(id) ==
    [f \in FileIds |->
        IF \E d \in ToLink : FileOfPath(d) = {} /\ id[d] = f
        THEN LET d == CHOOSE d \in ToLink : id[d] = f IN
             [object |-> d, doc |-> d, status |-> FileStatus(docs[d].verdict), sized |-> FALSE]
        ELSE kept[f]]

\* The migration's up: one transaction, while no tool is running.
MigrateDocuments ==
    /\ "migrating-documents" \in mix /\ Quiet /\ ~columns
    /\ \E id \in [ToLink -> FileIds] :
         /\ \A d, e \in ToLink : id[d] = id[e] => d = e
         /\ \A d \in ToLink : IF FileOfPath(d) = {} THEN kept[id[d]] = NULL /\ id[d] \notin objects
                                                   ELSE id[d] \in FileOfPath(d)
         /\ kept' = Inserted(id)
         /\ docs' = [d \in Docs |-> IF d \in ToLink THEN [docs[d] EXCEPT !.link = id[d]]
                                                   ELSE docs[d]]
    /\ columns' = TRUE
    /\ UNCHANGED <<call, objects, passed, astray>>

\* Mutant of LeftByDown: the metadata of the links that are dropped goes with them.
LeftByDownUnlinked == [f \in FileIds |-> IF \E d \in Docs : docs[d].link = f THEN NULL ELSE kept[f]]

\* down leaves the metadata.
LeftByDown == kept

\* The migration's down drops the target columns.
RevertDocuments ==
    /\ "reverting-documents" \in mix /\ Quiet /\ columns
    /\ docs' = [d \in Docs |-> [docs[d] EXCEPT !.link = NULL]]
    /\ kept' = LeftByDown
    /\ columns' = FALSE /\ passed' = FALSE
    /\ UNCHANGED <<call, objects, astray>>

-----------------------------------------------------------------------------
(* apply *)

Apply(c) == Receive(c, [at |-> "loading-legacy"]) /\ columns /\ UNCHANGED rolloutRows

Sources == {d \in Docs : docs[d].source = "set"}

\* Every row with a source, as it is now; the tool goes by it until it ends, which
\* is after the first candidate: external ones that are linked do not occur.
LoadCandidates(c) ==
    /\ At(c, "loading-legacy")
    /\ call' = [call EXCEPT ![c] =
           [at |-> "next-legacy", rows |-> docs, left |-> Sources, doc |-> NULL, file |-> NULL]]
    /\ UNCHANGED rolloutRows

Row(c, d) == call[c].rows[d]
Take(c, await, d) ==
    call' = [call EXCEPT ![c].at = await, ![c].doc = d, ![c].left = @ \ {d}]

\* A retained object is downloaded through a signed URL and validated.
DownloadRetained(c) ==
    /\ At(c, "next-legacy")
    /\ \E d \in call[c].left \ External :
         /\ Row(c, d).link # NULL /\ d \in objects
         /\ Take(c, "hydrating", d)
    /\ UNCHANGED rolloutRows

Matches(f, d) == kept[f] # NULL /\ kept[f].doc = d /\ kept[f].object = d

\* The UPDATE is committed where it matches; the tool says it does not, and ends.
Hydrate(c) ==
    /\ At(c, "hydrating")
    /\ LET d == call[c].doc  f == Row(c, d).link IN
         kept' = IF Matches(f, d) THEN [kept EXCEPT ![f].sized = TRUE] ELSE kept
    /\ End(c)
    /\ UNCHANGED <<docs, objects, columns, passed, astray>>

\* A random id: no row and no copy under way has it.
Fresh(f) ==
    /\ kept[f] = NULL
    /\ \A c \in Calls : At(c, "linking") \/ At(c, "removing-copy") => call[c].file # f

\* An external document is downloaded and uploaded under the key of a new file,
\* where there must be no object yet.
CopyExternal(c) ==
    /\ At(c, "next-legacy")
    /\ \E d \in call[c].left \cap External, f \in FileIds :
         /\ Row(c, d).link = NULL /\ Fresh(f) /\ f \notin objects
         /\ objects' = objects \cup {f}
         /\ call' = [call EXCEPT ![c].at = "linking", ![c].doc = d, ![c].file = f,
                                ![c].left = @ \ {d}]
    /\ UNCHANGED <<docs, kept, columns, passed, astray>>

\* The transaction with the file's row and the document's link to it: begun, it is
\* rolled back, since the tool takes any answer of the UPDATE for the loss of a
\* race; when it cannot begin, the copy stays where it is.
LinkCopy(c) ==
    /\ At(c, "linking")
    /\ Goto(c, "removing-copy") \/ End(c)
    /\ UNCHANGED rolloutRows

\* The copy is removed, whether or not the bucket does it, and the tool gives up.
RemoveCopy(c) ==
    /\ At(c, "removing-copy")
    /\ objects' \in {objects, objects \ {call[c].file}}
    /\ End(c)
    /\ UNCHANGED <<docs, kept, columns, passed, astray>>

\* There is no candidate, or one cannot be done (no metadata, no object, no source,
\* bad bytes, a refused upload).
FinishApply(c) == At(c, "next-legacy") /\ End(c) /\ UNCHANGED rolloutRows

-----------------------------------------------------------------------------
(* finalize *)

Finalize(c) == Receive(c, [at |-> "loading-linked"]) /\ columns /\ UNCHANGED rolloutRows

\* Of a candidate only its id and its link are used from here on.
LoadLinked(c) ==
    /\ At(c, "loading-linked")
    /\ call' = [call EXCEPT ![c] =
           [at |-> "next-linked", rows |-> [d \in Docs |-> [link |-> docs[d].link]],
            left |-> Sources, doc |-> NULL]]
    /\ UNCHANGED rolloutRows

\* A candidate without metadata is blocked, as every external one is.
Blocked(c) ==
    /\ At(c, "next-linked")
    /\ \E d \in call[c].left :
         /\ Row(c, d).link = NULL
         /\ call' = [call EXCEPT ![c].left = @ \ {d}]
    /\ UNCHANGED rolloutRows

FindLinked(c) ==
    /\ At(c, "next-linked")
    /\ \E d \in call[c].left : Row(c, d).link # NULL /\ Take(c, "clearing", d)
    /\ UNCHANGED rolloutRows

\* The WHERE clause of the UPDATE.
LinkedAsRead(c, d) == docs[d].link = Row(c, d).link

ClearSource(c) ==
    /\ At(c, "clearing")
    /\ LET d == call[c].doc IN
         docs' = IF LinkedAsRead(c, d) THEN [docs EXCEPT ![d].source = NULL] ELSE docs
    /\ Goto(c, "next-linked")
    /\ UNCHANGED <<kept, objects, columns, passed, astray>>

FinishFinalize(c) == At(c, "next-linked") /\ call[c].left = {} /\ End(c) /\ UNCHANGED rolloutRows

-----------------------------------------------------------------------------
(* verify: one query for each source, one for the attachments, one for the metadata *)

Verify(c) ==
    Receive(c, [at |-> "verifying", left |-> Docs, found |-> FALSE]) /\ columns /\ UNCHANGED rolloutRows

\* Mutant of StatusDiffers: the query does not compare the status.
StatusDiffersNever(d) == FALSE

StatusDiffers(d) == kept[docs[d].link].status # FileStatus(docs[d].verdict)

InvalidLink(d) ==
    /\ docs[d].link # NULL
    /\ \/ kept[docs[d].link] = NULL
       \/ kept[docs[d].link].doc # d
       \/ StatusDiffers(d)

InOrder(d) == docs[d].source = NULL /\ ~InvalidLink(d)

VerifySource(c) ==
    /\ At(c, "verifying")
    /\ \E d \in call[c].left :
         /\ call' = [call EXCEPT ![c].left = @ \ {d}, ![c].found = @ \/ ~InOrder(d)]
         /\ astray' = IF InOrder(d) THEN astray \ {d} ELSE astray
    /\ UNCHANGED <<docs, kept, objects, columns, passed>>

Orphans == {f \in FileIds : kept[f] # NULL /\ \A d \in Docs : docs[d].link # f}
Unsized == {f \in FileIds : kept[f] # NULL /\ ~kept[f].sized}

VerifyAttachments(c) ==
    /\ At(c, "verifying") /\ call[c].left = {}
    /\ call' = [call EXCEPT ![c].at = "verifying-metadata", ![c].found = @ \/ Orphans # {}]
    /\ UNCHANGED rolloutRows

\* The tool succeeds when no query has found anything.
VerifyMetadata(c) ==
    /\ At(c, "verifying-metadata")
    /\ passed' = (passed \/ ~(call[c].found \/ Unsized # {}))
    /\ End(c)
    /\ UNCHANGED <<docs, kept, objects, columns, astray>>

-----------------------------------------------------------------------------
(* The review of a document, whose file follows its verdict in statements of its own *)

ReviewDocument(c) ==
    /\ \E d \in Docs, v \in {"approved", "rejected"} :
         Receive(c, [at |-> "finding-document", doc |-> d, verdict |-> v, file |-> NULL])
    /\ columns
    /\ UNCHANGED rolloutRows

\* The row is read: its link names the file that will be reviewed.
FindDocument(c) ==
    /\ At(c, "finding-document")
    /\ call' = [call EXCEPT ![c].at = "deciding-document", ![c].file = docs[call[c].doc].link]
    /\ UNCHANGED rolloutRows

GoneAstray(c) == astray' = astray \cup {call[c].doc}

\* The conditional UPDATE.  When the row cannot be read again after it, or its answer
\* is lost, the verdict stays and no file is reviewed.
DecideDocument(c) ==
    LET d == call[c].doc IN
    /\ At(c, "deciding-document")
    /\ IF docs[d].verdict = "pending"
       THEN /\ docs' = [docs EXCEPT ![d].verdict = call[c].verdict]
            /\ \/ Goto(c, "reading-file") /\ UNCHANGED astray
               \/ End(c) /\ GoneAstray(c)
       ELSE End(c) /\ UNCHANGED <<docs, astray>>
    /\ UNCHANGED <<kept, objects, columns, passed>>

\* reviewFile: no file, one that has its status already, one to be reviewed, and one
\* that may not be or cannot be read.
ReadFile(c) ==
    LET f == call[c].file IN
    /\ At(c, "reading-file")
    /\ \/ f = NULL /\ End(c)
       \/ f # NULL /\ kept[f].status = FileStatus(call[c].verdict) /\ End(c)
       \/ f # NULL /\ kept[f].status = "QUARANTINED" /\ Goto(c, "reviewing-file")
       \/ f # NULL /\ Goto(c, "taking-back")
    /\ UNCHANGED rolloutRows

\* updateStatus: its UPDATE fails, or goes through, and then its SELECT may fail.
ReviewFile(c) ==
    /\ At(c, "reviewing-file")
    /\ \/ /\ kept' = [kept EXCEPT ![call[c].file].status = FileStatus(call[c].verdict)]
          /\ End(c) \/ Goto(c, "taking-back")
       \/ Goto(c, "taking-back") /\ UNCHANGED kept
    /\ UNCHANGED <<docs, objects, columns, passed, astray>>

\* The compensation: the verdict is taken back, but not the status of a file whose
\* review did not say that it had changed it; or this fails too.
TakeBack(c) ==
    LET d == call[c].doc IN
    /\ At(c, "taking-back")
    /\ \/ /\ docs[d].verdict = call[c].verdict
          /\ docs' = [docs EXCEPT ![d].verdict = "pending"]
          /\ IF kept[call[c].file].status = "QUARANTINED" THEN UNCHANGED astray ELSE GoneAstray(c)
       \/ UNCHANGED docs /\ GoneAstray(c)
    /\ End(c)
    /\ UNCHANGED <<kept, objects, columns, passed>>

\* Between the verdict and the end of its handler.
Reviewing(c) == call[c].at \in {"reading-file", "reviewing-file", "taking-back"}

Rolling(c) ==
    call[c].at \in {"loading-legacy", "next-legacy", "hydrating", "linking", "removing-copy",
                   "loading-linked", "next-linked", "clearing", "verifying", "verifying-metadata",
                   "finding-document", "deciding-document"} \/ Reviewing(c)

\* The tool or the backend dies.
CrashRollout(c) ==
    /\ Rolling(c) /\ Die(c)
    /\ IF Reviewing(c) THEN GoneAstray(c) ELSE UNCHANGED astray
    /\ UNCHANGED <<docs, kept, objects, columns, passed>>

RolloutStep(c) ==
    \/ Apply(c) \/ LoadCandidates(c) \/ DownloadRetained(c) \/ Hydrate(c)
    \/ CopyExternal(c) \/ LinkCopy(c) \/ RemoveCopy(c) \/ FinishApply(c)
    \/ Finalize(c) \/ LoadLinked(c) \/ Blocked(c) \/ FindLinked(c) \/ ClearSource(c)
    \/ FinishFinalize(c)
    \/ Verify(c) \/ VerifySource(c) \/ VerifyAttachments(c) \/ VerifyMetadata(c)
    \/ ReviewDocument(c) \/ FindDocument(c) \/ DecideDocument(c) \/ ReadFile(c) \/ ReviewFile(c)
    \/ TakeBack(c)
    \/ CrashRollout(c)

RolloutAround == MigrateDocuments \/ RevertDocuments

-----------------------------------------------------------------------------
FileRows == [object : Docs \cup FileIds, doc : Docs, sized : BOOLEAN,
             status : {"QUARANTINED", "ACTIVE", "FAILED"}]

ASSUME FileRowsAssumption == NULL \notin FileRows

\* Every variable has its type.
RolloutTypeOK ==
    /\ docs \in [Docs -> [source : {"set", NULL}, link : FileIds \cup {NULL}, verdict : Verdicts]]
    /\ kept \in [FileIds -> FileRows \cup {NULL}]
    /\ objects \subseteq Docs \cup FileIds /\ astray \subseteq Docs
    /\ columns \in BOOLEAN /\ passed \in BOOLEAN

\* A document can be found by its row, or by the metadata of its object.
Findable(d) ==
    \/ docs[d].source = "set" /\ (d \in External \/ d \in objects)
    \/ \E f \in FileIds : kept[f] # NULL /\ kept[f].doc = d /\ kept[f].object \in objects

\* No step loses a document: not a copy that is removed again, not the removal of the old
\* columns, not the migration's down after it, which leaves rows without source and link.
NothingIsLost == [][\A d \in Docs : Findable(d) => Findable(d)']_rolloutRows

\* Not kept: "Legacy record was already migrated concurrently" (line 397), for which a
\* copy is taken back, is said of a document that has been linked since.
RefusalsAreTrue == \A c \in Calls : At(c, "removing-copy") => docs[call[c].doc].link # NULL

\* The cutover gate: once verify has passed, whatever ran or was reviewed while its queries
\* were made, no row has an old source, and each path is that of its row's file, which has
\* been read and has the status of the review, unless a review is under way or has gone
\* astray since verify looked at the row.
GateHolds ==
    passed =>
        \A d \in Docs :
            /\ docs[d].source = NULL
            /\ d \notin External =>
                /\ docs[d].link # NULL
                /\ LET file == kept[docs[d].link] IN
                     /\ file.doc = d /\ file.object = d /\ file.sized
                     /\ \/ file.status = FileStatus(docs[d].verdict)
                        \/ d \in astray
                        \/ \E c \in Calls : Reviewing(c) /\ call[c].doc = d
=============================================================================
