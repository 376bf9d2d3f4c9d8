----------------------- MODULE ProfileVerification_proofs -----------------------
(***************************************************************************)
(* Proofs about ProfileVerification for every set of kinds, columns, files    *)
(* and reviewers and every number of requests at a time.  The verdicts on     *)
(* files hold in every behaviour; the agreement of profile, files and audit   *)
(* log is claimed while requests do not overlap and no step has failed in a   *)
(* way the code reports, and the invariant behind it is about that case.      *)
(***************************************************************************)
EXTENDS ProfileVerification, FiniteSetTheorems, TLAPS

-----------------------------------------------------------------------------
(* The frames of the requests *)

FileRows == [status : FileStatus, resource : Ids \cup {NULL}]

SaveAwaits == {"loading"} \cup Saving
LoadFrames(kind) == [at : {"loading"}, docs : Documents(kind), row : {NULL}, attached : {{}}]
SavingFrames(kind) ==
    [at : Saving, docs : Documents(kind), row : [id : Ids, docs : Documents(kind)],
     attached : SUBSET Columns[kind]]

EarlyAwaits == {"finding", "deciding", "rereading"}
LateAwaits == {"reviewing", "auditing", "restoring", "reopening"}
EarlyFrames ==
    {f \in [at : EarlyAwaits, reviewer : Reviewers, result : Decided, stamp : {0},
            docs : SUBSET Files, left : SUBSET Files, changed : {{}}, tries : {0}] :
       f.left = f.docs}
LateFrames ==
    [at : LateAwaits, reviewer : Reviewers, result : Decided, stamp : 0..MaxStamp,
     docs : SUBSET Files, left : SUBSET Files, changed : SUBSET Files, tries : 0..2]

Frames(kind) ==
    {Idle} \cup LoadFrames(kind) \cup SavingFrames(kind) \cup EarlyFrames \cup LateFrames

Of(c, awaits) == call[c].at \in awaits

-----------------------------------------------------------------------------
(* The invariants *)

\* Every variable and every frame has its type, and a saved profile its id.
TypeInv ==
    /\ VerificationTypeOK
    /\ call \in [Calls -> Frames(profile.kind)]
    /\ profile.status # "none" => profile.id \in Ids

\* A file is under the verdict of one request at most until that request ends,
\* and a verdict that stands is not given again.
Judging == {"reviewing", "auditing", "restoring"}
VerdictsInv ==
    /\ \A f \in standing : files[f].status # "QUARANTINED"
    /\ \A c \in Calls : Of(c, Judging) =>
         \A f \in call[c].changed : files[f].status # "QUARANTINED" /\ f \notin standing
    /\ \A c, d \in Calls : c # d /\ Of(c, Judging) /\ Of(d, Judging) =>
         call[c].changed \cap call[d].changed = {}

\* Requests come one after the other, and nothing has failed in a way the code reports.
Alone == ~Overlap /\ ~disturbed

\* The owner is served alone; one reviewer at most has decided and not ended.
Winning == {"rereading", "reviewing", "auditing", "restoring", "reopening"}
Reading == Winning \cup {"deciding"}
OneAtATime ==
    /\ \A c, d \in Calls : c # d /\ Of(c, SaveAwaits) => At(d, "idle")
    /\ \A c, d \in Calls : Of(c, Winning) /\ Of(d, Winning) => c = d
    /\ \A c \in Calls : Of(c, Reading) => call[c].docs = DocsOf(profile)
    /\ \A c \in Calls : At(c, "retiring") => profile.status = "pending"

NobodyWins == \A c \in Calls : ~Of(c, Winning)

\* The audit row of the decision the profile shows.
DecisionRow == [status |-> profile.status, by |-> profile.by, stamp |-> profile.stamp]

\* The decision of the reviewer who has won is the profile's and the latest; all
\* others that stand are audited.
WinnerDecided(c) ==
    /\ profile.status = call[c].result /\ profile.by = call[c].reviewer
    /\ ~At(c, "rereading") => call[c].stamp = profile.stamp
    /\ decisions = audits \cup {DecisionRow}
    /\ At(c, "auditing") \/ \A a \in audits : a.stamp < profile.stamp
AuditsInv ==
    /\ \A d \in decisions : d.stamp <= profile.stamp
    /\ \A c \in Calls : Of(c, Winning) => WinnerDecided(c)
    /\ NobodyWins => audits = decisions

\* The documents reviewed so far have the verdict of the reviewer.
StatusOf(result) == IF result = "approved" THEN "ACTIVE" ELSE "FAILED"
Reviewed(c) ==
    /\ \A f \in call[c].docs \ call[c].left : files[f].status = Verdict(c)
    /\ At(c, "auditing") => call[c].left = {}
FilesInv ==
    /\ NobodyWins /\ profile.status \in Decided =>
         \A f \in DocsOf(profile) : files[f].status = StatusOf(profile.status)
    /\ \A c \in Calls : Of(c, {"reviewing", "auditing"}) => Reviewed(c)

AloneInv == Alone => OneAtATime /\ AuditsInv /\ FilesInv

\* No file may be named for two columns of a kind.
OfferedApart ==
    \A kind \in Kinds : \A s, t \in Columns[kind] : s # t => Offered[s] \cap Offered[t] = {}

\* The files attached to a resource and not deleted.
Gone == {"DELETED", "DELETE_RETRY"}
Linked(id) == {f \in Files : files[f].resource = id /\ files[f].status \notin Gone}

\* The files attached to the id a save has drawn or read: the documents of the
\* profile, and before the save those the request has attached itself, after it
\* those it has replaced.
LinkedSoFar(c) ==
    /\ At(c, "retiring") =>
         /\ call[c].row.id = profile.id
         /\ Linked(profile.id) = DocsOf(profile) \cup Replaced(c)
         /\ Replaced(c) \cap DocsOf(profile) = {}
    /\ ~At(c, "retiring") =>
         /\ call[c].row.docs = profile.docs
         /\ profile.status # "none" => call[c].row.id = profile.id
         /\ Linked(call[c].row.id) = DocsOf(profile) \cup Detachable(c)
         /\ call[c].attached \subseteq Changes(call[c])
         /\ At(c, "saving") => call[c].attached = Changes(call[c])
NobodySaves == \A c \in Calls : ~Of(c, Saving)
LinkParts ==
    /\ profile.status = "none" => profile.id = NULL /\ DocsOf(profile) = {}
    /\ NobodySaves /\ profile.status # "none" => DocsOf(profile) = Linked(profile.id)
    /\ \A c \in Calls : Of(c, Saving) => LinkedSoFar(c)
LinkInv == Alone => LinkParts

-----------------------------------------------------------------------------
(* Frames and rows *)

\* The await of a frame tells its shape.
LEMMA FrameShapes ==
    ASSUME TypeInv, NEW c \in Calls
    PROVE  /\ At(c, "idle") => call[c] = Idle
           /\ At(c, "loading") => call[c] \in LoadFrames(profile.kind)
           /\ Of(c, Saving) => call[c] \in SavingFrames(profile.kind)
           /\ Of(c, EarlyAwaits) => call[c] \in EarlyFrames
           /\ Of(c, LateAwaits) => call[c] \in LateFrames
           /\ \/ At(c, "idle") \/ At(c, "loading") \/ Of(c, Saving)
              \/ Of(c, EarlyAwaits) \/ Of(c, LateAwaits)
<1>1. call[c] \in Frames(profile.kind)
    BY DEF TypeInv
<1>2. PICK f : f = call[c] /\ f \in Frames(profile.kind)
    BY <1>1
<1>3. f = Idle => f.at = "idle"
    BY DEF Idle
<1>4. f \in LoadFrames(profile.kind) => f.at = "loading"
    BY DEF LoadFrames
<1>5. f \in SavingFrames(profile.kind) => f.at \in Saving
    BY DEF SavingFrames
<1>6. f \in EarlyFrames => f.at \in EarlyAwaits
    BY DEF EarlyFrames
<1>7. f \in LateFrames => f.at \in LateAwaits
    BY DEF LateFrames
<1> QED
    BY <1>2, <1>3, <1>4, <1>5, <1>6, <1>7 DEF Frames, At, Of, Saving, EarlyAwaits, LateAwaits

\* The rows of the files, and the documents of the profile among them.
LEMMA Rows ==
    ASSUME TypeInv
    PROVE  /\ files \in [Files -> FileRows]
           /\ \A f \in Files : files[f] \in FileRows /\ files[f].status \in FileStatus
           /\ profile.kind \in Kinds /\ profile.docs \in Documents(profile.kind)
           /\ profile.stamp \in 0..MaxStamp /\ profile.status \in {"none", "pending"} \cup Decided
           /\ DocsOf(profile) \subseteq Files
<1>1. files \in [Files -> FileRows]
    BY DEF TypeInv, VerificationTypeOK, FileRows
<1>2. \A f \in Files : files[f] \in FileRows /\ files[f].status \in FileStatus
    BY <1>1 DEF FileRows
<1>3. PICK kind \in Kinds :
        profile \in [kind : {kind}, id : Ids \cup {NULL},
                     status : {"none", "pending"} \cup Decided, by : Reviewers \cup {NULL},
                     docs : Documents(kind), stamp : 0..MaxStamp]
    BY DEF TypeInv, VerificationTypeOK, Profiles
<1>4. /\ profile.kind = kind /\ profile.docs \in Documents(kind)
      /\ profile.stamp \in 0..MaxStamp /\ profile.status \in {"none", "pending"} \cup Decided
    BY <1>3
<1>5. DocsOf(profile) \subseteq Files
    BY <1>4 DEF Documents, DocsOf
<1> QED
    BY <1>1, <1>2, <1>4, <1>5

\* A step of call c; the others stay where they are.
Turn(c) ==
    /\ call' = [call EXCEPT ![c] = call'[c]]
    /\ call'[c] \in Frames(profile.kind)

\* The other requests, after a step of one.
LEMMA TurnOthers ==
    ASSUME TypeInv, NEW c \in Calls, Turn(c)
    PROVE  /\ \A d \in Calls \ {c} : call'[d] = call[d]
           /\ call' \in [Calls -> Frames(profile.kind)]
BY DEF TypeInv, Turn

\* The frame of a call that ends, moves or arrives.
LEMMA Ended ==
    ASSUME TypeInv, NEW c \in Calls, End(c)
    PROVE  Turn(c) /\ call'[c] = Idle /\ call'[c].at = "idle"
BY DEF TypeInv, Turn, End, Idle, Frames

\* The frame of a request that goes on to its next await.
LEMMA Moved ==
    ASSUME TypeInv, NEW c \in Calls, NEW await, Goto(c, await)
    PROVE  call' = [call EXCEPT ![c] = call'[c]] /\ call'[c] = [call[c] EXCEPT !.at = await]
BY DEF TypeInv, Goto

\* The frame of a request that arrives.
LEMMA Received ==
    ASSUME TypeInv, NEW c \in Calls, NEW frame, Receive(c, frame)
    PROVE  call' = [call EXCEPT ![c] = call'[c]] /\ call'[c] = frame /\ At(c, "idle")
BY DEF TypeInv, Receive

\* The next await of a save, and what a save keeps of its frame.
LEMMA SaveMoved ==
    ASSUME TypeInv, NEW c \in Calls, Of(c, Saving), NEW await \in Saving, Goto(c, await)
    PROVE  /\ Turn(c) /\ call'[c].at = await
           /\ call'[c].docs = call[c].docs /\ call'[c].row = call[c].row
           /\ call'[c].attached = call[c].attached
<1>1. call' = [call EXCEPT ![c] = call'[c]] /\ call'[c] = [call[c] EXCEPT !.at = await]
    BY Moved
<1>2. call[c] \in SavingFrames(profile.kind)
    BY FrameShapes
<1>3. /\ call'[c] \in SavingFrames(profile.kind) /\ call'[c].at = await
      /\ call'[c].docs = call[c].docs /\ call'[c].row = call[c].row
      /\ call'[c].attached = call[c].attached
    BY <1>1, <1>2 DEF SavingFrames
<1> QED
    BY <1>1, <1>3 DEF Turn, Frames

\* The next await of a reviewer who has won.
LEMMA LateMoved ==
    ASSUME TypeInv, NEW c \in Calls, Of(c, LateAwaits), NEW await \in LateAwaits, Goto(c, await)
    PROVE  /\ Turn(c) /\ call'[c].at = await
           /\ call'[c].docs = call[c].docs /\ call'[c].left = call[c].left
           /\ call'[c].changed = call[c].changed /\ call'[c].stamp = call[c].stamp
           /\ call'[c].result = call[c].result /\ call'[c].reviewer = call[c].reviewer
<1>1. call' = [call EXCEPT ![c] = call'[c]] /\ call'[c] = [call[c] EXCEPT !.at = await]
    BY Moved
<1>2. call[c] \in LateFrames
    BY FrameShapes
<1>3. /\ call'[c] \in LateFrames /\ call'[c].at = await
      /\ call'[c].docs = call[c].docs /\ call'[c].left = call[c].left
      /\ call'[c].changed = call[c].changed /\ call'[c].stamp = call[c].stamp
      /\ call'[c].result = call[c].result /\ call'[c].reviewer = call[c].reviewer
    BY <1>1, <1>2 DEF LateFrames
<1> QED
    BY <1>1, <1>3 DEF Turn, Frames

-----------------------------------------------------------------------------
(* Every action keeps the types and moves its own request *)

\* A step that leaves the row of the profile alone keeps the types.
LEMMA TypeWithProfile ==
    ASSUME TypeInv, NEW c \in Calls, Turn(c), UNCHANGED profile,
           files' \in [Files -> FileRows], audits' \subseteq Transitions,
           decisions' \subseteq Transitions, standing' \subseteq Files, disturbed' \in BOOLEAN
    PROVE  TypeInv'
<1>1. call' \in [Calls -> Frames(profile.kind)]
    BY TurnOthers
<1>2. profile' = profile
    OBVIOUS
<1>3. VerificationTypeOK'
    BY <1>2 DEF TypeInv, VerificationTypeOK, FileRows, Profiles
<1> QED
    BY <1>1, <1>2, <1>3 DEF TypeInv

\* The rest of the tables, for actions that leave them alone.
LEMMA OtherTables ==
    ASSUME TypeInv
    PROVE  /\ audits \subseteq Transitions /\ decisions \subseteq Transitions
           /\ standing \subseteq Files /\ disturbed \in BOOLEAN
BY DEF TypeInv, VerificationTypeOK

\* A save arrives.
LEMMA SubmitStep ==
    ASSUME TypeInv, NEW c \in Calls, Submit(c)
    PROVE  TypeInv' /\ Turn(c) /\ At(c, "idle") /\ call'[c].at = "loading"
<1>1. PICK docs \in Documents(profile.kind) :
        Receive(c, [at |-> "loading", docs |-> docs, row |-> NULL, attached |-> {}])
    BY DEF Submit
<1>2. PICK frame :
        frame = [at |-> "loading", docs |-> docs, row |-> NULL, attached |-> {}]
    OBVIOUS
<1>3. frame \in LoadFrames(profile.kind) /\ frame.at = "loading"
    BY <1>2 DEF LoadFrames
<1>4. call' = [call EXCEPT ![c] = call'[c]] /\ call'[c] = frame /\ At(c, "idle")
    BY <1>1, <1>2, Received
<1>5. Turn(c)
    BY <1>3, <1>4 DEF Turn, Frames
<1>6. UNCHANGED <<profile, files, audits, decisions, standing, disturbed>>
    BY DEF Submit
<1>7. TypeInv'
    BY <1>5, <1>6, TypeWithProfile, OtherTables, Rows
<1> QED
    BY <1>3, <1>4, <1>5, <1>7

\* The frame of a save that has read the profile.
LEMMA SavingFrame ==
    ASSUME TypeInv, NEW c \in Calls, Of(c, Saving)
    PROVE  /\ call[c] \in SavingFrames(profile.kind)
           /\ call[c].row.id \in Ids
           /\ call[c].row.docs \in Documents(profile.kind) /\ call[c].docs \in Documents(profile.kind)
           /\ call[c].attached \subseteq Columns[profile.kind]
<1>1. call[c] \in SavingFrames(profile.kind)
    BY FrameShapes
<1>2. PICK f : f = call[c] /\ f \in SavingFrames(profile.kind)
    BY <1>1
<1>3. /\ f.docs \in Documents(profile.kind) /\ f.attached \subseteq Columns[profile.kind]
      /\ f.row \in [id : Ids, docs : Documents(profile.kind)]
    BY <1>2 DEF SavingFrames
<1>4. f.row.id \in Ids /\ f.row.docs \in Documents(profile.kind)
    BY <1>3
<1> QED
    BY <1>1, <1>2, <1>3, <1>4

\* A save has read the profile or is over.
LEMMA LoadStep ==
    ASSUME TypeInv, NEW c \in Calls, Load(c)
    PROVE  /\ TypeInv' /\ Turn(c) /\ At(c, "loading")
           /\ \/ call'[c] = Idle
              \/ /\ call'[c].at = "attaching" /\ call'[c].row.docs = profile.docs
                 /\ profile.status = "none" => call'[c].row.id \in Unused
                 /\ profile.status # "none" => call'[c].row.id = profile.id
                 /\ call'[c].attached = {}
<1>1. At(c, "loading") /\ UNCHANGED <<profile, files, audits, decisions, standing, disturbed>>
    BY DEF Load
<1>2. call[c] \in LoadFrames(profile.kind)
    BY <1>1, FrameShapes
<1>3. CASE End(c)
    <2>1. Turn(c) /\ call'[c] = Idle
        BY <1>3, Ended
    <2>2. TypeInv'
        BY <1>1, <2>1, TypeWithProfile, OtherTables, Rows
    <2> QED
        BY <1>1, <2>1, <2>2
<1>4. CASE ~End(c)
    <2>1. PICK id \in IF profile.status = "none" THEN Unused ELSE {profile.id} :
            Keep(c, "attaching", [id |-> id, docs |-> profile.docs])
        BY <1>4 DEF Load
    <2>2. id \in Ids
        BY <2>1 DEF Unused, TypeInv
    <2>3. PICK row : row = [id |-> id, docs |-> profile.docs]
        OBVIOUS
    <2>4. row \in [id : Ids, docs : Documents(profile.kind)] /\ row.id = id /\ row.docs = profile.docs
        BY <2>2, <2>3, Rows
    <2>5. PICK f : f = call[c]
        OBVIOUS
    <2>6. PICK g : g = [f EXCEPT !.at = "attaching", !.row = row]
        OBVIOUS
    <2>7. g \in SavingFrames(profile.kind) /\ g.at = "attaching" /\ g.row = row /\ g.attached = {}
        BY <1>2, <2>4, <2>5, <2>6 DEF LoadFrames, SavingFrames, Saving
    <2>8. call' = [call EXCEPT ![c] = g]
        BY <2>1, <2>3, <2>5, <2>6 DEF Keep
    <2>9. call' = [call EXCEPT ![c] = call'[c]] /\ call'[c] = g
        BY <2>8 DEF TypeInv
    <2>10. Turn(c)
        BY <2>7, <2>9 DEF Turn, Frames
    <2>11. TypeInv'
        BY <1>1, <2>10, TypeWithProfile, OtherTables, Rows
    <2> QED
        BY <1>1, <2>1, <2>4, <2>7, <2>9, <2>10, <2>11
<1> QED
    BY <1>3, <1>4

\* What a save keeps of its frame.
SameSave(c) == call'[c].docs = call[c].docs /\ call'[c].row = call[c].row

\* The step of the loop of persistProfileWithFiles that attaches column s.
AttachesColumn(c, s) ==
    /\ s \in Changes(call[c]) \ call[c].attached
    /\ Attachable(call[c].docs[s], call[c].row.id)
    /\ files' = [files EXCEPT ![call[c].docs[s]].resource = call[c].row.id]
    /\ call'[c].at = "attaching" /\ call'[c].attached = call[c].attached \cup {s}
    /\ SameSave(c)

\* The file named for a changed column is one of the owner's.
LEMMA ChangedColumn ==
    ASSUME TypeInv, NEW c \in Calls, Of(c, Saving), NEW s \in Changes(call[c])
    PROVE  s \in Columns[profile.kind] /\ call[c].docs[s] \in Files
<1>1. call[c].docs \in Documents(profile.kind)
    BY SavingFrame
<1> QED
    BY <1>1 DEF Changes, Documents

\* A file is attached to a resource.
LEMMA FileAttached ==
    ASSUME TypeInv, NEW f \in Files, NEW id \in Ids, files' = [files EXCEPT ![f].resource = id]
    PROVE  /\ files' \in [Files -> FileRows]
           /\ \A g \in Files : files'[g].status = files[g].status
           /\ files'[f].resource = id
           /\ \A g \in Files \ {f} : files'[g] = files[g]
<1>1. PICK old : old = files[f] /\ old \in FileRows
    BY Rows
<1>2. PICK row : row = [old EXCEPT !.resource = id]
    OBVIOUS
<1>3. row \in FileRows /\ row.status = old.status /\ row.resource = id
    BY <1>1, <1>2 DEF FileRows
<1>4. files' = [files EXCEPT ![f] = row]
    BY <1>1, <1>2
<1>5. files \in [Files -> FileRows]
    BY Rows
<1>6. files' \in [Files -> FileRows]
    BY <1>3, <1>4, <1>5
<1>7. files'[f] = row /\ \A g \in Files \ {f} : files'[g] = files[g]
    BY <1>4, <1>5
<1> QED
    BY <1>1, <1>3, <1>6, <1>7

\* A save attaches the next file, has attached all, or goes back on them.
LEMMA AttachStep ==
    ASSUME TypeInv, NEW c \in Calls, Attach(c)
    PROVE  /\ TypeInv' /\ Turn(c) /\ At(c, "attaching") /\ Of(c, Saving)
           /\ UNCHANGED <<profile, audits, decisions, standing, disturbed>>
           /\ \A f \in Files : files'[f].status = files[f].status
           /\ SameSave(c)
           /\ \/ /\ call'[c].at = "saving" /\ call'[c].attached = call[c].attached
                 /\ Changes(call[c]) \subseteq call[c].attached /\ UNCHANGED files
              \/ \E s \in Changes(call[c]) : AttachesColumn(c, s)
              \/ /\ call'[c].at = "detaching" /\ call'[c].attached = call[c].attached
                 /\ UNCHANGED files
<1>1. At(c, "attaching") /\ UNCHANGED <<profile, audits, decisions, standing, disturbed>>
    BY DEF Attach
<1>2. Of(c, Saving)
    BY <1>1 DEF At, Of, Saving
<1>3. PICK left : left = Changes(call[c]) \ call[c].attached
    OBVIOUS
<1>4. CASE left = {} /\ Goto(c, "saving") /\ UNCHANGED files
    <2>1. "saving" \in Saving
        BY DEF Saving
    <2>2. /\ Turn(c) /\ call'[c].at = "saving" /\ SameSave(c)
          /\ call'[c].attached = call[c].attached
        BY <1>2, <1>4, <2>1, SaveMoved DEF SameSave
    <2>3. TypeInv'
        BY <1>1, <1>4, <2>2, TypeWithProfile, OtherTables, Rows
    <2> QED
        BY <1>1, <1>2, <1>3, <1>4, <2>2, <2>3
<1>5. CASE Goto(c, "detaching") /\ UNCHANGED files
    <2>1. "detaching" \in Saving
        BY DEF Saving
    <2>2. /\ Turn(c) /\ call'[c].at = "detaching" /\ SameSave(c)
          /\ call'[c].attached = call[c].attached
        BY <1>2, <1>5, <2>1, SaveMoved DEF SameSave
    <2>3. TypeInv'
        BY <1>1, <1>5, <2>2, TypeWithProfile, OtherTables, Rows
    <2> QED
        BY <1>1, <1>2, <1>5, <2>2, <2>3
<1>6. ASSUME NEW s \in left, Attachable(call[c].docs[s], call[c].row.id),
             files' = [files EXCEPT ![call[c].docs[s]].resource = call[c].row.id],
             call' = [call EXCEPT ![c].attached = @ \cup {s}]
      PROVE  TypeInv' /\ Turn(c) /\ AttachesColumn(c, s)
             /\ \A f \in Files : files'[f].status = files[f].status
    <2>1. s \in Columns[profile.kind] /\ call[c].docs[s] \in Files /\ call[c].row.id \in Ids
        BY <1>2, <1>3, ChangedColumn, SavingFrame
    <2>2. PICK f : f = call[c] /\ f \in SavingFrames(profile.kind)
        BY <1>2, SavingFrame
    <2>3. PICK g : g = [f EXCEPT !.attached = @ \cup {s}]
        OBVIOUS
    <2>4. /\ g \in SavingFrames(profile.kind) /\ g.at = f.at /\ g.docs = f.docs /\ g.row = f.row
          /\ g.attached = f.attached \cup {s}
        BY <2>1, <2>2, <2>3 DEF SavingFrames
    <2>5. call' = [call EXCEPT ![c] = call'[c]] /\ call'[c] = g
        BY <1>6, <2>2, <2>3 DEF TypeInv
    <2>6. Turn(c)
        BY <2>4, <2>5 DEF Turn, Frames
    <2>7. /\ files' \in [Files -> FileRows]
          /\ \A q \in Files : files'[q].status = files[q].status
        BY <1>6, <2>1, FileAttached
    <2>8. TypeInv'
        BY <1>1, <2>6, <2>7, TypeWithProfile, OtherTables
    <2>9. AttachesColumn(c, s)
        BY <1>1, <1>3, <1>6, <2>2, <2>4, <2>5 DEF AttachesColumn, SameSave, At
    <2> QED
        BY <2>6, <2>7, <2>8, <2>9
<1>7. CASE \E s \in left :
             /\ Attachable(call[c].docs[s], call[c].row.id)
             /\ files' = [files EXCEPT ![call[c].docs[s]].resource = call[c].row.id]
             /\ call' = [call EXCEPT ![c].attached = @ \cup {s}]
    BY <1>1, <1>2, <1>3, <1>6, <1>7 DEF AttachesColumn
<1> QED
    BY <1>3, <1>4, <1>5, <1>7 DEF Attach

\* A file is attached and the request does not learn of it, which disturbs.
LEMMA AttachUnansweredStep ==
    ASSUME TypeInv, NEW c \in Calls, AttachUnanswered(c)
    PROVE  /\ TypeInv' /\ Turn(c) /\ call'[c].at = "detaching" /\ disturbed'
           /\ UNCHANGED <<profile, audits, decisions, standing>>
           /\ \A f \in Files : files'[f].status = files[f].status
<1>1. /\ At(c, "attaching") /\ UNCHANGED <<profile, audits, decisions, standing>>
      /\ Goto(c, "detaching") /\ disturbed' = TRUE
    BY DEF AttachUnanswered
<1>2. Of(c, Saving) /\ "detaching" \in Saving
    BY <1>1 DEF At, Of, Saving
<1>3. Turn(c) /\ call'[c].at = "detaching"
    BY <1>1, <1>2, SaveMoved
<1>4. PICK s \in Changes(call[c]) :
          files' = [files EXCEPT ![call[c].docs[s]].resource = call[c].row.id]
    BY DEF AttachUnanswered
<1>5. call[c].docs[s] \in Files /\ call[c].row.id \in Ids
    BY <1>2, ChangedColumn, SavingFrame
<1>6. /\ files' \in [Files -> FileRows]
      /\ \A f \in Files : files'[f].status = files[f].status
    BY <1>4, <1>5, FileAttached
<1>7. TypeInv'
    BY <1>1, <1>3, <1>6, TypeWithProfile, OtherTables
<1> QED
    BY <1>1, <1>3, <1>6, <1>7

\* The entity the owner's save writes has the types of the table.
LEMMA ResubmittedRow ==
    ASSUME TypeInv, NEW c \in Calls, Of(c, Saving)
    PROVE  LET saved == Resubmitted(call[c]) IN
           /\ saved \in Profiles /\ saved.kind = profile.kind
           /\ saved.id = call[c].row.id /\ saved.status = "pending" /\ saved.stamp = 0
           /\ saved.docs \in Documents(profile.kind)
           /\ \A s \in Columns[profile.kind] :
                saved.docs[s] = IF call[c].docs[s] = NULL THEN call[c].row.docs[s] ELSE call[c].docs[s]
<1>1. /\ call[c].row.id \in Ids
      /\ call[c].row.docs \in Documents(profile.kind) /\ call[c].docs \in Documents(profile.kind)
    BY SavingFrame
<1>2. PICK kind \in Kinds :
        profile \in [kind : {kind}, id : Ids \cup {NULL},
                     status : {"none", "pending"} \cup Decided, by : Reviewers \cup {NULL},
                     docs : Documents(kind), stamp : 0..MaxStamp]
    BY DEF TypeInv, VerificationTypeOK, Profiles
<1>3. profile.kind = kind
    BY <1>2
<1>4. PICK docs :
        docs = [s \in DOMAIN profile.docs |->
                  IF call[c].docs[s] = NULL THEN call[c].row.docs[s] ELSE call[c].docs[s]]
    OBVIOUS
<1>5. DOMAIN profile.docs = Columns[kind]
    BY <1>3, Rows DEF Documents
<1>6. /\ docs \in Documents(kind)
      /\ \A s \in Columns[kind] :
           docs[s] = IF call[c].docs[s] = NULL THEN call[c].row.docs[s] ELSE call[c].docs[s]
    BY <1>1, <1>3, <1>4, <1>5 DEF Documents
<1>7. PICK id : id = call[c].row.id
    OBVIOUS
<1>8. PICK saved :
        saved = [profile EXCEPT !.id = id, !.status = "pending", !.by = NULL, !.stamp = 0,
                                !.docs = docs]
    OBVIOUS
<1>9. Resubmitted(call[c]) = saved
    BY <1>4, <1>7, <1>8 DEF Resubmitted
<1>10. 0 \in 0..MaxStamp
    BY VerificationAssumption
<1>11. /\ saved \in [kind : {kind}, id : Ids \cup {NULL},
                     status : {"none", "pending"} \cup Decided, by : Reviewers \cup {NULL},
                     docs : Documents(kind), stamp : 0..MaxStamp]
       /\ saved.kind = kind /\ saved.id = id /\ saved.status = "pending" /\ saved.stamp = 0
       /\ saved.docs = docs
    BY <1>1, <1>2, <1>6, <1>7, <1>8, <1>10
<1>12. saved \in Profiles
    BY <1>11 DEF Profiles
<1> QED
    BY <1>3, <1>6, <1>7, <1>9, <1>11, <1>12

\* A step that writes a row of the profile keeps the types.
LEMMA TypeWithRow ==
    ASSUME TypeInv, NEW c \in Calls, Turn(c), profile' \in Profiles, profile'.kind = profile.kind,
           profile'.status # "none" => profile'.id \in Ids,
           UNCHANGED files, audits' \subseteq Transitions,
           decisions' \subseteq Transitions, standing' \subseteq Files, disturbed' \in BOOLEAN
    PROVE  TypeInv'
<1>1. call' \in [Calls -> Frames(profile'.kind)]
    BY TurnOthers
<1>2. VerificationTypeOK'
    BY DEF TypeInv, VerificationTypeOK
<1> QED
    BY <1>1, <1>2 DEF TypeInv

\* The owner's save replaces the row and what is remembered of its decisions.
Saves(c) ==
    /\ profile.status = "none" \/ profile.id = call[c].row.id
    /\ profile' = Resubmitted(call[c]) /\ audits' = {} /\ decisions' = {}

\* The save went through, went through unnoticed, or failed.
LEMMA SaveStep ==
    ASSUME TypeInv, NEW c \in Calls, Save(c)
    PROVE  /\ TypeInv' /\ Turn(c) /\ At(c, "saving") /\ Of(c, Saving)
           /\ profile'.kind = profile.kind
           /\ UNCHANGED <<files, standing>>
           /\ SameSave(c) /\ call'[c].attached = call[c].attached
           /\ \/ Saves(c) /\ call'[c].at = "retiring" /\ UNCHANGED disturbed
              \/ Saves(c) /\ call'[c].at = "detaching" /\ disturbed'
              \/ /\ call'[c].at = "detaching"
                 /\ UNCHANGED <<profile, audits, decisions, disturbed>>
<1>1. At(c, "saving") /\ UNCHANGED <<files, standing>>
    BY DEF Save
<1>2. Of(c, Saving)
    BY <1>1 DEF At, Of, Saving
<1>3. ASSUME NEW await \in {"retiring", "detaching"}, Goto(c, await)
      PROVE  /\ Turn(c) /\ call'[c].at = await /\ SameSave(c)
             /\ call'[c].attached = call[c].attached
    <2>1. await \in Saving
        BY DEF Saving
    <2> QED
        BY <1>2, <1>3, <2>1, SaveMoved DEF SameSave
<1>4. CASE Saves(c) /\ \/ Goto(c, "retiring") /\ UNCHANGED disturbed
                       \/ Goto(c, "detaching") /\ disturbed' = TRUE
    <2>1. /\ Turn(c) /\ SameSave(c) /\ call'[c].attached = call[c].attached
          /\ \/ call'[c].at = "retiring" /\ UNCHANGED disturbed
             \/ call'[c].at = "detaching" /\ disturbed'
        BY <1>3, <1>4
    <2>2. PICK saved : saved = Resubmitted(call[c])
        OBVIOUS
    <2>3. saved \in Profiles /\ saved.kind = profile.kind /\ saved.id \in Ids
        BY <1>2, <2>2, ResubmittedRow, SavingFrame
    <2>4. profile' = saved /\ audits' = {} /\ decisions' = {}
        BY <1>4, <2>2 DEF Saves
    <2>5. disturbed' \in BOOLEAN
        BY <1>4, OtherTables
    <2>6. TypeInv'
        BY <1>1, <2>1, <2>3, <2>4, <2>5, TypeWithRow, OtherTables
    <2> QED
        BY <1>1, <1>2, <1>4, <2>1, <2>3, <2>4, <2>6
<1>5. CASE Goto(c, "detaching") /\ UNCHANGED <<profile, audits, decisions, disturbed>>
    <2>1. /\ Turn(c) /\ SameSave(c) /\ call'[c].attached = call[c].attached
          /\ call'[c].at = "detaching"
        BY <1>3, <1>5
    <2>2. TypeInv'
        BY <1>1, <1>5, <2>1, TypeWithProfile, OtherTables, Rows
    <2> QED
        BY <1>1, <1>2, <1>5, <2>1, <2>2
<1> QED
    BY <1>4, <1>5 DEF Save, Saves

\* A compensation releases what the request attached, or fails and says so.
LEMMA DetachStep ==
    ASSUME TypeInv, NEW c \in Calls, Detach(c)
    PROVE  /\ TypeInv' /\ Turn(c) /\ At(c, "detaching") /\ Of(c, Saving)
           /\ call'[c] = Idle
           /\ UNCHANGED <<profile, audits, decisions, standing>>
           /\ \A f \in Files : files'[f].status = files[f].status
           /\ disturbed => disturbed'
           /\ \/ disturbed'
              \/ \A f \in Files :
                   files'[f].resource = IF f \in Detachable(c) /\ files[f].resource = call[c].row.id
                                        THEN NULL ELSE files[f].resource
<1>1. /\ At(c, "detaching") /\ UNCHANGED <<profile, audits, decisions, standing>> /\ End(c)
    BY DEF Detach
<1>2. Of(c, Saving)
    BY <1>1 DEF At, Of, Saving
<1>3. PICK failed \in SUBSET Detachable(c) :
        /\ files' = [f \in Files |->
                       IF f \in Detachable(c) \ failed /\ files[f].resource = call[c].row.id
                       THEN [files[f] EXCEPT !.resource = NULL] ELSE files[f]]
        /\ disturbed' = (disturbed \/ failed # {})
    BY DEF Detach
<1>4. ASSUME NEW f \in Files
      PROVE  /\ files'[f] \in FileRows /\ files'[f].status = files[f].status
             /\ files'[f].resource = IF f \in Detachable(c) \ failed /\ files[f].resource = call[c].row.id
                                     THEN NULL ELSE files[f].resource
    <2>1. PICK old : old = files[f] /\ old \in FileRows
        BY Rows
    <2>2. PICK row : row = [old EXCEPT !.resource = NULL]
        OBVIOUS
    <2>3. row \in FileRows /\ row.status = old.status /\ row.resource = NULL
        BY <2>1, <2>2 DEF FileRows
    <2>4. files'[f] = IF f \in Detachable(c) \ failed /\ old.resource = call[c].row.id
                      THEN row ELSE old
        BY <1>3, <2>1, <2>2
    <2> QED
        BY <2>1, <2>3, <2>4
<1>5. PICK table : table = files'
    OBVIOUS
<1>6. table \in [Files -> FileRows]
    BY <1>3, <1>4, <1>5
<1>7. Turn(c) /\ call'[c] = Idle
    BY <1>1, Ended
<1>8. disturbed' \in BOOLEAN
    BY <1>3
<1>9. TypeInv'
    BY <1>1, <1>5, <1>6, <1>7, <1>8, TypeWithProfile, OtherTables
<1> QED
    BY <1>1, <1>2, <1>3, <1>4, <1>7, <1>9

\* The files of replaced columns are deleted or left to the cleanup, or the
\* request fails and says so.
LEMMA RetireStep ==
    ASSUME TypeInv, NEW c \in Calls, Retire(c)
    PROVE  /\ TypeInv' /\ Turn(c) /\ At(c, "retiring") /\ Of(c, Saving)
           /\ call'[c] = Idle
           /\ UNCHANGED <<profile, audits, decisions, standing>>
           /\ \A f \in Files : /\ files'[f].resource = files[f].resource
                               /\ \/ files'[f].status = files[f].status
                                  \/ f \in Replaced(c) /\ files'[f].status \in Gone
           /\ disturbed => disturbed'
           /\ disturbed' \/ \A f \in Files : f \in Replaced(c) => files'[f].status \in Gone
<1>1. /\ At(c, "retiring") /\ UNCHANGED <<profile, audits, decisions, standing>> /\ End(c)
    BY DEF Retire
<1>2. Of(c, Saving)
    BY <1>1 DEF At, Of, Saving
<1>3. PICK left \in SUBSET Replaced(c) : \E refused \in SUBSET Replaced(c) :
        /\ files' = [f \in Files |->
                       IF f \in Replaced(c) \ left /\ files[f].status # "DELETED"
                       THEN [files[f] EXCEPT
                               !.status = IF f \in refused THEN "DELETE_RETRY" ELSE "DELETED"]
                       ELSE files[f]]
        /\ disturbed' = (disturbed \/ left # {})
    BY DEF Retire
<1>4. PICK refused \in SUBSET Replaced(c) :
        files' = [f \in Files |->
                    IF f \in Replaced(c) \ left /\ files[f].status # "DELETED"
                    THEN [files[f] EXCEPT
                            !.status = IF f \in refused THEN "DELETE_RETRY" ELSE "DELETED"]
                    ELSE files[f]]
    BY <1>3
<1>5. ASSUME NEW f \in Files
      PROVE  /\ files'[f] \in FileRows /\ files'[f].resource = files[f].resource
             /\ IF f \in Replaced(c) \ left THEN files'[f].status \in Gone
                                            ELSE files'[f].status = files[f].status
    <2>1. PICK old : old = files[f] /\ old \in FileRows
        BY Rows
    <2>2. PICK status : status = IF f \in refused THEN "DELETE_RETRY" ELSE "DELETED"
        OBVIOUS
    <2>3. PICK row : row = [old EXCEPT !.status = status]
        OBVIOUS
    <2>4. row \in FileRows /\ row.status \in Gone /\ row.resource = old.resource
        BY <2>1, <2>2, <2>3 DEF FileRows, FileStatus, Gone
    <2>5. files'[f] = IF f \in Replaced(c) \ left /\ old.status # "DELETED" THEN row ELSE old
        BY <1>4, <2>1, <2>2, <2>3
    <2> QED
        BY <2>1, <2>4, <2>5 DEF Gone
<1>6. PICK table : table = files'
    OBVIOUS
<1>7. table \in [Files -> FileRows]
    BY <1>4, <1>5, <1>6
<1>8. Turn(c) /\ call'[c] = Idle
    BY <1>1, Ended
<1>9. disturbed' \in BOOLEAN
    BY <1>3
<1>10. TypeInv'
    BY <1>1, <1>6, <1>7, <1>8, <1>9, TypeWithProfile, OtherTables
<1> QED
    BY <1>1, <1>2, <1>3, <1>5, <1>8, <1>10

\* A review arrives.
LEMMA VerifyStep ==
    ASSUME TypeInv, NEW c \in Calls, Verify(c)
    PROVE  /\ TypeInv' /\ Turn(c) /\ At(c, "idle") /\ call'[c].at = "finding"
           /\ profile.status # "none"
           /\ UNCHANGED <<profile, files, audits, decisions, standing, disturbed>>
<1>1. PICK reviewer \in Reviewers, result \in Decided :
        Receive(c, [at |-> "finding", reviewer |-> reviewer, result |-> result,
                    stamp |-> 0, docs |-> {}, left |-> {}, changed |-> {}, tries |-> 0])
    BY DEF Verify
<1>2. PICK frame :
        frame = [at |-> "finding", reviewer |-> reviewer, result |-> result,
                 stamp |-> 0, docs |-> {}, left |-> {}, changed |-> {}, tries |-> 0]
    OBVIOUS
<1>3. frame \in EarlyFrames /\ frame.at = "finding"
    BY <1>2 DEF EarlyFrames, EarlyAwaits
<1>4. call' = [call EXCEPT ![c] = call'[c]] /\ call'[c] = frame /\ At(c, "idle")
    BY <1>1, <1>2, Received
<1>5. Turn(c)
    BY <1>3, <1>4 DEF Turn, Frames
<1>6. /\ UNCHANGED <<profile, files, audits, decisions, standing, disturbed>>
      /\ profile.status # "none"
    BY DEF Verify
<1>7. TypeInv'
    BY <1>5, <1>6, TypeWithProfile, OtherTables, Rows
<1> QED
    BY <1>3, <1>4, <1>5, <1>6, <1>7

\* The frame of a reviewer who has not decided, and of one who has.
LEMMA EarlyFrame ==
    ASSUME TypeInv, NEW c \in Calls, Of(c, EarlyAwaits)
    PROVE  /\ call[c] \in EarlyFrames /\ call[c].reviewer \in Reviewers /\ call[c].result \in Decided
           /\ call[c].changed = {} /\ call[c].left = call[c].docs
<1>1. PICK f : f = call[c] /\ f \in EarlyFrames
    BY FrameShapes
<1> QED
    BY <1>1 DEF EarlyFrames

\* The frame of a reviewer whose decision has been read back.
LEMMA LateFrame ==
    ASSUME TypeInv, NEW c \in Calls, Of(c, LateAwaits)
    PROVE  /\ call[c] \in LateFrames /\ call[c].reviewer \in Reviewers /\ call[c].result \in Decided
           /\ call[c].stamp \in 0..MaxStamp /\ call[c].tries \in 0..2
           /\ call[c].docs \subseteq Files /\ call[c].left \subseteq Files
           /\ call[c].changed \subseteq Files
BY FrameShapes DEF LateFrames

\* The row is read whose documents will be reviewed.
LEMMA FindStep ==
    ASSUME TypeInv, NEW c \in Calls, Find(c)
    PROVE  /\ TypeInv' /\ Turn(c) /\ At(c, "finding") /\ call'[c].at = "deciding"
           /\ call'[c].docs = DocsOf(profile) /\ call'[c].left = DocsOf(profile)
           /\ UNCHANGED <<profile, files, audits, decisions, standing, disturbed>>
<1>1. At(c, "finding") /\ UNCHANGED <<profile, files, audits, decisions, standing, disturbed>>
    BY DEF Find
<1>2. call[c] \in EarlyFrames
    BY <1>1, EarlyFrame DEF At, Of, EarlyAwaits
<1>3. PICK f : f = call[c] /\ f \in EarlyFrames
    BY <1>2
<1>4. PICK docs : docs = DocsOf(profile) /\ docs \subseteq Files
    BY Rows
<1>5. PICK g : g = [f EXCEPT !.at = "deciding", !.docs = docs, !.left = docs]
    OBVIOUS
<1>6. g \in EarlyFrames /\ g.at = "deciding" /\ g.docs = docs /\ g.left = docs
    BY <1>3, <1>4, <1>5 DEF EarlyFrames, EarlyAwaits
<1>7. call' = [call EXCEPT ![c].at = "deciding", ![c].docs = docs, ![c].left = docs]
    BY <1>4 DEF Find
<1>8. call' = [call EXCEPT ![c] = g]
    BY <1>3, <1>5, <1>7 DEF TypeInv
<1>9. call' = [call EXCEPT ![c] = call'[c]] /\ call'[c] = g
    BY <1>8 DEF TypeInv
<1>10. Turn(c)
    BY <1>6, <1>9 DEF Turn, Frames
<1>11. TypeInv'
    BY <1>1, <1>10, TypeWithProfile, OtherTables, Rows
<1> QED
    BY <1>1, <1>4, <1>6, <1>9, <1>10, <1>11

\* A reviewer has decided: the row shows it, with a new stamp.
Decides(c) ==
    /\ profile.status = "pending"
    /\ profile'.status = call[c].result /\ profile'.by = call[c].reviewer
    /\ profile'.stamp = profile.stamp + 1
    /\ profile'.docs = profile.docs /\ profile'.id = profile.id
    /\ decisions' = decisions \cup
         {[status |-> call[c].result, by |-> call[c].reviewer, stamp |-> profile.stamp + 1]}

\* A row with another decision keeps its types.
LEMMA DecidedRow ==
    ASSUME TypeInv, NEW status \in {"pending"} \cup Decided, NEW by \in Reviewers \cup {NULL},
           profile.stamp < MaxStamp, profile.status # "none",
           profile' = [profile EXCEPT !.status = status, !.by = by, !.stamp = @ + 1]
    PROVE  /\ profile' \in Profiles /\ profile'.kind = profile.kind
           /\ profile'.id = profile.id /\ profile'.id \in Ids /\ profile'.docs = profile.docs
           /\ profile'.status = status /\ profile'.by = by /\ profile'.stamp = profile.stamp + 1
           /\ profile.stamp + 1 \in 0..MaxStamp
<1>1. PICK kind \in Kinds :
        profile \in [kind : {kind}, id : Ids \cup {NULL},
                     status : {"none", "pending"} \cup Decided, by : Reviewers \cup {NULL},
                     docs : Documents(kind), stamp : 0..MaxStamp]
    BY DEF TypeInv, VerificationTypeOK, Profiles
<1>2. PICK stamp : stamp = profile.stamp + 1
    OBVIOUS
<1>3. stamp \in 0..MaxStamp
    BY <1>1, <1>2, VerificationAssumption
<1>4. PICK row : row = [profile EXCEPT !.status = status, !.by = by, !.stamp = stamp]
    OBVIOUS
<1>5. /\ row \in [kind : {kind}, id : Ids \cup {NULL},
                  status : {"none", "pending"} \cup Decided, by : Reviewers \cup {NULL},
                  docs : Documents(kind), stamp : 0..MaxStamp]
      /\ row.kind = profile.kind /\ row.id = profile.id /\ row.docs = profile.docs
      /\ row.status = status /\ row.by = by /\ row.stamp = stamp
    BY <1>1, <1>3, <1>4
<1>6. row \in Profiles
    BY <1>5 DEF Profiles
<1>7. profile' = row
    BY <1>2, <1>4
<1>8. profile.id \in Ids
    BY DEF TypeInv
<1> QED
    BY <1>2, <1>3, <1>5, <1>6, <1>7, <1>8

\* A reviewer decides or is told of the conflict.
LEMMA DecideStep ==
    ASSUME TypeInv, NEW c \in Calls, Decide(c)
    PROVE  /\ TypeInv' /\ Turn(c) /\ At(c, "deciding") /\ profile'.kind = profile.kind
           /\ UNCHANGED <<files, audits, standing, disturbed>>
           /\ \/ /\ Decides(c) /\ call'[c].at = "rereading" /\ call'[c].docs = call[c].docs
                 /\ call'[c].result = call[c].result /\ call'[c].reviewer = call[c].reviewer
              \/ call'[c] = Idle /\ UNCHANGED <<profile, decisions>>
<1>1. At(c, "deciding") /\ UNCHANGED <<files, audits, standing, disturbed>>
    BY DEF Decide
<1>2. call[c] \in EarlyFrames /\ call[c].reviewer \in Reviewers /\ call[c].result \in Decided
    BY <1>1, EarlyFrame DEF At, Of, EarlyAwaits
<1>3. CASE Undecided(c) /\ profile.stamp < MaxStamp
    <2>1. PICK result \in Decided, reviewer \in Reviewers :
            result = call[c].result /\ reviewer = call[c].reviewer
        BY <1>2
    <2>2. /\ profile' = [profile EXCEPT !.status = result, !.by = reviewer, !.stamp = @ + 1]
          /\ decisions' = decisions \cup
               {[status |-> result, by |-> reviewer, stamp |-> profile.stamp + 1]}
          /\ Goto(c, "rereading")
        BY <1>3, <2>1 DEF Decide
    <2>3. profile.status = "pending"
        BY <1>3 DEF Undecided
    <2>4. /\ profile' \in Profiles /\ profile'.kind = profile.kind
          /\ profile'.id = profile.id /\ profile'.id \in Ids /\ profile'.docs = profile.docs
          /\ profile'.status = result /\ profile'.by = reviewer
          /\ profile'.stamp = profile.stamp + 1
          /\ profile.stamp + 1 \in 0..MaxStamp
        BY <1>3, <2>2, <2>3, DecidedRow
    <2>5. [status |-> result, by |-> reviewer, stamp |-> profile.stamp + 1] \in Transitions
        BY <2>4 DEF Transitions
    <2>6. decisions' \subseteq Transitions
        BY <2>2, <2>5, OtherTables
    <2>7. call' = [call EXCEPT ![c] = call'[c]] /\ call'[c] = [call[c] EXCEPT !.at = "rereading"]
        BY <2>2, Moved
    <2>8. /\ call'[c] \in EarlyFrames /\ call'[c].at = "rereading" /\ call'[c].docs = call[c].docs
          /\ call'[c].result = call[c].result /\ call'[c].reviewer = call[c].reviewer
        BY <1>2, <2>7 DEF EarlyFrames, EarlyAwaits
    <2>9. Turn(c)
        BY <2>7, <2>8 DEF Turn, Frames
    <2>10. TypeInv'
        BY <1>1, <2>4, <2>6, <2>9, TypeWithRow, OtherTables
    <2>11. Decides(c)
        BY <2>1, <2>2, <2>3, <2>4 DEF Decides
    <2> QED
        BY <1>1, <2>4, <2>8, <2>9, <2>10, <2>11
<1>4. CASE ~(Undecided(c) /\ profile.stamp < MaxStamp)
    <2>1. End(c) /\ UNCHANGED <<profile, decisions>>
        BY <1>4 DEF Decide
    <2>2. Turn(c) /\ call'[c] = Idle
        BY <2>1, Ended
    <2>3. TypeInv'
        BY <1>1, <2>1, <2>2, TypeWithProfile, OtherTables, Rows
    <2> QED
        BY <1>1, <2>1, <2>2, <2>3
<1> QED
    BY <1>3, <1>4

\* The stamp of the row is read that names the transition from here on.
LEMMA RereadStep ==
    ASSUME TypeInv, NEW c \in Calls, Reread(c)
    PROVE  /\ TypeInv' /\ Turn(c) /\ At(c, "rereading") /\ call'[c].at = "reviewing"
           /\ call'[c].docs = call[c].docs /\ call'[c].left = call[c].left
           /\ call'[c].changed = {} /\ call'[c].stamp = profile.stamp
           /\ call'[c].result = call[c].result /\ call'[c].reviewer = call[c].reviewer
           /\ UNCHANGED <<profile, files, audits, decisions, standing, disturbed>>
<1>1. At(c, "rereading") /\ UNCHANGED <<profile, files, audits, decisions, standing, disturbed>>
    BY DEF Reread
<1>2. call[c] \in EarlyFrames
    BY <1>1, EarlyFrame DEF At, Of, EarlyAwaits
<1>3. PICK f : f = call[c] /\ f \in EarlyFrames
    BY <1>2
<1>4. PICK stamp : stamp = profile.stamp /\ stamp \in 0..MaxStamp
    BY Rows
<1>5. PICK g : g = [f EXCEPT !.at = "reviewing", !.stamp = stamp]
    OBVIOUS
<1>6. /\ g \in LateFrames /\ g.at = "reviewing" /\ g.docs = f.docs /\ g.left = f.left
      /\ g.changed = {} /\ g.stamp = stamp /\ g.result = f.result /\ g.reviewer = f.reviewer
    <2>1. f \in [at : EarlyAwaits, reviewer : Reviewers, result : Decided, stamp : {0},
                 docs : SUBSET Files, left : SUBSET Files, changed : {{}}, tries : {0}]
        BY <1>3 DEF EarlyFrames
    <2>2. PICK none : none = {}
        OBVIOUS
    <2>3. f \in [at : EarlyAwaits, reviewer : Reviewers, result : Decided, stamp : {0},
                 docs : SUBSET Files, left : SUBSET Files, changed : {none}, tries : {0}]
        BY <2>1, <2>2
    <2>4. 0 \in 0..2 /\ "reviewing" \in LateAwaits /\ none \in SUBSET Files
        BY <2>2 DEF LateAwaits
    <2> QED
        BY <1>4, <1>5, <2>2, <2>3, <2>4 DEF LateFrames
<1>7. call' = [call EXCEPT ![c].at = "reviewing", ![c].stamp = stamp]
    BY <1>4 DEF Reread
<1>8. call' = [call EXCEPT ![c] = g]
    BY <1>3, <1>5, <1>7 DEF TypeInv
<1>9. call' = [call EXCEPT ![c] = call'[c]] /\ call'[c] = g
    BY <1>8 DEF TypeInv
<1>10. Turn(c)
    BY <1>6, <1>9 DEF Turn, Frames
<1>11. TypeInv'
    BY <1>1, <1>10, TypeWithProfile, OtherTables, Rows
<1> QED
    BY <1>1, <1>3, <1>4, <1>6, <1>9, <1>10, <1>11

\* The decision stays and its request learns no more of it, which disturbs.
LEMMA DecisionUnansweredStep ==
    ASSUME TypeInv, NEW c \in Calls, DecisionUnanswered(c)
    PROVE  /\ TypeInv' /\ Turn(c) /\ call'[c] = Idle /\ disturbed'
           /\ UNCHANGED <<profile, files, audits, decisions, standing>>
<1>1. /\ UNCHANGED <<profile, files, audits, decisions, standing>> /\ End(c)
      /\ disturbed' = TRUE
    BY DEF DecisionUnanswered
<1>2. Turn(c) /\ call'[c] = Idle
    BY <1>1, Ended
<1>3. TypeInv'
    BY <1>1, <1>2, TypeWithProfile, OtherTables, Rows
<1> QED
    BY <1>1, <1>2, <1>3

\* What a review keeps of its frame.
SameReview(c) ==
    /\ call'[c].docs = call[c].docs /\ call'[c].stamp = call[c].stamp
    /\ call'[c].result = call[c].result /\ call'[c].reviewer = call[c].reviewer

\* The step of the loop that changes file f, and the one that finds it decided.
ChangesFile(c, f) ==
    /\ f \in call[c].left
    /\ files[f].status = "QUARANTINED" /\ files'[f].status = Verdict(c)
    /\ files'[f].resource = files[f].resource
    /\ \A g \in Files \ {f} : files'[g] = files[g]
    /\ call'[c].at = "reviewing" /\ call'[c].left = call[c].left \ {f}
    /\ call'[c].changed = call[c].changed \cup {f}
FindsDecided(c, f) ==
    /\ f \in call[c].left /\ files[f].status = Verdict(c)
    /\ call'[c].at = "reviewing" /\ call'[c].left = call[c].left \ {f}
    /\ call'[c].changed = call[c].changed
    /\ UNCHANGED files

\* The status of one file changes.
LEMMA FileDecided ==
    ASSUME TypeInv, NEW f \in Files, NEW status \in FileStatus,
           files' = [files EXCEPT ![f].status = status]
    PROVE  /\ files' \in [Files -> FileRows]
           /\ files'[f].status = status /\ files'[f].resource = files[f].resource
           /\ \A g \in Files \ {f} : files'[g] = files[g]
<1>1. PICK old : old = files[f] /\ old \in FileRows
    BY Rows
<1>2. PICK row : row = [old EXCEPT !.status = status]
    OBVIOUS
<1>3. row \in FileRows /\ row.status = status /\ row.resource = old.resource
    BY <1>1, <1>2 DEF FileRows
<1>4. files' = [files EXCEPT ![f] = row]
    BY <1>1, <1>2
<1>5. files \in [Files -> FileRows]
    BY Rows
<1>6. files' \in [Files -> FileRows]
    BY <1>3, <1>4, <1>5
<1>7. files'[f] = row /\ \A g \in Files \ {f} : files'[g] = files[g]
    BY <1>4, <1>5
<1> QED
    BY <1>1, <1>3, <1>6, <1>7

\* A review goes through its documents and stops at the first it may not decide.
LEMMA ReviewStep ==
    ASSUME TypeInv, NEW c \in Calls, Review(c)
    PROVE  /\ TypeInv' /\ Turn(c) /\ At(c, "reviewing") /\ Of(c, LateAwaits)
           /\ UNCHANGED <<profile, audits, decisions, standing, disturbed>>
           /\ SameReview(c)
           /\ \/ /\ call'[c].at = "auditing" /\ call[c].left = {} /\ call'[c].left = {}
                 /\ call'[c].changed = call[c].changed /\ UNCHANGED files
              \/ \E f \in call[c].left : f \in Files /\ ChangesFile(c, f)
              \/ \E f \in call[c].left : f \in Files /\ FindsDecided(c, f)
              \/ /\ call'[c].at = "restoring" /\ call'[c].changed = call[c].changed
                 /\ UNCHANGED files
<1>1. At(c, "reviewing") /\ UNCHANGED <<profile, audits, decisions, standing, disturbed>>
    BY DEF Review
<1>2. Of(c, LateAwaits)
    BY <1>1 DEF At, Of, LateAwaits
<1>3. call[c] \in LateFrames /\ call[c].left \subseteq Files
    BY <1>2, LateFrame
<1>4. PICK fr : fr = call[c] /\ fr \in LateFrames
    BY <1>3
<1>5. ASSUME NEW await \in {"auditing", "restoring"}, Goto(c, await), UNCHANGED files
      PROVE  /\ TypeInv' /\ Turn(c) /\ SameReview(c) /\ call'[c].at = await
             /\ call'[c].changed = call[c].changed /\ call'[c].left = call[c].left
    <2>1. await \in LateAwaits
        BY DEF LateAwaits
    <2>2. /\ Turn(c) /\ SameReview(c) /\ call'[c].at = await
          /\ call'[c].changed = call[c].changed /\ call'[c].left = call[c].left
        BY <1>2, <1>5, <2>1, LateMoved DEF SameReview
    <2>3. TypeInv'
        BY <1>1, <1>5, <2>2, TypeWithProfile, OtherTables, Rows
    <2> QED
        BY <2>2, <2>3
<1>6. CASE AllReviewed(c) /\ Goto(c, "auditing") /\ UNCHANGED files
    BY <1>1, <1>2, <1>5, <1>6 DEF AllReviewed
<1>7. ASSUME NEW f \in call[c].left, files[f].status = "QUARANTINED",
             files' = [files EXCEPT ![f].status = Verdict(c)],
             call' = [call EXCEPT ![c].left = @ \ {f}, ![c].changed = @ \cup {f}]
      PROVE  TypeInv' /\ Turn(c) /\ SameReview(c) /\ ChangesFile(c, f) /\ f \in Files
    <2>1. f \in Files
        BY <1>3
    <2>2. PICK status \in FileStatus : status = Verdict(c)
        BY DEF Verdict, FileStatus
    <2>3. /\ files' \in [Files -> FileRows]
          /\ files'[f].status = status /\ files'[f].resource = files[f].resource
          /\ \A g \in Files \ {f} : files'[g] = files[g]
        BY <1>7, <2>1, <2>2, FileDecided
    <2>4. PICK g : g = [fr EXCEPT !.left = @ \ {f}, !.changed = @ \cup {f}]
        OBVIOUS
    <2>5. /\ g \in LateFrames /\ g.at = fr.at /\ g.docs = fr.docs /\ g.stamp = fr.stamp
          /\ g.result = fr.result /\ g.reviewer = fr.reviewer
          /\ g.left = fr.left \ {f} /\ g.changed = fr.changed \cup {f}
        BY <1>4, <2>1, <2>4 DEF LateFrames
    <2>6. call' = [call EXCEPT ![c] = g]
        BY <1>4, <1>7, <2>4 DEF TypeInv
    <2>7. call' = [call EXCEPT ![c] = call'[c]] /\ call'[c] = g
        BY <2>6 DEF TypeInv
    <2>8. Turn(c)
        BY <2>5, <2>7 DEF Turn, Frames
    <2>9. TypeInv'
        BY <1>1, <2>3, <2>8, TypeWithProfile, OtherTables
    <2>10. SameReview(c)
        BY <1>4, <2>5, <2>7 DEF SameReview
    <2>11. call'[c].at = "reviewing" /\ call'[c].left = call[c].left \ {f}
           /\ call'[c].changed = call[c].changed \cup {f}
        BY <1>1, <1>4, <2>5, <2>7 DEF At
    <2>12. ChangesFile(c, f)
        BY <1>7, <2>2, <2>3, <2>11 DEF ChangesFile
    <2> QED
        BY <2>1, <2>8, <2>9, <2>10, <2>12
<1>8. ASSUME NEW f \in call[c].left, files[f].status = Verdict(c),
             call' = [call EXCEPT ![c].left = @ \ {f}], UNCHANGED files
      PROVE  TypeInv' /\ Turn(c) /\ SameReview(c) /\ FindsDecided(c, f) /\ f \in Files
    <2>1. f \in Files
        BY <1>3
    <2>2. PICK g : g = [fr EXCEPT !.left = @ \ {f}]
        OBVIOUS
    <2>3. /\ g \in LateFrames /\ g.at = fr.at /\ g.docs = fr.docs /\ g.stamp = fr.stamp
          /\ g.result = fr.result /\ g.reviewer = fr.reviewer
          /\ g.left = fr.left \ {f} /\ g.changed = fr.changed
        BY <1>4, <2>1, <2>2 DEF LateFrames
    <2>4. call' = [call EXCEPT ![c] = g]
        BY <1>4, <1>8, <2>2 DEF TypeInv
    <2>5. call' = [call EXCEPT ![c] = call'[c]] /\ call'[c] = g
        BY <2>4 DEF TypeInv
    <2>6. Turn(c)
        BY <2>3, <2>5 DEF Turn, Frames
    <2>7. TypeInv'
        BY <1>1, <1>8, <2>6, TypeWithProfile, OtherTables, Rows
    <2>8. SameReview(c)
        BY <1>4, <2>3, <2>5 DEF SameReview
    <2>9. FindsDecided(c, f)
        BY <1>1, <1>4, <1>8, <2>3, <2>5 DEF FindsDecided, At
    <2> QED
        BY <2>1, <2>6, <2>7, <2>8, <2>9
<1>9. CASE Goto(c, "restoring") /\ UNCHANGED files
    BY <1>1, <1>2, <1>5, <1>9
<1>10. CASE \E f \in call[c].left :
              /\ files[f].status = "QUARANTINED"
              /\ files' = [files EXCEPT ![f].status = Verdict(c)]
              /\ call' = [call EXCEPT ![c].left = @ \ {f}, ![c].changed = @ \cup {f}]
    BY <1>1, <1>2, <1>7, <1>10
<1>11. CASE \E f \in call[c].left :
              /\ files[f].status = Verdict(c)
              /\ call' = [call EXCEPT ![c].left = @ \ {f}]
              /\ UNCHANGED files
    BY <1>1, <1>2, <1>8, <1>11
<1> QED
    BY <1>6, <1>9, <1>10, <1>11 DEF Review

\* The verdict is written on a file and the request does not learn of it.
LEMMA ReviewUnansweredStep ==
    ASSUME TypeInv, NEW c \in Calls, ReviewUnanswered(c)
    PROVE  /\ TypeInv' /\ Turn(c) /\ At(c, "reviewing") /\ Of(c, LateAwaits)
           /\ UNCHANGED <<profile, audits, decisions, standing, disturbed>>
           /\ SameReview(c) /\ call'[c].at = "restoring"
           /\ call'[c].changed = call[c].changed
           /\ \A f \in Files :
                /\ files'[f].resource = files[f].resource
                /\ \/ files'[f].status = files[f].status
                   \/ files[f].status = "QUARANTINED" /\ files'[f].status \in {"ACTIVE", "FAILED"}
<1>1. /\ At(c, "reviewing") /\ Goto(c, "restoring")
      /\ UNCHANGED <<profile, audits, decisions, standing, disturbed>>
    BY DEF ReviewUnanswered
<1>2. Of(c, LateAwaits) /\ "restoring" \in LateAwaits
    BY <1>1 DEF At, Of, LateAwaits
<1>3. /\ Turn(c) /\ SameReview(c) /\ call'[c].at = "restoring"
      /\ call'[c].changed = call[c].changed
    BY <1>1, <1>2, LateMoved DEF SameReview
<1>4. PICK f \in call[c].left : /\ files[f].status = "QUARANTINED"
                                /\ files' = [files EXCEPT ![f].status = Verdict(c)]
    BY DEF ReviewUnanswered
<1>5. f \in Files
    BY <1>2, LateFrame
<1>6. PICK status \in {"ACTIVE", "FAILED"} : status = Verdict(c)
    BY DEF Verdict
<1>7. /\ files' \in [Files -> FileRows]
      /\ files'[f].status = status /\ files'[f].resource = files[f].resource
      /\ \A g \in Files \ {f} : files'[g] = files[g]
    BY <1>4, <1>5, <1>6, FileDecided DEF FileStatus
<1>8. TypeInv'
    BY <1>1, <1>3, <1>7, TypeWithProfile, OtherTables
<1>9. ASSUME NEW g \in Files
      PROVE  /\ files'[g].resource = files[g].resource
             /\ \/ files'[g].status = files[g].status
                \/ files[g].status = "QUARANTINED" /\ files'[g].status \in {"ACTIVE", "FAILED"}
    <2>1. CASE g = f
        BY <1>4, <1>7, <2>1
    <2>2. CASE g # f
        BY <1>7, <2>2
    <2> QED
        BY <2>1, <2>2
<1> QED
    BY <1>1, <1>2, <1>3, <1>8, <1>9

\* The files the request changed go back, or the failure is reported.
LEMMA RestoreStep ==
    ASSUME TypeInv, NEW c \in Calls, RestoreFiles(c)
    PROVE  /\ TypeInv' /\ Turn(c) /\ At(c, "restoring") /\ Of(c, LateAwaits)
           /\ UNCHANGED <<profile, audits, decisions, standing>>
           /\ SameReview(c) /\ call'[c].at = "reopening"
           /\ \A f \in Files : /\ files'[f].resource = files[f].resource
                               /\ \/ files'[f].status = files[f].status
                                  \/ /\ f \in call[c].changed
                                     /\ files[f].status \in {"ACTIVE", "FAILED"}
                                     /\ files'[f].status = "QUARANTINED"
           /\ disturbed => disturbed'
<1>1. /\ At(c, "restoring") /\ UNCHANGED <<profile, audits, decisions, standing>>
      /\ Goto(c, "reopening")
    BY DEF RestoreFiles
<1>2. Of(c, LateAwaits)
    BY <1>1 DEF At, Of, LateAwaits
<1>3. PICK failed \in SUBSET Restorable(c) :
        /\ files' = [f \in Files |->
                       IF f \in Restorable(c) \ failed /\ files[f].status \in {"ACTIVE", "FAILED"}
                       THEN [files[f] EXCEPT !.status = "QUARANTINED"] ELSE files[f]]
        /\ disturbed' = (disturbed \/ failed # {})
    BY DEF RestoreFiles
<1>4. ASSUME NEW f \in Files
      PROVE  /\ files'[f] \in FileRows /\ files'[f].resource = files[f].resource
             /\ \/ files'[f].status = files[f].status
                \/ /\ f \in call[c].changed
                   /\ files[f].status \in {"ACTIVE", "FAILED"}
                   /\ files'[f].status = "QUARANTINED"
    <2>1. PICK old : old = files[f] /\ old \in FileRows
        BY Rows
    <2>2. PICK row : row = [old EXCEPT !.status = "QUARANTINED"]
        OBVIOUS
    <2>3. row \in FileRows /\ row.status = "QUARANTINED" /\ row.resource = old.resource
        BY <2>1, <2>2 DEF FileRows, FileStatus
    <2>4. files'[f] = IF f \in Restorable(c) \ failed /\ old.status \in {"ACTIVE", "FAILED"}
                      THEN row ELSE old
        BY <1>3, <2>1, <2>2
    <2> QED
        BY <2>1, <2>3, <2>4 DEF Restorable
<1>5. PICK table : table = files'
    OBVIOUS
<1>6. table \in [Files -> FileRows]
    BY <1>3, <1>4, <1>5
<1>7. "reopening" \in LateAwaits
    BY DEF LateAwaits
<1>8. Turn(c) /\ SameReview(c) /\ call'[c].at = "reopening"
    BY <1>1, <1>2, <1>7, LateMoved DEF SameReview
<1>9. disturbed' \in BOOLEAN
    BY <1>3
<1>10. TypeInv'
    BY <1>1, <1>5, <1>6, <1>8, <1>9, TypeWithProfile, OtherTables
<1> QED
    BY <1>1, <1>2, <1>3, <1>4, <1>8, <1>10

\* A reviewer takes the decision back.
TakesBack(c) ==
    /\ profile.status = call[c].result /\ profile.by = call[c].reviewer
    /\ profile'.status = "pending" /\ profile'.stamp = profile.stamp + 1
    /\ profile'.docs = profile.docs /\ profile'.id = profile.id
    /\ decisions' = {d \in decisions : d.stamp # profile.stamp}

\* The decision is taken back, or reported as another's.
LEMMA ReopenStep ==
    ASSUME TypeInv, NEW c \in Calls, Reopen(c)
    PROVE  /\ TypeInv' /\ Turn(c) /\ At(c, "reopening") /\ Of(c, LateAwaits)
           /\ profile'.kind = profile.kind /\ call'[c] = Idle
           /\ UNCHANGED <<files, audits, standing>>
           /\ \/ TakesBack(c) /\ UNCHANGED disturbed
              \/ disturbed' /\ UNCHANGED <<profile, decisions>>
<1>1. At(c, "reopening") /\ UNCHANGED <<files, audits, standing>> /\ End(c)
    BY DEF Reopen
<1>2. Of(c, LateAwaits)
    BY <1>1 DEF At, Of, LateAwaits
<1>3. Turn(c) /\ call'[c] = Idle
    BY <1>1, Ended
<1>4. CASE /\ OwnsDecision(c) /\ profile.stamp < MaxStamp
           /\ profile' = [profile EXCEPT !.status = "pending", !.by = NULL, !.stamp = @ + 1]
           /\ decisions' = {d \in decisions : d.stamp # profile.stamp}
           /\ UNCHANGED disturbed
    <2>1. /\ profile.status = call[c].result /\ profile.by = call[c].reviewer
          /\ profile.status # "none"
        BY <1>2, <1>4, LateFrame DEF OwnsDecision, Decided
    <2>2. PICK by \in Reviewers \cup {NULL} : by = NULL
        OBVIOUS
    <2>3. profile' = [profile EXCEPT !.status = "pending", !.by = by, !.stamp = @ + 1]
        BY <1>4, <2>2
    <2>4. /\ profile' \in Profiles /\ profile'.kind = profile.kind
          /\ profile'.id = profile.id /\ profile'.id \in Ids /\ profile'.docs = profile.docs
          /\ profile'.status = "pending" /\ profile'.stamp = profile.stamp + 1
        BY <1>4, <2>1, <2>3, DecidedRow
    <2>5. decisions' \subseteq Transitions
        BY <1>4, OtherTables
    <2>6. TypeInv'
        BY <1>1, <1>3, <1>4, <2>4, <2>5, TypeWithRow, OtherTables
    <2>7. TakesBack(c)
        BY <1>4, <2>1, <2>4 DEF TakesBack
    <2> QED
        BY <1>1, <1>2, <1>3, <1>4, <2>4, <2>6, <2>7
<1>5. CASE disturbed' = TRUE /\ UNCHANGED <<profile, decisions>>
    <2>1. disturbed' \in BOOLEAN
        BY <1>5
    <2>2. TypeInv'
        BY <1>1, <1>3, <1>5, <2>1, TypeWithProfile, OtherTables, Rows
    <2> QED
        BY <1>1, <1>2, <1>3, <1>5, <2>2
<1> QED
    BY <1>4, <1>5 DEF Reopen

\* The transition is audited and the request over, or it is tried again, or the
\* request gives up and says so.
LEMMA AuditStep ==
    ASSUME TypeInv, NEW c \in Calls, Audit(c)
    PROVE  /\ TypeInv' /\ Turn(c) /\ At(c, "auditing") /\ Of(c, LateAwaits)
           /\ UNCHANGED <<profile, files, decisions>>
           /\ \/ /\ audits' = audits \cup {AuditRow(c)} /\ call'[c] = Idle
                 /\ standing' = standing \cup call[c].changed /\ UNCHANGED disturbed
              \/ /\ audits' \in {audits, audits \cup {AuditRow(c)}}
                 /\ call'[c].at = "auditing" /\ call'[c].left = call[c].left
                 /\ call'[c].changed = call[c].changed /\ SameReview(c)
                 /\ UNCHANGED <<standing, disturbed>>
              \/ /\ audits' \in {audits, audits \cup {AuditRow(c)}} /\ call'[c] = Idle
                 /\ standing' = standing \cup call[c].changed /\ disturbed'
<1>1. At(c, "auditing") /\ UNCHANGED <<profile, files, decisions>>
    BY DEF Audit
<1>2. Of(c, LateAwaits)
    BY <1>1 DEF At, Of, LateAwaits
<1>3. PICK f : f = call[c] /\ f \in LateFrames /\ f.changed \subseteq Files
    BY <1>2, LateFrame
<1>4. AuditRow(c) \in Transitions
    BY <1>2, LateFrame DEF AuditRow, Transitions
<1>5. /\ audits \cup {AuditRow(c)} \subseteq Transitions
      /\ standing \cup call[c].changed \subseteq Files
    BY <1>3, <1>4, OtherTables
<1>6. audits' \subseteq Transitions /\ disturbed' \in BOOLEAN
    BY <1>5, OtherTables DEF Audit
<1>7. CASE Settle(c)
    <2>1. Turn(c) /\ call'[c] = Idle
        BY <1>7, Ended DEF Settle
    <2>2. standing' = standing \cup call[c].changed
        BY <1>7 DEF Settle
    <2>3. TypeInv'
        BY <1>1, <1>5, <1>6, <2>1, <2>2, TypeWithProfile, OtherTables, Rows
    <2>4. \/ audits' = audits \cup {AuditRow(c)} /\ UNCHANGED disturbed
          \/ audits' \in {audits, audits \cup {AuditRow(c)}} /\ disturbed'
          \/ call[c].tries < 2 /\ call' = [call EXCEPT ![c].tries = @ + 1]
        BY DEF Audit
    <2>5. ~(call[c].tries < 2 /\ call' = [call EXCEPT ![c].tries = @ + 1])
        <3>1. SUFFICES ASSUME call' = [call EXCEPT ![c].tries = @ + 1] PROVE FALSE
            OBVIOUS
        <3>2. PICK g : g = [f EXCEPT !.tries = @ + 1]
            OBVIOUS
        <3>3. g.at = f.at
            BY <1>3, <3>2 DEF LateFrames
        <3>4. call'[c] = g
            BY <1>3, <3>1, <3>2 DEF TypeInv
        <3> QED
            BY <1>1, <1>3, <2>1, <3>3, <3>4 DEF At, Idle
    <2> QED
        BY <1>1, <1>2, <2>1, <2>2, <2>3, <2>4, <2>5
<1>8. CASE /\ audits' \in {audits, audits \cup {AuditRow(c)}}
           /\ call[c].tries < 2 /\ call' = [call EXCEPT ![c].tries = @ + 1]
           /\ UNCHANGED <<standing, disturbed>>
    <2>1. f.tries \in 0..2 /\ f.tries < 2
        BY <1>3, <1>8 DEF LateFrames
    <2>2. PICK tries \in 0..2 : tries = f.tries + 1
        BY <2>1
    <2>3. PICK g : g = [f EXCEPT !.tries = tries]
        OBVIOUS
    <2>4. /\ g \in LateFrames /\ g.at = f.at /\ g.docs = f.docs /\ g.stamp = f.stamp
          /\ g.result = f.result /\ g.reviewer = f.reviewer /\ g.left = f.left
          /\ g.changed = f.changed
        BY <1>3, <2>2, <2>3 DEF LateFrames
    <2>5. call' = [call EXCEPT ![c] = g]
        BY <1>3, <1>8, <2>2, <2>3 DEF TypeInv
    <2>6. call' = [call EXCEPT ![c] = call'[c]] /\ call'[c] = g
        BY <2>5 DEF TypeInv
    <2>7. Turn(c)
        BY <2>4, <2>6 DEF Turn, Frames
    <2>8. TypeInv'
        BY <1>1, <1>6, <1>8, <2>7, TypeWithProfile, OtherTables, Rows
    <2>9. /\ call'[c].at = "auditing" /\ call'[c].left = call[c].left
          /\ call'[c].changed = call[c].changed /\ SameReview(c)
        BY <1>1, <1>3, <2>4, <2>6 DEF At, SameReview
    <2> QED
        BY <1>1, <1>2, <1>8, <2>7, <2>8, <2>9
<1> QED
    BY <1>7, <1>8 DEF Audit

\* The process dies.
LEMMA CrashStep ==
    ASSUME TypeInv, NEW c \in Calls, Crash(c)
    PROVE  /\ TypeInv' /\ Turn(c) /\ call'[c] = Idle /\ disturbed'
           /\ UNCHANGED <<profile, files, audits, decisions, standing>>
<1>1. /\ UNCHANGED <<profile, files, audits, decisions, standing>> /\ End(c)
      /\ disturbed' = TRUE
    BY DEF Crash
<1>2. Turn(c) /\ call'[c] = Idle
    BY <1>1, Ended
<1>3. disturbed' \in BOOLEAN
    BY <1>1
<1>4. TypeInv'
    BY <1>1, <1>2, <1>3, TypeWithProfile, OtherTables, Rows
<1> QED
    BY <1>1, <1>2, <1>4

\* A file is decided on by itself or deleted, which disturbs.
LEMMA FileStep ==
    ASSUME TypeInv, NEW f \in UNION {Offered[s] : s \in Columns[profile.kind]},
           ReviewFileAlone(f) \/ DeleteFile(f)
    PROVE  /\ TypeInv' /\ f \in Files /\ disturbed' /\ UNCHANGED <<call, profile, audits, decisions>>
           /\ \A g \in Files \ {f} : files'[g] = files[g]
           /\ \/ ReviewFileAlone(f) /\ files'[f].status \in {"ACTIVE", "FAILED"}
              \/ DeleteFile(f) /\ files'[f].status = "DELETED"
<1>1. f \in Files
    BY Rows, VerificationAssumption
<1>2. /\ UNCHANGED <<call, profile, audits, decisions>> /\ disturbed' = TRUE
      /\ standing' \in {standing, standing \cup {f}}
    BY DEF ReviewFileAlone, DeleteFile
<1>3. PICK status \in FileStatus :
        /\ files' = [files EXCEPT ![f].status = status]
        /\ \/ ReviewFileAlone(f) /\ status \in {"ACTIVE", "FAILED"}
           \/ DeleteFile(f) /\ status = "DELETED"
    BY DEF ReviewFileAlone, DeleteFile, FileStatus
<1>4. /\ files' \in [Files -> FileRows] /\ files'[f].status = status
      /\ \A g \in Files \ {f} : files'[g] = files[g]
    BY <1>1, <1>3, FileDecided
<1>5. standing' \subseteq Files /\ disturbed' \in BOOLEAN
    BY <1>1, <1>2, OtherTables
<1>6. VerificationTypeOK'
    BY <1>2, <1>4, <1>5 DEF TypeInv, VerificationTypeOK, FileRows
<1>7. TypeInv'
    BY <1>2, <1>6 DEF TypeInv
<1> QED
    BY <1>1, <1>2, <1>3, <1>4, <1>7

\* The initial state has its types.
LEMMA TypeInit ==
    ASSUME VerificationInit
    PROVE  TypeInv
<1>1. PICK kind \in Kinds : profile = NoProfile(kind)
    BY DEF VerificationInit
<1>2. PICK docs : docs = [s \in Columns[kind] |-> NULL]
    OBVIOUS
<1>3. docs \in Documents(kind)
    BY <1>2 DEF Documents
<1>4. profile = [kind |-> kind, id |-> NULL, status |-> "none", by |-> NULL,
                 docs |-> docs, stamp |-> 0]
    BY <1>1, <1>2 DEF NoProfile
<1>5. 0 \in 0..MaxStamp
    BY VerificationAssumption
<1>6. /\ profile \in [kind : {kind}, id : Ids \cup {NULL},
                      status : {"none", "pending"} \cup Decided, by : Reviewers \cup {NULL},
                      docs : Documents(kind), stamp : 0..MaxStamp]
      /\ profile.status = "none"
    BY <1>3, <1>4, <1>5
<1>7. profile \in Profiles
    BY <1>6 DEF Profiles
<1>8. [status |-> "QUARANTINED", resource |-> NULL] \in FileRows
    BY DEF FileRows, FileStatus
<1>9. files \in [Files -> FileRows]
    BY <1>8 DEF VerificationInit
<1>10. VerificationTypeOK
    BY <1>7, <1>9 DEF VerificationInit, VerificationTypeOK, FileRows
<1>11. call \in [Calls -> Frames(profile.kind)]
    BY DEF VerificationInit, HandlersInit, Frames
<1> QED
    BY <1>6, <1>10, <1>11 DEF TypeInv

\* Every step keeps the types.
LEMMA TypeStep ==
    ASSUME TypeInv, [VerificationNext /\ UNCHANGED mix]_verificationVars
    PROVE  TypeInv' /\ profile'.kind = profile.kind
<1>1. ASSUME NEW c \in Calls,
             \/ Submit(c) \/ Load(c) \/ Attach(c) \/ AttachUnanswered(c) \/ Save(c)
             \/ Detach(c) \/ Retire(c)
             \/ Verify(c) \/ Find(c) \/ Decide(c) \/ Reread(c) \/ DecisionUnanswered(c)
             \/ Review(c) \/ ReviewUnanswered(c)
             \/ RestoreFiles(c) \/ Reopen(c) \/ Audit(c) \/ Crash(c)
      PROVE  TypeInv' /\ profile'.kind = profile.kind
    <2>1. CASE Submit(c)
        BY <2>1, SubmitStep DEF Submit
    <2>2. CASE Load(c)
        BY <2>2, LoadStep DEF Load
    <2>3. CASE Attach(c)
        BY <2>3, AttachStep
    <2>4. CASE Save(c)
        BY <2>4, SaveStep
    <2>5. CASE Detach(c)
        BY <2>5, DetachStep
    <2>6. CASE Retire(c)
        BY <2>6, RetireStep
    <2>7. CASE Verify(c)
        BY <2>7, VerifyStep
    <2>8. CASE Find(c)
        BY <2>8, FindStep
    <2>9. CASE Decide(c)
        BY <2>9, DecideStep
    <2>10. CASE Reread(c)
        BY <2>10, RereadStep
    <2>11. CASE Review(c)
        BY <2>11, ReviewStep
    <2>12. CASE RestoreFiles(c)
        BY <2>12, RestoreStep
    <2>13. CASE Reopen(c)
        BY <2>13, ReopenStep
    <2>14. CASE Audit(c)
        BY <2>14, AuditStep
    <2>15. CASE Crash(c)
        BY <2>15, CrashStep
    <2>16. CASE AttachUnanswered(c)
        BY <2>16, AttachUnansweredStep
    <2>17. CASE DecisionUnanswered(c)
        BY <2>17, DecisionUnansweredStep
    <2>18. CASE ReviewUnanswered(c)
        BY <2>18, ReviewUnansweredStep
    <2> QED
        BY <1>1, <2>1, <2>2, <2>3, <2>4, <2>5, <2>6, <2>7, <2>8, <2>9, <2>10, <2>11,
           <2>12, <2>13, <2>14, <2>15, <2>16, <2>17, <2>18
<1>2. ASSUME NEW f \in UNION {Offered[s] : s \in Columns[profile.kind]},
             ReviewFileAlone(f) \/ DeleteFile(f)
      PROVE  TypeInv' /\ profile'.kind = profile.kind
    BY <1>2, FileStep
<1>3. CASE UNCHANGED verificationVars
    BY <1>3 DEF verificationVars, TypeInv, VerificationTypeOK, Frames, Idle, LoadFrames,
       SavingFrames, EarlyFrames, LateFrames, Profiles
<1> QED
    BY <1>1, <1>2, <1>3 DEF VerificationNext

\* Every variable has its type, and so has the frame of every request.
THEOREM VerificationIsTyped == VerificationSpec => []VerificationTypeOK
<1>1. VerificationInit => TypeInv
    BY TypeInit
<1>2. TypeInv /\ [VerificationNext /\ UNCHANGED mix]_verificationVars => TypeInv'
    BY TypeStep
<1>3. TypeInv => VerificationTypeOK
    BY DEF TypeInv
<1> QED
    BY <1>1, <1>2, <1>3, PTL DEF VerificationSpec

-----------------------------------------------------------------------------
(* The verdicts on files *)

\* No file goes back into quarantine.
NoneReleased ==
    \A f \in Files : files'[f].status = files[f].status \/ files'[f].status # "QUARANTINED"

\* A call judges no more files than before.
JudgesNoMore(c) ==
    \/ call'[c].at \notin Judging
    \/ call'[c].changed = {}
    \/ Of(c, Judging) /\ call'[c].changed = call[c].changed

\* What a request changed are files, and so are those that stand.
LEMMA JudgedFiles ==
    ASSUME TypeInv
    PROVE  /\ \A c \in Calls : Of(c, Judging) => call[c].changed \subseteq Files
           /\ standing \subseteq Files
BY LateFrame, OtherTables DEF Of, Judging, LateAwaits

\* The verdicts of the others stay, whatever a step does with its own request.
LEMMA VerdictsRest ==
    ASSUME TypeInv, VerdictsInv, NEW c \in Calls, Turn(c), UNCHANGED standing,
           NoneReleased, JudgesNoMore(c)
    PROVE  VerdictsInv'
<1>1. \A f \in Files : files[f].status # "QUARANTINED" => files'[f].status # "QUARANTINED"
    BY DEF NoneReleased
<1>2. \A d \in Calls \ {c} : call'[d] = call[d]
    BY TurnOthers
<1>3. ASSUME NEW d \in Calls, call'[d].at \in Judging
      PROVE  call'[d].changed = {} \/ (Of(d, Judging) /\ call'[d].changed = call[d].changed)
    BY <1>2, <1>3 DEF JudgesNoMore, Of
<1>4. \A f \in standing' : files'[f].status # "QUARANTINED"
    BY <1>1, JudgedFiles DEF VerdictsInv
<1>5. ASSUME NEW d \in Calls, call'[d].at \in Judging, NEW f \in call'[d].changed
      PROVE  files'[f].status # "QUARANTINED" /\ f \notin standing'
    BY <1>1, <1>3, <1>5, JudgedFiles DEF VerdictsInv
<1>6. ASSUME NEW d \in Calls, NEW e \in Calls, d # e,
             call'[d].at \in Judging, call'[e].at \in Judging
      PROVE  call'[d].changed \cap call'[e].changed = {}
    BY <1>3, <1>6 DEF VerdictsInv
<1> QED
    BY <1>4, <1>5, <1>6 DEF VerdictsInv, Of

\* A review changes a file that was under nobody's verdict.
LEMMA VerdictsReview ==
    ASSUME TypeInv, VerdictsInv, NEW c \in Calls, Turn(c), UNCHANGED standing, At(c, "reviewing"),
           NEW f \in Files, ChangesFile(c, f)
    PROVE  VerdictsInv'
<1>1. /\ files[f].status = "QUARANTINED" /\ files'[f].status # "QUARANTINED"
      /\ \A g \in Files \ {f} : files'[g] = files[g]
      /\ call'[c].changed = call[c].changed \cup {f}
    BY DEF ChangesFile, Verdict
<1>2. \A d \in Calls \ {c} : call'[d] = call[d]
    BY TurnOthers
<1>3. Of(c, Judging)
    BY DEF At, Of, Judging
<1>4. f \notin standing /\ \A d \in Calls : Of(d, Judging) => f \notin call[d].changed
    BY <1>1 DEF VerdictsInv
<1>5. \A g \in standing' : files'[g].status # "QUARANTINED"
    BY <1>1, JudgedFiles DEF VerdictsInv
<1>6. ASSUME NEW d \in Calls, call'[d].at \in Judging
      PROVE  /\ Of(d, Judging)
             /\ call'[d].changed = IF d = c THEN call[d].changed \cup {f} ELSE call[d].changed
    BY <1>1, <1>2, <1>3, <1>6 DEF Of
<1>7. ASSUME NEW d \in Calls, call'[d].at \in Judging, NEW g \in call'[d].changed
      PROVE  files'[g].status # "QUARANTINED" /\ g \notin standing'
    <2>1. CASE g = f
        BY <1>1, <1>4, <2>1
    <2>2. CASE g # f
        <3>1. Of(d, Judging) /\ g \in call[d].changed
            BY <1>6, <1>7, <2>2
        <3>2. files[g].status # "QUARANTINED" /\ g \notin standing /\ g \in Files
            BY <3>1, JudgedFiles DEF VerdictsInv
        <3> QED
            BY <1>1, <2>2, <3>2
    <2> QED
        BY <2>1, <2>2
<1>8. ASSUME NEW d \in Calls, NEW e \in Calls, d # e,
             call'[d].at \in Judging, call'[e].at \in Judging
      PROVE  call'[d].changed \cap call'[e].changed = {}
    <2>1. Of(d, Judging) /\ Of(e, Judging)
        BY <1>6, <1>8
    <2>2. call[d].changed \cap call[e].changed = {}
        BY <1>8, <2>1 DEF VerdictsInv
    <2>3. f \notin call[d].changed /\ f \notin call[e].changed
        BY <1>4, <2>1
    <2>4. /\ call'[d].changed = IF d = c THEN call[d].changed \cup {f} ELSE call[d].changed
          /\ call'[e].changed = IF e = c THEN call[e].changed \cup {f} ELSE call[e].changed
        BY <1>6, <1>8
    <2> QED
        BY <1>8, <2>2, <2>3, <2>4
<1> QED
    BY <1>5, <1>7, <1>8 DEF VerdictsInv, Of

\* A compensation releases its own files only.
LEMMA VerdictsRestore ==
    ASSUME TypeInv, VerdictsInv, NEW c \in Calls, RestoreFiles(c)
    PROVE  VerdictsInv' /\ \A f \in call[c].changed : f \notin standing
<1>1. /\ At(c, "restoring") /\ Turn(c) /\ call'[c].at = "reopening" /\ UNCHANGED standing
      /\ \A f \in Files : files'[f].status = files[f].status \/ f \in call[c].changed
    BY RestoreStep
<1>2. Of(c, Judging) /\ call'[c].at \notin Judging
    BY <1>1 DEF At, Of, Judging
<1>3. \A d \in Calls \ {c} : call'[d] = call[d]
    BY <1>1, TurnOthers
<1>4. \A f \in call[c].changed : f \notin standing
    BY <1>2 DEF VerdictsInv
<1>5. \A f \in standing' : files'[f].status # "QUARANTINED"
    BY <1>1, <1>4, JudgedFiles DEF VerdictsInv
<1>6. ASSUME NEW d \in Calls, call'[d].at \in Judging
      PROVE  Of(d, Judging) /\ call'[d] = call[d] /\ d # c
    BY <1>2, <1>3, <1>6 DEF Of
<1>7. ASSUME NEW d \in Calls, call'[d].at \in Judging, NEW f \in call'[d].changed
      PROVE  files'[f].status # "QUARANTINED" /\ f \notin standing'
    <2>1. Of(d, Judging) /\ d # c /\ f \in call[d].changed
        BY <1>6, <1>7
    <2>2. f \notin call[c].changed /\ f \in Files
        BY <1>2, <2>1, JudgedFiles DEF VerdictsInv
    <2> QED
        BY <1>1, <2>1, <2>2 DEF VerdictsInv
<1>8. ASSUME NEW d \in Calls, NEW e \in Calls, d # e,
             call'[d].at \in Judging, call'[e].at \in Judging
      PROVE  call'[d].changed \cap call'[e].changed = {}
    BY <1>6, <1>8 DEF VerdictsInv
<1> QED
    BY <1>4, <1>5, <1>7, <1>8 DEF VerdictsInv, Of

\* The verdicts of a request that ends stand.
LEMMA VerdictsSettle ==
    ASSUME TypeInv, VerdictsInv, NEW c \in Calls, Turn(c), At(c, "auditing"), call'[c] = Idle,
           UNCHANGED files, standing' = standing \cup call[c].changed
    PROVE  VerdictsInv'
<1>1. Of(c, Judging) /\ call'[c].at \notin Judging
    BY DEF At, Of, Judging, Idle
<1>2. \A d \in Calls \ {c} : call'[d] = call[d]
    BY TurnOthers
<1>3. \A f \in standing' : files'[f].status # "QUARANTINED"
    BY <1>1 DEF VerdictsInv
<1>4. ASSUME NEW d \in Calls, call'[d].at \in Judging
      PROVE  Of(d, Judging) /\ call'[d] = call[d] /\ d # c
    BY <1>1, <1>2, <1>4 DEF Of
<1>5. ASSUME NEW d \in Calls, call'[d].at \in Judging, NEW f \in call'[d].changed
      PROVE  files'[f].status # "QUARANTINED" /\ f \notin standing'
    BY <1>1, <1>4, <1>5 DEF VerdictsInv
<1>6. ASSUME NEW d \in Calls, NEW e \in Calls, d # e,
             call'[d].at \in Judging, call'[e].at \in Judging
      PROVE  call'[d].changed \cap call'[e].changed = {}
    BY <1>4, <1>6 DEF VerdictsInv
<1> QED
    BY <1>3, <1>5, <1>6 DEF VerdictsInv, Of

\* A file decided on by itself was under nobody's verdict; a deletion gives none.
LEMMA VerdictsFile ==
    ASSUME TypeInv, VerdictsInv, NEW f \in UNION {Offered[s] : s \in Columns[profile.kind]},
           ReviewFileAlone(f) \/ DeleteFile(f)
    PROVE  VerdictsInv' /\ NoneReleased
<1>1. /\ f \in Files /\ call' = call /\ files'[f].status # "QUARANTINED"
      /\ \A g \in Files \ {f} : files'[g] = files[g]
    BY FileStep
<1>2. \/ standing' = standing
      \/ standing' = standing \cup {f} /\ files[f].status = "QUARANTINED"
    BY DEF ReviewFileAlone, DeleteFile
<1>3. NoneReleased
    BY <1>1 DEF NoneReleased
<1>4. \A g \in Files : files[g].status # "QUARANTINED" => files'[g].status # "QUARANTINED"
    BY <1>3 DEF NoneReleased
<1>5. \A g \in standing' : files'[g].status # "QUARANTINED"
    BY <1>1, <1>2, <1>4, JudgedFiles DEF VerdictsInv
<1>6. ASSUME NEW d \in Calls, Of(d, Judging), NEW g \in call[d].changed
      PROVE  files'[g].status # "QUARANTINED" /\ g \notin standing'
    BY <1>2, <1>4, <1>6, JudgedFiles DEF VerdictsInv
<1>7. \A d, e \in Calls : d # e /\ Of(d, Judging) /\ Of(e, Judging) =>
        call[d].changed \cap call[e].changed = {}
    BY DEF VerdictsInv
<1>8. \A d \in Calls : call'[d] = call[d]
    BY <1>1
<1>9. VerdictsInv'
    BY <1>5, <1>6, <1>7, <1>8 DEF VerdictsInv, Of
<1> QED
    BY <1>3, <1>9

\* Every step keeps the verdicts, and only a compensation releases files.
LEMMA VerdictsStep ==
    ASSUME TypeInv, VerdictsInv, [VerificationNext /\ UNCHANGED mix]_verificationVars
    PROVE  /\ VerdictsInv'
           /\ NoneReleased \/ \E c \in Calls : RestoreFiles(c)
<1>1. ASSUME NEW c \in Calls, Turn(c), UNCHANGED standing,
             \A f \in Files : \/ files'[f].status = files[f].status
                              \/ files'[f].status # "QUARANTINED",
             JudgesNoMore(c)
      PROVE  VerdictsInv' /\ NoneReleased
    BY <1>1, VerdictsRest DEF NoneReleased
<1>2. ASSUME NEW c \in Calls,
             \/ Submit(c) \/ Load(c) \/ Attach(c) \/ AttachUnanswered(c) \/ Save(c)
             \/ Detach(c) \/ Retire(c)
             \/ Verify(c) \/ Find(c) \/ Decide(c) \/ Reread(c) \/ DecisionUnanswered(c)
             \/ Review(c) \/ ReviewUnanswered(c)
             \/ RestoreFiles(c) \/ Reopen(c) \/ Audit(c) \/ Crash(c)
      PROVE  VerdictsInv' /\ (NoneReleased \/ RestoreFiles(c))
    <2>0. Idle.at \notin Judging
        BY DEF Idle, Judging
    <2>1. CASE Submit(c)
        <3>1. UNCHANGED <<files, standing>> /\ Turn(c) /\ call'[c].at \notin Judging
            BY <2>1, SubmitStep DEF Submit, Judging
        <3> QED
            BY <1>1, <3>1 DEF JudgesNoMore
    <2>2. CASE Load(c)
        <3>1. UNCHANGED <<files, standing>> /\ Turn(c) /\ call'[c].at \notin Judging
            BY <2>0, <2>2, LoadStep DEF Load, Judging
        <3> QED
            BY <1>1, <3>1 DEF JudgesNoMore
    <2>3. CASE Attach(c)
        <3>1. /\ UNCHANGED standing /\ Turn(c) /\ call'[c].at \notin Judging
              /\ \A f \in Files : files'[f].status = files[f].status
            BY <2>3, AttachStep DEF AttachesColumn, Judging
        <3> QED
            BY <1>1, <3>1 DEF JudgesNoMore
    <2>4. CASE Save(c)
        <3>1. UNCHANGED <<files, standing>> /\ Turn(c) /\ call'[c].at \notin Judging
            BY <2>4, SaveStep DEF Judging
        <3> QED
            BY <1>1, <3>1 DEF JudgesNoMore
    <2>5. CASE Detach(c)
        <3>1. /\ UNCHANGED standing /\ Turn(c) /\ call'[c].at \notin Judging
              /\ \A f \in Files : files'[f].status = files[f].status
            BY <2>0, <2>5, DetachStep
        <3> QED
            BY <1>1, <3>1 DEF JudgesNoMore
    <2>6. CASE Retire(c)
        <3>1. UNCHANGED standing /\ Turn(c) /\ call'[c].at \notin Judging
            BY <2>0, <2>6, RetireStep
        <3>2. \A f \in Files : \/ files'[f].status = files[f].status
                               \/ files'[f].status # "QUARANTINED"
            BY <2>6, RetireStep DEF Gone
        <3> QED
            BY <1>1, <3>1, <3>2 DEF JudgesNoMore
    <2>7. CASE Verify(c)
        <3>1. UNCHANGED <<files, standing>> /\ Turn(c) /\ call'[c].at \notin Judging
            BY <2>7, VerifyStep DEF Judging
        <3> QED
            BY <1>1, <3>1 DEF JudgesNoMore
    <2>8. CASE Find(c)
        <3>1. UNCHANGED <<files, standing>> /\ Turn(c) /\ call'[c].at \notin Judging
            BY <2>8, FindStep DEF Judging
        <3> QED
            BY <1>1, <3>1 DEF JudgesNoMore
    <2>9. CASE Decide(c)
        <3>1. UNCHANGED <<files, standing>> /\ Turn(c) /\ call'[c].at \notin Judging
            BY <2>0, <2>9, DecideStep DEF Judging
        <3> QED
            BY <1>1, <3>1 DEF JudgesNoMore
    <2>10. CASE Reread(c)
        <3>1. UNCHANGED <<files, standing>> /\ Turn(c) /\ call'[c].changed = {}
            BY <2>10, RereadStep
        <3> QED
            BY <1>1, <3>1 DEF JudgesNoMore
    <2>11. CASE Review(c)
        <3>1. /\ Turn(c) /\ UNCHANGED standing /\ At(c, "reviewing")
              /\ \/ UNCHANGED files /\ call'[c].changed = call[c].changed
                 \/ \E f \in call[c].left : f \in Files /\ ChangesFile(c, f)
            BY <2>11, ReviewStep DEF FindsDecided
        <3>2. Of(c, Judging)
            BY <3>1 DEF At, Of, Judging
        <3>3. CASE UNCHANGED files /\ call'[c].changed = call[c].changed
            BY <1>1, <3>1, <3>2, <3>3 DEF JudgesNoMore
        <3>4. ASSUME NEW f \in call[c].left, f \in Files, ChangesFile(c, f)
              PROVE  VerdictsInv' /\ NoneReleased
            <4>1. VerdictsInv'
                BY <3>1, <3>4, VerdictsReview
            <4>2. NoneReleased
                BY <3>4 DEF ChangesFile, NoneReleased, Verdict
            <4> QED
                BY <4>1, <4>2
        <3> QED
            BY <3>1, <3>3, <3>4
    <2>12. CASE RestoreFiles(c)
        BY <2>12, VerdictsRestore
    <2>13. CASE Reopen(c)
        <3>1. UNCHANGED <<files, standing>> /\ Turn(c) /\ call'[c].at \notin Judging
            BY <2>0, <2>13, ReopenStep
        <3> QED
            BY <1>1, <3>1 DEF JudgesNoMore
    <2>14. CASE Audit(c)
        <3>1. /\ Turn(c) /\ UNCHANGED files /\ At(c, "auditing")
              /\ \/ call'[c] = Idle /\ standing' = standing \cup call[c].changed
                 \/ UNCHANGED standing /\ call'[c].changed = call[c].changed
            BY <2>14, AuditStep
        <3>2. Of(c, Judging)
            BY <3>1 DEF At, Of, Judging
        <3>3. NoneReleased
            BY <3>1 DEF NoneReleased
        <3>4. CASE call'[c] = Idle /\ standing' = standing \cup call[c].changed
            BY <3>1, <3>3, <3>4, VerdictsSettle
        <3>5. CASE UNCHANGED standing /\ call'[c].changed = call[c].changed
            BY <1>1, <3>1, <3>2, <3>5 DEF JudgesNoMore
        <3> QED
            BY <3>1, <3>4, <3>5
    <2>15. CASE Crash(c)
        <3>1. UNCHANGED <<files, standing>> /\ Turn(c) /\ call'[c].at \notin Judging
            BY <2>0, <2>15, CrashStep
        <3> QED
            BY <1>1, <3>1 DEF JudgesNoMore
    <2>16. CASE AttachUnanswered(c)
        <3>1. /\ UNCHANGED standing /\ Turn(c) /\ call'[c].at \notin Judging
              /\ \A f \in Files : files'[f].status = files[f].status
            BY <2>16, AttachUnansweredStep DEF Judging
        <3> QED
            BY <1>1, <3>1 DEF JudgesNoMore
    <2>17. CASE DecisionUnanswered(c)
        <3>1. UNCHANGED <<files, standing>> /\ Turn(c) /\ call'[c].at \notin Judging
            BY <2>0, <2>17, DecisionUnansweredStep
        <3> QED
            BY <1>1, <3>1 DEF JudgesNoMore
    <2>18. CASE ReviewUnanswered(c)
        <3>1. /\ UNCHANGED standing /\ Turn(c) /\ At(c, "reviewing")
              /\ call'[c].changed = call[c].changed
              /\ \A f \in Files : \/ files'[f].status = files[f].status
                                  \/ files'[f].status # "QUARANTINED"
            BY <2>18, ReviewUnansweredStep
        <3>2. Of(c, Judging)
            BY <3>1 DEF At, Of, Judging
        <3> QED
            BY <1>1, <3>1, <3>2 DEF JudgesNoMore
    <2> QED
        BY <1>2, <2>1, <2>2, <2>3, <2>4, <2>5, <2>6, <2>7, <2>8, <2>9, <2>10, <2>11,
           <2>12, <2>13, <2>14, <2>15, <2>16, <2>17, <2>18
<1>3. ASSUME NEW f \in UNION {Offered[s] : s \in Columns[profile.kind]},
             ReviewFileAlone(f) \/ DeleteFile(f)
      PROVE  VerdictsInv' /\ NoneReleased
    BY <1>3, VerdictsFile
<1>4. CASE UNCHANGED verificationVars
    BY <1>4 DEF verificationVars, VerdictsInv, Of, NoneReleased
<1> QED
    BY <1>2, <1>3, <1>4 DEF VerificationNext

\* The types and the verdicts hold in every behaviour.
THEOREM VerdictsInvariant == VerificationSpec => [](TypeInv /\ VerdictsInv)
<1>1. VerificationInit => TypeInv /\ VerdictsInv
    <2>1. VerificationInit => VerdictsInv
        BY DEF VerificationInit, HandlersInit, VerdictsInv, Of, Judging, Idle
    <2> QED
        BY <2>1, TypeInit
<1>2. /\ TypeInv /\ VerdictsInv
      /\ [VerificationNext /\ UNCHANGED mix]_verificationVars
      => TypeInv' /\ VerdictsInv'
    BY TypeStep, VerdictsStep
<1> QED
    BY <1>1, <1>2, PTL DEF VerificationSpec

\* Whatever requests overlap, crash or fail half way, a compensation takes back
\* only a verdict of its own request: no file a request that has ended, or an
\* administrator by itself, has decided on goes back into quarantine.
THEOREM EarlierVerdictsKept == VerificationSpec => EarlierVerdictsStand
<1>1. /\ TypeInv /\ VerdictsInv
      /\ [VerificationNext /\ UNCHANGED mix]_verificationVars
      => [\A f \in Files :
            /\ files[f].status \in {"ACTIVE", "FAILED"}
            /\ files'[f].status = "QUARANTINED"
            => f \notin standing]_verificationVars
    <2>1. SUFFICES ASSUME TypeInv, VerdictsInv,
                          [VerificationNext /\ UNCHANGED mix]_verificationVars,
                          NEW f \in Files, files[f].status \in {"ACTIVE", "FAILED"},
                          files'[f].status = "QUARANTINED"
                   PROVE  f \notin standing
        OBVIOUS
    <2>2. ~NoneReleased
        BY <2>1 DEF NoneReleased
    <2>3. PICK c \in Calls : RestoreFiles(c)
        BY <2>1, <2>2, VerdictsStep
    <2>4. f \in call[c].changed
        BY <2>1, <2>3, RestoreStep
    <2> QED
        BY <2>1, <2>3, <2>4, VerdictsRestore
<1> QED
    BY <1>1, VerdictsInvariant, PTL DEF VerificationSpec, EarlierVerdictsStand

-----------------------------------------------------------------------------
(* Requests that come one after the other *)

\* A request has no await of a save and of a review at once.
LEMMA AwaitsApart ==
    ASSUME TypeInv, NEW c \in Calls
    PROVE  /\ Of(c, Winning) => ~Of(c, SaveAwaits) /\ ~At(c, "idle")
           /\ Of(c, Reading) => ~Of(c, SaveAwaits) /\ ~At(c, "idle")
           /\ Of(c, SaveAwaits) => ~At(c, "idle")
BY DEF Of, At, Winning, Reading, SaveAwaits, Saving

\* The step of a save, which is served alone.
OthersIdle(c) == \A d \in Calls \ {c} : call'[d].at = "idle"
OthersLose(c) == \A d \in Calls \ {c} : call'[d].at \notin Winning

\* A step of the owner, who is served alone, leaves everybody else idle.
LEMMA OwnerStep ==
    ASSUME TypeInv, OneAtATime, NEW c \in Calls, Turn(c), Of(c, SaveAwaits) \/ Quiet,
           call'[c].at \in SaveAwaits \cup {"idle"},
           call'[c].at = "retiring" => profile'.status = "pending"
    PROVE  OneAtATime' /\ NobodyWins /\ OthersLose(c) /\ call'[c].at \notin Winning
<1>1. /\ \A d \in Calls \ {c} : call'[d] = call[d]
      /\ \A d \in Calls \ {c} : call[d].at = "idle"
    BY TurnOthers DEF OneAtATime, Quiet, At
<1>2. \A d \in Calls \ {c} : call'[d].at = "idle"
    BY <1>1
<1>3. call'[c].at \notin Winning /\ call'[c].at \notin Reading
    BY DEF SaveAwaits, Saving, Winning, Reading
<1>4. "idle" \notin Winning /\ "idle" \notin Reading /\ "idle" \notin SaveAwaits
    BY DEF SaveAwaits, Saving, Winning, Reading
<1>5. \A d \in Calls : call'[d].at \notin Winning /\ call'[d].at \notin Reading
    BY <1>2, <1>3, <1>4
<1>6. \A d, e \in Calls : d # e /\ call'[d].at \in SaveAwaits => call'[e].at = "idle"
    BY <1>2, <1>4
<1>7. OneAtATime'
    BY <1>2, <1>5, <1>6 DEF OneAtATime, Of, At
<1>8. ~Of(c, Winning)
    BY <1>4, AwaitsApart DEF Quiet
<1>9. NobodyWins
    BY <1>1, <1>4, <1>8 DEF NobodyWins, Of
<1> QED
    BY <1>3, <1>5, <1>7, <1>9 DEF OthersLose

\* While a review is being served nobody saves.
LEMMA NobodyLoads ==
    ASSUME TypeInv, OneAtATime, NEW c \in Calls, ~At(c, "idle"), ~Of(c, SaveAwaits)
    PROVE  \A d \in Calls : ~Of(d, SaveAwaits)
BY DEF OneAtATime

\* The step of a review.
LEMMA ReviewerStep ==
    ASSUME TypeInv, OneAtATime, NEW c \in Calls, Turn(c), \A d \in Calls : ~Of(d, SaveAwaits),
           call'[c].at \notin SaveAwaits, DocsOf(profile') = DocsOf(profile),
           call'[c].at \in Reading => call'[c].docs = DocsOf(profile),
           call'[c].at \in Winning => Of(c, Winning) \/ NobodyWins
    PROVE  OneAtATime'
<1>1. \A d \in Calls \ {c} : call'[d] = call[d]
    BY TurnOthers
<1>2. \A d \in Calls : call'[d].at \notin SaveAwaits
    BY <1>1 DEF Of
<1>3. \A d \in Calls : call'[d].at \in Reading => call'[d].docs = DocsOf(profile')
    BY <1>1 DEF OneAtATime, Of
<1>4. \A d, e \in Calls : call'[d].at \in Winning /\ call'[e].at \in Winning => d = e
    BY <1>1 DEF OneAtATime, Of, NobodyWins
<1>5. \A d \in Calls : call'[d].at # "retiring"
    BY <1>2 DEF SaveAwaits, Saving
<1> QED
    BY <1>2, <1>3, <1>4, <1>5 DEF OneAtATime, Of, At

\* The winner is the only one.
LEMMA OnlyWinner ==
    ASSUME TypeInv, OneAtATime, NEW c \in Calls, Turn(c), Of(c, Winning) \/ NobodyWins
    PROVE  OthersLose(c)
BY TurnOthers DEF OneAtATime, Of, NobodyWins, OthersLose

\* The invariants after the step of the only request that may have won.
LEMMA AuditsFrom ==
    ASSUME NEW c \in Calls, OthersLose(c),
           call'[c].at \in Winning => WinnerDecided(c)',
           call'[c].at \notin Winning => audits' = decisions',
           \A d \in decisions' : d.stamp <= profile'.stamp
    PROVE  AuditsInv'
<1>1. \A d \in Calls : call'[d].at \in Winning => d = c
    BY DEF OthersLose
<1>2. ASSUME NEW d \in Calls, call'[d].at \in Winning
      PROVE  WinnerDecided(d)'
    BY <1>1, <1>2
<1>3. NobodyWins' => call'[c].at \notin Winning
    BY DEF NobodyWins, Of
<1> QED
    BY <1>2, <1>3 DEF AuditsInv, Of

\* The same for the verdicts on the documents.
LEMMA FilesFrom ==
    ASSUME NEW c \in Calls, OthersLose(c),
           call'[c].at \in {"reviewing", "auditing"} => Reviewed(c)',
           call'[c].at \notin Winning /\ profile'.status \in Decided =>
             \A f \in DocsOf(profile') : files'[f].status = StatusOf(profile'.status)
    PROVE  FilesInv'
<1>1. \A d \in Calls : call'[d].at \in Winning => d = c
    BY DEF OthersLose
<1>2. ASSUME NEW d \in Calls, call'[d].at \in {"reviewing", "auditing"}
      PROVE  Reviewed(d)'
    <2>1. d = c
        BY <1>1, <1>2 DEF Winning
    <2> QED
        BY <1>2, <2>1
<1>3. NobodyWins' => call'[c].at \notin Winning
    BY DEF NobodyWins, Of
<1> QED
    BY <1>2, <1>3 DEF FilesInv, Of

\* A request that has not won and does not win leaves what the winner did.
LEMMA WinnerRest ==
    ASSUME TypeInv, AuditsInv, FilesInv, NEW c \in Calls, Turn(c),
           UNCHANGED <<profile, files, audits, decisions>>,
           ~Of(c, Winning), call'[c].at \notin Winning
    PROVE  AuditsInv' /\ FilesInv'
<1>1. \A d \in Calls : /\ call'[d].at \in Winning <=> Of(d, Winning)
                       /\ Of(d, Winning) => call'[d] = call[d]
    BY TurnOthers DEF Of
<1>2. NobodyWins' <=> NobodyWins
    BY <1>1 DEF NobodyWins, Of
<1>3. ASSUME NEW d \in Calls, call'[d].at \in Winning
      PROVE  WinnerDecided(d)'
    <2>1. WinnerDecided(d) /\ call'[d] = call[d]
        BY <1>1, <1>3 DEF AuditsInv
    <2> QED
        BY <2>1 DEF WinnerDecided, At, DecisionRow
<1>4. AuditsInv'
    BY <1>2, <1>3 DEF AuditsInv, Of
<1>5. ASSUME NEW d \in Calls, call'[d].at \in {"reviewing", "auditing"}
      PROVE  Reviewed(d)'
    <2>1. call'[d] = call[d]
        BY <1>1, <1>5 DEF Winning
    <2>2. Reviewed(d)
        BY <1>5, <2>1 DEF FilesInv, Of
    <2> QED
        BY <2>1, <2>2 DEF Reviewed, At, Verdict
<1>6. FilesInv'
    BY <1>2, <1>5 DEF FilesInv, Of
<1> QED
    BY <1>4, <1>6

AloneParts == OneAtATime /\ AuditsInv /\ FilesInv

\* What a save does to the decisions: nothing, or it starts anew.
LEMMA OwnerInv ==
    ASSUME TypeInv, AloneParts, NEW c \in Calls, Turn(c), Of(c, SaveAwaits) \/ Quiet,
           call'[c].at \in SaveAwaits \cup {"idle"},
           call'[c].at = "retiring" => profile'.status = "pending",
           \/ UNCHANGED <<profile, audits, decisions>>
           \/ audits' = {} /\ decisions' = {},
           profile'.status \in Decided =>
             profile' = profile /\ \A f \in Files : files'[f].status = files[f].status
    PROVE  AloneParts'
<1>1. OneAtATime' /\ NobodyWins /\ OthersLose(c) /\ call'[c].at \notin Winning
    BY OwnerStep DEF AloneParts
<1>2. audits' = decisions' /\ \A d \in decisions' : d.stamp <= profile'.stamp
    BY <1>1 DEF AloneParts, AuditsInv
<1>3. AuditsInv'
    BY <1>1, <1>2, AuditsFrom
<1>4. ASSUME profile'.status \in Decided, NEW f \in DocsOf(profile')
      PROVE  files'[f].status = StatusOf(profile'.status)
    <2>1. profile' = profile /\ f \in Files /\ files'[f].status = files[f].status
        BY <1>4, Rows
    <2>2. files[f].status = StatusOf(profile.status)
        BY <1>1, <1>4, <2>1 DEF AloneParts, FilesInv
    <2> QED
        BY <2>1, <2>2
<1>5. call'[c].at \notin {"reviewing", "auditing"}
    BY <1>1 DEF Winning
<1>6. FilesInv'
    BY <1>1, <1>4, <1>5, FilesFrom
<1> QED
    BY <1>1, <1>3, <1>6 DEF AloneParts

\* The requests of the owner.
LEMMA OwnersAlone ==
    ASSUME TypeInv, Alone, AloneParts, NEW c \in Calls,
           Submit(c) \/ Load(c) \/ Attach(c) \/ Save(c) \/ Detach(c) \/ Retire(c)
    PROVE  AloneParts'
<1>1. Idle.at = "idle"
    BY DEF Idle
<1>2. CASE Submit(c)
    <2>1. Quiet /\ UNCHANGED <<profile, files, audits, decisions>>
        BY <1>2 DEF Submit, Alone
    <2>2. Turn(c) /\ call'[c].at = "loading"
        BY <1>2, SubmitStep
    <2>3. call'[c].at \in SaveAwaits /\ call'[c].at # "retiring"
        BY <2>2 DEF SaveAwaits
    <2> QED
        BY <2>1, <2>2, <2>3, OwnerInv
<1>3. CASE Load(c)
    <2>1. Of(c, SaveAwaits) /\ UNCHANGED <<profile, files, audits, decisions>>
        BY <1>3 DEF Load, At, Of, SaveAwaits
    <2>2. Turn(c) /\ call'[c].at \in {"idle", "attaching"}
        BY <1>1, <1>3, LoadStep
    <2>3. call'[c].at \in SaveAwaits \cup {"idle"} /\ call'[c].at # "retiring"
        BY <2>2 DEF SaveAwaits, Saving
    <2> QED
        BY <2>1, <2>2, <2>3, OwnerInv
<1>4. CASE Attach(c)
    <2>1. /\ Of(c, Saving) /\ UNCHANGED <<profile, audits, decisions>> /\ Turn(c)
          /\ \A f \in Files : files'[f].status = files[f].status
        BY <1>4, AttachStep
    <2>2. call'[c].at \in {"saving", "attaching", "detaching"}
        BY <1>4, AttachStep DEF AttachesColumn
    <2>3. /\ call'[c].at \in SaveAwaits \cup {"idle"} /\ call'[c].at # "retiring"
          /\ Of(c, SaveAwaits)
        BY <2>1, <2>2 DEF SaveAwaits, Saving, Of
    <2> QED
        BY <2>1, <2>3, OwnerInv
<1>5. CASE Save(c)
    <2>1. /\ Of(c, Saving) /\ UNCHANGED files /\ Turn(c)
          /\ \/ Saves(c) /\ call'[c].at \in {"retiring", "detaching"}
             \/ call'[c].at = "detaching" /\ UNCHANGED <<profile, audits, decisions>>
        BY <1>5, SaveStep
    <2>2. call'[c].at \in SaveAwaits /\ Of(c, SaveAwaits)
        BY <2>1 DEF SaveAwaits, Saving, Of
    <2>3. CASE Saves(c)
        <3>1. profile'.status = "pending" /\ audits' = {} /\ decisions' = {}
            BY <2>1, <2>3, ResubmittedRow DEF Saves
        <3>2. profile'.status \notin Decided
            BY <3>1 DEF Decided
        <3> QED
            BY <2>1, <2>2, <3>1, <3>2, OwnerInv
    <2>4. CASE call'[c].at = "detaching" /\ UNCHANGED <<profile, audits, decisions>>
        BY <2>1, <2>2, <2>4, OwnerInv
    <2> QED
        BY <2>1, <2>3, <2>4
<1>6. CASE Detach(c)
    <2>1. /\ Of(c, Saving) /\ UNCHANGED <<profile, audits, decisions>> /\ Turn(c)
          /\ \A f \in Files : files'[f].status = files[f].status
          /\ call'[c].at = "idle"
        BY <1>1, <1>6, DetachStep
    <2>2. Of(c, SaveAwaits)
        BY <2>1 DEF SaveAwaits, Of
    <2> QED
        BY <2>1, <2>2, OwnerInv
<1>7. CASE Retire(c)
    <2>1. /\ Of(c, Saving) /\ UNCHANGED <<profile, audits, decisions>> /\ Turn(c)
          /\ call'[c].at = "idle" /\ At(c, "retiring")
        BY <1>1, <1>7, RetireStep
    <2>2. Of(c, SaveAwaits)
        BY <2>1 DEF SaveAwaits, Of
    <2>3. profile'.status \notin Decided
        BY <2>1 DEF AloneParts, OneAtATime, Decided
    <2> QED
        BY <2>1, <2>2, <2>3, OwnerInv
<1> QED
    BY <1>2, <1>3, <1>4, <1>5, <1>6, <1>7

\* The frame of a save names no reviewer.
LEMMA SaversAreNotReviewers ==
    ASSUME TypeInv, NEW c \in Calls, Of(c, SaveAwaits)
    PROVE  "reviewer" \notin DOMAIN call[c]
<1>1. call[c] \in LoadFrames(profile.kind) \/ call[c] \in SavingFrames(profile.kind)
    BY FrameShapes DEF Of, At, SaveAwaits
<1> QED
    BY <1>1 DEF LoadFrames, SavingFrames

\* A winner's decision is one.
LEMMA WinnerFrame ==
    ASSUME TypeInv, NEW c \in Calls, Of(c, Winning)
    PROVE  call[c].result \in Decided
<1>1. Of(c, EarlyAwaits) \/ Of(c, LateAwaits)
    BY DEF Of, Winning, EarlyAwaits, LateAwaits
<1> QED
    BY <1>1, EarlyFrame, LateFrame

\* The stamps of the transitions are numbers.
LEMMA Stamps ==
    ASSUME TypeInv
    PROVE  /\ \A d \in decisions : d.stamp \in Nat
           /\ \A a \in audits : a.stamp \in Nat
           /\ profile.stamp \in Nat
<1>1. 0..MaxStamp \subseteq Nat
    BY VerificationAssumption
<1>2. \A d \in Transitions : d.stamp \in 0..MaxStamp
    BY DEF Transitions
<1> QED
    BY <1>1, <1>2, OtherTables, Rows

\* The request of a reviewer who has not decided and does not win.
LEMMA WaitingAlone ==
    ASSUME TypeInv, AloneParts, NEW c \in Calls, Turn(c), \A d \in Calls : ~Of(d, SaveAwaits),
           UNCHANGED <<profile, files, audits, decisions>>, ~Of(c, Winning),
           call'[c].at \in {"idle", "finding", "deciding"},
           call'[c].at = "deciding" => call'[c].docs = DocsOf(profile)
    PROVE  AloneParts'
<1>1. /\ call'[c].at \notin Winning /\ call'[c].at \notin SaveAwaits
      /\ call'[c].at \in Reading => call'[c].at = "deciding"
    BY DEF Winning, Reading, SaveAwaits, Saving
<1>2. OneAtATime'
    BY <1>1, ReviewerStep DEF AloneParts
<1>3. AuditsInv' /\ FilesInv'
    BY <1>1, WinnerRest DEF AloneParts
<1> QED
    BY <1>2, <1>3 DEF AloneParts

\* A decision makes its reviewer the winner.
LEMMA DecisionAlone ==
    ASSUME TypeInv, AloneParts, NEW c \in Calls, Decide(c), Decides(c),
           call'[c].at = "rereading", call'[c].docs = call[c].docs,
           call'[c].result = call[c].result, call'[c].reviewer = call[c].reviewer
    PROVE  AloneParts'
<1>1. At(c, "deciding") /\ Turn(c) /\ UNCHANGED <<files, audits>>
    BY DecideStep
<1>2. /\ ~At(c, "idle") /\ Of(c, Reading) /\ ~Of(c, SaveAwaits)
    BY <1>1 DEF At, Of, Reading, SaveAwaits, Saving
<1>3. \A d \in Calls : ~Of(d, SaveAwaits)
    BY <1>2, NobodyLoads DEF AloneParts
<1>4. NobodyWins
    <2>1. SUFFICES ASSUME NEW d \in Calls, Of(d, Winning)
                   PROVE  FALSE
        BY DEF NobodyWins
    <2>2. profile.status \in Decided
        BY <2>1, WinnerFrame DEF AloneParts, AuditsInv, WinnerDecided
    <2> QED
        BY <2>2 DEF Decides, Decided
<1>5. DocsOf(profile') = DocsOf(profile)
    BY DEF Decides, DocsOf
<1>6. call'[c].docs = DocsOf(profile)
    BY <1>2 DEF AloneParts, OneAtATime
<1>7. call'[c].at \notin SaveAwaits /\ call'[c].at \in Winning
    BY DEF SaveAwaits, Saving, Winning
<1>8. OneAtATime'
    BY <1>1, <1>3, <1>4, <1>5, <1>6, <1>7, ReviewerStep DEF AloneParts
<1>9. OthersLose(c)
    BY <1>1, <1>4, OnlyWinner DEF AloneParts
<1>10. PICK row : row = [status |-> call[c].result, by |-> call[c].reviewer,
                         stamp |-> profile.stamp + 1]
    OBVIOUS
<1>11. decisions' = decisions \cup {row} /\ row.stamp = profile.stamp + 1
    BY <1>10 DEF Decides
<1>12. \A d \in decisions : d.stamp <= profile.stamp
    BY DEF AloneParts, AuditsInv
<1>13. \A d \in decisions' : d.stamp <= profile'.stamp
    BY <1>11, <1>12, Stamps DEF Decides
<1>14. audits = decisions
    BY <1>4 DEF AloneParts, AuditsInv
<1>15. DecisionRow' = row
    BY <1>10 DEF DecisionRow, Decides
<1>16. \A a \in audits' : a.stamp < profile'.stamp
    BY <1>1, <1>12, <1>14, Stamps DEF Decides
<1>17. WinnerDecided(c)'
    BY <1>1, <1>11, <1>14, <1>15, <1>16 DEF WinnerDecided, Decides, At
<1>18. AuditsInv'
    BY <1>7, <1>9, <1>13, <1>17, AuditsFrom
<1>19. FilesInv'
    BY <1>7, <1>9, FilesFrom
<1> QED
    BY <1>8, <1>18, <1>19 DEF AloneParts

\* A winner goes on reviewing: its decision stays the profile's.
LEMMA WinnerGoesOn ==
    ASSUME TypeInv, AloneParts, NEW c \in Calls, Turn(c), Of(c, Winning), call'[c].at \in Winning,
           SameReview(c) \/ (call'[c].docs = call[c].docs /\ call'[c].result = call[c].result
                             /\ call'[c].reviewer = call[c].reviewer
                             /\ call'[c].stamp = profile.stamp),
           ~At(c, "rereading") \/ call'[c].stamp = profile.stamp,
           UNCHANGED <<profile, decisions>>,
           \/ UNCHANGED audits /\ ~At(c, "auditing")
           \/ audits' \in {audits, audits \cup {AuditRow(c)}} /\ At(c, "auditing")
              /\ call'[c].at = "auditing",
           call'[c].at \in {"reviewing", "auditing"} => Reviewed(c)'
    PROVE  AloneParts'
<1>1. /\ ~At(c, "idle") /\ ~Of(c, SaveAwaits) /\ Of(c, Reading)
      /\ call'[c].at \notin SaveAwaits
    BY DEF At, Of, Winning, Reading, SaveAwaits, Saving
<1>2. \A d \in Calls : ~Of(d, SaveAwaits)
    BY <1>1, NobodyLoads DEF AloneParts
<1>3. call'[c].docs = DocsOf(profile)
    BY <1>1 DEF AloneParts, OneAtATime, SameReview
<1>4. OneAtATime'
    BY <1>1, <1>2, <1>3, ReviewerStep DEF AloneParts
<1>5. OthersLose(c)
    BY OnlyWinner DEF AloneParts
<1>6. WinnerDecided(c)
    BY DEF AloneParts, AuditsInv
<1>7. /\ call'[c].result = call[c].result /\ call'[c].reviewer = call[c].reviewer
      /\ call'[c].stamp = profile.stamp
    BY <1>6 DEF SameReview, WinnerDecided
<1>8. At(c, "auditing") => AuditRow(c) = DecisionRow
    BY <1>6 DEF WinnerDecided, AuditRow, DecisionRow, At
<1>9. decisions' = audits' \cup {DecisionRow'}
    <2>1. decisions = audits \cup {DecisionRow} /\ DecisionRow' = DecisionRow
        BY <1>6 DEF WinnerDecided, DecisionRow
    <2> QED
        BY <1>8, <2>1
<1>10. call'[c].at = "auditing" \/ \A a \in audits' : a.stamp < profile'.stamp
    BY <1>6 DEF WinnerDecided
<1>11. WinnerDecided(c)'
    BY <1>6, <1>7, <1>9, <1>10 DEF WinnerDecided, At
<1>12. \A d \in decisions' : d.stamp <= profile'.stamp
    BY DEF AloneParts, AuditsInv
<1>13. AuditsInv'
    BY <1>5, <1>11, <1>12, AuditsFrom
<1>14. FilesInv'
    BY <1>5, FilesFrom
<1> QED
    BY <1>4, <1>13, <1>14 DEF AloneParts

\* A winner is over: what it decided is audited, or taken back.
LEMMA WinnerEnds ==
    ASSUME TypeInv, AloneParts, NEW c \in Calls, Turn(c), Of(c, Winning), call'[c] = Idle,
           DocsOf(profile') = DocsOf(profile),
           audits' = decisions', \A d \in decisions' : d.stamp <= profile'.stamp,
           profile'.status \in Decided =>
             \A f \in DocsOf(profile) : files'[f].status = StatusOf(profile'.status)
    PROVE  AloneParts'
<1>1. ~At(c, "idle") /\ ~Of(c, SaveAwaits)
    BY DEF At, Of, Winning, SaveAwaits, Saving
<1>2. \A d \in Calls : ~Of(d, SaveAwaits)
    BY <1>1, NobodyLoads DEF AloneParts
<1>3. /\ call'[c].at \notin SaveAwaits /\ call'[c].at \notin Winning
      /\ call'[c].at \notin Reading /\ call'[c].at \notin {"reviewing", "auditing"}
    BY DEF Idle, SaveAwaits, Saving, Winning, Reading
<1>4. OneAtATime'
    BY <1>2, <1>3, ReviewerStep DEF AloneParts
<1>5. OthersLose(c)
    BY OnlyWinner DEF AloneParts
<1>6. AuditsInv'
    BY <1>3, <1>5, AuditsFrom
<1>7. FilesInv'
    BY <1>3, <1>5, FilesFrom
<1> QED
    BY <1>4, <1>6, <1>7 DEF AloneParts

\* The loop of a review keeps what it has done.
LEMMA ReviewAlone ==
    ASSUME TypeInv, AloneParts, NEW c \in Calls, Review(c)
    PROVE  AloneParts'
<1>1. /\ Turn(c) /\ At(c, "reviewing") /\ Of(c, LateAwaits) /\ SameReview(c)
      /\ UNCHANGED <<profile, audits, decisions>>
    BY ReviewStep
<1>2. Of(c, Winning) /\ ~At(c, "rereading") /\ ~At(c, "auditing")
    BY <1>1 DEF At, Of, Winning
<1>3. \A f \in call[c].docs \ call[c].left : files[f].status = Verdict(c)
    BY <1>1 DEF AloneParts, FilesInv, Reviewed, Of, At
<1>4. call[c].docs \subseteq Files
    BY <1>1, LateFrame
<1>5. Verdict(c)' = Verdict(c)
    BY <1>1 DEF SameReview, Verdict
<1>6. /\ call'[c].at \in {"reviewing", "auditing", "restoring"}
      /\ call'[c].at \in {"reviewing", "auditing"} => Reviewed(c)'
    <2>1. CASE /\ call'[c].at = "auditing" /\ call[c].left = {} /\ call'[c].left = {}
               /\ UNCHANGED files
        BY <1>1, <1>3, <1>5, <2>1 DEF Reviewed, At, SameReview
    <2>2. ASSUME NEW f \in call[c].left, f \in Files, ChangesFile(c, f)
          PROVE  call'[c].at = "reviewing" /\ Reviewed(c)'
        <3>1. /\ call'[c].at = "reviewing" /\ call'[c].left = call[c].left \ {f}
              /\ files'[f].status = Verdict(c) /\ \A g \in Files \ {f} : files'[g] = files[g]
            BY <2>2 DEF ChangesFile
        <3>2. ASSUME NEW g \in call'[c].docs \ call'[c].left
              PROVE  files'[g].status = Verdict(c)
            BY <1>1, <1>3, <1>4, <3>1, <3>2 DEF SameReview
        <3> QED
            BY <1>5, <3>1, <3>2 DEF Reviewed, At
    <2>3. ASSUME NEW f \in call[c].left, f \in Files, FindsDecided(c, f)
          PROVE  call'[c].at = "reviewing" /\ Reviewed(c)'
        <3>1. /\ call'[c].at = "reviewing" /\ call'[c].left = call[c].left \ {f}
              /\ files[f].status = Verdict(c) /\ files' = files
            BY <2>3 DEF FindsDecided
        <3>2. ASSUME NEW g \in call'[c].docs \ call'[c].left
              PROVE  files'[g].status = Verdict(c)
            BY <1>1, <1>3, <3>1, <3>2 DEF SameReview
        <3> QED
            BY <1>5, <3>1, <3>2 DEF Reviewed, At
    <2>4. CASE call'[c].at = "restoring"
        BY <2>4
    <2> QED
        BY <2>1, <2>2, <2>3, <2>4, ReviewStep
<1>7. call'[c].at \in Winning
    BY <1>6 DEF Winning
<1> QED
    BY <1>1, <1>2, <1>6, <1>7, WinnerGoesOn

\* An audit that was stored, in whatever attempt, is the row of the decision.
LEMMA AuditAlone ==
    ASSUME TypeInv, AloneParts, NEW c \in Calls, Audit(c), ~disturbed'
    PROVE  AloneParts'
<1>1. /\ Turn(c) /\ At(c, "auditing") /\ Of(c, LateAwaits) /\ UNCHANGED <<profile, files, decisions>>
    BY AuditStep
<1>2. Of(c, Winning) /\ ~At(c, "rereading")
    BY <1>1 DEF At, Of, Winning
<1>3. Reviewed(c) /\ WinnerDecided(c)
    BY <1>1, <1>2 DEF AloneParts, FilesInv, AuditsInv, Of, At
<1>4. CASE audits' = audits \cup {AuditRow(c)} /\ call'[c] = Idle
    <2>1. AuditRow(c) = DecisionRow
        BY <1>2, <1>3 DEF WinnerDecided, AuditRow, DecisionRow
    <2>2. audits' = decisions'
        BY <1>1, <1>3, <1>4, <2>1 DEF WinnerDecided
    <2>3. \A d \in decisions' : d.stamp <= profile'.stamp
        BY <1>1 DEF AloneParts, AuditsInv
    <2>4. call[c].docs = DocsOf(profile)
        BY <1>2 DEF AloneParts, OneAtATime, Of, Winning, Reading
    <2>5. \A f \in DocsOf(profile) : files'[f].status = StatusOf(profile'.status)
        BY <1>1, <1>3, <2>4 DEF Reviewed, Verdict, StatusOf, WinnerDecided
    <2> QED
        BY <1>1, <1>2, <1>4, <2>2, <2>3, <2>5, WinnerEnds
<1>5. CASE /\ audits' \in {audits, audits \cup {AuditRow(c)}}
           /\ call'[c].at = "auditing" /\ call'[c].left = call[c].left /\ SameReview(c)
    <2>1. Reviewed(c)'
        BY <1>1, <1>3, <1>5 DEF Reviewed, Verdict, SameReview, At
    <2>2. call'[c].at \in Winning
        BY <1>5 DEF Winning
    <2> QED
        BY <1>1, <1>2, <1>5, <2>1, <2>2, WinnerGoesOn
<1> QED
    BY <1>4, <1>5, AuditStep

\* A decision that is taken back leaves the audited ones.
LEMMA ReopenAlone ==
    ASSUME TypeInv, AloneParts, NEW c \in Calls, Reopen(c), ~disturbed'
    PROVE  AloneParts'
<1>1. /\ Turn(c) /\ At(c, "reopening") /\ call'[c] = Idle /\ UNCHANGED <<files, audits>>
      /\ TakesBack(c)
    BY ReopenStep
<1>2. Of(c, Winning) /\ ~At(c, "auditing")
    BY <1>1 DEF At, Of, Winning
<1>3. WinnerDecided(c)
    BY <1>2 DEF AloneParts, AuditsInv
<1>4. /\ decisions = audits \cup {DecisionRow} /\ DecisionRow.stamp = profile.stamp
      /\ \A a \in audits : a.stamp < profile.stamp
    BY <1>2, <1>3 DEF WinnerDecided, DecisionRow
<1>5. decisions' = {d \in decisions : d.stamp # profile.stamp}
    BY <1>1 DEF TakesBack
<1>6. \A a \in audits : a.stamp # profile.stamp
    BY <1>4, Stamps
<1>7. decisions' = audits
    BY <1>4, <1>5, <1>6
<1>8. \A d \in decisions' : d.stamp <= profile'.stamp
    BY <1>1, <1>4, <1>7, Stamps DEF TakesBack
<1>9. DocsOf(profile') = DocsOf(profile) /\ profile'.status \notin Decided
    BY <1>1 DEF TakesBack, DocsOf, Decided
<1> QED
    BY <1>1, <1>2, <1>7, <1>8, <1>9, WinnerEnds

\* The requests of reviewers.
LEMMA ReviewersAlone ==
    ASSUME TypeInv, Alone, AloneParts, ~disturbed', NEW c \in Calls,
           \/ Verify(c) \/ Find(c) \/ Decide(c) \/ Reread(c) \/ Review(c)
           \/ ReviewUnanswered(c) \/ RestoreFiles(c) \/ Reopen(c) \/ Audit(c)
    PROVE  AloneParts'
<1>1. ASSUME ~At(c, "idle"), ~Of(c, SaveAwaits)
      PROVE  \A d \in Calls : ~Of(d, SaveAwaits)
    BY <1>1, NobodyLoads DEF AloneParts
<1>2. CASE Verify(c)
    <2>1. \A d \in Calls : ~Of(d, SaveAwaits)
        BY <1>2, SaversAreNotReviewers, AwaitsApart DEF Verify, Alone
    <2>2. /\ Turn(c) /\ At(c, "idle") /\ call'[c].at = "finding"
          /\ UNCHANGED <<profile, files, audits, decisions>>
        BY <1>2, VerifyStep
    <2>3. ~Of(c, Winning)
        BY <2>2, AwaitsApart
    <2> QED
        BY <2>1, <2>2, <2>3, WaitingAlone
<1>3. CASE Find(c)
    <2>1. /\ Turn(c) /\ At(c, "finding") /\ call'[c].at = "deciding"
          /\ call'[c].docs = DocsOf(profile)
          /\ UNCHANGED <<profile, files, audits, decisions>>
        BY <1>3, FindStep
    <2>2. ~At(c, "idle") /\ ~Of(c, SaveAwaits) /\ ~Of(c, Winning)
        BY <2>1 DEF At, Of, SaveAwaits, Saving, Winning
    <2> QED
        BY <1>1, <2>1, <2>2, WaitingAlone
<1>4. CASE Decide(c)
    <2>1. /\ Turn(c) /\ At(c, "deciding") /\ UNCHANGED <<files, audits>>
          /\ \/ /\ Decides(c) /\ call'[c].at = "rereading" /\ call'[c].docs = call[c].docs
                /\ call'[c].result = call[c].result /\ call'[c].reviewer = call[c].reviewer
             \/ call'[c] = Idle /\ UNCHANGED <<profile, decisions>>
        BY <1>4, DecideStep
    <2>2. ~At(c, "idle") /\ ~Of(c, SaveAwaits) /\ ~Of(c, Winning)
        BY <2>1 DEF At, Of, SaveAwaits, Saving, Winning
    <2>3. CASE call'[c] = Idle /\ UNCHANGED <<profile, decisions>>
        <3>1. call'[c].at = "idle"
            BY <2>3 DEF Idle
        <3> QED
            BY <1>1, <2>1, <2>2, <2>3, <3>1, WaitingAlone
    <2> QED
        BY <1>4, <2>1, <2>3, DecisionAlone
<1>5. CASE Reread(c)
    <2>1. /\ Turn(c) /\ At(c, "rereading") /\ call'[c].at = "reviewing"
          /\ call'[c].docs = call[c].docs /\ call'[c].left = call[c].left
          /\ call'[c].stamp = profile.stamp
          /\ call'[c].result = call[c].result /\ call'[c].reviewer = call[c].reviewer
          /\ UNCHANGED <<profile, files, audits, decisions>>
        BY <1>5, RereadStep
    <2>2. Of(c, Winning) /\ ~At(c, "auditing") /\ Of(c, EarlyAwaits)
        BY <2>1 DEF At, Of, Winning, EarlyAwaits
    <2>3. call[c].left = call[c].docs
        BY <2>2, EarlyFrame
    <2>4. Reviewed(c)'
        BY <2>1, <2>3 DEF Reviewed, At
    <2>5. call'[c].at \in Winning
        BY <2>1 DEF Winning
    <2> QED
        BY <2>1, <2>2, <2>4, <2>5, WinnerGoesOn
<1>6. CASE RestoreFiles(c)
    <2>1. /\ Turn(c) /\ At(c, "restoring") /\ call'[c].at = "reopening" /\ SameReview(c)
          /\ UNCHANGED <<profile, audits, decisions>>
        BY <1>6, RestoreStep
    <2>2. /\ Of(c, Winning) /\ ~At(c, "auditing") /\ ~At(c, "rereading")
          /\ call'[c].at \in Winning /\ call'[c].at \notin {"reviewing", "auditing"}
        BY <2>1 DEF At, Of, Winning
    <2> QED
        BY <2>1, <2>2, WinnerGoesOn
<1>7. CASE ReviewUnanswered(c)
    <2>1. /\ Turn(c) /\ At(c, "reviewing") /\ call'[c].at = "restoring" /\ SameReview(c)
          /\ UNCHANGED <<profile, audits, decisions>>
        BY <1>7, ReviewUnansweredStep
    <2>2. /\ Of(c, Winning) /\ ~At(c, "auditing") /\ ~At(c, "rereading")
          /\ call'[c].at \in Winning /\ call'[c].at \notin {"reviewing", "auditing"}
        BY <2>1 DEF At, Of, Winning
    <2> QED
        BY <2>1, <2>2, WinnerGoesOn
<1> QED
    BY <1>2, <1>3, <1>4, <1>5, <1>6, <1>7, ReviewAlone, ReopenAlone, AuditAlone

\* What was disturbed stays so, and requests of a kind overlap or not for good.
LEMMA AloneBefore ==
    ASSUME TypeInv, [VerificationNext /\ UNCHANGED mix]_verificationVars, Alone'
    PROVE  Alone
<1>1. profile'.kind = profile.kind
    BY TypeStep
<1>2. ASSUME NEW c \in Calls,
             \/ Submit(c) \/ Load(c) \/ Attach(c)
             \/ Verify(c) \/ Find(c) \/ Decide(c) \/ Reread(c) \/ Review(c)
             \/ ReviewUnanswered(c)
      PROVE  disturbed' = disturbed
    BY <1>2 DEF Submit, Load, Attach, Verify, Find, Decide, Reread, Review, ReviewUnanswered
<1>3. ASSUME NEW c \in Calls,
             \/ Save(c) \/ Detach(c) \/ Retire(c)
             \/ RestoreFiles(c) \/ Reopen(c) \/ Audit(c) \/ Crash(c)
             \/ AttachUnanswered(c) \/ DecisionUnanswered(c)
      PROVE  disturbed => disturbed'
    BY <1>3, AttachUnansweredStep, DecisionUnansweredStep, SaveStep, DetachStep, RetireStep, RestoreStep, ReopenStep, AuditStep, CrashStep
<1>4. ASSUME NEW f \in UNION {Offered[s] : s \in Columns[profile.kind]},
             ReviewFileAlone(f) \/ DeleteFile(f)
      PROVE  disturbed'
    BY <1>4, FileStep
<1>5. UNCHANGED verificationVars => disturbed' = disturbed
    BY DEF verificationVars
<1>6. disturbed => disturbed'
    BY <1>2, <1>3, <1>4, <1>5 DEF VerificationNext
<1> QED
    BY <1>1, <1>6 DEF Alone, Overlap

\* Every step keeps the agreement of profile, files and audit log.
LEMMA AloneStep ==
    ASSUME TypeInv, AloneInv, [VerificationNext /\ UNCHANGED mix]_verificationVars
    PROVE  AloneInv'
<1>1. SUFFICES ASSUME Alone' PROVE AloneParts'
    BY DEF AloneInv, AloneParts
<1>2. Alone /\ AloneParts /\ ~disturbed'
    BY <1>1, AloneBefore DEF AloneInv, AloneParts, Alone
<1>3. ASSUME NEW c \in Calls,
             \/ Submit(c) \/ Load(c) \/ Attach(c) \/ AttachUnanswered(c) \/ Save(c)
             \/ Detach(c) \/ Retire(c)
             \/ Verify(c) \/ Find(c) \/ Decide(c) \/ Reread(c) \/ DecisionUnanswered(c)
             \/ Review(c) \/ ReviewUnanswered(c)
             \/ RestoreFiles(c) \/ Reopen(c) \/ Audit(c) \/ Crash(c)
      PROVE  AloneParts'
    BY <1>2, <1>3, OwnersAlone, ReviewersAlone, CrashStep, AttachUnansweredStep,
       DecisionUnansweredStep
<1>4. ASSUME NEW f \in UNION {Offered[s] : s \in Columns[profile.kind]},
             ReviewFileAlone(f) \/ DeleteFile(f)
      PROVE  AloneParts'
    BY <1>2, <1>4, FileStep
<1>5. CASE UNCHANGED verificationVars
    BY <1>2, <1>5 DEF verificationVars, AloneParts, OneAtATime, AuditsInv, FilesInv, NobodyWins,
       WinnerDecided, Reviewed, Of, At, DecisionRow, Verdict
<1> QED
    BY <1>3, <1>4, <1>5 DEF VerificationNext

\* The agreement of profile, files and audit log in every behaviour.
THEOREM AgreementInvariant == VerificationSpec => [](TypeInv /\ AloneInv)
<1>1. VerificationInit => TypeInv /\ AloneInv
    <2>1. SUFFICES ASSUME VerificationInit PROVE AloneInv
        BY TypeInit
    <2>2. \A c \in Calls : call[c].at = "idle"
        BY <2>1 DEF VerificationInit, HandlersInit, Idle
    <2>3. profile.status = "none"
        BY <2>1 DEF VerificationInit, NoProfile
    <2>4. OneAtATime
        BY <2>2 DEF OneAtATime, Of, At, SaveAwaits, Saving, Winning, Reading
    <2>5. AuditsInv
        BY <2>1, <2>2 DEF AuditsInv, Of, Winning, VerificationInit
    <2>6. FilesInv
        BY <2>2, <2>3 DEF FilesInv, Of, Decided
    <2> QED
        BY <2>4, <2>5, <2>6 DEF AloneInv
<1>2. /\ TypeInv /\ AloneInv
      /\ [VerificationNext /\ UNCHANGED mix]_verificationVars
      => TypeInv' /\ AloneInv'
    BY TypeStep, AloneStep
<1> QED
    BY <1>1, <1>2, PTL DEF VerificationSpec

\* Nobody has won when no request is being served.
LEMMA QuietNobody ==
    ASSUME Settled
    PROVE  Alone /\ NobodyWins
BY DEF Settled, Alone, Quiet, NobodyWins, At, Of, Winning

\* ADR 0006: profile and files are decided one by one, and when all requests
\* are over an approved profile shows approved documents only and a rejected
\* one rejected documents only, wherever a step of a review failed.
THEOREM ProfilesMatchFiles == VerificationSpec => []FilesFollowTheDecision
<1>1. TypeInv /\ AloneInv => FilesFollowTheDecision
    BY QuietNobody DEF AloneInv, FilesInv, FilesFollowTheDecision, Decided, StatusOf
<1> QED
    BY <1>1, AgreementInvariant, PTL

\* However often an upsert of the audit log was tried, and whether or not it was
\* stored without saying so, the transitions that stand are audited, each once,
\* and none of those that were undone.
THEOREM TransitionsAreAudited == VerificationSpec => []AuditedOnce
<1>1. TypeInv /\ AloneInv => AuditedOnce
    BY QuietNobody DEF AloneInv, AuditsInv, AuditedOnce
<1> QED
    BY <1>1, AgreementInvariant, PTL

-----------------------------------------------------------------------------
(* The files attached to the profile *)

\* A file named for one column is named for no other.
LEMMA ColumnsApart ==
    ASSUME TypeInv, OfferedApart,
           NEW one \in Documents(profile.kind), NEW two \in Documents(profile.kind),
           NEW s \in Columns[profile.kind], NEW t \in Columns[profile.kind], s # t,
           one[s] = two[t]
    PROVE  one[s] = NULL
<1>1. one[s] \in Offered[s] \cup {NULL} /\ two[t] \in Offered[t] \cup {NULL}
    BY DEF Documents
<1>2. profile.kind \in Kinds
    BY Rows
<1>3. Offered[s] \cap Offered[t] = {}
    BY <1>2 DEF OfferedApart
<1> QED
    BY <1>1, <1>3

\* What a save has attached itself were not documents of the profile.
LEMMA AttachedAreNew ==
    ASSUME TypeInv, OfferedApart, NEW c \in Calls, Of(c, Saving),
           call[c].row.docs = profile.docs, call[c].attached \subseteq Changes(call[c])
    PROVE  Detachable(c) \cap DocsOf(profile) = {} /\ NULL \notin Detachable(c)
<1>1. /\ call[c].docs \in Documents(profile.kind) /\ profile.docs \in Documents(profile.kind)
      /\ DOMAIN profile.docs = Columns[profile.kind] /\ DOMAIN call[c].docs = Columns[profile.kind]
    BY SavingFrame, Rows DEF Documents
<1>2. ASSUME NEW s \in call[c].attached
      PROVE  /\ s \in Columns[profile.kind] /\ call[c].docs[s] # NULL
             /\ call[c].docs[s] # profile.docs[s]
    BY <1>1 DEF Changes
<1>3. ASSUME NEW s \in call[c].attached, NEW t \in Columns[profile.kind]
      PROVE  call[c].docs[s] # profile.docs[t]
    BY <1>1, <1>2, ColumnsApart
<1> QED
    BY <1>1, <1>2, <1>3 DEF Detachable, DocsOf

\* The documents after a save, and those it replaces.
LEMMA SavedDocuments ==
    ASSUME TypeInv, OfferedApart, NEW c \in Calls, Of(c, Saving),
           call[c].row.docs = profile.docs, call[c].attached = Changes(call[c])
    PROVE  LET saved == Resubmitted(call[c]) IN
           /\ DocsOf(profile) \cup Detachable(c) = DocsOf(saved) \cup Replaced(c)
           /\ Replaced(c) \cap DocsOf(saved) = {}
<1>1. PICK saved : saved = Resubmitted(call[c])
    OBVIOUS
<1>2. /\ saved.docs \in Documents(profile.kind)
      /\ \A s \in Columns[profile.kind] :
           saved.docs[s] = IF call[c].docs[s] = NULL THEN profile.docs[s] ELSE call[c].docs[s]
    BY <1>1, ResubmittedRow
<1>3. /\ call[c].docs \in Documents(profile.kind) /\ profile.docs \in Documents(profile.kind)
      /\ DOMAIN profile.docs = Columns[profile.kind] /\ DOMAIN call[c].docs = Columns[profile.kind]
      /\ DOMAIN saved.docs = Columns[profile.kind]
    BY <1>2, SavingFrame, Rows DEF Documents
<1>4. PICK changed : changed = Changes(call[c])
    OBVIOUS
<1>5. \A s \in Columns[profile.kind] :
        s \in changed <=> call[c].docs[s] # NULL /\ call[c].docs[s] # profile.docs[s]
    BY <1>3, <1>4 DEF Changes
<1>6. changed \subseteq Columns[profile.kind]
    BY <1>3, <1>4 DEF Changes
<1>7. \A s \in Columns[profile.kind] :
        saved.docs[s] = IF s \in changed THEN call[c].docs[s] ELSE profile.docs[s]
    BY <1>2, <1>5
<1>8. /\ DocsOf(profile) = {profile.docs[s] : s \in Columns[profile.kind]} \ {NULL}
      /\ DocsOf(saved) = {saved.docs[s] : s \in Columns[profile.kind]} \ {NULL}
      /\ Detachable(c) = {call[c].docs[s] : s \in changed}
      /\ Replaced(c) = {profile.docs[s] : s \in changed} \ {NULL}
    BY <1>3, <1>4 DEF DocsOf, Detachable, Replaced
<1>9. DocsOf(profile) \cup Detachable(c) = DocsOf(saved) \cup Replaced(c)
    <2>1. ASSUME NEW f \in DocsOf(profile)
          PROVE  f \in DocsOf(saved) \cup Replaced(c)
        BY <1>7, <1>8, <2>1
    <2>2. ASSUME NEW f \in Detachable(c)
          PROVE  f \in DocsOf(saved)
        BY <1>5, <1>6, <1>7, <1>8, <2>2
    <2>3. ASSUME NEW f \in DocsOf(saved)
          PROVE  f \in DocsOf(profile) \cup Detachable(c)
        BY <1>7, <1>8, <2>3
    <2>4. Replaced(c) \subseteq DocsOf(profile)
        BY <1>6, <1>8
    <2> QED
        BY <2>1, <2>2, <2>3, <2>4
<1>10. ASSUME NEW s \in changed, NEW t \in Columns[profile.kind], profile.docs[s] = saved.docs[t]
       PROVE  profile.docs[s] = NULL
    <2>1. CASE s = t
        BY <1>5, <1>6, <1>7, <1>10, <2>1
    <2>2. CASE s # t
        BY <1>2, <1>3, <1>6, <1>10, <2>2, ColumnsApart
    <2> QED
        BY <2>1, <2>2
<1>11. Replaced(c) \cap DocsOf(saved) = {}
    BY <1>8, <1>10
<1> QED
    BY <1>1, <1>9, <1>11

\* What the attachments are after a step of the only request that may save.
LEMMA LinkFrom ==
    ASSUME NEW c \in Calls, OthersIdle(c),
           profile'.status = "none" => profile'.id = NULL /\ DocsOf(profile') = {},
           call'[c].at \in Saving => LinkedSoFar(c)',
           call'[c].at \notin Saving /\ profile'.status # "none" =>
             DocsOf(profile') = Linked(profile.id)'
    PROVE  LinkParts'
<1>1. \A d \in Calls : call'[d].at \in Saving => d = c
    BY DEF OthersIdle, Saving
<1>2. ASSUME NEW d \in Calls, call'[d].at \in Saving
      PROVE  LinkedSoFar(d)'
    BY <1>1, <1>2
<1>3. NobodySaves' => call'[c].at \notin Saving
    BY DEF NobodySaves, Of
<1> QED
    BY <1>2, <1>3 DEF LinkParts, Of

\* A step that neither saves nor attaches nor deletes.
LEMMA LinkRest ==
    ASSUME LinkParts, TypeInv, NEW c \in Calls, Turn(c), NobodySaves, call'[c].at \notin Saving,
           profile'.id = profile.id, DocsOf(profile') = DocsOf(profile),
           profile'.status = "none" <=> profile.status = "none",
           \A f \in Files : /\ files'[f].resource = files[f].resource
                            /\ files'[f].status \in Gone <=> files[f].status \in Gone
    PROVE  LinkParts'
<1>1. \A d \in Calls : call'[d].at \notin Saving
    BY TurnOthers DEF NobodySaves, Of
<1>2. Linked(profile.id)' = Linked(profile.id)
    BY DEF Linked
<1> QED
    BY <1>1, <1>2 DEF LinkParts, Of

\* While the owner is served the others are idle, and before its save has read
\* the profile nobody saves.
LEMMA OwnerAlone ==
    ASSUME TypeInv, OneAtATime, NEW c \in Calls, Turn(c), Of(c, SaveAwaits)
    PROVE  /\ OthersIdle(c)
           /\ At(c, "loading") => NobodySaves
<1>1. \A d \in Calls \ {c} : call'[d] = call[d] /\ call[d].at = "idle"
    BY TurnOthers DEF OneAtATime, At
<1> QED
    BY <1>1 DEF OthersIdle, NobodySaves, Of, At, Saving

\* A save that has read the profile attaches to its id, or to one nobody uses.
LEMMA LinkLoad ==
    ASSUME TypeInv, OneAtATime, LinkParts, NEW c \in Calls, Load(c)
    PROVE  LinkParts'
<1>1. At(c, "loading") /\ UNCHANGED <<profile, files>> /\ Turn(c)
    BY LoadStep DEF Load
<1>2. Of(c, SaveAwaits)
    BY <1>1 DEF At, Of, SaveAwaits
<1>3. OthersIdle(c) /\ NobodySaves
    BY <1>1, <1>2, OwnerAlone
<1>4. Linked(profile.id)' = Linked(profile.id)
    BY <1>1 DEF Linked
<1>5. profile.status # "none" => DocsOf(profile) = Linked(profile.id)
    BY <1>3 DEF LinkParts
<1>6. CASE call'[c] = Idle
    <2>1. call'[c].at \notin Saving
        BY <1>6 DEF Idle, Saving
    <2> QED
        BY <1>1, <1>3, <1>4, <1>5, <2>1, LinkFrom DEF LinkParts
<1>7. CASE /\ call'[c].at = "attaching" /\ call'[c].row.docs = profile.docs
           /\ profile.status = "none" => call'[c].row.id \in Unused
           /\ profile.status # "none" => call'[c].row.id = profile.id
           /\ call'[c].attached = {}
    <2>1. PICK id : id = call'[c].row.id
        OBVIOUS
    <2>2. Linked(id) = DocsOf(profile)
        <3>1. CASE profile.status = "none"
            <4>1. DocsOf(profile) = {} /\ id \in Unused
                BY <1>7, <2>1, <3>1 DEF LinkParts
            <4> QED
                BY <4>1 DEF Unused, Linked
        <3>2. CASE profile.status # "none"
            BY <1>5, <1>7, <2>1, <3>2
        <3> QED
            BY <3>1, <3>2
    <2>3. Linked(call[c].row.id)' = Linked(id)
        BY <1>1, <2>1 DEF Linked
    <2>4. Detachable(c)' = {}
        BY <1>7 DEF Detachable
    <2>5. LinkedSoFar(c)'
        BY <1>1, <1>7, <2>2, <2>3, <2>4 DEF LinkedSoFar, At
    <2>6. call'[c].at \in Saving
        BY <1>7 DEF Saving
    <2> QED
        BY <1>1, <1>3, <2>5, <2>6, LinkFrom DEF LinkParts
<1> QED
    BY <1>6, <1>7, LoadStep

\* The files attached so far are those of the profile and of this request.
LEMMA LinkAttach ==
    ASSUME TypeInv, OneAtATime, LinkParts, NEW c \in Calls, Attach(c)
    PROVE  LinkParts'
<1>1. /\ At(c, "attaching") /\ Of(c, Saving) /\ UNCHANGED profile /\ Turn(c) /\ SameSave(c)
    BY AttachStep
<1>2. Of(c, SaveAwaits)
    BY <1>1 DEF Of, SaveAwaits
<1>3. OthersIdle(c)
    BY <1>1, <1>2, OwnerAlone
<1>4. PICK id \in Ids : id = call[c].row.id
    BY <1>1, SavingFrame
<1>5. /\ call[c].row.docs = profile.docs
      /\ profile.status # "none" => id = profile.id
      /\ Linked(id) = DocsOf(profile) \cup Detachable(c)
      /\ call[c].attached \subseteq Changes(call[c])
    BY <1>1, <1>4 DEF LinkParts, LinkedSoFar, At
<1>6. call'[c].row.docs = profile.docs /\ call'[c].row.id = id
    BY <1>1, <1>4, <1>5 DEF SameSave
<1>7. Changes(call[c])' = Changes(call[c])
    BY <1>1 DEF SameSave, Changes
<1>8. CASE /\ call'[c].at \in {"saving", "detaching"} /\ call'[c].attached = call[c].attached
           /\ call'[c].at = "saving" => Changes(call[c]) \subseteq call[c].attached
           /\ UNCHANGED files
    <2>1. Linked(call[c].row.id)' = Linked(id)
        BY <1>6, <1>8 DEF Linked
    <2>2. Detachable(c)' = Detachable(c)
        BY <1>1, <1>8 DEF Detachable, SameSave
    <2>3. LinkedSoFar(c)'
        BY <1>1, <1>5, <1>6, <1>7, <1>8, <2>1, <2>2 DEF LinkedSoFar, At
    <2>4. call'[c].at \in Saving
        BY <1>8 DEF Saving
    <2> QED
        BY <1>1, <1>3, <2>3, <2>4, LinkFrom DEF LinkParts
<1>9. ASSUME NEW s \in Changes(call[c]), AttachesColumn(c, s)
      PROVE  LinkParts'
    <2>1. PICK f \in Files : f = call[c].docs[s]
        BY <1>1, ChangedColumn
    <2>2. /\ files' = [files EXCEPT ![f].resource = id] /\ files[f].status \notin Gone
          /\ call'[c].at = "attaching" /\ call'[c].attached = call[c].attached \cup {s}
        BY <1>4, <1>9, <2>1 DEF AttachesColumn, Attachable, Readable, Gone
    <2>3. /\ \A g \in Files : files'[g].status = files[g].status
          /\ files'[f].resource = id
          /\ \A g \in Files \ {f} : files'[g] = files[g]
        BY <2>2, FileAttached
    <2>4. Linked(call[c].row.id)' = Linked(id) \cup {f}
        BY <1>6, <2>2, <2>3 DEF Linked
    <2>5. Detachable(c)' = Detachable(c) \cup {f}
        BY <1>1, <2>1, <2>2 DEF Detachable, SameSave
    <2>6. call'[c].attached \subseteq Changes(call[c])
        BY <1>5, <1>9, <2>2
    <2>7. LinkedSoFar(c)'
        BY <1>1, <1>5, <1>6, <1>7, <2>2, <2>4, <2>5, <2>6 DEF LinkedSoFar, At
    <2>8. call'[c].at \in Saving
        BY <2>2 DEF Saving
    <2> QED
        BY <1>1, <1>3, <2>7, <2>8, LinkFrom DEF LinkParts
<1>10. \/ /\ call'[c].at \in {"saving", "detaching"} /\ call'[c].attached = call[c].attached
          /\ call'[c].at = "saving" => Changes(call[c]) \subseteq call[c].attached
          /\ UNCHANGED files
       \/ \E s \in Changes(call[c]) : AttachesColumn(c, s)
    BY AttachStep
<1> QED
    BY <1>8, <1>9, <1>10

\* The save makes what was attached the profile's and what it replaces left over.
LEMMA LinkSave ==
    ASSUME TypeInv, OfferedApart, OneAtATime, LinkParts, ~disturbed', NEW c \in Calls, Save(c)
    PROVE  LinkParts'
<1>1. /\ At(c, "saving") /\ Of(c, Saving) /\ UNCHANGED files /\ Turn(c) /\ SameSave(c)
      /\ call'[c].attached = call[c].attached
    BY SaveStep
<1>2. Of(c, SaveAwaits)
    BY <1>1 DEF Of, SaveAwaits
<1>3. OthersIdle(c)
    BY <1>1, <1>2, OwnerAlone
<1>4. PICK id \in Ids : id = call[c].row.id
    BY <1>1, SavingFrame
<1>5. /\ call[c].row.docs = profile.docs
      /\ profile.status # "none" => id = profile.id
      /\ Linked(id) = DocsOf(profile) \cup Detachable(c)
      /\ call[c].attached = Changes(call[c])
    BY <1>1, <1>4 DEF LinkParts, LinkedSoFar, At
<1>6. call'[c].row.docs = profile.docs /\ call'[c].row.id = id
    BY <1>1, <1>4, <1>5 DEF SameSave
<1>7. Linked(call[c].row.id)' = Linked(id)
    BY <1>1, <1>6 DEF Linked
<1>8. CASE Saves(c) /\ call'[c].at = "retiring"
    <2>1. PICK saved : saved = Resubmitted(call[c])
        OBVIOUS
    <2>2. profile' = saved /\ saved.id = id /\ saved.status = "pending"
        BY <1>1, <1>4, <1>8, <2>1, ResubmittedRow DEF Saves
    <2>3. /\ Linked(id) = DocsOf(saved) \cup Replaced(c)
          /\ Replaced(c) \cap DocsOf(saved) = {}
        BY <1>1, <1>5, <2>1, SavedDocuments
    <2>4. Replaced(c)' = Replaced(c)
        BY <1>1 DEF Replaced, Changes, SameSave
    <2>5. Linked(profile.id)' = Linked(id)
        BY <1>1, <2>2 DEF Linked
    <2>6. DocsOf(profile)' = DocsOf(saved)
        BY <2>2
    <2>7. LinkedSoFar(c)'
        BY <1>6, <1>8, <2>2, <2>3, <2>4, <2>5, <2>6 DEF LinkedSoFar, At
    <2>8. call'[c].at \in Saving
        BY <1>8 DEF Saving
    <2> QED
        BY <1>3, <2>2, <2>7, <2>8, LinkFrom
<1>9. CASE call'[c].at = "detaching" /\ UNCHANGED profile
    <2>1. Detachable(c)' = Detachable(c) /\ Changes(call[c])' = Changes(call[c])
        BY <1>1 DEF Detachable, Changes, SameSave
    <2>2. LinkedSoFar(c)'
        BY <1>1, <1>5, <1>6, <1>7, <1>9, <2>1 DEF LinkedSoFar, At
    <2>3. call'[c].at \in Saving
        BY <1>9 DEF Saving
    <2> QED
        BY <1>3, <1>9, <2>2, <2>3, LinkFrom DEF LinkParts
<1> QED
    BY <1>8, <1>9, SaveStep

\* A compensation that goes through leaves the documents of the profile.
LEMMA LinkDetach ==
    ASSUME TypeInv, OfferedApart, OneAtATime, LinkParts, ~disturbed', NEW c \in Calls, Detach(c)
    PROVE  LinkParts'
<1>1. /\ At(c, "detaching") /\ Of(c, Saving) /\ UNCHANGED profile /\ Turn(c) /\ call'[c] = Idle
      /\ \A f \in Files : files'[f].status = files[f].status
      /\ \A f \in Files :
           files'[f].resource = IF f \in Detachable(c) /\ files[f].resource = call[c].row.id
                                THEN NULL ELSE files[f].resource
    BY DetachStep
<1>2. Of(c, SaveAwaits)
    BY <1>1 DEF Of, SaveAwaits
<1>3. OthersIdle(c)
    BY <1>1, <1>2, OwnerAlone
<1>4. PICK id \in Ids : id = call[c].row.id
    BY <1>1, SavingFrame
<1>5. /\ call[c].row.docs = profile.docs
      /\ profile.status # "none" => id = profile.id
      /\ Linked(id) = DocsOf(profile) \cup Detachable(c)
      /\ call[c].attached \subseteq Changes(call[c])
    BY <1>1, <1>4 DEF LinkParts, LinkedSoFar, At
<1>6. Detachable(c) \cap DocsOf(profile) = {}
    BY <1>1, <1>5, AttachedAreNew
<1>7. ASSUME profile.status # "none"
      PROVE  DocsOf(profile) = Linked(profile.id)'
    <2>1. NULL # id
        BY VerificationAssumption
    <2>2. Linked(profile.id)' = {f \in Files : files'[f].resource = id /\ files'[f].status \notin Gone}
        BY <1>1, <1>5, <1>7 DEF Linked
    <2>3. \A f \in Files : files'[f].resource = id <=> files[f].resource = id /\ f \notin Detachable(c)
        BY <1>1, <1>4, <2>1
    <2>4. Linked(profile.id)' = Linked(id) \ Detachable(c)
        BY <1>1, <2>2, <2>3 DEF Linked
    <2> QED
        BY <1>5, <1>6, <2>4
<1>8. call'[c].at \notin Saving
    BY <1>1 DEF Idle, Saving
<1> QED
    BY <1>1, <1>3, <1>7, <1>8, LinkFrom DEF LinkParts

\* The replaced files retired, the documents of the profile are left.
LEMMA LinkRetire ==
    ASSUME TypeInv, OneAtATime, LinkParts, ~disturbed', NEW c \in Calls, Retire(c)
    PROVE  LinkParts'
<1>1. /\ At(c, "retiring") /\ Of(c, Saving) /\ UNCHANGED profile /\ Turn(c) /\ call'[c] = Idle
      /\ \A f \in Files : /\ files'[f].resource = files[f].resource
                          /\ \/ files'[f].status = files[f].status
                             \/ f \in Replaced(c) /\ files'[f].status \in Gone
      /\ \A f \in Files : f \in Replaced(c) => files'[f].status \in Gone
    BY RetireStep
<1>2. Of(c, SaveAwaits)
    BY <1>1 DEF Of, SaveAwaits
<1>3. OthersIdle(c)
    BY <1>1, <1>2, OwnerAlone
<1>4. /\ Linked(profile.id) = DocsOf(profile) \cup Replaced(c)
      /\ Replaced(c) \cap DocsOf(profile) = {}
    BY <1>1 DEF LinkParts, LinkedSoFar
<1>5. Linked(profile.id)' = Linked(profile.id) \ Replaced(c)
    BY <1>1 DEF Linked
<1>6. call'[c].at \notin Saving
    BY <1>1 DEF Idle, Saving
<1> QED
    BY <1>1, <1>3, <1>4, <1>5, <1>6, LinkFrom DEF LinkParts

\* Reviews change no attachment.
LEMMA LinkReviewers ==
    ASSUME TypeInv, Alone, OneAtATime, LinkParts, NEW c \in Calls,
           \/ Submit(c) \/ Verify(c) \/ Find(c) \/ Decide(c) \/ Reread(c) \/ Review(c)
           \/ ReviewUnanswered(c) \/ RestoreFiles(c) \/ Reopen(c) \/ Audit(c)
    PROVE  LinkParts'
<1>1. Idle.at \notin Saving
    BY DEF Idle, Saving
<1>2. ASSUME NobodySaves, Turn(c), call'[c].at \notin Saving, UNCHANGED <<profile, files>>
      PROVE  LinkParts'
    BY <1>2, LinkRest
<1>3. ASSUME ~At(c, "idle"), ~Of(c, SaveAwaits)
      PROVE  NobodySaves
    BY <1>3, NobodyLoads DEF NobodySaves, Of, SaveAwaits
<1>4. CASE Submit(c)
    <2>1. NobodySaves
        BY <1>4 DEF Submit, Alone, Quiet, NobodySaves, At, Of, Saving
    <2>2. Turn(c) /\ call'[c].at \notin Saving /\ UNCHANGED <<profile, files>>
        BY <1>4, SubmitStep DEF Submit, Saving
    <2> QED
        BY <1>2, <2>1, <2>2
<1>5. CASE Verify(c)
    <2>1. \A d \in Calls : ~Of(d, SaveAwaits)
        BY <1>5, SaversAreNotReviewers, AwaitsApart DEF Verify, Alone
    <2>2. NobodySaves
        BY <2>1 DEF NobodySaves, Of, SaveAwaits
    <2>3. Turn(c) /\ call'[c].at \notin Saving /\ UNCHANGED <<profile, files>>
        BY <1>5, VerifyStep DEF Saving
    <2> QED
        BY <1>2, <2>2, <2>3
<1>6. CASE Find(c)
    <2>1. /\ Turn(c) /\ call'[c].at \notin Saving /\ UNCHANGED <<profile, files>>
          /\ At(c, "finding")
        BY <1>6, FindStep DEF Saving
    <2>2. NobodySaves
        BY <1>3, <2>1 DEF At, Of, SaveAwaits, Saving
    <2> QED
        BY <1>2, <2>1, <2>2
<1>7. CASE Decide(c)
    <2>1. /\ Turn(c) /\ call'[c].at \notin Saving /\ UNCHANGED files /\ At(c, "deciding")
          /\ Decides(c) \/ UNCHANGED profile
        BY <1>1, <1>7, DecideStep DEF Saving
    <2>2. NobodySaves
        BY <1>3, <2>1 DEF At, Of, SaveAwaits, Saving
    <2>3. CASE Decides(c)
        <3>1. call[c].result \in Decided
            BY <2>1, EarlyFrame DEF At, Of, EarlyAwaits
        <3>2. /\ profile'.id = profile.id /\ DocsOf(profile') = DocsOf(profile)
              /\ profile'.status # "none" /\ profile.status # "none"
            BY <2>3, <3>1 DEF Decides, DocsOf, Decided
        <3> QED
            BY <2>1, <2>2, <3>2, LinkRest
    <2> QED
        BY <1>2, <2>1, <2>2, <2>3
<1>8. CASE Reread(c)
    <2>1. /\ Turn(c) /\ call'[c].at \notin Saving /\ UNCHANGED <<profile, files>>
          /\ At(c, "rereading")
        BY <1>8, RereadStep DEF Saving
    <2>2. NobodySaves
        BY <1>3, <2>1 DEF At, Of, SaveAwaits, Saving
    <2> QED
        BY <1>2, <2>1, <2>2
<1>9. CASE Review(c)
    <2>1. /\ Turn(c) /\ UNCHANGED profile /\ At(c, "reviewing")
        BY <1>9, ReviewStep
    <2>2. NobodySaves
        BY <1>3, <2>1 DEF At, Of, SaveAwaits, Saving
    <2>3. /\ call'[c].at \notin Saving
          /\ UNCHANGED files \/ \E f \in call[c].left : f \in Files /\ ChangesFile(c, f)
        BY <1>9, ReviewStep DEF ChangesFile, FindsDecided, Saving
    <2>4. ASSUME NEW f \in call[c].left, f \in Files, ChangesFile(c, f)
          PROVE  LinkParts'
        <3>1. \A g \in Files : /\ files'[g].resource = files[g].resource
                               /\ files'[g].status \in Gone <=> files[g].status \in Gone
            BY <2>4 DEF ChangesFile, Verdict, Gone
        <3> QED
            BY <2>1, <2>2, <2>3, <3>1, LinkRest
    <2> QED
        BY <1>2, <2>1, <2>2, <2>3, <2>4
<1>10. CASE RestoreFiles(c)
    <2>1. /\ Turn(c) /\ UNCHANGED profile /\ At(c, "restoring") /\ call'[c].at \notin Saving
        BY <1>10, RestoreStep DEF Saving
    <2>2. NobodySaves
        BY <1>3, <2>1 DEF At, Of, SaveAwaits, Saving
    <2>3. \A f \in Files : /\ files'[f].resource = files[f].resource
                           /\ files'[f].status \in Gone <=> files[f].status \in Gone
        BY <1>10, RestoreStep DEF Gone
    <2> QED
        BY <2>1, <2>2, <2>3, LinkRest
<1>11. CASE Reopen(c)
    <2>1. /\ Turn(c) /\ call'[c].at \notin Saving /\ UNCHANGED files /\ At(c, "reopening")
          /\ TakesBack(c) \/ UNCHANGED profile
        BY <1>1, <1>11, ReopenStep
    <2>2. NobodySaves
        BY <1>3, <2>1 DEF At, Of, SaveAwaits, Saving
    <2>3. CASE TakesBack(c)
        <3>1. call[c].result \in Decided
            BY <2>1, LateFrame DEF At, Of, LateAwaits
        <3>2. /\ profile'.id = profile.id /\ DocsOf(profile') = DocsOf(profile)
              /\ profile'.status # "none" /\ profile.status # "none"
            BY <2>3, <3>1 DEF TakesBack, DocsOf, Decided
        <3> QED
            BY <2>1, <2>2, <3>2, LinkRest
    <2> QED
        BY <1>2, <2>1, <2>2, <2>3
<1>12. CASE Audit(c)
    <2>1. /\ Turn(c) /\ UNCHANGED <<profile, files>> /\ At(c, "auditing")
          /\ call'[c].at \notin Saving
        BY <1>1, <1>12, AuditStep DEF Saving
    <2>2. NobodySaves
        BY <1>3, <2>1 DEF At, Of, SaveAwaits, Saving
    <2> QED
        BY <1>2, <2>1, <2>2
<1>13. CASE ReviewUnanswered(c)
    <2>1. /\ Turn(c) /\ UNCHANGED profile /\ At(c, "reviewing") /\ call'[c].at \notin Saving
        BY <1>13, ReviewUnansweredStep DEF Saving
    <2>2. NobodySaves
        BY <1>3, <2>1 DEF At, Of, SaveAwaits, Saving
    <2>3. \A f \in Files : /\ files'[f].resource = files[f].resource
                           /\ files'[f].status \in Gone <=> files[f].status \in Gone
        BY <1>13, ReviewUnansweredStep DEF Gone
    <2> QED
        BY <2>1, <2>2, <2>3, LinkRest
<1> QED
    BY <1>4, <1>5, <1>6, <1>7, <1>8, <1>9, <1>10, <1>11, <1>12, <1>13

\* Every step keeps the attachments.
LEMMA LinkStep ==
    ASSUME TypeInv, AloneInv, LinkInv, OfferedApart,
           [VerificationNext /\ UNCHANGED mix]_verificationVars
    PROVE  LinkInv'
<1>1. SUFFICES ASSUME Alone' PROVE LinkParts'
    BY DEF LinkInv
<1>2. Alone /\ OneAtATime /\ LinkParts /\ ~disturbed'
    BY <1>1, AloneBefore DEF AloneInv, LinkInv, Alone
<1>3. ASSUME NEW c \in Calls,
             \/ Submit(c) \/ Load(c) \/ Attach(c) \/ AttachUnanswered(c) \/ Save(c)
             \/ Detach(c) \/ Retire(c)
             \/ Verify(c) \/ Find(c) \/ Decide(c) \/ Reread(c) \/ DecisionUnanswered(c)
             \/ Review(c) \/ ReviewUnanswered(c)
             \/ RestoreFiles(c) \/ Reopen(c) \/ Audit(c) \/ Crash(c)
      PROVE  LinkParts'
    BY <1>2, <1>3, LinkLoad, LinkAttach, LinkSave, LinkDetach, LinkRetire, LinkReviewers,
       CrashStep, AttachUnansweredStep, DecisionUnansweredStep
<1>4. ASSUME NEW f \in UNION {Offered[s] : s \in Columns[profile.kind]},
             ReviewFileAlone(f) \/ DeleteFile(f)
      PROVE  LinkParts'
    BY <1>2, <1>4, FileStep
<1>5. CASE UNCHANGED verificationVars
    <2>1. call' = call /\ files' = files /\ profile' = profile
        BY <1>5 DEF verificationVars
    <2>2. NobodySaves' <=> NobodySaves
        BY <2>1 DEF NobodySaves, Of
    <2>3. Linked(profile.id)' = Linked(profile.id)
        BY <2>1 DEF Linked
    <2>4. ASSUME NEW c \in Calls, call'[c].at \in Saving
          PROVE  LinkedSoFar(c)'
        <3>1. LinkedSoFar(c)
            BY <1>2, <2>1, <2>4 DEF LinkParts, Of
        <3>2. /\ Linked(call[c].row.id)' = Linked(call[c].row.id)
              /\ Replaced(c)' = Replaced(c) /\ Detachable(c)' = Detachable(c)
              /\ Changes(call[c])' = Changes(call[c]) /\ DocsOf(profile)' = DocsOf(profile)
            BY <2>1 DEF Linked, Replaced, Detachable, Changes, DocsOf
        <3> QED
            BY <2>1, <2>3, <3>1, <3>2 DEF LinkedSoFar, At
    <2> QED
        BY <1>2, <2>1, <2>2, <2>3, <2>4 DEF LinkParts, Of
<1> QED
    BY <1>3, <1>4, <1>5 DEF VerificationNext

\* The attachments in every behaviour, when no file may be named for two columns.
THEOREM LinkInvariant ==
    ASSUME OfferedApart
    PROVE  VerificationSpec => [](TypeInv /\ AloneInv /\ LinkInv)
<1>1. VerificationInit => LinkInv
    <2>1. SUFFICES ASSUME VerificationInit PROVE LinkParts
        BY DEF LinkInv
    <2>2. \A c \in Calls : call[c].at = "idle"
        BY <2>1 DEF VerificationInit, HandlersInit, Idle
    <2>3. PICK kind \in Kinds : profile = NoProfile(kind)
        BY <2>1 DEF VerificationInit
    <2>4. /\ profile.status = "none" /\ profile.id = NULL
          /\ profile.docs = [s \in Columns[kind] |-> NULL]
        BY <2>3 DEF NoProfile
    <2>5. DocsOf(profile) = {}
        BY <2>4 DEF DocsOf
    <2> QED
        BY <2>2, <2>4, <2>5 DEF LinkParts, Of, Saving
<1>2. /\ TypeInv /\ AloneInv /\ LinkInv
      /\ [VerificationNext /\ UNCHANGED mix]_verificationVars
      => LinkInv'
    BY LinkStep
<1> QED
    BY <1>1, <1>2, AgreementInvariant, PTL DEF VerificationSpec

\* What Settled says of the attachments.
LEMMA SettledLinks ==
    ASSUME TypeInv, LinkInv, Settled
    PROVE  IF profile.status = "none" THEN DocsOf(profile) = {} /\ profile.id = NULL
           ELSE DocsOf(profile) = Linked(profile.id) /\ profile.id # NULL
<1>1. LinkParts
    BY QuietNobody DEF LinkInv
<1>2. NobodySaves
    BY DEF Settled, Quiet, NobodySaves, At, Of, Saving
<1>3. profile.status # "none" => profile.id # NULL
    BY VerificationAssumption DEF TypeInv
<1> QED
    BY <1>1, <1>2, <1>3 DEF LinkParts

\* When no file may be named for two columns, a save that goes through leaves
\* the documents of the profile attached and no others, and one that fails half
\* way leaves the attachments it found.
THEOREM AttachmentsMatch ==
    ASSUME OfferedApart
    PROVE  VerificationSpec => []AttachmentsAreLinked
<1>1. TypeInv /\ LinkInv => AttachmentsAreLinked
    BY SettledLinks DEF AttachmentsAreLinked, Linked, Gone
<1> QED
    BY <1>1, LinkInvariant, PTL

\* Under the same condition no document of the profile is retired with the files
\* it replaced; without it one may be.
THEOREM DocumentsKeptApart ==
    ASSUME OfferedApart
    PROVE  VerificationSpec => []DocumentsAreKept
<1>1. TypeInv /\ LinkInv => DocumentsAreKept
    BY SettledLinks DEF DocumentsAreKept, Linked, Gone
<1> QED
    BY <1>1, LinkInvariant, PTL
=============================================================================
