---------------------------- MODULE Community_proofs ----------------------------
(***************************************************************************)
(* Proofs about Community and the catalogue for every set of members, batches, *)
(* reviewers, campaigns and files, every number of requests at a time and      *)
(* every mix of operations.  Each part has an invariant of its own over its    *)
(* tables and the frames of its own requests; a step of one part leaves the    *)
(* invariants of the others.                                                   *)
(***************************************************************************)
EXTENDS Community, Products, FiniteSetTheorems, SequenceTheorems, TLAPS

-----------------------------------------------------------------------------
(* The frames of each part *)

PostRows == [likeCount : Int, commentCount : Int, viewCount : Int, hidden : BOOLEAN]

LikeFrames ==
    [at : {"liking", "looking", "unliking", "adding-like", "counting-up", "counting-down"},
     about : Members, counter : {"likeCount"}, seen : Int]
CommentFrames ==
    [at : {"commenting", "adding-comment", "counting-up"}, about : {"new-comment"},
     comment : Comments, counter : {"commentCount"}, seen : Int]
UncommentFrames ==
    [at : {"uncommenting", "removing-comment", "counting-down"}, about : Comments,
     counter : {"commentCount"}, seen : {0}]
ViewFrames ==
    [at : {"viewing", "counting-up"}, about : {"view"}, counter : {"viewCount"}, seen : {0}]
EditFrames ==
    [at : {"editing", "saving"}, about : {"edit"}, hide : {TRUE, FALSE, NULL},
     row : PostRows \cup {NULL}]
DeleteFrames == [at : {"deleting", "removing"}, about : {"removal"}]

ForumAwaits ==
    {"liking", "looking", "unliking", "adding-like", "counting-up", "counting-down",
     "commenting", "adding-comment", "uncommenting", "removing-comment", "viewing",
     "editing", "saving", "deleting", "removing"}
ForumFrames ==
    LikeFrames \cup CommentFrames \cup UncommentFrames \cup ViewFrames \cup EditFrames
    \cup DeleteFrames

TraceAwaits ==
    {"locking-key", "locking-batch", "looking-up", "inserting-batch", "inserting-event",
     "committing", "projecting", "resolving"}
TraceFacts == Facts \cup {"BATCH_CREATED"}
EventRows == [batch : Batches, sequence : Nat, fact : TraceFacts, key : Keys]
\* The locks of a batch and a key: those of the batch, its codes and its places, and
\* those of the key and its event.
TraceLocks ==
    ({"batch", "code"} \X Batches) \cup ({"key", "event"} \X Keys)
    \cup ({"place"} \X Batches \X Nat)
TraceFrames ==
    [at : TraceAwaits, batch : Batches, fact : TraceFacts, key : Keys,
     locks : SUBSET TraceLocks, row : {{}} \cup EventRows]

ReviewAwaits ==
    {"checking-buyer", "checking-purchase", "finding-review", "replying", "finding-hidden", "hiding"}
ReviewFrames ==
    [at : {"checking-buyer", "checking-purchase"}, review : Reviewers]
    \cup [at : {"finding-review", "replying"}, review : Reviewers, reply : Replies]
    \cup [at : {"finding-hidden", "hiding"}, review : Reviewers, hide : BOOLEAN,
          by : Moderators \cup {NULL}]

NoticeAwaits == {"finding-notice", "marking-read", "announcing", "marking-all"}
NoticeFrames ==
    [at : {"finding-notice", "marking-read", "announcing"}, notice : Nat, user : Owners]
    \cup [at : {"marking-all"}, user : Owners]

AdAwaits ==
    {"finding-package", "finding-campaign", "switching", "finding-pending", "moderating",
     "rereading-campaign", "notifying-supplier", "finding-shown", "recording"}
ModerationFrames ==
    [at : {"finding-pending", "moderating", "rereading-campaign"}, campaign : Campaigns,
     admin : Admins, status : {"active", "rejected"}, row : {NULL}]
    \cup [at : {"notifying-supplier"}, campaign : Campaigns,
          admin : Admins, status : {"active", "rejected"}, row : AdRows]
AdFrames ==
    [at : {"finding-package"}, campaign : Campaigns, supplier : Owners]
    \cup [at : {"finding-campaign", "switching"}, campaign : Campaigns, supplier : Owners,
          next : {"paused", "active"}]
    \cup ModerationFrames
    \cup [at : {"finding-shown", "recording"}, campaign : Campaigns, user : {NULL}]

\* What a use case has loaded of the product, and what it will save.
ProductRows ==
    [status : ProductStatus,
     images : UNION {[I -> BOOLEAN] : I \in SUBSET (1..MaxImages)},
     certs : UNION {[K -> CertRows] : K \in SUBSET (1..MaxCerts)}]

LoadFrames ==
    [at : {"loading-edit", "saving-product"}, what : {"edit", "remove"},
     read : ProductRows \cup {NULL}, row : ProductRows \cup {NULL}]
    \cup [at : {"loading-replaced", "saving-product"}, what : {"replace"}, primary : BOOLEAN,
          read : ProductRows \cup {NULL}, row : ProductRows \cup {NULL}]
    \cup [at : {"loading-product", "saving-product", "notifying-seller"}, what : {"status"},
          next : {"pending_approval", "active", "out_of_stock"}, seller : BOOLEAN,
          read : ProductRows \cup {NULL}, row : ProductRows \cup {NULL}]
JudgeFrames ==
    [at : {"finding-moderated", "moderating-product", "rereading-moderated", "auditing"},
     next : {"active", "rejected", "suspended"},
     was : ProductStatus \cup {NULL}, now : ProductStatus \cup {NULL}]
ImageFrames ==
    [at : {"loading-gallery", "resetting-primary", "inserting-image"}, primary : BOOLEAN]
    \cup [at : {"removing-image"}, image : 1..MaxImages]
PaperFrames ==
    [at : {"attaching-paper", "inserting-certificate", "detaching-paper"}, file : Papers]
RemovalFrames ==
    [at : {"finding-removed", "removing-certificate", "retiring-paper"}, cert : 1..MaxCerts,
     row : CertRows \cup {NULL}]
VerdictFrames ==
    [at : {"finding-unverified"}, cert : 1..MaxCerts, by : Agents, verdict : Verdicts, row : {NULL}]
    \cup [at : {"deciding", "rereading-certificate", "reading-paper", "reviewing-paper",
                "restoring-certificate"},
          cert : 1..MaxCerts, by : Agents, verdict : Verdicts, row : CertRows]
WishFrames == [at : {"finding-active", "wishing", "unwishing"}, fan : Fans]

ProductAwaits ==
    {"loading-edit", "loading-replaced", "loading-product", "saving-product", "notifying-seller",
     "finding-moderated", "moderating-product", "rereading-moderated", "auditing",
     "loading-gallery", "resetting-primary", "inserting-image", "removing-image",
     "attaching-paper", "inserting-certificate", "detaching-paper",
     "finding-removed", "removing-certificate", "retiring-paper",
     "finding-unverified", "deciding", "rereading-certificate", "reading-paper", "reviewing-paper",
     "restoring-certificate",
     "finding-active", "wishing", "unwishing"}
ProductFrames ==
    LoadFrames \cup JudgeFrames \cup ImageFrames \cup PaperFrames \cup RemovalFrames
    \cup VerdictFrames \cup WishFrames

Frames ==
    {Idle} \cup ForumFrames \cup TraceFrames \cup ReviewFrames \cup NoticeFrames \cup AdFrames
    \cup ProductFrames

FramesOK == call \in [Calls -> Frames]

\* The request of call c is one of a part, given by its awaits.
Of(c, awaits) == call[c].at \in awaits

-----------------------------------------------------------------------------
(* The invariant of the forum *)

\* What is still to be counted, up or down, of a counter.
Due(await, counter) == {c \in Calls : At(c, await) /\ call[c].counter = counter}

ForumTables ==
    /\ ForumTypeOK
    /\ IsFiniteSet(likes) /\ IsFiniteSet(comments)
    /\ \A await \in {"counting-up", "counting-down"}, counter \in {"likeCount", "commentCount"} :
         IsFiniteSet(Due(await, counter))
    /\ \A c \in Calls : At(c, "saving") => call[c].row \in PostRows

\* A comment on its way has an id that nothing else has.
Adding(c) == call[c].at \in {"commenting", "adding-comment"}
CommentsAreNew ==
    /\ \A c \in Calls : Adding(c) => call[c].comment \in used \ comments
    /\ \A c, d \in Calls : Adding(c) /\ Adding(d) /\ call[c].comment = call[d].comment => c = d

\* Requests that must not meet have not met, and what they have read still holds.
Apart ==
    \A c, d \in Calls : c # d /\ Of(c, ForumAwaits) /\ Of(d, ForumAwaits) => ~Clash(call[c], call[d])
ReadStillHolds(c) ==
    /\ At(c, "unliking") => call[c].about \in likes
    /\ At(c, "removing-comment") => call[c].about \in comments
    /\ At(c, "saving") => call[c].row = post /\ post # NULL

\* The counters equal the rows but for what is still to be counted.
LikesAreDue ==
    post.likeCount + Cardinality(Due("counting-up", "likeCount"))
        = Cardinality(likes) + Cardinality(Due("counting-down", "likeCount"))
CommentsAreDue ==
    post.commentCount + Cardinality(Due("counting-up", "commentCount"))
        = Cardinality(comments) + Cardinality(Due("counting-down", "commentCount"))
CountersAreDue == post # NULL => LikesAreDue /\ CommentsAreDue

ForumInv ==
    /\ ForumTables /\ CommentsAreNew
    /\ ~mixed => Apart /\ (\A c \in Calls : ReadStillHolds(c)) /\ CountersAreDue

-----------------------------------------------------------------------------
(* The invariant of the timelines *)

\* The locks of open transactions are apart.
LocksApart ==
    \A c, d \in Calls : c # d /\ Of(c, TraceAwaits) /\ Of(d, TraceAwaits) =>
        call[c].locks \cap call[d].locks = {}

Creates(c) == call[c].fact = "BATCH_CREATED"

\* What a transaction has locked, and what it has found stays so.
TraceHolds(c) ==
    LET b == call[c].batch  key == call[c].key  row == call[c].row IN
    /\ At(c, "locking-key") => Creates(c) /\ call[c].locks = {}
    /\ At(c, "locking-batch") => ~Creates(c) /\ call[c].locks = {}
    /\ At(c, "inserting-batch") => Creates(c) /\ (row.sequence = 1 \/ EventsOf(b) # {})
    /\ call[c].at \in {"looking-up", "inserting-batch", "inserting-event", "committing"} /\ ~Creates(c) =>
         <<"batch", b>> \in call[c].locks /\ EventsOf(b) # {}
    /\ call[c].at \in {"inserting-batch", "inserting-event", "committing", "projecting"} =>
         row \in EventRows /\ row.batch = b /\ row.fact = call[c].fact /\ row.key = key
    /\ call[c].at \in {"inserting-event", "committing"} =>
         /\ row.sequence = Cardinality(EventsOf(b)) + 1 /\ row.sequence <= MaxEvents
         /\ Creates(c) => <<"code", b>> \in call[c].locks /\ EventsOf(b) = {}
    /\ At(c, "inserting-batch") => row.sequence <= MaxEvents
    /\ At(c, "committing") => <<"event", key>> \in call[c].locks /\ WithKey(key) = {}
    /\ At(c, "projecting") => row \in events

\* A timeline is numbered without a gap and without a repetition.
TimelineOf(b) ==
    /\ IsFiniteSet(EventsOf(b))
    /\ {e.sequence : e \in EventsOf(b)} = 1..Cardinality(EventsOf(b))
    /\ \A e \in EventsOf(b) : (e.sequence = 1) = (e.fact = "BATCH_CREATED")

KeysAreUsedOnce == \A e, f \in events : e.key = f.key => e = f

TraceInv ==
    /\ TraceTypeOK /\ LocksApart
    /\ \A c \in Calls : Of(c, TraceAwaits) => TraceHolds(c)
    /\ \A b \in Batches : TimelineOf(b)
    /\ KeysAreUsedOnce
    /\ AnsweredAsStored /\ AppendsAreNotInTheWay

-----------------------------------------------------------------------------
(* The invariant of the reviews *)

Turns == [hide : BOOLEAN, by : Moderators \cup {NULL}]

ReviewHolds(c) ==
    call[c].at \in {"replying", "hiding"} => Reviewed(call[c].review)

ReviewsInv ==
    /\ ReviewsTypeOK
    /\ replied \subseteq [review : Reviewers, reply : Replies]
    /\ turns \in [Reviewers -> Seq(Turns)]
    /\ \A c \in Calls : Of(c, ReviewAwaits) => ReviewHolds(c)
    /\ \A r \in Reviewers :
         /\ ~Reviewed(r) => turns[r] = <<>>
         /\ Reviewed(r) /\ turns[r] = <<>> => ~review[r].hidden
    /\ RepliesStay /\ ModerationsAlternate

-----------------------------------------------------------------------------
(* The invariant of the notifications *)

NoticeHolds(c) ==
    call[c].at \in {"finding-notice", "marking-read", "announcing"} =>
        /\ call[c].notice \in DOMAIN inbox
        /\ At(c, "announcing") => inbox[call[c].notice].read /\ announced[call[c].notice] = 0

NoticesInv ==
    /\ NotificationsTypeOK
    /\ \A c \in Calls : Of(c, NoticeAwaits) => NoticeHolds(c)
    /\ \A c, d \in Calls :
         At(c, "announcing") /\ At(d, "announcing") /\ call[c].notice = call[d].notice => c = d
    /\ \A i \in 1..MaxInbox : i \notin DOMAIN inbox => announced[i] = 0
    /\ ReadOnce

-----------------------------------------------------------------------------
(* The invariant of the campaigns *)

Told(k) == {i \in DOMAIN inbox : inbox[i].news.about = k}

\* A campaign that is decided.
Judged(k) == AdStatus(k) \in {"active", "paused", "rejected"}

AdHolds(c) ==
    LET k == call[c].campaign IN
    /\ call[c].at \in {"switching", "recording"} => AdStatus(k) \in {"active", "paused"}
    /\ Telling(c) =>
         /\ Told(k) = {} /\ k \notin unsent
         /\ [campaign |-> k, status |-> call[c].status, by |-> call[c].admin] \in decided
    /\ At(c, "notifying-supplier") =>
         /\ call[c].row.supplier = campaign[k].supplier
         /\ call[c].row.status \in {"active", "paused", "rejected"}
         /\ (call[c].row.status = "rejected") = (call[c].status = "rejected")

\* The news are about decisions, and one call at most is about to tell one.
NewsInv ==
    /\ \A i \in DOMAIN inbox : inbox[i].news \in Tidings
    /\ \A k \in Campaigns : ~Judged(k) => Told(k) = {} /\ k \notin unsent
    /\ \A k \in unsent : Told(k) = {}
    /\ \A c, d \in Calls :
         Telling(c) /\ Telling(d) /\ call[c].campaign = call[d].campaign => c = d

AdsInv ==
    /\ AdsTypeOK
    /\ \A c \in Calls : Of(c, AdAwaits) => AdHolds(c)
    /\ \A d \in decided : Judged(d.campaign)
    /\ NewsInv /\ DecisionStands /\ DecisionsAreTold

IInv == FramesOK /\ ForumInv /\ TraceInv /\ ReviewsInv /\ NoticesInv /\ AdsInv

-----------------------------------------------------------------------------
(* Steps and frames *)

\* The frames of the catalogue have awaits and fields of their own.
LEMMA ProductFrameFields ==
    ASSUME NEW f \in ProductFrames
    PROVE  /\ f.at \in ProductAwaits
           /\ "about" \notin DOMAIN f /\ "locks" \notin DOMAIN f /\ "campaign" \notin DOMAIN f
           /\ "user" \notin DOMAIN f
<1>1. CASE f \in LoadFrames
    BY <1>1 DEF LoadFrames, ProductAwaits
<1>2. CASE f \in JudgeFrames
    BY <1>2 DEF JudgeFrames, ProductAwaits
<1>3. CASE f \in ImageFrames
    BY <1>3 DEF ImageFrames, ProductAwaits
<1>4. CASE f \in PaperFrames
    BY <1>4 DEF PaperFrames, ProductAwaits
<1>5. CASE f \in RemovalFrames
    BY <1>5 DEF RemovalFrames, ProductAwaits
<1>6. CASE f \in VerdictFrames
    BY <1>6 DEF VerdictFrames, ProductAwaits
<1>7. CASE f \in WishFrames
    BY <1>7 DEF WishFrames, ProductAwaits
<1> QED
    BY <1>1, <1>2, <1>3, <1>4, <1>5, <1>6, <1>7 DEF ProductFrames

\* The await of a frame tells the part it belongs to.
LEMMA FrameShapes ==
    ASSUME NEW f \in Frames
    PROVE  /\ f.at \in ForumAwaits => f \in ForumFrames
           /\ f.at \in TraceAwaits => f \in TraceFrames
           /\ f.at \in ReviewAwaits => f \in ReviewFrames
           /\ f.at \in NoticeAwaits => f \in NoticeFrames
           /\ f.at \in AdAwaits => f \in AdFrames
           /\ f.at \in ProductAwaits => f \in ProductFrames
<1>1. f = Idle => f.at = "idle"
    BY DEF Idle
<1>2. f \in ForumFrames => f.at \in ForumAwaits
    BY DEF ForumFrames, ForumAwaits, LikeFrames, CommentFrames, UncommentFrames, ViewFrames,
           EditFrames, DeleteFrames
<1>3. f \in TraceFrames => f.at \in TraceAwaits
    BY DEF TraceFrames
<1>4. f \in ReviewFrames => f.at \in ReviewAwaits
    BY DEF ReviewFrames, ReviewAwaits
<1>5. f \in NoticeFrames => f.at \in NoticeAwaits
    BY DEF NoticeFrames, NoticeAwaits
<1>6. f \in AdFrames => f.at \in AdAwaits
    BY DEF AdFrames, ModerationFrames, AdAwaits
<1>7. f \in ProductFrames => f.at \in ProductAwaits
    BY ProductFrameFields
<1> QED
    BY <1>1, <1>2, <1>3, <1>4, <1>5, <1>6, <1>7
    DEF Frames, ForumAwaits, TraceAwaits, ReviewAwaits, NoticeAwaits, AdAwaits, ProductAwaits

\* A step of one request, which belongs to the part of the given awaits.
Turn(c, awaits) ==
    /\ call' = [call EXCEPT ![c] = call'[c]]
    /\ call'[c] \in Frames
    /\ call[c].at \in awaits \cup {"idle"}
    /\ call'[c].at \in awaits \cup {"idle"}

\* The other calls are where they were.
LEMMA TurnOthers ==
    ASSUME FramesOK, NEW c \in Calls, NEW awaits, Turn(c, awaits)
    PROVE  FramesOK' /\ \A d \in Calls \ {c} : call'[d] = call[d]
BY DEF FramesOK, Turn

\* The requests of another part are where they were.
LEMMA TurnElsewhere ==
    ASSUME FramesOK, NEW c \in Calls, NEW awaits, NEW others, Turn(c, awaits),
           awaits \cap others = {}, "idle" \notin others
    PROVE  \A d \in Calls :
             /\ Of(d, others) => call'[d] = call[d]
             /\ Of(d, others)' => call'[d] = call[d]
BY TurnOthers DEF Turn, Of

\* What the frame of a call becomes.
LEMMA Ended ==
    ASSUME FramesOK, NEW c \in Calls, End(c)
    PROVE  /\ call' = [call EXCEPT ![c] = call'[c]]
           /\ call'[c] = Idle /\ call'[c] \in Frames /\ call'[c].at = "idle"
BY DEF FramesOK, End, Frames, Idle

\* The frame of a call that has just arrived.
LEMMA Received ==
    ASSUME FramesOK, NEW c \in Calls, NEW frame, Receive(c, frame)
    PROVE  /\ call' = [call EXCEPT ![c] = call'[c]]
           /\ call'[c] = frame /\ call[c].at = "idle"
BY DEF FramesOK, Receive, At

\* The frame of a call at its next await.
LEMMA Moved ==
    ASSUME FramesOK, NEW c \in Calls, NEW await, Goto(c, await)
    PROVE  /\ call' = [call EXCEPT ![c] = call'[c]]
           /\ call'[c] = [call[c] EXCEPT !.at = await]
BY DEF FramesOK, Goto

-----------------------------------------------------------------------------
(* The forum *)

\* A finite set and one element more.
LEMMA FinitePlus ==
    ASSUME NEW S, NEW x, IsFiniteSet(S), x \notin S
    PROVE  /\ IsFiniteSet(S \cup {x})
           /\ Cardinality(S) \in Nat /\ Cardinality(S \cup {x}) \in Nat
           /\ Cardinality(S \cup {x}) = Cardinality(S) + 1
BY FS_AddElement, FS_CardinalityType

\* A finite set and one element less.
LEMMA FiniteMinus ==
    ASSUME NEW S, NEW x, IsFiniteSet(S), x \in S
    PROVE  /\ IsFiniteSet(S \ {x}) /\ Cardinality(S) \in Nat /\ Cardinality(S \ {x}) \in Nat
           /\ Cardinality(S \ {x}) + 1 = Cardinality(S)
<1>1. IsFiniteSet(S \ {x}) /\ Cardinality(S \ {x}) = Cardinality(S) - 1
    BY FS_RemoveElement
<1> QED
    BY <1>1, FS_CardinalityType

\* Whether a frame is still to be counted.
IsDue(f, await, counter) == f.at = await /\ f.counter = counter

\* What is due after a step of call c.
DueTurns(c, await, counter) ==
    LET due == Cardinality(Due(await, counter))
        then == Cardinality(Due(await, counter)') IN
    /\ IsFiniteSet(Due(await, counter)')
    /\ due \in Nat /\ then \in Nat
    /\ CASE IsDue(call'[c], await, counter) /\ ~IsDue(call[c], await, counter) -> then = due + 1
         [] ~IsDue(call'[c], await, counter) /\ IsDue(call[c], await, counter) -> then + 1 = due
         [] OTHER -> then = due

\* A step of one call changes what is due by that call only.
LEMMA DueMoves ==
    ASSUME FramesOK, NEW c \in Calls, call' = [call EXCEPT ![c] = call'[c]],
           NEW await, NEW counter, IsFiniteSet(Due(await, counter))
    PROVE  DueTurns(c, await, counter)
<1> PICK old : old = Due(await, counter)
    OBVIOUS
<1> PICK new : new = Due(await, counter)'
    OBVIOUS
<1>1. \A d \in Calls \ {c} : call'[d] = call[d]
    BY DEF FramesOK
<1>2. /\ c \in old <=> IsDue(call[c], await, counter)
      /\ c \in new <=> IsDue(call'[c], await, counter)
    BY DEF Due, At, IsDue
<1>3. \A d \in Calls \ {c} : d \in old <=> d \in new
    BY <1>1 DEF Due, At
<1>4. old \subseteq Calls /\ new \subseteq Calls
    BY DEF Due
<1>5. IsFiniteSet(old) /\ Cardinality(old) \in Nat
    BY FS_CardinalityType
<1>6. CASE c \in old /\ c \in new
    <2>1. new = old
        BY <1>3, <1>4, <1>6
    <2> QED
        BY <1>2, <1>5, <1>6, <2>1 DEF DueTurns
<1>7. CASE c \notin old /\ c \notin new
    <2>1. new = old
        BY <1>3, <1>4, <1>7
    <2> QED
        BY <1>2, <1>5, <1>7, <2>1 DEF DueTurns
<1>8. CASE c \in old /\ c \notin new
    <2>1. new = old \ {c}
        BY <1>3, <1>4, <1>8
    <2>2. IsFiniteSet(new) /\ Cardinality(new) \in Nat /\ Cardinality(new) + 1 = Cardinality(old)
        BY <1>5, <1>8, <2>1, FiniteMinus
    <2> QED
        BY <1>2, <1>5, <1>8, <2>2 DEF DueTurns
<1>9. CASE c \notin old /\ c \in new
    <2>1. new = old \cup {c}
        BY <1>3, <1>4, <1>9
    <2>2. IsFiniteSet(new) /\ Cardinality(new) \in Nat /\ Cardinality(new) = Cardinality(old) + 1
        BY <1>5, <1>9, <2>1, FinitePlus
    <2> QED
        BY <1>2, <1>5, <1>9, <2>2 DEF DueTurns
<1> QED
    BY <1>6, <1>7, <1>8, <1>9

\* A request about a row and an edit of the post have met what they must not.
LEMMA Clashes ==
    ASSUME NEW a, NEW b
    PROVE  /\ Clash(a, b) <=> Clash(b, a)
           /\ a.about \in {"edit", "removal"} => Clash(a, b)
           /\ a.about = b.about /\ a.about \in Members \cup Comments => Clash(a, b)
           /\ \A x : x.about = a.about => (Clash(x, b) <=> Clash(a, b))
BY DEF Clash

\* The frame of a request of the forum, by its await.
LEMMA ForumShape ==
    ASSUME FramesOK, NEW c \in Calls
    PROVE  /\ call[c].at \in {"liking", "looking", "unliking", "adding-like"} => call[c] \in LikeFrames
           /\ call[c].at \in {"commenting", "adding-comment"} => call[c] \in CommentFrames
           /\ call[c].at \in {"uncommenting", "removing-comment"} => call[c] \in UncommentFrames
           /\ At(c, "counting-up") => call[c] \in LikeFrames \cup CommentFrames \cup ViewFrames
           /\ At(c, "counting-down") => call[c] \in LikeFrames \cup UncommentFrames
           /\ At(c, "viewing") => call[c] \in ViewFrames
           /\ call[c].at \in {"editing", "saving"} => call[c] \in EditFrames
           /\ call[c].at \in {"deleting", "removing"} => call[c] \in DeleteFrames
<1>1. call[c] \in Frames /\ (call[c].at \in ForumAwaits => call[c] \in ForumFrames)
    BY FrameShapes DEF FramesOK
<1> QED
    BY <1>1 DEF ForumAwaits, ForumFrames, LikeFrames, CommentFrames, UncommentFrames, ViewFrames,
                EditFrames, DeleteFrames, At

\* What becomes of the parts of the invariant in a step of call c.
LEMMA DueKept ==
    ASSUME FramesOK, ForumTables, NEW c \in Calls, Turn(c, ForumAwaits)
    PROVE  \A await \in {"counting-up", "counting-down"}, counter \in {"likeCount", "commentCount"} :
             DueTurns(c, await, counter)
<1> TAKE await \in {"counting-up", "counting-down"}, counter \in {"likeCount", "commentCount"}
<1>1. IsFiniteSet(Due(await, counter)) /\ call' = [call EXCEPT ![c] = call'[c]]
    BY DEF Turn, ForumTables
<1> QED
    BY <1>1, DueMoves

\* A request that goes on about the same thing meets nobody new.
LEMMA ApartKept ==
    ASSUME FramesOK, Apart, NEW c \in Calls, Turn(c, ForumAwaits), Of(c, ForumAwaits),
           call'[c].at = "idle" \/ call'[c].about = call[c].about
    PROVE  Apart'
<1> SUFFICES ASSUME NEW d \in Calls, NEW e \in Calls, d # e,
                    Of(d, ForumAwaits)', Of(e, ForumAwaits)'
             PROVE  ~Clash(call'[d], call'[e])
    BY DEF Apart, Clash
<1>1. \A x \in Calls \ {c} : call'[x] = call[x]
    BY TurnOthers
<1>2. call'[c].at # "idle" => call'[c].about = call[c].about
    OBVIOUS
<1>3. call[d].at \in ForumAwaits /\ call[e].at \in ForumAwaits
      /\ call'[d].about = call[d].about /\ call'[e].about = call[e].about
    BY <1>1, <1>2 DEF Of, ForumAwaits
<1>4. ~Clash(call[d], call[e])
    BY <1>3 DEF Apart, Of
<1> QED
    BY <1>3, <1>4 DEF Clash

\* The ids of comments on their way stay new while the ids drawn stay.
LEMMA NewKept ==
    ASSUME FramesOK, CommentsAreNew, NEW c \in Calls, Turn(c, ForumAwaits),
           used \subseteq used', comments' \subseteq comments,
           Adding(c)' => Adding(c) /\ call'[c].comment = call[c].comment
    PROVE  CommentsAreNew'
<1>1. \A d \in Calls : Adding(d)' => Adding(d) /\ call'[d].comment = call[d].comment
    BY TurnOthers DEF Adding
<1> QED
    BY <1>1 DEF CommentsAreNew

\* The step leaves the tables and what is due.
LEMMA ForumLook ==
    ASSUME FramesOK, ForumInv, UNCHANGED forumRows,
           NEW c \in Calls, Turn(c, ForumAwaits), Of(c, ForumAwaits),
           call'[c].at = "idle" \/ call'[c].about = call[c].about,
           \A await \in {"counting-up", "counting-down"}, counter \in {"likeCount", "commentCount"} :
              IsDue(call'[c], await, counter) <=> IsDue(call[c], await, counter),
           Adding(c)' => Adding(c) /\ call'[c].comment = call[c].comment,
           At(c, "saving")' => call'[c].row = post /\ post \in PostRows /\ post # NULL,
           At(c, "unliking")' => call'[c].about \in likes,
           At(c, "removing-comment")' => call'[c].about \in comments
    PROVE  ForumInv'
<1> USE DEF ForumInv
<1>1. UNCHANGED <<post, likes, comments, used, mixed>>
    BY DEF forumRows
<1>2. \A d \in Calls \ {c} : call'[d] = call[d]
    BY TurnOthers
<1>3. \A await \in {"counting-up", "counting-down"}, counter \in {"likeCount", "commentCount"} :
          /\ IsFiniteSet(Due(await, counter)')
          /\ Cardinality(Due(await, counter)') = Cardinality(Due(await, counter))
    <2> TAKE await \in {"counting-up", "counting-down"}, counter \in {"likeCount", "commentCount"}
    <2>1. IsDue(call'[c], await, counter) <=> IsDue(call[c], await, counter)
        OBVIOUS
    <2> QED
        BY <2>1, DueKept DEF DueTurns
<1>4. ForumTables'
    <2>1. ForumTypeOK'
        BY <1>1 DEF ForumTables, ForumTypeOK
    <2>2. \A d \in Calls : At(d, "saving")' => call'[d].row \in PostRows
        BY <1>1, <1>2 DEF ForumTables, At
    <2> QED
        BY <1>1, <1>3, <2>1, <2>2 DEF ForumTables
<1>5. CommentsAreNew'
    BY <1>1, NewKept
<1>6. ~mixed => Apart'
    BY ApartKept
<1>7. ~mixed => \A d \in Calls : ReadStillHolds(d)'
    BY <1>1, <1>2 DEF ReadStillHolds, At
<1>8. ~mixed => CountersAreDue'
    BY <1>1, <1>3 DEF CountersAreDue, LikesAreDue, CommentsAreDue
<1> QED
    BY <1>1, <1>4, <1>5, <1>6, <1>7, <1>8

\* A request of the forum that is not to be counted ends.
LEMMA ForumEnds ==
    ASSUME FramesOK, ForumInv, NEW c \in Calls, UNCHANGED forumRows, End(c),
           Of(c, ForumAwaits \ {"counting-up", "counting-down"})
    PROVE  ForumInv' /\ Turn(c, ForumAwaits)
<1>1. /\ call' = [call EXCEPT ![c] = call'[c]]
      /\ call'[c] \in Frames /\ call'[c].at = "idle"
    BY Ended
<1>2. Turn(c, ForumAwaits) /\ Of(c, ForumAwaits)
    BY <1>1 DEF Turn, Of
<1>3. \A await \in {"counting-up", "counting-down"}, counter \in {"likeCount", "commentCount"} :
          ~IsDue(call'[c], await, counter) /\ ~IsDue(call[c], await, counter)
    BY <1>1 DEF IsDue, Of
<1> QED
    BY <1>1, <1>2, <1>3, ForumLook DEF At, Adding

\* It goes on to a stage that asks nothing of the tables.
LEMMA ForumGoes ==
    ASSUME FramesOK, ForumInv, NEW c \in Calls, UNCHANGED forumRows,
           Of(c, ForumAwaits \ {"counting-up", "counting-down"}),
           call' = [call EXCEPT ![c] = call'[c]], call'[c] \in ForumFrames,
           call'[c].about = call[c].about,
           call'[c].at \in ForumAwaits \ {"counting-down", "saving", "unliking", "removing-comment"},
           At(c, "counting-up")' => call'[c].counter = "viewCount",
           Adding(c)' => Adding(c) /\ call'[c].comment = call[c].comment
    PROVE  ForumInv' /\ Turn(c, ForumAwaits)
<1>1. Turn(c, ForumAwaits) /\ Of(c, ForumAwaits)
    BY DEF Turn, Of, Frames
<1>2. \A await \in {"counting-up", "counting-down"}, counter \in {"likeCount", "commentCount"} :
          ~IsDue(call'[c], await, counter) /\ ~IsDue(call[c], await, counter)
    BY DEF IsDue, Of, At
<1> QED
    BY <1>1, <1>2, ForumLook DEF At

\* A request of the forum that only reads keeps the invariant.
LEMMA ForumLooks ==
    ASSUME FramesOK, ForumInv, NEW c \in Calls,
           \/ LikePost(c) \/ FindLike(c) \/ CommentPost(c) \/ FindComment(c)
           \/ FindViewed(c) \/ ReadPost(c) \/ FindDeleted(c)
    PROVE  ForumInv' /\ Turn(c, ForumAwaits)
<1>1. /\ UNCHANGED forumRows
      /\ Of(c, {"liking", "looking", "commenting", "uncommenting", "viewing", "editing", "deleting"})
    BY DEF LikePost, FindLike, CommentPost, FindComment, FindViewed, ReadPost, FindDeleted, At, Of
<1>2. Of(c, ForumAwaits \ {"counting-up", "counting-down"})
    BY <1>1 DEF Of, ForumAwaits
<1>3. CASE End(c)
    BY <1>1, <1>2, <1>3, ForumEnds
<1>4. CASE LikePost(c) /\ ~End(c)
    <2>1. post # NULL /\ call[c] \in LikeFrames
          /\ call' = [call EXCEPT ![c].at = "looking", ![c].seen = post.likeCount]
        BY <1>4, ForumShape DEF LikePost, At
    <2>2. PICK n \in Int : n = post.likeCount
        BY <2>1 DEF ForumInv, ForumTables, ForumTypeOK
    <2>3. /\ call' = [call EXCEPT ![c] = call'[c]]
          /\ call'[c] = [call[c] EXCEPT !.at = "looking", !.seen = n]
        BY <2>1, <2>2 DEF FramesOK
    <2>4. call'[c] \in LikeFrames /\ call'[c].at = "looking" /\ call'[c].about = call[c].about
        <3> PICK f, g : f = call[c] /\ g = call'[c]
            OBVIOUS
        <3>1. f \in LikeFrames /\ g = [f EXCEPT !.at = "looking", !.seen = n]
            BY <2>1, <2>3
        <3>2. g \in LikeFrames /\ g.at = "looking" /\ g.about = f.about
            BY <3>1 DEF LikeFrames
        <3> QED
            BY <3>2
    <2> QED
        BY <1>1, <1>2, <2>3, <2>4, ForumGoes DEF ForumFrames, ForumAwaits, At, Adding
<1>5. CASE FindLike(c) /\ call[c].about \in likes
    <2>1. Goto(c, "unliking") /\ call[c] \in LikeFrames /\ At(c, "looking")
        BY <1>5, ForumShape DEF FindLike, At
    <2>2. /\ call' = [call EXCEPT ![c] = call'[c]]
          /\ call'[c] = [call[c] EXCEPT !.at = "unliking"]
        BY <2>1, Moved
    <2>3. call'[c] \in LikeFrames /\ call'[c].at = "unliking" /\ call'[c].about = call[c].about
        BY <2>1, <2>2 DEF LikeFrames
    <2>4. Turn(c, ForumAwaits) /\ Of(c, ForumAwaits)
        BY <1>2, <2>2, <2>3 DEF Turn, Frames, ForumFrames, Of, ForumAwaits
    <2>5. \A await \in {"counting-up", "counting-down"}, counter \in {"likeCount", "commentCount"} :
              ~IsDue(call'[c], await, counter) /\ ~IsDue(call[c], await, counter)
        BY <2>1, <2>3 DEF IsDue, At
    <2> QED
        BY <1>1, <1>5, <2>3, <2>4, <2>5, ForumLook DEF At, Adding
<1>6. CASE FindLike(c) /\ call[c].about \notin likes
    <2>1. Goto(c, "adding-like") /\ call[c] \in LikeFrames
        BY <1>6, ForumShape DEF FindLike, At
    <2>2. /\ call' = [call EXCEPT ![c] = call'[c]]
          /\ call'[c] = [call[c] EXCEPT !.at = "adding-like"]
        BY <2>1, Moved
    <2>3. call'[c] \in LikeFrames /\ call'[c].at = "adding-like" /\ call'[c].about = call[c].about
        BY <2>1, <2>2 DEF LikeFrames
    <2> QED
        BY <1>1, <1>2, <2>2, <2>3, ForumGoes DEF ForumFrames, ForumAwaits, At, Adding
<1>7. CASE CommentPost(c) /\ ~End(c)
    <2>1. post # NULL /\ call[c] \in CommentFrames /\ At(c, "commenting")
          /\ call' = [call EXCEPT ![c].at = "adding-comment", ![c].seen = post.commentCount]
        BY <1>7, ForumShape DEF CommentPost, At
    <2>2. PICK n \in Int : n = post.commentCount
        BY <2>1 DEF ForumInv, ForumTables, ForumTypeOK
    <2>3. /\ call' = [call EXCEPT ![c] = call'[c]]
          /\ call'[c] = [call[c] EXCEPT !.at = "adding-comment", !.seen = n]
        BY <2>1, <2>2 DEF FramesOK
    <2>4. /\ call'[c] \in CommentFrames /\ call'[c].at = "adding-comment"
          /\ call'[c].about = call[c].about /\ call'[c].comment = call[c].comment
        <3>1. call[c] \in CommentFrames
            BY <2>1
        <3>2. call'[c] = [call[c] EXCEPT !.at = "adding-comment", !.seen = n]
            BY <2>3
        <3> PICK f, g : f = call[c] /\ g = call'[c]
            OBVIOUS
        <3>3. f \in CommentFrames /\ g = [f EXCEPT !.at = "adding-comment", !.seen = n]
            BY <3>1, <3>2
        <3>4. g \in CommentFrames /\ g.at = "adding-comment" /\ g.about = f.about /\ g.comment = f.comment
            BY <3>3 DEF CommentFrames
        <3> QED
            BY <3>4
    <2> QED
        BY <1>1, <1>2, <2>1, <2>3, <2>4, ForumGoes DEF ForumFrames, ForumAwaits, At, Adding
<1>8. CASE FindComment(c) /\ ~End(c)
    <2>1. Goto(c, "removing-comment") /\ call[c] \in UncommentFrames /\ At(c, "uncommenting")
          /\ call[c].about \in comments
        BY <1>8, ForumShape DEF FindComment, At
    <2>2. /\ call' = [call EXCEPT ![c] = call'[c]]
          /\ call'[c] = [call[c] EXCEPT !.at = "removing-comment"]
        BY <2>1, Moved
    <2>3. call'[c] \in UncommentFrames /\ call'[c].at = "removing-comment"
          /\ call'[c].about = call[c].about
        BY <2>1, <2>2 DEF UncommentFrames
    <2>4. Turn(c, ForumAwaits) /\ Of(c, ForumAwaits)
        BY <1>2, <2>2, <2>3 DEF Turn, Frames, ForumFrames, Of, ForumAwaits
    <2>5. \A await \in {"counting-up", "counting-down"}, counter \in {"likeCount", "commentCount"} :
              ~IsDue(call'[c], await, counter) /\ ~IsDue(call[c], await, counter)
        BY <2>1, <2>3 DEF IsDue, At
    <2> QED
        BY <1>1, <2>1, <2>3, <2>4, <2>5, ForumLook DEF At, Adding
<1>9. CASE FindViewed(c) /\ ~End(c)
    <2>1. Goto(c, "counting-up") /\ call[c] \in ViewFrames
        BY <1>9, ForumShape DEF FindViewed, At
    <2>2. /\ call' = [call EXCEPT ![c] = call'[c]]
          /\ call'[c] = [call[c] EXCEPT !.at = "counting-up"]
        BY <2>1, Moved
    <2>3. call'[c] \in ViewFrames /\ call'[c].at = "counting-up" /\ call'[c].about = call[c].about
          /\ call'[c].counter = "viewCount"
        BY <2>1, <2>2 DEF ViewFrames
    <2> QED
        BY <1>1, <1>2, <2>2, <2>3, ForumGoes DEF ForumFrames, ForumAwaits, At, Adding
<1>10. CASE ReadPost(c) /\ ~End(c)
    <2>1. Keep(c, "saving", post) /\ call[c] \in EditFrames /\ At(c, "editing") /\ post # NULL
        BY <1>10, ForumShape DEF ReadPost, At
    <2>2. post \in PostRows
        BY <2>1 DEF ForumInv, ForumTables, ForumTypeOK, PostRows
    <2>3. /\ call' = [call EXCEPT ![c] = call'[c]]
          /\ call'[c] = [call[c] EXCEPT !.at = "saving", !.row = post]
        BY <2>1 DEF FramesOK, Keep
    <2>4. call'[c] \in EditFrames /\ call'[c].at = "saving" /\ call'[c].about = call[c].about
          /\ call'[c].row = post
        BY <2>1, <2>2, <2>3 DEF EditFrames
    <2>5. Turn(c, ForumAwaits) /\ Of(c, ForumAwaits)
        BY <1>2, <2>3, <2>4 DEF Turn, Frames, ForumFrames, Of, ForumAwaits
    <2>6. \A await \in {"counting-up", "counting-down"}, counter \in {"likeCount", "commentCount"} :
              ~IsDue(call'[c], await, counter) /\ ~IsDue(call[c], await, counter)
        BY <2>1, <2>4 DEF IsDue, At
    <2> QED
        BY <1>1, <2>1, <2>2, <2>4, <2>5, <2>6, ForumLook DEF At, Adding
<1>11. CASE FindDeleted(c) /\ ~End(c)
    <2>1. Goto(c, "removing") /\ call[c] \in DeleteFrames
        BY <1>11, ForumShape DEF FindDeleted, Found, At
    <2>2. /\ call' = [call EXCEPT ![c] = call'[c]]
          /\ call'[c] = [call[c] EXCEPT !.at = "removing"]
        BY <2>1, Moved
    <2>3. call'[c] \in DeleteFrames /\ call'[c].at = "removing" /\ call'[c].about = call[c].about
        BY <2>1, <2>2 DEF DeleteFrames
    <2> QED
        BY <1>1, <1>2, <2>2, <2>3, ForumGoes DEF ForumFrames, ForumAwaits, At, Adding
<1> QED
    BY <1>3, <1>4, <1>5, <1>6, <1>7, <1>8, <1>9, <1>10, <1>11

\* A request arrives; a new comment has an id that nothing has.
LEMMA ServeInv ==
    ASSUME FramesOK, ForumInv, NEW c \in Calls, NEW frame \in ForumFrames, Serve(c, frame),
           frame.at \in {"liking", "commenting", "uncommenting", "viewing", "editing", "deleting"},
           \/ frame.at # "commenting" /\ used' = used
           \/ frame.comment \in Comments \ used /\ used' = used \cup {frame.comment}
    PROVE  ForumInv' /\ Turn(c, ForumAwaits)
<1> USE DEF ForumInv
<1>1. /\ call' = [call EXCEPT ![c] = call'[c]] /\ call'[c] = frame /\ call[c].at = "idle"
      /\ UNCHANGED <<post, likes, comments>>
      /\ mixed' = (mixed \/ \E d \in Calls : ~At(d, "idle") /\ Clash(call[d], frame))
    BY Received DEF Serve
<1>2. Turn(c, ForumAwaits)
    BY <1>1 DEF Turn, Frames, ForumAwaits
<1>3. \A d \in Calls \ {c} : call'[d] = call[d]
    BY <1>2, TurnOthers
<1>4. \A await \in {"counting-up", "counting-down"}, counter \in {"likeCount", "commentCount"} :
          /\ IsFiniteSet(Due(await, counter)')
          /\ Cardinality(Due(await, counter)') = Cardinality(Due(await, counter))
    <2> TAKE await \in {"counting-up", "counting-down"}, counter \in {"likeCount", "commentCount"}
    <2>1. ~IsDue(call'[c], await, counter) /\ ~IsDue(call[c], await, counter)
        BY <1>1 DEF IsDue
    <2> QED
        BY <1>2, <2>1, DueKept DEF DueTurns
<1>5. ForumTables'
    <2>1. used' \subseteq Comments /\ used \subseteq used'
        BY DEF ForumTables, ForumTypeOK
    <2>2. ForumTypeOK'
        BY <1>1, <2>1 DEF ForumTables, ForumTypeOK
    <2>3. \A d \in Calls : At(d, "saving")' => call'[d].row \in PostRows
        BY <1>1, <1>3 DEF ForumTables, At
    <2> QED
        BY <1>1, <1>4, <2>2, <2>3 DEF ForumTables
<1>6. CommentsAreNew'
    <2>1. CASE frame.at # "commenting" /\ used' = used
        <3>1. ~Adding(c)'
            BY <1>1, <2>1 DEF Adding
        <3> QED
            BY <1>1, <1>2, <2>1, <3>1, NewKept
    <2>2. CASE frame.comment \in Comments \ used /\ used' = used \cup {frame.comment}
        <3>1. comments \subseteq used
            BY DEF ForumTables, ForumTypeOK
        <3>2. \A d \in Calls \ {c} : Adding(d)' => Adding(d) /\ call'[d].comment = call[d].comment
            BY <1>3 DEF Adding
        <3>3. \A d \in Calls \ {c} : Adding(d)' =>
                  call'[d].comment \in used \ comments /\ call'[d].comment # frame.comment
            BY <2>2, <3>2 DEF CommentsAreNew
        <3>4. frame.comment \in used' \ comments'
            BY <1>1, <2>2, <3>1
        <3> QED
            BY <1>1, <2>2, <3>2, <3>3, <3>4 DEF CommentsAreNew
    <2> QED
        BY <2>1, <2>2
<1>7. ~mixed' => Apart'
    <2> SUFFICES ASSUME ~mixed', NEW d \in Calls, NEW e \in Calls, d # e,
                        Of(d, ForumAwaits)', Of(e, ForumAwaits)'
                 PROVE  ~Clash(call'[d], call'[e])
        BY DEF Apart, Clash
    <2>1. ASSUME NEW x \in Calls \ {c}, Of(x, ForumAwaits)' PROVE ~Clash(call'[x], call'[c])
        <3>1. call'[x] = call[x] /\ ~At(x, "idle")
            BY <1>3, <2>1 DEF Of, ForumAwaits, At
        <3> QED
            BY <1>1, <3>1
    <2>2. CASE d = c
        BY <2>1, <2>2, Clashes
    <2>3. CASE e = c
        BY <2>1, <2>3
    <2>4. CASE d # c /\ e # c
        BY <1>1, <1>3, <2>4 DEF Apart, Of
    <2> QED
        BY <2>2, <2>3, <2>4
<1>8. ~mixed => \A d \in Calls : ReadStillHolds(d)'
    BY <1>1, <1>3 DEF ReadStillHolds, At
<1>9. ~mixed => CountersAreDue'
    BY <1>1, <1>4 DEF CountersAreDue, LikesAreDue, CommentsAreDue
<1> QED
    BY <1>1, <1>2, <1>5, <1>6, <1>7, <1>8, <1>9

\* The frame a new comment starts with.
LEMMA NewCommentFrame ==
    ASSUME NEW k \in Comments
    PROVE  [at |-> "commenting", about |-> "new-comment", comment |-> k,
            counter |-> "commentCount", seen |-> 0] \in CommentFrames
BY DEF CommentFrames

\* A request of the forum arrives, and may meet one that it must not.
LEMMA ForumArrives ==
    ASSUME FramesOK, ForumInv, NEW c \in Calls,
           \/ ToggleLike(c) \/ AddComment(c) \/ DeleteComment(c) \/ ViewPost(c)
           \/ EditPost(c) \/ DeletePost(c)
    PROVE  ForumInv' /\ Turn(c, ForumAwaits)
<1>1. CASE ToggleLike(c)
    <2> PICK u \in Members :
          Serve(c, [at |-> "liking", about |-> u, counter |-> "likeCount", seen |-> 0])
        BY <1>1 DEF ToggleLike
    <2> PICK f : f = [at |-> "liking", about |-> u, counter |-> "likeCount", seen |-> 0]
        OBVIOUS
    <2>1. f \in ForumFrames /\ f.at = "liking"
        BY DEF ForumFrames, LikeFrames
    <2> QED
        BY <1>1, <2>1, ServeInv DEF ToggleLike
<1>2. CASE AddComment(c)
    <2> PICK k \in Comments \ used :
          /\ Serve(c, [at |-> "commenting", about |-> "new-comment", comment |-> k,
                       counter |-> "commentCount", seen |-> 0])
          /\ used' = used \cup {k}
        BY <1>2 DEF AddComment
    <2> PICK f : f = [at |-> "commenting", about |-> "new-comment", comment |-> k,
                       counter |-> "commentCount", seen |-> 0]
        OBVIOUS
    <2>1. f \in ForumFrames /\ f.at = "commenting" /\ f.comment = k
        <3>1. k \in Comments
            OBVIOUS
        <3>2. f \in CommentFrames
            BY <3>1, NewCommentFrame
        <3> QED
            BY <3>2 DEF ForumFrames
    <2> QED
        BY <2>1, ServeInv
<1>3. CASE DeleteComment(c)
    <2> PICK k \in used :
          Serve(c, [at |-> "uncommenting", about |-> k, counter |-> "commentCount", seen |-> 0])
        BY <1>3 DEF DeleteComment
    <2> PICK f : f = [at |-> "uncommenting", about |-> k, counter |-> "commentCount", seen |-> 0]
        OBVIOUS
    <2>1. k \in Comments
        BY DEF ForumInv, ForumTables, ForumTypeOK
    <2>2. f \in ForumFrames /\ f.at = "uncommenting"
        BY <2>1 DEF ForumFrames, UncommentFrames
    <2> QED
        BY <1>3, <2>2, ServeInv DEF DeleteComment
<1>4. CASE ViewPost(c)
    <2> PICK f : f = [at |-> "viewing", about |-> "view", counter |-> "viewCount", seen |-> 0]
        OBVIOUS
    <2>1. f \in ForumFrames /\ f.at = "viewing"
        BY DEF ForumFrames, ViewFrames
    <2> QED
        BY <1>4, <2>1, ServeInv DEF ViewPost
<1>5. CASE EditPost(c)
    <2> PICK hide \in {TRUE, FALSE, NULL} :
          Serve(c, [at |-> "editing", about |-> "edit", hide |-> hide, row |-> NULL])
        BY <1>5 DEF EditPost
    <2> PICK f : f = [at |-> "editing", about |-> "edit", hide |-> hide, row |-> NULL]
        OBVIOUS
    <2>1. f \in ForumFrames /\ f.at = "editing"
        BY DEF ForumFrames, EditFrames
    <2> QED
        BY <1>5, <2>1, ServeInv DEF EditPost
<1>6. CASE DeletePost(c)
    <2> PICK f : f = [at |-> "deleting", about |-> "removal"]
        OBVIOUS
    <2>1. f \in ForumFrames /\ f.at = "deleting"
        BY DEF ForumFrames, DeleteFrames
    <2> QED
        BY <1>6, <2>1, ServeInv DEF DeletePost
<1> QED
    BY <1>1, <1>2, <1>3, <1>4, <1>5, <1>6

\* Nothing else is served while an edit of the post is, unless two requests have met.
LEMMA SavesAlone ==
    ASSUME FramesOK, Apart, NEW c \in Calls, Of(c, ForumAwaits), NEW d \in Calls, d # c
    PROVE  ~At(d, "saving") /\ ~At(d, "removing")
<1>1. ASSUME At(d, "saving") \/ At(d, "removing") PROVE FALSE
    <2>1. call[d].about \in {"edit", "removal"} /\ Of(d, ForumAwaits)
        BY <1>1, ForumShape DEF At, Of, ForumAwaits, EditFrames, DeleteFrames
    <2> QED
        BY <2>1, Clashes DEF Apart
<1> QED
    BY <1>1

\* What a frame counts for a counter when it is done.
Weight(f, await, counter) == IF IsDue(f, await, counter) THEN 1 ELSE 0
Pending(f, counter) == Weight(f, "counting-up", counter) - Weight(f, "counting-down", counter)

\* What is due of a counter moves as the frame of call c does.
Weighed(c, await, counter) ==
    \E a \in Nat, b \in Nat, v \in Int, w \in Int :
        /\ a = Cardinality(Due(await, counter)) /\ b = Cardinality(Due(await, counter)')
        /\ v = Weight(call[c], await, counter) /\ w = Weight(call'[c], await, counter)
        /\ b - a = w - v

\* The number of calls still to count moves with the frame of the one that steps.
LEMMA Weights ==
    ASSUME NEW c \in Calls, NEW await, NEW counter, DueTurns(c, await, counter)
    PROVE  Weighed(c, await, counter)
<1> DEFINE a == Cardinality(Due(await, counter))
           b == Cardinality(Due(await, counter)')
           v == Weight(call[c], await, counter)
           w == Weight(call'[c], await, counter)
<1>1. a \in Nat /\ b \in Nat
    BY DEF DueTurns
<1>2. v \in Int /\ w \in Int
    BY DEF Weight
<1>3. b - a = w - v
    BY <1>1 DEF DueTurns, Weight
<1> QED
    BY <1>1, <1>2, <1>3 DEF Weighed

\* A number n with what is still to be counted of it makes the k rows that it counts.
Balanced(counter, n, k) ==
    n + Cardinality(Due("counting-up", counter)) = k + Cardinality(Due("counting-down", counter))
BalancedNext(counter, n, k) ==
    n + Cardinality(Due("counting-up", counter)') = k + Cardinality(Due("counting-down", counter)')

\* Call c changes the number, the rows and what it will count accordingly.
Counts(c, counter, n, n2, k, k2) ==
    (n2 - n) + (Pending(call'[c], counter) - Pending(call[c], counter)) = k2 - k

\* The counter and the rows move by the same amount as what is still due.
LEMMA Balance ==
    ASSUME FramesOK, ForumTables, NEW c \in Calls, Turn(c, ForumAwaits),
           NEW counter \in {"likeCount", "commentCount"},
           NEW n \in Int, NEW n2 \in Int, NEW k \in Nat, NEW k2 \in Nat,
           Balanced(counter, n, k), Counts(c, counter, n, n2, k, k2)
    PROVE  BalancedNext(counter, n2, k2)
<1>1. Weighed(c, "counting-up", counter) /\ Weighed(c, "counting-down", counter)
    BY DueKept, Weights
<1>2. PICK up \in Nat, up2 \in Nat, v \in Int, v2 \in Int :
      /\ up = Cardinality(Due("counting-up", counter)) /\ up2 = Cardinality(Due("counting-up", counter)')
      /\ v = Weight(call[c], "counting-up", counter) /\ v2 = Weight(call'[c], "counting-up", counter)
      /\ up2 - up = v2 - v
    BY <1>1 DEF Weighed
<1>3. PICK down \in Nat, down2 \in Nat, w \in Int, w2 \in Int :
      /\ down = Cardinality(Due("counting-down", counter)) /\ down2 = Cardinality(Due("counting-down", counter)')
      /\ w = Weight(call[c], "counting-down", counter) /\ w2 = Weight(call'[c], "counting-down", counter)
      /\ down2 - down = w2 - w
    BY <1>1 DEF Weighed
<1>4. (n2 - n) + ((v2 - w2) - (v - w)) = k2 - k
    <2>1. Pending(call'[c], counter) = v2 - w2 /\ Pending(call[c], counter) = v - w
        BY <1>2, <1>3, Zenon DEF Pending
    <2> QED
        BY <2>1, Zenon DEF Counts
<1>5. n + up = k + down
    BY <1>2, <1>3, Zenon DEF Balanced
<1>6. up2 - up = v2 - v /\ down2 - down = w2 - w
    BY <1>2, <1>3, Zenon
<1>7. n2 + up2 = k2 + down2
    BY <1>4, <1>5, <1>6
<1> QED
    BY <1>2, <1>3, <1>7, Zenon DEF BalancedNext

\* Call c counts what it changes.
CountsRight(c) ==
    /\ post # NULL
    /\ Counts(c, "likeCount", post.likeCount, post'.likeCount, Cardinality(likes), Cardinality(likes'))
    /\ Counts(c, "commentCount", post.commentCount, post'.commentCount,
              Cardinality(comments), Cardinality(comments'))

\* Both counters stay right when each of them does.
LEMMA CountersStayDue ==
    ASSUME FramesOK, ForumInv, NEW c \in Calls, Turn(c, ForumAwaits), ~mixed, CountsRight(c), post' # NULL,
           ForumTypeOK', IsFiniteSet(likes'), IsFiniteSet(comments')
    PROVE  CountersAreDue'
<1>1. ForumTables /\ LikesAreDue /\ CommentsAreDue
    BY DEF ForumInv, CountersAreDue, CountsRight
<1>2. /\ Cardinality(likes) \in Nat /\ Cardinality(likes') \in Nat
      /\ Cardinality(comments) \in Nat /\ Cardinality(comments') \in Nat
    BY <1>1, FS_CardinalityType DEF ForumTables
<1>3. /\ post.likeCount \in Int /\ post'.likeCount \in Int
      /\ post.commentCount \in Int /\ post'.commentCount \in Int
    BY <1>1 DEF ForumTables, ForumTypeOK, CountsRight
<1>4. /\ Balanced("likeCount", post.likeCount, Cardinality(likes))
      /\ Balanced("commentCount", post.commentCount, Cardinality(comments))
    BY <1>1, Zenon DEF Balanced, LikesAreDue, CommentsAreDue
<1>5. BalancedNext("likeCount", post'.likeCount, Cardinality(likes'))
    BY <1>1, <1>2, <1>3, <1>4, Balance DEF CountsRight
<1>6. BalancedNext("commentCount", post'.commentCount, Cardinality(comments'))
    BY <1>1, <1>2, <1>3, <1>4, Balance DEF CountsRight
<1> QED
    BY <1>5, <1>6, Zenon DEF CountersAreDue, LikesAreDue, CommentsAreDue, BalancedNext

\* The step writes a table; its request goes on to count, or ends.
LEMMA ForumWrite ==
    ASSUME FramesOK, ForumInv, UNCHANGED <<used, mixed>>,
           NEW c \in Calls, Turn(c, ForumAwaits), Of(c, ForumAwaits),
           call'[c].at = "idle" \/ call'[c].about = call[c].about,
           call'[c].at \in {"idle", "counting-up", "counting-down"},
           ForumTypeOK', IsFiniteSet(likes'), IsFiniteSet(comments'), CommentsAreNew',
           ~mixed => \A d \in Calls \ {c} : ReadStillHolds(d)',
           ~mixed /\ post' # NULL => CountsRight(c)
    PROVE  ForumInv'
<1> USE DEF ForumInv
<1>1. \A d \in Calls \ {c} : call'[d] = call[d]
    BY TurnOthers
<1>2. \A await \in {"counting-up", "counting-down"}, counter \in {"likeCount", "commentCount"} :
          IsFiniteSet(Due(await, counter)')
    BY DueKept DEF DueTurns
<1>3. \A d \in Calls : At(d, "saving")' => call'[d].row \in PostRows
    BY <1>1 DEF ForumTables, At
<1>4. ForumTables'
    BY <1>2, <1>3 DEF ForumTables
<1>5. ~mixed => Apart'
    BY ApartKept
<1>6. ReadStillHolds(c)'
    BY DEF ReadStillHolds, At
<1>7. ~mixed => CountersAreDue'
    BY CountersStayDue DEF CountersAreDue
<1> QED
    BY <1>4, <1>5, <1>6, <1>7

\* What a frame has pending, and how it is settled.
LEMMA Pendings ==
    ASSUME NEW f, NEW counter
    PROVE  /\ f.at \notin {"counting-up", "counting-down"} \/ f.counter # counter => Pending(f, counter) = 0
           /\ f.at = "counting-up" /\ f.counter = counter => Pending(f, counter) = 1
           /\ f.at = "counting-down" /\ f.counter = counter => Pending(f, counter) = 0 - 1
<1>1. ASSUME f.at \notin {"counting-up", "counting-down"} \/ f.counter # counter
      PROVE  Pending(f, counter) = 0
    <2>1. ~IsDue(f, "counting-up", counter) /\ ~IsDue(f, "counting-down", counter)
        BY <1>1 DEF IsDue
    <2>2. Weight(f, "counting-up", counter) = 0 /\ Weight(f, "counting-down", counter) = 0
        BY <2>1, Zenon DEF Weight
    <2>3. 0 - 0 = 0
        OBVIOUS
    <2> QED
        BY <2>2, <2>3, Zenon DEF Pending
<1>2. ASSUME f.at = "counting-up", f.counter = counter PROVE Pending(f, counter) = 1
    <2>1. IsDue(f, "counting-up", counter) /\ ~IsDue(f, "counting-down", counter)
        BY <1>2 DEF IsDue
    <2>2. Weight(f, "counting-up", counter) = 1 /\ Weight(f, "counting-down", counter) = 0
        BY <2>1, Zenon DEF Weight
    <2>3. 1 - 0 = 1
        OBVIOUS
    <2> QED
        BY <2>2, <2>3, Zenon DEF Pending
<1>3. ASSUME f.at = "counting-down", f.counter = counter PROVE Pending(f, counter) = 0 - 1
    <2>1. ~IsDue(f, "counting-up", counter) /\ IsDue(f, "counting-down", counter)
        BY <1>3 DEF IsDue
    <2>2. Weight(f, "counting-up", counter) = 0 /\ Weight(f, "counting-down", counter) = 1
        BY <2>1, Zenon DEF Weight
    <2> QED
        BY <2>2 DEF Pending
<1> QED
    BY <1>1, <1>2, <1>3

\* The ways to count right: nothing, a row more or less, a counter up or down.
LEMMA Settled ==
    ASSUME NEW c, NEW counter, NEW n \in Int, NEW n2 \in Int, NEW k \in Nat, NEW k2 \in Nat,
           NEW p, NEW q, p = Pending(call[c], counter), q = Pending(call'[c], counter),
           \/ p = 0 /\ q = 0 /\ n2 = n /\ k2 = k
           \/ p = 0 /\ q = 0 - 1 /\ n2 = n /\ k2 + 1 = k
           \/ p = 0 /\ q = 1 /\ n2 = n /\ k2 = k + 1
           \/ p = 1 /\ q = 0 /\ n2 = n + 1 /\ k2 = k
           \/ p = 0 - 1 /\ q = 0 /\ n2 = n + (-1) /\ k2 = k
    PROVE  Counts(c, counter, n, n2, k, k2)
<1>1. (n2 - n) + (q - p) = k2 - k
    OBVIOUS
<1> QED
    BY <1>1 DEF Counts

\* What is served next to a request is about another row.
LEMMA OthersAbout ==
    ASSUME FramesOK, Apart, NEW c \in Calls, Of(c, ForumAwaits), NEW d \in Calls, d # c, Of(d, ForumAwaits)
    PROVE  /\ call[c].about \notin {"edit", "removal"}
           /\ call[c].about \in Members \cup Comments => call[d].about # call[c].about
BY Clashes DEF Apart

\* DELETE of a like: one more to count down.
LEMMA RemoveLikeInv ==
    ASSUME FramesOK, ForumInv, NEW c \in Calls, RemoveLike(c)
    PROVE  ForumInv' /\ Turn(c, ForumAwaits)
<1> USE DEF ForumInv
<1>1. /\ At(c, "unliking") /\ likes' = likes \ {call[c].about}
      /\ call' = [call EXCEPT ![c] = call'[c]]
      /\ call'[c] = [call[c] EXCEPT !.at = "counting-down"]
      /\ UNCHANGED <<post, comments, used, mixed>>
      /\ call[c] \in LikeFrames
    BY Moved, ForumShape DEF RemoveLike, At
<1>2. /\ call'[c] \in LikeFrames /\ call'[c].at = "counting-down"
      /\ call'[c].about = call[c].about /\ call'[c].counter = "likeCount"
      /\ call[c].about \in Members
    BY <1>1 DEF LikeFrames
<1>3. Turn(c, ForumAwaits) /\ Of(c, ForumAwaits)
    BY <1>1, <1>2 DEF Turn, Frames, ForumFrames, Of, ForumAwaits, At
<1>4. \A d \in Calls \ {c} : call'[d] = call[d]
    BY <1>3, TurnOthers
<1>5. ForumTypeOK' /\ IsFiniteSet(likes') /\ IsFiniteSet(comments')
    BY <1>1, FS_RemoveElement DEF ForumTables, ForumTypeOK
<1>6. CommentsAreNew'
    BY <1>1, <1>2, <1>3, NewKept DEF Adding
<1>7. ~mixed => \A d \in Calls \ {c} : ReadStillHolds(d)'
    <2> SUFFICES ASSUME ~mixed, NEW d \in Calls \ {c} PROVE ReadStillHolds(d)'
        OBVIOUS
    <2>1. At(d, "unliking") => call[d].about # call[c].about
        BY <1>2, <1>3, OthersAbout DEF Of, ForumAwaits, At
    <2> QED
        BY <1>1, <1>4, <2>1 DEF ReadStillHolds, At
<1>8. ~mixed /\ post' # NULL => CountsRight(c)
    <2> SUFFICES ASSUME ~mixed, post # NULL PROVE CountsRight(c)
        BY <1>1
    <2>1. call[c].about \in likes /\ IsFiniteSet(likes)
        BY <1>1 DEF ReadStillHolds, ForumTables
    <2>2. Cardinality(likes') + 1 = Cardinality(likes) /\ Cardinality(likes) \in Nat
          /\ Cardinality(likes') \in Nat
        BY <1>1, <2>1, FiniteMinus
    <2>3. /\ Pending(call'[c], "likeCount") = 0 - 1 /\ Pending(call'[c], "commentCount") = 0
          /\ Pending(call[c], "likeCount") = 0 /\ Pending(call[c], "commentCount") = 0
        <3>1. /\ call'[c].at = "counting-down" /\ call'[c].counter = "likeCount"
              /\ call[c].at \notin {"counting-up", "counting-down"} /\ "likeCount" # "commentCount"
            BY <1>1, <1>2 DEF At
        <3> QED
            BY <3>1, Pendings, Zenon
    <2>4. post.likeCount \in Int /\ post.commentCount \in Int /\ Cardinality(comments) \in Nat
        BY FS_CardinalityType DEF ForumTables, ForumTypeOK
    <2>5. Counts(c, "likeCount", post.likeCount, post'.likeCount, Cardinality(likes), Cardinality(likes'))
        BY <1>1, <2>2, <2>3, <2>4, Settled
    <2>6. Counts(c, "commentCount", post.commentCount, post'.commentCount,
                 Cardinality(comments), Cardinality(comments'))
        BY <1>1, <2>3, <2>4, Settled
    <2> QED
        BY <2>5, <2>6 DEF CountsRight
<1> QED
    BY <1>1, <1>2, <1>3, <1>5, <1>6, <1>7, <1>8, ForumWrite

\* INSERT of a like, or the unique index refuses it.
LEMMA SaveLikeInv ==
    ASSUME FramesOK, ForumInv, NEW c \in Calls, SaveLike(c)
    PROVE  ForumInv' /\ Turn(c, ForumAwaits)
<1>1. /\ At(c, "adding-like") /\ likes' = likes \cup {call[c].about}
      /\ UNCHANGED <<post, comments, used, mixed>>
      /\ call[c] \in LikeFrames
    BY ForumShape DEF SaveLike, At
<1>2. CASE call[c].about \in likes
    <2>1. UNCHANGED forumRows /\ End(c)
        BY <1>1, <1>2 DEF SaveLike, forumRows
    <2>2. Of(c, ForumAwaits \ {"counting-up", "counting-down"})
        BY <1>1 DEF Of, At, ForumAwaits
    <2> QED
        BY <2>1, <2>2, ForumEnds
<1>3. CASE call[c].about \notin likes
    <2> USE DEF ForumInv
    <2>1. /\ call' = [call EXCEPT ![c] = call'[c]]
          /\ call'[c] = [call[c] EXCEPT !.at = "counting-up"]
        BY <1>3, Moved DEF SaveLike
    <2>2. /\ call'[c] \in LikeFrames /\ call'[c].at = "counting-up"
          /\ call'[c].about = call[c].about /\ call'[c].counter = "likeCount"
          /\ call[c].about \in Members
        BY <1>1, <2>1 DEF LikeFrames
    <2>3. Turn(c, ForumAwaits) /\ Of(c, ForumAwaits)
        BY <1>1, <2>1, <2>2 DEF Turn, Frames, ForumFrames, Of, ForumAwaits, At
    <2>4. \A d \in Calls \ {c} : call'[d] = call[d]
        BY <2>3, TurnOthers
    <2>5. /\ IsFiniteSet(likes') /\ Cardinality(likes) \in Nat /\ Cardinality(likes') \in Nat
          /\ Cardinality(likes') = Cardinality(likes) + 1
        BY <1>1, <1>3, FinitePlus DEF ForumTables
    <2>6. ForumTypeOK' /\ IsFiniteSet(comments')
        BY <1>1, <2>2 DEF ForumTables, ForumTypeOK
    <2>7. CommentsAreNew'
        BY <1>1, <2>2, <2>3, NewKept DEF Adding
    <2>8. ~mixed => \A d \in Calls \ {c} : ReadStillHolds(d)'
        BY <1>1, <2>4 DEF ReadStillHolds, At
    <2>9. ~mixed /\ post' # NULL => CountsRight(c)
        <3> SUFFICES ASSUME ~mixed, post # NULL PROVE CountsRight(c)
            BY <1>1
        <3>1. /\ call'[c].at = "counting-up" /\ call'[c].counter = "likeCount"
              /\ call[c].at \notin {"counting-up", "counting-down"} /\ "likeCount" # "commentCount"
            BY <1>1, <2>2 DEF At
        <3>2. /\ Pending(call'[c], "likeCount") = 1 /\ Pending(call'[c], "commentCount") = 0
              /\ Pending(call[c], "likeCount") = 0 /\ Pending(call[c], "commentCount") = 0
            BY <3>1, Pendings, Zenon
        <3>3. post.likeCount \in Int /\ post.commentCount \in Int /\ Cardinality(comments) \in Nat
            BY FS_CardinalityType DEF ForumTables, ForumTypeOK
        <3>4. Counts(c, "likeCount", post.likeCount, post'.likeCount, Cardinality(likes), Cardinality(likes'))
            BY <1>1, <2>5, <3>2, <3>3, Settled
        <3>5. Counts(c, "commentCount", post.commentCount, post'.commentCount,
                     Cardinality(comments), Cardinality(comments'))
            BY <1>1, <3>2, <3>3, Settled
        <3> QED
            BY <3>4, <3>5 DEF CountsRight
    <2> QED
        BY <1>1, <2>2, <2>3, <2>5, <2>6, <2>7, <2>8, <2>9, ForumWrite
<1> QED
    BY <1>2, <1>3

\* INSERT of a comment: one more to count up.
LEMMA SaveCommentInv ==
    ASSUME FramesOK, ForumInv, NEW c \in Calls, SaveComment(c)
    PROVE  ForumInv' /\ Turn(c, ForumAwaits)
<1> USE DEF ForumInv
<1>1. /\ At(c, "adding-comment") /\ comments' = comments \cup {call[c].comment}
      /\ call' = [call EXCEPT ![c] = call'[c]]
      /\ call'[c] = [call[c] EXCEPT !.at = "counting-up"]
      /\ UNCHANGED <<post, likes, used, mixed>>
      /\ call[c] \in CommentFrames
    BY Moved, ForumShape DEF SaveComment, At
<1>2. /\ call'[c] \in CommentFrames /\ call'[c].at = "counting-up"
      /\ call'[c].about = call[c].about /\ call'[c].counter = "commentCount"
    BY <1>1 DEF CommentFrames
<1>3. Turn(c, ForumAwaits) /\ Of(c, ForumAwaits)
    BY <1>1, <1>2 DEF Turn, Frames, ForumFrames, Of, ForumAwaits, At
<1>4. \A d \in Calls \ {c} : call'[d] = call[d]
    BY <1>3, TurnOthers
<1>5. Adding(c) /\ ~Adding(c)' /\ call[c].comment \in used \ comments
    BY <1>1, <1>2 DEF Adding, At, CommentsAreNew
<1>6. /\ IsFiniteSet(comments') /\ Cardinality(comments) \in Nat /\ Cardinality(comments') \in Nat
      /\ Cardinality(comments') = Cardinality(comments) + 1
    BY <1>1, <1>5, FinitePlus DEF ForumTables
<1>7. ForumTypeOK' /\ IsFiniteSet(likes')
    BY <1>1, <1>5 DEF ForumTables, ForumTypeOK
<1>8. CommentsAreNew'
    <2>1. \A d \in Calls : Adding(d)' => d # c /\ Adding(d) /\ call'[d].comment = call[d].comment
        BY <1>4, <1>5 DEF Adding
    <2>2. \A d \in Calls : Adding(d)' => call[d].comment # call[c].comment
        BY <1>5, <2>1 DEF CommentsAreNew
    <2>3. \A d \in Calls : Adding(d)' => call'[d].comment \in used' \ comments'
        BY <1>1, <2>1, <2>2 DEF CommentsAreNew
    <2> QED
        BY <2>1, <2>3 DEF CommentsAreNew
<1>9. ~mixed => \A d \in Calls \ {c} : ReadStillHolds(d)'
    BY <1>1, <1>4 DEF ReadStillHolds, At
<1>10. ~mixed /\ post' # NULL => CountsRight(c)
    <2> SUFFICES ASSUME ~mixed, post # NULL PROVE CountsRight(c)
        BY <1>1
    <2>1. /\ call'[c].at = "counting-up" /\ call'[c].counter = "commentCount"
          /\ call[c].at \notin {"counting-up", "counting-down"} /\ "likeCount" # "commentCount"
        BY <1>1, <1>2 DEF At
    <2>2. /\ Pending(call'[c], "likeCount") = 0 /\ Pending(call'[c], "commentCount") = 1
          /\ Pending(call[c], "likeCount") = 0 /\ Pending(call[c], "commentCount") = 0
        BY <2>1, Pendings, Zenon
    <2>3. post.likeCount \in Int /\ post.commentCount \in Int /\ Cardinality(likes) \in Nat
        BY FS_CardinalityType DEF ForumTables, ForumTypeOK
    <2>4. Counts(c, "likeCount", post.likeCount, post'.likeCount, Cardinality(likes), Cardinality(likes'))
        BY <1>1, <2>2, <2>3, Settled
    <2>5. Counts(c, "commentCount", post.commentCount, post'.commentCount,
                 Cardinality(comments), Cardinality(comments'))
        BY <1>1, <1>6, <2>2, <2>3, Settled
    <2> QED
        BY <2>4, <2>5 DEF CountsRight
<1> QED
    BY <1>1, <1>2, <1>3, <1>6, <1>7, <1>8, <1>9, <1>10, ForumWrite

\* DELETE of a comment: one more to count down.
LEMMA RemoveCommentInv ==
    ASSUME FramesOK, ForumInv, NEW c \in Calls, RemoveComment(c)
    PROVE  ForumInv' /\ Turn(c, ForumAwaits)
<1> USE DEF ForumInv
<1>1. /\ At(c, "removing-comment") /\ comments' = comments \ {call[c].about}
      /\ call' = [call EXCEPT ![c] = call'[c]]
      /\ call'[c] = [call[c] EXCEPT !.at = "counting-down"]
      /\ UNCHANGED <<post, likes, used, mixed>>
      /\ call[c] \in UncommentFrames
    BY Moved, ForumShape DEF RemoveComment, At
<1>2. /\ call'[c] \in UncommentFrames /\ call'[c].at = "counting-down"
      /\ call'[c].about = call[c].about /\ call'[c].counter = "commentCount"
      /\ call[c].about \in Comments
    BY <1>1 DEF UncommentFrames
<1>3. Turn(c, ForumAwaits) /\ Of(c, ForumAwaits)
    BY <1>1, <1>2 DEF Turn, Frames, ForumFrames, Of, ForumAwaits, At
<1>4. \A d \in Calls \ {c} : call'[d] = call[d]
    BY <1>3, TurnOthers
<1>5. ForumTypeOK' /\ IsFiniteSet(likes') /\ IsFiniteSet(comments')
    BY <1>1, FS_RemoveElement DEF ForumTables, ForumTypeOK
<1>6. CommentsAreNew'
    BY <1>1, <1>2, <1>3, NewKept DEF Adding
<1>7. ~mixed => \A d \in Calls \ {c} : ReadStillHolds(d)'
    <2> SUFFICES ASSUME ~mixed, NEW d \in Calls \ {c} PROVE ReadStillHolds(d)'
        OBVIOUS
    <2>1. At(d, "removing-comment") => call[d].about # call[c].about
        BY <1>2, <1>3, OthersAbout DEF Of, ForumAwaits, At
    <2> QED
        BY <1>1, <1>4, <2>1 DEF ReadStillHolds, At
<1>8. ~mixed /\ post' # NULL => CountsRight(c)
    <2> SUFFICES ASSUME ~mixed, post # NULL PROVE CountsRight(c)
        BY <1>1
    <2>1. call[c].about \in comments /\ IsFiniteSet(comments)
        BY <1>1 DEF ReadStillHolds, ForumTables
    <2>2. Cardinality(comments') + 1 = Cardinality(comments) /\ Cardinality(comments) \in Nat
          /\ Cardinality(comments') \in Nat
        BY <1>1, <2>1, FiniteMinus
    <2>3. /\ call'[c].at = "counting-down" /\ call'[c].counter = "commentCount"
          /\ call[c].at \notin {"counting-up", "counting-down"} /\ "likeCount" # "commentCount"
        BY <1>1, <1>2 DEF At
    <2>4. /\ Pending(call'[c], "likeCount") = 0 /\ Pending(call'[c], "commentCount") = 0 - 1
          /\ Pending(call[c], "likeCount") = 0 /\ Pending(call[c], "commentCount") = 0
        BY <2>3, Pendings, Zenon
    <2>5. post.likeCount \in Int /\ post.commentCount \in Int /\ Cardinality(likes) \in Nat
        BY FS_CardinalityType DEF ForumTables, ForumTypeOK
    <2>6. Counts(c, "likeCount", post.likeCount, post'.likeCount, Cardinality(likes), Cardinality(likes'))
        BY <1>1, <2>4, <2>5, Settled
    <2>7. Counts(c, "commentCount", post.commentCount, post'.commentCount,
                 Cardinality(comments), Cardinality(comments'))
        BY <1>1, <2>2, <2>4, <2>5, Settled
    <2> QED
        BY <2>6, <2>7 DEF CountsRight
<1> QED
    BY <1>1, <1>2, <1>3, <1>5, <1>6, <1>7, <1>8, ForumWrite

\* The database adds to one counter of the row.
LEMMA Bumped ==
    ASSUME NEW row \in PostRows, NEW counter \in {"likeCount", "commentCount", "viewCount"}, NEW m \in Int
    PROVE  LET new == [row EXCEPT ![counter] = row[counter] + m] IN
           /\ new \in PostRows
           /\ new.likeCount = IF counter = "likeCount" THEN row.likeCount + m ELSE row.likeCount
           /\ new.commentCount = IF counter = "commentCount" THEN row.commentCount + m ELSE row.commentCount
<1>1. CASE counter = "likeCount"
    BY <1>1 DEF PostRows
<1>2. CASE counter = "commentCount"
    BY <1>2 DEF PostRows
<1>3. CASE counter = "viewCount"
    BY <1>3 DEF PostRows
<1> QED
    BY <1>1, <1>2, <1>3

\* A counter goes up or down and its request is answered.
LEMMA CountInv ==
    ASSUME FramesOK, ForumInv, NEW c \in Calls, NEW m \in Int, Count(c, m), End(c),
           \/ m = 1 /\ At(c, "counting-up")
           \/ m = -1 /\ At(c, "counting-down"),
           UNCHANGED <<likes, comments, used, mixed>>
    PROVE  ForumInv' /\ Turn(c, ForumAwaits)
<1> USE DEF ForumInv
<1>1. /\ call' = [call EXCEPT ![c] = call'[c]]
      /\ call'[c] \in Frames /\ call'[c].at = "idle"
    BY Ended
<1>2. Of(c, {"counting-up", "counting-down"}) /\ call[c].counter \in {"likeCount", "commentCount", "viewCount"}
    <2>1. At(c, "counting-up") \/ At(c, "counting-down")
        OBVIOUS
    <2>2. call[c] \in LikeFrames \cup CommentFrames \cup UncommentFrames \cup ViewFrames
        BY <2>1, ForumShape
    <2> QED
        BY <2>1, <2>2 DEF At, Of, LikeFrames, CommentFrames, UncommentFrames, ViewFrames
<1>3. Turn(c, ForumAwaits) /\ Of(c, ForumAwaits)
    BY <1>1, <1>2 DEF Turn, Of, ForumAwaits
<1>4. \A d \in Calls \ {c} : call'[d] = call[d]
    BY <1>3, TurnOthers
<1>5. post # NULL => post \in PostRows
    BY DEF ForumTables, ForumTypeOK, PostRows
<1>6. /\ post = NULL => post' = NULL
      /\ post # NULL => post' = [post EXCEPT ![call[c].counter] = post[call[c].counter] + m]
    BY DEF Count, Counted
<1>7. post # NULL =>
        /\ post' \in PostRows
        /\ post'.likeCount = IF call[c].counter = "likeCount" THEN post.likeCount + m ELSE post.likeCount
        /\ post'.commentCount = IF call[c].counter = "commentCount"
                                THEN post.commentCount + m ELSE post.commentCount
    <2>1. PICK row, counter : row = post /\ counter = call[c].counter
        OBVIOUS
    <2> SUFFICES ASSUME post # NULL
                 PROVE  /\ post' \in PostRows
                        /\ post'.likeCount = IF counter = "likeCount" THEN row.likeCount + m ELSE row.likeCount
                        /\ post'.commentCount = IF counter = "commentCount"
                                                THEN row.commentCount + m ELSE row.commentCount
        BY <2>1
    <2>2. row \in PostRows /\ counter \in {"likeCount", "commentCount", "viewCount"}
        BY <1>2, <1>5, <2>1
    <2>3. post' = [row EXCEPT ![counter] = row[counter] + m]
        BY <1>6, <2>1
    <2> HIDE DEF PostRows
    <2>4. LET new == [row EXCEPT ![counter] = row[counter] + m] IN
           /\ new \in PostRows
           /\ new.likeCount = IF counter = "likeCount" THEN row.likeCount + m ELSE row.likeCount
           /\ new.commentCount = IF counter = "commentCount" THEN row.commentCount + m ELSE row.commentCount
        BY <2>2, Bumped, Zenon
    <2> QED
        BY <2>3, <2>4, Zenon
<1>8. ForumTypeOK' /\ IsFiniteSet(likes') /\ IsFiniteSet(comments')
    BY <1>6, <1>7 DEF ForumTables, ForumTypeOK, PostRows
<1>9. CommentsAreNew'
    BY <1>1, <1>3, NewKept DEF Adding
<1>10. ~mixed => \A d \in Calls \ {c} : ReadStillHolds(d)'
    BY <1>3, <1>4, SavesAlone DEF ReadStillHolds, At
<1>11. ~mixed /\ post' # NULL => CountsRight(c)
    <2> SUFFICES ASSUME ~mixed, post # NULL PROVE CountsRight(c)
        BY <1>6
    <2>1. /\ post.likeCount \in Int /\ post.commentCount \in Int
          /\ Cardinality(likes) \in Nat /\ Cardinality(comments) \in Nat
        BY FS_CardinalityType DEF ForumTables, ForumTypeOK
    <2>2. ASSUME NEW counter \in {"likeCount", "commentCount"}, NEW n \in Int, NEW n2 \in Int, NEW k \in Nat,
                 n2 = IF call[c].counter = counter THEN n + m ELSE n
          PROVE  Counts(c, counter, n, n2, k, k)
        <3>1. Pending(call'[c], counter) = 0
            BY <1>1, Pendings
        <3>2. CASE call[c].counter # counter
            BY <2>2, <3>1, <3>2, Pendings, Settled
        <3>3. CASE call[c].counter = counter /\ m = 1
            <4>1. Pending(call[c], counter) = 1
                BY <3>3, Pendings DEF At
            <4> QED
                BY <2>2, <3>1, <3>3, <4>1, Settled
        <3>4. CASE call[c].counter = counter /\ m = -1
            <4>1. call[c].at = "counting-down" /\ call[c].counter = counter
                <5>1. m # 1
                    BY <3>4
                <5> QED
                    BY <3>4, <5>1 DEF At
            <4>2. Pending(call[c], counter) = 0 - 1
                BY <4>1, Pendings, Zenon
            <4> QED
                BY <2>2, <3>1, <3>4, <4>2, Settled
        <3> QED
            BY <3>2, <3>3, <3>4
    <2>3. post'.likeCount \in Int /\ post'.commentCount \in Int
        BY <1>7 DEF PostRows
    <2>4. Counts(c, "likeCount", post.likeCount, post'.likeCount, Cardinality(likes), Cardinality(likes'))
        BY <1>7, <2>1, <2>2, <2>3
    <2>5. Counts(c, "commentCount", post.commentCount, post'.commentCount,
                 Cardinality(comments), Cardinality(comments'))
        BY <1>7, <2>1, <2>2, <2>3
    <2> QED
        BY <2>4, <2>5 DEF CountsRight
<1> QED
    BY <1>1, <1>3, <1>8, <1>9, <1>10, <1>11, ForumWrite

\* An edit writes the row as it was read; alone, it has not become stale.
LEMMA SavePostInv ==
    ASSUME FramesOK, ForumInv, NEW c \in Calls, SavePost(c) \/ RemovePost(c)
    PROVE  ForumInv' /\ Turn(c, ForumAwaits)
<1> USE DEF ForumInv
<1>1. /\ call' = [call EXCEPT ![c] = call'[c]]
      /\ call'[c] \in Frames /\ call'[c].at = "idle"
    BY Ended DEF SavePost, RemovePost
<1>2. /\ At(c, "saving") \/ At(c, "removing")
      /\ UNCHANGED <<likes, comments, used, mixed>>
    BY DEF SavePost, RemovePost
<1>3. Turn(c, ForumAwaits) /\ Of(c, ForumAwaits)
    BY <1>1, <1>2 DEF Turn, Of, ForumAwaits, At
<1>4. \A d \in Calls \ {c} : call'[d] = call[d]
    BY <1>3, TurnOthers
<1>5. SavePost(c) =>
        /\ At(c, "saving") /\ call[c].row \in PostRows /\ post' \in PostRows
        /\ post'.likeCount = call[c].row.likeCount /\ post'.commentCount = call[c].row.commentCount
    <2> SUFFICES ASSUME SavePost(c)
                 PROVE  /\ At(c, "saving") /\ call[c].row \in PostRows /\ post' \in PostRows
                        /\ post'.likeCount = call[c].row.likeCount
                        /\ post'.commentCount = call[c].row.commentCount
        OBVIOUS
    <2>1. At(c, "saving") /\ call[c].row \in PostRows
        BY DEF SavePost, ForumTables
    <2>2. call[c] \in EditFrames
        BY <2>1, ForumShape DEF At
    <2>3. call[c].hide \in BOOLEAN \/ call[c].hide = NULL
        BY <2>2 DEF EditFrames
    <2>4. post' = call[c].row \/ \E b \in BOOLEAN : post' = [call[c].row EXCEPT !.hidden = b]
        BY <2>3 DEF SavePost
    <2> QED
        BY <2>1, <2>4 DEF PostRows
<1>6. RemovePost(c) => post' = NULL
    BY DEF RemovePost
<1>7. ForumTypeOK' /\ IsFiniteSet(likes') /\ IsFiniteSet(comments')
    BY <1>2, <1>5, <1>6 DEF ForumTables, ForumTypeOK, PostRows
<1>8. CommentsAreNew'
    BY <1>1, <1>2, <1>3, NewKept DEF Adding
<1>9. ~mixed => \A d \in Calls \ {c} : ReadStillHolds(d)'
    BY <1>2, <1>3, <1>4, SavesAlone DEF ReadStillHolds, At
<1>10. ~mixed /\ post' # NULL => CountsRight(c)
    <2> SUFFICES ASSUME ~mixed, post' # NULL PROVE CountsRight(c)
        OBVIOUS
    <2>1. SavePost(c)
        BY <1>6
    <2>2. post # NULL /\ post = call[c].row /\ post \in PostRows
        BY <1>5, <2>1 DEF ReadStillHolds
    <2>3. /\ post.likeCount \in Int /\ post.commentCount \in Int
          /\ Cardinality(likes) \in Nat /\ Cardinality(comments) \in Nat
        BY <2>2, FS_CardinalityType DEF ForumTables, PostRows
    <2>4. /\ Pending(call'[c], "likeCount") = 0 /\ Pending(call'[c], "commentCount") = 0
          /\ Pending(call[c], "likeCount") = 0 /\ Pending(call[c], "commentCount") = 0
        BY <1>1, <1>2, Pendings DEF At
    <2>5. post'.likeCount = post.likeCount /\ post'.commentCount = post.commentCount
        BY <1>5, <2>1, <2>2
    <2>6. Counts(c, "likeCount", post.likeCount, post'.likeCount, Cardinality(likes), Cardinality(likes'))
        BY <1>2, <2>3, <2>4, <2>5, Settled
    <2>7. Counts(c, "commentCount", post.commentCount, post'.commentCount,
                 Cardinality(comments), Cardinality(comments'))
        BY <1>2, <2>3, <2>4, <2>5, Settled
    <2> QED
        BY <2>2, <2>6, <2>7 DEF CountsRight
<1> QED
    BY <1>1, <1>2, <1>3, <1>7, <1>8, <1>9, <1>10, ForumWrite

\* The fields of a frame tell its part.
LEMMA FrameFields ==
    ASSUME NEW f \in Frames
    PROVE  /\ "about" \in DOMAIN f => f.at \in ForumAwaits
           /\ "locks" \in DOMAIN f <=> f.at \in TraceAwaits
           /\ "campaign" \in DOMAIN f => f.at \in AdAwaits
           /\ f = Idle => f.at = "idle"
<1>1. f = Idle => /\ "about" \notin DOMAIN f /\ "locks" \notin DOMAIN f /\ "campaign" \notin DOMAIN f
                  /\ f.at = "idle"
    BY DEF Idle
<1>2. f \in ForumFrames =>
        "locks" \notin DOMAIN f /\ "campaign" \notin DOMAIN f /\ f.at \in ForumAwaits
    BY DEF ForumFrames, ForumAwaits, LikeFrames, CommentFrames, UncommentFrames, ViewFrames,
           EditFrames, DeleteFrames
<1>3. f \in TraceFrames =>
        /\ "about" \notin DOMAIN f /\ "locks" \in DOMAIN f /\ "campaign" \notin DOMAIN f
        /\ f.at \in TraceAwaits
    BY DEF TraceFrames
<1>4. f \in ReviewFrames =>
        /\ "about" \notin DOMAIN f /\ "locks" \notin DOMAIN f /\ "campaign" \notin DOMAIN f
        /\ f.at \in ReviewAwaits
    BY DEF ReviewFrames, ReviewAwaits
<1>5. f \in NoticeFrames =>
        /\ "about" \notin DOMAIN f /\ "locks" \notin DOMAIN f /\ "campaign" \notin DOMAIN f
        /\ f.at \in NoticeAwaits
    BY DEF NoticeFrames, NoticeAwaits
<1>6. f \in AdFrames =>
        /\ "about" \notin DOMAIN f /\ "locks" \notin DOMAIN f
        /\ f.at \in AdAwaits
    BY DEF AdFrames, ModerationFrames, AdAwaits
<1>7. f \in ProductFrames =>
        /\ "about" \notin DOMAIN f /\ "locks" \notin DOMAIN f /\ "campaign" \notin DOMAIN f
        /\ f.at \notin TraceAwaits
    BY ProductFrameFields DEF ProductAwaits, TraceAwaits
<1> QED
    BY <1>1, <1>2, <1>3, <1>4, <1>5, <1>6, <1>7
    DEF Frames, ForumAwaits, TraceAwaits, ReviewAwaits, NoticeAwaits, AdAwaits

\* The process dies within a request of the forum.
LEMMA CrashForumInv ==
    ASSUME FramesOK, ForumInv, NEW c \in Calls, CrashForum(c)
    PROVE  ForumInv' /\ Turn(c, ForumAwaits)
<1> USE DEF ForumInv
<1>1. /\ call' = [call EXCEPT ![c] = call'[c]]
      /\ call'[c] \in Frames /\ call'[c].at = "idle"
    BY Ended DEF CrashForum, Die
<1>2. UNCHANGED <<post, likes, comments, used>> /\ mixed'
    BY DEF CrashForum
<1>3. Turn(c, ForumAwaits)
    BY <1>1, FrameFields DEF Turn, CrashForum, FramesOK
<1>4. \A d \in Calls \ {c} : call'[d] = call[d]
    BY <1>3, TurnOthers
<1>5. \A await \in {"counting-up", "counting-down"}, counter \in {"likeCount", "commentCount"} :
          IsFiniteSet(Due(await, counter)')
    BY <1>3, DueKept DEF DueTurns
<1>6. \A d \in Calls : At(d, "saving")' => call'[d].row \in PostRows
    BY <1>1, <1>4 DEF ForumTables, At
<1>7. ForumTypeOK'
    BY <1>2 DEF ForumTables, ForumTypeOK
<1>8. ForumTables'
    BY <1>2, <1>5, <1>6, <1>7 DEF ForumTables
<1>9. CommentsAreNew'
    BY <1>1, <1>2, <1>3, NewKept DEF Adding
<1> QED
    BY <1>2, <1>3, <1>8, <1>9

\* Every step of the forum keeps its invariant.
LEMMA ForumStepInv ==
    ASSUME FramesOK, ForumInv, NEW c \in Calls, ForumStep(c)
    PROVE  ForumInv' /\ Turn(c, ForumAwaits)
<1>1. CASE \/ ToggleLike(c) \/ AddComment(c) \/ DeleteComment(c) \/ ViewPost(c)
           \/ EditPost(c) \/ DeletePost(c)
    BY <1>1, ForumArrives
<1>2. CASE \/ LikePost(c) \/ FindLike(c) \/ CommentPost(c) \/ FindComment(c)
           \/ FindViewed(c) \/ ReadPost(c) \/ FindDeleted(c)
    BY <1>2, ForumLooks
<1>3. CASE CountUp(c)
    <2>1. Count(c, 1) /\ End(c) /\ At(c, "counting-up") /\ UNCHANGED <<likes, comments, used, mixed>>
        BY <1>3 DEF CountUp
    <2> QED
        BY <2>1, CountInv
<1>4. CASE CountDown(c)
    <2>1. Count(c, -1) /\ End(c) /\ At(c, "counting-down") /\ UNCHANGED <<likes, comments, used, mixed>>
        BY <1>4 DEF CountDown
    <2> QED
        BY <2>1, CountInv
<1> QED
    BY <1>1, <1>2, <1>3, <1>4, RemoveLikeInv, SaveLikeInv, SaveCommentInv, RemoveCommentInv,
       SavePostInv, CrashForumInv DEF ForumStep

\* A step of another part leaves the forum as it is.
LEMMA ForumRest ==
    ASSUME FramesOK, ForumInv, NEW c \in Calls, NEW awaits, Turn(c, awaits),
           awaits \cap ForumAwaits = {}, UNCHANGED forumRows
    PROVE  ForumInv'
<1>1. UNCHANGED <<post, likes, comments, used, mixed>>
    BY DEF forumRows
<1>2. \A d \in Calls : /\ Of(d, ForumAwaits) => call'[d] = call[d]
                       /\ Of(d, ForumAwaits)' => call'[d] = call[d]
    BY TurnElsewhere DEF ForumAwaits
<1>3. \A await \in {"counting-up", "counting-down"}, counter \in {"likeCount", "commentCount"} :
          Due(await, counter)' = Due(await, counter)
    BY <1>2 DEF Due, At, Of, ForumAwaits
<1>4. ForumTables' /\ CommentsAreNew'
    BY <1>1, <1>2, <1>3 DEF ForumInv, ForumTables, ForumTypeOK, CommentsAreNew, Adding, At, Of, ForumAwaits
<1>5. ~mixed => Apart' /\ \A d \in Calls : ReadStillHolds(d)'
    BY <1>1, <1>2 DEF ForumInv, Apart, ReadStillHolds, At, Of, ForumAwaits
<1>6. ~mixed => CountersAreDue'
    BY <1>1, <1>3 DEF ForumInv, CountersAreDue, LikesAreDue, CommentsAreDue
<1> QED
    BY <1>1, <1>4, <1>5, <1>6 DEF ForumInv

-----------------------------------------------------------------------------
(* The timelines *)

\* The frame of a request about a batch.
LEMMA TraceShape ==
    ASSUME FramesOK, NEW c \in Calls
    PROVE  /\ Of(c, TraceAwaits) => call[c] \in TraceFrames
           /\ "locks" \in DOMAIN call[c] <=> Of(c, TraceAwaits)
<1>1. call[c] \in Frames
    BY DEF FramesOK
<1> QED
    BY <1>1, FrameShapes, FrameFields DEF Of

\* A free lock is held by no transaction.
LEMMA Frees ==
    ASSUME FramesOK, NEW lock, Free(lock)
    PROVE  \A d \in Calls : Of(d, TraceAwaits) => lock \notin call[d].locks
BY TraceShape DEF Free, Holds

\* The step of a transaction that leaves the events.
LEMMA TraceLook ==
    ASSUME FramesOK, TraceInv, NEW c \in Calls, Turn(c, TraceAwaits), events' = events,
           Of(c, TraceAwaits)' => TraceHolds(c)',
           Of(c, TraceAwaits)' =>
             \A lock \in call'[c].locks : (Of(c, TraceAwaits) /\ lock \in call[c].locks) \/ Free(lock),
           AnsweredAsStored', AppendsAreNotInTheWay'
    PROVE  TraceInv'
<1> USE DEF TraceInv
<1>1. \A d \in Calls \ {c} : call'[d] = call[d]
    BY TurnOthers
<1>2. \A b, key : EventsOf(b)' = EventsOf(b) /\ WithKey(key)' = WithKey(key)
    BY DEF EventsOf, WithKey
<1>3. LocksApart'
    <2> SUFFICES ASSUME NEW d \in Calls, d # c, Of(c, TraceAwaits)', Of(d, TraceAwaits)'
                 PROVE  call'[c].locks \cap call'[d].locks = {}
        BY <1>1 DEF LocksApart, Of
    <2>1. call'[d] = call[d] /\ Of(d, TraceAwaits)
        BY <1>1 DEF Of
    <2>2. ASSUME NEW lock \in call'[c].locks, lock \in call[d].locks PROVE FALSE
        <3>1. CASE Of(c, TraceAwaits) /\ lock \in call[c].locks
            BY <2>1, <2>2, <3>1 DEF LocksApart
        <3>2. CASE Free(lock)
            BY <2>1, <2>2, <3>2, Frees
        <3> QED
            BY <2>2, <3>1, <3>2
    <2> QED
        BY <2>1, <2>2
<1>4. ASSUME NEW d \in Calls, Of(d, TraceAwaits)' PROVE TraceHolds(d)'
    <2>1. CASE d = c
        BY <1>4, <2>1
    <2>2. CASE d # c
        <3>1. call'[d] = call[d] /\ Of(d, TraceAwaits)
            BY <1>1, <1>4, <2>2 DEF Of
        <3>2. TraceHolds(d)
            BY <3>1
        <3> QED
            BY <1>2, <3>1, <3>2 DEF TraceHolds, At, Creates
    <2> QED
        BY <2>1, <2>2
<1>5. TraceTypeOK' /\ KeysAreUsedOnce'
    BY DEF TraceTypeOK, KeysAreUsedOnce
<1>6. \A b \in Batches : TimelineOf(b)'
    BY <1>2 DEF TimelineOf
<1> QED
    BY <1>3, <1>4, <1>5, <1>6

\* The step leaves the rows and adds no lock that is not free.
LEMMA TraceGoes ==
    ASSUME FramesOK, TraceInv, NEW c \in Calls, Turn(c, TraceAwaits), UNCHANGED traceRows,
           Of(c, TraceAwaits)' => TraceHolds(c)',
           Of(c, TraceAwaits)' =>
             \A lock \in call'[c].locks : (Of(c, TraceAwaits) /\ lock \in call[c].locks) \/ Free(lock)
    PROVE  TraceInv'
<1>1. UNCHANGED <<events, answered, refused>>
    BY DEF traceRows
<1>2. AnsweredAsStored' /\ AppendsAreNotInTheWay'
    BY <1>1 DEF TraceInv, AnsweredAsStored, AppendsAreNotInTheWay, WithKey
<1> QED
    BY <1>1, <1>2, TraceLook

\* A transaction that ends is nowhere.
LEMMA TraceEnded ==
    ASSUME FramesOK, NEW c \in Calls, Of(c, TraceAwaits), End(c)
    PROVE  Turn(c, TraceAwaits) /\ ~Of(c, TraceAwaits)'
<1>1. /\ call' = [call EXCEPT ![c] = call'[c]]
      /\ call'[c] \in Frames /\ call'[c].at = "idle"
    BY Ended
<1> QED
    BY <1>1 DEF Turn, Of, TraceAwaits

\* A request about a batch that ends and leaves the tables.
LEMMA TraceEnds ==
    ASSUME FramesOK, TraceInv, NEW c \in Calls, Of(c, TraceAwaits), End(c), UNCHANGED traceRows
    PROVE  TraceInv' /\ Turn(c, TraceAwaits)
BY TraceEnded, TraceGoes

\* There is one event of a key.
LEMMA OneOfKey ==
    ASSUME KeysAreUsedOnce, NEW key, NEW e \in WithKey(key)
    PROVE  WithKey(key) = {e}
BY DEF KeysAreUsedOnce, WithKey

\* A success is recorded: the event asked for is stored under the key.
LEMMA AnswerInv ==
    ASSUME FramesOK, TraceInv, NEW c \in Calls, Of(c, TraceAwaits), NEW e \in WithKey(call[c].key),
           e.batch = call[c].batch, e.fact = call[c].fact, Answer(c, e.batch)
    PROVE  TraceInv' /\ Turn(c, TraceAwaits)
<1> DEFINE a == [key |-> call[c].key, fact |-> call[c].fact, asked |-> call[c].batch, batch |-> e.batch]
<1>1. answered' = answered \cup {a} /\ End(c) /\ UNCHANGED <<events, refused>>
    BY DEF Answer
<1>2. Turn(c, TraceAwaits) /\ ~Of(c, TraceAwaits)'
    BY <1>1, TraceEnded
<1>3. e \in events /\ WithKey(call[c].key) = {e}
    BY OneOfKey DEF TraceInv, WithKey
<1>4. \A key : WithKey(key)' = WithKey(key)
    BY <1>1 DEF WithKey
<1>5. a.key = call[c].key /\ a.fact = call[c].fact /\ a.asked = call[c].batch /\ a.batch = e.batch
    OBVIOUS
<1> HIDE DEF a
<1>6. AnsweredAsStored'
    <2> SUFFICES ASSUME NEW x \in answered'
                 PROVE  /\ x.batch = x.asked
                        /\ \E f \in events : WithKey(x.key) = {f} /\ f.batch = x.batch /\ f.fact = x.fact
        BY <1>1, <1>4 DEF AnsweredAsStored
    <2>1. CASE x \in answered
        BY <2>1 DEF TraceInv, AnsweredAsStored
    <2>2. CASE x = a
        BY <1>3, <1>5, <2>2
    <2> QED
        BY <1>1, <2>1, <2>2
<1>7. AppendsAreNotInTheWay'
    BY <1>1, <1>4 DEF TraceInv, AppendsAreNotInTheWay
<1> QED
    BY <1>1, <1>2, <1>6, <1>7, TraceLook

\* An append is refused: its key stands for another event.
LEMMA RefuseInv ==
    ASSUME FramesOK, TraceInv, NEW c \in Calls, Of(c, TraceAwaits), Refuse(c),
           \/ Creates(c)
           \/ \E e \in WithKey(call[c].key) : e.batch # call[c].batch \/ e.fact # call[c].fact
    PROVE  TraceInv' /\ Turn(c, TraceAwaits)
<1>1. /\ refused' = refused \cup {r \in {Request(c)} : r.fact # "BATCH_CREATED"}
      /\ End(c) /\ UNCHANGED <<events, answered>>
    BY DEF Refuse
<1>2. Turn(c, TraceAwaits) /\ ~Of(c, TraceAwaits)'
    BY <1>1, TraceEnded
<1>3. \A key : WithKey(key)' = WithKey(key)
    BY <1>1 DEF WithKey
<1>4. Request(c).key = call[c].key /\ Request(c).fact = call[c].fact /\ Request(c).batch = call[c].batch
    BY DEF Request
<1>5. AppendsAreNotInTheWay'
    <2> SUFFICES ASSUME NEW r \in refused'
                 PROVE  \E e \in WithKey(r.key) : e.batch # r.batch \/ e.fact # r.fact
        BY <1>1, <1>3 DEF AppendsAreNotInTheWay
    <2>1. CASE r \in refused
        BY <2>1 DEF TraceInv, AppendsAreNotInTheWay
    <2>2. CASE r = Request(c) /\ r.fact # "BATCH_CREATED"
        BY <1>4, <2>2 DEF Creates
    <2> QED
        BY <1>1, <2>1, <2>2
<1>6. AnsweredAsStored'
    BY <1>1, <1>3 DEF TraceInv, AnsweredAsStored
<1> QED
    BY <1>1, <1>2, <1>5, <1>6, TraceLook

\* A replay is answered as stored or refused.
LEMMA ReplayInv ==
    ASSUME FramesOK, TraceInv, NEW c \in Calls, Of(c, TraceAwaits), NEW e \in WithKey(call[c].key),
           Replay(c, e)
    PROVE  TraceInv' /\ Turn(c, TraceAwaits)
<1>1. CASE e.batch = call[c].batch /\ e.fact = call[c].fact
    BY <1>1, AnswerInv DEF Replay
<1>2. CASE e.batch # call[c].batch \/ e.fact # call[c].fact
    BY <1>2, RefuseInv DEF Replay
<1> QED
    BY <1>1, <1>2

\* The fields of a transaction, and how a step changes them.
LEMMA TraceFields ==
    ASSUME NEW f \in TraceFrames
    PROVE  /\ f.at \in TraceAwaits /\ f.batch \in Batches /\ f.fact \in TraceFacts /\ f.key \in Keys
           /\ f.locks \subseteq TraceLocks /\ f.row \in {{}} \cup EventRows
BY DEF TraceFrames

\* What a step of a transaction keeps of its frame.
SameRequest(c) ==
    call'[c].batch = call[c].batch /\ call'[c].fact = call[c].fact /\ call'[c].key = call[c].key

\* A transaction at its next await, with more locks.
LEMMA Stepped ==
    ASSUME FramesOK, NEW c \in Calls, Of(c, TraceAwaits), NEW await \in TraceAwaits,
           NEW locks \in SUBSET TraceLocks, Step(c, await, locks)
    PROVE  /\ Turn(c, TraceAwaits) /\ SameRequest(c) /\ call'[c].row = call[c].row
           /\ call'[c].at = await /\ call'[c].locks = call[c].locks \cup locks
<1>1. /\ call' = [call EXCEPT ![c] = call'[c]]
      /\ call'[c] = [call[c] EXCEPT !.at = await, !.locks = call[c].locks \cup locks]
    BY DEF FramesOK, Step
<1>2. call[c] \in TraceFrames /\ call[c].locks \cup locks \in SUBSET TraceLocks
    BY TraceShape, TraceFields
<1>3. call'[c] \in TraceFrames /\ call'[c].at = await /\ SameRequest(c) /\ call'[c].row = call[c].row
      /\ call'[c].locks = call[c].locks \cup locks
    BY <1>1, <1>2 DEF TraceFrames, SameRequest
<1> QED
    BY <1>1, <1>3 DEF Turn, Frames, Of

\* A transaction leaves its locks.
LEMMA Unlocked ==
    ASSUME FramesOK, NEW c \in Calls, Of(c, TraceAwaits), NEW await \in TraceAwaits,
           call' = [call EXCEPT ![c].at = await, ![c].locks = {}]
    PROVE  /\ Turn(c, TraceAwaits) /\ SameRequest(c) /\ call'[c].row = call[c].row
           /\ call'[c].at = await /\ call'[c].locks = {}
<1>1. /\ call' = [call EXCEPT ![c] = call'[c]]
      /\ call'[c] = [call[c] EXCEPT !.at = await, !.locks = {}]
    BY DEF FramesOK
<1> PICK none \in SUBSET TraceLocks : none = {}
    OBVIOUS
<1> PICK f : f = call[c]
    OBVIOUS
<1> PICK g : g = [f EXCEPT !.at = await, !.locks = none]
    OBVIOUS
<1>2. f \in TraceFrames
    BY TraceShape
<1>3. g \in TraceFrames
    BY <1>2 DEF TraceFrames
<1>4. /\ g.at = await /\ g.row = f.row /\ g.locks = none
      /\ g.batch = f.batch /\ g.key = f.key /\ g.fact = f.fact
    BY <1>2 DEF TraceFrames
<1>5. call'[c] = g
    BY <1>1
<1>6. SameRequest(c) /\ call'[c].row = call[c].row /\ call'[c].at = await /\ call'[c].locks = {}
    BY <1>4, <1>5 DEF SameRequest
<1>7. call'[c] \in Frames
    BY <1>3, <1>5 DEF Frames
<1> QED
    BY <1>1, <1>6, <1>7 DEF Turn, Of

\* A create or an append arrives.
LEMMA TraceArrives ==
    ASSUME FramesOK, TraceInv, NEW c \in Calls, CreateBatch(c) \/ AppendEvent(c)
    PROVE  TraceInv' /\ Turn(c, TraceAwaits)
<1>1. ASSUME NEW await \in {"locking-key", "locking-batch"}, NEW b \in Batches, NEW fact \in TraceFacts,
             NEW key \in Keys, Trace(c, await, b, fact, key), UNCHANGED traceRows,
             (await = "locking-key") = (fact = "BATCH_CREATED")
      PROVE  TraceInv' /\ Turn(c, TraceAwaits)
    <2> DEFINE f == [at |-> await, batch |-> b, fact |-> fact, key |-> key, locks |-> {}, row |-> {}]
    <2>1. f \in TraceFrames
        BY <1>1 DEF TraceFrames, TraceAwaits
    <2>2. /\ call' = [call EXCEPT ![c] = call'[c]] /\ call'[c] = f /\ call[c].at = "idle"
        BY <1>1, Received DEF Trace
    <2>3. Turn(c, TraceAwaits)
        BY <1>1, <2>1, <2>2 DEF Turn, Frames, TraceAwaits
    <2>4. TraceHolds(c)' /\ call'[c].locks = {}
        BY <1>1, <2>2 DEF TraceHolds, At, Creates
    <2> QED
        BY <1>1, <2>3, <2>4, TraceGoes
<1>2. CASE CreateBatch(c)
    BY <1>1, <1>2 DEF CreateBatch, TraceFacts
<1>3. CASE AppendEvent(c)
    <2> PICK b \in Batches, fact \in Facts, key \in Keys : Trace(c, "locking-batch", b, fact, key)
        BY <1>3 DEF AppendEvent
    <2>1. fact \in TraceFacts /\ fact # "BATCH_CREATED"
        BY TraceAssumption DEF TraceFacts
    <2> QED
        BY <1>1, <1>3, <2>1 DEF AppendEvent
<1> QED
    BY <1>2, <1>3

\* The advisory lock of a key or the row lock of a batch is taken.
LEMMA TraceLocked ==
    ASSUME FramesOK, TraceInv, NEW c \in Calls, LockKey(c) \/ LockBatch(c)
    PROVE  TraceInv' /\ Turn(c, TraceAwaits)
<1> USE DEF TraceInv
<1>1. Of(c, TraceAwaits) /\ UNCHANGED traceRows /\ TraceHolds(c)
    BY DEF LockKey, LockBatch, At, Of, TraceAwaits
<1>2. call[c].key \in Keys /\ call[c].batch \in Batches
    BY <1>1, TraceShape, TraceFields
<1>3. UNCHANGED <<events, answered, refused>>
    BY <1>1 DEF traceRows
<1>4. CASE LockKey(c)
    <2>1. {<<"key", call[c].key>>} \in SUBSET TraceLocks /\ "looking-up" \in TraceAwaits
        BY <1>2 DEF TraceLocks, TraceAwaits
    <2>2. /\ Turn(c, TraceAwaits) /\ SameRequest(c) /\ call'[c].at = "looking-up"
          /\ call'[c].locks = call[c].locks \cup {<<"key", call[c].key>>}
        BY <1>1, <1>4, <2>1, Stepped DEF LockKey
    <2>3. TraceHolds(c)'
        BY <1>1, <1>4, <2>2 DEF TraceHolds, At, Creates, SameRequest, LockKey
    <2>4. Free(<<"key", call[c].key>>)
        BY <1>4 DEF LockKey
    <2> QED
        BY <1>1, <2>2, <2>3, <2>4, TraceGoes
<1>5. CASE LockBatch(c) /\ EventsOf(call[c].batch) = {}
    BY <1>1, <1>5, TraceEnds DEF LockBatch
<1>6. CASE LockBatch(c) /\ EventsOf(call[c].batch) # {}
    <2>1. {<<"batch", call[c].batch>>} \in SUBSET TraceLocks /\ "looking-up" \in TraceAwaits
        BY <1>2 DEF TraceLocks, TraceAwaits
    <2>2. Step(c, "looking-up", {<<"batch", call[c].batch>>}) /\ Free(<<"batch", call[c].batch>>)
        BY <1>6 DEF LockBatch, BatchIsFree
    <2>3. /\ Turn(c, TraceAwaits) /\ SameRequest(c) /\ call'[c].at = "looking-up"
          /\ call'[c].locks = call[c].locks \cup {<<"batch", call[c].batch>>}
        BY <1>1, <2>1, <2>2, Stepped
    <2>4. TraceHolds(c)'
        BY <1>1, <1>3, <1>6, <2>3 DEF TraceHolds, At, Creates, SameRequest, LockBatch, EventsOf
    <2> QED
        BY <1>1, <2>2, <2>3, <2>4, TraceGoes
<1> QED
    BY <1>4, <1>5, <1>6

\* The number of the next event is one more than the events of the batch.
LEMMA NumberAfter ==
    ASSUME NEW b \in Batches, TimelineOf(b)
    PROVE  /\ Cardinality(EventsOf(b)) \in Nat
           /\ NextNumber(b) = Cardinality(EventsOf(b)) + 1
           /\ EventsOf(b) = {} <=> Cardinality(EventsOf(b)) = 0
<1>1. PICK n \in Nat : n = Cardinality(EventsOf(b))
    BY FS_CardinalityType DEF TimelineOf
<1>2. {0} \cup {e.sequence : e \in EventsOf(b)} = 0..n
    BY <1>1 DEF TimelineOf
<1>3. \A x \in 0..n : (\A y \in 0..n : x >= y) <=> x = n
    OBVIOUS
<1>4. n \in 0..n
    OBVIOUS
<1>5. Max(0..n) = n
    BY <1>3, <1>4 DEF Max
<1>6. EventsOf(b) = {} <=> n = 0
    BY <1>1, FS_EmptySet DEF TimelineOf
<1> QED
    BY <1>1, <1>2, <1>5, <1>6 DEF NextNumber

\* The event of the key is found, or the number of the next event.
LEMMA LookUpInv ==
    ASSUME FramesOK, TraceInv, NEW c \in Calls, LookUp(c)
    PROVE  TraceInv' /\ Turn(c, TraceAwaits)
<1> USE DEF TraceInv
<1>1. Of(c, TraceAwaits) /\ At(c, "looking-up") /\ TraceHolds(c)
    BY DEF LookUp, At, Of, TraceAwaits
<1>2. /\ call[c] \in TraceFrames /\ call[c].key \in Keys /\ call[c].batch \in Batches
      /\ call[c].fact \in TraceFacts
    BY <1>1, TraceShape, TraceFields
<1>3. CASE \E e \in WithKey(call[c].key) : Replay(c, e)
    BY <1>1, <1>3, ReplayInv
<1>4. CASE UNCHANGED traceRows /\ End(c)
    BY <1>1, <1>4, TraceEnds
<1> DEFINE n == NextNumber(call[c].batch)
           row == [batch |-> call[c].batch, fact |-> call[c].fact, sequence |-> n, key |-> call[c].key]
           await == IF call[c].fact = "BATCH_CREATED" THEN "inserting-batch" ELSE "inserting-event"
<1>5. CASE /\ ~(n > MaxEvents) /\ UNCHANGED traceRows
           /\ call' = [call EXCEPT ![c].at = await, ![c].row = row]
    <2>1. /\ Cardinality(EventsOf(call[c].batch)) \in Nat
          /\ n = Cardinality(EventsOf(call[c].batch)) + 1
          /\ EventsOf(call[c].batch) = {} <=> Cardinality(EventsOf(call[c].batch)) = 0
        BY <1>2, NumberAfter
    <2>2. n \in Nat /\ n <= MaxEvents
        BY <1>5, <2>1, TraceAssumption
    <2>3. row \in EventRows /\ row.batch = call[c].batch /\ row.fact = call[c].fact
          /\ row.key = call[c].key /\ row.sequence = n
        BY <1>2, <2>2 DEF EventRows
    <2>4. await \in TraceAwaits
        BY DEF TraceAwaits
    <2> HIDE DEF row, await, n
    <2>5. /\ call' = [call EXCEPT ![c] = call'[c]]
          /\ call'[c] = [call[c] EXCEPT !.at = await, !.row = row]
        BY <1>5 DEF FramesOK
    <2>6. /\ call'[c] \in TraceFrames /\ call'[c].at = await /\ call'[c].locks = call[c].locks
          /\ SameRequest(c) /\ call'[c].row = row
        BY <1>2, <2>3, <2>4, <2>5 DEF SameRequest, TraceFrames
    <2>7. Turn(c, TraceAwaits)
        BY <1>1, <2>4, <2>5, <2>6 DEF Turn, Frames, Of
    <2>8. UNCHANGED <<events, answered, refused>>
        BY <1>5 DEF traceRows
    <2>9. \A b : EventsOf(b)' = EventsOf(b)
        BY <2>8 DEF EventsOf
    <2>10. TraceHolds(c)'
        BY <1>1, <2>1, <2>2, <2>3, <2>6, <2>9 DEF TraceHolds, At, Creates, SameRequest, await
    <2> QED
        BY <1>1, <1>5, <2>6, <2>7, <2>10, TraceGoes
<1> QED
    BY <1>3, <1>4, <1>5 DEF LookUp

\* INSERT of a batch, or its codes are refused.
LEMMA InsertBatchInv ==
    ASSUME FramesOK, TraceInv, NEW c \in Calls, InsertBatch(c)
    PROVE  TraceInv' /\ Turn(c, TraceAwaits)
<1> USE DEF TraceInv
<1>1. Of(c, TraceAwaits) /\ At(c, "inserting-batch") /\ TraceHolds(c)
    BY DEF InsertBatch, At, Of, TraceAwaits
<1>2. call[c].batch \in Batches /\ Creates(c)
    BY <1>1, TraceShape, TraceFields DEF TraceHolds
<1>3. CASE EventsOf(call[c].batch) # {}
    BY <1>1, <1>2, <1>3, RefuseInv DEF InsertBatch
<1>4. CASE EventsOf(call[c].batch) = {}
    <2> DEFINE code == <<"code", call[c].batch>>
    <2>1. {code} \in SUBSET TraceLocks /\ "inserting-event" \in TraceAwaits
        BY <1>2 DEF TraceLocks, TraceAwaits
    <2>2. Step(c, "inserting-event", {code}) /\ Free(code) /\ UNCHANGED traceRows
        BY <1>4 DEF InsertBatch
    <2>3. /\ Turn(c, TraceAwaits) /\ SameRequest(c) /\ call'[c].row = call[c].row
          /\ call'[c].at = "inserting-event" /\ call'[c].locks = call[c].locks \cup {code}
        BY <1>1, <2>1, <2>2, Stepped
    <2>4. \A b : EventsOf(b)' = EventsOf(b)
        BY <2>2 DEF EventsOf, traceRows
    <2>5. Cardinality(EventsOf(call[c].batch)) = 0
        BY <1>2, <1>4, NumberAfter
    <2>6. TraceHolds(c)'
        BY <1>1, <1>2, <1>4, <2>3, <2>4, <2>5 DEF TraceHolds, At, Creates, SameRequest
    <2> QED
        BY <1>1, <2>2, <2>3, <2>6, TraceGoes
<1> QED
    BY <1>3, <1>4

\* INSERT of an event, or its key or its place is taken.
LEMMA InsertEventInv ==
    ASSUME FramesOK, TraceInv, NEW c \in Calls, InsertEvent(c)
    PROVE  TraceInv' /\ Turn(c, TraceAwaits)
<1> USE DEF TraceInv
<1>1. Of(c, TraceAwaits) /\ At(c, "inserting-event") /\ TraceHolds(c)
    BY DEF InsertEvent, At, Of, TraceAwaits
<1>2. call[c].batch \in Batches /\ call[c].key \in Keys
    BY <1>1, TraceShape, TraceFields
<1>3. /\ call[c].row \in EventRows /\ call[c].row.batch = call[c].batch /\ call[c].row.key = call[c].key
      /\ call[c].row.sequence = Cardinality(EventsOf(call[c].batch)) + 1
    BY <1>1 DEF TraceHolds, At
<1>4. \A e \in EventsOf(call[c].batch) : e.sequence # call[c].row.sequence
    <2>1. PICK n \in Nat : n = Cardinality(EventsOf(call[c].batch))
        BY <1>2, NumberAfter
    <2>2. \A e \in EventsOf(call[c].batch) : e.sequence \in 1..n
        BY <1>2, <2>1 DEF TimelineOf
    <2> QED
        BY <1>3, <2>1, <2>2
<1> DEFINE unique == {<<"event", call[c].row.key>>, <<"place", call[c].row.batch, call[c].row.sequence>>}
<1>5. CASE /\ WithKey(call[c].key) # {} /\ UNCHANGED traceRows
           /\ call' = [call EXCEPT ![c].at = "resolving", ![c].locks = {}]
    <2>1. /\ Turn(c, TraceAwaits) /\ call'[c].at = "resolving" /\ call'[c].locks = {}
        BY <1>1, <1>5, Unlocked DEF TraceAwaits
    <2>2. TraceHolds(c)'
        BY <2>1 DEF TraceHolds, At
    <2> QED
        BY <1>5, <2>1, <2>2, TraceGoes
<1>6. CASE /\ WithKey(call[c].key) = {} /\ UNCHANGED traceRows
           /\ \A lock \in unique : Free(lock)
           /\ Step(c, "committing", unique)
    <2>1. unique \in SUBSET TraceLocks /\ "committing" \in TraceAwaits
        BY <1>2, <1>3 DEF TraceLocks, TraceAwaits, EventRows
    <2>2. /\ Step(c, "committing", unique)
          /\ \A lock \in unique : Free(lock)
        BY <1>6
    <2>3. <<"event", call[c].key>> \in unique
        BY <1>3
    <2> HIDE DEF unique
    <2>4. /\ Turn(c, TraceAwaits) /\ SameRequest(c) /\ call'[c].row = call[c].row
          /\ call'[c].at = "committing" /\ call'[c].locks = call[c].locks \cup unique
        BY <1>1, <2>1, <2>2, Stepped
    <2>5. \A b : EventsOf(b)' = EventsOf(b) /\ WithKey(b)' = WithKey(b)
        BY <1>6 DEF EventsOf, WithKey, traceRows
    <2>6. TraceHolds(c)'
        BY <1>1, <1>6, <2>3, <2>4, <2>5 DEF TraceHolds, At, Creates, SameRequest
    <2> QED
        BY <1>1, <1>6, <2>2, <2>4, <2>6, TraceGoes
<1> QED
    BY <1>3, <1>4, <1>5, <1>6 DEF InsertEvent

\* A transaction has committed or lost its key, and is answered.
LEMMA TraceAnswers ==
    ASSUME FramesOK, TraceInv, NEW c \in Calls, Project(c) \/ ResolveConflict(c) \/ CrashTrace(c)
    PROVE  TraceInv' /\ Turn(c, TraceAwaits)
<1> USE DEF TraceInv
<1>1. CASE Project(c)
    <2>1. Of(c, TraceAwaits) /\ At(c, "projecting") /\ TraceHolds(c) /\ Answer(c, call[c].row.batch)
        BY <1>1 DEF Project, At, Of, TraceAwaits
    <2>2. /\ call[c].row \in events /\ call[c].row.batch = call[c].batch
          /\ call[c].row.fact = call[c].fact /\ call[c].row.key = call[c].key
        BY <2>1 DEF TraceHolds, At
    <2>3. call[c].row \in WithKey(call[c].key)
        BY <2>2 DEF WithKey
    <2> QED
        BY <2>1, <2>2, <2>3, AnswerInv
<1>2. CASE ResolveConflict(c)
    <2>1. Of(c, TraceAwaits)
        BY <1>2 DEF ResolveConflict, At, Of, TraceAwaits
    <2> QED
        BY <1>2, <2>1, ReplayInv DEF ResolveConflict, Resolve
<1>3. CASE CrashTrace(c)
    <2>1. Of(c, TraceAwaits)
        BY <1>3, TraceShape DEF CrashTrace
    <2> QED
        BY <1>3, <2>1, TraceEnds DEF CrashTrace, Die
<1> QED
    BY <1>1, <1>2, <1>3

\* A set of rows is numbered from 1 to n.
Numbered(S, n) ==
    IsFiniteSet(S) /\ Cardinality(S) = n /\ {e.sequence : e \in S} = 1..n

\* A timeline grows by the next event.
LEMMA TimelineGrows ==
    ASSUME NEW S, NEW row, NEW n \in Nat, Numbered(S, n), row.sequence = n + 1
    PROVE  Numbered(S \cup {row}, n + 1)
<1> USE DEF Numbered
<1>1. \A e \in S : e.sequence \in 1..n
    OBVIOUS
<1>2. row \notin S
    BY <1>1
<1>3. IsFiniteSet(S \cup {row}) /\ Cardinality(S \cup {row}) = n + 1
    BY <1>2, FS_AddElement
<1>4. {e.sequence : e \in S \cup {row}} = {e.sequence : e \in S} \cup {row.sequence}
    OBVIOUS
<1>5. (1..n) \cup {n + 1} = 1..(n + 1)
    OBVIOUS
<1> QED
    BY <1>3, <1>4, <1>5

\* An event more, which is the next of its batch.
LEMMA CommitInv ==
    ASSUME FramesOK, TraceInv, NEW c \in Calls, Commit(c)
    PROVE  TraceInv' /\ Turn(c, TraceAwaits)
<1> USE DEF TraceInv
<1>1. /\ Of(c, TraceAwaits) /\ At(c, "committing") /\ TraceHolds(c)
      /\ events' = events \cup {call[c].row} /\ UNCHANGED <<answered, refused>>
    BY DEF Commit, At, Of, TraceAwaits
<1>2. /\ Turn(c, TraceAwaits) /\ SameRequest(c) /\ call'[c].row = call[c].row
      /\ call'[c].at = "projecting" /\ call'[c].locks = {}
    BY <1>1, Unlocked DEF Commit, TraceAwaits
<1>3. PICK row, b, key : row = call[c].row /\ b = call[c].batch /\ key = call[c].key
    OBVIOUS
<1>4. b \in Batches /\ key \in Keys /\ call[c].fact \in TraceFacts
    BY <1>1, <1>3, TraceShape, TraceFields
<1>5. PICK n \in Nat : n = Cardinality(EventsOf(b)) /\ (EventsOf(b) = {} <=> n = 0)
    BY <1>4, NumberAfter
<1>6. /\ row \in EventRows /\ row.batch = b /\ row.fact = call[c].fact /\ row.key = key
      /\ row.sequence = n + 1 /\ row.sequence <= MaxEvents /\ WithKey(key) = {}
    BY <1>1, <1>3, <1>5 DEF TraceHolds, At
<1>7. /\ <<"event", key>> \in call[c].locks
      /\ Creates(c) => <<"code", b>> \in call[c].locks /\ EventsOf(b) = {}
      /\ ~Creates(c) => <<"batch", b>> \in call[c].locks /\ EventsOf(b) # {}
    BY <1>1, <1>3 DEF TraceHolds, At
<1>8. /\ EventsOf(b)' = EventsOf(b) \cup {row}
      /\ \A x : x # b => EventsOf(x)' = EventsOf(x)
    BY <1>1, <1>3, <1>6 DEF EventsOf
<1>9. /\ WithKey(key)' = {row}
      /\ \A x : x # key => WithKey(x)' = WithKey(x)
    BY <1>1, <1>3, <1>6 DEF WithKey
<1>10. \A d \in Calls \ {c} : call'[d] = call[d]
    BY <1>2, TurnOthers
<1>11. TraceTypeOK'
    BY <1>1, <1>3, <1>6, TraceAssumption DEF TraceTypeOK, Events, EventRows, TraceFacts
<1>12. LocksApart'
    <2> SUFFICES ASSUME NEW d \in Calls, NEW x \in Calls, d # x, Of(d, TraceAwaits)', Of(x, TraceAwaits)'
                 PROVE  call'[d].locks \cap call'[x].locks = {}
        BY DEF LocksApart
    <2>1. CASE d = c \/ x = c
        BY <1>2, <2>1
    <2>2. CASE d # c /\ x # c
        BY <1>10, <2>2 DEF LocksApart, Of
    <2> QED
        BY <2>1, <2>2
<1>13. \A x \in Batches : TimelineOf(x)'
    <2>1. TimelineOf(b)'
        <3>1. IsFiniteSet(EventsOf(b)) /\ {e.sequence : e \in EventsOf(b)} = 1..n
            BY <1>4, <1>5 DEF TimelineOf
        <3>2. /\ IsFiniteSet(EventsOf(b)') /\ Cardinality(EventsOf(b)') = n + 1
              /\ {e.sequence : e \in EventsOf(b)'} = 1..(n + 1)
            <4>1. PICK S : S = EventsOf(b)
                OBVIOUS
            <4>2. Numbered(S, n)
                BY <1>5, <3>1, <4>1 DEF Numbered
            <4>3. row.sequence = n + 1 /\ n \in Nat
                BY <1>5, <1>6
            <4>4. Numbered(S \cup {row}, n + 1)
                BY <4>2, <4>3, TimelineGrows
            <4> QED
                BY <1>8, <4>1, <4>4 DEF Numbered
        <3>3. (row.sequence = 1) = (row.fact = "BATCH_CREATED")
            BY <1>5, <1>6, <1>7 DEF Creates
        <3>4. \A e \in EventsOf(b)' : (e.sequence = 1) = (e.fact = "BATCH_CREATED")
            BY <1>4, <1>8, <3>3 DEF TimelineOf
        <3> QED
            BY <3>2, <3>4 DEF TimelineOf
    <2>2. ASSUME NEW x \in Batches, x # b PROVE TimelineOf(x)'
        BY <1>8, <2>2 DEF TimelineOf
    <2> QED
        BY <2>1, <2>2
<1>14. KeysAreUsedOnce'
    <2>1. \A e \in events : e.key # key
        BY <1>6 DEF WithKey
    <2> QED
        BY <1>1, <1>3, <1>6, <2>1 DEF KeysAreUsedOnce
<1>15. AnsweredAsStored'
    <2>1. \A a \in answered : a.key # key /\ WithKey(a.key)' = WithKey(a.key)
        BY <1>6, <1>9 DEF AnsweredAsStored
    <2> QED
        BY <1>1, <2>1 DEF AnsweredAsStored
<1>16. AppendsAreNotInTheWay'
    <2>1. \A r \in refused : r.key # key /\ WithKey(r.key)' = WithKey(r.key)
        BY <1>6, <1>9 DEF AppendsAreNotInTheWay
    <2> QED
        BY <1>1, <2>1 DEF AppendsAreNotInTheWay
<1>17. TraceHolds(c)'
    BY <1>1, <1>2, <1>3, <1>6 DEF TraceHolds, At, SameRequest
<1>18. ASSUME NEW d \in Calls, d # c, Of(d, TraceAwaits)' PROVE TraceHolds(d)'
    <2>1. call'[d] = call[d] /\ Of(d, TraceAwaits) /\ TraceHolds(d)
        BY <1>10, <1>18 DEF Of
    <2>2. call[c].locks \cap call[d].locks = {}
        BY <1>1, <1>18, <2>1 DEF LocksApart
    <2>3. call[d].at \in {"inserting-event", "committing"} => call[d].batch # b
        <3> SUFFICES ASSUME call[d].at \in {"inserting-event", "committing"}, call[d].batch = b PROVE FALSE
            OBVIOUS
        <3>1. /\ Creates(d) => <<"code", b>> \in call[d].locks /\ EventsOf(b) = {}
              /\ ~Creates(d) => <<"batch", b>> \in call[d].locks /\ EventsOf(b) # {}
            BY <2>1 DEF TraceHolds
        <3> QED
            BY <1>7, <2>2, <3>1
    <2>4. At(d, "committing") => call[d].key # key
        BY <1>7, <2>1, <2>2 DEF TraceHolds, At
    <2>5. PICK bd, keyd : bd = call[d].batch /\ keyd = call[d].key
        OBVIOUS
    <2>6. /\ EventsOf(bd) # {} => EventsOf(bd)' # {}
          /\ bd # b => EventsOf(bd)' = EventsOf(bd)
          /\ keyd # key => WithKey(keyd)' = WithKey(keyd)
        BY <1>8, <1>9
    <2>7. events \subseteq events'
        BY <1>1
    <2> QED
        BY <2>1, <2>3, <2>4, <2>5, <2>6, <2>7 DEF TraceHolds, At, Creates
<1> QED
    BY <1>2, <1>11, <1>12, <1>13, <1>14, <1>15, <1>16, <1>17, <1>18

\* Every step of a transaction keeps the invariant of the timelines.
LEMMA TraceStepInv ==
    ASSUME FramesOK, TraceInv, NEW c \in Calls, TraceStep(c)
    PROVE  TraceInv' /\ Turn(c, TraceAwaits)
BY TraceArrives, TraceLocked, LookUpInv, InsertBatchInv, InsertEventInv, CommitInv, TraceAnswers
DEF TraceStep

\* A step of another part leaves the timelines.
LEMMA TraceRest ==
    ASSUME FramesOK, TraceInv, NEW c \in Calls, NEW awaits, Turn(c, awaits),
           awaits \cap TraceAwaits = {}, UNCHANGED traceRows
    PROVE  TraceInv'
<1> USE DEF TraceInv
<1>1. UNCHANGED <<events, answered, refused>>
    BY DEF traceRows
<1>2. \A d \in Calls : /\ Of(d, TraceAwaits) => call'[d] = call[d]
                       /\ Of(d, TraceAwaits)' => call'[d] = call[d]
    BY TurnElsewhere DEF TraceAwaits
<1>3. \A b : EventsOf(b)' = EventsOf(b) /\ WithKey(b)' = WithKey(b)
    BY <1>1 DEF EventsOf, WithKey
<1>4. TraceTypeOK' /\ KeysAreUsedOnce' /\ \A b \in Batches : TimelineOf(b)'
    BY <1>1, <1>3 DEF TraceTypeOK, KeysAreUsedOnce, TimelineOf
<1>5. LocksApart'
    BY <1>2 DEF LocksApart, Of
<1>6. ASSUME NEW d \in Calls, Of(d, TraceAwaits)' PROVE TraceHolds(d)'
    <2>1. call'[d] = call[d] /\ TraceHolds(d)
        BY <1>2, <1>6 DEF Of
    <2> QED
        BY <1>1, <1>3, <2>1 DEF TraceHolds, At, Creates
<1>7. AnsweredAsStored' /\ AppendsAreNotInTheWay'
    BY <1>1, <1>3 DEF AnsweredAsStored, AppendsAreNotInTheWay
<1> QED
    BY <1>4, <1>5, <1>6, <1>7

-----------------------------------------------------------------------------
(* The reviews *)

\* The frame of a request about a review, by its await.
LEMMA ReviewShape ==
    ASSUME FramesOK, NEW c \in Calls, Of(c, ReviewAwaits)
    PROVE  /\ call[c] \in ReviewFrames /\ call[c].review \in Reviewers
           /\ At(c, "checking-buyer") => call[c] \in [at : {"checking-buyer", "checking-purchase"},
                                                      review : Reviewers]
           /\ call[c].at \in {"finding-review", "replying"} =>
                call[c] \in [at : {"finding-review", "replying"}, review : Reviewers, reply : Replies]
           /\ call[c].at \in {"finding-hidden", "hiding"} =>
                call[c] \in [at : {"finding-hidden", "hiding"}, review : Reviewers, hide : BOOLEAN,
                             by : Moderators \cup {NULL}]
<1>1. call[c] \in ReviewFrames
    BY FrameShapes DEF FramesOK, Of
<1> QED
    BY <1>1 DEF ReviewFrames, At

\* The rows of the reviews: their part of the invariant.
ReviewTables ==
    /\ ReviewsTypeOK
    /\ replied \subseteq [review : Reviewers, reply : Replies]
    /\ turns \in [Reviewers -> Seq(Turns)]
    /\ \A r \in Reviewers :
         /\ ~Reviewed(r) => turns[r] = <<>>
         /\ Reviewed(r) /\ turns[r] = <<>> => ~review[r].hidden
    /\ RepliesStay /\ ModerationsAlternate

\* What a step must do for the invariant of the reviews to hold after it.
LEMMA ReviewsStay ==
    ASSUME FramesOK, ReviewsInv, NEW c \in Calls, Turn(c, ReviewAwaits), ReviewTables',
           \A r \in Reviewers : Reviewed(r) => Reviewed(r)',
           call'[c].at \in {"replying", "hiding"} => Reviewed(call[c].review)'
    PROVE  ReviewsInv'
<1>1. \A d \in Calls \ {c} : call'[d] = call[d]
    BY TurnOthers
<1>2. ASSUME NEW d \in Calls, Of(d, ReviewAwaits)', call'[d].at \in {"replying", "hiding"}
      PROVE  Reviewed(call[d].review)'
    <2>1. CASE d = c
        BY <1>2, <2>1
    <2>2. CASE d # c
        <3>1. call'[d] = call[d] /\ Of(d, ReviewAwaits) /\ call[d].review \in Reviewers
            BY <1>1, <1>2, <2>2, ReviewShape DEF Of
        <3>2. PICK r \in Reviewers : r = call[d].review
            BY <3>1
        <3>3. Reviewed(r)
            BY <1>2, <3>1, <3>2 DEF ReviewsInv, ReviewHolds
        <3> QED
            BY <3>1, <3>2, <3>3 DEF Reviewed
    <2> QED
        BY <2>1, <2>2
<1> QED
    BY <1>2 DEF ReviewsInv, ReviewTables, ReviewHolds

\* The rows of the reviews are left.
LEMMA ReviewsLook ==
    ASSUME FramesOK, ReviewsInv, NEW c \in Calls, Turn(c, ReviewAwaits), UNCHANGED reviewRows,
           call'[c].at \in {"replying", "hiding"} => Reviewed(call'[c].review)
    PROVE  ReviewsInv'
<1>1. UNCHANGED <<review, replied, turns>>
    BY DEF reviewRows
<1>2. ReviewTables'
    BY <1>1 DEF ReviewsInv, ReviewTables, ReviewsTypeOK, Reviewed, RepliesStay, ModerationsAlternate
<1> QED
    BY <1>1, <1>2, ReviewsStay DEF Reviewed

\* A request about a review arrives.
LEMMA ReviewArrives ==
    ASSUME FramesOK, ReviewsInv, NEW c \in Calls,
           CreateReview(c) \/ ReplyToReview(c) \/ ChangeVisibility(c)
    PROVE  ReviewsInv' /\ Turn(c, ReviewAwaits)
<1>1. PICK frame \in ReviewFrames :
        /\ Receive(c, frame)
        /\ frame.at \in {"checking-buyer", "finding-review", "finding-hidden"}
    <2>1. CASE CreateReview(c)
        <3> PICK r \in Reviewers : Receive(c, [at |-> "checking-buyer", review |-> r])
            BY <2>1 DEF CreateReview
        <3>1. [at |-> "checking-buyer", review |-> r] \in ReviewFrames
            BY DEF ReviewFrames
        <3> QED
            BY <3>1
    <2>2. CASE ReplyToReview(c)
        <3> PICK r \in Reviewers, text \in Replies :
              Receive(c, [at |-> "finding-review", review |-> r, reply |-> text])
            BY <2>2 DEF ReplyToReview
        <3>1. [at |-> "finding-review", review |-> r, reply |-> text] \in ReviewFrames
            BY DEF ReviewFrames
        <3> QED
            BY <3>1
    <2>3. CASE ChangeVisibility(c)
        <3> PICK r \in Reviewers, hide \in BOOLEAN, by \in Moderators :
              Receive(c, [at |-> "finding-hidden", review |-> r, hide |-> hide,
                          by |-> IF hide THEN by ELSE NULL])
            BY <2>3 DEF ChangeVisibility
        <3> DEFINE whose == IF hide THEN by ELSE NULL
        <3>1. whose \in Moderators \cup {NULL}
            OBVIOUS
        <3> HIDE DEF whose
        <3>2. [at |-> "finding-hidden", review |-> r, hide |-> hide, by |-> whose] \in ReviewFrames
            BY <3>1 DEF ReviewFrames
        <3> QED
            BY <3>2 DEF whose
    <2> QED
        BY <2>1, <2>2, <2>3
<1>2. /\ call' = [call EXCEPT ![c] = call'[c]] /\ call'[c] = frame /\ call[c].at = "idle"
    BY <1>1, Received
<1>3. Turn(c, ReviewAwaits)
    BY <1>1, <1>2 DEF Turn, Frames, ReviewAwaits
<1>4. UNCHANGED reviewRows
    BY DEF CreateReview, ReplyToReview, ChangeVisibility
<1> QED
    BY <1>1, <1>2, <1>3, <1>4, ReviewsLook

\* A request about a review is answered.
LEMMA ReviewEnded ==
    ASSUME FramesOK, NEW c \in Calls, Of(c, ReviewAwaits), End(c)
    PROVE  Turn(c, ReviewAwaits) /\ call'[c].at = "idle"
<1>1. /\ call' = [call EXCEPT ![c] = call'[c]]
      /\ call'[c] \in Frames /\ call'[c].at = "idle"
    BY Ended
<1> QED
    BY <1>1 DEF Turn, Of

\* A request about a review has read it.
LEMMA ReviewReads ==
    ASSUME FramesOK, ReviewsInv, NEW c \in Calls, CheckReviewer(c) \/ FindReplied(c) \/ FindHidden(c)
    PROVE  ReviewsInv' /\ Turn(c, ReviewAwaits)
<1>1. UNCHANGED reviewRows /\ Of(c, ReviewAwaits)
    BY DEF CheckReviewer, FindReplied, FindHidden, Of, At, ReviewAwaits
<1>2. CASE End(c)
    BY <1>1, <1>2, ReviewEnded, ReviewsLook
<1>3. ASSUME NEW await, Goto(c, await),
             \/ At(c, "checking-buyer") /\ await = "checking-purchase"
             \/ At(c, "finding-review") /\ await = "replying" /\ Reviewed(call[c].review)
             \/ At(c, "finding-hidden") /\ await = "hiding" /\ Reviewed(call[c].review)
      PROVE  ReviewsInv' /\ Turn(c, ReviewAwaits)
    <2>1. /\ call' = [call EXCEPT ![c] = call'[c]]
          /\ call'[c] = [call[c] EXCEPT !.at = await]
        BY <1>3, Moved
    <2>2. /\ call'[c] \in ReviewFrames /\ call'[c].at = await /\ call'[c].review = call[c].review
        <3>1. CASE At(c, "checking-buyer")
            BY <1>1, <1>3, <2>1, <3>1, ReviewShape DEF ReviewFrames, At
        <3>2. CASE At(c, "finding-review")
            BY <1>1, <1>3, <2>1, <3>2, ReviewShape DEF ReviewFrames, At
        <3>3. CASE At(c, "finding-hidden")
            BY <1>1, <1>3, <2>1, <3>3, ReviewShape DEF ReviewFrames, At
        <3> QED
            BY <1>3, <3>1, <3>2, <3>3
    <2>3. Turn(c, ReviewAwaits)
        BY <1>1, <1>3, <2>1, <2>2 DEF Turn, Frames, Of, ReviewAwaits
    <2> QED
        BY <1>1, <1>3, <2>2, <2>3, ReviewsLook
<1> QED
    BY <1>2, <1>3 DEF CheckReviewer, FindReplied, FindHidden

\* A row of a review that is there.
LEMMA ReviewRow ==
    ASSUME ReviewsInv, NEW r \in Reviewers, Reviewed(r)
    PROVE  review[r] \in ReviewRows
BY DEF ReviewsInv, ReviewsTypeOK, Reviewed

\* INSERT of a review, unless there is one.
LEMMA SaveReviewInv ==
    ASSUME FramesOK, ReviewsInv, NEW c \in Calls, SaveReview(c)
    PROVE  ReviewsInv' /\ Turn(c, ReviewAwaits)
<1>1. Of(c, ReviewAwaits) /\ End(c) /\ UNCHANGED <<replied, turns>>
    BY DEF SaveReview, Of, At, ReviewAwaits
<1>2. Turn(c, ReviewAwaits) /\ call'[c].at = "idle"
    BY <1>1, ReviewEnded
<1>3. PICK q \in Reviewers : q = call[c].review
    BY <1>1, ReviewShape
<1>4. CASE Reviewed(q)
    <2>1. UNCHANGED reviewRows
        BY <1>1, <1>3, <1>4 DEF SaveReview, reviewRows
    <2> QED
        BY <1>2, <2>1, ReviewsLook
<1>5. CASE ~Reviewed(q)
    <2>1. PICK bought \in BOOLEAN : review' = [review EXCEPT ![q] = [Visible EXCEPT !.verified = bought]]
        BY <1>3, <1>5 DEF SaveReview
    <2>2. PICK row \in ReviewRows : row = [Visible EXCEPT !.verified = bought] /\ ~row.hidden /\ row # NULL
        <3>1. [Visible EXCEPT !.verified = bought] \in ReviewRows /\ ~[Visible EXCEPT !.verified = bought].hidden
            BY DEF Visible, ReviewRows
        <3> QED
            BY <3>1, ReviewsAssumption
    <2>3. /\ review' = [review EXCEPT ![q] = row] /\ review \in [Reviewers -> ReviewRows \cup {NULL}]
          /\ turns[q] = <<>> /\ turns' = turns
        BY <1>1, <1>5, <2>1, <2>2 DEF ReviewsInv, ReviewsTypeOK
    <2>4. review'[q] = row /\ \A r \in Reviewers \ {q} : review'[r] = review[r]
        BY <2>3
    <2>5. \A r \in Reviewers : Reviewed(r) => Reviewed(r)' /\ review'[r] = review[r]
        BY <1>5, <2>4 DEF Reviewed
    <2>6. ReviewsTypeOK'
        BY <2>2, <2>3 DEF ReviewsInv, ReviewsTypeOK
    <2>7. RepliesStay'
        <3>1. \A a \in replied : a.review \in Reviewers
            BY DEF ReviewsInv
        <3> QED
            BY <1>1, <2>5, <3>1 DEF ReviewsInv, RepliesStay
    <2>8. \A r \in Reviewers :
             /\ ~Reviewed(r)' => turns'[r] = <<>>
             /\ Reviewed(r)' /\ turns'[r] = <<>> => ~review'[r].hidden
        BY <2>2, <2>3, <2>4 DEF ReviewsInv, Reviewed
    <2>9. ModerationsAlternate'
        <3> SUFFICES ASSUME NEW r \in Reviewers
                     PROVE  /\ \A i \in 1..Len(turns[r]) : turns[r][i].hide = (i % 2 = 1)
                            /\ Len(turns[r]) > 0 =>
                                 /\ review'[r].hidden = turns[r][Len(turns[r])].hide
                                 /\ review'[r].hiddenBy = turns[r][Len(turns[r])].by
            BY <2>3 DEF ModerationsAlternate
        <3>1. CASE r = q
            BY <2>3, <3>1
        <3>2. CASE r # q
            BY <2>4, <3>2 DEF ReviewsInv, ModerationsAlternate
        <3> QED
            BY <3>1, <3>2
    <2>10. ReviewTables'
        BY <1>1, <2>6, <2>7, <2>8, <2>9 DEF ReviewsInv, ReviewTables
    <2> QED
        BY <1>2, <2>5, <2>10, ReviewsStay
<1> QED
    BY <1>4, <1>5

\* The conditional UPDATE of a reply.
LEMMA SaveReplyInv ==
    ASSUME FramesOK, ReviewsInv, NEW c \in Calls, SaveReply(c)
    PROVE  ReviewsInv' /\ Turn(c, ReviewAwaits)
<1>1. Of(c, ReviewAwaits) /\ At(c, "replying") /\ End(c) /\ turns' = turns
    BY DEF SaveReply, Of, At, ReviewAwaits
<1>2. Turn(c, ReviewAwaits) /\ call'[c].at = "idle"
    BY <1>1, ReviewEnded
<1>3. PICK q \in Reviewers, text \in Replies : q = call[c].review /\ text = call[c].reply
    BY <1>1, ReviewShape DEF At
<1>4. Reviewed(q)
    BY <1>1, <1>3 DEF ReviewsInv, ReviewHolds, At
<1>5. CASE ~Unreplied(q)
    <2>1. UNCHANGED reviewRows
        BY <1>1, <1>3, <1>5 DEF SaveReply, reviewRows
    <2> QED
        BY <1>2, <2>1, ReviewsLook
<1>6. CASE Unreplied(q)
    <2>1. /\ review' = [review EXCEPT ![q].reply = text]
          /\ replied' = replied \cup {[review |-> q, reply |-> text]}
        BY <1>3, <1>6 DEF SaveReply
    <2>2. PICK old \in ReviewRows : old = review[q] /\ old.reply = NULL
        BY <1>4, <1>6, ReviewRow DEF Unreplied
    <2>3. PICK row \in ReviewRows : /\ row = [old EXCEPT !.reply = text] /\ row # NULL
                                    /\ row.reply = text /\ row.hidden = old.hidden
                                    /\ row.hiddenBy = old.hiddenBy
        <3>1. [old EXCEPT !.reply = text] \in ReviewRows
            BY DEF ReviewRows
        <3>2. /\ [old EXCEPT !.reply = text].reply = text
              /\ [old EXCEPT !.reply = text].hidden = old.hidden
              /\ [old EXCEPT !.reply = text].hiddenBy = old.hiddenBy
            BY DEF ReviewRows
        <3> QED
            BY <3>1, <3>2, ReviewsAssumption
    <2>4. review' = [review EXCEPT ![q] = row] /\ review \in [Reviewers -> ReviewRows \cup {NULL}]
        BY <2>1, <2>2, <2>3 DEF ReviewsInv, ReviewsTypeOK
    <2>5. review'[q] = row /\ \A r \in Reviewers \ {q} : review'[r] = review[r]
        BY <2>4
    <2>6. \A r \in Reviewers : /\ Reviewed(r) <=> Reviewed(r)'
                               /\ review'[r].hidden = review[r].hidden
                               /\ review'[r].hiddenBy = review[r].hiddenBy
        BY <1>4, <2>2, <2>3, <2>5 DEF Reviewed
    <2>7. ReviewsTypeOK'
        BY <1>1, <2>3, <2>4 DEF ReviewsInv, ReviewsTypeOK
    <2>8. RepliesStay'
        <3>1. ASSUME NEW a \in replied PROVE a.review # q /\ a.review \in Reviewers
            <4>1. a.review \in Reviewers /\ a.reply \in Replies /\ review[a.review].reply = a.reply
                BY DEF ReviewsInv, RepliesStay
            <4> QED
                BY <2>2, <4>1, ReviewsAssumption
        <3>2. ASSUME NEW a \in replied PROVE Reviewed(a.review)' /\ review'[a.review].reply = a.reply
            BY <2>5, <3>1 DEF ReviewsInv, RepliesStay, Reviewed
        <3>3. review'[q] # NULL /\ review'[q].reply = text
            BY <2>3, <2>5
        <3> QED
            BY <2>1, <3>2, <3>3 DEF RepliesStay, Reviewed
    <2>9. replied' \subseteq [review : Reviewers, reply : Replies]
        BY <2>1 DEF ReviewsInv
    <2>10. ModerationsAlternate'
        BY <1>1, <2>6 DEF ReviewsInv, ModerationsAlternate
    <2>11. \A r \in Reviewers :
             /\ ~Reviewed(r)' => turns'[r] = <<>>
             /\ Reviewed(r)' /\ turns'[r] = <<>> => ~review'[r].hidden
        BY <1>1, <2>6 DEF ReviewsInv
    <2>12. ReviewTables'
        BY <1>1, <2>7, <2>8, <2>9, <2>10, <2>11 DEF ReviewsInv, ReviewTables
    <2> QED
        BY <1>2, <2>6, <2>12, ReviewsStay
<1> QED
    BY <1>5, <1>6

\* One more hide or unhide after those that alternate.
Alternating(s) == \A i \in 1..Len(s) : s[i].hide = (i % 2 = 1)
Follows(t, s) == (Len(s) > 0 => t.hide = ~s[Len(s)].hide) /\ (Len(s) = 0 => t.hide)

\* A sequence that alternates, with one more turn that follows its last.
LEMMA TurnsAlternate ==
    ASSUME NEW s \in Seq(Turns), NEW t \in Turns, NEW s2, s2 = Append(s, t),
           Alternating(s), Follows(t, s)
    PROVE  /\ s2 \in Seq(Turns) /\ Len(s2) = Len(s) + 1 /\ s2[Len(s2)] = t
           /\ Alternating(s2)
<1> USE DEF Alternating, Follows
<1>1. PICK n \in Nat : n = Len(s)
    OBVIOUS
<1>2. /\ s2 \in Seq(Turns) /\ Len(s2) = n + 1 /\ s2[n + 1] = t
      /\ \A i \in 1..n : s2[i] = s[i]
    BY <1>1
<1>3. t.hide = ((n + 1) % 2 = 1)
    <2>1. CASE n = 0
        BY <1>1, <2>1 DEF Turns
    <2>2. CASE n > 0
        <3>1. s[n].hide = (n % 2 = 1) /\ t.hide = ~s[n].hide
            BY <1>1, <2>2
        <3>2. (n % 2 = 1) = ((n + 1) % 2 # 1)
            OBVIOUS
        <3> QED
            BY <3>1, <3>2
    <2> QED
        BY <2>1, <2>2
<1>4. \A i \in 1..(n + 1) : i \in 1..n \/ i = n + 1
    OBVIOUS
<1> QED
    BY <1>1, <1>2, <1>3, <1>4

\* The conditional UPDATE of a hide or an unhide.
LEMMA SetVisibilityInv ==
    ASSUME FramesOK, ReviewsInv, NEW c \in Calls, SetVisibility(c)
    PROVE  ReviewsInv' /\ Turn(c, ReviewAwaits)
<1>1. Of(c, ReviewAwaits) /\ At(c, "hiding") /\ End(c) /\ replied' = replied
    BY DEF SetVisibility, Of, At, ReviewAwaits
<1>2. Turn(c, ReviewAwaits) /\ call'[c].at = "idle"
    BY <1>1, ReviewEnded
<1>3. PICK q \in Reviewers, hide \in BOOLEAN, by \in Moderators \cup {NULL} :
        q = call[c].review /\ hide = call[c].hide /\ by = call[c].by
    BY <1>1, ReviewShape DEF At
<1>4. Reviewed(q)
    BY <1>1, <1>3 DEF ReviewsInv, ReviewHolds, At
<1>5. CASE UNCHANGED <<review, turns>>
    <2>1. UNCHANGED reviewRows
        BY <1>1, <1>5 DEF reviewRows
    <2> QED
        BY <1>2, <2>1, ReviewsLook
<1>6. CASE HiddenAsExpected(q, ~hide) /\ Len(turns[q]) < MaxTurns
    <2>1. /\ review' = [review EXCEPT ![q].hidden = hide, ![q].hiddenBy = by]
          /\ turns' = [turns EXCEPT ![q] = Append(turns[q], [hide |-> hide, by |-> by])]
        BY <1>3, <1>6 DEF SetVisibility
    <2>2. PICK old \in ReviewRows : old = review[q] /\ old.hidden = ~hide
        BY <1>4, <1>6, ReviewRow DEF HiddenAsExpected
    <2>3. PICK row \in ReviewRows : /\ row = [old EXCEPT !.hidden = hide, !.hiddenBy = by] /\ row # NULL
                                    /\ row.reply = old.reply /\ row.hidden = hide /\ row.hiddenBy = by
        <3>1. [old EXCEPT !.hidden = hide, !.hiddenBy = by] \in ReviewRows
            BY DEF ReviewRows
        <3>2. /\ [old EXCEPT !.hidden = hide, !.hiddenBy = by].reply = old.reply
              /\ [old EXCEPT !.hidden = hide, !.hiddenBy = by].hidden = hide
              /\ [old EXCEPT !.hidden = hide, !.hiddenBy = by].hiddenBy = by
            BY DEF ReviewRows
        <3> QED
            BY <3>1, <3>2, ReviewsAssumption
    <2>4. review' = [review EXCEPT ![q] = row] /\ review \in [Reviewers -> ReviewRows \cup {NULL}]
        BY <2>1, <2>2, <2>3 DEF ReviewsInv, ReviewsTypeOK
    <2>5. review'[q] = row /\ \A r \in Reviewers \ {q} : review'[r] = review[r]
        BY <2>4
    <2>6. \A r \in Reviewers : /\ Reviewed(r) <=> Reviewed(r)'
                               /\ review'[r].reply = review[r].reply
        BY <1>4, <2>2, <2>3, <2>5 DEF Reviewed
    <2>7. PICK t \in Turns : t = [hide |-> hide, by |-> by] /\ t.hide = hide /\ t.by = by
        <3>1. [hide |-> hide, by |-> by] \in Turns
            BY DEF Turns
        <3> QED
            BY <3>1
    <2> PICK s2 : s2 = Append(turns[q], t)
        OBVIOUS
    <2>8. PICK s \in Seq(Turns) : s = turns[q] /\ s2 = Append(s, t)
        BY DEF ReviewsInv
    <2>9. turns' = [turns EXCEPT ![q] = s2] /\ turns \in [Reviewers -> Seq(Turns)]
        BY <2>1, <2>7, <2>8 DEF ReviewsInv
    <2>10. turns'[q] = s2 /\ \A r \in Reviewers \ {q} : turns'[r] = turns[r]
        BY <2>9
    <2>11. /\ \A i \in 1..Len(s) : s[i].hide = (i % 2 = 1)
           /\ Len(s) > 0 => old.hidden = s[Len(s)].hide
        BY <2>2, <2>8 DEF ReviewsInv, ModerationsAlternate
    <2>12. Len(s) = 0 => ~old.hidden
        BY <1>4, <2>2, <2>8 DEF ReviewsInv
    <2>13. /\ s2 \in Seq(Turns) /\ Len(s2) = Len(s) + 1 /\ s2[Len(s2)] = t
           /\ Alternating(s2)
        <3>1. Follows(t, s)
            BY <2>2, <2>7, <2>11, <2>12 DEF Follows
        <3>2. Alternating(s)
            BY <2>11 DEF Alternating
        <3> QED
            BY <2>8, <3>1, <3>2, TurnsAlternate
    <2>14. ReviewsTypeOK'
        <3>1. review' \in [Reviewers -> ReviewRows \cup {NULL}]
            BY <2>4
        <3>2. Len(s2) <= MaxTurns
            BY <1>6, <2>8, <2>13, ReviewsAssumption
        <3>3. \A r \in Reviewers : Len(turns'[r]) <= MaxTurns
            BY <2>10, <3>2 DEF ReviewsInv, ReviewsTypeOK
        <3> QED
            BY <3>1, <3>3 DEF ReviewsTypeOK
    <2>15. RepliesStay'
        <3>1. \A a \in replied : a.review \in Reviewers
            BY DEF ReviewsInv
        <3> QED
            BY <1>1, <2>6, <3>1 DEF ReviewsInv, RepliesStay
    <2>16. turns' \in [Reviewers -> Seq(Turns)]
        BY <2>9, <2>13
    <2>17. \A r \in Reviewers :
             /\ ~Reviewed(r)' => turns'[r] = <<>>
             /\ Reviewed(r)' /\ turns'[r] = <<>> => ~review'[r].hidden
        <3> TAKE r \in Reviewers
        <3>1. CASE r = q
            <4>1. s2 # <<>>
                BY <2>13
            <4> QED
                BY <1>4, <2>6, <2>10, <3>1, <4>1
        <3>2. CASE r # q
            BY <2>5, <2>6, <2>10, <3>2 DEF ReviewsInv
        <3> QED
            BY <3>1, <3>2
    <2>18. ModerationsAlternate'
        <3> SUFFICES ASSUME NEW r \in Reviewers
                     PROVE  /\ \A i \in 1..Len(turns'[r]) : turns'[r][i].hide = (i % 2 = 1)
                            /\ Len(turns'[r]) > 0 =>
                                 /\ review'[r].hidden = turns'[r][Len(turns'[r])].hide
                                 /\ review'[r].hiddenBy = turns'[r][Len(turns'[r])].by
            BY DEF ModerationsAlternate
        <3>1. CASE r = q
            <4>1. \A i \in 1..Len(s2) : s2[i].hide = (i % 2 = 1)
                BY <2>13 DEF Alternating
            <4>2. row.hidden = s2[Len(s2)].hide /\ row.hiddenBy = s2[Len(s2)].by
                BY <2>3, <2>7, <2>13
            <4>3. turns'[r] = s2 /\ review'[r] = row
                BY <2>5, <2>10, <3>1
            <4> QED
                BY <4>1, <4>2, <4>3
        <3>2. CASE r # q
            BY <2>5, <2>10, <3>2 DEF ReviewsInv, ModerationsAlternate
        <3> QED
            BY <3>1, <3>2
    <2>19. ReviewTables'
        BY <1>1, <2>14, <2>15, <2>16, <2>17, <2>18 DEF ReviewsInv, ReviewTables
    <2> QED
        BY <1>2, <2>6, <2>19, ReviewsStay
<1> QED
    BY <1>3, <1>5, <1>6 DEF SetVisibility

\* Every step of a review keeps the invariant of the reviews.
LEMMA ReviewsStepInv ==
    ASSUME FramesOK, ReviewsInv, NEW c \in Calls, ReviewsStep(c)
    PROVE  ReviewsInv' /\ Turn(c, ReviewAwaits)
BY ReviewArrives, ReviewReads, SaveReviewInv, SaveReplyInv, SetVisibilityInv DEF ReviewsStep

\* A step of another part leaves the reviews.
LEMMA ReviewsRest ==
    ASSUME FramesOK, ReviewsInv, NEW c \in Calls, NEW awaits, Turn(c, awaits),
           awaits \cap ReviewAwaits = {}, UNCHANGED reviewRows
    PROVE  ReviewsInv'
<1>1. UNCHANGED <<review, replied, turns>>
    BY DEF reviewRows
<1>2. \A d \in Calls : Of(d, ReviewAwaits)' => call'[d] = call[d]
    BY TurnElsewhere DEF ReviewAwaits
<1>3. \A d \in Calls : Of(d, ReviewAwaits)' => ReviewHolds(d)'
    BY <1>1, <1>2 DEF ReviewsInv, ReviewHolds, Of, Reviewed
<1> QED
    BY <1>1, <1>3 DEF ReviewsInv, ReviewsTypeOK, Reviewed, RepliesStay, ModerationsAlternate

-----------------------------------------------------------------------------
(* The notifications *)

\* The rows of the inbox and their places.
LEMMA InboxRows ==
    ASSUME NoticesInv
    PROVE  /\ Len(inbox) \in Nat /\ DOMAIN inbox = 1..Len(inbox) /\ DOMAIN inbox \subseteq 1..MaxInbox
           /\ \A i \in DOMAIN inbox : inbox[i] \in Notices
BY NotificationsAssumption DEF NoticesInv, NotificationsTypeOK

\* The frame of a request about the inbox.
LEMMA NoticeShape ==
    ASSUME FramesOK, NEW c \in Calls, Of(c, NoticeAwaits)
    PROVE  /\ call[c] \in NoticeFrames
           /\ ~At(c, "marking-all") =>
                call[c] \in [at : {"finding-notice", "marking-read", "announcing"}, notice : Nat, user : Owners]
<1>1. call[c] \in NoticeFrames
    BY FrameShapes DEF FramesOK, Of
<1> QED
    BY <1>1 DEF NoticeFrames, At

\* What a step of call c must do with the rows and the announcements.
NoticesMove(c) ==
    /\ \A i \in DOMAIN inbox :
         /\ i \in DOMAIN inbox'
         /\ inbox[i].read => inbox'[i].read
         /\ announced'[i] = announced[i] \/ (At(c, "announcing") /\ call[c].notice = i)
    /\ \A d \in Calls \ {c} :
         At(d, "announcing") /\ At(c, "announcing")' => call[d].notice # call'[c].notice

\* What a step must do for the invariant of the inbox to hold after it.
LEMMA NoticesStay ==
    ASSUME FramesOK, NoticesInv, NEW c \in Calls, NEW awaits, Turn(c, awaits),
           NotificationsTypeOK', ReadOnce', NoticesMove(c),
           \A i \in 1..MaxInbox : i \notin DOMAIN inbox' => announced'[i] = 0,
           Of(c, NoticeAwaits)' => NoticeHolds(c)'
    PROVE  NoticesInv'
<1>1. \A d \in Calls \ {c} : call'[d] = call[d]
    BY TurnOthers
<1>2. ASSUME NEW d \in Calls, Of(d, NoticeAwaits)' PROVE NoticeHolds(d)'
    <2>1. CASE d = c
        BY <1>2, <2>1
    <2>2. CASE d # c
        <3>1. call'[d] = call[d] /\ Of(d, NoticeAwaits) /\ NoticeHolds(d)
            BY <1>1, <1>2, <2>2 DEF Of, NoticesInv
        <3>2. At(d, "announcing") /\ At(c, "announcing") => call[d].notice # call[c].notice
            BY <2>2 DEF NoticesInv
        <3> QED
            BY <3>1, <3>2 DEF NoticeHolds, NoticesMove, At
    <2> QED
        BY <2>1, <2>2
<1>3. ASSUME NEW d \in Calls, NEW e \in Calls, At(d, "announcing")', At(e, "announcing")',
             call'[d].notice = call'[e].notice
      PROVE  d = e
    <2>1. CASE d # c /\ e # c
        BY <1>1, <1>3, <2>1 DEF NoticesInv, At
    <2>2. CASE d = c \/ e = c
        BY <1>1, <1>3, <2>2 DEF NoticesMove, At
    <2> QED
        BY <2>1, <2>2
<1> QED
    BY <1>2, <1>3 DEF NoticesInv

\* The rows and the announcements are left.
LEMMA NoticesLook ==
    ASSUME FramesOK, NoticesInv, NEW c \in Calls, NEW awaits, Turn(c, awaits), UNCHANGED notificationRows,
           Of(c, NoticeAwaits)' => NoticeHolds(c)',
           At(c, "announcing")' => FALSE
    PROVE  NoticesInv'
<1>1. UNCHANGED <<inbox, announced>>
    BY DEF notificationRows
<1>2. NotificationsTypeOK' /\ ReadOnce'
    BY <1>1 DEF NoticesInv, NotificationsTypeOK, ReadOnce
<1>3. NoticesMove(c)
    BY <1>1 DEF NoticesMove, At
<1> QED
    BY <1>1, <1>2, <1>3, NoticesStay DEF NoticesInv

\* A step of another part leaves the inbox.
LEMMA NoticesRest ==
    ASSUME FramesOK, NoticesInv, NEW c \in Calls, NEW awaits, Turn(c, awaits),
           awaits \cap NoticeAwaits = {}, UNCHANGED notificationRows
    PROVE  NoticesInv'
<1>1. ~Of(c, NoticeAwaits)'
    BY DEF Turn, Of, NoticeAwaits
<1>2. ~At(c, "announcing")'
    BY <1>1 DEF Of, At, NoticeAwaits
<1> QED
    BY <1>1, <1>2, NoticesLook

\* A request about the inbox is answered.
LEMMA NoticeEnded ==
    ASSUME FramesOK, NEW c \in Calls, Of(c, NoticeAwaits), End(c)
    PROVE  Turn(c, NoticeAwaits) /\ ~Of(c, NoticeAwaits)' /\ ~At(c, "announcing")'
<1>1. /\ call' = [call EXCEPT ![c] = call'[c]]
      /\ call'[c] \in Frames /\ call'[c].at = "idle"
    BY Ended
<1> QED
    BY <1>1 DEF Turn, Of, NoticeAwaits, At

\* A request about the inbox arrives or has read the row.
LEMMA NoticeLooks ==
    ASSUME FramesOK, NoticesInv, NEW c \in Calls, MarkRead(c) \/ MarkAllRead(c) \/ FindNotice(c)
    PROVE  NoticesInv' /\ Turn(c, NoticeAwaits)
<1>1. UNCHANGED notificationRows /\ UNCHANGED <<inbox, announced>>
    BY DEF MarkRead, MarkAllRead, FindNotice, notificationRows
<1>2. CASE MarkRead(c)
    <2> PICK i \in DOMAIN inbox, u \in Owners :
          Receive(c, [at |-> "finding-notice", notice |-> i, user |-> u])
        BY <1>2 DEF MarkRead
    <2> PICK f : f = [at |-> "finding-notice", notice |-> i, user |-> u]
        OBVIOUS
    <2>1. i \in Nat
        BY InboxRows
    <2>2. f \in NoticeFrames /\ f.at = "finding-notice" /\ f.notice = i
        BY <2>1 DEF NoticeFrames
    <2>3. call' = [call EXCEPT ![c] = call'[c]] /\ call'[c] = f /\ call[c].at = "idle"
        BY Received
    <2>4. Turn(c, NoticeAwaits)
        BY <2>2, <2>3 DEF Turn, Frames, NoticeAwaits
    <2>5. NoticeHolds(c)' /\ ~At(c, "announcing")'
        BY <1>1, <2>2, <2>3 DEF NoticeHolds, At
    <2> QED
        BY <1>1, <2>4, <2>5, NoticesLook
<1>3. CASE MarkAllRead(c)
    <2> PICK u \in Owners : Receive(c, [at |-> "marking-all", user |-> u])
        BY <1>3 DEF MarkAllRead
    <2> PICK f : f = [at |-> "marking-all", user |-> u]
        OBVIOUS
    <2>1. f \in NoticeFrames /\ f.at = "marking-all"
        BY DEF NoticeFrames
    <2>2. call' = [call EXCEPT ![c] = call'[c]] /\ call'[c] = f /\ call[c].at = "idle"
        BY Received
    <2>3. Turn(c, NoticeAwaits)
        BY <2>1, <2>2 DEF Turn, Frames, NoticeAwaits
    <2>4. NoticeHolds(c)' /\ ~At(c, "announcing")'
        BY <2>1, <2>2 DEF NoticeHolds, At
    <2> QED
        BY <1>1, <2>3, <2>4, NoticesLook
<1>4. CASE FindNotice(c)
    <2>1. At(c, "finding-notice") /\ Of(c, NoticeAwaits) /\ (Goto(c, "marking-read") \/ End(c))
        BY <1>4 DEF FindNotice, At, Of, NoticeAwaits
    <2>2. CASE End(c)
        BY <1>1, <2>1, <2>2, NoticeEnded, NoticesLook
    <2>3. CASE Goto(c, "marking-read")
        <3>1. /\ call' = [call EXCEPT ![c] = call'[c]]
              /\ call'[c] = [call[c] EXCEPT !.at = "marking-read"]
            BY <2>3, Moved
        <3>2. call'[c] \in NoticeFrames /\ call'[c].at = "marking-read" /\ call'[c].notice = call[c].notice
            BY <2>1, <3>1, NoticeShape DEF NoticeFrames, At
        <3>3. Turn(c, NoticeAwaits)
            BY <2>1, <3>1, <3>2 DEF Turn, Frames, Of, NoticeAwaits
        <3>4. call[c].notice \in DOMAIN inbox
            BY <2>1 DEF NoticesInv, NoticeHolds, At
        <3>5. NoticeHolds(c)' /\ ~At(c, "announcing")'
            BY <1>1, <3>2, <3>4 DEF NoticeHolds, At
        <3> QED
            BY <1>1, <3>3, <3>5, NoticesLook
    <2> QED
        BY <2>1, <2>2, <2>3
<1> QED
    BY <1>2, <1>3, <1>4

\* The notifications are the same ones, whether they are read or not.
SameNews ==
    /\ DOMAIN inbox' = DOMAIN inbox
    /\ \A i \in DOMAIN inbox :
         inbox'[i].news = inbox[i].news /\ inbox'[i].owner = inbox[i].owner

\* What making a row read does to it.
LEMMA MarkedRow ==
    ASSUME NoticesInv, NEW i \in DOMAIN inbox, Unread(i)
    PROVE  /\ Marked(i) \in Notices /\ Marked(i).read /\ Marked(i).turns = 1
           /\ Marked(i).news = inbox[i].news /\ Marked(i).owner = inbox[i].owner
           /\ announced[i] = 0
<1>1. PICK row \in Notices : row = inbox[i] /\ row.turns = 0 /\ ~row.read
    BY InboxRows DEF NoticesInv, ReadOnce, Unread
<1>2. announced[i] \in Nat /\ announced[i] <= 0
    BY <1>1, InboxRows DEF NoticesInv, NotificationsTypeOK, ReadOnce
<1>3. PICK new : new = [row EXCEPT !.read = TRUE, !.turns = @ + 1]
    OBVIOUS
<1>4. /\ new \in Notices /\ new.read /\ new.turns = 1
      /\ new.news = row.news /\ new.owner = row.owner
    <2>1. PICK one \in Nat : one = row.turns + 1 /\ one = 1
        BY <1>1
    <2>2. new = [row EXCEPT !.read = TRUE, !.turns = one]
        BY <1>3, <2>1
    <2>3. \A n \in Nat : LET then == [row EXCEPT !.read = TRUE, !.turns = n] IN
            /\ then \in Notices /\ then.read /\ then.turns = n
            /\ then.news = row.news /\ then.owner = row.owner
        BY DEF Notices
    <2> QED
        BY <2>1, <2>2, <2>3
<1>5. Marked(i) = new
    BY <1>1, <1>3 DEF Marked
<1>6. announced[i] = 0
    BY <1>2
<1> QED
    BY <1>1, <1>4, <1>5, <1>6

\* Unread rows of a set are made read.
LEMMA RowsMarked ==
    ASSUME NoticesInv, NEW S, S \subseteq DOMAIN inbox, \A i \in S : Unread(i),
           inbox' = [i \in DOMAIN inbox |-> IF i \in S THEN Marked(i) ELSE inbox[i]],
           UNCHANGED announced
    PROVE  /\ NotificationsTypeOK' /\ ReadOnce' /\ SameNews
           /\ \A i \in S : inbox'[i].read /\ announced[i] = 0
           /\ \A i \in DOMAIN inbox : inbox[i].read => inbox'[i].read
<1>1. PICK n \in Nat : n = Len(inbox) /\ DOMAIN inbox = 1..n /\ n <= MaxInbox
    BY InboxRows DEF NoticesInv, NotificationsTypeOK
<1>2. \A i \in S : /\ Marked(i) \in Notices /\ Marked(i).read /\ Marked(i).turns = 1
                   /\ Marked(i).news = inbox[i].news /\ Marked(i).owner = inbox[i].owner
                   /\ announced[i] = 0
    BY MarkedRow
<1>3. \A i \in 1..n : inbox[i] \in Notices
    BY <1>1, InboxRows
<1>4. inbox' \in [1..n -> Notices]
    BY <1>1, <1>2, <1>3
<1>5. inbox' \in Seq(Notices) /\ Len(inbox') = n
    BY <1>1, <1>4
<1>6. \A i \in S : inbox'[i] = Marked(i)
    BY <1>1
<1>7. \A i \in DOMAIN inbox \ S : inbox'[i] = inbox[i]
    BY <1>1
<1>8. DOMAIN inbox' = DOMAIN inbox
    BY <1>1, <1>4
<1>9. NotificationsTypeOK'
    BY <1>1, <1>5 DEF NoticesInv, NotificationsTypeOK
<1>10. \A i \in S : inbox'[i].read /\ inbox'[i].turns = 1 /\ announced'[i] = 0
    BY <1>2, <1>6
<1>11. \A i \in DOMAIN inbox \ S :
          /\ inbox'[i].turns = IF inbox'[i].read THEN 1 ELSE 0
          /\ announced'[i] <= inbox'[i].turns
    BY <1>7 DEF NoticesInv, ReadOnce
<1>12. ReadOnce'
    <2> SUFFICES ASSUME NEW i \in DOMAIN inbox
                 PROVE  /\ inbox'[i].turns = IF inbox'[i].read THEN 1 ELSE 0
                        /\ announced'[i] <= inbox'[i].turns
        BY <1>8 DEF ReadOnce
    <2> QED
        BY <1>10, <1>11
<1>13. SameNews
    BY <1>2, <1>6, <1>7, <1>8 DEF SameNews
<1>14. \A i \in DOMAIN inbox : inbox[i].read => inbox'[i].read
    BY <1>7, <1>10
<1> QED
    BY <1>2, <1>9, <1>10, <1>12, <1>13, <1>14

\* A step that leaves the inbox leaves the news.
LEMMA NewsAsTheyAre ==
    ASSUME UNCHANGED inbox
    PROVE  SameNews
BY DEF SameNews

\* The conditional UPDATE of one row: the loser of a race leaves it.
LEMMA MarkOneInv ==
    ASSUME FramesOK, NoticesInv, NEW c \in Calls, MarkOne(c)
    PROVE  NoticesInv' /\ Turn(c, NoticeAwaits) /\ SameNews
<1>1. At(c, "marking-read") /\ Of(c, NoticeAwaits) /\ UNCHANGED announced
    BY DEF MarkOne, At, Of, NoticeAwaits
<1>2. PICK k \in DOMAIN inbox : k = call[c].notice
    BY <1>1 DEF NoticesInv, NoticeHolds, At
<1>3. CASE ~Unread(k)
    <2>1. End(c) /\ UNCHANGED inbox /\ UNCHANGED notificationRows
        BY <1>1, <1>2, <1>3 DEF MarkOne, notificationRows
    <2> QED
        BY <1>1, <2>1, NoticeEnded, NoticesLook, NewsAsTheyAre
<1>4. CASE Unread(k)
    <2>1. inbox' = [inbox EXCEPT ![k] = Marked(k)] /\ Goto(c, "announcing")
        BY <1>2, <1>4 DEF MarkOne
    <2>2. inbox' = [i \in DOMAIN inbox |-> IF i \in {k} THEN Marked(i) ELSE inbox[i]]
        BY <2>1
    <2>3. /\ NotificationsTypeOK' /\ ReadOnce' /\ SameNews
          /\ inbox'[k].read /\ announced[k] = 0
          /\ \A i \in DOMAIN inbox : inbox[i].read => inbox'[i].read
        <3>1. {k} \subseteq DOMAIN inbox /\ \A i \in {k} : Unread(i)
            BY <1>2, <1>4
        <3>2. k \in {k} /\ UNCHANGED announced
            BY <1>1
        <3>3. PICK S : S = {k}
            OBVIOUS
        <3> QED
            BY <2>2, <3>1, <3>2, <3>3, RowsMarked
    <2>4. /\ call' = [call EXCEPT ![c] = call'[c]]
          /\ call'[c] = [call[c] EXCEPT !.at = "announcing"]
        BY <2>1, Moved
    <2>5. call'[c] \in NoticeFrames /\ call'[c].at = "announcing" /\ call'[c].notice = k
        BY <1>1, <1>2, <2>4, NoticeShape DEF NoticeFrames, At
    <2>6. Turn(c, NoticeAwaits)
        BY <1>1, <2>4, <2>5 DEF Turn, Frames, Of, NoticeAwaits
    <2>7. DOMAIN inbox' = DOMAIN inbox
        BY <2>3 DEF SameNews
    <2>8. NoticeHolds(c)'
        BY <1>1, <2>3, <2>5, <2>7 DEF NoticeHolds, At
    <2>9. \A d \in Calls \ {c} : At(d, "announcing") => call[d].notice # k
        BY <1>4 DEF NoticesInv, NoticeHolds, Of, At, NoticeAwaits, Unread
    <2>10. NoticesMove(c)
        BY <1>1, <2>3, <2>5, <2>7, <2>9 DEF NoticesMove, At
    <2> QED
        BY <1>1, <2>3, <2>6, <2>7, <2>8, <2>10, NoticesStay DEF NoticesInv
<1> QED
    BY <1>3, <1>4

\* The event of a row that this request has made read.
LEMMA AnnounceInv ==
    ASSUME FramesOK, NoticesInv, NEW c \in Calls, Announce(c)
    PROVE  NoticesInv' /\ Turn(c, NoticeAwaits) /\ SameNews
<1>1. At(c, "announcing") /\ Of(c, NoticeAwaits) /\ UNCHANGED inbox /\ End(c)
    BY DEF Announce, At, Of, NoticeAwaits
<1>2. Turn(c, NoticeAwaits) /\ ~Of(c, NoticeAwaits)' /\ ~At(c, "announcing")'
    BY <1>1, NoticeEnded
<1>3. PICK k \in DOMAIN inbox : k = call[c].notice /\ inbox[k].read /\ announced[k] = 0
    BY <1>1 DEF NoticesInv, NoticeHolds, At
<1>4. CASE UNCHANGED announced
    BY <1>1, <1>2, <1>4, NoticesLook, NewsAsTheyAre DEF notificationRows
<1>5. CASE announced' = [announced EXCEPT ![k] = @ + 1]
    <2>1. k \in 1..MaxInbox /\ announced \in [1..MaxInbox -> Nat]
        BY <1>3, InboxRows DEF NoticesInv, NotificationsTypeOK
    <2>2. announced'[k] = 1 /\ \A i \in 1..MaxInbox \ {k} : announced'[i] = announced[i]
        BY <1>3, <1>5, <2>1
    <2>3. NotificationsTypeOK'
        BY <1>1, <1>5, <2>1 DEF NoticesInv, NotificationsTypeOK
    <2>4. inbox[k].turns = 1
        BY <1>3 DEF NoticesInv, ReadOnce
    <2>5. ReadOnce'
        <3> SUFFICES ASSUME NEW i \in DOMAIN inbox
                     PROVE  /\ inbox[i].turns = IF inbox[i].read THEN 1 ELSE 0
                            /\ announced'[i] <= inbox[i].turns
            BY <1>1 DEF ReadOnce
        <3>1. CASE i = k
            BY <2>2, <2>4, <3>1 DEF NoticesInv, ReadOnce
        <3>2. CASE i # k
            BY <2>2, <3>2, InboxRows DEF NoticesInv, ReadOnce
        <3> QED
            BY <3>1, <3>2
    <2>6. NoticesMove(c)
        BY <1>1, <1>2, <1>3, <2>2, InboxRows DEF NoticesMove, At
    <2>7. \A i \in 1..MaxInbox : i \notin DOMAIN inbox' => announced'[i] = 0
        BY <1>1, <1>3, <2>2 DEF NoticesInv
    <2> QED
        BY <1>1, <1>2, <2>3, <2>5, <2>6, <2>7, NoticesStay, NewsAsTheyAre
<1> QED
    BY <1>3, <1>4, <1>5 DEF Announce

\* One UPDATE of all unread rows of a user.
LEMMA MarkAllInv ==
    ASSUME FramesOK, NoticesInv, NEW c \in Calls, MarkAll(c)
    PROVE  NoticesInv' /\ Turn(c, NoticeAwaits) /\ SameNews
<1>1. At(c, "marking-all") /\ Of(c, NoticeAwaits) /\ UNCHANGED announced /\ End(c)
    BY DEF MarkAll, At, Of, NoticeAwaits
<1>2. Turn(c, NoticeAwaits) /\ ~Of(c, NoticeAwaits)' /\ ~At(c, "announcing")'
    BY <1>1, NoticeEnded
<1>3. PICK S : S = {i \in DOMAIN inbox : inbox[i].owner = call[c].user /\ Unread(i)}
    OBVIOUS
<1>4. inbox' = [i \in DOMAIN inbox |-> IF i \in S THEN Marked(i) ELSE inbox[i]]
    BY <1>3 DEF MarkAll
<1>5. S \subseteq DOMAIN inbox /\ \A i \in S : Unread(i)
    BY <1>3
<1>6. /\ NotificationsTypeOK' /\ ReadOnce' /\ SameNews
      /\ \A i \in DOMAIN inbox : inbox[i].read => inbox'[i].read
    BY <1>1, <1>4, <1>5, RowsMarked
<1>7. DOMAIN inbox' = DOMAIN inbox
    BY <1>6 DEF SameNews
<1>8. NoticesMove(c)
    BY <1>1, <1>2, <1>6, <1>7 DEF NoticesMove, At
<1> QED
    BY <1>1, <1>2, <1>6, <1>7, <1>8, NoticesStay DEF NoticesInv

\* Every step of a user of the inbox keeps the invariant, and the news.
LEMMA NoticesStepInv ==
    ASSUME FramesOK, NoticesInv, NEW c \in Calls, NotificationsStep(c)
    PROVE  NoticesInv' /\ Turn(c, NoticeAwaits) /\ SameNews
<1>1. CASE MarkRead(c) \/ MarkAllRead(c) \/ FindNotice(c)
    <2>1. UNCHANGED inbox
        BY <1>1 DEF MarkRead, MarkAllRead, FindNotice, notificationRows
    <2> QED
        BY <1>1, <2>1, NoticeLooks, NewsAsTheyAre
<1> QED
    BY <1>1, MarkOneInv, AnnounceInv, MarkAllInv DEF NotificationsStep

\* A row more, which nobody has read or announced.
LEMMA PublishInv ==
    ASSUME FramesOK, NoticesInv, NEW c \in Calls, NEW awaits, Turn(c, awaits),
           awaits \cap NoticeAwaits = {}, NEW owner \in Owners, NEW news \in News,
           CanPublish, Publish(owner, news)
    PROVE  /\ NoticesInv'
           /\ DOMAIN inbox' = 1..(Len(inbox) + 1) /\ DOMAIN inbox = 1..Len(inbox) /\ Len(inbox) \in Nat
           /\ \A i \in DOMAIN inbox : inbox'[i] = inbox[i]
           /\ inbox'[Len(inbox) + 1].news = news /\ inbox'[Len(inbox) + 1].owner = owner
<1>1. ~Of(c, NoticeAwaits)' /\ ~At(c, "announcing")' /\ ~At(c, "announcing")
    BY DEF Turn, Of, At, NoticeAwaits
<1>2. PICK row \in Notices : /\ row = [owner |-> owner, news |-> news, read |-> FALSE, turns |-> 0]
                             /\ row.owner = owner /\ row.news = news /\ ~row.read /\ row.turns = 0
    <2>1. [owner |-> owner, news |-> news, read |-> FALSE, turns |-> 0] \in Notices
        BY DEF Notices
    <2> QED
        BY <2>1
<1>3. PICK n \in Nat : n = Len(inbox) /\ n < MaxInbox /\ inbox \in Seq(Notices)
    BY DEF CanPublish, NoticesInv, NotificationsTypeOK
<1>4. inbox' = Append(inbox, row) /\ UNCHANGED announced
    BY <1>2 DEF Publish
<1>5. /\ inbox' \in Seq(Notices) /\ Len(inbox') = n + 1 /\ inbox'[n + 1] = row
      /\ \A i \in 1..n : inbox'[i] = inbox[i]
      /\ DOMAIN inbox = 1..n /\ DOMAIN inbox' = 1..(n + 1)
    BY <1>3, <1>4
<1>6. n + 1 \in 1..MaxInbox /\ n + 1 \notin DOMAIN inbox /\ n + 1 <= MaxInbox
    BY <1>3, <1>5, NotificationsAssumption
<1>7. announced[n + 1] = 0
    BY <1>6 DEF NoticesInv
<1>8. NotificationsTypeOK'
    BY <1>4, <1>5, <1>6 DEF NoticesInv, NotificationsTypeOK
<1>9. ReadOnce'
    <2> SUFFICES ASSUME NEW i \in 1..(n + 1)
                 PROVE  /\ inbox'[i].turns = IF inbox'[i].read THEN 1 ELSE 0
                        /\ announced[i] <= inbox'[i].turns
        BY <1>4, <1>5 DEF ReadOnce
    <2>1. CASE i = n + 1
        BY <1>2, <1>5, <1>7, <2>1
    <2>2. CASE i # n + 1
        <3>1. i \in DOMAIN inbox /\ inbox'[i] = inbox[i]
            BY <1>3, <1>5, <2>2
        <3> QED
            BY <3>1 DEF NoticesInv, ReadOnce
    <2> QED
        BY <2>1, <2>2
<1>10. NoticesMove(c)
    BY <1>1, <1>3, <1>4, <1>5 DEF NoticesMove, At
<1>11. \A i \in 1..MaxInbox : i \notin DOMAIN inbox' => announced'[i] = 0
    BY <1>3, <1>4, <1>5 DEF NoticesInv
<1>12. NoticesInv'
    BY <1>1, <1>8, <1>9, <1>10, <1>11, NoticesStay
<1> QED
    BY <1>2, <1>3, <1>5, <1>12

-----------------------------------------------------------------------------
(* The campaigns *)

\* The frame of a call about a campaign, by its await.
LEMMA AdShape ==
    ASSUME FramesOK, NEW c \in Calls, Of(c, AdAwaits)
    PROVE  /\ call[c].campaign \in Campaigns
           /\ At(c, "finding-package") => call[c].supplier \in Owners
           /\ call[c].at \in {"finding-campaign", "switching"} =>
                call[c] \in [at : {"finding-campaign", "switching"}, campaign : Campaigns,
                             supplier : Owners, next : {"paused", "active"}]
           /\ call[c].at \in {"finding-pending", "moderating", "rereading-campaign", "notifying-supplier"} =>
                call[c] \in ModerationFrames
           /\ call[c].at \in {"finding-shown", "recording"} =>
                call[c] \in [at : {"finding-shown", "recording"}, campaign : Campaigns, user : {NULL}]
<1>1. call[c] \in AdFrames
    BY FrameShapes DEF FramesOK, Of
<1> QED
    BY <1>1 DEF AdFrames, ModerationFrames, At

\* The status of a campaign and its row.
LEMMA AdRow ==
    ASSUME AdsTypeOK, NEW k \in Campaigns
    PROVE  /\ campaign[k] # NULL => campaign[k] \in AdRows /\ AdStatus(k) = campaign[k].status
           /\ campaign[k] = NULL => AdStatus(k) = "none"
           /\ AdStatus(k) # "none" => campaign[k] # NULL
           /\ AdStatus(k) \in {"none", "pending_approval", "active", "paused", "rejected"}
<1>1. campaign[k] \in AdRows \cup {NULL}
    BY DEF AdsTypeOK
<1>2. campaign[k] # NULL => campaign[k].status \in {"pending_approval", "active", "paused", "rejected"}
    BY <1>1 DEF AdRows
<1> QED
    BY <1>1, <1>2 DEF AdStatus

\* A decision is the only one about its campaign.
LEMMA OneDecision ==
    ASSUME AdsInv, NEW d \in decided
    PROVE  /\ d \in Decisions /\ d.campaign \in Campaigns /\ Judged(d.campaign)
           /\ campaign[d.campaign] # NULL
           /\ \A e \in decided : e.campaign = d.campaign => e = d
<1>1. d \in Decisions /\ d.campaign \in Campaigns /\ Judged(d.campaign)
    BY DEF AdsInv, AdsTypeOK, Decisions
<1>2. campaign[d.campaign] # NULL
    BY <1>1 DEF Judged, AdStatus
<1>3. PICK f : {e \in decided : e.campaign = d.campaign} = {f}
    BY <1>1 DEF AdsInv, DecisionStands, Judged
<1> QED
    BY <1>1, <1>2, <1>3

\* The campaigns decided stay so, and their rows remain their supplier's.
RowsStand ==
    \A k \in Campaigns :
        /\ Judged(k) => Judged(k)'
        /\ AdStatus(k) \in {"active", "paused"} => AdStatus(k)' \in {"active", "paused"}
        /\ campaign[k] # NULL => campaign'[k].supplier = campaign[k].supplier

\* What has been told stays while the news do.
LEMMA ToldStays ==
    ASSUME SameNews
    PROVE  \A k : Told(k)' = Told(k)
BY DEF SameNews, Told

\* What DecisionsAreTold says of a notification of a decision.
Tells(notice, d) ==
    /\ notice.news.says = d.status
    /\ (notice.news.shows = "rejected") = (d.status = "rejected")
    /\ notice.owner = campaign[d.campaign].supplier

\* No decision is taken or told in the step.
LEMMA AdsStay ==
    ASSUME FramesOK, AdsInv, NEW c \in Calls, NEW awaits, Turn(c, awaits),
           ~Telling(c), ~Telling(c)',
           SameNews, UNCHANGED <<decided, unsent>>, RowsStand, AdsTypeOK', DecisionStands',
           Of(c, AdAwaits)' => AdHolds(c)'
    PROVE  AdsInv'
<1>1. \A d \in Calls \ {c} : call'[d] = call[d]
    BY TurnOthers
<1>2. \A k : Told(k)' = Told(k)
    BY ToldStays
<1>3. ASSUME NEW d \in Calls, Of(d, AdAwaits)' PROVE AdHolds(d)'
    <2>1. CASE d = c
        BY <1>3, <2>1
    <2>2. CASE d # c
        <3>1. call'[d] = call[d] /\ Of(d, AdAwaits) /\ AdHolds(d)
            BY <1>1, <1>3, <2>2 DEF Of, AdsInv
        <3>2. PICK k \in Campaigns : k = call[d].campaign
            BY <3>1, AdShape
        <3>3. AdStatus(k) \in {"active", "paused"} => AdStatus(k)' \in {"active", "paused"}
            BY DEF RowsStand
        <3>4. Telling(d) => campaign'[k].supplier = campaign[k].supplier
            <4> SUFFICES ASSUME Telling(d) PROVE campaign'[k].supplier = campaign[k].supplier
                OBVIOUS
            <4>1. [campaign |-> k, status |-> call[d].status, by |-> call[d].admin] \in decided
                BY <3>1, <3>2 DEF AdHolds
            <4>2. [campaign |-> k, status |-> call[d].status, by |-> call[d].admin].campaign = k
                OBVIOUS
            <4>3. campaign[k] # NULL
                BY <4>1, <4>2, OneDecision
            <4> QED
                BY <4>3 DEF RowsStand
        <3> QED
            BY <1>2, <3>1, <3>2, <3>3, <3>4 DEF AdHolds, At, Telling
    <2> QED
        BY <2>1, <2>2
<1>4. \A d \in decided : Judged(d.campaign)'
    BY OneDecision DEF RowsStand
<1>5. \A d, e \in Calls :
        Telling(d)' /\ Telling(e)'
        /\ call'[d].campaign = call'[e].campaign => d = e
    BY <1>1 DEF AdsInv, NewsInv, At, Telling
<1>6. NewsInv'
    <2>1. \A i \in DOMAIN inbox' : inbox'[i].news \in Tidings
        BY DEF AdsInv, NewsInv, SameNews
    <2>2. \A k \in Campaigns : ~Judged(k)' => Told(k)' = {} /\ k \notin unsent'
        BY <1>2 DEF AdsInv, NewsInv, RowsStand
    <2>3. \A k \in unsent' : Told(k)' = {}
        BY <1>2 DEF AdsInv, NewsInv
    <2> QED
        BY <1>5, <2>1, <2>2, <2>3 DEF NewsInv
<1>7. DecisionsAreTold'
    <2> SUFFICES ASSUME NEW d \in decided
                 PROVE  /\ \A i \in Told(d.campaign)' : Tells(inbox[i], d)'
                        /\ \/ Cardinality(Told(d.campaign)') = 1
                           \/ Told(d.campaign)' = {} /\ d.campaign \in unsent
                           \/ Told(d.campaign)' = {} /\ \E e \in Calls : Telling(e)'
                                                                        /\ call'[e].campaign = d.campaign
        BY DEF DecisionsAreTold, Told, Tells
    <2>1. PICK k \in Campaigns : k = d.campaign
        BY OneDecision
    <2>2. PICK told : told = Told(k) /\ told = Told(k)' /\ told \subseteq DOMAIN inbox
        BY <1>2 DEF Told
    <2>3. campaign'[k].supplier = campaign[k].supplier
        BY <2>1, OneDecision DEF RowsStand
    <2>4. \A i \in told : Tells(inbox[i], d)
        BY <2>1, <2>2 DEF AdsInv, DecisionsAreTold, Told, Tells
    <2>5. \/ Cardinality(told) = 1
          \/ told = {} /\ k \in unsent
          \/ told = {} /\ \E e \in Calls : Telling(e) /\ call[e].campaign = k
        BY <2>1, <2>2 DEF AdsInv, DecisionsAreTold, Told
    <2>6. \A e \in Calls : Telling(e) => Telling(e)' /\ call'[e].campaign = call[e].campaign
        BY <1>1 DEF At, Telling
    <2>7. \A i \in told : Tells(inbox[i], d)'
        BY <2>1, <2>2, <2>3, <2>4 DEF SameNews, Tells
    <2> QED
        BY <2>1, <2>2, <2>5, <2>6, <2>7
<1> QED
    BY <1>3, <1>4, <1>6, <1>7 DEF AdsInv

\* The rows of the campaigns are left.
LEMMA AdsLook ==
    ASSUME FramesOK, AdsInv, NEW c \in Calls, NEW awaits, Turn(c, awaits),
           ~Telling(c), ~Telling(c)',
           SameNews, UNCHANGED adRows, Of(c, AdAwaits)' => AdHolds(c)'
    PROVE  AdsInv'
<1>1. UNCHANGED <<campaign, counted, decided, unsent>>
    BY DEF adRows
<1>2. AdsTypeOK' /\ RowsStand
    BY <1>1 DEF AdsInv, AdsTypeOK, RowsStand, Judged, AdStatus
<1>3. DecisionStands'
    BY <1>1 DEF AdsInv, DecisionStands, AdStatus
<1> QED
    BY <1>1, <1>2, <1>3, AdsStay

\* A step of another part that leaves the news leaves the campaigns.
LEMMA AdsRest ==
    ASSUME FramesOK, AdsInv, NEW c \in Calls, NEW awaits, Turn(c, awaits),
           awaits \cap AdAwaits = {}, SameNews, UNCHANGED adRows
    PROVE  AdsInv'
<1>1. ~Of(c, AdAwaits)' /\ ~Telling(c) /\ ~Telling(c)'
    BY DEF Turn, Of, At, Telling, AdAwaits
<1> QED
    BY <1>1, AdsLook

\* A request about a campaign is answered.
LEMMA AdEnded ==
    ASSUME FramesOK, NEW c \in Calls, Of(c, AdAwaits), End(c)
    PROVE  Turn(c, AdAwaits) /\ ~Of(c, AdAwaits)' /\ ~Telling(c)'
<1>1. /\ call' = [call EXCEPT ![c] = call'[c]]
      /\ call'[c] \in Frames /\ call'[c].at = "idle"
    BY Ended
<1> QED
    BY <1>1 DEF Turn, Of, AdAwaits, At, Telling

\* A handler that has only read so far goes on.
LEMMA AdArrived ==
    ASSUME FramesOK, AdsInv, NEW c \in Calls, NEW f \in AdFrames,
           f.at \in {"finding-package", "finding-campaign", "finding-pending", "finding-shown"},
           Receive(c, f), UNCHANGED adRows, UNCHANGED notificationRows
    PROVE  AdsInv' /\ Turn(c, AdAwaits)
<1>1. call' = [call EXCEPT ![c] = call'[c]] /\ call'[c] = f /\ call[c].at = "idle"
    BY Received
<1>2. f \in Frames /\ f.at \in AdAwaits
    BY DEF Frames, AdAwaits
<1>3. Turn(c, AdAwaits)
    BY <1>1, <1>2 DEF Turn
<1>4. AdHolds(c)' /\ ~Telling(c)' /\ ~Telling(c)
    BY <1>1 DEF AdHolds, At, Telling
<1>5. SameNews
    BY NewsAsTheyAre DEF notificationRows
<1> QED
    BY <1>3, <1>4, <1>5, AdsLook

\* A request about a campaign arrives.
LEMMA AboutInv ==
    ASSUME FramesOK, AdsInv, NEW c \in Calls, UNCHANGED notificationRows,
           CreateCampaign(c) \/ PauseOrResume(c) \/ Moderate(c) \/ TrackEvent(c)
    PROVE  AdsInv' /\ Turn(c, AdAwaits)
<1>1. PICK f \in AdFrames :
        /\ f.at \in {"finding-package", "finding-campaign", "finding-pending", "finding-shown"}
        /\ About(c, f)
    <2>1. CASE CreateCampaign(c)
        <3>1. PICK k \in Campaigns, u \in Owners :
                About(c, [at |-> "finding-package", campaign |-> k, supplier |-> u])
            BY <2>1 DEF CreateCampaign
        <3>2. [at |-> "finding-package", campaign |-> k, supplier |-> u] \in AdFrames
            BY DEF AdFrames
        <3> QED
            BY <3>1, <3>2
    <2>2. CASE PauseOrResume(c)
        <3>1. PICK k \in Campaigns, u \in Owners, next \in {"paused", "active"} :
                About(c, [at |-> "finding-campaign", campaign |-> k, supplier |-> u, next |-> next])
            BY <2>2 DEF PauseOrResume
        <3>2. [at |-> "finding-campaign", campaign |-> k, supplier |-> u, next |-> next] \in AdFrames
            BY DEF AdFrames
        <3> QED
            BY <3>1, <3>2
    <2>3. CASE Moderate(c)
        <3>1. PICK k \in Campaigns, a \in Admins, chosen \in {"active", "rejected"} :
                About(c, [at |-> "finding-pending", campaign |-> k, admin |-> a, status |-> chosen,
                          row |-> NULL])
            BY <2>3 DEF Moderate
        <3>2. [at |-> "finding-pending", campaign |-> k, admin |-> a, status |-> chosen, row |-> NULL]
                \in AdFrames
            BY DEF AdFrames, ModerationFrames
        <3> QED
            BY <3>1, <3>2
    <2>4. CASE TrackEvent(c)
        <3>1. PICK k \in Campaigns :
                About(c, [at |-> "finding-shown", campaign |-> k, user |-> NULL])
            BY <2>4 DEF TrackEvent
        <3>2. [at |-> "finding-shown", campaign |-> k, user |-> NULL] \in AdFrames
            BY DEF AdFrames
        <3> QED
            BY <3>1, <3>2
    <2> QED
        BY <2>1, <2>2, <2>3, <2>4
<1> QED
    BY <1>1, AdArrived DEF About

\* The next await of a handler about a campaign.
LEMMA AdMoved ==
    ASSUME FramesOK, NEW c \in Calls, NEW await, Goto(c, await),
           \/ At(c, "finding-campaign") /\ await = "switching"
           \/ At(c, "finding-pending") /\ await = "moderating"
           \/ At(c, "moderating") /\ await = "rereading-campaign"
           \/ At(c, "finding-shown") /\ await = "recording"
    PROVE  /\ Turn(c, AdAwaits) /\ call'[c].at = await /\ call'[c].campaign = call[c].campaign
           /\ await = "rereading-campaign" =>
                call'[c].status = call[c].status /\ call'[c].admin = call[c].admin
<1>1. Of(c, AdAwaits)
    BY DEF Of, At, Telling, AdAwaits
<1>2. call' = [call EXCEPT ![c] = call'[c]] /\ call'[c] = [call[c] EXCEPT !.at = await]
    BY Moved
<1>3. CASE At(c, "finding-campaign") /\ await = "switching"
    <2>1. call[c] \in [at : {"finding-campaign", "switching"}, campaign : Campaigns,
                       supplier : Owners, next : {"paused", "active"}]
        BY <1>1, <1>3, AdShape DEF At
    <2>2. call'[c] \in AdFrames /\ call'[c].at = "switching" /\ call'[c].campaign = call[c].campaign
        BY <1>2, <1>3, <2>1 DEF AdFrames
    <2> QED
        BY <1>1, <1>2, <1>3, <2>2 DEF Turn, Of, Frames, AdAwaits
<1>4. CASE \/ At(c, "finding-pending") /\ await = "moderating"
           \/ At(c, "moderating") /\ await = "rereading-campaign"
    <2>1. call[c] \in ModerationFrames
        BY <1>1, <1>4, AdShape DEF At
    <2>2. call[c] \in [at : {"finding-pending", "moderating", "rereading-campaign"},
                       campaign : Campaigns, admin : Admins, status : {"active", "rejected"},
                       row : {NULL}]
        BY <1>4, <2>1 DEF ModerationFrames, At
    <2>3. /\ call'[c] \in [at : {"finding-pending", "moderating", "rereading-campaign"},
                           campaign : Campaigns, admin : Admins, status : {"active", "rejected"},
                           row : {NULL}]
          /\ call'[c].at = await /\ call'[c].campaign = call[c].campaign
          /\ call'[c].status = call[c].status /\ call'[c].admin = call[c].admin
        BY <1>2, <1>4, <2>2
    <2>4. call'[c] \in ModerationFrames
        BY <2>3 DEF ModerationFrames
    <2> QED
        BY <1>1, <1>2, <1>4, <2>3, <2>4 DEF Turn, Of, Frames, AdFrames, AdAwaits
<1>5. CASE At(c, "finding-shown") /\ await = "recording"
    <2>1. call[c] \in [at : {"finding-shown", "recording"}, campaign : Campaigns, user : {NULL}]
        BY <1>1, <1>5, AdShape DEF At
    <2>2. call'[c] \in AdFrames /\ call'[c].at = "recording" /\ call'[c].campaign = call[c].campaign
        BY <1>2, <1>5, <2>1 DEF AdFrames
    <2> QED
        BY <1>1, <1>2, <1>5, <2>2 DEF Turn, Of, Frames, AdAwaits
<1> QED
    BY <1>3, <1>4, <1>5

\* A handler reads a campaign and goes on or answers.
LEMMA AdReads ==
    ASSUME FramesOK, AdsInv, NEW c \in Calls, UNCHANGED notificationRows,
           FindCampaign(c) \/ FindPending(c) \/ FindShown(c)
    PROVE  AdsInv' /\ Turn(c, AdAwaits)
<1>1. UNCHANGED adRows /\ SameNews /\ UNCHANGED campaign
    BY NewsAsTheyAre DEF FindCampaign, FindPending, FindShown, adRows, notificationRows
<1>2. At(c, "finding-campaign") \/ At(c, "finding-pending") \/ At(c, "finding-shown")
    BY DEF FindCampaign, FindPending, FindShown
<1>3. Of(c, AdAwaits) /\ ~Telling(c)
    BY <1>2 DEF Of, At, Telling, AdAwaits
<1>4. CASE End(c)
    BY <1>1, <1>3, <1>4, AdEnded, AdsLook
<1>5. PICK k \in Campaigns : k = call[c].campaign
    BY <1>3, AdShape
<1>6. CASE FindCampaign(c) /\ ~End(c)
    <2>1. At(c, "finding-campaign") /\ Goto(c, "switching")
        BY <1>6 DEF FindCampaign
    <2>2. campaign[k] # NULL /\ CanSwitch(campaign[k].status, call[c].next)
        BY <1>5, <1>6 DEF FindCampaign
    <2>3. AdStatus(k) \in {"active", "paused"}
        BY <2>2 DEF AdStatus, CanSwitch
    <2>4. Turn(c, AdAwaits) /\ call'[c].at = "switching" /\ call'[c].campaign = k
        BY <1>5, <2>1, AdMoved
    <2>5. AdHolds(c)' /\ ~Telling(c)'
        BY <1>1, <2>3, <2>4 DEF AdHolds, At, Telling, AdStatus
    <2> QED
        BY <1>1, <1>3, <2>4, <2>5, AdsLook
<1>7. CASE FindPending(c) /\ ~End(c)
    <2>1. At(c, "finding-pending") /\ Goto(c, "moderating")
        BY <1>7 DEF FindPending
    <2>2. Turn(c, AdAwaits) /\ call'[c].at = "moderating"
        BY <2>1, AdMoved
    <2>3. AdHolds(c)' /\ ~Telling(c)'
        BY <2>2 DEF AdHolds, At, Telling
    <2> QED
        BY <1>1, <1>3, <2>2, <2>3, AdsLook
<1>8. CASE FindShown(c) /\ ~End(c)
    <2>1. At(c, "finding-shown") /\ Goto(c, "recording") /\ AdStatus(k) = "active"
        BY <1>5, <1>8 DEF FindShown
    <2>2. Turn(c, AdAwaits) /\ call'[c].at = "recording" /\ call'[c].campaign = k
        BY <1>5, <2>1, AdMoved
    <2>3. AdHolds(c)' /\ ~Telling(c)'
        BY <1>1, <2>1, <2>2 DEF AdHolds, At, Telling, AdStatus
    <2> QED
        BY <1>1, <1>3, <2>2, <2>3, AdsLook
<1> QED
    BY <1>4, <1>6, <1>7, <1>8

\* What DecisionStands says of one campaign.
Stands(k) ==
    \/ AdStatus(k) \in {"none", "pending_approval"} /\ k \notin counted
       /\ \A d \in decided : d.campaign # k
    \/ \E d \in decided :
        /\ {e \in decided : e.campaign = k} = {d}
        /\ campaign[k].by = d.by
        /\ (d.status = "rejected") = (campaign[k].status = "rejected")
        /\ k \in counted => d.status = "active"

\* The other campaigns are as they were.
LEMMA StandsElsewhere ==
    ASSUME DecisionStands, NEW q \in Campaigns,
           \A k \in Campaigns \ {q} : campaign'[k] = campaign[k] /\ (k \in counted' <=> k \in counted),
           UNCHANGED decided, Stands(q)'
    PROVE  DecisionStands'
<1>1. \A k \in Campaigns \ {q} : Stands(k)'
    BY DEF DecisionStands, Stands, AdStatus
<1> QED
    BY <1>1 DEF DecisionStands, Stands

\* INSERT of a campaign that waits for its decision.
LEMMA SaveCampaignInv ==
    ASSUME FramesOK, AdsInv, NEW c \in Calls, SaveCampaign(c), UNCHANGED notificationRows
    PROVE  AdsInv' /\ Turn(c, AdAwaits)
<1>1. /\ At(c, "finding-package") /\ Of(c, AdAwaits) /\ ~Telling(c) /\ End(c)
      /\ UNCHANGED <<counted, decided, unsent>> /\ SameNews
    BY NewsAsTheyAre DEF SaveCampaign, notificationRows, Of, At, Telling, AdAwaits
<1>2. Turn(c, AdAwaits) /\ ~Of(c, AdAwaits)' /\ ~Telling(c)'
    BY <1>1, AdEnded
<1>3. CASE UNCHANGED campaign
    <2>1. UNCHANGED adRows
        BY <1>1, <1>3 DEF adRows
    <2> QED
        BY <1>1, <1>2, <2>1, AdsLook
<1>4. CASE ~UNCHANGED campaign
    <2>1. PICK q \in Campaigns, u \in Owners : q = call[c].campaign /\ u = call[c].supplier
        BY <1>1, AdShape
    <2>2. PICK row \in AdRows : /\ row = [supplier |-> u, status |-> "pending_approval", by |-> NULL]
                                /\ row.status = "pending_approval" /\ row # NULL
        <3>1. [supplier |-> u, status |-> "pending_approval", by |-> NULL] \in AdRows
            BY DEF AdRows
        <3> QED
            BY <3>1, AdsAssumption
    <2>3. campaign[q] = NULL /\ campaign' = [campaign EXCEPT ![q] = row]
        BY <1>4, <2>1, <2>2 DEF SaveCampaign
    <2>4. campaign \in [Campaigns -> AdRows \cup {NULL}]
        BY DEF AdsInv, AdsTypeOK
    <2>5. campaign'[q] = row /\ \A k \in Campaigns \ {q} : campaign'[k] = campaign[k]
        BY <2>3, <2>4
    <2>6. AdsTypeOK'
        BY <1>1, <2>3, <2>4 DEF AdsInv, AdsTypeOK
    <2>7. AdStatus(q) = "none" /\ AdStatus(q)' = "pending_approval"
        BY <2>2, <2>3, <2>5 DEF AdStatus
    <2>8. \A k \in Campaigns \ {q} : AdStatus(k)' = AdStatus(k)
        BY <2>5 DEF AdStatus
    <2>9. RowsStand
        BY <2>3, <2>5, <2>7, <2>8 DEF RowsStand, Judged
    <2>10. \A d \in decided : d.campaign # q
        BY <2>7, OneDecision DEF Judged
    <2>11. q \notin counted
        BY <2>10 DEF AdsInv, DecisionStands
    <2>12. Stands(q)'
        BY <1>1, <2>7, <2>10, <2>11 DEF Stands
    <2>13. DecisionStands'
        BY <1>1, <2>5, <2>12, StandsElsewhere DEF AdsInv
    <2> QED
        BY <1>1, <1>2, <2>6, <2>9, <2>13, AdsStay
<1> QED
    BY <1>3, <1>4

\* The unconditional UPDATE that pauses or resumes: the campaign is still an approved one.
LEMMA SwitchInv ==
    ASSUME FramesOK, AdsInv, NEW c \in Calls, Switch(c), UNCHANGED notificationRows
    PROVE  AdsInv' /\ Turn(c, AdAwaits)
<1>1. /\ At(c, "switching") /\ Of(c, AdAwaits) /\ ~Telling(c) /\ End(c)
      /\ UNCHANGED <<counted, decided, unsent>> /\ SameNews
    BY NewsAsTheyAre DEF Switch, notificationRows, Of, At, Telling, AdAwaits
<1>2. Turn(c, AdAwaits) /\ ~Of(c, AdAwaits)' /\ ~Telling(c)'
    BY <1>1, AdEnded
<1>3. PICK q \in Campaigns, next \in {"active", "paused"} : q = call[c].campaign /\ next = call[c].next
    BY <1>1, AdShape DEF At
<1>4. AdStatus(q) \in {"active", "paused"}
    BY <1>1, <1>3 DEF AdsInv, AdHolds, At, Telling
<1>5. PICK old \in AdRows : old = campaign[q] /\ old.status \in {"active", "paused"} /\ campaign[q] # NULL
    BY <1>4, AdRow DEF AdsInv
<1>6. PICK row \in AdRows : /\ row = [old EXCEPT !.status = next] /\ row # NULL
                            /\ row.status = next /\ row.supplier = old.supplier /\ row.by = old.by
    <2>1. [old EXCEPT !.status = next] \in AdRows
        BY DEF AdRows
    <2>2. /\ [old EXCEPT !.status = next].status = next
          /\ [old EXCEPT !.status = next].supplier = old.supplier
          /\ [old EXCEPT !.status = next].by = old.by
        BY DEF AdRows
    <2> QED
        BY <2>1, <2>2, AdsAssumption
<1>7. campaign' = [campaign EXCEPT ![q] = row] /\ campaign \in [Campaigns -> AdRows \cup {NULL}]
    BY <1>3, <1>5, <1>6 DEF Switch, AdsInv, AdsTypeOK
<1>8. campaign'[q] = row /\ \A k \in Campaigns \ {q} : campaign'[k] = campaign[k]
    BY <1>7
<1>9. AdsTypeOK'
    BY <1>1, <1>7 DEF AdsInv, AdsTypeOK
<1>10. AdStatus(q)' = next /\ \A k \in Campaigns \ {q} : AdStatus(k)' = AdStatus(k)
    BY <1>6, <1>8 DEF AdStatus
<1>11. RowsStand
    BY <1>5, <1>6, <1>8, <1>10 DEF RowsStand, Judged
<1>12. Stands(q)'
    <2>1. PICK d \in decided :
            /\ {e \in decided : e.campaign = q} = {d} /\ old.by = d.by
            /\ (d.status = "rejected") = (old.status = "rejected")
            /\ q \in counted => d.status = "active"
        BY <1>4, <1>5 DEF AdsInv, DecisionStands
    <2>2. /\ campaign'[q].by = d.by
          /\ (d.status = "rejected") = (campaign'[q].status = "rejected")
        BY <1>5, <1>6, <1>8, <2>1
    <2> QED
        BY <1>1, <2>1, <2>2 DEF Stands
<1>13. DecisionStands'
    BY <1>1, <1>8, <1>12, StandsElsewhere DEF AdsInv
<1> QED
    BY <1>1, <1>2, <1>9, <1>11, <1>13, AdsStay

\* A view is counted, of a campaign that was active when it was read.
LEMMA RecordEventInv ==
    ASSUME FramesOK, AdsInv, NEW c \in Calls, RecordEvent(c), UNCHANGED notificationRows
    PROVE  AdsInv' /\ Turn(c, AdAwaits)
<1>1. /\ At(c, "recording") /\ Of(c, AdAwaits) /\ ~Telling(c) /\ End(c)
      /\ UNCHANGED <<campaign, decided, unsent>> /\ SameNews
    BY NewsAsTheyAre DEF RecordEvent, notificationRows, Of, At, Telling, AdAwaits
<1>2. Turn(c, AdAwaits) /\ ~Of(c, AdAwaits)' /\ ~Telling(c)'
    BY <1>1, AdEnded
<1>3. PICK q \in Campaigns : q = call[c].campaign
    BY <1>1, AdShape
<1>4. AdStatus(q) \in {"active", "paused"} /\ campaign[q] # NULL
    BY <1>1, <1>3 DEF AdsInv, AdHolds, At, Telling, AdStatus
<1>5. counted' = counted \cup {q}
    BY <1>3 DEF RecordEvent
<1>6. AdsTypeOK' /\ RowsStand
    BY <1>1, <1>5 DEF AdsInv, AdsTypeOK, RowsStand, Judged, AdStatus
<1>7. Stands(q)'
    <2>1. PICK d \in decided :
            /\ {e \in decided : e.campaign = q} = {d} /\ campaign[q].by = d.by
            /\ (d.status = "rejected") = (campaign[q].status = "rejected")
        BY <1>4 DEF AdsInv, DecisionStands
    <2>2. campaign[q].status # "rejected"
        BY <1>4 DEF AdStatus
    <2>3. d.status = "active"
        BY <2>1, <2>2 DEF AdsInv, AdsTypeOK, Decisions
    <2> QED
        BY <1>1, <2>1, <2>3 DEF Stands
<1>8. DecisionStands'
    BY <1>1, <1>5, <1>7, StandsElsewhere DEF AdsInv
<1> QED
    BY <1>1, <1>2, <1>6, <1>8, AdsStay

\* What DecisionsAreTold says of one decision.
ToldOnce(d) ==
    /\ \A i \in Told(d.campaign) : Tells(inbox[i], d)
    /\ \/ Cardinality(Told(d.campaign)) = 1
       \/ Told(d.campaign) = {} /\ d.campaign \in unsent
       \/ Told(d.campaign) = {}
          /\ \E c \in Calls : Telling(c) /\ call[c].campaign = d.campaign

\* DecisionsAreTold, one decision at a time.
LEMMA ToldEach ==
    ASSUME AdsInv, NEW d \in decided
    PROVE  ToldOnce(d)
BY DEF AdsInv, DecisionsAreTold, ToldOnce, Told, Tells

\* What the step does to the campaigns other than q.
Elsewhere(q) ==
    \A k \in Campaigns \ {q} :
        /\ campaign'[k] = campaign[k] /\ (k \in counted' <=> k \in counted)
        /\ k \in unsent' <=> k \in unsent
        /\ Told(k)' = Told(k)
        /\ \A i \in Told(k) : inbox'[i] = inbox[i]
        /\ \A d \in Decisions : d.campaign = k => (d \in decided' <=> d \in decided)

\* A step about one campaign q, by call c, leaves the others.
LEMMA AdsAbout ==
    ASSUME FramesOK, AdsInv, NEW c \in Calls, Turn(c, AdAwaits), NEW q \in Campaigns,
           Of(c, AdAwaits), call[c].campaign = q, Elsewhere(q), AdsTypeOK',
           Of(c, AdAwaits)' => AdHolds(c)' /\ call'[c].campaign = q,
           \A d \in Calls \ {c} : Of(d, AdAwaits) /\ call[d].campaign = q => AdHolds(d)',
           \A d \in Calls \ {c} :
             Telling(d) /\ Telling(c)' => call[d].campaign # q,
           \A d \in decided' : d.campaign = q => Judged(q)',
           ~Judged(q)' => Told(q)' = {} /\ q \notin unsent',
           q \in unsent' => Told(q)' = {},
           \A i \in DOMAIN inbox' : inbox'[i].news \in Tidings,
           Stands(q)',
           \A d \in decided' : d.campaign = q => ToldOnce(d)'
    PROVE  AdsInv'
<1>1. \A d \in Calls \ {c} : call'[d] = call[d]
    BY TurnOthers
<1>2. \A k \in Campaigns \ {q} : AdStatus(k)' = AdStatus(k)
    BY DEF Elsewhere, AdStatus
<1>3. decided \subseteq Decisions /\ decided' \subseteq Decisions /\ unsent' \subseteq Campaigns
    BY DEF AdsInv, AdsTypeOK
<1>4. \A d \in Decisions : d.campaign \in Campaigns
    BY DEF Decisions
<1>5. \A d \in decided' : d.campaign # q => d \in decided
    BY <1>3, <1>4 DEF Elsewhere
<1>6. ASSUME NEW d \in Calls, Of(d, AdAwaits)' PROVE AdHolds(d)'
    <2>1. CASE d = c
        BY <1>6, <2>1
    <2>2. CASE d # c
        <3>1. call'[d] = call[d] /\ Of(d, AdAwaits) /\ AdHolds(d)
            BY <1>1, <1>6, <2>2 DEF Of, AdsInv
        <3>2. PICK k \in Campaigns : k = call[d].campaign
            BY <3>1, AdShape
        <3>3. CASE k = q
            BY <2>2, <3>1, <3>2, <3>3
        <3>4. CASE k # q
            <4>1. /\ AdStatus(k)' = AdStatus(k) /\ campaign'[k] = campaign[k]
                  /\ Told(k)' = Told(k) /\ (k \in unsent' <=> k \in unsent)
                BY <1>2, <3>4 DEF Elsewhere
            <4>2. \A x \in decided : x.campaign = k => x \in decided'
                BY <1>3, <3>4 DEF Elsewhere
            <4>3. [campaign |-> k, status |-> call[d].status, by |-> call[d].admin].campaign = k
                OBVIOUS
            <4> QED
                BY <3>1, <3>2, <4>1, <4>2, <4>3 DEF AdHolds, At, Telling
        <3> QED
            BY <3>3, <3>4
    <2> QED
        BY <2>1, <2>2
<1>7. \A d \in decided' : Judged(d.campaign)'
    <2> SUFFICES ASSUME NEW d \in decided', d.campaign # q
                 PROVE  Judged(d.campaign)'
        OBVIOUS
    <2>1. d \in decided /\ d.campaign \in Campaigns
        BY <1>3, <1>4, <1>5
    <2> QED
        BY <1>2, <2>1, OneDecision DEF Judged
<1>8. NewsInv'
    <2>1. \A k \in Campaigns : ~Judged(k)' => Told(k)' = {} /\ k \notin unsent'
        <3> SUFFICES ASSUME NEW k \in Campaigns \ {q}, ~Judged(k)'
                     PROVE  Told(k)' = {} /\ k \notin unsent'
            OBVIOUS
        <3>1. ~Judged(k)
            BY <1>2 DEF Judged
        <3> QED
            BY <3>1 DEF AdsInv, NewsInv, Elsewhere
    <2>2. \A k \in unsent' : Told(k)' = {}
        BY <1>3 DEF AdsInv, NewsInv, Elsewhere
    <2>3. ASSUME NEW d \in Calls, NEW e \in Calls, Telling(d)',
                 Telling(e)', call'[d].campaign = call'[e].campaign
          PROVE  d = e
        <3>1. CASE d # c /\ e # c
            BY <1>1, <2>3, <3>1 DEF AdsInv, NewsInv, At, Telling
        <3>2. CASE d = c \/ e = c
            <4>1. call'[c].campaign = q
                BY <2>3, <3>2 DEF At, Telling, Of, AdAwaits
            <4> QED
                BY <1>1, <2>3, <3>2, <4>1 DEF At, Telling
        <3> QED
            BY <3>1, <3>2
    <2> QED
        BY <2>1, <2>2, <2>3 DEF NewsInv
<1>9. DecisionStands'
    <2>1. ASSUME NEW k \in Campaigns \ {q} PROVE Stands(k)'
        <3>1. Stands(k)
            BY DEF AdsInv, DecisionStands, Stands
        <3>2. \A d : d \in decided' /\ d.campaign = k <=> d \in decided /\ d.campaign = k
            BY <1>3 DEF Elsewhere
        <3>3. {e \in decided' : e.campaign = k} = {e \in decided : e.campaign = k}
            BY <3>2
        <3>4. AdStatus(k)' = AdStatus(k) /\ campaign'[k] = campaign[k] /\ (k \in counted' <=> k \in counted)
            BY <1>2 DEF Elsewhere
        <3> QED
            BY <3>1, <3>2, <3>3, <3>4 DEF Stands
    <2> QED
        BY <2>1 DEF DecisionStands, Stands
<1>10. ASSUME NEW d \in decided' PROVE ToldOnce(d)'
    <2>1. CASE d.campaign = q
        BY <1>10, <2>1
    <2>2. CASE d.campaign # q
        <3>1. d \in decided /\ d.campaign \in Campaigns
            BY <1>3, <1>4, <1>5, <1>10, <2>2
        <3>2. PICK k \in Campaigns \ {q} : k = d.campaign
            BY <2>2, <3>1
        <3>3. PICK told : told = Told(k) /\ told = Told(k)'
            BY DEF Elsewhere
        <3>4. campaign'[k] = campaign[k] /\ (k \in unsent' <=> k \in unsent) /\ \A i \in told : inbox'[i] = inbox[i]
            BY <3>3 DEF Elsewhere
        <3>5. \A e \in Calls : Telling(e) /\ call[e].campaign = k =>
                Telling(e)' /\ call'[e].campaign = k
            BY <1>1 DEF At, Telling
        <3>6. ToldOnce(d)
            BY <3>1, ToldEach
        <3>7. /\ \A i \in told : Tells(inbox[i], d)
              /\ \/ Cardinality(told) = 1
                 \/ told = {} /\ k \in unsent
                 \/ told = {} /\ \E e \in Calls : Telling(e) /\ call[e].campaign = k
            BY <3>2, <3>3, <3>6 DEF ToldOnce
        <3> QED
            BY <3>2, <3>3, <3>4, <3>5, <3>7 DEF ToldOnce, Tells
    <2> QED
        BY <2>1, <2>2
<1>11. DecisionsAreTold'
    BY <1>10 DEF DecisionsAreTold, ToldOnce, Told, Tells
<1> QED
    BY <1>6, <1>7, <1>8, <1>9, <1>11 DEF AdsInv

\* The conditional UPDATE of a decision.
LEMMA ModerateCampaignInv ==
    ASSUME FramesOK, AdsInv, NEW c \in Calls, ModerateCampaign(c), UNCHANGED notificationRows
    PROVE  AdsInv' /\ Turn(c, AdAwaits)
<1>1. /\ At(c, "moderating") /\ Of(c, AdAwaits) /\ ~Telling(c)
      /\ UNCHANGED <<counted, unsent>> /\ UNCHANGED inbox /\ SameNews
    BY NewsAsTheyAre DEF ModerateCampaign, notificationRows, Of, At, Telling, AdAwaits
<1>2. PICK q \in Campaigns, chosen \in {"active", "rejected"}, by \in Admins :
        q = call[c].campaign /\ chosen = call[c].status /\ by = call[c].admin
    BY <1>1, AdShape DEF At, ModerationFrames
<1>3. CASE ~StillPending(q)
    <2>1. End(c) /\ UNCHANGED adRows
        BY <1>1, <1>2, <1>3 DEF ModerateCampaign, adRows
    <2> QED
        BY <1>1, <2>1, AdEnded, AdsLook
<1>4. CASE StillPending(q)
    <2>1. PICK d \in Decisions : /\ d = [campaign |-> q, status |-> chosen, by |-> by]
                                 /\ d.campaign = q /\ d.status = chosen /\ d.by = by
        <3>1. [campaign |-> q, status |-> chosen, by |-> by] \in Decisions
            BY DEF Decisions
        <3> QED
            BY <3>1
    <2>2. /\ campaign' = [campaign EXCEPT ![q].status = chosen, ![q].by = by]
          /\ decided' = decided \cup {d} /\ Goto(c, "rereading-campaign")
        BY <1>2, <1>4, <2>1 DEF ModerateCampaign
    <2>3. PICK old \in AdRows : old = campaign[q] /\ old.status = "pending_approval"
        BY <1>4, AdRow DEF AdsInv, StillPending
    <2>4. PICK row \in AdRows : /\ row = [old EXCEPT !.status = chosen, !.by = by] /\ row # NULL
                                /\ row.status = chosen /\ row.by = by
        <3>1. [old EXCEPT !.status = chosen, !.by = by] \in AdRows
            BY DEF AdRows
        <3>2. /\ [old EXCEPT !.status = chosen, !.by = by].status = chosen
              /\ [old EXCEPT !.status = chosen, !.by = by].by = by
            BY DEF AdRows
        <3> QED
            BY <3>1, <3>2, AdsAssumption
    <2>5. campaign' = [campaign EXCEPT ![q] = row] /\ campaign \in [Campaigns -> AdRows \cup {NULL}]
        BY <2>2, <2>3, <2>4 DEF AdsInv, AdsTypeOK
    <2>6. campaign'[q] = row /\ \A k \in Campaigns \ {q} : campaign'[k] = campaign[k]
        BY <2>5
    <2>7. AdStatus(q)' = chosen /\ Judged(q)' /\ ~Judged(q)
        BY <1>4, <2>4, <2>6 DEF AdStatus, Judged, StillPending
    <2>8. /\ Turn(c, AdAwaits) /\ call'[c].at = "rereading-campaign" /\ call'[c].campaign = q
          /\ call'[c].status = chosen /\ call'[c].admin = by
        BY <1>1, <1>2, <2>2, AdMoved
    <2>9. Told(q) = {} /\ q \notin unsent
        BY <2>7 DEF AdsInv, NewsInv
    <2>10. \A k : Told(k)' = Told(k)
        BY <1>1, ToldStays
    <2>11. \A e \in decided : e.campaign # q
        BY <2>7, OneDecision
    <2>12. q \notin counted
        BY <2>11 DEF AdsInv, DecisionStands
    <2>13. AdsTypeOK'
        BY <1>1, <2>2, <2>5 DEF AdsInv, AdsTypeOK
    <2>14. Elsewhere(q)
        BY <1>1, <2>1, <2>2, <2>6, <2>10 DEF Elsewhere
    <2>15. AdHolds(c)'
        BY <1>1, <2>1, <2>2, <2>8, <2>9, <2>10 DEF AdHolds, At, Telling
    <2>16. ASSUME NEW e \in Calls \ {c}, Of(e, AdAwaits), call[e].campaign = q
           PROVE  AdHolds(e)' /\ ~Telling(e)
        <3>1. AdHolds(e) /\ call'[e] = call[e]
            BY <2>8, <2>16, TurnOthers DEF AdsInv
        <3>2. call[e].at \notin {"switching", "recording"}
            BY <2>7, <2>16, <3>1 DEF AdHolds, Judged
        <3>3. ~Telling(e)
            <4>1. [campaign |-> q, status |-> call[e].status, by |-> call[e].admin].campaign = q
                OBVIOUS
            <4> QED
                BY <2>11, <2>16, <3>1, <4>1 DEF AdHolds
        <3> QED
            BY <3>1, <3>2, <3>3 DEF AdHolds, At, Telling
    <2>17. \A e \in Calls \ {c} : Telling(e) => call[e].campaign # q
        BY <2>16 DEF At, Telling, Of, AdAwaits
    <2>18. Stands(q)'
        <3>1. {e \in decided' : e.campaign = q} = {d}
            BY <2>1, <2>2, <2>11
        <3> QED
            BY <1>1, <2>1, <2>2, <2>4, <2>6, <2>12, <3>1 DEF Stands
    <2>19. \A e \in decided' : e.campaign = q => ToldOnce(e)'
        <3>1. ASSUME NEW e \in decided', e.campaign = q PROVE ToldOnce(e)'
            <4>1. Telling(c)' /\ call'[c].campaign = e.campaign
                BY <2>8, <3>1 DEF At, Telling
            <4>2. Told(e.campaign)' = {}
                BY <2>9, <2>10, <3>1
            <4> QED
                BY <4>1, <4>2 DEF ToldOnce
        <3> QED
            BY <3>1
    <2>20. \A i \in DOMAIN inbox' : inbox'[i].news \in Tidings
        BY <1>1 DEF AdsInv, NewsInv
    <2> QED
        BY <1>1, <1>2, <2>7, <2>8, <2>9, <2>10, <2>13, <2>14, <2>15, <2>16, <2>17, <2>18, <2>19, <2>20,
           AdsAbout
<1> QED
    BY <1>3, <1>4

\* What is known when the supplier is about to be told.
LEMMA ToTell ==
    ASSUME FramesOK, AdsInv, NEW c \in Calls, Telling(c)
    PROVE  /\ Of(c, AdAwaits) /\ call[c] \in ModerationFrames
           /\ \E q \in Campaigns, d \in decided :
                /\ q = call[c].campaign /\ d.campaign = q /\ d.status = call[c].status
                /\ d.status \in {"active", "rejected"}
                /\ \A e \in decided : e.campaign = q => e = d
                /\ Told(q) = {} /\ q \notin unsent /\ Judged(q) /\ campaign[q] \in AdRows
           /\ \A e \in Calls \ {c} : Telling(e) => call[e].campaign # call[c].campaign
<1>1. Of(c, AdAwaits) /\ call[c] \in ModerationFrames
    <2>1. Of(c, AdAwaits)
        BY DEF Of, At, Telling, AdAwaits
    <2> QED
        BY <2>1, AdShape DEF At, Telling
<1>2. PICK q \in Campaigns : q = call[c].campaign
    BY <1>1, AdShape
<1>3. PICK d \in decided : d = [campaign |-> q, status |-> call[c].status, by |-> call[c].admin]
    BY <1>1, <1>2 DEF AdsInv, AdHolds
<1>4. d.campaign = q /\ d.status = call[c].status
    BY <1>3
<1>5. Judged(q) /\ campaign[q] # NULL /\ d \in Decisions /\ \A e \in decided : e.campaign = q => e = d
    BY <1>4, OneDecision
<1>6. campaign[q] \in AdRows /\ d.status \in {"active", "rejected"}
    BY <1>5, AdRow DEF AdsInv, Decisions
<1>7. Told(q) = {} /\ q \notin unsent
    BY <1>1, <1>2 DEF AdsInv, AdHolds
<1>8. \A e \in Calls \ {c} : Telling(e) => call[e].campaign # call[c].campaign
    BY DEF AdsInv, NewsInv
<1> QED
    BY <1>1, <1>2, <1>4, <1>5, <1>6, <1>7, <1>8

\* The supplier is not told: the notification failed or the handler died before it.
LEMMA UnsentInv ==
    ASSUME FramesOK, AdsInv, NEW c \in Calls, Telling(c), End(c),
           unsent' = unsent \cup {call[c].campaign}, UNCHANGED <<campaign, counted, decided>>, SameNews,
           UNCHANGED inbox
    PROVE  AdsInv' /\ Turn(c, AdAwaits)
<1>1. /\ Of(c, AdAwaits)
      /\ \A e \in Calls \ {c} : Telling(e) => call[e].campaign # call[c].campaign
    BY ToTell
<1>2. PICK q \in Campaigns, d \in decided :
        /\ q = call[c].campaign /\ d.campaign = q
        /\ \A e \in decided : e.campaign = q => e = d
        /\ Told(q) = {} /\ q \notin unsent /\ Judged(q)
    BY ToTell
<1>3. Turn(c, AdAwaits) /\ ~Of(c, AdAwaits)' /\ ~Telling(c)'
    BY <1>1, AdEnded
<1>4. \A k : Told(k)' = Told(k)
    BY ToldStays
<1>5. unsent' = unsent \cup {q}
    BY <1>2
<1>6. AdsTypeOK'
    BY <1>5 DEF AdsInv, AdsTypeOK
<1>7. Elsewhere(q)
    BY <1>4, <1>5 DEF Elsewhere
<1>8. ASSUME NEW e \in Calls \ {c}, Of(e, AdAwaits), call[e].campaign = q PROVE AdHolds(e)'
    <2>1. AdHolds(e) /\ call'[e] = call[e]
        BY <1>3, <1>8, TurnOthers DEF AdsInv
    <2>2. ~Telling(e)
        BY <1>1, <1>2, <1>8
    <2> QED
        BY <1>8, <2>1, <2>2 DEF AdHolds, At, Telling, AdStatus
<1>9. Judged(q)' /\ Stands(q)'
    <2>1. Stands(q)
        BY DEF AdsInv, DecisionStands, Stands
    <2> QED
        BY <1>2, <2>1 DEF Judged, AdStatus, Stands
<1>10. \A e \in decided' : e.campaign = q => ToldOnce(e)'
    BY <1>2, <1>4, <1>5 DEF ToldOnce
<1>11. \A i \in DOMAIN inbox' : inbox'[i].news \in Tidings
    BY DEF AdsInv, NewsInv
<1> QED
    BY <1>1, <1>2, <1>3, <1>4, <1>6, <1>7, <1>8, <1>9, <1>10, <1>11, AdsAbout

\* The row of the campaign is read again: it has the supplier, and a status that the
\* decision allows.
LEMMA RereadCampaignInv ==
    ASSUME FramesOK, AdsInv, NEW c \in Calls, RereadCampaign(c), UNCHANGED notificationRows
    PROVE  AdsInv' /\ Turn(c, AdAwaits)
<1>1. /\ At(c, "rereading-campaign") /\ Telling(c) /\ UNCHANGED <<campaign, counted, decided>>
      /\ SameNews /\ UNCHANGED inbox
    BY NewsAsTheyAre DEF RereadCampaign, Telling, notificationRows
<1>2. CASE End(c) /\ unsent' = unsent \cup {call[c].campaign}
    BY <1>1, <1>2, UnsentInv
<1>3. CASE Keep(c, "notifying-supplier", campaign[call[c].campaign]) /\ UNCHANGED unsent
    <2>1. /\ Of(c, AdAwaits) /\ call[c] \in ModerationFrames
          /\ \A e \in Calls \ {c} : Telling(e) => call[e].campaign # call[c].campaign
        BY <1>1, ToTell
    <2>2. PICK q \in Campaigns, d \in decided :
            /\ q = call[c].campaign /\ d.campaign = q /\ d.status = call[c].status
            /\ d.status \in {"active", "rejected"}
            /\ \A e \in decided : e.campaign = q => e = d
            /\ Told(q) = {} /\ q \notin unsent /\ Judged(q) /\ campaign[q] \in AdRows
        BY <1>1, ToTell
    <2>3. PICK old \in ModerationFrames, row \in AdRows : old = call[c] /\ row = campaign[q]
        BY <2>1, <2>2
    <2>4. PICK f : f = [old EXCEPT !.at = "notifying-supplier", !.row = row]
        OBVIOUS
    <2>5. /\ f \in ModerationFrames /\ f.at = "notifying-supplier" /\ f.row = row
          /\ f.campaign = q /\ f.status = old.status /\ f.admin = old.admin
        BY <2>2, <2>3, <2>4 DEF ModerationFrames
    <2>6. call'[c] = f /\ call' = [call EXCEPT ![c] = call'[c]]
        BY <1>3, <2>2, <2>3, <2>4 DEF Keep, FramesOK
    <2>7. Turn(c, AdAwaits)
        BY <2>1, <2>5, <2>6 DEF Turn, Of, Frames, AdFrames, AdAwaits
    <2>8. \A k : Told(k)' = Told(k)
        BY <1>1, ToldStays
    <2>9. AdsTypeOK' /\ Elsewhere(q)
        BY <1>1, <1>3, <2>8 DEF AdsInv, AdsTypeOK, Elsewhere
    <2>10. Judged(q)' /\ Stands(q) /\ Stands(q)'
        <3>1. Stands(q)
            BY DEF AdsInv, DecisionStands, Stands
        <3> QED
            BY <1>1, <2>2, <3>1 DEF Judged, AdStatus, Stands
    <2>11. /\ row.status \in {"active", "paused", "rejected"}
           /\ (row.status = "rejected") = (d.status = "rejected")
        <3>1. AdStatus(q) = row.status
            BY <2>2, <2>3, AdRow, OneDecision DEF AdsInv
        <3>2. PICK e \in decided :
                /\ {x \in decided : x.campaign = q} = {e}
                /\ (e.status = "rejected") = (campaign[q].status = "rejected")
            BY <2>2, <2>10 DEF Stands, Judged
        <3>3. e = d
            BY <2>2, <3>2
        <3> QED
            BY <2>2, <2>3, <3>1, <3>2, <3>3 DEF Judged
    <2>12. AdHolds(c)'
        <3>1. AdHolds(c)
            BY <2>1 DEF AdsInv
        <3> QED
            BY <1>1, <1>3, <2>2, <2>3, <2>5, <2>6, <2>8, <2>11, <3>1 DEF AdHolds, At, Telling
    <2>13. ASSUME NEW e \in Calls \ {c}, Of(e, AdAwaits), call[e].campaign = q PROVE AdHolds(e)'
        <3>1. AdHolds(e) /\ call'[e] = call[e]
            BY <2>7, <2>13, TurnOthers DEF AdsInv
        <3>2. ~Telling(e)
            BY <2>1, <2>2, <2>13
        <3> QED
            BY <1>1, <2>13, <3>1, <3>2 DEF AdHolds, At, Telling, AdStatus
    <2>14. \A e \in decided' : e.campaign = q => ToldOnce(e)'
        <3>1. Telling(c)' /\ call'[c].campaign = q
            BY <2>5, <2>6 DEF Telling, At
        <3> QED
            BY <2>2, <2>8, <3>1 DEF ToldOnce
    <2>15. \A i \in DOMAIN inbox' : inbox'[i].news \in Tidings
        BY <1>1 DEF AdsInv, NewsInv
    <2> QED
        BY <1>1, <1>3, <2>1, <2>2, <2>5, <2>6, <2>7, <2>8, <2>9, <2>10, <2>12, <2>13, <2>14, <2>15, AdsAbout
<1> QED
    BY <1>2, <1>3 DEF RereadCampaign

\* The notification is stored: the supplier has now been told.
LEMMA TellInv ==
    ASSUME FramesOK, NoticesInv, AdsInv, NEW c \in Calls, At(c, "notifying-supplier"), End(c),
           CanPublish,
           Publish(call[c].row.supplier,
                   [about |-> call[c].campaign, says |-> call[c].status, shows |-> call[c].row.status]),
           UNCHANGED adRows
    PROVE  AdsInv' /\ NoticesInv' /\ Turn(c, AdAwaits)
<1>1. /\ Of(c, AdAwaits)
      /\ \A e \in Calls \ {c} : Telling(e) => call[e].campaign # call[c].campaign
    BY ToTell DEF Telling
<1>2. PICK q \in Campaigns, d \in decided :
        /\ q = call[c].campaign /\ d.campaign = q /\ d.status = call[c].status
        /\ d.status \in {"active", "rejected"}
        /\ \A e \in decided : e.campaign = q => e = d
        /\ Told(q) = {} /\ q \notin unsent /\ Judged(q) /\ campaign[q] \in AdRows
    BY ToTell DEF Telling
<1>3. Turn(c, AdAwaits) /\ ~Of(c, AdAwaits)' /\ ~Telling(c)'
    BY <1>1, AdEnded
<1>4. UNCHANGED <<campaign, counted, decided, unsent>>
    BY DEF adRows
<1>5. PICK shown \in {"active", "paused", "rejected"} :
        /\ shown = call[c].row.status /\ (shown = "rejected") = (d.status = "rejected")
        /\ call[c].row.supplier = campaign[q].supplier
    <2>1. AdHolds(c)
        BY <1>1 DEF AdsInv
    <2> QED
        BY <1>2, <2>1 DEF AdHolds
<1>6. PICK news \in News : /\ news = [about |-> q, says |-> d.status, shows |-> shown]
                           /\ news \in Tidings
                           /\ news.about = q /\ news.says = d.status /\ news.shows = shown
    <2>1. [about |-> q, says |-> d.status, shows |-> shown] \in Tidings
        BY <1>2 DEF Tidings
    <2> QED
        BY <2>1, AdsAssumption
<1>7. PICK owner \in Owners : owner = campaign[q].supplier /\ Publish(owner, news)
    <2>1. campaign[q].supplier \in Owners
        BY <1>2 DEF AdRows
    <2> QED
        BY <1>2, <1>5, <1>6, <2>1
<1>8. AdAwaits \cap NoticeAwaits = {}
    BY DEF AdAwaits, NoticeAwaits
<1>9. PICK n \in Nat : n = Len(inbox)
    BY InboxRows
<1>10. /\ NoticesInv'
       /\ DOMAIN inbox' = 1..(n + 1) /\ DOMAIN inbox = 1..n
       /\ \A i \in 1..n : inbox'[i] = inbox[i]
       /\ inbox'[n + 1].news = news /\ inbox'[n + 1].owner = owner
    BY <1>3, <1>7, <1>8, <1>9, PublishInv
<1>11. n + 1 \notin 1..n /\ \A i \in 1..(n + 1) : i \in 1..n \/ i = n + 1
    OBVIOUS
<1>12. Told(q)' = {n + 1}
    BY <1>2, <1>6, <1>10, <1>11 DEF Told
<1>13. \A k \in Campaigns \ {q} : Told(k)' = Told(k) /\ \A i \in Told(k) : inbox'[i] = inbox[i]
    BY <1>6, <1>10, <1>11 DEF Told
<1>14. AdsTypeOK'
    BY <1>4 DEF AdsInv, AdsTypeOK
<1>15. Elsewhere(q)
    BY <1>4, <1>13 DEF Elsewhere
<1>16. ASSUME NEW e \in Calls \ {c}, Of(e, AdAwaits), call[e].campaign = q PROVE AdHolds(e)'
    <2>1. AdHolds(e) /\ call'[e] = call[e]
        BY <1>3, <1>16, TurnOthers DEF AdsInv
    <2>2. ~Telling(e)
        BY <1>1, <1>2, <1>16
    <2> QED
        BY <1>4, <1>16, <2>1, <2>2 DEF AdHolds, At, Telling, AdStatus
<1>17. Judged(q)' /\ Stands(q)'
    <2>1. Stands(q)
        BY DEF AdsInv, DecisionStands, Stands
    <2> QED
        BY <1>2, <1>4, <2>1 DEF Judged, AdStatus, Stands
<1>18. ASSUME NEW e \in decided', e.campaign = q PROVE ToldOnce(e)'
    <2>1. e = d
        BY <1>2, <1>4, <1>18
    <2>2. Cardinality({n + 1}) = 1
        BY FS_Singleton
    <2>3. Tells(inbox[n + 1], d)'
        BY <1>2, <1>4, <1>5, <1>6, <1>7, <1>10 DEF Tells
    <2> QED
        BY <1>2, <1>12, <2>1, <2>2, <2>3 DEF ToldOnce
<1>19. \A i \in DOMAIN inbox' : inbox'[i].news \in Tidings
    BY <1>6, <1>10, <1>11 DEF AdsInv, NewsInv
<1> QED
    BY <1>1, <1>2, <1>3, <1>4, <1>10, <1>14, <1>15, <1>16, <1>17, <1>18, <1>19, AdsAbout

\* The part of the campaigns keeps its invariant and that of the notifications.
LEMMA NotifySupplierInv ==
    ASSUME FramesOK, NoticesInv, AdsInv, NEW c \in Calls, NotifySupplier(c)
    PROVE  AdsInv' /\ NoticesInv' /\ Turn(c, AdAwaits)
<1>1. At(c, "notifying-supplier") /\ Telling(c) /\ End(c) /\ UNCHANGED <<campaign, counted, decided>>
    BY DEF NotifySupplier, Telling
<1>2. CASE /\ CanPublish
           /\ Publish(call[c].row.supplier,
                      [about |-> call[c].campaign, says |-> call[c].status, shows |-> call[c].row.status])
           /\ UNCHANGED unsent
    BY <1>1, <1>2, TellInv DEF adRows
<1>3. CASE unsent' = unsent \cup {call[c].campaign} /\ UNCHANGED notificationRows
    <2>1. SameNews /\ UNCHANGED inbox
        BY <1>3, NewsAsTheyAre DEF notificationRows
    <2>2. AdsInv' /\ Turn(c, AdAwaits)
        BY <1>1, <1>3, <2>1, UnsentInv
    <2>3. AdAwaits \cap NoticeAwaits = {}
        BY DEF AdAwaits, NoticeAwaits
    <2> QED
        BY <1>3, <2>2, <2>3, NoticesRest
<1> QED
    BY <1>2, <1>3 DEF NotifySupplier

\* The process dies within a request about a campaign.
LEMMA CrashAdInv ==
    ASSUME FramesOK, AdsInv, NEW c \in Calls, CrashAd(c), UNCHANGED notificationRows
    PROVE  AdsInv' /\ Turn(c, AdAwaits)
<1>1. End(c) /\ UNCHANGED <<campaign, counted, decided>> /\ SameNews /\ UNCHANGED inbox
    BY NewsAsTheyAre DEF CrashAd, Die, notificationRows
<1>2. Of(c, AdAwaits)
    BY FrameFields DEF CrashAd, Of, FramesOK
<1>3. CASE Telling(c)
    BY <1>1, <1>3, UnsentInv DEF CrashAd
<1>4. CASE ~Telling(c)
    <2>1. UNCHANGED adRows
        BY <1>1, <1>4 DEF CrashAd, adRows
    <2> QED
        BY <1>1, <1>2, <1>4, <2>1, AdEnded, AdsLook
<1> QED
    BY <1>3, <1>4

\* Every step about a campaign keeps its invariant and that of the notifications.
LEMMA AdsStepInv ==
    ASSUME FramesOK, NoticesInv, AdsInv, NEW c \in Calls, AdsStep(c)
    PROVE  AdsInv' /\ NoticesInv' /\ Turn(c, AdAwaits)
<1>1. CASE NotifySupplier(c)
    BY <1>1, NotifySupplierInv
<1>2. CASE ~NotifySupplier(c)
    <2>1. UNCHANGED notificationRows
        BY <1>2 DEF AdsStep
    <2>2. AdsInv' /\ Turn(c, AdAwaits)
        BY <1>2, <2>1, AboutInv, AdReads, SaveCampaignInv, SwitchInv, ModerateCampaignInv,
           RereadCampaignInv, RecordEventInv, CrashAdInv DEF AdsStep
    <2>3. AdAwaits \cap NoticeAwaits = {}
        BY DEF AdAwaits, NoticeAwaits
    <2> QED
        BY <2>1, <2>2, <2>3, NoticesRest
<1> QED
    BY <1>1, <1>2

-----------------------------------------------------------------------------
(* The whole *)

\* The parts have no await in common.
LEMMA PartsApart ==
    /\ \A awaits \in {TraceAwaits, ReviewAwaits, NoticeAwaits, AdAwaits} : awaits \cap ForumAwaits = {}
    /\ \A awaits \in {ForumAwaits, ReviewAwaits, NoticeAwaits, AdAwaits} : awaits \cap TraceAwaits = {}
    /\ \A awaits \in {ForumAwaits, TraceAwaits, NoticeAwaits, AdAwaits} : awaits \cap ReviewAwaits = {}
    /\ \A awaits \in {ForumAwaits, TraceAwaits, ReviewAwaits, AdAwaits} : awaits \cap NoticeAwaits = {}
    /\ \A awaits \in {ForumAwaits, TraceAwaits, ReviewAwaits, NoticeAwaits} : awaits \cap AdAwaits = {}
BY DEF ForumAwaits, TraceAwaits, ReviewAwaits, NoticeAwaits, AdAwaits

\* Every step of one part keeps its invariant and leaves the others.
LEMMA NextIInv ==
    ASSUME IInv, CommunityNext
    PROVE  IInv'
<1> USE DEF IInv
<1> PICK c \in Calls :
        \/ ForumStep(c)
           /\ UNCHANGED <<traceRows, reviewRows, notificationRows, adRows>>
        \/ TraceStep(c)
           /\ UNCHANGED <<forumRows, reviewRows, notificationRows, adRows>>
        \/ ReviewsStep(c)
           /\ UNCHANGED <<forumRows, traceRows, notificationRows, adRows>>
        \/ NotificationsStep(c)
           /\ UNCHANGED <<forumRows, traceRows, reviewRows, adRows>>
        \/ AdsStep(c)
           /\ UNCHANGED <<forumRows, traceRows, reviewRows>>
    BY DEF CommunityNext
<1>1. CASE ForumStep(c) /\ UNCHANGED <<traceRows, reviewRows, notificationRows, adRows>>
    <2>1. ForumInv' /\ Turn(c, ForumAwaits) /\ SameNews
        BY <1>1, ForumStepInv, NewsAsTheyAre DEF notificationRows
    <2> QED
        BY <1>1, <2>1, PartsApart, TurnOthers, TraceRest, ReviewsRest, NoticesRest, AdsRest
<1>2. CASE TraceStep(c) /\ UNCHANGED <<forumRows, reviewRows, notificationRows, adRows>>
    <2>1. TraceInv' /\ Turn(c, TraceAwaits) /\ SameNews
        BY <1>2, TraceStepInv, NewsAsTheyAre DEF notificationRows
    <2> QED
        BY <1>2, <2>1, PartsApart, TurnOthers, ForumRest, ReviewsRest, NoticesRest, AdsRest
<1>3. CASE ReviewsStep(c) /\ UNCHANGED <<forumRows, traceRows, notificationRows, adRows>>
    <2>1. ReviewsInv' /\ Turn(c, ReviewAwaits) /\ SameNews
        BY <1>3, ReviewsStepInv, NewsAsTheyAre DEF notificationRows
    <2> QED
        BY <1>3, <2>1, PartsApart, TurnOthers, ForumRest, TraceRest, NoticesRest, AdsRest
<1>4. CASE NotificationsStep(c) /\ UNCHANGED <<forumRows, traceRows, reviewRows, adRows>>
    <2>1. NoticesInv' /\ Turn(c, NoticeAwaits) /\ SameNews
        BY <1>4, NoticesStepInv
    <2> QED
        BY <1>4, <2>1, PartsApart, TurnOthers, ForumRest, TraceRest, ReviewsRest, AdsRest
<1>5. CASE AdsStep(c) /\ UNCHANGED <<forumRows, traceRows, reviewRows>>
    <2>1. AdsInv' /\ NoticesInv' /\ Turn(c, AdAwaits)
        BY <1>5, AdsStepInv
    <2> QED
        BY <1>5, <2>1, PartsApart, TurnOthers, ForumRest, TraceRest, ReviewsRest
<1> QED
    BY <1>1, <1>2, <1>3, <1>4, <1>5

\* A step that changes no variable keeps the invariant.
LEMMA StutterIInv ==
    ASSUME IInv, UNCHANGED <<communityVars, mix>>
    PROVE  IInv'
<1>1. /\ UNCHANGED call /\ UNCHANGED <<post, likes, comments, used, mixed>>
      /\ UNCHANGED <<events, answered, refused>> /\ UNCHANGED <<review, replied, turns>>
      /\ UNCHANGED <<inbox, announced>> /\ UNCHANGED <<campaign, counted, decided, unsent>>
    BY DEF communityVars, forumRows, traceRows, reviewRows, notificationRows, adRows
<1>2. FramesOK'
    BY <1>1 DEF IInv, FramesOK
<1>3. ForumInv'
    <2>1. \A await, counter : Due(await, counter)' = Due(await, counter)
        BY <1>1 DEF Due, At
    <2>2. ForumTables'
        BY <1>1, <2>1 DEF IInv, ForumInv, ForumTables, ForumTypeOK, At
    <2>3. CommentsAreNew'
        BY <1>1 DEF IInv, ForumInv, CommentsAreNew, Adding
    <2>4. ~mixed => Apart'
        BY <1>1 DEF IInv, ForumInv, Apart, Of
    <2>5. ~mixed => \A c \in Calls : ReadStillHolds(c)'
        BY <1>1 DEF IInv, ForumInv, ReadStillHolds, At
    <2>6. ~mixed => CountersAreDue'
        BY <1>1, <2>1 DEF IInv, ForumInv, CountersAreDue, LikesAreDue, CommentsAreDue
    <2> QED
        BY <1>1, <2>2, <2>3, <2>4, <2>5, <2>6 DEF ForumInv
<1>4. TraceInv'
    <2>1. /\ \A b : EventsOf(b)' = EventsOf(b)
          /\ \A key : WithKey(key)' = WithKey(key)
        BY <1>1 DEF EventsOf, WithKey
    <2>2. TraceTypeOK' /\ LocksApart' /\ KeysAreUsedOnce'
        BY <1>1 DEF IInv, TraceInv, TraceTypeOK, LocksApart, KeysAreUsedOnce, Of
    <2>3. ASSUME NEW c \in Calls, Of(c, TraceAwaits)' PROVE TraceHolds(c)'
        <3>1. Of(c, TraceAwaits) /\ TraceHolds(c)
            BY <1>1, <2>3 DEF IInv, TraceInv, Of
        <3> QED
            BY <1>1, <2>1, <3>1 DEF TraceHolds, At, Creates
    <2>4. \A b \in Batches : TimelineOf(b)'
        BY <2>1 DEF IInv, TraceInv, TimelineOf
    <2>5. AnsweredAsStored' /\ AppendsAreNotInTheWay'
        BY <1>1, <2>1 DEF IInv, TraceInv, AnsweredAsStored, AppendsAreNotInTheWay
    <2> QED
        BY <2>2, <2>3, <2>4, <2>5 DEF TraceInv
<1>5. ReviewsInv'
    BY <1>1 DEF IInv, ReviewsInv, ReviewsTypeOK, ReviewHolds, Of, Reviewed, RepliesStay,
                ModerationsAlternate
<1>6. NoticesInv'
    BY <1>1 DEF IInv, NoticesInv, NotificationsTypeOK, NoticeHolds, Of, At, ReadOnce
<1>7. AdsInv'
    <2>1. \A k : Told(k)' = Told(k)
        BY <1>1 DEF Told
    <2>2. AdsTypeOK' /\ DecisionStands' /\ \A d \in decided' : Judged(d.campaign)'
        BY <1>1 DEF IInv, AdsInv, AdsTypeOK, DecisionStands, Judged, AdStatus
    <2>3. ASSUME NEW c \in Calls, Of(c, AdAwaits)' PROVE AdHolds(c)'
        <3>1. AdHolds(c)
            BY <1>1, <2>3 DEF IInv, AdsInv, Of
        <3> QED
            BY <1>1, <2>1, <3>1 DEF AdHolds, At, Telling, AdStatus
    <2>4. NewsInv'
        BY <1>1, <2>1 DEF IInv, AdsInv, NewsInv, Judged, AdStatus, At, Telling
    <2>5. DecisionsAreTold'
        <3> SUFFICES ASSUME NEW d \in decided PROVE ToldOnce(d)'
            BY <1>1 DEF DecisionsAreTold, ToldOnce, Told, Tells
        <3>1. ToldOnce(d)
            BY ToldEach DEF IInv
        <3> QED
            BY <1>1, <2>1, <3>1 DEF ToldOnce, Tells, At, Telling
    <2> QED
        BY <2>2, <2>3, <2>4, <2>5 DEF AdsInv
<1> QED
    BY <1>2, <1>3, <1>4, <1>5, <1>6, <1>7 DEF IInv

\* The invariant holds initially.
LEMMA InitIInv ==
    ASSUME CommunityInit
    PROVE  IInv
<1>1. /\ FramesOK /\ \A c \in Calls : call[c].at = "idle"
    BY DEF CommunityInit, HandlersInit, FramesOK, Frames, Idle
<1>2. /\ \A c \in Calls : ~Of(c, ForumAwaits) /\ ~Of(c, TraceAwaits) /\ ~Of(c, ReviewAwaits)
      /\ \A c \in Calls : ~Of(c, NoticeAwaits) /\ ~Of(c, AdAwaits)
    BY <1>1 DEF Of, ForumAwaits, TraceAwaits, ReviewAwaits, NoticeAwaits, AdAwaits
<1>3. \A c \in Calls : ~At(c, "saving") /\ ~Adding(c) /\ ~At(c, "unliking") /\ ~At(c, "removing-comment")
    BY <1>1 DEF At, Adding
<1>4. ForumInv
    <2>1. IsFiniteSet({}) /\ Cardinality({}) = 0
        BY FS_EmptySet
    <2>2. \A await \in {"counting-up", "counting-down"} : \A counter : Due(await, counter) = {}
        BY <1>1 DEF Due, At
    <2>3. /\ post \in PostRows /\ post.likeCount = 0 /\ post.commentCount = 0
          /\ likes = {} /\ comments = {} /\ used = {} /\ mixed = FALSE
        BY DEF CommunityInit, ForumInit, PostRows
    <2>4. ForumTables
        BY <1>3, <2>1, <2>2, <2>3 DEF ForumTables, ForumTypeOK, PostRows
    <2>5. CommentsAreNew
        BY <1>3 DEF CommentsAreNew
    <2>6. Apart /\ \A c \in Calls : ReadStillHolds(c)
        BY <1>2, <1>3 DEF Apart, ReadStillHolds
    <2>7. CountersAreDue
        BY <2>1, <2>2, <2>3 DEF CountersAreDue, LikesAreDue, CommentsAreDue
    <2> QED
        BY <2>4, <2>5, <2>6, <2>7 DEF ForumInv
<1>5. TraceInv
    <2>1. events = {} /\ answered = {} /\ refused = {}
        BY DEF CommunityInit, TraceInit
    <2>2. IsFiniteSet({}) /\ Cardinality({}) = 0
        BY FS_EmptySet
    <2>3. \A b \in Batches : EventsOf(b) = {}
        BY <2>1 DEF EventsOf
    <2>4. ASSUME NEW b \in Batches PROVE TimelineOf(b)
        <3>1. EventsOf(b) = {} /\ 1..0 = {}
            BY <2>3
        <3>2. {e.sequence : e \in EventsOf(b)} = {}
            BY <3>1
        <3> QED
            BY <2>2, <3>1, <3>2 DEF TimelineOf
    <2> QED
        BY <1>2, <2>1, <2>4 DEF TraceInv, TraceTypeOK, LocksApart, KeysAreUsedOnce,
                                AnsweredAsStored, AppendsAreNotInTheWay
<1>6. ReviewsInv
    <2>1. /\ review = [r \in Reviewers |-> NULL] /\ replied = {} /\ turns = [r \in Reviewers |-> <<>>]
        BY DEF CommunityInit, ReviewsInit
    <2>2. turns \in [Reviewers -> Seq(Turns)] /\ \A r \in Reviewers : turns[r] = <<>> /\ Len(turns[r]) = 0
        BY <2>1
    <2>3. ReviewsTypeOK
        BY <2>1, <2>2, ReviewsAssumption DEF ReviewsTypeOK
    <2>4. RepliesStay /\ ModerationsAlternate
        BY <2>1, <2>2 DEF RepliesStay, ModerationsAlternate
    <2> QED
        BY <1>2, <2>1, <2>2, <2>3, <2>4 DEF ReviewsInv, Reviewed
<1>7. NoticesInv
    <2>1. inbox = <<>> /\ announced = [i \in 1..MaxInbox |-> 0]
        BY DEF CommunityInit, NotificationsInit
    <2>2. NotificationsTypeOK
        BY <2>1, NotificationsAssumption DEF NotificationsTypeOK
    <2> QED
        BY <1>1, <1>2, <2>1, <2>2 DEF NoticesInv, ReadOnce, At
<1>8. AdsInv
    <2>1. /\ campaign = [k \in Campaigns |-> NULL] /\ counted = {} /\ decided = {} /\ unsent = {}
          /\ inbox = <<>>
        BY DEF CommunityInit, AdsInit, NotificationsInit
    <2>2. AdsTypeOK /\ DecisionStands /\ DecisionsAreTold
        BY <2>1 DEF AdsTypeOK, DecisionStands, DecisionsAreTold, AdStatus
    <2>3. NewsInv
        BY <1>1, <2>1 DEF NewsInv, Told, At, Telling
    <2> QED
        BY <1>2, <2>1, <2>2, <2>3 DEF AdsInv
<1> QED
    BY <1>1, <1>4, <1>5, <1>6, <1>7, <1>8 DEF IInv

\* The invariants of all parts hold in every state: the inductive invariant.
THEOREM CommunityInvariant == CommunitySpec => []IInv
<1>1. CommunityInit => IInv
    BY InitIInv
<1>2. IInv /\ [CommunityNext]_<<communityVars, mix>> => IInv'
    BY NextIInv, StutterIInv
<1> QED
    BY <1>1, <1>2, PTL DEF CommunitySpec

\* Every table has the type the modules state for it.
THEOREM CommunityIsTyped == CommunitySpec => []CommunityTypeOK
<1>1. IInv => CommunityTypeOK
    BY DEF IInv, ForumInv, ForumTables, TraceInv, ReviewsInv, NoticesInv, AdsInv, CommunityTypeOK
<1> QED
    BY <1>1, CommunityInvariant, PTL

\* When nothing is under way the counters of a post equal its likes and comments,
\* as long as no two requests have met that must not.
THEOREM CountersAlwaysAddUp == CommunitySpec => []CountersAddUp
<1>1. ASSUME IInv, Quiet, ~mixed, post # NULL
      PROVE  post.likeCount = Cardinality(likes) /\ post.commentCount = Cardinality(comments)
    <2>1. \A await \in {"counting-up", "counting-down"} : \A counter : Due(await, counter) = {}
        BY <1>1 DEF Quiet, Due, At
    <2>2. Cardinality({}) = 0
        BY FS_EmptySet
    <2>3. post \in PostRows
        BY <1>1 DEF IInv, ForumInv, ForumTables, ForumTypeOK, PostRows
    <2>4. post.likeCount \in Int /\ post.commentCount \in Int
        BY <2>3 DEF PostRows
    <2>5. Cardinality(likes) \in Nat /\ Cardinality(comments) \in Nat
        BY <1>1, FS_CardinalityType DEF IInv, ForumInv, ForumTables
    <2>6. LikesAreDue /\ CommentsAreDue
        BY <1>1 DEF IInv, ForumInv, CountersAreDue
    <2> QED
        BY <2>1, <2>2, <2>4, <2>5, <2>6 DEF LikesAreDue, CommentsAreDue
<1>2. IInv => CountersAddUp
    BY <1>1 DEF CountersAddUp
<1> QED
    BY <1>2, CommunityInvariant, PTL

\* The timeline of a batch starts with its creation and is numbered without a gap.
THEOREM TimelinesHaveNoGap == CommunitySpec => []TimelineHasNoGap
<1>1. IInv => TimelineHasNoGap
    BY DEF IInv, TraceInv, TimelineOf, TimelineHasNoGap
<1> QED
    BY <1>1, CommunityInvariant, PTL

\* A success means that exactly the event asked for is stored under the key.
THEOREM AnswersAreStored == CommunitySpec => []AnsweredAsStored
<1>1. IInv => AnsweredAsStored
    BY DEF IInv, TraceInv
<1> QED
    BY <1>1, CommunityInvariant, PTL

\* An append is refused only when its key stands for another event.
THEOREM AppendsPass == CommunitySpec => []AppendsAreNotInTheWay
<1>1. IInv => AppendsAreNotInTheWay
    BY DEF IInv, TraceInv
<1> QED
    BY <1>1, CommunityInvariant, PTL

\* A reply answered with success is never overwritten by another.
THEOREM RepliesAreKept == CommunitySpec => []RepliesStay
<1>1. IInv => RepliesStay
    BY DEF IInv, ReviewsInv
<1> QED
    BY <1>1, CommunityInvariant, PTL

\* Successful hides and unhides of a review alternate and the row names the last.
THEOREM ModerationsTakeTurns == CommunitySpec => []ModerationsAlternate
<1>1. IInv => ModerationsAlternate
    BY DEF IInv, ReviewsInv
<1> QED
    BY <1>1, CommunityInvariant, PTL

\* One request makes a notification read, and it is announced once at most.
THEOREM NoticesAreReadOnce == CommunitySpec => []ReadOnce
<1>1. IInv => ReadOnce
    BY DEF IInv, NoticesInv
<1> QED
    BY <1>1, CommunityInvariant, PTL

\* A campaign is decided once, and its row stays what its decision allows.
THEOREM DecisionsStand == CommunitySpec => []DecisionStands
<1>1. IInv => DecisionStands
    BY DEF IInv, AdsInv
<1> QED
    BY <1>1, CommunityInvariant, PTL

\* The supplier is told once what was decided unless the handler failed before that.
THEOREM SuppliersAreTold == CommunitySpec => []DecisionsAreTold
<1>1. IInv => DecisionsAreTold
    BY DEF IInv, AdsInv
<1> QED
    BY <1>1, CommunityInvariant, PTL

-----------------------------------------------------------------------------
(* The invariant of the catalogue *)

\* Certifications are numbered as they are drawn, and what a use case saves has
\* been loaded: it changes no certification.
SaveHolds(c) ==
    At(c, "saving-product") =>
        /\ call[c].read \in ProductRows /\ call[c].row \in ProductRows
        /\ call[c].row.certs = call[c].read.certs
        /\ DOMAIN call[c].row.certs \subseteq drawn
ProductColumns ==
    /\ status \in ProductStatus
    /\ images \in UNION {[I -> BOOLEAN] : I \in SUBSET (1..MaxImages)}
    /\ certs \in UNION {[K -> CertRows] : K \in SUBSET (1..MaxCerts)} /\ DOMAIN certs \subseteq drawn
    /\ papers \in [Papers -> [status : {"QUARANTINED", "ACTIVE", "FAILED", "DELETED"}, attached : BOOLEAN]]
    /\ wished \subseteq Fans
ProductTables ==
    /\ ProductColumns
    /\ \E n \in 0..MaxCerts : drawn = 1..n
    /\ \A c \in Calls : SaveHolds(c)

\* A moderation that is to be audited has found the status it wanted, or has made
\* the change it was asked for from the status it has found.
JudgeHolds(c) ==
    At(c, "rereading-moderated") \/ At(c, "auditing") =>
        call[c].was = call[c].next \/ [from |-> call[c].was, to |-> call[c].next] \in moves
AuditsInv == AuditsTellWhatChanged /\ \A c \in Calls : JudgeHolds(c)

\* Requests that hold a file without a certification, those that have read the row
\* of a certification, and of these the ones that have decided it.
Attaching(c) == call[c].at \in {"inserting-certificate", "detaching-paper"}
Removing(c) == call[c].at \in {"removing-certificate", "retiring-paper"}
Judging(c) ==
    call[c].at \in {"rereading-certificate", "reading-paper", "reviewing-paper", "restoring-certificate"}
Certifying(c) == Removing(c) \/ At(c, "deciding") \/ Judging(c)

\* The status of a file whose certification has the given one.
PaperOf(standing) ==
    CASE standing = "pending" -> "QUARANTINED"
      [] standing = "verified" -> "ACTIVE"
      [] standing = "rejected" -> "FAILED"

Waits(f) == papers[f].attached /\ papers[f].status = "QUARANTINED"

\* A file that is not attached is as it was uploaded; each certification has its own.
FilesAreOwn ==
    /\ \A f \in Papers : papers[f].attached \/ papers[f].status = "QUARANTINED"
    /\ \A k \in DOMAIN certs : papers[certs[k].file].attached
    /\ \A k, l \in DOMAIN certs : certs[k].file = certs[l].file => k = l

\* A file on its way to a certification waits, and nobody else has it.
AttachingHolds(c) ==
    Attaching(c) =>
        /\ Waits(call[c].file)
        /\ \A k \in DOMAIN certs : certs[k].file # call[c].file
        /\ \A d \in Calls : Attaching(d) /\ call[d].file = call[c].file => d = c

\* What a request has read of a certification: its file stays its own.
CertifyingHolds(c) ==
    Certifying(c) =>
        LET k == call[c].cert  row == call[c].row IN
        /\ row \in CertRows /\ k \in drawn /\ papers[row.file].attached
        /\ \A l \in DOMAIN certs : l = k <=> certs[l].file = row.file
        /\ \A d \in Calls : Attaching(d) => call[d].file # row.file
        /\ At(c, "retiring-paper") => k \notin DOMAIN certs
        /\ At(c, "deciding") \/ Judging(c) => row.status = "pending"

\* Who has decided a certification and not yet reviewed its file is the only one, and
\* finds the certification, if it is still there, and the file as they were left.
JudgingHolds(c) ==
    Judging(c) /\ call[c].cert \in DOMAIN certs =>
        /\ certs[call[c].cert].status = call[c].verdict /\ certs[call[c].cert].by = call[c].by
        /\ papers[call[c].row.file].status = "QUARANTINED"
        /\ \A d \in Calls : Judging(d) /\ call[d].cert = call[c].cert => d = c

PaperSettled(k) == papers[certs[k].file].status = PaperOf(certs[k].status)
UnderReview(k) == \E c \in Calls : Judging(c) /\ call[c].cert = k

PapersInv ==
    /\ FilesAreOwn
    /\ \A c \in Calls : AttachingHolds(c) /\ CertifyingHolds(c) /\ JudgingHolds(c)
    /\ \A k \in DOMAIN certs : PaperSettled(k) \/ UnderReview(k)

ProductInv == ProductTables /\ AuditsInv /\ (~disturbed => PapersInv)

\* Only requests about the product and the inbox are served.
CatalogueCalls == \A c \in Calls : call[c].at \in ProductAwaits \cup NoticeAwaits \cup {"idle"}

CatalogueInv == FramesOK /\ CatalogueCalls /\ NoticesInv /\ ProductInv

-----------------------------------------------------------------------------
(* The catalogue *)

\* The frame of a request about the product, by its await.
LEMMA ProductShape ==
    ASSUME FramesOK, NEW c \in Calls, Of(c, ProductAwaits)
    PROVE  call[c] \in ProductFrames
BY FrameShapes DEF FramesOK, Of

\* The frames of loads and saves.
LEMMA LoadShape ==
    ASSUME FramesOK, NEW c \in Calls,
           call[c].at \in {"loading-edit", "loading-replaced", "loading-product", "saving-product",
                           "notifying-seller"}
    PROVE  call[c] \in LoadFrames
<1>1. call[c] \in ProductFrames
    BY ProductShape DEF Of, ProductAwaits
<1> QED
    BY <1>1 DEF ProductFrames, JudgeFrames, ImageFrames, PaperFrames, RemovalFrames,
                VerdictFrames, WishFrames

\* The frames of moderations.
LEMMA JudgeShape ==
    ASSUME FramesOK, NEW c \in Calls,
           call[c].at \in {"finding-moderated", "moderating-product", "rereading-moderated", "auditing"}
    PROVE  call[c] \in JudgeFrames
<1>1. call[c] \in ProductFrames
    BY ProductShape DEF Of, ProductAwaits
<1> QED
    BY <1>1 DEF ProductFrames, LoadFrames, ImageFrames, PaperFrames, RemovalFrames,
                VerdictFrames, WishFrames

\* The frames of requests about images.
LEMMA ImageShape ==
    ASSUME FramesOK, NEW c \in Calls,
           call[c].at \in {"loading-gallery", "resetting-primary", "inserting-image", "removing-image"}
    PROVE  call[c] \in ImageFrames
<1>1. call[c] \in ProductFrames
    BY ProductShape DEF Of, ProductAwaits
<1> QED
    BY <1>1 DEF ProductFrames, LoadFrames, JudgeFrames, PaperFrames, RemovalFrames,
                VerdictFrames, WishFrames

\* The frames of requests that add a certification.
LEMMA PaperShape ==
    ASSUME FramesOK, NEW c \in Calls,
           call[c].at \in {"attaching-paper", "inserting-certificate", "detaching-paper"}
    PROVE  call[c] \in PaperFrames
<1>1. call[c] \in ProductFrames
    BY ProductShape DEF Of, ProductAwaits
<1> QED
    BY <1>1 DEF ProductFrames, LoadFrames, JudgeFrames, ImageFrames, RemovalFrames,
                VerdictFrames, WishFrames

\* The frames of requests that remove a certification.
LEMMA RemovalShape ==
    ASSUME FramesOK, NEW c \in Calls,
           call[c].at \in {"finding-removed", "removing-certificate", "retiring-paper"}
    PROVE  call[c] \in RemovalFrames
<1>1. call[c] \in ProductFrames
    BY ProductShape DEF Of, ProductAwaits
<1> QED
    BY <1>1 DEF ProductFrames, LoadFrames, JudgeFrames, ImageFrames, PaperFrames,
                VerdictFrames, WishFrames

\* The frames of reviews of a certification.
LEMMA VerdictShape ==
    ASSUME FramesOK, NEW c \in Calls,
           call[c].at \in {"finding-unverified", "deciding", "rereading-certificate",
                           "reading-paper", "reviewing-paper", "restoring-certificate"}
    PROVE  call[c] \in VerdictFrames
<1>1. call[c] \in ProductFrames
    BY ProductShape DEF Of, ProductAwaits
<1> QED
    BY <1>1 DEF ProductFrames, LoadFrames, JudgeFrames, ImageFrames, PaperFrames,
                RemovalFrames, WishFrames

\* The frames of requests about wishlists.
LEMMA WishShape ==
    ASSUME FramesOK, NEW c \in Calls, call[c].at \in {"finding-active", "wishing", "unwishing"}
    PROVE  call[c] \in WishFrames
<1>1. call[c] \in ProductFrames
    BY ProductShape DEF Of, ProductAwaits
<1> QED
    BY <1>1 DEF ProductFrames, LoadFrames, JudgeFrames, ImageFrames, PaperFrames,
                RemovalFrames, VerdictFrames

\* A table with keys among K and rows in S.
LEMMA TableIn ==
    ASSUME NEW K, NEW S, NEW t
    PROVE  t \in UNION {[I -> S] : I \in SUBSET K}
             <=> DOMAIN t \subseteq K /\ t \in [DOMAIN t -> S]
<1>1. ASSUME t \in UNION {[I -> S] : I \in SUBSET K}
      PROVE  DOMAIN t \subseteq K /\ t \in [DOMAIN t -> S]
    <2>1. PICK I \in SUBSET K : t \in [I -> S]
        BY <1>1
    <2>2. DOMAIN t = I
        BY <2>1
    <2> QED
        BY <2>1, <2>2
<1>2. ASSUME DOMAIN t \subseteq K, t \in [DOMAIN t -> S]
      PROVE  t \in UNION {[I -> S] : I \in SUBSET K}
    BY <1>2
<1> QED
    BY <1>1, <1>2

\* A row more in a table.
LEMMA RowInserted ==
    ASSUME NEW K, NEW S, NEW t, NEW k \in K, NEW row \in S,
           DOMAIN t \subseteq K, t \in [DOMAIN t -> S]
    PROVE  LET u == Inserted(t, k, row) IN
           /\ DOMAIN u \subseteq K /\ u \in [DOMAIN u -> S]
           /\ DOMAIN u = DOMAIN t \cup {k} /\ u[k] = row
           /\ \A i \in DOMAIN t \ {k} : u[i] = t[i]
<1>1. PICK u : u = [i \in DOMAIN t \cup {k} |-> IF i = k THEN row ELSE t[i]]
    OBVIOUS
<1>2. u = Inserted(t, k, row)
    BY <1>1 DEF Inserted
<1>3. /\ DOMAIN u = DOMAIN t \cup {k} /\ u[k] = row
      /\ \A i \in DOMAIN t \ {k} : u[i] = t[i]
    BY <1>1
<1>4. u \in [DOMAIN u -> S]
    BY <1>1, <1>3
<1> QED
    BY <1>2, <1>3, <1>4

\* What the types of the tables say.
LEMMA ProductTyped ==
    ASSUME ProductTables
    PROVE  /\ Loaded \in ProductRows /\ Loaded.certs = certs /\ Loaded.images = images
           /\ DOMAIN certs \subseteq drawn /\ drawn \subseteq 1..MaxCerts
           /\ \A k \in DOMAIN certs : certs[k] \in CertRows
           /\ \A k \in DOMAIN certs : certs[k].file \in Papers
           /\ \A f \in Papers : papers[f].attached \in BOOLEAN
<1>1. Loaded \in ProductRows /\ Loaded.certs = certs /\ Loaded.images = images
    BY DEF ProductTables, ProductColumns, Loaded, ProductRows
<1>2. certs \in [DOMAIN certs -> CertRows]
    BY TableIn DEF ProductTables, ProductColumns
<1>3. \A k \in DOMAIN certs : certs[k] \in CertRows
    BY <1>2
<1>4. \A k \in DOMAIN certs : certs[k].file \in Papers
    BY <1>3 DEF CertRows
<1>5. drawn \subseteq 1..MaxCerts
    BY ProductsAssumption DEF ProductTables
<1> QED
    BY <1>1, <1>3, <1>4, <1>5 DEF ProductTables, ProductColumns

\* The step leaves the invariant of the tables when the columns keep their types.
LEMMA TablesStay ==
    ASSUME FramesOK, ProductTables, NEW c \in Calls, NEW awaits, Turn(c, awaits),
           ProductColumns', SaveHolds(c)', drawn \subseteq drawn', \E n \in 0..MaxCerts : drawn' = 1..n
    PROVE  ProductTables'
<1>1. \A d \in Calls \ {c} : call'[d] = call[d]
    BY TurnOthers
<1>2. ASSUME NEW d \in Calls PROVE SaveHolds(d)'
    <2>1. CASE d = c
        BY <2>1
    <2>2. CASE d # c
        <3>1. call'[d] = call[d] /\ SaveHolds(d)
            BY <1>1, <2>2 DEF ProductTables
        <3> QED
            BY <3>1 DEF SaveHolds, At
    <2> QED
        BY <2>1, <2>2
<1> QED
    BY <1>2 DEF ProductTables

\* The same of the audits of moderations.
LEMMA AuditsStay ==
    ASSUME FramesOK, AuditsInv, NEW c \in Calls, NEW awaits, Turn(c, awaits),
           moves \subseteq moves', AuditsTellWhatChanged', JudgeHolds(c)'
    PROVE  AuditsInv'
<1>1. \A d \in Calls \ {c} : call'[d] = call[d]
    BY TurnOthers
<1>2. ASSUME NEW d \in Calls PROVE JudgeHolds(d)'
    <2>1. CASE d = c
        BY <2>1
    <2>2. CASE d # c
        <3>1. call'[d] = call[d] /\ JudgeHolds(d)
            BY <1>1, <2>2 DEF AuditsInv
        <3> QED
            BY <3>1 DEF JudgeHolds, At
    <2> QED
        BY <2>1, <2>2
<1> QED
    BY <1>2 DEF AuditsInv

\* No audit and no move.
LEMMA AuditsRest ==
    ASSUME FramesOK, AuditsInv, NEW c \in Calls, NEW awaits, Turn(c, awaits),
           UNCHANGED <<audits, moves>>, JudgeHolds(c)'
    PROVE  AuditsInv'
<1>1. AuditsTellWhatChanged'
    BY DEF AuditsInv, AuditsTellWhatChanged
<1> QED
    BY <1>1, AuditsStay

\* Certifications and files are left by a request that has to do with neither.
LEMMA PapersRest ==
    ASSUME FramesOK, PapersInv, NEW c \in Calls, NEW awaits, Turn(c, awaits),
           UNCHANGED <<certs, papers>>, drawn \subseteq drawn', ~Attaching(c)', ~Certifying(c)',
           ~Judging(c) \/ call[c].cert \notin DOMAIN certs
    PROVE  PapersInv'
<1>1. \A d \in Calls \ {c} : call'[d] = call[d]
    BY TurnOthers
<1>2. FilesAreOwn'
    BY DEF PapersInv, FilesAreOwn
<1>3. ~Judging(c)'
    BY DEF Certifying
<1>4. ASSUME NEW d \in Calls PROVE AttachingHolds(d)' /\ CertifyingHolds(d)' /\ JudgingHolds(d)'
    <2>1. CASE d = c
        BY <1>3, <2>1 DEF AttachingHolds, CertifyingHolds, JudgingHolds
    <2>2. CASE d # c
        <3>1. call'[d] = call[d] /\ AttachingHolds(d) /\ CertifyingHolds(d) /\ JudgingHolds(d)
            BY <1>1, <2>2 DEF PapersInv
        <3>2. AttachingHolds(d)'
            BY <1>1, <3>1 DEF AttachingHolds, Attaching, Waits
        <3>3. CertifyingHolds(d)'
            BY <1>1, <3>1 DEF CertifyingHolds, Certifying, Removing, Judging, Attaching, At
        <3>4. JudgingHolds(d)'
            BY <1>1, <1>3, <3>1 DEF JudgingHolds, Judging
        <3> QED
            BY <3>2, <3>3, <3>4
    <2> QED
        BY <2>1, <2>2
<1>5. ASSUME NEW k \in DOMAIN certs PROVE PaperSettled(k)' \/ UnderReview(k)'
    <2>1. CASE PaperSettled(k)
        BY <2>1 DEF PaperSettled, PaperOf
    <2>2. CASE UnderReview(k)
        <3>1. PICK d \in Calls : Judging(d) /\ call[d].cert = k
            BY <2>2 DEF UnderReview
        <3>2. call'[d] = call[d]
            BY <1>1, <1>5, <3>1
        <3> QED
            BY <3>1, <3>2 DEF UnderReview, Judging
    <2> QED
        BY <1>5, <2>1, <2>2 DEF PapersInv
<1> QED
    BY <1>2, <1>4, <1>5 DEF PapersInv

\* A request that has nothing to go on with but what it was asked.
Bare(c) ==
    /\ ~At(c, "saving-product") /\ ~At(c, "rereading-moderated") /\ ~At(c, "auditing")
    /\ ~Attaching(c) /\ ~Certifying(c)

\* A step that leaves certifications, files and audits, and goes on bare.
LEMMA ProductRest ==
    ASSUME FramesOK, ProductInv, NEW c \in Calls, NEW awaits, Turn(c, awaits), Bare(c)',
           ProductColumns', UNCHANGED <<certs, papers, audits, moves, drawn>>,
           ~disturbed' => ~disturbed,
           disturbed' \/ ~Judging(c) \/ call[c].cert \notin DOMAIN certs
    PROVE  ProductInv'
<1>1. SaveHolds(c)' /\ JudgeHolds(c)'
    BY DEF Bare, SaveHolds, JudgeHolds, At
<1>2. ProductTables'
    <2>1. \E n \in 0..MaxCerts : drawn' = 1..n
        BY DEF ProductInv, ProductTables
    <2> QED
        BY <1>1, <2>1, TablesStay DEF ProductInv
<1>3. AuditsInv'
    BY <1>1, AuditsRest DEF ProductInv
<1>4. ~disturbed' => PapersInv'
    BY PapersRest DEF ProductInv, Bare
<1> QED
    BY <1>2, <1>3, <1>4 DEF ProductInv

\* The columns when nothing is written.
LEMMA ColumnsRest ==
    ASSUME ProductInv, UNCHANGED <<status, images, certs, papers, wished, drawn>>
    PROVE  ProductColumns'
BY DEF ProductInv, ProductTables, ProductColumns

\* What most steps do to the reviews of certifications: nothing.
StepsAside(c) ==
    /\ UNCHANGED verdicts /\ drawn \subseteq drawn' /\ ~Judging(c)'
    /\ ~disturbed' =>
         /\ ~disturbed
         /\ \A k \in DOMAIN certs' \cap drawn :
              \/ Judging(c) /\ call[c].cert = k
              \/ k \in DOMAIN certs /\ certs'[k].status = certs[k].status

\* A request about the product arrives.
LEMMA Asked ==
    ASSUME FramesOK, ProductInv, NEW c \in Calls, NEW frame \in ProductFrames, Ask(c, frame),
           frame.at \in {"loading-edit", "loading-replaced", "loading-product", "finding-moderated",
                         "loading-gallery", "removing-image", "attaching-paper", "finding-removed",
                         "finding-unverified", "finding-active", "unwishing"}
    PROVE  Turn(c, ProductAwaits) /\ ProductInv' /\ StepsAside(c)
<1>1. /\ call' = [call EXCEPT ![c] = call'[c]]
      /\ call'[c] = frame /\ call[c].at = "idle"
    BY Received DEF Ask
<1>2. Turn(c, ProductAwaits)
    BY <1>1 DEF Turn, Frames, ProductAwaits
<1>3. Bare(c)' /\ ~Judging(c)
    BY <1>1 DEF Bare, At, Attaching, Certifying, Removing, Judging
<1>4. UNCHANGED <<status, images, certs, papers, wished, audits, moves, drawn, verdicts, disturbed>>
    BY DEF Ask, productRows
<1>5. StepsAside(c)
    <2>1. DOMAIN certs \subseteq drawn /\ ~Judging(c)'
        BY <1>3, ProductTyped DEF ProductInv, Bare, Certifying
    <2> QED
        BY <1>4, <2>1 DEF StepsAside
<1> QED
    BY <1>2, <1>3, <1>4, <1>5, ColumnsRest, ProductRest

\* Requests about the product as a whole, its images and its fans arrive.
LEMMA ProductAsked ==
    ASSUME FramesOK, ProductInv, NEW c \in Calls,
           EditProduct(c) \/ ReplaceImages(c) \/ RemoveProduct(c) \/ ChangeStatus(c)
           \/ ModerateProduct(c) \/ AddImage(c) \/ RemoveImage(c) \/ AddWish(c) \/ RemoveWish(c)
    PROVE  Turn(c, ProductAwaits) /\ ProductInv' /\ StepsAside(c)
<1>1. CASE EditProduct(c) \/ RemoveProduct(c)
    <2> PICK what \in {"edit", "remove"} :
          Ask(c, [at |-> "loading-edit", what |-> what, read |-> NULL, row |-> NULL])
        BY <1>1 DEF EditProduct, RemoveProduct
    <2> PICK f : f = [at |-> "loading-edit", what |-> what, read |-> NULL, row |-> NULL]
        OBVIOUS
    <2>1. f \in ProductFrames /\ f.at = "loading-edit"
        BY DEF ProductFrames, LoadFrames
    <2> QED
        BY <2>1, Asked
<1>2. CASE ReplaceImages(c)
    <2> PICK primary \in BOOLEAN :
          Ask(c, [at |-> "loading-replaced", what |-> "replace", primary |-> primary,
                  read |-> NULL, row |-> NULL])
        BY <1>2 DEF ReplaceImages
    <2> PICK f : f = [at |-> "loading-replaced", what |-> "replace", primary |-> primary,
                      read |-> NULL, row |-> NULL]
        OBVIOUS
    <2>1. f \in ProductFrames /\ f.at = "loading-replaced"
        BY DEF ProductFrames, LoadFrames
    <2> QED
        BY <2>1, Asked
<1>3. CASE ChangeStatus(c)
    <2> PICK next \in {"pending_approval", "active", "out_of_stock"}, seller \in BOOLEAN :
          Ask(c, [at |-> "loading-product", what |-> "status", next |-> next, seller |-> seller,
                  read |-> NULL, row |-> NULL])
        BY <1>3 DEF ChangeStatus
    <2> PICK f : f = [at |-> "loading-product", what |-> "status", next |-> next, seller |-> seller,
                      read |-> NULL, row |-> NULL]
        OBVIOUS
    <2>1. f \in ProductFrames /\ f.at = "loading-product"
        BY DEF ProductFrames, LoadFrames
    <2> QED
        BY <2>1, Asked
<1>4. CASE ModerateProduct(c)
    <2> PICK next \in {"active", "rejected", "suspended"} :
          Ask(c, [at |-> "finding-moderated", next |-> next, was |-> NULL, now |-> NULL])
        BY <1>4 DEF ModerateProduct
    <2> PICK f : f = [at |-> "finding-moderated", next |-> next, was |-> NULL, now |-> NULL]
        OBVIOUS
    <2>1. f \in ProductFrames /\ f.at = "finding-moderated"
        BY DEF ProductFrames, JudgeFrames
    <2> QED
        BY <2>1, Asked
<1>5. CASE AddImage(c)
    <2> PICK primary \in BOOLEAN : Ask(c, [at |-> "loading-gallery", primary |-> primary])
        BY <1>5 DEF AddImage
    <2> PICK f : f = [at |-> "loading-gallery", primary |-> primary]
        OBVIOUS
    <2>1. f \in ProductFrames /\ f.at = "loading-gallery"
        BY DEF ProductFrames, ImageFrames
    <2> QED
        BY <2>1, Asked
<1>6. CASE RemoveImage(c)
    <2> PICK i \in DOMAIN images : Ask(c, [at |-> "removing-image", image |-> i])
        BY <1>6 DEF RemoveImage
    <2> PICK f : f = [at |-> "removing-image", image |-> i]
        OBVIOUS
    <2>1. i \in 1..MaxImages
        BY TableIn DEF ProductInv, ProductTables, ProductColumns
    <2>2. f \in ProductFrames /\ f.at = "removing-image"
        BY <2>1 DEF ProductFrames, ImageFrames
    <2> QED
        BY <2>2, Asked
<1>7. CASE AddWish(c) \/ RemoveWish(c)
    <2> PICK u \in Fans, at \in {"finding-active", "unwishing"} : Ask(c, [at |-> at, fan |-> u])
        BY <1>7 DEF AddWish, RemoveWish
    <2> PICK f : f = [at |-> at, fan |-> u]
        OBVIOUS
    <2>1. f \in ProductFrames /\ f.at \in {"finding-active", "unwishing"}
        BY DEF ProductFrames, WishFrames
    <2> QED
        BY <2>1, Asked
<1> QED
    BY <1>1, <1>2, <1>3, <1>4, <1>5, <1>6, <1>7

\* Requests about certifications arrive.
LEMMA CertificationAsked ==
    ASSUME FramesOK, ProductInv, NEW c \in Calls,
           AddCertification(c) \/ RemoveCertification(c) \/ VerifyCertification(c)
    PROVE  Turn(c, ProductAwaits) /\ ProductInv' /\ StepsAside(c)
<1>1. drawn \subseteq 1..MaxCerts
    BY ProductTyped DEF ProductInv
<1>2. CASE AddCertification(c)
    <2> PICK p \in Papers : Ask(c, [at |-> "attaching-paper", file |-> p])
        BY <1>2 DEF AddCertification
    <2> PICK f : f = [at |-> "attaching-paper", file |-> p]
        OBVIOUS
    <2>1. f \in ProductFrames /\ f.at = "attaching-paper"
        BY DEF ProductFrames, PaperFrames
    <2> QED
        BY <2>1, Asked
<1>3. CASE RemoveCertification(c)
    <2> PICK k \in drawn : Ask(c, [at |-> "finding-removed", cert |-> k, row |-> NULL])
        BY <1>3 DEF RemoveCertification
    <2> PICK f : f = [at |-> "finding-removed", cert |-> k, row |-> NULL]
        OBVIOUS
    <2>1. f \in ProductFrames /\ f.at = "finding-removed"
        BY <1>1 DEF ProductFrames, RemovalFrames
    <2> QED
        BY <2>1, Asked
<1>4. CASE VerifyCertification(c)
    <2> PICK k \in drawn, a \in Agents, verdict \in Verdicts :
          Ask(c, [at |-> "finding-unverified", cert |-> k, by |-> a, verdict |-> verdict, row |-> NULL])
        BY <1>4 DEF VerifyCertification
    <2> PICK f : f = [at |-> "finding-unverified", cert |-> k, by |-> a, verdict |-> verdict, row |-> NULL]
        OBVIOUS
    <2>1. f \in ProductFrames /\ f.at = "finding-unverified"
        BY <1>1 DEF ProductFrames, VerdictFrames
    <2> QED
        BY <2>1, Asked
<1> QED
    BY <1>2, <1>3, <1>4

\* A request is answered, and its step has left certifications, files and audits.
LEMMA ProductEnded ==
    ASSUME FramesOK, ProductInv, NEW c \in Calls, Of(c, ProductAwaits), End(c),
           ProductColumns', UNCHANGED <<certs, papers, audits, moves, drawn>>,
           ~disturbed' => ~disturbed,
           disturbed' \/ ~Judging(c) \/ call[c].cert \notin DOMAIN certs
    PROVE  Turn(c, ProductAwaits) /\ ProductInv'
<1>1. /\ call' = [call EXCEPT ![c] = call'[c]]
      /\ call'[c] \in Frames /\ call'[c].at = "idle"
    BY Ended
<1>2. Turn(c, ProductAwaits)
    BY <1>1 DEF Turn, Of
<1>3. Bare(c)'
    BY <1>1 DEF Bare, At, Attaching, Certifying, Removing, Judging
<1> QED
    BY <1>2, <1>3, ProductRest

\* The next await of a request, where the frame may be there.
LEMMA ProductMoved ==
    ASSUME FramesOK, NEW c \in Calls, NEW await \in ProductAwaits, Of(c, ProductAwaits), Goto(c, await),
           [call[c] EXCEPT !.at = await] \in ProductFrames
    PROVE  /\ Turn(c, ProductAwaits)
           /\ call'[c] = [call[c] EXCEPT !.at = await] /\ call'[c].at = await
<1>1. PICK f \in ProductFrames : f = [call[c] EXCEPT !.at = await]
    OBVIOUS
<1>2. "at" \in DOMAIN call[c]
    <2>1. call[c] \in ProductFrames
        BY ProductShape
    <2> QED
        BY <2>1 DEF ProductFrames, LoadFrames, JudgeFrames, ImageFrames, PaperFrames, RemovalFrames,
                    VerdictFrames, WishFrames
<1>3. f.at = await
    BY <1>1, <1>2
<1>4. /\ call' = [call EXCEPT ![c] = call'[c]]
      /\ call'[c] = [call[c] EXCEPT !.at = await]
    BY Moved
<1> QED
    BY <1>1, <1>3, <1>4 DEF Turn, Of, Frames

\* A request about the product goes on with another frame.
LEMMA ProductFramed ==
    ASSUME FramesOK, NEW c \in Calls, Of(c, ProductAwaits), NEW f \in ProductFrames,
           call' = [call EXCEPT ![c] = f]
    PROVE  Turn(c, ProductAwaits) /\ call'[c] = f
<1>1. f \in Frames /\ f.at \in ProductAwaits
    BY ProductFrameFields DEF Frames
<1>2. call'[c] = f /\ call' = [call EXCEPT ![c] = call'[c]]
    BY DEF FramesOK
<1> QED
    BY <1>1, <1>2 DEF Turn, Of

\* The object in memory keeps its columns' types and the certifications.
LEMMA ChangedRows ==
    ASSUME ProductTables, NEW f \in LoadFrames, NEW row \in Changed(f)
    PROVE  row \in ProductRows /\ row.certs = certs
<1>1. Loaded \in ProductRows /\ Loaded.certs = certs
    BY ProductTyped
<1>2. CASE f.what = "remove" \/ f.what = "edit"
    <2>1. row = Loaded \/ row = [Loaded EXCEPT !.status = "draft"]
        BY <1>2 DEF Changed
    <2> QED
        BY <1>1, <2>1 DEF ProductRows, ProductStatus
<1>3. CASE f.what = "status"
    <2>1. row = [Loaded EXCEPT !.status = f.next]
        BY <1>3 DEF Changed
    <2>2. f.next \in ProductStatus
        BY <1>3 DEF LoadFrames, ProductStatus
    <2> QED
        BY <1>1, <2>1, <2>2 DEF ProductRows
<1>4. CASE f.what = "replace"
    <2>1. PICK i \in FreshImages : row = [Loaded EXCEPT !.images = Inserted(<< >>, i, f.primary)]
        BY <1>4 DEF Changed
    <2>2. i \in 1..MaxImages
        BY DEF FreshImages
    <2>3. f.primary \in BOOLEAN
        BY <1>4 DEF LoadFrames
    <2>4. PICK none : none = << >>
        OBVIOUS
    <2>5. PICK t : t = Inserted(none, i, f.primary)
        OBVIOUS
    <2>6. t \in UNION {[I -> BOOLEAN] : I \in SUBSET (1..MaxImages)}
        <3>1. none \in Seq(BOOLEAN) /\ Len(none) = 0 /\ 1..0 = {}
            BY <2>4
        <3>2. none \in [1..Len(none) -> BOOLEAN]
            BY <3>1, LenProperties
        <3>3. DOMAIN none \subseteq 1..MaxImages /\ none \in [DOMAIN none -> BOOLEAN]
            BY <3>1, <3>2
        <3>4. DOMAIN t \subseteq 1..MaxImages /\ t \in [DOMAIN t -> BOOLEAN]
            <4>1. PICK S : S = BOOLEAN
                OBVIOUS
            <4>2. PICK first \in S : first = f.primary
                BY <2>3, <4>1
            <4>3. none \in [DOMAIN none -> S] /\ t = Inserted(none, i, first)
                BY <2>5, <3>3, <4>1, <4>2
            <4>4. DOMAIN t \subseteq 1..MaxImages /\ t \in [DOMAIN t -> S]
                BY <2>2, <3>3, <4>3, RowInserted
            <4> QED
                BY <4>1, <4>4
        <3> QED
            BY <3>4, TableIn
    <2>7. row = [Loaded EXCEPT !.images = t]
        BY <2>1, <2>4, <2>5
    <2> QED
        BY <1>1, <2>6, <2>7 DEF ProductRows
<1> QED
    BY <1>2, <1>3, <1>4 DEF LoadFrames

\* A product is loaded and changed in memory, or the request is refused.
LEMMA LoadProductInv ==
    ASSUME FramesOK, ProductInv, NEW c \in Calls, LoadProduct(c)
    PROVE  Turn(c, ProductAwaits) /\ ProductInv'
<1>1. /\ Of(c, ProductAwaits) /\ ~Judging(c)
      /\ call[c].at \in {"loading-product", "loading-edit", "loading-replaced"}
    BY DEF LoadProduct, At, Of, ProductAwaits, Judging
<1>2. UNCHANGED <<status, images, certs, papers, wished, audits, moves, drawn, verdicts, disturbed>>
    BY DEF LoadProduct, productRows
<1>3. CASE End(c)
    BY <1>1, <1>2, <1>3, ColumnsRest, ProductEnded
<1>4. CASE ~End(c)
    <2>1. PICK row \in Changed(call[c]) :
            call' = [call EXCEPT ![c].at = "saving-product", ![c].read = Loaded, ![c].row = row]
        BY <1>4 DEF LoadProduct
    <2>2. PICK old \in LoadFrames : old = call[c]
        BY <1>1, LoadShape
    <2>3. row \in ProductRows /\ row.certs = certs
        BY <2>1, <2>2, ChangedRows DEF ProductInv
    <2>4. PICK read \in ProductRows : read = Loaded /\ read.certs = certs
        BY ProductTyped DEF ProductInv
    <2>5. old.at \in {"loading-product", "loading-edit", "loading-replaced"}
        BY <1>1, <2>2
    <2>6. PICK f : f = [old EXCEPT !.at = "saving-product", !.read = read, !.row = row]
        OBVIOUS
    <2>7. call' = [call EXCEPT ![c] = f]
        BY <2>1, <2>2, <2>4, <2>6 DEF FramesOK
    <2>8. f \in LoadFrames /\ f.at = "saving-product" /\ f.read = read /\ f.row = row
        <3>1. f \in LoadFrames
            BY <2>3, <2>5, <2>6 DEF LoadFrames
        <3>2. f.at = "saving-product" /\ f.read = read /\ f.row = row
            BY <2>6 DEF LoadFrames
        <3> QED
            BY <3>1, <3>2
    <2>9. call'[c] = f /\ call' = [call EXCEPT ![c] = call'[c]]
        BY <2>7 DEF FramesOK
    <2>10. f \in Frames
        BY <2>8 DEF Frames, ProductFrames
    <2>11. Turn(c, ProductAwaits)
        BY <1>1, <2>8, <2>9, <2>10 DEF Turn, Of, ProductAwaits
    <2>12. SaveHolds(c)'
        <3>1. DOMAIN certs \subseteq drawn'
            BY <1>2, ProductTyped DEF ProductInv
        <3> QED
            BY <2>3, <2>4, <2>8, <2>9, <3>1 DEF SaveHolds
    <2>13. ~Attaching(c)' /\ ~Certifying(c)' /\ JudgeHolds(c)'
        BY <2>8, <2>9 DEF Attaching, Certifying, Removing, Judging, At, JudgeHolds
    <2>14. ProductTables'
        <3>1. \E n \in 0..MaxCerts : drawn' = 1..n
            BY <1>2 DEF ProductInv, ProductTables
        <3> QED
            BY <1>2, <2>11, <2>12, <3>1, ColumnsRest, TablesStay DEF ProductInv
    <2>15. AuditsInv'
        BY <1>2, <2>11, <2>13, AuditsRest DEF ProductInv
    <2>16. ~disturbed' => PapersInv'
        BY <1>1, <1>2, <2>11, <2>13, PapersRest DEF ProductInv
    <2> QED
        BY <2>11, <2>14, <2>15, <2>16 DEF ProductInv
<1> QED
    BY <1>3, <1>4

\* What is saved has the types of the columns, and no certification in it is new.
LEMMA SavedColumns ==
    ASSUME ProductInv, NEW c \in Calls, At(c, "saving-product"),
           status' = call[c].row.status, images' = call[c].row.images, certs' = call[c].row.certs,
           UNCHANGED <<papers, wished, drawn>>
    PROVE  ProductColumns'
<1>1. SaveHolds(c)
    BY DEF ProductInv, ProductTables
<1>2. PICK row \in ProductRows : row = call[c].row /\ DOMAIN row.certs \subseteq drawn
    BY <1>1 DEF SaveHolds
<1>3. /\ status' \in ProductStatus
      /\ images' \in UNION {[I -> BOOLEAN] : I \in SUBSET (1..MaxImages)}
      /\ certs' \in UNION {[K -> CertRows] : K \in SUBSET (1..MaxCerts)}
      /\ DOMAIN certs' \subseteq drawn
    BY <1>2 DEF ProductRows
<1> QED
    BY <1>3 DEF ProductInv, ProductTables, ProductColumns

\* A save that writes over what it has not read says so, and any other leaves the
\* certifications as they are.
LEMMA SaveProductInv ==
    ASSUME FramesOK, ProductInv, NEW c \in Calls, SaveProduct(c)
    PROVE  Turn(c, ProductAwaits) /\ ProductInv'
<1>1. Of(c, ProductAwaits) /\ ~Judging(c) /\ At(c, "saving-product")
    BY DEF SaveProduct, At, Of, ProductAwaits, Judging
<1>2. UNCHANGED <<papers, wished, audits, moves, drawn>>
    BY DEF SaveProduct
<1>3. CASE End(c) /\ UNCHANGED <<status, images, certs, disturbed>>
    <2>1. ProductColumns'
        BY <1>2, <1>3, ColumnsRest
    <2> QED
        BY <1>1, <1>2, <1>3, <2>1, ProductEnded
<1>4. CASE ~(End(c) /\ UNCHANGED <<status, images, certs, disturbed>>)
    <2>1. /\ status' = call[c].row.status /\ images' = call[c].row.images /\ certs' = call[c].row.certs
          /\ disturbed' = (disturbed \/ Loaded # call[c].read)
          /\ (IF call[c].what = "status" THEN Goto(c, "notifying-seller") ELSE End(c))
        BY <1>4 DEF SaveProduct
    <2>2. ProductColumns'
        BY <1>1, <1>2, <2>1, SavedColumns
    <2>3. ~disturbed' => ~disturbed /\ certs' = certs
        <3>1. SaveHolds(c) /\ Loaded.certs = certs
            BY ProductTyped DEF ProductInv, ProductTables
        <3> QED
            BY <1>1, <2>1, <3>1 DEF SaveHolds
    <2>4. Turn(c, ProductAwaits) /\ Bare(c)'
        <3>1. CASE End(c)
            <4>1. /\ call' = [call EXCEPT ![c] = call'[c]]
                  /\ call'[c] \in Frames /\ call'[c].at = "idle"
                BY <3>1, Ended
            <4>2. Turn(c, ProductAwaits)
                BY <1>1, <4>1 DEF Turn, Of
            <4> QED
                BY <4>1, <4>2 DEF Bare, At, Attaching, Certifying, Removing, Judging
        <3>2. CASE call[c].what = "status" /\ Goto(c, "notifying-seller")
            <4>1. PICK old \in LoadFrames : old = call[c]
                BY <1>1, LoadShape DEF At
            <4>2. [old EXCEPT !.at = "notifying-seller"] \in LoadFrames
                BY <3>2, <4>1 DEF LoadFrames
            <4>3. [call[c] EXCEPT !.at = "notifying-seller"] \in ProductFrames
                BY <4>1, <4>2 DEF ProductFrames
            <4>4. "notifying-seller" \in ProductAwaits
                BY DEF ProductAwaits
            <4>5. Turn(c, ProductAwaits) /\ call'[c].at = "notifying-seller"
                BY <1>1, <3>2, <4>3, <4>4, ProductMoved
            <4> QED
                BY <4>5 DEF Bare, At, Attaching, Certifying, Removing, Judging
        <3> QED
            BY <2>1, <3>1, <3>2
    <2>5. SaveHolds(c)' /\ JudgeHolds(c)' /\ ~Attaching(c)' /\ ~Certifying(c)'
        BY <2>4 DEF Bare, SaveHolds, JudgeHolds, At
    <2>6. ProductTables'
        <3>1. \E n \in 0..MaxCerts : drawn' = 1..n
            BY <1>2 DEF ProductInv, ProductTables
        <3> QED
            BY <1>2, <2>2, <2>4, <2>5, <3>1, TablesStay DEF ProductInv
    <2>7. AuditsInv'
        BY <1>2, <2>4, <2>5, AuditsRest DEF ProductInv
    <2>8. ~disturbed' => PapersInv'
        BY <1>1, <1>2, <2>3, <2>4, <2>5, PapersRest DEF ProductInv
    <2> QED
        BY <2>4, <2>6, <2>7, <2>8 DEF ProductInv
<1> QED
    BY <1>3, <1>4

\* The seller is told, or not; the product is left.
LEMMA NotifySellerInv ==
    ASSUME FramesOK, ProductInv, NoticesInv, NEW c \in Calls, NotifySeller(c)
    PROVE  Turn(c, ProductAwaits) /\ ProductInv' /\ NoticesInv'
<1>1. At(c, "notifying-seller") /\ Of(c, ProductAwaits) /\ ~Judging(c) /\ End(c)
    BY DEF NotifySeller, At, Of, ProductAwaits, Judging
<1>2. UNCHANGED <<status, images, certs, papers, wished, audits, moves, drawn, verdicts, disturbed>>
    BY DEF NotifySeller, productRows
<1>3. Turn(c, ProductAwaits) /\ ProductInv'
    BY <1>1, <1>2, ColumnsRest, ProductEnded
<1>4. ProductAwaits \cap NoticeAwaits = {}
    BY DEF ProductAwaits, NoticeAwaits
<1>5. CASE UNCHANGED notificationRows
    BY <1>3, <1>4, <1>5, NoticesRest
<1>6. CASE CanPublish /\ Publish(Seller, [about |-> "product", says |-> call[c].next])
    <2>1. Seller \in Owners
        BY ProductsAssumption DEF Seller
    <2>2. call[c].next \in {"pending_approval", "active", "out_of_stock"}
        <3>1. call[c] \in LoadFrames
            BY <1>1, LoadShape DEF At
        <3> QED
            BY <1>1, <3>1 DEF LoadFrames, At
    <2>3. [about |-> "product", says |-> call[c].next] \in News
        BY <2>2, ProductsAssumption
    <2> QED
        BY <1>3, <1>4, <1>6, <2>1, <2>3, PublishInv
<1> QED
    BY <1>3, <1>5, <1>6 DEF NotifySeller

\* A moderator is told which status there is.
LEMMA FindModeratedInv ==
    ASSUME FramesOK, ProductInv, NEW c \in Calls, FindModerated(c)
    PROVE  Turn(c, ProductAwaits) /\ ProductInv'
<1>1. At(c, "finding-moderated") /\ Of(c, ProductAwaits) /\ ~Judging(c)
    BY DEF FindModerated, At, Of, ProductAwaits, Judging
<1>2. UNCHANGED <<status, images, certs, papers, wished, audits, moves, drawn, verdicts, disturbed>>
    BY DEF FindModerated, productRows
<1>3. PICK old \in JudgeFrames : old = call[c]
    BY <1>1, JudgeShape DEF At
<1>4. PICK s \in ProductStatus : s = status
    BY DEF ProductInv, ProductTables, ProductColumns
<1>5. PICK await \in {"auditing", "moderating-product"} :
        /\ call' = [call EXCEPT ![c].was = s, ![c].now = s, ![c].at = await]
        /\ await = "auditing" => s = old.next
    BY <1>3, <1>4 DEF FindModerated
<1>6. PICK f : f = [old EXCEPT !.was = s, !.now = s, !.at = await]
    OBVIOUS
<1>7. call' = [call EXCEPT ![c] = f]
    BY <1>3, <1>5, <1>6 DEF FramesOK
<1>8. f \in JudgeFrames /\ f.at = await /\ f.was = s /\ f.next = old.next
    BY <1>6 DEF JudgeFrames
<1>9. call'[c] = f /\ call' = [call EXCEPT ![c] = call'[c]]
    BY <1>7 DEF FramesOK
<1>10. Turn(c, ProductAwaits)
    <2>1. f \in Frames
        BY <1>8 DEF Frames, ProductFrames
    <2> QED
        BY <1>1, <1>8, <1>9, <2>1 DEF Turn, Of, ProductAwaits
<1>11. JudgeHolds(c)'
    BY <1>5, <1>8, <1>9 DEF JudgeHolds, At
<1>12. SaveHolds(c)' /\ ~Attaching(c)' /\ ~Certifying(c)'
    BY <1>8, <1>9 DEF Attaching, Certifying, Removing, Judging, At, SaveHolds
<1>13. ProductTables'
    <2>1. \E n \in 0..MaxCerts : drawn' = 1..n
        BY <1>2 DEF ProductInv, ProductTables
    <2> QED
        BY <1>2, <1>10, <1>12, <2>1, ColumnsRest, TablesStay DEF ProductInv
<1>14. AuditsInv'
    BY <1>2, <1>10, <1>11, AuditsRest DEF ProductInv
<1>15. ~disturbed' => PapersInv'
    BY <1>1, <1>2, <1>10, <1>12, PapersRest DEF ProductInv
<1> QED
    BY <1>10, <1>13, <1>14, <1>15 DEF ProductInv

\* The conditional UPDATE of the status misses, or replaces what was read.
LEMMA ModerateStatusInv ==
    ASSUME FramesOK, ProductInv, NEW c \in Calls, ModerateStatus(c)
    PROVE  Turn(c, ProductAwaits) /\ ProductInv'
<1>1. At(c, "moderating-product") /\ Of(c, ProductAwaits) /\ ~Judging(c)
    BY DEF ModerateStatus, At, Of, ProductAwaits, Judging
<1>2. UNCHANGED <<images, certs, papers, wished, audits, drawn, verdicts, disturbed>>
    BY DEF ModerateStatus
<1>3. CASE ~StatusIs(call[c].was)
    <2>1. End(c) /\ UNCHANGED <<status, moves>>
        BY <1>3 DEF ModerateStatus
    <2> QED
        BY <1>1, <1>2, <2>1, ColumnsRest, ProductEnded
<1>4. CASE StatusIs(call[c].was)
    <2>1. PICK old \in JudgeFrames : old = call[c]
        BY <1>1, JudgeShape DEF At
    <2>2. /\ status' = old.next /\ moves' = moves \cup {[from |-> status, to |-> old.next]}
          /\ status = old.was /\ Goto(c, "rereading-moderated")
        BY <1>4, <2>1 DEF ModerateStatus, StatusIs
    <2>3. PICK f \in JudgeFrames : /\ f = [old EXCEPT !.at = "rereading-moderated"]
                                   /\ f.at = "rereading-moderated" /\ f.was = old.was /\ f.next = old.next
        <3>1. [old EXCEPT !.at = "rereading-moderated"] \in JudgeFrames
            BY DEF JudgeFrames
        <3> QED
            BY <3>1 DEF JudgeFrames
    <2>4. Turn(c, ProductAwaits) /\ call'[c] = f
        <3>1. [call[c] EXCEPT !.at = "rereading-moderated"] \in ProductFrames
            BY <2>1, <2>3 DEF ProductFrames
        <3>2. "rereading-moderated" \in ProductAwaits
            BY DEF ProductAwaits
        <3> QED
            BY <1>1, <2>1, <2>2, <2>3, <3>1, <3>2, ProductMoved
    <2>5. JudgeHolds(c)'
        <3>1. [from |-> f.was, to |-> f.next] \in moves'
            BY <2>2, <2>3
        <3> QED
            BY <2>3, <2>4, <3>1 DEF JudgeHolds, At
    <2>6. SaveHolds(c)' /\ ~Attaching(c)' /\ ~Certifying(c)'
        BY <2>3, <2>4 DEF Attaching, Certifying, Removing, Judging, At, SaveHolds
    <2>7. ProductColumns'
        <3>1. old.next \in ProductStatus
            BY DEF JudgeFrames, ProductStatus
        <3> QED
            BY <1>2, <2>2, <3>1 DEF ProductInv, ProductTables, ProductColumns
    <2>8. ProductTables'
        <3>1. \E n \in 0..MaxCerts : drawn' = 1..n
            BY <1>2 DEF ProductInv, ProductTables
        <3> QED
            BY <1>2, <2>4, <2>6, <2>7, <3>1, TablesStay DEF ProductInv
    <2>9. AuditsInv'
        <3>1. moves \subseteq moves'
            BY <2>2
        <3>2. AuditsTellWhatChanged'
            BY <1>2, <3>1 DEF ProductInv, AuditsInv, AuditsTellWhatChanged
        <3> QED
            BY <2>4, <2>5, <3>1, <3>2, AuditsStay DEF ProductInv
    <2>10. ~disturbed' => PapersInv'
        BY <1>1, <1>2, <2>4, <2>6, PapersRest DEF ProductInv
    <2> QED
        BY <2>4, <2>8, <2>9, <2>10 DEF ProductInv
<1> QED
    BY <1>3, <1>4

\* The product is read again for its status, and the change is audited, or not.
LEMMA RereadModeratedInv ==
    ASSUME FramesOK, ProductInv, NEW c \in Calls, RereadModerated(c)
    PROVE  Turn(c, ProductAwaits) /\ ProductInv'
<1>1. At(c, "rereading-moderated") /\ Of(c, ProductAwaits) /\ ~Judging(c)
    BY DEF RereadModerated, At, Of, ProductAwaits, Judging
<1>2. UNCHANGED <<status, images, certs, papers, wished, audits, moves, drawn, verdicts, disturbed>>
    BY DEF RereadModerated, productRows
<1>3. CASE End(c)
    BY <1>1, <1>2, <1>3, ColumnsRest, ProductEnded
<1>4. CASE ~End(c)
    <2>1. PICK old \in JudgeFrames : old = call[c]
        BY <1>1, JudgeShape DEF At
    <2>2. PICK s \in ProductStatus : s = status
        BY DEF ProductInv, ProductTables, ProductColumns
    <2>3. PICK f : f = [old EXCEPT !.at = "auditing", !.now = s]
        OBVIOUS
    <2>4. call' = [call EXCEPT ![c] = f]
        BY <1>4, <2>1, <2>2, <2>3 DEF RereadModerated, FramesOK
    <2>5. f \in JudgeFrames /\ f.at = "auditing" /\ f.was = old.was /\ f.next = old.next
        BY <2>3 DEF JudgeFrames
    <2>6. Turn(c, ProductAwaits) /\ call'[c] = f
        BY <1>1, <2>4, <2>5, ProductFramed DEF ProductFrames
    <2>7. JudgeHolds(c)'
        <3>1. JudgeHolds(c)
            BY DEF ProductInv, AuditsInv
        <3> QED
            BY <1>1, <1>2, <2>1, <2>5, <2>6, <3>1 DEF JudgeHolds
    <2>8. SaveHolds(c)' /\ ~Attaching(c)' /\ ~Certifying(c)'
        BY <2>5, <2>6 DEF Attaching, Certifying, Removing, Judging, At, SaveHolds
    <2>9. ProductTables'
        <3>1. \E n \in 0..MaxCerts : drawn' = 1..n
            BY <1>2 DEF ProductInv, ProductTables
        <3> QED
            BY <1>2, <2>6, <2>8, <3>1, ColumnsRest, TablesStay DEF ProductInv
    <2>10. AuditsInv'
        BY <1>2, <2>6, <2>7, AuditsRest DEF ProductInv
    <2>11. ~disturbed' => PapersInv'
        BY <1>1, <1>2, <2>6, <2>8, PapersRest DEF ProductInv
    <2> QED
        BY <2>6, <2>9, <2>10, <2>11 DEF ProductInv
<1> QED
    BY <1>3, <1>4

\* The audit row names what the request has found or has replaced.
LEMMA AuditModerationInv ==
    ASSUME FramesOK, ProductInv, NEW c \in Calls, AuditModeration(c)
    PROVE  Turn(c, ProductAwaits) /\ ProductInv'
<1>1. At(c, "auditing") /\ Of(c, ProductAwaits) /\ ~Judging(c) /\ End(c)
    BY DEF AuditModeration, At, Of, ProductAwaits, Judging
<1>2. UNCHANGED <<status, images, certs, papers, wished, moves, drawn, verdicts, disturbed>>
    BY DEF AuditModeration
<1>3. CASE UNCHANGED audits
    BY <1>1, <1>2, <1>3, ColumnsRest, ProductEnded
<1>4. CASE audits' = audits \cup {[from |-> call[c].was, to |-> call[c].now, asked |-> call[c].next]}
    <2>1. /\ call' = [call EXCEPT ![c] = call'[c]]
          /\ call'[c] \in Frames /\ call'[c].at = "idle"
        BY <1>1, Ended
    <2>2. Turn(c, ProductAwaits)
        BY <1>1, <2>1 DEF Turn, Of
    <2>3. SaveHolds(c)' /\ JudgeHolds(c)' /\ ~Attaching(c)' /\ ~Certifying(c)'
        BY <2>1 DEF At, Attaching, Certifying, Removing, Judging, SaveHolds, JudgeHolds
    <2>4. AuditsTellWhatChanged'
        <3>1. PICK a : a = [from |-> call[c].was, to |-> call[c].now, asked |-> call[c].next]
            OBVIOUS
        <3>2. a.from = a.asked \/ [from |-> a.from, to |-> a.asked] \in moves
            BY <1>1, <3>1 DEF ProductInv, AuditsInv, JudgeHolds
        <3>3. audits' = audits \cup {a} /\ moves' = moves
            BY <1>2, <1>4, <3>1
        <3> QED
            BY <3>2, <3>3 DEF ProductInv, AuditsInv, AuditsTellWhatChanged
    <2>5. ProductTables'
        <3>1. \E n \in 0..MaxCerts : drawn' = 1..n
            BY <1>2 DEF ProductInv, ProductTables
        <3> QED
            BY <1>2, <2>2, <2>3, <3>1, ColumnsRest, TablesStay DEF ProductInv
    <2>6. AuditsInv'
        BY <1>2, <2>2, <2>3, <2>4, AuditsStay DEF ProductInv
    <2>7. ~disturbed' => PapersInv'
        BY <1>1, <1>2, <2>2, <2>3, PapersRest DEF ProductInv
    <2> QED
        BY <2>2, <2>5, <2>6, <2>7 DEF ProductInv
<1> QED
    BY <1>3, <1>4 DEF AuditModeration

\* A request goes on bare, and its step has left certifications, files and audits.
LEMMA ProductGoesOn ==
    ASSUME FramesOK, ProductInv, NEW c \in Calls, Of(c, ProductAwaits), ~Judging(c),
           NEW await \in {"resetting-primary", "inserting-image", "wishing"}, Goto(c, await),
           [call[c] EXCEPT !.at = await] \in ProductFrames,
           ProductColumns', UNCHANGED <<certs, papers, audits, moves, drawn, disturbed>>
    PROVE  Turn(c, ProductAwaits) /\ ProductInv'
<1>1. await \in ProductAwaits
    BY DEF ProductAwaits
<1>2. Turn(c, ProductAwaits) /\ call'[c].at = await
    BY <1>1, ProductMoved
<1>3. Bare(c)'
    BY <1>2 DEF Bare, At, Attaching, Certifying, Removing, Judging
<1> QED
    BY <1>2, <1>3, ProductRest

\* The columns when only the images are written.
LEMMA ImagesWritten ==
    ASSUME ProductInv, UNCHANGED <<status, certs, papers, wished, drawn>>,
           DOMAIN images' \subseteq 1..MaxImages, images' \in [DOMAIN images' -> BOOLEAN]
    PROVE  ProductColumns'
<1>1. images' \in UNION {[I -> BOOLEAN] : I \in SUBSET (1..MaxImages)}
    BY TableIn
<1> QED
    BY <1>1 DEF ProductInv, ProductTables, ProductColumns

\* A request about the images loads them, resets the primary one, adds or drops one.
LEMMA ImagesInv ==
    ASSUME FramesOK, ProductInv, NEW c \in Calls,
           LoadGallery(c) \/ ResetPrimary(c) \/ InsertImage(c) \/ DropImage(c)
    PROVE  Turn(c, ProductAwaits) /\ ProductInv'
<1>1. /\ call[c].at \in {"loading-gallery", "resetting-primary", "inserting-image", "removing-image"}
      /\ Of(c, ProductAwaits) /\ ~Judging(c)
    BY DEF LoadGallery, ResetPrimary, InsertImage, DropImage, At, Of, ProductAwaits, Judging
<1>2. UNCHANGED <<status, certs, papers, wished, audits, moves, drawn, verdicts, disturbed>>
    BY DEF LoadGallery, ResetPrimary, InsertImage, DropImage, productRows
<1>3. PICK old \in ImageFrames : old = call[c]
    BY <1>1, ImageShape
<1>4. DOMAIN images \subseteq 1..MaxImages /\ images \in [DOMAIN images -> BOOLEAN]
    BY TableIn DEF ProductInv, ProductTables, ProductColumns
<1>5. CASE LoadGallery(c)
    <2>1. PICK await \in {"resetting-primary", "inserting-image"} : Goto(c, await)
        BY <1>5 DEF LoadGallery
    <2>2. old.at = "loading-gallery"
        BY <1>3, <1>5 DEF LoadGallery, At
    <2>3. [old EXCEPT !.at = await] \in ImageFrames
        BY <2>2 DEF ImageFrames
    <2>4. [call[c] EXCEPT !.at = await] \in ProductFrames
        BY <1>3, <2>3 DEF ProductFrames
    <2>5. UNCHANGED images
        BY <1>5 DEF LoadGallery, productRows
    <2> QED
        BY <1>1, <1>2, <2>1, <2>4, <2>5, ColumnsRest, ProductGoesOn
<1>6. CASE ResetPrimary(c)
    <2>1. old.at = "resetting-primary"
        BY <1>3, <1>6 DEF ResetPrimary, At
    <2>2. [old EXCEPT !.at = "inserting-image"] \in ImageFrames
        BY <2>1 DEF ImageFrames
    <2>3. [call[c] EXCEPT !.at = "inserting-image"] \in ProductFrames
        BY <1>3, <2>2 DEF ProductFrames
    <2>4. images' = [i \in DOMAIN images |-> FALSE]
        BY <1>6 DEF ResetPrimary, Unset
    <2>5. ProductColumns'
        BY <1>2, <1>4, <2>4, ImagesWritten
    <2>6. Goto(c, "inserting-image")
        BY <1>6 DEF ResetPrimary
    <2> QED
        BY <1>1, <1>2, <2>3, <2>5, <2>6, ProductGoesOn
<1>7. CASE InsertImage(c)
    <2>1. ProductColumns'
        <3>1. CASE UNCHANGED images
            BY <1>2, <3>1, ColumnsRest
        <3>2. CASE ~UNCHANGED images
            <4>1. PICK i \in FreshImages : images' = Inserted(images, i, call[c].primary)
                BY <1>7, <3>2 DEF InsertImage
            <4>2. i \in 1..MaxImages
                BY DEF FreshImages
            <4>3. PICK S : S = BOOLEAN
                OBVIOUS
            <4>4. PICK primary \in S : primary = call[c].primary
                <5>1. old.at = "inserting-image"
                    BY <1>3, <1>7 DEF InsertImage, At
                <5>2. old.primary \in BOOLEAN
                    BY <5>1 DEF ImageFrames
                <5> QED
                    BY <1>3, <4>3, <5>2
            <4>5. PICK t : t = Inserted(images, i, primary)
                OBVIOUS
            <4>6. images \in [DOMAIN images -> S]
                BY <1>4, <4>3
            <4>7. DOMAIN t \subseteq 1..MaxImages /\ t \in [DOMAIN t -> S]
                BY <1>4, <4>2, <4>5, <4>6, RowInserted
            <4>8. images' = t
                BY <4>1, <4>4, <4>5
            <4>9. DOMAIN images' \subseteq 1..MaxImages /\ images' \in [DOMAIN images' -> BOOLEAN]
                BY <4>3, <4>7, <4>8
            <4> QED
                BY <1>2, <4>9, ImagesWritten
        <3> QED
            BY <3>1, <3>2
    <2>2. End(c)
        BY <1>7 DEF InsertImage
    <2> QED
        BY <1>1, <1>2, <2>1, <2>2, ProductEnded
<1>8. CASE DropImage(c)
    <2>1. images' = [i \in DOMAIN images \ {call[c].image} |-> images[i]] /\ End(c)
        BY <1>8 DEF DropImage
    <2>2. ProductColumns'
        BY <1>2, <1>4, <2>1, ImagesWritten
    <2> QED
        BY <1>1, <1>2, <2>1, <2>2, ProductEnded
<1> QED
    BY <1>5, <1>6, <1>7, <1>8

\* A request about the wishlist of a user.
LEMMA WishesInv ==
    ASSUME FramesOK, ProductInv, NEW c \in Calls, FindActive(c) \/ InsertWish(c) \/ DeleteWish(c)
    PROVE  Turn(c, ProductAwaits) /\ ProductInv'
<1>1. /\ call[c].at \in {"finding-active", "wishing", "unwishing"}
      /\ Of(c, ProductAwaits) /\ ~Judging(c)
    BY DEF FindActive, InsertWish, DeleteWish, At, Of, ProductAwaits, Judging
<1>2. UNCHANGED <<status, images, certs, papers, audits, moves, drawn, verdicts, disturbed>>
    BY DEF FindActive, InsertWish, DeleteWish, productRows
<1>3. PICK old \in WishFrames : old = call[c]
    BY <1>1, WishShape
<1>4. ProductColumns'
    <2>1. wished' \subseteq Fans
        <3>1. wished \subseteq Fans /\ old.fan \in Fans
            BY DEF ProductInv, ProductTables, ProductColumns, WishFrames
        <3>2. wished' \subseteq wished \cup {old.fan}
            BY <1>3 DEF FindActive, InsertWish, DeleteWish, productRows
        <3> QED
            BY <3>1, <3>2
    <2> QED
        BY <1>2, <2>1 DEF ProductInv, ProductTables, ProductColumns
<1>5. CASE End(c)
    BY <1>1, <1>2, <1>4, <1>5, ProductEnded
<1>6. CASE ~End(c)
    <2>1. Goto(c, "wishing")
        BY <1>6 DEF FindActive, InsertWish, DeleteWish
    <2>2. [old EXCEPT !.at = "wishing"] \in WishFrames
        BY DEF WishFrames
    <2>3. [call[c] EXCEPT !.at = "wishing"] \in ProductFrames
        BY <1>3, <2>2 DEF ProductFrames
    <2> QED
        BY <1>1, <1>2, <1>4, <2>1, <2>3, ProductGoesOn
<1> QED
    BY <1>5, <1>6

\* A request about the product dies.
LEMMA CrashProductInv ==
    ASSUME FramesOK, CatalogueCalls, ProductInv, NEW c \in Calls, CrashProduct(c)
    PROVE  Turn(c, ProductAwaits) /\ ProductInv'
<1>1. End(c) /\ ~At(c, "idle") /\ "user" \notin DOMAIN call[c] /\ disturbed' = TRUE
    BY DEF CrashProduct, Die
<1>2. UNCHANGED <<status, images, certs, papers, wished, audits, moves, drawn, verdicts>>
    BY DEF CrashProduct
<1>3. Of(c, ProductAwaits)
    <2>1. ~Of(c, NoticeAwaits)
        <3>1. Of(c, NoticeAwaits) => call[c] \in NoticeFrames
            BY NoticeShape
        <3>2. call[c] \notin NoticeFrames
            BY <1>1 DEF NoticeFrames
        <3> QED
            BY <3>1, <3>2
    <2> QED
        BY <1>1, <2>1 DEF CatalogueCalls, Of, At
<1> QED
    BY <1>1, <1>2, <1>3, ColumnsRest, ProductEnded

\* What a request knows of certifications and files.
PaperHolds(c) == AttachingHolds(c) /\ CertifyingHolds(c) /\ JudgingHolds(c)

\* A step that is about certifications and their files.
LEMMA CertificateStep ==
    ASSUME FramesOK, ProductInv, NEW c \in Calls, Turn(c, ProductAwaits),
           NEW at, at = call'[c].at, at \notin {"saving-product", "rereading-moderated", "auditing"},
           ProductColumns', UNCHANGED <<audits, moves>>,
           drawn \subseteq drawn', \E n \in 0..MaxCerts : drawn' = 1..n,
           ~disturbed' => PapersInv'
    PROVE  ProductInv'
<1>1. SaveHolds(c)' /\ JudgeHolds(c)'
    BY DEF SaveHolds, JudgeHolds, At
<1>2. ProductTables'
    BY <1>1, TablesStay DEF ProductInv
<1>3. AuditsInv'
    BY <1>1, AuditsRest DEF ProductInv
<1> QED
    BY <1>2, <1>3 DEF ProductInv

\* The columns when only the files are written.
LEMMA PapersWritten ==
    ASSUME ProductInv, UNCHANGED <<status, images, certs, wished, drawn>>,
           papers' \in [Papers -> [status : {"QUARANTINED", "ACTIVE", "FAILED", "DELETED"}, attached : BOOLEAN]]
    PROVE  ProductColumns'
BY DEF ProductInv, ProductTables, ProductColumns

\* What there is of the drawn numbers.
LEMMA DrawnRest ==
    ASSUME ProductInv, UNCHANGED drawn
    PROVE  drawn \subseteq drawn' /\ \E n \in 0..MaxCerts : drawn' = 1..n
BY DEF ProductInv, ProductTables

\* A row of a file after it was attached or detached.
LEMMA PaperLinked ==
    ASSUME ProductColumns, NEW f \in Papers, NEW q \in BOOLEAN, papers' = [papers EXCEPT ![f].attached = q]
    PROVE  /\ papers' \in [Papers -> [status : {"QUARANTINED", "ACTIVE", "FAILED", "DELETED"}, attached : BOOLEAN]]
           /\ \A g \in Papers \ {f} : papers'[g] = papers[g]
           /\ papers'[f].attached = q /\ papers'[f].status = papers[f].status
BY DEF ProductColumns

\* The same after its status was changed.
LEMMA PaperMarked ==
    ASSUME ProductColumns, NEW f \in Papers, NEW q \in {"QUARANTINED", "ACTIVE", "FAILED", "DELETED"},
           papers' = [papers EXCEPT ![f].status = q]
    PROVE  /\ papers' \in [Papers -> [status : {"QUARANTINED", "ACTIVE", "FAILED", "DELETED"}, attached : BOOLEAN]]
           /\ \A g \in Papers \ {f} : papers'[g] = papers[g]
           /\ papers'[f].status = q /\ papers'[f].attached = papers[f].attached
BY DEF ProductColumns

\* What a step of call c must leave to a request that has a file and no certification yet,
AttachingKept(c, d) ==
    Attaching(d) =>
        /\ papers'[call[d].file] = papers[call[d].file]
        /\ \A k \in DOMAIN certs' : certs'[k].file # call[d].file
        /\ Attaching(c)' => call'[c].file # call[d].file
\* to one that has read a certification,
CertifyingKept(c, d) ==
    Certifying(d) =>
        /\ papers'[call[d].row.file].attached
        /\ \A l \in DOMAIN certs' : l = call[d].cert <=> certs'[l].file = call[d].row.file
        /\ Attaching(c)' => call'[c].file # call[d].row.file
        /\ call[d].cert \notin DOMAIN certs => call[d].cert \notin DOMAIN certs'
\* and to one that has decided it.
JudgingKept(c, d) ==
    Judging(d) /\ call[d].cert \in DOMAIN certs' =>
        /\ call[d].cert \in DOMAIN certs /\ certs'[call[d].cert] = certs[call[d].cert]
        /\ papers'[call[d].row.file].status = papers[call[d].row.file].status
        /\ Judging(c)' => call'[c].cert # call[d].cert

\* What the others know still holds.
LEMMA OthersKept ==
    ASSUME FramesOK, PapersInv, NEW c \in Calls, NEW awaits, Turn(c, awaits), NEW d \in Calls \ {c},
           drawn \subseteq drawn', AttachingKept(c, d), CertifyingKept(c, d), JudgingKept(c, d)
    PROVE  PaperHolds(d)'
<1>1. \A e \in Calls \ {c} : call'[e] = call[e]
    BY TurnOthers
<1>2. call'[d] = call[d] /\ AttachingHolds(d) /\ CertifyingHolds(d) /\ JudgingHolds(d)
    BY <1>1 DEF PapersInv
<1>3. AttachingHolds(d)'
    <2> SUFFICES ASSUME Attaching(d)' PROVE AttachingHolds(d)'
        BY DEF AttachingHolds
    <2>1. Attaching(d)
        BY <1>2 DEF Attaching
    <2>2. Waits(call[d].file)'
        BY <1>2, <2>1 DEF AttachingHolds, AttachingKept, Waits
    <2>3. ASSUME NEW e \in Calls, Attaching(e)', call'[e].file = call[d].file PROVE e = d
        <3>1. e # c
            BY <2>1, <2>3 DEF AttachingKept
        <3>2. Attaching(e) /\ call[e].file = call[d].file
            BY <1>1, <2>3, <3>1 DEF Attaching
        <3> QED
            BY <1>2, <2>1, <3>2 DEF AttachingHolds
    <2> QED
        BY <1>2, <2>1, <2>2, <2>3 DEF AttachingHolds, AttachingKept
<1>4. CertifyingHolds(d)'
    <2> SUFFICES ASSUME Certifying(d)' PROVE CertifyingHolds(d)'
        BY DEF CertifyingHolds
    <2>1. Certifying(d)
        BY <1>2 DEF Certifying, Removing, Judging, At
    <2>2. \A e \in Calls : Attaching(e)' => call'[e].file # call[d].row.file
        BY <1>1, <1>2, <2>1 DEF CertifyingHolds, CertifyingKept, Attaching
    <2> QED
        BY <1>2, <2>1, <2>2 DEF CertifyingHolds, CertifyingKept, Judging, At
<1>5. JudgingHolds(d)'
    <2> SUFFICES ASSUME Judging(d)', call[d].cert \in DOMAIN certs' PROVE JudgingHolds(d)'
        BY <1>2 DEF JudgingHolds
    <2>1. Judging(d)
        BY <1>2 DEF Judging
    <2>2. ASSUME NEW e \in Calls, Judging(e)', call'[e].cert = call[d].cert PROVE e = d
        <3>1. e # c
            BY <2>1, <2>2 DEF JudgingKept
        <3>2. Judging(e) /\ call[e].cert = call[d].cert
            BY <1>1, <2>2, <3>1 DEF Judging
        <3> QED
            BY <1>2, <2>1, <3>2 DEF JudgingHolds, JudgingKept
    <2> QED
        BY <1>2, <2>1, <2>2 DEF JudgingHolds, JudgingKept
<1> QED
    BY <1>3, <1>4, <1>5 DEF PaperHolds

\* A certification whose row and file are left agrees with its file as before.
LEMMA SettledKept ==
    ASSUME FramesOK, PapersInv, NEW c \in Calls, NEW awaits, Turn(c, awaits), NEW k \in DOMAIN certs,
           certs'[k] = certs[k], papers'[certs[k].file].status = papers[certs[k].file].status,
           Judging(c) /\ call[c].cert = k => Judging(c)' /\ call'[c].cert = k
    PROVE  PaperSettled(k)' \/ UnderReview(k)'
<1>1. \A e \in Calls \ {c} : call'[e] = call[e]
    BY TurnOthers
<1>2. CASE PaperSettled(k)
    BY <1>2 DEF PaperSettled, PaperOf
<1>3. CASE UnderReview(k)
    <2>1. PICK d \in Calls : Judging(d) /\ call[d].cert = k
        BY <1>3 DEF UnderReview
    <2>2. Judging(d)' /\ call'[d].cert = k
        BY <1>1, <2>1 DEF Judging
    <2> QED
        BY <2>2 DEF UnderReview
<1> QED
    BY <1>2, <1>3 DEF PapersInv

\* The three parts after a step.
LEMMA PapersStay ==
    ASSUME FramesOK, PapersInv, NEW c \in Calls, NEW awaits, Turn(c, awaits), drawn \subseteq drawn',
           FilesAreOwn', PaperHolds(c)',
           \A d \in Calls \ {c} : AttachingKept(c, d) /\ CertifyingKept(c, d) /\ JudgingKept(c, d),
           \A k \in DOMAIN certs' : PaperSettled(k)' \/ UnderReview(k)'
    PROVE  PapersInv'
<1>1. \A d \in Calls \ {c} : PaperHolds(d)'
    BY OthersKept
<1>2. \A d \in Calls : PaperHolds(d)'
    BY <1>1
<1> QED
    BY <1>2 DEF PapersInv, PaperHolds

\* What the frames of these requests hold.
LEMMA PaperFields ==
    ASSUME FramesOK, PapersInv, NEW d \in Calls
    PROVE  /\ Attaching(d) => call[d] \in PaperFrames /\ call[d].file \in Papers
           /\ Certifying(d) => call[d].row \in CertRows /\ call[d].row.file \in Papers
           /\ Judging(d) => Certifying(d)
           /\ Judging(d) \/ At(d, "deciding") => call[d] \in VerdictFrames
           /\ Judging(d) => call[d].verdict \in Verdicts /\ call[d].by \in Agents
<1>1. Attaching(d) => call[d] \in PaperFrames
    BY PaperShape DEF Attaching
<1>2. Certifying(d) => call[d].row \in CertRows
    BY DEF PapersInv, CertifyingHolds
<1>3. Judging(d) \/ At(d, "deciding") => call[d] \in VerdictFrames
    BY VerdictShape DEF Judging, At
<1>4. Judging(d) => call[d].verdict \in Verdicts /\ call[d].by \in Agents
    BY <1>3 DEF VerdictFrames
<1> QED
    BY <1>1, <1>2, <1>3, <1>4 DEF PaperFrames, CertRows, Certifying

\* A file that nobody has is attached by the request that will name it, or that fails.
LEMMA PapersAttached ==
    ASSUME FramesOK, ProductTables, PapersInv, NEW c \in Calls, NEW awaits, Turn(c, awaits),
           NEW f \in Papers, ~papers[f].attached,
           papers'[f].attached, papers'[f].status = papers[f].status,
           \A g \in Papers \ {f} : papers'[g] = papers[g],
           UNCHANGED <<certs, drawn>>, ~Judging(c), ~Certifying(c)', Attaching(c)' => call'[c].file = f
    PROVE  PapersInv'
<1>1. \A d \in Calls \ {c} : call'[d] = call[d]
    BY TurnOthers
<1>2. \A k \in DOMAIN certs : certs[k].file \in Papers /\ certs[k].file # f
    BY ProductTyped DEF PapersInv, FilesAreOwn
<1>3. FilesAreOwn'
    <2>1. \A g \in Papers : papers'[g].attached \/ papers'[g].status = "QUARANTINED"
        BY DEF PapersInv, FilesAreOwn
    <2>2. \A k \in DOMAIN certs' : papers'[certs'[k].file].attached
        BY <1>2 DEF PapersInv, FilesAreOwn
    <2>3. \A k, l \in DOMAIN certs' : certs'[k].file = certs'[l].file => k = l
        BY DEF PapersInv, FilesAreOwn
    <2> QED
        BY <2>1, <2>2, <2>3 DEF FilesAreOwn
<1>4. \A d \in Calls : Attaching(d) => call[d].file # f
    BY DEF PapersInv, AttachingHolds, Waits
<1>5. \A d \in Calls : Certifying(d) => call[d].row.file # f
    BY DEF PapersInv, CertifyingHolds
<1>6. ~Judging(c)'
    BY DEF Certifying
<1>7. PaperHolds(c)'
    <2>1. Waits(f)'
        BY DEF Waits, PapersInv, FilesAreOwn
    <2>2. \A e \in Calls \ {c} : Attaching(e)' => call'[e].file # f
        BY <1>1, <1>4 DEF Attaching
    <2>3. AttachingHolds(c)'
        BY <1>2, <2>1, <2>2 DEF AttachingHolds
    <2> QED
        BY <1>6, <2>3 DEF PaperHolds, CertifyingHolds, JudgingHolds
<1>8. ASSUME NEW d \in Calls \ {c}
      PROVE  AttachingKept(c, d) /\ CertifyingKept(c, d) /\ JudgingKept(c, d)
    <2>1. AttachingHolds(d) /\ CertifyingHolds(d) /\ JudgingHolds(d)
        BY DEF PapersInv
    <2>2. AttachingKept(c, d)
        BY <1>4, <2>1, PaperFields DEF AttachingKept, AttachingHolds
    <2>3. CertifyingKept(c, d)
        BY <1>5, <2>1, PaperFields DEF CertifyingKept, CertifyingHolds
    <2>4. JudgingKept(c, d)
        <3>1. Judging(d) => call[d].row.file \in Papers \ {f}
            BY <1>5, PaperFields
        <3> QED
            BY <1>6, <3>1 DEF JudgingKept
    <2> QED
        BY <2>2, <2>3, <2>4
<1>9. ASSUME NEW k \in DOMAIN certs' PROVE PaperSettled(k)' \/ UnderReview(k)'
    BY <1>2, <1>9, SettledKept
<1> QED
    BY <1>3, <1>7, <1>8, <1>9, PapersStay

\* attachOwnedFile: a file attached before disturbs, another is attached, and the
\* answer may be lost.
LEMMA AttachPaperInv ==
    ASSUME FramesOK, ProductInv, NEW c \in Calls, AttachPaper(c)
    PROVE  Turn(c, ProductAwaits) /\ ProductInv'
<1>1. At(c, "attaching-paper") /\ Of(c, ProductAwaits) /\ ~Judging(c)
    BY DEF AttachPaper, At, Of, ProductAwaits, Judging
<1>2. UNCHANGED <<status, images, certs, wished, audits, moves, drawn, verdicts>>
    BY DEF AttachPaper
<1>3. CASE End(c) /\ UNCHANGED <<papers, disturbed>>
    BY <1>1, <1>2, <1>3, ColumnsRest, ProductEnded
<1>4. PICK old \in PaperFrames : old = call[c]
    BY <1>1, PaperShape DEF At
<1>5. PICK f \in Papers : f = old.file
    BY DEF PaperFrames
<1>6. ASSUME papers' = [papers EXCEPT ![f].attached = TRUE]
      PROVE  /\ papers' \in [Papers -> [status : {"QUARANTINED", "ACTIVE", "FAILED", "DELETED"}, attached : BOOLEAN]]
             /\ \A h \in Papers \ {f} : papers'[h] = papers[h]
             /\ papers'[f].attached = TRUE /\ papers'[f].status = papers[f].status
             /\ ProductColumns'
    <2>1. ProductColumns
        BY DEF ProductInv, ProductTables
    <2>2. /\ papers' \in [Papers -> [status : {"QUARANTINED", "ACTIVE", "FAILED", "DELETED"}, attached : BOOLEAN]]
          /\ \A h \in Papers \ {f} : papers'[h] = papers[h]
          /\ papers'[f].attached = TRUE /\ papers'[f].status = papers[f].status
        BY <1>6, <2>1, PaperLinked
    <2> QED
        BY <1>2, <2>2, PapersWritten
<1>7. CASE papers' = [papers EXCEPT ![f].attached = TRUE] /\ End(c) /\ UNCHANGED disturbed
    <2>1. /\ call' = [call EXCEPT ![c] = call'[c]]
          /\ call'[c] \in Frames /\ call'[c].at = "idle"
        BY <1>7, Ended
    <2>2. Turn(c, ProductAwaits) /\ ~Certifying(c)' /\ ~Attaching(c)'
        BY <1>1, <2>1 DEF Turn, Of, Certifying, Removing, Judging, Attaching, At
    <2>3. CASE papers[f].attached
        <3>1. papers[f] \in [status : {"QUARANTINED", "ACTIVE", "FAILED", "DELETED"}, attached : BOOLEAN]
            BY DEF ProductInv, ProductTables, ProductColumns
        <3>2. papers'[f] = papers[f]
            BY <1>6, <1>7, <2>3, <3>1
        <3>3. papers' = papers
            BY <1>6, <1>7, <3>2 DEF ProductInv, ProductTables, ProductColumns
        <3> QED
            BY <1>1, <1>2, <1>7, <3>3, ColumnsRest, ProductEnded
    <2>4. CASE ~papers[f].attached
        <3>1. ~disturbed' => PapersInv'
            <4> SUFFICES ASSUME ~disturbed PROVE PapersInv'
                BY <1>7
            <4>1. ProductTables /\ PapersInv
                BY DEF ProductInv
            <4>2. papers'[f].attached
                BY <1>6, <1>7
            <4> QED
                BY <1>1, <1>2, <1>6, <1>7, <2>2, <2>4, <4>1, <4>2, PapersAttached
        <3> QED
            BY <1>2, <1>6, <1>7, <2>1, <2>2, <3>1, DrawnRest, CertificateStep
    <2> QED
        BY <2>3, <2>4
<1>8. CASE /\ papers' = [papers EXCEPT ![f].attached = TRUE]
           /\ disturbed' = (disturbed \/ papers[f].attached)
           /\ Goto(c, "inserting-certificate")
    <2>1. PICK g \in PaperFrames : /\ g = [old EXCEPT !.at = "inserting-certificate"]
                                   /\ g.at = "inserting-certificate" /\ g.file = f
        <3>1. [old EXCEPT !.at = "inserting-certificate"] \in PaperFrames
            BY DEF PaperFrames
        <3> QED
            BY <1>5, <3>1 DEF PaperFrames
    <2>2. Turn(c, ProductAwaits) /\ call'[c] = g
        <3>1. [call[c] EXCEPT !.at = "inserting-certificate"] \in ProductFrames
            BY <1>4, <2>1 DEF ProductFrames
        <3>2. "inserting-certificate" \in ProductAwaits
            BY DEF ProductAwaits
        <3> QED
            BY <1>1, <1>4, <1>8, <2>1, <3>1, <3>2, ProductMoved
    <2>3. ~disturbed' => PapersInv'
        <3> SUFFICES ASSUME ~disturbed' PROVE PapersInv'
            OBVIOUS
        <3>1. ~disturbed /\ ~papers[f].attached
            BY <1>8
        <3>2. ~Certifying(c)' /\ call'[c].file = f
            BY <2>1, <2>2 DEF Certifying, Removing, Judging, At
        <3>3. papers'[f].attached
            BY <1>6, <1>8
        <3> QED
            BY <1>1, <1>2, <1>6, <1>8, <2>2, <3>1, <3>2, <3>3, PapersAttached DEF ProductInv
    <2> QED
        BY <1>2, <1>6, <1>8, <2>1, <2>2, <2>3, DrawnRest, CertificateStep
<1> QED
    BY <1>3, <1>4, <1>5, <1>7, <1>8 DEF AttachPaper

\* The compensation gives back a file that no certification names.
LEMMA PapersDetached ==
    ASSUME FramesOK, ProductTables, PapersInv, NEW c \in Calls, NEW awaits, Turn(c, awaits),
           Attaching(c), NEW f \in Papers, f = call[c].file,
           papers'[f].status = papers[f].status,
           \A g \in Papers \ {f} : papers'[g] = papers[g],
           UNCHANGED <<certs, drawn>>, ~Certifying(c)', ~Attaching(c)'
    PROVE  PapersInv'
<1>1. \A k \in DOMAIN certs : certs[k].file \in Papers /\ certs[k].file # f
    BY ProductTyped DEF PapersInv, AttachingHolds
<1>2. FilesAreOwn'
    <2>1. \A g \in Papers : papers'[g].attached \/ papers'[g].status = "QUARANTINED"
        BY DEF PapersInv, FilesAreOwn, AttachingHolds, Waits
    <2>2. \A k \in DOMAIN certs' : papers'[certs'[k].file].attached
        BY <1>1 DEF PapersInv, FilesAreOwn
    <2>3. \A k, l \in DOMAIN certs' : certs'[k].file = certs'[l].file => k = l
        BY DEF PapersInv, FilesAreOwn
    <2> QED
        BY <2>1, <2>2, <2>3 DEF FilesAreOwn
<1>3. ~Judging(c)' /\ ~Judging(c)
    BY DEF Certifying, Judging, Attaching
<1>4. PaperHolds(c)'
    BY <1>3 DEF PaperHolds, AttachingHolds, CertifyingHolds, JudgingHolds
<1>5. ASSUME NEW d \in Calls \ {c}
      PROVE  AttachingKept(c, d) /\ CertifyingKept(c, d) /\ JudgingKept(c, d)
    <2>1. AttachingHolds(c) /\ AttachingHolds(d) /\ CertifyingHolds(d) /\ JudgingHolds(d)
        BY DEF PapersInv
    <2>2. AttachingKept(c, d)
        BY <2>1, PaperFields DEF AttachingKept, AttachingHolds
    <2>3. Certifying(d) => call[d].row.file \in Papers \ {f}
        BY <2>1, PaperFields DEF CertifyingHolds
    <2>4. CertifyingKept(c, d)
        BY <2>1, <2>3 DEF CertifyingKept, CertifyingHolds
    <2>5. JudgingKept(c, d)
        BY <1>3, <2>3, PaperFields DEF JudgingKept
    <2> QED
        BY <2>2, <2>4, <2>5
<1>6. ASSUME NEW k \in DOMAIN certs' PROVE PaperSettled(k)' \/ UnderReview(k)'
    BY <1>1, <1>3, <1>6, SettledKept
<1> QED
    BY <1>2, <1>4, <1>5, <1>6, PapersStay

\* The compensation of a failed INSERT, or its failure, which disturbs.
LEMMA DetachPaperInv ==
    ASSUME FramesOK, ProductInv, NEW c \in Calls, DetachPaper(c)
    PROVE  Turn(c, ProductAwaits) /\ ProductInv'
<1>1. At(c, "detaching-paper") /\ Of(c, ProductAwaits) /\ ~Judging(c) /\ Attaching(c) /\ End(c)
    BY DEF DetachPaper, At, Of, ProductAwaits, Judging, Attaching
<1>2. UNCHANGED <<status, images, certs, wished, audits, moves, drawn, verdicts>>
    BY DEF DetachPaper
<1>3. CASE disturbed' = TRUE /\ UNCHANGED papers
    BY <1>1, <1>2, <1>3, ColumnsRest, ProductEnded
<1>4. CASE papers' = [papers EXCEPT ![call[c].file].attached = FALSE] /\ UNCHANGED disturbed
    <2>1. PICK f \in Papers : f = call[c].file
        BY <1>1, PaperShape DEF At, PaperFrames
    <2>2. /\ papers' \in [Papers -> [status : {"QUARANTINED", "ACTIVE", "FAILED", "DELETED"}, attached : BOOLEAN]]
          /\ \A h \in Papers \ {f} : papers'[h] = papers[h]
          /\ papers'[f].status = papers[f].status
        <3>1. ProductColumns
            BY DEF ProductInv, ProductTables
        <3> QED
            BY <1>4, <2>1, <3>1, PaperLinked
    <2>3. ProductColumns'
        BY <1>2, <2>2, PapersWritten
    <2>4. /\ call' = [call EXCEPT ![c] = call'[c]]
          /\ call'[c] \in Frames /\ call'[c].at = "idle"
        BY <1>1, Ended
    <2>5. Turn(c, ProductAwaits)
        BY <1>1, <2>4 DEF Turn, Of
    <2>6. ~Certifying(c)' /\ ~Attaching(c)'
        BY <2>4 DEF Certifying, Removing, Judging, Attaching, At
    <2>7. ~disturbed' => PapersInv'
        BY <1>1, <1>2, <1>4, <2>1, <2>2, <2>5, <2>6, PapersDetached DEF ProductInv
    <2> QED
        BY <1>2, <2>3, <2>4, <2>5, <2>7, DrawnRest, CertificateStep
<1> QED
    BY <1>3, <1>4 DEF DetachPaper

\* The file of a request gets a certification of its own.
LEMMA PapersNamed ==
    ASSUME FramesOK, ProductTables, PapersInv, NEW c \in Calls, NEW awaits, Turn(c, awaits),
           Attaching(c), NEW f \in Papers, f = call[c].file, NEW k, k \notin drawn,
           DOMAIN certs' = DOMAIN certs \cup {k},
           \A l \in DOMAIN certs : certs'[l] = certs[l],
           certs'[k].status = "pending", certs'[k].file = f,
           UNCHANGED papers, drawn \subseteq drawn', ~Certifying(c)', ~Attaching(c)'
    PROVE  PapersInv'
<1>1. k \notin DOMAIN certs
    BY ProductTyped
<1>2. Waits(f) /\ \A l \in DOMAIN certs : certs[l].file # f
    BY DEF PapersInv, AttachingHolds
<1>3. FilesAreOwn'
    BY <1>1, <1>2 DEF PapersInv, FilesAreOwn, Waits
<1>4. ~Judging(c)' /\ ~Judging(c)
    BY DEF Certifying, Judging, Attaching
<1>5. PaperHolds(c)'
    BY <1>4 DEF PaperHolds, AttachingHolds, CertifyingHolds, JudgingHolds
<1>6. ASSUME NEW d \in Calls \ {c}
      PROVE  AttachingKept(c, d) /\ CertifyingKept(c, d) /\ JudgingKept(c, d)
    <2>1. AttachingHolds(c) /\ AttachingHolds(d) /\ CertifyingHolds(d) /\ JudgingHolds(d)
        BY DEF PapersInv
    <2>2. AttachingKept(c, d)
        BY <1>1, <2>1 DEF AttachingKept, AttachingHolds
    <2>3. Certifying(d) => call[d].cert # k /\ call[d].row.file # f
        BY <2>1 DEF CertifyingHolds
    <2>4. CertifyingKept(c, d)
        BY <1>1, <2>1, <2>3 DEF CertifyingKept, CertifyingHolds
    <2>5. JudgingKept(c, d)
        BY <1>4, <2>3, PaperFields DEF JudgingKept
    <2> QED
        BY <2>2, <2>4, <2>5
<1>7. ASSUME NEW l \in DOMAIN certs' PROVE PaperSettled(l)' \/ UnderReview(l)'
    <2>1. CASE l = k
        BY <1>2, <2>1 DEF PaperSettled, PaperOf, Waits
    <2>2. CASE l # k
        BY <1>4, <2>2, SettledKept
    <2> QED
        BY <2>1, <2>2
<1> QED
    BY <1>3, <1>5, <1>6, <1>7, PapersStay

\* A request that goes on with the file it has.
LEMMA PapersCarried ==
    ASSUME FramesOK, ProductTables, PapersInv, NEW c \in Calls, NEW awaits, Turn(c, awaits),
           Attaching(c), Attaching(c)', call'[c].file = call[c].file,
           UNCHANGED <<certs, papers, drawn>>
    PROVE  PapersInv'
<1>1. \A d \in Calls \ {c} : call'[d] = call[d]
    BY TurnOthers
<1>2. FilesAreOwn'
    BY DEF PapersInv, FilesAreOwn
<1>3. ~Judging(c)' /\ ~Judging(c) /\ ~Certifying(c)'
    BY DEF Certifying, Judging, Attaching, Removing, At
<1>4. AttachingHolds(c)
    BY DEF PapersInv
<1>5. PaperHolds(c)'
    <2>1. \A d \in Calls : Attaching(d)' /\ call'[d].file = call[c].file => d = c
        BY <1>1, <1>4 DEF AttachingHolds, Attaching
    <2>2. AttachingHolds(c)'
        BY <1>4, <2>1 DEF AttachingHolds, Waits
    <2> QED
        BY <1>3, <2>2 DEF PaperHolds, CertifyingHolds, JudgingHolds
<1>6. ASSUME NEW d \in Calls \ {c}
      PROVE  AttachingKept(c, d) /\ CertifyingKept(c, d) /\ JudgingKept(c, d)
    <2>1. AttachingHolds(d) /\ CertifyingHolds(d) /\ JudgingHolds(d)
        BY DEF PapersInv
    <2>2. AttachingKept(c, d)
        BY <1>4, <2>1 DEF AttachingKept, AttachingHolds
    <2>3. CertifyingKept(c, d)
        BY <2>1 DEF CertifyingKept, CertifyingHolds
    <2>4. JudgingKept(c, d)
        BY <1>3 DEF JudgingKept
    <2> QED
        BY <2>2, <2>3, <2>4
<1>7. ASSUME NEW k \in DOMAIN certs' PROVE PaperSettled(k)' \/ UnderReview(k)'
    BY <1>3, <1>7, SettledKept
<1> QED
    BY <1>2, <1>5, <1>6, <1>7, PapersStay

\* The next number of a certification is new.
LEMMA NumberIsNew ==
    ASSUME ProductTables, NEW k \in {Cardinality(drawn) + 1} \cap (1..MaxCerts)
    PROVE  k \notin drawn /\ \E n \in 0..MaxCerts : drawn \cup {k} = 1..n
<1>1. PICK n \in 0..MaxCerts : drawn = 1..n
    BY DEF ProductTables
<1>2. n \in Nat /\ Cardinality(1..n) = n
    BY <1>1, ProductsAssumption, FS_Interval
<1>3. k = n + 1 /\ k \in 0..MaxCerts
    BY <1>1, <1>2, ProductsAssumption
<1>4. (1..n) \cup {n + 1} = 1..(n + 1) /\ n + 1 \notin 1..n
    BY <1>2
<1>5. drawn \cup {k} = 1..k /\ k \notin drawn
    BY <1>1, <1>3, <1>4
<1> QED
    BY <1>3, <1>5

\* addCertification, or its error, after which the file is given back.
LEMMA InsertCertificationInv ==
    ASSUME FramesOK, ProductInv, NEW c \in Calls, InsertCertification(c)
    PROVE  Turn(c, ProductAwaits) /\ ProductInv'
<1>1. At(c, "inserting-certificate") /\ Of(c, ProductAwaits) /\ ~Judging(c) /\ Attaching(c)
    BY DEF InsertCertification, At, Of, ProductAwaits, Judging, Attaching
<1>2. UNCHANGED <<status, images, papers, wished, audits, moves, verdicts>>
    BY DEF InsertCertification
<1>3. PICK old \in PaperFrames : old = call[c]
    BY <1>1, PaperShape DEF At
<1>4. PICK f \in Papers : f = old.file
    BY DEF PaperFrames
<1>5. ASSUME Goto(c, "detaching-paper")
      PROVE  /\ Turn(c, ProductAwaits) /\ call'[c].at = "detaching-paper"
             /\ call'[c].file = call[c].file /\ Attaching(c)'
    <2>1. PICK g \in PaperFrames : /\ g = [old EXCEPT !.at = "detaching-paper"]
                                   /\ g.at = "detaching-paper" /\ g.file = f
        <3>1. [old EXCEPT !.at = "detaching-paper"] \in PaperFrames
            BY DEF PaperFrames
        <3> QED
            BY <1>4, <3>1 DEF PaperFrames
    <2>2. Turn(c, ProductAwaits) /\ call'[c] = g
        <3>1. [call[c] EXCEPT !.at = "detaching-paper"] \in ProductFrames
            BY <1>3, <2>1 DEF ProductFrames
        <3>2. "detaching-paper" \in ProductAwaits
            BY DEF ProductAwaits
        <3> QED
            BY <1>1, <1>3, <1>5, <2>1, <3>1, <3>2, ProductMoved
    <2> QED
        BY <1>3, <1>4, <2>1, <2>2 DEF Attaching
<1>6. CASE Goto(c, "detaching-paper") /\ UNCHANGED <<certs, drawn, disturbed>>
    <2>1. ~disturbed' => PapersInv'
        BY <1>1, <1>2, <1>5, <1>6, PapersCarried DEF ProductInv
    <2> QED
        BY <1>2, <1>5, <1>6, <2>1, ColumnsRest, DrawnRest, CertificateStep
<1>7. CASE ~(Goto(c, "detaching-paper") /\ UNCHANGED <<certs, drawn, disturbed>>)
    <2>1. PICK k \in {Cardinality(drawn) + 1} \cap (1..MaxCerts) :
            /\ certs' = Inserted(certs, k, [status |-> "pending", by |-> NULL, file |-> f])
            /\ drawn' = drawn \cup {k}
            /\ \/ End(c) /\ UNCHANGED disturbed
               \/ Goto(c, "detaching-paper") /\ disturbed' = TRUE
        BY <1>3, <1>4, <1>7 DEF InsertCertification
    <2>2. k \notin drawn /\ drawn \subseteq drawn' /\ \E n \in 0..MaxCerts : drawn' = 1..n
        BY <2>1, NumberIsNew DEF ProductInv
    <2>3. PICK row \in CertRows : /\ row = [status |-> "pending", by |-> NULL, file |-> f]
                                  /\ row.status = "pending" /\ row.file = f
        <3>1. [status |-> "pending", by |-> NULL, file |-> f] \in CertRows
            BY DEF CertRows
        <3> QED
            BY <3>1
    <2>4. DOMAIN certs \subseteq 1..MaxCerts /\ certs \in [DOMAIN certs -> CertRows]
        BY TableIn DEF ProductInv, ProductTables, ProductColumns
    <2>5. /\ DOMAIN certs' \subseteq 1..MaxCerts /\ certs' \in [DOMAIN certs' -> CertRows]
          /\ DOMAIN certs' = DOMAIN certs \cup {k} /\ certs'[k] = row
          /\ \A l \in DOMAIN certs \ {k} : certs'[l] = certs[l]
        <3>1. PICK new : new = Inserted(certs, k, row)
            OBVIOUS
        <3>2. /\ DOMAIN new \subseteq 1..MaxCerts /\ new \in [DOMAIN new -> CertRows]
              /\ DOMAIN new = DOMAIN certs \cup {k} /\ new[k] = row
              /\ \A l \in DOMAIN certs \ {k} : new[l] = certs[l]
            <4>1. PICK S : S = CertRows
                OBVIOUS
            <4>2. PICK K : K = 1..MaxCerts
                OBVIOUS
            <4>3. /\ k \in K /\ row \in S
                  /\ DOMAIN certs \subseteq K /\ certs \in [DOMAIN certs -> S]
                BY <2>1, <2>4, <4>1, <4>2
            <4>4. /\ DOMAIN new \subseteq K /\ new \in [DOMAIN new -> S]
                  /\ DOMAIN new = DOMAIN certs \cup {k} /\ new[k] = row
                  /\ \A l \in DOMAIN certs \ {k} : new[l] = certs[l]
                <5>1. new = [l \in DOMAIN certs \cup {k} |-> IF l = k THEN row ELSE certs[l]]
                    BY <3>1 DEF Inserted
                <5>2. /\ DOMAIN new = DOMAIN certs \cup {k} /\ new[k] = row
                      /\ \A l \in DOMAIN certs \ {k} : new[l] = certs[l]
                    BY <5>1
                <5>3. DOMAIN new \subseteq K /\ new \in [DOMAIN new -> S]
                    BY <4>3, <5>1, <5>2
                <5> QED
                    BY <5>2, <5>3
            <4> QED
                BY <4>1, <4>2, <4>4
        <3>3. certs' = new
            BY <2>1, <2>3, <3>1
        <3> QED
            BY <3>2, <3>3
    <2>6. k \notin DOMAIN certs /\ DOMAIN certs' \subseteq drawn'
        BY <2>1, <2>2, <2>5, ProductTyped DEF ProductInv
    <2>7. ProductColumns'
        <3>1. certs' \in UNION {[K -> CertRows] : K \in SUBSET (1..MaxCerts)}
            BY <2>5, TableIn
        <3> QED
            BY <1>2, <2>6, <3>1 DEF ProductInv, ProductTables, ProductColumns
    <2>8. CASE Goto(c, "detaching-paper") /\ disturbed' = TRUE
        BY <1>2, <1>5, <2>2, <2>7, <2>8, CertificateStep
    <2>9. CASE End(c) /\ UNCHANGED disturbed
        <3>1. /\ call' = [call EXCEPT ![c] = call'[c]]
              /\ call'[c] \in Frames /\ call'[c].at = "idle"
            BY <2>9, Ended
        <3>2. Turn(c, ProductAwaits) /\ ~Certifying(c)' /\ ~Attaching(c)'
            BY <1>1, <3>1 DEF Turn, Of, Certifying, Removing, Judging, Attaching, At
        <3>3. ~disturbed' => PapersInv'
            <4> SUFFICES ASSUME ~disturbed PROVE PapersInv'
                BY <2>9
            <4>1. ProductTables /\ PapersInv
                BY DEF ProductInv
            <4>2. f = call[c].file
                BY <1>3, <1>4
            <4>3. \A l \in DOMAIN certs : certs'[l] = certs[l]
                BY <2>5, <2>6
            <4> QED
                BY <1>1, <1>2, <2>2, <2>3, <2>5, <3>2, <4>1, <4>2, <4>3, PapersNamed
        <3> QED
            BY <1>2, <2>2, <2>7, <3>1, <3>2, <3>3, CertificateStep
    <2> QED
        BY <2>1, <2>8, <2>9
<1> QED
    BY <1>6, <1>7

\* Neither certifications nor files are written, and nobody else is looked at.
LEMMA PapersRead ==
    ASSUME FramesOK, PapersInv, NEW c \in Calls, NEW awaits, Turn(c, awaits),
           UNCHANGED <<certs, papers, drawn>>, ~Attaching(c)', PaperHolds(c)',
           Judging(c) <=> Judging(c)', Judging(c) => call'[c].cert = call[c].cert
    PROVE  PapersInv'
<1>1. FilesAreOwn'
    BY DEF PapersInv, FilesAreOwn
<1>2. ASSUME NEW d \in Calls \ {c}
      PROVE  AttachingKept(c, d) /\ CertifyingKept(c, d) /\ JudgingKept(c, d)
    <2>1. AttachingHolds(d) /\ CertifyingHolds(d) /\ JudgingHolds(d)
        BY DEF PapersInv
    <2>2. AttachingKept(c, d)
        BY <2>1 DEF AttachingKept, AttachingHolds
    <2>3. CertifyingKept(c, d)
        BY <2>1 DEF CertifyingKept, CertifyingHolds
    <2>4. JudgingKept(c, d)
        BY <2>1 DEF JudgingKept, JudgingHolds
    <2> QED
        BY <2>2, <2>3, <2>4
<1>3. ASSUME NEW k \in DOMAIN certs' PROVE PaperSettled(k)' \/ UnderReview(k)'
    BY <1>3, SettledKept
<1> QED
    BY <1>1, <1>2, <1>3, PapersStay

\* The row of a certification is read, to remove it or to decide it.
LEMMA PapersTaken ==
    ASSUME FramesOK, ProductTables, PapersInv, NEW c \in Calls, NEW awaits, Turn(c, awaits),
           UNCHANGED <<certs, papers, drawn>>, ~Judging(c), NEW k \in DOMAIN certs,
           call'[c].at \in {"removing-certificate", "deciding"},
           call'[c].cert = k, call'[c].row = certs[k],
           call'[c].at = "deciding" => certs[k].status = "pending"
    PROVE  PapersInv'
<1>1. \A d \in Calls \ {c} : call'[d] = call[d]
    BY TurnOthers
<1>2. ~Attaching(c)' /\ ~Judging(c)' /\ ~At(c, "retiring-paper")'
    BY DEF Attaching, Judging, At
<1>3. certs[k] \in CertRows /\ k \in drawn
    BY ProductTyped
<1>4. papers[certs[k].file].attached /\ \A l \in DOMAIN certs : l = k <=> certs[l].file = certs[k].file
    BY DEF PapersInv, FilesAreOwn
<1>5. \A d \in Calls : Attaching(d)' => call'[d].file # certs[k].file
    BY <1>1, <1>2 DEF PapersInv, AttachingHolds, Attaching
<1>6. CertifyingHolds(c)'
    BY <1>2, <1>3, <1>4, <1>5 DEF CertifyingHolds, At
<1>7. PaperHolds(c)'
    BY <1>2, <1>6 DEF PaperHolds, AttachingHolds, JudgingHolds
<1> QED
    BY <1>2, <1>7, PapersRead

\* Who has decided a certification goes on with what it has.
LEMMA PapersPondered ==
    ASSUME FramesOK, PapersInv, NEW c \in Calls, NEW awaits, Turn(c, awaits),
           UNCHANGED <<certs, papers, drawn>>, Judging(c), Judging(c)',
           call'[c].cert = call[c].cert, call'[c].row = call[c].row,
           call'[c].verdict = call[c].verdict, call'[c].by = call[c].by
    PROVE  PapersInv'
<1>1. \A d \in Calls \ {c} : call'[d] = call[d]
    BY TurnOthers
<1>2. ~Attaching(c)' /\ ~Attaching(c) /\ Certifying(c) /\ ~At(c, "retiring-paper")'
    BY DEF Attaching, Judging, Certifying, At
<1>3. CertifyingHolds(c) /\ JudgingHolds(c)
    BY DEF PapersInv
<1>4. \A d \in Calls : Attaching(d)' => call'[d].file # call[c].row.file
    BY <1>1, <1>2, <1>3 DEF CertifyingHolds, Attaching
<1>5. CertifyingHolds(c)'
    BY <1>2, <1>3, <1>4 DEF CertifyingHolds
<1>6. \A d \in Calls : Judging(d)' => Judging(d) /\ call'[d].cert = call[d].cert
    BY <1>1 DEF Judging
<1>7. JudgingHolds(c)'
    BY <1>3, <1>6 DEF JudgingHolds
<1>8. PaperHolds(c)'
    BY <1>2, <1>5, <1>7 DEF PaperHolds, AttachingHolds
<1> QED
    BY <1>2, <1>8, PapersRead

\* A certification is removed by a request that will retire its file.
LEMMA PapersDropped ==
    ASSUME FramesOK, PapersInv, NEW c \in Calls, NEW awaits, Turn(c, awaits),
           Removing(c), NEW k \in DOMAIN certs, k = call[c].cert,
           DOMAIN certs' = DOMAIN certs \ {k}, \A l \in DOMAIN certs \ {k} : certs'[l] = certs[l],
           UNCHANGED <<papers, drawn>>,
           call'[c].at = "retiring-paper", call'[c].cert = k, call'[c].row = call[c].row
    PROVE  PapersInv'
<1>1. \A d \in Calls \ {c} : call'[d] = call[d]
    BY TurnOthers
<1>2. FilesAreOwn'
    BY DEF PapersInv, FilesAreOwn
<1>3. /\ ~Attaching(c)' /\ ~Judging(c)' /\ ~At(c, "deciding")' /\ ~Judging(c)
      /\ Certifying(c) /\ ~Attaching(c)
    BY DEF Attaching, Judging, Removing, Certifying, At
<1>4. PaperHolds(c)'
    <2>1. CertifyingHolds(c)
        BY DEF PapersInv
    <2>2. \A d \in Calls : Attaching(d)' => call'[d].file # call[c].row.file
        BY <1>1, <1>3, <2>1 DEF CertifyingHolds, Attaching
    <2>3. CertifyingHolds(c)'
        BY <1>3, <2>1, <2>2 DEF CertifyingHolds
    <2> QED
        BY <1>3, <2>3 DEF PaperHolds, AttachingHolds, JudgingHolds
<1>5. ASSUME NEW d \in Calls \ {c}
      PROVE  AttachingKept(c, d) /\ CertifyingKept(c, d) /\ JudgingKept(c, d)
    <2>1. AttachingHolds(d) /\ CertifyingHolds(d) /\ JudgingHolds(d)
        BY DEF PapersInv
    <2>2. AttachingKept(c, d)
        BY <1>3, <2>1 DEF AttachingKept, AttachingHolds
    <2>3. CertifyingKept(c, d)
        BY <1>3, <2>1 DEF CertifyingKept, CertifyingHolds
    <2>4. JudgingKept(c, d)
        BY <1>3 DEF JudgingKept
    <2> QED
        BY <2>2, <2>3, <2>4
<1>6. ASSUME NEW l \in DOMAIN certs' PROVE PaperSettled(l)' \/ UnderReview(l)'
    BY <1>3, <1>6, SettledKept
<1> QED
    BY <1>2, <1>4, <1>5, <1>6, PapersStay

\* The file of a certification that is gone, or that the request has decided, gets
\* a status of its own.
LEMMA PapersReviewed ==
    ASSUME FramesOK, ProductTables, PapersInv, NEW c \in Calls, NEW awaits, Turn(c, awaits),
           Certifying(c), NEW f \in Papers, f = call[c].row.file,
           papers'[f].attached = papers[f].attached, \A g \in Papers \ {f} : papers'[g] = papers[g],
           UNCHANGED <<certs, drawn>>, ~Certifying(c)', ~Attaching(c)',
           call[c].cert \in DOMAIN certs =>
               Judging(c) /\ papers'[f].status = PaperOf(call[c].verdict)
    PROVE  PapersInv'
<1>1. CertifyingHolds(c) /\ JudgingHolds(c)
    BY DEF PapersInv
<1>2. \A l \in DOMAIN certs : certs[l].file \in Papers /\ (l = call[c].cert <=> certs[l].file = f)
    BY <1>1, ProductTyped DEF CertifyingHolds
<1>3. \A g \in Papers : papers'[g].attached = papers[g].attached
    OBVIOUS
<1>4. FilesAreOwn'
    <2>1. papers[f].attached
        BY <1>1 DEF CertifyingHolds
    <2>2. \A g \in Papers : papers'[g].attached \/ papers'[g].status = "QUARANTINED"
        BY <2>1 DEF PapersInv, FilesAreOwn
    <2>3. \A k \in DOMAIN certs' : papers'[certs'[k].file].attached
        BY <1>2, <1>3 DEF PapersInv, FilesAreOwn
    <2>4. \A k, l \in DOMAIN certs' : certs'[k].file = certs'[l].file => k = l
        BY DEF PapersInv, FilesAreOwn
    <2> QED
        BY <2>2, <2>3, <2>4 DEF FilesAreOwn
<1>5. ~Judging(c)'
    BY DEF Certifying
<1>6. PaperHolds(c)'
    BY <1>5 DEF PaperHolds, AttachingHolds, CertifyingHolds, JudgingHolds
<1>7. ASSUME NEW d \in Calls \ {c}
      PROVE  AttachingKept(c, d) /\ CertifyingKept(c, d) /\ JudgingKept(c, d)
    <2>1. AttachingHolds(d) /\ CertifyingHolds(d) /\ JudgingHolds(d)
        BY DEF PapersInv
    <2>2. Attaching(d) => call[d].file \in Papers \ {f}
        BY <1>1, PaperFields DEF CertifyingHolds
    <2>3. AttachingKept(c, d)
        BY <2>1, <2>2 DEF AttachingKept, AttachingHolds
    <2>4. CertifyingKept(c, d)
        BY <1>3, <2>1, PaperFields DEF CertifyingKept, CertifyingHolds
    <2>5. JudgingKept(c, d)
        <3> SUFFICES ASSUME Judging(d), call[d].cert \in DOMAIN certs
                     PROVE  JudgingKept(c, d)
            BY DEF JudgingKept
        <3>1. call[d].cert # call[c].cert
            BY <2>1 DEF JudgingHolds
        <3>2. certs[call[d].cert].file = call[d].row.file
            BY <2>1, PaperFields DEF CertifyingHolds
        <3>3. call[d].row.file \in Papers \ {f}
            BY <1>2, <3>1, <3>2
        <3> QED
            BY <1>5, <3>3 DEF JudgingKept
    <2> QED
        BY <2>3, <2>4, <2>5
<1>8. ASSUME NEW l \in DOMAIN certs' PROVE PaperSettled(l)' \/ UnderReview(l)'
    <2>1. CASE l = call[c].cert
        <3>1. certs[l].status = call[c].verdict /\ certs[l].file = f
            BY <1>1, <1>2, <1>8, <2>1 DEF JudgingHolds
        <3> QED
            BY <1>8, <2>1, <3>1 DEF PaperSettled, PaperOf
    <2>2. CASE l # call[c].cert
        <3>1. certs[l].file \in Papers \ {f}
            BY <1>2, <1>8, <2>2
        <3> QED
            BY <1>8, <2>2, <3>1, SettledKept
    <2> QED
        BY <2>1, <2>2
<1> QED
    BY <1>4, <1>6, <1>7, <1>8, PapersStay

\* A row of a certification is written that nobody else has decided.
LEMMA PapersRewritten ==
    ASSUME FramesOK, PapersInv, NEW c \in Calls, NEW awaits, Turn(c, awaits),
           NEW k \in DOMAIN certs, DOMAIN certs' = DOMAIN certs, certs'[k].file = certs[k].file,
           \A l \in DOMAIN certs \ {k} : certs'[l] = certs[l],
           UNCHANGED <<papers, drawn>>, ~Attaching(c)', PaperHolds(c)',
           \A d \in Calls \ {c} : Judging(d) => call[d].cert # k,
           Judging(c) => call[c].cert = k, Judging(c)' => call'[c].cert = k,
           PaperSettled(k)' \/ UnderReview(k)'
    PROVE  PapersInv'
<1>1. \A l \in DOMAIN certs : certs'[l].file = certs[l].file
    OBVIOUS
<1>2. FilesAreOwn'
    BY <1>1 DEF PapersInv, FilesAreOwn
<1>3. ASSUME NEW d \in Calls \ {c}
      PROVE  AttachingKept(c, d) /\ CertifyingKept(c, d) /\ JudgingKept(c, d)
    <2>1. AttachingHolds(d) /\ CertifyingHolds(d) /\ JudgingHolds(d)
        BY DEF PapersInv
    <2>2. AttachingKept(c, d)
        BY <1>1, <2>1 DEF AttachingKept, AttachingHolds
    <2>3. CertifyingKept(c, d)
        BY <1>1, <2>1 DEF CertifyingKept, CertifyingHolds
    <2>4. JudgingKept(c, d)
        BY DEF JudgingKept
    <2> QED
        BY <2>2, <2>3, <2>4
<1>4. ASSUME NEW l \in DOMAIN certs' PROVE PaperSettled(l)' \/ UnderReview(l)'
    <2>1. CASE l = k
        BY <2>1
    <2>2. CASE l # k
        BY <1>4, <2>2, SettledKept
    <2> QED
        BY <2>1, <2>2
<1> QED
    BY <1>2, <1>3, <1>4, PapersStay

\* A certification that waits has a file that waits, and nobody has decided it.
LEMMA PendingWaits ==
    ASSUME FramesOK, PapersInv, NEW k \in DOMAIN certs, certs[k].status = "pending"
    PROVE  /\ papers[certs[k].file].status = "QUARANTINED"
           /\ \A d \in Calls : Judging(d) => call[d].cert # k
<1>1. ASSUME NEW d \in Calls, Judging(d) PROVE call[d].cert # k
    <2>1. call[d].verdict # "pending"
        BY <1>1, PaperFields DEF Verdicts
    <2>2. JudgingHolds(d)
        BY DEF PapersInv
    <2> QED
        BY <1>1, <2>1, <2>2 DEF JudgingHolds
<1>2. PaperSettled(k)
    BY <1>1 DEF PapersInv, UnderReview
<1> QED
    BY <1>1, <1>2 DEF PaperSettled, PaperOf

\* The UPDATE that decides a certification.
LEMMA PapersDecided ==
    ASSUME FramesOK, PapersInv, NEW c \in Calls, NEW awaits, Turn(c, awaits),
           At(c, "deciding"), NEW k \in DOMAIN certs, k = call[c].cert, certs[k].status = "pending",
           DOMAIN certs' = DOMAIN certs, certs'[k].file = certs[k].file,
           certs'[k].status = call[c].verdict, certs'[k].by = call[c].by,
           \A l \in DOMAIN certs \ {k} : certs'[l] = certs[l], UNCHANGED <<papers, drawn>>,
           Judging(c)', call'[c].cert = k, call'[c].row = call[c].row,
           call'[c].verdict = call[c].verdict, call'[c].by = call[c].by
    PROVE  PapersInv'
<1>1. \A d \in Calls \ {c} : call'[d] = call[d]
    BY TurnOthers
<1>2. /\ papers[certs[k].file].status = "QUARANTINED"
      /\ \A d \in Calls : Judging(d) => call[d].cert # k
    BY PendingWaits
<1>3. CertifyingHolds(c) /\ Certifying(c) /\ ~Attaching(c) /\ ~Judging(c)
    BY DEF PapersInv, Certifying, Attaching, Judging, At
<1>4. ~Attaching(c)' /\ ~At(c, "retiring-paper")'
    BY DEF Attaching, Judging, At
<1>5. \A l \in DOMAIN certs : certs'[l].file = certs[l].file
    OBVIOUS
<1>6. \A d \in Calls : Attaching(d)' => call'[d].file # call[c].row.file
    BY <1>1, <1>3, <1>4 DEF CertifyingHolds, Attaching
<1>7. CertifyingHolds(c)'
    BY <1>3, <1>4, <1>5, <1>6 DEF CertifyingHolds
<1>8. \A d \in Calls : Judging(d)' /\ call'[d].cert = k => d = c
    BY <1>1, <1>2 DEF Judging
<1>9. certs[k].file = call[c].row.file
    BY <1>3 DEF CertifyingHolds
<1>10. JudgingHolds(c)'
    BY <1>2, <1>8, <1>9 DEF JudgingHolds
<1>11. PaperHolds(c)'
    BY <1>4, <1>7, <1>10 DEF PaperHolds, AttachingHolds
<1>12. UnderReview(k)'
    BY DEF UnderReview
<1> QED
    BY <1>2, <1>3, <1>4, <1>11, <1>12, PapersRewritten

\* The compensation puts a certification back to wait for its file, which waits.
LEMMA PapersRestored ==
    ASSUME FramesOK, PapersInv, NEW c \in Calls, NEW awaits, Turn(c, awaits),
           Judging(c), NEW k \in DOMAIN certs, k = call[c].cert,
           DOMAIN certs' = DOMAIN certs, certs'[k].file = certs[k].file, certs'[k].status = "pending",
           \A l \in DOMAIN certs \ {k} : certs'[l] = certs[l], UNCHANGED <<papers, drawn>>,
           ~Certifying(c)', ~Attaching(c)'
    PROVE  PapersInv'
<1>1. CertifyingHolds(c) /\ JudgingHolds(c) /\ Certifying(c)
    BY DEF PapersInv, Certifying
<1>2. papers[certs[k].file].status = "QUARANTINED"
    BY <1>1 DEF JudgingHolds, CertifyingHolds
<1>3. \A d \in Calls \ {c} : Judging(d) => call[d].cert # k
    BY <1>1 DEF JudgingHolds
<1>4. ~Judging(c)'
    BY DEF Certifying
<1>5. PaperHolds(c)'
    BY <1>4 DEF PaperHolds, AttachingHolds, CertifyingHolds, JudgingHolds
<1>6. PaperSettled(k)'
    BY <1>2 DEF PaperSettled, PaperOf
<1> QED
    BY <1>3, <1>4, <1>5, <1>6, PapersRewritten

\* The frame of a review at its next await holds what it held.
LEMMA VerdictMoved ==
    ASSUME FramesOK, NEW c \in Calls, call[c] \in VerdictFrames, ~At(c, "finding-unverified"),
           NEW await \in {"rereading-certificate", "reading-paper", "reviewing-paper", "restoring-certificate"},
           Goto(c, await)
    PROVE  /\ Turn(c, ProductAwaits) /\ call'[c].at = await
           /\ call'[c].cert = call[c].cert /\ call'[c].row = call[c].row
           /\ call'[c].verdict = call[c].verdict /\ call'[c].by = call[c].by
<1>1. PICK old \in VerdictFrames : old = call[c]
    OBVIOUS
<1>2. PICK f : f = [old EXCEPT !.at = await]
    OBVIOUS
<1>3. /\ f \in VerdictFrames /\ f.at = await
      /\ f.cert = old.cert /\ f.row = old.row /\ f.verdict = old.verdict /\ f.by = old.by
    <2>1. old.at # "finding-unverified"
        BY <1>1 DEF At
    <2> QED
        BY <1>2, <2>1 DEF VerdictFrames
<1>4. call' = [call EXCEPT ![c] = f]
    BY <1>1, <1>2 DEF Goto, FramesOK
<1>5. f \in ProductFrames /\ Of(c, ProductAwaits)
    BY <1>1, <1>3 DEF ProductFrames, VerdictFrames, Of, ProductAwaits
<1>6. Turn(c, ProductAwaits) /\ call'[c] = f
    BY <1>4, <1>5, ProductFramed
<1> QED
    BY <1>1, <1>3, <1>6

\* removeCertification reads the row whose file it will retire.
LEMMA FindRemovedInv ==
    ASSUME FramesOK, ProductInv, NEW c \in Calls, FindRemoved(c)
    PROVE  Turn(c, ProductAwaits) /\ ProductInv'
<1>1. At(c, "finding-removed") /\ Of(c, ProductAwaits) /\ ~Judging(c)
    BY DEF FindRemoved, At, Of, ProductAwaits, Judging
<1>2. UNCHANGED <<status, images, certs, papers, wished, audits, moves, drawn, verdicts, disturbed>>
    BY DEF FindRemoved, productRows
<1>3. CASE End(c)
    BY <1>1, <1>2, <1>3, ColumnsRest, ProductEnded
<1>4. CASE ~End(c)
    <2>1. PICK old \in RemovalFrames : old = call[c]
        BY <1>1, RemovalShape DEF At
    <2>2. PICK k \in DOMAIN certs : k = old.cert /\ Keep(c, "removing-certificate", certs[k])
        BY <1>4, <2>1 DEF FindRemoved
    <2>3. PICK row \in CertRows : row = certs[k]
        BY ProductTyped DEF ProductInv
    <2>4. PICK f : f = [old EXCEPT !.at = "removing-certificate", !.row = row]
        OBVIOUS
    <2>5. f \in RemovalFrames /\ f.at = "removing-certificate" /\ f.cert = k /\ f.row = row
        BY <2>2, <2>4 DEF RemovalFrames
    <2>6. call' = [call EXCEPT ![c] = f]
        BY <2>1, <2>2, <2>3, <2>4 DEF Keep, FramesOK
    <2>7. Turn(c, ProductAwaits) /\ call'[c] = f
        <3>1. f \in ProductFrames
            BY <2>5 DEF ProductFrames
        <3> QED
            BY <1>1, <2>6, <3>1, ProductFramed
    <2>8. ~disturbed' => PapersInv'
        BY <1>1, <1>2, <2>3, <2>5, <2>7, PapersTaken DEF ProductInv
    <2> QED
        BY <1>2, <2>5, <2>7, <2>8, ColumnsRest, DrawnRest, CertificateStep
<1> QED
    BY <1>3, <1>4

\* verifyCertification reads the row it may decide.
LEMMA FindUnverifiedInv ==
    ASSUME FramesOK, ProductInv, NEW c \in Calls, FindUnverified(c)
    PROVE  Turn(c, ProductAwaits) /\ ProductInv'
<1>1. At(c, "finding-unverified") /\ Of(c, ProductAwaits) /\ ~Judging(c)
    BY DEF FindUnverified, At, Of, ProductAwaits, Judging
<1>2. UNCHANGED <<status, images, certs, papers, wished, audits, moves, drawn, verdicts, disturbed>>
    BY DEF FindUnverified, productRows
<1>3. CASE End(c)
    BY <1>1, <1>2, <1>3, ColumnsRest, ProductEnded
<1>4. CASE ~End(c)
    <2>1. PICK old \in VerdictFrames : old = call[c]
        BY <1>1, VerdictShape DEF At
    <2>2. PICK k \in DOMAIN certs : /\ k = old.cert /\ Keep(c, "deciding", certs[k])
                                    /\ certs[k].status = "pending"
        BY <1>4, <2>1 DEF FindUnverified
    <2>3. PICK row \in CertRows : row = certs[k]
        BY ProductTyped DEF ProductInv
    <2>4. PICK f : f = [old EXCEPT !.at = "deciding", !.row = row]
        OBVIOUS
    <2>5. f \in VerdictFrames /\ f.at = "deciding" /\ f.cert = k /\ f.row = row
        BY <1>1, <2>1, <2>2, <2>4 DEF VerdictFrames, At
    <2>6. call' = [call EXCEPT ![c] = f]
        BY <2>1, <2>2, <2>3, <2>4 DEF Keep, FramesOK
    <2>7. Turn(c, ProductAwaits) /\ call'[c] = f
        <3>1. f \in ProductFrames
            BY <2>5 DEF ProductFrames
        <3> QED
            BY <1>1, <2>6, <3>1, ProductFramed
    <2>8. ~disturbed' => PapersInv'
        BY <1>1, <1>2, <2>2, <2>3, <2>5, <2>7, PapersTaken DEF ProductInv
    <2> QED
        BY <1>2, <2>5, <2>7, <2>8, ColumnsRest, DrawnRest, CertificateStep
<1> QED
    BY <1>3, <1>4

\* removeCertificationByProduct, which finds the row or not.
LEMMA DropCertificationInv ==
    ASSUME FramesOK, ProductInv, NEW c \in Calls, DropCertification(c)
    PROVE  Turn(c, ProductAwaits) /\ ProductInv'
<1>1. At(c, "removing-certificate") /\ Of(c, ProductAwaits) /\ ~Judging(c) /\ Removing(c)
    BY DEF DropCertification, At, Of, ProductAwaits, Judging, Removing
<1>2. UNCHANGED <<status, images, papers, wished, audits, moves, drawn, verdicts, disturbed>>
    BY DEF DropCertification
<1>3. PICK old \in RemovalFrames : old = call[c]
    BY <1>1, RemovalShape DEF At
<1>4. PICK k : k = call[c].cert
    OBVIOUS
<1>5. certs' = [d \in DOMAIN certs \ {k} |-> certs[d]]
    BY <1>4 DEF DropCertification
<1>6. DOMAIN certs \subseteq 1..MaxCerts /\ certs \in [DOMAIN certs -> CertRows]
    BY TableIn DEF ProductInv, ProductTables, ProductColumns
<1>7. CASE k \notin DOMAIN certs
    <2>1. End(c)
        BY <1>4, <1>7 DEF DropCertification
    <2>2. UNCHANGED certs
        BY <1>5, <1>6, <1>7
    <2> QED
        BY <1>1, <1>2, <2>1, <2>2, ColumnsRest, ProductEnded
<1>8. CASE k \in DOMAIN certs
    <2>1. Goto(c, "retiring-paper")
        BY <1>4, <1>8 DEF DropCertification
    <2>2. DOMAIN certs' = DOMAIN certs \ {k} /\ \A l \in DOMAIN certs \ {k} : certs'[l] = certs[l]
        BY <1>5
    <2>3. ProductColumns'
        <3>1. DOMAIN certs' \subseteq 1..MaxCerts /\ certs' \in [DOMAIN certs' -> CertRows]
            BY <1>5, <1>6, <2>2
        <3>2. certs' \in UNION {[K -> CertRows] : K \in SUBSET (1..MaxCerts)}
            BY <3>1, TableIn
        <3>3. DOMAIN certs' \subseteq drawn'
            BY <1>2, <2>2 DEF ProductInv, ProductTables, ProductColumns
        <3> QED
            BY <1>2, <3>2, <3>3 DEF ProductInv, ProductTables, ProductColumns
    <2>4. PICK f : f = [old EXCEPT !.at = "retiring-paper"]
        OBVIOUS
    <2>5. f \in RemovalFrames /\ f.at = "retiring-paper" /\ f.cert = old.cert /\ f.row = old.row
        BY <2>4 DEF RemovalFrames
    <2>6. call' = [call EXCEPT ![c] = f]
        BY <1>3, <2>1, <2>4 DEF Goto, FramesOK
    <2>7. Turn(c, ProductAwaits) /\ call'[c] = f
        <3>1. f \in ProductFrames
            BY <2>5 DEF ProductFrames
        <3> QED
            BY <1>1, <2>6, <3>1, ProductFramed
    <2>8. ~disturbed' => PapersInv'
        BY <1>1, <1>2, <1>3, <1>4, <1>8, <2>2, <2>5, <2>7, PapersDropped DEF ProductInv
    <2> QED
        BY <1>2, <2>3, <2>5, <2>7, <2>8, DrawnRest, CertificateStep
<1> QED
    BY <1>7, <1>8

\* retireOwnedFile for a certification that is gone.
LEMMA RetirePaperInv ==
    ASSUME FramesOK, ProductInv, NEW c \in Calls, RetirePaper(c)
    PROVE  Turn(c, ProductAwaits) /\ ProductInv'
<1>1. /\ At(c, "retiring-paper") /\ Of(c, ProductAwaits) /\ ~Judging(c) /\ Certifying(c) /\ End(c)
    BY DEF RetirePaper, At, Of, ProductAwaits, Judging, Removing, Certifying
<1>2. UNCHANGED <<status, images, certs, wished, audits, moves, drawn, verdicts, disturbed>>
    BY DEF RetirePaper
<1>3. CASE UNCHANGED papers
    BY <1>1, <1>2, <1>3, ColumnsRest, ProductEnded
<1>4. CASE ~UNCHANGED papers
    <2>1. papers' = [papers EXCEPT ![call[c].row.file].status = "DELETED"]
        BY <1>4 DEF RetirePaper
    <2>2. /\ call' = [call EXCEPT ![c] = call'[c]]
          /\ call'[c] \in Frames /\ call'[c].at = "idle"
        BY <1>1, Ended
    <2>3. Turn(c, ProductAwaits) /\ ~Certifying(c)' /\ ~Attaching(c)'
        BY <1>1, <2>2 DEF Turn, Of, Certifying, Removing, Judging, Attaching, At
    <2>4. CASE call[c].row.file \notin Papers
        <3>1. UNCHANGED papers
            BY <2>1, <2>4 DEF ProductInv, ProductTables, ProductColumns
        <3> QED
            BY <1>4, <3>1
    <2>5. CASE call[c].row.file \in Papers
        <3>1. PICK f \in Papers : f = call[c].row.file
            BY <2>5
        <3>2. /\ papers' \in [Papers -> [status : {"QUARANTINED", "ACTIVE", "FAILED", "DELETED"}, attached : BOOLEAN]]
              /\ \A g \in Papers \ {f} : papers'[g] = papers[g]
              /\ papers'[f].attached = papers[f].attached
            <4>1. ProductColumns
                BY DEF ProductInv, ProductTables
            <4> QED
                BY <2>1, <3>1, <4>1, PaperMarked
        <3>3. ProductColumns'
            BY <1>2, <3>2, PapersWritten
        <3>4. ~disturbed' => PapersInv'
            <4> SUFFICES ASSUME ~disturbed PROVE PapersInv'
                BY <1>2
            <4>1. ProductTables /\ PapersInv
                BY DEF ProductInv
            <4>2. call[c].cert \notin DOMAIN certs
                BY <1>1, <4>1 DEF PapersInv, CertifyingHolds
            <4> QED
                BY <1>1, <1>2, <2>3, <3>1, <3>2, <4>1, <4>2, PapersReviewed
        <3> QED
            BY <1>2, <2>2, <2>3, <3>3, <3>4, DrawnRest, CertificateStep
    <2> QED
        BY <2>4, <2>5
<1> QED
    BY <1>3, <1>4

\* A row of a certification whose status and reviewer were written.
LEMMA CertificateWritten ==
    ASSUME ProductInv, NEW k \in DOMAIN certs, NEW row \in CertRows, certs' = [certs EXCEPT ![k] = row],
           UNCHANGED <<status, images, papers, wished, drawn>>
    PROVE  /\ ProductColumns'
           /\ DOMAIN certs' = DOMAIN certs /\ certs'[k] = row
           /\ \A l \in DOMAIN certs \ {k} : certs'[l] = certs[l]
<1>1. DOMAIN certs \subseteq 1..MaxCerts /\ certs \in [DOMAIN certs -> CertRows]
    BY TableIn DEF ProductInv, ProductTables, ProductColumns
<1>2. /\ DOMAIN certs' = DOMAIN certs /\ certs'[k] = row
      /\ \A l \in DOMAIN certs \ {k} : certs'[l] = certs[l]
    BY <1>1
<1>3. certs' \in [DOMAIN certs' -> CertRows]
    BY <1>1, <1>2
<1>4. certs' \in UNION {[K -> CertRows] : K \in SUBSET (1..MaxCerts)}
    BY <1>1, <1>2, <1>3, TableIn
<1> QED
    BY <1>2, <1>4 DEF ProductInv, ProductTables, ProductColumns

\* transitionCertification decides a certification that still waits.
LEMMA TransitionInv ==
    ASSUME FramesOK, ProductInv, NEW c \in Calls, Transition(c)
    PROVE  Turn(c, ProductAwaits) /\ ProductInv'
<1>1. At(c, "deciding") /\ Of(c, ProductAwaits) /\ ~Judging(c)
    BY DEF Transition, At, Of, ProductAwaits, Judging
<1>2. UNCHANGED <<status, images, papers, wished, audits, moves, drawn, verdicts, disturbed>>
    BY DEF Transition
<1>3. PICK k : k = call[c].cert
    OBVIOUS
<1>4. CASE ~HasStatus(k, "pending")
    <2>1. End(c) /\ UNCHANGED certs
        BY <1>3, <1>4 DEF Transition
    <2> QED
        BY <1>1, <1>2, <2>1, ColumnsRest, ProductEnded
<1>5. CASE HasStatus(k, "pending")
    <2>1. k \in DOMAIN certs /\ certs[k].status = "pending"
        BY <1>5 DEF HasStatus
    <2>2. /\ certs' = [certs EXCEPT ![k].status = call[c].verdict, ![k].by = call[c].by]
          /\ Goto(c, "rereading-certificate")
        BY <1>3, <1>5 DEF Transition
    <2>3. call[c] \in VerdictFrames /\ call[c].verdict \in Verdicts /\ call[c].by \in Agents
        <3>1. call[c] \in VerdictFrames
            BY <1>1, VerdictShape DEF At
        <3> QED
            BY <3>1 DEF VerdictFrames
    <2>4. PICK stored \in CertRows : stored = certs[k]
        BY <2>1, ProductTyped DEF ProductInv
    <2>5. PICK row : row = [stored EXCEPT !.status = call[c].verdict, !.by = call[c].by]
        OBVIOUS
    <2>6. /\ row \in CertRows /\ row.file = stored.file
          /\ row.status = call[c].verdict /\ row.by = call[c].by
        BY <2>3, <2>5 DEF CertRows
    <2>7. certs' = [certs EXCEPT ![k] = row]
        BY <2>2, <2>4, <2>5
    <2>8. /\ ProductColumns'
          /\ DOMAIN certs' = DOMAIN certs /\ certs'[k] = row
          /\ \A l \in DOMAIN certs \ {k} : certs'[l] = certs[l]
        BY <1>2, <2>1, <2>6, <2>7, CertificateWritten
    <2>9. /\ Turn(c, ProductAwaits) /\ call'[c].at = "rereading-certificate"
          /\ call'[c].cert = call[c].cert /\ call'[c].row = call[c].row
          /\ call'[c].verdict = call[c].verdict /\ call'[c].by = call[c].by
        <3>1. ~At(c, "finding-unverified")
            BY <1>1 DEF At
        <3> QED
            BY <2>2, <2>3, <3>1, VerdictMoved
    <2>10. ~disturbed' => PapersInv'
        <3>1. Judging(c)'
            BY <2>9 DEF Judging
        <3> QED
            BY <1>1, <1>2, <1>3, <2>1, <2>4, <2>6, <2>8, <2>9, <3>1, PapersDecided DEF ProductInv
    <2> QED
        BY <1>2, <2>8, <2>9, <2>10, DrawnRest, CertificateStep
<1> QED
    BY <1>4, <1>5

\* Who has decided goes on to the next await with nothing written.
LEMMA VerdictPondered ==
    ASSUME FramesOK, ProductInv, NEW c \in Calls, Judging(c),
           NEW await \in {"reading-paper", "reviewing-paper", "restoring-certificate"}, Goto(c, await),
           UNCHANGED <<status, images, certs, papers, wished, audits, moves, drawn, disturbed>>
    PROVE  Turn(c, ProductAwaits) /\ ProductInv'
<1>1. call[c] \in VerdictFrames /\ ~At(c, "finding-unverified")
    BY VerdictShape DEF Judging, At
<1>2. /\ Turn(c, ProductAwaits) /\ call'[c].at = await
      /\ call'[c].cert = call[c].cert /\ call'[c].row = call[c].row
      /\ call'[c].verdict = call[c].verdict /\ call'[c].by = call[c].by
    BY <1>1, VerdictMoved
<1>3. Judging(c)'
    BY <1>2 DEF Judging
<1>4. ~disturbed' => PapersInv'
    BY <1>2, <1>3, PapersPondered DEF ProductInv
<1> QED
    BY <1>2, <1>4, ColumnsRest, DrawnRest, CertificateStep

\* The decided certification is read again; one removed since is a conflict.
LEMMA RereadCertificationInv ==
    ASSUME FramesOK, ProductInv, NEW c \in Calls, RereadCertification(c)
    PROVE  Turn(c, ProductAwaits) /\ ProductInv'
<1>1. At(c, "rereading-certificate") /\ Of(c, ProductAwaits) /\ Judging(c)
    BY DEF RereadCertification, At, Of, ProductAwaits, Judging
<1>2. UNCHANGED <<status, images, certs, papers, wished, audits, moves, drawn, verdicts>>
    BY DEF RereadCertification
<1>3. CASE Goto(c, "reading-paper") /\ UNCHANGED disturbed
    BY <1>1, <1>2, <1>3, VerdictPondered
<1>4. CASE End(c) /\ (disturbed' = TRUE \/ (UNCHANGED disturbed /\ call[c].cert \notin DOMAIN certs))
    BY <1>1, <1>2, <1>4, ColumnsRest, ProductEnded
<1> QED
    BY <1>3, <1>4 DEF RereadCertification

\* reviewFile reads the file: one that has the verdict already is not that of a
\* certification that is still there.
LEMMA ReadPaperInv ==
    ASSUME FramesOK, ProductInv, NEW c \in Calls, ReadPaper(c)
    PROVE  Turn(c, ProductAwaits) /\ ProductInv'
<1>1. At(c, "reading-paper") /\ Of(c, ProductAwaits) /\ Judging(c)
    BY DEF ReadPaper, At, Of, ProductAwaits, Judging
<1>2. UNCHANGED <<status, images, certs, papers, wished, audits, moves, drawn, disturbed>>
    BY DEF ReadPaper
<1>3. CASE Goto(c, "reviewing-paper") \/ Goto(c, "restoring-certificate")
    BY <1>1, <1>2, <1>3, VerdictPondered
<1>4. CASE End(c) /\ papers[call[c].row.file].status = FileVerdict(c)
    <2>1. ~disturbed => call[c].cert \notin DOMAIN certs
        <3> SUFFICES ASSUME ~disturbed, call[c].cert \in DOMAIN certs PROVE FALSE
            OBVIOUS
        <3>1. papers[call[c].row.file].status = "QUARANTINED"
            BY <1>1 DEF ProductInv, PapersInv, JudgingHolds
        <3> QED
            BY <1>4, <3>1 DEF FileVerdict
    <2> QED
        BY <1>1, <1>2, <1>4, <2>1, ColumnsRest, ProductEnded
<1> QED
    BY <1>3, <1>4 DEF ReadPaper

\* updateStatus gives the file the verdict of its certification.
LEMMA ReviewPaperInv ==
    ASSUME FramesOK, ProductInv, NEW c \in Calls, ReviewPaper(c)
    PROVE  Turn(c, ProductAwaits) /\ ProductInv'
<1>1. At(c, "reviewing-paper") /\ Of(c, ProductAwaits) /\ Judging(c) /\ Certifying(c)
    BY DEF ReviewPaper, At, Of, ProductAwaits, Judging, Certifying
<1>2. UNCHANGED <<status, images, certs, wished, audits, moves, drawn>>
    BY DEF ReviewPaper
<1>3. CASE Goto(c, "restoring-certificate") /\ UNCHANGED <<papers, disturbed>>
    BY <1>1, <1>2, <1>3, VerdictPondered
<1>4. CASE End(c) /\ UNCHANGED disturbed /\ papers' = [papers EXCEPT ![call[c].row.file].status = FileVerdict(c)]
    <2>1. /\ call' = [call EXCEPT ![c] = call'[c]]
          /\ call'[c] \in Frames /\ call'[c].at = "idle"
        BY <1>4, Ended
    <2>2. Turn(c, ProductAwaits) /\ ~Certifying(c)' /\ ~Attaching(c)'
        BY <1>1, <2>1 DEF Turn, Of, Certifying, Removing, Judging, Attaching, At
    <2>3. PICK q \in {"ACTIVE", "FAILED"} : q = FileVerdict(c)
        BY DEF FileVerdict
    <2>4. CASE call[c].row.file \notin Papers
        <3>1. UNCHANGED papers
            BY <1>4, <2>4 DEF ProductInv, ProductTables, ProductColumns
        <3>2. disturbed
            BY <1>1, <2>4, PaperFields DEF ProductInv
        <3> QED
            BY <1>1, <1>2, <1>4, <3>1, <3>2, ColumnsRest, ProductEnded
    <2>5. CASE call[c].row.file \in Papers
        <3>1. PICK f \in Papers : f = call[c].row.file
            BY <2>5
        <3>2. /\ papers' \in [Papers -> [status : {"QUARANTINED", "ACTIVE", "FAILED", "DELETED"}, attached : BOOLEAN]]
              /\ \A g \in Papers \ {f} : papers'[g] = papers[g]
              /\ papers'[f].status = q /\ papers'[f].attached = papers[f].attached
            <4>1. ProductColumns
                BY DEF ProductInv, ProductTables
            <4> QED
                BY <1>4, <2>3, <3>1, <4>1, PaperMarked
        <3>3. ProductColumns'
            BY <1>2, <3>2, PapersWritten
        <3>4. q = PaperOf(call[c].verdict)
            <4>1. call[c] \in VerdictFrames
                BY <1>1, VerdictShape DEF At
            <4>2. call[c].verdict \in Verdicts
                BY <4>1 DEF VerdictFrames
            <4> QED
                BY <2>3, <4>2 DEF FileVerdict, PaperOf, Verdicts
        <3>5. ~disturbed' => PapersInv'
            <4> SUFFICES ASSUME ~disturbed PROVE PapersInv'
                BY <1>4
            <4>1. ProductTables /\ PapersInv
                BY DEF ProductInv
            <4>2. papers'[f].status = PaperOf(call[c].verdict)
                BY <3>2, <3>4
            <4> QED
                BY <1>1, <1>2, <2>2, <3>1, <3>2, <4>1, <4>2, PapersReviewed
        <3> QED
            BY <1>2, <2>1, <2>2, <3>3, <3>5, DrawnRest, CertificateStep
    <2> QED
        BY <2>4, <2>5
<1>5. CASE /\ Goto(c, "restoring-certificate") /\ disturbed' = TRUE
           /\ papers' = [papers EXCEPT ![call[c].row.file].status = FileVerdict(c)]
    <2>1. call[c] \in VerdictFrames /\ ~At(c, "finding-unverified")
        BY <1>1, VerdictShape DEF At
    <2>2. Turn(c, ProductAwaits) /\ call'[c].at = "restoring-certificate"
        BY <1>5, <2>1, VerdictMoved
    <2>3. PICK f \in Papers : f = call[c].row.file
        BY <1>1, <2>1 DEF VerdictFrames, CertRows, At
    <2>4. PICK q \in {"QUARANTINED", "ACTIVE", "FAILED", "DELETED"} : q = FileVerdict(c)
        BY DEF FileVerdict
    <2>5. papers' \in [Papers -> [status : {"QUARANTINED", "ACTIVE", "FAILED", "DELETED"}, attached : BOOLEAN]]
        <3>1. ProductColumns
            BY DEF ProductInv, ProductTables
        <3> QED
            BY <1>5, <2>3, <2>4, <3>1, PaperMarked
    <2>6. ProductColumns'
        BY <1>2, <2>5, PapersWritten
    <2> QED
        BY <1>2, <1>5, <2>2, <2>6, DrawnRest, CertificateStep
<1> QED
    BY <1>3, <1>4, <1>5 DEF ReviewPaper

\* The compensation undoes the decision that is still there, or disturbs.
LEMMA RestoreCertificationInv ==
    ASSUME FramesOK, ProductInv, NEW c \in Calls, RestoreCertification(c)
    PROVE  Turn(c, ProductAwaits) /\ ProductInv'
<1>1. At(c, "restoring-certificate") /\ Of(c, ProductAwaits) /\ Judging(c) /\ End(c)
    BY DEF RestoreCertification, At, Of, ProductAwaits, Judging
<1>2. UNCHANGED <<status, images, papers, wished, audits, moves, drawn, verdicts>>
    BY DEF RestoreCertification
<1>3. CASE disturbed' = TRUE /\ UNCHANGED certs
    BY <1>1, <1>2, <1>3, ColumnsRest, ProductEnded
<1>4. CASE ~(disturbed' = TRUE /\ UNCHANGED certs)
    <2>1. PICK k \in DOMAIN certs : /\ k = call[c].cert
                                    /\ certs' = [certs EXCEPT ![k] = Restored(@, call[c].row)]
                                    /\ UNCHANGED disturbed
        BY <1>4 DEF RestoreCertification
    <2>2. PICK stored \in CertRows : stored = certs[k]
        BY ProductTyped DEF ProductInv
    <2>3. /\ call' = [call EXCEPT ![c] = call'[c]]
          /\ call'[c] \in Frames /\ call'[c].at = "idle"
        BY <1>1, Ended
    <2>4. Turn(c, ProductAwaits) /\ ~Certifying(c)' /\ ~Attaching(c)'
        BY <1>1, <2>3 DEF Turn, Of, Certifying, Removing, Judging, Attaching, At
    <2>5. PICK read \in CertRows : read = call[c].row
        <3>1. call[c] \in VerdictFrames
            BY <1>1, VerdictShape DEF At
        <3> QED
            BY <1>1, <3>1 DEF VerdictFrames, At
    <2>6. PICK row : row = [stored EXCEPT !.status = read.status, !.by = read.by]
        OBVIOUS
    <2>7. row \in CertRows /\ row.file = stored.file /\ row.status = read.status
        BY <2>6 DEF CertRows
    <2>8. certs' = [certs EXCEPT ![k] = row]
        BY <2>1, <2>2, <2>5, <2>6 DEF Restored
    <2>9. /\ ProductColumns'
          /\ DOMAIN certs' = DOMAIN certs /\ certs'[k] = row
          /\ \A l \in DOMAIN certs \ {k} : certs'[l] = certs[l]
        BY <1>2, <2>7, <2>8, CertificateWritten
    <2>10. ~disturbed' => PapersInv'
        <3> SUFFICES ASSUME ~disturbed PROVE PapersInv'
            BY <2>1
        <3>1. PapersInv
            BY DEF ProductInv
        <3>2. certs'[k].status = "pending"
            BY <1>1, <2>5, <2>7, <2>9, <3>1 DEF PapersInv, CertifyingHolds, Certifying
        <3>3. certs'[k].file = certs[k].file
            BY <2>2, <2>7, <2>9
        <3> QED
            BY <1>1, <1>2, <2>1, <2>4, <2>9, <3>1, <3>2, <3>3, PapersRestored
    <2> QED
        BY <1>2, <2>3, <2>4, <2>9, <2>10, DrawnRest, CertificateStep
<1> QED
    BY <1>3, <1>4

\* The requests after a turn are still of the two parts.
LEMMA CatalogueTurn ==
    ASSUME FramesOK, CatalogueCalls, NEW c \in Calls,
           Turn(c, ProductAwaits) \/ Turn(c, NoticeAwaits)
    PROVE  FramesOK' /\ CatalogueCalls'
<1>1. FramesOK' /\ \A d \in Calls \ {c} : call'[d] = call[d]
    BY TurnOthers
<1>2. call'[c].at \in ProductAwaits \cup NoticeAwaits \cup {"idle"}
    BY DEF Turn
<1> QED
    BY <1>1, <1>2 DEF CatalogueCalls

\* A step of the inbox leaves the product.
LEMMA ProductApart ==
    ASSUME FramesOK, ProductInv, NEW c \in Calls, Turn(c, NoticeAwaits), UNCHANGED productRows
    PROVE  ProductInv'
<1>1. UNCHANGED <<status, images, certs, papers, wished, audits, moves, drawn, verdicts, disturbed>>
    BY DEF productRows
<1>2. call[c].at \in NoticeAwaits \cup {"idle"} /\ call'[c].at \in NoticeAwaits \cup {"idle"}
    BY DEF Turn
<1>3. ~Judging(c)
    BY <1>2 DEF Judging, NoticeAwaits
<1>4. Bare(c)'
    BY <1>2 DEF Bare, At, Attaching, Certifying, Removing, Judging, NoticeAwaits
<1> QED
    BY <1>1, <1>3, <1>4, ColumnsRest, ProductRest

\* Every step of a request about the product keeps its invariant.
LEMMA ProductsStepInv ==
    ASSUME FramesOK, CatalogueCalls, NoticesInv, ProductInv, NEW c \in Calls, ProductsStep(c)
    PROVE  Turn(c, ProductAwaits) /\ ProductInv' /\ NoticesInv'
<1>1. CASE NotifySeller(c)
    BY <1>1, NotifySellerInv
<1>2. CASE ~NotifySeller(c)
    <2>1. UNCHANGED notificationRows
        BY <1>2 DEF ProductsStep
    <2>2. Turn(c, ProductAwaits) /\ ProductInv'
        <3>1. CASE EditProduct(c) \/ ReplaceImages(c) \/ RemoveProduct(c) \/ ChangeStatus(c)
                   \/ ModerateProduct(c) \/ AddImage(c) \/ RemoveImage(c) \/ AddWish(c) \/ RemoveWish(c)
            BY <3>1, ProductAsked
        <3>2. CASE AddCertification(c) \/ RemoveCertification(c) \/ VerifyCertification(c)
            BY <3>2, CertificationAsked
        <3>3. CASE LoadProduct(c) \/ SaveProduct(c)
            BY <3>3, LoadProductInv, SaveProductInv
        <3>4. CASE FindModerated(c) \/ ModerateStatus(c) \/ RereadModerated(c) \/ AuditModeration(c)
            BY <3>4, FindModeratedInv, ModerateStatusInv, RereadModeratedInv, AuditModerationInv
        <3>5. CASE LoadGallery(c) \/ ResetPrimary(c) \/ InsertImage(c) \/ DropImage(c)
            BY <3>5, ImagesInv
        <3>6. CASE AttachPaper(c) \/ InsertCertification(c) \/ DetachPaper(c)
            BY <3>6, AttachPaperInv, InsertCertificationInv, DetachPaperInv
        <3>7. CASE FindRemoved(c) \/ DropCertification(c) \/ RetirePaper(c)
            BY <3>7, FindRemovedInv, DropCertificationInv, RetirePaperInv
        <3>8. CASE FindUnverified(c) \/ Transition(c) \/ RereadCertification(c) \/ ReadPaper(c)
                   \/ ReviewPaper(c) \/ RestoreCertification(c)
            BY <3>8, FindUnverifiedInv, TransitionInv, RereadCertificationInv, ReadPaperInv, ReviewPaperInv,
               RestoreCertificationInv
        <3>9. CASE FindActive(c) \/ InsertWish(c) \/ DeleteWish(c)
            BY <3>9, WishesInv
        <3>10. CASE CrashProduct(c)
            BY <3>10, CrashProductInv
        <3> QED
            BY <1>2, <3>1, <3>2, <3>3, <3>4, <3>5, <3>6, <3>7, <3>8, <3>9, <3>10 DEF ProductsStep
    <2>3. ProductAwaits \cap NoticeAwaits = {}
        BY DEF ProductAwaits, NoticeAwaits
    <2> QED
        BY <2>1, <2>2, <2>3, NoticesRest
<1> QED
    BY <1>1, <1>2

\* Every step keeps the invariant of the catalogue.
LEMMA NextCatalogueInv ==
    ASSUME CatalogueInv, CatalogueNext
    PROVE  CatalogueInv'
<1>1. FramesOK /\ CatalogueCalls /\ NoticesInv /\ ProductInv
    BY DEF CatalogueInv
<1>2. PICK c \in Calls : ProductsStep(c) \/ (NotificationsStep(c) /\ UNCHANGED productRows)
    BY DEF CatalogueNext
<1>3. CASE ProductsStep(c)
    BY <1>1, <1>3, ProductsStepInv, CatalogueTurn DEF CatalogueInv
<1>4. CASE NotificationsStep(c) /\ UNCHANGED productRows
    BY <1>1, <1>4, NoticesStepInv, ProductApart, CatalogueTurn DEF CatalogueInv
<1> QED
    BY <1>2, <1>3, <1>4

\* A step that changes no variable keeps it too.
LEMMA StutterCatalogueInv ==
    ASSUME CatalogueInv, UNCHANGED <<catalogueVars, mix>>
    PROVE  CatalogueInv'
<1>1. /\ UNCHANGED call /\ UNCHANGED <<inbox, announced>>
      /\ UNCHANGED <<status, images, certs, papers, wished, audits, moves, drawn, verdicts, disturbed>>
    BY DEF catalogueVars, productRows, notificationRows
<1>2. FramesOK' /\ CatalogueCalls'
    BY <1>1 DEF CatalogueInv, FramesOK, CatalogueCalls
<1>3. NoticesInv'
    BY <1>1 DEF CatalogueInv, NoticesInv, NotificationsTypeOK, NoticeHolds, Of, At, ReadOnce
<1>4. ProductTables'
    BY <1>1 DEF CatalogueInv, ProductInv, ProductTables, ProductColumns, SaveHolds, At
<1>5. AuditsInv'
    BY <1>1 DEF CatalogueInv, ProductInv, AuditsInv, AuditsTellWhatChanged, JudgeHolds, At
<1>6. ~disturbed' => PapersInv'
    <2> SUFFICES ASSUME PapersInv PROVE PapersInv'
        BY <1>1 DEF CatalogueInv, ProductInv
    <2>1. FilesAreOwn'
        BY <1>1 DEF PapersInv, FilesAreOwn
    <2>2. ASSUME NEW c \in Calls PROVE AttachingHolds(c)' /\ CertifyingHolds(c)' /\ JudgingHolds(c)'
        <3>1. AttachingHolds(c) /\ CertifyingHolds(c) /\ JudgingHolds(c)
            BY DEF PapersInv
        <3>2. AttachingHolds(c)'
            BY <1>1, <3>1 DEF AttachingHolds, Attaching, Waits
        <3>3. CertifyingHolds(c)'
            BY <1>1, <3>1 DEF CertifyingHolds, Certifying, Removing, Judging, Attaching, At
        <3>4. JudgingHolds(c)'
            BY <1>1, <3>1 DEF JudgingHolds, Judging
        <3> QED
            BY <3>2, <3>3, <3>4
    <2>3. ASSUME NEW k \in DOMAIN certs' PROVE PaperSettled(k)' \/ UnderReview(k)'
        <3>1. PaperSettled(k) \/ UnderReview(k)
            BY <1>1, <2>3 DEF PapersInv
        <3> QED
            BY <1>1, <3>1 DEF PaperSettled, PaperOf, UnderReview, Judging
    <2> QED
        BY <2>1, <2>2, <2>3 DEF PapersInv
<1> QED
    BY <1>2, <1>3, <1>4, <1>5, <1>6 DEF CatalogueInv, ProductInv

\* It holds initially.
LEMMA InitCatalogueInv ==
    ASSUME CatalogueInit
    PROVE  CatalogueInv
<1>1. /\ FramesOK /\ \A c \in Calls : call[c].at = "idle"
    BY DEF CatalogueInit, HandlersInit, FramesOK, Frames, Idle
<1>2. CatalogueCalls
    BY <1>1 DEF CatalogueCalls
<1>3. NoticesInv
    <2>1. inbox = <<>> /\ announced = [i \in 1..MaxInbox |-> 0]
        BY DEF CatalogueInit, NotificationsInit
    <2>2. NotificationsTypeOK
        BY <2>1, NotificationsAssumption DEF NotificationsTypeOK
    <2>3. \A c \in Calls : ~Of(c, NoticeAwaits) /\ ~At(c, "announcing")
        BY <1>1 DEF Of, NoticeAwaits, At
    <2> QED
        BY <2>1, <2>2, <2>3 DEF NoticesInv, ReadOnce
<1>4. /\ status = "draft" /\ images = <<>> /\ certs = <<>>
      /\ papers = [f \in Papers |-> [status |-> "QUARANTINED", attached |-> FALSE]]
      /\ wished = {} /\ audits = {} /\ drawn = {}
    BY DEF CatalogueInit, ProductsInit
<1>5. \A c \in Calls : /\ SaveHolds(c) /\ JudgeHolds(c)
                       /\ AttachingHolds(c) /\ CertifyingHolds(c) /\ JudgingHolds(c)
    BY <1>1 DEF SaveHolds, JudgeHolds, AttachingHolds, CertifyingHolds, JudgingHolds, Attaching,
                Certifying, Removing, Judging, At
<1>6. ProductTables
    <2>1. images \in UNION {[I -> BOOLEAN] : I \in SUBSET (1..MaxImages)}
        <3> PICK none : none = <<>>
            OBVIOUS
        <3>1. none = <<>> /\ none \in Seq(BOOLEAN) /\ Len(none) = 0 /\ 1..0 = {}
            OBVIOUS
        <3>2. none \in [1..Len(none) -> BOOLEAN]
            BY <3>1, LenProperties
        <3>3. DOMAIN images \subseteq 1..MaxImages /\ images \in [DOMAIN images -> BOOLEAN]
            BY <1>4, <3>1, <3>2
        <3> QED
            BY <3>3, TableIn
    <2>2. certs \in UNION {[K -> CertRows] : K \in SUBSET (1..MaxCerts)} /\ DOMAIN certs = {}
        <3> PICK none : none = <<>>
            OBVIOUS
        <3>1. none = <<>> /\ none \in Seq(CertRows) /\ Len(none) = 0 /\ 1..0 = {}
            OBVIOUS
        <3>2. none \in [1..Len(none) -> CertRows]
            BY <3>1, LenProperties
        <3>3. DOMAIN certs = {} /\ certs \in [DOMAIN certs -> CertRows]
            BY <1>4, <3>1, <3>2
        <3>4. DOMAIN certs \subseteq 1..MaxCerts
            BY <3>3
        <3>5. certs \in UNION {[K -> CertRows] : K \in SUBSET (1..MaxCerts)}
            <4>1. PICK S : S = CertRows
                OBVIOUS
            <4>2. certs \in UNION {[K -> S] : K \in SUBSET (1..MaxCerts)}
                BY <3>3, <3>4, <4>1, TableIn
            <4> QED
                BY <4>1, <4>2
        <3> QED
            BY <3>3, <3>5
    <2>3. ProductColumns
        BY <1>4, <2>1, <2>2 DEF ProductColumns, ProductStatus
    <2>4. 0 \in 0..MaxCerts /\ drawn = 1..0
        BY <1>4, ProductsAssumption
    <2> QED
        BY <1>5, <2>3, <2>4 DEF ProductTables
<1>7. AuditsInv
    BY <1>4, <1>5 DEF AuditsInv, AuditsTellWhatChanged
<1>8. PapersInv
    <2>1. DOMAIN certs = {}
        BY <1>4
    <2> QED
        BY <1>4, <1>5, <2>1 DEF PapersInv, FilesAreOwn
<1> QED
    BY <1>1, <1>2, <1>3, <1>6, <1>7, <1>8 DEF CatalogueInv, ProductInv

\* The invariant of the catalogue: frames, tables, audits, and who knows what of
\* certifications and their files.
THEOREM CatalogueInvariant == CatalogueSpec => []CatalogueInv
<1>1. CatalogueInit => CatalogueInv
    BY InitCatalogueInv
<1>2. CatalogueInv /\ [CatalogueNext]_<<catalogueVars, mix>> => CatalogueInv'
    BY NextCatalogueInv, StutterCatalogueInv
<1> QED
    BY <1>1, <1>2, PTL DEF CatalogueSpec

\* Every table of the product and the inbox has its type.
THEOREM ProductsAreTyped == CatalogueSpec => []ProductsTypeOK
<1>1. CatalogueInv => ProductsTypeOK
    BY DEF CatalogueInv, NoticesInv, ProductInv, ProductTables, ProductColumns, ProductsTypeOK
<1> QED
    BY <1>1, CatalogueInvariant, PTL

\* The audit of a moderation names as the previous status the one the moderation has
\* replaced by what it was asked for, although it was read before the UPDATE and
\* others may moderate in between.  The new status it names is read after the UPDATE
\* and may be another's: of that one nothing is promised.
THEOREM AuditsAreTrue == CatalogueSpec => []AuditsTellWhatChanged
<1>1. CatalogueInv => AuditsTellWhatChanged
    BY DEF CatalogueInv, ProductInv, AuditsInv
<1> QED
    BY <1>1, CatalogueInvariant, PTL

\* When no request is served, the file of a certification is attached and has its
\* verdict, whichever statements of reviews have failed and been compensated, unless
\* the answer of a write that did go through was lost.
THEOREM CertificatesMatch == CatalogueSpec => []CertificatesMatchFiles
<1>1. ASSUME CatalogueInv, Quiet, ~disturbed, NEW k \in DOMAIN certs
      PROVE  papers[certs[k].file] = [attached |-> TRUE, status |-> PaperOf(certs[k].status)]
    <2>1. ProductTables /\ PapersInv
        BY <1>1 DEF CatalogueInv, ProductInv
    <2>2. ~UnderReview(k)
        BY <1>1 DEF Quiet, At, UnderReview, Judging
    <2>3. papers[certs[k].file].status = PaperOf(certs[k].status)
        BY <1>1, <2>1, <2>2 DEF PapersInv, PaperSettled
    <2>4. papers[certs[k].file].attached
        BY <1>1, <2>1 DEF PapersInv, FilesAreOwn
    <2>5. certs[k].file \in Papers
        BY <1>1, <2>1, ProductTyped
    <2>6. papers[certs[k].file] \in [status : {"QUARANTINED", "ACTIVE", "FAILED", "DELETED"}, attached : BOOLEAN]
        BY <2>1, <2>5 DEF ProductTables, ProductColumns
    <2> QED
        BY <2>3, <2>4, <2>6
<1>2. CatalogueInv => CertificatesMatchFiles
    BY <1>1 DEF CertificatesMatchFiles, PaperOf
<1> QED
    BY <1>2, CatalogueInvariant, PTL

-----------------------------------------------------------------------------
(* Who reviews a certification *)

\* The requests that have decided a certification and not ended are about different
\* ones; a review that was answered is of one that nobody is deciding again and,
\* if it is still there, waits no more.
Won(v) ==
    /\ v.cert \in drawn
    /\ \A c \in Calls : Judging(c) => call[c].cert # v.cert
    /\ v.cert \in DOMAIN certs => certs[v.cert].status # "pending"
Winners ==
    /\ \A c, d \in Calls : Judging(c) /\ Judging(d) /\ call[c].cert = call[d].cert => c = d
    /\ \A v \in verdicts : Won(v)
    /\ OneReviewerWins
WinnersInv == ~disturbed => Winners

\* Reviews answered before stay answered, and those under way stay apart.
LEMMA WinnersStay ==
    ASSUME FramesOK, Winners, NEW c \in Calls, NEW awaits, Turn(c, awaits),
           UNCHANGED verdicts, drawn \subseteq drawn',
           Judging(c)' => Judging(c) /\ call'[c].cert = call[c].cert,
           \A k \in DOMAIN certs' \cap drawn :
              \/ Judging(c) /\ call[c].cert = k
              \/ k \in DOMAIN certs /\ certs'[k].status = certs[k].status
    PROVE  Winners'
<1>1. \A d \in Calls \ {c} : call'[d] = call[d]
    BY TurnOthers
<1>2. \A d \in Calls : Judging(d)' => Judging(d) /\ call'[d].cert = call[d].cert
    BY <1>1 DEF Judging
<1>3. \A d, e \in Calls : Judging(d)' /\ Judging(e)' /\ call'[d].cert = call'[e].cert => d = e
    BY <1>2 DEF Winners
<1>4. ASSUME NEW v \in verdicts PROVE Won(v)'
    <2>1. Won(v)
        BY DEF Winners
    <2> QED
        BY <1>2, <2>1 DEF Won
<1>5. OneReviewerWins'
    BY DEF Winners, OneReviewerWins
<1> QED
    BY <1>3, <1>4, <1>5 DEF Winners

\* A step aside keeps the reviews.
LEMMA AsideInv ==
    ASSUME FramesOK, WinnersInv, NEW c \in Calls, NEW awaits, Turn(c, awaits), StepsAside(c)
    PROVE  WinnersInv'
<1> SUFFICES ASSUME ~disturbed' PROVE Winners'
    BY DEF WinnersInv
<1>1. Winners
    BY DEF WinnersInv, StepsAside
<1> QED
    BY <1>1, WinnersStay DEF StepsAside

\* A frame that goes on with another await is not one of a decided certification.
LEMMA NotJudging ==
    ASSUME FramesOK, NEW c \in Calls, NEW await,
           await \notin {"rereading-certificate", "reading-paper", "reviewing-paper", "restoring-certificate"},
           Goto(c, await) \/ \E row : Keep(c, await, row)
    PROVE  ~Judging(c)'
<1>1. "at" \in DOMAIN call[c]
    <2>1. call[c] \in Frames
        BY DEF FramesOK
    <2>2. \A f \in ForumFrames : "at" \in DOMAIN f
        BY DEF ForumFrames, LikeFrames, CommentFrames, UncommentFrames, ViewFrames,
               EditFrames, DeleteFrames
    <2>3. \A f \in TraceFrames : "at" \in DOMAIN f
        BY DEF TraceFrames
    <2>4. \A f \in ReviewFrames : "at" \in DOMAIN f
        BY DEF ReviewFrames
    <2>5. \A f \in NoticeFrames : "at" \in DOMAIN f
        BY DEF NoticeFrames
    <2>6. \A f \in AdFrames : "at" \in DOMAIN f
        BY DEF AdFrames, ModerationFrames
    <2>7. \A f \in LoadFrames : "at" \in DOMAIN f
        BY DEF LoadFrames
    <2>8. \A f \in JudgeFrames \cup ImageFrames \cup PaperFrames : "at" \in DOMAIN f
        BY DEF JudgeFrames, ImageFrames, PaperFrames
    <2>9. \A f \in RemovalFrames \cup VerdictFrames \cup WishFrames : "at" \in DOMAIN f
        BY DEF RemovalFrames, VerdictFrames, WishFrames
    <2>10. call[c] = Idle => "at" \in DOMAIN call[c]
        BY DEF Idle
    <2> QED
        BY <2>1, <2>2, <2>3, <2>4, <2>5, <2>6, <2>7, <2>8, <2>9, <2>10 DEF Frames, ProductFrames
<1>2. CASE Goto(c, await)
    <2>1. call'[c] = [call[c] EXCEPT !.at = await]
        BY <1>2 DEF Goto, FramesOK
    <2> QED
        BY <1>1, <2>1 DEF Judging
<1>3. CASE \E row : Keep(c, await, row)
    <2>1. PICK row : call'[c] = [call[c] EXCEPT !.at = await, !.row = row]
        BY <1>3 DEF Keep, FramesOK
    <2>2. call'[c].at = await
        BY <1>1, <2>1
    <2> QED
        BY <2>2 DEF Judging
<1> QED
    BY <1>2, <1>3

\* Nor is one that has ended or has just arrived.
LEMMA NotJudgingEnds ==
    ASSUME FramesOK, NEW c \in Calls,
           End(c) \/ \E frame : /\ Receive(c, frame)
                                /\ frame.at \notin {"rereading-certificate", "reading-paper",
                                                     "reviewing-paper", "restoring-certificate"}
    PROVE  ~Judging(c)'
BY Ended, Received DEF Judging

\* A step that leaves certifications alone and goes elsewhere.
LEMMA ElsewhereAside ==
    ASSUME FramesOK, NEW c \in Calls, DOMAIN certs \subseteq drawn,
           UNCHANGED <<certs, drawn, verdicts>>, ~disturbed' => ~disturbed, ~Judging(c)'
    PROVE  StepsAside(c)
BY DEF StepsAside

\* A load goes on to the save.
LEMMA LoadAside ==
    ASSUME FramesOK, NEW c \in Calls, DOMAIN certs \subseteq drawn, LoadProduct(c)
    PROVE  StepsAside(c)
<1>1. ~Judging(c)'
    <2>1. CASE End(c)
        BY <2>1, NotJudgingEnds
    <2>2. CASE ~End(c)
        <3>1. PICK row : call' = [call EXCEPT ![c].at = "saving-product", ![c].read = Loaded, ![c].row = row]
            BY <2>2 DEF LoadProduct
        <3>2. PICK old \in LoadFrames : old = call[c]
            BY LoadShape DEF LoadProduct, At
        <3>3. call'[c] = [old EXCEPT !.at = "saving-product", !.read = Loaded, !.row = row]
            BY <3>1, <3>2 DEF FramesOK
        <3>4. call'[c].at = "saving-product"
            BY <3>2, <3>3 DEF LoadFrames
        <3> QED
            BY <3>4 DEF Judging
    <2> QED
        BY <2>1, <2>2
<1>2. UNCHANGED <<certs, drawn, verdicts, disturbed>>
    BY DEF LoadProduct, productRows
<1> QED
    BY <1>1, <1>2, ElsewhereAside

\* A save writes the certifications as they are, unless it disturbs.
LEMMA SaveAside ==
    ASSUME FramesOK, ProductTables, NEW c \in Calls, SaveProduct(c)
    PROVE  StepsAside(c)
<1>1. At(c, "saving-product") /\ UNCHANGED <<drawn, verdicts>>
    BY DEF SaveProduct
<1>2. ~Judging(c)'
    <2>1. End(c) \/ Goto(c, "notifying-seller")
        BY DEF SaveProduct
    <2> QED
        BY <2>1, NotJudging, NotJudgingEnds
<1>3. DOMAIN certs \subseteq drawn /\ Loaded.certs = certs
    BY ProductTyped
<1>4. ~disturbed' => ~disturbed /\ certs' = certs
    <2>1. CASE UNCHANGED <<status, images, certs, disturbed>>
        BY <2>1
    <2>2. CASE certs' = call[c].row.certs /\ disturbed' = (disturbed \/ Loaded # call[c].read)
        <3>1. call[c].row.certs = call[c].read.certs
            BY <1>1 DEF ProductTables, SaveHolds
        <3>2. ~disturbed' => ~disturbed /\ Loaded = call[c].read
            BY <2>2
        <3> QED
            BY <1>3, <2>2, <3>1, <3>2
    <2> QED
        BY <2>1, <2>2 DEF SaveProduct
<1> QED
    BY <1>1, <1>2, <1>3, <1>4 DEF StepsAside

\* Moderations, images and wishlists.
LEMMA OthersAside ==
    ASSUME FramesOK, NEW c \in Calls, DOMAIN certs \subseteq drawn,
           \/ NotifySeller(c) \/ FindModerated(c) \/ ModerateStatus(c) \/ RereadModerated(c) \/ AuditModeration(c)
           \/ LoadGallery(c) \/ ResetPrimary(c) \/ InsertImage(c) \/ DropImage(c)
           \/ FindActive(c) \/ InsertWish(c) \/ DeleteWish(c)
    PROVE  StepsAside(c)
<1>1. CASE NotifySeller(c) \/ AuditModeration(c) \/ InsertImage(c) \/ DropImage(c)
           \/ InsertWish(c) \/ DeleteWish(c)
    <2>1. End(c) /\ UNCHANGED <<certs, drawn, verdicts, disturbed>>
        BY <1>1 DEF NotifySeller, AuditModeration, InsertImage, DropImage, InsertWish, DeleteWish,
                    productRows
    <2> QED
        BY <2>1, NotJudgingEnds, ElsewhereAside
<1>2. CASE ModerateStatus(c) \/ LoadGallery(c) \/ ResetPrimary(c) \/ FindActive(c)
    <2>1. UNCHANGED <<certs, drawn, verdicts, disturbed>>
        BY <1>2 DEF ModerateStatus, LoadGallery, ResetPrimary, FindActive, productRows
    <2>2. End(c) \/ \E await \in {"rereading-moderated", "resetting-primary", "inserting-image", "wishing"} : Goto(c, await)
        BY <1>2 DEF ModerateStatus, LoadGallery, ResetPrimary, FindActive
    <2>3. ~Judging(c)'
        BY <2>2, NotJudging, NotJudgingEnds
    <2> QED
        BY <2>1, <2>3, ElsewhereAside
<1>3. CASE FindModerated(c) \/ RereadModerated(c)
    <2>1. UNCHANGED <<certs, drawn, verdicts, disturbed>>
        BY <1>3 DEF FindModerated, RereadModerated, productRows
    <2>2. ~Judging(c)'
        <3>1. CASE End(c)
            BY <3>1, NotJudgingEnds
        <3>2. CASE ~End(c)
            <4>1. PICK old \in JudgeFrames : old = call[c]
                BY <1>3, JudgeShape DEF FindModerated, RereadModerated, At
            <4>2. PICK await \in {"auditing", "moderating-product"} :
                    \/ call' = [call EXCEPT ![c].was = status, ![c].now = status, ![c].at = await]
                    \/ call' = [call EXCEPT ![c].at = await, ![c].now = status]
                BY <1>3, <3>2 DEF FindModerated, RereadModerated
            <4>3. \/ call'[c] = [old EXCEPT !.was = status, !.now = status, !.at = await]
                  \/ call'[c] = [old EXCEPT !.at = await, !.now = status]
                BY <4>1, <4>2 DEF FramesOK
            <4>4. call'[c].at = await
                BY <4>3 DEF JudgeFrames
            <4> QED
                BY <4>4 DEF Judging
        <3> QED
            BY <3>1, <3>2
    <2> QED
        BY <2>1, <2>2, ElsewhereAside
<1> QED
    BY <1>1, <1>2, <1>3

\* Requests that add or remove a certification.
LEMMA CertificatesAside ==
    ASSUME FramesOK, ProductTables, NEW c \in Calls,
           \/ AttachPaper(c) \/ InsertCertification(c) \/ DetachPaper(c)
           \/ FindRemoved(c) \/ DropCertification(c) \/ RetirePaper(c) \/ FindUnverified(c)
    PROVE  StepsAside(c)
<1>1. DOMAIN certs \subseteq drawn
    BY ProductTyped
<1>2. CASE AttachPaper(c) \/ DetachPaper(c) \/ RetirePaper(c)
    <2>1. UNCHANGED <<certs, drawn, verdicts>>
        BY <1>2 DEF AttachPaper, DetachPaper, RetirePaper
    <2>2. \/ UNCHANGED disturbed \/ disturbed' = TRUE
          \/ disturbed' = (disturbed \/ papers[call[c].file].attached)
        BY <1>2 DEF AttachPaper, DetachPaper, RetirePaper
    <2>3. ~disturbed' => ~disturbed
        BY <2>2
    <2>4. End(c) \/ Goto(c, "inserting-certificate")
        BY <1>2 DEF AttachPaper, DetachPaper, RetirePaper
    <2>5. ~Judging(c)'
        BY <2>4, NotJudging, NotJudgingEnds
    <2> QED
        BY <1>1, <2>1, <2>3, <2>5, ElsewhereAside
<1>3. CASE FindRemoved(c) \/ FindUnverified(c)
    <2>1. UNCHANGED <<certs, drawn, verdicts, disturbed>>
        BY <1>3 DEF FindRemoved, FindUnverified, productRows
    <2>2. End(c) \/ \E await \in {"removing-certificate", "deciding"} : \E row : Keep(c, await, row)
        BY <1>3 DEF FindRemoved, FindUnverified
    <2>3. ~Judging(c)'
        BY <2>2, NotJudging, NotJudgingEnds
    <2> QED
        BY <1>1, <2>1, <2>3, ElsewhereAside
<1>4. CASE InsertCertification(c)
    <2>1. UNCHANGED verdicts /\ (~disturbed' => ~disturbed)
        BY <1>4 DEF InsertCertification
    <2>2. ~Judging(c)'
        <3>1. End(c) \/ Goto(c, "detaching-paper")
            BY <1>4 DEF InsertCertification
        <3> QED
            BY <3>1, NotJudging, NotJudgingEnds
    <2>3. CASE UNCHANGED <<certs, drawn>>
        BY <1>1, <2>1, <2>2, <2>3, ElsewhereAside
    <2>4. CASE ~UNCHANGED <<certs, drawn>>
        <3>1. PICK k \in {Cardinality(drawn) + 1} \cap (1..MaxCerts) :
                /\ certs' = Inserted(certs, k, [status |-> "pending", by |-> NULL, file |-> call[c].file])
                /\ drawn' = drawn \cup {k}
            BY <1>4, <2>4 DEF InsertCertification
        <3>2. k \notin drawn
            BY NumberIsNew
        <3>3. \A l \in DOMAIN certs' \cap drawn : l \in DOMAIN certs /\ certs'[l] = certs[l]
            BY <3>1, <3>2 DEF Inserted
        <3> QED
            BY <2>1, <2>2, <3>1, <3>3 DEF StepsAside
    <2> QED
        BY <2>3, <2>4
<1>5. CASE DropCertification(c)
    <2>1. UNCHANGED <<drawn, verdicts, disturbed>>
        BY <1>5 DEF DropCertification
    <2>2. certs' = [d \in DOMAIN certs \ {call[c].cert} |-> certs[d]]
        BY <1>5 DEF DropCertification
    <2>3. \A l \in DOMAIN certs' : l \in DOMAIN certs /\ certs'[l] = certs[l]
        BY <2>2
    <2>4. End(c) \/ Goto(c, "retiring-paper")
        BY <1>5 DEF DropCertification
    <2>5. ~Judging(c)'
        BY <2>4, NotJudging, NotJudgingEnds
    <2> QED
        BY <2>1, <2>3, <2>5 DEF StepsAside
<1> QED
    BY <1>2, <1>3, <1>4, <1>5

\* The compensation of a review, and a crash.
LEMMA RestoredAside ==
    ASSUME FramesOK, ProductTables, NEW c \in Calls, RestoreCertification(c) \/ CrashProduct(c)
    PROVE  StepsAside(c)
<1>1. UNCHANGED <<drawn, verdicts>> /\ (~disturbed' => ~disturbed) /\ End(c)
    BY DEF RestoreCertification, CrashProduct, Die
<1>2. ~Judging(c)'
    BY <1>1, NotJudgingEnds
<1>3. CASE UNCHANGED certs
    BY <1>1, <1>2, <1>3, ProductTyped, ElsewhereAside
<1>4. CASE ~UNCHANGED certs
    <2>1. RestoreCertification(c)
        BY <1>4 DEF CrashProduct
    <2>2. certs' = [certs EXCEPT ![call[c].cert] = Restored(@, call[c].row)] /\ Judging(c)
        BY <1>4, <2>1 DEF RestoreCertification, Judging, At
    <2>3. \A l \in DOMAIN certs' : l \in DOMAIN certs /\ (l # call[c].cert => certs'[l] = certs[l])
        BY <2>2
    <2> QED
        BY <1>1, <1>2, <2>2, <2>3 DEF StepsAside
<1> QED
    BY <1>3, <1>4

\* Who decides a certification that waits is the only one.
LEMMA WinnersDecide ==
    ASSUME FramesOK, ProductInv, WinnersInv, NEW c \in Calls, NEW awaits, Turn(c, awaits), Transition(c)
    PROVE  WinnersInv'
<1>1. UNCHANGED <<drawn, verdicts, disturbed>> /\ At(c, "deciding")
    BY DEF Transition
<1>2. PICK k : k = call[c].cert
    OBVIOUS
<1>3. CASE ~HasStatus(k, "pending")
    <2>1. End(c) /\ UNCHANGED certs
        BY <1>2, <1>3 DEF Transition
    <2>2. StepsAside(c)
        BY <1>1, <2>1, NotJudgingEnds, ProductTyped, ElsewhereAside DEF ProductInv
    <2> QED
        BY <2>2, AsideInv
<1>4. CASE HasStatus(k, "pending")
    <2> SUFFICES ASSUME ~disturbed PROVE Winners'
        BY <1>1 DEF WinnersInv
    <2>1. k \in DOMAIN certs /\ certs[k].status = "pending" /\ Winners /\ PapersInv /\ ProductTables
        BY <1>4 DEF HasStatus, WinnersInv, ProductInv
    <2>2. /\ certs' = [certs EXCEPT ![k].status = call[c].verdict, ![k].by = call[c].by]
          /\ Goto(c, "rereading-certificate")
        BY <1>2, <1>4 DEF Transition
    <2>3. call'[c].cert = k /\ call[c].verdict \in Verdicts
        <3>1. call[c] \in VerdictFrames /\ ~At(c, "finding-unverified")
            BY <1>1, VerdictShape DEF At
        <3>2. call'[c].cert = call[c].cert
            BY <2>2, <3>1, VerdictMoved
        <3> QED
            BY <1>2, <3>1, <3>2 DEF VerdictFrames
    <2>4. \A d \in Calls : Judging(d) => call[d].cert # k
        BY <2>1, PendingWaits
    <2>5. \A v \in verdicts : v.cert # k
        BY <2>1 DEF Winners, Won
    <2>6. certs'[k].status # "pending" /\ DOMAIN certs' = DOMAIN certs
          /\ \A l \in DOMAIN certs \ {k} : certs'[l] = certs[l]
        <3>1. PICK stored \in CertRows : stored = certs[k]
            BY <2>1, ProductTyped
        <3>2. certs'[k] = [stored EXCEPT !.status = call[c].verdict, !.by = call[c].by]
            BY <2>1, <2>2, <3>1
        <3>3. certs'[k].status = call[c].verdict
            BY <3>1, <3>2 DEF CertRows
        <3>4. certs'[k].status # "pending"
            BY <2>3, <3>3 DEF Verdicts
        <3> QED
            BY <2>2, <3>4
    <2>7. \A d \in Calls \ {c} : call'[d] = call[d]
        BY TurnOthers
    <2>8. \A d \in Calls : Judging(d)' => (d = c \/ Judging(d)) /\ (call'[d].cert = k <=> d = c)
        BY <2>3, <2>4, <2>7 DEF Judging
    <2>9. \A d, e \in Calls : Judging(d)' /\ Judging(e)' /\ call'[d].cert = call'[e].cert => d = e
        BY <2>1, <2>3, <2>7, <2>8 DEF Winners
    <2>10. ASSUME NEW v \in verdicts PROVE Won(v)'
        <3>1. Won(v) /\ v.cert # k
            BY <2>1, <2>5 DEF Winners
        <3>2. \A d \in Calls : Judging(d)' => call'[d].cert # v.cert
            BY <2>3, <2>7, <2>8, <3>1 DEF Won
        <3> QED
            BY <1>1, <2>6, <3>1, <3>2 DEF Won
    <2>11. OneReviewerWins'
        BY <1>1, <2>1 DEF Winners, OneReviewerWins
    <2> QED
        BY <1>1, <2>9, <2>10, <2>11 DEF Winners
<1> QED
    BY <1>3, <1>4

\* A review is answered, and nobody else was deciding that certification.
LEMMA WinnersAnswer ==
    ASSUME FramesOK, ProductInv, WinnersInv, NEW c \in Calls, NEW awaits, Turn(c, awaits),
           Judging(c), ~Judging(c)', Answered(c), UNCHANGED <<certs, drawn>>, ~disturbed' => ~disturbed
    PROVE  WinnersInv'
<1> SUFFICES ASSUME ~disturbed PROVE Winners'
    BY DEF WinnersInv
<1>1. Winners /\ PapersInv /\ CertifyingHolds(c) /\ JudgingHolds(c) /\ Certifying(c)
    BY DEF WinnersInv, ProductInv, PapersInv, Certifying
<1>2. \A d \in Calls \ {c} : call'[d] = call[d]
    BY TurnOthers
<1>3. \A d \in Calls : Judging(d)' => d # c /\ Judging(d) /\ call'[d] = call[d]
    BY <1>2 DEF Judging
<1> PICK new : new = [cert |-> call[c].cert, by |-> call[c].by, verdict |-> call[c].verdict]
    OBVIOUS
<1>4. verdicts' = verdicts \cup {new} /\ new.cert = call[c].cert
    BY DEF Answered
<1>5. Won(new)'
    <2>1. new.cert \in drawn'
        BY <1>1, <1>4 DEF CertifyingHolds
    <2>2. \A d \in Calls : Judging(d)' => call'[d].cert # new.cert
        BY <1>1, <1>3, <1>4 DEF Winners
    <2>3. new.cert \in DOMAIN certs' => certs'[new.cert].status # "pending"
        <3>1. call[c].verdict # "pending"
            BY <1>1, PaperFields DEF Verdicts
        <3> QED
            BY <1>1, <1>4, <3>1 DEF JudgingHolds
    <2> QED
        BY <2>1, <2>2, <2>3 DEF Won
<1>6. ASSUME NEW v \in verdicts PROVE Won(v)' /\ v.cert # new.cert
    <2>1. Won(v)
        BY <1>1 DEF Winners
    <2> QED
        BY <1>3, <1>4, <2>1 DEF Won
<1>7. OneReviewerWins'
    BY <1>1, <1>4, <1>6 DEF Winners, OneReviewerWins
<1>8. \A d, e \in Calls : Judging(d)' /\ Judging(e)' /\ call'[d].cert = call'[e].cert => d = e
    BY <1>1, <1>3 DEF Winners
<1> QED
    BY <1>4, <1>5, <1>6, <1>7, <1>8 DEF Winners

\* A decided certification is read again, and its file is read and reviewed.
LEMMA WinnersReview ==
    ASSUME FramesOK, ProductInv, WinnersInv, NEW c \in Calls,
           RereadCertification(c) \/ ReadPaper(c) \/ ReviewPaper(c)
    PROVE  WinnersInv'
<1>1. Judging(c) /\ UNCHANGED <<certs, drawn>> /\ (~disturbed' => ~disturbed)
    BY DEF RereadCertification, ReadPaper, ReviewPaper, Judging, At
<1>2. Turn(c, ProductAwaits)
    BY RereadCertificationInv, ReadPaperInv, ReviewPaperInv
<1>3. CASE Answered(c) /\ End(c)
    BY <1>1, <1>2, <1>3, NotJudgingEnds, WinnersAnswer
<1>4. CASE ~(Answered(c) /\ End(c))
    <2>1. UNCHANGED verdicts
        BY <1>4 DEF RereadCertification, ReadPaper, ReviewPaper
    <2>2. Judging(c)' => call'[c].cert = call[c].cert
        <3>1. CASE End(c)
            BY <3>1, NotJudgingEnds
        <3>2. CASE ~End(c)
            <4>1. PICK await \in {"reading-paper", "reviewing-paper", "restoring-certificate"} : Goto(c, await)
                BY <3>2 DEF RereadCertification, ReadPaper, ReviewPaper
            <4>2. call[c] \in VerdictFrames /\ ~At(c, "finding-unverified")
                BY <1>1, VerdictShape DEF Judging, At
            <4> QED
                BY <4>1, <4>2, VerdictMoved
        <3> QED
            BY <3>1, <3>2
    <2>3. DOMAIN certs \subseteq drawn
        BY ProductTyped DEF ProductInv
    <2> QED
        BY <1>1, <1>2, <2>1, <2>2, <2>3, WinnersStay DEF WinnersInv
<1> QED
    BY <1>3, <1>4

\* Every step of the catalogue keeps the reviews.
LEMMA NextWinnersInv ==
    ASSUME CatalogueInv, WinnersInv, CatalogueNext
    PROVE  WinnersInv'
<1>1. FramesOK /\ CatalogueCalls /\ NoticesInv /\ ProductInv /\ ProductTables
    BY DEF CatalogueInv, ProductInv
<1>2. DOMAIN certs \subseteq drawn
    BY <1>1, ProductTyped
<1>3. PICK c \in Calls : ProductsStep(c) \/ (NotificationsStep(c) /\ UNCHANGED productRows)
    BY DEF CatalogueNext
<1>4. CASE NotificationsStep(c) /\ UNCHANGED productRows
    <2>1. Turn(c, NoticeAwaits)
        BY <1>1, <1>4, NoticesStepInv
    <2>2. ~Judging(c)'
        BY <2>1 DEF Turn, Judging, NoticeAwaits
    <2>3. UNCHANGED <<certs, drawn, verdicts, disturbed>>
        BY <1>4 DEF productRows
    <2>4. StepsAside(c)
        BY <1>1, <1>2, <2>2, <2>3, ElsewhereAside
    <2> QED
        BY <1>1, <2>1, <2>4, AsideInv
<1>5. CASE ProductsStep(c)
    <2>1. Turn(c, ProductAwaits)
        BY <1>1, <1>5, ProductsStepInv
    <2>2. CASE Transition(c)
        BY <1>1, <2>1, <2>2, WinnersDecide
    <2>3. CASE RereadCertification(c) \/ ReadPaper(c) \/ ReviewPaper(c)
        BY <1>1, <2>3, WinnersReview
    <2>4. CASE ~(Transition(c) \/ RereadCertification(c) \/ ReadPaper(c) \/ ReviewPaper(c))
        <3>1. StepsAside(c)
            <4>1. CASE EditProduct(c) \/ ReplaceImages(c) \/ RemoveProduct(c) \/ ChangeStatus(c)
                       \/ ModerateProduct(c) \/ AddImage(c) \/ RemoveImage(c) \/ AddWish(c) \/ RemoveWish(c)
                BY <1>1, <4>1, ProductAsked
            <4>2. CASE AddCertification(c) \/ RemoveCertification(c) \/ VerifyCertification(c)
                BY <1>1, <4>2, CertificationAsked
            <4>3. CASE LoadProduct(c) \/ SaveProduct(c)
                BY <1>1, <1>2, <4>3, LoadAside, SaveAside
            <4>4. CASE NotifySeller(c) \/ FindModerated(c) \/ ModerateStatus(c) \/ RereadModerated(c)
                       \/ AuditModeration(c)
                       \/ LoadGallery(c) \/ ResetPrimary(c) \/ InsertImage(c) \/ DropImage(c)
                       \/ FindActive(c) \/ InsertWish(c) \/ DeleteWish(c)
                BY <1>1, <1>2, <4>4, OthersAside
            <4>5. CASE AttachPaper(c) \/ InsertCertification(c) \/ DetachPaper(c)
                       \/ FindRemoved(c) \/ DropCertification(c) \/ RetirePaper(c) \/ FindUnverified(c)
                BY <1>1, <4>5, CertificatesAside
            <4>6. CASE RestoreCertification(c) \/ CrashProduct(c)
                BY <1>1, <4>6, RestoredAside
            <4> QED
                BY <1>5, <2>4, <4>1, <4>2, <4>3, <4>4, <4>5, <4>6 DEF ProductsStep
        <3> QED
            BY <1>1, <2>1, <3>1, AsideInv
    <2> QED
        BY <2>2, <2>3, <2>4
<1> QED
    BY <1>3, <1>4, <1>5

\* One reviewer wins a certification, as long as no save has written over what it had
\* not read, no handler has died, no compensation has failed and no answer was lost.
THEOREM ReviewersWinAlone == CatalogueSpec => []UndisturbedReviewerWins
<1>1. CatalogueInit => WinnersInv
    <2> SUFFICES ASSUME CatalogueInit PROVE Winners
        BY DEF WinnersInv
    <2>1. verdicts = {} /\ \A c \in Calls : ~Judging(c)
        BY DEF CatalogueInit, ProductsInit, HandlersInit, Idle, Judging
    <2> QED
        BY <2>1 DEF Winners, OneReviewerWins
<1>2. CatalogueInv /\ WinnersInv /\ [CatalogueNext]_<<catalogueVars, mix>> => WinnersInv'
    <2>1. CASE CatalogueInv /\ WinnersInv /\ CatalogueNext
        BY <2>1, NextWinnersInv
    <2>2. CASE WinnersInv /\ UNCHANGED <<catalogueVars, mix>>
        BY <2>2 DEF catalogueVars, productRows, WinnersInv, Winners, Won, Judging, OneReviewerWins
    <2> QED
        BY <2>1, <2>2
<1>3. WinnersInv => UndisturbedReviewerWins
    BY DEF WinnersInv, Winners, UndisturbedReviewerWins
<1> QED
    BY <1>1, <1>2, <1>3, CatalogueInvariant, PTL DEF CatalogueSpec
=============================================================================
