---------------------------------- MODULE Forum ----------------------------------
(***************************************************************************)
(* One post of the forum with its likes and comments.  ForumService keeps    *)
(* counters on the post next to the rows they count and changes the two in   *)
(* separate statements; an edit writes the whole row it has read.            *)
(***************************************************************************)
EXTENDS Handlers, Integers, FiniteSets

CONSTANTS
    Members,    \* users of the forum
    Comments    \* ids of comments

VARIABLES
    post,       \* its row, NULL when it is deleted
    likes,      \* members whose like is stored
    comments,   \* stored comments
    used,       \* history: comment ids drawn so far
    mixed       \* history: two requests met that must not, or one died

forumRows == <<post, likes, comments, used, mixed>>

ForumInit ==
    /\ post = [likeCount |-> 0, commentCount |-> 0, viewCount |-> 0, hidden |-> FALSE]
    /\ likes = {}
    /\ comments = {}
    /\ used = {}
    /\ mixed = FALSE

\* Two requests touch the same row without an atomic update: an edit or removal
\* of the post and anything else, or two requests about the same like or comment.
Clash(a, b) ==
    \/ {a.about, b.about} \cap {"edit", "removal"} # {}
    \/ a.about = b.about /\ a.about \in Members \cup Comments

\* A request about a like, a comment or the post arrives; once two have met,
\* they come one at a time.
Serve(c, frame) ==
    /\ mixed => Quiet
    /\ Receive(c, frame)
    /\ mixed' = (mixed \/ \E d \in Calls : ~At(d, "idle") /\ Clash(call[d], frame))
    /\ UNCHANGED <<post, likes, comments>>

\* findOne of the post; a missing one is an error.
Found(c, await) == IF post = NULL THEN End(c) ELSE Goto(c, await)

\* Mutant of Counted: the counter is written back as the post showed it.
CountedFromRow(c, n) == call[c].seen + n

\* increment() and decrement() let the database add.
Counted(c, n) == post[call[c].counter] + n

Count(c, n) == post' = IF post = NULL THEN NULL ELSE [post EXCEPT ![call[c].counter] = Counted(c, n)]

-----------------------------------------------------------------------------
(* Likes *)

ToggleLike(c) ==
    /\ \E u \in Members :
         Serve(c, [at |-> "liking", about |-> u, counter |-> "likeCount", seen |-> 0])
    /\ UNCHANGED used

LikePost(c) ==
    /\ At(c, "liking")
    /\ IF post = NULL THEN End(c)
       ELSE call' = [call EXCEPT ![c].at = "looking", ![c].seen = post.likeCount]
    /\ UNCHANGED forumRows

FindLike(c) ==
    /\ At(c, "looking")
    /\ Goto(c, IF call[c].about \in likes THEN "unliking" ELSE "adding-like")
    /\ UNCHANGED forumRows

\* remove() of a row that is gone is no error.
RemoveLike(c) ==
    /\ At(c, "unliking")
    /\ likes' = likes \ {call[c].about}
    /\ Goto(c, "counting-down")
    /\ UNCHANGED <<post, comments, used, mixed>>

\* The index on post and user refuses a second like.
SaveLike(c) ==
    /\ At(c, "adding-like")
    /\ likes' = likes \cup {call[c].about}
    /\ IF call[c].about \in likes THEN End(c) ELSE Goto(c, "counting-up")
    /\ UNCHANGED <<post, comments, used, mixed>>

CountUp(c) ==
    /\ At(c, "counting-up") /\ Count(c, 1) /\ End(c)
    /\ UNCHANGED <<likes, comments, used, mixed>>

CountDown(c) ==
    /\ At(c, "counting-down") /\ Count(c, -1) /\ End(c)
    /\ UNCHANGED <<likes, comments, used, mixed>>

-----------------------------------------------------------------------------
(* Comments and views *)

AddComment(c) ==
    \E k \in Comments \ used :
        /\ Serve(c, [at |-> "commenting", about |-> "new-comment", comment |-> k,
                     counter |-> "commentCount", seen |-> 0])
        /\ used' = used \cup {k}

CommentPost(c) ==
    /\ At(c, "commenting")
    /\ IF post = NULL THEN End(c)
       ELSE call' = [call EXCEPT ![c].at = "adding-comment", ![c].seen = post.commentCount]
    /\ UNCHANGED forumRows

SaveComment(c) ==
    /\ At(c, "adding-comment")
    /\ comments' = comments \cup {call[c].comment}
    /\ Goto(c, "counting-up")
    /\ UNCHANGED <<post, likes, used, mixed>>

\* The author deletes a comment, shown on a page that may be out of date.
DeleteComment(c) ==
    /\ \E k \in used :
         Serve(c, [at |-> "uncommenting", about |-> k, counter |-> "commentCount", seen |-> 0])
    /\ UNCHANGED used

FindComment(c) ==
    /\ At(c, "uncommenting")
    /\ IF call[c].about \in comments THEN Goto(c, "removing-comment") ELSE End(c)
    /\ UNCHANGED forumRows

RemoveComment(c) ==
    /\ At(c, "removing-comment")
    /\ comments' = comments \ {call[c].about}
    /\ Goto(c, "counting-down")
    /\ UNCHANGED <<post, likes, used, mixed>>

\* getPost shows a visible post and counts the view; this instance caps the views.
ViewPost(c) ==
    /\ post # NULL /\ ~post.hidden /\ post.viewCount = 0
    /\ Serve(c, [at |-> "viewing", about |-> "view", counter |-> "viewCount", seen |-> 0])
    /\ UNCHANGED used

FindViewed(c) ==
    /\ At(c, "viewing")
    /\ IF post = NULL \/ post.hidden THEN End(c) ELSE Goto(c, "counting-up")
    /\ UNCHANGED forumRows

-----------------------------------------------------------------------------
(* The post itself *)

\* updatePost by its author, or setHidden by a moderator.
EditPost(c) ==
    /\ \E hide \in {TRUE, FALSE, NULL} :
         Serve(c, [at |-> "editing", about |-> "edit", hide |-> hide, row |-> NULL])
    /\ UNCHANGED used

ReadPost(c) ==
    /\ At(c, "editing")
    /\ IF post = NULL THEN End(c) ELSE Keep(c, "saving", post)
    /\ UNCHANGED forumRows

\* save() writes every column that differs from the stored row, the counters
\* included, and inserts the row again when it is gone.
SavePost(c) ==
    /\ At(c, "saving")
    /\ post' = IF call[c].hide = NULL THEN call[c].row
               ELSE [call[c].row EXCEPT !.hidden = call[c].hide]
    /\ End(c)
    /\ UNCHANGED <<likes, comments, used, mixed>>

DeletePost(c) ==
    /\ Serve(c, [at |-> "deleting", about |-> "removal"])
    /\ UNCHANGED used

FindDeleted(c) ==
    At(c, "deleting") /\ Found(c, "removing") /\ UNCHANGED forumRows

RemovePost(c) ==
    /\ At(c, "removing")
    /\ post' = NULL
    /\ End(c)
    /\ UNCHANGED <<likes, comments, used, mixed>>

\* A handler dies, or one of its statements fails.
CrashForum(c) ==
    /\ "about" \in DOMAIN call[c] /\ ~mixed /\ Die(c)
    /\ mixed' = TRUE
    /\ UNCHANGED <<post, likes, comments, used>>

ForumStep(c) ==
    \/ ToggleLike(c) \/ LikePost(c) \/ FindLike(c) \/ RemoveLike(c) \/ SaveLike(c)
    \/ CountUp(c) \/ CountDown(c)
    \/ AddComment(c) \/ CommentPost(c) \/ SaveComment(c)
    \/ DeleteComment(c) \/ FindComment(c) \/ RemoveComment(c)
    \/ ViewPost(c) \/ FindViewed(c)
    \/ EditPost(c) \/ ReadPost(c) \/ SavePost(c)
    \/ DeletePost(c) \/ FindDeleted(c) \/ RemovePost(c) \/ CrashForum(c)

-----------------------------------------------------------------------------
(* Properties *)

\* Every variable has its type.
ForumTypeOK ==
    /\ post \in [likeCount : Int, commentCount : Int, viewCount : Int, hidden : BOOLEAN] \cup {NULL}
    /\ likes \subseteq Members
    /\ comments \subseteq used /\ used \subseteq Comments
    /\ mixed \in BOOLEAN

\* The counters of a post equal the rows they count once no request is being
\* served, however the requests of different members and about different
\* comments interleaved.  (An edit, or a second request about the same row, may
\* make them drift: there is no transaction.)
CountersAddUp ==
    Quiet /\ ~mixed /\ post # NULL =>
        /\ post.likeCount = Cardinality(likes)
        /\ post.commentCount = Cardinality(comments)
=============================================================================
