--------------------------------- MODULE Reviews ---------------------------------
(***************************************************************************)
(* The reviews of one product.  Every use case reads the review, applies its *)
(* policy to what it has read, and leaves the race to a conditional UPDATE.  *)
(***************************************************************************)
EXTENDS Handlers, Integers, Sequences

CONSTANTS
    Reviewers,  \* buyers; the unique index allows a review of each
    Replies,    \* texts of the seller
    Moderators, \* administrators
    MaxTurns    \* bound on the successful hides and unhides of a review

VARIABLES
    review,     \* the row of each reviewer's review, NULL when there is none
    replied,    \* history: replies answered with success
    turns       \* history: successful hides and unhides of each review, in order

reviewRows == <<review, replied, turns>>

ReviewRows == [reply : Replies \cup {NULL}, hidden : BOOLEAN, hiddenBy : Moderators \cup {NULL},
               verified : BOOLEAN]
ASSUME ReviewsAssumption == MaxTurns \in Nat /\ NULL \notin ReviewRows \cup Replies

Visible == [reply |-> NULL, hidden |-> FALSE, hiddenBy |-> NULL, verified |-> FALSE]

ReviewsInit ==
    /\ review = [r \in Reviewers |-> NULL]
    /\ replied = {}
    /\ turns = [r \in Reviewers |-> <<>>]

Reviewed(r) == review[r] # NULL

-----------------------------------------------------------------------------
(* Writing and answering a review *)

CreateReview(c) ==
    /\ \E r \in Reviewers : Receive(c, [at |-> "checking-buyer", review |-> r])
    /\ UNCHANGED reviewRows

\* The product and the reviewer are read: one of them is missing, the reviewer
\* is not active or sells the product.
CheckReviewer(c) ==
    /\ At(c, "checking-buyer")
    /\ Goto(c, "checking-purchase") \/ End(c)
    /\ UNCHANGED reviewRows

\* Whether Orders knows a completed purchase, then createIfAbsent: the index on
\* reviewer and product refuses a second review.
SaveReview(c) ==
    /\ At(c, "checking-purchase")
    /\ \E bought \in BOOLEAN :
         review' = IF Reviewed(call[c].review) THEN review
                   ELSE [review EXCEPT ![call[c].review] = [Visible EXCEPT !.verified = bought]]
    /\ End(c)
    /\ UNCHANGED <<replied, turns>>

ReplyToReview(c) ==
    /\ \E r \in Reviewers, text \in Replies :
         Receive(c, [at |-> "finding-review", review |-> r, reply |-> text])
    /\ UNCHANGED reviewRows

\* findById and assertCanReplyToReview.
FindReplied(c) ==
    LET r == call[c].review IN
    /\ At(c, "finding-review")
    /\ IF Reviewed(r) /\ review[r].reply = NULL THEN Goto(c, "replying") ELSE End(c)
    /\ UNCHANGED reviewRows

\* Mutant of Unreplied: the row was unreplied when it was read.
UnrepliedAsRead(r) == TRUE

\* The WHERE clause of saveReplyIfUnreplied.
Unreplied(r) == review[r].reply = NULL

SaveReply(c) ==
    LET r == call[c].review IN
    /\ At(c, "replying")
    /\ IF Unreplied(r)
       THEN /\ review' = [review EXCEPT ![r].reply = call[c].reply]
            /\ replied' = replied \cup {[review |-> r, reply |-> call[c].reply]}
       ELSE UNCHANGED <<review, replied>>
    /\ End(c)
    /\ UNCHANGED turns

-----------------------------------------------------------------------------
(* Moderation *)

\* hide by a moderator, or unhide.
ChangeVisibility(c) ==
    /\ \E r \in Reviewers, hide \in BOOLEAN, by \in Moderators :
         Receive(c, [at |-> "finding-hidden", review |-> r, hide |-> hide,
                     by |-> IF hide THEN by ELSE NULL])
    /\ UNCHANGED reviewRows

\* findById and assertCanChangeReviewVisibility.
FindHidden(c) ==
    LET r == call[c].review IN
    /\ At(c, "finding-hidden")
    /\ IF Reviewed(r) /\ review[r].hidden # call[c].hide THEN Goto(c, "hiding") ELSE End(c)
    /\ UNCHANGED reviewRows

HiddenAsExpected(r, expected) == review[r].hidden = expected

\* setVisibility.
SetVisibility(c) ==
    LET r == call[c].review IN
    /\ At(c, "hiding")
    /\ IF HiddenAsExpected(r, ~call[c].hide) /\ Len(turns[r]) < MaxTurns
       THEN /\ review' = [review EXCEPT ![r].hidden = call[c].hide, ![r].hiddenBy = call[c].by]
            /\ turns' = [turns EXCEPT ![r] = Append(@, [hide |-> call[c].hide, by |-> call[c].by])]
       ELSE UNCHANGED <<review, turns>>
    /\ End(c)
    /\ UNCHANGED replied

ReviewsStep(c) ==
    \/ CreateReview(c) \/ CheckReviewer(c) \/ SaveReview(c)
    \/ ReplyToReview(c) \/ FindReplied(c) \/ SaveReply(c)
    \/ ChangeVisibility(c) \/ FindHidden(c) \/ SetVisibility(c)

-----------------------------------------------------------------------------
(* Properties *)

\* Every variable has its type.
ReviewsTypeOK ==
    /\ review \in [Reviewers -> ReviewRows \cup {NULL}]
    /\ \A r \in Reviewers : Len(turns[r]) <= MaxTurns

\* A seller whose reply was accepted finds it under the review ever after: of
\* two replies sent side by side one is refused, none is overwritten.
RepliesStay == \A a \in replied : Reviewed(a.review) /\ review[a.review].reply = a.reply

\* Successful hides and unhides of a review alternate, whatever moderators do
\* side by side, and the row names the moderator of the last hide.
ModerationsAlternate ==
    \A r \in Reviewers :
        LET n == Len(turns[r]) IN
        /\ \A i \in 1..n : turns[r][i].hide = (i % 2 = 1)
        /\ n > 0 => review[r].hidden = turns[r][n].hide /\ review[r].hiddenBy = turns[r][n].by
=============================================================================
