------------------------- MODULE MCProfileVerification -------------------------
(* Instances of ProfileVerification for TLC.  The requests of farmers and     *)
(* cooperatives come one after the other, those about an enterprise overlap.  *)
EXTENDS ProfileVerification, TLC

CONSTANTS front, back, licence, f1, f2, f3

MCKinds == {"farmer", "cooperative", "enterprise"}
MCColumns == "farmer" :> {front, back} @@ "cooperative" :> {front, back} @@ "enterprise" :> {licence}
MCOffered == front :> {f1, f2} @@ back :> {f3} @@ licence :> {f3}
\* A file may be named for one column and later for another.
OfferedForBoth == front :> {f1, f2} @@ back :> {f1, f2} @@ licence :> {f3}

CallReviewerSymmetry ==
    Permutations(Calls) \cup Permutations(Reviewers) \cup Permutations(Ids) \cup Permutations({f1, f2})
=============================================================================
