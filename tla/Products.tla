-------------------------------- MODULE Products --------------------------------
(***************************************************************************)
(* One product with its images, its certifications and their private files.  *)
(* Use cases load the product with its images and certifications, change the *)
(* object and save it: save() writes every column of the product and, by      *)
(* cascade, of the images and certifications in memory that differs from the *)
(* stored one.  Moderation and certification review use conditional UPDATEs. *)
(***************************************************************************)
EXTENDS Notifications, FiniteSets

CONSTANTS
    MaxImages, MaxCerts,  \* bounds on the rows of the two tables
    Papers,         \* private files of the seller
    Agents,         \* administrators and state agency
    Fans,           \* users with a wishlist
    MaxMoves        \* bound on the moderations

ASSUME ProductsAssumption ==
    /\ MaxCerts \in Nat
    /\ Owners # {}
    /\ [about : {"product"}, says : {"pending_approval", "active", "out_of_stock"}] \subseteq News

VARIABLES
    status,     \* of the product
    images,     \* its images: id -> is_primary
    certs,      \* its certifications: id -> row
    papers,     \* each file: its status and whether it is attached to the product
    wished,     \* users who have the product on their wishlist
    audits,     \* audit rows of the moderation, and what was asked (history)
    moves,      \* history: what moderations have really changed
    drawn,      \* history: ids of certifications drawn so far
    verdicts,   \* history: reviews of certifications answered with success
    disturbed   \* history: a save wrote over what it had not read, a handler died,
                \* a compensation failed, two certifications share a file, or the
                \* answer of a write to a certification or of a review was lost

productRows ==
    <<status, images, certs, papers, wished, audits, moves, drawn, verdicts, disturbed>>

ProductStatus == {"draft", "pending_approval", "active", "out_of_stock", "rejected", "suspended"}
Verdicts == {"verified", "rejected"}
CertRows == [status : {"pending"} \cup Verdicts, by : Agents \cup {NULL}, file : Papers]
Seller == CHOOSE u \in Owners : TRUE

\* createAtomically: a draft, here without images; an edit adds the first.
ProductsInit ==
    /\ status = "draft"
    /\ images = << >>
    /\ certs = << >>
    /\ papers = [f \in Papers |-> [status |-> "QUARANTINED", attached |-> FALSE]]
    /\ wished = {} /\ audits = {} /\ moves = {} /\ drawn = {} /\ verdicts = {}
    /\ disturbed = FALSE

\* What findByIdWithRelations loads.
Loaded == [status |-> status, images |-> images, certs |-> certs]

\* A request about the product by somebody who may.  Once a behaviour is
\* disturbed, its requests come one at a time.
Ask(c, frame) ==
    /\ disturbed => Quiet
    /\ Receive(c, frame)
    /\ UNCHANGED productRows

\* A table with one row more.
Inserted(rows, k, row) == [i \in DOMAIN rows \cup {k} |-> IF i = k THEN row ELSE rows[i]]

\* The lowest number of an image that neither a row nor a handler has, if any.
FreshImages ==
    LET held == DOMAIN images \cup
                UNION {DOMAIN call[c].row.images : c \in {d \in Calls : At(d, "saving-product")}} IN
    {i \in 1..MaxImages \ held : 1..i - 1 \subseteq held}

-----------------------------------------------------------------------------
(* Load, change, save *)

EditProduct(c) == Ask(c, [at |-> "loading-edit", what |-> "edit", read |-> NULL, row |-> NULL])

ReplaceImages(c) ==
    \E primary \in BOOLEAN :
        Ask(c, [at |-> "loading-replaced", what |-> "replace", primary |-> primary,
                read |-> NULL, row |-> NULL])

RemoveProduct(c) == Ask(c, [at |-> "loading-edit", what |-> "remove", read |-> NULL, row |-> NULL])

ChangeStatus(c) ==
    \E next \in {"pending_approval", "active", "out_of_stock"}, seller \in BOOLEAN :
        Ask(c, [at |-> "loading-product", what |-> "status", next |-> next, seller |-> seller,
                read |-> NULL, row |-> NULL])

\* assertProductStatusTransition, but for the stock, which may refuse any sale.
Flow == {<<"draft", "pending_approval">>, <<"rejected", "pending_approval">>,
         <<"pending_approval", "active">>, <<"active", "out_of_stock">>,
         <<"out_of_stock", "active">>}
Allowed(ask) ==
    /\ <<status, ask.next>> \in Flow
    /\ ask.next = "pending_approval" => ask.seller
    /\ status = "pending_approval" /\ ask.next = "active" => ~ask.seller

\* The object in memory after the change.  Object.assign replaces all images.
Changed(ask) ==
    CASE ask.what = "remove" -> {[Loaded EXCEPT !.status = "draft"]}
      [] ask.what = "status" -> IF Allowed(ask) THEN {[Loaded EXCEPT !.status = ask.next]} ELSE {}
      [] ask.what = "edit" -> {Loaded}
      [] ask.what = "replace" -> {[Loaded EXCEPT !.images = Inserted(<< >>, i, ask.primary)] : i \in FreshImages}

LoadProduct(c) ==
    /\ At(c, "loading-product") \/ At(c, "loading-edit") \/ At(c, "loading-replaced")
    /\ \/ \E row \in Changed(call[c]) :
            call' = [call EXCEPT ![c].at = "saving-product", ![c].read = Loaded, ![c].row = row]
       \/ End(c)
    /\ UNCHANGED productRows

\* A child that is stored but not in memory would lose its product_id, which is
\* NOT NULL: the save fails.  One in memory but no longer stored is inserted.
Orphans(row) == (DOMAIN images \ DOMAIN row.images) \cup (DOMAIN certs \ DOMAIN row.certs)

SaveProduct(c) ==
    LET row == call[c].row IN
    /\ At(c, "saving-product")
    /\ \/ /\ Orphans(row) = {}
          /\ status' = row.status /\ images' = row.images /\ certs' = row.certs
          /\ disturbed' = (disturbed \/ Loaded # call[c].read)
          /\ IF call[c].what = "status" THEN Goto(c, "notifying-seller") ELSE End(c)
       \/ End(c) /\ UNCHANGED <<status, images, certs, disturbed>>
    /\ UNCHANGED <<papers, wished, audits, moves, drawn, verdicts>>

\* publishStatusChanged; its failure is the answer, the status stays.
NotifySeller(c) ==
    /\ At(c, "notifying-seller")
    /\ \/ CanPublish /\ Publish(Seller, [about |-> "product", says |-> call[c].next])
       \/ UNCHANGED notificationRows
    /\ End(c)
    /\ UNCHANGED productRows

-----------------------------------------------------------------------------
(* Moderation by ProductBoundaryService, audited by AdminService *)

ModerateProduct(c) ==
    /\ Cardinality(moves \cup audits) < MaxMoves
    /\ \E next \in {"active", "rejected", "suspended"} :
         Ask(c, [at |-> "finding-moderated", next |-> next, was |-> NULL, now |-> NULL])

FindModerated(c) ==
    /\ At(c, "finding-moderated")
    /\ call' = [call EXCEPT ![c].was = status, ![c].now = status,
                           ![c].at = IF status = call[c].next THEN "auditing" ELSE "moderating-product"]
    /\ UNCHANGED productRows

\* Mutant of StatusIs: UPDATE ... WHERE id only.
StatusIsAny(expected) == TRUE

\* The WHERE clause of updateStatusConditionally.
StatusIs(expected) == status = expected

ModerateStatus(c) ==
    /\ At(c, "moderating-product")
    /\ IF StatusIs(call[c].was)
       THEN /\ status' = call[c].next
            /\ moves' = moves \cup {[from |-> status, to |-> call[c].next]}
            /\ Goto(c, "rereading-moderated")
       ELSE End(c) /\ UNCHANGED <<status, moves>>
    /\ UNCHANGED <<images, certs, papers, wished, audits, drawn, verdicts, disturbed>>

\* findByIdWithRelations after the UPDATE finds what the status is by now.  When it
\* fails, or the answer of the UPDATE was lost, nobody audits the change.
RereadModerated(c) ==
    /\ At(c, "rereading-moderated")
    /\ \/ call' = [call EXCEPT ![c].at = "auditing", ![c].now = status]
       \/ End(c)
    /\ UNCHANGED productRows

\* createAuditLog: previousStatus is what was read first, status what was read last.
AuditModeration(c) ==
    /\ At(c, "auditing")
    /\ \/ audits' = audits \cup {[from |-> call[c].was, to |-> call[c].now, asked |-> call[c].next]}
       \/ UNCHANGED audits
    /\ End(c)
    /\ UNCHANGED <<status, images, certs, papers, wished, moves, drawn, verdicts, disturbed>>

-----------------------------------------------------------------------------
(* Images *)

AddImage(c) == \E primary \in BOOLEAN : Ask(c, [at |-> "loading-gallery", primary |-> primary])

LoadGallery(c) ==
    /\ At(c, "loading-gallery")
    /\ Goto(c, IF call[c].primary THEN "resetting-primary" ELSE "inserting-image")
    /\ UNCHANGED productRows

\* UPDATE ... SET is_primary = false for the images of the product.
Unset == [i \in DOMAIN images |-> FALSE]

ResetPrimary(c) ==
    /\ At(c, "resetting-primary")
    /\ images' = Unset
    /\ Goto(c, "inserting-image")
    /\ UNCHANGED <<status, certs, papers, wished, audits, moves, drawn, verdicts, disturbed>>

InsertImage(c) ==
    /\ At(c, "inserting-image")
    /\ \/ \E i \in FreshImages : images' = Inserted(images, i, call[c].primary)
       \/ UNCHANGED images
    /\ End(c)
    /\ UNCHANGED <<status, certs, papers, wished, audits, moves, drawn, verdicts, disturbed>>

RemoveImage(c) == \E i \in DOMAIN images : Ask(c, [at |-> "removing-image", image |-> i])

DropImage(c) ==
    /\ At(c, "removing-image")
    /\ images' = [i \in DOMAIN images \ {call[c].image} |-> images[i]]
    /\ End(c)
    /\ UNCHANGED <<status, certs, papers, wished, audits, moves, drawn, verdicts, disturbed>>

-----------------------------------------------------------------------------
(* Certifications and their files *)

Readable(f) == papers[f].status \in {"QUARANTINED", "ACTIVE"}

AddCertification(c) == \E f \in Papers : Ask(c, [at |-> "attaching-paper", file |-> f])

\* attachOwnedFile: a file attached to the same product may be attached again.
AttachPaper(c) ==
    LET f == call[c].file IN
    /\ At(c, "attaching-paper")
    /\ \/ /\ Readable(f)
          /\ papers' = [papers EXCEPT ![f].attached = TRUE]
          /\ disturbed' = (disturbed \/ papers[f].attached)
          /\ Goto(c, "inserting-certificate")
       \* The answer of the UPDATE is lost: attached, and no certification.
       \/ Readable(f) /\ papers' = [papers EXCEPT ![f].attached = TRUE] /\ End(c) /\ UNCHANGED disturbed
       \/ End(c) /\ UNCHANGED <<papers, disturbed>>
    /\ UNCHANGED <<status, images, certs, wished, audits, moves, drawn, verdicts>>

\* addCertification, or its error, which may be that the answer of the INSERT is lost:
\* the certification is there, and its file will be detached.
InsertCertification(c) ==
    /\ At(c, "inserting-certificate")
    /\ \/ \E k \in {Cardinality(drawn) + 1} \cap (1..MaxCerts) :
            /\ certs' = Inserted(certs, k, [status |-> "pending", by |-> NULL, file |-> call[c].file])
            /\ drawn' = drawn \cup {k}
            /\ \/ End(c) /\ UNCHANGED disturbed
               \/ Goto(c, "detaching-paper") /\ disturbed' = TRUE
       \/ Goto(c, "detaching-paper") /\ UNCHANGED <<certs, drawn, disturbed>>
    /\ UNCHANGED <<status, images, papers, wished, audits, moves, verdicts>>

\* The compensation, or ProductCertificationConsistencyError.
DetachPaper(c) ==
    /\ At(c, "detaching-paper")
    /\ \/ papers' = [papers EXCEPT ![call[c].file].attached = FALSE] /\ UNCHANGED disturbed
       \/ disturbed' = TRUE /\ UNCHANGED papers
    /\ End(c)
    /\ UNCHANGED <<status, images, certs, wished, audits, moves, drawn, verdicts>>

RemoveCertification(c) ==
    \E k \in drawn : Ask(c, [at |-> "finding-removed", cert |-> k, row |-> NULL])

FindRemoved(c) ==
    LET k == call[c].cert IN
    /\ At(c, "finding-removed")
    /\ IF k \in DOMAIN certs THEN Keep(c, "removing-certificate", certs[k]) ELSE End(c)
    /\ UNCHANGED productRows

\* removeCertificationByProduct; who finds nothing to remove answers "not found".
DropCertification(c) ==
    LET k == call[c].cert IN
    /\ At(c, "removing-certificate")
    /\ IF k \in DOMAIN certs THEN Goto(c, "retiring-paper") ELSE End(c)
    /\ certs' = [d \in DOMAIN certs \ {k} |-> certs[d]]
    /\ UNCHANGED <<status, images, papers, wished, audits, moves, drawn, verdicts, disturbed>>

\* retireOwnedFile; when it fails the row is gone and the file is left.
RetirePaper(c) ==
    /\ At(c, "retiring-paper")
    /\ \/ papers' = [papers EXCEPT ![call[c].row.file].status = "DELETED"]
       \/ UNCHANGED papers
    /\ End(c)
    /\ UNCHANGED <<status, images, certs, wished, audits, moves, drawn, verdicts, disturbed>>

VerifyCertification(c) ==
    \E k \in drawn, a \in Agents, verdict \in Verdicts :
        Ask(c, [at |-> "finding-unverified", cert |-> k, by |-> a, verdict |-> verdict, row |-> NULL])

FindUnverified(c) ==
    LET k == call[c].cert IN
    /\ At(c, "finding-unverified")
    /\ IF k \in DOMAIN certs /\ certs[k].status = "pending"
       THEN Keep(c, "deciding", certs[k]) ELSE End(c)
    /\ UNCHANGED productRows

\* Mutant of HasStatus: UPDATE ... WHERE id only.
HasAnyStatus(k, expected) == k \in DOMAIN certs

\* The WHERE clause of transitionCertification.
HasStatus(k, expected) == k \in DOMAIN certs /\ certs[k].status = expected

Transition(c) ==
    LET k == call[c].cert IN
    /\ At(c, "deciding")
    /\ IF HasStatus(k, "pending")
       THEN /\ certs' = [certs EXCEPT ![k].status = call[c].verdict, ![k].by = call[c].by]
            /\ Goto(c, "rereading-certificate")
       ELSE End(c) /\ UNCHANGED certs
    /\ UNCHANGED <<status, images, papers, wished, audits, moves, drawn, verdicts, disturbed>>

\* findByIdWithProduct after the UPDATE; a certification removed since is a conflict.
\* When it fails, or the answer of the UPDATE was lost, the decision stays and no
\* file is reviewed: the compensation starts after this await.
RereadCertification(c) ==
    /\ At(c, "rereading-certificate")
    /\ \/ /\ IF call[c].cert \in DOMAIN certs THEN Goto(c, "reading-paper") ELSE End(c)
          /\ UNCHANGED disturbed
       \/ End(c) /\ disturbed' = TRUE
    /\ UNCHANGED <<status, images, certs, papers, wished, audits, moves, drawn, verdicts>>

\* The decision reviewOwnedFile is asked for.
FileVerdict(c) == IF call[c].verdict = "verified" THEN "ACTIVE" ELSE "FAILED"

Answered(c) ==
    verdicts' = verdicts \cup {[cert |-> call[c].cert, by |-> call[c].by, verdict |-> call[c].verdict]}

\* reviewFile: a file that has the verdict already, one that may be reviewed, one
\* that may not, or a failure.
ReadPaper(c) ==
    LET file == papers[call[c].row.file].status IN
    /\ At(c, "reading-paper")
    /\ \/ file = FileVerdict(c) /\ Answered(c) /\ End(c)
       \/ file = "QUARANTINED" /\ Goto(c, "reviewing-paper") /\ UNCHANGED verdicts
       \/ Goto(c, "restoring-certificate") /\ UNCHANGED verdicts
    /\ UNCHANGED <<status, images, certs, papers, wished, audits, moves, drawn, disturbed>>

\* updateStatus, whatever the file has become since it was read: its UPDATE fails,
\* or goes through, and then its SELECT may fail.
ReviewPaper(c) ==
    /\ At(c, "reviewing-paper")
    /\ \/ /\ papers' = [papers EXCEPT ![call[c].row.file].status = FileVerdict(c)]
          /\ \/ Answered(c) /\ End(c) /\ UNCHANGED disturbed
             \/ Goto(c, "restoring-certificate") /\ disturbed' = TRUE /\ UNCHANGED verdicts
       \/ Goto(c, "restoring-certificate") /\ UNCHANGED <<papers, verdicts, disturbed>>
    /\ UNCHANGED <<status, images, certs, wished, audits, moves, drawn>>

\* Mutant of Restored: the decision is left as it is.
RestoredNothing(row, read) == row

\* The values restoreCertificationTransition writes.
Restored(row, read) == [row EXCEPT !.status = read.status, !.by = read.by]

\* The compensation: the decision is still there and undone, or
\* ProductCertificationConsistencyError.
RestoreCertification(c) ==
    LET k == call[c].cert IN
    /\ At(c, "restoring-certificate")
    /\ \/ /\ k \in DOMAIN certs /\ certs[k].status = call[c].verdict /\ certs[k].by = call[c].by
          /\ certs' = [certs EXCEPT ![k] = Restored(@, call[c].row)]
          /\ UNCHANGED disturbed
       \/ disturbed' = TRUE /\ UNCHANGED certs
    /\ End(c)
    /\ UNCHANGED <<status, images, papers, wished, audits, moves, drawn, verdicts>>

-----------------------------------------------------------------------------
(* Wishlists *)

AddWish(c) == \E u \in Fans : Ask(c, [at |-> "finding-active", fan |-> u])

FindActive(c) ==
    /\ At(c, "finding-active")
    /\ IF status = "active" THEN Goto(c, "wishing") ELSE End(c)
    /\ UNCHANGED productRows

\* INSERT ... ON CONFLICT DO NOTHING, and the row is read back.
InsertWish(c) ==
    /\ At(c, "wishing")
    /\ wished' = wished \cup {call[c].fan}
    /\ End(c)
    /\ UNCHANGED <<status, images, certs, papers, audits, moves, drawn, verdicts, disturbed>>

RemoveWish(c) == \E u \in Fans : Ask(c, [at |-> "unwishing", fan |-> u])

DeleteWish(c) ==
    /\ At(c, "unwishing")
    /\ wished' = wished \ {call[c].fan}
    /\ End(c)
    /\ UNCHANGED <<status, images, certs, papers, audits, moves, drawn, verdicts, disturbed>>

-----------------------------------------------------------------------------

\* The process dies in the middle of a request about the product.
CrashProduct(c) ==
    /\ "user" \notin DOMAIN call[c] /\ Die(c)
    /\ disturbed' = TRUE
    /\ UNCHANGED <<status, images, certs, papers, wished, audits, moves, drawn, verdicts>>

ProductsStep(c) ==
    \/ NotifySeller(c)
    \/ /\ \/ EditProduct(c) \/ ReplaceImages(c) \/ RemoveProduct(c) \/ ChangeStatus(c) \/ LoadProduct(c) \/ SaveProduct(c)
          \/ ModerateProduct(c) \/ FindModerated(c) \/ ModerateStatus(c) \/ RereadModerated(c) \/ AuditModeration(c)
          \/ AddImage(c) \/ LoadGallery(c) \/ ResetPrimary(c) \/ InsertImage(c)
          \/ RemoveImage(c) \/ DropImage(c)
          \/ AddCertification(c) \/ AttachPaper(c) \/ InsertCertification(c) \/ DetachPaper(c)
          \/ RemoveCertification(c) \/ FindRemoved(c) \/ DropCertification(c) \/ RetirePaper(c)
          \/ VerifyCertification(c) \/ FindUnverified(c) \/ Transition(c) \/ RereadCertification(c)
          \/ ReadPaper(c) \/ ReviewPaper(c) \/ RestoreCertification(c)
          \/ AddWish(c) \/ FindActive(c) \/ InsertWish(c) \/ RemoveWish(c) \/ DeleteWish(c)
          \/ CrashProduct(c)
       /\ UNCHANGED notificationRows

\* The catalogue: products and the notifications of their sellers.
catalogueVars == <<call, productRows, notificationRows>>

CatalogueInit == HandlersInit /\ ProductsInit /\ NotificationsInit

CatalogueNext ==
    /\ UNCHANGED mix
    /\ \E c \in Calls :
        \/ ProductsStep(c)
        \/ NotificationsStep(c) /\ UNCHANGED productRows

CatalogueSpec == CatalogueInit /\ [][CatalogueNext]_<<catalogueVars, mix>>

-----------------------------------------------------------------------------
(* Properties *)

\* Every variable has its type.
ProductsTypeOK ==
    /\ NotificationsTypeOK
    /\ status \in ProductStatus
    /\ images \in UNION {[I -> BOOLEAN] : I \in SUBSET (1..MaxImages)}
    /\ certs \in UNION {[K -> CertRows] : K \in SUBSET (1..MaxCerts)} /\ DOMAIN certs \subseteq drawn
    /\ papers \in [Papers -> [status : {"QUARANTINED", "ACTIVE", "FAILED", "DELETED"}, attached : BOOLEAN]]
    /\ wished \subseteq Fans

\* The audit of a moderation names as the previous status the one that was replaced
\* by what the moderator asked for, although it was read before: a second moderator,
\* or the seller, who comes in between makes the UPDATE miss.
AuditsTellWhatChanged ==
    \A a \in audits : a.from = a.asked \/ [from |-> a.from, to |-> a.asked] \in moves

\* Not kept: the audit names the change that was made.  The new status is read again
\* after the UPDATE, and the seller or another moderator may have changed it since.
AuditsTellTheChange ==
    \A a \in audits : a.from = a.to \/ [from |-> a.from, to |-> a.to] \in moves

\* Once no request is being served, the file of a certification is attached and
\* has the verdict of the certification, whichever statements failed on the way
\* and were compensated.
CertificatesMatchFiles ==
    Quiet /\ ~disturbed =>
        \A k \in DOMAIN certs :
            papers[certs[k].file] =
                [attached |-> TRUE,
                 status |-> CASE certs[k].status = "pending" -> "QUARANTINED"
                              [] certs[k].status = "verified" -> "ACTIVE"
                              [] certs[k].status = "rejected" -> "FAILED"]

\* A product has no more primary images than there were requests at a time.
PrimaryImagesAreFew ==
    ~disturbed => Cardinality({i \in DOMAIN images : images[i]}) <= Cardinality(Calls)

\* ADR 0007, item 9: one reviewer wins a certification.
OneReviewerWins == \A v, w \in verdicts : v.cert = w.cert => v = w

\* What is left of that promise: neither two reviews that race, nor a removal, nor a
\* review taken back lets a second reviewer win; what can is the save of an edit that
\* had loaded the certification before, a handler that died or could not compensate,
\* or a lost answer.
UndisturbedReviewerWins == ~disturbed => OneReviewerWins
=============================================================================
