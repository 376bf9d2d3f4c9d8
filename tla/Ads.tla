------------------------------------ MODULE Ads ------------------------------------
(***************************************************************************)
(* Ad campaigns: moderated by a conditional UPDATE, paused and resumed by    *)
(* their supplier with an unconditional one, counted while they are active.  *)
(* The decision is stored before the supplier is notified.                   *)
(***************************************************************************)
EXTENDS Notifications, FiniteSets

CONSTANTS
    Campaigns,
    Admins

VARIABLES
    campaign,   \* the row of each campaign, NULL before it is created
    counted,    \* campaigns that have an impression or a click
    decided,    \* history: decisions stored
    unsent      \* history: campaigns whose notification failed or whose handler
                \* died before it

adRows == <<campaign, counted, decided, unsent>>

\* The supplier of a campaign is the user who is notified.
AdRows == [supplier : Owners, by : Admins \cup {NULL},
           status : {"pending_approval", "active", "paused", "rejected"}]
Decisions == [campaign : Campaigns, status : {"active", "rejected"}, by : Admins]

\* A notification of a decision, and the status it shows beside it.
Tidings == [about : Campaigns, says : {"active", "rejected"},
            shows : {"active", "paused", "rejected"}]

ASSUME AdsAssumption ==
    /\ Tidings \subseteq News
    /\ NULL \notin AdRows

AdsInit ==
    /\ campaign = [k \in Campaigns |-> NULL]
    /\ counted = {}
    /\ decided = {}
    /\ unsent = {}

AdStatus(k) == IF campaign[k] = NULL THEN "none" ELSE campaign[k].status

\* A request about a campaign: anyone names it, its supplier owns it.
About(c, frame) == Receive(c, frame) /\ UNCHANGED adRows

-----------------------------------------------------------------------------
(* The supplier *)

CreateCampaign(c) ==
    \E k \in Campaigns, u \in Owners :
        About(c, [at |-> "finding-package", campaign |-> k, supplier |-> u])

\* findActivePackageById, then the INSERT.
SaveCampaign(c) ==
    LET k == call[c].campaign IN
    /\ At(c, "finding-package")
    /\ \/ /\ campaign[k] = NULL
          /\ campaign' = [campaign EXCEPT ![k] =
                [supplier |-> call[c].supplier, status |-> "pending_approval", by |-> NULL]]
       \/ UNCHANGED campaign
    /\ End(c)
    /\ UNCHANGED <<counted, decided, unsent>>

PauseOrResume(c) ==
    \E k \in Campaigns, u \in Owners, next \in {"paused", "active"} :
        About(c, [at |-> "finding-campaign", campaign |-> k, supplier |-> u, next |-> next])

\* assertCampaignCanBePaused and assertCampaignCanBeResumed.
CanSwitch(status, next) == status = (IF next = "paused" THEN "active" ELSE "paused")

\* findCampaignById, assertCampaignOwner and the policy.
FindCampaign(c) ==
    LET k == call[c].campaign IN
    /\ At(c, "finding-campaign")
    /\ IF /\ campaign[k] # NULL /\ campaign[k].supplier = call[c].supplier
          /\ CanSwitch(campaign[k].status, call[c].next)
       THEN Goto(c, "switching") ELSE End(c)
    /\ UNCHANGED adRows

\* updateCampaignStatus: UPDATE ... WHERE id.
Switch(c) ==
    /\ At(c, "switching")
    /\ campaign' = [campaign EXCEPT ![call[c].campaign].status = call[c].next]
    /\ End(c)
    /\ UNCHANGED <<counted, decided, unsent>>

-----------------------------------------------------------------------------
(* The administrators *)

Moderate(c) ==
    \E k \in Campaigns, a \in Admins, status \in {"active", "rejected"} :
        About(c, [at |-> "finding-pending", campaign |-> k, admin |-> a, status |-> status, row |-> NULL])

\* findCampaignById and assertCampaignCanBeModerated; a package without duration
\* ends an approval.
FindPending(c) ==
    /\ At(c, "finding-pending")
    /\ \/ AdStatus(call[c].campaign) = "pending_approval" /\ Goto(c, "moderating")
       \/ End(c)
    /\ UNCHANGED adRows

\* Mutant of StillPending: UPDATE ... WHERE id only.
StillPendingAsRead(k) == TRUE

\* The WHERE clause of moderateCampaign.
StillPending(k) == AdStatus(k) = "pending_approval"

ModerateCampaign(c) ==
    LET k == call[c].campaign
        status == call[c].status
        by == call[c].admin IN
    /\ At(c, "moderating")
    /\ IF StillPending(k)
       THEN /\ campaign' = [campaign EXCEPT ![k].status = status, ![k].by = by]
            /\ decided' = decided \cup {[campaign |-> k, status |-> status, by |-> by]}
            /\ Goto(c, "rereading-campaign")
       ELSE End(c) /\ UNCHANGED <<campaign, decided>>
    /\ UNCHANGED <<counted, unsent>>

\* The findCampaignById that follows and finds what the row is by now.  When it fails, or the answer of the UPDATE was lost,
\* the decision stays and nobody is told.
RereadCampaign(c) ==
    LET k == call[c].campaign IN
    /\ At(c, "rereading-campaign")
    /\ \/ Keep(c, "notifying-supplier", campaign[k]) /\ UNCHANGED unsent
       \/ unsent' = unsent \cup {k} /\ End(c)
    /\ UNCHANGED <<campaign, counted, decided>>

\* publish(): the row of the notification, or the error of its INSERT.  Its title is
\* the decision, its data show the status that was found after it.
NotifySupplier(c) ==
    LET k == call[c].campaign
        row == call[c].row IN
    /\ At(c, "notifying-supplier")
    /\ \/ /\ CanPublish
          /\ Publish(row.supplier, [about |-> k, says |-> call[c].status, shows |-> row.status])
          /\ UNCHANGED unsent
       \/ unsent' = unsent \cup {k} /\ UNCHANGED notificationRows
    /\ End(c)
    /\ UNCHANGED <<campaign, counted, decided>>

-----------------------------------------------------------------------------
(* The public *)

TrackEvent(c) ==
    \E k \in Campaigns : About(c, [at |-> "finding-shown", campaign |-> k, user |-> NULL])

FindShown(c) ==
    /\ At(c, "finding-shown")
    /\ IF AdStatus(call[c].campaign) = "active" THEN Goto(c, "recording") ELSE End(c)
    /\ UNCHANGED adRows

RecordEvent(c) ==
    /\ At(c, "recording")
    /\ counted' = counted \cup {call[c].campaign}
    /\ End(c)
    /\ UNCHANGED <<campaign, decided, unsent>>

\* Between the decision and the end of its handler.
Telling(c) == At(c, "rereading-campaign") \/ At(c, "notifying-supplier")

\* The process dies in the middle of a request.
CrashAd(c) ==
    /\ "campaign" \in DOMAIN call[c] /\ Die(c)
    /\ unsent' = IF Telling(c) THEN unsent \cup {call[c].campaign} ELSE unsent
    /\ UNCHANGED <<campaign, counted, decided>>

AdsStep(c) ==
    \/ NotifySupplier(c)
    \/ /\ \/ CreateCampaign(c) \/ SaveCampaign(c)
          \/ PauseOrResume(c) \/ FindCampaign(c) \/ Switch(c)
          \/ Moderate(c) \/ FindPending(c) \/ ModerateCampaign(c) \/ RereadCampaign(c)
          \/ TrackEvent(c) \/ FindShown(c) \/ RecordEvent(c) \/ CrashAd(c)
       /\ UNCHANGED notificationRows

-----------------------------------------------------------------------------
(* Properties *)

\* Every variable has its type.
AdsTypeOK ==
    /\ campaign \in [Campaigns -> AdRows \cup {NULL}]
    /\ counted \subseteq Campaigns /\ unsent \subseteq Campaigns
    /\ decided \subseteq Decisions

\* A campaign is decided once and stays so: its row names the moderator who won,
\* a rejected campaign is never switched on, and only an approved one counts
\* views, although pausing and resuming write whatever the row has become.
DecisionStands ==
    \A k \in Campaigns :
        \/ AdStatus(k) \in {"none", "pending_approval"} /\ k \notin counted
           /\ \A d \in decided : d.campaign # k
        \/ \E d \in decided :
            /\ {e \in decided : e.campaign = k} = {d}
            /\ campaign[k].by = d.by
            /\ (d.status = "rejected") = (campaign[k].status = "rejected")
            /\ k \in counted => d.status = "active"

\* The supplier is told once what was decided, unless the handler fails between
\* the decision and the notification: nothing repeats it then.  The status shown
\* beside the decision was read after it, and does not contradict it.
DecisionsAreTold ==
    \A d \in decided :
        LET told == {i \in DOMAIN inbox : inbox[i].news.about = d.campaign} IN
        /\ \A i \in told : /\ inbox[i].news.says = d.status
                           /\ (inbox[i].news.shows = "rejected") = (d.status = "rejected")
                           /\ inbox[i].owner = campaign[d.campaign].supplier
        /\ \/ Cardinality(told) = 1
           \/ told = {} /\ d.campaign \in unsent
           \/ told = {} /\ \E c \in Calls : Telling(c) /\ call[c].campaign = d.campaign
=============================================================================
