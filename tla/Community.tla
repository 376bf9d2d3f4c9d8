-------------------------------- MODULE Community --------------------------------
(***************************************************************************)
(* The marketplace around the orders: forum, traceability, reviews, ads and  *)
(* notifications in one process and one database.  Each request is one        *)
(* handler; the parts share the handlers' slots and the notifications.       *)
(***************************************************************************)
EXTENDS Forum, Traceability, Reviews, Ads, TLC

communityVars ==
    <<call, forumRows, traceRows, reviewRows, notificationRows, adRows>>

CommunityInit ==
    /\ HandlersInit
    /\ ForumInit /\ TraceInit /\ ReviewsInit /\ NotificationsInit /\ AdsInit

CommunityNext ==
    /\ UNCHANGED mix
    /\ \E c \in Calls :
        \/ ForumStep(c)
           /\ UNCHANGED <<traceRows, reviewRows, notificationRows, adRows>>
        \/ TraceStep(c)
           /\ UNCHANGED <<forumRows, reviewRows, notificationRows, adRows>>
        \/ ReviewsStep(c)
           /\ UNCHANGED <<forumRows, traceRows, notificationRows, adRows>>
        \/ NotificationsStep(c)
           /\ UNCHANGED <<forumRows, traceRows, reviewRows, adRows>>
        \/ AdsStep(c)
           /\ UNCHANGED <<forumRows, traceRows, reviewRows>>

CommunitySpec == CommunityInit /\ [][CommunityNext]_<<communityVars, mix>>

\* Every variable of every part has its type.
CommunityTypeOK ==
    ForumTypeOK /\ TraceTypeOK /\ ReviewsTypeOK /\ NotificationsTypeOK /\ AdsTypeOK
=============================================================================
