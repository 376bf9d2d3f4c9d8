------------------------------- MODULE MCPlatform -------------------------------
(* Instance of Community and of Sessions for TLC: two handlers at a time, and   *)
(* the operations that can disturb each other served together.  The two have no *)
(* table in common, so a behaviour serves operations of the one or of the other. *)
EXTENDS Community, Sessions

CONSTANTS c1, c2, u1, u2, e1, e2, g1, k1, k2

MCNews == Tidings

MCSeeded == u1 :> [email |-> e1, uid |-> NULL, role |-> "member",
                   status |-> "active", verified |-> TRUE]
MCSeededCodes == <<[email |-> e1, code |-> k1, purpose |-> "login",
                    created |-> 0, used |-> FALSE, uses |-> 0],
                   [email |-> e2, code |-> k1, purpose |-> "register",
                    created |-> 0, used |-> FALSE, uses |-> 0]>>
MCSeededTokens == <<[user |-> u1, issued |-> 0, revoked |-> FALSE, login |-> 1, begun |-> 0]>>

SessionMixes ==
    {{"signing-in", "changing"}, {"refreshing", "changing"},
     {"signing-in", "refreshing", "sweeping"},
     {"counting"}, {"consuming", "updating"}, {"registering", "syncing", "updating"}}
CommunityMixes ==
    {{"liking", "commenting", "uncommenting"}, {"liking", "viewing", "editing", "deleting"},
     {"locking-key", "locking-batch"},
     {"checking-buyer", "finding-review", "finding-hidden"},
     {"finding-package", "finding-campaign", "finding-pending", "finding-shown"},
     {"finding-package", "finding-pending", "finding-notice", "marking-all"}}
MCMixes == SessionMixes \cup CommunityMixes

MCInit == CommunityInit /\ SessionsInit

MCNext ==
    \/ /\ mix \in CommunityMixes
       /\ CommunityNext
       /\ UNCHANGED <<accountRows, sessionRows>>
    \/ /\ mix \in SessionMixes
       /\ SessionsNext
       /\ UNCHANGED <<mix, forumRows, traceRows, reviewRows, notificationRows, adRows>>

MCSpec == MCInit /\ [][MCNext]_<<communityVars, mix, accountRows, sessionRows>>

Symmetry == Permutations(Calls) \cup Permutations(Keys) \cup Permutations(Batches)
=============================================================================
