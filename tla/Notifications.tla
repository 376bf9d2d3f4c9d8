------------------------------ MODULE Notifications ------------------------------
(***************************************************************************)
(* The notifications of the users.  A row is written first; the realtime     *)
(* event that announces the change is best effort and its failure is only    *)
(* logged.                                                                   *)
(***************************************************************************)
EXTENDS Handlers, Integers, Sequences

CONSTANTS
    Owners,     \* users who are notified
    News,       \* what a notification may say
    MaxInbox    \* bound on the notifications

ASSUME NotificationsAssumption == MaxInbox \in Nat

VARIABLES
    inbox,      \* the rows in the order of their creation
    announced      \* history: marked_read events emitted for each row

notificationRows == <<inbox, announced>>

\* turns is history: the requests that have made the row read.
Notices == [owner : Owners, news : News, read : BOOLEAN, turns : Nat]

NotificationsInit == inbox = <<>> /\ announced = [i \in 1..MaxInbox |-> 0]

\* PublishNotificationUseCase: the INSERT; other handlers await it.
Publish(owner, news) ==
    /\ inbox' = Append(inbox, [owner |-> owner, news |-> news, read |-> FALSE, turns |-> 0])
    /\ UNCHANGED announced

CanPublish == Len(inbox) < MaxInbox

MarkRead(c) ==
    /\ \E i \in DOMAIN inbox, u \in Owners :
         Receive(c, [at |-> "finding-notice", notice |-> i, user |-> u])
    /\ UNCHANGED notificationRows

\* findByIdForUser: another user's row is not found, a read one is the answer.
FindNotice(c) ==
    LET row == inbox[call[c].notice] IN
    /\ At(c, "finding-notice")
    /\ IF row.owner = call[c].user /\ ~row.read THEN Goto(c, "marking-read") ELSE End(c)
    /\ UNCHANGED notificationRows

\* The condition on is_read in the WHERE clauses of markOneAsRead and markAllAsRead.
Unread(i) == ~inbox[i].read

Marked(i) == [inbox[i] EXCEPT !.read = TRUE, !.turns = @ + 1]

\* markOneAsRead; the loser of a race answers with the row as it is.
MarkOne(c) ==
    LET i == call[c].notice IN
    /\ At(c, "marking-read")
    /\ IF Unread(i) THEN inbox' = [inbox EXCEPT ![i] = Marked(i)] /\ Goto(c, "announcing")
                    ELSE End(c) /\ UNCHANGED inbox
    /\ UNCHANGED announced

\* The row is read again and marked_read is emitted, if the socket takes it.
Announce(c) ==
    /\ At(c, "announcing")
    /\ \/ announced' = [announced EXCEPT ![call[c].notice] = @ + 1]
       \/ UNCHANGED announced
    /\ End(c)
    /\ UNCHANGED inbox

MarkAllRead(c) ==
    /\ \E u \in Owners : Receive(c, [at |-> "marking-all", user |-> u])
    /\ UNCHANGED notificationRows

\* One UPDATE for all rows of the user.
MarkAll(c) ==
    /\ At(c, "marking-all")
    /\ inbox' = [i \in DOMAIN inbox |->
                   IF inbox[i].owner = call[c].user /\ Unread(i) THEN Marked(i) ELSE inbox[i]]
    /\ End(c)
    /\ UNCHANGED announced

NotificationsStep(c) ==
    \/ MarkRead(c) \/ FindNotice(c) \/ MarkOne(c) \/ Announce(c) \/ MarkAllRead(c) \/ MarkAll(c)

-----------------------------------------------------------------------------
(* Properties *)

\* Every variable has its type.
NotificationsTypeOK ==
    /\ inbox \in Seq(Notices) /\ Len(inbox) <= MaxInbox
    /\ announced \in [1..MaxInbox -> Nat]

\* A notification is made read by exactly one request, whichever requests for
\* one or for all of them race, and no second marked_read event is emitted.
ReadOnce ==
    \A i \in DOMAIN inbox :
        /\ inbox[i].turns = IF inbox[i].read THEN 1 ELSE 0
        /\ announced[i] <= inbox[i].turns
=============================================================================
