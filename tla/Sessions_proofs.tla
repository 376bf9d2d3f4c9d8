---------------------------- MODULE Sessions_proofs ----------------------------
(***************************************************************************)
(* Proofs about Sessions and Accounts for every set of accounts, codes and   *)
(* tokens, every number of requests at a time and every mix of operations.   *)
(***************************************************************************)
EXTENDS Sessions, SequenceTheorems, FiniteSetTheorems, TLAPS

USE AccountsAssumption, SlotsAssumption, SessionsAssumption

\* What no step takes back: accounts, the rows of codes and tokens, and that a
\* request had begun when the account could log in.
Grows ==
    /\ \A u \in Users : Exists(u) => Exists(u)'
    /\ \A u \in Users, n \in Nat : Begun(u, n) => Begun(u, n)'
    /\ DOMAIN codes \subseteq DOMAIN codes'
    /\ DOMAIN tokens \subseteq DOMAIN tokens'
    /\ \A t \in DOMAIN tokens : tokens'[t].user = tokens[t].user

\* The stage of a frame tells its shape.
LEMMA FrameShapes ==
    ASSUME NEW f \in Frames
    PROVE  /\ f.at = "registering" => f \in RegisterFrames
           /\ f.at \in {"syncing", "matching", "linking"} => f \in SyncFrames
           /\ f.at = "creating" => f \in RegisterFrames \cup SyncFrames
           /\ f.at \in {"counting", "addressing", "storing"} => f \in SendFrames
           /\ f.at \in {"consuming", "marking", "verifying", "flagging"} => f \in ShowFrames
           /\ f.at = "signing-in" => f \in ShowFrames \cup LoginFrames
           /\ f.at = "issuing" => f \in SyncFrames \cup ShowFrames \cup LoginFrames
           /\ f.at = "inserting" => f \in InsertFrames
           /\ f.at = "refreshing" => f \in RefreshFrames
           /\ f.at = "rotating" => f \in RotateFrames
           /\ f.at \in {"changing", "auditing"} => f \in ChangeFrames
           /\ f.at \in {"sweeping", "revoking"} => f \in ChangeFrames \cup LogoutFrames
<1>1. f = Idle => f.at = "idle"
    BY DEF Idle
<1>2. f \in RegisterFrames => f.at \in {"registering", "creating"}
    BY DEF RegisterFrames
<1>3. f \in SyncFrames => f.at \in {"syncing", "matching", "creating", "linking", "issuing"}
    BY DEF SyncFrames
<1>4. f \in SendFrames => f.at \in {"counting", "addressing", "storing"}
    BY DEF SendFrames
<1>5. f \in ShowFrames =>
        f.at \in {"consuming", "marking", "verifying", "flagging", "signing-in", "issuing"}
    BY DEF ShowFrames
<1>6. f \in LoginFrames => f.at \in {"signing-in", "issuing"}
    BY DEF LoginFrames
<1>7. f \in InsertFrames => f.at = "inserting"
    BY DEF InsertFrames
<1>8. f \in RefreshFrames => f.at = "refreshing"
    BY DEF RefreshFrames
<1>9. f \in RotateFrames => f.at = "rotating"
    BY DEF RotateFrames
<1>10. f \in ChangeFrames => f.at \in {"changing", "sweeping", "revoking", "auditing"}
    BY DEF ChangeFrames
<1>11. f \in LogoutFrames => f.at \in {"sweeping", "revoking"}
    BY DEF LogoutFrames
<1> QED
    BY <1>1, <1>2, <1>3, <1>4, <1>5, <1>6, <1>7, <1>8, <1>9, <1>10, <1>11 DEF Frames

\* A frame of a request whose rows only grow holds on.
LEMMA FrameKept ==
    ASSUME Grows, NEW f \in Frames, FrameHolds(f),
           \A t \in DOMAIN tokens : tokens[t].user \in Users
    PROVE  FrameHolds(f)'
<1>1. f.at \in {"linking", "flagging", "issuing"} => f.user \in Users /\ Exists(f.user)'
    BY DEF Grows, FrameHolds
<1>2. f.at = "marking" => f.row \in DOMAIN codes'
    BY DEF Grows, FrameHolds
<1>3. f.at = "inserting" => Begun(f.user, f.begun)'
    <2> SUFFICES ASSUME f.at = "inserting" PROVE Begun(f.user, f.begun)'
        OBVIOUS
    <2>1. f.user \in Users /\ f.begun \in Nat
        BY FrameShapes DEF InsertFrames
    <2> QED
        BY <2>1 DEF Grows, FrameHolds
<1>4. f.at \in {"refreshing", "rotating"} => f.token \in DOMAIN tokens'
    BY DEF Grows, FrameHolds
<1>5. f.at = "rotating" => Begun(tokens[f.token].user, f.begun)'
    <2> SUFFICES ASSUME f.at = "rotating" PROVE Begun(tokens[f.token].user, f.begun)'
        OBVIOUS
    <2>1. f.begun \in Nat /\ f.token \in DOMAIN tokens
        BY FrameShapes DEF FrameHolds, RotateFrames
    <2> DEFINE u == tokens[f.token].user
    <2>2. u \in Users /\ tokens'[f.token].user = u
        BY <2>1 DEF Grows
    <2>3. Begun(u, f.begun)
        BY DEF FrameHolds
    <2>4. \A v \in Users : Begun(v, f.begun) => Begun(v, f.begun)'
        BY <2>1 DEF Grows
    <2>5. \A v \in Users : v = tokens'[f.token].user /\ Begun(v, f.begun)' => Begun(tokens[f.token].user, f.begun)'
        BY DEF Begun, Exists, ShutOut
    <2> QED
        BY <2>2, <2>3, <2>4, <2>5
<1>6. f.at = "auditing" => f.audit \in Actions
    BY DEF FrameHolds
<1> QED
    BY <1>1, <1>2, <1>3, <1>4, <1>5, <1>6 DEF FrameHolds

\* A step of one handler keeps all frames when its own is right.
LEMMA FramesStep ==
    ASSUME FramesHold, Grows, NEW c \in Calls,
           \A t \in DOMAIN tokens : tokens[t].user \in Users,
           call' = [call EXCEPT ![c] = call'[c]],
           call'[c] \in Frames, FrameHolds(call[c])'
    PROVE  FramesHold'
<1>1. call' \in [Calls -> Frames]
    BY DEF FramesHold
<1>2. ASSUME NEW d \in Calls, d # c PROVE FrameHolds(call[d])'
    <2>1. call'[d] = call[d] /\ call[d] \in Frames /\ FrameHolds(call[d])
        BY <1>2 DEF FramesHold
    <2>2. \A f \in Frames : FrameHolds(f) => FrameHolds(f)'
        BY FrameKept
    <2>3. \A f \in Frames : f = call'[d] /\ FrameHolds(f)' => FrameHolds(call[d])'
        BY ZenonT(30) DEF FrameHolds, Begun, Exists, ShutOut
    <2> QED
        BY <2>1, <2>2, <2>3
<1> QED
    BY <1>1, <1>2 DEF FramesHold

\* Tokens are those of accounts.
LEMMA TokenFields ==
    ASSUME SessionsTypeOK, NEW t \in DOMAIN tokens
    PROVE  /\ tokens[t] \in TokenRows
           /\ tokens[t].user \in Users /\ tokens[t].begun \in Nat
           /\ tokens[t].revoked \in BOOLEAN /\ tokens[t].issued \in 0..MaxClock
           /\ tokens[t].login \in 1..MaxTokens
<1>1. tokens[t] \in TokenRows
    BY ElementOfSeq DEF SessionsTypeOK
<1> QED
    BY <1>1 DEF TokenRows

LEMMA CodeFields ==
    ASSUME SessionsTypeOK, NEW i \in DOMAIN codes
    PROVE  /\ codes[i] \in CodeRows
           /\ codes[i].used \in BOOLEAN /\ codes[i].uses \in Nat
<1>1. codes[i] \in CodeRows
    BY ElementOfSeq DEF SessionsTypeOK, AccountsTypeOK
<1> QED
    BY <1>1 DEF CodeRows

\* Everything grows when only frames change.
LEMMA SameGrows == ASSUME UNCHANGED <<accountRows, tokens, locks>> PROVE Grows
BY DEF Grows, accountRows, Begun, Exists, ShutOut

\* A step that only looks keeps the invariant when its frame is right.
LEMMA LookStep ==
    ASSUME IInv, UNCHANGED <<accountRows, tokens, audits, locks, changes>>, crashed' \in BOOLEAN,
           NEW c \in Calls, call' = [call EXCEPT ![c] = call'[c]],
           call'[c] \in Frames, FrameHolds(call[c])'
    PROVE  IInv'
<1>1. FramesHold'
    BY SameGrows, FramesStep, TokenFields DEF IInv
<1>2. SessionsTypeOK'
    BY DEF IInv, SessionsTypeOK, AccountsTypeOK, accountRows
<1>3. UnusedMeansUnused' /\ CodesAreUsedOnce'
    BY DEF IInv, UnusedMeansUnused, CodesAreUsedOnce, accountRows
<1>4. TokensBegun' /\ OneLiveTokenPerLogin' /\ LocksAreChanges'
    BY DEF IInv, TokensBegun, OneLiveTokenPerLogin, LocksAreChanges, accountRows, Begun, Exists, ShutOut
<1> QED
    BY <1>1, <1>2, <1>3, <1>4 DEF IInv

-----------------------------------------------------------------------------
(* Steps that change a frame only *)

\* A step gives its handler a frame that is right.
Fine(c) ==
    /\ call' = [call EXCEPT ![c] = call'[c]]
    /\ call'[c] \in Frames
    /\ FrameHolds(call[c])'

\* Stages at which a frame says nothing of the tables.
Careful == {"linking", "flagging", "issuing", "marking", "inserting", "refreshing", "rotating", "auditing"}

LEMMA PlainFrame ==
    ASSUME NEW c \in Calls, call' = [call EXCEPT ![c] = call'[c]],
           call'[c] \in Frames, call'[c].at \notin Careful
    PROVE  Fine(c)
BY DEF Fine, FrameHolds, Careful

LEMMA Ended ==
    ASSUME FramesHold, NEW c \in Calls, End(c)
    PROVE  Fine(c)
<1>1. call' = [call EXCEPT ![c] = call'[c]] /\ call'[c] = Idle
    BY DEF FramesHold, End
<1>2. Idle \in Frames /\ Idle.at \notin Careful
    BY DEF Frames, Idle, Careful
<1> QED
    BY <1>1, <1>2, PlainFrame

LEMMA Moved ==
    ASSUME FramesHold, NEW c \in Calls, NEW await, Goto(c, await)
    PROVE  /\ call' = [call EXCEPT ![c] = call'[c]]
           /\ call'[c] = [call[c] EXCEPT !.at = await]
BY DEF FramesHold, Goto

LEMMA Received ==
    ASSUME FramesHold, NEW c \in Calls, NEW frame \in Frames, Receive(c, frame),
           frame.at \notin Careful
    PROVE  Fine(c)
<1>1. call' = [call EXCEPT ![c] = call'[c]] /\ call'[c] = frame
    BY DEF FramesHold, Receive
<1> QED
    BY <1>1, PlainFrame

\* The frame of a call, by its stage.
LEMMA FrameOf ==
    ASSUME FramesHold, NEW c \in Calls
    PROVE  call[c] \in Frames /\ FrameHolds(call[c])
BY DEF FramesHold

LEMMA RegistrationLooks ==
    ASSUME FramesHold, AccountsTypeOK, NEW c \in Calls,
           Register(c) \/ CheckEmail(c) \/ Sync(c) \/ FindByUid(c) \/ FindByEmail(c),
           UNCHANGED account
    PROVE  Fine(c)
<1>1. CASE Register(c)
    <2>1. PICK email \in Emails : Receive(c, [at |-> "registering", email |-> email, uid |-> NULL])
        BY <1>1 DEF Register
    <2>2. [at |-> "registering", email |-> email, uid |-> NULL] \in Frames
        BY DEF Frames, RegisterFrames
    <2> QED
        BY <2>1, <2>2, Received DEF Careful
<1>2. CASE CheckEmail(c)
    <2>1. CASE End(c)
        BY <2>1, Ended
    <2>2. CASE Goto(c, "creating")
        <3>1. call[c] \in RegisterFrames
            BY <1>2, FrameOf, FrameShapes DEF CheckEmail, At
        <3>0. /\ call' = [call EXCEPT ![c] = call'[c]]
              /\ call'[c] = [call[c] EXCEPT !.at = "creating"]
            BY <2>2, Moved
        <3>2. call'[c] \in RegisterFrames /\ call'[c].at = "creating"
            BY <3>0, <3>1 DEF RegisterFrames
        <3> QED
            BY <3>0, <3>2, PlainFrame DEF Frames, Careful
    <2> QED
        BY <1>2, <2>1, <2>2 DEF CheckEmail
<1>3. CASE Sync(c)
    <2>1. PICK uid \in Uids, email \in Emails :
            Receive(c, [at |-> "syncing", email |-> email, uid |-> uid, user |-> NULL])
        BY <1>3 DEF Sync
    <2>2. [at |-> "syncing", email |-> email, uid |-> uid, user |-> NULL] \in Frames
        BY DEF Frames, SyncFrames
    <2> QED
        BY <2>1, <2>2, Received DEF Careful
<1>4. CASE FindByUid(c) \/ FindByEmail(c)
    <2>1. call[c] \in SyncFrames
        BY <1>4, FrameOf, FrameShapes DEF FindByUid, FindByEmail, At
    <2>2. ASSUME NEW u \in Users, Exists(u),
                 NEW email \in Emails,
                 call' = [call EXCEPT ![c].at = "linking", ![c].user = u, ![c].email = email]
          PROVE  Fine(c)
        <3>1. /\ call' = [call EXCEPT ![c] = call'[c]]
              /\ call'[c] = [call[c] EXCEPT !.at = "linking", !.user = u, !.email = email]
            BY <2>2 DEF FramesHold
        <3>2. call'[c] \in SyncFrames /\ call'[c].at = "linking" /\ call'[c].user = u
            BY <2>1, <3>1 DEF SyncFrames
        <3>3. FrameHolds(call[c])'
            BY <2>2, <3>2 DEF FrameHolds, Exists
        <3> QED
            BY <3>1, <3>2, <3>3 DEF Fine, Frames
    <2>3. ASSUME NEW await \in {"matching", "creating"}, Goto(c, await)
          PROVE  Fine(c)
        <3>0. /\ call' = [call EXCEPT ![c] = call'[c]]
              /\ call'[c] = [call[c] EXCEPT !.at = await]
            BY <2>3, Moved
        <3>1. call'[c] \in SyncFrames /\ call'[c].at = await
            BY <3>0, <2>1 DEF SyncFrames
        <3> QED
            BY <3>0, <3>1, PlainFrame DEF Frames, Careful
    <2>4. CASE FindByUid(c)
        <3>1. ASSUME NEW u \in WithUid(call[c].uid),
                     call' = [call EXCEPT ![c].at = "linking", ![c].user = u, ![c].email = account[u].email]
              PROVE  Fine(c)
            <4>1. u \in Users /\ Exists(u) /\ account[u].email \in Emails
                BY <3>1 DEF WithUid, Exists, AccountsTypeOK, Rows
            <4> QED
                BY <2>2, <3>1, <4>1
        <3> QED
            BY <2>3, <2>4, <3>1 DEF FindByUid
    <2>5. CASE FindByEmail(c)
        <3>1. ASSUME NEW u \in WithEmail(call[c].email),
                     call' = [call EXCEPT ![c].at = "linking", ![c].user = u]
              PROVE  Fine(c)
            <4>1. u \in Users /\ Exists(u) /\ call[c].email \in Emails
                BY <2>1, <3>1 DEF WithEmail, Exists, SyncFrames
            <4>2. call' = [call EXCEPT ![c].at = "linking", ![c].user = u, ![c].email = call[c].email]
                BY <2>1, <3>1 DEF FramesHold, SyncFrames
            <4> QED
                BY <2>2, <4>1, <4>2
        <3> QED
            BY <2>3, <2>5, <3>1 DEF FindByEmail
    <2> QED
        BY <1>4, <2>4, <2>5
<1> QED
    BY <1>1, <1>2, <1>3, <1>4

LEMMA CodeLooks ==
    ASSUME FramesHold, SessionsTypeOK, NEW c \in Calls,
           \/ SendOtp(c) \/ CountRecent(c) \/ CheckTarget(c)
           \/ VerifyOtp(c) \/ SelectOtp(c) \/ FindVerified(c),
           UNCHANGED <<account, codes>>
    PROVE  Fine(c)
<1>0. clock \in 0..MaxClock
    BY DEF SessionsTypeOK, AccountsTypeOK
<1>1. CASE SendOtp(c)
    <2>1. PICK email \in Emails, purpose \in Purposes :
            Receive(c, [at |-> "counting", email |-> email, purpose |-> purpose, now |-> clock])
        BY <1>1 DEF SendOtp
    <2>2. [at |-> "counting", email |-> email, purpose |-> purpose, now |-> clock] \in Frames
        BY <1>0 DEF Frames, SendFrames
    <2> QED
        BY <2>1, <2>2, Received DEF Careful
<1>2. CASE CountRecent(c) \/ CheckTarget(c)
    <2>1. call[c] \in SendFrames
        BY <1>2, FrameOf, FrameShapes DEF CountRecent, CheckTarget, At
    <2>2. ASSUME NEW await \in {"addressing", "storing"}, Goto(c, await)
          PROVE  Fine(c)
        <3>0. /\ call' = [call EXCEPT ![c] = call'[c]]
              /\ call'[c] = [call[c] EXCEPT !.at = await]
            BY <2>2, Moved
        <3>1. call'[c] \in SendFrames /\ call'[c].at = await
            BY <3>0, <2>1 DEF SendFrames
        <3> QED
            BY <3>0, <3>1, PlainFrame DEF Frames, Careful
    <2> QED
        BY <1>2, <2>2, Ended DEF CountRecent, CheckTarget
<1>3. CASE VerifyOtp(c)
    <2>1. PICK email \in Emails, code \in Codes, purpose \in Purposes, login \in BOOLEAN :
            Receive(c, [at |-> "consuming", email |-> email, code |-> code, purpose |-> purpose,
                        login |-> login, now |-> clock, row |-> NULL, user |-> NULL])
        BY <1>3 DEF VerifyOtp
    <2>2. [at |-> "consuming", email |-> email, code |-> code, purpose |-> purpose,
           login |-> login, now |-> clock, row |-> NULL, user |-> NULL] \in Frames
        BY <1>0 DEF Frames, ShowFrames
    <2> QED
        BY <2>1, <2>2, Received DEF Careful
<1>4. CASE SelectOtp(c)
    <2>1. call[c] \in ShowFrames
        BY <1>4, FrameOf, FrameShapes DEF SelectOtp, At
    <2>2. ASSUME NEW i \in DOMAIN codes, Keep(c, "marking", i)
          PROVE  Fine(c)
        <3>1. /\ call' = [call EXCEPT ![c] = call'[c]]
              /\ call'[c] = [call[c] EXCEPT !.at = "marking", !.row = i]
            BY <2>2 DEF FramesHold, Keep
        <3>2. i \in Nat
            BY DEF SessionsTypeOK, AccountsTypeOK
        <3>3. call'[c] \in ShowFrames /\ call'[c].at = "marking" /\ call'[c].row = i
            BY <2>1, <3>1, <3>2 DEF ShowFrames
        <3>4. FrameHolds(call[c])'
            BY <3>3 DEF FrameHolds
        <3> QED
            BY <3>1, <3>3, <3>4 DEF Fine, Frames
    <2> QED
        BY <1>4, <2>2, Ended DEF SelectOtp
<1>5. CASE FindVerified(c)
    <2>1. call[c] \in ShowFrames
        BY <1>5, FrameOf, FrameShapes DEF FindVerified, At
    <2>2. ASSUME NEW u \in Users, Exists(u),
                 call' = [call EXCEPT ![c].at = "flagging", ![c].user = u]
          PROVE  Fine(c)
        <3>1. /\ call' = [call EXCEPT ![c] = call'[c]]
              /\ call'[c] = [call[c] EXCEPT !.at = "flagging", !.user = u]
            BY <2>2 DEF FramesHold
        <3>2. call'[c] \in ShowFrames /\ call'[c].at = "flagging" /\ call'[c].user = u
            BY <2>1, <3>1 DEF ShowFrames
        <3>3. FrameHolds(call[c])'
            BY <2>2, <3>2 DEF FrameHolds, Exists
        <3> QED
            BY <3>1, <3>2, <3>3 DEF Fine, Frames
    <2>3. CASE Goto(c, "signing-in")
        <3>0. /\ call' = [call EXCEPT ![c] = call'[c]]
              /\ call'[c] = [call[c] EXCEPT !.at = "signing-in"]
            BY <2>3, Moved
        <3>1. call'[c] \in ShowFrames /\ call'[c].at = "signing-in"
            BY <3>0, <2>1 DEF ShowFrames
        <3> QED
            BY <3>0, <3>1, PlainFrame DEF Frames, Careful
    <2> QED
        BY <1>5, <2>2, <2>3, Ended DEF FindVerified, Verified, WithEmail
<1> QED
    BY <1>1, <1>2, <1>3, <1>4, <1>5

LEMMA SessionLooks ==
    ASSUME IInv, NEW c \in Calls,
           \/ Login(c) \/ SignIn(c) \/ ReadStatus(c) \/ Refresh(c) \/ ReadAccount(c)
           \/ Logout(c) \/ Sweep(c) \/ SetStatus(c)
    PROVE  Fine(c) /\ UNCHANGED <<accountRows, sessionRows>>
<1> USE DEF IInv
<1>0. clock \in 0..MaxClock /\ locks \in [Users -> 0..MaxChanges]
    BY DEF SessionsTypeOK, AccountsTypeOK
<1>1. CASE Login(c)
    <2>1. PICK email \in Emails : Receive(c, [at |-> "signing-in", email |-> email, user |-> NULL])
        BY <1>1 DEF Login
    <2>2. [at |-> "signing-in", email |-> email, user |-> NULL] \in Frames
        BY DEF Frames, LoginFrames
    <2> QED
        BY <1>1, <2>1, <2>2, Received DEF Careful, Login
<1>2. CASE SignIn(c)
    <2>1. call[c] \in ShowFrames \cup LoginFrames
        BY <1>2, FrameOf, FrameShapes DEF SignIn, At
    <2>2. ASSUME NEW u \in Users, Exists(u),
                 call' = [call EXCEPT ![c].at = "issuing", ![c].user = u]
          PROVE  Fine(c)
        <3>1. /\ call' = [call EXCEPT ![c] = call'[c]]
              /\ call'[c] = [call[c] EXCEPT !.at = "issuing", !.user = u]
            BY <2>2 DEF FramesHold
        <3>2. call[c] \in ShowFrames =>
                call'[c] \in ShowFrames /\ call'[c].at = "issuing" /\ call'[c].user = u
            BY <3>1 DEF ShowFrames
        <3>3. call[c] \in LoginFrames =>
                call'[c] \in LoginFrames /\ call'[c].at = "issuing" /\ call'[c].user = u
            BY <3>1 DEF LoginFrames
        <3>4. FrameHolds(call[c])'
            BY <1>2, <2>1, <2>2, <3>2, <3>3 DEF FrameHolds, Exists, SignIn, accountRows
        <3> QED
            BY <2>1, <3>1, <3>2, <3>3, <3>4 DEF Fine, Frames
    <2> QED
        BY <1>2, <2>2, Ended DEF SignIn, WithEmail
<1>3. CASE ReadStatus(c)
    <2> DEFINE u == call[c].user
               g == [at |-> "inserting", user |-> u, begun |-> locks[u]]
    <2>1. u \in Users /\ Exists(u)
        BY <1>3, FrameOf DEF ReadStatus, At, FrameHolds
    <2>2. CASE CanAuthenticate(u) /\ call' = [call EXCEPT ![c] = g]
        <3>1. call' = [call EXCEPT ![c] = call'[c]] /\ call'[c] = g
            BY <2>2 DEF FramesHold
        <3>2. locks[u] \in Nat
            BY <1>0, <2>1
        <3>3. g \in InsertFrames
            BY <2>1, <3>2 DEF InsertFrames
        <3>4. Begun(u, locks[u])
            BY <2>1, <2>2, <3>2 DEF Begun, CanAuthenticate, ShutOut
        <3>5. /\ call'[c].at = "inserting" /\ call'[c].user = u /\ call'[c].begun = locks[u]
              /\ account' = account /\ locks' = locks
            BY <1>3, <3>1 DEF ReadStatus, accountRows, sessionRows
        <3>6. FrameHolds(call[c])'
            BY <3>4, <3>5 DEF FrameHolds, Begun, Exists, ShutOut
        <3> QED
            BY <1>3, <3>1, <3>3, <3>6 DEF Fine, Frames, ReadStatus
    <2> QED
        BY <1>3, <2>2, Ended DEF ReadStatus
<1>4. CASE Refresh(c)
    <2>1. PICK t \in DOMAIN tokens : Receive(c, [at |-> "refreshing", token |-> t])
        BY <1>4 DEF Refresh
    <2>2. t \in Nat /\ tokens' = tokens
        BY <1>4 DEF SessionsTypeOK, Refresh, sessionRows
    <2>3. call' = [call EXCEPT ![c] = call'[c]] /\ call'[c] = [at |-> "refreshing", token |-> t]
        BY <2>1 DEF FramesHold, Receive
    <2>4. call'[c] \in Frames
        BY <2>2, <2>3 DEF Frames, RefreshFrames
    <2>5. FrameHolds(call[c])'
        BY <2>2, <2>3 DEF FrameHolds
    <2> QED
        BY <1>4, <2>3, <2>4, <2>5 DEF Fine, Refresh
<1>5. CASE ReadAccount(c)
    <2> DEFINE t == call[c].token
               u == tokens[t].user
               g == [at |-> "rotating", token |-> t, now |-> clock, begun |-> locks[u]]
    <2>1. t \in DOMAIN tokens /\ t \in Nat /\ u \in Users /\ Exists(u)
        <3>1. t \in DOMAIN tokens
            BY <1>5, FrameOf DEF ReadAccount, At, FrameHolds
        <3> QED
            BY <3>1, TokenFields DEF SessionsTypeOK, TokensBegun, Begun
    <2>2. CASE CanAuthenticate(u) /\ call' = [call EXCEPT ![c] = g]
        <3>1. call' = [call EXCEPT ![c] = call'[c]] /\ call'[c] = g
            BY <2>2 DEF FramesHold
        <3>2. locks[u] \in Nat
            BY <1>0, <2>1
        <3>3. g \in RotateFrames
            BY <1>0, <2>1, <3>2 DEF RotateFrames
        <3>4. Begun(u, locks[u])
            BY <2>1, <2>2, <3>2 DEF Begun, CanAuthenticate, ShutOut
        <3>5. /\ call'[c].at = "rotating" /\ call'[c].token = t /\ call'[c].begun = locks[u]
              /\ account' = account /\ locks' = locks /\ tokens' = tokens
            BY <1>5, <3>1 DEF ReadAccount, accountRows, sessionRows
        <3>6. FrameHolds(call[c])'
            BY <2>1, <3>4, <3>5 DEF FrameHolds, Begun, Exists, ShutOut
        <3> QED
            BY <1>5, <3>1, <3>3, <3>6 DEF Fine, Frames, ReadAccount
    <2> QED
        BY <1>5, <2>2, Ended DEF ReadAccount
<1>6. CASE Logout(c)
    <2>1. PICK u \in Users :
            Receive(c, [at |-> "sweeping", user |-> u, row |-> {}, audit |-> NULL])
        BY <1>6 DEF Logout
    <2>2. [at |-> "sweeping", user |-> u, row |-> {}, audit |-> NULL] \in Frames
        BY DEF Frames, LogoutFrames
    <2> QED
        BY <1>6, <2>1, <2>2, Received DEF Careful, Logout
<1>7. CASE Sweep(c)
    <2> DEFINE rows == {t \in DOMAIN tokens : tokens[t].user = call[c].user /\ ~tokens[t].revoked}
    <2>1. call[c] \in ChangeFrames \cup LogoutFrames
        BY <1>7, FrameOf, FrameShapes DEF Sweep, At
    <2>2. /\ call' = [call EXCEPT ![c] = call'[c]]
          /\ call'[c] = [call[c] EXCEPT !.at = "revoking", !.row = rows]
        BY <1>7 DEF FramesHold, Sweep, Keep
    <2>3. rows \subseteq Nat
        BY DEF SessionsTypeOK
    <2>4. call[c] \in ChangeFrames => call'[c] \in ChangeFrames /\ call'[c].at = "revoking"
        BY <2>2, <2>3 DEF ChangeFrames
    <2>5. call[c] \in LogoutFrames => call'[c] \in LogoutFrames /\ call'[c].at = "revoking"
        BY <2>2, <2>3 DEF LogoutFrames
    <2> QED
        BY <1>7, <2>1, <2>2, <2>4, <2>5, PlainFrame DEF Frames, Careful, Sweep
<1>8. CASE SetStatus(c)
    <2>1. PICK u \in Users, status \in Statuses :
            Receive(c, [at |-> "changing", user |-> u, status |-> status, row |-> {}, audit |-> NULL])
        BY <1>8 DEF SetStatus
    <2>2. [at |-> "changing", user |-> u, status |-> status, row |-> {}, audit |-> NULL] \in Frames
        BY DEF Frames, ChangeFrames
    <2> QED
        BY <1>8, <2>1, <2>2, Received DEF Careful, SetStatus
<1> QED
    BY <1>1, <1>2, <1>3, <1>4, <1>5, <1>6, <1>7, <1>8

-----------------------------------------------------------------------------
(* Steps that change accounts *)

LEMMA TokensStay ==
    ASSUME IInv, Grows, tokens' = tokens
    PROVE  TokensBegun' /\ OneLiveTokenPerLogin'
<1>1. ASSUME NEW t \in DOMAIN tokens
      PROVE  tokens'[t].login <= t /\ Begun(tokens[t].user, tokens[t].begun)'
    <2>1. tokens[t].user \in Users /\ tokens[t].begun \in Nat
        BY TokenFields DEF IInv
    <2>2. Begun(tokens[t].user, tokens[t].begun)
        BY DEF IInv, TokensBegun
    <2>3. ASSUME NEW u \in Users, NEW n \in Nat, u = tokens[t].user, n = tokens[t].begun
          PROVE  Begun(tokens[t].user, tokens[t].begun)'
        <3>1. Begun(u, n)'
            BY <2>2, <2>3 DEF Grows
        <3> QED
            BY <2>3, <3>1 DEF Begun, Exists, ShutOut
    <2> QED
        BY <2>1, <2>3 DEF IInv, TokensBegun
<1>2. TokensBegun'
    BY <1>1 DEF TokensBegun
<1> QED
    BY <1>2 DEF IInv, OneLiveTokenPerLogin

LEMMA FineFrames ==
    ASSUME IInv, Grows, NEW c \in Calls, Fine(c)
    PROVE  FramesHold'
BY FramesStep, TokenFields DEF IInv, Fine

LEMMA FramesRest ==
    ASSUME IInv, Grows, UNCHANGED call
    PROVE  FramesHold'
<1>1. ASSUME NEW c \in Calls PROVE FrameHolds(call[c])'
    <2>1. call'[c] = call[c] /\ call[c] \in Frames /\ FrameHolds(call[c])
        BY FrameOf DEF IInv
    <2>2. \A f \in Frames : FrameHolds(f) => FrameHolds(f)'
        BY FrameKept, TokenFields DEF IInv
    <2>3. \A f \in Frames : f = call'[c] /\ FrameHolds(f)' => FrameHolds(call[c])'
        BY DEF FrameHolds, Begun, Exists, ShutOut
    <2> QED
        BY <2>1, <2>2, <2>3
<1> QED
    BY <1>1 DEF IInv, FramesHold

\* An account is created or changed, and not shut out by that.
LEMMA AccountWrite ==
    ASSUME IInv, account' \in [Users -> Rows \cup {NULL}],
           \A u \in Users : (Exists(u) => Exists(u)') /\ (ShutOut(u)' => ShutOut(u)),
           UNCHANGED <<codes, clock, sessionRows>>,
           \/ UNCHANGED call
           \/ \E c \in Calls : Fine(c)
    PROVE  IInv'
<1>1. UNCHANGED <<codes, clock, tokens, audits, locks, changes, crashed>>
    BY DEF sessionRows
<1>2. Grows
    BY <1>1 DEF Grows, Begun
<1>3. FramesHold'
    <2>1. CASE UNCHANGED call
        BY <1>2, <2>1, FramesRest
    <2> QED
        BY <1>2, <2>1, FineFrames
<1>4. SessionsTypeOK'
    BY <1>1 DEF IInv, SessionsTypeOK, AccountsTypeOK
<1>5. UnusedMeansUnused' /\ CodesAreUsedOnce' /\ LocksAreChanges'
    BY <1>1 DEF IInv, UnusedMeansUnused, CodesAreUsedOnce, LocksAreChanges
<1> QED
    BY <1>1, <1>2, <1>3, <1>4, <1>5, TokensStay DEF IInv

LEMMA AccountFields ==
    ASSUME SessionsTypeOK, NEW u \in Users, Exists(u)
    PROVE  account[u] \in Rows
BY DEF SessionsTypeOK, AccountsTypeOK, Exists

LEMMA CreateIInv ==
    ASSUME IInv, NEW c \in Calls, Create(c), UNCHANGED sessionRows
    PROVE  IInv'
<1> USE DEF IInv
<1> DEFINE synced == call[c].uid # NULL
           row == [email |-> call[c].email, uid |-> call[c].uid, role |-> "member",
                   status |-> IF synced THEN "active" ELSE "pending_verification",
                   verified |-> synced]
<1>1. call[c] \in RegisterFrames \cup SyncFrames
    BY FrameOf, FrameShapes DEF Create, At
<1>2. row \in Rows /\ row.status \in {"active", "pending_verification"}
    BY <1>1 DEF Rows, Statuses, RegisterFrames, SyncFrames
<1>3. CASE End(c) /\ UNCHANGED account
    BY <1>3, Ended, AccountWrite DEF Create, Exists, ShutOut, SessionsTypeOK, AccountsTypeOK
<1>4. ASSUME NEW u \in Users, ~Exists(u), account' = [account EXCEPT ![u] = row],
             IF synced THEN call' = [call EXCEPT ![c].at = "issuing", ![c].user = u] ELSE End(c)
      PROVE  IInv'
    <2>0. account \in [Users -> Rows \cup {NULL}]
        BY DEF SessionsTypeOK, AccountsTypeOK
    <2>1. account' \in [Users -> Rows \cup {NULL}]
        BY <1>2, <1>4, <2>0
    <2>2. account'[u] = row /\ \A v \in Users : v # u => account'[v] = account[v]
        BY <1>4, <2>0
    <2>3. row # NULL
        BY <1>2, SeededAccountsAssumption
    <2>4. \A v \in Users : (Exists(v) => Exists(v)') /\ (ShutOut(v)' => ShutOut(v))
        BY <1>2, <2>2, <2>3 DEF Exists, ShutOut
    <2>5. Fine(c)
        <3>1. CASE ~synced
            BY <1>4, <3>1, Ended
        <3>2. CASE synced
            <4>1. /\ call' = [call EXCEPT ![c] = call'[c]]
                  /\ call'[c] = [call[c] EXCEPT !.at = "issuing", !.user = u]
                BY <1>4, <3>2 DEF FramesHold
            <4>2. call[c] \in SyncFrames
                BY <1>1, <3>2 DEF RegisterFrames
            <4>3. call'[c] \in SyncFrames /\ call'[c].at = "issuing" /\ call'[c].user = u
                BY <4>1, <4>2 DEF SyncFrames
            <4>4. FrameHolds(call[c])'
                BY <2>2, <2>3, <4>3 DEF FrameHolds, Exists
            <4> QED
                BY <4>1, <4>3, <4>4 DEF Fine, Frames
        <3> QED
            BY <3>1, <3>2
    <2> QED
        BY <2>1, <2>4, <2>5, AccountWrite DEF Create
<1> QED
    BY <1>3, <1>4 DEF Create

\* A row of an account is rewritten with the status it has.
LEMMA Rewritten ==
    ASSUME IInv, NEW u \in Users, Exists(u), NEW row \in Rows, row.status = account[u].status,
           account' = [account EXCEPT ![u] = row]
    PROVE  /\ account' \in [Users -> Rows \cup {NULL}]
           /\ \A v \in Users : (Exists(v) => Exists(v)') /\ (ShutOut(v)' => ShutOut(v))
<1>1. account \in [Users -> Rows \cup {NULL}] /\ row # NULL
    BY SeededAccountsAssumption DEF IInv, SessionsTypeOK, AccountsTypeOK
<1>2. account'[u] = row /\ \A v \in Users : v # u => account'[v] = account[v]
    BY <1>1
<1> QED
    BY <1>1, <1>2 DEF Exists, ShutOut

LEMMA LinkIInv ==
    ASSUME IInv, NEW c \in Calls, Link(c), UNCHANGED sessionRows
    PROVE  IInv'
<1> USE DEF IInv
<1> DEFINE u == call[c].user
           row == [account[u] EXCEPT !.uid = call[c].uid, !.verified = TRUE, !.email = call[c].email]
<1>1. call[c] \in SyncFrames /\ u \in Users /\ Exists(u)
    BY FrameOf, FrameShapes DEF Link, At, FrameHolds
<1>2. account[u] \in Rows
    BY <1>1, AccountFields
<1>3. row \in Rows /\ row.status = account[u].status
    BY <1>1, <1>2 DEF Rows, SyncFrames
<1>4. CASE End(c) /\ UNCHANGED account
    BY <1>4, Ended, AccountWrite DEF Link, Exists, ShutOut, SessionsTypeOK, AccountsTypeOK
<1>5. CASE account' = [account EXCEPT ![u] = row] /\ Goto(c, "issuing")
    <2>1. /\ account' \in [Users -> Rows \cup {NULL}]
          /\ \A v \in Users : (Exists(v) => Exists(v)') /\ (ShutOut(v)' => ShutOut(v))
        BY <1>1, <1>3, <1>5, Rewritten
    <2>2. /\ call' = [call EXCEPT ![c] = call'[c]]
          /\ call'[c] = [call[c] EXCEPT !.at = "issuing"]
        BY <1>5, Moved
    <2>3. call'[c] \in SyncFrames /\ call'[c].at = "issuing" /\ call'[c].user = u
        BY <1>1, <2>2 DEF SyncFrames
    <2>4. FrameHolds(call[c])'
        BY <1>1, <2>1, <2>3 DEF FrameHolds, Exists
    <2>5. Fine(c)
        BY <2>2, <2>3, <2>4 DEF Fine, Frames
    <2> QED
        BY <2>1, <2>5, AccountWrite DEF Link
<1> QED
    BY <1>4, <1>5 DEF Link

LEMMA FlagIInv ==
    ASSUME IInv, NEW c \in Calls, FlagVerified(c), UNCHANGED sessionRows
    PROVE  IInv'
<1> USE DEF IInv
<1> DEFINE u == call[c].user
           row == [account[u] EXCEPT !.verified = TRUE]
<1>1. call[c] \in ShowFrames /\ u \in Users /\ Exists(u)
    BY FrameOf, FrameShapes DEF FlagVerified, At, FrameHolds
<1>2. account[u] \in Rows
    BY <1>1, AccountFields
<1>3. row \in Rows /\ row.status = account[u].status /\ account' = [account EXCEPT ![u] = row]
    BY <1>1, <1>2 DEF Rows, FlagVerified
<1>4. /\ account' \in [Users -> Rows \cup {NULL}]
      /\ \A v \in Users : (Exists(v) => Exists(v)') /\ (ShutOut(v)' => ShutOut(v))
    BY <1>1, <1>3, Rewritten
<1>5. Fine(c)
    <2>1. CASE Goto(c, "signing-in")
        <3>1. /\ call' = [call EXCEPT ![c] = call'[c]]
              /\ call'[c] = [call[c] EXCEPT !.at = "signing-in"]
            BY <2>1, Moved
        <3>2. call'[c] \in ShowFrames /\ call'[c].at = "signing-in"
            BY <1>1, <3>1 DEF ShowFrames
        <3> QED
            BY <3>1, <3>2, PlainFrame DEF Frames, Careful
    <2> QED
        BY <2>1, Ended DEF FlagVerified, Verified
<1> QED
    BY <1>4, <1>5, AccountWrite DEF FlagVerified

LEMMA UpdatesIInv ==
    ASSUME IInv, NEW u \in Users, UpdateMe(u) \/ UpdateMyRole(u), UNCHANGED sessionRows
    PROVE  IInv'
<1> USE DEF IInv
<1>1. Exists(u) /\ account[u] \in Rows
    BY AccountFields DEF UpdateMe, UpdateMyRole
<1>2. \E row \in Rows : row.status = account[u].status /\ account' = [account EXCEPT ![u] = row]
    <2>1. CASE UpdateMe(u)
        <3>1. PICK email \in Emails : account' = [account EXCEPT ![u] = [account[u] EXCEPT !.email = email]]
            BY <2>1 DEF UpdateMe
        <3>2. /\ [account[u] EXCEPT !.email = email] \in Rows
              /\ [account[u] EXCEPT !.email = email].status = account[u].status
            BY <1>1 DEF Rows
        <3> QED
            BY <3>1, <3>2
    <2>2. CASE UpdateMyRole(u)
        <3>1. account' = [account EXCEPT ![u] = [account[u] EXCEPT !.role = "member"]]
            BY <2>2 DEF UpdateMyRole
        <3>2. /\ [account[u] EXCEPT !.role = "member"] \in Rows
              /\ [account[u] EXCEPT !.role = "member"].status = account[u].status
            BY <1>1 DEF Rows
        <3> QED
            BY <3>1, <3>2
    <2> QED
        BY <2>1, <2>2
<1>3. /\ account' \in [Users -> Rows \cup {NULL}]
      /\ \A v \in Users : (Exists(v) => Exists(v)') /\ (ShutOut(v)' => ShutOut(v))
    BY <1>1, <1>2, Rewritten
<1> QED
    BY <1>3, AccountWrite DEF UpdateMe, UpdateMyRole

LEMMA ChangeStatusIInv ==
    ASSUME IInv, NEW c \in Calls, ChangeStatus(c)
    PROVE  IInv'
<1> USE DEF IInv
<1> DEFINE u == call[c].user
           status == call[c].status
           audit == IF IsChange(u, status) THEN ActionOf(status) ELSE NULL
           row == [account[u] EXCEPT !.status = status]
<1>0. UNCHANGED <<codes, clock, tokens, audits, crashed>>
    BY DEF ChangeStatus
<1>1. call[c] \in ChangeFrames /\ u \in Users /\ status \in Statuses
    <2>1. call[c] \in ChangeFrames
        BY FrameOf, FrameShapes DEF ChangeStatus, At
    <2> QED
        BY <2>1 DEF ChangeFrames
<1>2. /\ account \in [Users -> Rows \cup {NULL}]
      /\ locks \in [Users -> 0..MaxChanges] /\ changes \in [Actions -> 0..MaxChanges]
    BY DEF SessionsTypeOK, AccountsTypeOK
<1>3. CASE End(c) /\ UNCHANGED <<account, locks, changes>>
    BY <1>0, <1>3, Ended, LookStep DEF accountRows, Fine, SessionsTypeOK
<1>4. CASE /\ Exists(u)
           /\ changes["USER_LOCKED"] + changes["USER_UNLOCKED"] # MaxChanges
           /\ account' = [account EXCEPT ![u].status = status]
           /\ changes' = IF account[u].status # status
                         THEN [changes EXCEPT ![ActionOf(status)] = @ + 1] ELSE changes
           /\ locks' = IF status \in {"locked", "rejected"} /\ account[u].status # status
                       THEN [locks EXCEPT ![u] = @ + 1] ELSE locks
           /\ IF status = "active" /\ audit = NULL THEN End(c)
              ELSE call' = [call EXCEPT ![c].audit = audit,
                              ![c].at = IF status = "active" THEN "auditing" ELSE "sweeping"]
    <2>1. account[u] \in Rows
        BY <1>1, <1>4, AccountFields
    <2>2. row \in Rows /\ row.status = status /\ row # NULL
        BY <1>1, <2>1, SeededAccountsAssumption DEF Rows
    <2>3. /\ account' = [account EXCEPT ![u] = row]
          /\ account' \in [Users -> Rows \cup {NULL}]
          /\ account'[u] = row /\ \A v \in Users : v # u => account'[v] = account[v]
        BY <1>1, <1>2, <1>4, <2>2
    <2>4. ActionOf(status) \in Actions
        BY DEF ActionOf, Actions
    <2>5. /\ changes["USER_LOCKED"] \in 0..MaxChanges /\ changes["USER_UNLOCKED"] \in 0..MaxChanges
          /\ changes["USER_LOCKED"] + changes["USER_UNLOCKED"] < MaxChanges
        BY <1>2, <1>4 DEF LocksAreChanges, Actions
    <2>6. /\ changes' \in [Actions -> 0..MaxChanges]
          /\ changes'["USER_LOCKED"] + changes'["USER_UNLOCKED"] <= MaxChanges
          /\ changes'["USER_LOCKED"] >= changes["USER_LOCKED"]
          /\ status \in {"locked", "rejected"} /\ account[u].status # status =>
               changes'["USER_LOCKED"] = changes["USER_LOCKED"] + 1
        BY <1>2, <1>4, <2>5 DEF ActionOf, Actions
    <2>7. \A v \in Users : /\ locks[v] \in 0..MaxChanges /\ locks[v] <= changes["USER_LOCKED"]
                           /\ locks'[v] = IF /\ v = u /\ status \in {"locked", "rejected"}
                                             /\ account[u].status # status
                                          THEN locks[v] + 1 ELSE locks[v]
        BY <1>1, <1>2, <1>4 DEF LocksAreChanges
    <2>8. \A v \in Users : locks'[v] \in 0..MaxChanges /\ locks'[v] <= changes'["USER_LOCKED"]
        <3>1. changes'["USER_LOCKED"] \in 0..MaxChanges
            BY <2>6 DEF Actions
        <3> QED
            BY <2>5, <2>6, <2>7, <3>1
    <2>9. locks' \in [Users -> 0..MaxChanges]
        <3>1. \A v \in Users : locks'[v] \in 0..MaxChanges
            BY <2>8
        <3> QED
            BY <1>2, <1>4, <3>1
    <2>10. Grows
        <3>1. \A v \in Users : Exists(v) => Exists(v)'
            BY <2>2, <2>3 DEF Exists
        <3>2. ASSUME NEW v \in Users, NEW n \in Nat, Begun(v, n) PROVE Begun(v, n)'
            <4>1. Exists(v) /\ n <= locks[v] /\ (ShutOut(v) => n < locks[v]) /\ locks[v] <= locks'[v]
                BY <2>7, <3>2 DEF Begun
            <4>2. ShutOut(v)' => n < locks'[v]
                <5>1. CASE v # u
                    BY <2>3, <2>7, <4>1, <5>1 DEF ShutOut, Exists
                <5>2. CASE v = u /\ account[u].status = status
                    BY <2>2, <2>3, <2>7, <4>1, <5>2 DEF ShutOut, Exists
                <5>3. CASE v = u /\ account[u].status # status
                    BY <2>2, <2>3, <2>7, <4>1, <5>3 DEF ShutOut, Exists
                <5> QED
                    BY <5>1, <5>2, <5>3
            <4>3. n \in 0..locks'[v]
                BY <2>7, <2>8, <4>1
            <4> QED
                BY <3>1, <4>1, <4>2, <4>3 DEF Begun
        <3> QED
            BY <1>0, <3>1, <3>2 DEF Grows
    <2>11. Fine(c)
        <3>1. CASE status = "active" /\ audit = NULL
            BY <1>4, <3>1, Ended
        <3>2. CASE ~(status = "active" /\ audit = NULL)
            <4> DEFINE at == IF status = "active" THEN "auditing" ELSE "sweeping"
            <4>1. /\ call' = [call EXCEPT ![c] = call'[c]]
                  /\ call'[c] = [call[c] EXCEPT !.audit = audit, !.at = at]
                BY <1>4, <3>2 DEF FramesHold
            <4>2. audit \in Actions \cup {NULL} /\ (at = "auditing" => audit \in Actions)
                BY <2>4, <3>2
            <4>3. call'[c] \in ChangeFrames /\ call'[c].at = at /\ call'[c].audit = audit
                BY <1>1, <4>1, <4>2 DEF ChangeFrames
            <4>4. FrameHolds(call[c])'
                BY <4>2, <4>3 DEF FrameHolds
            <4> QED
                BY <4>1, <4>3, <4>4 DEF Fine, Frames
        <3> QED
            BY <3>1, <3>2
    <2>12. SessionsTypeOK'
        BY <1>0, <2>3, <2>6, <2>9 DEF SessionsTypeOK, AccountsTypeOK
    <2>13. LocksAreChanges'
        BY <2>6, <2>8 DEF LocksAreChanges
    <2>14. UnusedMeansUnused' /\ CodesAreUsedOnce'
        BY <1>0 DEF UnusedMeansUnused, CodesAreUsedOnce
    <2> QED
        BY <1>0, <2>10, <2>11, <2>12, <2>13, <2>14, FineFrames, TokensStay
<1> QED
    BY <1>3, <1>4 DEF ChangeStatus

-----------------------------------------------------------------------------
(* Steps that change codes *)

\* Rows of codes are added, or marked as used once.
LEMMA CodesWrite ==
    ASSUME IInv, codes' \in Seq(CodeRows), Len(codes') <= MaxCodes,
           DOMAIN codes \subseteq DOMAIN codes',
           UNCHANGED <<account, clock, sessionRows>>, NEW c \in Calls, Fine(c),
           \A i \in DOMAIN codes' : /\ ~codes'[i].used => codes'[i].uses = 0
                                    /\ codes'[i].uses <= 1
    PROVE  IInv'
<1>1. UNCHANGED <<tokens, audits, locks, changes, crashed>>
    BY DEF sessionRows
<1>2. Grows
    BY <1>1 DEF Grows, Begun, Exists, ShutOut
<1>3. SessionsTypeOK' /\ LocksAreChanges'
    BY <1>1 DEF IInv, SessionsTypeOK, AccountsTypeOK, LocksAreChanges
<1> QED
    BY <1>1, <1>2, <1>3, FineFrames, TokensStay DEF IInv, UnusedMeansUnused, CodesAreUsedOnce

LEMMA SaveOtpIInv ==
    ASSUME IInv, NEW c \in Calls, SaveOtp(c), UNCHANGED sessionRows
    PROVE  IInv'
<1> USE DEF IInv
<1>1. call[c] \in SendFrames
    BY FrameOf, FrameShapes DEF SaveOtp, At
<1>2. /\ codes \in Seq(CodeRows) /\ Len(codes) <= MaxCodes /\ clock \in 0..MaxClock
      /\ \A i \in DOMAIN codes : codes[i].used \in BOOLEAN /\ codes[i].uses \in Nat
      /\ \A i \in DOMAIN codes : (~codes[i].used => codes[i].uses = 0) /\ codes[i].uses <= 1
    BY CodeFields DEF SessionsTypeOK, AccountsTypeOK, UnusedMeansUnused, CodesAreUsedOnce
<1>3. Fine(c)
    BY Ended DEF SaveOtp
<1>4. CASE codes' = codes
    BY <1>2, <1>3, <1>4, CodesWrite DEF SaveOtp
<1>5. ASSUME NEW code \in Codes, Len(codes) # MaxCodes,
             codes' = Append(codes, [email |-> call[c].email, code |-> code, uses |-> 0, used |-> FALSE,
                                     purpose |-> call[c].purpose, created |-> clock])
      PROVE  IInv'
    <2> DEFINE row == [email |-> call[c].email, code |-> code, uses |-> 0, used |-> FALSE,
                       purpose |-> call[c].purpose, created |-> clock]
    <2>1. row \in CodeRows /\ row.uses = 0
        BY <1>1, <1>2 DEF CodeRows, SendFrames
    <2> HIDE DEF row
    <2>2. /\ codes' \in Seq(CodeRows) /\ Len(codes') = Len(codes) + 1
          /\ \A i \in 1..Len(codes) : codes'[i] = codes[i]
          /\ codes'[Len(codes) + 1] = row
        BY <1>2, <1>5, <2>1, AppendProperties DEF row
    <2>3. Len(codes) \in Nat /\ DOMAIN codes = 1..Len(codes) /\ DOMAIN codes' = 1..Len(codes')
        BY <1>2, <2>2
    <2>4. \A i \in DOMAIN codes' : i \in DOMAIN codes \/ i = Len(codes) + 1
        BY <2>2, <2>3
    <2>5. \A i \in DOMAIN codes' : /\ ~codes'[i].used => codes'[i].uses = 0
                                   /\ codes'[i].uses <= 1
        BY <1>2, <2>1, <2>2, <2>3, <2>4
    <2>6. Len(codes') <= MaxCodes /\ DOMAIN codes \subseteq DOMAIN codes'
        BY <1>2, <1>5, <2>2, <2>3
    <2> QED
        BY <1>3, <2>2, <2>5, <2>6, CodesWrite DEF SaveOtp
<1> QED
    BY <1>4, <1>5 DEF SaveOtp

LEMMA UsedRow ==
    ASSUME NEW r \in CodeRows
    PROVE  LET used == [r EXCEPT !.used = TRUE, !.uses = 1]
           IN  used \in CodeRows /\ used.used = TRUE /\ used.uses = 1
BY DEF CodeRows

LEMMA MarkUsedIInv ==
    ASSUME IInv, NEW c \in Calls, MarkUsed(c), UNCHANGED sessionRows
    PROVE  IInv'
<1> USE DEF IInv
<1> DEFINE i == call[c].row
           row == [codes[i] EXCEPT !.used = TRUE, !.uses = @ + 1]
<1>1. call[c] \in ShowFrames /\ i \in DOMAIN codes
    BY FrameOf, FrameShapes DEF MarkUsed, At, FrameHolds
<1>2. /\ codes \in Seq(CodeRows) /\ Len(codes) <= MaxCodes
      /\ \A j \in DOMAIN codes : codes[j] \in CodeRows /\ codes[j].used \in BOOLEAN /\ codes[j].uses \in Nat
      /\ \A j \in DOMAIN codes : (~codes[j].used => codes[j].uses = 0) /\ codes[j].uses <= 1
    BY CodeFields DEF SessionsTypeOK, AccountsTypeOK, UnusedMeansUnused, CodesAreUsedOnce
<1>3. CASE End(c) /\ UNCHANGED codes
    BY <1>2, <1>3, Ended, CodesWrite DEF MarkUsed
<1>4. CASE /\ StillValid(c)
           /\ codes' = [codes EXCEPT ![call[c].row].used = TRUE, ![call[c].row].uses = @ + 1]
           /\ IF call[c].purpose = "register" THEN Goto(c, "verifying")
              ELSE IF call[c].login THEN Goto(c, "signing-in") ELSE End(c)
    <2>1. codes' = [codes EXCEPT ![i] = row]
        BY <1>1, <1>2, <1>4
    <2>2. codes[i].uses = 0
        BY <1>1, <1>2, <1>4 DEF StillValid
    <2>3. row \in CodeRows /\ row.used = TRUE /\ row.uses = 1
        <3>1. row = [codes[i] EXCEPT !.used = TRUE, !.uses = 1] /\ codes[i] \in CodeRows
            BY <1>1, <1>2, <2>2
        <3> HIDE DEF row
        <3> QED
            BY <3>1, UsedRow
    <2> HIDE DEF row
    <2>4. i \in 1..Len(codes)
        BY <1>1, <1>2
    <2>5. codes' \in Seq(CodeRows) /\ Len(codes') = Len(codes)
        BY <1>2, <2>1, <2>3, <2>4, ExceptSeq
    <2>6. DOMAIN codes' = DOMAIN codes /\ \A j \in DOMAIN codes : codes'[j] = IF j = i THEN row ELSE codes[j]
        BY <2>1
    <2>7. Fine(c)
        <3>1. ASSUME NEW await \in {"verifying", "signing-in"}, Goto(c, await)
              PROVE  Fine(c)
            <4>1. /\ call' = [call EXCEPT ![c] = call'[c]]
                  /\ call'[c] = [call[c] EXCEPT !.at = await]
                BY <3>1, Moved
            <4>2. call'[c] \in ShowFrames /\ call'[c].at = await
                BY <1>1, <4>1 DEF ShowFrames
            <4> QED
                BY <4>1, <4>2, PlainFrame DEF Frames, Careful
        <3> QED
            BY <1>4, <3>1, Ended
    <2>8. \A j \in DOMAIN codes' : /\ ~codes'[j].used => codes'[j].uses = 0
                                   /\ codes'[j].uses <= 1
        BY <1>2, <2>3, <2>6
    <2> QED
        BY <1>2, <2>5, <2>6, <2>7, <2>8, CodesWrite DEF MarkUsed
<1> QED
    BY <1>3, <1>4 DEF MarkUsed

-----------------------------------------------------------------------------
(* Steps that change tokens *)

\* Tokens are added or revoked, and stay those of their users.
LEMMA TokensWrite ==
    ASSUME IInv, tokens' \in Seq(TokenRows), Len(tokens') <= MaxTokens,
           DOMAIN tokens \subseteq DOMAIN tokens',
           \A t \in DOMAIN tokens : tokens'[t].user = tokens[t].user,
           UNCHANGED <<accountRows, audits, locks, changes, crashed>>,
           NEW c \in Calls, Fine(c),
           \A t \in DOMAIN tokens' :
                tokens'[t].login <= t /\ Begun(tokens'[t].user, tokens'[t].begun),
           \A s, t \in DOMAIN tokens' :
                ~tokens'[s].revoked /\ ~tokens'[t].revoked /\ tokens'[s].login = tokens'[t].login => s = t
    PROVE  IInv'
<1>1. UNCHANGED <<account, codes, clock>>
    BY DEF accountRows
<1>2. Grows
    BY <1>1 DEF Grows, Begun, Exists, ShutOut
<1>3. SessionsTypeOK' /\ LocksAreChanges' /\ UnusedMeansUnused' /\ CodesAreUsedOnce'
    BY <1>1 DEF IInv, SessionsTypeOK, AccountsTypeOK, LocksAreChanges, UnusedMeansUnused, CodesAreUsedOnce
<1>4. TokensBegun'
    BY <1>1 DEF TokensBegun, Begun, Exists, ShutOut
<1>5. OneLiveTokenPerLogin'
    BY DEF OneLiveTokenPerLogin
<1> QED
    BY <1>2, <1>3, <1>4, <1>5, FineFrames DEF IInv

\* What the invariant says of the tokens there are.
LEMMA TokenFacts ==
    ASSUME IInv
    PROVE  /\ tokens \in Seq(TokenRows) /\ Len(tokens) \in Nat /\ Len(tokens) <= MaxTokens
           /\ DOMAIN tokens = 1..Len(tokens)
           /\ clock \in 0..MaxClock
           /\ \A t \in DOMAIN tokens :
                /\ tokens[t] \in TokenRows /\ tokens[t].user \in Users
                /\ tokens[t].begun \in Nat /\ tokens[t].login \in 1..MaxTokens
                /\ tokens[t].login <= t /\ Begun(tokens[t].user, tokens[t].begun)
           /\ \A s, t \in DOMAIN tokens :
                ~tokens[s].revoked /\ ~tokens[t].revoked /\ tokens[s].login = tokens[t].login => s = t
<1>1. tokens \in Seq(TokenRows) /\ Len(tokens) <= MaxTokens /\ clock \in 0..MaxClock
    BY DEF IInv, SessionsTypeOK, AccountsTypeOK
<1> QED
    BY <1>1, TokenFields DEF IInv, TokensBegun, OneLiveTokenPerLogin

\* A new token, whose login is its own or that of no live one.
LEMMA TokenAdded ==
    ASSUME IInv, NEW c \in Calls, Fine(c), Len(tokens) < MaxTokens,
           NEW old \in Seq(TokenRows), NEW row \in TokenRows,
           Len(old) = Len(tokens), tokens' = Append(old, row),
           \A t \in DOMAIN tokens :
                /\ old[t].user = tokens[t].user /\ old[t].login = tokens[t].login
                /\ old[t].begun = tokens[t].begun
                /\ ~old[t].revoked => ~tokens[t].revoked /\ tokens[t].login # row.login,
           row.login <= Len(tokens) + 1, Begun(row.user, row.begun),
           UNCHANGED <<accountRows, audits, locks, changes, crashed>>
    PROVE  IInv'
<1> DEFINE n == Len(tokens) + 1
<1>1. /\ tokens' \in Seq(TokenRows) /\ Len(tokens') = n
      /\ \A t \in 1..Len(tokens) : tokens'[t] = old[t]
      /\ tokens'[n] = row
    BY AppendProperties
<1>2. DOMAIN tokens' = 1..n /\ n \in Nat /\ DOMAIN tokens = 1..Len(tokens) /\ Len(tokens) \in Nat
    BY <1>1, TokenFacts
<1> HIDE DEF n
<1>3. DOMAIN tokens \subseteq DOMAIN tokens' /\ \A t \in DOMAIN tokens' : t \in DOMAIN tokens \/ t = n
    BY <1>2 DEF n
<1>4. \A t \in DOMAIN tokens' :
          tokens'[t].login <= t /\ Begun(tokens'[t].user, tokens'[t].begun)
    <2> SUFFICES ASSUME NEW t \in DOMAIN tokens'
                 PROVE  tokens'[t].login <= t /\ Begun(tokens'[t].user, tokens'[t].begun)
        OBVIOUS
    <2>1. CASE t \in DOMAIN tokens
        <3>1. /\ tokens'[t].login = tokens[t].login /\ tokens'[t].user = tokens[t].user
              /\ tokens'[t].begun = tokens[t].begun
            BY <1>1, <1>2, <2>1
        <3>2. tokens[t].login <= t /\ Begun(tokens[t].user, tokens[t].begun)
            BY <2>1, TokenFacts
        <3> QED
            BY <3>1, <3>2
    <2>2. CASE t = n
        BY <1>1, <2>2 DEF n
    <2> QED
        BY <1>3, <2>1, <2>2
<1>5. \A t \in DOMAIN tokens : tokens'[t] = old[t]
    BY <1>1, <1>2
<1>6. \A s, t \in DOMAIN tokens' :
          ~tokens'[s].revoked /\ ~tokens'[t].revoked /\ tokens'[s].login = tokens'[t].login => s = t
    <2>1. \A t \in DOMAIN tokens :
              /\ tokens'[t].login = tokens[t].login
              /\ ~tokens'[t].revoked => ~tokens[t].revoked /\ tokens'[t].login # tokens'[n].login
        BY <1>1, <1>5
    <2>2. \A s, t \in DOMAIN tokens :
              ~tokens[s].revoked /\ ~tokens[t].revoked /\ tokens[s].login = tokens[t].login => s = t
        BY TokenFacts
    <2> SUFFICES ASSUME NEW s \in DOMAIN tokens', NEW t \in DOMAIN tokens',
                        ~tokens'[s].revoked, ~tokens'[t].revoked,
                        tokens'[s].login = tokens'[t].login
                 PROVE  s = t
        OBVIOUS
    <2>3. CASE s \in DOMAIN tokens /\ t \in DOMAIN tokens
        BY <2>1, <2>2, <2>3
    <2>4. CASE s \in DOMAIN tokens /\ t = n
        BY <2>1, <2>4
    <2>5. CASE s = n /\ t \in DOMAIN tokens
        BY <2>1, <2>5
    <2> QED
        BY <1>3, <2>3, <2>4, <2>5
<1> QED
    BY <1>1, <1>2, <1>3, <1>4, <1>5, <1>6, TokensWrite, SMTT(30) DEF n

LEMMA InsertIInv ==
    ASSUME IInv, NEW c \in Calls, InsertToken(c)
    PROVE  IInv'
<1> DEFINE u == call[c].user
           row == NewToken(c, u, Len(tokens) + 1)
<1>1. Fine(c)
    BY Ended DEF InsertToken, IInv
<1>2. call[c] \in InsertFrames /\ Begun(u, call[c].begun)
    BY FrameOf, FrameShapes DEF InsertToken, At, FrameHolds, IInv
<1>3. u \in Users /\ call[c].begun \in Nat /\ call[c].begun \in 0..MaxChanges
    <2>1. u \in Users /\ call[c].begun \in Nat
        BY <1>2 DEF InsertFrames
    <2>2. locks[u] \in 0..MaxChanges
        BY <2>1 DEF IInv, SessionsTypeOK
    <2> QED
        BY <1>2, <2>1, <2>2 DEF Begun
<1>4. CASE UNCHANGED tokens
    BY <1>1, <1>4, LookStep DEF Fine, InsertToken, IInv, SessionsTypeOK
<1>5. CASE Len(tokens) < MaxTokens /\ tokens' = Append(tokens, row)
    <2>1. /\ row \in TokenRows /\ row.user = u /\ row.begun = call[c].begun
          /\ row.login = Len(tokens) + 1
        BY <1>3, <1>5, TokenFacts DEF TokenRows, NewToken
    <2> HIDE DEF row
    <2>2. \A t \in DOMAIN tokens : tokens[t].login # row.login
        BY <2>1, TokenFacts
    <2>3. tokens \in Seq(TokenRows)
        BY TokenFacts
    <2>4. row.login <= Len(tokens) + 1 /\ Begun(row.user, row.begun)
        BY <1>2, <2>1, TokenFacts
    <2>5. UNCHANGED <<accountRows, audits, locks, changes, crashed>>
        BY DEF InsertToken
    <2> QED
        BY <1>1, <1>5, <2>1, <2>2, <2>3, <2>4, <2>5, TokenAdded
<1> QED
    BY <1>4, <1>5 DEF InsertToken

LEMMA RevokedRow ==
    ASSUME NEW r \in TokenRows
    PROVE  LET revoked == [r EXCEPT !.revoked = TRUE]
           IN  /\ revoked \in TokenRows /\ revoked.revoked = TRUE
               /\ revoked.user = r.user /\ revoked.login = r.login /\ revoked.begun = r.begun
BY DEF TokenRows

LEMMA RotateIInv ==
    ASSUME IInv, NEW c \in Calls, Rotate(c)
    PROVE  IInv'
<1> DEFINE k == call[c].token
           u == tokens[k].user
           row == NewToken(c, u, tokens[k].login)
           gone == [tokens[k] EXCEPT !.revoked = TRUE]
           old == [tokens EXCEPT ![k] = gone]
<1>1. Fine(c)
    BY Ended DEF Rotate, IInv
<1>2. call[c] \in RotateFrames /\ k \in DOMAIN tokens /\ Begun(u, call[c].begun)
    BY FrameOf, FrameShapes DEF Rotate, At, FrameHolds, IInv
<1>3. u \in Users /\ call[c].begun \in Nat /\ call[c].begun \in 0..MaxChanges
    <2>1. u \in Users /\ call[c].begun \in Nat
        BY <1>2, TokenFacts DEF RotateFrames
    <2>2. locks[u] \in 0..MaxChanges
        BY <2>1 DEF IInv, SessionsTypeOK
    <2> QED
        BY <1>2, <2>1, <2>2 DEF Begun
<1>4. CASE UNCHANGED tokens
    BY <1>1, <1>4, LookStep DEF Fine, Rotate, IInv, SessionsTypeOK
<1>5. CASE Rotatable(c) /\ Len(tokens) < MaxTokens /\ tokens' = Append(old, row)
    <2>1. /\ row \in TokenRows /\ row.user = u /\ row.begun = call[c].begun
          /\ row.login = tokens[k].login
        BY <1>2, <1>3, TokenFacts DEF TokenRows, NewToken
    <2>2. /\ gone \in TokenRows /\ gone.revoked = TRUE
          /\ gone.user = u /\ gone.login = tokens[k].login /\ gone.begun = tokens[k].begun
        BY <1>2, TokenFacts, RevokedRow
    <2> HIDE DEF row, gone
    <2>3. k \in 1..Len(tokens)
        BY <1>2, TokenFacts
    <2>4. old \in Seq(TokenRows) /\ Len(old) = Len(tokens)
        BY <2>2, <2>3, TokenFacts, ExceptSeq
    <2>5. \A t \in DOMAIN tokens : old[t] = IF t = k THEN gone ELSE tokens[t]
        BY <1>2
    <2> HIDE DEF old
    <2>6. \A t \in DOMAIN tokens :
                /\ old[t].user = tokens[t].user /\ old[t].login = tokens[t].login
                /\ old[t].begun = tokens[t].begun
        BY <2>2, <2>5
    <2>7. \A t \in DOMAIN tokens :
                ~old[t].revoked => ~tokens[t].revoked /\ tokens[t].login # row.login
        <3> SUFFICES ASSUME NEW t \in DOMAIN tokens, ~old[t].revoked
                     PROVE  ~tokens[t].revoked /\ tokens[t].login # row.login
            OBVIOUS
        <3>1. t # k /\ old[t] = tokens[t]
            BY <2>2, <2>5
        <3>2. ~tokens[k].revoked
            BY <1>5 DEF Rotatable
        <3> QED
            BY <1>2, <2>1, <3>1, <3>2, TokenFacts
    <2>8. row.login <= Len(tokens) + 1
        BY <1>2, <2>1, <2>3, TokenFacts
    <2>9. Begun(row.user, row.begun)
        BY <1>2, <2>1
    <2>10. UNCHANGED <<accountRows, audits, locks, changes, crashed>>
        BY DEF Rotate
    <2>11. \A t \in DOMAIN tokens :
                /\ old[t].user = tokens[t].user /\ old[t].login = tokens[t].login
                /\ old[t].begun = tokens[t].begun
                /\ ~old[t].revoked => ~tokens[t].revoked /\ tokens[t].login # row.login
        BY <2>6, <2>7
    <2> QED
        BY <1>1, <1>5, <2>1, <2>4, <2>8, <2>9, <2>10, <2>11, TokenAdded
<1>6. [tokens EXCEPT ![k].revoked = TRUE] = old
    BY <1>2
<1> QED
    BY <1>4, <1>5, <1>6 DEF Rotate

LEMMA RevokeIInv ==
    ASSUME IInv, NEW c \in Calls, Revoke(c)
    PROVE  IInv'
<1>1. Fine(c)
    <2>1. call[c] \in ChangeFrames \cup LogoutFrames
        BY FrameOf, FrameShapes DEF Revoke, At, IInv
    <2>2. CASE call[c].audit # NULL /\ Goto(c, "auditing")
        <3>1. call[c] \in ChangeFrames /\ call[c].audit \in Actions
            BY <2>1, <2>2 DEF ChangeFrames, LogoutFrames
        <3>2. /\ call' = [call EXCEPT ![c] = call'[c]]
              /\ call'[c] = [call[c] EXCEPT !.at = "auditing"]
            BY <2>2, Moved DEF IInv
        <3>3. call'[c] \in ChangeFrames /\ call'[c].at = "auditing" /\ call'[c].audit = call[c].audit
            BY <3>1, <3>2 DEF ChangeFrames
        <3>4. FrameHolds(call[c])'
            BY <3>1, <3>3 DEF FrameHolds
        <3> QED
            BY <3>2, <3>3, <3>4 DEF Fine, Frames
    <2> QED
        BY <2>2, Ended DEF Revoke, IInv
<1> DEFINE Gone(t) == [tokens[t] EXCEPT !.revoked = TRUE]
<1>2. /\ DOMAIN tokens' = DOMAIN tokens
      /\ \A t \in DOMAIN tokens : tokens'[t] = IF t \in call[c].row THEN Gone(t) ELSE tokens[t]
    BY DEF Revoke
<1>3. \A t \in DOMAIN tokens :
          /\ Gone(t) \in TokenRows /\ Gone(t).revoked = TRUE
          /\ Gone(t).user = tokens[t].user /\ Gone(t).login = tokens[t].login
          /\ Gone(t).begun = tokens[t].begun
    BY TokenFacts, RevokedRow
<1> HIDE DEF Gone
<1>4. \A t \in DOMAIN tokens :
          /\ tokens'[t] \in TokenRows
          /\ tokens'[t].user = tokens[t].user /\ tokens'[t].login = tokens[t].login
          /\ tokens'[t].begun = tokens[t].begun
          /\ ~tokens'[t].revoked => ~tokens[t].revoked
    BY <1>2, <1>3, TokenFacts
<1>5. tokens' \in Seq(TokenRows) /\ Len(tokens') = Len(tokens)
    <2>1. tokens' = [t \in 1..Len(tokens) |-> tokens'[t]]
        BY TokenFacts DEF Revoke
    <2>2. Len(tokens) \in Nat /\ DOMAIN tokens = 1..Len(tokens)
        BY TokenFacts
    <2>3. \A t \in 1..Len(tokens) : tokens'[t] \in TokenRows
        BY <1>4, <2>2
    <2> QED
        BY <2>1, <2>2, <2>3, SMTT(30)
<1>6. \A s, t \in DOMAIN tokens' :
          ~tokens'[s].revoked /\ ~tokens'[t].revoked /\ tokens'[s].login = tokens'[t].login => s = t
    BY <1>2, <1>4, TokenFacts
<1>7. \A t \in DOMAIN tokens' :
          tokens'[t].login <= t /\ Begun(tokens'[t].user, tokens'[t].begun)
    BY <1>2, <1>4, TokenFacts
<1>8. Len(tokens') <= MaxTokens /\ UNCHANGED <<accountRows, audits, locks, changes, crashed>>
    BY <1>5, TokenFacts DEF Revoke
<1> QED
    BY <1>1, <1>2, <1>4, <1>5, <1>6, <1>7, <1>8, TokensWrite

-----------------------------------------------------------------------------
(* The other steps *)

LEMMA AuditIInv ==
    ASSUME IInv, NEW c \in Calls, AuditStatus(c)
    PROVE  IInv'
<1>1. Fine(c)
    BY Ended DEF AuditStatus, IInv
<1>2. UNCHANGED <<account, codes, clock, tokens, locks, changes, crashed>>
    BY DEF AuditStatus, accountRows
<1>3. audits' \in [Actions -> Nat]
    <2>1. call[c].audit \in Actions
        BY FrameOf DEF AuditStatus, At, FrameHolds, IInv
    <2> QED
        BY <2>1 DEF AuditStatus, IInv, SessionsTypeOK
<1>4. SessionsTypeOK'
    BY <1>2, <1>3 DEF IInv, SessionsTypeOK, AccountsTypeOK
<1>5. Grows
    BY <1>2, SameGrows DEF accountRows
<1>6. UnusedMeansUnused' /\ CodesAreUsedOnce' /\ LocksAreChanges'
    BY <1>2 DEF IInv, UnusedMeansUnused, CodesAreUsedOnce, LocksAreChanges
<1> QED
    BY <1>1, <1>2, <1>4, <1>5, <1>6, FineFrames, TokensStay DEF IInv

LEMMA TickIInv ==
    ASSUME IInv, Tick, UNCHANGED sessionRows
    PROVE  IInv'
<1>1. UNCHANGED <<call, account, codes, tokens, audits, locks, changes, crashed>>
    BY DEF Tick, sessionRows
<1>2. clock' \in 0..MaxClock
    BY DEF Tick, IInv, SessionsTypeOK, AccountsTypeOK
<1>3. SessionsTypeOK'
    BY <1>1, <1>2 DEF IInv, SessionsTypeOK, AccountsTypeOK
<1>4. Grows
    BY <1>1 DEF Grows, Begun, Exists, ShutOut
<1>5. UnusedMeansUnused' /\ CodesAreUsedOnce' /\ LocksAreChanges'
    BY <1>1 DEF IInv, UnusedMeansUnused, CodesAreUsedOnce, LocksAreChanges
<1> QED
    BY <1>1, <1>3, <1>4, <1>5, FramesRest, TokensStay DEF IInv

LEMMA StutterIInv ==
    ASSUME IInv, UNCHANGED sessionsVars
    PROVE  IInv'
<1>1. UNCHANGED <<call, account, codes, clock, tokens, audits, locks, changes, crashed>>
    BY DEF sessionsVars
<1>2. SessionsTypeOK'
    BY <1>1 DEF IInv, SessionsTypeOK, AccountsTypeOK
<1>3. Grows
    BY <1>1, SameGrows DEF accountRows
<1>4. UnusedMeansUnused' /\ CodesAreUsedOnce' /\ LocksAreChanges'
    BY <1>1 DEF IInv, UnusedMeansUnused, CodesAreUsedOnce, LocksAreChanges
<1> QED
    BY <1>1, <1>2, <1>3, <1>4, FramesRest, TokensStay DEF IInv

LEMMA AccountsStepIInv ==
    ASSUME IInv, NEW c \in Calls, AccountsStep(c), UNCHANGED sessionRows
    PROVE  IInv'
<1>1. UNCHANGED <<tokens, audits, locks, changes, crashed>> /\ crashed \in BOOLEAN
    BY DEF sessionRows, IInv, SessionsTypeOK
<1>2. CASE Register(c) \/ CheckEmail(c) \/ Sync(c) \/ FindByUid(c) \/ FindByEmail(c)
    <2>1. UNCHANGED accountRows
        BY <1>2 DEF accountRows, Register, CheckEmail, Sync, FindByUid, FindByEmail
    <2>2. Fine(c)
        BY <1>2, <2>1, RegistrationLooks DEF IInv, SessionsTypeOK, accountRows
    <2> QED
        BY <1>1, <2>1, <2>2, LookStep DEF Fine
<1>3. CASE \/ SendOtp(c) \/ CountRecent(c) \/ CheckTarget(c)
           \/ VerifyOtp(c) \/ SelectOtp(c) \/ FindVerified(c)
    <2>1. UNCHANGED accountRows
        BY <1>3 DEF accountRows, SendOtp, CountRecent, CheckTarget, VerifyOtp, SelectOtp, FindVerified
    <2>2. Fine(c)
        BY <1>3, <2>1, CodeLooks DEF IInv, accountRows
    <2> QED
        BY <1>1, <2>1, <2>2, LookStep DEF Fine
<1>4. CASE Create(c)
    BY <1>4, CreateIInv
<1>5. CASE Link(c)
    BY <1>5, LinkIInv
<1>6. CASE FlagVerified(c)
    BY <1>6, FlagIInv
<1>7. CASE SaveOtp(c)
    BY <1>7, SaveOtpIInv
<1>8. CASE MarkUsed(c)
    BY <1>8, MarkUsedIInv
<1> QED
    BY <1>2, <1>3, <1>4, <1>5, <1>6, <1>7, <1>8 DEF AccountsStep

LEMMA NextIInv == IInv /\ [SessionsNext /\ UNCHANGED mix]_sessionsVars => IInv'
<1> SUFFICES ASSUME IInv, [SessionsNext /\ UNCHANGED mix]_sessionsVars PROVE IInv'
    OBVIOUS
<1>1. ASSUME NEW c \in Calls, AccountsStep(c), UNCHANGED sessionRows PROVE IInv'
    BY <1>1, AccountsStepIInv
<1>2. ASSUME NEW c \in Calls,
             \/ Login(c) \/ SignIn(c) \/ ReadStatus(c) \/ Refresh(c) \/ ReadAccount(c)
             \/ Logout(c) \/ Sweep(c) \/ SetStatus(c)
      PROVE  IInv'
    <2>1. Fine(c) /\ UNCHANGED <<accountRows, sessionRows>>
        BY <1>2, SessionLooks
    <2> QED
        BY <2>1, LookStep DEF Fine, sessionRows, IInv, SessionsTypeOK
<1>3. ASSUME NEW c \in Calls, InsertToken(c) PROVE IInv'
    BY <1>3, InsertIInv
<1>4. ASSUME NEW c \in Calls, Rotate(c) PROVE IInv'
    BY <1>4, RotateIInv
<1>5. ASSUME NEW c \in Calls, Revoke(c) PROVE IInv'
    BY <1>5, RevokeIInv
<1>6. ASSUME NEW c \in Calls, ChangeStatus(c) PROVE IInv'
    BY <1>6, ChangeStatusIInv
<1>7. ASSUME NEW c \in Calls, AuditStatus(c) PROVE IInv'
    BY <1>7, AuditIInv
<1>8. ASSUME NEW c \in Calls, CrashSession(c) PROVE IInv'
    <2>1. Fine(c)
        BY <1>8, Ended DEF CrashSession, Die, IInv
    <2> QED
        BY <1>8, <2>1, LookStep DEF CrashSession, Fine
<1>9. ASSUME NEW u \in Users, UpdateMe(u) \/ UpdateMyRole(u), UNCHANGED sessionRows PROVE IInv'
    BY <1>9, UpdatesIInv
<1>10. CASE Tick /\ UNCHANGED sessionRows
    BY <1>10, TickIInv
<1>11. CASE UNCHANGED sessionsVars
    BY <1>11, StutterIInv
<1> QED
    BY <1>1, <1>2, <1>3, <1>4, <1>5, <1>6, <1>7, <1>8, <1>9, <1>10, <1>11 DEF SessionsNext

LEMMA InitIInv == SessionsInit => IInv
<1> SUFFICES ASSUME SessionsInit PROVE IInv
    OBVIOUS
<1> USE SeededAccountsAssumption, SeededTokensAssumption
<1>1. /\ account = [u \in Users |-> IF u \in DOMAIN Seeded THEN Seeded[u] ELSE NULL]
      /\ codes = SeededCodes /\ clock = 0 /\ tokens = SeededTokens
      /\ call = [c \in Calls |-> Idle]
      /\ locks = [u \in Users |-> 0]
      /\ audits = [a \in Actions |-> 0] /\ changes = [a \in Actions |-> 0]
      /\ crashed = FALSE
    BY DEF SessionsInit, AccountsInit, HandlersInit
<1>2. SessionsTypeOK
    <2>1. account \in [Users -> Rows \cup {NULL}]
        BY <1>1
    <2>2. 0 \in 0..MaxClock /\ 0 \in 0..MaxChanges
        OBVIOUS
    <2>3. /\ locks \in [Users -> 0..MaxChanges] /\ changes \in [Actions -> 0..MaxChanges]
          /\ audits \in [Actions -> Nat]
        BY <1>1, <2>2
    <2>4. codes \in Seq(CodeRows) /\ Len(codes) <= MaxCodes /\ clock \in 0..MaxClock
        BY <1>1, <2>2
    <2>5. tokens \in Seq(TokenRows) /\ Len(tokens) <= MaxTokens /\ crashed \in BOOLEAN
        BY <1>1
    <2> QED
        BY <2>1, <2>3, <2>4, <2>5 DEF SessionsTypeOK, AccountsTypeOK
<1>3. FramesHold
    BY <1>1 DEF FramesHold, FrameHolds, Frames, Idle
<1>4. UnusedMeansUnused /\ CodesAreUsedOnce
    BY <1>1 DEF UnusedMeansUnused, CodesAreUsedOnce
<1>5. TokensBegun
    <2> SUFFICES ASSUME NEW t \in DOMAIN tokens
                 PROVE  tokens[t].login <= t /\ Begun(tokens[t].user, tokens[t].begun)
        BY DEF TokensBegun
    <2> DEFINE u == tokens[t].user
    <2>1. /\ tokens[t].login = t /\ tokens[t].begun = 0 /\ u \in DOMAIN Seeded
          /\ Seeded[u].status \in {"pending_verification", "active"}
        BY <1>1
    <2>2. u \in Users /\ account[u] = Seeded[u] /\ locks[u] = 0 /\ Seeded[u] \in Rows
        BY <1>1, <2>1
    <2>3. t \in Nat
        BY <1>1
    <2>4. Exists(u) /\ ~ShutOut(u)
        BY <2>1, <2>2 DEF Exists, ShutOut
    <2> QED
        BY <2>1, <2>2, <2>3, <2>4 DEF Begun
<1>6. OneLiveTokenPerLogin
    BY <1>1 DEF OneLiveTokenPerLogin
<1>7. LocksAreChanges
    BY <1>1 DEF LocksAreChanges, Actions
<1> QED
    BY <1>2, <1>3, <1>4, <1>5, <1>6, <1>7 DEF IInv

-----------------------------------------------------------------------------
(* Theorems *)

\* The inductive invariant of accounts, codes and tokens holds in every reachable state.
THEOREM InvariantOfSpec == SessionsSpec => []IInv
BY InitIInv, NextIInv, PTL DEF SessionsSpec

\* The rows of users, otp_verifications and refresh_tokens have their types, and the
\* counters of changes stay within their bound.
THEOREM TypeCorrect == SessionsSpec => []SessionsTypeOK
<1>1. IInv => SessionsTypeOK
    BY DEF IInv
<1> QED
    BY <1>1, InvariantOfSpec, PTL

\* ADR 0005, item 7, for consumeValidOtp: however many requests show a code, one
\* consumes it, although the row is read before the conditional UPDATE.
THEOREM CodesUsedOnce == SessionsSpec => []CodesAreUsedOnce
<1>1. IInv => CodesAreUsedOnce
    BY DEF IInv
<1> QED
    BY <1>1, InvariantOfSpec, PTL

\* ADR 0005, item 7, for rotateRefreshToken: of concurrent refreshes with one token at
\* most one wins, and a login is worth one live token whatever rotates and revokes it.
THEOREM RotationIsExclusive == SessionsSpec => []OneLiveTokenPerLogin
<1>1. IInv => OneLiveTokenPerLogin
    BY DEF IInv
<1> QED
    BY <1>1, InvariantOfSpec, PTL

\* ADR 0005, item 6, as far as the code goes: a token of an account that is locked or
\* rejected was issued to a request that had read the account before that.
THEOREM LockedOut == SessionsSpec => []LockedOutFromNowOn
<1>1. IInv => LockedOutFromNowOn
    <2> SUFFICES ASSUME IInv, NEW u \in Users, ShutOut(u), NEW t \in LiveOf(u)
                 PROVE  tokens[t].begun < locks[u]
        BY DEF LockedOutFromNowOn
    <2>1. t \in DOMAIN tokens /\ tokens[t].user = u
        BY DEF LiveOf
    <2> QED
        BY <2>1 DEF IInv, TokensBegun, Begun
<1> QED
    BY <1>1, InvariantOfSpec, PTL

-----------------------------------------------------------------------------
(* The limit of codes, and the audit *)

\* Stages of a request that counts the codes of an address, or owes an audit row.
Counts == {"counting", "addressing", "storing"}
Owes == {"sweeping", "revoking", "auditing"}

\* A step of c goes from a stage outside of a set to another outside of it.
Aside(c, stages) ==
    /\ call' = [call EXCEPT ![c] = call'[c]]
    /\ call[c].at \notin stages /\ call'[c].at \notin stages

\* Codes are marked at most, none is added.
CodesKept ==
    /\ DOMAIN codes' = DOMAIN codes
    /\ \A i \in DOMAIN codes :
         codes'[i].email = codes[i].email /\ codes'[i].created = codes[i].created

LEMMA StageMoved ==
    ASSUME NEW f \in Frames, NEW await
    PROVE  /\ [f EXCEPT !.at = await].at = await
           /\ \A u : [f EXCEPT !.at = await, !.user = u].at = await
           /\ \A i : [f EXCEPT !.at = await, !.row = i].at = await
BY DEF Frames, Idle, RegisterFrames, SyncFrames, SendFrames, ShowFrames, LoginFrames,
       InsertFrames, RefreshFrames, RotateFrames, ChangeFrames, LogoutFrames

\* What the handlers do to the stage of their own frame.
LEMMA StageSteps ==
    ASSUME FramesHold, NEW c \in Calls
    PROVE  /\ \A g : call' = [call EXCEPT ![c] = g] =>
                call' = [call EXCEPT ![c] = call'[c]] /\ call'[c] = g
           /\ End(c) => call' = [call EXCEPT ![c] = call'[c]] /\ call'[c].at = "idle"
           /\ \A await : Goto(c, await) =>
                call' = [call EXCEPT ![c] = call'[c]] /\ call'[c].at = await
           /\ \A await, i : Keep(c, await, i) =>
                call' = [call EXCEPT ![c] = call'[c]] /\ call'[c].at = await
           /\ \A await, u : call' = [call EXCEPT ![c].at = await, ![c].user = u] =>
                call' = [call EXCEPT ![c] = call'[c]] /\ call'[c].at = await
           /\ \A frame : Receive(c, frame) =>
                /\ call' = [call EXCEPT ![c] = call'[c]] /\ call'[c] = frame
                /\ call[c].at = "idle"
<1>1. call \in [Calls -> Frames] /\ call[c] \in Frames
    BY DEF FramesHold
<1>2. Idle.at = "idle"
    BY DEF Idle
<1>3. ASSUME NEW await, Goto(c, await)
      PROVE  call' = [call EXCEPT ![c] = call'[c]] /\ call'[c].at = await
    <2>1. call' = [call EXCEPT ![c] = call'[c]] /\ call'[c] = [call[c] EXCEPT !.at = await]
        BY <1>1, <1>3 DEF Goto
    <2> QED
        BY <1>1, <2>1, StageMoved
<1>4. ASSUME NEW await, NEW i, Keep(c, await, i)
      PROVE  call' = [call EXCEPT ![c] = call'[c]] /\ call'[c].at = await
    <2>1. /\ call' = [call EXCEPT ![c] = call'[c]]
          /\ call'[c] = [call[c] EXCEPT !.at = await, !.row = i]
        BY <1>1, <1>4 DEF Keep
    <2> QED
        BY <1>1, <2>1, StageMoved
<1>5. ASSUME NEW await, NEW u, call' = [call EXCEPT ![c].at = await, ![c].user = u]
      PROVE  call' = [call EXCEPT ![c] = call'[c]] /\ call'[c].at = await
    <2>1. /\ call' = [call EXCEPT ![c] = call'[c]]
          /\ call'[c] = [call[c] EXCEPT !.at = await, !.user = u]
        BY <1>1, <1>5
    <2> QED
        BY <1>1, <2>1, StageMoved
<1>6. ASSUME NEW g, call' = [call EXCEPT ![c] = g]
      PROVE  call' = [call EXCEPT ![c] = call'[c]] /\ call'[c] = g
    BY <1>1, <1>6
<1>7. End(c) => call' = [call EXCEPT ![c] = call'[c]] /\ call'[c].at = "idle"
    BY <1>2, <1>6 DEF End
<1>8. ASSUME NEW frame, Receive(c, frame)
      PROVE  /\ call' = [call EXCEPT ![c] = call'[c]] /\ call'[c] = frame
             /\ call[c].at = "idle"
    BY <1>6, <1>8 DEF Receive, At
<1> QED
    BY <1>3, <1>4, <1>5, <1>6, <1>7, <1>8

\* An account found by its uid is kept with its address.
LEMMA StageLinked ==
    ASSUME FramesHold, NEW c \in Calls, NEW u, NEW e,
           call' = [call EXCEPT ![c].at = "linking", ![c].user = u, ![c].email = e]
    PROVE  call' = [call EXCEPT ![c] = call'[c]] /\ call'[c].at = "linking"
<1>1. call \in [Calls -> Frames] /\ call[c] \in Frames
    BY DEF FramesHold
<1>2. /\ call' = [call EXCEPT ![c] = call'[c]]
      /\ call'[c] = [call[c] EXCEPT !.at = "linking", !.user = u, !.email = e]
    BY <1>1
<1>3. \A f \in Frames : [f EXCEPT !.at = "linking", !.user = u, !.email = e].at = "linking"
    BY DEF Frames, Idle, RegisterFrames, SyncFrames, SendFrames, ShowFrames, LoginFrames,
           InsertFrames, RefreshFrames, RotateFrames, ChangeFrames, LogoutFrames
<1> QED
    BY <1>1, <1>2, <1>3

\* The steps that neither count codes nor owe an audit.
LEMMA OtherAccountsSteps ==
    ASSUME FramesHold, SessionsTypeOK, NEW c \in Calls,
           \/ Register(c) \/ CheckEmail(c) \/ Create(c)
           \/ Sync(c) \/ FindByUid(c) \/ FindByEmail(c) \/ Link(c)
           \/ VerifyOtp(c) \/ SelectOtp(c) \/ MarkUsed(c) \/ FindVerified(c) \/ FlagVerified(c)
    PROVE  Aside(c, Counts) /\ Aside(c, Owes) /\ CodesKept /\ UNCHANGED clock
<1> USE DEF Aside, Counts, Owes, At
<1>1. ASSUME UNCHANGED codes PROVE CodesKept
    BY <1>1 DEF CodesKept
<1>2. CASE Register(c)
    BY <1>1, <1>2, StageSteps DEF Register
<1>3. CASE CheckEmail(c)
    BY <1>1, <1>3, StageSteps DEF CheckEmail
<1>4. CASE Create(c)
    <2>1. \/ End(c)
          \/ \E u \in Users : call' = [call EXCEPT ![c].at = "issuing", ![c].user = u]
        BY <1>4 DEF Create
    <2>2. call' = [call EXCEPT ![c] = call'[c]] /\ call'[c].at \in {"idle", "issuing"}
        BY <2>1, StageSteps
    <2> QED
        BY <1>1, <1>4, <2>2 DEF Create
<1>5. CASE Sync(c)
    BY <1>1, <1>5, StageSteps DEF Sync
<1>6. CASE FindByUid(c)
    <2>1. ASSUME Goto(c, "matching")
          PROVE  call' = [call EXCEPT ![c] = call'[c]] /\ call'[c].at = "matching"
        BY <2>1, StageSteps
    <2>2. ASSUME NEW u \in WithUid(call[c].uid),
                 call' = [call EXCEPT ![c].at = "linking", ![c].user = u, ![c].email = account[u].email]
          PROVE  call' = [call EXCEPT ![c] = call'[c]] /\ call'[c].at = "linking"
        BY <2>2, StageLinked
    <2>3. call' = [call EXCEPT ![c] = call'[c]] /\ call'[c].at \in {"matching", "linking"}
        BY <1>6, <2>1, <2>2 DEF FindByUid
    <2> QED
        BY <1>1, <1>6, <2>3 DEF FindByUid
<1>7. CASE FindByEmail(c)
    BY <1>1, <1>7, StageSteps DEF FindByEmail
<1>8. CASE Link(c)
    BY <1>1, <1>8, StageSteps DEF Link
<1>9. CASE VerifyOtp(c)
    BY <1>1, <1>9, StageSteps DEF VerifyOtp
<1>10. CASE SelectOtp(c)
    BY <1>1, <1>10, StageSteps DEF SelectOtp
<1>11. CASE MarkUsed(c)
    <2>1. CodesKept
        <3>1. CASE UNCHANGED codes
            BY <1>1, <3>1
        <3>2. CASE codes' = [codes EXCEPT ![call[c].row].used = TRUE, ![call[c].row].uses = @ + 1]
            <4>1. \A i \in DOMAIN codes : codes[i] \in CodeRows
                BY CodeFields
            <4>2. codes \in Seq(CodeRows)
                BY DEF SessionsTypeOK, AccountsTypeOK
            <4> QED
                BY <3>2, <4>1, <4>2 DEF CodesKept, CodeRows
        <3> QED
            BY <1>11, <3>1, <3>2 DEF MarkUsed
    <2> QED
        BY <1>11, <2>1, StageSteps DEF MarkUsed
<1>12. CASE FindVerified(c)
    <2>1. \/ End(c) \/ Goto(c, "signing-in")
          \/ \E u \in Users : call' = [call EXCEPT ![c].at = "flagging", ![c].user = u]
        BY <1>12 DEF FindVerified, Verified, WithEmail
    <2>2. /\ call' = [call EXCEPT ![c] = call'[c]]
          /\ call'[c].at \in {"idle", "signing-in", "flagging"}
        BY <2>1, StageSteps
    <2> QED
        BY <1>1, <1>12, <2>2 DEF FindVerified
<1>13. CASE FlagVerified(c)
    <2>1. End(c) \/ Goto(c, "signing-in")
        BY <1>13 DEF FlagVerified, Verified
    <2>2. call' = [call EXCEPT ![c] = call'[c]] /\ call'[c].at \in {"idle", "signing-in"}
        BY <2>1, StageSteps
    <2> QED
        BY <1>1, <1>13, <2>2 DEF FlagVerified
<1> QED
    BY <1>2, <1>3, <1>4, <1>5, <1>6, <1>7, <1>8, <1>9, <1>10, <1>11, <1>12, <1>13

LEMMA OtherSessionsSteps ==
    ASSUME FramesHold, NEW c \in Calls,
           \/ Login(c) \/ SignIn(c) \/ ReadStatus(c) \/ InsertToken(c)
           \/ Refresh(c) \/ ReadAccount(c) \/ Rotate(c) \/ SetStatus(c)
    PROVE  /\ Aside(c, Counts) /\ Aside(c, Owes) /\ CodesKept
           /\ UNCHANGED <<clock, audits, changes, crashed>>
<1> USE DEF Aside, Counts, Owes, At, accountRows, sessionRows
<1>1. ASSUME UNCHANGED codes PROVE CodesKept
    BY <1>1 DEF CodesKept
<1>2. CASE Login(c)
    BY <1>1, <1>2, StageSteps DEF Login
<1>3. CASE SignIn(c)
    <2>1. \/ End(c)
          \/ \E u \in Users : call' = [call EXCEPT ![c].at = "issuing", ![c].user = u]
        BY <1>3 DEF SignIn, WithEmail
    <2>2. call' = [call EXCEPT ![c] = call'[c]] /\ call'[c].at \in {"idle", "issuing"}
        BY <2>1, StageSteps
    <2> QED
        BY <1>1, <1>3, <2>2 DEF SignIn
<1>4. CASE ReadStatus(c)
    BY <1>1, <1>4, StageSteps DEF ReadStatus
<1>5. CASE InsertToken(c)
    BY <1>1, <1>5, StageSteps DEF InsertToken
<1>6. CASE Refresh(c)
    BY <1>1, <1>6, StageSteps DEF Refresh
<1>7. CASE ReadAccount(c)
    BY <1>1, <1>7, StageSteps DEF ReadAccount
<1>8. CASE Rotate(c)
    BY <1>1, <1>8, StageSteps DEF Rotate
<1>9. CASE SetStatus(c)
    BY <1>1, <1>9, StageSteps DEF SetStatus
<1> QED
    BY <1>2, <1>3, <1>4, <1>5, <1>6, <1>7, <1>8, <1>9

\* The sets whose sizes count are finite.
LEMMA CodesAreFinite ==
    ASSUME SessionsTypeOK, NEW email, NEW now
    PROVE  /\ IsFiniteSet(Recent(email, now)) /\ Cardinality(Recent(email, now)) \in Nat
           /\ IsFiniteSet(Sending(email)) /\ Cardinality(Sending(email)) \in Nat
           /\ Cardinality(Calls) \in Nat \ {0}
<1>1. DOMAIN codes = 1 .. Len(codes) /\ Len(codes) \in Nat
    BY DEF SessionsTypeOK, AccountsTypeOK
<1>2. IsFiniteSet(1 .. Len(codes))
    BY <1>1, FS_Interval
<1>3. Recent(email, now) \subseteq 1 .. Len(codes)
    BY <1>1 DEF Recent
<1>4. IsFiniteSet(Recent(email, now))
    BY <1>2, <1>3, FS_Subset
<1>5. Sending(email) \subseteq Calls
    BY DEF Sending
<1>6. IsFiniteSet(Sending(email))
    BY <1>5, FS_Subset
<1>7. Cardinality(Calls) \in Nat /\ Cardinality(Calls) # 0
    BY FS_CardinalityType, FS_EmptySet
<1> QED
    BY <1>4, <1>6, <1>7, FS_CardinalityType

\* Fewer codes and fewer requests keep within the limit.
LEMMA FewerCodes ==
    ASSUME SessionsTypeOK, CodesInHand, NEW email \in Emails,
           NEW recent \in SUBSET Recent(email, clock), NEW sending \in SUBSET Sending(email)
    PROVE  Cardinality(recent) + Cardinality(sending) <= Limit + Cardinality(Calls) - 1
<1>1. /\ IsFiniteSet(Recent(email, clock)) /\ IsFiniteSet(Sending(email))
      /\ Cardinality(Recent(email, clock)) \in Nat /\ Cardinality(Sending(email)) \in Nat
      /\ Cardinality(Calls) \in Nat
    BY CodesAreFinite
<1>2. /\ IsFiniteSet(recent) /\ Cardinality(recent) <= Cardinality(Recent(email, clock))
      /\ IsFiniteSet(sending) /\ Cardinality(sending) <= Cardinality(Sending(email))
    BY <1>1, FS_Subset
<1>3. Cardinality(recent) \in Nat /\ Cardinality(sending) \in Nat
    BY <1>2, FS_CardinalityType
<1>4. Cardinality(Recent(email, clock)) + Cardinality(Sending(email))
        <= Limit + Cardinality(Calls) - 1
    BY DEF CodesInHand
<1> QED
    BY <1>1, <1>2, <1>3, <1>4

\* While no code is added, fewer codes are recent as time goes on.
LEMMA RecentShrinks ==
    ASSUME SessionsTypeOK, SessionsTypeOK', CodesKept, clock <= clock', NEW email
    PROVE  Recent(email, clock)' \subseteq Recent(email, clock)
<1>1. \A i \in DOMAIN codes : codes[i].created \in Nat
    <2>1. \A i \in DOMAIN codes : codes[i] \in CodeRows
        BY CodeFields
    <2> QED
        BY <2>1 DEF CodeRows
<1>2. clock \in Nat /\ clock' \in Nat
    BY DEF SessionsTypeOK, AccountsTypeOK
<1> QED
    BY <1>1, <1>2 DEF Recent, CodesKept

\* Requests that are not about codes leave those in hand alone.
LEMMA AsideSending ==
    ASSUME FramesHold, NEW c \in Calls, call' = [call EXCEPT ![c] = call'[c]],
           NEW email, call'[c].at \in {"addressing", "storing"} => c \in Sending(email)
    PROVE  Sending(email)' \subseteq Sending(email)
<1>1. \A d \in Calls : d # c => call'[d] = call[d]
    BY DEF FramesHold
<1> QED
    BY <1>1 DEF Sending

LEMMA AsideCounts ==
    ASSUME IInv, IInv', CodesInHand, NEW c \in Calls, Aside(c, Counts), CodesKept,
           UNCHANGED clock
    PROVE  CodesInHand'
<1>1. SessionsTypeOK /\ SessionsTypeOK' /\ FramesHold /\ clock <= clock'
    BY DEF IInv, SessionsTypeOK, AccountsTypeOK
<1>2. \A d \in Calls : At(d, "counting")' => call'[d].now <= clock'
    <2>1. \A d \in Calls : d # c => call'[d] = call[d]
        BY <1>1 DEF FramesHold, Aside
    <2> QED
        BY <2>1 DEF CodesInHand, At, Aside, Counts
<1>3. ASSUME NEW email \in Emails
      PROVE  Cardinality(Recent(email, clock)') + Cardinality(Sending(email)')
                <= Limit + Cardinality(Calls) - 1
    <2>1. Recent(email, clock)' \subseteq Recent(email, clock)
        BY <1>1, RecentShrinks
    <2>2. Sending(email)' \subseteq Sending(email)
        BY <1>1, AsideSending DEF Aside, Counts
    <2> QED
        BY <1>1, <2>1, <2>2, FewerCodes
<1> QED
    BY <1>2, <1>3 DEF CodesInHand

\* A step that changes no frame keeps within the limit, as time goes on.
LEMMA RestCounts ==
    ASSUME IInv, IInv', CodesInHand, UNCHANGED <<call, codes>>, clock <= clock'
    PROVE  CodesInHand'
<1>1. SessionsTypeOK /\ SessionsTypeOK' /\ FramesHold /\ CodesKept
    BY DEF IInv, CodesKept
<1>2. \A d \in Calls : At(d, "counting")' => call'[d].now <= clock'
    <2> SUFFICES ASSUME NEW d \in Calls, At(d, "counting") PROVE call[d].now <= clock'
        BY DEF At
    <2>1. call[d].now \in Nat /\ call[d].now <= clock
        <3>1. call[d] \in SendFrames
            BY <1>1, FrameOf, FrameShapes DEF At
        <3> QED
            BY <3>1 DEF SendFrames, CodesInHand
    <2>2. clock \in Nat /\ clock' \in Nat
        BY <1>1 DEF SessionsTypeOK, AccountsTypeOK
    <2> QED
        BY <2>1, <2>2
<1>3. ASSUME NEW email \in Emails
      PROVE  Cardinality(Recent(email, clock)') + Cardinality(Sending(email)')
                <= Limit + Cardinality(Calls) - 1
    <2>1. Recent(email, clock)' \subseteq Recent(email, clock)
        BY <1>1, RecentShrinks
    <2>2. Sending(email)' \subseteq Sending(email)
        BY DEF Sending
    <2> QED
        BY <1>1, <2>1, <2>2, FewerCodes
<1> QED
    BY <1>2, <1>3 DEF CodesInHand

\* A request that has counted fewer codes than the limit is one more in hand.
LEMMA CountRecentCounts ==
    ASSUME IInv, IInv', CodesInHand, NEW c \in Calls, CountRecent(c)
    PROVE  CodesInHand'
<1>1. /\ SessionsTypeOK /\ SessionsTypeOK' /\ FramesHold /\ CodesKept
      /\ UNCHANGED <<codes, clock>> /\ call[c].at = "counting" /\ clock <= clock'
    BY DEF IInv, CodesKept, CountRecent, At, SessionsTypeOK, AccountsTypeOK
<1>2. /\ call' = [call EXCEPT ![c] = call'[c]]
      /\ call'[c].at = "idle" \/ (call'[c].at = "addressing" /\ MaySend(c)
                                    /\ call'[c].email = call[c].email)
    <2>1. call[c] \in SendFrames
        BY <1>1, FrameOf, FrameShapes
    <2>2. CASE End(c)
        BY <1>1, <2>2, StageSteps
    <2>3. CASE MaySend(c) /\ Goto(c, "addressing")
        <3>1. /\ call' = [call EXCEPT ![c] = call'[c]]
              /\ call'[c] = [call[c] EXCEPT !.at = "addressing"]
            BY <1>1, <2>3, Moved
        <3> QED
            BY <2>1, <2>3, <3>1 DEF SendFrames
    <2> QED
        BY <2>2, <2>3 DEF CountRecent
<1>3. \A d \in Calls : d # c => call'[d] = call[d]
    BY <1>1, <1>2 DEF FramesHold
<1>4. \A d \in Calls : At(d, "counting")' => call'[d].now <= clock'
    BY <1>1, <1>2, <1>3 DEF CodesInHand, At
<1>5. ASSUME NEW email \in Emails
      PROVE  Cardinality(Recent(email, clock)') + Cardinality(Sending(email)')
                <= Limit + Cardinality(Calls) - 1
    <2>1. Recent(email, clock)' = Recent(email, clock)
        BY <1>1 DEF Recent
    <2>2. CASE ~(call'[c].at = "addressing" /\ call[c].email = email)
        <3>1. Sending(email)' \subseteq Sending(email)
            BY <1>2, <1>3, <2>2 DEF Sending
        <3> QED
            BY <1>1, <2>1, <3>1, FewerCodes
    <2>3. CASE call'[c].at = "addressing" /\ call[c].email = email
        <3>1. Cardinality(Recent(email, call[c].now)) < Limit
            BY <1>2, <2>3 DEF MaySend
        <3>2. call[c].now <= clock /\ call[c].now \in Nat /\ clock \in Nat
            <4>1. call[c] \in SendFrames
                BY <1>1, FrameOf, FrameShapes
            <4> QED
                BY <1>1, <4>1 DEF CodesInHand, At, SendFrames, SessionsTypeOK, AccountsTypeOK
        <3>3. Recent(email, clock) \subseteq Recent(email, call[c].now)
            <4>1. \A i \in DOMAIN codes : codes[i] \in CodeRows
                BY <1>1, CodeFields
            <4>2. \A i \in DOMAIN codes : codes[i].created \in Nat
                BY <4>1 DEF CodeRows
            <4> QED
                BY <3>2, <4>2 DEF Recent
        <3>4. /\ Cardinality(Recent(email, clock)) <= Cardinality(Recent(email, call[c].now))
              /\ Cardinality(Recent(email, clock)) \in Nat
              /\ Cardinality(Recent(email, call[c].now)) \in Nat
            BY <1>1, <3>3, CodesAreFinite, FS_Subset
        <3>5. Sending(email)' \subseteq Calls
            BY DEF Sending
        <3>6. /\ Cardinality(Sending(email)') <= Cardinality(Calls)
              /\ Cardinality(Sending(email)') \in Nat /\ Cardinality(Calls) \in Nat
            BY <3>5, FS_Subset, FS_CardinalityType
        <3> QED
            BY <2>1, <3>1, <3>4, <3>6
    <2> QED
        BY <2>2, <2>3
<1> QED
    BY <1>4, <1>5 DEF CodesInHand

\* A code that is stored was in hand.
LEMMA SaveOtpCounts ==
    ASSUME IInv, IInv', CodesInHand, NEW c \in Calls, SaveOtp(c)
    PROVE  CodesInHand'
<1>1. /\ SessionsTypeOK /\ SessionsTypeOK' /\ FramesHold /\ UNCHANGED clock
      /\ call[c].at = "storing" /\ codes \in Seq(CodeRows) /\ clock \in Nat
      /\ call' = [call EXCEPT ![c] = call'[c]] /\ call'[c].at = "idle"
    BY StageSteps DEF IInv, SaveOtp, At, SessionsTypeOK, AccountsTypeOK
<1>2. \A d \in Calls : d # c => call'[d] = call[d]
    BY <1>1 DEF FramesHold
<1>3. \A d \in Calls : At(d, "counting")' => call'[d].now <= clock'
    BY <1>1, <1>2 DEF CodesInHand, At
<1>4. ASSUME NEW email \in Emails
      PROVE  Cardinality(Recent(email, clock)') + Cardinality(Sending(email)')
                <= Limit + Cardinality(Calls) - 1
    <2>1. Sending(email)' = Sending(email) \ {c}
        BY <1>1, <1>2 DEF Sending
    <2>2. /\ IsFiniteSet(Recent(email, clock)) /\ IsFiniteSet(Sending(email))
          /\ Cardinality(Recent(email, clock)) \in Nat /\ Cardinality(Sending(email)) \in Nat
          /\ Cardinality(Calls) \in Nat
          /\ Cardinality(Recent(email, clock)) + Cardinality(Sending(email))
               <= Limit + Cardinality(Calls) - 1
        BY <1>1, CodesAreFinite DEF CodesInHand
    <2>3. CASE Recent(email, clock)' \subseteq Recent(email, clock)
        BY <1>1, <2>1, <2>3, FewerCodes
    <2>4. CASE ~(Recent(email, clock)' \subseteq Recent(email, clock))
        <3>1. PICK row : /\ codes' = Append(codes, row) /\ row.email = call[c].email
            <4>1. codes' # codes
                BY <1>1, <2>4 DEF Recent
            <4>2. PICK code \in Codes :
                    codes' = Append(codes, [email |-> call[c].email, code |-> code, uses |-> 0,
                                            used |-> FALSE, purpose |-> call[c].purpose,
                                            created |-> clock])
                BY <4>1 DEF SaveOtp
            <4> QED
                BY <4>2
        <3>2. /\ \A i \in 1 .. Len(codes) : codes'[i] = codes[i]
              /\ codes'[Len(codes) + 1] = row
              /\ DOMAIN codes' = (1 .. Len(codes)) \cup {Len(codes) + 1}
              /\ DOMAIN codes = 1 .. Len(codes) /\ Len(codes) \in Nat
            BY <1>1, <3>1
        <3>3. Recent(email, clock)' \subseteq Recent(email, clock) \cup {Len(codes) + 1}
            BY <1>1, <3>2 DEF Recent
        <3>4. email = call[c].email
            BY <1>1, <2>4, <3>1, <3>2 DEF Recent
        <3>5. c \in Sending(email)
            BY <1>1, <3>4 DEF Sending
        <3>6. Cardinality(Sending(email)') = Cardinality(Sending(email)) - 1
            BY <2>1, <2>2, <3>5, FS_RemoveElement
        <3>7. /\ IsFiniteSet(Recent(email, clock) \cup {Len(codes) + 1})
              /\ Cardinality(Recent(email, clock) \cup {Len(codes) + 1})
                   \in {Cardinality(Recent(email, clock)), Cardinality(Recent(email, clock)) + 1}
            BY <2>2, FS_AddElement
        <3>8. /\ Cardinality(Recent(email, clock)') <= Cardinality(Recent(email, clock)) + 1
              /\ Cardinality(Recent(email, clock)') \in Nat
            BY <2>2, <3>3, <3>7, FS_Subset, FS_CardinalityType
        <3> QED
            BY <2>2, <3>6, <3>8
    <2> QED
        BY <2>3, <2>4
<1> QED
    BY <1>3, <1>4 DEF CodesInHand

\* Requests that are not about a change owe no audit before or after.
LEMMA AsideOwes ==
    ASSUME FramesHold, AuditsOwed, NEW c \in Calls, Aside(c, Owes),
           UNCHANGED <<audits, changes, crashed>>
    PROVE  AuditsOwed'
<1>1. \A d \in Calls : d # c => call'[d] = call[d]
    BY DEF FramesHold, Aside
<1>2. \A a \in Actions : Owing(a)' = Owing(a)
    BY <1>1 DEF Owing, Aside, Owes
<1> QED
    BY <1>2 DEF AuditsOwed

\* A request that goes on owing, or goes on not owing, the audit of its change.
LEMMA StillOwes ==
    ASSUME FramesHold, AuditsOwed, NEW c \in Calls, call' = [call EXCEPT ![c] = call'[c]],
           \A a \in Actions :
               (call'[c].at \in Owes /\ call'[c].audit = a)
                  <=> (call[c].at \in Owes /\ call[c].audit = a),
           UNCHANGED <<audits, changes, crashed>>
    PROVE  AuditsOwed'
<1>1. \A d \in Calls : d # c => call'[d] = call[d]
    BY DEF FramesHold
<1>2. \A a \in Actions : Owing(a)' = Owing(a)
    BY <1>1 DEF Owing, Owes
<1> QED
    BY <1>2 DEF AuditsOwed

\* The frame of a change or a logout that goes on.
LEMMA SweepFrames ==
    ASSUME NEW f \in ChangeFrames \cup LogoutFrames, NEW await, NEW rows
    PROVE  /\ [f EXCEPT !.at = await].audit = f.audit
           /\ [f EXCEPT !.at = await].at = await
           /\ [f EXCEPT !.at = await, !.row = rows].audit = f.audit
           /\ [f EXCEPT !.at = await, !.row = rows].at = await
BY DEF ChangeFrames, LogoutFrames

LEMMA SweepOwes ==
    ASSUME FramesHold, AuditsOwed, NEW c \in Calls, Logout(c) \/ Sweep(c) \/ Revoke(c)
    PROVE  AuditsOwed'
<1>1. UNCHANGED <<audits, changes, crashed>>
    BY DEF Logout, Sweep, Revoke, sessionRows
<1>2. CASE Logout(c)
    <2>1. /\ call' = [call EXCEPT ![c] = call'[c]] /\ call[c].at = "idle"
          /\ call'[c].audit = NULL
        <3>1. PICK u \in Users :
                Receive(c, [at |-> "sweeping", user |-> u, row |-> {}, audit |-> NULL])
            BY <1>2 DEF Logout
        <3> PICK frame : frame = [at |-> "sweeping", user |-> u, row |-> {}, audit |-> NULL]
            OBVIOUS
        <3>2. frame.audit = NULL /\ Receive(c, frame)
            BY <3>1
        <3> QED
            BY <3>2, StageSteps
    <2> QED
        BY <1>1, <2>1, StillOwes DEF Owes
<1>3. CASE Sweep(c)
    <2>1. call[c] \in ChangeFrames \cup LogoutFrames /\ call[c].at = "sweeping"
        BY <1>3, FrameOf, FrameShapes DEF Sweep, At
    <2>2. /\ call' = [call EXCEPT ![c] = call'[c]]
          /\ \E rows : call'[c] = [call[c] EXCEPT !.at = "revoking", !.row = rows]
        BY <1>3 DEF FramesHold, Sweep, Keep
    <2>3. call'[c].at = "revoking" /\ call'[c].audit = call[c].audit
        BY <2>1, <2>2, SweepFrames
    <2> QED
        BY <1>1, <2>1, <2>2, <2>3, StillOwes DEF Owes
<1>4. CASE Revoke(c)
    <2>1. call[c] \in ChangeFrames \cup LogoutFrames /\ call[c].at = "revoking"
        BY <1>4, FrameOf, FrameShapes DEF Revoke, At
    <2>2. CASE call[c].audit = NULL /\ End(c)
        <3>1. call' = [call EXCEPT ![c] = call'[c]] /\ call'[c].at = "idle"
            BY <2>2, StageSteps
        <3> QED
            BY <1>1, <2>1, <2>2, <3>1, StillOwes DEF Owes
    <2>3. CASE Goto(c, "auditing")
        <3>1. /\ call' = [call EXCEPT ![c] = call'[c]]
              /\ call'[c] = [call[c] EXCEPT !.at = "auditing"]
            BY <2>3, Moved
        <3>2. call'[c].at = "auditing" /\ call'[c].audit = call[c].audit
            BY <2>1, <3>1, SweepFrames
        <3> QED
            BY <1>1, <2>1, <3>1, <3>2, StillOwes DEF Owes
    <2> QED
        BY <1>4, <2>2, <2>3 DEF Revoke
<1> QED
    BY <1>2, <1>3, <1>4

\* A change of a status is owed until it is audited.
LEMMA ChangeStatusOwes ==
    ASSUME IInv, AuditsOwed, NEW c \in Calls, ChangeStatus(c)
    PROVE  AuditsOwed'
<1> USE DEF IInv
<1> PICK u : u = call[c].user
    OBVIOUS
<1> PICK status : status = call[c].status
    OBVIOUS
<1> DEFINE audit == IF IsChange(u, status) THEN ActionOf(status) ELSE NULL
<1>1. /\ call[c] \in ChangeFrames /\ call[c].at = "changing"
      /\ UNCHANGED <<audits, crashed>>
    BY FrameOf, FrameShapes DEF ChangeStatus, At
<1>2. changes \in [Actions -> 0..MaxChanges] /\ audits \in [Actions -> Nat]
    BY DEF SessionsTypeOK
<1>3. CASE End(c) /\ UNCHANGED changes
    <2>1. call' = [call EXCEPT ![c] = call'[c]] /\ call'[c].at = "idle"
        BY <1>3, StageSteps
    <2> QED
        BY <1>1, <1>3, <2>1, StillOwes DEF Owes
<1>4. CASE /\ changes' = IF account[u].status # status
                         THEN [changes EXCEPT ![ActionOf(status)] = @ + 1] ELSE changes
           /\ IF status = "active" /\ audit = NULL THEN End(c)
              ELSE call' = [call EXCEPT ![c].audit = audit,
                              ![c].at = IF status = "active" THEN "auditing" ELSE "sweeping"]
    <2>1. ActionOf(status) \in Actions
        BY DEF ActionOf, Actions
    <2>2. CASE audit = NULL
        <3>1. account[u].status = status
            BY <2>1, <2>2 DEF IsChange
        <3>2. /\ call' = [call EXCEPT ![c] = call'[c]]
              /\ call'[c].at = "idle" \/ call'[c].audit = NULL
            <4>1. CASE End(c)
                BY <4>1, StageSteps
            <4>2. CASE call' = [call EXCEPT ![c].audit = audit,
                                  ![c].at = IF status = "active" THEN "auditing" ELSE "sweeping"]
                <5>1. /\ call' = [call EXCEPT ![c] = call'[c]]
                      /\ call'[c] = [call[c] EXCEPT !.audit = audit,
                                       !.at = IF status = "active" THEN "auditing" ELSE "sweeping"]
                    BY <4>2 DEF FramesHold
                <5>2. call'[c].audit = NULL
                    BY <1>1, <2>2, <5>1 DEF ChangeFrames
                <5> QED
                    BY <5>1, <5>2
            <4> QED
                BY <1>4, <4>1, <4>2
        <3> QED
            BY <1>1, <1>4, <3>1, <3>2, StillOwes DEF Owes
    <2>3. CASE audit # NULL
        <3>1. account[u].status # status /\ audit = ActionOf(status)
            BY <2>3 DEF IsChange
        <3> PICK act \in Actions : act = ActionOf(status)
            BY <2>1
        <3>2. changes' = [changes EXCEPT ![act] = @ + 1]
            BY <1>4, <3>1
        <3> PICK at : at = IF status = "active" THEN "auditing" ELSE "sweeping"
            OBVIOUS
        <3>3. /\ call' = [call EXCEPT ![c] = call'[c]]
              /\ call'[c] = [call[c] EXCEPT !.audit = act, !.at = at]
            BY <1>4, <2>3, <3>1 DEF FramesHold
        <3>4. call'[c].audit = act /\ call'[c].at = at /\ at \in Owes
            BY <1>1, <3>3 DEF ChangeFrames, Owes
        <3>5. \A d \in Calls : d # c => call'[d] = call[d]
            BY <3>3 DEF FramesHold
        <3>6. /\ Owing(act)' = Owing(act) \cup {c} /\ c \notin Owing(act)
              /\ \A a \in Actions : a # act => Owing(a)' = Owing(a)
            BY <1>1, <3>4, <3>5 DEF Owing, Owes
        <3>7. ASSUME ~crashed, NEW a \in Actions
              PROVE  /\ IsFiniteSet(Owing(a)')
                     /\ audits'[a] + Cardinality(Owing(a)') = changes'[a]
            <4>1. /\ IsFiniteSet(Owing(a)) /\ audits[a] + Cardinality(Owing(a)) = changes[a]
                  /\ Cardinality(Owing(a)) \in Nat /\ audits[a] \in Nat /\ changes[a] \in Nat
                BY <1>2, <3>7, FS_CardinalityType DEF AuditsOwed
            <4>2. CASE a # act
                BY <1>1, <1>2, <3>2, <3>6, <4>1, <4>2
            <4>3. CASE a = act
                <5>1. /\ IsFiniteSet(Owing(a)')
                      /\ Cardinality(Owing(a)') = Cardinality(Owing(a)) + 1
                    BY <3>6, <4>1, <4>3, FS_AddElement
                <5>2. changes'[a] = changes[a] + 1 /\ audits'[a] = audits[a]
                    BY <1>1, <1>2, <3>2, <4>3
                <5> QED
                    BY <4>1, <5>1, <5>2
            <4> QED
                BY <4>2, <4>3
        <3> QED
            BY <1>1, <3>7 DEF AuditsOwed
    <2> QED
        BY <2>2, <2>3
<1> QED
    BY <1>3, <1>4 DEF ChangeStatus

\* The audit pays what its request owes.
LEMMA AuditOwes ==
    ASSUME IInv, AuditsOwed, NEW c \in Calls, AuditStatus(c)
    PROVE  AuditsOwed'
<1> USE DEF IInv
<1> PICK act : act = call[c].audit
    OBVIOUS
<1>1. /\ call[c].at = "auditing" /\ act \in Actions
      /\ audits' = [audits EXCEPT ![act] = @ + 1]
      /\ UNCHANGED <<changes, crashed>>
    BY FrameOf DEF AuditStatus, At, FrameHolds
<1>2. changes \in [Actions -> 0..MaxChanges] /\ audits \in [Actions -> Nat]
    BY DEF SessionsTypeOK
<1>3. call' = [call EXCEPT ![c] = call'[c]] /\ call'[c].at = "idle"
    BY StageSteps DEF AuditStatus
<1>4. \A d \in Calls : d # c => call'[d] = call[d]
    BY <1>3 DEF FramesHold
<1>5. /\ Owing(act)' = Owing(act) \ {c} /\ c \in Owing(act)
      /\ \A a \in Actions : a # act => Owing(a)' = Owing(a)
    BY <1>1, <1>3, <1>4 DEF Owing
<1>6. ASSUME ~crashed, NEW a \in Actions
      PROVE  /\ IsFiniteSet(Owing(a)')
             /\ audits'[a] + Cardinality(Owing(a)') = changes'[a]
    <2>1. /\ IsFiniteSet(Owing(a)) /\ audits[a] + Cardinality(Owing(a)) = changes[a]
          /\ Cardinality(Owing(a)) \in Nat /\ audits[a] \in Nat /\ changes[a] \in Nat
        BY <1>2, <1>6, FS_CardinalityType DEF AuditsOwed
    <2>2. CASE a # act
        BY <1>1, <1>2, <1>5, <2>1, <2>2
    <2>3. CASE a = act
        <3>1. /\ IsFiniteSet(Owing(a)')
              /\ Cardinality(Owing(a)') = Cardinality(Owing(a)) - 1
            BY <1>5, <2>1, <2>3, FS_RemoveElement
        <3>2. audits'[a] = audits[a] + 1 /\ changes'[a] = changes[a]
            BY <1>1, <1>2, <2>3
        <3> QED
            BY <2>1, <3>1, <3>2
    <2> QED
        BY <2>2, <2>3
<1> QED
    BY <1>1, <1>6 DEF AuditsOwed

\* Steps about codes owe nothing, and steps about tokens count nothing.
LEMMA CodeStepsAside ==
    ASSUME FramesHold, NEW c \in Calls,
           SendOtp(c) \/ CountRecent(c) \/ CheckTarget(c) \/ SaveOtp(c)
    PROVE  Aside(c, Owes)
<1> USE DEF Aside, Owes, At
<1>1. CASE SendOtp(c)
    BY <1>1, StageSteps DEF SendOtp
<1>2. CASE CountRecent(c)
    BY <1>2, StageSteps DEF CountRecent
<1>3. CASE CheckTarget(c)
    BY <1>3, StageSteps DEF CheckTarget
<1>4. CASE SaveOtp(c)
    BY <1>4, StageSteps DEF SaveOtp
<1> QED
    BY <1>1, <1>2, <1>3, <1>4

LEMMA TokenStepsAside ==
    ASSUME FramesHold, NEW c \in Calls,
           Logout(c) \/ Sweep(c) \/ Revoke(c) \/ ChangeStatus(c) \/ AuditStatus(c)
    PROVE  Aside(c, Counts) /\ UNCHANGED <<codes, clock>>
<1> USE DEF Aside, Counts, At, accountRows
<1>1. CASE Logout(c)
    BY <1>1, StageSteps DEF Logout
<1>2. CASE Sweep(c)
    BY <1>2, StageSteps DEF Sweep
<1>3. CASE Revoke(c)
    BY <1>3, StageSteps DEF Revoke
<1>4. CASE ChangeStatus(c)
    <2>1. call[c] \in ChangeFrames
        BY <1>4, FrameOf, FrameShapes DEF ChangeStatus
    <2>2. CASE End(c)
        BY <1>4, <2>2, StageSteps DEF ChangeStatus
    <2>3. ASSUME NEW audit, NEW at \in {"auditing", "sweeping"},
                 call' = [call EXCEPT ![c].audit = audit, ![c].at = at]
          PROVE  call' = [call EXCEPT ![c] = call'[c]] /\ call'[c].at = at
        <3>1. /\ call' = [call EXCEPT ![c] = call'[c]]
              /\ call'[c] = [call[c] EXCEPT !.audit = audit, !.at = at]
            BY <2>3 DEF FramesHold
        <3> QED
            BY <2>1, <3>1 DEF ChangeFrames
    <2> QED
        BY <1>4, <2>2, <2>3 DEF ChangeStatus
<1>5. CASE AuditStatus(c)
    BY <1>5, StageSteps DEF AuditStatus
<1> QED
    BY <1>1, <1>2, <1>3, <1>4, <1>5

\* A request that starts to count, gives up, or stays in hand.
LEMMA InHandCounts ==
    ASSUME IInv, IInv', CodesInHand, NEW c \in Calls, call' = [call EXCEPT ![c] = call'[c]],
           CodesKept, UNCHANGED clock,
           call'[c].at = "counting" => call'[c].now <= clock,
           call'[c].at \in {"addressing", "storing"} =>
               call[c].at \in {"addressing", "storing"} /\ call'[c].email = call[c].email
    PROVE  CodesInHand'
<1>1. SessionsTypeOK /\ SessionsTypeOK' /\ FramesHold /\ clock <= clock'
    BY DEF IInv, SessionsTypeOK, AccountsTypeOK
<1>2. \A d \in Calls : d # c => call'[d] = call[d]
    BY <1>1 DEF FramesHold
<1>3. \A d \in Calls : At(d, "counting")' => call'[d].now <= clock'
    BY <1>2 DEF CodesInHand, At
<1>4. ASSUME NEW email \in Emails
      PROVE  Cardinality(Recent(email, clock)') + Cardinality(Sending(email)')
                <= Limit + Cardinality(Calls) - 1
    <2>1. Recent(email, clock)' \subseteq Recent(email, clock)
        BY <1>1, RecentShrinks
    <2>2. Sending(email)' \subseteq Sending(email)
        BY <1>2 DEF Sending
    <2> QED
        BY <1>1, <2>1, <2>2, FewerCodes
<1> QED
    BY <1>3, <1>4 DEF CodesInHand

LEMMA CodeStepsCount ==
    ASSUME IInv, IInv', CodesInHand, NEW c \in Calls,
           SendOtp(c) \/ CountRecent(c) \/ CheckTarget(c) \/ SaveOtp(c)
    PROVE  CodesInHand'
<1>1. FramesHold /\ clock \in Nat
    BY DEF IInv, SessionsTypeOK, AccountsTypeOK
<1>2. CASE SendOtp(c)
    <2>1. PICK email \in Emails, purpose \in Purposes :
            Receive(c, [at |-> "counting", email |-> email, purpose |-> purpose, now |-> clock])
        BY <1>2 DEF SendOtp
    <2> PICK frame :
            frame = [at |-> "counting", email |-> email, purpose |-> purpose, now |-> clock]
        OBVIOUS
    <2>2. Receive(c, frame) /\ frame.at = "counting" /\ frame.now = clock
        BY <2>1
    <2>3. call' = [call EXCEPT ![c] = call'[c]] /\ call'[c].at = "counting" /\ call'[c].now = clock
        BY <1>1, <2>2, StageSteps
    <2>4. CodesKept /\ UNCHANGED clock
        BY <1>2 DEF SendOtp, CodesKept
    <2> QED
        BY <1>1, <2>3, <2>4, InHandCounts
<1>3. CASE CountRecent(c)
    BY <1>3, CountRecentCounts
<1>4. CASE CheckTarget(c)
    <2>1. call[c] \in SendFrames /\ call[c].at = "addressing"
        BY <1>1, <1>4, FrameOf, FrameShapes DEF CheckTarget, At
    <2>2. CodesKept /\ UNCHANGED clock
        BY <1>4 DEF CheckTarget, CodesKept
    <2>3. CASE End(c)
        <3>1. call' = [call EXCEPT ![c] = call'[c]] /\ call'[c].at = "idle"
            BY <1>1, <2>3, StageSteps
        <3> QED
            BY <2>2, <3>1, InHandCounts
    <2>4. CASE Goto(c, "storing")
        <3>1. /\ call' = [call EXCEPT ![c] = call'[c]]
              /\ call'[c] = [call[c] EXCEPT !.at = "storing"]
            BY <1>1, <2>4, Moved
        <3>2. call'[c].at = "storing" /\ call'[c].email = call[c].email
            BY <2>1, <3>1 DEF SendFrames
        <3> QED
            BY <2>1, <2>2, <3>1, <3>2, InHandCounts
    <2> QED
        BY <1>4, <2>3, <2>4 DEF CheckTarget
<1>5. CASE SaveOtp(c)
    BY <1>5, SaveOtpCounts
<1> QED
    BY <1>2, <1>3, <1>4, <1>5

LEMMA TokenStepsCount ==
    ASSUME IInv, IInv', CodesInHand, NEW c \in Calls,
           \/ Logout(c) \/ Sweep(c) \/ Revoke(c) \/ ChangeStatus(c) \/ AuditStatus(c)
           \/ CrashSession(c)
    PROVE  CodesInHand'
<1>1. CASE CrashSession(c)
    <2>1. call' = [call EXCEPT ![c] = call'[c]] /\ call'[c].at = "idle"
        BY <1>1, StageSteps DEF CrashSession, Die, IInv
    <2>2. CodesKept /\ UNCHANGED clock
        BY <1>1 DEF CrashSession, CodesKept, accountRows
    <2> QED
        BY <2>1, <2>2, InHandCounts
<1>2. CASE Logout(c) \/ Sweep(c) \/ Revoke(c) \/ ChangeStatus(c) \/ AuditStatus(c)
    <2>1. Aside(c, Counts) /\ UNCHANGED <<codes, clock>>
        BY <1>2, TokenStepsAside DEF IInv
    <2>2. CodesKept
        BY <2>1 DEF CodesKept
    <2> QED
        BY <2>1, <2>2, AsideCounts
<1> QED
    BY <1>1, <1>2

\* Steps that change no frame owe what was owed.
LEMMA RestOwes ==
    ASSUME AuditsOwed, UNCHANGED <<call, audits, changes, crashed>>
    PROVE  AuditsOwed'
<1>1. \A a \in Actions : Owing(a)' = Owing(a)
    BY DEF Owing
<1> QED
    BY <1>1 DEF AuditsOwed

\* What counts beside IInv.
Counted == CodesInHand /\ AuditsOwed

LEMMA AccountsStepCounted ==
    ASSUME IInv, IInv', Counted, NEW c \in Calls, AccountsStep(c), UNCHANGED sessionRows
    PROVE  Counted'
<1>1. FramesHold /\ SessionsTypeOK /\ UNCHANGED <<audits, changes, crashed>>
    BY DEF IInv, sessionRows
<1>2. CASE SendOtp(c) \/ CountRecent(c) \/ CheckTarget(c) \/ SaveOtp(c)
    <2>1. CodesInHand'
        BY <1>2, CodeStepsCount DEF Counted
    <2>2. AuditsOwed'
        BY <1>1, <1>2, CodeStepsAside, AsideOwes DEF Counted
    <2> QED
        BY <2>1, <2>2 DEF Counted
<1>3. CASE \/ Register(c) \/ CheckEmail(c) \/ Create(c)
           \/ Sync(c) \/ FindByUid(c) \/ FindByEmail(c) \/ Link(c)
           \/ VerifyOtp(c) \/ SelectOtp(c) \/ MarkUsed(c) \/ FindVerified(c) \/ FlagVerified(c)
    <2>1. Aside(c, Counts) /\ Aside(c, Owes) /\ CodesKept /\ UNCHANGED clock
        BY <1>1, <1>3, OtherAccountsSteps
    <2>2. CodesInHand'
        BY <2>1, AsideCounts DEF Counted
    <2>3. AuditsOwed'
        BY <1>1, <2>1, AsideOwes DEF Counted
    <2> QED
        BY <2>2, <2>3 DEF Counted
<1> QED
    BY <1>2, <1>3 DEF AccountsStep

LEMMA NextCounted ==
    IInv /\ IInv' /\ Counted /\ [SessionsNext /\ UNCHANGED mix]_sessionsVars => Counted'
<1> SUFFICES ASSUME IInv, IInv', Counted, [SessionsNext /\ UNCHANGED mix]_sessionsVars
             PROVE  Counted'
    OBVIOUS
<1>0. clock \in Nat /\ FramesHold
    BY DEF IInv, SessionsTypeOK, AccountsTypeOK
<1>1. ASSUME NEW c \in Calls, AccountsStep(c), UNCHANGED sessionRows PROVE Counted'
    BY <1>1, AccountsStepCounted
<1>2. ASSUME NEW c \in Calls,
             \/ Login(c) \/ SignIn(c) \/ ReadStatus(c) \/ InsertToken(c)
             \/ Refresh(c) \/ ReadAccount(c) \/ Rotate(c) \/ SetStatus(c)
      PROVE  Counted'
    <2>1. /\ Aside(c, Counts) /\ Aside(c, Owes) /\ CodesKept
          /\ UNCHANGED <<clock, audits, changes, crashed>>
        BY <1>0, <1>2, OtherSessionsSteps
    <2>2. CodesInHand'
        BY <2>1, AsideCounts DEF Counted
    <2>3. AuditsOwed'
        BY <1>0, <2>1, AsideOwes DEF Counted
    <2> QED
        BY <2>2, <2>3 DEF Counted
<1>3. ASSUME NEW c \in Calls,
             \/ Logout(c) \/ Sweep(c) \/ Revoke(c) \/ ChangeStatus(c) \/ AuditStatus(c)
             \/ CrashSession(c)
      PROVE  Counted'
    <2>1. CodesInHand'
        BY <1>3, TokenStepsCount DEF Counted
    <2>2. CASE Logout(c) \/ Sweep(c) \/ Revoke(c)
        BY <1>0, <2>1, <2>2, SweepOwes DEF Counted
    <2>3. CASE ChangeStatus(c)
        BY <2>1, <2>3, ChangeStatusOwes DEF Counted
    <2>4. CASE AuditStatus(c)
        BY <2>1, <2>4, AuditOwes DEF Counted
    <2>5. CASE CrashSession(c)
        BY <2>1, <2>5 DEF Counted, CrashSession, AuditsOwed
    <2> QED
        BY <1>3, <2>2, <2>3, <2>4, <2>5
<1>4. ASSUME UNCHANGED <<call, codes, audits, changes, crashed>>, clock <= clock'
      PROVE  Counted'
    BY <1>4, RestCounts, RestOwes DEF Counted
<1>5. ASSUME NEW u \in Users, UpdateMe(u) \/ UpdateMyRole(u), UNCHANGED sessionRows PROVE Counted'
    <2>1. UNCHANGED <<call, codes, audits, changes, crashed>> /\ clock' = clock
        BY <1>5 DEF UpdateMe, UpdateMyRole, sessionRows
    <2> QED
        BY <1>0, <1>4, <2>1
<1>6. CASE Tick /\ UNCHANGED sessionRows
    <2>1. UNCHANGED <<call, codes, audits, changes, crashed>> /\ clock' = clock + 1
        BY <1>6 DEF Tick, sessionRows
    <2> QED
        BY <1>0, <1>4, <2>1
<1>7. CASE UNCHANGED sessionsVars
    <2>1. UNCHANGED <<call, codes, audits, changes, crashed>> /\ clock' = clock
        BY <1>7 DEF sessionsVars
    <2> QED
        BY <1>0, <1>4, <2>1
<1> QED
    BY <1>1, <1>2, <1>3, <1>5, <1>6, <1>7 DEF SessionsNext

LEMMA InitCounted == SessionsInit => Counted
<1> SUFFICES ASSUME SessionsInit PROVE Counted
    OBVIOUS
<1>0. IsFiniteSet(1 .. Len(SeededCodes)) /\ DOMAIN SeededCodes = 1 .. Len(SeededCodes)
    <2>1. SeededCodes \in Seq(CodeRows)
        BY SeededAccountsAssumption
    <2>2. DOMAIN SeededCodes = 1 .. Len(SeededCodes) /\ Len(SeededCodes) \in Nat
        BY <2>1
    <2> QED
        BY <2>2, FS_Interval
<1> USE SeededAccountsAssumption
<1>1. /\ codes = SeededCodes /\ clock = 0 /\ call = [c \in Calls |-> Idle]
      /\ audits = [a \in Actions |-> 0] /\ changes = [a \in Actions |-> 0]
      /\ \A c \in Calls : call[c].at = "idle"
    BY DEF SessionsInit, AccountsInit, HandlersInit, Idle
<1>2. SessionsTypeOK
    BY InitIInv DEF IInv
<1>3. ASSUME NEW email \in Emails
      PROVE  Cardinality(Recent(email, clock)) + Cardinality(Sending(email))
                <= Limit + Cardinality(Calls) - 1
    <2> DEFINE Sent == {i \in DOMAIN SeededCodes : SeededCodes[i].email = email}
    <2>1. Cardinality(Sending(email)) = 0
        <3>1. Sending(email) = {}
            BY <1>1 DEF Sending
        <3> QED
            BY <3>1, FS_EmptySet
    <2>2. IsFiniteSet(Sent)
        <3>1. Sent \subseteq 1 .. Len(SeededCodes)
            BY <1>0
        <3> QED
            BY <1>0, <3>1, FS_Subset
    <2>3. Recent(email, clock) \subseteq Sent
        BY <1>1 DEF Recent
    <2>4. Cardinality(Recent(email, clock)) <= Cardinality(Sent)
        BY <2>2, <2>3, FS_Subset
    <2>5. Cardinality(Sent) <= Limit /\ Cardinality(Sent) \in Nat
        BY <2>2, FS_CardinalityType
    <2>6. Cardinality(Recent(email, clock)) \in Nat /\ Cardinality(Calls) \in Nat \ {0}
        BY <1>2, CodesAreFinite
    <2> HIDE DEF Sent
    <2> QED
        BY <2>1, <2>4, <2>5, <2>6
<1>4. CodesInHand
    BY <1>1, <1>3 DEF CodesInHand, At
<1>5. ASSUME NEW a \in Actions
      PROVE  IsFiniteSet(Owing(a)) /\ audits[a] + Cardinality(Owing(a)) = changes[a]
    <2>1. Owing(a) = {}
        BY <1>1 DEF Owing
    <2> QED
        BY <1>1, <2>1, FS_EmptySet
<1> QED
    BY <1>4, <1>5 DEF Counted, AuditsOwed

\* The codes of the last ten minutes and the requests that may still store one stay
\* within the limit and the slots, and each change of a status is audited or owed.
THEOREM CountsInvariant == SessionsSpec => [](IInv /\ CodesInHand /\ AuditsOwed)
<1>1. SessionsInit => Counted
    BY InitCounted
<1>2. IInv /\ IInv' /\ Counted /\ [SessionsNext /\ UNCHANGED mix]_sessionsVars => Counted'
    BY NextCounted
<1>3. SessionsSpec => []Counted
    BY <1>1, <1>2, InvariantOfSpec, PTL DEF SessionsSpec
<1>4. Counted => CodesInHand /\ AuditsOwed
    BY DEF Counted
<1> QED
    BY <1>3, <1>4, InvariantOfSpec, PTL

\* sendOtp counts the codes of the last ten minutes before it stores one: requests side
\* by side exceed the limit, but by fewer than the slots there are, at any time and for
\* any address.
THEOREM CodesLimited == SessionsSpec => []CodesAreLimited
<1>1. IInv /\ CodesInHand => CodesAreLimited
    <2> SUFFICES ASSUME IInv, CodesInHand, NEW email \in Emails
                 PROVE  Cardinality(Recent(email, clock)) <= Limit + Cardinality(Calls) - 1
        BY DEF CodesAreLimited
    <2>1. /\ Cardinality(Recent(email, clock)) \in Nat /\ Cardinality(Sending(email)) \in Nat
          /\ Cardinality(Calls) \in Nat
        BY CodesAreFinite DEF IInv
    <2>2. Cardinality(Recent(email, clock)) + Cardinality(Sending(email))
            <= Limit + Cardinality(Calls) - 1
        BY DEF CodesInHand
    <2> QED
        BY <2>1, <2>2
<1> QED
    BY <1>1, CountsInvariant, PTL

\* toggleUserStatus: however administrators' changes interleave, when all is done and no
\* process died each change has its row of the audit log, and a request that changed
\* nothing has none.
THEOREM ChangesAudited == SessionsSpec => []ChangesAreAudited
<1>1. IInv /\ AuditsOwed => ChangesAreAudited
    <2> SUFFICES ASSUME IInv, AuditsOwed, Quiet, ~crashed PROVE audits = changes
        BY DEF ChangesAreAudited
    <2>1. audits \in [Actions -> Nat] /\ changes \in [Actions -> 0..MaxChanges]
        BY DEF IInv, SessionsTypeOK
    <2>2. ASSUME NEW a \in Actions PROVE audits[a] = changes[a]
        <3>1. Owing(a) = {}
            BY DEF Owing, Quiet, At
        <3>2. audits[a] + Cardinality(Owing(a)) = changes[a]
            BY DEF AuditsOwed
        <3> QED
            BY <2>1, <3>1, <3>2, FS_EmptySet
    <2> QED
        BY <2>1, <2>2
<1> QED
    BY <1>1, CountsInvariant, PTL
=============================================================================
