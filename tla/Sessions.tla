-------------------------------- MODULE Sessions --------------------------------
(***************************************************************************)
(* The refresh tokens of Auth: logging in, rotating a token, logging out, and *)
(* the administrator's change of an account's status, which commits first,    *)
(* then revokes the tokens and then writes the audit log.                    *)
(***************************************************************************)
EXTENDS Accounts

CONSTANTS
    SeededTokens,        \* the tokens there are at the start
    Lifetime,            \* of a refresh token
    MaxTokens, MaxChanges  \* bounds

Actions == {"USER_LOCKED", "USER_UNLOCKED"}

ASSUME SessionsAssumption ==
    {Lifetime, MaxTokens, MaxChanges} \subseteq Nat /\ NULL \notin Actions

VARIABLES
    tokens,     \* rows of refresh_tokens in the order of their creation
    audits,     \* number of rows of the audit log by action
    locks,      \* history: how often each account was locked or rejected
    changes,    \* history: committed changes of status, by their action
    crashed     \* history: a handler died

sessionsVars == <<call, mix, account, codes, clock, tokens, audits, locks, changes, crashed>>
sessionRows == <<tokens, audits, locks, changes, crashed>>
accountRows == <<account, codes, clock>>

\* login and begun are history: the login the token stems from, and the number
\* of locks there had been when the request that issued it arrived.
TokenRows == [user : Users, issued : 0..MaxClock, revoked : BOOLEAN,
              login : 1..MaxTokens, begun : 0..MaxChanges]

\* The tokens there are at the start are of different logins to accounts that may log in.
ASSUME SeededTokensAssumption ==
    /\ SeededTokens \in Seq(TokenRows) /\ Len(SeededTokens) <= MaxTokens
    /\ \A t \in DOMAIN SeededTokens :
         /\ SeededTokens[t].login = t /\ SeededTokens[t].begun = 0
         /\ SeededTokens[t].user \in DOMAIN Seeded
         /\ Seeded[SeededTokens[t].user].status \in {"pending_verification", "active"}

SessionsInit ==
    /\ AccountsInit
    /\ tokens = SeededTokens
    /\ audits = [a \in Actions |-> 0]
    /\ locks = [u \in Users |-> 0]
    /\ changes = [a \in Actions |-> 0]
    /\ crashed = FALSE

\* Mutant of CanAuthenticate: only locked accounts are kept out.
CanAuthenticateUnlessLocked(u) == account[u].status # "locked"

CanAuthenticate(u) == account[u].status \notin {"locked", "rejected"}

ShutOut(u) == Exists(u) /\ account[u].status \in {"locked", "rejected"}

Live(t) == ~tokens[t].revoked /\ tokens[t].issued + Lifetime > clock
LiveOf(u) == {t \in DOMAIN tokens : tokens[t].user = u /\ Live(t)}

-----------------------------------------------------------------------------
(* Logging in *)

Login(c) ==
    /\ \E email \in Emails : Receive(c, [at |-> "signing-in", email |-> email, user |-> NULL])
    /\ UNCHANGED <<accountRows, sessionRows>>

\* The account's status, and the password unless a code was shown; a stamp of
\* the login follows.
SignIn(c) ==
    /\ At(c, "signing-in")
    /\ \/ \E u \in WithEmail(call[c].email) :
            CanAuthenticate(u) /\ call' = [call EXCEPT ![c].at = "issuing", ![c].user = u]
       \/ End(c)
    /\ UNCHANGED <<accountRows, sessionRows>>

\* generateTokens reads the account once more.
ReadStatus(c) ==
    /\ At(c, "issuing")
    /\ IF CanAuthenticate(call[c].user)
       THEN call' = [call EXCEPT ![c] = [at |-> "inserting", user |-> call[c].user,
                                         begun |-> locks[call[c].user]]]
       ELSE End(c)
    /\ UNCHANGED <<accountRows, sessionRows>>

\* Two tokens of one account issued in the same second are the same, and the
\* hash is unique.
Collides(u) == \E t \in DOMAIN tokens : tokens[t].user = u /\ tokens[t].issued = clock

NewToken(c, u, login) ==
    [user |-> u, issued |-> clock, revoked |-> FALSE, login |-> login, begun |-> call[c].begun]

InsertToken(c) ==
    LET u == call[c].user IN
    /\ At(c, "inserting")
    /\ \/ /\ Len(tokens) < MaxTokens
          /\ tokens' = Append(tokens, NewToken(c, u, Len(tokens) + 1))
       \/ (Collides(u) \/ Len(tokens) = MaxTokens) /\ UNCHANGED tokens
    /\ End(c)
    /\ UNCHANGED <<accountRows, audits, locks, changes, crashed>>

-----------------------------------------------------------------------------
(* Rotation and logout *)

\* A client shows a token whose signature and expiry are right.
Refresh(c) ==
    /\ \E t \in DOMAIN tokens :
         /\ tokens[t].issued + Lifetime > clock
         /\ Receive(c, [at |-> "refreshing", token |-> t])
    /\ UNCHANGED <<accountRows, sessionRows>>

\* The account, read before the transaction begins.
ReadAccount(c) ==
    LET t == call[c].token IN
    /\ At(c, "refreshing")
    /\ IF CanAuthenticate(tokens[t].user)
       THEN call' = [call EXCEPT ![c] = [at |-> "rotating", token |-> t, now |-> clock,
                                         begun |-> locks[tokens[t].user]]]
       ELSE End(c)
    /\ UNCHANGED <<accountRows, sessionRows>>

\* Mutant of Rotatable: the conditional UPDATE does not look at revoked_at.
RotatableTwice(c) == tokens[call[c].token].issued + Lifetime > call[c].now

Rotatable(c) ==
    ~tokens[call[c].token].revoked /\ tokens[call[c].token].issued + Lifetime > call[c].now

\* The transaction: revoke the old token, insert the new one; a collision rolls
\* both back.
Rotate(c) ==
    LET t == call[c].token
        u == tokens[t].user IN
    /\ At(c, "rotating")
    /\ \/ /\ Rotatable(c) /\ Len(tokens) < MaxTokens
          /\ tokens' = Append([tokens EXCEPT ![t].revoked = TRUE],
                              NewToken(c, u, tokens[t].login))
       \/ (~Rotatable(c) \/ Collides(u) \/ Len(tokens) = MaxTokens) /\ UNCHANGED tokens
    /\ End(c)
    /\ UNCHANGED <<accountRows, audits, locks, changes, crashed>>

Logout(c) ==
    /\ \E u \in Users : Receive(c, [at |-> "sweeping", user |-> u, row |-> {}, audit |-> NULL])
    /\ UNCHANGED <<accountRows, sessionRows>>

\* revokeAllUserTokens is one UPDATE: it revokes the rows its snapshot shows,
\* and not one that is committed while it runs.
Sweep(c) ==
    LET u == call[c].user IN
    /\ At(c, "sweeping")
    /\ Keep(c, "revoking", {t \in DOMAIN tokens : tokens[t].user = u /\ ~tokens[t].revoked})
    /\ UNCHANGED <<accountRows, sessionRows>>

Revoke(c) ==
    /\ At(c, "revoking")
    /\ tokens' = [t \in DOMAIN tokens |->
                    IF t \in call[c].row THEN [tokens[t] EXCEPT !.revoked = TRUE] ELSE tokens[t]]
    /\ IF call[c].audit = NULL THEN End(c) ELSE Goto(c, "auditing")
    /\ UNCHANGED <<accountRows, audits, locks, changes, crashed>>

-----------------------------------------------------------------------------
(* The administrator changes the status of an account *)

SetStatus(c) ==
    /\ \E u \in Users, status \in Statuses :
         Receive(c, [at |-> "changing", user |-> u, status |-> status, row |-> {}, audit |-> NULL])
    /\ UNCHANGED <<accountRows, sessionRows>>

\* toggleUserStatus names the change by the status it was asked for.
ActionOf(status) == IF status = "active" THEN "USER_UNLOCKED" ELSE "USER_LOCKED"

\* Mutant of IsChange: whatever the status was before.
IsChangeAlways(u, status) == TRUE

IsChange(u, status) == account[u].status # status

\* changeStatus, under the lock of the row.
ChangeStatus(c) ==
    LET u == call[c].user
        status == call[c].status
        audit == IF IsChange(u, status) THEN ActionOf(status) ELSE NULL IN
    /\ At(c, "changing")
    /\ IF ~Exists(u) \/ account[u].role = "admin" \/ changes["USER_LOCKED"] + changes["USER_UNLOCKED"] = MaxChanges
       THEN End(c) /\ UNCHANGED <<account, locks, changes>>
       ELSE /\ account' = [account EXCEPT ![u].status = status]
            /\ changes' = IF account[u].status # status
                          THEN [changes EXCEPT ![ActionOf(status)] = @ + 1] ELSE changes
            /\ locks' = IF status \in {"locked", "rejected"} /\ account[u].status # status
                        THEN [locks EXCEPT ![u] = @ + 1] ELSE locks
            /\ IF status = "active" /\ audit = NULL THEN End(c)
               ELSE call' = [call EXCEPT ![c].audit = audit,
                               ![c].at = IF status = "active" THEN "auditing" ELSE "sweeping"]
    /\ UNCHANGED <<codes, clock, tokens, audits, crashed>>

AuditStatus(c) ==
    /\ At(c, "auditing")
    /\ audits' = [audits EXCEPT ![call[c].audit] = @ + 1]
    /\ End(c)
    /\ UNCHANGED <<accountRows, tokens, locks, changes, crashed>>

CrashSession(c) ==
    /\ ~crashed /\ Die(c)
    /\ crashed' = TRUE
    /\ UNCHANGED <<accountRows, tokens, audits, locks, changes>>

SessionsNext ==
    \/ \E c \in Calls :
         \/ AccountsStep(c) /\ UNCHANGED sessionRows
         \/ Login(c) \/ SignIn(c) \/ ReadStatus(c) \/ InsertToken(c)
         \/ Refresh(c) \/ ReadAccount(c) \/ Rotate(c)
         \/ Logout(c) \/ Sweep(c) \/ Revoke(c)
         \/ SetStatus(c) \/ ChangeStatus(c) \/ AuditStatus(c) \/ CrashSession(c)
    \/ \E u \in Users : (UpdateMe(u) \/ UpdateMyRole(u)) /\ UNCHANGED sessionRows
    \/ Tick /\ UNCHANGED sessionRows

SessionsSpec == SessionsInit /\ [][SessionsNext /\ UNCHANGED mix]_sessionsVars

-----------------------------------------------------------------------------
(* Properties *)

\* Every variable has its type.
SessionsTypeOK ==
    /\ AccountsTypeOK
    /\ tokens \in Seq(TokenRows) /\ Len(tokens) <= MaxTokens
    /\ changes \in [Actions -> 0..MaxChanges] /\ audits \in [Actions -> Nat]
    /\ locks \in [Users -> 0..MaxChanges]
    /\ crashed \in BOOLEAN

\* ADR 0005, item 7: of concurrent refreshes with one token at most one wins,
\* so that each login is worth one live token at any time.
OneLiveTokenPerLogin ==
    \A s, t \in DOMAIN tokens :
        ~tokens[s].revoked /\ ~tokens[t].revoked /\ tokens[s].login = tokens[t].login => s = t

\* ADR 0005, item 6, as far as it goes: a token issued to an account that is
\* locked or rejected comes from a request that read the account before that;
\* no login or refresh that begins afterwards is answered with one.
LockedOutFromNowOn ==
    \A u \in Users : ShutOut(u) =>
        \A t \in LiveOf(u) : tokens[t].begun < locks[u]

\* Every change of a status is audited once, also when several administrators
\* change the same account at once and some of the requests change nothing.
ChangesAreAudited == Quiet /\ ~crashed => audits = changes

\* ADR 0005, item 6, as it is written: locking or rejecting an account revokes
\* its active refresh tokens.
LockedHasNoSession ==
    Quiet /\ ~crashed =>
        \A u \in Users : ShutOut(u) => LiveOf(u) = {}

-----------------------------------------------------------------------------
(* The inductive invariant behind these properties *)

RegisterFrames == [at : {"registering", "creating"}, email : Emails, uid : {NULL}]
SyncFrames == [at : {"syncing", "matching", "creating", "linking", "issuing"},
               email : Emails, uid : Uids, user : Users \cup {NULL}]
SendFrames == [at : {"counting", "addressing", "storing"},
               email : Emails, purpose : Purposes, now : 0..MaxClock]
ShowFrames == [at : {"consuming", "marking", "verifying", "flagging", "signing-in", "issuing"},
               email : Emails, code : Codes, purpose : Purposes, login : BOOLEAN,
               now : 0..MaxClock, row : Nat \cup {NULL}, user : Users \cup {NULL}]
LoginFrames == [at : {"signing-in", "issuing"}, email : Emails, user : Users \cup {NULL}]
InsertFrames == [at : {"inserting"}, user : Users, begun : Nat]
RefreshFrames == [at : {"refreshing"}, token : Nat]
RotateFrames == [at : {"rotating"}, token : Nat, now : 0..MaxClock, begun : Nat]
ChangeFrames == [at : {"changing", "sweeping", "revoking", "auditing"}, user : Users,
                 status : Statuses, row : SUBSET Nat, audit : Actions \cup {NULL}]
LogoutFrames == [at : {"sweeping", "revoking"}, user : Users, row : SUBSET Nat, audit : {NULL}]

Frames == {Idle} \cup RegisterFrames \cup SyncFrames \cup SendFrames \cup ShowFrames
          \cup LoginFrames \cup InsertFrames \cup RefreshFrames \cup RotateFrames
          \cup ChangeFrames \cup LogoutFrames

\* The account of u could log in when it had been locked as often as begun says.
Begun(u, begun) ==
    /\ Exists(u) /\ begun \in 0..locks[u]
    /\ ShutOut(u) => begun < locks[u]

\* What a frame was read from is there, although others have moved on.
FrameHolds(f) ==
    /\ f.at \in {"linking", "flagging", "issuing"} => f.user \in Users /\ Exists(f.user)
    /\ f.at = "marking" => f.row \in DOMAIN codes
    /\ f.at = "inserting" => Begun(f.user, f.begun)
    /\ f.at \in {"refreshing", "rotating"} => f.token \in DOMAIN tokens
    /\ f.at = "rotating" => Begun(tokens[f.token].user, f.begun)
    /\ f.at = "auditing" => f.audit \in Actions

FramesHold == call \in [Calls -> Frames] /\ \A c \in Calls : FrameHolds(call[c])

UnusedMeansUnused == \A i \in DOMAIN codes : ~codes[i].used => codes[i].uses = 0

TokensBegun == \A t \in DOMAIN tokens : tokens[t].login <= t /\ Begun(tokens[t].user, tokens[t].begun)

LocksAreChanges ==
    /\ \A u \in Users : locks[u] <= changes["USER_LOCKED"]
    /\ changes["USER_LOCKED"] + changes["USER_UNLOCKED"] <= MaxChanges

IInv ==
    /\ SessionsTypeOK
    /\ FramesHold
    /\ UnusedMeansUnused /\ CodesAreUsedOnce
    /\ TokensBegun /\ OneLiveTokenPerLogin
    /\ LocksAreChanges

\* Requests that have changed a status and not audited the change yet.
Owing(a) ==
    {c \in Calls : call[c].at \in {"sweeping", "revoking", "auditing"} /\ call[c].audit = a}

\* Beside IInv, for the audit: what is not audited yet is owed.
AuditsOwed ==
    ~crashed => \A a \in Actions :
        /\ IsFiniteSet(Owing(a))
        /\ audits[a] + Cardinality(Owing(a)) = changes[a]
=============================================================================
