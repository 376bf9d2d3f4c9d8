-------------------------------- MODULE Accounts --------------------------------
(***************************************************************************)
(* The accounts of UsersService and the one-time codes of Auth: registration, *)
(* sending, verifying and logging in with a code, the Firebase sync and the   *)
(* changes users make to their own account.                                  *)
(***************************************************************************)
EXTENDS Handlers, Integers, Sequences, FiniteSets

CONSTANTS
    Users,      \* account ids
    Emails, Uids,
    Seeded, SeededCodes,  \* the accounts and codes there are at the start
    Purposes,   \* of the enum OtpPurpose
    Codes,      \* six digits
    Limit,      \* codes that may be sent in ten minutes
    MaxCodes, MaxClock   \* bounds

ASSUME AccountsAssumption == {Limit, MaxCodes, MaxClock} \subseteq Nat /\ NULL \notin Users

\* A process serves finitely many requests at a time.
ASSUME SlotsAssumption == IsFiniteSet(Calls) /\ Calls # {}

VARIABLES
    account,    \* the row of each user, NULL when there is none
    codes,      \* rows of otp_verifications in the order of their creation
    clock       \* time in units of five minutes

Statuses == {"pending_verification", "active", "locked", "rejected"}
Rows == [email : Emails, uid : Uids \cup {NULL}, role : {"admin", "member"},
         status : Statuses, verified : BOOLEAN]
CodeRows == [email : Emails, code : Codes, purpose : Purposes,
             created : 0..MaxClock, used : BOOLEAN, uses : Nat]  \* uses: history

\* The rows the database starts with are ones earlier requests could have left.
ASSUME SeededAccountsAssumption ==
    /\ NULL \notin Rows
    /\ DOMAIN Seeded \subseteq Users /\ Seeded \in [DOMAIN Seeded -> Rows]
    /\ SeededCodes \in Seq(CodeRows) /\ Len(SeededCodes) <= MaxCodes
    /\ \A i \in DOMAIN SeededCodes : ~SeededCodes[i].used /\ SeededCodes[i].uses = 0
    /\ \A email \in Emails :
         Cardinality({i \in DOMAIN SeededCodes : SeededCodes[i].email = email}) <= Limit

Exists(u) == account[u] # NULL
WithEmail(email) == {u \in Users : Exists(u) /\ account[u].email = email}
WithUid(uid) == {u \in Users : Exists(u) /\ account[u].uid = uid}

AccountsInit ==
    /\ HandlersInit
    /\ account = [u \in Users |-> IF u \in DOMAIN Seeded THEN Seeded[u] ELSE NULL]
    /\ codes = SeededCodes
    /\ clock = 0

Tick == clock < MaxClock /\ clock' = clock + 1 /\ UNCHANGED <<call, account, codes>>

-----------------------------------------------------------------------------
(* Registration and the Firebase sync *)

Register(c) ==
    /\ \E email \in Emails : Receive(c, [at |-> "registering", email |-> email, uid |-> NULL])
    /\ UNCHANGED <<account, codes, clock>>

\* findByEmail; a new account's password is hashed before the row is written.
CheckEmail(c) ==
    /\ At(c, "registering")
    /\ IF WithEmail(call[c].email) = {} THEN Goto(c, "creating") ELSE End(c)
    /\ UNCHANGED <<account, codes, clock>>

\* FirebaseAuthGuard has verified uid and email.
Sync(c) ==
    /\ \E uid \in Uids, email \in Emails :
         Receive(c, [at |-> "syncing", email |-> email, uid |-> uid, user |-> NULL])
    /\ UNCHANGED <<account, codes, clock>>

\* The account of the uid, or else that of the address, and the address it has now.
FindByUid(c) ==
    /\ At(c, "syncing")
    /\ \/ \E u \in WithUid(call[c].uid) :
            call' = [call EXCEPT ![c].at = "linking", ![c].user = u, ![c].email = account[u].email]
       \/ WithUid(call[c].uid) = {} /\ Goto(c, "matching")
    /\ UNCHANGED <<account, codes, clock>>

FindByEmail(c) ==
    /\ At(c, "matching")
    /\ \/ \E u \in WithEmail(call[c].email) :
            call' = [call EXCEPT ![c].at = "linking", ![c].user = u]
       \/ WithEmail(call[c].email) = {} /\ Goto(c, "creating")
    /\ UNCHANGED <<account, codes, clock>>

\* The unique indexes on email and firebase_uid.
Taken(row, u) ==
    \E v \in Users \ {u} :
        /\ Exists(v)
        /\ account[v].email = row.email \/ (row.uid # NULL /\ account[v].uid = row.uid)

\* create() of either use case; only the sync goes on to issue tokens.  The
\* INSERT fails when address, uid or phone number are taken.
Create(c) ==
    LET synced == call[c].uid # NULL
        row == [email |-> call[c].email, uid |-> call[c].uid, role |-> "member",
                status |-> IF synced THEN "active" ELSE "pending_verification",
                verified |-> synced] IN
    /\ At(c, "creating")
    /\ \/ \E u \in Users :
            /\ ~Exists(u) /\ ~Taken(row, u)
            /\ account' = [account EXCEPT ![u] = row]
            /\ IF synced THEN call' = [call EXCEPT ![c].at = "issuing", ![c].user = u]
                         ELSE End(c)
       \/ End(c) /\ UNCHANGED account
    /\ UNCHANGED <<codes, clock>>

\* updateInternal, with the address that was read: a change since then is undone.
Link(c) ==
    LET u == call[c].user
        row == [account[u] EXCEPT !.uid = call[c].uid, !.verified = TRUE, !.email = call[c].email] IN
    /\ At(c, "linking")
    /\ IF Taken(row, u) THEN End(c) /\ UNCHANGED account
                        ELSE account' = [account EXCEPT ![u] = row] /\ Goto(c, "issuing")
    /\ UNCHANGED <<codes, clock>>

\* updateMe: another address; the flag of the old one is kept.
UpdateMe(u) ==
    /\ "updating" \in mix /\ Exists(u)
    /\ \E email \in Emails :
         LET row == [account[u] EXCEPT !.email = email] IN
         ~Taken(row, u) /\ account' = [account EXCEPT ![u] = row]
    /\ UNCHANGED <<call, codes, clock>>

\* updateMyRole: one of the roles of the mobile onboarding.
UpdateMyRole(u) ==
    /\ "updating" \in mix /\ Exists(u)
    /\ account' = [account EXCEPT ![u].role = "member"]
    /\ UNCHANGED <<call, codes, clock>>

-----------------------------------------------------------------------------
(* One-time codes *)

SendOtp(c) ==
    /\ \E email \in Emails, purpose \in Purposes :
         Receive(c, [at |-> "counting", email |-> email, purpose |-> purpose, now |-> clock])
    /\ UNCHANGED <<account, codes, clock>>

\* Codes sent to the address in the ten minutes before.
Recent(email, now) ==
    {i \in DOMAIN codes : codes[i].email = email /\ codes[i].created > now - 2}

\* Mutant of MaySend: the limit itself is let through.
MaySendOneMore(c) == Cardinality(Recent(call[c].email, call[c].now)) <= Limit

MaySend(c) == Cardinality(Recent(call[c].email, call[c].now)) < Limit

CountRecent(c) ==
    /\ At(c, "counting")
    /\ IF MaySend(c) THEN Goto(c, "addressing") ELSE End(c)
    /\ UNCHANGED <<account, codes, clock>>

\* A code to log in needs an account, one to register must not have one.
TargetFits(c) ==
    /\ call[c].purpose = "login" => WithEmail(call[c].email) # {}
    /\ call[c].purpose = "register" => WithEmail(call[c].email) = {}

CheckTarget(c) ==
    /\ At(c, "addressing")
    /\ IF TargetFits(c) THEN Goto(c, "storing") ELSE End(c)
    /\ UNCHANGED <<account, codes, clock>>

\* The row is there before the mail is sent, whether or not that succeeds.
SaveOtp(c) ==
    /\ At(c, "storing")
    /\ \E code \in Codes :
         codes' = IF Len(codes) = MaxCodes THEN codes ELSE Append(codes, [email |-> call[c].email, code |-> code, uses |-> 0, used |-> FALSE,
                                 purpose |-> call[c].purpose, created |-> clock])
    /\ End(c)
    /\ UNCHANGED <<account, clock>>

\* verify-otp, or login-otp, with any purpose.
VerifyOtp(c) ==
    /\ \E email \in Emails, code \in Codes, purpose \in Purposes, login \in BOOLEAN :
         Receive(c, [at |-> "consuming", email |-> email, code |-> code, purpose |-> purpose,
                     login |-> login, now |-> clock, row |-> NULL, user |-> NULL])
    /\ UNCHANGED <<account, codes, clock>>

\* A code lives five minutes.
Unexpired(i, now) == codes[i].created + 1 > now

\* consumeValidOtp, first the SELECT of the newest row that matches.
SelectOtp(c) ==
    LET valid == {i \in DOMAIN codes :
                    /\ codes[i].email = call[c].email /\ codes[i].code = call[c].code
                    /\ codes[i].purpose = call[c].purpose
                    /\ ~codes[i].used /\ Unexpired(i, call[c].now)} IN
    /\ At(c, "consuming")
    /\ \/ \E i \in valid : (\A j \in valid : j <= i) /\ Keep(c, "marking", i)
       \/ valid = {} /\ End(c)
    /\ UNCHANGED <<account, codes, clock>>

\* Mutant of StillValid: the row was valid when it was read.
StillValidAsRead(c) == Unexpired(call[c].row, call[c].now)

\* The WHERE clause of the UPDATE.
StillValid(c) == ~codes[call[c].row].used /\ Unexpired(call[c].row, call[c].now)

\* Then the conditional UPDATE.  login-otp goes on to sign the user in.
MarkUsed(c) ==
    /\ At(c, "marking")
    /\ IF StillValid(c)
       THEN /\ codes' = [codes EXCEPT ![call[c].row].used = TRUE, ![call[c].row].uses = @ + 1]
            /\ IF call[c].purpose = "register" THEN Goto(c, "verifying")
               ELSE IF call[c].login THEN Goto(c, "signing-in") ELSE End(c)
       ELSE End(c) /\ UNCHANGED codes
    /\ UNCHANGED <<account, clock>>

Verified(c) == IF call[c].login THEN Goto(c, "signing-in") ELSE End(c)

\* A code to register proves the address of the account, if it has one by now.
FindVerified(c) ==
    /\ At(c, "verifying")
    /\ \/ \E u \in WithEmail(call[c].email) :
            call' = [call EXCEPT ![c].at = "flagging", ![c].user = u]
       \/ WithEmail(call[c].email) = {} /\ Verified(c)
    /\ UNCHANGED <<account, codes, clock>>

FlagVerified(c) ==
    /\ At(c, "flagging")
    /\ account' = [account EXCEPT ![call[c].user].verified = TRUE]
    /\ Verified(c)
    /\ UNCHANGED <<codes, clock>>

AccountsStep(c) ==
    \/ Register(c) \/ CheckEmail(c) \/ Create(c)
    \/ Sync(c) \/ FindByUid(c) \/ FindByEmail(c) \/ Link(c)
    \/ SendOtp(c) \/ CountRecent(c) \/ CheckTarget(c) \/ SaveOtp(c)
    \/ VerifyOtp(c) \/ SelectOtp(c) \/ MarkUsed(c) \/ FindVerified(c) \/ FlagVerified(c)

-----------------------------------------------------------------------------
(* Properties *)

\* Every variable has its type.
AccountsTypeOK ==
    /\ account \in [Users -> Rows \cup {NULL}]
    /\ codes \in Seq(CodeRows) /\ Len(codes) <= MaxCodes
    /\ clock \in 0..MaxClock

\* ADR 0005, item 7: concurrent requests that show the same code have at most
\* one winner, although the row is read before it is consumed.
CodesAreUsedOnce == \A i \in DOMAIN codes : codes[i].uses <= 1

\* The ten-minute limit is checked before the code is stored: requests that run
\* side by side may exceed it, but by no more than those in flight.
CodesAreLimited ==
    \A email \in Emails :
        Cardinality(Recent(email, clock)) <= Limit + Cardinality(Calls) - 1

-----------------------------------------------------------------------------
(* The inductive invariant behind CodesAreLimited *)

\* Requests that have counted the codes of an address and may store one more.
Sending(email) ==
    {c \in Calls : call[c].at \in {"addressing", "storing"} /\ call[c].email = email}

CodesInHand ==
    /\ \A c \in Calls : At(c, "counting") => call[c].now <= clock
    /\ \A email \in Emails :
         Cardinality(Recent(email, clock)) + Cardinality(Sending(email))
            <= Limit + Cardinality(Calls) - 1
=============================================================================
