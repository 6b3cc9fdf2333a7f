------------------------------ MODULE Accounts ------------------------------
(***************************************************************************)
(* auth-service: accounts, email verification, refresh-token families and  *)
(* the projection of an interviewer's lifecycle on access.                 *)
(*                                                                         *)
(* A login opens a family of refresh tokens; each rotation uses one token  *)
(* up and inserts its replacement.  A reused token and a logout revoke the *)
(* family, an administrator and the events of interviewer-service revoke   *)
(* every token of the account.                                             *)
(*                                                                         *)
(* Concurrency.  Every call is a session at READ COMMITTED.  A call reads  *)
(* and locks in one action and commits in another.  An UPDATE that revokes *)
(* tokens sees the rows committed when it starts, waits for the rows other *)
(* calls have locked, and misses the rows inserted meanwhile.              *)
(***************************************************************************)
EXTENDS Integers, FiniteSets

CONSTANTS
    Users,          \* candidates and interviewers; administrators are provisioned by a
                    \* script and keep their sessions the same way
    Tokens,
    Challenges,     \* rows of email_verification_challenges, by their link
    Requests,       \* bound: the calls that run at one time
    MaxUnknown,     \* bound: the revoked access tokens below which LogoutUnknown runs
    Events,         \* the lifecycle events interviewer-service published
    UserOf,         \* Events -> Users: payload interviewer_id, an interviewer
    Target,         \* Events -> access states: EVENT_STATES
    At,             \* Events -> Nat: occurred_at
    None

Access == {"active", "blocked", "disabled"}

\* Deletion is the last event of an interviewer's life, and no two events of one
\* interviewer carry the same time.
ASSUME AccountsAssumption ==
    /\ UserOf \in [Events -> Users]
    /\ Target \in [Events -> Access]
    /\ At \in [Events -> Nat \ {0}]
    /\ \A e1, e2 \in Events : UserOf[e1] = UserOf[e2] =>
          /\ At[e1] = At[e2] => e1 = e2
          /\ Target[e1] = "disabled" => At[e2] <= At[e1]
    /\ None \notin Users \cup Tokens \cup Challenges \cup Events

VARIABLES
    account,    \* table credentials
    challenge,  \* table email_verification_challenges
    token,      \* table refresh_tokens
    revokedAccess,  \* table revoked_access_tokens; an access token is named by
                    \* the refresh token it was issued with
    announced,  \* per account, how many auth.EmailVerified.v1 are in the outbox
    request,    \* the running calls
    acked,      \* history: the events acknowledged to the broker
    byAdmin,    \* history: accounts an administrator's call has disabled
    closed,     \* history: families a reuse or a logout has revoked
    stray       \* history: tokens a revocation could not see, and their successors

vars == <<account, challenge, token, revokedAccess, announced, request,
          acked, byAdmin, closed, stray>>

-----------------------------------------------------------------------------
(* Rows and calls.                                                         *)

AccountRow == [exists : BOOLEAN, verified : BOOLEAN, access : Access, at : Nat]

ChallengeRow == [user : Users \cup {None}, consumed : BOOLEAN]

TokenRow == [user : Users \cup {None}, family : Tokens \cup {None}, used : BOOLEAN,
             revoked : BOOLEAN]

Op == {"idle", "resend", "verify", "login", "rotate", "reuse", "logout", "disable", "event"}

\* row: the row the call has locked; seen: the rows its UPDATE will revoke or consume.
Request == [op : Op, user : Users \cup {None}, row : Tokens \cup Challenges \cup {None},
            seen : SUBSET (Tokens \cup Challenges), verified : BOOLEAN,
            event : Events \cup {None}, access : Tokens \cup {None}]

TypeOK ==
    /\ account \in [Users -> AccountRow]
    /\ challenge \in [Challenges -> ChallengeRow]
    /\ token \in [Tokens -> TokenRow]
    /\ revokedAccess \subseteq Tokens
    /\ announced \in [Users -> Nat]
    /\ request \in [Requests -> Request]
    /\ acked \subseteq Events
    /\ byAdmin \subseteq Users
    /\ closed \subseteq Tokens
    /\ stray \subseteq Tokens

Idle == [op |-> "idle", user |-> None, row |-> None, seen |-> {}, verified |-> FALSE,
         event |-> None, access |-> None]

NoToken == [user |-> None, family |-> None, used |-> FALSE, revoked |-> FALSE]

Init ==
    /\ account = [u \in Users |-> [exists |-> FALSE, verified |-> FALSE,
                                   access |-> "active", at |-> 0]]
    /\ challenge = [h \in Challenges |-> [user |-> None, consumed |-> FALSE]]
    /\ token = [t \in Tokens |-> NoToken]
    /\ revokedAccess = {}
    /\ announced = [u \in Users |-> 0]
    /\ request = [q \in Requests |-> Idle]
    /\ acked = {}
    /\ byAdmin = {}
    /\ closed = {}
    /\ stray = {}

-----------------------------------------------------------------------------
(* Helpers.                                                                *)

Issued(t) == token[t].user # None

Unrevoked(t) == Issued(t) /\ ~token[t].revoked

\* A refresh token that rotation would accept before its expiry.
Live(t) == Unrevoked(t) /\ ~token[t].used

Family(f) == {t \in Tokens : Issued(t) /\ token[t].family = f}

OfUser(u) == {t \in Tokens : token[t].user = u}

Links(u) == {h \in Challenges : challenge[h].user = u}

\* _ensure_active and _ensure_email_verified.
MayContinue(u) == account[u].exists /\ account[u].verified /\ account[u].access = "active"

Locked(row) == \E q \in Requests : request[q].row = row

\* A call holds the lock of the credential.
AccountLocked(u) == \E q \in Requests :
    request[q].op \in {"verify", "disable", "event"} /\ request[q].user = u

\* Another call has locked a row the call must wait for.
MustWait(q) == \E o \in Requests \ {q} : request[o].row \in request[q].seen

\* The running calls whose UPDATE revokes tokens of account u.
SweepsAccount(q, u) == request[q].op \in {"disable", "event"} /\ request[q].user = u

\* The running calls whose UPDATE revokes tokens of family f.
SweepsFamily(q, f) ==
    request[q].op \in {"reuse", "logout"} /\ token[request[q].row].family = f

Run(q, r) == request[q].op = "idle" /\ request' = [request EXCEPT ![q] = r]

Return(q) == request' = [request EXCEPT ![q] = Idle]

Revoke(S) == token' = [t \in Tokens |->
    IF t \in S THEN [token[t] EXCEPT !.revoked = TRUE] ELSE token[t]]

\* _new_token_pair: a fresh token of the account in the family.
NewToken(n, u, f) ==
    [user |-> u, family |-> f, used |-> FALSE, revoked |-> FALSE]

-----------------------------------------------------------------------------
(* Registration and email verification.                                    *)

\* register: the mail leaves between flush and commit; a crash in between leaves a
\* mailed link without a row, which no call can use.
Register(u, h) ==
    /\ ~account[u].exists
    /\ challenge[h].user = None
    /\ account' = [account EXCEPT ![u].exists = TRUE]
    /\ challenge' = [challenge EXCEPT ![h].user = u]
    /\ UNCHANGED <<token, revokedAccess, announced, request, acked, byAdmin, closed, stray>>

\* resend_verification reads without a lock.  The cooldown since the latest
\* link may always have passed.
ResendRead(q, u) ==
    /\ account[u].exists
    /\ ~account[u].verified
    /\ Run(q, [Idle EXCEPT !.op = "resend", !.user = u,
                           !.seen = {h \in Links(u) : ~challenge[h].consumed}])
    /\ UNCHANGED <<account, challenge, token, revokedAccess, announced,
                   acked, byAdmin, closed, stray>>

\* Mutant: the account keeps its old links only.
ResendCommitNothingNew(q, h) ==
    /\ request[q].op = "resend"
    /\ ~MustWait(q)
    /\ challenge' = [g \in Challenges |->
            IF g \in request[q].seen THEN [challenge[g] EXCEPT !.consumed = TRUE]
            ELSE challenge[g]]
    /\ Return(q)
    /\ UNCHANGED <<account, token, revokedAccess, announced, acked, byAdmin, closed, stray>>

\* Consume the links seen, insert and mail a new one.
ResendCommit(q, h) ==
    /\ request[q].op = "resend"
    /\ ~MustWait(q)
    /\ challenge[h].user = None
    /\ challenge' = [g \in Challenges |->
            IF g = h THEN [challenge[g] EXCEPT !.user = request[q].user]
            ELSE IF g \in request[q].seen THEN [challenge[g] EXCEPT !.consumed = TRUE]
            ELSE challenge[g]]
    /\ Return(q)
    /\ UNCHANGED <<account, token, revokedAccess, announced, acked, byAdmin, closed, stray>>

\* verify_email locks the challenge, then the credential.  A consumed
\* challenge, or one that has expired by now, ends the call without a change.
VerifyLock(q, h) ==
    /\ challenge[h].user # None
    /\ ~Locked(h)
    /\ ~AccountLocked(challenge[h].user)
    /\ ~challenge[h].consumed
    /\ Run(q, [Idle EXCEPT !.op = "verify", !.user = challenge[h].user, !.row = h,
                           !.verified = account[challenge[h].user].verified])
    /\ UNCHANGED <<account, challenge, token, revokedAccess, announced,
                   acked, byAdmin, closed, stray>>

VerifyCommit(q) ==
    LET u == request[q].user
    IN /\ request[q].op = "verify"
       /\ challenge' = [challenge EXCEPT ![request[q].row].consumed = TRUE]
       /\ account' = [account EXCEPT ![u].verified = TRUE]
       /\ announced' = IF request[q].verified THEN announced
                       ELSE [announced EXCEPT ![u] = @ + 1]
       /\ Return(q)
       /\ UNCHANGED <<token, revokedAccess, acked, byAdmin, closed, stray>>

-----------------------------------------------------------------------------
(* Sessions.                                                               *)

\* login reads the credential without a lock.
LoginRead(q, u) ==
    /\ MayContinue(u)
    /\ Run(q, [Idle EXCEPT !.op = "login", !.user = u])
    /\ UNCHANGED <<account, challenge, token, revokedAccess, announced,
                   acked, byAdmin, closed, stray>>

LoginCommit(q, n) ==
    LET u == request[q].user
    IN /\ request[q].op = "login"
       /\ ~Issued(n)
       /\ token' = [token EXCEPT ![n] = NewToken(n, u, n)]
       /\ stray' = IF account[u].access # "active" \/ \E o \in Requests : SweepsAccount(o, u)
                   THEN stray \cup {n} ELSE stray
       /\ Return(q)
       /\ UNCHANGED <<account, challenge, revokedAccess, announced, acked,
                      byAdmin, closed>>

\* Mutant: the token row is read without FOR UPDATE.
RotateReadUnlocked(q, t) ==
    /\ Live(t)
    /\ MayContinue(token[t].user)
    /\ Run(q, [Idle EXCEPT !.op = "rotate", !.user = token[t].user, !.row = t])
    /\ UNCHANGED <<account, challenge, token, revokedAccess, announced,
                   acked, byAdmin, closed, stray>>

\* rotate_refresh_token locks the token row and reads the credential without a lock.
RotateRead(q, t) ==
    /\ ~Locked(t)
    /\ Live(t)
    /\ MayContinue(token[t].user)
    /\ Run(q, [Idle EXCEPT !.op = "rotate", !.user = token[t].user, !.row = t])
    /\ UNCHANGED <<account, challenge, token, revokedAccess, announced,
                   acked, byAdmin, closed, stray>>

\* Use the token up and insert its replacement.
RotateCommit(q, n) ==
    LET t == request[q].row
        u == request[q].user
    IN /\ request[q].op = "rotate"
       /\ ~Issued(n)
       /\ token' = [token EXCEPT ![t].used = TRUE, ![n] = NewToken(n, u, token[t].family)]
       /\ stray' = IF \/ t \in stray
                      \/ \E o \in Requests : SweepsAccount(o, u)
                                               \/ SweepsFamily(o, token[t].family)
                   THEN stray \cup {n} ELSE stray
       /\ Return(q)
       /\ UNCHANGED <<account, challenge, revokedAccess, announced, acked,
                      byAdmin, closed>>

\* The token has expired by now: it is revoked and refused.
RotateExpired(t) ==
    /\ ~Locked(t)
    /\ Live(t)
    /\ Revoke({t})
    /\ UNCHANGED <<account, challenge, revokedAccess, announced, request,
                   acked, byAdmin, closed, stray>>

\* A used or revoked token comes back: _revoke_family.
ReuseRead(q, t) ==
    /\ ~Locked(t)
    /\ Issued(t)
    /\ token[t].used \/ token[t].revoked
    /\ Run(q, [Idle EXCEPT !.op = "reuse", !.user = token[t].user, !.row = t,
                           !.seen = {o \in Family(token[t].family) : Unrevoked(o)}])
    /\ UNCHANGED <<account, challenge, token, revokedAccess, announced,
                   acked, byAdmin, closed, stray>>

ReuseCommit(q) ==
    /\ request[q].op = "reuse"
    /\ ~MustWait(q)
    /\ Revoke(request[q].seen)
    /\ closed' = closed \cup {token[request[q].row].family}
    /\ Return(q)
    /\ UNCHANGED <<account, challenge, revokedAccess, announced, acked,
                   byAdmin, stray>>

\* logout with the access token issued beside a, after authenticate_access_token,
\* and with refresh token t of the same account (not of another: 401).
LogoutRead(q, a, t) ==
    /\ Issued(a)
    /\ a \notin revokedAccess
    /\ MayContinue(token[a].user)
    /\ ~Locked(t)
    /\ token[t].user = token[a].user
    /\ Run(q, [Idle EXCEPT !.op = "logout", !.user = token[a].user, !.row = t, !.access = a,
                 !.seen = {o \in Family(token[t].family) : Unrevoked(o)}])
    /\ UNCHANGED <<account, challenge, token, revokedAccess, announced,
                   acked, byAdmin, closed, stray>>

\* logout with a refresh token that no account has: only the access token is revoked.
LogoutUnknown(a) ==
    /\ Cardinality(revokedAccess) < MaxUnknown
    /\ Issued(a)
    /\ a \notin revokedAccess
    /\ MayContinue(token[a].user)
    /\ revokedAccess' = revokedAccess \cup {a}
    /\ UNCHANGED <<account, challenge, token, announced, request, acked, byAdmin,
                   closed, stray>>

LogoutCommit(q) ==
    /\ request[q].op = "logout"
    /\ ~MustWait(q)
    /\ request[q].access \notin revokedAccess
    /\ Revoke(request[q].seen)
    /\ revokedAccess' = revokedAccess \cup {request[q].access}
    /\ closed' = closed \cup {token[request[q].row].family}
    /\ Return(q)
    /\ UNCHANGED <<account, challenge, announced, acked, byAdmin, stray>>

\* The access token was revoked meanwhile: the insert fails, and the rollback also
\* takes the revocation of the family back.  The caller gets its 204.
LogoutRollback(q) ==
    /\ request[q].op = "logout"
    /\ request[q].access \in revokedAccess
    /\ Return(q)
    /\ UNCHANGED <<account, challenge, token, revokedAccess, announced,
                   acked, byAdmin, closed, stray>>

-----------------------------------------------------------------------------
(* Access.                                                                 *)

\* disable_user locks the credential.  An account that is not active is left as it
\* is.
DisableRead(q, u) ==
    /\ account[u].exists
    /\ ~AccountLocked(u)
    /\ account[u].access = "active"
    /\ Run(q, [Idle EXCEPT !.op = "disable", !.user = u,
                           !.seen = {t \in OfUser(u) : Unrevoked(t)}])
    /\ UNCHANGED <<account, challenge, token, revokedAccess, announced,
                   acked, byAdmin, closed, stray>>

DisableCommit(q) ==
    /\ request[q].op = "disable"
    /\ ~MustWait(q)
    /\ account' = [account EXCEPT ![request[q].user].access = "disabled"]
    /\ Revoke(request[q].seen)
    /\ byAdmin' = byAdmin \cup {request[q].user}
    /\ Return(q)
    /\ UNCHANGED <<challenge, revokedAccess, announced, acked, closed, stray>>

\* Mutant: the time of the event is not looked at.
OutdatedNever(e) == account[UserOf[e]].access = "disabled"

\* What apply_interviewer_access_event skips: disabled accounts, the event applied
\* last and events that are not later than it.
Outdated(e) ==
    \/ account[UserOf[e]].access = "disabled"
    \/ account[UserOf[e]].at >= At[e]

\* An event that is skipped is acknowledged; one for an account that does not exist
\* goes back to the queue unchanged.
EventSkip(e) ==
    LET u == UserOf[e]
    IN /\ account[u].exists
       /\ ~AccountLocked(u)
       /\ Outdated(e)
       /\ acked' = acked \cup {e}
       /\ UNCHANGED <<account, challenge, token, revokedAccess, announced,
                      request, byAdmin, closed, stray>>

EventRead(q, e) ==
    LET u == UserOf[e]
    IN /\ account[u].exists
       /\ ~AccountLocked(u)
       /\ ~Outdated(e)
       /\ Run(q, [Idle EXCEPT !.op = "event", !.user = u, !.event = e,
                    !.seen = IF Target[e] = "active" THEN {}
                             ELSE {t \in OfUser(u) : Unrevoked(t)}])
       /\ UNCHANGED <<account, challenge, token, revokedAccess, announced,
                      acked, byAdmin, closed, stray>>

\* Mutant: tokens are left alone.
EventCommitAccessOnly(q) ==
    LET u == request[q].user
        e == request[q].event
    IN /\ request[q].op = "event"
       /\ ~MustWait(q)
       /\ account' = [account EXCEPT ![u].access = Target[e], ![u].at = At[e]]
       /\ acked' = acked \cup {e}
       /\ Return(q)
       /\ UNCHANGED <<challenge, token, revokedAccess, announced, byAdmin,
                      closed, stray>>

EventCommit(q) ==
    LET u == request[q].user
        e == request[q].event
    IN /\ request[q].op = "event"
       /\ ~MustWait(q)
       /\ account' = [account EXCEPT ![u].access = Target[e], ![u].at = At[e]]
       /\ Revoke(request[q].seen)
       /\ acked' = acked \cup {e}
       /\ Return(q)
       /\ UNCHANGED <<challenge, revokedAccess, announced, byAdmin, closed, stray>>

-----------------------------------------------------------------------------
(* Failure.  That a row has expired, or that a cooldown has passed, is the  *)
(* choice of the call that reads it.                                       *)

\* The process dies, the database reports an error, or the mail cannot be sent: the
\* transaction is rolled back.  An event is not acknowledged: a lost connection puts it back
\* into the queue, another error of the driver (a deadlock that PostgreSQL ends) rejects it,
\* and it is not delivered again.
Fail(q) ==
    /\ request[q].op # "idle"
    /\ Return(q)
    /\ UNCHANGED <<account, challenge, token, revokedAccess, announced,
                   acked, byAdmin, closed, stray>>

EmailNext ==
    \/ \E u \in Users, h \in Challenges : Register(u, h)
    \/ \E q \in Requests, u \in Users : ResendRead(q, u)
    \/ \E q \in Requests : VerifyCommit(q)
    \/ \E q \in Requests, h \in Challenges : ResendCommit(q, h) \/ VerifyLock(q, h)

SessionNext ==
    \/ \E q \in Requests, u \in Users : LoginRead(q, u)
    \/ \E t \in Tokens : RotateExpired(t)
    \/ \E q \in Requests, t \in Tokens :
          LoginCommit(q, t) \/ RotateRead(q, t) \/ RotateCommit(q, t) \/ ReuseRead(q, t)
    \/ \E a \in Tokens : LogoutUnknown(a)
    \/ \E q \in Requests, a \in Tokens, t \in Tokens : LogoutRead(q, a, t)
    \/ \E q \in Requests : ReuseCommit(q) \/ LogoutCommit(q) \/ LogoutRollback(q)

AccessNext ==
    \/ \E q \in Requests, u \in Users : DisableRead(q, u)
    \/ \E e \in Events : EventSkip(e)
    \/ \E q \in Requests, e \in Events : EventRead(q, e)
    \/ \E q \in Requests : DisableCommit(q) \/ EventCommit(q) \/ Fail(q)

Next == EmailNext \/ SessionNext \/ AccessNext

Spec == Init /\ [][Next]_vars

-----------------------------------------------------------------------------
(* Properties.                                                             *)

\* A token is used up by one rotation only, whatever calls race: a family never has
\* two tokens that rotation would accept, not even when a revocation missed one.
OneLiveTokenPerFamily ==
    \A t1, t2 \in Tokens :
        Live(t1) /\ Live(t2) /\ token[t1].family = token[t2].family => t1 = t2

\* After a reuse or a logout has revoked a family, rotation accepts none of its
\* tokens, except what was inserted while the UPDATE ran and its successors.
ClosedFamilyIsDead ==
    \A t \in Tokens : Live(t) /\ token[t].family \in closed => t \in stray

\* A blocked or disabled account holds no token that would come back to life with
\* the account, except those inserted behind the UPDATE's back.
NoAccessNoSession ==
    \A t \in Tokens : Live(t) /\ account[token[t].user].access # "active" => t \in stray

\* The latest event acknowledged for account u, if any, decides its access.
Latest(u, e) == UserOf[e] = u /\ \A o \in acked : UserOf[o] = u => At[o] <= At[e]

\* In whatever order, and however often, the broker delivers an interviewer's
\* events, the account ends in the state of the latest; an administrator's disabling
\* is final.
AccessIsTheLatest ==
    \A u \in Users :
        IF u \in byAdmin THEN account[u].access = "disabled"
        ELSE /\ \A e \in acked : Latest(u, e) => account[u].access = Target[e]
             /\ (\A e \in acked : UserOf[e] # u) => account[u].access = "active"

\* A user's verification is announced exactly once, however many links are used at
\* the same time.
VerifiedAnnouncedOnce ==
    \A u \in Users : announced[u] = IF account[u].verified THEN 1 ELSE 0

\* Until the address is verified some mailed link is unconsumed, whatever resends
\* and verifications overlap or fail: only its expiry can ask for another.
UnverifiedHasALink ==
    \A u \in Users : account[u].exists /\ ~account[u].verified =>
        \E h \in Links(u) : ~challenge[h].consumed
=============================================================================
