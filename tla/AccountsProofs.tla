--------------------------- MODULE AccountsProofs ---------------------------
(***************************************************************************)
(* Theorems about Accounts for every set of users, tokens, links, calls    *)
(* and events.                                                             *)
(***************************************************************************)
EXTENDS Accounts, TLAPS

-----------------------------------------------------------------------------
(* The strengthening.                                                      *)

Revokes(r) == r.op = "disable" \/ (r.op = "event" /\ Target[r.event] # "active")

\* What a running call has read is still so: what it has locked cannot change, and what its
\* UPDATE does not see is stray.
RequestFits(r) ==
    /\ r.op = "idle" => r.row = None
    /\ r.op # "idle" => r.user \in Users
    /\ r.op = "resend" => \A h \in r.seen : h \in Challenges => challenge[h].user = r.user
    /\ r.op = "verify" =>
          /\ r.row \in Challenges
          /\ challenge[r.row].user = r.user
          /\ r.verified = account[r.user].verified
    /\ r.op = "rotate" => r.row \in Tokens /\ Live(r.row) /\ token[r.row].user = r.user
    /\ r.op \in {"reuse", "logout"} =>
          /\ r.row \in Tokens /\ Issued(r.row)
          /\ \A t \in Tokens : Live(t) /\ token[t].family = token[r.row].family =>
                                   t \in r.seen \cup stray
    /\ r.op = "logout" => r.access \in Tokens
    /\ Revokes(r) => \A t \in Tokens : Live(t) /\ token[t].user = r.user => t \in r.seen \cup stray
    /\ r.op = "event" => r.event \in Events /\ UserOf[r.event] = r.user /\ ~Outdated(r.event)

RequestsFit == \A q \in Requests : RequestFits(request[q])

Locks == {"verify", "disable", "event"}

\* A row and a credential are locked by one call.
LocksExclude ==
    \A q, o \in Requests : q # o =>
        /\ request[q].row # None => request[o].row # request[q].row
        /\ request[q].op \in Locks /\ request[o].op \in Locks => request[q].user # request[o].user

\* A family is named by the token that opened it.
FamiliesOpened ==
    /\ \A t \in Tokens : Issued(t) => token[t].family \in Tokens /\ Issued(token[t].family)
    /\ \A f \in closed : Issued(f)

\* The access comes from the event applied last, and nothing later was acknowledged.
AccessInv ==
    \A u \in Users :
        IF u \in byAdmin THEN account[u].access = "disabled"
        ELSE /\ \A e \in acked : UserOf[e] = u => At[e] <= account[u].at
             /\ IF account[u].at = 0 THEN account[u].access = "active"
                ELSE \E e \in acked : /\ UserOf[e] = u /\ At[e] = account[u].at
                                      /\ account[u].access = Target[e]

FreshLinks == \A h \in Challenges : challenge[h].user = None => ~challenge[h].consumed

EmailInv == VerifiedAnnouncedOnce /\ UnverifiedHasALink /\ FreshLinks

TokenInv == FamiliesOpened /\ OneLiveTokenPerFamily /\ ClosedFamilyIsDead /\ NoAccessNoSession

IInv == TypeOK /\ RequestsFit /\ LocksExclude /\ TokenInv /\ AccessInv /\ EmailInv

LEMMA IdleRequest == Idle \in Request /\ Idle.op = "idle" /\ RequestFits(Idle) /\ Idle.row = None
BY DEF Idle, Request, Op, RequestFits, Revokes

LEMMA InitInv == Init => IInv
<1> SUFFICES ASSUME Init PROVE IInv
  OBVIOUS
<1> USE AccountsAssumption DEF Init
<1>1. TypeOK
  BY IdleRequest DEF TypeOK, AccountRow, ChallengeRow, TokenRow, NoToken, Access
<1>2. RequestsFit /\ LocksExclude
  BY IdleRequest DEF RequestsFit, LocksExclude, Locks
<1>3. \A t \in Tokens : ~Issued(t)
  BY DEF Issued, NoToken
<1>4. TokenInv
  BY <1>3 DEF TokenInv, FamiliesOpened, OneLiveTokenPerFamily, ClosedFamilyIsDead,
     NoAccessNoSession, Live, Unrevoked
<1>5. AccessInv /\ EmailInv
  BY DEF AccessInv, EmailInv, VerifiedAnnouncedOnce, UnverifiedHasALink, FreshLinks
<1> QED  BY <1>1, <1>2, <1>4, <1>5 DEF IInv

-----------------------------------------------------------------------------
(* Steps that change the calls only.                                       *)

LEMMA RequestStep ==
    ASSUME IInv, NEW q \in Requests, NEW r \in Request,
           request' = [request EXCEPT ![q] = r],
           UNCHANGED <<account, challenge, token, revokedAccess, announced, acked, byAdmin,
                       closed, stray>>,
           RequestFits(r),
           r.row # None => ~Locked(r.row),
           r.op \in Locks => ~AccountLocked(r.user)
    PROVE  IInv'
<1>1. TypeOK'
  BY DEF IInv, TypeOK
<1>2. RequestsFit'
  <2>1. \A o \in Requests : request'[o] = r \/ request'[o] = request[o]
    BY DEF IInv, TypeOK
  <2>2. ASSUME NEW p \in Request, RequestFits(p)  PROVE RequestFits(p)'
    BY <2>2 DEF RequestFits, Live, Unrevoked, Issued, Outdated, Revokes
  <2>3. \A o \in Requests : request[o] \in Request /\ RequestFits(request[o])
    BY DEF IInv, TypeOK, RequestsFit
  <2>4. ASSUME NEW o \in Requests  PROVE RequestFits(request[o])'
    <3>1. PICK p \in Request : p = request'[o] /\ RequestFits(p)
      BY <2>1, <2>3
    <3>2. RequestFits(p)'
      BY <2>2, <3>1
    <3> QED  BY <3>1, <3>2 DEF RequestFits, Revokes
  <2> QED  BY <2>4 DEF RequestsFit
<1>3. LocksExclude'
  BY DEF IInv, TypeOK, LocksExclude, Locked, AccountLocked, Locks
<1>4. TokenInv' /\ AccessInv' /\ EmailInv'
  BY DEF IInv, TokenInv, AccessInv, EmailInv, FamiliesOpened, OneLiveTokenPerFamily,
     ClosedFamilyIsDead, NoAccessNoSession, VerifiedAnnouncedOnce, UnverifiedHasALink, FreshLinks, Live,
     Unrevoked, Issued, Links
<1> QED  BY <1>1, <1>2, <1>3, <1>4 DEF IInv

\* A call that is refused or fails leaves nothing behind.
LEMMA GiveUp ==
    ASSUME IInv, NEW q \in Requests, LogoutRollback(q) \/ Fail(q)
    PROVE  IInv'
BY IdleRequest, RequestStep DEF LogoutRollback, Fail, Return, Locks

\* A logout that knows no family touches neither accounts nor refresh tokens.
LEMMA UnknownStep ==
    ASSUME IInv, NEW a \in Tokens, LogoutUnknown(a)
    PROVE  IInv'
<1>1. /\ revokedAccess' = revokedAccess \cup {a}
      /\ UNCHANGED <<account, challenge, token, announced, request, acked, byAdmin, closed, stray>>
  BY DEF LogoutUnknown
<1>2. TypeOK'
  BY <1>1 DEF IInv, TypeOK
<1>3. RequestsFit'
  BY <1>1 DEF IInv, RequestsFit, RequestFits, Revokes, Outdated, Live, Unrevoked, Issued
<1>4. LocksExclude'
  BY <1>1 DEF IInv, LocksExclude, Locked, AccountLocked, Locks
<1>5. TokenInv' /\ AccessInv' /\ EmailInv'
  BY <1>1 DEF IInv, TokenInv, AccessInv, EmailInv, FamiliesOpened, OneLiveTokenPerFamily,
     ClosedFamilyIsDead, NoAccessNoSession, VerifiedAnnouncedOnce, UnverifiedHasALink, FreshLinks, Live,
     Unrevoked, Issued, Links
<1> QED  BY <1>2, <1>3, <1>4, <1>5 DEF IInv

LEMMA EmailReads ==
    ASSUME IInv, NEW q \in Requests,
           \/ \E u \in Users : ResendRead(q, u) \/ LoginRead(q, u)
           \/ \E h \in Challenges : VerifyLock(q, h)
    PROVE  IInv'
<1> USE AccountsAssumption
<1>1. ASSUME NEW u \in Users, ResendRead(q, u)  PROVE IInv'
  <2> DEFINE r == [Idle EXCEPT !.op = "resend", !.user = u,
                           !.seen = {h \in Links(u) : ~challenge[h].consumed}]
  <2>1. /\ request' = [request EXCEPT ![q] = r]
        /\ UNCHANGED <<account, challenge, token, revokedAccess, announced, acked, byAdmin,
                       closed, stray>>
    BY <1>1 DEF ResendRead, Run
  <2>2. r \in Request /\ r.op = "resend" /\ r.user = u /\ r.row = None
        /\ \A h \in r.seen : challenge[h].user = u
    BY IdleRequest DEF Idle, Request, Op, Links
  <2> HIDE DEF r
  <2>3. RequestFits(r)
    BY <2>2 DEF RequestFits, Revokes
  <2> QED  BY <2>1, <2>2, <2>3, RequestStep DEF Locks
<1>2. ASSUME NEW u \in Users, LoginRead(q, u)  PROVE IInv'
  <2> DEFINE r == [Idle EXCEPT !.op = "login", !.user = u]
  <2>1. /\ request' = [request EXCEPT ![q] = r]
        /\ UNCHANGED <<account, challenge, token, revokedAccess, announced, acked, byAdmin,
                       closed, stray>>
    BY <1>2 DEF LoginRead, Run
  <2>2. r \in Request /\ r.op = "login" /\ r.user = u /\ r.row = None
    BY IdleRequest DEF Idle, Request, Op
  <2> HIDE DEF r
  <2>3. RequestFits(r)
    BY <2>2 DEF RequestFits, Revokes
  <2> QED  BY <2>1, <2>2, <2>3, RequestStep DEF Locks
<1>3. ASSUME NEW h \in Challenges, VerifyLock(q, h)  PROVE IInv'
  <2> DEFINE r == [Idle EXCEPT !.op = "verify", !.user = challenge[h].user, !.row = h,
                           !.verified = account[challenge[h].user].verified]
  <2>0. challenge[h].user \in Users /\ account[challenge[h].user].verified \in BOOLEAN
    BY <1>3 DEF VerifyLock, IInv, TypeOK, ChallengeRow, AccountRow
  <2>1. /\ request' = [request EXCEPT ![q] = r]
        /\ UNCHANGED <<account, challenge, token, revokedAccess, announced, acked, byAdmin,
                       closed, stray>>
        /\ ~Locked(h) /\ ~AccountLocked(challenge[h].user)
    BY <1>3 DEF VerifyLock, Run
  <2>2. r \in Request /\ r.op = "verify" /\ r.user = challenge[h].user /\ r.row = h
        /\ r.verified = account[challenge[h].user].verified
    BY <2>0, IdleRequest DEF Idle, Request, Op
  <2> HIDE DEF r
  <2>3. RequestFits(r)
    BY <2>0, <2>2 DEF RequestFits, Revokes
  <2> QED  BY <2>1, <2>2, <2>3, RequestStep
<1> QED  BY <1>1, <1>2, <1>3

\* What a revocation reads is every live token of the family or account.
LEMMA TokenReads ==
    ASSUME IInv, NEW q \in Requests,
           \/ \E t \in Tokens : RotateRead(q, t) \/ ReuseRead(q, t)
           \/ \E a \in Tokens, t \in Tokens : LogoutRead(q, a, t)
    PROVE  IInv'
<1> USE AccountsAssumption
<1>0. /\ \A t \in Tokens : token[t] \in TokenRow
      /\ \A t \in Tokens : Issued(t) => token[t].user \in Users
  BY DEF IInv, TypeOK, TokenRow, Issued
<1>1. ASSUME NEW t \in Tokens, RotateRead(q, t)  PROVE IInv'
  <2> DEFINE r == [Idle EXCEPT !.op = "rotate", !.user = token[t].user, !.row = t]
  <2>1. /\ request' = [request EXCEPT ![q] = r]
        /\ UNCHANGED <<account, challenge, token, revokedAccess, announced, acked, byAdmin,
                       closed, stray>>
        /\ ~Locked(t) /\ Live(t) /\ token[t].user \in Users
    BY <1>0, <1>1 DEF RotateRead, Run, Live, Unrevoked
  <2>2. r \in Request /\ r.op = "rotate" /\ r.user = token[t].user /\ r.row = t
    BY <2>1, IdleRequest DEF Idle, Request, Op
  <2> HIDE DEF r
  <2>3. RequestFits(r)
    BY <2>1, <2>2 DEF RequestFits, Revokes
  <2> QED  BY <2>1, <2>2, <2>3, RequestStep DEF Locks
<1>2. ASSUME NEW t \in Tokens, ReuseRead(q, t)  PROVE IInv'
  <2> DEFINE r == [Idle EXCEPT !.op = "reuse", !.user = token[t].user, !.row = t,
                           !.seen = {o \in Family(token[t].family) : Unrevoked(o)}]
  <2>1. /\ request' = [request EXCEPT ![q] = r]
        /\ UNCHANGED <<account, challenge, token, revokedAccess, announced, acked, byAdmin,
                       closed, stray>>
        /\ ~Locked(t) /\ Issued(t) /\ token[t].user \in Users
    BY <1>0, <1>2 DEF ReuseRead, Run
  <2>2. r \in Request /\ r.op = "reuse" /\ r.user = token[t].user /\ r.row = t
        /\ r.seen = {o \in Family(token[t].family) : Unrevoked(o)}
    BY <2>1, IdleRequest DEF Idle, Request, Op, Family
  <2> HIDE DEF r
  <2>3. RequestFits(r)
    BY <2>1, <2>2 DEF RequestFits, Revokes, Family, Live, Unrevoked
  <2> QED  BY <2>1, <2>2, <2>3, RequestStep DEF Locks
<1>3. ASSUME NEW a \in Tokens, NEW t \in Tokens, LogoutRead(q, a, t)  PROVE IInv'
  <2> DEFINE r == [Idle EXCEPT !.op = "logout", !.user = token[a].user, !.row = t, !.access = a,
                 !.seen = {o \in Family(token[t].family) : Unrevoked(o)}]
  <2>1. /\ request' = [request EXCEPT ![q] = r]
        /\ UNCHANGED <<account, challenge, token, revokedAccess, announced, acked, byAdmin,
                       closed, stray>>
        /\ ~Locked(t) /\ Issued(t) /\ token[a].user \in Users
    BY <1>0, <1>3 DEF LogoutRead, Run, Issued
  <2>2. r \in Request /\ r.op = "logout" /\ r.user = token[a].user /\ r.row = t /\ r.access = a
        /\ r.seen = {o \in Family(token[t].family) : Unrevoked(o)}
    BY <2>1, IdleRequest DEF Idle, Request, Op, Family
  <2> HIDE DEF r
  <2>3. RequestFits(r)
    BY <2>1, <2>2 DEF RequestFits, Revokes, Family, Live, Unrevoked
  <2> QED  BY <2>1, <2>2, <2>3, RequestStep DEF Locks
<1> QED  BY <1>1, <1>2, <1>3

LEMMA AccessReads ==
    ASSUME IInv, NEW q \in Requests,
           \/ \E u \in Users : DisableRead(q, u)
           \/ \E e \in Events : EventRead(q, e)
    PROVE  IInv'
<1> USE AccountsAssumption
<1>1. ASSUME NEW u \in Users, DisableRead(q, u)  PROVE IInv'
  <2> DEFINE r == [Idle EXCEPT !.op = "disable", !.user = u,
                           !.seen = {t \in OfUser(u) : Unrevoked(t)}]
  <2>1. /\ request' = [request EXCEPT ![q] = r]
        /\ UNCHANGED <<account, challenge, token, revokedAccess, announced, acked, byAdmin,
                       closed, stray>>
        /\ ~AccountLocked(u)
    BY <1>1 DEF DisableRead, Run
  <2>2. r \in Request /\ r.op = "disable" /\ r.user = u /\ r.row = None
        /\ r.seen = {t \in OfUser(u) : Unrevoked(t)}
    BY IdleRequest DEF Idle, Request, Op, OfUser
  <2> HIDE DEF r
  <2>3. RequestFits(r)
    BY <2>2 DEF RequestFits, OfUser, Live
  <2> QED  BY <2>1, <2>2, <2>3, RequestStep
<1>2. ASSUME NEW e \in Events, EventRead(q, e)  PROVE IInv'
  <2> DEFINE u == UserOf[e]
             S == IF Target[e] = "active" THEN {} ELSE {t \in OfUser(u) : Unrevoked(t)}
             r == [Idle EXCEPT !.op = "event", !.user = u, !.event = e, !.seen = S]
  <2>1. /\ request' = [request EXCEPT ![q] = r]
        /\ UNCHANGED <<account, challenge, token, revokedAccess, announced, acked, byAdmin,
                       closed, stray>>
        /\ ~AccountLocked(u) /\ ~Outdated(e)
    BY <1>2 DEF EventRead, Run
  <2>2. u \in Users /\ S \subseteq Tokens
        /\ (Target[e] # "active" => S = {t \in OfUser(u) : Unrevoked(t)})
    BY DEF OfUser
  <2>3. u = UserOf[e]
    OBVIOUS
  <2> HIDE DEF S, u
  <2>4. r \in Request /\ r.op = "event" /\ r.user = u /\ r.row = None /\ r.seen = S /\ r.event = e
    BY <2>2, IdleRequest DEF Idle, Request, Op
  <2> HIDE DEF r
  <2>5. RequestFits(r)
    BY <2>1, <2>2, <2>3, <2>4 DEF RequestFits, OfUser, Live, Revokes
  <2> QED  BY <2>1, <2>4, <2>5, RequestStep
<1> QED  BY <1>1, <1>2

-----------------------------------------------------------------------------
(* Commits.                                                                *)

\* A commit frees its call and leaves the others as they are.
Kept ==
    \/ request' = request
    \/ \E q \in Requests : request' = [request EXCEPT ![q] = Idle]

LEMMA KeptRequests ==
    ASSUME IInv, Kept,
           \A o \in Requests : request'[o] = request[o] => RequestFits(request[o])'
    PROVE  request' \in [Requests -> Request] /\ RequestsFit' /\ LocksExclude'
<1>1. /\ request' \in [Requests -> Request]
      /\ \A o \in Requests : request'[o] = request[o] \/ request'[o] = Idle
  BY IdleRequest DEF Kept, IInv, TypeOK
<1>2. LocksExclude'
  BY <1>1, IdleRequest DEF IInv, LocksExclude, Locks
<1>3. RequestsFit'
  <2>1. ASSUME NEW o \in Requests, request'[o] = Idle  PROVE RequestFits(request[o])'
    BY <2>1 DEF RequestFits, Idle, Revokes
  <2> QED  BY <1>1, <2>1 DEF RequestsFit
<1> QED  BY <1>1, <1>2, <1>3

\* Tokens and access stay as they are.
LEMMA EmailStep ==
    ASSUME IInv, Kept,
           UNCHANGED <<token, revokedAccess, acked, byAdmin, closed, stray>>,
           account' \in [Users -> AccountRow],
           challenge' \in [Challenges -> ChallengeRow],
           announced' \in [Users -> Nat],
           \A u \in Users : account'[u].access = account[u].access /\ account'[u].at = account[u].at,
           \A h \in Challenges : challenge[h].user # None => challenge'[h].user = challenge[h].user,
           \A o \in Requests : request'[o] = request[o] /\ request[o].op = "verify" =>
               account'[request[o].user].verified = account[request[o].user].verified,
           EmailInv'
    PROVE  IInv'
<1> USE AccountsAssumption
<1>1. ASSUME NEW o \in Requests, request'[o] = request[o]  PROVE RequestFits(request[o])'
  <2> DEFINE r == request[o]
  <2>1. RequestFits(r) /\ r \in Request
    BY DEF IInv, RequestsFit, TypeOK
  <2>2. r.op = "verify" => r.verified = account'[r.user].verified
    BY <1>1, <2>1 DEF RequestFits
  <2>3. RequestFits(r)'
    BY <1>1, <2>1, <2>2 DEF RequestFits, Live, Unrevoked, Issued, Outdated, Revokes
  <2> QED  BY <2>3
<1>2. request' \in [Requests -> Request] /\ RequestsFit' /\ LocksExclude'
  BY <1>1, KeptRequests
<1>3. TypeOK'
  BY <1>2 DEF IInv, TypeOK
<1>4. AccessInv'
  BY DEF IInv, AccessInv
<1>5. TokenInv'
  <2>1. FamiliesOpened' /\ OneLiveTokenPerFamily' /\ ClosedFamilyIsDead'
    BY DEF IInv, TokenInv, FamiliesOpened, OneLiveTokenPerFamily, ClosedFamilyIsDead, Live,
       Unrevoked, Issued
  <2>2. NoAccessNoSession'
    BY DEF IInv, TypeOK, TokenRow, TokenInv, NoAccessNoSession, Live, Unrevoked, Issued
  <2> QED  BY <2>1, <2>2 DEF TokenInv
<1> QED  BY <1>2, <1>3, <1>4, <1>5 DEF IInv

\* Rows that change in one place.
LEMMA AccountRows ==
    ASSUME NEW a \in AccountRow
    PROVE  /\ LET b == [a EXCEPT !.exists = TRUE]
              IN b \in AccountRow /\ b.verified = a.verified /\ b.access = a.access /\ b.at = a.at
           /\ LET b == [a EXCEPT !.verified = TRUE]
              IN b \in AccountRow /\ b.exists = a.exists /\ b.access = a.access /\ b.at = a.at /\ b.verified
BY DEF AccountRow

LEMMA ChallengeRows ==
    ASSUME NEW c \in ChallengeRow, NEW u \in Users
    PROVE  /\ LET d == [c EXCEPT !.user = u]
              IN d \in ChallengeRow /\ d.user = u /\ d.consumed = c.consumed
           /\ LET d == [c EXCEPT !.consumed = TRUE]
              IN d \in ChallengeRow /\ d.user = c.user /\ d.consumed
BY DEF ChallengeRow

LEMMA TokenRows ==
    ASSUME NEW t \in TokenRow
    PROVE  /\ LET b == [t EXCEPT !.used = TRUE]
              IN b \in TokenRow /\ b.user = t.user /\ b.family = t.family /\ b.revoked = t.revoked /\ b.used
           /\ LET b == [t EXCEPT !.revoked = TRUE]
              IN b \in TokenRow /\ b.user = t.user /\ b.family = t.family /\ b.used = t.used /\ b.revoked
BY DEF TokenRow

LEMMA EmailCommits ==
    ASSUME IInv,
           \/ \E u \in Users, h \in Challenges : Register(u, h)
           \/ \E q \in Requests : VerifyCommit(q)
           \/ \E q \in Requests, h \in Challenges : ResendCommit(q, h)
    PROVE  IInv'
<1> USE AccountsAssumption
<1>0. /\ account \in [Users -> AccountRow]
      /\ challenge \in [Challenges -> ChallengeRow]
      /\ announced \in [Users -> Nat]
      /\ \A q \in Requests : request[q] \in Request /\ RequestFits(request[q])
      /\ VerifiedAnnouncedOnce /\ UnverifiedHasALink /\ FreshLinks
  BY DEF IInv, TypeOK, RequestsFit, EmailInv
<1>1. ASSUME NEW u \in Users, NEW h \in Challenges, Register(u, h)  PROVE IInv'
  <2>1. /\ challenge[h].user = None /\ ~challenge[h].consumed
        /\ challenge' = [challenge EXCEPT ![h].user = u]
        /\ account' = [account EXCEPT ![u].exists = TRUE]
        /\ UNCHANGED <<announced, request, token, revokedAccess, acked, byAdmin, closed, stray>>
    BY <1>0, <1>1 DEF Register, FreshLinks
  <2>2. /\ account' \in [Users -> AccountRow]
        /\ \A v \in Users : /\ account'[v].access = account[v].access /\ account'[v].at = account[v].at
                            /\ account'[v].verified = account[v].verified
                            /\ v # u => account'[v] = account[v]
    <3> DEFINE b == [account[u] EXCEPT !.exists = TRUE]
    <3>1. /\ b \in AccountRow /\ b.access = account[u].access /\ b.at = account[u].at
          /\ b.verified = account[u].verified
      BY <1>0, AccountRows
    <3>2. account' = [account EXCEPT ![u] = b]
      BY <1>0, <2>1
    <3> HIDE DEF b
    <3> QED  BY <1>0, <3>1, <3>2
  <2>3. /\ challenge' \in [Challenges -> ChallengeRow]
        /\ challenge'[h].user = u /\ challenge'[h].consumed = challenge[h].consumed
        /\ \A c \in Challenges : c # h => challenge'[c] = challenge[c]
    BY <1>0, <2>1 DEF ChallengeRow
  <2>4. \A o \in Requests : request[o].op = "verify" =>
               account'[request[o].user].verified = account[request[o].user].verified
    BY <1>0, <2>2 DEF RequestFits
  <2>5. VerifiedAnnouncedOnce'
    BY <1>0, <2>1, <2>2 DEF VerifiedAnnouncedOnce
  <2>6. UnverifiedHasALink'
    <3> SUFFICES ASSUME NEW v \in Users, account'[v].exists, ~account'[v].verified
                 PROVE  \E c \in Challenges : challenge'[c].user = v /\ ~challenge'[c].consumed
      BY DEF UnverifiedHasALink, Links
    <3>1. CASE v = u
      BY <2>1, <2>3, <3>1
    <3>2. CASE v # u
      <4>1. PICK c \in Challenges : challenge[c].user = v /\ ~challenge[c].consumed
        BY <1>0, <2>2, <3>2 DEF UnverifiedHasALink, Links
      <4> QED  BY <2>1, <2>3, <4>1
    <3> QED  BY <3>1, <3>2
  <2>7. FreshLinks'
    BY <1>0, <2>1, <2>3 DEF FreshLinks
  <2> QED  BY <1>0, <2>1, <2>2, <2>3, <2>4, <2>5, <2>6, <2>7, EmailStep DEF Kept, EmailInv
<1>2. ASSUME NEW q \in Requests, VerifyCommit(q)  PROVE IInv'
  <2> DEFINE u == request[q].user
             h == request[q].row
  <2>1. /\ u \in Users /\ h \in Challenges
        /\ request[q].op = "verify" /\ request[q].verified = account[u].verified
    BY <1>0, <1>2 DEF VerifyCommit, RequestFits
  <2>2. /\ challenge' = [challenge EXCEPT ![h].consumed = TRUE]
        /\ account' = [account EXCEPT ![u].verified = TRUE]
        /\ announced' = IF account[u].verified THEN announced ELSE [announced EXCEPT ![u] = @ + 1]
        /\ request' = [request EXCEPT ![q] = Idle]
        /\ UNCHANGED <<token, revokedAccess, acked, byAdmin, closed, stray>>
    BY <1>2, <2>1 DEF VerifyCommit, Return
  <2> HIDE DEF u, h
  <2>3. /\ account' \in [Users -> AccountRow] /\ challenge' \in [Challenges -> ChallengeRow]
        /\ announced' \in [Users -> Nat]
        /\ \A v \in Users : /\ account'[v].access = account[v].access /\ account'[v].at = account[v].at
                            /\ account'[v].exists = account[v].exists
                            /\ v # u => account'[v] = account[v] /\ announced'[v] = announced[v]
        /\ account'[u].verified
        /\ \A c \in Challenges : /\ challenge'[c].user = challenge[c].user
                                 /\ c # h => challenge'[c] = challenge[c]
        /\ challenge[h].user = u
    <3>1. challenge[h].user = u
      BY <1>0, <2>1 DEF RequestFits, u, h
    <3>2. challenge' \in [Challenges -> ChallengeRow]
          /\ \A c \in Challenges : challenge'[c].user = challenge[c].user
                                  /\ (c # h => challenge'[c] = challenge[c])
      <4> DEFINE d == [challenge[h] EXCEPT !.consumed = TRUE]
      <4>1. d \in ChallengeRow /\ d.user = challenge[h].user
        BY <1>0, <2>1, ChallengeRows
      <4>2. challenge' = [challenge EXCEPT ![h] = d]
        BY <1>0, <2>2
      <4> HIDE DEF d
      <4> QED  BY <1>0, <2>1, <4>1, <4>2
    <3>3. account' \in [Users -> AccountRow] /\ account'[u].verified
          /\ \A v \in Users : /\ account'[v].access = account[v].access /\ account'[v].at = account[v].at
                              /\ account'[v].exists = account[v].exists
                              /\ v # u => account'[v] = account[v]
      <4> DEFINE b == [account[u] EXCEPT !.verified = TRUE]
      <4>1. /\ b \in AccountRow /\ b.access = account[u].access /\ b.at = account[u].at
            /\ b.exists = account[u].exists /\ b.verified
        BY <1>0, <2>1, AccountRows
      <4>2. account' = [account EXCEPT ![u] = b]
        BY <1>0, <2>2
      <4> HIDE DEF b
      <4> QED  BY <1>0, <2>1, <4>1, <4>2
    <3>4. announced' \in [Users -> Nat] /\ \A v \in Users : v # u => announced'[v] = announced[v]
      BY <1>0, <2>1, <2>2
    <3> QED  BY <3>1, <3>2, <3>3, <3>4
  <2>4. \A o \in Requests : request'[o] = request[o] /\ request[o].op = "verify" =>
               account'[request[o].user].verified = account[request[o].user].verified
    <3> SUFFICES ASSUME NEW o \in Requests, request'[o] = request[o], request[o].op = "verify"
                 PROVE  account'[request[o].user].verified = account[request[o].user].verified
      OBVIOUS
    <3>1. o # q
      BY <2>1, <2>2, IdleRequest DEF IInv, TypeOK
    <3>2. request[o].user # u /\ request[o].user \in Users
      BY <1>0, <2>1, <3>1 DEF IInv, LocksExclude, Locks, RequestFits, u
    <3> QED  BY <2>3, <3>2
  <2>5. VerifiedAnnouncedOnce'
    BY <1>0, <2>1, <2>2, <2>3 DEF VerifiedAnnouncedOnce
  <2>6. UnverifiedHasALink'
    <3> SUFFICES ASSUME NEW v \in Users, account'[v].exists, ~account'[v].verified
                 PROVE  \E c \in Challenges : challenge'[c].user = v /\ ~challenge'[c].consumed
      BY DEF UnverifiedHasALink, Links
    <3>1. PICK c \in Challenges : challenge[c].user = v /\ ~challenge[c].consumed
      BY <1>0, <2>3 DEF UnverifiedHasALink, Links
    <3> QED  BY <2>3, <3>1
  <2>7. FreshLinks'
    BY <1>0, <2>1, <2>3 DEF FreshLinks
  <2> QED  BY <2>2, <2>3, <2>4, <2>5, <2>6, <2>7, EmailStep DEF Kept, EmailInv
<1>3. ASSUME NEW q \in Requests, NEW h \in Challenges, ResendCommit(q, h)  PROVE IInv'
  <2> DEFINE u == request[q].user
             S == request[q].seen
  <2>1. /\ u \in Users /\ \A c \in S : c \in Challenges => challenge[c].user = u
    BY <1>0, <1>3 DEF ResendCommit, RequestFits
  <2>2. /\ challenge[h].user = None
        /\ challenge' = [g \in Challenges |->
              IF g = h THEN [challenge[g] EXCEPT !.user = u]
              ELSE IF g \in S THEN [challenge[g] EXCEPT !.consumed = TRUE] ELSE challenge[g]]
        /\ request' = [request EXCEPT ![q] = Idle]
        /\ UNCHANGED <<account, announced, token, revokedAccess, acked, byAdmin, closed, stray>>
    BY <1>3 DEF ResendCommit, Return
  <2> HIDE DEF u, S
  <2>3. /\ challenge' \in [Challenges -> ChallengeRow]
        /\ challenge'[h].user = u /\ challenge'[h].consumed = challenge[h].consumed
        /\ \A c \in Challenges : c # h => challenge'[c].user = challenge[c].user
        /\ \A c \in Challenges : challenge[c].user \notin {u, None} => challenge'[c] = challenge[c]
    <3> DEFINE G(g) == IF g = h THEN [challenge[g] EXCEPT !.user = u]
                       ELSE IF g \in S THEN [challenge[g] EXCEPT !.consumed = TRUE] ELSE challenge[g]
    <3>1. ASSUME NEW g \in Challenges
          PROVE  /\ G(g) \in ChallengeRow
                 /\ g = h => G(g).user = u /\ G(g).consumed = challenge[g].consumed
                 /\ g # h => G(g).user = challenge[g].user
                 /\ g # h /\ g \notin S => G(g) = challenge[g]
      <4>1. challenge[g] \in ChallengeRow
        BY <1>0
      <4>2. CASE g = h
        BY <2>1, <4>1, <4>2, ChallengeRows
      <4>3. CASE g # h
        BY <2>1, <4>1, <4>3, ChallengeRows
      <4> QED  BY <4>2, <4>3
    <3>2. challenge' = [g \in Challenges |-> G(g)]
      BY <2>2
    <3>3. \A c \in Challenges : challenge[c].user \notin {u, None} => c # h /\ c \notin S
      BY <2>1, <2>2
    <3> HIDE DEF G
    <3> QED  BY <3>1, <3>2, <3>3
  <2>4. VerifiedAnnouncedOnce'
    BY <1>0, <2>2 DEF VerifiedAnnouncedOnce
  <2>5. UnverifiedHasALink'
    <3> SUFFICES ASSUME NEW v \in Users, account[v].exists, ~account[v].verified
                 PROVE  \E c \in Challenges : challenge'[c].user = v /\ ~challenge'[c].consumed
      BY <2>2 DEF UnverifiedHasALink, Links
    <3>1. PICK c \in Challenges : challenge[c].user = v /\ ~challenge[c].consumed
      BY <1>0 DEF UnverifiedHasALink, Links
    <3>2. CASE v = u
      BY <1>0, <2>2, <2>3, <3>2 DEF FreshLinks
    <3>3. CASE v # u
      BY <2>3, <3>1, <3>3
    <3> QED  BY <3>2, <3>3
  <2>6. FreshLinks'
    BY <1>0, <2>1, <2>2, <2>3 DEF FreshLinks
  <2> QED  BY <1>0, <2>1, <2>2, <2>3, <2>4, <2>5, <2>6, EmailStep DEF Kept, EmailInv
<1> QED  BY <1>1, <1>2, <1>3

\* A new token, inserted beside others that stay as they are or are used up.
LEMMA InsertStep ==
    ASSUME IInv, Kept, NEW n \in Tokens, NEW u \in Users, NEW f \in Tokens,
           UNCHANGED <<account, challenge, revokedAccess, announced, acked, byAdmin, closed>>,
           ~Issued(n), f = n \/ Issued(f),
           token' \in [Tokens -> TokenRow], token'[n].user = u, token'[n].family = f,
           \A x \in Tokens \ {n} :
               token'[x].user = token[x].user /\ token'[x].family = token[x].family,
           \A x \in Tokens \ {n} : Live(x)' => Live(x) /\ token[x].family # f,
           \A o \in Requests : request'[o] = request[o] /\ request[o].op = "rotate" =>
                                   Live(request[o].row)',
           stray \subseteq stray', stray' \subseteq Tokens,
           \/ n \in stray'
           \/ /\ account[u].access = "active"
              /\ f \notin closed
              /\ \A o \in Requests : ~SweepsAccount(o, u) /\ ~SweepsFamily(o, f)
    PROVE  IInv'
<1> USE AccountsAssumption
<1>0. \A x \in Tokens : Issued(x)' <=> Issued(x) \/ x = n
  BY DEF Issued
<1>1. ASSUME NEW o \in Requests, request'[o] = request[o]  PROVE RequestFits(request[o])'
  <2>1. PICK r \in Request : r = request[o] /\ RequestFits(r)
    BY DEF IInv, RequestsFit, TypeOK
  <2>2. r.op = "rotate" => r.row \in Tokens /\ Live(r.row)' /\ token'[r.row].user = r.user
    <3> SUFFICES ASSUME r.op = "rotate"
                 PROVE  r.row \in Tokens /\ Live(r.row)' /\ token'[r.row].user = r.user
      OBVIOUS
    <3>1. r.row \in Tokens /\ Issued(r.row) /\ token[r.row].user = r.user
      BY <2>1 DEF RequestFits, Live, Unrevoked
    <3>2. Live(r.row)'
      BY <1>1, <2>1 DEF Live, Unrevoked, Issued
    <3> QED  BY <3>1, <3>2
  <2>3. r.op \in {"reuse", "logout"} =>
          /\ r.row \in Tokens /\ Issued(r.row)'
          /\ \A t \in Tokens : Live(t)' /\ token'[t].family = token'[r.row].family =>
                                   t \in r.seen \cup stray'
    <3> SUFFICES ASSUME r.op \in {"reuse", "logout"}
                 PROVE  /\ r.row \in Tokens /\ Issued(r.row)'
                        /\ \A t \in Tokens : Live(t)' /\ token'[t].family = token'[r.row].family =>
                                   t \in r.seen \cup stray'
      OBVIOUS
    <3>1. r.row \in Tokens /\ Issued(r.row) /\ r.row # n
      BY <2>1 DEF RequestFits
    <3>2. ASSUME NEW t \in Tokens, Live(t)', token'[t].family = token'[r.row].family
          PROVE  t \in r.seen \cup stray'
      <4>1. CASE t = n
        BY <2>1, <3>1, <3>2, <4>1 DEF SweepsFamily
      <4>2. CASE t # n
        BY <2>1, <3>1, <3>2, <4>2 DEF RequestFits
      <4> QED  BY <4>1, <4>2
    <3>3. Issued(r.row)'
      BY <1>0, <3>1
    <3> QED  BY <3>1, <3>2, <3>3
  <2>4. Revokes(r) => \A t \in Tokens : Live(t)' /\ token'[t].user = r.user => t \in r.seen \cup stray'
    <3> SUFFICES ASSUME Revokes(r), NEW t \in Tokens, Live(t)', token'[t].user = r.user
                 PROVE  t \in r.seen \cup stray'
      OBVIOUS
    <3>1. CASE t = n
      BY <2>1, <3>1 DEF SweepsAccount, Revokes
    <3>2. CASE t # n
      BY <2>1, <3>2 DEF RequestFits
    <3> QED  BY <3>1, <3>2
  <2>5. RequestFits(r)'
    BY <2>1, <2>2, <2>3, <2>4 DEF RequestFits, Outdated, Revokes
  <2> QED  BY <1>1, <2>1, <2>5 DEF RequestFits, Revokes
<1>2. request' \in [Requests -> Request] /\ RequestsFit' /\ LocksExclude'
  BY <1>1, KeptRequests
<1>3. TypeOK'
  BY <1>2 DEF IInv, TypeOK
<1>4. AccessInv' /\ EmailInv'
  BY DEF IInv, AccessInv, EmailInv, VerifiedAnnouncedOnce, UnverifiedHasALink, FreshLinks, Links
<1>5. FamiliesOpened'
  <2>1. ASSUME NEW x \in Tokens, Issued(x)'
        PROVE  token'[x].family \in Tokens /\ Issued(token[x].family)'
    <3>1. PICK g \in Tokens : g = token'[x].family /\ (Issued(g) \/ g = n)
      <4>1. CASE x = n
        BY <4>1
      <4>2. CASE x # n
        BY <1>0, <2>1, <4>2 DEF IInv, TokenInv, FamiliesOpened
      <4> QED  BY <4>1, <4>2
    <3>2. Issued(g)'
      BY <1>0, <3>1
    <3> QED  BY <3>1, <3>2 DEF Issued
  <2>2. ASSUME NEW g \in closed  PROVE Issued(g)'
    BY <1>0 DEF IInv, TypeOK, TokenInv, FamiliesOpened
  <2>3. closed' = closed
    OBVIOUS
  <2> QED  BY <2>1, <2>2, <2>3 DEF FamiliesOpened
<1>6. OneLiveTokenPerFamily'
  <2> SUFFICES ASSUME NEW x \in Tokens, NEW y \in Tokens, Live(x)', Live(y)',
                      token'[x].family = token'[y].family
               PROVE  x = y
    BY DEF OneLiveTokenPerFamily
  <2>1. CASE x = n \/ y = n
    BY <2>1
  <2>2. CASE x # n /\ y # n
    BY <2>2 DEF IInv, TokenInv, OneLiveTokenPerFamily
  <2> QED  BY <2>1, <2>2
<1>7. ClosedFamilyIsDead'
  BY DEF IInv, TokenInv, ClosedFamilyIsDead
<1>8. NoAccessNoSession'
  BY DEF IInv, TokenInv, NoAccessNoSession
<1> QED  BY <1>2, <1>3, <1>4, <1>5, <1>6, <1>7, <1>8 DEF IInv, TokenInv

LEMMA Inserts ==
    ASSUME IInv, NEW q \in Requests, NEW n \in Tokens, LoginCommit(q, n) \/ RotateCommit(q, n)
    PROVE  IInv'
<1> USE AccountsAssumption
<1> DEFINE u == request[q].user
<1>0. /\ token \in [Tokens -> TokenRow] /\ stray \subseteq Tokens /\ u \in Users
      /\ RequestFits(request[q]) /\ ~Issued(n)
      /\ FamiliesOpened
  BY DEF IInv, TypeOK, RequestsFit, TokenInv, LoginCommit, RotateCommit, RequestFits
<1>1. ASSUME NEW f \in Tokens  PROVE NewToken(n, u, f) \in TokenRow
  BY <1>0 DEF NewToken, TokenRow
<1>2. CASE LoginCommit(q, n)
  <2>1. /\ token' = [token EXCEPT ![n] = NewToken(n, u, n)]
        /\ stray \subseteq stray' /\ stray' \subseteq Tokens
        /\ n \in stray' \/ (account[u].access = "active" /\ \A o \in Requests : ~SweepsAccount(o, u))
        /\ request' = [request EXCEPT ![q] = Idle]
        /\ UNCHANGED <<account, challenge, revokedAccess, announced, acked, byAdmin, closed>>
    BY <1>0, <1>2 DEF LoginCommit, Return
  <2>2. /\ token' \in [Tokens -> TokenRow] /\ token'[n].user = u /\ token'[n].family = n
        /\ \A x \in Tokens \ {n} : token'[x] = token[x]
    BY <1>0, <1>1, <2>1 DEF NewToken
  <2>3. \A x \in Tokens \ {n} : Live(x)' => Live(x) /\ token[x].family # n
    BY <1>0, <2>2 DEF Live, Unrevoked, Issued, FamiliesOpened
  <2>4. \A o \in Requests : request'[o] = request[o] /\ request[o].op = "rotate" =>
                                   Live(request[o].row)'
    <3>1. \A o \in Requests : request[o].op = "rotate" =>
              request[o].row \in Tokens \ {n} /\ Live(request[o].row)
      BY <1>0 DEF IInv, RequestsFit, RequestFits, Live, Unrevoked
    <3> QED  BY <2>2, <3>1 DEF Live, Unrevoked, Issued
  <2>5. n \notin closed /\ \A o \in Requests : ~SweepsFamily(o, n)
    BY <1>0 DEF FamiliesOpened, SweepsFamily, IInv, RequestsFit, RequestFits
  <2> QED  BY <1>0, <2>1, <2>2, <2>3, <2>4, <2>5, InsertStep DEF Kept
<1>3. CASE RotateCommit(q, n)
  <2> DEFINE t == request[q].row
             f == token[t].family
  <2>1. /\ t \in Tokens /\ Live(t) /\ token[t].user = u /\ f \in Tokens /\ Issued(f) /\ t # n
    BY <1>0, <1>3 DEF RotateCommit, RequestFits, Live, Unrevoked, FamiliesOpened
  <2>2. /\ token' = [[token EXCEPT ![t].used = TRUE] EXCEPT ![n] = NewToken(n, u, f)]
        /\ stray \subseteq stray' /\ stray' \subseteq Tokens
        /\ n \in stray' \/ (t \notin stray /\ \A o \in Requests : ~SweepsAccount(o, u) /\ ~SweepsFamily(o, f))
        /\ request' = [request EXCEPT ![q] = Idle]
        /\ UNCHANGED <<account, challenge, revokedAccess, announced, acked, byAdmin, closed>>
    BY <1>0, <1>3 DEF RotateCommit, Return
  <2>3. t \notin stray => account[u].access = "active" /\ f \notin closed
    BY <2>1 DEF IInv, TokenInv, ClosedFamilyIsDead, NoAccessNoSession
  <2>4. /\ token' \in [Tokens -> TokenRow] /\ token'[n].user = u /\ token'[n].family = f
        /\ \A x \in Tokens \ {n} : x # t => token'[x] = token[x]
        /\ token'[t].user = token[t].user /\ token'[t].family = f /\ token'[t].used
    <3> DEFINE b == [token[t] EXCEPT !.used = TRUE]
    <3>1. b \in TokenRow /\ b.user = token[t].user /\ b.family = f /\ b.used
      BY <1>0, <2>1, TokenRows
    <3>2. token' = [[token EXCEPT ![t] = b] EXCEPT ![n] = NewToken(n, u, f)]
      BY <1>0, <2>1, <2>2
    <3>3. NewToken(n, u, f).user = u /\ NewToken(n, u, f).family = f
      BY DEF NewToken
    <3> HIDE DEF b, t, f, u
    <3> QED  BY <1>0, <1>1, <2>1, <3>1, <3>2, <3>3
  <2>5. \A x \in Tokens \ {n} : Live(x)' => Live(x) /\ token[x].family # f
    <3> SUFFICES ASSUME NEW x \in Tokens \ {n}, Live(x)'  PROVE Live(x) /\ token[x].family # f
      OBVIOUS
    <3>1. x # t
      BY <2>4 DEF Live
    <3>2. Live(x)
      BY <2>4, <3>1 DEF Live, Unrevoked, Issued
    <3> QED  BY <2>1, <3>1, <3>2 DEF IInv, TokenInv, OneLiveTokenPerFamily
  <2>6. \A o \in Requests : request'[o] = request[o] /\ request[o].op = "rotate" =>
                                   Live(request[o].row)'
    <3> SUFFICES ASSUME NEW o \in Requests, request'[o] = request[o], request[o].op = "rotate"
                 PROVE  Live(request[o].row)'
      OBVIOUS
    <3>1. o # q
      BY <1>3, <2>2, IdleRequest DEF IInv, TypeOK, RotateCommit
    <3>2. request[o].row \in Tokens /\ Live(request[o].row) /\ request[o].row # n
      BY <1>0 DEF IInv, RequestsFit, RequestFits, Live, Unrevoked
    <3>3. request[o].row # t
      BY <2>1, <3>1 DEF IInv, LocksExclude
    <3> QED  BY <2>4, <3>2, <3>3 DEF Live, Unrevoked, Issued
  <2>7. \A x \in Tokens \ {n} :
               token'[x].user = token[x].user /\ token'[x].family = token[x].family
    BY <2>1, <2>4
  <2>8. Kept
    BY <2>2 DEF Kept
  <2>9. \/ n \in stray'
        \/ /\ account[u].access = "active"
           /\ f \notin closed
           /\ \A o \in Requests : ~SweepsAccount(o, u) /\ ~SweepsFamily(o, f)
    BY <2>2, <2>3
  <2>10. f = n \/ Issued(f)
    BY <2>1
  <2>11. /\ token' \in [Tokens -> TokenRow] /\ token'[n].user = u /\ token'[n].family = f
         /\ f \in Tokens /\ u \in Users /\ ~Issued(n)
         /\ stray \subseteq stray' /\ stray' \subseteq Tokens
         /\ UNCHANGED <<account, challenge, revokedAccess, announced, acked, byAdmin, closed>>
    BY <1>0, <2>1, <2>2, <2>4
  <2> HIDE DEF t, f, u
  <2> QED  BY <2>5, <2>6, <2>7, <2>8, <2>9, <2>10, <2>11, InsertStep
<1> QED  BY <1>2, <1>3

\* A revocation: what is live of the tokens afterwards was live and not seen.
LEMMA RevokeStep ==
    ASSUME IInv, Kept, NEW S, Revoke(S),
           UNCHANGED <<challenge, announced, stray>>,
           account' \in [Users -> AccountRow],
           \A u \in Users : /\ account'[u].exists = account[u].exists
                            /\ account'[u].verified = account[u].verified,
           revokedAccess' \subseteq Tokens, acked' \subseteq Events, byAdmin' \subseteq Users,
           closed' \subseteq Tokens, \A f \in closed' : Issued(f),
           \A o \in Requests : request'[o] = request[o] /\ request[o].op = "rotate" =>
                                   request[o].row \notin S,
           \A o \in Requests : request'[o] = request[o] /\ request[o].op = "event" =>
                                   account'[request[o].user] = account[request[o].user],
           \A t \in Tokens : Live(t) /\ t \notin S /\ token[t].family \in closed' => t \in stray,
           \A t \in Tokens : Live(t) /\ t \notin S /\ account'[token[t].user].access # "active" =>
                                   t \in stray,
           AccessInv'
    PROVE  IInv'
<1> USE AccountsAssumption
<1>1. /\ token' \in [Tokens -> TokenRow]
      /\ \A t \in Tokens : token'[t].user = token[t].user /\ token'[t].family = token[t].family
      /\ \A t \in Tokens : t \notin S => token'[t] = token[t]
      /\ \A t \in Tokens : t \in S => token'[t].revoked
      /\ \A t \in Tokens : token[t] \in TokenRow /\ token'[t].used = token[t].used
  <2> DEFINE G(t) == IF t \in S THEN [token[t] EXCEPT !.revoked = TRUE] ELSE token[t]
  <2>1. ASSUME NEW t \in Tokens
        PROVE  /\ G(t) \in TokenRow /\ G(t).user = token[t].user /\ G(t).family = token[t].family
               /\ G(t).used = token[t].used
               /\ t \notin S => G(t) = token[t]
               /\ t \in S => G(t).revoked
               /\ token[t] \in TokenRow
    <3>1. token[t] \in TokenRow
      BY DEF IInv, TypeOK
    <3>2. CASE t \in S
      BY <3>1, <3>2, TokenRows
    <3>3. CASE t \notin S
      BY <3>1, <3>3
    <3> QED  BY <3>2, <3>3
  <2>2. token' = [t \in Tokens |-> G(t)]
    BY DEF Revoke
  <2> HIDE DEF G
  <2> QED  BY <2>1, <2>2
<1>2. ASSUME NEW t \in Tokens
      PROVE  (Issued(t)' <=> Issued(t)) /\ (Live(t)' <=> Live(t) /\ t \notin S)
  <2>1. Issued(t)' <=> Issued(t)
    BY <1>1 DEF Issued
  <2>2. CASE t \in S
    <3>1. token'[t].revoked
      BY <1>1, <2>2
    <3>2. ~Live(t)'
      BY <3>1 DEF Live, Unrevoked
    <3> QED  BY <2>1, <2>2, <3>2
  <2>3. CASE t \notin S
    <3>1. token'[t] = token[t]
      BY <1>1, <2>3
    <3>2. Live(t)' <=> Live(t)
      BY <3>1 DEF Live, Unrevoked, Issued
    <3> QED  BY <2>1, <2>3, <3>2
  <2> QED  BY <2>1, <2>2, <2>3
<1>3. ASSUME NEW o \in Requests, request'[o] = request[o]  PROVE RequestFits(request[o])'
  <2>1. PICK r \in Request : r = request[o] /\ RequestFits(r)
    BY DEF IInv, RequestsFit, TypeOK
  <2>2. r.op = "rotate" => r.row \in Tokens /\ Live(r.row)' /\ token'[r.row].user = r.user
    <3> SUFFICES ASSUME r.op = "rotate"
                 PROVE  r.row \in Tokens /\ Live(r.row)' /\ token'[r.row].user = r.user
      OBVIOUS
    <3>1. r.row \in Tokens /\ Live(r.row) /\ token[r.row].user = r.user
      BY <2>1 DEF RequestFits
    <3>2. r.row \notin S
      BY <1>3, <2>1
    <3> QED  BY <1>1, <1>2, <3>1, <3>2
  <2>3. r.op \in {"reuse", "logout"} =>
          /\ r.row \in Tokens /\ Issued(r.row)'
          /\ \A t \in Tokens : Live(t)' /\ token'[t].family = token'[r.row].family =>
                                   t \in r.seen \cup stray'
    BY <1>1, <1>2, <2>1 DEF RequestFits
  <2>4. Revokes(r) => \A t \in Tokens : Live(t)' /\ token'[t].user = r.user => t \in r.seen \cup stray'
    BY <1>1, <1>2, <2>1 DEF RequestFits
  <2>5. r.op = "event" => ~Outdated(r.event)'
    <3> SUFFICES ASSUME r.op = "event"  PROVE ~Outdated(r.event)'
      OBVIOUS
    <3>1. UserOf[r.event] = r.user /\ ~Outdated(r.event) /\ account'[r.user] = account[r.user]
      BY <1>3, <2>1 DEF RequestFits
    <3> QED  BY <3>1 DEF Outdated
  <2>6. r.op = "verify" => account'[r.user].verified = account[r.user].verified
    BY <2>1 DEF RequestFits
  <2>7. RequestFits(r)'
    BY <2>1, <2>2, <2>3, <2>4, <2>5, <2>6 DEF RequestFits, Revokes
  <2> QED  BY <1>3, <2>1, <2>7 DEF RequestFits, Revokes
<1>4. request' \in [Requests -> Request] /\ RequestsFit' /\ LocksExclude'
  BY <1>3, KeptRequests
<1>5. TypeOK'
  BY <1>1, <1>4 DEF IInv, TypeOK
<1>6. EmailInv'
  BY DEF IInv, EmailInv, VerifiedAnnouncedOnce, UnverifiedHasALink, FreshLinks, Links
<1>7. FamiliesOpened'
  <2>1. ASSUME NEW t \in Tokens, Issued(t)'
        PROVE  token'[t].family \in Tokens /\ Issued(token[t].family)'
    <3>1. PICK g \in Tokens : g = token'[t].family /\ Issued(g)
      BY <1>1, <1>2, <2>1 DEF IInv, TokenInv, FamiliesOpened
    <3>2. Issued(g)'
      BY <1>2, <3>1
    <3> QED  BY <3>1, <3>2 DEF Issued
  <2>2. ASSUME NEW g \in closed'  PROVE Issued(g)'
    BY <1>2
  <2> QED  BY <2>1, <2>2 DEF FamiliesOpened
<1>8. OneLiveTokenPerFamily'
  BY <1>1, <1>2 DEF IInv, TokenInv, OneLiveTokenPerFamily
<1>9. ClosedFamilyIsDead' /\ NoAccessNoSession'
  BY <1>1, <1>2 DEF ClosedFamilyIsDead, NoAccessNoSession
<1> QED  BY <1>4, <1>5, <1>6, <1>7, <1>8, <1>9 DEF IInv, TokenInv

\* Revocations of one token and of a family.
LEMMA FamilyRevocations ==
    ASSUME IInv,
           \/ \E t \in Tokens : RotateExpired(t)
           \/ \E q \in Requests : ReuseCommit(q) \/ LogoutCommit(q)
    PROVE  IInv'
<1> USE AccountsAssumption
<1>0. /\ account \in [Users -> AccountRow] /\ revokedAccess \subseteq Tokens /\ closed \subseteq Tokens
      /\ acked \subseteq Events /\ byAdmin \subseteq Users
      /\ \A o \in Requests : request[o] \in Request /\ RequestFits(request[o])
      /\ FamiliesOpened /\ ClosedFamilyIsDead /\ NoAccessNoSession /\ AccessInv
  BY DEF IInv, TypeOK, RequestsFit, TokenInv
<1>1. ASSUME NEW t \in Tokens, RotateExpired(t)  PROVE IInv'
  <2>1. /\ Revoke({t}) /\ Kept
        /\ UNCHANGED <<account, challenge, revokedAccess, announced, acked, byAdmin, closed, stray>>
        /\ \A o \in Requests : request[o].row # t
    BY <1>1 DEF RotateExpired, Kept, Locked
  <2>2. AccessInv'
    BY <1>0, <2>1 DEF AccessInv
  <2>3. /\ \A x \in Tokens : Live(x) /\ token[x].family \in closed' => x \in stray
        /\ \A x \in Tokens : Live(x) /\ account'[token[x].user].access # "active" => x \in stray
    BY <1>0, <2>1 DEF ClosedFamilyIsDead, NoAccessNoSession
  <2> QED  BY <1>0, <2>1, <2>2, <2>3, RevokeStep DEF FamiliesOpened
<1>2. ASSUME NEW q \in Requests, ReuseCommit(q) \/ LogoutCommit(q)  PROVE IInv'
  <2> DEFINE S == request[q].seen
             f == token[request[q].row].family
  <2>1. /\ Revoke(S) /\ ~MustWait(q) /\ closed' = closed \cup {f}
        /\ request' = [request EXCEPT ![q] = Idle]
        /\ UNCHANGED <<account, challenge, announced, acked, byAdmin, stray>>
        /\ revokedAccess' \subseteq revokedAccess \cup {request[q].access}
        /\ request[q].op \in {"reuse", "logout"}
        /\ request[q].op = "reuse" => revokedAccess' = revokedAccess
    BY <1>2 DEF ReuseCommit, LogoutCommit, Return
  <2>2. /\ request[q].row \in Tokens /\ Issued(request[q].row)
        /\ \A t \in Tokens : Live(t) /\ token[t].family = f => t \in S \cup stray
        /\ revokedAccess' \subseteq Tokens
    BY <1>0, <2>1 DEF RequestFits
  <2>3. f \in Tokens /\ Issued(f)
    BY <1>0, <2>2 DEF FamiliesOpened
  <2>4. \A o \in Requests : request'[o] = request[o] /\ request[o].op = "rotate" =>
                                   request[o].row \notin S
    <3>1. \A o \in Requests : request[o].op = "rotate" => o # q
      BY <2>1
    <3> QED  BY <2>1, <3>1 DEF MustWait
  <2>5. AccessInv'
    BY <1>0, <2>1 DEF AccessInv
  <2>6. Kept
    BY <2>1 DEF Kept
  <2>7. /\ \A x \in Tokens : Live(x) /\ x \notin S /\ token[x].family \in closed' => x \in stray
        /\ \A x \in Tokens : Live(x) /\ account'[token[x].user].access # "active" => x \in stray
    BY <1>0, <2>1, <2>2 DEF ClosedFamilyIsDead, NoAccessNoSession
  <2>8. closed' \subseteq Tokens /\ \A g \in closed' : Issued(g)
    BY <1>0, <2>1, <2>3 DEF FamiliesOpened
  <2> HIDE DEF S, f
  <2> QED  BY <1>0, <2>1, <2>2, <2>4, <2>5, <2>6, <2>7, <2>8, RevokeStep
<1> QED  BY <1>1, <1>2

\* Nothing later than the access was acknowledged, and the account is as the latest said.
LEMMA AccessCommits ==
    ASSUME IInv, NEW q \in Requests, DisableCommit(q) \/ EventCommit(q)
    PROVE  IInv'
<1> USE AccountsAssumption
<1> DEFINE u == request[q].user
           S == request[q].seen
<1>0. /\ account \in [Users -> AccountRow] /\ revokedAccess \subseteq Tokens /\ closed \subseteq Tokens
      /\ acked \subseteq Events /\ byAdmin \subseteq Users
      /\ \A o \in Requests : request[o] \in Request /\ RequestFits(request[o])
      /\ FamiliesOpened /\ ClosedFamilyIsDead /\ NoAccessNoSession /\ AccessInv
      /\ LocksExclude
  BY DEF IInv, TypeOK, RequestsFit, TokenInv
<1>1. /\ Revoke(S) /\ ~MustWait(q)
      /\ request' = [request EXCEPT ![q] = Idle]
      /\ UNCHANGED <<challenge, revokedAccess, announced, closed, stray>>
      /\ request[q].op \in {"disable", "event"}
      /\ u \in Users
  BY <1>0 DEF DisableCommit, EventCommit, Return, RequestFits
<1>2. \A o \in Requests : request'[o] = request[o] /\ request[o].op \in {"rotate", "event"} => o # q
  BY <1>1, IdleRequest DEF IInv, TypeOK
<1>3. \A o \in Requests : request'[o] = request[o] /\ request[o].op = "rotate" =>
                              request[o].row \notin S
  BY <1>1, <1>2 DEF MustWait
<1>4. \A o \in Requests : request'[o] = request[o] /\ request[o].op = "event" =>
                              request[o].user # u /\ request[o].user \in Users
  BY <1>0, <1>1, <1>2 DEF LocksExclude, Locks, RequestFits
<1>5. Kept
  BY <1>1 DEF Kept
<1>6. /\ \A x \in Tokens : Live(x) /\ token[x].family \in closed' => x \in stray
      /\ \A f \in closed' : Issued(f)
  BY <1>0, <1>1 DEF ClosedFamilyIsDead, FamiliesOpened
<1>7. ASSUME account' \in [Users -> AccountRow],
             \A v \in Users : /\ account'[v].exists = account[v].exists
                              /\ account'[v].verified = account[v].verified
                              /\ v # u => account'[v] = account[v],
             account'[u].access # "active" => Revokes(request[q]),
             acked' \subseteq Events, byAdmin' \subseteq Users, AccessInv'
      PROVE  IInv'
  <2>1. \A x \in Tokens : Live(x) /\ x \notin S /\ account'[token[x].user].access # "active" => x \in stray
    <3> SUFFICES ASSUME NEW x \in Tokens, Live(x), x \notin S, account'[token[x].user].access # "active"
                 PROVE  x \in stray
      OBVIOUS
    <3>1. CASE token[x].user = u
      BY <1>0, <1>7, <3>1 DEF RequestFits
    <3>2. CASE token[x].user # u
      <4>1. token[x].user \in Users
        BY DEF Live, Unrevoked, Issued, IInv, TypeOK, TokenRow
      <4> QED  BY <1>0, <1>7, <3>2, <4>1 DEF NoAccessNoSession
    <3> QED  BY <3>1, <3>2
  <2>2. \A o \in Requests : request'[o] = request[o] /\ request[o].op = "event" =>
                                account'[request[o].user] = account[request[o].user]
    BY <1>4, <1>7
  <2>3. revokedAccess' \subseteq Tokens /\ closed' \subseteq Tokens
    BY <1>0, <1>1
  <2> HIDE DEF u, S
  <2> QED  BY <1>1, <1>3, <1>5, <1>6, <1>7, <2>1, <2>2, <2>3, RevokeStep
<1>8. CASE DisableCommit(q)
  <2>1. /\ account' = [account EXCEPT ![u].access = "disabled"] /\ byAdmin' = byAdmin \cup {u}
        /\ acked' = acked /\ Revokes(request[q])
    BY <1>8 DEF DisableCommit, Revokes
  <2>2. /\ account' \in [Users -> AccountRow] /\ account'[u].access = "disabled"
        /\ \A v \in Users : /\ account'[v].exists = account[v].exists
                            /\ account'[v].verified = account[v].verified
                            /\ v # u => account'[v] = account[v]
    <3> DEFINE b == [account[u] EXCEPT !.access = "disabled"]
    <3>1. "disabled" \in Access /\ 0 \in Nat /\ account[u] \in AccountRow
      BY <1>0, <1>1 DEF Access
    <3>2. b \in AccountRow /\ b.exists = account[u].exists /\ b.verified = account[u].verified
          /\ b.access = "disabled"
      <4> HIDE DEF u
      <4> QED  BY <3>1 DEF AccountRow
    <3>3. account' = [account EXCEPT ![u] = b]
      BY <1>0, <1>1, <2>1
    <3> HIDE DEF b
    <3> QED  BY <1>0, <1>1, <3>2, <3>3
  <2>3. AccessInv'
    BY <1>0, <1>1, <2>1, <2>2 DEF AccessInv
  <2> QED  BY <1>0, <1>1, <1>7, <2>1, <2>2, <2>3
<1>9. CASE EventCommit(q)
  <2> DEFINE e == request[q].event
  <2>1. /\ account' = [account EXCEPT ![u].access = Target[e], ![u].at = At[e]]
        /\ acked' = acked \cup {e} /\ byAdmin' = byAdmin
        /\ e \in Events /\ UserOf[e] = u /\ ~Outdated(e)
        /\ Target[e] # "active" => Revokes(request[q])
    BY <1>0, <1>9 DEF EventCommit, Revokes, RequestFits
  <2>2. /\ account' \in [Users -> AccountRow] /\ account'[u].access = Target[e] /\ account'[u].at = At[e]
        /\ \A v \in Users : /\ account'[v].exists = account[v].exists
                            /\ account'[v].verified = account[v].verified
                            /\ v # u => account'[v] = account[v]
    <3> DEFINE b == [[account[u] EXCEPT !.access = Target[e]] EXCEPT !.at = At[e]]
    <3>1. Target[e] \in Access /\ At[e] \in Nat /\ account[u] \in AccountRow
      BY <1>0, <1>1, <2>1
    <3>2. b \in AccountRow /\ b.exists = account[u].exists /\ b.verified = account[u].verified
          /\ b.access = Target[e] /\ b.at = At[e]
      <4> HIDE DEF u, e
      <4> QED  BY <3>1 DEF AccountRow
    <3>3. account' = [account EXCEPT ![u] = b]
      BY <1>0, <1>1, <2>1
    <3> HIDE DEF b
    <3> QED  BY <1>0, <1>1, <3>2, <3>3
  <2>3. account[u].access # "disabled" /\ account[u].at < At[e] /\ At[e] # 0
        /\ At[e] \in Nat /\ account[u].at \in Nat
    BY <1>0, <1>1, <2>1 DEF Outdated, AccountRow
  <2>4. AccessInv'
    <3> SUFFICES ASSUME NEW v \in Users
                 PROVE  IF v \in byAdmin' THEN account'[v].access = "disabled"
                        ELSE /\ \A o \in acked' : UserOf[o] = v => At[o] <= account'[v].at
                             /\ IF account'[v].at = 0 THEN account'[v].access = "active"
                                ELSE \E o \in acked' : /\ UserOf[o] = v /\ At[o] = account'[v].at
                                                       /\ account'[v].access = Target[o]
      BY DEF AccessInv
    <3>1. CASE v = u
      <4>1. u \notin byAdmin /\ \A o \in acked : UserOf[o] = u => At[o] <= account[u].at
        BY <1>0, <1>1, <2>3 DEF AccessInv
      <4>2. \A o \in acked' : UserOf[o] = u => At[o] <= At[e]
        BY <1>0, <2>1, <2>3, <4>1
      <4> HIDE DEF e, u
      <4> QED  BY <2>1, <2>2, <2>3, <3>1, <4>1, <4>2
    <3>2. CASE v # u
      <4>1. account'[v] = account[v] /\ byAdmin' = byAdmin
        BY <2>1, <2>2, <3>2
      <4>2. \A o \in acked' : UserOf[o] = v => o \in acked
        BY <2>1, <3>2
      <4>3. acked \subseteq acked'
        BY <2>1
      <4> HIDE DEF e, u
      <4> QED  BY <1>0, <4>1, <4>2, <4>3 DEF AccessInv
    <3> QED  BY <3>1, <3>2
  <2> QED  BY <1>0, <1>1, <1>7, <2>1, <2>2, <2>4
<1> QED  BY <1>8, <1>9

\* An event that is skipped is not the latest.
LEMMA SkipStep ==
    ASSUME IInv, NEW e \in Events, EventSkip(e)
    PROVE  IInv'
<1> USE AccountsAssumption
<1>1. /\ acked' = acked \cup {e} /\ Outdated(e) /\ UserOf[e] \in Users
      /\ UNCHANGED <<account, challenge, token, revokedAccess, announced, request, byAdmin,
                     closed, stray>>
  BY DEF EventSkip
<1>2. TypeOK' /\ LocksExclude'
  BY <1>1 DEF IInv, TypeOK, LocksExclude
<1>3. RequestsFit'
  BY <1>1 DEF IInv, RequestsFit, RequestFits, Live, Unrevoked, Issued, Outdated, Revokes
<1>4. TokenInv' /\ EmailInv'
  BY <1>1 DEF IInv, TokenInv, EmailInv, FamiliesOpened, OneLiveTokenPerFamily,
     ClosedFamilyIsDead, NoAccessNoSession, VerifiedAnnouncedOnce, UnverifiedHasALink, FreshLinks,
     Live, Unrevoked, Issued, Links
<1>5. AccessInv'
  <2> SUFFICES ASSUME NEW v \in Users, v \notin byAdmin
               PROVE  /\ \A o \in acked' : UserOf[o] = v => At[o] <= account[v].at
                      /\ IF account[v].at = 0 THEN account[v].access = "active"
                         ELSE \E o \in acked' : /\ UserOf[o] = v /\ At[o] = account[v].at
                                                /\ account[v].access = Target[o]
    BY <1>1 DEF IInv, AccessInv
  <2>1. /\ \A o \in acked : UserOf[o] = v => At[o] <= account[v].at
        /\ IF account[v].at = 0 THEN account[v].access = "active"
           ELSE \E o \in acked : /\ UserOf[o] = v /\ At[o] = account[v].at
                                 /\ account[v].access = Target[o]
    BY DEF IInv, AccessInv
  <2>2. UserOf[e] = v => At[e] <= account[v].at
    <3> SUFFICES ASSUME UserOf[e] = v  PROVE At[e] <= account[v].at
      OBVIOUS
    <3>1. CASE account[v].access = "disabled"
      <4>1. PICK o \in acked : UserOf[o] = v /\ At[o] = account[v].at /\ Target[o] = "disabled"
        BY <2>1, <3>1
      <4>2. o \in Events
        BY DEF IInv, TypeOK
      <4> QED  BY <4>1, <4>2
    <3>2. CASE account[v].access # "disabled"
      <4>1. account[v].at >= At[e]
        BY <1>1, <3>2 DEF Outdated
      <4>2. account[v].at \in Nat /\ At[e] \in Nat
        BY DEF IInv, TypeOK, AccountRow
      <4> QED  BY <4>1, <4>2
    <3> QED  BY <3>1, <3>2
  <2> QED  BY <1>1, <2>1, <2>2
<1> QED  BY <1>2, <1>3, <1>4, <1>5 DEF IInv

LEMMA StepInv ==
    ASSUME IInv, [Next]_vars
    PROVE  IInv'
<1>1. ASSUME UNCHANGED vars  PROVE IInv'
  BY <1>1 DEF vars, IInv, TypeOK, LocksExclude, RequestsFit, RequestFits, Revokes, Outdated,
     TokenInv, EmailInv, AccessInv, FamiliesOpened, OneLiveTokenPerFamily,
     ClosedFamilyIsDead, NoAccessNoSession, VerifiedAnnouncedOnce, UnverifiedHasALink, FreshLinks,
     Live, Unrevoked, Issued, Links
<1>2. CASE EmailNext
  BY <1>2, EmailReads, EmailCommits DEF EmailNext
<1>3. CASE SessionNext
  BY <1>3, EmailReads, TokenReads, Inserts, FamilyRevocations, GiveUp, UnknownStep DEF SessionNext
<1>4. CASE AccessNext
  BY <1>4, AccessReads, AccessCommits, SkipStep, GiveUp DEF AccessNext
<1> QED  BY <1>1, <1>2, <1>3, <1>4 DEF Next

-----------------------------------------------------------------------------
(* What a step does to the access of an account.                           *)

Untouched(u) == account'[u].access = account[u].access /\ account'[u].at = account[u].at

\* An administrator's call, or a later event for an account that is not disabled.
Moves(u) ==
    \/ account'[u].access = "disabled" /\ account'[u].at = account[u].at
    \/ account[u].access # "disabled" /\ account'[u].at > account[u].at

LEMMA AccessSteps ==
    ASSUME IInv, [Next]_vars, NEW u \in Users
    PROVE  Untouched(u) \/ Moves(u)
<1> USE AccountsAssumption
<1>0. /\ account \in [Users -> AccountRow]
      /\ \A q \in Requests : RequestFits(request[q])
  BY DEF IInv, TypeOK, RequestsFit
<1>1. CASE account' = account
  BY <1>1 DEF Untouched
<1>2. ASSUME NEW v \in Users, NEW h \in Challenges, Register(v, h)  PROVE Untouched(u)
  BY <1>0, <1>2 DEF Register, Untouched, AccountRow
<1>3. ASSUME NEW q \in Requests, VerifyCommit(q)  PROVE Untouched(u)
  BY <1>0, <1>3 DEF VerifyCommit, Untouched, AccountRow
<1>4. ASSUME NEW q \in Requests, DisableCommit(q)  PROVE Untouched(u) \/ Moves(u)
  BY <1>0, <1>4 DEF DisableCommit, Untouched, Moves, AccountRow
<1>5. ASSUME NEW q \in Requests, EventCommit(q)  PROVE Untouched(u) \/ Moves(u)
  <2> DEFINE e == request[q].event
             v == request[q].user
  <2>1. /\ e \in Events /\ v \in Users /\ UserOf[e] = v /\ ~Outdated(e)
        /\ account' = [account EXCEPT ![v].access = Target[e], ![v].at = At[e]]
    BY <1>0, <1>5 DEF EventCommit, RequestFits
  <2>2. account[v].access # "disabled" /\ ~(account[v].at >= At[e])
    BY <2>1 DEF Outdated
  <2>3. account[v].at \in Nat /\ At[e] \in Nat
    BY <1>0, <2>1 DEF AccountRow
  <2> HIDE DEF e, v
  <2>4. CASE u = v
    <3>1. account'[u].at = At[e]
      BY <1>0, <2>1, <2>4 DEF AccountRow
    <3> QED  BY <2>2, <2>3, <2>4, <3>1 DEF Moves
  <2>5. CASE u # v
    BY <1>0, <2>1, <2>5 DEF Untouched
  <2> QED  BY <2>4, <2>5
<1>6. CASE EmailNext
  BY <1>1, <1>2, <1>3, <1>6 DEF EmailNext, ResendRead, ResendCommit, VerifyLock
<1>7. CASE SessionNext
  BY <1>1, <1>7 DEF SessionNext, LoginRead, LoginCommit, RotateExpired, RotateRead, RotateCommit,
     ReuseRead, ReuseCommit, LogoutUnknown, LogoutRead, LogoutCommit, LogoutRollback
<1>8. CASE AccessNext
  BY <1>1, <1>4, <1>5, <1>8 DEF AccessNext, DisableRead, EventSkip, EventRead, Fail
<1>9. CASE UNCHANGED vars
  BY <1>1, <1>9 DEF vars
<1> QED  BY <1>6, <1>7, <1>8, <1>9 DEF Next

-----------------------------------------------------------------------------
(* What a step does to an issued token.                                    *)

Endures(t) ==
    /\ token'[t].user = token[t].user /\ token'[t].family = token[t].family
    /\ token[t].used => token'[t].used
    /\ token[t].revoked => token'[t].revoked

LEMMA RevokeEndures ==
    ASSUME TypeOK, NEW S, Revoke(S), NEW t \in Tokens
    PROVE  Endures(t)
BY TokenRows DEF TypeOK, Revoke, Endures

LEMMA TokenSteps ==
    ASSUME IInv, [Next]_vars, NEW t \in Tokens, Issued(t)
    PROVE  Endures(t)
<1>0. TypeOK /\ \A q \in Requests : RequestFits(request[q])
  BY DEF IInv, RequestsFit
<1>1. CASE token' = token
  BY <1>1 DEF Endures
<1>2. ASSUME NEW S, Revoke(S)  PROVE Endures(t)
  BY <1>0, <1>2, RevokeEndures
<1>3. ASSUME NEW q \in Requests, NEW n \in Tokens, LoginCommit(q, n)  PROVE Endures(t)
  BY <1>0, <1>3 DEF LoginCommit, Endures, TypeOK
<1>4. ASSUME NEW q \in Requests, NEW n \in Tokens, RotateCommit(q, n)  PROVE Endures(t)
  <2> DEFINE o == request[q].row
             old == [token[o] EXCEPT !.used = TRUE]
             new == NewToken(n, request[q].user, token[o].family)
  <2>1. o \in Tokens /\ Issued(o) /\ ~Issued(n) /\ token \in [Tokens -> TokenRow]
    BY <1>0, <1>4 DEF RotateCommit, RequestFits, Live, Unrevoked, TypeOK
  <2>2. token' = [token EXCEPT ![o].used = TRUE, ![n] = new]
    BY <1>4 DEF RotateCommit
  <2>3. t # n
    BY <2>1
  <2>4. /\ old.user = token[o].user /\ old.family = token[o].family
        /\ old.revoked = token[o].revoked /\ old.used
    BY <2>1, TokenRows
  <2> HIDE DEF o, new
  <2>5. token'[t] = IF t = o THEN old ELSE token[t]
    BY <2>1, <2>2, <2>3
  <2> HIDE DEF old
  <2> QED  BY <2>4, <2>5 DEF Endures
<1>5. CASE EmailNext
  BY <1>1, <1>5 DEF EmailNext, Register, ResendRead, VerifyCommit, ResendCommit, VerifyLock
<1>6. CASE SessionNext
  BY <1>1, <1>2, <1>3, <1>4, <1>6 DEF SessionNext, LoginRead, RotateExpired, RotateRead,
     ReuseRead, ReuseCommit, LogoutUnknown, LogoutRead, LogoutCommit, LogoutRollback
<1>7. CASE AccessNext
  BY <1>1, <1>2, <1>7 DEF AccessNext, DisableRead, EventSkip, EventRead, DisableCommit,
     EventCommit, Fail
<1>8. CASE UNCHANGED vars
  BY <1>1, <1>8 DEF vars
<1> QED  BY <1>5, <1>6, <1>7, <1>8 DEF Next

-----------------------------------------------------------------------------
(* Theorems.                                                               *)

\* In every state of every behaviour the rows have their types.
THEOREM TypeCorrect == Spec => []TypeOK
<1>1. IInv => TypeOK
  BY DEF IInv
<1> QED  BY InitInv, StepInv, <1>1, PTL DEF Spec

\* However rotations, reuses and logouts race, a family has one token that rotates.
THEOREM OneToken == Spec => []OneLiveTokenPerFamily
<1>1. IInv => OneLiveTokenPerFamily
  BY DEF IInv, TokenInv
<1> QED  BY InitInv, StepInv, <1>1, PTL DEF Spec

\* Of a closed family only stray tokens rotate.
THEOREM ClosedIsDead == Spec => []ClosedFamilyIsDead
<1>1. IInv => ClosedFamilyIsDead
  BY DEF IInv, TokenInv
<1> QED  BY InitInv, StepInv, <1>1, PTL DEF Spec

\* Of an account without access only stray tokens are left.
THEOREM AccessEndsSessions == Spec => []NoAccessNoSession
<1>1. IInv => NoAccessNoSession
  BY DEF IInv, TokenInv
<1> QED  BY InitInv, StepInv, <1>1, PTL DEF Spec

\* In whatever order the events of an interviewer come, the latest decides, and an
\* administrator has the last word.
THEOREM LatestEventDecides == Spec => []AccessIsTheLatest
<1>1. TypeOK /\ AccessInv => AccessIsTheLatest
  <2> SUFFICES ASSUME TypeOK, AccessInv, NEW u \in Users, u \notin byAdmin
               PROVE  /\ \A e \in acked : Latest(u, e) => account[u].access = Target[e]
                      /\ (\A e \in acked : UserOf[e] # u) => account[u].access = "active"
    BY DEF AccessInv, AccessIsTheLatest
  <2>1. /\ \A o \in acked : UserOf[o] = u => At[o] <= account[u].at
        /\ IF account[u].at = 0 THEN account[u].access = "active"
           ELSE \E o \in acked : /\ UserOf[o] = u /\ At[o] = account[u].at
                                 /\ account[u].access = Target[o]
    BY DEF AccessInv
  <2>2. ASSUME NEW e \in acked, Latest(u, e)  PROVE account[u].access = Target[e]
    <3>1. /\ UserOf[e] = u /\ e \in Events /\ At[e] \in Nat \ {0} /\ account[u].at \in Nat
          /\ At[e] <= account[u].at
      BY <2>1, <2>2, AccountsAssumption DEF Latest, TypeOK, AccountRow
    <3>2. PICK o \in acked : UserOf[o] = u /\ At[o] = account[u].at /\ account[u].access = Target[o]
      BY <2>1, <3>1
    <3>3. o \in Events /\ At[o] \in Nat /\ At[o] <= At[e]
      BY <2>2, <3>2, AccountsAssumption DEF Latest, TypeOK
    <3>4. At[o] = At[e]
      BY <3>1, <3>2, <3>3
    <3> QED  BY <3>1, <3>2, <3>3, <3>4, AccountsAssumption
  <2>3. (\A e \in acked : UserOf[e] # u) => account[u].access = "active"
    BY <2>1
  <2> QED  BY <2>2, <2>3
<1>2. IInv => AccessIsTheLatest
  BY <1>1 DEF IInv
<1> QED  BY InitInv, StepInv, <1>2, PTL DEF Spec

\* A user's verification is announced once.
THEOREM AnnouncedOnce == Spec => []VerifiedAnnouncedOnce
<1>1. IInv => VerifiedAnnouncedOnce
  BY DEF IInv, EmailInv
<1> QED  BY InitInv, StepInv, <1>1, PTL DEF Spec

\* No user is left without a link before the address is verified.
THEOREM AlwaysALink == Spec => []UnverifiedHasALink
<1>1. IInv => UnverifiedHasALink
  BY DEF IInv, EmailInv
<1> QED  BY InitInv, StepInv, <1>1, PTL DEF Spec

\* The event time of an account never falls back, disabled is for ever, and short of
\* being disabled the access moves only with a later event.
AccessMovesOn ==
    [][\A u \in Users :
         /\ account'[u].at >= account[u].at
         /\ account[u].access = "disabled" => account'[u].access = "disabled"
         /\ account'[u].access # account[u].access =>
                account'[u].access = "disabled" \/ account'[u].at > account[u].at]_vars

\* An event that was checked against the account is still the latest when it is
\* committed, whatever ran between the two.
THEOREM AccessNeverFallsBack == Spec => AccessMovesOn
<1> DEFINE OnwardsOnly ==
      \A u \in Users :
         /\ account'[u].at >= account[u].at
         /\ account[u].access = "disabled" => account'[u].access = "disabled"
         /\ account'[u].access # account[u].access =>
                account'[u].access = "disabled" \/ account'[u].at > account[u].at
<1>1. ASSUME IInv, IInv', [Next]_vars  PROVE OnwardsOnly
  <2>1. \A u \in Users : account[u].at \in Nat /\ account'[u].at \in Nat
    BY <1>1 DEF IInv, TypeOK, AccountRow
  <2>2. \A u \in Users : Untouched(u) \/ Moves(u)
    BY <1>1, AccessSteps
  <2> QED  BY <2>1, <2>2 DEF Untouched, Moves
<1>2. ASSUME IInv, IInv', [Next]_vars  PROVE [OnwardsOnly]_vars
  BY <1>1, <1>2
<1> QED  BY InitInv, StepInv, <1>2, PTL DEF Spec, AccessMovesOn

\* A refresh token that is used up or revoked never rotates again, and no call gives a
\* token that is out another account or family.
TokensStayDead ==
    [][\A t \in Tokens : Issued(t) =>
         /\ token'[t].user = token[t].user /\ token'[t].family = token[t].family
         /\ ~Live(t) => ~Live(t)']_vars

\* Neither a rotation that read its token before, nor an access that comes back, nor a
\* revocation that saw old rows revives a token.
THEOREM NoTokenComesBack == Spec => TokensStayDead
<1> DEFINE Dead ==
      \A t \in Tokens : Issued(t) =>
         /\ token'[t].user = token[t].user /\ token'[t].family = token[t].family
         /\ ~Live(t) => ~Live(t)'
<1>1. ASSUME IInv, [Next]_vars  PROVE Dead
  BY <1>1, TokenSteps DEF Endures, Live, Unrevoked, Issued
<1>2. IInv /\ [Next]_vars => [Dead]_vars
  BY <1>1
<1> QED  BY InitInv, StepInv, <1>2, PTL DEF Spec, TokensStayDead
=============================================================================
