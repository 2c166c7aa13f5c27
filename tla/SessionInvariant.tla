----------------------- MODULE SessionInvariant -----------------------------
(***************************************************************************)
(* The inductive invariant of SessionLifecycle, for every set of users,    *)
(* sessions, pairs and requests and for all lifetimes that satisfy         *)
(* TimingAssumption, and what a step keeps of it in general: the types,    *)
(* and all that the requests which do not take the step rely on.           *)
(***************************************************************************)
EXTENDS SessionLifecycle, TLAPS

-----------------------------------------------------------------------------
(* The inductive invariant *)

Checked  == {"refresh_mint", "refresh_rotate", "refresh_user", "refresh_recheck",
             "refresh_issue"}
Minted   == Checked \ {"refresh_mint"}
Sweeping == {"revoke_mark", "revoke_commit", "admin_mark", "admin_commit"}
HoldsUser == {"login_mint", "login_commit", "admin_sweep", "admin_mark", "admin_commit"}

\* Nothing is dated in the future.
TimeInv ==
    /\ \A k \in Pair : token[k].born <= now /\ token[k].accessBorn <= now
    /\ \A s \in Sid : markedAt[s] <= now

\* What the committed rows say agrees with what Redis says.
StoreInv ==
    /\ \A s \in Sid : session[s].status = "revoked" => markedAt[s] # Never
    /\ \A s \in Sid : session[s].status = "absent" => markedAt[s] = Never
    /\ \A k \in delivered :
          token[k].sid \in Sid /\ session[token[k].sid].status # "absent"
    /\ \A k \in Pair : blackUntil[k] # Never =>
          k \in delivered /\ blackUntil[k] = token[k].accessBorn + AccessTTL

\* The random ids of two requests differ.
DistinctInv ==
    \A r, q \in Req : r # q =>
        /\ req[r].fresh \in Pair => req[q].fresh # req[r].fresh
        /\ req[r].pc \in LoginStep /\ req[q].pc \in LoginStep => req[q].sid # req[r].sid

\* A running request is younger than the stall bound; its new pair is unknown to
\* clients until it ends.
RunInv(r) ==
    /\ req[r].pc # "idle" => req[r].began <= now /\ now <= req[r].began + Stall
    /\ req[r].fresh \in Pair => req[r].fresh \notin delivered

LoginInv(r) ==
    /\ req[r].pc \in LoginStep =>
          /\ req[r].sid \in Sid /\ req[r].fresh \in Pair /\ req[r].user \in User
          /\ session[req[r].sid].status = "absent"
    /\ req[r].pc = "login_commit" => token[req[r].fresh].sid = req[r].sid

\* A refresh that has passed its first check is not late, and its session can only
\* have been marked since the request began.
RefreshInv(r) ==
    /\ req[r].pc \in RefreshStep =>
          /\ req[r].pair \in delivered /\ req[r].fresh \in Pair
          /\ req[r].sid = token[req[r].pair].sid
          /\ req[r].seenToken.born = token[req[r].pair].born
          /\ req[r].late => markedAt[req[r].sid] # Never
    /\ req[r].pc \in Checked =>
          /\ ~req[r].late
          /\ markedAt[req[r].sid] # Never => req[r].began <= markedAt[req[r].sid]
    /\ req[r].pc \in Minted => token[req[r].fresh].sid = req[r].sid
    /\ req[r].pc = "refresh_issue" /\ markedAt[req[r].sid] # Never =>
          token[req[r].fresh].born <= markedAt[req[r].sid]
    /\ req[r].pc \in AuthStep => req[r].sid \in Sid /\ ~req[r].late

\* A session about to be revoked is committed, and marked unless its marker is next.
RevokeInv(r) ==
    /\ req[r].pc \in RevokeStep =>
          req[r].sid \in Sid /\ session[req[r].sid].status # "absent"
    /\ req[r].todo \subseteq req[r].sweep
    /\ \A s \in req[r].sweep :
          /\ req[r].pc \in Sweeping
          /\ session[s].status # "absent"
          /\ \/ markedAt[s] # Never
             \/ req[r].pc = "admin_mark" /\ s \in req[r].todo
             \/ req[r].pc = "revoke_mark" /\ s = req[r].sid

\* The user's row is locked from the insert of a login and from the sweep of an
\* administrator to the end; a sweep once made stays complete.
SweepInv(r) ==
    /\ req[r].pc \in AdminStep => req[r].user \in User
    /\ req[r].pc \in HoldsUser => userLock[req[r].user] = r
    /\ req[r].pc \in {"admin_mark", "admin_commit"} /\ req[r].op \in RevokingOp =>
          ActiveSessions(req[r].user) \subseteq req[r].sweep

RequestInv == \A r \in Req : RunInv(r) /\ LoginInv(r) /\ RefreshInv(r) /\ RevokeInv(r) /\ SweepInv(r)

IInv == /\ TypeOK
        /\ TimeInv
        /\ StoreInv
        /\ MarkerOutlivesTokens
        /\ DistinctInv
        /\ RequestInv
-----------------------------------------------------------------------------
(* Types *)

\* The values before a request, a hash or a row exists have the right types.
LEMMA NullTypes == Idle \in Request /\ NoToken \in Token /\ NoAccount \in Account
  BY DEF Idle, NoToken, NoAccount, Request, Token, TokenStatus, Account, Step, Time, Never

\* The type of each field of a request.
LEMMA Fields ==
  ASSUME NEW m \in Request
  PROVE  /\ m.pc \in Step /\ m.op \in AdminOp \cup {"none"}
         /\ m.user \in User \cup {NoUser} /\ m.sid \in Sid \cup {NoSid}
         /\ m.pair \in Pair \cup {NoPair} /\ m.fresh \in Pair \cup {NoPair}
         /\ m.seenUser \in Account /\ m.seenToken \in Token
         /\ m.sweep \subseteq Sid /\ m.todo \subseteq Sid
         /\ m.began \in Time /\ m.late \in BOOLEAN
  BY DEF Request

\* The type of each field of a refresh token hash.
LEMMA TokenFields ==
  ASSUME NEW t \in Token
  PROVE  /\ t.sid \in Sid \cup {NoSid} /\ t.status \in TokenStatus
         /\ t.born \in Int /\ t.rotatedAt \in Int /\ t.accessBorn \in Int
  BY DEF Token, Time, Never

\* Moving a request on, with a new sweep or todo set or without
LEMMA GotoType ==
  ASSUME req \in [Req -> Request], NEW r \in Req, NEW step \in Step, Goto(r, step)
  PROVE  req' \in [Req -> Request]
  <1>1. ASSUME NEW m \in Request PROVE [m EXCEPT !.pc = step] \in Request
    BY DEF Request
  <1> QED BY <1>1 DEF Goto

\* Moving a request on with the sweep it has selected keeps its type.
LEMMA SweepType ==
  ASSUME req \in [Req -> Request], NEW r \in Req, NEW step \in Step,
         NEW S \in SUBSET Sid, NEW T \in SUBSET Sid,
         req' = [req EXCEPT ![r].pc = step, ![r].sweep = S, ![r].todo = T]
  PROVE  req' \in [Req -> Request]
  <1>1. ASSUME NEW m \in Request
        PROVE  [m EXCEPT !.pc = step, !.sweep = S, !.todo = T] \in Request
    BY DEF Request
  <1> QED BY <1>1

\* An ended request has the type of a request.
LEMMA FinishType ==
  ASSUME req \in [Req -> Request], NEW r \in Req, Finish(r)
  PROVE  req' \in [Req -> Request]
  BY NullTypes DEF Finish

\* Dropping the row locks of a transaction keeps the types of the lock tables.
LEMMA ReleaseType ==
  ASSUME TypeOK, NEW r \in Req, ReleaseLocks(r)
  PROVE  /\ userLock' \in [User -> Req \cup {NoReq}]
         /\ sessionLock' \in [Sid -> Req \cup {NoReq}]
  BY DEF TypeOK, ReleaseLocks, ReleaseUsers, ReleaseSessions

\* Types are right before the first request.
LEMMA TypeInit == Init => TypeOK
  BY NullTypes DEF Init, TypeOK, Account, SessionRow, Time, Never

\* Beginning any request keeps the types.
LEMMA TypeStart ==
  ASSUME TypeOK, NEW r \in Req, Start(r)
  PROVE  TypeOK'
  <1>1. ASSUME NEW u \in User, StartLogin(r, u) PROVE TypeOK'
    <2>1. PICK s \in Sid, k \in Pair :
             req' = [req EXCEPT ![r] = [Idle EXCEPT !.pc = "login_lock", !.user = u,
                        !.sid = s, !.fresh = k, !.began = now, !.seenUser = account[u]]]
      BY <1>1 DEF StartLogin
    <2>2. [Idle EXCEPT !.pc = "login_lock", !.user = u, !.sid = s, !.fresh = k,
                       !.began = now, !.seenUser = account[u]] \in Request
      BY NullTypes DEF Request, Step, LoginStep, TypeOK, Time
    <2> QED BY <1>1, <2>1, <2>2 DEF StartLogin, TypeOK, database, redis
  <1>2. ASSUME NEW u \in User, NEW op \in Ops, StartAdmin(r, u, op) PROVE TypeOK'
    <2>1. [Idle EXCEPT !.pc = "admin_lock", !.user = u, !.op = op, !.began = now] \in Request
      BY NullTypes, BoundAssumption DEF Request, Step, AdminStep, TypeOK, Time
    <2> QED BY <1>2, <2>1 DEF StartAdmin, TypeOK, database, redis
  <1>3. ASSUME NEW k \in delivered, StartRefresh(r, k) PROVE TypeOK'
    <2>1. PICK n \in Pair :
             req' = [req EXCEPT ![r] = [Idle EXCEPT !.pc = "refresh_check", !.pair = k,
                        !.sid = token[k].sid, !.fresh = n, !.seenToken = token[k],
                        !.began = now, !.late = Ended(k)]]
      BY <1>3 DEF StartRefresh
    <2>2. k \in Pair /\ token[k] \in Token /\ Ended(k) \in BOOLEAN
      BY DEF TypeOK, Ended
    <2>3. [Idle EXCEPT !.pc = "refresh_check", !.pair = k, !.sid = token[k].sid,
                       !.fresh = n, !.seenToken = token[k], !.began = now,
                       !.late = Ended(k)] \in Request
      BY <2>2, NullTypes, TokenFields DEF Request, Step, RefreshStep, TypeOK, Time
    <2> QED BY <1>3, <2>1, <2>3 DEF StartRefresh, TypeOK, database, redis
  <1>4. ASSUME NEW k \in delivered, StartLogout(r, k) PROVE TypeOK'
    <2>1. k \in Pair /\ token[k] \in Token /\ Ended(k) \in BOOLEAN
      BY DEF TypeOK, Ended
    <2>2. [Idle EXCEPT !.pc = "revoke_row", !.pair = k, !.sid = token[k].sid,
                       !.began = now, !.late = Ended(k)] \in Request
      BY <2>1, NullTypes, TokenFields DEF Request, Step, RevokeStep, TypeOK, Time
    <2>3. token[k].accessBorn + AccessTTL \in Time
      BY <1>4, <2>1, TimingAssumption DEF StartLogout, AccessValid, Token, Time, Never
    <2> QED BY <1>4, <2>2, <2>3 DEF StartLogout, TypeOK, database
  <1>5. ASSUME NEW k \in delivered, StartAuthenticate(r, k) PROVE TypeOK'
    <2>1. k \in Pair /\ token[k] \in Token /\ Barred(k) \in BOOLEAN
      BY DEF TypeOK, Barred, Ended
    <2>2. [Idle EXCEPT !.pc = "auth_user", !.pair = k, !.sid = token[k].sid,
                       !.began = now, !.late = Barred(k)] \in Request
      BY <2>1, NullTypes, TokenFields DEF Request, Step, AuthStep, TypeOK, Time
    <2> QED BY <1>5, <2>2 DEF StartAuthenticate, TypeOK, database, redis
  <1> QED BY <1>1, <1>2, <1>3, <1>4, <1>5 DEF Start

\* Every way the code writes a token hash gives a token hash.
LEMMA TypeToken ==
  ASSUME TypeOK, NEW k \in Pair, NEW s \in Sid \cup {NoSid}
  PROVE  /\ FreshToken(s) \in Token
         /\ [FreshToken(s) EXCEPT !.accessBorn = now] \in Token
         /\ [token[k] EXCEPT !.status = "revoked"] \in Token
         /\ [token[k] EXCEPT !.status = "rotated", !.rotatedAt = now] \in Token
         /\ [token[k] EXCEPT !.accessBorn = now] \in Token
  <1>1. now \in Time /\ Never \in Time /\ token[k] \in Token
    BY DEF TypeOK, Time
  <1>2. FreshToken(s) \in Token
    BY <1>1 DEF Token, TokenStatus, FreshToken
  <1>3. \A t \in Token : /\ [t EXCEPT !.status = "revoked"] \in Token
                         /\ [t EXCEPT !.status = "rotated", !.rotatedAt = now] \in Token
                         /\ [t EXCEPT !.accessBorn = now] \in Token
    BY <1>1 DEF Token, TokenStatus
  <1> QED BY <1>1, <1>2, <1>3

\* Every administrator's operation leaves a users row a users row.
LEMMA TypeAccount ==
  ASSUME NEW a \in Account, NEW op PROVE Applied(op, a) \in Account
  <1>1. /\ [a EXCEPT !.active = FALSE] \in Account
        /\ [a EXCEPT !.active = TRUE] \in Account
        /\ [a EXCEPT !.blacklisted = TRUE] \in Account
        /\ [a EXCEPT !.blacklisted = FALSE] \in Account
    BY DEF Account
  <1>2. [a EXCEPT !.pwd = @ + 1] \in Account
    BY DEF Account
  <1> QED BY <1>1, <1>2 DEF Applied

\* The steps of a login keep the types.
LEMMA TypeLogin ==
  ASSUME IInv, NEW r \in Req, LoginLock(r) \/ LoginMint(r) \/ LoginCommit(r)
  PROVE  TypeOK'
  <1> USE DEF IInv
  <1>1. CASE LoginLock(r)
    <2>1. req' \in [Req -> Request]
      BY <1>1, GotoType DEF LoginLock, TypeOK, Step, LoginStep
    <2> QED BY <1>1, <2>1 DEF LoginLock, TypeOK, redis
  <1>2. CASE LoginMint(r)
    <2>1. req' \in [Req -> Request]
      BY <1>2, GotoType DEF LoginMint, TypeOK, Step, LoginStep
    <2>2. req[r] \in Request
      BY DEF TypeOK
    <2>3. token' \in [Pair -> Token]
      BY <1>2, <2>2, Fields, TypeToken DEF LoginMint, TypeOK
    <2> QED BY <1>2, <2>1, <2>3 DEF LoginMint, TypeOK, database
  <1>3. CASE LoginCommit(r)
    <2>1. req' \in [Req -> Request]
      BY <1>3, FinishType DEF LoginCommit, TypeOK
    <2>2. req[r] \in Request
      BY DEF TypeOK
    <2>3. [user |-> req[r].user, status |-> "active"] \in SessionRow
      BY <2>2, Fields DEF SessionRow
    <2>4. session' \in [Sid -> SessionRow]
      BY <1>3, <2>3 DEF LoginCommit, TypeOK
    <2>5. delivered' \subseteq Pair
      BY <1>3 DEF LoginCommit, TypeOK, RequestInv, LoginInv, At, LoginStep
    <2> QED BY <1>3, <2>1, <2>4, <2>5, ReleaseType DEF LoginCommit, TypeOK, redis
  <1> QED BY <1>1, <1>2, <1>3

\* The steps of a refresh keep the types.
LEMMA TypeRefresh ==
  ASSUME IInv, NEW r \in Req,
         \/ RefreshCheck(r) \/ RefreshMint(r) \/ RefreshRotate(r)
         \/ RefreshUser(r) \/ RefreshRecheck(r) \/ RefreshIssue(r)
  PROVE  TypeOK'
  <1> USE DEF IInv
  <1>1. req[r] \in Request
    BY DEF TypeOK
  <1>2. CASE RefreshCheck(r)
    <2>1. req' \in [Req -> Request]
      BY <1>2, GotoType, FinishType DEF RefreshCheck, TypeOK, Step, RefreshStep, RevokeStep
    <2>2. token' \in [Pair -> Token]
      <3>1. UNCHANGED token \/ token' = [token EXCEPT ![req[r].pair].status = "revoked"]
        BY <1>2 DEF RefreshCheck
      <3>2. \A k \in Pair : [token[k] EXCEPT !.status = "revoked"] \in Token
        BY TypeToken
      <3> QED BY <3>1, <3>2 DEF TypeOK
    <2> QED BY <1>2, <2>1, <2>2 DEF RefreshCheck, TypeOK, database
  <1>3. CASE RefreshMint(r)
    <2>1. req' \in [Req -> Request]
      BY <1>3, GotoType DEF RefreshMint, TypeOK, Step, RefreshStep
    <2>2. token' \in [Pair -> Token]
      BY <1>1, <1>3, Fields, TypeToken DEF RefreshMint, TypeOK
    <2> QED BY <1>3, <2>1, <2>2 DEF RefreshMint, TypeOK, database
  <1>4. CASE RefreshRotate(r)
    <2>1. req' \in [Req -> Request]
      BY <1>4, GotoType DEF RefreshRotate, TypeOK, Step, RefreshStep
    <2>2. token' \in [Pair -> Token]
      BY <1>1, <1>4, Fields, TypeToken DEF RefreshRotate, TypeOK
    <2> QED BY <1>4, <2>1, <2>2 DEF RefreshRotate, TypeOK, database
  <1>5. CASE RefreshUser(r)
    <2>1. req' \in [Req -> Request]
      BY <1>5, GotoType DEF RefreshUser, TypeOK, Step, RefreshStep, RevokeStep
    <2> QED BY <1>5, <2>1 DEF RefreshUser, TypeOK, database, redis
  <1>6. CASE RefreshRecheck(r)
    <2>1. req' \in [Req -> Request]
      BY <1>6, GotoType DEF RefreshRecheck, TypeOK, Step, RefreshStep, RevokeStep
    <2> QED BY <1>6, <2>1 DEF RefreshRecheck, TypeOK, database, redis
  <1>7. CASE RefreshIssue(r)
    <2>1. req' \in [Req -> Request]
      BY <1>7, FinishType DEF RefreshIssue, TypeOK
    <2>2. req[r].fresh \in Pair
      BY <1>7 DEF RefreshIssue, RequestInv, RefreshInv, At, RefreshStep
    <2>3. token' \in [Pair -> Token]
      BY <1>7, <2>2, TypeToken DEF RefreshIssue, TypeOK
    <2> QED BY <1>7, <2>1, <2>2, <2>3 DEF RefreshIssue, TypeOK, database
  <1> QED BY <1>2, <1>3, <1>4, <1>5, <1>6, <1>7

\* The steps of a logout or of a revocation by a refresh keep the types.
LEMMA TypeRevoke ==
  ASSUME IInv, NEW r \in Req,
         RevokeRow(r) \/ RevokeMark(r) \/ RevokeCommit(r)
  PROVE  TypeOK'
  <1> USE DEF IInv
  <1>1. req[r] \in Request
    BY DEF TypeOK
  <1>2. CASE RevokeRow(r)
    <2>1. CASE session[req[r].sid].status # "active"
      <3>1. req' \in [Req -> Request]
        BY <1>2, <2>1, GotoType DEF RevokeRow, TypeOK, Step, RevokeStep
      <3> QED BY <1>2, <2>1, <3>1 DEF RevokeRow, TypeOK, redis
    <2>2. CASE session[req[r].sid].status = "active"
      <3>1. req[r].sid \in Sid
        BY <1>2 DEF RevokeRow, At, RequestInv, RevokeInv, RevokeStep
      <3>2. [req[r] EXCEPT !.pc = "revoke_mark", !.sweep = {req[r].sid}] \in Request
        BY <1>1, <3>1 DEF Request, Step, RevokeStep
      <3>3. req' \in [Req -> Request]
        BY <1>2, <2>2, <3>2 DEF RevokeRow, TypeOK
      <3> QED BY <1>2, <2>2, <3>3 DEF RevokeRow, TypeOK, redis
    <2> QED BY <2>1, <2>2
  <1>3. CASE RevokeMark(r)
    <2>1. req' \in [Req -> Request]
      BY <1>3, GotoType DEF RevokeMark, TypeOK, Step, RevokeStep
    <2> QED BY <1>3, <2>1 DEF RevokeMark, TypeOK, database, Time
  <1>4. CASE RevokeCommit(r)
    <2>1. req' \in [Req -> Request]
      BY <1>4, FinishType DEF RevokeCommit, TypeOK
    <2>2. session' \in [Sid -> SessionRow]
      BY <1>4 DEF RevokeCommit, TypeOK, SessionRow
    <2> QED BY <1>4, <2>1, <2>2, ReleaseType DEF RevokeCommit, TypeOK, redis
  <1> QED BY <1>2, <1>3, <1>4

\* The steps of an administrator's operation keep the types.
LEMMA TypeAdmin ==
  ASSUME IInv, NEW r \in Req,
         AdminLock(r) \/ AdminSweep(r) \/ AdminMark(r) \/ AdminCommit(r)
  PROVE  TypeOK'
  <1> USE DEF IInv
  <1>1. req[r] \in Request
    BY DEF TypeOK
  <1>2. CASE AdminLock(r)
    <2>1. req' \in [Req -> Request]
      BY <1>2, GotoType, FinishType DEF AdminLock, TypeOK, Step, AdminStep
    <2> QED BY <1>2, <2>1 DEF AdminLock, TypeOK, redis
  <1>3. CASE AdminSweep(r)
    <2> DEFINE S == ActiveSessions(req[r].user)
    <2>1. S \in SUBSET Sid
      BY DEF ActiveSessions
    <2>2. req' \in [Req -> Request]
      BY <1>3, <2>1, SweepType DEF AdminSweep, TypeOK, Step, AdminStep
    <2> QED BY <1>3, <2>2 DEF AdminSweep, TypeOK, redis
  <1>4. CASE AdminMark(r)
    <2>1. ASSUME NEW s \in req[r].todo,
                 markedAt' = [markedAt EXCEPT ![s] = now],
                 req' = [req EXCEPT ![r].todo = @ \ {s}]
          PROVE  TypeOK'
      <3>1. [req[r] EXCEPT !.todo = @ \ {s}] \in Request
        BY <1>1 DEF Request
      <3> QED BY <1>4, <2>1, <3>1 DEF AdminMark, TypeOK, database, Time
    <2>2. CASE Goto(r, "admin_commit") /\ UNCHANGED markedAt
      <3>1. req' \in [Req -> Request]
        BY <2>2, GotoType DEF TypeOK, Step, AdminStep
      <3> QED BY <1>4, <2>2, <3>1 DEF AdminMark, TypeOK, database
    <2> QED BY <1>4, <2>1, <2>2 DEF AdminMark
  <1>5. CASE AdminCommit(r)
    <2>1. req' \in [Req -> Request]
      BY <1>5, FinishType DEF AdminCommit, TypeOK
    <2>2. session' \in [Sid -> SessionRow]
      BY <1>5 DEF AdminCommit, TypeOK, SessionRow
    <2>3. account' \in [User -> Account]
      BY <1>5, TypeAccount DEF AdminCommit, TypeOK
    <2> QED BY <1>5, <2>1, <2>2, <2>3, ReleaseType DEF AdminCommit, TypeOK, redis
  <1> QED BY <1>2, <1>3, <1>4, <1>5

\* The steps of an authentication, and a failure, keep the types.
LEMMA TypeRest ==
  ASSUME IInv, NEW r \in Req, AuthUser(r) \/ AuthServe(r) \/ Abort(r)
  PROVE  TypeOK'
  <1> USE DEF IInv
  <1>1. CASE AuthUser(r)
    <2>1. req' \in [Req -> Request]
      BY <1>1, GotoType, FinishType DEF AuthUser, TypeOK, Step, AuthStep
    <2> QED BY <1>1, <2>1 DEF AuthUser, TypeOK, database, redis
  <1>2. CASE AuthServe(r)
    BY <1>2, FinishType DEF AuthServe, TypeOK, database, redis
  <1>3. CASE Abort(r)
    BY <1>3, FinishType, ReleaseType DEF Abort, TypeOK, redis
  <1> QED BY <1>1, <1>2, <1>3

-----------------------------------------------------------------------------
(* What a step of one request does to the others *)

\* Request r is about to commit the session s of its login.
Commits(r, s) == req[r].pc = "login_commit" /\ s = req[r].sid

\* Only r moves, and the ids it draws are unused.
FrameReq(r) ==
    /\ now' = now
    /\ \A q \in Req : q # r => req'[q] = req[q]
    /\ \/ req'[r].fresh \in {req[r].fresh, NoPair}
       \/ FreshPair(req'[r].fresh)
    /\ req'[r].pc \in LoginStep =>
          \/ req[r].pc \in LoginStep /\ req'[r].sid = req[r].sid
          \/ FreshSid(req'[r].sid)

\* A session is born by the commit of its own login, never comes back from
\* "revoked", and is marked only after it was born.
FrameSession(r) ==
    \A s \in Sid :
        /\ session[s].status # "absent" =>
              /\ session'[s].status # "absent"
              /\ session'[s].user = session[s].user
              /\ session'[s].status = "active" => session[s].status = "active"
        /\ session[s].status = "absent" =>
              \/ session'[s] = session[s]
              \/ Commits(r, s) /\ session'[s] = [user |-> req[r].user, status |-> "active"]
        /\ \/ markedAt'[s] = markedAt[s]
           \/ markedAt'[s] = now /\ session[s].status # "absent"

\* Only r's own new pair gets a session and dates, and only that one is delivered.
FrameToken(r) ==
    /\ \A k \in Pair :
          \/ token'[k].sid = token[k].sid /\ token'[k].born = token[k].born
             /\ token'[k].accessBorn = token[k].accessBorn
          \/ k = req[r].fresh /\ req[r].pc \in LoginStep \cup RefreshStep
    /\ delivered \subseteq delivered'
    /\ \A k \in delivered' \ delivered :
          k = req[r].fresh /\ req[r].pc \in {"login_commit", "refresh_issue"}

\* The row locks of other requests stay.
FrameLock(r) == \A u \in User : userLock[u] \notin {r, NoReq} => userLock'[u] = userLock[u]

\* All that a step of r may do to what other requests rely on.
Frame(r) == FrameReq(r) /\ FrameSession(r) /\ FrameToken(r) /\ FrameLock(r)

\* Moving a request on touches no other request and draws no new ids.
LEMMA GotoFrame ==
  ASSUME TypeOK, NEW r \in Req, NEW step, Goto(r, step), now' = now,
         step \in LoginStep => req[r].pc \in LoginStep
  PROVE  FrameReq(r)
  <1>1. req[r] \in Request
    BY DEF TypeOK
  <1>2. /\ req'[r].fresh = req[r].fresh /\ req'[r].sid = req[r].sid /\ req'[r].pc = step
        /\ \A q \in Req : q # r => req'[q] = req[q]
    BY <1>1 DEF Goto, TypeOK, Request
  <1> QED BY <1>2 DEF FrameReq

\* Beginning a request touches no other request and draws unused ids.
LEMMA StartFrame ==
  ASSUME TypeOK, NEW r \in Req, NEW m, req' = [req EXCEPT ![r] = m], now' = now,
         m.fresh = NoPair \/ FreshPair(m.fresh),
         m.pc \in LoginStep => FreshSid(m.sid)
  PROVE  FrameReq(r)
  BY DEF FrameReq, TypeOK

\* Ending a request touches no other request.
LEMMA FinishFrame ==
  ASSUME TypeOK, NEW r \in Req, Finish(r), now' = now
  PROVE  FrameReq(r)
  BY StartFrame DEF Finish, Idle, LoginStep

\* Beginning any request satisfies Frame.
LEMMA FrameStart ==
  ASSUME IInv, NEW r \in Req, Start(r)
  PROVE  Frame(r)
  <1> USE DEF IInv
  <1>1. FrameSession(r) /\ FrameToken(r) /\ FrameLock(r)
    BY DEF Start, StartLogin, StartAdmin, StartRefresh, StartLogout, StartAuthenticate,
           FrameSession, FrameToken, FrameLock, database, redis
  <1>2. ASSUME NEW u \in User, StartLogin(r, u) PROVE FrameReq(r)
    <2>1. PICK s \in Sid, k \in Pair :
             /\ FreshSid(s) /\ FreshPair(k)
             /\ req' = [req EXCEPT ![r] = [Idle EXCEPT !.pc = "login_lock", !.user = u,
                        !.sid = s, !.fresh = k, !.began = now, !.seenUser = account[u]]]
      BY <1>2 DEF StartLogin
    <2> QED BY <1>2, <2>1, StartFrame DEF StartLogin, Idle
  <1>3. ASSUME NEW u \in User, NEW op \in Ops, StartAdmin(r, u, op) PROVE FrameReq(r)
    BY <1>3, StartFrame DEF StartAdmin, Idle, LoginStep
  <1>4. ASSUME NEW k \in delivered, StartRefresh(r, k) PROVE FrameReq(r)
    <2>1. PICK n \in Pair :
             /\ FreshPair(n)
             /\ req' = [req EXCEPT ![r] = [Idle EXCEPT !.pc = "refresh_check", !.pair = k,
                        !.sid = token[k].sid, !.fresh = n, !.seenToken = token[k],
                        !.began = now, !.late = Ended(k)]]
      BY <1>4 DEF StartRefresh
    <2> QED BY <1>4, <2>1, StartFrame DEF StartRefresh, Idle, LoginStep
  <1>5. ASSUME NEW k \in delivered, StartLogout(r, k) PROVE FrameReq(r)
    BY <1>5, StartFrame DEF StartLogout, Idle, LoginStep
  <1>6. ASSUME NEW k \in delivered, StartAuthenticate(r, k) PROVE FrameReq(r)
    BY <1>6, StartFrame DEF StartAuthenticate, Idle, LoginStep
  <1> QED BY <1>1, <1>2, <1>3, <1>4, <1>5, <1>6 DEF Start, Frame

\* The steps of a login satisfy Frame.
LEMMA FrameLogin ==
  ASSUME IInv, NEW r \in Req, LoginLock(r) \/ LoginMint(r) \/ LoginCommit(r)
  PROVE  Frame(r)
  <1> USE DEF IInv
  <1>1. CASE LoginLock(r)
    <2>1. FrameReq(r)
      BY <1>1, GotoFrame DEF LoginLock, At, LoginStep
    <2>2. FrameSession(r) /\ FrameToken(r) /\ FrameLock(r)
      BY <1>1 DEF LoginLock, FrameSession, FrameToken, FrameLock, TypeOK, redis
    <2> QED BY <2>1, <2>2 DEF Frame
  <1>2. CASE LoginMint(r)
    <2>1. FrameReq(r)
      BY <1>2, GotoFrame DEF LoginMint, At, LoginStep
    <2>2. FrameSession(r) /\ FrameLock(r)
      BY <1>2 DEF LoginMint, FrameSession, FrameLock, database
    <2>3. FrameToken(r)
      BY <1>2 DEF LoginMint, FrameToken, TypeOK, At, LoginStep
    <2> QED BY <2>1, <2>2, <2>3 DEF Frame
  <1>3. CASE LoginCommit(r)
    <2>1. FrameReq(r)
      BY <1>3, FinishFrame DEF LoginCommit
    <2>2. FrameSession(r)
      BY <1>3 DEF LoginCommit, FrameSession, Commits, TypeOK, redis, At, RequestInv, LoginInv,
                  LoginStep
    <2>3. FrameToken(r)
      BY <1>3 DEF LoginCommit, FrameToken, redis, At
    <2>4. FrameLock(r)
      BY <1>3 DEF LoginCommit, FrameLock, ReleaseLocks, ReleaseUsers
    <2> QED BY <2>1, <2>2, <2>3, <2>4 DEF Frame
  <1> QED BY <1>1, <1>2, <1>3

\* The steps of a refresh satisfy Frame.
LEMMA FrameRefresh ==
  ASSUME IInv, NEW r \in Req,
         \/ RefreshCheck(r) \/ RefreshMint(r) \/ RefreshRotate(r)
         \/ RefreshUser(r) \/ RefreshRecheck(r) \/ RefreshIssue(r)
  PROVE  Frame(r)
  <1> USE DEF IInv
  <1>1. FrameSession(r) /\ FrameLock(r)
    BY DEF RefreshCheck, RefreshMint, RefreshRotate, RefreshUser, RefreshRecheck,
           RefreshIssue, FrameSession, FrameLock, Commits, database, redis, At
  <1>2. FrameReq(r)
    BY GotoFrame, FinishFrame DEF RefreshCheck, RefreshMint, RefreshRotate, RefreshUser,
                                  RefreshRecheck, RefreshIssue, LoginStep
  <1>3. FrameToken(r)
    <2>1. CASE RefreshCheck(r)
      <3>1. UNCHANGED token \/ token' = [token EXCEPT ![req[r].pair].status = "revoked"]
        BY <2>1 DEF RefreshCheck
      <3> QED BY <2>1, <3>1 DEF RefreshCheck, FrameToken, TypeOK, Token
    <2>2. CASE RefreshMint(r)
      BY <2>2 DEF RefreshMint, FrameToken, TypeOK, At, RefreshStep
    <2>3. CASE RefreshRotate(r)
      BY <2>3 DEF RefreshRotate, FrameToken, TypeOK, Token
    <2>4. CASE RefreshUser(r) \/ RefreshRecheck(r)
      BY <2>4 DEF RefreshUser, RefreshRecheck, FrameToken, redis
    <2>5. CASE RefreshIssue(r)
      BY <2>5 DEF RefreshIssue, FrameToken, TypeOK, At, RefreshStep
    <2> QED BY <2>1, <2>2, <2>3, <2>4, <2>5
  <1> QED BY <1>1, <1>2, <1>3 DEF Frame

\* The steps of a revocation satisfy Frame.
LEMMA FrameRevoke ==
  ASSUME IInv, NEW r \in Req, RevokeRow(r) \/ RevokeMark(r) \/ RevokeCommit(r)
  PROVE  Frame(r)
  <1> USE DEF IInv
  <1>1. FrameReq(r)
    <2>1. CASE RevokeRow(r)
      BY <2>1, GotoFrame DEF RevokeRow, LoginStep, FrameReq, TypeOK, Request
    <2>2. CASE RevokeMark(r) \/ RevokeCommit(r)
      BY <2>2, GotoFrame, FinishFrame DEF RevokeMark, RevokeCommit, LoginStep
    <2> QED BY <2>1, <2>2
  <1>2. FrameToken(r)
    BY DEF RevokeRow, RevokeMark, RevokeCommit, FrameToken, redis
  <1>3. FrameLock(r)
    BY DEF RevokeRow, RevokeMark, RevokeCommit, FrameLock, database, ReleaseLocks, ReleaseUsers
  <1>4. FrameSession(r)
    <2>1. CASE RevokeRow(r)
      BY <2>1 DEF RevokeRow, FrameSession, Commits, redis, At
    <2>2. CASE RevokeMark(r)
      BY <2>2 DEF RevokeMark, FrameSession, Commits, database, At, RequestInv, RevokeInv,
                  RevokeStep, TypeOK
    <2>3. CASE RevokeCommit(r)
      BY <2>3 DEF RevokeCommit, FrameSession, Commits, redis, At, RequestInv, RevokeInv, TypeOK,
                  SessionRow
    <2> QED BY <2>1, <2>2, <2>3
  <1> QED BY <1>1, <1>2, <1>3, <1>4 DEF Frame

\* The steps of an administrator's operation satisfy Frame.
LEMMA FrameAdmin ==
  ASSUME IInv, NEW r \in Req,
         AdminLock(r) \/ AdminSweep(r) \/ AdminMark(r) \/ AdminCommit(r)
  PROVE  Frame(r)
  <1> USE DEF IInv
  <1>1. FrameReq(r)
    <2>1. CASE AdminLock(r) \/ AdminCommit(r)
      BY <2>1, GotoFrame, FinishFrame DEF AdminLock, AdminCommit, LoginStep
    <2>2. CASE AdminSweep(r)
      BY <2>2 DEF AdminSweep, LoginStep, FrameReq, TypeOK, Request
    <2>3. CASE AdminMark(r)
      BY <2>3, GotoFrame DEF AdminMark, LoginStep, FrameReq, TypeOK, Request, At
    <2> QED BY <2>1, <2>2, <2>3
  <1>2. FrameToken(r)
    BY DEF AdminLock, AdminSweep, AdminMark, AdminCommit, FrameToken, redis
  <1>3. FrameLock(r)
    BY DEF AdminLock, AdminSweep, AdminMark, AdminCommit, FrameLock, database, ReleaseLocks,
           ReleaseUsers, TypeOK
  <1>4. FrameSession(r)
    <2>1. CASE AdminLock(r) \/ AdminSweep(r)
      BY <2>1 DEF AdminLock, AdminSweep, FrameSession, Commits, redis, At
    <2>2. CASE AdminMark(r)
      BY <2>2 DEF AdminMark, FrameSession, Commits, database, At, RequestInv, RevokeInv, TypeOK
    <2>3. CASE AdminCommit(r)
      BY <2>3 DEF AdminCommit, FrameSession, Commits, redis, At, RequestInv, RevokeInv, TypeOK,
                  SessionRow
    <2> QED BY <2>1, <2>2, <2>3
  <1> QED BY <1>1, <1>2, <1>3, <1>4 DEF Frame

\* The steps of an authentication, and a failure, satisfy Frame.
LEMMA FrameRest ==
  ASSUME IInv, NEW r \in Req, AuthUser(r) \/ AuthServe(r) \/ Abort(r)
  PROVE  Frame(r)
  <1> USE DEF IInv
  <1>1. FrameReq(r)
    BY GotoFrame, FinishFrame DEF AuthUser, AuthServe, Abort, LoginStep
  <1>2. FrameToken(r)
    BY DEF AuthUser, AuthServe, Abort, FrameToken, redis
  <1>3. FrameLock(r)
    BY DEF AuthUser, AuthServe, Abort, FrameLock, database, ReleaseLocks, ReleaseUsers
  <1>4. FrameSession(r)
    <2>1. CASE AuthUser(r) \/ AuthServe(r)
      BY <2>1 DEF AuthUser, AuthServe, FrameSession, Commits, redis, database, At
    <2>2. CASE Abort(r)
      BY <2>2 DEF Abort, FrameSession, redis, At
    <2> QED BY <2>1, <2>2
  <1> QED BY <1>1, <1>2, <1>3, <1>4 DEF Frame

\* A step of r leaves the invariant of every other request as it was.
LEMMA Others ==
  ASSUME IInv, TypeOK', NEW r \in Req, Frame(r), NEW q \in Req, q # r
  PROVE  (RunInv(q) /\ LoginInv(q) /\ RefreshInv(q) /\ RevokeInv(q) /\ SweepInv(q))'
  <1> USE DEF IInv
  <1>1. req'[q] = req[q] /\ now' = now
    BY DEF Frame, FrameReq
  <1>2. req[q] \in Request /\ req[r] \in Request
    BY DEF TypeOK
  <1>3. req[r].pc \in LoginStep \cup RefreshStep =>
           /\ req[r].fresh \in Pair /\ req[r].fresh \notin delivered
           /\ req[q].fresh # req[r].fresh
    BY DEF RequestInv, RunInv, LoginInv, RefreshInv, DistinctInv
  <1>4. RunInv(q)'
    BY <1>1, <1>3 DEF RequestInv, RunInv, Frame, FrameToken, LoginStep, RefreshStep
  <1>5. LoginInv(q)'
    <2>1. ASSUME req[q].pc \in LoginStep
          PROVE  session'[req[q].sid].status = "absent"
      <3>1. req[q].sid \in Sid /\ session[req[q].sid].status = "absent"
        BY <2>1 DEF RequestInv, LoginInv
      <3>2. ~Commits(r, req[q].sid)
        BY <2>1 DEF Commits, DistinctInv, LoginStep
      <3> QED BY <3>1, <3>2 DEF Frame, FrameSession
    <2>2. req[q].pc = "login_commit" => token'[req[q].fresh].sid = req[q].sid
      BY <1>3 DEF RequestInv, LoginInv, LoginStep, Frame, FrameToken
    <2> QED BY <1>1, <2>1, <2>2 DEF RequestInv, LoginInv
  <1>6. RefreshInv(q)'
    <2>1. ASSUME req[q].pc \in RefreshStep
          PROVE  /\ req[q].pair \in delivered' /\ req[q].sid \in Sid /\ req[q].fresh \in Pair
                 /\ token'[req[q].pair].sid = token[req[q].pair].sid
                 /\ token'[req[q].pair].born = token[req[q].pair].born
                 /\ token'[req[q].fresh].sid = token[req[q].fresh].sid
                 /\ token'[req[q].fresh].born = token[req[q].fresh].born
      <3>1. req[q].pair \in delivered /\ req[q].sid = token[req[q].pair].sid /\ req[q].fresh \in Pair
        BY <2>1 DEF RequestInv, RefreshInv
      <3>2. req[q].pair \in Pair /\ req[q].sid \in Sid
        BY <3>1 DEF StoreInv, TypeOK
      <3> QED BY <1>3, <3>1, <3>2 DEF Frame, FrameToken
    <2>2. \A s \in Sid : /\ markedAt[s] # Never => markedAt'[s] # Never
                         /\ markedAt'[s] = markedAt[s] \/ markedAt'[s] = now
      BY DEF Frame, FrameSession, TypeOK, Never
    <2>3. req[q].pc \in RefreshStep =>
             req[q].began <= now /\ token[req[q].fresh].born <= now
      BY <2>1 DEF RequestInv, RunInv, TimeInv, RefreshStep
    <2>4. req[q].pc \in RefreshStep =>
          /\ req[q].pair \in delivered' /\ req[q].fresh \in Pair
          /\ req[q].sid = token'[req[q].pair].sid
          /\ req[q].seenToken.born = token'[req[q].pair].born
          /\ req[q].late => markedAt'[req[q].sid] # Never
      BY <2>1, <2>2 DEF RequestInv, RefreshInv
    <2>5. req[q].pc \in Checked =>
          /\ ~req[q].late
          /\ markedAt'[req[q].sid] # Never => req[q].began <= markedAt'[req[q].sid]
      BY <2>1, <2>2, <2>3 DEF RequestInv, RefreshInv, Checked, RefreshStep
    <2>6. req[q].pc \in Minted => token'[req[q].fresh].sid = req[q].sid
      BY <2>1 DEF RequestInv, RefreshInv, Checked, Minted, RefreshStep
    <2>7. req[q].pc = "refresh_issue" /\ markedAt'[req[q].sid] # Never =>
          token'[req[q].fresh].born <= markedAt'[req[q].sid]
      BY <2>1, <2>2, <2>3 DEF RequestInv, RefreshInv, RefreshStep
    <2> QED BY <1>1, <2>4, <2>5, <2>6, <2>7 DEF RequestInv, RefreshInv
  <1>7. RevokeInv(q)'
    <2>1. \A s \in Sid : /\ session[s].status # "absent" => session'[s].status # "absent"
                         /\ markedAt[s] # Never => markedAt'[s] # Never
      BY DEF Frame, FrameSession, TypeOK, Never
    <2>2. req[q].sweep \subseteq Sid
      BY <1>2, Fields
    <2> QED BY <1>1, <2>1, <2>2 DEF RequestInv, RevokeInv
  <1>8. SweepInv(q)'
    <2>1. req[q].pc \in HoldsUser =>
             req[q].user \in User /\ userLock[req[q].user] = q /\ userLock'[req[q].user] = q
      BY NullAssumption DEF RequestInv, SweepInv, LoginInv, HoldsUser, LoginStep, AdminStep,
                            Frame, FrameLock
    <2>2. ASSUME req[q].pc \in {"admin_mark", "admin_commit"}, req[q].op \in RevokingOp
          PROVE  ActiveSessions(req[q].user)' \subseteq req[q].sweep
      <3> SUFFICES ASSUME NEW s \in Sid, session'[s].user = req[q].user,
                          session'[s].status = "active"
                   PROVE  s \in ActiveSessions(req[q].user)
        BY <1>1, <2>2 DEF ActiveSessions, RequestInv, SweepInv
      <3>1. ~(Commits(r, s) /\ session'[s] = [user |-> req[r].user, status |-> "active"])
        <4>1. userLock[req[q].user] = q
          BY <2>1, <2>2 DEF HoldsUser
        <4>2. Commits(r, s) => userLock[req[r].user] = r
          BY DEF Commits, RequestInv, SweepInv, HoldsUser
        <4> QED BY <4>1, <4>2
      <3>2. session[s].status # "absent"
        BY <3>1 DEF Frame, FrameSession
      <3> QED BY <3>2 DEF Frame, FrameSession, ActiveSessions
    <2> QED BY <1>1, <2>1, <2>2 DEF RequestInv, SweepInv
  <1> QED BY <1>4, <1>5, <1>6, <1>7, <1>8

\* No step gives two requests the same random ids.
LEMMA DistinctKept ==
  ASSUME IInv, TypeOK', NEW r \in Req, Frame(r)
  PROVE  DistinctInv'
  <1> USE DEF IInv
  <1> SUFFICES ASSUME NEW p \in Req, NEW q \in Req, p # q
               PROVE  /\ req'[p].fresh \in Pair => req'[q].fresh # req'[p].fresh
                      /\ req'[p].pc \in LoginStep /\ req'[q].pc \in LoginStep =>
                            req'[q].sid # req'[p].sid
    BY DEF DistinctInv
  <1>1. \A x \in Req : x # r => req'[x] = req[x]
    BY DEF Frame, FrameReq
  <1>2. ASSUME NEW x \in Req, x # r
        PROVE  /\ req'[r].fresh \in Pair => req'[r].fresh # req[x].fresh
               /\ req'[r].pc \in LoginStep /\ req[x].pc \in LoginStep =>
                     req'[r].sid # req[x].sid
    BY <1>2, NullAssumption DEF Frame, FrameReq, FreshPair, FreshSid, DistinctInv
  <1>3. CASE p # r /\ q # r
    BY <1>1, <1>3 DEF DistinctInv
  <1>4. CASE p = r
    BY <1>1, <1>2, <1>4
  <1>5. CASE q = r
    BY <1>1, <1>2, <1>5
  <1> QED BY <1>3, <1>4, <1>5
=============================================================================
