----------------------- MODULE SessionLifecycle_proofs -----------------------
(***************************************************************************)
(* Every step of SessionLifecycle preserves the inductive invariant of     *)
(* SessionInvariant, and the safety properties follow from it.             *)
(***************************************************************************)
EXTENDS SessionInvariant

-----------------------------------------------------------------------------
(* What a step does to the request that takes it *)

\* The part of the invariant about one request
Own(r) == RunInv(r) /\ LoginInv(r) /\ RefreshInv(r) /\ RevokeInv(r) /\ SweepInv(r)

\* Moving on changes nothing of a request but the step it is at.
LEMMA GotoFields ==
  ASSUME TypeOK, NEW r \in Req, NEW step, Goto(r, step)
  PROVE  /\ req'[r].pc = step
         /\ req'[r].op = req[r].op /\ req'[r].user = req[r].user /\ req'[r].sid = req[r].sid
         /\ req'[r].pair = req[r].pair /\ req'[r].fresh = req[r].fresh
         /\ req'[r].seenUser = req[r].seenUser /\ req'[r].seenToken = req[r].seenToken
         /\ req'[r].sweep = req[r].sweep /\ req'[r].todo = req[r].todo
         /\ req'[r].began = req[r].began /\ req'[r].late = req[r].late
  BY DEF Goto, TypeOK, Request

\* A request that has ended is bound by nothing.
LEMMA OwnFinish ==
  ASSUME IInv, NEW r \in Req, Finish(r)
  PROVE  Own(r)'
  <1>1. req'[r] = Idle
    BY DEF Finish, IInv, TypeOK
  <1> QED BY <1>1, NullAssumption DEF Idle, Own, RunInv, LoginInv, RefreshInv, RevokeInv, SweepInv,
             LoginStep, RefreshStep, Checked, Minted, RevokeStep, AdminStep, AuthStep, HoldsUser

\* A request that begins satisfies its part of the invariant: an authentication
\* that passes the blacklist and the marker is not late, since a marker expires
\* only after every access token of its session.
LEMMA OwnStart ==
  ASSUME IInv, NEW r \in Req, Start(r)
  PROVE  Own(r)'
  <1> USE DEF IInv
  <1>0. now' = now /\ UNCHANGED <<delivered, database, markedAt, token>>
    BY DEF Start, StartLogin, StartAdmin, StartRefresh, StartLogout, StartAuthenticate, redis
  <1>a. now \in Nat /\ now <= now + Stall
    BY TimingAssumption DEF TypeOK
  <1>b. \A k \in delivered : k \in Pair /\ token[k] \in Token /\ token[k].sid \in Sid
                             /\ session[token[k].sid].status # "absent"
    BY DEF StoreInv, TypeOK
  <1>c. \A k \in Pair : FreshPair(k) => k \notin delivered
    BY <1>b, NullAssumption DEF FreshPair, NoToken
  <1>1. ASSUME NEW u \in User, StartLogin(r, u) PROVE Own(r)'
    <2>1. PICK s \in Sid, k \in Pair :
             /\ FreshSid(s) /\ FreshPair(k)
             /\ req' = [req EXCEPT ![r] = [Idle EXCEPT !.pc = "login_lock", !.user = u,
                        !.sid = s, !.fresh = k, !.began = now, !.seenUser = account[u]]]
      BY <1>1 DEF StartLogin
    <2>2. /\ req'[r].pc = "login_lock" /\ req'[r].user = u /\ req'[r].sid = s
          /\ req'[r].fresh = k /\ req'[r].began = now /\ req'[r].sweep = {} /\ req'[r].todo = {}
      BY <2>1 DEF TypeOK, Idle
    <2>3. session[s].status = "absent" /\ k \notin delivered
      BY <1>c, <2>1 DEF FreshSid
    <2> QED BY <1>0, <1>a, <2>2, <2>3
            DEF database, Own, RunInv, LoginInv, RefreshInv, RevokeInv, SweepInv,
             LoginStep, RefreshStep, Checked, Minted, RevokeStep, AdminStep, AuthStep, HoldsUser
  <1>2. ASSUME NEW u \in User, NEW op \in Ops, StartAdmin(r, u, op) PROVE Own(r)'
    <2>1. /\ req'[r].pc = "admin_lock" /\ req'[r].user = u /\ req'[r].fresh = NoPair
          /\ req'[r].began = now /\ req'[r].sweep = {} /\ req'[r].todo = {}
      BY <1>2 DEF StartAdmin, TypeOK, Idle
    <2> QED BY <1>0, <1>a, <2>1, NullAssumption
            DEF Own, RunInv, LoginInv, RefreshInv, RevokeInv, SweepInv,
             LoginStep, RefreshStep, Checked, Minted, RevokeStep, AdminStep, AuthStep, HoldsUser
  <1>3. ASSUME NEW k \in delivered, StartRefresh(r, k) PROVE Own(r)'
    <2>1. PICK n \in Pair :
             /\ FreshPair(n)
             /\ req' = [req EXCEPT ![r] = [Idle EXCEPT !.pc = "refresh_check", !.pair = k,
                        !.sid = token[k].sid, !.fresh = n, !.seenToken = token[k],
                        !.began = now, !.late = Ended(k)]]
      BY <1>3 DEF StartRefresh
    <2>2. /\ req'[r].pc = "refresh_check" /\ req'[r].pair = k /\ req'[r].sid = token[k].sid
          /\ req'[r].fresh = n /\ req'[r].seenToken = token[k] /\ req'[r].late = Ended(k)
          /\ req'[r].began = now /\ req'[r].sweep = {} /\ req'[r].todo = {}
      BY <2>1 DEF TypeOK, Idle
    <2>3. req'[r].late => markedAt[token[k].sid] # Never
      BY <2>2 DEF Ended
    <2> QED BY <1>0, <1>a, <1>c, <2>1, <2>2, <2>3
            DEF Own, RunInv, LoginInv, RefreshInv, RevokeInv, SweepInv,
             LoginStep, RefreshStep, Checked, Minted, RevokeStep, AdminStep, AuthStep, HoldsUser
  <1>4. ASSUME NEW k \in delivered, StartLogout(r, k) PROVE Own(r)'
    <2>1. /\ req'[r].pc = "revoke_row" /\ req'[r].sid = token[k].sid /\ req'[r].fresh = NoPair
          /\ req'[r].began = now /\ req'[r].sweep = {} /\ req'[r].todo = {}
      BY <1>4 DEF StartLogout, TypeOK, Idle
    <2> QED BY <1>0, <1>a, <1>b, <2>1, NullAssumption
            DEF database, Own, RunInv, LoginInv, RefreshInv, RevokeInv, SweepInv,
             LoginStep, RefreshStep, Checked, Minted, RevokeStep, AdminStep, AuthStep, HoldsUser
  <1>5. ASSUME NEW k \in delivered, StartAuthenticate(r, k) PROVE Own(r)'
    <2>1. /\ req'[r].pc = "auth_user" /\ req'[r].sid = token[k].sid /\ req'[r].fresh = NoPair
          /\ req'[r].began = now /\ req'[r].sweep = {} /\ req'[r].todo = {}
          /\ req'[r].late = Barred(k)
      BY <1>5 DEF StartAuthenticate, TypeOK, Idle
    <2>2. /\ token[k].accessBorn \in Int /\ now < token[k].accessBorn + AccessTTL
          /\ markedAt[token[k].sid] \in Int /\ blackUntil[k] \in Int
      BY <1>5, <1>b, TokenFields DEF StartAuthenticate, AccessValid, TypeOK, Time, Never
    <2>3. markedAt[token[k].sid] = Never
      BY <1>5, <1>a, <2>2, TimingAssumption
         DEF StartAuthenticate, SessionActive, Marked, MarkerOutlivesTokens
    <2>4. blackUntil[k] = Never
      BY <1>5, <1>b, <2>2 DEF StartAuthenticate, Blacklisted, StoreInv
    <2>5. ~req'[r].late
      BY <2>1, <2>3, <2>4 DEF Barred, Ended
    <2> QED BY <1>0, <1>a, <1>b, <2>1, <2>5, NullAssumption
            DEF Own, RunInv, LoginInv, RefreshInv, RevokeInv, SweepInv,
             LoginStep, RefreshStep, Checked, Minted, RevokeStep, AdminStep, AuthStep, HoldsUser
  <1> QED BY <1>1, <1>2, <1>3, <1>4, <1>5 DEF Start

\* The steps of a login keep its ids, and hold the user's row lock from LoginLock on.
LEMMA OwnLogin ==
  ASSUME IInv, NEW r \in Req, LoginLock(r) \/ LoginMint(r) \/ LoginCommit(r)
  PROVE  Own(r)'
  <1> USE DEF IInv
  <1>1. CASE LoginLock(r)
    <2>1. /\ req'[r].pc = "login_mint" /\ req'[r].user = req[r].user
          /\ req'[r].sid = req[r].sid /\ req'[r].fresh = req[r].fresh
          /\ req'[r].began = req[r].began
          /\ req'[r].sweep = req[r].sweep /\ req'[r].todo = req[r].todo
      BY <1>1, GotoFields DEF LoginLock
    <2>2. Own(r) /\ req[r].pc = "login_lock"
      BY <1>1 DEF LoginLock, At, RequestInv, Own
    <2>3. userLock'[req[r].user] = r
      BY <1>1, <2>2 DEF LoginLock, TypeOK, Own, LoginInv, LoginStep
    <2>4. UNCHANGED <<now, session, delivered, markedAt, token>>
      BY <1>1 DEF LoginLock, redis
    <2> QED BY <2>1, <2>2, <2>3, <2>4
            DEF Own, RunInv, LoginInv, RefreshInv, RevokeInv, SweepInv,
             LoginStep, RefreshStep, Checked, Minted, RevokeStep, AdminStep, AuthStep,
             HoldsUser, Sweeping
  <1>2. CASE LoginMint(r)
    <2>1. /\ req'[r].pc = "login_commit" /\ req'[r].user = req[r].user
          /\ req'[r].sid = req[r].sid /\ req'[r].fresh = req[r].fresh
          /\ req'[r].began = req[r].began
          /\ req'[r].sweep = req[r].sweep /\ req'[r].todo = req[r].todo
      BY <1>2, GotoFields DEF LoginMint
    <2>2. Own(r) /\ req[r].pc = "login_mint"
      BY <1>2 DEF LoginMint, At, RequestInv, Own
    <2>3. token'[req[r].fresh].sid = req[r].sid
      BY <1>2, <2>2 DEF LoginMint, TypeOK, Own, LoginInv, LoginStep, FreshToken
    <2>4. UNCHANGED <<now, session, delivered, userLock, markedAt>>
      BY <1>2 DEF LoginMint, database
    <2> QED BY <2>1, <2>2, <2>3, <2>4
            DEF Own, RunInv, LoginInv, RefreshInv, RevokeInv, SweepInv,
             LoginStep, RefreshStep, Checked, Minted, RevokeStep, AdminStep, AuthStep,
             HoldsUser, Sweeping
  <1>3. CASE LoginCommit(r)
    BY <1>3, OwnFinish DEF LoginCommit
  <1> QED BY <1>1, <1>2, <1>3

\* A check of the session that passes while the presented token is unexpired
\* shows that the session was never marked.
LEMMA PassedCheck ==
  ASSUME IInv, NEW r \in Req, At(r, "refresh_check"), SessionActive(req[r].sid),
         ~Expired(req[r].seenToken)
  PROVE  markedAt[req[r].sid] = Never
  <1> USE DEF IInv
  <1>1. req[r].pair \in delivered /\ req[r].pair \in Pair /\ req[r].sid \in Sid
        /\ req[r].sid = token[req[r].pair].sid
        /\ req[r].seenToken.born = token[req[r].pair].born
    BY DEF At, RequestInv, RefreshInv, RefreshStep, StoreInv, TypeOK
  <1>2. token[req[r].pair].born \in Int /\ now \in Int /\ markedAt[req[r].sid] \in Int
    BY <1>1, TokenFields DEF TypeOK, Time, Never
  <1> QED BY <1>1, <1>2, TimingAssumption
          DEF MarkerOutlivesTokens, SessionActive, Marked, Expired

\* The second check of a refresh passes only if the session was never marked: a
\* marker written since the request began has not expired yet.
LEMMA PassedRecheck ==
  ASSUME IInv, NEW r \in Req, At(r, "refresh_recheck"), SessionActive(req[r].sid)
  PROVE  markedAt[req[r].sid] = Never
  <1> USE DEF IInv
  <1>1. /\ req[r].sid \in Sid /\ req[r].began <= now /\ now <= req[r].began + Stall
        /\ markedAt[req[r].sid] # Never => req[r].began <= markedAt[req[r].sid]
    BY DEF At, RequestInv, RefreshInv, RefreshStep, RunInv, Checked, StoreInv, TypeOK
  <1>2. now \in Int /\ markedAt[req[r].sid] \in Int /\ req[r] \in Request
    BY <1>1 DEF TypeOK, Time, Never
  <1>3. req[r].began \in Int
    BY <1>2, Fields DEF Time, Never
  <1> QED BY <1>1, <1>2, <1>3, TimingAssumption DEF SessionActive, Marked

\* The steps of a refresh.
LEMMA OwnRefresh ==
  ASSUME IInv, NEW r \in Req,
         \/ RefreshCheck(r) \/ RefreshMint(r) \/ RefreshRotate(r)
         \/ RefreshUser(r) \/ RefreshRecheck(r) \/ RefreshIssue(r)
  PROVE  Own(r)'
  <1> USE DEF IInv
  <1>1. ASSUME NEW step \in RefreshStep \cup {"revoke_row"}, Goto(r, step)
        PROVE  /\ req'[r].pc = step /\ req'[r].pair = req[r].pair
               /\ req'[r].sid = req[r].sid /\ req'[r].fresh = req[r].fresh
               /\ req'[r].began = req[r].began /\ req'[r].late = req[r].late
               /\ req'[r].sweep = req[r].sweep /\ req'[r].todo = req[r].todo
               /\ req'[r].seenToken = req[r].seenToken
    BY <1>1, GotoFields
  <1>2. /\ req[r].pc \in RefreshStep /\ Own(r) /\ req[r] \in Request
        /\ req[r].pair \in delivered /\ req[r].pair \in Pair
        /\ req[r].fresh \in Pair /\ req[r].fresh \notin delivered
        /\ req[r].sid \in Sid /\ session[req[r].sid].status # "absent"
    <2>1. req[r].pc \in RefreshStep /\ Own(r) /\ req[r] \in Request
      BY DEF RefreshCheck, RefreshMint, RefreshRotate, RefreshUser, RefreshRecheck,
             RefreshIssue, At, RefreshStep, RequestInv, Own, TypeOK
    <2> QED BY <2>1 DEF Own, RefreshInv, RunInv, StoreInv, TypeOK
  <1>3. ASSUME RefreshCheck(r) PROVE Own(r)'
    <2>1. UNCHANGED <<now, session, delivered, userLock, markedAt>>
      BY <1>3 DEF RefreshCheck, database
    <2>2. CASE Finish(r)
      BY <2>2, OwnFinish
    <2>3. CASE SessionActive(req[r].sid) /\ ~Expired(req[r].seenToken)
               /\ UNCHANGED token /\ Goto(r, "refresh_mint")
      <3>1. markedAt[req[r].sid] = Never
        BY <1>3, <2>3, PassedCheck DEF RefreshCheck
      <3> QED BY <1>1, <1>2, <2>1, <2>3, <3>1
              DEF Own, RunInv, LoginInv, RefreshInv, RevokeInv, SweepInv,
               LoginStep, RefreshStep, Checked, Minted, RevokeStep, AdminStep, AuthStep,
               HoldsUser, Sweeping
    <2>4. CASE UNCHANGED token /\ Goto(r, "revoke_row")
      BY <1>1, <1>2, <2>1, <2>4
         DEF Own, RunInv, LoginInv, RefreshInv, RevokeInv, SweepInv,
             LoginStep, RefreshStep, Checked, Minted, RevokeStep, AdminStep, AuthStep,
             HoldsUser, Sweeping
    <2> QED BY <1>3, <2>2, <2>3, <2>4 DEF RefreshCheck
  <1>4. ASSUME RefreshMint(r) PROVE Own(r)'
    <2>1. /\ UNCHANGED <<now, session, delivered, userLock, markedAt>>
          /\ Goto(r, "refresh_rotate") /\ req[r].pc = "refresh_mint"
      BY <1>4 DEF RefreshMint, database, At
    <2>2. token'[req[r].fresh].sid = req[r].sid /\ token'[req[r].pair] = token[req[r].pair]
      BY <1>2, <1>4 DEF RefreshMint, FreshToken, TypeOK
    <2> QED BY <1>1, <1>2, <2>1, <2>2
            DEF Own, RunInv, LoginInv, RefreshInv, RevokeInv, SweepInv,
             LoginStep, RefreshStep, Checked, Minted, RevokeStep, AdminStep, AuthStep,
             HoldsUser, Sweeping
  <1>5. ASSUME RefreshRotate(r) PROVE Own(r)'
    <2>1. /\ UNCHANGED <<now, session, delivered, userLock, markedAt>>
          /\ Goto(r, "refresh_user") /\ req[r].pc = "refresh_rotate"
      BY <1>5 DEF RefreshRotate, database, At
    <2>2. /\ token'[req[r].fresh] = token[req[r].fresh]
          /\ token'[req[r].pair].sid = token[req[r].pair].sid
          /\ token'[req[r].pair].born = token[req[r].pair].born
      BY <1>2, <1>5 DEF RefreshRotate, TypeOK, Token
    <2> QED BY <1>1, <1>2, <2>1, <2>2
            DEF Own, RunInv, LoginInv, RefreshInv, RevokeInv, SweepInv,
             LoginStep, RefreshStep, Checked, Minted, RevokeStep, AdminStep, AuthStep,
             HoldsUser, Sweeping
  <1>6. ASSUME RefreshUser(r) PROVE Own(r)'
    <2>1. /\ UNCHANGED <<now, session, delivered, userLock, markedAt, token>>
          /\ Goto(r, "refresh_recheck") \/ Goto(r, "revoke_row")
          /\ req[r].pc = "refresh_user"
      BY <1>6 DEF RefreshUser, database, redis, At
    <2> QED BY <1>1, <1>2, <2>1
            DEF Own, RunInv, LoginInv, RefreshInv, RevokeInv, SweepInv,
             LoginStep, RefreshStep, Checked, Minted, RevokeStep, AdminStep, AuthStep,
             HoldsUser, Sweeping
  <1>7. ASSUME RefreshRecheck(r) PROVE Own(r)'
    <2>1. /\ UNCHANGED <<now, session, delivered, userLock, markedAt, token>>
          /\ \/ Goto(r, "refresh_issue") /\ markedAt[req[r].sid] = Never
             \/ Goto(r, "revoke_row")
          /\ req[r].pc = "refresh_recheck"
      BY <1>7, PassedRecheck DEF RefreshRecheck, database, redis, At
    <2> QED BY <1>1, <1>2, <2>1
            DEF Own, RunInv, LoginInv, RefreshInv, RevokeInv, SweepInv,
             LoginStep, RefreshStep, Checked, Minted, RevokeStep, AdminStep, AuthStep,
             HoldsUser, Sweeping
  <1>8. ASSUME RefreshIssue(r) PROVE Own(r)'
    BY <1>8, OwnFinish DEF RefreshIssue
  <1> QED BY <1>3, <1>4, <1>5, <1>6, <1>7, <1>8

\* A revocation marks the session it is about to revoke.
LEMMA OwnRevoke ==
  ASSUME IInv, NEW r \in Req, RevokeRow(r) \/ RevokeMark(r) \/ RevokeCommit(r)
  PROVE  Own(r)'
  <1> USE DEF IInv
  <1>1. Own(r) /\ req[r] \in Request /\ now \in Nat
    BY DEF RequestInv, Own, TypeOK
  <1>2. CASE RevokeRow(r)
    <2>1. /\ req'[r].pc = "revoke_mark" /\ req'[r].sid = req[r].sid
          /\ req'[r].fresh = req[r].fresh /\ req'[r].began = req[r].began
          /\ req'[r].todo = req[r].todo
          /\ req'[r].sweep \in {req[r].sweep, {req[r].sid}}
      BY <1>1, <1>2, GotoFields DEF RevokeRow, TypeOK, Request
    <2>2. UNCHANGED <<now, session, delivered, markedAt>> /\ req[r].pc = "revoke_row"
      BY <1>2 DEF RevokeRow, redis, At
    <2>3. req[r].sweep = {} /\ req[r].todo = {}
      BY <1>1, <2>2 DEF Own, RevokeInv, Sweeping
    <2> QED BY <1>1, <2>1, <2>2, <2>3
            DEF Own, RunInv, LoginInv, RefreshInv, RevokeInv, SweepInv,
             LoginStep, RefreshStep, Checked, Minted, RevokeStep, AdminStep, AuthStep,
             HoldsUser, Sweeping
  <1>3. CASE RevokeMark(r)
    <2>1. /\ req'[r].pc = "revoke_commit" /\ req'[r].sid = req[r].sid
          /\ req'[r].fresh = req[r].fresh /\ req'[r].began = req[r].began
          /\ req'[r].todo = req[r].todo /\ req'[r].sweep = req[r].sweep
      BY <1>3, GotoFields DEF RevokeMark
    <2>2. UNCHANGED <<now, session, delivered>> /\ req[r].pc = "revoke_mark"
      BY <1>3 DEF RevokeMark, database, At
    <2>3. \A s \in req[r].sweep : session[s].status # "absent" /\ markedAt'[s] # Never
      <3>1. req[r].sid \in Sid /\ req[r].sweep \subseteq Sid
        BY <1>1, <2>2 DEF Own, RevokeInv, RevokeStep, Request
      <3>2. \A s \in Sid : markedAt'[s] = IF s = req[r].sid THEN now ELSE markedAt[s]
        BY <1>3 DEF RevokeMark, TypeOK
      <3> QED BY <1>1, <2>2, <3>1, <3>2 DEF Own, RevokeInv, Never
    <2> QED BY <1>1, <2>1, <2>2, <2>3
            DEF Own, RunInv, LoginInv, RefreshInv, RevokeInv, SweepInv,
             LoginStep, RefreshStep, Checked, Minted, RevokeStep, AdminStep, AuthStep,
             HoldsUser, Sweeping
  <1>4. CASE RevokeCommit(r)
    BY <1>4, OwnFinish DEF RevokeCommit
  <1> QED BY <1>2, <1>3, <1>4

\* An administrator's operation holds the user's row from AdminLock, has every
\* active session in its sweep from AdminSweep, and has all of them marked when
\* it commits.
LEMMA OwnAdmin ==
  ASSUME IInv, NEW r \in Req,
         AdminLock(r) \/ AdminSweep(r) \/ AdminMark(r) \/ AdminCommit(r)
  PROVE  Own(r)'
  <1> USE DEF IInv
  <1>1. Own(r) /\ req[r] \in Request /\ now \in Nat
    BY DEF RequestInv, Own, TypeOK
  <1>2. CASE AdminLock(r)
    <2>1. CASE Finish(r)
      BY <2>1, OwnFinish
    <2>2. CASE /\ userLock' = [userLock EXCEPT ![req[r].user] = r]
               /\ Goto(r, IF req[r].op \in RevokingOp THEN "admin_sweep" ELSE "admin_commit")
      <3>1. /\ UNCHANGED <<now, session, delivered, markedAt>>
            /\ req[r].pc = "admin_lock" /\ req[r].user \in User
        BY <1>1, <1>2 DEF AdminLock, redis, At, Own, SweepInv, AdminStep
      <3>2. /\ req'[r].pc = IF req[r].op \in RevokingOp THEN "admin_sweep" ELSE "admin_commit"
            /\ req'[r].user = req[r].user /\ req'[r].op = req[r].op
            /\ req'[r].fresh = req[r].fresh /\ req'[r].began = req[r].began
            /\ req'[r].sweep = req[r].sweep /\ req'[r].todo = req[r].todo
        BY <2>2, GotoFields
      <3>3. userLock'[req[r].user] = r
        BY <2>2, <3>1 DEF TypeOK
      <3>4. req[r].sweep = {} /\ req[r].todo = {}
        BY <1>1, <3>1 DEF Own, RevokeInv, Sweeping
      <3> QED BY <1>1, <3>1, <3>2, <3>3, <3>4
              DEF Own, RunInv, LoginInv, RefreshInv, RevokeInv, SweepInv,
               LoginStep, RefreshStep, Checked, Minted, RevokeStep, AdminStep, AuthStep,
               HoldsUser, Sweeping
    <2> QED BY <1>2, <2>1, <2>2 DEF AdminLock
  <1>3. CASE AdminSweep(r)
    <2> DEFINE S == ActiveSessions(req[r].user)
    <2>1. /\ req'[r].pc = "admin_mark" /\ req'[r].user = req[r].user /\ req'[r].op = req[r].op
          /\ req'[r].fresh = req[r].fresh /\ req'[r].began = req[r].began
          /\ req'[r].sweep = S /\ req'[r].todo = S
      BY <1>1, <1>3 DEF AdminSweep, TypeOK, Request
    <2>2. /\ UNCHANGED <<now, userLock, session, delivered, markedAt>>
          /\ req[r].pc = "admin_sweep"
      BY <1>3 DEF AdminSweep, redis, At
    <2>3. \A s \in S : session[s].status # "absent"
      BY DEF ActiveSessions
    <2>4. ActiveSessions(req[r].user)' = S
      BY <2>1, <2>2 DEF ActiveSessions
    <2> HIDE DEF S
    <2> QED BY <1>1, <2>1, <2>2, <2>3, <2>4
            DEF Own, RunInv, LoginInv, RefreshInv, RevokeInv, SweepInv,
             LoginStep, RefreshStep, Checked, Minted, RevokeStep, AdminStep, AuthStep,
             HoldsUser, Sweeping
  <1>4. CASE AdminMark(r)
    <2>1. UNCHANGED <<now, session, userLock, delivered>> /\ req[r].pc = "admin_mark"
      BY <1>4 DEF AdminMark, database, At
    <2>2. /\ req'[r].user = req[r].user /\ req'[r].op = req[r].op
          /\ req'[r].fresh = req[r].fresh /\ req'[r].began = req[r].began
          /\ req'[r].sweep = req[r].sweep
          /\ \/ \E s \in req[r].todo : /\ markedAt' = [markedAt EXCEPT ![s] = now]
                                       /\ req'[r].todo = req[r].todo \ {s}
                                       /\ req'[r].pc = "admin_mark"
             \/ /\ req[r].todo = {} /\ req'[r].todo = {} /\ UNCHANGED markedAt
                /\ req'[r].pc = "admin_commit"
      BY <1>1, <1>4, <2>1, GotoFields DEF AdminMark, TypeOK, Request
    <2>3. \A s \in req[r].sweep :
             /\ session[s].status # "absent"
             /\ \/ markedAt'[s] # Never
                \/ req'[r].pc = "admin_mark" /\ s \in req'[r].todo
      <3>1. \A s \in req[r].sweep : /\ session[s].status # "absent"
                                    /\ markedAt[s] # Never \/ s \in req[r].todo
        BY <1>1, <2>1 DEF Own, RevokeInv
      <3>2. req[r].sweep \subseteq Sid
        BY <1>1, Fields
      <3> QED BY <1>1, <2>2, <3>1, <3>2 DEF TypeOK, Never
    <2>4. req'[r].todo \subseteq req[r].sweep
      BY <1>1, <2>2 DEF Own, RevokeInv
    <2>5. ActiveSessions(req[r].user)' = ActiveSessions(req[r].user)
      BY <2>1, <2>2 DEF ActiveSessions
    <2>6. RevokeInv(r)'
      BY <2>1, <2>2, <2>3, <2>4 DEF RevokeInv, Sweeping, RevokeStep
    <2>7. SweepInv(r)'
      BY <1>1, <2>1, <2>2, <2>5 DEF Own, SweepInv, AdminStep, HoldsUser
    <2> QED BY <1>1, <2>1, <2>2, <2>6, <2>7
            DEF Own, RunInv, LoginInv, RefreshInv, LoginStep, RefreshStep, Checked, Minted, AuthStep
  <1>5. CASE AdminCommit(r)
    BY <1>5, OwnFinish DEF AdminCommit
  <1> QED BY <1>2, <1>3, <1>4, <1>5

\* The rest of an authentication, and the end of a request by a failure.
LEMMA OwnRest ==
  ASSUME IInv, NEW r \in Req, AuthUser(r) \/ AuthServe(r) \/ Abort(r)
  PROVE  Own(r)'
  <1> USE DEF IInv
  <1>1. CASE Finish(r)
    BY <1>1, OwnFinish
  <1>2. CASE AuthUser(r) /\ Goto(r, "auth_serve")
    <2>1. Own(r) /\ req[r].pc = "auth_user" /\ UNCHANGED <<now, session, delivered, markedAt>>
      BY <1>2 DEF RequestInv, Own, AuthUser, At, database, redis
    <2>2. /\ req'[r].pc = "auth_serve" /\ req'[r].sid = req[r].sid
          /\ req'[r].fresh = req[r].fresh /\ req'[r].began = req[r].began
          /\ req'[r].late = req[r].late
          /\ req'[r].sweep = req[r].sweep /\ req'[r].todo = req[r].todo
      BY <1>2, GotoFields
    <2> QED BY <2>1, <2>2
            DEF Own, RunInv, LoginInv, RefreshInv, RevokeInv, SweepInv,
             LoginStep, RefreshStep, Checked, Minted, RevokeStep, AdminStep, AuthStep,
             HoldsUser, Sweeping
  <1> QED BY <1>1, <1>2 DEF AuthUser, AuthServe, Abort

-----------------------------------------------------------------------------
(* What a step does to the two stores *)

\* A token keeps the dates it has, or is dated now.
LEMMA Dated ==
  ASSUME IInv, NEW r \in Req, Start(r) \/ Proceed(r) \/ Abort(r), NEW k \in Pair
  PROVE  /\ token'[k].born \in {token[k].born, now}
         /\ token'[k].accessBorn \in {token[k].accessBorn, now, Never}
  <1> USE DEF IInv
  <1>1. CASE UNCHANGED token
    BY <1>1
  <1>2. CASE LoginMint(r) \/ RefreshMint(r)
    BY <1>2 DEF LoginMint, RefreshMint, FreshToken, TypeOK
  <1>3. CASE token' = [token EXCEPT ![req[r].pair].status = "revoked"]
    BY <1>3 DEF TypeOK, Token
  <1>4. CASE RefreshRotate(r) \/ RefreshIssue(r)
    BY <1>4 DEF RefreshRotate, RefreshIssue, TypeOK, Token
  <1> QED BY <1>1, <1>2, <1>3, <1>4
          DEF Start, StartLogin, StartAdmin, StartRefresh, StartLogout, StartAuthenticate, Proceed,
              LoginLock, LoginCommit, RefreshCheck, RefreshUser, RefreshRecheck,
              RevokeRow, RevokeMark, RevokeCommit, AdminLock, AdminSweep, AdminMark,
              AdminCommit, AuthUser, AuthServe, Abort, redis

\* A session becomes revoked only in a transaction that has marked it.
LEMMA RevokedMarked ==
  ASSUME IInv, NEW r \in Req, Start(r) \/ Proceed(r) \/ Abort(r), Frame(r),
         NEW s \in Sid, session'[s].status = "revoked"
  PROVE  markedAt'[s] # Never
  <1> USE DEF IInv
  <1>1. markedAt[s] # Never => markedAt'[s] # Never
    BY DEF Frame, FrameSession, TypeOK, Never
  <1>2. CASE session[s].status = "revoked"
    BY <1>1, <1>2 DEF StoreInv
  <1>3. CASE RevokeCommit(r) \/ AdminCommit(r)
    <2>1. s \in req[r].sweep \/ session[s].status = "revoked"
      BY <1>3 DEF RevokeCommit, AdminCommit
    <2>2. s \in req[r].sweep => markedAt[s] # Never
      BY <1>3 DEF RevokeCommit, AdminCommit, At, RequestInv, RevokeInv
    <2> QED BY <1>1, <1>2, <2>1, <2>2
  <1>4. CASE LoginCommit(r)
    BY <1>2, <1>4 DEF LoginCommit, TypeOK
  <1> QED BY <1>2, <1>3, <1>4
          DEF Start, StartLogin, StartAdmin, StartRefresh, StartLogout, StartAuthenticate, Proceed,
              LoginLock, LoginMint, RefreshCheck, RefreshMint, RefreshRotate, RefreshUser,
              RefreshRecheck, RefreshIssue, RevokeRow, RevokeMark, AdminLock, AdminSweep,
              AdminMark, AuthUser, AuthServe, Abort, database

\* A pair is delivered by the commit of a login, whose session was never marked, or
\* by a refresh, whose session was marked only since it began.
LEMMA NewlyDelivered ==
  ASSUME IInv, NEW r \in Req, Start(r) \/ Proceed(r) \/ Abort(r), Frame(r),
         NEW k \in delivered' \ delivered
  PROVE  LET s == token'[k].sid
         IN  /\ s \in Sid /\ session'[s].status # "absent"
             /\ markedAt'[s] # Never =>
                   /\ token'[k].born <= markedAt'[s]
                   /\ token'[k].accessBorn + AccessTTL <= markedAt'[s] + RefreshTTL
  <1> USE DEF IInv
  <1>1. CASE LoginCommit(r)
    <2>1. k = req[r].fresh /\ UNCHANGED <<token, markedAt>>
      BY <1>1 DEF LoginCommit, redis
    <2>2. /\ req[r].sid \in Sid /\ token[k].sid = req[r].sid
          /\ session[req[r].sid].status = "absent"
      BY <1>1, <2>1 DEF LoginCommit, At, RequestInv, LoginInv, LoginStep
    <2>3. markedAt'[req[r].sid] = Never
      BY <2>1, <2>2 DEF StoreInv
    <2>4. session'[req[r].sid].status # "absent"
      BY <1>1, <2>2 DEF LoginCommit, TypeOK
    <2> QED BY <2>1, <2>2, <2>3, <2>4
  <1>2. CASE RefreshIssue(r)
    <2>1. /\ k = req[r].fresh /\ k \in Pair /\ UNCHANGED <<session, markedAt>>
          /\ req[r].pair \in delivered /\ req[r].sid = token[req[r].pair].sid
          /\ token[k].sid = req[r].sid
      BY <1>2 DEF RefreshIssue, database, At, RequestInv, RefreshInv, RefreshStep,
                  Checked, Minted
    <2>2. req[r].sid \in Sid /\ session[req[r].sid].status # "absent"
      BY <2>1 DEF StoreInv
    <2>3. /\ token'[k].sid = token[k].sid /\ token'[k].born = token[k].born
          /\ token'[k].accessBorn = now
      BY <1>2, <2>1 DEF RefreshIssue, TypeOK, Token
    <2>4. /\ now <= req[r].began + Stall
          /\ markedAt[req[r].sid] # Never =>
                req[r].began <= markedAt[req[r].sid] /\ token[k].born <= markedAt[req[r].sid]
      BY <1>2, <2>1 DEF RefreshIssue, At, RequestInv, RunInv, RefreshInv, Checked
    <2>5. now \in Int /\ markedAt[req[r].sid] \in Int /\ req[r].began \in Int
      <3>1. req[r] \in Request
        BY DEF TypeOK
      <3> QED BY <2>2, <3>1, Fields DEF TypeOK, Time, Never
    <2>6. markedAt[req[r].sid] # Never => now + AccessTTL <= markedAt[req[r].sid] + RefreshTTL
      BY <2>4, <2>5, TimingAssumption
    <2> QED BY <2>1, <2>2, <2>3, <2>4, <2>6
  <1> QED BY <1>1, <1>2
          DEF Start, StartLogin, StartAdmin, StartRefresh, StartLogout, StartAuthenticate, Proceed,
              LoginLock, LoginMint, RefreshCheck, RefreshMint, RefreshRotate, RefreshUser,
              RefreshRecheck, RevokeRow, RevokeMark, RevokeCommit, AdminLock, AdminSweep,
              AdminMark, AdminCommit, AuthUser, AuthServe, Abort

\* A pair that some client holds keeps its session and its dates.
LEMMA DeliveredKept ==
  ASSUME IInv, NEW r \in Req, Frame(r), NEW k \in delivered
  PROVE  /\ k \in Pair /\ token[k].sid \in Sid
         /\ token'[k].sid = token[k].sid /\ token'[k].born = token[k].born
         /\ token'[k].accessBorn = token[k].accessBorn
  <1> USE DEF IInv
  <1>1. k \in Pair /\ token[k].sid \in Sid
    BY DEF StoreInv, TypeOK
  <1>2. req[r].pc \in LoginStep \cup RefreshStep => req[r].fresh # k
    BY DEF RequestInv, RunInv, LoginInv, RefreshInv
  <1> QED BY <1>1, <1>2 DEF Frame, FrameToken

\* An access token is blacklisted until it would expire.
LEMMA BlackKept ==
  ASSUME IInv, NEW r \in Req, Start(r) \/ Proceed(r) \/ Abort(r), Frame(r),
         NEW k \in Pair, blackUntil'[k] # Never
  PROVE  k \in delivered' /\ blackUntil'[k] = token'[k].accessBorn + AccessTTL
  <1> USE DEF IInv
  <1>1. CASE blackUntil'[k] = blackUntil[k]
    BY <1>1, DeliveredKept DEF StoreInv, Frame, FrameToken
  <1>2. ASSUME NEW j \in delivered, StartLogout(r, j)
        PROVE  \/ blackUntil'[k] = blackUntil[k]
               \/ k = j /\ blackUntil'[k] = token[k].accessBorn + AccessTTL
    BY <1>2 DEF StartLogout, TypeOK
  <1>3. CASE Proceed(r) \/ Abort(r)
    <2>1. UNCHANGED blackUntil
      BY <1>3
         DEF Proceed, LoginLock, LoginMint, LoginCommit, RefreshCheck, RefreshMint,
             RefreshRotate, RefreshUser, RefreshRecheck, RefreshIssue, RevokeRow, RevokeMark,
             RevokeCommit, AdminLock, AdminSweep, AdminMark, AdminCommit, AuthUser, AuthServe,
             Abort, redis
    <2> QED BY <1>1, <2>1
  <1>4. CASE Start(r)
    BY <1>1, <1>2, <1>4, DeliveredKept
       DEF Start, StartLogin, StartAdmin, StartRefresh, StartAuthenticate, redis, Frame, FrameToken
  <1> QED BY <1>3, <1>4

\* The invariant of the two stores is kept by every step of a request.
LEMMA StoresKept ==
  ASSUME IInv, TypeOK', NEW r \in Req, Start(r) \/ Proceed(r) \/ Abort(r), Frame(r)
  PROVE  TimeInv' /\ StoreInv' /\ MarkerOutlivesTokens'
  <1> USE DEF IInv
  <1>1. now' = now /\ now \in Nat /\ delivered \subseteq Pair
    BY DEF Frame, FrameReq, TypeOK
  <1>2. TimeInv'
    <2>1. \A s \in Sid : markedAt'[s] <= now
      BY <1>1 DEF Frame, FrameSession, TimeInv
    <2>2. \A k \in Pair : token'[k].born <= now /\ token'[k].accessBorn <= now
      BY <1>1, Dated DEF TimeInv, Never
    <2> QED BY <1>1, <2>1, <2>2 DEF TimeInv
  <1>3. StoreInv'
    <2>1. \A s \in Sid : session'[s].status = "revoked" => markedAt'[s] # Never
      BY RevokedMarked
    <2>2. \A s \in Sid : session'[s].status = "absent" => markedAt'[s] = Never
      BY DEF Frame, FrameSession, StoreInv
    <2>3. \A k \in delivered' :
             token'[k].sid \in Sid /\ session'[token'[k].sid].status # "absent"
      <3>1. ASSUME NEW k \in delivered
            PROVE  token'[k].sid \in Sid /\ session'[token'[k].sid].status # "absent"
        BY DeliveredKept DEF StoreInv, Frame, FrameSession
      <3> QED BY <3>1, NewlyDelivered
    <2>4. \A k \in Pair : blackUntil'[k] # Never =>
             k \in delivered' /\ blackUntil'[k] = token'[k].accessBorn + AccessTTL
      BY BlackKept
    <2> QED BY <2>1, <2>2, <2>3, <2>4 DEF StoreInv
  <1>4. MarkerOutlivesTokens'
    <2>1. ASSUME NEW k \in delivered, markedAt'[token'[k].sid] # Never
          PROVE  /\ token'[k].born <= markedAt'[token'[k].sid]
                 /\ token'[k].accessBorn + AccessTTL <= markedAt'[token'[k].sid] + RefreshTTL
      <3> DEFINE s == token[k].sid
      <3>1. /\ k \in Pair /\ s \in Sid /\ token'[k].sid = s
            /\ token'[k].born = token[k].born /\ token'[k].accessBorn = token[k].accessBorn
        BY DeliveredKept
      <3>2. token[k].born \in Int /\ token[k].accessBorn \in Int
        BY <3>1, TokenFields DEF TypeOK
      <3>3. token[k].born <= now /\ token[k].accessBorn <= now
        BY <3>1 DEF TimeInv
      <3>4. markedAt'[s] = markedAt[s] \/ markedAt'[s] = now
        BY <3>1 DEF Frame, FrameSession
      <3>5. token[k].accessBorn + AccessTTL <= now + RefreshTTL
        BY <1>1, <3>2, <3>3, TimingAssumption
      <3> QED BY <2>1, <3>1, <3>3, <3>4, <3>5 DEF MarkerOutlivesTokens
    <2> QED BY <2>1, NewlyDelivered DEF MarkerOutlivesTokens
  <1> QED BY <1>2, <1>3, <1>4

-----------------------------------------------------------------------------
(* The inductive invariant is kept *)

\* Nothing is true of a request or a store before the first one.
LEMMA InitInv == Init => IInv
  <1> SUFFICES ASSUME Init PROVE IInv
    OBVIOUS
  <1>1. TypeOK
    BY TypeInit
  <1>2. TimeInv /\ StoreInv /\ MarkerOutlivesTokens /\ DistinctInv
    BY NullAssumption DEF Init, TimeInv, StoreInv, MarkerOutlivesTokens, DistinctInv, Idle, NoToken,
                          Never, LoginStep
  <1>3. RequestInv
    BY NullAssumption
       DEF Init, RequestInv, Idle, RunInv, LoginInv, RefreshInv, RevokeInv, SweepInv,
           LoginStep, RefreshStep, Checked, Minted, RevokeStep, AdminStep, AuthStep, HoldsUser
  <1> QED BY <1>1, <1>2, <1>3 DEF IInv

\* Every step of a request keeps the invariant.
LEMMA RequestStep ==
  ASSUME IInv, NEW r \in Req, Start(r) \/ Proceed(r) \/ Abort(r)
  PROVE  IInv'
  <1>1. TypeOK'
    BY TypeStart, TypeLogin, TypeRefresh, TypeRevoke, TypeAdmin, TypeRest DEF IInv, Proceed
  <1>2. Frame(r)
    BY FrameStart, FrameLogin, FrameRefresh, FrameRevoke, FrameAdmin, FrameRest DEF Proceed
  <1>3. Own(r)'
    BY OwnStart, OwnLogin, OwnRefresh, OwnRevoke, OwnAdmin, OwnRest DEF Proceed
  <1>4. RequestInv'
    BY <1>1, <1>2, <1>3, Others DEF RequestInv, Own
  <1>5. DistinctInv'
    BY <1>1, <1>2, DistinctKept
  <1>6. TimeInv' /\ StoreInv' /\ MarkerOutlivesTokens'
    BY <1>1, <1>2, StoresKept
  <1> QED BY <1>1, <1>4, <1>5, <1>6 DEF IInv

\* So does the clock, which waits for requests that have run for Stall.
LEMMA TickStep ==
  ASSUME IInv, Tick
  PROVE  IInv'
  <1> USE DEF IInv
  <1>1. /\ now \in Nat /\ now' = now + 1
        /\ UNCHANGED <<account, userLock, session, sessionLock, markedAt, token, delivered,
                       blackUntil, req>>
    BY DEF Tick, database, redis, TypeOK
  <1>2. TypeOK'
    BY <1>1 DEF TypeOK
  <1>3. TimeInv'
    <2>1. \A k \in Pair : token[k].born \in Int /\ token[k].accessBorn \in Int
      BY TokenFields DEF TypeOK
    <2>2. \A s \in Sid : markedAt[s] \in Int
      BY DEF TypeOK, Time, Never
    <2> QED BY <1>1, <2>1, <2>2 DEF TimeInv
  <1>4. StoreInv' /\ MarkerOutlivesTokens' /\ DistinctInv'
    BY <1>1 DEF StoreInv, MarkerOutlivesTokens, DistinctInv
  <1>5. ASSUME NEW r \in Req PROVE Own(r)'
    <2>1. Own(r) /\ req[r].began \in Int
      <3>1. req[r] \in Request
        BY DEF TypeOK
      <3> QED BY <3>1, Fields DEF RequestInv, Own, Time, Never
    <2>2. RunInv(r)'
      BY <1>1, <2>1, TimingAssumption DEF Own, RunInv, Tick, At
    <2>3. LoginInv(r)' /\ RefreshInv(r)' /\ RevokeInv(r)'
      BY <1>1, <2>1 DEF Own, LoginInv, RefreshInv, RevokeInv
    <2>4. SweepInv(r)'
      BY <1>1, <2>1 DEF Own, SweepInv, ActiveSessions
    <2> QED BY <2>2, <2>3, <2>4 DEF Own
  <1> QED BY <1>2, <1>3, <1>4, <1>5 DEF RequestInv, Own

\* IInv is inductive.
LEMMA StepInv == IInv /\ [Next]_vars => IInv'
  <1> SUFFICES ASSUME IInv, [Next]_vars PROVE IInv'
    OBVIOUS
  <1>1. CASE Tick
    BY <1>1, TickStep
  <1>2. ASSUME NEW r \in Req, Start(r) \/ Proceed(r) \/ Abort(r) PROVE IInv'
    BY <1>2, RequestStep
  <1>3. CASE UNCHANGED vars
    BY <1>3 DEF vars, IInv, TypeOK, TimeInv, StoreInv, MarkerOutlivesTokens, DistinctInv, RequestInv,
                RunInv, LoginInv, RefreshInv, RevokeInv, SweepInv, ActiveSessions
  <1> QED BY <1>1, <1>2, <1>3 DEF Next

-----------------------------------------------------------------------------
(* The theorems *)

\* The inductive invariant holds of every state the requests can reach.
THEOREM Inductive == Spec => []IInv
  BY InitInv, StepInv, PTL DEF Spec

\* The rows, hashes and requests always have the shapes the code gives them.
THEOREM TypeCorrect == Spec => []TypeOK
  <1>1. IInv => TypeOK
    BY DEF IInv
  <1> QED BY <1>1, Inductive, PTL

\* No marker expires while a token of its session is still valid, however long
\* the requests that were running when it was written take, up to
\* RefreshTTL - AccessTTL.
THEOREM MarkersSuffice == Spec => []MarkerOutlivesTokens
  <1>1. IInv => MarkerOutlivesTokens
    BY DEF IInv
  <1> QED BY <1>1, Inductive, PTL

\* A session revoked in PostgreSQL is marked in Redis, and a token a client holds
\* has its session committed.
THEOREM StoresConsistent == Spec => []StoresAgree
  <1>1. IInv => StoresAgree
    BY DEF IInv, StoreInv, StoresAgree
  <1> QED BY <1>1, Inductive, PTL

\* A request that begins after its session was marked, or after its access token
\* was logged out, is never served.
THEOREM NoServiceAfterEnd == Spec => []EndedNeverServed
  <1>1. IInv => EndedNeverServed
    BY DEF IInv, RequestInv, RefreshInv, EndedNeverServed, Checked, AuthStep
  <1> QED BY <1>1, Inductive, PTL

\* A committed revocation of a user leaves the user no active session.
THEOREM SweepsComplete == Spec => SweepIsComplete
  <1> DEFINE A == \A r \in Req : AdminCommit(r) /\ req[r].op \in RevokingOp =>
                   \A s \in Sid : session'[s].user = req[r].user => session'[s].status # "active"
  <1>1. ASSUME IInv, NEW r \in Req, AdminCommit(r), req[r].op \in RevokingOp,
               NEW s \in Sid, session'[s].user = req[r].user
        PROVE  session'[s].status # "active"
    <2>1. ActiveSessions(req[r].user) \subseteq req[r].sweep
      BY <1>1 DEF IInv, RequestInv, SweepInv, AdminCommit, At
    <2>2. CASE s \in req[r].sweep
      BY <1>1, <2>2 DEF AdminCommit, IInv, TypeOK, SessionRow
    <2>3. CASE s \notin req[r].sweep
      BY <1>1, <2>1, <2>3 DEF AdminCommit, ActiveSessions
    <2> QED BY <2>2, <2>3
  <1>2. IInv /\ [Next]_vars => A
    BY <1>1
  <1>3. IInv /\ [Next]_vars => [A]_vars
    BY <1>2
  <1> HIDE DEF A
  <1>4. Spec => [][A]_vars
    BY <1>3, Inductive, PTL DEF Spec
  <1> QED BY <1>4 DEF SweepIsComplete, A

-----------------------------------------------------------------------------
(* The refinement of SessionAuthority *)

\* Only refreshes, logouts and authentications are made on behalf of a pair.
PairInv == \A r \in Req : req[r].pc \in {"idle"} \cup LoginStep \cup AdminStep => req[r].pair = NoPair

\* A request that begins presents no pair, or one that its client was given.
LEMMA StartShape ==
  ASSUME TypeOK, NEW r \in Req, Start(r)
  PROVE  /\ At(r, "idle")
         /\ \/ req'[r].pc \in {"login_lock", "admin_lock"} /\ req'[r].pair = NoPair
            \/ /\ req'[r].pc \in {"refresh_check", "revoke_row", "auth_user"}
               /\ \E k \in delivered : /\ req'[r].pair = k
                                       /\ req'[r].late = Ended(k) \/ req'[r].late = Barred(k)
  <1>1. At(r, "idle")
    BY DEF Start, StartLogin, StartAdmin, StartRefresh, StartLogout, StartAuthenticate
  <1>2. ASSUME NEW u \in User, StartLogin(r, u)
        PROVE  req'[r].pc = "login_lock" /\ req'[r].pair = NoPair
    BY <1>2 DEF StartLogin, Idle, TypeOK
  <1>3. ASSUME NEW u \in User, NEW op \in Ops, StartAdmin(r, u, op)
        PROVE  req'[r].pc = "admin_lock" /\ req'[r].pair = NoPair
    BY <1>3 DEF StartAdmin, Idle, TypeOK
  <1>4. ASSUME NEW k \in delivered, StartRefresh(r, k)
        PROVE  req'[r].pc = "refresh_check" /\ req'[r].pair = k /\ req'[r].late = Ended(k)
    BY <1>4 DEF StartRefresh, Idle, TypeOK
  <1>5. ASSUME NEW k \in delivered, StartLogout(r, k)
        PROVE  req'[r].pc = "revoke_row" /\ req'[r].pair = k /\ req'[r].late = Ended(k)
    BY <1>5 DEF StartLogout, Idle, TypeOK
  <1>6. ASSUME NEW k \in delivered, StartAuthenticate(r, k)
        PROVE  req'[r].pc = "auth_user" /\ req'[r].pair = k /\ req'[r].late = Barred(k)
    BY <1>6 DEF StartAuthenticate, Idle, TypeOK
  <1> QED BY <1>1, <1>2, <1>3, <1>4, <1>5, <1>6 DEF Start

\* A step takes a request that presented no pair to a step that presents none.
LEMMA PairStep == IInv /\ PairInv /\ [Next]_vars => PairInv'
  <1> SUFFICES ASSUME IInv, PairInv, [Next]_vars PROVE PairInv'
    OBVIOUS
  <1> USE DEF IInv
  <1>1. CASE UNCHANGED req
    BY <1>1 DEF PairInv
  <1>2. ASSUME NEW r \in Req, Start(r) \/ Proceed(r) \/ Abort(r) PROVE PairInv'
    <2>1. \A q \in Req : q # r => req'[q] = req[q]
      BY <1>2, FrameStart, FrameLogin, FrameRefresh, FrameRevoke, FrameAdmin, FrameRest
         DEF Proceed, Frame, FrameReq
    <2> SUFFICES req'[r].pc \in {"idle"} \cup LoginStep \cup AdminStep => req'[r].pair = NoPair
      BY <2>1 DEF PairInv
    <2>2. CASE Finish(r)
      BY <2>2 DEF Finish, Idle, TypeOK
    <2>3. ASSUME NEW step, Goto(r, step),
                 step \in LoginStep \cup AdminStep => req[r].pc \in LoginStep \cup AdminStep,
                 step # "idle"
          PROVE  req'[r].pc \in {"idle"} \cup LoginStep \cup AdminStep => req'[r].pair = NoPair
      BY <2>3, GotoFields DEF PairInv
    <2>4. CASE Start(r)
      BY <2>4, StartShape DEF LoginStep, AdminStep
    <2>5. CASE RevokeRow(r)
      BY <2>5, <2>3 DEF RevokeRow, TypeOK, Request, LoginStep, AdminStep
    <2>6. CASE AdminSweep(r) \/ AdminMark(r)
      BY <2>6, <2>3 DEF AdminSweep, AdminMark, At, PairInv, TypeOK, Request, LoginStep, AdminStep
    <2>7. CASE LoginLock(r) \/ LoginMint(r) \/ AdminLock(r)
      BY <2>7, <2>2, <2>3 DEF LoginLock, LoginMint, AdminLock, At, LoginStep, AdminStep
    <2>8. CASE RefreshCheck(r) \/ RefreshMint(r) \/ RefreshRotate(r) \/ RefreshUser(r)
               \/ RefreshRecheck(r) \/ RevokeMark(r) \/ AuthUser(r)
      BY <2>8, <2>2, <2>3 DEF RefreshCheck, RefreshMint, RefreshRotate, RefreshUser,
                              RefreshRecheck, RevokeMark, AuthUser, LoginStep, AdminStep
    <2> QED BY <1>2, <2>2, <2>4, <2>5, <2>6, <2>7, <2>8
            DEF Proceed, LoginCommit, RefreshIssue, RevokeCommit, AdminCommit, AuthServe, Abort
  <1> QED BY <1>1, <1>2 DEF Next, Tick, vars

\* A step of a request opens or ends at most one session, and then only by the
\* commit of a login or the writing of a marker.
LEMMA PhaseStep ==
  ASSUME IInv, NEW r \in Req, Start(r) \/ Proceed(r) \/ Abort(r), Frame(r)
  PROVE  \/ Phase' = Phase
         \/ /\ \E s \in Sid : /\ Phase[s] = "unborn"
                              /\ Phase' = [Phase EXCEPT ![s] = "open"]
            /\ LoginCommit(r)
         \/ /\ \E s \in Sid : /\ Phase[s] = "open"
                              /\ Phase' = [Phase EXCEPT ![s] = "ended"]
            /\ RevokeMark(r) \/ AdminMark(r)
  <1> USE DEF IInv
  <1> DEFINE P(s) == IF markedAt[s] # Never THEN "ended"
                     ELSE IF session[s].status = "absent" THEN "unborn" ELSE "open"
             Q(s) == IF markedAt'[s] # Never THEN "ended"
                     ELSE IF session'[s].status = "absent" THEN "unborn" ELSE "open"
  <1>1. Phase = [s \in Sid |-> P(s)] /\ Phase' = [s \in Sid |-> Q(s)]
    BY DEF Phase
  <1>2. CASE LoginCommit(r)
    <2>1. UNCHANGED markedAt /\ req[r].sid \in Sid /\ session[req[r].sid].status = "absent"
      BY <1>2 DEF LoginCommit, redis, At, RequestInv, LoginInv, LoginStep
    <2>2. markedAt[req[r].sid] = Never
      BY <2>1 DEF StoreInv
    <2>3. \A s \in Sid : session'[s] = IF s = req[r].sid
                                       THEN [user |-> req[r].user, status |-> "active"]
                                       ELSE session[s]
      BY <1>2 DEF LoginCommit, TypeOK
    <2>4. P(req[r].sid) = "unborn"
      BY <2>1, <2>2
    <2>5. \A s \in Sid : Q(s) = IF s = req[r].sid THEN "open" ELSE P(s)
      BY <2>1, <2>2, <2>3
    <2> HIDE DEF P, Q
    <2> QED BY <1>1, <1>2, <2>1, <2>4, <2>5
  <1>3. CASE ~LoginCommit(r)
    <2>1. \A s \in Sid : session'[s].status = "absent" <=> session[s].status = "absent"
      <3>1. CASE UNCHANGED session
        BY <3>1
      <3>2. CASE RevokeCommit(r) \/ AdminCommit(r)
        BY <3>2 DEF RevokeCommit, AdminCommit, At, Frame, FrameSession, Commits
      <3> QED BY <1>3, <3>1, <3>2
              DEF Start, StartLogin, StartAdmin, StartRefresh, StartLogout, StartAuthenticate,
                  Proceed, LoginLock, LoginMint, RefreshCheck, RefreshMint, RefreshRotate,
                  RefreshUser, RefreshRecheck, RefreshIssue, RevokeRow, RevokeMark, AdminLock,
                  AdminSweep, AdminMark, AuthUser, AuthServe, Abort, database
    <2>2. CASE UNCHANGED markedAt
      <3>1. \A s \in Sid : Q(s) = P(s)
        BY <2>1, <2>2
      <3> HIDE DEF P, Q
      <3> QED BY <1>1, <3>1
    <2>3. ASSUME NEW s \in Sid, markedAt' = [markedAt EXCEPT ![s] = now],
                 RevokeMark(r) \/ AdminMark(r)
          PROVE  \/ Phase' = Phase
                 \/ Phase[s] = "open" /\ Phase' = [Phase EXCEPT ![s] = "ended"]
      <3>1. now # Never /\ session[s].status # "absent"
        BY <2>3 DEF TypeOK, Never, Frame, FrameSession, StoreInv
      <3>2. \A x \in Sid : Q(x) = IF x = s THEN "ended" ELSE P(x)
        BY <2>1, <2>3, <3>1 DEF TypeOK
      <3>3. P(s) \in {"open", "ended"}
        BY <3>1
      <3> HIDE DEF P, Q
      <3> QED BY <1>1, <3>2, <3>3
    <2>4. \/ UNCHANGED markedAt
          \/ /\ RevokeMark(r) \/ AdminMark(r)
             /\ \E s \in Sid : markedAt' = [markedAt EXCEPT ![s] = now]
      <3>1. CASE RevokeMark(r)
        BY <3>1 DEF RevokeMark, At, RequestInv, RevokeInv, RevokeStep
      <3>2. CASE AdminMark(r)
        <4>1. req[r].todo \subseteq Sid
          BY Fields DEF TypeOK
        <4> QED BY <3>2, <4>1 DEF AdminMark
      <3> QED BY <1>3, <3>1, <3>2
              DEF Start, StartLogin, StartAdmin, StartRefresh, StartLogout, StartAuthenticate,
                  Proceed, LoginLock, LoginMint, RefreshCheck, RefreshMint, RefreshRotate,
                  RefreshUser, RefreshRecheck, RefreshIssue, RevokeRow, RevokeCommit, AdminLock,
                  AdminSweep, AdminCommit, AuthUser, AuthServe, Abort, redis
    <2> QED BY <2>2, <2>3, <2>4
  <1> QED BY <1>2, <1>3

\* A request arrives, is served while it is timely, or goes away.
LEMMA ServingStep ==
  ASSUME IInv, PairInv, NEW r \in Req, Start(r) \/ Proceed(r) \/ Abort(r), Frame(r)
  PROVE  /\ Serving' = [Serving EXCEPT ![r] = Serving'[r]]
         /\ Serving'[r] = Serving[r] => Serving' = Serving
         /\ LoginCommit(r) \/ RevokeMark(r) \/ AdminMark(r) => Serving'[r] = Serving[r]
         /\ \/ Serving'[r] \in {Serving[r], "none"}
            \/ Serving[r] = "timely" /\ Serving'[r] = "served"
            \/ Serving[r] = "none" /\ Serving'[r] = "late"
            \/ /\ Serving[r] = "none" /\ Serving'[r] = "timely"
               /\ \E s \in Sid : Phase[s] = "open"
  <1> USE DEF IInv
  <1> DEFINE V(m) == IF m.pair = NoPair THEN "none"
                     ELSE IF m.pc \in {"refresh_issue", "auth_serve"} THEN "served"
                     ELSE IF m.late THEN "late" ELSE "timely"
  <1>1. Serving = [q \in Req |-> V(req[q])] /\ Serving' = [q \in Req |-> V(req'[q])]
    BY DEF Serving
  <1>2. \A q \in Req : q # r => req'[q] = req[q]
    BY DEF Frame, FrameReq
  <1>3. /\ Serving' = [Serving EXCEPT ![r] = Serving'[r]]
        /\ Serving'[r] = Serving[r] => Serving' = Serving
    <2> HIDE DEF V
    <2> QED BY <1>1, <1>2
  <1>4. ASSUME NEW step, Goto(r, step), step \notin {"refresh_issue", "auth_serve"},
               ~At(r, "refresh_issue"), ~At(r, "auth_serve")
        PROVE  V(req'[r]) = V(req[r])
    BY <1>4, GotoFields DEF At
  <1>5. Finish(r) => V(req'[r]) = "none"
    BY DEF Finish, Idle, TypeOK
  <1>6. CASE Start(r)
    <2>1. V(req[r]) = "none"
      BY <1>6 DEF Start, StartLogin, StartAdmin, StartRefresh, StartLogout, StartAuthenticate,
                  At, PairInv
    <2>2. req'[r].pair = NoPair => V(req'[r]) = "none"
      OBVIOUS
    <2>3. ASSUME NEW k \in delivered, req'[r].pair = k,
                 req'[r].late = Ended(k) \/ req'[r].late = Barred(k),
                 req'[r].pc \in {"refresh_check", "revoke_row", "auth_user"}
          PROVE  \/ V(req'[r]) = "late"
                 \/ V(req'[r]) = "timely" /\ \E s \in Sid : Phase[s] = "open"
      <3>1. /\ token[k].sid \in Sid /\ session[token[k].sid].status # "absent"
            /\ k # NoPair
        BY NullAssumption DEF StoreInv, TypeOK
      <3>3. ~req'[r].late => markedAt[token[k].sid] = Never
        BY <2>3 DEF Ended, Barred
      <3>4. ~req'[r].late => Phase[token[k].sid] = "open"
        BY <3>1, <3>3 DEF Phase
      <3> QED BY <2>3, <3>1, <3>4
    <2>4. ~LoginCommit(r) /\ ~RevokeMark(r) /\ ~AdminMark(r)
      BY <1>6 DEF Start, StartLogin, StartAdmin, StartRefresh, StartLogout, StartAuthenticate,
                  At, LoginCommit, RevokeMark, AdminMark
    <2> HIDE DEF V
    <2> QED BY <1>1, <1>3, <1>6, <2>1, <2>2, <2>3, <2>4, StartShape
  <1>7. CASE Proceed(r) \/ Abort(r)
    <2>1. /\ LoginCommit(r) \/ RevokeMark(r) \/ AdminMark(r) => V(req'[r]) = V(req[r])
          /\ \/ V(req'[r]) \in {V(req[r]), "none"}
             \/ V(req[r]) = "timely" /\ V(req'[r]) = "served"
      <3>1. CASE LoginCommit(r)
        <4>1. V(req[r]) = "none" /\ Finish(r)
          BY <3>1 DEF LoginCommit, At, PairInv, LoginStep
        <4> QED BY <1>5, <4>1
      <3>2. CASE RevokeMark(r)
        BY <3>2, <1>4 DEF RevokeMark, At
      <3>3. CASE AdminMark(r)
        BY <3>3, <1>4 DEF AdminMark, At, TypeOK, Request
      <3>4. CASE Finish(r) /\ ~LoginCommit(r) /\ ~RevokeMark(r) /\ ~AdminMark(r)
        BY <3>4, <1>5
      <3>5. CASE LoginLock(r) \/ LoginMint(r) \/ RefreshMint(r) \/ RefreshRotate(r)
                 \/ RefreshUser(r) \/ (AdminLock(r) /\ ~Finish(r))
                 \/ (RefreshCheck(r) /\ ~Finish(r))
        <4>1. V(req'[r]) = V(req[r])
          BY <3>5, <1>4 DEF LoginLock, LoginMint, RefreshMint, RefreshRotate, RefreshUser,
                            AdminLock, RefreshCheck, At
        <4> QED BY <4>1
      <3>6. CASE RevokeRow(r) \/ AdminSweep(r)
        <4>1. V(req'[r]) = V(req[r])
          BY <3>6, <1>4 DEF RevokeRow, AdminSweep, At, TypeOK, Request
        <4> QED BY <4>1
      <3>7. CASE RefreshRecheck(r)
        <4>1. CASE Goto(r, "revoke_row")
          <5>1. V(req'[r]) = V(req[r])
            BY <3>7, <4>1, <1>4 DEF RefreshRecheck, At
          <5> QED BY <3>7, <5>1 DEF RefreshRecheck, At, LoginCommit, RevokeMark, AdminMark
        <4>2. CASE Goto(r, "refresh_issue")
          <5>1. ~req[r].late /\ req[r].pc = "refresh_recheck"
            BY <3>7 DEF RefreshRecheck, At, RequestInv, RefreshInv, Checked
          <5> QED BY <3>7, <4>2, <5>1, GotoFields
                  DEF RefreshRecheck, At, LoginCommit, RevokeMark, AdminMark
        <4> QED BY <3>7, <4>1, <4>2 DEF RefreshRecheck
      <3>8. CASE AuthUser(r) /\ Goto(r, "auth_serve")
        <4>1. ~req[r].late /\ req[r].pc = "auth_user"
          BY <3>8 DEF AuthUser, At, RequestInv, RefreshInv, AuthStep
        <4> QED BY <3>8, <4>1, GotoFields DEF AuthUser, At, LoginCommit, RevokeMark, AdminMark
      <3>9. CASE Finish(r)
        BY <3>1, <3>2, <3>3, <3>4, <3>9
      <3> QED BY <1>7, <3>1, <3>2, <3>3, <3>5, <3>6, <3>7, <3>8, <3>9
              DEF Proceed, RefreshIssue, RevokeCommit, AdminCommit, AuthServe, Abort, AdminLock,
                  RefreshCheck, AuthUser
    <2> HIDE DEF V
    <2> QED BY <1>1, <1>3, <2>1
  <1> QED BY <1>6, <1>7

\* Every step of the handlers is a step of the promise, or changes nothing in it.
LEMMA RefineStep ==
  IInv /\ PairInv /\ [Next]_vars => [Authority!Next]_(Authority!vars)
  <1> SUFFICES ASSUME IInv, PairInv, [Next]_vars PROVE [Authority!Next]_(Authority!vars)
    OBVIOUS
  <1>1. ASSUME NEW r \in Req, Start(r) \/ Proceed(r) \/ Abort(r)
        PROVE  [Authority!Next]_(Authority!vars)
    <2>1. Frame(r)
      BY <1>1, FrameStart, FrameLogin, FrameRefresh, FrameRevoke, FrameAdmin, FrameRest DEF Proceed
    <2> HIDE DEF Phase, Serving
    <2>2. CASE Phase' = Phase
      <3>1. CASE Serving'[r] = Serving[r]
        BY <1>1, <2>1, <2>2, <3>1, ServingStep DEF Authority!vars
      <3>2. CASE Serving'[r] = "none"
        BY <1>1, <2>1, <2>2, <3>2, ServingStep DEF Authority!Next, Authority!Leave
      <3>3. CASE Serving[r] = "timely" /\ Serving'[r] = "served"
        BY <1>1, <2>1, <2>2, <3>3, ServingStep DEF Authority!Next, Authority!Serve
      <3>4. CASE Serving[r] = "none" /\ Serving'[r] = "late"
        BY <1>1, <2>1, <2>2, <3>4, ServingStep DEF Authority!Next, Authority!Reject
      <3>5. CASE /\ Serving[r] = "none" /\ Serving'[r] = "timely"
                 /\ \E s \in Sid : Phase[s] = "open"
        BY <1>1, <2>1, <2>2, <3>5, ServingStep DEF Authority!Next, Authority!Arrive
      <3> QED BY <1>1, <2>1, <3>1, <3>2, <3>3, <3>4, <3>5, ServingStep
    <2>3. CASE Phase' # Phase
      <3>1. Serving' = Serving
        BY <1>1, <2>1, <2>3, PhaseStep, ServingStep
      <3> QED BY <1>1, <2>1, <2>3, <3>1, PhaseStep
              DEF Authority!Next, Authority!Open, Authority!End
    <2> QED BY <2>2, <2>3
  <1>2. CASE UNCHANGED <<markedAt, session, req>>
    BY <1>2 DEF Authority!vars, Phase, Serving
  <1> QED BY <1>1, <1>2 DEF Next, Tick, vars, database, redis

\* The handlers, tokens and two stores implement the promise of SessionAuthority:
\* a session opens once, ends once, and is not served to a later request.
THEOREM Refinement == Spec => AuthorityRefined
  <1>1. Init => Authority!Init /\ PairInv
    BY DEF Init, Authority!Init, Phase, Serving, Idle, PairInv, Never
  <1>2. Spec => []PairInv
    BY <1>1, PairStep, Inductive, PTL DEF Spec
  <1> QED BY <1>1, <1>2, RefineStep, Inductive, PTL DEF Spec, AuthorityRefined, Authority!Spec
=============================================================================
