-------------------------- MODULE SessionLifecycle --------------------------
(***************************************************************************)
(* Sessions and tokens of the authentication centre: login, refresh,       *)
(* logout, authentication of an access token, and the administrator's      *)
(* operations that sweep a user's sessions.                                *)
(*                                                                         *)
(* Each of the concurrent requests (one database transaction each, in one  *)
(* of several Gunicorn workers) runs its handler step by step.  A step is  *)
(* one exchange with PostgreSQL or Redis.  PostgreSQL changes of a request *)
(* are invisible until its commit and vanish if it aborts; Redis writes    *)
(* are visible at once and stay.  Rows taken by SELECT ... FOR UPDATE or   *)
(* by UPDATE are locked until the request ends.                            *)
(***************************************************************************)
EXTENDS Integers, FiniteSets

CONSTANTS
    User, Sid, Pair, Req,            \* users, session ids, token pairs, request slots
    NoUser, NoSid, NoPair, NoReq,
    AccessTTL,     \* access_token_expire_minutes
    RefreshTTL,    \* refresh_token_expire_days, also the life of a revocation marker
    Grace,         \* refresh_token_reuse_grace_seconds
    Stall,         \* how long a request may run
    Ops,           \* bound on the administrator's operations that occur
    MaxTime,       \* bound on the clock
    MaxPwd         \* bound on the number of passwords a user ever has

ASSUME NullAssumption ==
    /\ NoUser \notin User
    /\ NoSid \notin Sid
    /\ NoPair \notin Pair
    /\ NoReq \notin Req

\* A request is over long before a marker written while it ran can expire: with
\* the defaults (access token 60 minutes, marker 7 days), in less than 6 days 23
\* hours.
ASSUME TimingAssumption ==
    /\ AccessTTL \in Nat \ {0}
    /\ RefreshTTL \in Nat
    /\ Grace \in Nat
    /\ Stall \in Nat
    /\ Stall + AccessTTL <= RefreshTTL

VARIABLES
    now,        \* the clock the tokens and the markers are dated with
    account,    \* committed rows of users
    userLock,   \* the request that holds the row lock of a user
    session,    \* committed rows of sessions
    sessionLock,\* the request that holds the row lock of a session
    markedAt,   \* when the Redis revocation marker of a session was last written
    token,      \* the refresh token hashes in Redis, with the access token minted beside
    delivered,  \* the pairs that some client has received
    blackUntil, \* until when the jti of a pair's access token is blacklisted
    req         \* the requests being served

vars == <<now, account, userLock, session, sessionLock, markedAt, token,
          delivered, blackUntil, req>>

database == <<account, userLock, session, sessionLock>>
redis    == <<markedAt, token, blackUntil>>

-----------------------------------------------------------------------------
Never == -1
Time  == Nat \cup {Never}

Account == [active : BOOLEAN, blacklisted : BOOLEAN, pwd : Nat]
SessionRow == [user : User \cup {NoUser}, status : {"absent", "active", "revoked"}]
TokenStatus == {"none", "active", "rotated", "revoked"}
Token == [sid : Sid \cup {NoSid}, status : TokenStatus, born : Time,
          rotatedAt : Time, accessBorn : Time]

RevokingOp == {"disable", "blacklist", "reset", "force_logout"}
AdminOp    == RevokingOp \cup {"enable", "recover"}

ASSUME BoundAssumption == MaxTime \in Nat /\ MaxPwd \in Nat \ {0} /\ Ops \subseteq AdminOp

LoginStep   == {"login_lock", "login_mint", "login_commit"}
RefreshStep == {"refresh_check", "refresh_mint", "refresh_rotate", "refresh_user",
                "refresh_recheck", "refresh_issue"}
RevokeStep  == {"revoke_row", "revoke_mark", "revoke_commit"}
AdminStep   == {"admin_lock", "admin_sweep", "admin_mark", "admin_commit"}
AuthStep    == {"auth_user", "auth_serve"}
Step == {"idle"} \cup AuthStep \cup LoginStep \cup RefreshStep \cup RevokeStep \cup AdminStep

Request == [pc : Step, op : AdminOp \cup {"none"},
            user : User \cup {NoUser}, sid : Sid \cup {NoSid},
            pair : Pair \cup {NoPair},       \* the pair the client presented
            fresh : Pair \cup {NoPair},      \* the pair this request creates
            seenUser : Account,              \* the users row as this request loaded it
            seenToken : Token,               \* the token hash as this request loaded it
            sweep : SUBSET Sid,              \* sessions revoked in this transaction
            todo : SUBSET Sid,               \* of those, markers not yet written
            began : Time,
            late : BOOLEAN]                  \* history: began after its session ended

NoAccount == [active |-> TRUE, blacklisted |-> FALSE, pwd |-> 0]
NoToken   == [sid |-> NoSid, status |-> "none", born |-> Never,
              rotatedAt |-> Never, accessBorn |-> Never]
Idle == [pc |-> "idle", op |-> "none", user |-> NoUser, sid |-> NoSid,
         pair |-> NoPair, fresh |-> NoPair, seenUser |-> NoAccount,
         seenToken |-> NoToken, sweep |-> {}, todo |-> {}, began |-> Never,
         late |-> FALSE]

Init ==
    /\ now = 0
    /\ account = [u \in User |-> [active |-> TRUE, blacklisted |-> FALSE, pwd |-> 1]]
    /\ userLock = [u \in User |-> NoReq]
    /\ session = [s \in Sid |-> [user |-> NoUser, status |-> "absent"]]
    /\ sessionLock = [s \in Sid |-> NoReq]
    /\ markedAt = [s \in Sid |-> Never]
    /\ token = [k \in Pair |-> NoToken]
    /\ delivered = {}
    /\ blackUntil = [k \in Pair |-> Never]
    /\ req = [r \in Req |-> Idle]

-----------------------------------------------------------------------------
\* ensure_user_can_authenticate
CanAuthenticate(a) == a.active /\ ~a.blacklisted

\* Mutant: the marker lives only as long as an access token.
MarkedBriefly(s) == markedAt[s] # Never /\ now < markedAt[s] + AccessTTL

\* The marker key of _write_redis_revocation while its TTL lasts.
Marked(s) == markedAt[s] # Never /\ now < markedAt[s] + RefreshTTL

\* ensure_session_active: no marker, and the committed row is active.  The two
\* reads are one step: whatever happens to the session between them can only
\* make the second one reject.
SessionActive(s) == ~Marked(s) /\ session[s].status = "active"

\* _is_expired, and the Redis TTL set beside the hash
Expired(t) == t.born + RefreshTTL <= now

WithinReuseGrace(t) == t.rotatedAt # Never /\ now - t.rotatedAt <= Grace

\* verify_access_token: the signature is ours and exp is ahead
AccessValid(k) == token[k].accessBorn # Never /\ now < token[k].accessBorn + AccessTTL

Blacklisted(k) == now < blackUntil[k]

\* History: the revocation marker of the pair's session was written, whether or
\* not that revocation then committed.
Ended(k) == markedAt[token[k].sid] # Never

\* History: an access token is barred once it was logged out, too.
Barred(k) == Ended(k) \/ blackUntil[k] # Never

At(r, step) == req[r].pc = step
Goto(r, step) == req' = [req EXCEPT ![r].pc = step]
Finish(r) == req' = [req EXCEPT ![r] = Idle]

\* Mutant: a transaction is left open when its request ends.
KeepSessions(r) == UNCHANGED sessionLock

\* The end of a transaction drops its row locks.
ReleaseUsers(r) == userLock' = [u \in User |-> IF userLock[u] = r THEN NoReq ELSE userLock[u]]
ReleaseSessions(r) ==
    sessionLock' = [s \in Sid |-> IF sessionLock[s] = r THEN NoReq ELSE sessionLock[s]]
ReleaseLocks(r) == ReleaseUsers(r) /\ ReleaseSessions(r)

\* create_refresh_token: the hash is stored active
FreshToken(s) == [sid |-> s, status |-> "active", born |-> now,
                  rotatedAt |-> Never, accessBorn |-> Never]

\* The random ids of a request (uuid4, token_urlsafe) are drawn when it starts:
\* no row, hash or other request has them.
FreshSid(s) ==
    /\ session[s].status = "absent"
    /\ \A q \in Req : req[q].sid # s
    /\ \A k \in Pair : token[k].sid # s
FreshPair(k) ==
    /\ token[k] = NoToken
    /\ \A q \in Req : req[q].fresh # k

-----------------------------------------------------------------------------
(* login_by_email, complete_login *)

\* The user is read by email without a lock, and the state and the password
\* are checked on that copy; a request that fails here changes nothing.
StartLogin(r, u) ==
    /\ At(r, "idle")
    /\ CanAuthenticate(account[u])
    /\ \E s \in Sid, k \in Pair :
          /\ FreshSid(s)
          /\ FreshPair(k)
          /\ req' = [req EXCEPT ![r] = [Idle EXCEPT !.pc = "login_lock", !.user = u,
                                                    !.sid = s, !.fresh = k, !.began = now,
                                                    !.seenUser = account[u]]]
    /\ UNCHANGED <<now, delivered, database, redis>>

\* Mutant: complete_login reads the row without FOR UPDATE.
LoginUnlocked(r) ==
    /\ At(r, "login_lock")
    /\ CanAuthenticate(req[r].seenUser)
    /\ Goto(r, "login_mint")
    /\ UNCHANGED <<now, delivered, database, redis>>

\* complete_login takes the row lock and checks again.  The SELECT ... FOR
\* UPDATE returns the User that login_by_email already holds in the identity
\* map, whose attributes a SELECT does not overwrite: the check is about the
\* copy read before the lock.  The sessions row is then inserted, uncommitted.
LoginLock(r) ==
    /\ At(r, "login_lock")
    /\ userLock[req[r].user] = NoReq
    /\ CanAuthenticate(req[r].seenUser)
    /\ userLock' = [userLock EXCEPT ![req[r].user] = r]
    /\ Goto(r, "login_mint")
    /\ UNCHANGED <<now, account, session, sessionLock, delivered, redis>>

\* The access token is signed and the refresh token stored, before the commit.
LoginMint(r) ==
    /\ At(r, "login_mint")
    /\ token' = [token EXCEPT ![req[r].fresh] =
                    [FreshToken(req[r].sid) EXCEPT !.accessBorn = now]]
    /\ Goto(r, "login_commit")
    /\ UNCHANGED <<now, delivered, database, markedAt, blackUntil>>

\* Mutant: the pair that is returned is not the one that was minted.
LoginWrongPair(r) ==
    /\ At(r, "login_commit")
    /\ session' = [session EXCEPT ![req[r].sid] = [user |-> req[r].user, status |-> "active"]]
    /\ delivered' = delivered \cup {req[r].pair}
    /\ ReleaseLocks(r)
    /\ Finish(r)
    /\ UNCHANGED <<now, account, redis>>

\* The commit; the response may still be lost on its way.
LoginCommit(r) ==
    /\ At(r, "login_commit")
    /\ session' = [session EXCEPT ![req[r].sid] = [user |-> req[r].user, status |-> "active"]]
    /\ delivered' \in {delivered, delivered \cup {req[r].fresh}}
    /\ ReleaseLocks(r)
    /\ Finish(r)
    /\ UNCHANGED <<now, account, redis>>

-----------------------------------------------------------------------------
(* refresh, rotate_refresh_token *)

\* A client presents a refresh token it was given; hgetall finds the hash.
StartRefresh(r, k) ==
    /\ At(r, "idle")
    /\ ~Expired(token[k])
    /\ \E n \in Pair :
          /\ FreshPair(n)
          /\ req' = [req EXCEPT ![r] = [Idle EXCEPT !.pc = "refresh_check", !.pair = k,
                                                    !.sid = token[k].sid, !.fresh = n,
                                                    !.seenToken = token[k],
                                                    !.began = now, !.late = Ended(k)]]
    /\ UNCHANGED <<now, delivered, database, redis>>

\* ensure_session_active, expiry, then the branch on the status that was read
RefreshCheck(r) ==
    LET t == req[r].seenToken
    IN  /\ At(r, "refresh_check")
        /\ \/ /\ ~SessionActive(req[r].sid)
              /\ Finish(r)
              /\ UNCHANGED token
           \/ /\ SessionActive(req[r].sid)
              /\ Expired(t)
              /\ token' = [token EXCEPT ![req[r].pair].status = "revoked"]
              /\ Finish(r)
           \/ /\ SessionActive(req[r].sid)
              /\ ~Expired(t)
              /\ \/ t.status = "active" /\ Goto(r, "refresh_mint")
                 \/ t.status = "rotated" /\ WithinReuseGrace(t) /\ Finish(r)
                 \/ t.status = "rotated" /\ ~WithinReuseGrace(t) /\ Goto(r, "revoke_row")
                 \/ t.status = "revoked" /\ Finish(r)
              /\ UNCHANGED token
        /\ UNCHANGED <<now, delivered, database, markedAt, blackUntil>>

RefreshMint(r) ==
    /\ At(r, "refresh_mint")
    /\ token' = [token EXCEPT ![req[r].fresh] = FreshToken(req[r].sid)]
    /\ Goto(r, "refresh_rotate")
    /\ UNCHANGED <<now, delivered, database, markedAt, blackUntil>>

\* The presented hash becomes "rotated", whatever has become of it since hgetall.
RefreshRotate(r) ==
    /\ At(r, "refresh_rotate")
    /\ token' = [token EXCEPT ![req[r].pair].status = "rotated",
                              ![req[r].pair].rotatedAt = now]
    /\ Goto(r, "refresh_user")
    /\ UNCHANGED <<now, delivered, database, markedAt, blackUntil>>

RefreshUser(r) ==
    /\ At(r, "refresh_user")
    /\ Goto(r, IF CanAuthenticate(account[session[req[r].sid].user])
               THEN "refresh_recheck" ELSE "revoke_row")
    /\ UNCHANGED <<now, delivered, database, redis>>

\* Mutant: refresh does not look at the session again after the rotation.
RefreshUnchecked(r) ==
    /\ At(r, "refresh_recheck")
    /\ Goto(r, "refresh_issue")
    /\ UNCHANGED <<now, delivered, database, redis>>

RefreshRecheck(r) ==
    /\ At(r, "refresh_recheck")
    /\ Goto(r, IF SessionActive(req[r].sid) THEN "refresh_issue" ELSE "revoke_row")
    /\ UNCHANGED <<now, delivered, database, redis>>

\* Claims, the access token, and the response.
RefreshIssue(r) ==
    /\ At(r, "refresh_issue")
    /\ token' = [token EXCEPT ![req[r].fresh].accessBorn = now]
    /\ delivered' = delivered \cup {req[r].fresh}
    /\ Finish(r)
    /\ UNCHANGED <<now, database, markedAt, blackUntil>>

-----------------------------------------------------------------------------
(* logout, and revoke_session with the commit that follows it *)

\* verify_access_token, then add_jti with setex max(1, exp - now)
StartLogout(r, k) ==
    /\ At(r, "idle")
    /\ AccessValid(k)
    /\ blackUntil' = [blackUntil EXCEPT ![k] = token[k].accessBorn + AccessTTL]
    /\ req' = [req EXCEPT ![r] = [Idle EXCEPT !.pc = "revoke_row", !.pair = k,
                                              !.sid = token[k].sid, !.began = now,
                                              !.late = Ended(k)]]
    /\ UNCHANGED <<now, delivered, database, markedAt, token>>

\* SELECT the row, and UPDATE it if it is active: the UPDATE waits for its lock.
RevokeRow(r) ==
    LET s == req[r].sid
    IN  /\ At(r, "revoke_row")
        /\ \/ /\ session[s].status # "active"
              /\ Goto(r, "revoke_mark")
              /\ UNCHANGED sessionLock
           \/ /\ session[s].status = "active"
              /\ sessionLock[s] = NoReq
              /\ sessionLock' = [sessionLock EXCEPT ![s] = r]
              /\ req' = [req EXCEPT ![r].pc = "revoke_mark", ![r].sweep = {s}]
        /\ UNCHANGED <<now, account, userLock, session, delivered, redis>>

\* Mutant: the session is revoked in PostgreSQL only.
RevokeUnmarked(r) ==
    /\ At(r, "revoke_mark")
    /\ Goto(r, "revoke_commit")
    /\ UNCHANGED <<now, delivered, database, redis>>

\* _write_redis_revocation comes before the caller's commit.
RevokeMark(r) ==
    /\ At(r, "revoke_mark")
    /\ markedAt' = [markedAt EXCEPT ![req[r].sid] = now]
    /\ Goto(r, "revoke_commit")
    /\ UNCHANGED <<now, delivered, database, token, blackUntil>>

RevokeCommit(r) ==
    /\ At(r, "revoke_commit")
    /\ session' = [s \in Sid |-> IF s \in req[r].sweep
                                 THEN [session[s] EXCEPT !.status = "revoked"] ELSE session[s]]
    /\ ReleaseLocks(r)
    /\ Finish(r)
    /\ UNCHANGED <<now, account, delivered, redis>>

-----------------------------------------------------------------------------
(* AdminUserService: the operations on one user *)

StartAdmin(r, u, op) ==
    /\ At(r, "idle")
    /\ op = "reset" => account[u].pwd < MaxPwd
    /\ req' = [req EXCEPT ![r] = [Idle EXCEPT !.pc = "admin_lock", !.user = u, !.op = op,
                                              !.began = now]]
    /\ UNCHANGED <<now, delivered, database, redis>>

\* Whether an operation has something to do; otherwise it ends with a no_change
\* audit row, or is aborted (enable of a blacklisted user).
Effective(op, a) ==
    \/ op = "disable" /\ a.active
    \/ op = "blacklist" /\ ~a.blacklisted
    \/ op = "enable" /\ ~a.blacklisted /\ ~a.active
    \/ op = "recover" /\ a.blacklisted
    \/ op \in {"reset", "force_logout"}

\* The users row as the operation leaves it
Applied(op, a) ==
    CASE op = "disable"   -> [a EXCEPT !.active = FALSE]
      [] op = "enable"    -> [a EXCEPT !.active = TRUE]
      [] op = "blacklist" -> [a EXCEPT !.blacklisted = TRUE]
      [] op = "recover"   -> [a EXCEPT !.blacklisted = FALSE]
      [] op = "reset"     -> [a EXCEPT !.pwd = @ + 1]
      [] OTHER            -> a

\* Mutant: _lock_user reads the row without FOR UPDATE.
AdminUnlocked(r) ==
    LET u == req[r].user
    IN  /\ At(r, "admin_lock")
        /\ IF Effective(req[r].op, account[u])
           THEN Goto(r, IF req[r].op \in RevokingOp THEN "admin_sweep" ELSE "admin_commit")
           ELSE Finish(r)
        /\ UNCHANGED <<now, delivered, database, redis>>

\* _lock_user, then the operation's own checks on the locked row
AdminLock(r) ==
    LET u == req[r].user
    IN  /\ At(r, "admin_lock")
        /\ userLock[u] = NoReq
        /\ \/ /\ ~Effective(req[r].op, account[u])
              /\ Finish(r)
              /\ UNCHANGED userLock
           \/ /\ Effective(req[r].op, account[u])
              /\ userLock' = [userLock EXCEPT ![u] = r]
              /\ Goto(r, IF req[r].op \in RevokingOp THEN "admin_sweep" ELSE "admin_commit")
        /\ UNCHANGED <<now, account, session, sessionLock, delivered, redis>>

ActiveSessions(u) == {s \in Sid : session[s].user = u /\ session[s].status = "active"}

\* revoke_user_sessions: SELECT the active sessions FOR UPDATE
AdminSweep(r) ==
    LET S == ActiveSessions(req[r].user)
    IN  /\ At(r, "admin_sweep")
        /\ \A s \in S : sessionLock[s] = NoReq
        /\ sessionLock' = [s \in Sid |-> IF s \in S THEN r ELSE sessionLock[s]]
        /\ req' = [req EXCEPT ![r].pc = "admin_mark", ![r].sweep = S, ![r].todo = S]
        /\ UNCHANGED <<now, account, userLock, session, delivered, redis>>

\* Mutant: only the first of the sessions is marked.
AdminMarkOne(r) ==
    /\ At(r, "admin_mark")
    /\ \/ \E s \in req[r].todo : markedAt' = [markedAt EXCEPT ![s] = now]
       \/ req[r].todo = {} /\ UNCHANGED markedAt
    /\ Goto(r, "admin_commit")
    /\ UNCHANGED <<now, delivered, database, token, blackUntil>>

\* ... and write their markers, one after the other
AdminMark(r) ==
    /\ At(r, "admin_mark")
    /\ \/ \E s \in req[r].todo :
             /\ markedAt' = [markedAt EXCEPT ![s] = now]
             /\ req' = [req EXCEPT ![r].todo = @ \ {s}]
       \/ /\ req[r].todo = {}
          /\ Goto(r, "admin_commit")
          /\ UNCHANGED markedAt
    /\ UNCHANGED <<now, delivered, database, token, blackUntil>>

AdminCommit(r) ==
    LET u == req[r].user
    IN  /\ At(r, "admin_commit")
        /\ account' = [account EXCEPT ![u] = Applied(req[r].op, @)]
        /\ session' = [s \in Sid |-> IF s \in req[r].sweep
                                     THEN [session[s] EXCEPT !.status = "revoked"]
                                     ELSE session[s]]
        /\ ReleaseLocks(r)
        /\ Finish(r)
        /\ UNCHANGED <<now, delivered, redis>>

-----------------------------------------------------------------------------
(* authenticate_access_token, current_user *)

\* Mutant: the session is not looked up, a signed token is enough.
AuthenticateStateless(r, k) ==
    /\ At(r, "idle")
    /\ AccessValid(k)
    /\ ~Blacklisted(k)
    /\ req' = [req EXCEPT ![r] = [Idle EXCEPT !.pc = "auth_user", !.pair = k,
                                              !.sid = token[k].sid, !.began = now,
                                              !.late = Barred(k)]]
    /\ UNCHANGED <<now, delivered, database, redis>>

\* The signature and exp, the blacklist and the session; a request that fails
\* here changes nothing.
StartAuthenticate(r, k) ==
    /\ At(r, "idle")
    /\ AccessValid(k)
    /\ ~Blacklisted(k)
    /\ SessionActive(token[k].sid)
    /\ req' = [req EXCEPT ![r] = [Idle EXCEPT !.pc = "auth_user", !.pair = k,
                                              !.sid = token[k].sid, !.began = now,
                                              !.late = Barred(k)]]
    /\ UNCHANGED <<now, delivered, database, redis>>

AuthUser(r) ==
    /\ At(r, "auth_user")
    /\ \/ CanAuthenticate(account[session[req[r].sid].user]) /\ Goto(r, "auth_serve")
       \/ ~CanAuthenticate(account[session[req[r].sid].user]) /\ Finish(r)
    /\ UNCHANGED <<now, delivered, database, redis>>

\* The caller is authenticated: the endpoint does its work.
AuthServe(r) ==
    /\ At(r, "auth_serve")
    /\ Finish(r)
    /\ UNCHANGED <<now, delivered, database, redis>>

-----------------------------------------------------------------------------
\* A request ends early: the worker dies or is killed, PostgreSQL or Redis
\* fails, a commit fails, the response is lost.  The transaction rolls back.
Abort(r) ==
    /\ ~At(r, "idle")
    /\ ReleaseLocks(r)
    /\ Finish(r)
    /\ UNCHANGED <<now, account, session, delivered, redis>>

\* Time passes, but no request outlives the bound on its running time.
Tick ==
    /\ now < MaxTime
    /\ \A r \in Req : At(r, "idle") \/ now < req[r].began + Stall
    /\ now' = now + 1
    /\ UNCHANGED <<delivered, database, redis, req>>

Start(r) ==
    \/ \E u \in User : StartLogin(r, u) \/ \E op \in Ops : StartAdmin(r, u, op)
    \/ \E k \in delivered : StartRefresh(r, k) \/ StartLogout(r, k) \/ StartAuthenticate(r, k)

Proceed(r) ==
    \/ LoginLock(r) \/ LoginMint(r) \/ LoginCommit(r)
    \/ RefreshCheck(r) \/ RefreshMint(r) \/ RefreshRotate(r)
    \/ RefreshUser(r) \/ RefreshRecheck(r) \/ RefreshIssue(r)
    \/ RevokeRow(r) \/ RevokeMark(r) \/ RevokeCommit(r)
    \/ AdminLock(r) \/ AdminSweep(r) \/ AdminMark(r) \/ AdminCommit(r)
    \/ AuthUser(r) \/ AuthServe(r)

Next == Tick \/ \E r \in Req : Start(r) \/ Proceed(r) \/ Abort(r)

Spec == Init /\ [][Next]_vars

\* A request that has begun goes on, and PostgreSQL grants a row lock to those
\* that wait for it in turn (strong fairness).  Clients, administrators, failures
\* and the clock owe nothing.
Fairness ==
    \A r \in Req :
        /\ WF_vars(Proceed(r))
        /\ SF_vars(LoginLock(r) \/ AdminLock(r))
        /\ SF_vars(RevokeRow(r) \/ AdminSweep(r))

FairSpec == Spec /\ Fairness
-----------------------------------------------------------------------------
(* Properties *)

\* The tables, hashes and requests have the shapes the code gives them.
TypeOK ==
    /\ now \in Nat
    /\ account \in [User -> Account]
    /\ userLock \in [User -> Req \cup {NoReq}]
    /\ session \in [Sid -> SessionRow]
    /\ sessionLock \in [Sid -> Req \cup {NoReq}]
    /\ markedAt \in [Sid -> Time]
    /\ token \in [Pair -> Token]
    /\ delivered \subseteq Pair
    /\ blackUntil \in [Pair -> Time]
    /\ req \in [Req -> Request]

\* A refresh or an authentication that began after its session's revocation
\* marker was written (even by a transaction that then rolled back, and even
\* after the marker's TTL), or after its access token was logged out, never
\* gets past the checks of refresh and authenticate_access_token.
EndedNeverServed ==
    \A r \in Req : req[r].pc \in {"refresh_issue", "auth_serve"} => ~req[r].late

\* The marker's TTL (_write_redis_revocation) is long enough: every pair a client
\* holds was created before its session was marked, so that when the marker
\* expires no refresh token and no access token of the session is still valid.
MarkerOutlivesTokens ==
    \A k \in delivered :
        markedAt[token[k].sid] # Never =>
            /\ token[k].born <= markedAt[token[k].sid]
            /\ token[k].accessBorn + AccessTTL <= markedAt[token[k].sid] + RefreshTTL

\* The two stores agree: a session revoked in the database was marked in Redis
\* first (revoke_session and revoke_user_sessions write the marker before their
\* caller commits), and a pair a client holds has a committed session row,
\* although its token was stored before that commit.
StoresAgree ==
    /\ \A s \in Sid : session[s].status = "revoked" => markedAt[s] # Never
    /\ \A k \in delivered : session[token[k].sid].status # "absent"

\* When a disable, blacklist, password reset or forced logout commits, no active
\* session of the user is left: complete_login holds the user's row lock from
\* before its session is inserted until its commit, so revoke_user_sessions misses
\* none of them.
SweepIsComplete ==
    [][\A r \in Req : AdminCommit(r) /\ req[r].op \in RevokingOp =>
          \A s \in Sid : session'[s].user = req[r].user => session'[s].status # "active"]_vars

\* complete_login "locks and re-checks the user's state": the session it commits
\* belongs to a user who may authenticate, with the password that was verified.
LoginUsesCurrentAccount ==
    [][\A r \in Req : LoginCommit(r) => req[r].seenUser = account[req[r].user]]_vars

\* A refresh token that has been rotated is not rotated again: its replay is
\* rejected or revokes the session.
RotatedOnce ==
    [][\A r \in Req : RefreshRotate(r) => token[req[r].pair].status = "active"]_vars

-----------------------------------------------------------------------------
(* The abstract promise *)

Phase == [s \in Sid |-> IF markedAt[s] # Never THEN "ended"
                        ELSE IF session[s].status = "absent" THEN "unborn" ELSE "open"]

Serving == [r \in Req |-> IF req[r].pair = NoPair THEN "none"
                          ELSE IF req[r].pc \in {"refresh_issue", "auth_serve"} THEN "served"
                          ELSE IF req[r].late THEN "late" ELSE "timely"]

Authority == INSTANCE SessionAuthority WITH phase <- Phase, serving <- Serving

\* The handlers, tokens and two stores implement the abstract promise: a session
\* opens once, ends once, and is not served to a request that arrives later.
AuthorityRefined == Authority!Spec
=============================================================================
