---------------------------- MODULE ServiceAuth ----------------------------
(***************************************************************************)
(* Applications, the scopes they offer, the grants that let one            *)
(* application use a scope of another, and the service tokens issued on    *)
(* the strength of these rows.                                             *)
(*                                                                         *)
(* Tokens are not stored and not revoked: what an administrator takes away *)
(* stays usable until the tokens that carry it run out.                    *)
(***************************************************************************)
EXTENDS Integers, FiniteSets

CONSTANTS
    Req, App, Code,
    Scope,           \* the scopes that may exist: pairs of the target and its code
    Profile,         \* values of what update_app changes
    Offer,           \* windows that administrators ask for
    TTL,             \* service_token_expire_seconds
    Skew,            \* service_token_clock_skew_seconds
    Stall,           \* bound on the running time of a request
    NoReq, NoRow, NoToken,
    Mixes,           \* bound on the operations that occur together, on the applications and
                     \* scopes they meet, and on the clock
    MaxTokens,       \* bound on the tokens that are out or being made
    MaxVersion       \* bound on the version of an application that is operated on

NoTime == -1
Time == Nat \cup {NoTime}
Grant == App \X Scope
\* What the schema lets through of valid_from and expires_at
Window == {w \in [from : Time, until : Time] :
              w.from # NoTime /\ w.until # NoTime => w.from < w.until}
\* The scopes that a token request names: at least one
Requested == SUBSET Code \ {{}}
AppOp == {"disable_app", "enable_app", "regenerate_secret"}
ScopeOp == {"disable_scope", "enable_scope"}
Op == AppOp \cup ScopeOp \cup
      {"create_app", "update_app", "create_scope", "create_grant", "revoke_grant", "issue"}

ASSUME ServiceAssumption ==
    /\ TTL \in Nat \ {0} /\ Skew \in Nat /\ Stall \in Nat
    /\ App # {} /\ Profile # {}
    /\ Scope \subseteq App \X Code
    /\ Offer \subseteq Window
    /\ NoReq \notin Req /\ NoRow \notin App \cup Scope \cup Grant
    /\ Mixes \subseteq [ops : SUBSET (Op \cup {"call"}), apps : SUBSET App,
                       scopes : SUBSET Scope, time : Nat]
    /\ MaxTokens \in Nat /\ MaxVersion \in Nat

VARIABLES
    now,
    app, scope, grant,   \* committed rows
    lock,                \* rows locked by SELECT ... FOR UPDATE or UPDATE
    token,               \* the tokens issued that are still accepted
    req,                 \* requests that run
    mix                  \* what occurs in this behaviour

vars == <<now, app, scope, grant, lock, token, req, mix>>
rows == <<app, scope, grant>>

\* disabledAt means something while the application is disabled only.
AppRow == [known : BOOLEAN, enabled : BOOLEAN, secret : Nat, version : Nat, profile : Profile,
           disabledAt : Time, secretAt : Time]
ScopeRow == [known : BOOLEAN, enabled : BOOLEAN, updatedAt : Time]
GrantRow == [status : {"none", "enabled", "revoked"}, from : Time, until : Time, revokedAt : Time]

NewScope(at) == [known |-> TRUE, enabled |-> TRUE, updatedAt |-> at]
NoScope == [known |-> FALSE, enabled |-> FALSE, updatedAt |-> NoTime]
NewGrant(from, until) == [status |-> "enabled", from |-> from, until |-> until, revokedAt |-> NoTime]
NoGrant == [status |-> "none", from |-> NoTime, until |-> NoTime, revokedAt |-> NoTime]

\* The claims sub, aud, scope and iat; exp is iat + TTL.  secret: history, what the caller
\* authenticated with.
Token == [caller : App, aud : App, codes : SUBSET Code, iat : Nat, secret : Nat]

Request == [pc : {"idle", "edit", "write", "insert", "commit", "target", "grants", "encode"},
            op : Op \cup {"none"},
            row : App \cup Scope \cup Grant \cup {NoRow},
            version : Nat,            \* the version that the administrator was shown
            seen : AppRow,            \* the application as the request loaded it
            profile : Profile, offer : [from : Time, until : Time],
            at : Time,                \* the time that is written to the row
            claim : Token, started : Nat,
            answer : Token \cup {NoToken}]

-----------------------------------------------------------------------------
(* Verification *)

\* get_service_principal: the signature, the issuer and the token's use are as issued
Accepts(t, audience, clock) ==
    t.aud = audience /\ t.iat <= clock + Skew /\ clock < t.iat + TTL + Skew
\* require_service_scope
Serves(t, audience, code, clock) == Accepts(t, audience, clock) /\ code \in t.codes

(* effective_scopes *)

\* Mutant: a revoked grant is as good as any.
EffectiveWhenRevoked(caller, target, clock) ==
    {c \in Code : /\ <<target, c>> \in Scope /\ scope[<<target, c>>].enabled
                  /\ LET g == grant[<<caller, <<target, c>>>>]
                     IN  /\ g.status # "none" /\ g.from <= clock
                         /\ g.until = NoTime \/ g.until > clock}
Effective(caller, target, clock) ==
    {c \in Code : /\ <<target, c>> \in Scope /\ scope[<<target, c>>].enabled
                  /\ LET g == grant[<<caller, <<target, c>>>>]
                     IN  /\ g.status = "enabled" /\ g.from <= clock
                         /\ g.until = NoTime \/ g.until > clock}

-----------------------------------------------------------------------------
NewApp(p, at) == [known |-> TRUE, enabled |-> TRUE, secret |-> 0, version |-> 1, profile |-> p,
                  disabledAt |-> NoTime, secretAt |-> at]
SomeProfile == CHOOSE p \in Profile : TRUE
NoApp == [NewApp(SomeProfile, NoTime) EXCEPT !.known = FALSE, !.enabled = FALSE, !.version = 0]
Idle == [pc |-> "idle", op |-> "none", row |-> NoRow, version |-> 0, seen |-> NoApp,
         profile |-> SomeProfile, offer |-> [from |-> NoTime, until |-> NoTime],
         at |-> NoTime,
         claim |-> [caller |-> CHOOSE a \in App : TRUE, aud |-> CHOOSE a \in App : TRUE,
                    codes |-> {}, iat |-> 0, secret |-> 0],
         started |-> 0, answer |-> NoToken]

\* An installation in which some applications, scopes and grants have been set up already
Init ==
    /\ now = 0
    /\ mix \in Mixes
    /\ \E known \in SUBSET App :
          /\ app = [a \in App |-> IF a \in known THEN NewApp(SomeProfile, 0) ELSE NoApp]
          /\ \E offered \in SUBSET {s \in mix.scopes : s[1] \in known} :
                /\ scope = [s \in Scope |-> IF s \in offered THEN NewScope(0) ELSE NoScope]
                /\ \E given \in SUBSET {g \in Grant : g[1] \in known /\ g[2] \in offered} :
                      grant = [g \in Grant |-> IF g \in given THEN NewGrant(0, NoTime) ELSE NoGrant]
    /\ lock = [x \in App \cup Scope \cup Grant |-> NoReq]
    /\ token = {}
    /\ req = [r \in Req |-> Idle]

At(r, step) == req[r].pc = step
Begin(op, step) == [Idle EXCEPT !.op = op, !.pc = step, !.started = now]
Goto(r, step) == req' = [req EXCEPT ![r].pc = step]
Unlock(r) == lock' = [x \in DOMAIN lock |-> IF lock[x] = r THEN NoReq ELSE lock[x]]
\* The end of a request, with or without an effect
End(r) == Unlock(r) /\ req' = [req EXCEPT ![r] = Idle]
Rollback(r) == End(r) /\ UNCHANGED <<rows, token>>

-----------------------------------------------------------------------------
(* Administrators *)

\* create_app: the identifier is drawn until nobody has it.
CreateApp(a, p) ==
    /\ "create_app" \in mix.ops /\ a \in mix.apps /\ ~app[a].known
    /\ app' = [app EXCEPT ![a] = NewApp(p, now)]
    /\ UNCHANGED <<scope, grant, lock, token, req>>

\* Mutant: the target is not looked up.
CreateScopeAnywhere(s) ==
    /\ "create_scope" \in mix.ops /\ s \in mix.scopes /\ ~scope[s].known
    /\ scope' = [scope EXCEPT ![s] = NewScope(now)]
    /\ UNCHANGED <<app, grant, lock, token, req>>
\* create_scope: rows are never deleted, so the checks hold until the commit; of two
\* creations of one scope the unique index lets one through.
CreateScope(s) ==
    /\ "create_scope" \in mix.ops /\ s \in mix.scopes /\ app[s[1]].known /\ ~scope[s].known
    /\ scope' = [scope EXCEPT ![s] = NewScope(now)]
    /\ UNCHANGED <<app, grant, lock, token, req>>

\* list_apps and get_app show a version, which comes back with what is to be changed.
ViewApp(r, a, p) ==
    /\ "update_app" \in mix.ops /\ At(r, "idle")
    /\ app[a].known /\ app[a].version < MaxVersion
    /\ req' = [req EXCEPT ![r] = [Begin("update_app", "edit") EXCEPT
                                     !.row = a, !.profile = p, !.version = app[a].version]]
    /\ UNCHANGED <<rows, lock, token>>
\* update_app: the row without a lock, the comparison of versions and of the values
ReadApp(r) ==
    LET row == app[req[r].row]
    IN  /\ At(r, "edit")
        /\ \/ (row.version # req[r].version \/ row.profile = req[r].profile) /\ Rollback(r)
           \/ /\ row.version = req[r].version /\ row.profile # req[r].profile
              /\ req' = [req EXCEPT ![r].pc = "write", ![r].seen = row, ![r].started = now]
              /\ UNCHANGED <<rows, lock, token>>
\* The UPDATE, once the row is free, finds the version or nothing.
UpdateApp(r) ==
    LET a == req[r].row
    IN  /\ At(r, "write") /\ lock[a] = NoReq
        /\ \/ app[a].version # req[r].version /\ Rollback(r)
           \/ /\ app[a].version = req[r].version
              /\ lock' = [lock EXCEPT ![a] = r]
              /\ Goto(r, "commit")
              /\ UNCHANGED <<rows, token>>

\* What an operation on a locked row finds worth changing
Applies(op, x) ==
    \/ op = "disable_app" /\ x \in App /\ app[x].known /\ app[x].enabled
    \/ op = "enable_app" /\ x \in App /\ app[x].known /\ ~app[x].enabled
    \/ op = "regenerate_secret" /\ x \in App /\ app[x].known
    \/ op = "disable_scope" /\ x \in Scope /\ scope[x].known /\ scope[x].enabled
    \/ op = "enable_scope" /\ x \in Scope /\ scope[x].known /\ ~scope[x].enabled
    \/ op = "revoke_grant" /\ x \in Grant /\ grant[x].status = "enabled"
\* revoke_grant locks both rows of its join.
Locked(x) == IF x \in Grant THEN {x, x[2]} ELSE {x}
Loaded(x) == IF x \in App THEN app[x] ELSE NoApp

\* Mutant: the rows are read without FOR UPDATE.
ReadRow(r, op, x) ==
    /\ op \in mix.ops /\ At(r, "idle") /\ Applies(op, x) /\ Loaded(x).version < MaxVersion
    /\ req' = [req EXCEPT ![r] = [Begin(op, "commit") EXCEPT
                                     !.row = x, !.seen = Loaded(x), !.at = now]]
    /\ UNCHANGED <<rows, lock, token>>
\* _lock_app, _lock_scope, the join of revoke_grant; the time is taken after the lock.
LockRow(r, op, x) ==
    /\ op \in mix.ops /\ At(r, "idle")
    /\ \A y \in Locked(x) : lock[y] = NoReq
    /\ Applies(op, x) /\ Loaded(x).version < MaxVersion
    /\ lock' = [y \in DOMAIN lock |-> IF y \in Locked(x) THEN r ELSE lock[y]]
    /\ req' = [req EXCEPT ![r] = [Begin(op, "commit") EXCEPT
                                     !.row = x, !.seen = Loaded(x), !.at = now]]
    /\ UNCHANGED <<rows, token>>

\* The columns that each operation writes.  The version goes on from the loaded one, or,
\* in update_app, from what the UPDATE finds.
AppAfter(r) ==
    LET found == app[req[r].row]
        row == [found EXCEPT !.version = req[r].seen.version + 1]
        at == req[r].at
    IN  CASE req[r].op = "update_app" -> [found EXCEPT !.version = @ + 1, !.profile = req[r].profile]
          [] req[r].op = "disable_app" -> [row EXCEPT !.enabled = FALSE, !.disabledAt = at]
          [] req[r].op = "enable_app" -> [row EXCEPT !.enabled = TRUE, !.disabledAt = NoTime]
          [] req[r].op = "regenerate_secret" -> [row EXCEPT !.secret = @ + 1, !.secretAt = at]

\* The audit event, which commits with the change: what it says was there before, and
\* what is there now.
AppAudit(r) == [from |-> req[r].seen, to |-> AppAfter(r)]
ScopeAudit(r) == [from |-> req[r].op = "disable_scope", to |-> req[r].op = "enable_scope"]
GrantAudit(r) == [from |-> "enabled", to |-> "revoked"]

CommitApp(r) ==
    /\ At(r, "commit") /\ req[r].op \in AppOp \cup {"update_app"}
    /\ app' = [app EXCEPT ![req[r].row] = AppAfter(r)]
    /\ End(r)
    /\ UNCHANGED <<scope, grant, token>>
CommitScope(r) ==
    /\ At(r, "commit") /\ req[r].op \in ScopeOp
    /\ scope' = [scope EXCEPT ![req[r].row].enabled = req[r].op = "enable_scope",
                              ![req[r].row].updatedAt = req[r].at]
    /\ End(r)
    /\ UNCHANGED <<app, grant, token>>
CommitRevoke(r) ==
    /\ At(r, "commit") /\ req[r].op = "revoke_grant"
    /\ grant' = [grant EXCEPT ![req[r].row].status = "revoked",
                              ![req[r].row].revokedAt = req[r].at]
    /\ End(r)
    /\ UNCHANGED <<app, scope, token>>

\* create_grant: a grant that exists, revoked or not, is neither changed nor replaced.
ReadGrant(r, g, offer) ==
    /\ "create_grant" \in mix.ops /\ At(r, "idle")
    /\ app[g[1]].known /\ scope[g[2]].known /\ grant[g].status = "none"
    /\ LET from == IF offer.from = NoTime THEN now ELSE offer.from
       IN  /\ offer.until = NoTime \/ from < offer.until
           /\ req' = [req EXCEPT ![r] = [Begin("create_grant", "insert") EXCEPT
                                            !.row = g, !.offer = [offer EXCEPT !.from = from]]]
    /\ UNCHANGED <<rows, lock, token>>
\* Mutant: the insertion replaces a row that has come since the read.
InsertOrReplaceGrant(r) ==
    /\ At(r, "insert")
    /\ grant' = [grant EXCEPT ![req[r].row] = NewGrant(req[r].offer.from, req[r].offer.until)]
    /\ End(r)
    /\ UNCHANGED <<app, scope, token>>
\* The insertion, which the unique index refuses if somebody else was faster
InsertGrant(r) ==
    /\ At(r, "insert")
    /\ \/ grant[req[r].row].status # "none" /\ Rollback(r)
       \/ /\ grant[req[r].row].status = "none"
          /\ grant' = [grant EXCEPT ![req[r].row] = NewGrant(req[r].offer.from, req[r].offer.until)]
          /\ End(r)
          /\ UNCHANGED <<app, scope, token>>

-----------------------------------------------------------------------------
(* The token endpoint *)

\* authenticate_client; whoever fails here leaves no trace.
Authenticated(caller, secret) ==
    app[caller].known /\ app[caller].enabled /\ app[caller].secret = secret
StartIssue(r, caller, secret, aud, codes) ==
    /\ At(r, "idle") /\ Authenticated(caller, secret)
    /\ req' = [req EXCEPT ![r] = [Begin("issue", "target") EXCEPT
                 !.claim = [caller |-> caller, aud |-> aud, codes |-> codes, iat |-> 0,
                            secret |-> secret]]]
    /\ UNCHANGED <<rows, lock, token>>

\* An application that asks for itself finds the row as it was loaded for the caller.
ReadTarget(r) ==
    LET t == req[r].claim
        refused == t.aud # t.caller /\ ~(app[t.aud].known /\ app[t.aud].enabled)
    IN  /\ At(r, "target")
        /\ \/ refused /\ Rollback(r)
           \/ ~refused /\ Goto(r, "grants") /\ UNCHANGED <<rows, lock, token>>

ReadGrants(r) ==
    LET allowed == Effective(req[r].claim.caller, req[r].claim.aud, now)
    IN  /\ At(r, "grants")
        /\ \/ ~(req[r].claim.codes \subseteq allowed) /\ Rollback(r)
           \/ /\ req[r].claim.codes \subseteq allowed
              /\ Goto(r, "encode")
              /\ UNCHANGED <<rows, lock, token>>

\* _encode takes the time of its own; the answer stays for whoever reads it.
Encode(r) ==
    LET t == [req[r].claim EXCEPT !.iat = now]
    IN  /\ At(r, "encode")
        /\ token' = token \cup {t}
        /\ req' = [req EXCEPT ![r] = [Idle EXCEPT !.answer = t]]
        /\ UNCHANGED <<rows, lock>>

\* A worker dies, a store fails.
Abort(r) == ~At(r, "idle") /\ Rollback(r)

\* Tokens that nobody accepts any more are forgotten.
Tick ==
    /\ now < mix.time
    /\ \A r \in Req : At(r, "idle") \/ At(r, "edit") \/ now < req[r].started + Stall
    /\ now' = now + 1
    /\ token' = {t \in token : Accepts(t, t.aud, now + 1)}
    /\ UNCHANGED <<rows, lock, req>>

-----------------------------------------------------------------------------
AdministerApps(r) ==
    \/ \E a \in mix.apps, p \in Profile : ViewApp(r, a, p)
    \/ \E op \in AppOp, a \in mix.apps : LockRow(r, op, a)
AdministerScopes(r) == \E op \in ScopeOp, s \in Scope : LockRow(r, op, s)
AdministerGrants(r) ==
    \/ \E g \in Grant : LockRow(r, "revoke_grant", g)
    \/ \E g \in Grant, offer \in Offer : ReadGrant(r, g, offer)
Administer(r) == AdministerApps(r) \/ AdministerScopes(r) \/ AdministerGrants(r)
Ask(r) ==
    /\ "issue" \in mix.ops
    /\ Cardinality(token) + Cardinality({q \in Req : req[q].op = "issue"}) < MaxTokens
    /\ \E caller, aud \in App, codes \in Requested :
          \E secret \in 0..app[caller].secret : StartIssue(r, caller, secret, aud, codes)
Proceed(r) ==
    \/ ReadApp(r) \/ UpdateApp(r) \/ CommitApp(r) \/ CommitScope(r) \/ CommitRevoke(r) \/ InsertGrant(r)
    \/ ReadTarget(r) \/ ReadGrants(r) \/ Encode(r) \/ Abort(r)
Create == \/ \E a \in App, p \in Profile : CreateApp(a, p)
          \/ \E s \in Scope : CreateScope(s)

Next == \/ (Create \/ \E r \in Req : Administer(r) \/ Ask(r) \/ Proceed(r)) /\ UNCHANGED <<now, mix>>
        \/ Tick /\ UNCHANGED mix

Spec == Init /\ [][Next]_vars
-----------------------------------------------------------------------------
(* Properties *)

\* Rows, requests and tokens have the shapes the code gives them; grants are between
\* rows that exist, as their foreign keys ask.
TypeOK ==
    /\ now \in Nat
    /\ app \in [App -> AppRow] /\ scope \in [Scope -> ScopeRow] /\ grant \in [Grant -> GrantRow]
    /\ \A s \in Scope : scope[s].known => app[s[1]].known
    /\ \A g \in Grant : grant[g].status # "none" => app[g[1]].known /\ scope[g[2]].known
    /\ lock \in [App \cup Scope \cup Grant -> Req \cup {NoReq}]
    /\ token \subseteq Token
    /\ req \in [Req -> Request]
    /\ mix \in Mixes

\* The longest that a right outlives its end: the transaction that ends it, the request
\* that read it before, and the token that came of it.
Limit == TTL + Skew + 2 * Stall

\* README: "Existing tokens remain valid until their expiry after a Grant is revoked".
\* No longer: when the resource side serves a token, the grant, the scope, the target, the
\* caller and the caller's secret were all good a bounded time ago, and the grant had begun.
OldRightsDie ==
    \A t \in token : \A c \in t.codes :
        LET s == <<t.aud, c>>
            g == grant[<<t.caller, s>>]
        IN  Serves(t, t.aud, c, now) =>
              /\ s \in Scope /\ g.status # "none" /\ g.from <= now
              /\ g.status = "revoked" => now < g.revokedAt + Limit
              /\ g.until # NoTime => now < g.until + Limit
              /\ ~scope[s].enabled => now < scope[s].updatedAt + Limit
              /\ \A a \in {t.caller, t.aud} : ~app[a].enabled => now < app[a].disabledAt + Limit
              /\ app[t.caller].secret # t.secret => now < app[t.caller].secretAt + Limit

\* The audit trail tells the history of the rows, though administrators act at once: what
\* an event says was there before is what the change found, and what it says came of it is
\* what was written.  Versions of applications advance by one, so an edit made for an
\* older version is noticed.
AuditTells ==
    [][\A r \in Req :
          LET x == req[r].row
          IN  /\ CommitApp(r) => /\ AppAudit(r) = [from |-> app[x], to |-> app'[x]]
                                 /\ app'[x].version = app[x].version + 1
              /\ CommitScope(r) => ScopeAudit(r) = [from |-> scope[x].enabled, to |-> scope'[x].enabled]
              /\ CommitRevoke(r) => GrantAudit(r) = [from |-> grant[x].status, to |-> grant'[x].status]]_vars

\* A grant keeps the window it was given; once revoked it never comes back, and the time of
\* the revocation stays the first, whatever creations and revocations run at once.
GrantsFinal ==
    [][\A g \in Grant :
          grant[g].status # "none" =>
             /\ grant'[g].from = grant[g].from /\ grant'[g].until = grant[g].until
             /\ grant[g].status = "revoked" => grant'[g] = grant[g]]_vars
=============================================================================
