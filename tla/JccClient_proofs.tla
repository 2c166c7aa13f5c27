-------------------------- MODULE JccClient_proofs --------------------------
(***************************************************************************)
(* Proofs about ServiceAuth and JccClient, for any applications, scopes,   *)
(* requests, threads and times.  The invariant carries a deadline from the *)
(* authentication of a caller to the token that comes of it: a right that  *)
(* has ended since did not end before the deadline less Stall, because     *)
(* the time that is written to a row is never older than that.             *)
(***************************************************************************)
EXTENDS JccClient, TLAPS

(* Rows *)

\* What a right that a request or a token rests on has at least been good for: until d,
\* give or take the transaction that ends it.
CallerBounds(t, d) ==
    LET row == app[t.caller]
    IN  /\ row.known
        /\ ~row.enabled => d <= row.disabledAt + Stall
        /\ row.secret # t.secret => d <= row.secretAt + Stall
TargetBounds(t, d) == app[t.aud].known /\ (~app[t.aud].enabled => d <= app[t.aud].disabledAt + Stall)
GrantBounds(t, c, d) ==
    LET s == <<t.aud, c>>
        g == grant[<<t.caller, s>>]
    IN  /\ s \in Scope /\ g.status # "none" /\ g.from <= now
        /\ g.status = "revoked" => d <= g.revokedAt + Stall
        /\ g.until # NoTime => d <= g.until + Stall
        /\ ~scope[s].enabled => d <= scope[s].updatedAt + Stall
Bounds(t, d) == CallerBounds(t, d) /\ TargetBounds(t, d) /\ \A c \in t.codes : GrantBounds(t, c, d)

(* Requests *)

\* Which operation is at which step, and on what row.
Editing(r) == req[r].pc \in {"edit", "write"}
Committing(r, ops) == req[r].pc = "commit" /\ req[r].op \in ops
ShapeInv(r) ==
    /\ req[r].pc = "commit" => req[r].op \in AppOp \cup ScopeOp \cup {"update_app", "revoke_grant"}
    /\ Editing(r) => req[r].op = "update_app"
    /\ Editing(r) \/ Committing(r, AppOp \cup {"update_app"}) => req[r].row \in App /\ app[req[r].row].known
    /\ Committing(r, ScopeOp) => req[r].row \in Scope /\ scope[req[r].row].known
    /\ Committing(r, {"revoke_grant"}) => req[r].row \in Grant
    /\ req[r].pc = "insert" => /\ req[r].row \in Grant
                               /\ app[req[r].row[1]].known /\ scope[req[r].row[2]].known

\* A request that holds a connection ends in time, and dates what it writes by its start.
TimeInv(r) ==
    /\ req[r].pc \notin {"idle", "edit"} => req[r].started <= now /\ now <= req[r].started + Stall
    /\ req[r].pc = "commit" /\ req[r].op # "update_app" => req[r].at = req[r].started

\* At its commit a request holds the row, finds it as it was loaded, and has work to do.
HoldInv(r) ==
    req[r].pc = "commit" =>
       /\ lock[req[r].row] = r
       /\ req[r].op # "update_app" => Applies(req[r].op, req[r].row)
       /\ req[r].op \in AppOp \cup {"update_app"} => req[r].seen = app[req[r].row]

\* An application of the version that was shown is the one that was loaded.
SeenInv(r) ==
    req[r].pc = "write" =>
       /\ req[r].seen.version = req[r].version /\ req[r].version <= app[req[r].row].version
       /\ req[r].version = app[req[r].row].version => req[r].seen = app[req[r].row]

\* What the token endpoint has found so far
IssueInv(r) ==
    LET t == req[r].claim
        d == req[r].started
    IN  /\ req[r].pc \in {"target", "grants", "encode"} => CallerBounds(t, d)
        /\ req[r].pc \in {"grants", "encode"} => TargetBounds(t, d)
        /\ req[r].pc = "encode" => \A c \in t.codes : GrantBounds(t, c, d)

RequestInv(r) == ShapeInv(r) /\ TimeInv(r) /\ HoldInv(r) /\ SeenInv(r) /\ IssueInv(r)
TokenInv(t) == t.iat <= now /\ Bounds(t, t.iat - Stall)

IInv == TypeOK /\ (\A r \in Req : RequestInv(r)) /\ (\A t \in token : TokenInv(t))

(* Threads *)

\* A fetch does not take long, and its answer is younger than the request.
FetchInv(t) ==
    /\ Fetching(t) => /\ thread[t].since <= now /\ now <= thread[t].since + Patience
                      /\ ~Fresh(thread[t].code)
    /\ Doing(t, "answer") /\ req[t].answer # NoToken =>
          thread[t].since <= req[t].answer.iat /\ req[t].answer.iat <= now
\* The cache forgets a token when the margin is left of its life.
CacheInv(c) ==
    cache[c].value # NoToken =>
       cache[c].refreshAt <= cache[c].value.iat + (IF TTL > Margin THEN TTL - Margin ELSE 0)
\* A token in hand is good for the call.
UseInv(t) ==
    Doing(t, "use") =>
       /\ thread[t].token # NoToken
       /\ now <= thread[t].since + Delay
       /\ thread[t].since + Delay < thread[t].token.iat + TTL
ClientInv == /\ IInv /\ ClientTypeOK
             /\ \A t \in Thread : FetchInv(t) /\ UseInv(t)
             /\ \A c \in Code : CacheInv(c)
-----------------------------------------------------------------------------
(* Types *)

\* The type of each field of a request.
LEMMA Fields ==
  ASSUME NEW m \in Request
  PROVE  /\ m.pc \in {"idle", "edit", "write", "insert", "commit", "target", "grants", "encode"}
         /\ m.op \in Op \cup {"none"} /\ m.row \in App \cup Scope \cup Grant \cup {NoRow}
         /\ m.version \in Nat /\ m.seen \in AppRow /\ m.profile \in Profile
         /\ m.offer \in [from : Time, until : Time] /\ m.at \in Time
         /\ m.claim \in Token /\ m.started \in Nat /\ m.answer \in Token \cup {NoToken}
  BY DEF Request

\* The type of each column of a row, and of each claim of a token.
LEMMA Columns ==
  /\ \A x \in AppRow : /\ x.known \in BOOLEAN /\ x.enabled \in BOOLEAN /\ x.secret \in Nat
                       /\ x.version \in Nat /\ x.profile \in Profile
                       /\ x.disabledAt \in Int /\ x.secretAt \in Int
                       /\ x.disabledAt \in Time /\ x.secretAt \in Time
  /\ \A x \in ScopeRow : /\ x.known \in BOOLEAN /\ x.enabled \in BOOLEAN
                         /\ x.updatedAt \in Int /\ x.updatedAt \in Time
  /\ \A x \in GrantRow : /\ x.status \in {"none", "enabled", "revoked"}
                         /\ x.from \in Int /\ x.until \in Int /\ x.revokedAt \in Int
                         /\ x.from \in Time /\ x.until \in Time /\ x.revokedAt \in Time
  /\ \A t \in Token : /\ t.caller \in App /\ t.aud \in App /\ t.codes \in SUBSET Code
                      /\ t.iat \in Nat /\ t.secret \in Nat
  BY DEF AppRow, ScopeRow, GrantRow, Token, Time, NoTime

\* Rows that do not exist, new ones and idle requests have their types.
LEMMA NewTypes ==
  ASSUME NEW p \in Profile, NEW at \in Time, NEW from \in Time, NEW until \in Time
  PROVE  /\ NewApp(p, at) \in AppRow /\ NoApp \in AppRow
         /\ NewScope(at) \in ScopeRow /\ NoScope \in ScopeRow
         /\ NewGrant(from, until) \in GrantRow /\ NoGrant \in GrantRow
         /\ SomeProfile \in Profile
  <1>1. SomeProfile \in Profile
    BY ServiceAssumption DEF SomeProfile
  <1>2. NoTime \in Time
    BY DEF Time
  <1>3. NewApp(SomeProfile, NoTime) \in AppRow /\ NewApp(p, at) \in AppRow
    BY <1>1, <1>2 DEF NewApp, AppRow
  <1>4. NoApp \in AppRow
    BY <1>1, <1>2 DEF NewApp, AppRow, NoApp
  <1>5. NewScope(at) \in ScopeRow /\ NoScope \in ScopeRow
    BY <1>2 DEF NewScope, NoScope, ScopeRow
  <1>6. NewGrant(from, until) \in GrantRow /\ NoGrant \in GrantRow
    BY <1>2 DEF NewGrant, NoGrant, GrantRow
  <1> QED BY <1>1, <1>3, <1>4, <1>5, <1>6

\* No request, and a thread's request after FetchFails, has its type.
LEMMA IdleType == Idle \in Request
  <1>1. NoTime \in Time /\ 0 \in Time
    BY DEF Time
  <1>2. NoApp \in AppRow /\ SomeProfile \in Profile
    <2>1. PICK p \in Profile : TRUE
      BY ServiceAssumption
    <2> QED BY <1>1, <2>1, NewTypes
  <1>3. (CHOOSE a \in App : TRUE) \in App
    BY ServiceAssumption
  <1>4. Idle.claim \in Token
    BY <1>3 DEF Idle, Token
  <1> QED BY <1>1, <1>2, <1>4 DEF Idle, Request

\* A request that begins has its type.
LEMMA BeginType ==
  ASSUME TypeOK, NEW op \in Op, NEW step \in {"edit", "commit", "insert", "target"}
  PROVE  Begin(op, step) \in Request
  BY IdleType DEF Begin, Request, TypeOK

-----------------------------------------------------------------------------
(* What a step leaves to the requests and tokens that it does not concern *)

\* Rows are not deleted, versions grow, and what ends is dated by the transaction.
AppGrows(a) ==
    app[a].known =>
       /\ app'[a].known
       /\ app'[a] = app[a] \/ app'[a].version > app[a].version
       /\ ~app'[a].enabled => \/ ~app[a].enabled /\ app'[a].disabledAt = app[a].disabledAt
                              \/ now <= app'[a].disabledAt + Stall
       /\ \/ app'[a].secret = app[a].secret /\ app'[a].secretAt = app[a].secretAt
          \/ now <= app'[a].secretAt + Stall
ScopeGrows(s) ==
    scope[s].known => /\ scope'[s].known
                      /\ ~scope'[s].enabled => \/ scope'[s] = scope[s]
                                               \/ now <= scope'[s].updatedAt + Stall
GrantGrows(g) ==
    grant[g].status # "none" =>
       /\ grant'[g].status # "none" /\ grant'[g].from = grant[g].from /\ grant'[g].until = grant[g].until
       /\ \/ grant'[g] = grant[g]
          \/ grant[g].status = "enabled" /\ now <= grant'[g].revokedAt + Stall
Grows == /\ \A a \in App : AppGrows(a)
         /\ \A s \in Scope : ScopeGrows(s)
         /\ \A g \in Grant : GrantGrows(g)

\* What a request has locked stays locked and as it is.
Untouched(q) ==
    \A x \in App \cup Scope \cup Grant :
       lock[x] = q => /\ lock'[x] = q
                      /\ x \in App /\ app[x].known => app'[x] = app[x]
                      /\ x \in Scope /\ scope[x].known => scope'[x] = scope[x]
                      /\ x \in Grant /\ grant[x].status # "none" => grant'[x] = grant[x]

\* A step of the requests in R that keeps the invariant
Good(R) == /\ TypeOK' /\ now' = now /\ Grows
           /\ \A q \in Req \ R : req'[q] = req[q] /\ Untouched(q)
           /\ \A r \in R : RequestInv(r)'
           /\ \A t \in token' \ token : TokenInv(t)'

\* A step that writes no row leaves them as they are.
LEMMA RowsStay ==
  ASSUME IInv, UNCHANGED rows
  PROVE  Grows
  BY DEF Grows, AppGrows, ScopeGrows, GrantGrows, rows

\* A right that has been good until d has been so after the step.
LEMMA CallerKept ==
  ASSUME IInv, TypeOK', Grows, now' >= now, NEW t \in Token, NEW d \in Int, d <= now, CallerBounds(t, d)
  PROVE  CallerBounds(t, d)'
  <1>1. t.caller \in App /\ app[t.caller] \in AppRow /\ app'[t.caller] \in AppRow
    BY Columns DEF IInv, TypeOK
  <1>2. AppGrows(t.caller)
    BY <1>1 DEF Grows
  <1>3. Stall \in Nat /\ now \in Nat
    BY ServiceAssumption DEF IInv, TypeOK
  <1> QED BY <1>1, <1>2, <1>3, Columns DEF AppGrows, CallerBounds
\* The same of the target's row.
LEMMA TargetKept ==
  ASSUME IInv, TypeOK', Grows, now' >= now, NEW t \in Token, NEW d \in Int, d <= now, TargetBounds(t, d)
  PROVE  TargetBounds(t, d)'
  <1>1. t.aud \in App /\ app[t.aud] \in AppRow /\ app'[t.aud] \in AppRow
    BY Columns DEF IInv, TypeOK
  <1>2. AppGrows(t.aud)
    BY <1>1 DEF Grows
  <1>3. Stall \in Nat /\ now \in Nat
    BY ServiceAssumption DEF IInv, TypeOK
  <1> QED BY <1>1, <1>2, <1>3, Columns DEF AppGrows, TargetBounds
\* The same of the rows of a grant and its scope.
LEMMA GrantKept ==
  ASSUME IInv, TypeOK', Grows, now' >= now, NEW t \in Token, NEW d \in Int, d <= now,
         NEW c \in t.codes, GrantBounds(t, c, d)
  PROVE  GrantBounds(t, c, d)'
  <1> DEFINE s == <<t.aud, c>>
             g == <<t.caller, s>>
  <1>1. s \in Scope /\ g \in Grant
    BY Columns DEF GrantBounds, Grant
  <1>2. /\ scope[s] \in ScopeRow /\ scope'[s] \in ScopeRow
        /\ grant[g] \in GrantRow /\ grant'[g] \in GrantRow
        /\ scope[g[2]].known
    BY <1>1 DEF IInv, TypeOK, GrantBounds
  <1>3. scope[s].known
    BY <1>2
  <1>4. ScopeGrows(s) /\ GrantGrows(g)
    BY <1>1 DEF Grows
  <1>5. Stall \in Nat /\ now \in Nat /\ now' \in Nat
    BY ServiceAssumption DEF IInv, TypeOK
  <1>6. /\ s \in Scope /\ grant[g].status # "none" /\ grant[g].from <= now
        /\ grant[g].status = "revoked" => d <= grant[g].revokedAt + Stall
        /\ grant[g].until # NoTime => d <= grant[g].until + Stall
        /\ ~scope[s].enabled => d <= scope[s].updatedAt + Stall
    BY DEF GrantBounds
  <1> HIDE DEF s, g
  <1>7. /\ grant'[g].status # "none" /\ grant'[g].from <= now'
        /\ grant'[g].status = "revoked" => d <= grant'[g].revokedAt + Stall
        /\ grant'[g].until # NoTime => d <= grant'[g].until + Stall
    BY <1>2, <1>4, <1>5, <1>6, Columns DEF GrantGrows
  <1>8. ~scope'[s].enabled => d <= scope'[s].updatedAt + Stall
    BY <1>2, <1>3, <1>4, <1>5, <1>6, Columns DEF ScopeGrows
  <1> QED BY <1>1, <1>7, <1>8 DEF GrantBounds, s, g

\* Tokens keep what they rest on.
LEMMA TokenKept ==
  ASSUME IInv, TypeOK', Grows, now' >= now, NEW t \in token
  PROVE  TokenInv(t)'
  <1>1. t \in Token /\ TokenInv(t) /\ t.iat \in Nat /\ now \in Nat /\ now' \in Nat /\ Stall \in Nat
    BY ServiceAssumption, Columns DEF IInv, TypeOK
  <1>2. t.iat - Stall \in Int /\ t.iat - Stall <= now /\ t.iat <= now'
    BY <1>1 DEF TokenInv
  <1>3. CallerBounds(t, t.iat - Stall)'
    BY <1>1, <1>2, CallerKept DEF TokenInv, Bounds
  <1>4. TargetBounds(t, t.iat - Stall)'
    BY <1>1, <1>2, TargetKept DEF TokenInv, Bounds
  <1>5. \A c \in t.codes : GrantBounds(t, c, t.iat - Stall)'
    BY <1>1, <1>2, GrantKept DEF TokenInv, Bounds
  <1> QED BY <1>2, <1>3, <1>4, <1>5 DEF TokenInv, Bounds

\* So does what the token endpoint has found for a request.
LEMMA IssueKept ==
  ASSUME IInv, TypeOK', Grows, now' >= now, NEW q \in Req, req'[q] = req[q]
  PROVE  IssueInv(q)'
  <1>1. /\ req[q].claim \in Token /\ req[q].started \in Int /\ IssueInv(q) /\ TimeInv(q)
    BY Fields DEF IInv, TypeOK, RequestInv
  <1>2. req[q].pc \in {"target", "grants", "encode"} => req[q].started <= now
    BY <1>1 DEF TimeInv
  <1>3. req[q].pc \in {"target", "grants", "encode"} => CallerBounds(req[q].claim, req[q].started)'
    BY <1>1, <1>2, CallerKept DEF IssueInv
  <1>4. req[q].pc \in {"grants", "encode"} => TargetBounds(req[q].claim, req[q].started)'
    BY <1>1, <1>2, TargetKept DEF IssueInv
  <1>5. req[q].pc = "encode" => \A c \in req[q].claim.codes : GrantBounds(req[q].claim, c, req[q].started)'
    BY <1>1, <1>2, GrantKept DEF IssueInv
  <1> QED BY <1>3, <1>4, <1>5 DEF IssueInv, CallerBounds, TargetBounds, GrantBounds

\* What a request has locked, and what it will write
LEMMA HoldKept ==
  ASSUME IInv, TypeOK', Grows, NEW q \in Req, req'[q] = req[q], Untouched(q)
  PROVE  ShapeInv(q)' /\ HoldInv(q)' /\ SeenInv(q)'
  <1>1. ShapeInv(q) /\ HoldInv(q) /\ SeenInv(q)
    BY DEF IInv, RequestInv
  <1>2. /\ app \in [App -> AppRow] /\ scope \in [Scope -> ScopeRow] /\ grant \in [Grant -> GrantRow]
        /\ app' \in [App -> AppRow] /\ req[q] \in Request
    BY DEF IInv, TypeOK
  <1>3. ShapeInv(q)'
    <2>1. \A a \in App : app[a].known => app'[a].known
      BY DEF Grows, AppGrows
    <2>2. \A s \in Scope : scope[s].known => scope'[s].known
      BY DEF Grows, ScopeGrows
    <2>3. \A g \in Grant : g[1] \in App /\ g[2] \in Scope
      BY DEF Grant
    <2> QED BY <1>1, <2>1, <2>2, <2>3 DEF ShapeInv, Editing, Committing
  <1>4. SeenInv(q)'
    <2>1. SUFFICES ASSUME req[q].pc = "write" PROVE SeenInv(q)'
      BY DEF SeenInv
    <2>2. req[q].row \in App /\ app[req[q].row].known
      BY <1>1, <2>1 DEF ShapeInv, Editing
    <2>3. AppGrows(req[q].row)
      BY <2>2 DEF Grows
    <2>4. /\ app[req[q].row].version \in Nat /\ app'[req[q].row].version \in Nat /\ req[q].version \in Nat
      BY <1>2, <2>2, Columns, Fields
    <2> QED BY <1>1, <2>1, <2>2, <2>3, <2>4 DEF SeenInv, AppGrows
  <1>5. HoldInv(q)'
    <2>1. SUFFICES ASSUME req[q].pc = "commit" PROVE HoldInv(q)'
      BY DEF HoldInv
    <2> DEFINE x == req[q].row
    <2>2. /\ lock[x] = q /\ (req[q].op # "update_app" => Applies(req[q].op, x))
          /\ req[q].op \in AppOp \cup {"update_app"} => x \in App /\ app[x].known /\ req[q].seen = app[x]
          /\ req[q].op \in AppOp \cup ScopeOp \cup {"update_app", "revoke_grant"}
          /\ req[q].op \in ScopeOp => x \in Scope /\ scope[x].known
          /\ req[q].op = "revoke_grant" => x \in Grant
      BY <1>1, <2>1 DEF HoldInv, ShapeInv, Committing
    <2> HIDE DEF x
    <2>3. x \in App \cup Scope \cup Grant
      BY <2>2
    <2>4. lock'[x] = q
      BY <2>2, <2>3 DEF Untouched
    <2>5. req[q].op \in AppOp \cup {"update_app"} => app'[x] = app[x]
      BY <2>2, <2>3 DEF Untouched
    <2>6. req[q].op \in ScopeOp => scope'[x] = scope[x]
      BY <2>2, <2>3 DEF Untouched
    <2>7. req[q].op = "revoke_grant" => grant'[x] = grant[x]
      BY <2>2, <2>3 DEF Untouched, Applies
    <2>8. req'[q].op # "update_app" => Applies(req[q].op, req[q].row)'
      BY <2>2, <2>5, <2>6, <2>7 DEF Applies, AppOp, ScopeOp, x
    <2>9. lock'[req'[q].row] = q
      BY <2>4 DEF x
    <2>10. req'[q].op \in AppOp \cup {"update_app"} => req'[q].seen = app'[req'[q].row]
      BY <2>2, <2>5 DEF x
    <2> QED BY <2>8, <2>9, <2>10 DEF HoldInv
  <1> QED BY <1>3, <1>4, <1>5

\* A good step keeps the invariant.
LEMMA GoodSteps ==
  ASSUME IInv, NEW R \in SUBSET Req, Good(R)
  PROVE  IInv'
  <1>1. TypeOK' /\ Grows /\ now' = now /\ now \in Nat
    BY DEF Good, IInv, TypeOK
  <1>2. ASSUME NEW q \in Req, q \notin R PROVE RequestInv(q)'
    <2>1. req'[q] = req[q] /\ Untouched(q)
      BY <1>2 DEF Good
    <2>2. TimeInv(q)'
      BY <1>1, <2>1 DEF IInv, RequestInv, TimeInv
    <2> QED BY <1>1, <2>1, <2>2, IssueKept, HoldKept DEF RequestInv
  <1>3. \A t \in token' : TokenInv(t)'
    BY <1>1, TokenKept DEF Good
  <1> QED BY <1>1, <1>2, <1>3 DEF Good, IInv

-----------------------------------------------------------------------------
(* The steps of requests *)

\* Nothing is asked of an idle request.
LEMMA IdleHolds ==
  ASSUME NEW r, req'[r].pc = "idle"
  PROVE  RequestInv(r)'
  BY DEF RequestInv, ShapeInv, TimeInv, HoldInv, SeenInv, IssueInv, Editing, Committing

\* A step that writes nothing and locks at most what is free
LEMMA ReadSteps ==
  ASSUME IInv, NEW r \in Req, UNCHANGED <<now, mix, rows, token>>,
         NEW m \in Request, req' = [req EXCEPT ![r] = m],
         lock' \in [App \cup Scope \cup Grant -> Req \cup {NoReq}],
         \A x \in App \cup Scope \cup Grant : lock[x] \notin {r, NoReq} => lock'[x] = lock[x],
         RequestInv(r)'
  PROVE  Good({r})
  <1>1. Grows
    BY RowsStay DEF rows
  <1>2. TypeOK'
    BY DEF IInv, TypeOK, rows
  <1>3. ASSUME NEW q \in Req \ {r} PROVE req'[q] = req[q] /\ Untouched(q)
    <2>1. q # NoReq
      BY ServiceAssumption
    <2> QED BY <2>1 DEF Untouched, IInv, TypeOK, rows
  <1> QED BY <1>1, <1>2, <1>3 DEF Good

\* The end of a request without an effect
LEMMA RollbackStep ==
  ASSUME IInv, NEW r \in Req, Rollback(r), UNCHANGED <<now, mix>>
  PROVE  Good({r})
  <1>1. /\ UNCHANGED <<now, mix, rows, token>> /\ req' = [req EXCEPT ![r] = Idle]
        /\ lock' = [x \in DOMAIN lock |-> IF lock[x] = r THEN NoReq ELSE lock[x]]
        /\ lock \in [App \cup Scope \cup Grant -> Req \cup {NoReq}]
        /\ req \in [Req -> Request]
    BY DEF Rollback, End, Unlock, IInv, TypeOK
  <1>2. req'[r].pc = "idle"
    BY <1>1 DEF Idle
  <1>3. RequestInv(r)'
    BY <1>2, IdleHolds
  <1> QED BY <1>1, <1>3, IdleType, ReadSteps

\* Requests that nobody waits for any more
LEMMA ResetStep ==
  ASSUME IInv, NEW R \in SUBSET Req, UNCHANGED <<now, mix, rows, lock, token>>,
         req' = [r \in Req |-> IF r \in R THEN Idle ELSE req[r]]
  PROVE  IInv'
  <1>1. Grows
    BY RowsStay DEF rows
  <1>2. TypeOK'
    BY IdleType DEF IInv, TypeOK, rows
  <1>3. \A q \in Req \ R : req'[q] = req[q] /\ Untouched(q)
    BY DEF Untouched, rows
  <1>4. ASSUME NEW r \in R PROVE RequestInv(r)'
    <2>1. req'[r].pc = "idle"
      BY <1>4 DEF Idle
    <2> QED BY <2>1, IdleHolds
  <1>5. Good(R)
    BY <1>1, <1>2, <1>3, <1>4 DEF Good
  <1> QED BY <1>5, GoodSteps

\* create_app makes a row that nobody refers to yet.
LEMMA CreateAppStep ==
  ASSUME IInv, NEW a \in App, NEW p \in Profile, CreateApp(a, p), UNCHANGED <<now, mix>>
  PROVE  Good({})
  <1>1. /\ ~app[a].known /\ app' = [app EXCEPT ![a] = NewApp(p, now)]
        /\ UNCHANGED <<scope, grant, lock, token, req>>
        /\ app \in [App -> AppRow]
    BY DEF CreateApp, IInv, TypeOK
  <1>2. NewApp(p, now) \in AppRow /\ NewApp(p, now).known
    BY NewTypes DEF IInv, TypeOK, Time, NewApp
  <1>3. \A b \in App : app[b].known => app'[b] = app[b]
    BY <1>1
  <1>4. Grows
    BY <1>1, <1>3 DEF Grows, AppGrows, ScopeGrows, GrantGrows
  <1>5. TypeOK'
    <2>1. \A b \in App : app[b].known => app'[b].known
      BY <1>3
    <2>2. \A s \in Scope : s[1] \in App
      BY ServiceAssumption
    <2>3. \A g \in Grant : g[1] \in App
      BY DEF Grant
    <2> QED BY <1>1, <1>2, <2>1, <2>2, <2>3 DEF IInv, TypeOK
  <1>6. \A q \in Req : req'[q] = req[q] /\ Untouched(q)
    BY <1>1, <1>3 DEF Untouched
  <1> QED BY <1>1, <1>4, <1>5, <1>6 DEF Good

\* create_scope makes a row for an application that exists.
LEMMA CreateScopeStep ==
  ASSUME IInv, NEW s \in Scope, CreateScope(s), UNCHANGED <<now, mix>>
  PROVE  Good({})
  <1>1. /\ ~scope[s].known /\ app[s[1]].known /\ scope' = [scope EXCEPT ![s] = NewScope(now)]
        /\ UNCHANGED <<app, grant, lock, token, req>>
        /\ scope \in [Scope -> ScopeRow]
    BY DEF CreateScope, IInv, TypeOK
  <1>2. NewScope(now) \in ScopeRow /\ NewScope(now).known
    <2>1. PICK p \in Profile : TRUE
      BY ServiceAssumption
    <2> QED BY <2>1, NewTypes DEF IInv, TypeOK, Time, NewScope
  <1>3. \A x \in Scope : scope[x].known => scope'[x] = scope[x]
    BY <1>1
  <1>4. Grows
    BY <1>1, <1>3 DEF Grows, AppGrows, ScopeGrows, GrantGrows
  <1>5. TypeOK'
    <2>1. \A x \in Scope : scope[x].known => scope'[x].known
      BY <1>3
    <2>2. \A g \in Grant : g[2] \in Scope
      BY DEF Grant
    <2>3. scope' \in [Scope -> ScopeRow]
      BY <1>1, <1>2
    <2>4. \A x \in Scope : scope'[x].known => app'[x[1]].known
      BY <1>1 DEF IInv, TypeOK
    <2> QED BY <1>1, <2>1, <2>2, <2>3, <2>4 DEF IInv, TypeOK
  <1>6. \A q \in Req : req'[q] = req[q] /\ Untouched(q)
    BY <1>1, <1>3 DEF Untouched
  <1> QED BY <1>1, <1>4, <1>5, <1>6 DEF Good

\* What an administrator is shown is a row that exists.
LEMMA ViewAppStep ==
  ASSUME IInv, NEW r \in Req, NEW a \in App, NEW p \in Profile, ViewApp(r, a, p), UNCHANGED <<now, mix>>
  PROVE  Good({r})
  <1> DEFINE m == [Begin("update_app", "edit") EXCEPT !.row = a, !.profile = p, !.version = app[a].version]
  <1>1. app[a].known /\ app[a].version \in Nat /\ req' = [req EXCEPT ![r] = m] /\ UNCHANGED <<rows, lock, token>>
    BY Columns DEF ViewApp, IInv, TypeOK
  <1>2. m \in Request
    <2>1. Begin("update_app", "edit") \in Request
      BY BeginType DEF IInv, Op
    <2> QED BY <1>1, <2>1 DEF Request
  <1>3. m.pc = "edit" /\ m.op = "update_app" /\ m.row = a
    BY DEF Begin, Idle
  <1> HIDE DEF m
  <1>4. req'[r] = m
    BY <1>1 DEF IInv, TypeOK
  <1>5. RequestInv(r)'
    BY <1>1, <1>3, <1>4 DEF RequestInv, ShapeInv, TimeInv, HoldInv, SeenInv, IssueInv, Editing,
       Committing, rows, AppOp, ScopeOp
  <1> QED BY <1>1, <1>2, <1>5, ReadSteps DEF IInv, TypeOK

\* update_app goes on with a row of the version that was shown.
LEMMA ReadAppStep ==
  ASSUME IInv, NEW r \in Req, ReadApp(r), UNCHANGED <<now, mix>>
  PROVE  Good({r})
  <1>1. CASE Rollback(r)
    BY <1>1, RollbackStep
  <1>2. CASE ~Rollback(r)
    <2> DEFINE row == app[req[r].row]
               m == [req[r] EXCEPT !.pc = "write", !.seen = row, !.started = now]
    <2>1. /\ req[r].pc = "edit" /\ row.version = req[r].version
          /\ req' = [req EXCEPT ![r].pc = "write", ![r].seen = row, ![r].started = now]
          /\ UNCHANGED <<rows, lock, token>>
      BY <1>2 DEF ReadApp, At
    <2>2. req[r].op = "update_app" /\ req[r].row \in App /\ row.known
      BY <2>1 DEF IInv, RequestInv, ShapeInv, Editing
    <2>3. row \in AppRow /\ now \in Nat /\ req[r] \in Request /\ row.version \in Nat /\ Stall \in Nat
      BY <2>2, Columns, ServiceAssumption DEF IInv, TypeOK
    <2>4. m \in Request
      BY <2>3 DEF Request
    <2>5. req' = [req EXCEPT ![r] = m] /\ req'[r] = m
      BY <2>1 DEF IInv, TypeOK
    <2>6. /\ m.pc = "write" /\ m.op = "update_app" /\ m.row = req[r].row /\ m.seen = row
          /\ m.version = row.version /\ m.started = now
      BY <2>1, <2>2, <2>3 DEF Request
    <2> HIDE DEF m
    <2>7. RequestInv(r)'
      BY <2>1, <2>2, <2>3, <2>5, <2>6 DEF RequestInv, ShapeInv, TimeInv, HoldInv, SeenInv, IssueInv,
         Editing, Committing, rows, AppOp, ScopeOp
    <2> QED BY <2>1, <2>4, <2>5, <2>7, ReadSteps DEF IInv, TypeOK
  <1> QED BY <1>1, <1>2

\* The UPDATE that finds the version finds the row that was loaded, and locks it.
LEMMA UpdateAppStep ==
  ASSUME IInv, NEW r \in Req, UpdateApp(r), UNCHANGED <<now, mix>>
  PROVE  Good({r})
  <1>1. CASE Rollback(r)
    BY <1>1, RollbackStep
  <1>2. CASE ~Rollback(r)
    <2> DEFINE a == req[r].row
               m == [req[r] EXCEPT !.pc = "commit"]
    <2>1. /\ req[r].pc = "write" /\ lock[a] = NoReq /\ app[a].version = req[r].version
          /\ lock' = [lock EXCEPT ![a] = r] /\ req' = [req EXCEPT ![r].pc = "commit"]
          /\ UNCHANGED <<rows, token>>
      BY <1>2 DEF UpdateApp, At, Goto
    <2>2. req[r].op = "update_app" /\ a \in App /\ app[a].known /\ req[r].seen = app[a]
      BY <2>1 DEF IInv, RequestInv, ShapeInv, Editing, SeenInv
    <2>3. /\ req[r] \in Request /\ lock \in [App \cup Scope \cup Grant -> Req \cup {NoReq}]
          /\ req[r].started <= now /\ now <= req[r].started + Stall
      BY <2>1 DEF IInv, TypeOK, RequestInv, TimeInv
    <2>4. m \in Request
      BY <2>3 DEF Request
    <2>5. req' = [req EXCEPT ![r] = m] /\ req'[r] = m
      BY <2>1 DEF IInv, TypeOK
    <2>6. /\ m.pc = "commit" /\ m.op = "update_app" /\ m.row = a /\ m.seen = app[a]
          /\ m.started = req[r].started
      BY <2>2, <2>3 DEF Request
    <2>7. /\ lock' \in [App \cup Scope \cup Grant -> Req \cup {NoReq}] /\ lock'[a] = r
          /\ \A x \in App \cup Scope \cup Grant : lock[x] \notin {r, NoReq} => lock'[x] = lock[x]
      BY <2>1, <2>2, <2>3
    <2> HIDE DEF m, a
    <2>8. RequestInv(r)'
      BY <2>1, <2>2, <2>3, <2>5, <2>6, <2>7 DEF RequestInv, ShapeInv, TimeInv, HoldInv, SeenInv, IssueInv,
         Editing, Committing, rows, AppOp, ScopeOp
    <2> QED BY <2>1, <2>4, <2>5, <2>7, <2>8, ReadSteps
  <1> QED BY <1>1, <1>2

\* After its lock a request knows the row as it is.
LEMMA LockRowStep ==
  ASSUME IInv, NEW r \in Req, NEW op \in AppOp \cup ScopeOp \cup {"revoke_grant"}, NEW x, LockRow(r, op, x),
         UNCHANGED <<now, mix>>
  PROVE  Good({r})
  <1> DEFINE m == [Begin(op, "commit") EXCEPT !.row = x, !.seen = Loaded(x), !.at = now]
  <1>1. /\ \A y \in Locked(x) : lock[y] = NoReq
        /\ Applies(op, x) /\ req' = [req EXCEPT ![r] = m] /\ UNCHANGED <<rows, token>>
        /\ lock' = [y \in DOMAIN lock |-> IF y \in Locked(x) THEN r ELSE lock[y]]
    BY DEF LockRow
  <1>2. /\ op \in AppOp => x \in App /\ app[x].known
        /\ op \in ScopeOp => x \in Scope /\ scope[x].known
        /\ op = "revoke_grant" => x \in Grant
        /\ x \in App \cup Scope \cup Grant
    BY <1>1 DEF Applies, AppOp, ScopeOp
  <1>3. Loaded(x) \in AppRow /\ (x \in App => Loaded(x) = app[x])
    <2>1. NoApp \in AppRow
      BY IdleType DEF Idle, Request
    <2> QED BY <2>1 DEF Loaded, IInv, TypeOK
  <1>4. m \in Request
    <2>1. Begin(op, "commit") \in Request
      BY BeginType DEF IInv, Op
    <2> QED BY <1>2, <1>3, <2>1 DEF Request, IInv, TypeOK, Time
  <1>5. /\ m.pc = "commit" /\ m.op = op /\ m.row = x /\ m.seen = Loaded(x) /\ m.at = now /\ m.started = now
    BY DEF Begin, Idle
  <1> HIDE DEF m
  <1>6. req'[r] = m /\ now \in Nat /\ Stall \in Nat
    BY <1>1, ServiceAssumption DEF IInv, TypeOK
  <1>7. /\ lock' \in [App \cup Scope \cup Grant -> Req \cup {NoReq}] /\ lock'[x] = r
        /\ \A y \in App \cup Scope \cup Grant : lock[y] \notin {r, NoReq} => lock'[y] = lock[y]
    <2>1. x \in Locked(x)
      BY DEF Locked
    <2> QED BY <1>1, <1>2, <2>1 DEF IInv, TypeOK
  <1>8. RequestInv(r)'
    <2>1. ShapeInv(r)'
      BY <1>1, <1>2, <1>5, <1>6 DEF ShapeInv, Editing, Committing, rows, AppOp, ScopeOp
    <2>2. TimeInv(r)' /\ SeenInv(r)' /\ IssueInv(r)'
      BY <1>1, <1>5, <1>6 DEF TimeInv, SeenInv, IssueInv
    <2>3. Applies(op, x)'
      BY <1>1 DEF Applies, rows
    <2>4. op \in AppOp => Loaded(x) = app'[x]
      BY <1>1, <1>2, <1>3 DEF rows
    <2>5. op # "update_app"
      BY DEF AppOp, ScopeOp
    <2>6. HoldInv(r)'
      BY <1>5, <1>6, <1>7, <2>3, <2>4, <2>5 DEF HoldInv
    <2> QED BY <2>1, <2>2, <2>6 DEF RequestInv
  <1> QED BY <1>1, <1>4, <1>7, <1>8, ReadSteps

\* What an operation on an application is going to write, and what its audit event says.
LEMMA AppWritten ==
  ASSUME IInv, NEW r \in Req, Committing(r, AppOp \cup {"update_app"}), NEW x, x = req[r].row
  PROVE  /\ x \in App /\ app[x].known /\ lock[x] = r /\ app[x] \in AppRow /\ req[r].seen = app[x]
         /\ AppAfter(r) \in AppRow /\ AppAfter(r).known
         /\ AppAfter(r).version = app[x].version + 1
         /\ ~AppAfter(r).enabled => \/ ~app[x].enabled /\ AppAfter(r).disabledAt = app[x].disabledAt
                                    \/ now <= AppAfter(r).disabledAt + Stall
         /\ \/ AppAfter(r).secret = app[x].secret /\ AppAfter(r).secretAt = app[x].secretAt
            \/ now <= AppAfter(r).secretAt + Stall
  <1> DEFINE f == app[x]
             v == f.version + 1
             w == f.secret + 1
  <1>1. /\ x \in App /\ f.known /\ lock[x] = r /\ f \in AppRow /\ req[r].seen = f
        /\ req[r].op \in AppOp \cup {"update_app"} /\ req[r].pc = "commit"
    BY DEF Committing, IInv, RequestInv, ShapeInv, HoldInv, TypeOK
  <1>2. /\ req[r].at \in Time /\ req[r].profile \in Profile /\ NoTime \in Time /\ req[r].at \in Int
        /\ now \in Nat /\ Stall \in Nat
    BY ServiceAssumption, Fields DEF IInv, TypeOK, Time, NoTime
  <1>3. req[r].op # "update_app" => now <= req[r].at + Stall
    BY <1>1 DEF IInv, RequestInv, TimeInv
  <1>4. v \in Nat /\ w \in Nat
    BY <1>1, Columns
  <1> HIDE DEF f, v, w
  <1>9. f \in AppRow /\ v \in Nat /\ w \in Nat /\ req[r].at \in Time /\ req[r].profile \in Profile /\ NoTime \in Time
    BY <1>1, <1>2, <1>4
  <1>5. CASE req[r].op = "update_app"
    <2>1. AppAfter(r) = [f EXCEPT !.version = v, !.profile = req[r].profile]
      BY <1>5 DEF AppAfter, f, v, w
    <2>2. AppAfter(r) \in AppRow
      BY <1>9, <2>1 DEF AppRow
    <2>3. /\ AppAfter(r).known = f.known /\ AppAfter(r).enabled = f.enabled
          /\ AppAfter(r).version = v /\ AppAfter(r).disabledAt = f.disabledAt
      BY <1>1, <2>1 DEF AppRow
    <2>4. AppAfter(r).secret = f.secret /\ AppAfter(r).secretAt = f.secretAt
      BY <1>1, <2>1 DEF AppRow
    <2> QED BY <1>1, <2>2, <2>3, <2>4 DEF f, v
  <1>6. CASE req[r].op = "disable_app"
    <2>1. AppAfter(r) = [f EXCEPT !.version = v, !.enabled = FALSE, !.disabledAt = req[r].at]
      BY <1>1, <1>6 DEF AppAfter, f, v, w
    <2>2. AppAfter(r) \in AppRow
      BY <1>9, <2>1 DEF AppRow
    <2>3. /\ AppAfter(r).known = f.known /\ AppAfter(r).enabled = FALSE
          /\ AppAfter(r).version = v /\ AppAfter(r).disabledAt = req[r].at
      BY <1>1, <2>1 DEF AppRow
    <2>4. AppAfter(r).secret = f.secret /\ AppAfter(r).secretAt = f.secretAt
      BY <1>1, <2>1 DEF AppRow
    <2> QED BY <1>1, <1>3, <1>6, <2>2, <2>3, <2>4 DEF f, v
  <1>7. CASE req[r].op = "enable_app"
    <2>1. AppAfter(r) = [f EXCEPT !.version = v, !.enabled = TRUE, !.disabledAt = NoTime]
      BY <1>1, <1>7 DEF AppAfter, f, v, w
    <2>2. AppAfter(r) \in AppRow
      BY <1>9, <2>1 DEF AppRow
    <2>3. /\ AppAfter(r).known = f.known /\ AppAfter(r).enabled = TRUE
          /\ AppAfter(r).version = v /\ AppAfter(r).disabledAt = NoTime
      BY <1>1, <2>1 DEF AppRow
    <2>4. AppAfter(r).secret = f.secret /\ AppAfter(r).secretAt = f.secretAt
      BY <1>1, <2>1 DEF AppRow
    <2> QED BY <1>1, <1>7, <2>2, <2>3, <2>4 DEF f, v
  <1>8. CASE req[r].op = "regenerate_secret"
    <2>1. AppAfter(r) = [f EXCEPT !.version = v, !.secret = w, !.secretAt = req[r].at]
      BY <1>1, <1>8 DEF AppAfter, f, v, w
    <2>2. AppAfter(r) \in AppRow
      BY <1>9, <2>1 DEF AppRow
    <2>3. /\ AppAfter(r).known = f.known /\ AppAfter(r).enabled = f.enabled
          /\ AppAfter(r).version = v /\ AppAfter(r).disabledAt = f.disabledAt
      BY <1>1, <2>1 DEF AppRow
    <2>4. AppAfter(r).secret = w /\ AppAfter(r).secretAt = req[r].at
      BY <1>1, <2>1 DEF AppRow
    <2> QED BY <1>1, <1>3, <1>8, <2>2, <2>3, <2>4 DEF f, v
  <1> QED BY <1>1, <1>5, <1>6, <1>7, <1>8 DEF AppOp

\* The end of a request that has committed
LEMMA EndStep ==
  ASSUME IInv, NEW r \in Req, End(r), UNCHANGED <<now, mix, token>>,
         app' \in [App -> AppRow], scope' \in [Scope -> ScopeRow], grant' \in [Grant -> GrantRow],
         \A g \in Grant : grant'[g].status # "none" => app'[g[1]].known /\ scope'[g[2]].known,
         Grows,
         \A x \in App : lock[x] # r /\ app[x].known => app'[x] = app[x],
         \A x \in Scope : lock[x] # r /\ scope[x].known => scope'[x] = scope[x],
         \A x \in Grant : lock[x] # r /\ grant[x].status # "none" => grant'[x] = grant[x],
         \A s \in Scope : scope'[s].known => scope[s].known
  PROVE  Good({r})
  <1>1. /\ req' = [req EXCEPT ![r] = Idle]
        /\ lock' = [x \in DOMAIN lock |-> IF lock[x] = r THEN NoReq ELSE lock[x]]
        /\ lock \in [App \cup Scope \cup Grant -> Req \cup {NoReq}]
        /\ req \in [Req -> Request]
    BY DEF End, Unlock, IInv, TypeOK
  <1>2. TypeOK'
    <2>1. \A s \in Scope : scope'[s].known => app'[s[1]].known
      BY ServiceAssumption DEF IInv, TypeOK, Grows, AppGrows
    <2>2. lock' \in [App \cup Scope \cup Grant -> Req \cup {NoReq}]
      BY <1>1
    <2>3. req' \in [Req -> Request]
      BY <1>1, IdleType
    <2> QED BY <2>1, <2>2, <2>3 DEF IInv, TypeOK
  <1>3. ASSUME NEW q \in Req \ {r} PROVE req'[q] = req[q] /\ Untouched(q)
    BY <1>1 DEF Untouched
  <1>4. RequestInv(r)'
    <2>1. req'[r].pc = "idle"
      BY <1>1 DEF Idle
    <2> QED BY <2>1, IdleHolds
  <1> QED BY <1>2, <1>3, <1>4 DEF Good

\* The commit of an operation on an application dates what it ends.
LEMMA CommitAppStep ==
  ASSUME IInv, NEW r \in Req, CommitApp(r), UNCHANGED <<now, mix>>
  PROVE  Good({r})
  <1> DEFINE x == req[r].row
  <1>1. /\ Committing(r, AppOp \cup {"update_app"}) /\ app' = [app EXCEPT ![x] = AppAfter(r)]
        /\ End(r) /\ UNCHANGED <<scope, grant, token>>
    BY DEF CommitApp, At, Committing
  <1>2. /\ x \in App /\ app[x].known /\ lock[x] = r /\ app[x] \in AppRow
        /\ AppAfter(r) \in AppRow /\ AppAfter(r).known
        /\ AppAfter(r).version = app[x].version + 1
        /\ ~AppAfter(r).enabled => \/ ~app[x].enabled /\ AppAfter(r).disabledAt = app[x].disabledAt
                                   \/ now <= AppAfter(r).disabledAt + Stall
        /\ \/ AppAfter(r).secret = app[x].secret /\ AppAfter(r).secretAt = app[x].secretAt
           \/ now <= AppAfter(r).secretAt + Stall
    BY <1>1, AppWritten
  <1> HIDE DEF x
  <1>3. /\ app' \in [App -> AppRow] /\ app'[x] = AppAfter(r)
        /\ \A y \in App : y # x => app'[y] = app[y]
    BY <1>1, <1>2 DEF IInv, TypeOK
  <1>4. Grows
    <2>1. AppGrows(x)
      <3>1. app'[x].version > app[x].version
        BY <1>2, <1>3, Columns
      <3> QED BY <1>2, <1>3, <3>1 DEF AppGrows
    <2>2. \A y \in App : y # x => AppGrows(y)
      BY <1>3 DEF AppGrows
    <2> QED BY <1>1, <2>1, <2>2 DEF Grows, ScopeGrows, GrantGrows
  <1>5. \A g \in Grant : grant'[g].status # "none" => app'[g[1]].known /\ scope'[g[2]].known
    <2>1. \A y \in App : app[y].known => app'[y].known
      BY <1>2, <1>3
    <2>2. \A g \in Grant : g[1] \in App
      BY DEF Grant
    <2> QED BY <1>1, <2>1, <2>2 DEF IInv, TypeOK
  <1> QED BY <1>1, <1>2, <1>3, <1>4, <1>5, EndStep DEF IInv, TypeOK

\* The commit of disable_scope or enable_scope dates what it ends.
LEMMA CommitScopeStep ==
  ASSUME IInv, NEW r \in Req, CommitScope(r), UNCHANGED <<now, mix>>
  PROVE  Good({r})
  <1> DEFINE x == req[r].row
             row == [scope[x] EXCEPT !.enabled = req[r].op = "enable_scope", !.updatedAt = req[r].at]
  <1>1. /\ req[r].pc = "commit" /\ req[r].op \in ScopeOp /\ scope' = [scope EXCEPT ![x] = row]
        /\ End(r) /\ UNCHANGED <<app, grant, token>>
    BY DEF CommitScope, At
  <1>2. /\ x \in Scope /\ scope[x].known /\ lock[x] = r /\ scope[x] \in ScopeRow
        /\ req[r].op # "update_app"
    BY <1>1 DEF IInv, RequestInv, ShapeInv, Committing, HoldInv, TypeOK, ScopeOp
  <1>3. req[r].at \in Time /\ now <= req[r].at + Stall
    BY <1>1, <1>2, Fields DEF IInv, RequestInv, TimeInv, TypeOK
  <1>4. row \in ScopeRow /\ row.known /\ row.updatedAt = req[r].at
    BY <1>2, <1>3 DEF ScopeRow
  <1> HIDE DEF x, row
  <1>5. /\ scope' \in [Scope -> ScopeRow] /\ scope'[x] = row
        /\ \A y \in Scope : y # x => scope'[y] = scope[y]
    BY <1>1, <1>2, <1>4 DEF IInv, TypeOK
  <1>6. Grows
    <2>1. ScopeGrows(x)
      BY <1>3, <1>4, <1>5 DEF ScopeGrows
    <2>2. \A y \in Scope : y # x => ScopeGrows(y)
      BY <1>5 DEF ScopeGrows
    <2> QED BY <1>1, <2>1, <2>2 DEF Grows, AppGrows, GrantGrows
  <1>7. \A g \in Grant : grant'[g].status # "none" => app'[g[1]].known /\ scope'[g[2]].known
    <2>1. \A y \in Scope : scope[y].known => scope'[y].known
      BY <1>4, <1>5
    <2>2. \A g \in Grant : g[2] \in Scope
      BY DEF Grant
    <2> QED BY <1>1, <2>1, <2>2 DEF IInv, TypeOK
  <1>8. \A s \in Scope : scope'[s].known => scope[s].known
    BY <1>2, <1>5
  <1> QED BY <1>1, <1>2, <1>5, <1>6, <1>7, <1>8, EndStep DEF IInv, TypeOK

\* The commit of revoke_grant ends a grant that was enabled.
LEMMA CommitRevokeStep ==
  ASSUME IInv, NEW r \in Req, CommitRevoke(r), UNCHANGED <<now, mix>>
  PROVE  Good({r})
  <1> DEFINE x == req[r].row
             row == [grant[x] EXCEPT !.status = "revoked", !.revokedAt = req[r].at]
  <1>1. /\ req[r].pc = "commit" /\ req[r].op = "revoke_grant" /\ grant' = [grant EXCEPT ![x] = row]
        /\ End(r) /\ UNCHANGED <<app, scope, token>>
    BY DEF CommitRevoke, At
  <1>2. /\ x \in Grant /\ lock[x] = r /\ grant[x] \in GrantRow /\ grant[x].status = "enabled"
    BY <1>1 DEF IInv, RequestInv, ShapeInv, Committing, HoldInv, TypeOK, Applies
  <1>3. req[r].at \in Time /\ now <= req[r].at + Stall
    BY <1>1, Fields DEF IInv, RequestInv, TimeInv, TypeOK
  <1>4. /\ row \in GrantRow /\ row.status = "revoked" /\ row.revokedAt = req[r].at
        /\ row.from = grant[x].from /\ row.until = grant[x].until
    BY <1>2, <1>3 DEF GrantRow
  <1> HIDE DEF x, row
  <1>5. /\ grant' \in [Grant -> GrantRow] /\ grant'[x] = row
        /\ \A y \in Grant : y # x => grant'[y] = grant[y]
    BY <1>1, <1>2, <1>4 DEF IInv, TypeOK
  <1>6. Grows
    <2>1. GrantGrows(x)
      BY <1>2, <1>3, <1>4, <1>5 DEF GrantGrows
    <2>2. \A y \in Grant : y # x => GrantGrows(y)
      BY <1>5 DEF GrantGrows
    <2> QED BY <1>1, <2>1, <2>2 DEF Grows, AppGrows, ScopeGrows
  <1>7. \A g \in Grant : grant'[g].status # "none" => app'[g[1]].known /\ scope'[g[2]].known
    BY <1>1, <1>2, <1>5 DEF IInv, TypeOK
  <1> QED BY <1>1, <1>2, <1>5, <1>6, <1>7, EndStep DEF IInv, TypeOK

\* create_grant goes on for rows that exist.
LEMMA ReadGrantStep ==
  ASSUME IInv, NEW r \in Req, NEW g \in Grant, NEW offer \in Offer, ReadGrant(r, g, offer), UNCHANGED <<now, mix>>
  PROVE  Good({r})
  <1> DEFINE from == IF offer.from = NoTime THEN now ELSE offer.from
             m == [Begin("create_grant", "insert") EXCEPT !.row = g, !.offer = [offer EXCEPT !.from = from]]
  <1>1. /\ app[g[1]].known /\ scope[g[2]].known /\ req' = [req EXCEPT ![r] = m]
        /\ UNCHANGED <<rows, lock, token>>
    BY DEF ReadGrant
  <1>2. m \in Request
    <2>1. Begin("create_grant", "insert") \in Request
      BY BeginType DEF IInv, Op
    <2>2. offer \in [from : Time, until : Time]
      BY ServiceAssumption DEF Window
    <2>3. from \in Time
      BY <2>2 DEF IInv, TypeOK, Time
    <2>4. [offer EXCEPT !.from = from] \in [from : Time, until : Time]
      BY <2>2, <2>3
    <2> QED BY <2>1, <2>4 DEF Request
  <1>3. m.pc = "insert" /\ m.op = "create_grant" /\ m.row = g /\ m.started = now
    BY DEF Begin, Idle
  <1> HIDE DEF m
  <1>4. req'[r] = m /\ now \in Nat /\ Stall \in Nat
    BY <1>1, ServiceAssumption DEF IInv, TypeOK
  <1>5. RequestInv(r)'
    BY <1>1, <1>3, <1>4 DEF RequestInv, ShapeInv, TimeInv, HoldInv, SeenInv, IssueInv, Editing, Committing, rows
  <1> QED BY <1>1, <1>2, <1>5, ReadSteps DEF IInv, TypeOK

\* An insertion makes a grant where there was none.
LEMMA InsertGrantStep ==
  ASSUME IInv, NEW r \in Req, InsertGrant(r), UNCHANGED <<now, mix>>
  PROVE  Good({r})
  <1>1. CASE Rollback(r)
    BY <1>1, RollbackStep
  <1>2. CASE ~Rollback(r)
    <2> DEFINE x == req[r].row
               row == NewGrant(req[r].offer.from, req[r].offer.until)
    <2>1. /\ req[r].pc = "insert" /\ grant[x].status = "none" /\ grant' = [grant EXCEPT ![x] = row]
          /\ End(r) /\ UNCHANGED <<app, scope, token>>
      BY <1>2 DEF InsertGrant, At
    <2>2. x \in Grant /\ app[x[1]].known /\ scope[x[2]].known
      BY <2>1 DEF IInv, RequestInv, ShapeInv
    <2>3. row \in GrantRow
      <3>1. req[r].offer.from \in Time /\ req[r].offer.until \in Time
        BY Fields DEF IInv, TypeOK
      <3>2. PICK p \in Profile : TRUE
        BY ServiceAssumption
      <3> QED BY <3>1, <3>2, NewTypes
    <2> HIDE DEF x, row
    <2>4. /\ grant' \in [Grant -> GrantRow] /\ grant'[x] = row
          /\ \A y \in Grant : y # x => grant'[y] = grant[y]
      BY <2>1, <2>2, <2>3 DEF IInv, TypeOK
    <2>5. \A y \in Grant : grant[y].status # "none" => grant'[y] = grant[y]
      BY <2>1, <2>4
    <2>6. Grows
      BY <2>1, <2>5 DEF Grows, AppGrows, ScopeGrows, GrantGrows
    <2>7. \A g \in Grant : grant'[g].status # "none" => app'[g[1]].known /\ scope'[g[2]].known
      BY <2>1, <2>2, <2>4 DEF IInv, TypeOK
    <2> QED BY <2>1, <2>4, <2>5, <2>6, <2>7, EndStep DEF IInv, TypeOK
  <1> QED BY <1>1, <1>2

\* The caller is enabled and has the secret; what ends from now on ends later.
LEMMA StartIssueStep ==
  ASSUME IInv, NEW r \in Req, NEW caller \in App, NEW secret \in Nat, NEW aud \in App, NEW codes \in SUBSET Code,
         StartIssue(r, caller, secret, aud, codes), UNCHANGED <<now, mix>>
  PROVE  /\ Good({r}) /\ req'[r].pc # "idle" /\ req'[r].answer = NoToken
         /\ UNCHANGED <<rows, lock, token>>
  <1> DEFINE t == [caller |-> caller, aud |-> aud, codes |-> codes, iat |-> 0, secret |-> secret]
             m == [Begin("issue", "target") EXCEPT !.claim = t]
  <1>1. /\ app[caller].known /\ app[caller].enabled /\ app[caller].secret = secret
        /\ req' = [req EXCEPT ![r] = m] /\ UNCHANGED <<rows, lock, token>>
    BY DEF StartIssue, Authenticated
  <1>2. t \in Token /\ t.caller = caller /\ t.secret = secret
    BY DEF Token
  <1>3. m \in Request
    <2>1. Begin("issue", "target") \in Request
      BY BeginType DEF IInv, Op
    <2> QED BY <1>2, <2>1 DEF Request
  <1>4. m.pc = "target" /\ m.op = "issue" /\ m.claim = t /\ m.started = now /\ m.answer = NoToken
    BY DEF Begin, Idle
  <1> HIDE DEF m, t
  <1>5. req'[r] = m /\ now \in Nat /\ Stall \in Nat
    BY <1>1, ServiceAssumption DEF IInv, TypeOK
  <1>6. CallerBounds(t, now)'
    BY <1>1, <1>2 DEF CallerBounds, rows
  <1>7. RequestInv(r)'
    <2>1. IssueInv(r)'
      BY <1>4, <1>5, <1>6 DEF IssueInv, CallerBounds
    <2> QED BY <1>1, <1>4, <1>5, <2>1 DEF RequestInv, ShapeInv, TimeInv, HoldInv, SeenInv, Editing, Committing
  <1> QED BY <1>1, <1>3, <1>4, <1>5, <1>7, ReadSteps DEF IInv, TypeOK

\* The target is enabled when it is read, or is the caller.
LEMMA ReadTargetStep ==
  ASSUME IInv, NEW r \in Req, ReadTarget(r), UNCHANGED <<now, mix>>
  PROVE  Good({r})
  <1>1. CASE Rollback(r)
    BY <1>1, RollbackStep
  <1>2. CASE ~Rollback(r)
    <2> DEFINE t == req[r].claim
               m == [req[r] EXCEPT !.pc = "grants"]
    <2>1. /\ req[r].pc = "target" /\ req' = [req EXCEPT ![r].pc = "grants"] /\ UNCHANGED <<rows, lock, token>>
          /\ t.aud = t.caller \/ (app[t.aud].known /\ app[t.aud].enabled)
      BY <1>2 DEF ReadTarget, At, Goto
    <2>2. /\ req[r] \in Request /\ t \in Token /\ CallerBounds(t, req[r].started)
          /\ req[r].started <= now /\ now <= req[r].started + Stall
      BY <2>1, Fields DEF IInv, TypeOK, RequestInv, IssueInv, TimeInv
    <2>3. m \in Request
      BY <2>2 DEF Request
    <2>4. req' = [req EXCEPT ![r] = m] /\ req'[r] = m
      BY <2>1 DEF IInv, TypeOK
    <2>5. m.pc = "grants" /\ m.claim = t /\ m.started = req[r].started
      BY <2>2 DEF Request
    <2>6. TargetBounds(t, req[r].started)
      BY <2>1, <2>2 DEF TargetBounds, CallerBounds
    <2> HIDE DEF m, t
    <2>7. IssueInv(r)'
      <3>1. t = req[r].claim
        BY DEF t
      <3> QED BY <2>1, <2>2, <2>4, <2>5, <2>6, <3>1 DEF IssueInv, CallerBounds, TargetBounds, rows
    <2>8. RequestInv(r)'
      BY <2>1, <2>2, <2>4, <2>5, <2>7 DEF RequestInv, ShapeInv, TimeInv, HoldInv, SeenInv, Editing, Committing
    <2> QED BY <2>1, <2>3, <2>4, <2>8, ReadSteps DEF IInv, TypeOK
  <1> QED BY <1>1, <1>2

\* The scopes are effective when they are read.
LEMMA ReadGrantsStep ==
  ASSUME IInv, NEW r \in Req, ReadGrants(r), UNCHANGED <<now, mix>>
  PROVE  Good({r})
  <1>1. CASE Rollback(r)
    BY <1>1, RollbackStep
  <1>2. CASE ~Rollback(r)
    <2> DEFINE t == req[r].claim
               m == [req[r] EXCEPT !.pc = "encode"]
    <2>1. /\ req[r].pc = "grants" /\ req' = [req EXCEPT ![r].pc = "encode"] /\ UNCHANGED <<rows, lock, token>>
          /\ t.codes \subseteq Effective(t.caller, t.aud, now)
      BY <1>2 DEF ReadGrants, At, Goto
    <2>2. /\ req[r] \in Request /\ t \in Token /\ req[r].started \in Nat
          /\ CallerBounds(t, req[r].started) /\ TargetBounds(t, req[r].started)
          /\ req[r].started <= now /\ now <= req[r].started + Stall /\ now \in Nat /\ Stall \in Nat
      BY <2>1, Fields, ServiceAssumption DEF IInv, TypeOK, RequestInv, IssueInv, TimeInv
    <2>3. m \in Request
      BY <2>2 DEF Request
    <2>4. req' = [req EXCEPT ![r] = m] /\ req'[r] = m
      BY <2>1 DEF IInv, TypeOK
    <2>5. m.pc = "encode" /\ m.claim = t /\ m.started = req[r].started
      BY <2>2 DEF Request
    <2>6. ASSUME NEW c \in t.codes PROVE GrantBounds(t, c, req[r].started)
      <3> DEFINE s == <<t.aud, c>>
                 g == grant[<<t.caller, s>>]
      <3>1. /\ s \in Scope /\ scope[s].enabled /\ g.status = "enabled" /\ g.from <= now
            /\ g.until = NoTime \/ g.until > now
        BY <2>1 DEF Effective
      <3>2. <<t.caller, s>> \in Grant
        BY <2>2, <3>1, Columns DEF Grant
      <3>3. g.until \in Int
        BY <3>2, Columns DEF IInv, TypeOK
      <3>4. g.until # NoTime => req[r].started <= g.until + Stall
        BY <2>2, <3>1, <3>3
      <3> QED BY <3>1, <3>4 DEF GrantBounds
    <2> HIDE DEF m, t
    <2>7. IssueInv(r)'
      BY <2>1, <2>2, <2>4, <2>5, <2>6 DEF IssueInv, CallerBounds, TargetBounds, GrantBounds, rows
    <2>8. RequestInv(r)'
      BY <2>1, <2>2, <2>4, <2>5, <2>7 DEF RequestInv, ShapeInv, TimeInv, HoldInv, SeenInv, Editing, Committing
    <2> QED BY <2>1, <2>3, <2>4, <2>8, ReadSteps DEF IInv, TypeOK
  <1> QED BY <1>1, <1>2

\* The token is made within Stall of the authentication.
LEMMA EncodeStep ==
  ASSUME IInv, NEW r \in Req, Encode(r), UNCHANGED <<now, mix>>
  PROVE  /\ Good({r}) /\ req'[r].answer \in Token /\ req'[r].answer.iat = now
         /\ \A q \in Req \ {r} : req'[q] = req[q]
  <1> DEFINE claim == req[r].claim
             t == [claim EXCEPT !.iat = now]
             m == [Idle EXCEPT !.answer = t]
             d == req[r].started
  <1>1. /\ req[r].pc = "encode" /\ token' = token \cup {t} /\ req' = [req EXCEPT ![r] = m]
        /\ UNCHANGED <<rows, lock>>
    BY DEF Encode, At
  <1>2. /\ claim \in Token /\ d \in Nat /\ now \in Nat /\ Stall \in Nat /\ now - Stall <= d
        /\ CallerBounds(claim, d) /\ TargetBounds(claim, d)
        /\ \A c \in claim.codes : GrantBounds(claim, c, d)
    BY <1>1, Fields, ServiceAssumption DEF IInv, TypeOK, RequestInv, IssueInv, TimeInv
  <1>3. /\ t \in Token /\ t.caller = claim.caller /\ t.aud = claim.aud /\ t.codes = claim.codes
        /\ t.secret = claim.secret /\ t.iat = now
    BY <1>2 DEF Token
  <1>4. m \in Request /\ m.pc = "idle" /\ m.answer = t
    BY <1>3, IdleType DEF Request, Idle
  <1> HIDE DEF m, t, claim, d
  <1>5. req'[r] = m
    BY <1>1 DEF IInv, TypeOK
  <1>6. Grows
    BY <1>1, RowsStay DEF rows
  <1>7. TypeOK'
    BY <1>1, <1>3, <1>4 DEF IInv, TypeOK, rows
  <1>8. ASSUME NEW q \in Req \ {r} PROVE req'[q] = req[q] /\ Untouched(q)
    BY <1>1 DEF Untouched, rows, IInv, TypeOK
  <1>9. ASSUME NEW u \in Token, u = t PROVE TokenInv(u)'
    <2>1. CallerBounds(t, now - Stall)
      <3>1. app[t.caller] \in AppRow
        BY <1>3, Columns DEF IInv, TypeOK
      <3> QED BY <1>2, <1>3, <3>1, Columns DEF CallerBounds
    <2>2. TargetBounds(t, now - Stall)
      <3>1. app[t.aud] \in AppRow
        BY <1>3, Columns DEF IInv, TypeOK
      <3> QED BY <1>2, <1>3, <3>1, Columns DEF TargetBounds
    <2>3. ASSUME NEW c \in t.codes PROVE GrantBounds(t, c, now - Stall)
      <3> DEFINE s == <<t.aud, c>>
                 g == grant[<<t.caller, s>>]
      <3>1. /\ s \in Scope /\ g.status # "none" /\ g.from <= now
            /\ g.status = "revoked" => d <= g.revokedAt + Stall
            /\ g.until # NoTime => d <= g.until + Stall
            /\ ~scope[s].enabled => d <= scope[s].updatedAt + Stall
        BY <1>2, <1>3 DEF GrantBounds
      <3>2. <<t.caller, s>> \in Grant
        BY <1>3, <3>1, Columns DEF Grant
      <3>3. g.until \in Int /\ g.revokedAt \in Int /\ scope[s].updatedAt \in Int
        BY <3>1, <3>2, Columns DEF IInv, TypeOK
      <3>4. /\ g.status = "revoked" => now - Stall <= g.revokedAt + Stall
            /\ g.until # NoTime => now - Stall <= g.until + Stall
            /\ ~scope[s].enabled => now - Stall <= scope[s].updatedAt + Stall
        BY <1>2, <3>1, <3>3
      <3> QED BY <3>1, <3>4 DEF GrantBounds
    <2>4. t.iat <= now' /\ now' = now /\ UNCHANGED rows
      BY <1>1, <1>2, <1>3
    <2>5. u.iat = now /\ CallerBounds(u, now - Stall) /\ TargetBounds(u, now - Stall)
          /\ \A c \in u.codes : GrantBounds(u, c, now - Stall)
      BY <1>3, <1>9, <2>1, <2>2, <2>3
    <2> QED BY <1>2, <2>4, <2>5 DEF TokenInv, Bounds, CallerBounds, TargetBounds, GrantBounds, rows
  <1>10. RequestInv(r)'
    BY <1>4, <1>5, IdleHolds
  <1>11. \A u \in token' \ token : TokenInv(u)'
    BY <1>1, <1>3, <1>9
  <1> QED BY <1>3, <1>4, <1>5, <1>6, <1>7, <1>8, <1>10, <1>11 DEF Good

\* Time waits for the requests that hold a connection.
LEMMA TickStep ==
  ASSUME IInv, Tick, UNCHANGED mix
  PROVE  IInv'
  <1>1. /\ \A r \in Req : At(r, "idle") \/ At(r, "edit") \/ now < req[r].started + Stall
        /\ now' = now + 1 /\ token' \subseteq token /\ UNCHANGED <<rows, lock, req>>
        /\ now \in Nat
    BY DEF Tick, IInv, TypeOK
  <1>2. Grows
    BY <1>1, RowsStay
  <1>3. TypeOK'
    BY <1>1 DEF IInv, TypeOK, rows
  <1>4. ASSUME NEW q \in Req PROVE RequestInv(q)'
    <2>1. req'[q] = req[q] /\ Untouched(q)
      BY <1>1 DEF Untouched, rows
    <2>2. TimeInv(q)'
      <3>1. req[q].started \in Nat /\ Stall \in Nat
        BY Fields, ServiceAssumption DEF IInv, TypeOK
      <3> QED BY <1>1, <2>1, <3>1 DEF IInv, RequestInv, TimeInv, At
    <2> QED BY <1>1, <1>2, <1>3, <2>1, <2>2, IssueKept, HoldKept DEF RequestInv
  <1>5. \A t \in token' : TokenInv(t)'
    BY <1>1, <1>2, <1>3, TokenKept
  <1> QED BY <1>3, <1>4, <1>5 DEF IInv

\* Every further step of a request keeps the invariant.
LEMMA ProceedStep ==
  ASSUME IInv, NEW r \in Req, Proceed(r), UNCHANGED <<now, mix>>
  PROVE  Good({r})
  <1>1. CASE Abort(r)
    BY <1>1, RollbackStep DEF Abort
  <1>2. CASE CommitApp(r) \/ CommitScope(r) \/ CommitRevoke(r) \/ InsertGrant(r)
    BY <1>2, CommitAppStep, CommitScopeStep, CommitRevokeStep, InsertGrantStep
  <1>3. CASE ReadApp(r) \/ UpdateApp(r) \/ ReadTarget(r) \/ ReadGrants(r) \/ Encode(r)
    BY <1>3, ReadAppStep, UpdateAppStep, ReadTargetStep, ReadGrantsStep, EncodeStep
  <1> QED BY <1>1, <1>2, <1>3 DEF Proceed

\* Every first step of an administrator's request keeps the invariant.
LEMMA AdministerStep ==
  ASSUME IInv, NEW r \in Req, Administer(r), UNCHANGED <<now, mix>>
  PROVE  Good({r})
  <1>1. mix.apps \subseteq App
    BY ServiceAssumption DEF IInv, TypeOK
  <1>2. CASE AdministerApps(r)
    BY <1>1, <1>2, ViewAppStep, LockRowStep DEF AdministerApps
  <1>3. CASE AdministerScopes(r)
    BY <1>3, LockRowStep DEF AdministerScopes
  <1>4. CASE AdministerGrants(r)
    <2>1. CASE \E g \in Grant : LockRow(r, "revoke_grant", g)
      BY <2>1, LockRowStep
    <2>2. CASE \E g \in Grant, offer \in Offer : ReadGrant(r, g, offer)
      BY <2>2, ReadGrantStep
    <2> QED BY <1>4, <2>1, <2>2 DEF AdministerGrants
  <1> QED BY <1>2, <1>3, <1>4 DEF Administer

\* So do the creations.
LEMMA CreateStep ==
  ASSUME IInv, Create, UNCHANGED <<now, mix>>
  PROVE  Good({})
  BY CreateAppStep, CreateScopeStep DEF Create

\* So does a request for a token.
LEMMA AskStep ==
  ASSUME IInv, NEW r \in Req, Ask(r), UNCHANGED <<now, mix>>
  PROVE  Good({r})
  <1>1. PICK caller \in App, aud \in App, codes \in Requested :
           \E secret \in 0..app[caller].secret : StartIssue(r, caller, secret, aud, codes)
    BY DEF Ask
  <1>2. PICK secret \in 0..app[caller].secret : StartIssue(r, caller, secret, aud, codes)
    BY <1>1
  <1>3. codes \in SUBSET Code /\ secret \in Nat
    BY <1>1, <1>2, Columns DEF Requested, IInv, TypeOK
  <1> QED BY <1>2, <1>3, StartIssueStep

\* A prepared installation
LEMMA Initially == Init => IInv
  <1> SUFFICES ASSUME Init PROVE IInv
    OBVIOUS
  <1>1. /\ now = 0 /\ mix \in Mixes /\ token = {} /\ req = [r \in Req |-> Idle]
        /\ lock = [x \in App \cup Scope \cup Grant |-> NoReq]
    BY DEF Init
  <1>2. PICK known \in SUBSET App :
           /\ app = [a \in App |-> IF a \in known THEN NewApp(SomeProfile, 0) ELSE NoApp]
           /\ \E offered \in SUBSET {s \in mix.scopes : s[1] \in known} :
                 /\ scope = [s \in Scope |-> IF s \in offered THEN NewScope(0) ELSE NoScope]
                 /\ \E given \in SUBSET {g \in Grant : g[1] \in known /\ g[2] \in offered} :
                       grant = [g \in Grant |-> IF g \in given THEN NewGrant(0, NoTime) ELSE NoGrant]
    BY DEF Init
  <1>3. PICK offered \in SUBSET {s \in mix.scopes : s[1] \in known} :
           /\ scope = [s \in Scope |-> IF s \in offered THEN NewScope(0) ELSE NoScope]
           /\ \E given \in SUBSET {g \in Grant : g[1] \in known /\ g[2] \in offered} :
                 grant = [g \in Grant |-> IF g \in given THEN NewGrant(0, NoTime) ELSE NoGrant]
    BY <1>2
  <1>4. PICK given \in SUBSET {g \in Grant : g[1] \in known /\ g[2] \in offered} :
           grant = [g \in Grant |-> IF g \in given THEN NewGrant(0, NoTime) ELSE NoGrant]
    BY <1>3
  <1>5. 0 \in Time /\ NoTime \in Time
    BY DEF Time
  <1>6. PICK p \in Profile : TRUE
    BY ServiceAssumption
  <1>7. /\ NewApp(SomeProfile, 0) \in AppRow /\ NoApp \in AppRow
        /\ NewScope(0) \in ScopeRow /\ NoScope \in ScopeRow
        /\ NewGrant(0, NoTime) \in GrantRow /\ NoGrant \in GrantRow
    BY <1>5, <1>6, NewTypes
  <1>8. /\ NewApp(SomeProfile, 0).known /\ NewScope(0).known /\ ~NoScope.known /\ NoGrant.status = "none"
    BY DEF NewApp, NewScope, NoScope, NoGrant
  <1>9. \A s \in Scope : scope[s].known => app[s[1]].known
    BY <1>2, <1>3, <1>8, ServiceAssumption
  <1>10. \A g \in Grant : grant[g].status # "none" => app[g[1]].known /\ scope[g[2]].known
    <2>1. \A g \in Grant : g[1] \in App /\ g[2] \in Scope
      BY DEF Grant
    <2> QED BY <1>2, <1>3, <1>4, <1>8, <2>1
  <1>11. TypeOK
    BY <1>1, <1>2, <1>3, <1>4, <1>7, <1>9, <1>10, IdleType DEF TypeOK
  <1>12. ASSUME NEW r \in Req PROVE RequestInv(r)
    BY <1>1 DEF Idle, RequestInv, ShapeInv, TimeInv, HoldInv, SeenInv, IssueInv, Editing, Committing
  <1> QED BY <1>1, <1>11, <1>12 DEF IInv

\* A step of the server without the client
LEMMA ServerNext ==
  ASSUME IInv, [Next]_vars
  PROVE  IInv' /\ Grows
  <1>1. CASE UNCHANGED vars
    <2>1. req' = [r \in Req |-> IF r \in {} THEN Idle ELSE req[r]]
      BY <1>1 DEF IInv, TypeOK, vars
    <2>2. UNCHANGED <<now, mix, rows, lock, token>>
      BY <1>1 DEF vars, rows
    <2>3. {} \in SUBSET Req
      OBVIOUS
    <2> HIDE DEF vars
    <2> QED BY <2>1, <2>2, <2>3, ResetStep, RowsStay
  <1>2. CASE Tick /\ UNCHANGED mix
    BY <1>2, TickStep, RowsStay DEF Tick
  <1>3. CASE Create /\ UNCHANGED <<now, mix>>
    <2>1. Good({}) /\ {} \in SUBSET Req
      BY <1>3, CreateStep
    <2> QED BY <2>1, GoodSteps DEF Good
  <1>4. CASE (\E r \in Req : Administer(r) \/ Ask(r) \/ Proceed(r)) /\ UNCHANGED <<now, mix>>
    <2>1. PICK r \in Req : Administer(r) \/ Ask(r) \/ Proceed(r)
      BY <1>4
    <2>2. Good({r}) /\ {r} \in SUBSET Req
      BY <1>4, <2>1, AdministerStep, AskStep, ProceedStep
    <2> QED BY <2>2, GoodSteps DEF Good
  <1> QED BY <1>1, <1>2, <1>3, <1>4 DEF Next

-----------------------------------------------------------------------------
(* Threads *)

\* What a request leaves for who reads its answer: what was there, nothing, or a token of now.
LEMMA AnswerStep ==
  ASSUME IInv, NEW r \in Req, Proceed(r), UNCHANGED <<now, mix>>, NEW q \in Req
  PROVE  req'[q].answer \in {req[q].answer, NoToken} \/ req'[q].answer.iat = now
  <1>1. req \in [Req -> Request]
    BY DEF IInv, TypeOK
  <1>2. CASE req' = [req EXCEPT ![r] = Idle]
    BY <1>1, <1>2 DEF Idle
  <1>3. CASE Encode(r)
    BY <1>3, EncodeStep
  <1>4. CASE req' # [req EXCEPT ![r] = Idle] /\ ~Encode(r)
    <2>1. \/ \E step \in {"commit", "grants", "encode"} : Goto(r, step)
          \/ req' = [req EXCEPT ![r].pc = "write", ![r].seen = app[req[r].row], ![r].started = now]
      <3>1. ~End(r)
        BY <1>4 DEF End
      <3>2. ReadApp(r) \/ UpdateApp(r) \/ ReadTarget(r) \/ ReadGrants(r)
        BY <1>4, <3>1 DEF Proceed, Abort, Rollback, CommitApp, CommitScope, CommitRevoke, InsertGrant
      <3>3. CASE ReadApp(r)
        BY <3>1, <3>3 DEF ReadApp, Rollback
      <3>4. CASE UpdateApp(r)
        BY <3>1, <3>4 DEF UpdateApp, Rollback
      <3>5. CASE ReadTarget(r)
        BY <3>1, <3>5 DEF ReadTarget, Rollback
      <3>6. CASE ReadGrants(r)
        BY <3>1, <3>6 DEF ReadGrants, Rollback
      <3> QED BY <3>2, <3>3, <3>4, <3>5, <3>6
    <2>2. req[r] \in Request
      BY <1>1
    <2>3. req'[r].answer = req[r].answer
      BY <1>1, <2>1, <2>2 DEF Request, Goto
    <2>4. q # r => req'[q] = req[q]
      BY <1>1, <2>1 DEF Goto
    <2> QED BY <2>3, <2>4
  <1> QED BY <1>2, <1>3, <1>4

\* The type of each field of a call, and of the cache.
LEMMA CallTypes ==
  /\ \A m \in Call : /\ m.pc \in {"idle", "wait", "fetch", "answer", "use"} /\ m.code \in Code
                     /\ m.since \in Nat /\ m.token \in Token \cup {NoToken}
  /\ \A c \in CachedServiceToken : c.value \in Token \cup {NoToken} /\ c.refreshAt \in Nat
  /\ NoCall \in Call /\ NotCached \in CachedServiceToken
  /\ now \in Nat => \A code \in Code, value \in Token : Using(code, value) \in Call
  <1>1. (CHOOSE c \in Code : TRUE) \in Code
    BY ClientAssumption
  <1>2. NoCall \in Call
    BY <1>1 DEF NoCall, Call
  <1>3. NotCached \in CachedServiceToken
    BY DEF NotCached, CachedServiceToken
  <1>4. now \in Nat => \A code \in Code, value \in Token : Using(code, value) \in Call
    BY <1>2 DEF Using, NoCall, Call
  <1> QED BY <1>2, <1>3, <1>4 DEF Call, CachedServiceToken

\* Nothing is asked of a call that neither fetches nor uses.
LEMMA QuietCall ==
  ASSUME NEW t, thread'[t].pc \in {"idle", "wait"}
  PROVE  FetchInv(t)' /\ UseInv(t)'
  BY DEF FetchInv, UseInv, Fetching, Doing

\* A step of thread t that moves neither time nor the cache, nor anybody else's call
ThreadMove(t) == /\ UNCHANGED <<now, cache>>
                 /\ thread' \in [Thread -> Call]
                 /\ cacheLock' \in Thread \cup {NoReq}
                 /\ \A u \in Thread \ {t} : /\ thread'[u] = thread[u] /\ req'[u] = req[u]
                                            /\ cacheLock' = u <=> cacheLock = u
                 /\ Fetching(t)' <=> cacheLock' = t
\* The move of one thread leaves the invariant of the others.
LEMMA ThreadMoves ==
  ASSUME ClientInv, IInv', NEW t \in Thread, ThreadMove(t), FetchInv(t)', UseInv(t)'
  PROVE  ClientInv'
  <1>1. ASSUME NEW u \in Thread, u # t PROVE FetchInv(u)' /\ UseInv(u)' /\ (Fetching(u)' <=> cacheLock' = u)
    BY <1>1 DEF ClientInv, ClientTypeOK, FetchInv, UseInv, Fetching, Doing, Fresh, ThreadMove
  <1>2. ClientTypeOK'
    BY <1>1 DEF ClientInv, ClientTypeOK, ThreadMove
  <1>3. \A c \in Code : CacheInv(c)'
    BY DEF ClientInv, CacheInv, ThreadMove
  <1> QED BY <1>1, <1>2, <1>3 DEF ClientInv

\* A token from the cache has the margin left of its life.
LEMMA CachedLasts ==
  ASSUME ClientInv, NEW t \in Thread, NEW code \in Code, Fresh(code), UNCHANGED now,
         thread' = [thread EXCEPT ![t] = Using(code, cache[code].value)]
  PROVE  thread' \in [Thread -> Call] /\ thread'[t].pc = "use" /\ UseInv(t)' /\ FetchInv(t)'
  <1> DEFINE value == cache[code].value
             m == Using(code, value)
  <1>1. /\ value \in Token /\ value.iat \in Nat /\ cache[code].refreshAt \in Nat /\ now \in Nat
        /\ now < cache[code].refreshAt
    BY CallTypes, Columns DEF ClientInv, ClientTypeOK, Fresh, IInv, TypeOK
  <1>2. cache[code].refreshAt <= value.iat + (IF TTL > Margin THEN TTL - Margin ELSE 0)
    BY DEF ClientInv, CacheInv, Fresh
  <1>3. now + Delay < value.iat + TTL
    <2>1. TTL \in Nat /\ Margin \in Nat /\ Delay \in Nat /\ Delay <= Margin
      BY ServiceAssumption, ClientAssumption
    <2> DEFINE i == value.iat
    <2>2. i \in Nat /\ now < i + (IF TTL > Margin THEN TTL - Margin ELSE 0)
      BY <1>1, <1>2, <2>1
    <2>3. Delay < TTL
      BY <2>1, ClientAssumption
    <2> HIDE DEF i
    <2>4. now + Delay < i + TTL
      BY <1>1, <2>1, <2>2, <2>3
    <2> QED BY <2>4 DEF i
  <1>4. m.pc = "use" /\ m.since = now /\ m.token = value /\ m \in Call
    BY <1>1, CallTypes DEF Using, NoCall
  <1>5. value # NoToken
    BY DEF Fresh
  <1> HIDE DEF m, value
  <1>6. thread' \in [Thread -> Call] /\ thread'[t] = m
    BY <1>4 DEF ClientInv, ClientTypeOK, m, value
  <1>7. now' <= now + Delay
    BY <1>1, ClientAssumption
  <1> QED BY <1>3, <1>4, <1>5, <1>6, <1>7 DEF UseInv, FetchInv, Fetching, Doing

\* Threads are requests, and none of them is nobody.
LEMMA Threads == Thread \subseteq Req /\ NoReq \notin Thread
  BY ClientAssumption, ServiceAssumption

\* The types of the client, and the invariant of the server.
LEMMA ClientTypesNow ==
  ASSUME ClientInv
  PROVE  /\ IInv /\ ClientTypeOK /\ now \in Nat
         /\ cache \in [Code -> CachedServiceToken] /\ cacheLock \in Thread \cup {NoReq}
         /\ thread \in [Thread -> Call] /\ \A t \in Thread : Fetching(t) <=> cacheLock = t
  BY DEF ClientInv, ClientTypeOK, IInv, TypeOK

\* A call starts with a token that lasts, or waits.
LEMMA StartCallStep ==
  ASSUME ClientInv, NEW t \in Thread, NEW code \in Code, StartCall(t, code)
  PROVE  ClientInv'
  <1>1. UNCHANGED <<server, cache, cacheLock>> /\ Doing(t, "idle")
    BY DEF StartCall
  <1>2. IInv'
    BY <1>1, ClientTypesNow, ServerNext DEF server, vars
  <1>3. cacheLock # t
    BY <1>1, ClientTypesNow DEF Fetching, Doing
  <1>4. CASE Fresh(code)
    <2>1. thread' = [thread EXCEPT ![t] = Using(code, cache[code].value)]
      BY <1>4 DEF StartCall
    <2>2. thread' \in [Thread -> Call] /\ thread'[t].pc = "use" /\ UseInv(t)' /\ FetchInv(t)'
      BY <1>1, <1>4, <2>1, CachedLasts DEF server
    <2>3. ThreadMove(t)
      BY <1>1, <1>3, <2>1, <2>2, ClientTypesNow DEF ThreadMove, server, Fetching
    <2> QED BY <1>2, <2>2, <2>3, ThreadMoves
  <1>5. CASE ~Fresh(code)
    <2> DEFINE m == [NoCall EXCEPT !.pc = "wait", !.code = code]
    <2>1. thread' = [thread EXCEPT ![t] = m]
      BY <1>5 DEF StartCall
    <2>2. m \in Call /\ m.pc = "wait"
      BY CallTypes DEF Call, NoCall
    <2> HIDE DEF m
    <2>3. thread' \in [Thread -> Call] /\ thread'[t].pc = "wait"
      BY <2>1, <2>2, ClientTypesNow
    <2>4. ThreadMove(t)
      BY <1>1, <1>3, <2>1, <2>3, ClientTypesNow DEF ThreadMove, server, Fetching
    <2> QED BY <1>2, <2>3, <2>4, QuietCall, ThreadMoves
  <1> QED BY <1>4, <1>5

\* Who gets the lock finds a token that lasts, or fetches one.
LEMMA AcquireStep ==
  ASSUME ClientInv, NEW t \in Thread, Acquire(t)
  PROVE  ClientInv'
  <1> DEFINE code == thread[t].code
  <1>1. UNCHANGED <<server, cache>> /\ Doing(t, "wait") /\ cacheLock = NoReq
    BY DEF Acquire
  <1>2. IInv'
    BY <1>1, ClientTypesNow, ServerNext DEF server, vars
  <1>3. thread[t] \in Call /\ code \in Code
    BY ClientTypesNow, CallTypes
  <1>4. CASE Fresh(code)
    <2>1. thread' = [thread EXCEPT ![t] = Using(code, cache[code].value)] /\ UNCHANGED cacheLock
      BY <1>4 DEF Acquire
    <2>2. thread' \in [Thread -> Call] /\ thread'[t].pc = "use" /\ UseInv(t)' /\ FetchInv(t)'
      BY <1>1, <1>3, <1>4, <2>1, CachedLasts DEF server
    <2>3. ThreadMove(t)
      BY <1>1, <2>1, <2>2, ClientTypesNow, Threads DEF ThreadMove, server, Fetching
    <2> QED BY <1>2, <2>2, <2>3, ThreadMoves
  <1>5. CASE ~Fresh(code)
    <2> DEFINE m == [thread[t] EXCEPT !.pc = "fetch", !.since = now]
    <2>1. thread' = [thread EXCEPT ![t] = m] /\ cacheLock' = t
      BY <1>5 DEF Acquire
    <2>2. m \in Call /\ m.pc = "fetch" /\ m.since = now /\ m.code = code
      BY <1>3, ClientTypesNow DEF Call
    <2> HIDE DEF m, code
    <2>3. thread' \in [Thread -> Call] /\ thread'[t] = m
      BY <2>1, <2>2, ClientTypesNow
    <2>4. ThreadMove(t)
      BY <1>1, <2>1, <2>2, <2>3, ClientTypesNow, Threads DEF ThreadMove, server, Fetching
    <2>5. FetchInv(t)'
      <3>1. now' <= now + Patience /\ now' = now
        BY <1>1, ClientTypesNow, ClientAssumption DEF server
      <3>2. thread'[t].code = thread[t].code
        BY <2>2, <2>3 DEF code
      <3>3. ~Fresh(thread[t].code)'
        BY <1>1, <1>5, <3>2 DEF Fresh, server, code
      <3> QED BY <2>2, <2>3, <3>1, <3>3, ClientTypesNow DEF FetchInv, Doing, Fetching
    <2>6. UseInv(t)'
      BY <2>2, <2>3 DEF UseInv, Doing
    <2> QED BY <1>2, <2>4, <2>5, <2>6, ThreadMoves
  <1> QED BY <1>4, <1>5

\* The request goes out with no answer yet.
LEMMA PostStep ==
  ASSUME ClientInv, NEW t \in Thread, Post(t)
  PROVE  ClientInv'
  <1> DEFINE m == [thread[t] EXCEPT !.pc = "answer"]
  <1>1. /\ Doing(t, "fetch") /\ StartIssue(t, Main, Configured, Jcc, {thread[t].code})
        /\ thread' = [thread EXCEPT ![t] = m] /\ UNCHANGED <<now, mix, cache, cacheLock>>
    BY DEF Post
  <1>2. thread[t] \in Call /\ thread[t].code \in Code
    BY ClientTypesNow, CallTypes
  <1>3. t \in Req /\ Good({t}) /\ req'[t].answer = NoToken
    <2>1. t \in Req /\ Main \in App /\ Jcc \in App /\ Configured \in Nat /\ {thread[t].code} \in SUBSET Code
      BY <1>2, Threads, ClientAssumption
    <2>2. IInv /\ UNCHANGED <<now, mix>>
      BY <1>1, ClientTypesNow
    <2> QED BY <1>1, <2>1, <2>2, StartIssueStep
  <1>4. IInv'
    BY <1>3, ClientTypesNow, GoodSteps
  <1>5. m \in Call /\ m.pc = "answer" /\ m.since = thread[t].since /\ m.code = thread[t].code
    BY <1>2 DEF Call
  <1> HIDE DEF m
  <1>6. thread' \in [Thread -> Call] /\ thread'[t] = m
    BY <1>1, <1>5, ClientTypesNow
  <1>7. ThreadMove(t)
    BY <1>1, <1>3, <1>5, <1>6, ClientTypesNow, Threads DEF ThreadMove, Good, Fetching, Doing
  <1>8. FetchInv(t)'
    <2>1. FetchInv(t) /\ Fetching(t)
      BY <1>1 DEF ClientInv, Fetching, Doing
    <2> QED BY <1>1, <1>3, <1>5, <1>6, <2>1 DEF FetchInv, Fetching, Doing, Fresh
  <1>9. UseInv(t)'
    BY <1>5, <1>6 DEF UseInv, Doing
  <1> QED BY <1>4, <1>7, <1>8, <1>9, ThreadMoves

\* A token that has just come was made after the request for it.
LEMMA ReceiveStep ==
  ASSUME ClientInv, NEW t \in Thread, Receive(t)
  PROVE  ClientInv'
  <1> DEFINE code == thread[t].code
             value == req[t].answer
             since == thread[t].since
             m == Using(code, value)
             entry == [value |-> value, refreshAt |-> RefreshAt(since)]
  <1>1. /\ Doing(t, "answer") /\ value # NoToken /\ cache' = [cache EXCEPT ![code] = entry]
        /\ cacheLock' = NoReq /\ thread' = [thread EXCEPT ![t] = m]
        /\ req' = [req EXCEPT ![t] = Idle] /\ UNCHANGED <<now, rows, lock, token, mix>>
    BY DEF Receive
  <1>2. /\ code \in Code /\ since \in Nat /\ value \in Token /\ value.iat \in Nat
        /\ cacheLock = t /\ t \in Req /\ now \in Nat
    <2>1. req[t] \in Request
      BY Threads, ClientTypesNow DEF IInv, TypeOK
    <2>2. cacheLock = t
      BY <1>1, ClientTypesNow DEF Fetching, Doing
    <2> QED BY <1>1, <2>1, <2>2, ClientTypesNow, CallTypes, Fields, Columns, Threads
  <1>3. since <= now /\ now <= since + Patience /\ since <= value.iat
    BY <1>1 DEF ClientInv, FetchInv, Fetching, Doing
  <1>4. IInv'
    <2>1. req' = [r \in Req |-> IF r \in {t} THEN Idle ELSE req[r]]
      BY <1>1, <1>2, ClientTypesNow DEF IInv, TypeOK
    <2>2. {t} \in SUBSET Req
      BY <1>2
    <2> QED BY <1>1, <2>1, <2>2, ResetStep, ClientTypesNow
  <1>5. m.pc = "use" /\ m.since = now /\ m.token = value /\ m \in Call
    BY <1>2, CallTypes DEF Using, NoCall
  <1>6. entry \in CachedServiceToken /\ entry.value = value /\ entry.refreshAt = RefreshAt(since)
    BY <1>2, ServiceAssumption, ClientAssumption DEF CachedServiceToken, RefreshAt
  <1>7. /\ RefreshAt(since) <= value.iat + (IF TTL > Margin THEN TTL - Margin ELSE 0)
        /\ now + Delay < value.iat + TTL
    BY <1>2, <1>3, ServiceAssumption, ClientAssumption DEF RefreshAt
  <1> HIDE DEF code, value, since, m, entry
  <1>8. /\ thread' \in [Thread -> Call] /\ thread'[t] = m
        /\ \A u \in Thread \ {t} : thread'[u] = thread[u] /\ ~Fetching(u)
        /\ cache' \in [Code -> CachedServiceToken] /\ cache'[code] = entry
        /\ \A c \in Code \ {code} : cache'[c] = cache[c]
    BY <1>1, <1>2, <1>5, <1>6, ClientTypesNow
  <1>9. ClientTypeOK'
    <2>1. \A u \in Thread : ~Fetching(u)' /\ cacheLock' # u
      BY <1>1, <1>5, <1>8, Threads DEF Fetching
    <2> QED BY <1>1, <1>8, <2>1 DEF ClientTypeOK
  <1>10. ASSUME NEW u \in Thread PROVE FetchInv(u)' /\ UseInv(u)'
    <2>1. CASE u = t
      <3>1. now' = now /\ now' <= now + Delay
        BY <1>1, <1>2, ClientAssumption
      <3> QED BY <1>1, <1>5, <1>7, <1>8, <2>1, <3>1 DEF FetchInv, UseInv, Fetching, Doing
    <2>2. CASE u # t
      BY <1>1, <1>8, <2>2 DEF ClientInv, FetchInv, UseInv, Fetching, Doing
    <2> QED BY <2>1, <2>2
  <1>11. ASSUME NEW c \in Code PROVE CacheInv(c)'
    BY <1>6, <1>7, <1>8 DEF ClientInv, CacheInv
  <1> QED BY <1>4, <1>9, <1>10, <1>11 DEF ClientInv

\* A failed fetch gives the lock back.
LEMMA FetchFailsStep ==
  ASSUME ClientInv, NEW t \in Thread, FetchFails(t)
  PROVE  ClientInv'
  <1>1. /\ Fetching(t) /\ cacheLock' = NoReq /\ thread' = [thread EXCEPT ![t] = NoCall]
        /\ req' = [req EXCEPT ![t] = Idle] /\ UNCHANGED <<now, rows, lock, token, mix, cache>>
    BY DEF FetchFails
  <1>2. cacheLock = t /\ t \in Req
    BY <1>1, ClientTypesNow, Threads
  <1>3. IInv'
    <2>1. req' = [r \in Req |-> IF r \in {t} THEN Idle ELSE req[r]]
      BY <1>1, <1>2, ClientTypesNow DEF IInv, TypeOK
    <2>2. {t} \in SUBSET Req
      BY <1>2
    <2> QED BY <1>1, <2>1, <2>2, ResetStep, ClientTypesNow
  <1>4. NoCall \in Call /\ NoCall.pc = "idle"
    BY CallTypes DEF NoCall
  <1>5. thread' \in [Thread -> Call] /\ thread'[t].pc = "idle"
    BY <1>1, <1>4, ClientTypesNow
  <1>6. ThreadMove(t)
    <2>1. \A u \in Thread \ {t} : thread'[u] = thread[u] /\ req'[u] = req[u]
      BY <1>1, <1>4, Threads, ClientTypesNow DEF IInv, TypeOK
    <2> QED BY <1>1, <1>2, <1>5, <2>1, Threads DEF ThreadMove, Fetching
  <1> QED BY <1>3, <1>5, <1>6, QuietCall, ThreadMoves

\* A call ends.
LEMMA UseStep ==
  ASSUME ClientInv, NEW t \in Thread, Use(t)
  PROVE  ClientInv'
  <1>1. Doing(t, "use") /\ thread' = [thread EXCEPT ![t] = NoCall] /\ UNCHANGED <<server, cache, cacheLock>>
    BY DEF Use
  <1>2. IInv'
    BY <1>1, ClientTypesNow, ServerNext DEF server, vars
  <1>3. NoCall \in Call /\ NoCall.pc = "idle"
    BY CallTypes DEF NoCall
  <1>4. thread' \in [Thread -> Call] /\ thread'[t].pc = "idle"
    BY <1>1, <1>3, ClientTypesNow
  <1>5. ThreadMove(t)
    <2>1. cacheLock # t
      BY <1>1, ClientTypesNow DEF Fetching, Doing
    <2> QED BY <1>1, <1>4, <2>1, ClientTypesNow DEF ThreadMove, server, Fetching
  <1> QED BY <1>2, <1>4, <1>5, QuietCall, ThreadMoves

\* A process that starts has an empty cache and a free lock.
LEMMA RestartStep ==
  ASSUME ClientInv, Restart
  PROVE  ClientInv'
  <1>1. /\ cache' = [c \in Code |-> NotCached] /\ cacheLock' = NoReq /\ thread' = [t \in Thread |-> NoCall]
        /\ req' = [r \in Req |-> IF r \in Thread THEN Idle ELSE req[r]]
        /\ UNCHANGED <<now, rows, lock, token, mix>>
    BY DEF Restart
  <1>2. IInv'
    <2>1. Thread \in SUBSET Req
      BY Threads
    <2> QED BY <1>1, <2>1, ResetStep, ClientTypesNow
  <1>3. NoCall \in Call /\ NoCall.pc = "idle" /\ NotCached \in CachedServiceToken /\ NotCached.value = NoToken
    BY CallTypes DEF NoCall, NotCached
  <1>4. ClientTypeOK'
    BY <1>1, <1>3, Threads DEF ClientTypeOK, Fetching
  <1>5. \A t \in Thread : FetchInv(t)' /\ UseInv(t)'
    BY <1>1, <1>3, QuietCall
  <1>6. \A c \in Code : CacheInv(c)'
    BY <1>1, <1>3 DEF CacheInv
  <1> QED BY <1>2, <1>4, <1>5, <1>6 DEF ClientInv

\* Time waits for fetches and calls, and makes nothing fresh.
LEMMA ClientTickStep ==
  ASSUME ClientInv, ClientTick
  PROVE  ClientInv'
  <1>1. /\ Tick /\ UNCHANGED mix /\ UNCHANGED <<cache, cacheLock, thread>> /\ UNCHANGED req /\ now' = now + 1
        /\ \A t \in Thread : /\ Fetching(t) => now < thread[t].since + Patience
                             /\ Doing(t, "use") => now < thread[t].since + Delay
    BY DEF ClientTick, client, Tick
  <1>2. IInv'
    BY <1>1, TickStep, ClientTypesNow
  <1>3. ClientTypeOK'
    BY <1>1, ClientTypesNow DEF ClientTypeOK, Fetching
  <1>4. ASSUME NEW t \in Thread PROVE FetchInv(t)' /\ UseInv(t)'
    <2>1. thread[t] \in Call /\ thread[t].since \in Nat /\ thread[t].code \in Code /\ now \in Nat
      BY ClientTypesNow, CallTypes
    <2>2. ~Fresh(thread[t].code) => ~Fresh(thread[t].code)'
      <3>1. cache[thread[t].code].refreshAt \in Nat
        BY <2>1, ClientTypesNow, CallTypes
      <3> QED BY <1>1, <2>1, <3>1 DEF Fresh
    <2>3. req[t].answer # NoToken => req[t].answer.iat \in Nat
      <3>1. req[t] \in Request
        BY Threads, ClientTypesNow DEF IInv, TypeOK
      <3> QED BY <3>1, Fields, Columns
    <2>4. FetchInv(t) /\ UseInv(t)
      BY DEF ClientInv
    <2>5. Patience \in Nat /\ Delay \in Nat
      BY ClientAssumption
    <2>6. FetchInv(t)'
      BY <1>1, <2>1, <2>2, <2>3, <2>4, <2>5 DEF FetchInv, Fetching, Doing
    <2>7. UseInv(t)'
      BY <1>1, <2>1, <2>4, <2>5 DEF UseInv, Doing
    <2> QED BY <2>6, <2>7
  <1>5. ASSUME NEW c \in Code PROVE CacheInv(c)'
    BY <1>1 DEF ClientInv, CacheInv
  <1> QED BY <1>2, <1>3, <1>4, <1>5 DEF ClientInv

\* A step of the server leaves the client its tokens, and answers with a token of now.
LEMMA ServerStepStep ==
  ASSUME ClientInv, ServerStep, UNCHANGED <<now, mix, client>>
  PROVE  ClientInv'
  <1>1. UNCHANGED <<now, mix>> /\ UNCHANGED <<cache, cacheLock, thread>>
    BY DEF client
  <1>2. IInv' /\ \A t \in Thread : req'[t].answer \in {req[t].answer, NoToken} \/ req'[t].answer.iat = now
    <2>1. CASE Create
      <3>1. Good({})
        BY <1>1, <2>1, ClientTypesNow, CreateStep
      <3>2. \A t \in Thread : req'[t] = req[t]
        BY <3>1, Threads DEF Good
      <3>3. {} \in SUBSET Req
        OBVIOUS
      <3> QED BY <3>1, <3>2, <3>3, GoodSteps, ClientTypesNow
    <2>2. CASE \E r \in Req \ Thread : Administer(r) \/ Ask(r)
      <3>1. PICK r \in Req \ Thread : Administer(r) \/ Ask(r)
        BY <2>2
      <3>2. Good({r})
        BY <1>1, <3>1, ClientTypesNow, AdministerStep, AskStep
      <3>3. \A t \in Thread : req'[t] = req[t]
        BY <3>1, <3>2, Threads DEF Good
      <3>4. {r} \in SUBSET Req
        BY <3>1
      <3> QED BY <3>2, <3>3, <3>4, GoodSteps, ClientTypesNow
    <2>3. CASE \E r \in Req : Proceed(r)
      <3>1. PICK r \in Req : Proceed(r)
        BY <2>3
      <3>2. Good({r})
        BY <1>1, <3>1, ClientTypesNow, ProceedStep
      <3>3. ASSUME NEW t \in Thread
            PROVE  req'[t].answer \in {req[t].answer, NoToken} \/ req'[t].answer.iat = now
        BY <1>1, <3>1, ClientTypesNow, Threads, AnswerStep
      <3> QED BY <3>2, <3>3, GoodSteps, ClientTypesNow
    <2> QED BY <2>1, <2>2, <2>3 DEF ServerStep
  <1>3. ClientTypeOK'
    BY <1>1, ClientTypesNow DEF ClientTypeOK, Fetching
  <1>4. ASSUME NEW t \in Thread PROVE FetchInv(t)' /\ UseInv(t)'
    <2>1. FetchInv(t) /\ UseInv(t) /\ now \in Nat
      BY ClientTypesNow DEF ClientInv
    <2>2. FetchInv(t)'
      BY <1>1, <1>2, <2>1 DEF FetchInv, Fetching, Doing, Fresh
    <2>3. UseInv(t)'
      BY <1>1, <2>1 DEF UseInv, Doing
    <2> QED BY <2>2, <2>3
  <1>5. ASSUME NEW c \in Code PROVE CacheInv(c)'
    BY <1>1 DEF ClientInv, CacheInv
  <1> QED BY <1>2, <1>3, <1>4, <1>5 DEF ClientInv

\* The client starts with an empty cache.
LEMMA ClientInitially == ClientInit => ClientInv
  <1> SUFFICES ASSUME ClientInit PROVE ClientInv
    OBVIOUS
  <1>1. IInv
    BY Initially DEF ClientInit
  <1>2. NoCall \in Call /\ NoCall.pc = "idle" /\ NotCached \in CachedServiceToken /\ NotCached.value = NoToken
    BY CallTypes DEF NoCall, NotCached
  <1>3. ClientTypeOK
    BY <1>2, Threads DEF ClientInit, ClientTypeOK, Fetching
  <1>4. \A t \in Thread : FetchInv(t) /\ UseInv(t)
    BY <1>2 DEF ClientInit, FetchInv, UseInv, Fetching, Doing
  <1>5. \A c \in Code : CacheInv(c)
    BY <1>2 DEF ClientInit, CacheInv
  <1> QED BY <1>1, <1>3, <1>4, <1>5 DEF ClientInv

\* Every step of server and client keeps the invariant.
LEMMA ClientNextStep ==
  ASSUME ClientInv, [ClientNext]_clientVars
  PROVE  ClientInv'
  <1>1. CASE UNCHANGED clientVars
    <2>1. UNCHANGED vars /\ UNCHANGED <<now, req, cache, cacheLock, thread>>
      BY <1>1 DEF clientVars, vars
    <2>2. IInv'
      BY <2>1, ClientTypesNow, ServerNext
    <2>3. ClientTypeOK' /\ (\A t \in Thread : FetchInv(t)' /\ UseInv(t)') /\ \A c \in Code : CacheInv(c)'
      BY <2>1 DEF ClientInv, ClientTypeOK, FetchInv, UseInv, CacheInv, Fetching, Doing, Fresh
    <2> QED BY <2>2, <2>3 DEF ClientInv
  <1>2. CASE ServerStep /\ UNCHANGED <<now, mix, client>>
    BY <1>2, ServerStepStep
  <1>3. CASE Restart \/ ClientTick
    BY <1>3, RestartStep, ClientTickStep
  <1>4. ASSUME NEW t \in Thread,
               \/ \E code \in Code : StartCall(t, code)
               \/ Acquire(t) \/ Post(t) \/ Receive(t) \/ FetchFails(t) \/ Use(t)
        PROVE  ClientInv'
    BY <1>4, StartCallStep, AcquireStep, PostStep, ReceiveStep, FetchFailsStep, UseStep
  <1> QED BY <1>1, <1>2, <1>3, <1>4 DEF ClientNext

\* No step of the client deletes or revives a row either.
LEMMA ClientGrows ==
  ASSUME ClientInv, [ClientNext]_clientVars
  PROVE  Grows
  <1>1. IInv
    BY ClientTypesNow
  <1>2. CASE UNCHANGED rows
    BY <1>1, <1>2, RowsStay
  <1>3. CASE ServerStep /\ UNCHANGED <<now, mix, client>>
    <2>1. UNCHANGED <<now, mix>>
      BY <1>3
    <2>2. CASE Create
      BY <1>1, <2>1, <2>2, CreateStep DEF Good
    <2>3. ASSUME NEW r \in Req, Administer(r) \/ Ask(r) \/ Proceed(r)
          PROVE  Grows
      BY <1>1, <2>1, <2>3, AdministerStep, AskStep, ProceedStep DEF Good
    <2> QED BY <1>3, <2>2, <2>3 DEF ServerStep
  <1>4. CASE Restart \/ ClientTick \/ UNCHANGED clientVars
    BY <1>2, <1>4 DEF Restart, ClientTick, Tick, clientVars, rows
  <1>5. ASSUME NEW t \in Thread,
               (\E code \in Code : StartCall(t, code)) \/ Acquire(t) \/ Receive(t) \/ FetchFails(t) \/ Use(t)
        PROVE  UNCHANGED rows
    BY <1>5 DEF StartCall, Acquire, Receive, FetchFails, Use, server, rows
  <1>6. ASSUME NEW t \in Thread, Post(t) PROVE UNCHANGED rows
    BY <1>6 DEF Post, StartIssue
  <1> QED BY <1>2, <1>3, <1>4, <1>5, <1>6 DEF ClientNext

-----------------------------------------------------------------------------
(* Theorems *)

\* The invariant holds without the client,
LEMMA Inductive == Spec => []IInv /\ [][Grows]_vars
  <1>1. IInv /\ [Next]_vars => IInv'
    BY ServerNext
  <1>2. IInv /\ [Next]_vars => [Grows]_vars
    BY ServerNext
  <1> QED BY <1>1, <1>2, Initially, PTL DEF Spec

\* and with it.
LEMMA ClientInductive == ClientSpec => []ClientInv /\ []IInv /\ [][Grows]_clientVars
  <1>1. ClientInv /\ [ClientNext]_clientVars => ClientInv'
    BY ClientNextStep
  <1>2. ClientInv /\ [ClientNext]_clientVars => [Grows]_clientVars
    BY ClientGrows
  <1>3. ClientInv => IInv
    BY DEF ClientInv
  <1> QED BY <1>1, <1>2, <1>3, ClientInitially, PTL DEF ClientSpec

\* Rows, requests and tokens have their types, and grants are between rows that exist,
\* with and without the threads of the client.
THEOREM TypeCorrect == (Spec => []TypeOK) /\ (ClientSpec => []TypeOK)
  <1>1. IInv => TypeOK
    BY DEF IInv
  <1> QED BY <1>1, Inductive, ClientInductive, PTL

\* The cache, its lock and the calls have their types; who fetches holds the lock.
THEOREM ClientTypes == ClientSpec => []ClientTypeOK
  <1>1. ClientInv => ClientTypeOK
    BY DEF ClientInv
  <1> QED BY <1>1, ClientInductive, PTL

\* What require_service_scope serves rests on rights that were good at most
\* TTL + Skew + 2 Stall ago, whatever disable_app, regenerate_secret, disable_scope and
\* revoke_grant did while the token was made and since.
THEOREM RightsDie == (Spec => []OldRightsDie) /\ (ClientSpec => []OldRightsDie)
  <1>1. IInv => OldRightsDie
    <2> SUFFICES ASSUME IInv, NEW t \in token, NEW c \in t.codes, Serves(t, t.aud, c, now)
                 PROVE  LET s == <<t.aud, c>>
                            g == grant[<<t.caller, s>>]
                        IN  /\ s \in Scope /\ g.status # "none" /\ g.from <= now
                            /\ g.status = "revoked" => now < g.revokedAt + Limit
                            /\ g.until # NoTime => now < g.until + Limit
                            /\ ~scope[s].enabled => now < scope[s].updatedAt + Limit
                            /\ \A a \in {t.caller, t.aud} :
                                  ~app[a].enabled => now < app[a].disabledAt + Limit
                            /\ app[t.caller].secret # t.secret => now < app[t.caller].secretAt + Limit
      BY DEF OldRightsDie
    <2> DEFINE s == <<t.aud, c>>
               g == <<t.caller, s>>
    <2>1. /\ t \in Token /\ t.iat \in Nat /\ now \in Nat /\ Stall \in Nat /\ TTL \in Nat /\ Skew \in Nat
          /\ now < t.iat + TTL + Skew
      BY Columns, ServiceAssumption DEF IInv, TypeOK, Serves, Accepts
    <2>2. Bounds(t, t.iat - Stall)
      BY DEF IInv, TokenInv
    <2>3. \A x \in Int : t.iat - Stall <= x + Stall => now < x + Limit
      BY <2>1 DEF Limit
    <2>4. s \in Scope /\ g \in Grant
      BY <2>1, <2>2, Columns DEF Bounds, GrantBounds, Grant
    <2>5. /\ grant[g].until \in Int /\ grant[g].revokedAt \in Int /\ scope[s].updatedAt \in Int
          /\ \A a \in {t.caller, t.aud} : app[a].disabledAt \in Int /\ app[a].secretAt \in Int
      BY <2>1, <2>4, Columns DEF IInv, TypeOK
    <2>6. /\ grant[g].status # "none" /\ grant[g].from <= now
          /\ grant[g].status = "revoked" => now < grant[g].revokedAt + Limit
          /\ grant[g].until # NoTime => now < grant[g].until + Limit
          /\ ~scope[s].enabled => now < scope[s].updatedAt + Limit
      <3>1. GrantBounds(t, c, t.iat - Stall)
        BY <2>2 DEF Bounds
      <3> QED BY <2>3, <2>5, <3>1 DEF GrantBounds
    <2>7. /\ ~app[t.caller].enabled => now < app[t.caller].disabledAt + Limit
          /\ app[t.caller].secret # t.secret => now < app[t.caller].secretAt + Limit
      BY <2>2, <2>3, <2>5 DEF Bounds, CallerBounds
    <2>8. ~app[t.aud].enabled => now < app[t.aud].disabledAt + Limit
      BY <2>2, <2>3, <2>5 DEF Bounds, TargetBounds
    <2> QED BY <2>4, <2>6, <2>7, <2>8
  <1> QED BY <1>1, Inductive, ClientInductive, PTL

\* A token that a thread takes from the cache or from a fetch outlives the call it is for.
THEOREM TokensOutlastCalls == ClientSpec => []TokensLast
  <1>1. ClientInv => TokensLast
    <2> SUFFICES ASSUME ClientInv, NEW t \in Thread, Doing(t, "use")
                 PROVE  now < thread[t].token.iat + TTL
      BY DEF TokensLast
    <2>1. /\ UseInv(t) /\ thread[t].token \in Token /\ thread[t].since \in Nat /\ now \in Nat
      BY ClientTypesNow, CallTypes DEF ClientInv, UseInv
    <2>2. thread[t].token.iat \in Nat /\ TTL \in Nat /\ Delay \in Nat
      BY <2>1, Columns, ServiceAssumption, ClientAssumption
    <2> QED BY <2>1, <2>2 DEF UseInv
  <1> QED BY <1>1, ClientInductive, PTL

\* Of the threads that find nothing fresh in the cache, one fetches.
THEOREM FetchesAlone == ClientSpec => []OneFetch
  <1>1. ClientInv => OneFetch
    BY ClientTypesNow DEF ClientInv, FetchInv, OneFetch
  <1> QED BY <1>1, ClientInductive, PTL

\* What an audit event says was there before is what the commit found, what it says came of
\* it is what was written, and versions of applications advance by one.
THEOREM AuditIsTrue == (Spec => AuditTells) /\ (ClientSpec => AuditTells)
  <1> DEFINE A(r) ==
        /\ CommitApp(r) => /\ AppAudit(r) = [from |-> app[req[r].row], to |-> app'[req[r].row]]
                           /\ app'[req[r].row].version = app[req[r].row].version + 1
        /\ CommitScope(r) =>
              ScopeAudit(r) = [from |-> scope[req[r].row].enabled, to |-> scope'[req[r].row].enabled]
        /\ CommitRevoke(r) =>
              GrantAudit(r) = [from |-> grant[req[r].row].status, to |-> grant'[req[r].row].status]
  <1>1. ASSUME IInv, NEW r \in Req PROVE A(r)
    <2> DEFINE x == req[r].row
    <2>1. ASSUME CommitApp(r)
          PROVE  AppAudit(r) = [from |-> app[x], to |-> app'[x]] /\ app'[x].version = app[x].version + 1
      <3>1. Committing(r, AppOp \cup {"update_app"}) /\ app' = [app EXCEPT ![x] = AppAfter(r)]
        BY <2>1 DEF CommitApp, Committing, At
      <3>2. x \in App /\ req[r].seen = app[x] /\ AppAfter(r).version = app[x].version + 1
        BY <1>1, <3>1, AppWritten
      <3>3. app'[x] = AppAfter(r)
        BY <1>1, <3>1, <3>2 DEF IInv, TypeOK
      <3> QED BY <3>2, <3>3 DEF AppAudit
    <2>2. ASSUME CommitScope(r)
          PROVE  ScopeAudit(r) = [from |-> scope[x].enabled, to |-> scope'[x].enabled]
      <3>1. /\ req[r].pc = "commit" /\ req[r].op \in ScopeOp
            /\ scope' = [scope EXCEPT ![x].enabled = req[r].op = "enable_scope", ![x].updatedAt = req[r].at]
        BY <2>2 DEF CommitScope, At
      <3>2. /\ x \in Scope /\ scope[x] \in ScopeRow /\ Applies(req[r].op, x)
        BY <1>1, <3>1 DEF IInv, TypeOK, RequestInv, ShapeInv, HoldInv, Committing, ScopeOp
      <3>3. scope'[x].enabled = (req[r].op = "enable_scope")
        BY <1>1, <3>1, <3>2 DEF IInv, TypeOK, ScopeRow
      <3>4. scope[x].enabled = (req[r].op = "disable_scope")
        BY <3>1, <3>2 DEF Applies, ScopeOp, ScopeRow
      <3> QED BY <3>3, <3>4 DEF ScopeAudit
    <2>3. ASSUME CommitRevoke(r)
          PROVE  GrantAudit(r) = [from |-> grant[x].status, to |-> grant'[x].status]
      <3>1. /\ req[r].pc = "commit" /\ req[r].op = "revoke_grant"
            /\ grant' = [grant EXCEPT ![x].status = "revoked", ![x].revokedAt = req[r].at]
        BY <2>3 DEF CommitRevoke, At
      <3>2. x \in Grant /\ grant[x] \in GrantRow /\ grant[x].status = "enabled"
        BY <1>1, <3>1 DEF IInv, TypeOK, RequestInv, ShapeInv, HoldInv, Committing, Applies
      <3>3. grant'[x].status = "revoked"
        BY <1>1, <3>1, <3>2 DEF IInv, TypeOK, GrantRow
      <3> QED BY <3>2, <3>3 DEF GrantAudit
    <2> QED BY <2>1, <2>2, <2>3
  <1>2. IInv => [\A r \in Req : A(r)]_vars
    BY <1>1
  <1> QED BY <1>2, Inductive, ClientInductive, PTL DEF AuditTells

\* Grants keep their windows, and a revocation is for good, whatever create_grant and
\* revoke_grant do at once.
THEOREM GrantsAreFinal == (Spec => GrantsFinal) /\ (ClientSpec => GrantsFinal)
  <1> DEFINE G == \A g \in Grant :
                     grant[g].status # "none" =>
                        /\ grant'[g].from = grant[g].from /\ grant'[g].until = grant[g].until
                        /\ grant[g].status = "revoked" => grant'[g] = grant[g]
  <1>1. Grows => G
    BY DEF Grows, GrantGrows
  <1>2. [Grows]_vars => [G]_vars
    BY <1>1
  <1>3. [Grows]_clientVars => [G]_vars
    BY <1>1 DEF clientVars, vars
  <1> QED BY <1>2, <1>3, Inductive, ClientInductive, PTL DEF GrantsFinal
=============================================================================
