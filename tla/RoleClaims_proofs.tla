-------------------------- MODULE RoleClaims_proofs --------------------------
(***************************************************************************)
(* Proofs about RoleClaims, for any users, sessions, roles, permissions,   *)
(* names and requests.  The invariant follows what a row looked like from  *)
(* the administrator's screen to the commit, and what a claim is worth     *)
(* from the statement that reads it to the token that carries it.          *)
(***************************************************************************)
EXTENDS RoleClaims, TLAPS

Running(r) == req[r].pc # "idle"
Deciding(r) == req[r].pc \in {"targets", "sweep", "commit"}
Writing(r) == req[r].pc \in {"sweep", "commit"}
Naming(r) == Writing(r) /\ req[r].op \in {"create", "rename"}
RowOp == RoleOp \ {"create"}

\* Which operation is at which step.
ShapeInv(r) ==
    /\ req[r].pc = "view" => req[r].op = "assign"
    /\ req[r].pc \in {"edit", "update"} => req[r].op \in {"describe", "rename", "relabel"}
    /\ req[r].pc = "insert" => req[r].op = "create"
    /\ req[r].pc = "lock" => req[r].op \in {"assign"} \cup RoleSwitch \cup PermissionSwitch
    /\ req[r].pc = "targets" => req[r].op = "assign"
    /\ req[r].pc = "sweep" => req[r].op \in Sweeping
    /\ req[r].pc = "commit" => req[r].op \in Op \ {"login", "refresh"}
    /\ req[r].pc \in {"names", "scope", "mint"} => req[r].op \in {"login", "refresh"}

\* Roles that are worked on exist, a role to be created does not yet.
TargetInv(r) ==
    /\ Running(r) /\ req[r].op \in RowOp => Exists(req[r].role)
    /\ Running(r) /\ req[r].op = "create" => ~Exists(req[r].role) /\ req[r].before = NoRole
    /\ Running(r) /\ req[r].op \in {"create", "rename"} => req[r].name \in Name

\* Past its lock a request holds the row, and its copy is as the row is.
HoldInv(r) ==
    /\ Deciding(r) /\ req[r].op \in RowOp =>
          roleLock[req[r].role] = r /\ req[r].before = role[req[r].role]
    /\ Writing(r) /\ req[r].op \notin RoleOp =>
          permLock[req[r].perm] = r /\ req[r].was = perm[req[r].perm]

\* A row of the version that was shown is the row that was shown.
SeenInv(r) ==
    /\ Running(r) /\ req[r].op \in RoleEdit =>
          /\ req[r].seenRole.version <= role[req[r].role].version
          /\ req[r].seenRole.version = role[req[r].role].version => req[r].seenRole = role[req[r].role]
          /\ req[r].pc = "update" => req[r].before = req[r].seenRole
          /\ Deciding(r) => role[req[r].role] = req[r].seenRole
    /\ Running(r) /\ req[r].op = "relabel" =>
          /\ req[r].seenPerm.version <= perm[req[r].perm].version
          /\ req[r].seenPerm.version = perm[req[r].perm].version => req[r].seenPerm = perm[req[r].perm]
          /\ req[r].pc = "update" => req[r].was = req[r].seenPerm
          /\ Writing(r) => perm[req[r].perm] = req[r].seenPerm

\* Nothing that is about to be written takes the admin role's name, switch or permission:enable.
SafeInv(r) ==
    /\ req[r].pc \in {"update", "sweep", "commit"} /\ req[r].op = "rename" => req[r].role # AdminRole
    /\ Writing(r) /\ req[r].op = "disable_role" => req[r].role # AdminRole
    /\ Writing(r) /\ req[r].op = "disable_permission" => req[r].perm # CorePermission
    /\ req[r].op = "assign" /\ req[r].role = AdminRole =>
          /\ req[r].pc = "targets" => CorePermission \in req[r].before.perms \cap req[r].effective
          /\ Writing(r) => CorePermission \in req[r].want

\* The unique index: no other row has a name that is about to be committed.
NameInv(r) == Naming(r) => \A y \in Role \ {req[r].role} : role[y].name # req[r].name

\* Claims that are being read are of a user, in a session of his; unless they are raced
\* he has all of them.
ClaimInv(r) ==
    req[r].pc \in {"names", "scope", "mint"} =>
       /\ req[r].user \in User /\ req[r].sid \in Sid
       /\ IF req[r].op = "login" THEN session[req[r].sid].state = "none"
          ELSE session[req[r].sid].state # "none" /\ session[req[r].sid].user = req[r].user
       /\ ~req[r].raced =>
             /\ req[r].pc \in {"scope", "mint"} => req[r].names \subseteq RoleNames(req[r].user)
             /\ req[r].pc = "mint" => req[r].scope \subseteq Held(req[r].user)

\* Between a sweep and its commit, no live token opens what the commit takes away.
Unhurt(r, t) ==
    /\ req[r].op \in Sweeping \cap RoleOp => req[r].role \notin member[session[t.sid].user]
    /\ req[r].op = "disable_permission" => req[r].perm \notin t.scope
WindowInv(r) ==
    req[r].pc = "commit" =>
       \A t \in tokens : session[t.sid].state = "open" /\ ~t.raced => Unhurt(r, t)

RequestInv(r) == /\ ShapeInv(r) /\ TargetInv(r) /\ HoldInv(r) /\ SeenInv(r)
                 /\ SafeInv(r) /\ NameInv(r) /\ ClaimInv(r) /\ WindowInv(r)

\* No two requests create the same role, write the same name or open the same session.
Apart(p, q) ==
    /\ Naming(p) /\ Naming(q) => req[p].name # req[q].name
    /\ Running(p) /\ Running(q) /\ req[p].op = "create" /\ req[q].op = "create" => req[p].role # req[q].role
    /\ Running(p) /\ Running(q) /\ req[p].op = "login" /\ req[q].op = "login" => req[p].sid # req[q].sid

\* A role that does not exist has no row; sessions have users, tokens have sessions.
RowInv == \A x \in Role : ~Exists(x) => role[x] = NoRole
SessionInv ==
    /\ \A s \in Sid : session[s].state # "none" => session[s].user \in User
    /\ \A t \in tokens : session[t.sid].state # "none"

IInv == /\ TypeOK /\ NamesUnique /\ RecoveryRemains /\ OutdatedOnlyByRace
        /\ RowInv /\ SessionInv
        /\ \A r \in Req : RequestInv(r)
        /\ \A p, q \in Req : p # q => Apart(p, q)
-----------------------------------------------------------------------------
(* Types *)

\* The type of each field of a request.
LEMMA Fields ==
  ASSUME NEW m \in Request
  PROVE  /\ m.pc \in Step /\ m.op \in Op \cup {"none"}
         /\ m.role \in Role /\ m.perm \in Permission /\ m.name \in Name \cup {NoName}
         /\ m.seenRole \in RoleRow /\ m.seenPerm \in PermissionRow
         /\ m.want \in SUBSET Permission /\ m.todo \in SUBSET Permission
         /\ m.before \in RoleRow /\ m.was \in PermissionRow /\ m.effective \in SUBSET Permission
         /\ m.user \in User \cup {NoUser} /\ m.sid \in Sid \cup {NoSid}
         /\ m.names \in SUBSET Name /\ m.scope \in SUBSET Permission /\ m.raced \in BOOLEAN
  BY DEF Request

\* Rows that do not exist, and idle requests, have their types.
LEMMA IdleTypes == NoRole \in RoleRow /\ NoPermission \in PermissionRow /\ Idle \in Request
  <1>1. NoRole \in RoleRow /\ NoPermission \in PermissionRow
    BY DEF NoRole, NoPermission, RoleRow, PermissionRow
  <1>2. AdminRole \in Role /\ CorePermission \in Permission
    BY ClaimsAssumption
  <1> QED BY <1>1, <1>2 DEF Idle, Request, Step

\* What the queries of _build_claims return
LEMMA ClaimTypes ==
  ASSUME IInv, NEW u \in User
  PROVE  RoleNames(u) \subseteq Name /\ Held(u) \subseteq Permission
  <1>1. ASSUME NEW x \in member[u], role[x].enabled PROVE role[x].name \in Name
    <2>1. x \in Role /\ role[x] \in RoleRow
      BY DEF IInv, TypeOK
    <2>2. Exists(x)
      BY <1>1, <2>1 DEF IInv, RowInv, NoRole
    <2> QED BY <2>1, <2>2 DEF RoleRow, Exists
  <1> QED BY <1>1 DEF RoleNames, Held

-----------------------------------------------------------------------------
(* What a step of one request leaves to the others *)

\* The record is as it was, but for what it may have been told of a race.
Still(q) ==
    /\ req'[q].pc = req[q].pc /\ req'[q].op = req[q].op
    /\ req'[q].role = req[q].role /\ req'[q].perm = req[q].perm /\ req'[q].name = req[q].name
    /\ req'[q].seenRole = req[q].seenRole /\ req'[q].seenPerm = req[q].seenPerm
    /\ req'[q].want = req[q].want /\ req'[q].effective = req[q].effective
    /\ req'[q].before = req[q].before /\ req'[q].was = req[q].was
    /\ req'[q].user = req[q].user /\ req'[q].sid = req[q].sid
    /\ req'[q].names = req[q].names /\ req'[q].scope = req[q].scope
    /\ req[q].raced => req'[q].raced

KeptRoles(q) ==
    /\ \A x \in Role : roleLock[x] = q => roleLock'[x] = q /\ (Exists(x) => role'[x] = role[x])
    /\ \A x \in Role : Exists(x) => Exists(x)'
    /\ \A x \in Role : /\ role[x].version <= role'[x].version
                       /\ role'[x].version = role[x].version => role'[x] = role[x]
    /\ Running(q) /\ req[q].op = "create" => role'[req[q].role] = role[req[q].role]
    /\ Naming(q) => \A y \in Role : role'[y].name = role[y].name \/ role'[y].name # req[q].name
KeptPermissions(q) ==
    /\ \A p \in Permission : permLock[p] = q => permLock'[p] = q /\ perm'[p] = perm[p]
    /\ \A p \in Permission : /\ perm[p].version <= perm'[p].version
                             /\ perm'[p].version = perm[p].version => perm'[p] = perm[p]
KeptClaims(q) ==
    /\ \A s \in Sid : session[s].state # "none" =>
                         session'[s].state # "none" /\ session'[s].user = session[s].user
    /\ Running(q) /\ req[q].op = "login" => session'[req[q].sid].state = session[req[q].sid].state
    /\ ~req'[q].raced /\ req[q].pc \in {"scope", "mint"} =>
          /\ req[q].names \subseteq RoleNames(req[q].user) => req[q].names \subseteq RoleNames(req[q].user)'
          /\ req[q].scope \subseteq Held(req[q].user) => req[q].scope \subseteq Held(req[q].user)'
    /\ \A t \in tokens' : session'[t.sid].state = "open" /\ ~t.raced =>
          \/ t \in tokens /\ session[t.sid].state = "open"
          \/ req[q].pc = "commit" => Unhurt(q, t)'
    /\ member' = member
Kept(q) == Still(q) /\ KeptRoles(q) /\ KeptPermissions(q) /\ KeptClaims(q)

\* What is kept is all that a request relies on.
LEMMA Others ==
  ASSUME IInv, TypeOK', NEW q \in Req, Kept(q)
  PROVE  RequestInv(q)'
  <1>0. RequestInv(q) /\ req[q] \in Request
    BY DEF IInv, TypeOK
  <1>1. req[q].role \in Role /\ req[q].perm \in Permission
    BY <1>0, Fields
  <1> USE DEF Kept, Still, RequestInv, Running, Deciding, Writing, Naming
  <1>2. ShapeInv(q)'
    BY <1>0 DEF ShapeInv
  <1>3. TargetInv(q)'
    BY <1>0, <1>1 DEF TargetInv, KeptRoles, Exists
  <1>4. HoldInv(q)'
    BY <1>0, <1>1 DEF HoldInv, TargetInv, KeptRoles, KeptPermissions
  <1>5. SeenInv(q)'
    <2>1. /\ role[req[q].role].version \in Nat /\ role'[req[q].role].version \in Nat
          /\ perm[req[q].perm].version \in Nat /\ perm'[req[q].perm].version \in Nat
          /\ req[q].seenRole.version \in Nat /\ req[q].seenPerm.version \in Nat
      BY <1>0, <1>1 DEF IInv, TypeOK, Request, RoleRow, PermissionRow
    <2>2. ASSUME NEW x \in Role, x = req[q].role, Running(q), req[q].op \in RoleEdit
          PROVE  /\ req[q].seenRole.version <= role'[x].version
                 /\ req[q].seenRole.version = role'[x].version => req[q].seenRole = role'[x]
                 /\ Deciding(q) => role'[x] = req[q].seenRole
      <3>1. role'[x].version = role[x].version => role'[x] = role[x]
        BY DEF KeptRoles
      <3>2. req[q].seenRole.version <= role[x].version /\ role[x].version <= role'[x].version
        BY <1>0, <2>2 DEF SeenInv, KeptRoles
      <3>3. req[q].seenRole.version = role[x].version => req[q].seenRole = role[x]
        BY <1>0, <2>2 DEF SeenInv
      <3>4. Deciding(q) => role[x] = req[q].seenRole /\ role'[x] = role[x]
        BY <1>0, <2>2 DEF SeenInv, HoldInv, TargetInv, KeptRoles, RowOp, RoleOp, RoleEdit
      <3> QED BY <2>1, <2>2, <3>1, <3>2, <3>3, <3>4
    <2>3. ASSUME NEW p \in Permission, p = req[q].perm, Running(q), req[q].op = "relabel"
          PROVE  /\ req[q].seenPerm.version <= perm'[p].version
                 /\ req[q].seenPerm.version = perm'[p].version => req[q].seenPerm = perm'[p]
                 /\ Writing(q) => perm'[p] = req[q].seenPerm
      <3>1. perm'[p].version = perm[p].version => perm'[p] = perm[p]
        BY DEF KeptPermissions
      <3>2. req[q].seenPerm.version <= perm[p].version /\ perm[p].version <= perm'[p].version
        BY <1>0, <2>3 DEF SeenInv, KeptPermissions
      <3>3. req[q].seenPerm.version = perm[p].version => req[q].seenPerm = perm[p]
        BY <1>0, <2>3 DEF SeenInv
      <3>4. Writing(q) => perm[p] = req[q].seenPerm /\ perm'[p] = perm[p]
        BY <1>0, <2>3 DEF SeenInv, HoldInv, KeptPermissions, RoleOp, RoleEdit, RoleSwitch
      <3> QED BY <2>1, <2>3, <3>1, <3>2, <3>3, <3>4
    <2> QED BY <1>0, <1>1, <2>2, <2>3 DEF SeenInv
  <1>6. SafeInv(q)'
    BY <1>0 DEF SafeInv
  <1>7. NameInv(q)'
    BY <1>0 DEF NameInv, KeptRoles
  <1>8. ClaimInv(q)'
    BY <1>0 DEF ClaimInv, KeptClaims, ShapeInv, RoleNames, Held
  <1>9. WindowInv(q)'
    BY <1>0 DEF WindowInv, KeptClaims, Unhurt, IInv, SessionInv, TypeOK, Token
  <1> QED BY <1>2, <1>3, <1>4, <1>5, <1>6, <1>7, <1>8, <1>9

\* One request goes on, the others keep what they rely on.
LEMMA StepInv ==
  ASSUME IInv, NEW r \in Req, TypeOK', NamesUnique', RecoveryRemains', OutdatedOnlyByRace', RowInv', SessionInv',
         RequestInv(r)', \A q \in Req \ {r} : Kept(q) /\ Apart(r, q)'
  PROVE  IInv'
  <1>1. \A q \in Req : RequestInv(q)'
    BY Others
  <1>2. \A p, q \in Req : p # q => Apart(p, q)'
    <2>1. ASSUME NEW p \in Req \ {r}, NEW q \in Req \ {r}, p # q PROVE Apart(p, q)'
      BY <2>1 DEF IInv, Apart, Kept, Still, Running, Writing, Naming
    <2>2. ASSUME NEW q \in Req \ {r} PROVE Apart(q, r)'
      <3>1. Apart(r, q)'
        OBVIOUS
      <3> QED BY <3>1 DEF Apart
    <2> QED BY <2>1, <2>2
  <1> QED BY <1>1, <1>2 DEF IInv

\* The requests' records change in one place.
LEMMA OneRecord ==
  ASSUME TypeOK, NEW r \in Req, NEW m \in Request, req' = [req EXCEPT ![r] = m]
  PROVE  req' \in [Req -> Request] /\ req'[r] = m /\ \A q \in Req \ {r} : req'[q] = req[q]
  BY DEF TypeOK

\* A request that changes no row, session or token, and takes no lock of another's, leaves everything as it was.
LEMMA QuietInv ==
  ASSUME IInv, NEW r \in Req, NEW m \in Request, req' = [req EXCEPT ![r] = m], UNCHANGED <<rows, claims>>,
         roleLock' \in [Role -> Req \cup {NoReq}], permLock' \in [Permission -> Req \cup {NoReq}],
         \A q \in Req \ {r}, x \in Role : roleLock[x] = q => roleLock'[x] = q,
         \A q \in Req \ {r}, p \in Permission : permLock[p] = q => permLock'[p] = q,
         RequestInv(r)', \A q \in Req \ {r} : Apart(r, q)'
  PROVE  IInv'
  <1>1. req' \in [Req -> Request] /\ \A q \in Req \ {r} : req'[q] = req[q]
    BY OneRecord DEF IInv
  <1>2. role' = role /\ perm' = perm /\ member' = member /\ mix' = mix /\ session' = session /\ tokens' = tokens
    BY DEF rows, claims
  <1>3. TypeOK'
    BY <1>1, <1>2 DEF IInv, TypeOK
  <1>4. NamesUnique' /\ RecoveryRemains' /\ OutdatedOnlyByRace' /\ RowInv' /\ SessionInv'
    BY <1>2 DEF IInv, NamesUnique, RecoveryRemains, OutdatedOnlyByRace, RowInv, SessionInv, Exists, Effective, Held,
       RoleNames
  <1>5. ASSUME NEW q \in Req \ {r} PROVE Kept(q)
    <2>1. Still(q)
      BY <1>1 DEF Still
    <2>2. \A x \in Role : role[x].version \in Nat
      BY DEF IInv, TypeOK, RoleRow
    <2>3. \A p \in Permission : perm[p].version \in Nat
      BY DEF IInv, TypeOK, PermissionRow
    <2>4. KeptRoles(q)
      BY <1>2, <2>2 DEF KeptRoles, Exists
    <2>5. KeptPermissions(q)
      BY <1>2, <2>3 DEF KeptPermissions
    <2>6. KeptClaims(q)
      BY <1>1, <1>2 DEF KeptClaims, RoleNames, Held, Effective
    <2> QED BY <2>1, <2>4, <2>5, <2>6 DEF Kept
  <1> QED BY <1>3, <1>4, <1>5, StepInv

\* The end of a transaction takes no lock from anybody else.
LEMMA ReleaseTypes ==
  ASSUME TypeOK, NEW r \in Req, Release(r)
  PROVE  /\ roleLock' \in [Role -> Req \cup {NoReq}] /\ permLock' \in [Permission -> Req \cup {NoReq}]
         /\ \A q \in Req \ {r}, x \in Role : roleLock[x] = q => roleLock'[x] = q
         /\ \A q \in Req \ {r}, p \in Permission : permLock[p] = q => permLock'[p] = q
  BY DEF TypeOK, Release, Without

\* A request that has ended relies on nothing and stands in nobody's way.
LEMMA IdleInv ==
  ASSUME NEW r \in Req, req'[r].pc = "idle", req'[r].op = "none"
  PROVE  RequestInv(r)' /\ \A q \in Req \ {r} : Apart(r, q)'
  <1>1. (ShapeInv(r) /\ TargetInv(r) /\ HoldInv(r))'
    BY DEF ShapeInv, TargetInv, HoldInv, Running, Deciding, Writing
  <1>2. (SeenInv(r) /\ SafeInv(r) /\ NameInv(r))'
    BY DEF SeenInv, SafeInv, NameInv, Running, Deciding, Writing, Naming
  <1>3. (ClaimInv(r) /\ WindowInv(r))'
    BY DEF ClaimInv, WindowInv
  <1>4. \A q \in Req \ {r} : Apart(r, q)'
    BY DEF Apart, Running, Writing, Naming
  <1> QED BY <1>1, <1>2, <1>3, <1>4 DEF RequestInv

\* A failed request gives back its locks and leaves nothing but markers.
LEMMA RollbackInv ==
  ASSUME IInv, NEW r \in Req, Rollback(r)
  PROVE  IInv'
  <1>1. req' = [req EXCEPT ![r] = Idle] /\ Release(r) /\ UNCHANGED <<rows, claims>>
    BY DEF Rollback
  <1>2. req'[r].pc = "idle" /\ req'[r].op = "none"
    BY <1>1 DEF IInv, TypeOK, Idle
  <1>3. TypeOK
    BY DEF IInv
  <1> QED BY <1>1, <1>2, <1>3, IdleTypes, IdleInv, ReleaseTypes, QuietInv

\* A request goes on with what it is about.
LEMMA GoOnInv ==
  ASSUME IInv, NEW r \in Req, Running(r), NEW m \in Request, req' = [req EXCEPT ![r] = m],
         m.pc # "idle", m.op = req[r].op, m.role = req[r].role, m.name = req[r].name, m.sid = req[r].sid,
         UNCHANGED <<rows, claims>>,
         m.pc \in {"sweep", "commit"} /\ m.op \in {"create", "rename"} =>
            Naming(r) \/ \A q \in Req \ {r} : Naming(q) => req[q].name # m.name,
         roleLock' \in [Role -> Req \cup {NoReq}], permLock' \in [Permission -> Req \cup {NoReq}],
         \A q \in Req \ {r}, x \in Role : roleLock[x] = q => roleLock'[x] = q,
         \A q \in Req \ {r}, p \in Permission : permLock[p] = q => permLock'[p] = q,
         RequestInv(r)'
  PROVE  IInv'
  <1>1. req'[r] = m /\ \A q \in Req \ {r} : req'[q] = req[q]
    BY OneRecord DEF IInv
  <1>2. \A q \in Req \ {r} : Apart(r, q)
    BY DEF IInv
  <1>3. \A q \in Req \ {r} : Apart(r, q)'
    BY <1>1, <1>2 DEF Apart, Running, Writing, Naming
  <1> QED BY <1>3, QuietInv

\* Taking a free lock, too.
LEMMA LockTypes ==
  ASSUME TypeOK, NEW r \in Req
  PROVE  /\ \A x \in Role : Free(roleLock, x, r) /\ roleLock' = [roleLock EXCEPT ![x] = r] =>
               /\ roleLock' \in [Role -> Req \cup {NoReq}] /\ roleLock'[x] = r
               /\ \A q \in Req \ {r}, y \in Role : roleLock[y] = q => roleLock'[y] = q
         /\ \A x \in Permission : Free(permLock, x, r) /\ permLock' = [permLock EXCEPT ![x] = r] =>
               /\ permLock' \in [Permission -> Req \cup {NoReq}] /\ permLock'[x] = r
               /\ \A q \in Req \ {r}, y \in Permission : permLock[y] = q => permLock'[y] = q
         /\ UNCHANGED roleLock =>
               /\ roleLock' \in [Role -> Req \cup {NoReq}]
               /\ \A q \in Req \ {r}, y \in Role : roleLock[y] = q => roleLock'[y] = q
         /\ UNCHANGED permLock =>
               /\ permLock' \in [Permission -> Req \cup {NoReq}]
               /\ \A q \in Req \ {r}, y \in Permission : permLock[y] = q => permLock'[y] = q
  BY ClaimsAssumption DEF TypeOK, Free

-----------------------------------------------------------------------------
(* Requests that begin *)

\* A new request has written nothing and holds nothing; its role and its session are its own.
LEMMA BegunInv ==
  ASSUME IInv, NEW r \in Req, NEW m \in Request, req' = [req EXCEPT ![r] = m], UNCHANGED <<rows, locks, claims>>,
         m.pc \notin {"idle", "sweep", "commit"}, RequestInv(r)',
         m.op = "create" => \A q \in Req : req[q].op = "create" => req[q].role # m.role,
         m.op = "login" => \A q \in Req : req[q].sid # m.sid
  PROVE  IInv'
  <1>1. req'[r] = m /\ \A q \in Req \ {r} : req'[q] = req[q]
    BY OneRecord DEF IInv
  <1>2. \A q \in Req \ {r} : Apart(r, q)'
    BY <1>1 DEF Apart, Running, Writing, Naming
  <1>3. UNCHANGED <<rows, claims>> /\ UNCHANGED roleLock /\ UNCHANGED permLock /\ TypeOK
    BY DEF locks, IInv
  <1> QED BY <1>2, <1>3, LockTypes, QuietInv

\* What ViewRole shows is the committed row.
LEMMA ViewRoleInv ==
  ASSUME IInv, NEW r \in Req, NEW x \in Role, ViewRole(r, x)
  PROVE  IInv'
  <1>1. PICK op \in mix \cap RoleEdit, n \in Name :
           Begin(r, [Call(op, IF op = "assign" THEN "view" ELSE "edit") EXCEPT
                       !.role = x, !.name = IF op = "rename" THEN n ELSE NoName, !.seenRole = role[x]])
    BY DEF ViewRole
  <1> DEFINE step == IF op = "assign" THEN "view" ELSE "edit"
             name == IF op = "rename" THEN n ELSE NoName
             m == [Call(op, step) EXCEPT !.role = x, !.name = name, !.seenRole = role[x]]
  <1>2. /\ op \in RoleEdit \cap Op /\ step \in Step /\ name \in Name \cup {NoName} /\ role[x] \in RoleRow
        /\ step = "view" => op = "assign"
        /\ step # "view" => step = "edit" /\ op \in {"describe", "rename"}
        /\ op = "rename" => name \in Name
    BY DEF RoleEdit, Op, Versioned, Step, IInv, TypeOK
  <1>3. req' = [req EXCEPT ![r] = m] /\ UNCHANGED <<rows, locks, claims>> /\ x \in Listed
    BY <1>1 DEF Begin, ViewRole
  <1> HIDE DEF step, name
  <1>4. m \in Request /\ m.pc = step /\ m.op = op /\ m.role = x /\ m.name = name /\ m.seenRole = role[x]
    BY <1>2, IdleTypes DEF Call, Request
  <1> HIDE DEF m
  <1>5. req'[r] = m /\ role' = role
    BY <1>3, <1>4, OneRecord DEF IInv, rows
  <1>6. role[x].version \in Nat /\ Exists(x)
    BY <1>2, <1>3 DEF RoleRow, Listed
  <1>7. (ShapeInv(r) /\ TargetInv(r) /\ HoldInv(r))'
    BY <1>2, <1>4, <1>5, <1>6 DEF ShapeInv, TargetInv, HoldInv, Deciding, Writing, RoleEdit, Exists
  <1>8. (SeenInv(r) /\ SafeInv(r) /\ NameInv(r))'
    BY <1>2, <1>4, <1>5, <1>6 DEF SeenInv, SafeInv, NameInv, Deciding, Writing, Naming, RoleEdit
  <1>9. (ClaimInv(r) /\ WindowInv(r))'
    BY <1>2, <1>4, <1>5 DEF ClaimInv, WindowInv
  <1>10. m.pc \notin {"idle", "sweep", "commit"} /\ m.op \notin {"create", "login"}
    BY <1>2, <1>4 DEF RoleEdit
  <1>11. RequestInv(r)'
    BY <1>7, <1>8, <1>9 DEF RequestInv
  <1> QED BY <1>3, <1>4, <1>10, <1>11, BegunInv

\* What ViewPermission shows is the committed row.
LEMMA ViewPermissionInv ==
  ASSUME IInv, NEW r \in Req, NEW p \in Permission, ViewPermission(r, p)
  PROVE  IInv'
  <1> DEFINE m == [Call("relabel", "edit") EXCEPT !.perm = p, !.seenPerm = perm[p]]
  <1>1. perm[p] \in PermissionRow /\ "relabel" \in Op /\ "edit" \in Step
    BY DEF IInv, TypeOK, Op, Versioned, Step
  <1>2. m \in Request /\ m.pc = "edit" /\ m.op = "relabel" /\ m.perm = p /\ m.seenPerm = perm[p]
    BY <1>1, IdleTypes DEF Call, Request
  <1>3. req' = [req EXCEPT ![r] = m] /\ UNCHANGED <<rows, locks, claims>>
    BY DEF Begin, ViewPermission
  <1> HIDE DEF m
  <1>4. req'[r] = m /\ perm' = perm
    BY <1>2, <1>3, OneRecord DEF IInv, rows
  <1>5. perm[p].version \in Nat
    BY <1>1 DEF PermissionRow
  <1>6. RequestInv(r)'
    BY <1>2, <1>4, <1>5 DEF RequestInv, ShapeInv, TargetInv, HoldInv, SeenInv, SafeInv, NameInv, ClaimInv, WindowInv,
       Deciding, Writing, Naming, RoleEdit, RoleSwitch, RoleOp, RowOp
  <1> QED BY <1>2, <1>3, <1>6, BegunInv

\* create_role begins after its look for the name.
LEMMA StartCreateInv ==
  ASSUME IInv, NEW r \in Req, NEW x \in Role, StartCreate(r, x)
  PROVE  IInv'
  <1>1. PICK n \in Name : Begin(r, [Call("create", "insert") EXCEPT !.role = x, !.name = n])
    BY DEF StartCreate
  <1> DEFINE m == [Call("create", "insert") EXCEPT !.role = x, !.name = n]
  <1>2. "create" \in Op /\ "insert" \in Step
    BY DEF Op, Step
  <1>3. m \in Request /\ m.pc = "insert" /\ m.op = "create" /\ m.role = x /\ m.name = n /\ m.before = NoRole
    BY <1>2, IdleTypes DEF Call, Request, Idle
  <1>4. req' = [req EXCEPT ![r] = m] /\ UNCHANGED <<rows, locks, claims>> /\ ~Exists(x)
        /\ \A q \in Req : req[q].op = "create" => req[q].role # x
    BY <1>1 DEF Begin, StartCreate
  <1> HIDE DEF m
  <1>5. req'[r] = m /\ role' = role
    BY <1>3, <1>4, OneRecord DEF IInv, rows
  <1>6. RequestInv(r)'
    BY <1>3, <1>4, <1>5 DEF RequestInv, ShapeInv, TargetInv, HoldInv, SeenInv, SafeInv, NameInv, ClaimInv, WindowInv,
       Deciding, Writing, Naming, RoleEdit, RoleSwitch, RoleOp, RowOp, Exists
  <1> QED BY <1>3, <1>4, <1>6, BegunInv

\* disable_role, enable_role and the switches of permissions begin.
LEMMA StartSwitchInv ==
  ASSUME IInv, NEW r \in Req,
         \/ \E x \in Role : StartRoleSwitch(r, x)
         \/ \E p \in Permission : StartPermissionSwitch(r, p)
  PROVE  IInv'
  <1>1. PICK x \in Role, p \in Permission, op \in RoleSwitch \cup PermissionSwitch :
           /\ req' = [req EXCEPT ![r] = IF op \in RoleSwitch THEN [Call(op, "lock") EXCEPT !.role = x]
                                        ELSE [Call(op, "lock") EXCEPT !.perm = p]]
           /\ op \in RoleSwitch => Exists(x)
           /\ UNCHANGED <<rows, locks, claims>>
    <2>1. CASE \E x \in Role : StartRoleSwitch(r, x)
      <3>1. PICK x \in Role : StartRoleSwitch(r, x)
        BY <2>1
      <3>2. PICK op \in RoleSwitch : req' = [req EXCEPT ![r] = [Call(op, "lock") EXCEPT !.role = x]]
        BY <3>1 DEF StartRoleSwitch, Begin
      <3> QED BY <3>1, <3>2, ClaimsAssumption DEF StartRoleSwitch
    <2>2. CASE \E p \in Permission : StartPermissionSwitch(r, p)
      <3>1. PICK p \in Permission : StartPermissionSwitch(r, p)
        BY <2>2
      <3>2. PICK op \in PermissionSwitch : req' = [req EXCEPT ![r] = [Call(op, "lock") EXCEPT !.perm = p]]
        BY <3>1 DEF StartPermissionSwitch, Begin
      <3>3. op \notin RoleSwitch
        BY DEF RoleSwitch, PermissionSwitch
      <3> QED BY <3>1, <3>2, <3>3, ClaimsAssumption DEF StartPermissionSwitch
    <2> QED BY <2>1, <2>2
  <1> DEFINE m == IF op \in RoleSwitch THEN [Call(op, "lock") EXCEPT !.role = x]
                  ELSE [Call(op, "lock") EXCEPT !.perm = p]
  <1>2. op \in Op /\ "lock" \in Step
    BY DEF Op, Step
  <1>3. m \in Request /\ m.pc = "lock" /\ m.op = op /\ (op \in RoleSwitch => m.role = x)
    BY <1>2, IdleTypes DEF Call, Request
  <1>4. req' = [req EXCEPT ![r] = m] /\ UNCHANGED <<rows, locks, claims>> /\ (op \in RoleSwitch => Exists(x))
    BY <1>1
  <1> HIDE DEF m
  <1>5. req'[r] = m /\ role' = role
    BY <1>3, <1>4, OneRecord DEF IInv, rows
  <1>6. RequestInv(r)'
    BY <1>3, <1>4, <1>5 DEF RequestInv, ShapeInv, TargetInv, HoldInv, SeenInv, SafeInv, NameInv, ClaimInv, WindowInv,
       Deciding, Writing, Naming, RoleEdit, RoleSwitch, PermissionSwitch, RoleOp, RowOp, Exists
  <1>7. op \notin {"create", "login"}
    BY DEF RoleSwitch, PermissionSwitch
  <1> QED BY <1>3, <1>4, <1>6, <1>7, BegunInv

\* A login or a refresh begins with nothing read.
LEMMA StartClaimsInv ==
  ASSUME IInv, NEW r \in Req, NEW s \in Sid, StartRefresh(r, s) \/ \E u \in User : StartLogin(r, u, s)
  PROVE  IInv'
  <1>1. PICK u \in User, op \in {"login", "refresh"} :
           /\ req' = [req EXCEPT ![r] = [Call(op, "names") EXCEPT !.user = u, !.sid = s]]
           /\ op = "login" => session[s].state = "none" /\ \A q \in Req : req[q].sid # s
           /\ op = "refresh" => session[s].state # "none" /\ session[s].user = u
           /\ UNCHANGED <<rows, locks, claims>>
    <2>1. CASE StartRefresh(r, s)
      <3>1. session[s].state = "open" /\ session[s].user \in User
        BY <2>1 DEF StartRefresh, IInv, SessionInv
      <3> QED BY <2>1, <3>1 DEF StartRefresh, Begin
    <2>2. CASE \E u \in User : StartLogin(r, u, s)
      BY <2>2 DEF StartLogin, Begin
    <2> QED BY <2>1, <2>2
  <1> DEFINE m == [Call(op, "names") EXCEPT !.user = u, !.sid = s]
  <1>2. op \in Op /\ "names" \in Step
    BY DEF Op, Step
  <1>3. m \in Request /\ m.pc = "names" /\ m.op = op /\ m.user = u /\ m.sid = s
    BY <1>2, IdleTypes DEF Call, Request
  <1>4. req' = [req EXCEPT ![r] = m] /\ UNCHANGED <<rows, locks, claims>>
    BY <1>1
  <1> HIDE DEF m
  <1>5. req'[r] = m /\ session' = session
    BY <1>3, <1>4, OneRecord DEF IInv, claims
  <1>6. RequestInv(r)'
    BY <1>1, <1>3, <1>5 DEF RequestInv, ShapeInv, TargetInv, HoldInv, SeenInv, SafeInv, NameInv, ClaimInv, WindowInv,
       Deciding, Writing, Naming, RoleEdit, RoleSwitch, RoleOp, RowOp
  <1> QED BY <1>1, <1>3, <1>4, <1>6, BegunInv

-----------------------------------------------------------------------------
(* Requests that go on *)

\* The second statement of the role permissions page changes its own request only.
LEMMA ViewPermissionsInv ==
  ASSUME IInv, NEW r \in Req, ViewPermissions(r)
  PROVE  IInv'
  <1> DEFINE x == req[r].role
             perms == role[x].perms
             seen == [req[r].seenRole EXCEPT !.perms = perms]
  <1>1. req[r] \in Request /\ x \in Role /\ role[x] \in RoleRow /\ RequestInv(r)
    BY Fields DEF IInv, TypeOK
  <1>2. req[r].pc = "view" /\ req[r].op = "assign" /\ UNCHANGED <<rows, locks, claims>>
    BY <1>1 DEF ViewPermissions, At, RequestInv, ShapeInv
  <1>3. PICK want \in SUBSET Permission :
           req' = [req EXCEPT ![r].pc = "lock", ![r].want = want, ![r].todo = want, ![r].seenRole.perms = perms]
    BY DEF ViewPermissions
  <1> DEFINE m == [req[r] EXCEPT !.pc = "lock", !.want = want, !.todo = want, !.seenRole = seen]
  <1>4. req' = [req EXCEPT ![r] = m]
    <2>1. req \in [Req -> Request]
      BY DEF IInv, TypeOK
    <2>2. \A q \in Req \ {r} : req'[q] = req[q]
      BY <1>3, <2>1
    <2>3. req'[r] = m
      BY <1>1, <1>3, <2>1 DEF Request
    <2>4. DOMAIN req' = Req
      BY <1>3, <2>1
    <2>5. req' = [q \in Req |-> req'[q]]
      BY <1>3, <2>1
    <2> HIDE DEF m
    <2> QED BY <2>1, <2>2, <2>3, <2>5
  <1>5. perms \in SUBSET Permission /\ "lock" \in Step
    BY <1>1 DEF RoleRow, Step
  <1> HIDE DEF perms
  <1>6. /\ m \in Request /\ m.pc = "lock" /\ m.op = "assign" /\ m.role = x /\ m.name = req[r].name
        /\ m.sid = req[r].sid /\ m.seenRole = [req[r].seenRole EXCEPT !.perms = perms]
    BY <1>1, <1>2, <1>5 DEF Request, RoleRow
  <1> HIDE DEF m
  <1>7. /\ req[r].seenRole \in RoleRow
        /\ req[r].seenRole.version <= role[x].version
        /\ req[r].seenRole.version = role[x].version => req[r].seenRole = role[x]
        /\ Exists(x)
    BY <1>1, <1>2, Fields DEF RequestInv, SeenInv, TargetInv, Running, RoleEdit, RowOp, RoleOp
  <1>8. /\ m.seenRole.version <= role[x].version
        /\ m.seenRole.version = role[x].version => m.seenRole = role[x]
    BY <1>1, <1>6, <1>7 DEF RoleRow, perms
  <1>9. req'[r] = m /\ role' = role
    BY <1>2, <1>4, <1>6, OneRecord DEF IInv, rows
  <1>10. RequestInv(r)'
    BY <1>6, <1>7, <1>8, <1>9 DEF RequestInv, ShapeInv, TargetInv, HoldInv, SeenInv, SafeInv, NameInv, ClaimInv,
       WindowInv, Running, Deciding, Writing, Naming, Exists
  <1>11. UNCHANGED <<rows, claims>> /\ UNCHANGED roleLock /\ UNCHANGED permLock /\ TypeOK /\ Running(r)
    BY <1>2 DEF locks, IInv, Running
  <1> QED BY <1>2, <1>4, <1>6, <1>10, <1>11, LockTypes, GoOnInv

\* update_role goes on only with the row of the version that was shown, and never with the admin's name.
LEMMA CheckRoleInv ==
  ASSUME IInv, NEW r \in Req, CheckRole(r)
  PROVE  IInv'
  <1> DEFINE x == req[r].role
             row == role[x]
             m == [req[r] EXCEPT !.pc = "update", !.before = row]
  <1>1. CASE Rollback(r)
    BY <1>1, RollbackInv
  <1>2. CASE /\ row.version = req[r].seenRole.version
             /\ req[r].op = "rename" => row.name \notin {req[r].name, AdminName}
             /\ req' = [req EXCEPT ![r].pc = "update", ![r].before = row]
             /\ UNCHANGED <<rows, locks, claims>>
    <2>1. req[r] \in Request /\ x \in Role /\ row \in RoleRow /\ RequestInv(r) /\ "update" \in Step
      BY Fields DEF IInv, TypeOK, Step
    <2>2. req[r].pc = "edit" /\ req[r].op \in {"describe", "rename"}
      BY <2>1 DEF CheckRole, At, RequestInv, ShapeInv
    <2>3. req' = [req EXCEPT ![r] = m]
      BY <1>2 DEF IInv, TypeOK
    <2> HIDE DEF row
    <2>4. /\ m \in Request /\ m.pc = "update" /\ m.op = req[r].op /\ m.role = x /\ m.name = req[r].name
          /\ m.sid = req[r].sid /\ m.seenRole = req[r].seenRole /\ m.before = row
      BY <2>1 DEF Request
    <2> HIDE DEF m
    <2>5. req[r].seenRole = row /\ Exists(x) /\ (req[r].op = "rename" => req[r].name \in Name) /\ row.version \in Nat
      BY <1>2, <2>1, <2>2 DEF RequestInv, SeenInv, TargetInv, Running, RoleEdit, RowOp, RoleOp, RoleRow, row
    <2>6. req[r].op = "rename" => x # AdminRole
      BY <1>2 DEF IInv, RecoveryRemains, row
    <2>7. req'[r] = m /\ role' = role
      BY <1>2, <2>3, <2>4, OneRecord DEF IInv, rows
    <2>8. RequestInv(r)'
      BY <2>2, <2>4, <2>5, <2>6, <2>7 DEF RequestInv, ShapeInv, TargetInv, HoldInv, SeenInv, SafeInv, NameInv, ClaimInv,
         WindowInv, Running, Deciding, Writing, Naming, Exists, row
    <2>9. UNCHANGED <<rows, claims>> /\ UNCHANGED roleLock /\ UNCHANGED permLock /\ TypeOK /\ Running(r)
      BY <1>2, <2>2 DEF locks, IInv, Running
    <2> QED BY <2>3, <2>4, <2>8, <2>9, LockTypes, GoOnInv
  <1> QED BY <1>1, <1>2 DEF CheckRole

\* A name that is free, and that nobody is about to commit, may be written.
LEMMA NameIsFree ==
  ASSUME NEW r \in Req, NameFree(r)
  PROVE  \A q \in Req \ {r} : Naming(q) => req[q].name # req[r].name
  BY DEF NameFree, Contends, Naming, Writing

\* Its UPDATE compares the version again, with the row locked.
LEMMA UpdateRoleInv ==
  ASSUME IInv, NEW r \in Req, UpdateRole(r)
  PROVE  IInv'
  <1> DEFINE x == req[r].role
             step == IF req[r].op = "rename" THEN "sweep" ELSE "commit"
             m == [req[r] EXCEPT !.pc = step]
  <1>1. CASE Rollback(r)
    BY <1>1, RollbackInv
  <1>2. CASE ~Rollback(r)
    <2>1. req[r] \in Request /\ x \in Role /\ role[x] \in RoleRow /\ RequestInv(r) /\ step \in Step
      BY Fields DEF IInv, TypeOK, Step
    <2>2. req[r].pc = "update" /\ req[r].op \in {"describe", "rename"}
      BY <2>1 DEF UpdateRole, At, RequestInv, ShapeInv
    <2>3. /\ Free(roleLock, x, r) /\ roleLock' = [roleLock EXCEPT ![x] = r]
          /\ role[x].version = req[r].seenRole.version
          /\ req[r].op = "rename" => NameFree(r) /\ ~NameTaken(x, req[r].name)
          /\ req' = [req EXCEPT ![r] = m]
          /\ UNCHANGED <<rows, permLock, claims>>
      BY <1>2 DEF UpdateRole
    <2> HIDE DEF step
    <2>4. /\ m \in Request /\ m.pc = step /\ m.op = req[r].op /\ m.role = x /\ m.name = req[r].name
          /\ m.sid = req[r].sid /\ m.seenRole = req[r].seenRole /\ m.before = req[r].before
      BY <2>1 DEF Request
    <2> HIDE DEF m
    <2>5. /\ req[r].seenRole = role[x] /\ req[r].before = role[x] /\ Exists(x) /\ role[x].version \in Nat
          /\ req[r].op = "rename" => req[r].name \in Name /\ x # AdminRole
      BY <2>1, <2>2, <2>3 DEF RequestInv, SeenInv, TargetInv, SafeInv, Running, RoleEdit, RowOp, RoleOp, RoleRow
    <2>6. req'[r] = m /\ role' = role
      BY <2>3, <2>4, OneRecord DEF IInv, rows
    <2>7. roleLock'[x] = r /\ TypeOK
      BY <2>1, <2>3, LockTypes DEF IInv
    <2>8. (ShapeInv(r) /\ TargetInv(r) /\ HoldInv(r) /\ SeenInv(r))'
      BY <2>2, <2>4, <2>5, <2>6, <2>7 DEF ShapeInv, TargetInv, HoldInv, SeenInv, step, Sweeping, Op, Versioned, RoleEdit,
         RowOp, RoleOp, Running, Deciding, Writing, Exists
    <2>9. (SafeInv(r) /\ ClaimInv(r))'
      BY <2>2, <2>4, <2>5, <2>6 DEF SafeInv, ClaimInv, step, Writing
    <2>10. (NameInv(r) /\ WindowInv(r))'
      BY <2>2, <2>3, <2>4, <2>6 DEF NameInv, WindowInv, Unhurt, Naming, Writing, NameTaken, step, Sweeping
    <2>11. RequestInv(r)'
      BY <2>8, <2>9, <2>10 DEF RequestInv
    <2>12. m.op \in {"create", "rename"} => \A q \in Req \ {r} : Naming(q) => req[q].name # m.name
      BY <2>2, <2>3, <2>4, NameIsFree
    <2>13. UNCHANGED <<rows, claims>> /\ UNCHANGED permLock /\ Running(r) /\ m.pc # "idle"
      BY <2>2, <2>3, <2>4 DEF Running, step
    <2> QED BY <2>1, <2>3, <2>4, <2>7, <2>11, <2>12, <2>13, LockTypes, GoOnInv
  <1> QED BY <1>1, <1>2

\* create_role's INSERT meets the unique index.
LEMMA InsertRoleInv ==
  ASSUME IInv, NEW r \in Req, InsertRole(r)
  PROVE  IInv'
  <1> DEFINE x == req[r].role
             m == [req[r] EXCEPT !.pc = "commit"]
  <1>1. CASE Rollback(r)
    BY <1>1, RollbackInv
  <1>2. CASE ~Rollback(r)
    <2>1. req[r] \in Request /\ x \in Role /\ RequestInv(r) /\ "commit" \in Step
      BY Fields DEF IInv, TypeOK, Step
    <2>2. req[r].pc = "insert" /\ req[r].op = "create"
      BY <2>1 DEF InsertRole, At, RequestInv, ShapeInv
    <2>3. NameFree(r) /\ ~NameTaken(x, req[r].name) /\ req' = [req EXCEPT ![r] = m] /\ UNCHANGED <<rows, locks, claims>>
      BY <1>2 DEF InsertRole
    <2>4. /\ m \in Request /\ m.pc = "commit" /\ m.op = "create" /\ m.role = x /\ m.name = req[r].name
          /\ m.sid = req[r].sid /\ m.before = req[r].before
      BY <2>1, <2>2 DEF Request
    <2> HIDE DEF m
    <2>5. req[r].before = NoRole /\ ~Exists(x) /\ req[r].name \in Name
      BY <2>1, <2>2 DEF RequestInv, TargetInv, Running
    <2>6. req'[r] = m /\ role' = role
      BY <2>3, <2>4, OneRecord DEF IInv, rows
    <2>7. (ShapeInv(r) /\ TargetInv(r) /\ HoldInv(r) /\ SeenInv(r) /\ SafeInv(r) /\ ClaimInv(r))'
      BY <2>4, <2>5, <2>6 DEF ShapeInv, TargetInv, HoldInv, SeenInv, SafeInv, ClaimInv, Op, RoleEdit, RoleSwitch, RowOp,
         RoleOp, Running, Deciding, Writing, Exists
    <2>8. (NameInv(r) /\ WindowInv(r))'
      BY <2>3, <2>4, <2>6 DEF NameInv, WindowInv, Unhurt, Naming, Writing, NameTaken, Sweeping
    <2>9. RequestInv(r)'
      BY <2>7, <2>8 DEF RequestInv
    <2>10. \A q \in Req \ {r} : Naming(q) => req[q].name # m.name
      BY <2>3, <2>4, NameIsFree
    <2>11. UNCHANGED <<rows, claims>> /\ UNCHANGED roleLock /\ UNCHANGED permLock /\ TypeOK /\ Running(r)
      BY <2>2, <2>3 DEF locks, IInv, Running
    <2> QED BY <2>2, <2>3, <2>4, <2>9, <2>10, <2>11, LockTypes, GoOnInv
  <1> QED BY <1>1, <1>2

\* _lock_role: from here the row is as the service has read it.
LEMMA LockRoleInv ==
  ASSUME IInv, NEW r \in Req, LockRole(r)
  PROVE  IInv'
  <1> DEFINE x == req[r].role
             effective == {p \in role[x].perms : Effective(p)}
             step == CASE req[r].op = "assign"       -> "targets"
                       [] req[r].op = "disable_role" -> "sweep"
                       [] OTHER                      -> "commit"
             m == [req[r] EXCEPT !.before = role[x], !.effective = effective, !.pc = step]
  <1>1. CASE Rollback(r)
    BY <1>1, RollbackInv
  <1>2. CASE ~Rollback(r)
    <2>1. req[r] \in Request /\ x \in Role /\ role[x] \in RoleRow /\ RequestInv(r)
      BY Fields DEF IInv, TypeOK
    <2>2. req[r].pc = "lock" /\ req[r].op \in {"assign", "disable_role", "enable_role"}
      BY <2>1 DEF LockRole, At, RequestInv, ShapeInv, RoleOp, RoleEdit, RoleSwitch, PermissionSwitch
    <2>3. /\ Free(roleLock, x, r) /\ roleLock' = [roleLock EXCEPT ![x] = r]
          /\ ~RefusedRole(r)
          /\ req' = [req EXCEPT ![r].before = role[x], ![r].effective = effective, ![r].pc = step]
          /\ UNCHANGED <<rows, permLock, claims>>
      BY <1>2 DEF LockRole
    <2>4. req' = [req EXCEPT ![r] = m]
      BY <2>3 DEF IInv, TypeOK
    <2>5. /\ effective \in SUBSET Permission /\ step \in {"targets", "sweep", "commit"} /\ step \in Step
          /\ step = "targets" <=> req[r].op = "assign"
          /\ step = "sweep" <=> req[r].op = "disable_role"
      BY <2>1, <2>2 DEF RoleRow, Step
    <2> HIDE DEF step, effective
    <2>6. /\ m \in Request /\ m.pc = step /\ m.op = req[r].op /\ m.role = x /\ m.name = req[r].name
          /\ m.sid = req[r].sid /\ m.seenRole = req[r].seenRole /\ m.before = role[x] /\ m.effective = effective
      BY <2>1, <2>5 DEF Request
    <2> HIDE DEF m
    <2>7. /\ Exists(x) /\ role[x].version \in Nat
          /\ req[r].op = "assign" => req[r].seenRole = role[x]
          /\ req[r].op = "disable_role" => role[x].name # AdminName
      BY <2>1, <2>2, <2>3 DEF RequestInv, SeenInv, TargetInv, Running, RoleEdit, RoleSwitch, RowOp, RoleOp, RoleRow,
         RefusedRole
    <2>8. /\ x = AdminRole => CorePermission \in role[x].perms \cap effective
          /\ x = AdminRole => role[x].name = AdminName
      BY DEF IInv, RecoveryRemains, effective
    <2>9. req'[r] = m /\ role' = role
      BY <2>3, <2>4, <2>6, OneRecord DEF IInv, rows
    <2>10. roleLock'[x] = r /\ TypeOK
      BY <2>1, <2>3, LockTypes DEF IInv
    <2>11. (ShapeInv(r) /\ TargetInv(r) /\ HoldInv(r) /\ SeenInv(r))'
      BY <2>2, <2>5, <2>6, <2>7, <2>9, <2>10 DEF ShapeInv, TargetInv, HoldInv, SeenInv, Sweeping, Op, Versioned, RoleEdit,
         RoleSwitch, RowOp, RoleOp, Running, Deciding, Writing, Exists
    <2>12. (SafeInv(r) /\ ClaimInv(r) /\ NameInv(r) /\ WindowInv(r))'
      BY <2>2, <2>5, <2>6, <2>7, <2>8, <2>9 DEF SafeInv, ClaimInv, NameInv, WindowInv, Unhurt, Naming, Writing, Sweeping
    <2>13. RequestInv(r)'
      BY <2>11, <2>12 DEF RequestInv
    <2>14. /\ UNCHANGED <<rows, claims>> /\ UNCHANGED permLock /\ Running(r) /\ m.pc # "idle"
           /\ m.op \notin {"create", "rename"}
      BY <2>2, <2>3, <2>5, <2>6 DEF Running
    <2>15. /\ roleLock' \in [Role -> Req \cup {NoReq}] /\ permLock' \in [Permission -> Req \cup {NoReq}]
           /\ \A q \in Req \ {r}, y \in Role : roleLock[y] = q => roleLock'[y] = q
           /\ \A q \in Req \ {r}, y \in Permission : permLock[y] = q => permLock'[y] = q
      BY <2>1, <2>3, <2>10, <2>14, LockTypes
    <2> QED BY <2>4, <2>6, <2>13, <2>14, <2>15, GoOnInv
  <1> QED BY <1>1, <1>2

\* _get_permissions_by_ids takes one permission after the other.
LEMMA LockTargetInv ==
  ASSUME IInv, NEW r \in Req, LockTarget(r)
  PROVE  IInv'
  <1> DEFINE p == NextTarget(r)
             m == [req[r] EXCEPT !.todo = req[r].todo \ {p}]
  <1>1. CASE Rollback(r)
    BY <1>1, RollbackInv
  <1>2. CASE ~Rollback(r)
    <2>1. req[r] \in Request /\ RequestInv(r) /\ req[r].todo \in SUBSET Permission
      BY Fields DEF IInv, TypeOK
    <2>2. req[r].pc = "targets" /\ req[r].op = "assign"
      BY <2>1 DEF LockTarget, At, RequestInv, ShapeInv
    <2>3. /\ Free(permLock, p, r) /\ permLock' = [permLock EXCEPT ![p] = r]
          /\ req' = [req EXCEPT ![r] = m]
          /\ UNCHANGED <<rows, roleLock, claims>>
      BY <1>2 DEF LockTarget
    <2>4. /\ permLock' \in [Permission -> Req \cup {NoReq}]
          /\ \A q \in Req \ {r}, y \in Permission : permLock[y] = q => permLock'[y] = q
      <3> HIDE DEF p
      <3>1. permLock \in [Permission -> Req \cup {NoReq}] /\ \A q \in Req : q # NoReq
        BY ClaimsAssumption DEF IInv, TypeOK
      <3> QED BY <2>3, <3>1 DEF Free
    <2> HIDE DEF p
    <2>5. /\ m \in Request /\ m.pc = "targets" /\ m.op = "assign" /\ m.role = req[r].role /\ m.name = req[r].name
          /\ m.sid = req[r].sid /\ m.seenRole = req[r].seenRole /\ m.before = req[r].before
          /\ m.effective = req[r].effective
      BY <2>1, <2>2 DEF Request
    <2> HIDE DEF m
    <2>6. req'[r] = m /\ role' = role /\ roleLock' = roleLock
      BY <2>3, <2>5, OneRecord DEF IInv, rows
    <2>7. RequestInv(r)'
      BY <2>1, <2>2, <2>5, <2>6 DEF RequestInv, ShapeInv, TargetInv, HoldInv, SeenInv, SafeInv, NameInv, ClaimInv,
         WindowInv, Running, Deciding, Writing, Naming, Exists, RoleEdit, RoleSwitch, RoleOp
    <2>8. UNCHANGED <<rows, claims>> /\ UNCHANGED roleLock /\ TypeOK /\ Running(r)
      BY <2>2, <2>3 DEF IInv, Running
    <2> QED BY <2>2, <2>3, <2>4, <2>5, <2>7, <2>8, LockTypes, GoOnInv
  <1> QED BY <1>1, <1>2

\* assign_permissions never takes permission:enable from the admin role.
LEMMA DecideAssignmentInv ==
  ASSUME IInv, NEW r \in Req, DecideAssignment(r)
  PROVE  IInv'
  <1> DEFINE m == [req[r] EXCEPT !.pc = "sweep"]
  <1>1. CASE Rollback(r)
    BY <1>1, RollbackInv
  <1>2. CASE ~Rollback(r)
    <2>1. req[r] \in Request /\ RequestInv(r) /\ req[r].before \in RoleRow /\ "sweep" \in Step
      BY Fields DEF IInv, TypeOK, Step
    <2>2. req[r].pc = "targets" /\ req[r].op = "assign"
      BY <2>1 DEF DecideAssignment, At, RequestInv, ShapeInv
    <2>3. /\ req' = [req EXCEPT ![r] = m] /\ UNCHANGED <<rows, locks, claims>>
          /\ ~(req[r].role = AdminRole /\ (req[r].before.perms \ req[r].want) \cap req[r].effective # {})
      BY <1>2 DEF DecideAssignment
    <2>4. req[r].role = AdminRole => CorePermission \in req[r].want
      BY <2>1, <2>2, <2>3 DEF RequestInv, SafeInv
    <2>5. /\ m \in Request /\ m.pc = "sweep" /\ m.op = "assign" /\ m.role = req[r].role /\ m.name = req[r].name
          /\ m.sid = req[r].sid /\ m.seenRole = req[r].seenRole /\ m.before = req[r].before
          /\ m.want = req[r].want
      BY <2>1, <2>2 DEF Request
    <2> HIDE DEF m
    <2>6. req'[r] = m /\ role' = role /\ roleLock' = roleLock
      BY <2>3, <2>5, OneRecord DEF IInv, rows, locks
    <2>7. RequestInv(r)'
      BY <2>1, <2>2, <2>4, <2>5, <2>6 DEF RequestInv, ShapeInv, TargetInv, HoldInv, SeenInv, SafeInv, NameInv, ClaimInv,
         WindowInv, Running, Deciding, Writing, Naming, Exists, Sweeping, RoleEdit, RoleSwitch, RoleOp
    <2>8. UNCHANGED <<rows, claims>> /\ UNCHANGED roleLock /\ UNCHANGED permLock /\ TypeOK /\ Running(r)
      BY <2>2, <2>3 DEF locks, IInv, Running
    <2> QED BY <2>2, <2>3, <2>5, <2>7, <2>8, LockTypes, GoOnInv
  <1> QED BY <1>1, <1>2

\* CheckPermission refuses a version other than the one shown.
LEMMA CheckPermissionInv ==
  ASSUME IInv, NEW r \in Req, CheckPermission(r)
  PROVE  IInv'
  <1> DEFINE p == req[r].perm
             m == [req[r] EXCEPT !.pc = "update", !.was = perm[p]]
  <1>1. CASE Rollback(r)
    BY <1>1, RollbackInv
  <1>2. CASE ~Rollback(r)
    <2>1. req[r] \in Request /\ p \in Permission /\ perm[p] \in PermissionRow /\ RequestInv(r) /\ "update" \in Step
      BY Fields DEF IInv, TypeOK, Step
    <2>2. req[r].pc = "edit" /\ req[r].op = "relabel"
      BY DEF CheckPermission, At
    <2>3. /\ perm[p].version = req[r].seenPerm.version
          /\ req' = [req EXCEPT ![r].pc = "update", ![r].was = perm[p]]
          /\ UNCHANGED <<rows, locks, claims>>
      BY <1>2 DEF CheckPermission
    <2>4. req' = [req EXCEPT ![r] = m]
      BY <2>3 DEF IInv, TypeOK
    <2>5. /\ m \in Request /\ m.pc = "update" /\ m.op = "relabel" /\ m.perm = p /\ m.role = req[r].role
          /\ m.name = req[r].name /\ m.sid = req[r].sid /\ m.seenPerm = req[r].seenPerm /\ m.was = perm[p]
      BY <2>1, <2>2 DEF Request
    <2> HIDE DEF m
    <2>6. req[r].seenPerm = perm[p] /\ perm[p].version \in Nat
      BY <2>1, <2>2, <2>3 DEF RequestInv, SeenInv, Running, PermissionRow
    <2>7. req'[r] = m /\ perm' = perm
      BY <2>3, <2>4, <2>5, OneRecord DEF IInv, rows
    <2>8. RequestInv(r)'
      BY <2>5, <2>6, <2>7 DEF RequestInv, ShapeInv, TargetInv, HoldInv, SeenInv, SafeInv, NameInv, ClaimInv,
         WindowInv, Running, Deciding, Writing, Naming, RoleEdit, RoleSwitch, RoleOp, RowOp
    <2>9. UNCHANGED <<rows, claims>> /\ UNCHANGED roleLock /\ UNCHANGED permLock /\ TypeOK /\ Running(r)
      BY <2>2, <2>3 DEF locks, IInv, Running
    <2> QED BY <2>2, <2>4, <2>5, <2>8, <2>9, LockTypes, GoOnInv
  <1> QED BY <1>1, <1>2

\* UpdatePermission takes the row's lock, and the row is still the one that was checked.
LEMMA UpdatePermissionInv ==
  ASSUME IInv, NEW r \in Req, UpdatePermission(r)
  PROVE  IInv'
  <1> DEFINE p == req[r].perm
             m == [req[r] EXCEPT !.pc = "commit"]
  <1>1. CASE Rollback(r)
    BY <1>1, RollbackInv
  <1>2. CASE ~Rollback(r)
    <2>1. req[r] \in Request /\ p \in Permission /\ perm[p] \in PermissionRow /\ RequestInv(r) /\ "commit" \in Step
      BY Fields DEF IInv, TypeOK, Step
    <2>2. req[r].pc = "update" /\ req[r].op = "relabel"
      BY DEF UpdatePermission, At
    <2>3. /\ Free(permLock, p, r) /\ permLock' = [permLock EXCEPT ![p] = r]
          /\ perm[p].version = req[r].seenPerm.version
          /\ req' = [req EXCEPT ![r] = m]
          /\ UNCHANGED <<rows, roleLock, claims>>
      BY <1>2 DEF UpdatePermission
    <2>4. /\ m \in Request /\ m.pc = "commit" /\ m.op = "relabel" /\ m.perm = p /\ m.role = req[r].role
          /\ m.name = req[r].name /\ m.sid = req[r].sid /\ m.seenPerm = req[r].seenPerm /\ m.was = req[r].was
      BY <2>1, <2>2 DEF Request
    <2> HIDE DEF m
    <2>5. req[r].seenPerm = perm[p] /\ req[r].was = perm[p] /\ perm[p].version \in Nat
      BY <2>1, <2>2, <2>3 DEF RequestInv, SeenInv, Running, PermissionRow
    <2>6. req'[r] = m /\ perm' = perm
      BY <2>3, <2>4, OneRecord DEF IInv, rows
    <2>7. /\ roleLock' \in [Role -> Req \cup {NoReq}] /\ permLock' \in [Permission -> Req \cup {NoReq}]
          /\ permLock'[p] = r
          /\ \A q \in Req \ {r}, y \in Role : roleLock[y] = q => roleLock'[y] = q
          /\ \A q \in Req \ {r}, y \in Permission : permLock[y] = q => permLock'[y] = q
      BY <2>1, <2>3, LockTypes DEF IInv
    <2>8. RequestInv(r)'
      BY <2>4, <2>5, <2>6, <2>7 DEF RequestInv, ShapeInv, TargetInv, HoldInv, SeenInv, SafeInv, NameInv, ClaimInv,
         WindowInv, Unhurt, Running, Deciding, Writing, Naming, Sweeping, Op, Versioned, RoleEdit, RoleSwitch, RoleOp, RowOp
    <2>9. UNCHANGED <<rows, claims>> /\ Running(r)
      BY <2>2, <2>3 DEF Running
    <2> QED BY <2>2, <2>3, <2>4, <2>7, <2>8, <2>9, GoOnInv
  <1> QED BY <1>1, <1>2

\* permission:enable is never disabled.
LEMMA LockPermissionInv ==
  ASSUME IInv, NEW r \in Req, LockPermission(r)
  PROVE  IInv'
  <1> DEFINE p == req[r].perm
             step == IF req[r].op = "disable_permission" THEN "sweep" ELSE "commit"
             m == [req[r] EXCEPT !.was = perm[p], !.pc = step]
  <1>1. CASE Rollback(r)
    BY <1>1, RollbackInv
  <1>2. CASE ~Rollback(r)
    <2>1. req[r] \in Request /\ p \in Permission /\ perm[p] \in PermissionRow /\ RequestInv(r) /\ step \in Step
      BY Fields DEF IInv, TypeOK, Step
    <2>2. req[r].pc = "lock" /\ req[r].op \in PermissionSwitch
      BY DEF LockPermission, At
    <2>3. /\ Free(permLock, p, r) /\ permLock' = [permLock EXCEPT ![p] = r]
          /\ req[r].op = "disable_permission" => p # CorePermission
          /\ req' = [req EXCEPT ![r].was = perm[p], ![r].pc = step]
          /\ UNCHANGED <<rows, roleLock, claims>>
      BY <1>2 DEF LockPermission, RefusedPermission
    <2>4. req' = [req EXCEPT ![r] = m]
      BY <2>3 DEF IInv, TypeOK
    <2>5. /\ step \in {"sweep", "commit"}
          /\ step = "sweep" <=> req[r].op = "disable_permission"
      OBVIOUS
    <2> HIDE DEF step
    <2>6. /\ m \in Request /\ m.pc = step /\ m.op = req[r].op /\ m.perm = p /\ m.role = req[r].role
          /\ m.name = req[r].name /\ m.sid = req[r].sid /\ m.was = perm[p]
      BY <2>1, <2>2 DEF Request
    <2> HIDE DEF m
    <2>7. req'[r] = m /\ perm' = perm
      BY <2>3, <2>4, <2>6, OneRecord DEF IInv, rows
    <2>8. /\ roleLock' \in [Role -> Req \cup {NoReq}] /\ permLock' \in [Permission -> Req \cup {NoReq}]
          /\ permLock'[p] = r
          /\ \A q \in Req \ {r}, y \in Role : roleLock[y] = q => roleLock'[y] = q
          /\ \A q \in Req \ {r}, y \in Permission : permLock[y] = q => permLock'[y] = q
      BY <2>1, <2>3, LockTypes DEF IInv
    <2>9. RequestInv(r)'
      <3>1. req[r].op \in {"disable_permission", "enable_permission"}
        BY <2>2 DEF PermissionSwitch
      <3>2. (ShapeInv(r) /\ TargetInv(r) /\ HoldInv(r))'
        BY <2>5, <2>6, <2>7, <2>8, <3>1 DEF ShapeInv, TargetInv, HoldInv, Running, Deciding, Writing, Sweeping, Op,
           PermissionSwitch, RoleEdit, RoleSwitch, RoleOp, RowOp
      <3>3. (SeenInv(r) /\ SafeInv(r) /\ NameInv(r))'
        BY <2>3, <2>5, <2>6, <2>7, <3>1 DEF SeenInv, SafeInv, NameInv, Writing, Naming, RoleEdit
      <3>4. (ClaimInv(r) /\ WindowInv(r))'
        BY <2>5, <2>6, <2>7, <3>1 DEF ClaimInv, WindowInv, Unhurt, Sweeping, RoleEdit, RoleSwitch, RoleOp
      <3> QED BY <3>2, <3>3, <3>4 DEF RequestInv
    <2>10. UNCHANGED <<rows, claims>> /\ Running(r) /\ m.pc # "idle" /\ m.op \notin {"create", "rename"}
      BY <2>2, <2>3, <2>5, <2>6 DEF Running, PermissionSwitch
    <2> QED BY <2>4, <2>6, <2>8, <2>9, <2>10, GoOnInv
  <1> QED BY <1>1, <1>2

\* The two statements of _build_claims
LEMMA ReadInv ==
  ASSUME IInv, NEW r \in Req, ReadNames(r) \/ ReadScope(r)
  PROVE  IInv'
  <1> DEFINE u == req[r].user
             m == IF req[r].pc = "names" THEN [req[r] EXCEPT !.names = RoleNames(u), !.pc = "scope"]
                  ELSE [req[r] EXCEPT !.scope = Held(u), !.pc = "mint"]
  <1>1. req[r] \in Request /\ RequestInv(r) /\ {"scope", "mint"} \subseteq Step
    BY DEF IInv, TypeOK, Step
  <1>2. req[r].pc \in {"names", "scope"} /\ req[r].op \in {"login", "refresh"} /\ u \in User
    BY <1>1 DEF ReadNames, ReadScope, At, RequestInv, ShapeInv, ClaimInv
  <1>3. req' = [req EXCEPT ![r] = m] /\ UNCHANGED <<rows, locks, claims>>
    BY DEF ReadNames, ReadScope, At, IInv, TypeOK
  <1>4. RoleNames(u) \subseteq Name /\ Held(u) \subseteq Permission
    BY <1>2, ClaimTypes
  <1>5. /\ m \in Request /\ m.op = req[r].op /\ m.role = req[r].role /\ m.name = req[r].name
        /\ m.sid = req[r].sid /\ m.user = u /\ m.raced = req[r].raced
    BY <1>1, <1>4 DEF Request
  <1>6. \/ m.pc = "scope" /\ m.names = RoleNames(u)
        \/ m.pc = "mint" /\ m.names = req[r].names /\ m.scope = Held(u) /\ req[r].pc = "scope"
    BY <1>1, <1>2 DEF Request
  <1> HIDE DEF m
  <1>7. req'[r] = m /\ session' = session
    BY <1>3, <1>5, OneRecord DEF IInv, rows, claims
  <1>8. ClaimInv(r)'
    <2>1. ClaimInv(r)
      BY <1>1 DEF RequestInv
    <2>2. /\ m.user \in User /\ m.sid \in Sid
          /\ IF m.op = "login" THEN session[m.sid].state = "none"
             ELSE session[m.sid].state # "none" /\ session[m.sid].user = u
          /\ ~m.raced => /\ m.names \subseteq RoleNames(u)
                         /\ m.pc = "mint" => m.scope \subseteq Held(u)
      BY <1>2, <1>5, <1>6, <2>1 DEF ClaimInv
    <2>3. role' = role /\ perm' = perm /\ member' = member
      BY <1>3 DEF rows
    <2> QED BY <1>5, <1>7, <2>2, <2>3 DEF ClaimInv, RoleNames, Held, Effective
  <1>9. RequestInv(r)'
    BY <1>2, <1>5, <1>6, <1>7, <1>8 DEF RequestInv, ShapeInv, TargetInv, HoldInv, SeenInv, SafeInv, NameInv,
       WindowInv, Running, Deciding, Writing, Naming, RoleEdit, RoleSwitch, RoleOp, RowOp
  <1>10. UNCHANGED <<rows, claims>> /\ UNCHANGED roleLock /\ UNCHANGED permLock /\ TypeOK /\ Running(r) /\ m.pc # "idle"
    BY <1>2, <1>3, <1>6 DEF locks, IInv, Running
  <1>11. m.op \notin {"create", "rename"}
    BY <1>2, <1>5
  <1> QED BY <1>3, <1>5, <1>9, <1>10, <1>11, LockTypes, GoOnInv

-----------------------------------------------------------------------------
(* The sweep *)

\* Whoever is logging in has a session that nobody sees yet.
LEMMA LoginUnseen ==
  ASSUME IInv, NEW q \in Req, Running(q), req[q].op = "login"
  PROVE  req[q].sid \in Sid /\ session[req[q].sid].state = "none" /\ req[q].user \in User
  <1>1. RequestInv(q) /\ req[q] \in Request
    BY DEF IInv, TypeOK
  <1>2. req[q].pc \in {"names", "scope", "mint"}
    BY <1>1, Fields DEF RequestInv, ShapeInv, Running, Step, Sweeping, Op, RoleSwitch, PermissionSwitch
  <1> QED BY <1>1, <1>2 DEF RequestInv, ClaimInv

\* What the sweep has passed over opens nothing that the commit takes away.
LEMMA SweepWindow ==
  ASSUME IInv, NEW r \in Req, Sweep(r), NEW t \in tokens, session'[t.sid].state = "open", ~t.raced
  PROVE  /\ req[r].op \in Sweeping \cap RoleOp => req[r].role \notin member[session[t.sid].user]
         /\ req[r].op = "disable_permission" => req[r].perm \notin t.scope
  <1>1. t.sid \in Sid /\ session \in [Sid -> Session] /\ req[r] \in Request
    BY DEF IInv, TypeOK, Token
  <1> DEFINE u == session[t.sid].user
  <1>2. session[t.sid].state = "open" /\ u \notin Affected(r)
    BY <1>1 DEF Sweep, Session
  <1>3. u \in User /\ t.scope \subseteq Held(u)
    BY <1>1, <1>2 DEF IInv, SessionInv, OutdatedOnlyByRace
  <1>4. CASE req[r].op \in RoleOp
    <2>1. Affected(r) = RoleUsers(req[r].role) /\ req[r].op # "disable_permission"
      BY <1>4 DEF Affected, RoleOp, RoleEdit, RoleSwitch
    <2> QED BY <1>2, <1>3, <2>1 DEF RoleUsers
  <1>5. CASE req[r].op = "disable_permission"
    <2>1. Affected(r) = PermissionUsers(req[r].perm) /\ req[r].op \notin RoleOp
      BY <1>5 DEF Affected, RoleOp, RoleEdit, RoleSwitch
    <2>2. req[r].perm \notin Held(u)
      BY <1>2, <1>3, <2>1 DEF PermissionUsers, Held
    <2> QED BY <1>3, <2>1, <2>2
  <1> QED BY <1>4, <1>5

\* After its sweep a change finds no live unraced token that opens what it takes away.
LEMMA SweepInv ==
  ASSUME IInv, NEW r \in Req, Sweep(r)
  PROVE  IInv'
  <1> DEFINE m == [req[r] EXCEPT !.pc = "commit"]
  <1>1. req[r] \in Request /\ RequestInv(r) /\ "commit" \in Step /\ session \in [Sid -> Session] /\ tokens \subseteq Token
    BY DEF IInv, TypeOK, Step
  <1>2. req[r].pc = "sweep" /\ req[r].op \in Sweeping
    BY <1>1 DEF Sweep, At, RequestInv, ShapeInv
  <1>3. /\ m \in Request /\ m.pc = "commit" /\ m.op = req[r].op /\ m.role = req[r].role /\ m.perm = req[r].perm
        /\ m.name = req[r].name /\ m.sid = req[r].sid /\ m.want = req[r].want
        /\ m.seenRole = req[r].seenRole /\ m.seenPerm = req[r].seenPerm
        /\ m.before = req[r].before /\ m.was = req[r].was
    BY <1>1 DEF Request
  <1>4. req' = [req EXCEPT ![r] = m]
    BY DEF Sweep
  <1> HIDE DEF m
  <1>5. req' \in [Req -> Request] /\ req'[r] = m /\ \A q \in Req \ {r} : req'[q] = req[q]
    BY <1>3, <1>4, OneRecord DEF IInv
  <1>6. /\ role' = role /\ perm' = perm /\ member' = member /\ mix' = mix /\ roleLock' = roleLock /\ permLock' = permLock
        /\ tokens' = tokens
    BY DEF Sweep, rows, locks
  <1>7. /\ session' \in [Sid -> Session]
        /\ \A s \in Sid : /\ session'[s].user = session[s].user
                          /\ session'[s].state = "open" => session[s].state = "open"
                          /\ session'[s].state = "none" <=> session[s].state = "none"
    BY <1>1 DEF Sweep, Session
  <1>8. \A t \in tokens : t.sid \in Sid
    BY <1>1 DEF Token
  <1>9. TypeOK'
    BY <1>5, <1>6, <1>7 DEF IInv, TypeOK
  <1>10. NamesUnique' /\ RecoveryRemains' /\ RowInv'
    BY <1>6 DEF IInv, NamesUnique, RecoveryRemains, RowInv, Exists, Effective
  <1>11. OutdatedOnlyByRace' /\ SessionInv'
    BY <1>6, <1>7, <1>8 DEF IInv, OutdatedOnlyByRace, SessionInv, RoleNames, Held, Effective
  <1>12. (ShapeInv(r) /\ TargetInv(r) /\ HoldInv(r))'
    BY <1>1, <1>2, <1>3, <1>5, <1>6 DEF RequestInv, ShapeInv, TargetInv, HoldInv, Running, Deciding, Writing, Exists, Sweeping,
       Op, Versioned, RoleEdit, RoleSwitch, PermissionSwitch
  <1>13. (SeenInv(r) /\ SafeInv(r) /\ NameInv(r))'
    BY <1>1, <1>2, <1>3, <1>5, <1>6 DEF RequestInv, SeenInv, SafeInv, NameInv, Running, Deciding, Writing, Naming
  <1>14. WindowInv(r)'
    BY <1>3, <1>5, <1>6, <1>7, <1>8, SweepWindow DEF WindowInv, Unhurt
  <1>15. ClaimInv(r)'
    BY <1>3, <1>5 DEF ClaimInv
  <1>16. ASSUME NEW q \in Req \ {r} PROVE Kept(q) /\ Apart(r, q)'
    <2>1. Still(q)
      BY <1>5 DEF Still
    <2>2. KeptRoles(q) /\ KeptPermissions(q)
      <3>1. \A x \in Role : role[x].version \in Nat
        BY DEF IInv, TypeOK, RoleRow
      <3>2. \A p \in Permission : perm[p].version \in Nat
        BY DEF IInv, TypeOK, PermissionRow
      <3> QED BY <1>6, <3>1, <3>2 DEF KeptRoles, KeptPermissions, Exists
    <2>3. KeptClaims(q)
      BY <1>5, <1>6, <1>7, <1>8, LoginUnseen DEF KeptClaims, RoleNames, Held, Effective
    <2>4. Apart(r, q)
      BY DEF IInv
    <2>5. Apart(r, q)'
      BY <1>2, <1>3, <1>5, <2>4 DEF Apart, Running, Naming, Writing
    <2> QED BY <2>1, <2>2, <2>3, <2>5 DEF Kept
  <1>17. RequestInv(r)'
    BY <1>12, <1>13, <1>14, <1>15 DEF RequestInv
  <1> QED BY <1>9, <1>10, <1>11, <1>16, <1>17, StepInv

-----------------------------------------------------------------------------
(* Tokens are made *)

\* A token is made of claims its user has, or is raced.
LEMMA MintInv ==
  ASSUME IInv, NEW r \in Req, CommitLogin(r) \/ IssueRefreshed(r)
  PROVE  IInv'
  <1> DEFINE s == req[r].sid
             u == req[r].user
             minted == Minted(r)
  <1>1. /\ req[r] \in Request /\ RequestInv(r) /\ session \in [Sid -> Session] /\ tokens \subseteq Token
        /\ \A t \in tokens : t.sid \in Sid
    BY DEF IInv, TypeOK, Token
  <1>2. /\ req[r].pc = "mint" /\ s \in Sid /\ u \in User
        /\ IF req[r].op = "login" THEN session[s].state = "none"
           ELSE session[s].state # "none" /\ session[s].user = u
        /\ ~req[r].raced => req[r].names \subseteq RoleNames(u) /\ req[r].scope \subseteq Held(u)
    BY <1>1 DEF CommitLogin, IssueRefreshed, At, RequestInv, ClaimInv
  <1>3. /\ req' = [req EXCEPT ![r] = Idle] /\ tokens' = tokens \cup {minted}
        /\ session' = IF req[r].op = "login" THEN [session EXCEPT ![s] = [state |-> "open", user |-> u]] ELSE session
        /\ role' = role /\ perm' = perm /\ member' = member /\ mix' = mix /\ roleLock' = roleLock /\ permLock' = permLock
    BY DEF CommitLogin, IssueRefreshed, rows, locks
  <1>4. /\ minted \in Token /\ minted.sid = s /\ minted.names = req[r].names /\ minted.scope = req[r].scope
        /\ ~minted.raced => ~req[r].raced /\ \A q \in Req : ~Concerns(q, u)
    <2>1. req[r].names \in SUBSET Name /\ req[r].scope \in SUBSET Permission /\ req[r].raced \in BOOLEAN
      BY <1>1, Fields
    <2> QED BY <1>2, <2>1 DEF Minted, Token
  <1> HIDE DEF minted
  <1>5. /\ session' \in [Sid -> Session] /\ session'[s].user = u
        /\ \A x \in Sid : session[x].state # "none" => session'[x] = session[x]
        /\ \A x \in Sid \ {s} : session'[x] = session[x]
        /\ session'[s].state # "none"
    BY <1>1, <1>2, <1>3 DEF Session
  <1>6. /\ req' \in [Req -> Request] /\ req'[r].pc = "idle" /\ req'[r].op = "none"
        /\ \A q \in Req \ {r} : req'[q] = req[q]
    BY <1>3, IdleTypes DEF IInv, TypeOK, Idle
  <1>7. \A t \in tokens : session[t.sid].state # "none" /\ session'[t.sid] = session[t.sid]
    BY <1>1, <1>5 DEF IInv, SessionInv
  <1>8. TypeOK'
    BY <1>3, <1>4, <1>5, <1>6 DEF IInv, TypeOK
  <1>9. NamesUnique' /\ RecoveryRemains' /\ RowInv'
    BY <1>3 DEF IInv, NamesUnique, RecoveryRemains, RowInv, Exists, Effective
  <1>10. OutdatedOnlyByRace'
    <2>1. ASSUME NEW t \in tokens', session'[t.sid].state = "open", ~t.raced
          PROVE  t.scope \subseteq Held(session'[t.sid].user) /\ t.names \subseteq RoleNames(session'[t.sid].user)
      <3>1. CASE t \in tokens
        BY <1>7, <2>1, <3>1 DEF IInv, OutdatedOnlyByRace
      <3>2. CASE t = minted
        BY <1>2, <1>4, <1>5, <2>1, <3>2
      <3> QED BY <1>3, <3>1, <3>2
    <2> QED BY <1>3, <2>1 DEF OutdatedOnlyByRace, Held, RoleNames, Effective
  <1>11. SessionInv'
    BY <1>2, <1>3, <1>4, <1>5, <1>7 DEF IInv, SessionInv
  <1>12. RequestInv(r)' /\ \A q \in Req \ {r} : Apart(r, q)'
    BY <1>6, IdleInv
  <1>13. ASSUME NEW q \in Req \ {r} PROVE Kept(q)
    <2>1. Still(q)
      BY <1>6 DEF Still
    <2>2. KeptRoles(q) /\ KeptPermissions(q)
      <3>1. \A x \in Role : role[x].version \in Nat
        BY DEF IInv, TypeOK, RoleRow
      <3>2. \A p \in Permission : perm[p].version \in Nat
        BY DEF IInv, TypeOK, PermissionRow
      <3> QED BY <1>3, <3>1, <3>2 DEF KeptRoles, KeptPermissions, Exists
    <2>3. Running(q) /\ req[q].op = "login" => session'[req[q].sid].state = session[req[q].sid].state
      <3>1. CASE req[r].op = "login" /\ Running(q) /\ req[q].op = "login"
        <4>1. req[q].sid \in Sid \ {s}
          BY <1>2, <3>1, LoginUnseen DEF IInv, Apart, Running
        <4> QED BY <1>5, <4>1
      <3>2. CASE req[r].op # "login"
        BY <1>3, <3>2
      <3> QED BY <3>1, <3>2
    <2>4. ASSUME NEW t \in tokens', session'[t.sid].state = "open", ~t.raced, req[q].pc = "commit"
          PROVE  (t \in tokens /\ session[t.sid].state = "open") \/ Unhurt(q, t)'
      <3>1. CASE t \in tokens
        BY <1>7, <2>4, <3>1
      <3>2. CASE t = minted
        <4>1. ~Concerns(q, u) /\ t.scope \subseteq Held(u) /\ session'[t.sid].user = u
          BY <1>2, <1>4, <1>5, <2>4, <3>2
        <4>2. req[q].op \in Sweeping \cap RoleOp => req[q].role \notin member[u]
          BY <1>2, <2>4, <4>1 DEF Concerns, At, RoleUsers
        <4>3. req[q].op = "disable_permission" => req[q].perm \notin t.scope
          BY <1>2, <2>4, <4>1 DEF Concerns, At, Held
        <4> QED BY <1>3, <1>6, <4>1, <4>2, <4>3 DEF Unhurt
      <3> QED BY <1>3, <3>1, <3>2
    <2>5. KeptClaims(q)
      BY <1>3, <1>5, <1>6, <2>3, <2>4 DEF KeptClaims, RoleNames, Held, Effective
    <2> QED BY <2>1, <2>2, <2>5 DEF Kept
  <1> QED BY <1>8, <1>9, <1>10, <1>11, <1>12, <1>13, StepInv

-----------------------------------------------------------------------------
(* Changes are committed *)

\* What becomes of a role's row
LEMMA WrittenRoleParts ==
  ASSUME IInv, NEW r \in Req, At(r, "commit"), req[r].op \in RoleOp
  PROVE  LET row == role[req[r].role]
             w == WrittenRole(r)
         IN  /\ w \in RoleRow /\ w.name \in Name /\ w.version = row.version + 1
             /\ w.name = IF req[r].op \in {"create", "rename"} THEN req[r].name ELSE row.name
             /\ req[r].op \in {"create", "enable_role"} => w.enabled
             /\ req[r].op \in {"describe", "rename", "assign"} => w.enabled = row.enabled
             /\ req[r].op = "assign" => w.perms = req[r].want
             /\ req[r].op \notin {"create", "assign"} => w.perms = row.perms
             /\ req[r].op = "create" => row = NoRole
             /\ req[r].op # "create" => Exists(req[r].role)
  <1> DEFINE row == role[req[r].role]
             w == WrittenRole(r)
  <1>1. /\ req[r] \in Request /\ RequestInv(r) /\ req[r].role \in Role /\ row \in RoleRow
        /\ req[r].want \in SUBSET Permission
    BY Fields DEF IInv, TypeOK
  <1>2. /\ req[r].op = "create" => ~Exists(req[r].role)
        /\ req[r].op # "create" => Exists(req[r].role)
        /\ req[r].op \in {"create", "rename"} => req[r].name \in Name
    BY <1>1 DEF RequestInv, TargetInv, Running, RowOp, At
  <1>3. req[r].op = "create" => row = NoRole
    BY <1>1, <1>2 DEF IInv, RowInv
  <1>4. req[r].op # "create" => row.name \in Name
    BY <1>1, <1>2 DEF RoleRow, Exists
  <1>5. req[r].op \in {"create", "rename", "describe", "assign", "disable_role", "enable_role"}
    BY DEF RoleOp, RoleEdit, RoleSwitch
  <1>6. CASE req[r].op = "create"
    <2>1. w = [name |-> req[r].name, enabled |-> TRUE, version |-> 1, perms |-> {}]
      BY <1>6 DEF WrittenRole
    <2>2. row.version = 0
      BY <1>3, <1>6 DEF NoRole
    <2> QED BY <1>2, <1>3, <1>6, <2>1, <2>2 DEF RoleRow
  <1>7. CASE req[r].op # "create"
    <2> DEFINE next == [row EXCEPT !.version = @ + 1]
    <2>1. \/ req[r].op = "rename" /\ w = [next EXCEPT !.name = req[r].name]
          \/ req[r].op = "disable_role" /\ w = [next EXCEPT !.enabled = FALSE]
          \/ req[r].op = "enable_role" /\ w = [next EXCEPT !.enabled = TRUE]
          \/ req[r].op = "assign" /\ w = [next EXCEPT !.perms = req[r].want]
          \/ req[r].op = "describe" /\ w = next
      BY <1>5, <1>7 DEF WrittenRole
    <2>2. row \in [name : Name \cup {NoName}, enabled : BOOLEAN, version : Nat, perms : SUBSET Permission]
      BY <1>1 DEF RoleRow
    <2> HIDE DEF w, row
    <2>3. next \in RoleRow /\ next.version = row.version + 1 /\ next.name = row.name /\ next.enabled = row.enabled
          /\ next.perms = row.perms
      BY <2>2 DEF RoleRow
    <2> HIDE DEF next
    <2>4. /\ w \in RoleRow /\ w.version = row.version + 1
          /\ w.name = IF req[r].op = "rename" THEN req[r].name ELSE row.name
          /\ req[r].op = "enable_role" => w.enabled
          /\ req[r].op \in {"describe", "rename", "assign"} => w.enabled = row.enabled
          /\ req[r].op = "assign" => w.perms = req[r].want
          /\ req[r].op # "assign" => w.perms = row.perms
      BY <1>1, <1>2, <2>1, <2>3 DEF RoleRow
    <2>5. w.name \in Name
      <3>1. CASE req[r].op = "rename"
        BY <1>2, <2>4, <3>1
      <3>2. CASE req[r].op # "rename"
        BY <1>4, <1>7, <2>4, <3>2 DEF row
      <3> QED BY <3>1, <3>2
    <2>6. w.name = IF req[r].op \in {"create", "rename"} THEN req[r].name ELSE row.name
      BY <1>7, <2>4
    <2>7. /\ req[r].op \in {"create", "enable_role"} => w.enabled
          /\ req[r].op \notin {"create", "assign"} => w.perms = row.perms
          /\ req[r].op = "create" => row = NoRole
      BY <1>7, <2>4
    <2>8. req[r].op # "create" => Exists(req[r].role)
      BY <1>2
    <2> USE DEF w, row
    <2> QED BY <2>4, <2>5, <2>6, <2>7, <2>8, Zenon
  <1> QED BY <1>6, <1>7

\* ... and of a permission's
LEMMA WrittenPermissionParts ==
  ASSUME IInv, NEW r \in Req
  PROVE  LET row == perm[req[r].perm]
             w == WrittenPermission(r)
         IN  /\ w \in PermissionRow /\ w.version = row.version + 1 /\ w.declared = row.declared
             /\ req[r].op # "disable_permission" /\ row.enabled => w.enabled
  <1> DEFINE row == perm[req[r].perm]
             w == WrittenPermission(r)
             next == [row EXCEPT !.version = @ + 1]
  <1>1. req[r] \in Request /\ row \in PermissionRow
    BY Fields DEF IInv, TypeOK
  <1>2. \/ req[r].op = "disable_permission" /\ w = [next EXCEPT !.enabled = FALSE]
        \/ req[r].op = "enable_permission" /\ w = [next EXCEPT !.enabled = TRUE]
        \/ req[r].op # "disable_permission" /\ w = next
    BY DEF WrittenPermission
  <1> HIDE DEF w, row
  <1>3. next \in PermissionRow /\ next.version = row.version + 1 /\ next.declared = row.declared
        /\ next.enabled = row.enabled
    BY <1>1 DEF PermissionRow
  <1> HIDE DEF next
  <1>4. /\ w \in PermissionRow /\ w.version = row.version + 1 /\ w.declared = row.declared
        /\ req[r].op # "disable_permission" /\ row.enabled => w.enabled
    BY <1>2, <1>3 DEF PermissionRow
  <1> QED BY <1>4 DEF w, row

\* A commit tells everybody who may have read what it changes.
LEMMA MarkedRaced ==
  ASSUME IInv, NEW r \in Req, req' = MarkRaced(r)
  PROVE  /\ req' \in [Req -> Request] /\ req'[r].pc = "idle" /\ req'[r].op = "none"
         /\ \A q \in Req \ {r} : Still(q) /\ (~req'[q].raced => ~Concerns(r, req[q].user))
  <1>1. req \in [Req -> Request]
    BY DEF IInv, TypeOK
  <1>2. \A m \in Request, b \in BOOLEAN : [m EXCEPT !.raced = m.raced \/ b] \in Request
    BY DEF Request
  <1>3. ASSUME NEW q \in Req \ {r}
        PROVE  req'[q] \in Request /\ Still(q) /\ (~req'[q].raced => ~Concerns(r, req[q].user))
    <2> DEFINE b == Concerns(r, req[q].user)
    <2>1. b \in BOOLEAN
      BY DEF Concerns
    <2>2. req'[q] = [req[q] EXCEPT !.raced = req[q].raced \/ b]
      BY DEF MarkRaced
    <2> HIDE DEF b
    <2>3. req[q] \in Request
      BY <1>1
    <2>4. req'[q] \in Request
      BY <1>2, <2>1, <2>2, <2>3
    <2>5. Still(q) /\ (~req'[q].raced => ~b)
      BY <2>1, <2>2, <2>3 DEF Still, Request
    <2> QED BY <2>4, <2>5 DEF b
  <1>4. req'[r] = Idle
    BY DEF MarkRaced
  <1>5. req' \in [Req -> Request]
    BY <1>3, <1>4, IdleTypes DEF MarkRaced
  <1> QED BY <1>3, <1>4, <1>5 DEF Idle

\* A change to a role takes nothing from a user unless it has swept his sessions.
LEMMA RoleGrowth ==
  ASSUME IInv, NEW r \in Req, At(r, "commit"), req[r].op \in RoleOp,
         role' = [role EXCEPT ![req[r].role] = WrittenRole(r)], perm' = perm, member' = member,
         NEW u \in User, req[r].op \in Sweeping => req[r].role \notin member[u]
  PROVE  RoleNames(u) \subseteq RoleNames(u)' /\ Held(u) \subseteq Held(u)'
  <1> DEFINE x == req[r].role
  <1>1. x \in Role /\ member[u] \subseteq Role /\ role \in [Role -> RoleRow]
    BY Fields DEF IInv, TypeOK
  <1>2. ASSUME NEW y \in member[u], role[y].enabled
        PROVE  role'[y].enabled /\ role'[y].name = role[y].name /\ role[y].perms \subseteq role'[y].perms
    <2>1. CASE y # x
      BY <1>1, <1>2, <2>1
    <2>2. CASE y = x
      <3>1. req[r].op \in {"describe", "enable_role"}
        <4>1. req[r].op # "create"
          BY <1>2, <2>2, WrittenRoleParts DEF NoRole
        <4> QED BY <2>2, <4>1 DEF Sweeping, RoleOp, RoleEdit, RoleSwitch
      <3>2. role'[y] = WrittenRole(r)
        BY <1>1, <2>2
      <3> QED BY <1>2, <2>2, <3>1, <3>2, WrittenRoleParts
    <2> QED BY <2>1, <2>2
  <1> QED BY <1>2 DEF RoleNames, Held, Effective

\* A change to a permission takes at most that permission.
LEMMA PermissionGrowth ==
  ASSUME IInv, NEW r \in Req, At(r, "commit"), role' = role, member' = member,
         perm' = [perm EXCEPT ![req[r].perm] = WrittenPermission(r)],
         NEW u \in User, NEW S \in SUBSET Held(u), req[r].op = "disable_permission" => req[r].perm \notin S
  PROVE  RoleNames(u)' = RoleNames(u) /\ S \subseteq Held(u)'
  <1>1. req[r].perm \in Permission /\ perm \in [Permission -> PermissionRow]
    BY Fields DEF IInv, TypeOK
  <1>2. ASSUME NEW p \in S PROVE Effective(p)'
    <2>1. p \in Permission /\ Effective(p)
      BY DEF Held
    <2>2. CASE p # req[r].perm
      BY <1>1, <2>1, <2>2 DEF Effective
    <2>3. CASE p = req[r].perm
      BY <1>1, <2>1, <2>3, WrittenPermissionParts DEF Effective
    <2> QED BY <2>2, <2>3
  <1> QED BY <1>2 DEF RoleNames, Held

\* What a commit takes from a user, no live token of his opens, unless it is raced.
LEMMA CommitTakes ==
  ASSUME IInv, NEW r \in Req, Commit(r), NEW u \in User, NEW N \in SUBSET RoleNames(u), NEW S \in SUBSET Held(u),
         req[r].op \in Sweeping \cap RoleOp => req[r].role \notin member[u],
         req[r].op = "disable_permission" => req[r].perm \notin S
  PROVE  N \subseteq RoleNames(u)' /\ S \subseteq Held(u)'
  <1>1. CASE req[r].op \in RoleOp
    <2>1. RoleNames(u) \subseteq RoleNames(u)' /\ Held(u) \subseteq Held(u)'
      BY <1>1, RoleGrowth DEF Commit
    <2> QED BY <2>1
  <1>2. CASE req[r].op \notin RoleOp
    <2>1. RoleNames(u)' = RoleNames(u) /\ S \subseteq Held(u)'
      BY <1>2, PermissionGrowth DEF Commit
    <2> QED BY <2>1
  <1> QED BY <1>1, <1>2

\* What a commit leaves to the other requests
LEMMA CommitRows ==
  ASSUME IInv, NEW r \in Req, Commit(r)
  PROVE  /\ role' \in [Role -> RoleRow] /\ perm' \in [Permission -> PermissionRow]
         /\ NamesUnique' /\ RecoveryRemains' /\ RowInv'
         /\ \A q \in Req \ {r} : KeptRoles(q) /\ KeptPermissions(q)
  <1> DEFINE x == req[r].role
             p == req[r].perm
  <1>1. /\ x \in Role /\ p \in Permission /\ role \in [Role -> RoleRow] /\ perm \in [Permission -> PermissionRow]
        /\ AdminRole \in Role /\ CorePermission \in Permission
    BY Fields, ClaimsAssumption DEF IInv, TypeOK
  <1>2. /\ req[r].pc = "commit" /\ RequestInv(r) /\ Running(r) /\ Writing(r) /\ Deciding(r)
        /\ Release(r) /\ TypeOK
    BY DEF Commit, At, IInv, Running, Writing, Deciding
  <1>3. (\A y \in Role : role[y].version \in Nat) /\ \A y \in Permission : perm[y].version \in Nat
    BY <1>1 DEF RoleRow, PermissionRow
  <1>4. CASE req[r].op \in RoleOp
    <2> DEFINE w == WrittenRole(r)
    <2>1. role' = [role EXCEPT ![x] = w] /\ perm' = perm
      BY <1>4 DEF Commit
    <2>2. /\ w \in RoleRow /\ w.name \in Name /\ w.version = role[x].version + 1
          /\ w.name = IF req[r].op \in {"create", "rename"} THEN req[r].name ELSE role[x].name
          /\ req[r].op \in {"create", "enable_role"} => w.enabled
          /\ req[r].op \in {"describe", "rename", "assign"} => w.enabled = role[x].enabled
          /\ req[r].op = "assign" => w.perms = req[r].want
          /\ req[r].op \notin {"create", "assign"} => w.perms = role[x].perms
          /\ req[r].op = "create" => role[x] = NoRole
          /\ req[r].op # "create" => Exists(x)
      BY <1>2, <1>4, WrittenRoleParts DEF At
    <2> HIDE DEF w
    <2>3. role'[x] = w /\ \A y \in Role \ {x} : role'[y] = role[y]
      BY <1>1, <2>1
    <2>4. w.name # NoName
      BY <2>2, ClaimsAssumption
    <2>5. role' \in [Role -> RoleRow] /\ perm' \in [Permission -> PermissionRow]
      BY <1>1, <2>1, <2>2
    <2>6. \A y \in Role \ {x} : role[y].name # w.name
      <3>1. CASE req[r].op \in {"create", "rename"}
        BY <1>2, <2>2, <3>1 DEF RequestInv, NameInv, Naming
      <3>2. CASE req[r].op \notin {"create", "rename"}
        BY <1>1, <2>2, <3>2 DEF IInv, NamesUnique
      <3> QED BY <3>1, <3>2
    <2>7. NamesUnique'
      <3> SUFFICES ASSUME NEW y \in Role, NEW z \in Role, y # z, role'[y].name # NoName
                   PROVE  role'[y].name # role'[z].name
        BY DEF NamesUnique, Exists
      <3>1. \A v \in Role \ {x} : role'[v].name = role[v].name
        BY <2>3
      <3> QED BY <2>3, <2>6, <3>1 DEF IInv, NamesUnique, Exists
    <2>8. RecoveryRemains'
      <3>1. /\ role[AdminRole].name = AdminName /\ role[AdminRole].enabled /\ CorePermission \in role[AdminRole].perms
            /\ Effective(CorePermission) /\ AdminName # NoName
        BY ClaimsAssumption DEF IInv, RecoveryRemains
      <3>2. Effective(CorePermission)'
        BY <2>1, <3>1 DEF Effective
      <3>3. CASE x # AdminRole
        BY <1>1, <2>3, <3>1, <3>2, <3>3 DEF RecoveryRemains
      <3>4. CASE x = AdminRole
        <4>1. /\ req[r].op \notin {"rename", "disable_role"}
              /\ req[r].op = "assign" => CorePermission \in req[r].want
          BY <1>2, <3>4 DEF RequestInv, SafeInv
        <4>2. req[r].op # "create"
          BY <2>2, <3>1, <3>4 DEF NoRole
        <4>3. req[r].op \in {"describe", "assign", "enable_role"}
          BY <1>4, <4>1, <4>2 DEF RoleOp, RoleEdit, RoleSwitch
        <4>4. w.name = AdminName /\ w.enabled /\ CorePermission \in w.perms
          BY <2>2, <3>1, <3>4, <4>1, <4>3
        <4> QED BY <2>3, <3>2, <3>4, <4>4 DEF RecoveryRemains
      <3> QED BY <3>3, <3>4
    <2>9. RowInv'
      BY <2>3, <2>4 DEF IInv, RowInv, Exists
    <2>10. ASSUME NEW q \in Req \ {r} PROVE KeptRoles(q) /\ KeptPermissions(q)
      <3>1. Apart(r, q) /\ RequestInv(q)
        BY DEF IInv
      <3>2. \A y \in Role : roleLock[y] = q => roleLock'[y] = q
        BY <1>2, ReleaseTypes
      <3>3. \A y \in Permission : permLock[y] = q => permLock'[y] = q
        BY <1>2, ReleaseTypes
      <3>4. \A y \in Role : roleLock[y] = q /\ Exists(y) => role'[y] = role[y]
        <4>1. req[r].op # "create" => roleLock[x] = r
          BY <1>2, <1>4 DEF RequestInv, HoldInv, RowOp
        <4>2. req[r].op = "create" => ~Exists(x)
          BY <2>2 DEF NoRole, Exists
        <4> QED BY <2>3, <4>1, <4>2
      <3>5. \A y \in Role : Exists(y) => Exists(y)'
        BY <2>3, <2>4 DEF Exists
      <3>6. \A y \in Role : /\ role[y].version <= role'[y].version
                            /\ role'[y].version = role[y].version => role'[y] = role[y]
        BY <1>3, <2>2, <2>3
      <3>7. Running(q) /\ req[q].op = "create" => role'[req[q].role] = role[req[q].role]
        <4>1. req[q].role \in Role
          BY Fields DEF IInv, TypeOK
        <4>2. Running(q) /\ req[q].op = "create" => req[q].role # x
          BY <1>2, <2>2, <3>1 DEF Apart, RequestInv, TargetInv
        <4> QED BY <2>3, <4>1, <4>2
      <3>8. Naming(q) => \A y \in Role : role'[y].name = role[y].name \/ role'[y].name # req[q].name
        BY <1>2, <2>2, <2>3, <3>1 DEF Apart, Naming
      <3> QED BY <1>3, <2>1, <3>2, <3>3, <3>4, <3>5, <3>6, <3>7, <3>8 DEF KeptRoles, KeptPermissions
    <2> QED BY <2>5, <2>7, <2>8, <2>9, <2>10
  <1>5. CASE req[r].op \notin RoleOp
    <2> DEFINE w == WrittenPermission(r)
    <2>1. perm' = [perm EXCEPT ![p] = w] /\ role' = role
      BY <1>5 DEF Commit
    <2>2. /\ w \in PermissionRow /\ w.version = perm[p].version + 1 /\ w.declared = perm[p].declared
          /\ req[r].op # "disable_permission" /\ perm[p].enabled => w.enabled
      BY WrittenPermissionParts
    <2> HIDE DEF w
    <2>3. perm'[p] = w /\ \A y \in Permission \ {p} : perm'[y] = perm[y]
      BY <1>1, <2>1
    <2>4. role' \in [Role -> RoleRow] /\ perm' \in [Permission -> PermissionRow]
      BY <1>1, <2>1, <2>2
    <2>5. NamesUnique' /\ RowInv'
      BY <2>1 DEF IInv, NamesUnique, RowInv, Exists
    <2>6. RecoveryRemains'
      <3>1. req[r].op = "disable_permission" => p # CorePermission
        BY <1>2 DEF RequestInv, SafeInv
      <3>2. Effective(CorePermission)'
        BY <1>1, <2>2, <2>3, <3>1 DEF IInv, RecoveryRemains, Effective
      <3> QED BY <2>1, <3>2 DEF IInv, RecoveryRemains
    <2>7. ASSUME NEW q \in Req \ {r} PROVE KeptRoles(q) /\ KeptPermissions(q)
      <3>1. \A y \in Role : roleLock[y] = q => roleLock'[y] = q
        BY <1>2, ReleaseTypes
      <3>2. \A y \in Permission : permLock[y] = q => permLock'[y] = q /\ perm'[y] = perm[y]
        <4>1. permLock[p] = r
          BY <1>2, <1>5 DEF RequestInv, HoldInv
        <4> QED BY <1>2, <2>3, <4>1, ReleaseTypes
      <3>3. \A y \in Permission : /\ perm[y].version <= perm'[y].version
                                  /\ perm'[y].version = perm[y].version => perm'[y] = perm[y]
        BY <1>3, <2>2, <2>3
      <3> QED BY <1>3, <2>1, <3>1, <3>2, <3>3 DEF KeptRoles, KeptPermissions, Exists
    <2> QED BY <2>4, <2>5, <2>6, <2>7
  <1> QED BY <1>4, <1>5

\* A commit keeps the invariant: the row was locked, and its users were swept.
LEMMA CommitInv ==
  ASSUME IInv, NEW r \in Req, Commit(r)
  PROVE  IInv'
  <1>1. /\ req' = MarkRaced(r) /\ Release(r) /\ req[r].pc = "commit" /\ RequestInv(r) /\ TypeOK
        /\ member' = member /\ mix' = mix /\ session' = session /\ tokens' = tokens
    BY DEF Commit, At, IInv, claims
  <1>2. /\ req' \in [Req -> Request] /\ req'[r].pc = "idle" /\ req'[r].op = "none"
        /\ \A q \in Req \ {r} : Still(q) /\ (~req'[q].raced => ~Concerns(r, req[q].user))
    BY <1>1, MarkedRaced
  <1>3. TypeOK'
    BY <1>1, <1>2, CommitRows, ReleaseTypes DEF TypeOK
  <1>4. OutdatedOnlyByRace'
    <2>1. ASSUME NEW t \in tokens, session[t.sid].state = "open", ~t.raced
          PROVE  t.scope \subseteq Held(session[t.sid].user)' /\ t.names \subseteq RoleNames(session[t.sid].user)'
      <3>1. PICK u \in User : u = session[t.sid].user
        BY <2>1 DEF IInv, SessionInv, TypeOK, Token
      <3>2. t.scope \in SUBSET Held(u) /\ t.names \in SUBSET RoleNames(u)
        BY <2>1, <3>1 DEF IInv, OutdatedOnlyByRace
      <3>3. /\ req[r].op \in Sweeping \cap RoleOp => req[r].role \notin member[u]
            /\ req[r].op = "disable_permission" => req[r].perm \notin t.scope
        BY <1>1, <2>1, <3>1 DEF RequestInv, WindowInv, Unhurt
      <3>4. t.names \subseteq RoleNames(u)' /\ t.scope \subseteq Held(u)'
        BY <3>2, <3>3, CommitTakes
      <3>5. u = session'[t.sid].user
        BY <1>1, <3>1
      <3> QED BY <3>4, <3>5 DEF RoleNames, Held
    <2> QED BY <1>1, <2>1 DEF OutdatedOnlyByRace, RoleNames, Held
  <1>5. SessionInv'
    BY <1>1 DEF IInv, SessionInv
  <1>6. RequestInv(r)' /\ \A q \in Req \ {r} : Apart(r, q)'
    BY <1>2, IdleInv
  <1>7. ASSUME NEW q \in Req \ {r} PROVE KeptClaims(q)
    <2>1. ASSUME ~req'[q].raced, req[q].pc \in {"scope", "mint"}
          PROVE  /\ req[q].names \subseteq RoleNames(req[q].user) => req[q].names \subseteq RoleNames(req[q].user)'
                 /\ req[q].scope \subseteq Held(req[q].user) => req[q].scope \subseteq Held(req[q].user)'
      <3>1. PICK u \in User : u = req[q].user
        BY <2>1 DEF IInv, RequestInv, ClaimInv
      <3>2. u = req'[q].user
        BY <1>2, <3>1 DEF Still
      <3>3. ~Concerns(r, u)
        BY <1>2, <2>1, <3>1
      <3>4. /\ req[r].op \in Sweeping \cap RoleOp => req[r].role \notin member[u]
            /\ req[r].op = "disable_permission" => req[r].perm \notin Held(u)
        BY <1>1, <3>3 DEF Concerns, At, RoleUsers, Held
      <3>5. RoleNames(u) \subseteq RoleNames(u)' /\ Held(u) \subseteq Held(u)'
        BY <3>4, CommitTakes
      <3> QED BY <3>1, <3>2, <3>5 DEF RoleNames, Held
    <2> QED BY <1>1, <2>1 DEF KeptClaims
  <1>8. \A q \in Req \ {r} : Kept(q)
    BY <1>2, <1>7, CommitRows DEF Kept
  <1> QED BY <1>3, <1>4, <1>5, <1>6, <1>8, CommitRows, StepInv

-----------------------------------------------------------------------------
(* The invariant *)

\* The invariant holds initially.
LEMMA InitInv == Init => IInv
  <1> SUFFICES ASSUME Init PROVE IInv
    OBVIOUS
  <1>1. PICK name \in [Seeded -> Name], perms \in [Seeded -> SUBSET Permission] :
          /\ name[AdminRole] = AdminName /\ perms[AdminRole] = Permission
          /\ \A x, y \in Seeded : x # y => name[x] # name[y]
          /\ role = [x \in Role |-> IF x \in Seeded
                                    THEN [name |-> name[x], enabled |-> TRUE, version |-> 1,
                                          perms |-> perms[x]]
                                    ELSE NoRole]
    BY DEF Init
  <1>2. /\ AdminRole \in Seeded /\ Seeded \subseteq Role /\ CorePermission \in Permission /\ NoName \notin Name
        /\ Holding \subseteq SUBSET Role /\ Mixes \subseteq SUBSET Op
    BY ClaimsAssumption
  <1>3. \A x \in Role : IF x \in Seeded THEN role[x].name = name[x] /\ role[x].name \in Name /\ role[x].enabled
                                             /\ role[x].perms = perms[x] /\ role[x] \in RoleRow
                        ELSE role[x] = NoRole
    BY <1>1 DEF RoleRow
  <1>4. role \in [Role -> RoleRow]
    BY <1>1, <1>3, IdleTypes
  <1>5. perm \in [Permission -> PermissionRow] /\ perm[CorePermission].declared /\ perm[CorePermission].enabled
    <2>1. perm \in [Permission -> {[declared |-> d, enabled |-> TRUE, version |-> 1] : d \in BOOLEAN}]
      BY DEF Init
    <2>2. ASSUME NEW p \in Permission PROVE perm[p] \in PermissionRow /\ perm[p].enabled
      <3>1. PICK d \in BOOLEAN : perm[p] = [declared |-> d, enabled |-> TRUE, version |-> 1]
        BY <2>1
      <3> QED BY <3>1 DEF PermissionRow
    <2>3. perm \in [Permission -> PermissionRow]
      BY <2>1, <2>2
    <2> QED BY <1>2, <2>2, <2>3 DEF Init
  <1>6. TypeOK
    <2>1. member \in [User -> SUBSET Role] /\ mix \subseteq Op
      BY <1>2 DEF Init
    <2>2. req \in [Req -> Request]
      BY IdleTypes DEF Init
    <2>3. session \in [Sid -> Session]
      BY DEF Init, Session
    <2> QED BY <1>4, <1>5, <2>1, <2>2, <2>3 DEF TypeOK, Init
  <1>7. \A x \in Role : Exists(x) <=> x \in Seeded
    BY <1>2, <1>3 DEF Exists, NoRole
  <1>8. NamesUnique
    <2> SUFFICES ASSUME NEW x \in Role, NEW y \in Role, x # y, Exists(x) PROVE role[x].name # role[y].name
      BY DEF NamesUnique
    <2>1. x \in Seeded /\ role[x].name = name[x] /\ name[x] \in Name
      BY <1>3, <1>7
    <2>2. CASE y \in Seeded
      BY <1>1, <1>3, <2>1, <2>2
    <2>3. CASE y \notin Seeded
      BY <1>2, <1>3, <2>1, <2>3 DEF NoRole
    <2> QED BY <2>2, <2>3
  <1>9. RecoveryRemains
    BY <1>1, <1>2, <1>3, <1>5 DEF RecoveryRemains, Effective
  <1>10. RowInv
    BY <1>3, <1>7 DEF RowInv
  <1>11. OutdatedOnlyByRace /\ SessionInv
    BY DEF Init, OutdatedOnlyByRace, SessionInv
  <1>12. \A r \in Req : req[r].pc = "idle" /\ req[r].op = "none"
    BY DEF Init, Idle
  <1>13. ASSUME NEW r \in Req PROVE RequestInv(r)
    <2>1. ShapeInv(r) /\ TargetInv(r) /\ HoldInv(r)
      BY <1>12 DEF ShapeInv, TargetInv, HoldInv, Running, Deciding, Writing
    <2>2. SeenInv(r) /\ SafeInv(r) /\ NameInv(r)
      BY <1>12 DEF SeenInv, SafeInv, NameInv, Running, Deciding, Writing, Naming
    <2>3. ClaimInv(r) /\ WindowInv(r)
      BY <1>12 DEF ClaimInv, WindowInv
    <2> QED BY <2>1, <2>2, <2>3 DEF RequestInv
  <1>14. \A p, q \in Req : Apart(p, q)
    BY <1>12 DEF Apart, Running, Writing, Naming
  <1> QED BY <1>6, <1>8, <1>9, <1>10, <1>11, <1>13, <1>14 DEF IInv

\* Every step keeps the invariant.
LEMMA NextInv == IInv /\ [Next]_vars => IInv'
  <1> SUFFICES ASSUME IInv, [Next]_vars PROVE IInv'
    OBVIOUS
  <1>1. CASE UNCHANGED vars
    <2>1. /\ role' = role /\ perm' = perm /\ member' = member /\ roleLock' = roleLock /\ permLock' = permLock
          /\ session' = session /\ tokens' = tokens /\ req' = req /\ mix' = mix
      BY <1>1 DEF vars
    <2>2. TypeOK' /\ NamesUnique' /\ RecoveryRemains' /\ OutdatedOnlyByRace' /\ RowInv' /\ SessionInv'
      BY <2>1 DEF IInv, TypeOK, NamesUnique, RecoveryRemains, OutdatedOnlyByRace, RowInv, SessionInv, Exists, Effective,
         Held, RoleNames
    <2>3. ASSUME NEW q \in Req PROVE Kept(q)
      <3>1. \A x \in Role : role[x].version \in Nat
        BY DEF IInv, TypeOK, RoleRow
      <3>2. \A p \in Permission : perm[p].version \in Nat
        BY DEF IInv, TypeOK, PermissionRow
      <3>3. Still(q) /\ KeptRoles(q) /\ KeptPermissions(q)
        BY <2>1, <3>1, <3>2 DEF Still, KeptRoles, KeptPermissions, Exists
      <3>4. KeptClaims(q)
        BY <2>1 DEF KeptClaims, RoleNames, Held, Effective
      <3> QED BY <3>3, <3>4 DEF Kept
    <2>4. \A q \in Req : RequestInv(q)'
      BY <2>2, <2>3, Others
    <2>5. \A p, q \in Req : p # q => Apart(p, q)'
      BY <2>1 DEF IInv, Apart, Running, Writing, Naming
    <2> QED BY <2>2, <2>4, <2>5 DEF IInv
  <1>2. ASSUME NEW r \in Req, Start(r) PROVE IInv'
    BY <1>2, ViewRoleInv, ViewPermissionInv, StartCreateInv, StartSwitchInv, StartClaimsInv DEF Start
  <1>3. ASSUME NEW r \in Req, Proceed(r) PROVE IInv'
    BY <1>3, ViewPermissionsInv, CheckRoleInv, UpdateRoleInv, InsertRoleInv, LockRoleInv, LockTargetInv,
       DecideAssignmentInv, CheckPermissionInv, UpdatePermissionInv, LockPermissionInv, SweepInv, CommitInv, ReadInv,
       MintInv DEF Proceed
  <1>4. ASSUME NEW r \in Req, Abort(r) PROVE IInv'
    BY <1>4, RollbackInv DEF Abort
  <1> QED BY <1>1, <1>2, <1>3, <1>4 DEF Next

\* The strengthened invariant holds always: each handler may rely on what it has read,
\* locked and swept.
THEOREM Inductive == Spec => []IInv
  BY InitInv, NextInv, PTL DEF Spec

\* Rows, sessions, tokens and requests have their shapes.
THEOREM TypeCorrect == Spec => []TypeOK
  <1>1. IInv => TypeOK
    BY DEF IInv
  <1> QED BY <1>1, Inductive, PTL

\* create_role and update_role never give two roles one name.
THEOREM NamesStayUnique == Spec => []NamesUnique
  <1>1. IInv => NamesUnique
    BY DEF IInv
  <1> QED BY <1>1, Inductive, PTL

\* The admin role can always enable permissions.
THEOREM RecoveryStays == Spec => []RecoveryRemains
  <1>1. IInv => RecoveryRemains
    BY DEF IInv
  <1> QED BY <1>1, Inductive, PTL

\* The sweeps of disable_role, assign_permissions, update_role and disable_permission leave
\* no live token with a claim its user has lost, but for those made between sweep and commit.
THEOREM OnlyRacesOutdate == Spec => []OutdatedOnlyByRace
  <1>1. IInv => OutdatedOnlyByRace
    BY DEF IInv
  <1> QED BY <1>1, Inductive, PTL

\* An edit with a version changes exactly what its administrator was shown, and the audit
\* event of every change tells what was there before.
THEOREM EditsAreInformed == Spec => EditsInformed
  <1>1. ASSUME IInv, NEW r \in Req, Commit(r)
        PROVE  /\ IF req[r].op \in RoleOp
                  THEN RoleAudit(r) = <<role[req[r].role], role'[req[r].role]>>
                  ELSE PermissionAudit(r) = <<perm[req[r].perm], perm'[req[r].perm]>>
               /\ req[r].op \in RoleEdit => role[req[r].role] = req[r].seenRole
               /\ req[r].op = "relabel" => perm[req[r].perm] = req[r].seenPerm
    <2>1. /\ RequestInv(r) /\ Running(r) /\ Writing(r) /\ Deciding(r) /\ At(r, "commit")
          /\ req[r].role \in Role /\ req[r].perm \in Permission
          /\ role \in [Role -> RoleRow] /\ perm \in [Permission -> PermissionRow]
      BY <1>1, Fields DEF Commit, At, IInv, TypeOK, Running, Writing, Deciding
    <2>2. CASE req[r].op \in RoleOp
      <3>1. role'[req[r].role] = WrittenRole(r)
        BY <1>1, <2>1, <2>2 DEF Commit
      <3>2. req[r].before = role[req[r].role]
        <4>1. CASE req[r].op = "create"
          BY <1>1, <2>1, <4>1 DEF RequestInv, TargetInv, IInv, RowInv
        <4>2. CASE req[r].op # "create"
          BY <2>1, <2>2, <4>2 DEF RequestInv, HoldInv, RowOp
        <4> QED BY <4>1, <4>2
      <3>3. req[r].op # "relabel"
        BY <2>2 DEF RoleOp, RoleEdit, RoleSwitch
      <3> QED BY <2>1, <2>2, <3>1, <3>2, <3>3 DEF RoleAudit, RequestInv, SeenInv
    <2>3. CASE req[r].op \notin RoleOp
      <3>1. perm'[req[r].perm] = WrittenPermission(r)
        BY <1>1, <2>1, <2>3 DEF Commit
      <3>2. req[r].was = perm[req[r].perm]
        BY <2>1, <2>3 DEF RequestInv, HoldInv
      <3>3. req[r].op \notin RoleEdit
        BY <2>3 DEF RoleOp
      <3> QED BY <2>1, <2>3, <3>1, <3>2, <3>3 DEF PermissionAudit, RequestInv, SeenInv
    <2> QED BY <2>2, <2>3
  <1>2. IInv => [\A r \in Req : Commit(r) =>
          /\ IF req[r].op \in RoleOp
             THEN RoleAudit(r) = <<role[req[r].role], role'[req[r].role]>>
             ELSE PermissionAudit(r) = <<perm[req[r].perm], perm'[req[r].perm]>>
          /\ req[r].op \in RoleEdit => role[req[r].role] = req[r].seenRole
          /\ req[r].op = "relabel" => perm[req[r].perm] = req[r].seenPerm]_vars
    BY <1>1
  <1> QED BY <1>2, Inductive, PTL DEF EditsInformed
=============================================================================
