----------------------------- MODULE RoleClaims -----------------------------
(***************************************************************************)
(* Roles, permissions and the claims that logins and refreshes put into    *)
(* access tokens: AdminRoleService, AdminPermissionService and the reads   *)
(* of AuthService._build_claims, in any interleaving.                      *)
(*                                                                         *)
(* An access token keeps the scope it was minted with.  What makes an old  *)
(* scope ineffective is the sweep: a change that takes something away      *)
(* revokes the sessions of the users concerned before it commits.  A sweep *)
(* sees committed sessions only.                                           *)
(***************************************************************************)
EXTENDS Integers, FiniteSets

CONSTANTS
    User, Sid, Req,
    Role, Permission,     \* ids; rows are locked in their order
    AdminRole,            \* the id of the role named "admin"
    CorePermission,       \* the id of "permission:enable"
    Name, AdminName,      \* names of roles
    NoName, NoUser, NoSid, NoReq,
    Seeded,               \* the roles that exist at the start
    Holding,              \* bound on the sets of roles that users have
    Mixes,                \* bound on the operations that occur together
    MaxVersion            \* bound on the version of a row that is operated on

RoleEdit == {"describe", "rename", "assign"}
RoleSwitch == {"disable_role", "enable_role"}
PermissionSwitch == {"disable_permission", "enable_permission"}
Versioned == RoleEdit \cup {"relabel"}        \* these carry a version the client has read
Op == Versioned \cup RoleSwitch \cup PermissionSwitch \cup {"create", "login", "refresh"}
RoleOp == RoleEdit \cup RoleSwitch \cup {"create"}
Sweeping == {"rename", "assign", "disable_role", "disable_permission"}

ASSUME ClaimsAssumption ==
    /\ IsFiniteSet(Role) /\ Role \subseteq Nat
    /\ IsFiniteSet(Permission) /\ Permission \subseteq Nat
    /\ Seeded \subseteq Role /\ AdminRole \in Seeded /\ CorePermission \in Permission
    /\ AdminName \in Name /\ NoName \notin Name
    /\ NoUser \notin User /\ NoSid \notin Sid /\ NoReq \notin Req
    /\ Holding \subseteq SUBSET Seeded
    /\ Mixes \subseteq SUBSET Op
    /\ MaxVersion \in Nat

VARIABLES
    role,        \* committed rows of roles, with their rows of role_permissions
    perm,        \* committed rows of permissions
    member,      \* the roles of each user (user_roles)
    roleLock, permLock,   \* the requests that hold the rows' locks
    session,     \* of each session: open once its login commits, barred by a sweep's marker
    tokens,      \* the access tokens given out
    req,         \* the requests being served
    mix          \* the operations that occur in this behaviour

vars == <<role, perm, member, roleLock, permLock, session, tokens, req, mix>>
rows == <<role, perm, member, mix>>
locks == <<roleLock, permLock>>
claims == <<session, tokens>>

RoleRow == [name : Name \cup {NoName}, enabled : BOOLEAN, version : Nat, perms : SUBSET Permission]
PermissionRow == [declared : BOOLEAN, enabled : BOOLEAN, version : Nat]
NoRole == [name |-> NoName, enabled |-> FALSE, version |-> 0, perms |-> {}]
NoPermission == [declared |-> FALSE, enabled |-> FALSE, version |-> 0]

\* raced: a history variable, whether the token was made while a change to what its user
\* holds had made its sweep and was not committed yet, or by a request that was reading
\* the token's claims at that commit, whenever it mints.
Session == [state : {"none", "open", "barred"}, user : User \cup {NoUser}]
Token == [sid : Sid, names : SUBSET Name, scope : SUBSET Permission, raced : BOOLEAN]

Step == {"idle", "view", "edit", "update", "insert", "lock", "targets", "sweep", "commit",
         "names", "scope", "mint"}
Request == [pc : Step, op : Op \cup {"none"},
            role : Role, perm : Permission, name : Name \cup {NoName},
            seenRole : RoleRow, seenPerm : PermissionRow,  \* what the administrator was shown
            want : SUBSET Permission, todo : SUBSET Permission,
            before : RoleRow, was : PermissionRow,         \* the row as the service read it
            effective : SUBSET Permission,    \* the role's permissions that were effective then
            user : User \cup {NoUser}, sid : Sid \cup {NoSid},
            names : SUBSET Name, scope : SUBSET Permission, raced : BOOLEAN]
Idle == [pc |-> "idle", op |-> "none", role |-> AdminRole, perm |-> CorePermission,
         name |-> NoName, seenRole |-> NoRole, seenPerm |-> NoPermission,
         want |-> {}, todo |-> {}, before |-> NoRole, was |-> NoPermission, effective |-> {},
         user |-> NoUser, sid |-> NoSid, names |-> {}, scope |-> {}, raced |-> FALSE]

Exists(x) == role[x].name # NoName
Listed == {x \in Role : Exists(x)}           \* what list_roles shows
Effective(p) == perm[p].declared /\ perm[p].enabled

\* The queries of _get_user_roles and _get_user_permissions
RoleNames(u) == {role[x].name : x \in {y \in member[u] : role[y].enabled}}
Held(u) == {p \in Permission : Effective(p) /\ \E x \in member[u] : role[x].enabled /\ p \in role[x].perms}

\* Roles and permissions as the seed and a sync leave them: everything granted to
\* the admin role, a permission possibly gone from the code since.
Init ==
    /\ \E name \in [Seeded -> Name], perms \in [Seeded -> SUBSET Permission] :
          /\ name[AdminRole] = AdminName /\ perms[AdminRole] = Permission
          /\ \A x, y \in Seeded : x # y => name[x] # name[y]
          /\ role = [x \in Role |-> IF x \in Seeded
                                    THEN [name |-> name[x], enabled |-> TRUE, version |-> 1,
                                          perms |-> perms[x]]
                                    ELSE NoRole]
    /\ perm \in [Permission -> {[declared |-> d, enabled |-> TRUE, version |-> 1] : d \in BOOLEAN}]
    /\ perm[CorePermission].declared
    /\ member \in [User -> Holding]
    /\ roleLock = [x \in Role |-> NoReq]
    /\ permLock = [p \in Permission |-> NoReq]
    /\ session = [s \in Sid |-> [state |-> "none", user |-> NoUser]]
    /\ tokens = {}
    /\ req = [r \in Req |-> Idle]
    /\ mix \in Mixes

-----------------------------------------------------------------------------
At(r, step) == req[r].pc = step
Begin(r, c) == At(r, "idle") /\ req' = [req EXCEPT ![r] = c]
Call(op, step) == [Idle EXCEPT !.op = op, !.pc = step]

\* The end of a transaction
Without(lock, r) == [x \in DOMAIN lock |-> IF lock[x] = r THEN NoReq ELSE lock[x]]
Release(r) == roleLock' = Without(roleLock, r) /\ permLock' = Without(permLock, r)
\* _execute_write: an error rolls back.  Markers in Redis stay.
Rollback(r) == Release(r) /\ req' = [req EXCEPT ![r] = Idle] /\ UNCHANGED <<rows, claims>>

Free(lock, x, r) == lock[x] \in {NoReq, r}

\* q has written name n, or over it, and not committed.
Contends(q, n) == /\ req[q].pc \in {"sweep", "commit"}
                  /\ \/ req[q].op \in {"create", "rename"} /\ req[q].name = n
                     \/ req[q].op = "rename" /\ role[req[q].role].name = n
\* Mutant: roles.name has no unique index.
NameFreeAlways(r) == req[r].name \in Name
NameFree(r) == \A q \in Req \ {r} : ~Contends(q, req[r].name)
NameTaken(x, n) == \E y \in Role \ {x} : role[y].name = n

-----------------------------------------------------------------------------
(* An administrator opens a role or a permission and edits what is shown. *)

ViewRole(r, x) ==
    /\ x \in Listed /\ role[x].version < MaxVersion
    /\ \E op \in mix \cap RoleEdit, n \in Name :
          /\ op = "rename" \/ n = AdminName
          /\ Begin(r, [Call(op, IF op = "assign" THEN "view" ELSE "edit") EXCEPT
                           !.role = x, !.name = IF op = "rename" THEN n ELSE NoName,
                           !.seenRole = role[x]])
    /\ UNCHANGED <<rows, locks, claims>>

\* Mutant: an id that no permission has is accepted.
ViewPermissionsUnknown(r) ==
    /\ At(r, "view")
    /\ \E want \in SUBSET (Permission \cup {0}) :
          req' = [req EXCEPT ![r].pc = "lock", ![r].want = want, ![r].todo = want]
    /\ UNCHANGED <<rows, locks, claims>>

\* get_role_permissions reads the role and then, in another statement, its
\* permissions; what is wanted comes back with the version shown.
ViewPermissions(r) ==
    /\ At(r, "view")
    /\ \E want \in SUBSET Permission :
          req' = [req EXCEPT ![r].pc = "lock", ![r].want = want, ![r].todo = want,
                             ![r].seenRole.perms = role[req[r].role].perms]
    /\ UNCHANGED <<rows, locks, claims>>

ViewPermission(r, p) ==
    /\ perm[p].version < MaxVersion /\ "relabel" \in mix
    /\ Begin(r, [Call("relabel", "edit") EXCEPT !.perm = p, !.seenPerm = perm[p]])
    /\ UNCHANGED <<rows, locks, claims>>

\* create_role looks for the name first; the new id is fresh.
StartCreate(r, x) ==
    /\ "create" \in mix
    /\ ~Exists(x) /\ \A q \in Req : req[q].op = "create" => req[q].role # x
    /\ \E n \in Name : /\ ~NameTaken(x, n)
                       /\ Begin(r, [Call("create", "insert") EXCEPT !.role = x, !.name = n])
    /\ UNCHANGED <<rows, locks, claims>>

StartRoleSwitch(r, x) ==
    /\ Exists(x) /\ role[x].version < MaxVersion
    /\ \E op \in mix \cap RoleSwitch : Begin(r, [Call(op, "lock") EXCEPT !.role = x])
    /\ UNCHANGED <<rows, locks, claims>>

StartPermissionSwitch(r, p) ==
    /\ perm[p].version < MaxVersion
    /\ \E op \in mix \cap PermissionSwitch : Begin(r, [Call(op, "lock") EXCEPT !.perm = p])
    /\ UNCHANGED <<rows, locks, claims>>

-----------------------------------------------------------------------------
(* Roles *)

\* update_role: the checks on the row as it is read without a lock
CheckRole(r) ==
    LET x == req[r].role
    IN  /\ At(r, "edit") /\ req[r].op # "relabel"
        /\ \/ /\ \/ role[x].version # req[r].seenRole.version
                 \/ req[r].op = "rename" /\ req[r].name = role[x].name
                 \/ req[r].op = "rename" /\ role[x].name = AdminName
              /\ Rollback(r)
           \/ /\ role[x].version = req[r].seenRole.version
              /\ req[r].op = "rename" => role[x].name \notin {req[r].name, AdminName}
              /\ req' = [req EXCEPT ![r].pc = "update", ![r].before = role[x]]
              /\ UNCHANGED <<rows, locks, claims>>

\* Its UPDATE ... WHERE id AND version, which looks at the row again once it has the
\* row's lock, and the unique index on names
UpdateRole(r) ==
    LET x == req[r].role
    IN  /\ At(r, "update") /\ req[r].op # "relabel"
        /\ Free(roleLock, x, r)
        /\ req[r].op = "rename" => NameFree(r)
        /\ \/ /\ \/ role[x].version # req[r].seenRole.version
                 \/ req[r].op = "rename" /\ NameTaken(x, req[r].name)
              /\ Rollback(r)
           \/ /\ role[x].version = req[r].seenRole.version
              /\ req[r].op = "rename" => ~NameTaken(x, req[r].name)
              /\ roleLock' = [roleLock EXCEPT ![x] = r]
              /\ req' = [req EXCEPT ![r].pc = IF req[r].op = "rename" THEN "sweep" ELSE "commit"]
              /\ UNCHANGED <<rows, permLock, claims>>

InsertRole(r) ==
    /\ At(r, "insert")
    /\ NameFree(r)
    /\ \/ NameTaken(req[r].role, req[r].name) /\ Rollback(r)
       \/ /\ ~NameTaken(req[r].role, req[r].name)
          /\ req' = [req EXCEPT ![r].pc = "commit"]
          /\ UNCHANGED <<rows, locks, claims>>

\* _lock_role, and what each operation asks of the role.  assign_permissions then
\* reads the permissions the role has, without locking them.
RefusedRole(r) ==
    LET row == role[req[r].role]
    IN  \/ req[r].op = "disable_role" /\ (row.name = AdminName \/ ~row.enabled)
        \/ req[r].op = "enable_role" /\ row.enabled
        \/ req[r].op = "assign" /\ row.version # req[r].seenRole.version
LockRole(r) ==
    LET x == req[r].role
    IN  /\ At(r, "lock") /\ req[r].op \in RoleOp
        /\ Free(roleLock, x, r)
        /\ \/ RefusedRole(r) /\ Rollback(r)
           \/ /\ ~RefusedRole(r)
              /\ roleLock' = [roleLock EXCEPT ![x] = r]
              /\ req' = [req EXCEPT ![r].before = role[x],
                                    ![r].effective = {p \in role[x].perms : Effective(p)},
                                    ![r].pc = CASE req[r].op = "assign"       -> "targets"
                                                [] req[r].op = "disable_role" -> "sweep"
                                                [] OTHER                      -> "commit"]
              /\ UNCHANGED <<rows, permLock, claims>>

\* _get_permissions_by_ids: SELECT ... ORDER BY id FOR UPDATE.  A permission to be
\* added must be declared and enabled.
NextTarget(r) == CHOOSE p \in req[r].todo : \A q \in req[r].todo : p <= q
LockTarget(r) ==
    LET p == NextTarget(r)
        current == req[r].before.perms
    IN  /\ At(r, "targets") /\ req[r].todo # {}
        /\ Free(permLock, p, r)
        /\ \/ p \notin current /\ ~Effective(p) /\ Rollback(r)
           \/ /\ p \in current \/ Effective(p)
              /\ permLock' = [permLock EXCEPT ![p] = r]
              /\ req' = [req EXCEPT ![r].todo = @ \ {p}]
              /\ UNCHANGED <<rows, roleLock, claims>>

\* Mutant: sessions are swept only when the role gains a permission.
DecideAssignmentGrowing(r) ==
    /\ At(r, "targets") /\ req[r].todo = {}
    /\ req[r].want # req[r].before.perms
    /\ req[r].role # AdminRole
    /\ req' = [req EXCEPT ![r].pc = IF req[r].want \subseteq req[r].before.perms THEN "commit" ELSE "sweep"]
    /\ UNCHANGED <<rows, locks, claims>>

\* The rest of assign_permissions' checks; "effective" dates from before the locks.
DecideAssignment(r) ==
    LET removed == req[r].before.perms \ req[r].want
        refused == req[r].role = AdminRole /\ removed \cap req[r].effective # {}
    IN  /\ At(r, "targets") /\ req[r].todo = {}
        /\ \/ (req[r].want = req[r].before.perms \/ refused) /\ Rollback(r)
           \/ /\ req[r].want # req[r].before.perms /\ ~refused
              /\ req' = [req EXCEPT ![r].pc = "sweep"]
              /\ UNCHANGED <<rows, locks, claims>>

-----------------------------------------------------------------------------
(* Permissions *)

\* update_permission compares the versions twice: as it reads the row, and in its
\* UPDATE ... WHERE id AND version.
CheckPermission(r) ==
    /\ At(r, "edit") /\ req[r].op = "relabel"
    /\ \/ perm[req[r].perm].version # req[r].seenPerm.version /\ Rollback(r)
       \/ /\ perm[req[r].perm].version = req[r].seenPerm.version
          /\ req' = [req EXCEPT ![r].pc = "update", ![r].was = perm[req[r].perm]]
          /\ UNCHANGED <<rows, locks, claims>>
UpdatePermission(r) ==
    LET p == req[r].perm
    IN  /\ At(r, "update") /\ req[r].op = "relabel"
        /\ Free(permLock, p, r)
        /\ \/ perm[p].version # req[r].seenPerm.version /\ Rollback(r)
           \/ /\ perm[p].version = req[r].seenPerm.version
              /\ permLock' = [permLock EXCEPT ![p] = r]
              /\ req' = [req EXCEPT ![r].pc = "commit"]
              /\ UNCHANGED <<rows, roleLock, claims>>

\* Mutant: permission:enable is not protected.
RefusedPermissionSame(r) ==
    LET row == perm[req[r].perm]
    IN  \/ req[r].op = "disable_permission" /\ ~row.enabled
        \/ req[r].op = "enable_permission" /\ (~row.declared \/ row.enabled)
\* _lock_permission, and what disable_permission and enable_permission ask
RefusedPermission(r) ==
    LET row == perm[req[r].perm]
    IN  \/ req[r].op = "disable_permission" /\ (req[r].perm = CorePermission \/ ~row.enabled)
        \/ req[r].op = "enable_permission" /\ (~row.declared \/ row.enabled)
LockPermission(r) ==
    /\ At(r, "lock") /\ req[r].op \in PermissionSwitch
    /\ Free(permLock, req[r].perm, r)
    /\ \/ RefusedPermission(r) /\ Rollback(r)
       \/ /\ ~RefusedPermission(r)
          /\ permLock' = [permLock EXCEPT ![req[r].perm] = r]
          /\ req' = [req EXCEPT ![r].was = perm[req[r].perm],
                                ![r].pc = IF req[r].op = "disable_permission"
                                          THEN "sweep" ELSE "commit"]
          /\ UNCHANGED <<rows, roleLock, claims>>

-----------------------------------------------------------------------------
(* The sweep and the commit *)

\* _revoke_role_user_sessions, _revoke_permission_user_sessions: whose sessions end
RoleUsers(x) == {u \in User : x \in member[u]}
PermissionUsers(p) == {u \in User : \E x \in member[u] : role[x].enabled /\ p \in role[x].perms}
Affected(r) == IF req[r].op = "disable_permission" THEN PermissionUsers(req[r].perm)
               ELSE RoleUsers(req[r].role)

\* The sessions that the query sees are the committed ones.
Sweep(r) ==
    /\ At(r, "sweep")
    /\ session' = [s \in Sid |-> IF session[s].state = "open" /\ session[s].user \in Affected(r)
                                 THEN [session[s] EXCEPT !.state = "barred"] ELSE session[s]]
    /\ req' = [req EXCEPT ![r].pc = "commit"]
    /\ UNCHANGED <<rows, locks, tokens>>

\* Mutant: enable_role and disable_role leave the version alone.
WrittenRoleSwitch(r) ==
    LET row == role[req[r].role]
        next == [row EXCEPT !.version = @ + 1]
    IN  CASE req[r].op = "create"       -> [name |-> req[r].name, enabled |-> TRUE, version |-> 1,
                                            perms |-> {}]
          [] req[r].op = "rename"       -> [next EXCEPT !.name = req[r].name]
          [] req[r].op \in RoleSwitch   -> [row EXCEPT !.enabled = req[r].op = "enable_role"]
          [] req[r].op = "assign"       -> [next EXCEPT !.perms = req[r].want]
          [] OTHER                      -> next
WrittenRole(r) ==
    LET row == [role[req[r].role] EXCEPT !.version = @ + 1]
    IN  CASE req[r].op = "create"       -> [name |-> req[r].name, enabled |-> TRUE, version |-> 1,
                                            perms |-> {}]
          [] req[r].op = "rename"       -> [row EXCEPT !.name = req[r].name]
          [] req[r].op = "disable_role" -> [row EXCEPT !.enabled = FALSE]
          [] req[r].op = "enable_role"  -> [row EXCEPT !.enabled = TRUE]
          [] req[r].op = "assign"       -> [row EXCEPT !.perms = req[r].want]
          [] OTHER                      -> row
WrittenPermission(r) ==
    LET row == [perm[req[r].perm] EXCEPT !.version = @ + 1]
    IN  CASE req[r].op = "disable_permission" -> [row EXCEPT !.enabled = FALSE]
          [] req[r].op = "enable_permission"  -> [row EXCEPT !.enabled = TRUE]
          [] OTHER                            -> row

\* The audit events of the two services: what was there before, and what it becomes
RoleAudit(r) == <<req[r].before, WrittenRole(r)>>
PermissionAudit(r) == <<req[r].was, WrittenPermission(r)>>

\* q has made its sweep, and what it has not committed yet takes something from u.
\* Users whose role is disabled count too: disable_permission passes over them, and the
\* role may be enabled again before it commits.
Concerns(q, u) ==
    /\ At(q, "commit") /\ u \in User
    /\ \/ req[q].op \in Sweeping \cap RoleOp /\ u \in RoleUsers(req[q].role)
       \/ req[q].op = "disable_permission" /\ \E x \in member[u] : req[q].perm \in role[x].perms

\* Whoever has begun to read claims may have read what q changes.
MarkRaced(q) == [r \in Req |->
    IF r = q THEN Idle
    ELSE [req[r] EXCEPT !.raced = @ \/ Concerns(q, req[r].user)]]

Commit(r) ==
    /\ At(r, "commit")
    /\ \/ /\ req[r].op \in RoleOp
          /\ role' = [role EXCEPT ![req[r].role] = WrittenRole(r)]
          /\ UNCHANGED perm
       \/ /\ req[r].op \notin RoleOp
          /\ perm' = [perm EXCEPT ![req[r].perm] = WrittenPermission(r)]
          /\ UNCHANGED role
    /\ Release(r)
    /\ req' = MarkRaced(r)
    /\ UNCHANGED <<member, mix, claims>>

-----------------------------------------------------------------------------
(* Tokens *)

\* complete_login has inserted the session, which nobody sees until the commit.
StartLogin(r, u, s) ==
    /\ "login" \in mix
    /\ session[s].state = "none" /\ \A q \in Req : req[q].sid # s
    /\ Begin(r, [Call("login", "names") EXCEPT !.user = u, !.sid = s])
    /\ UNCHANGED <<rows, locks, claims>>

\* AuthService.refresh after ensure_session_active
StartRefresh(r, s) ==
    /\ "refresh" \in mix
    /\ session[s].state = "open"
    /\ Begin(r, [Call("refresh", "names") EXCEPT !.user = session[s].user, !.sid = s])
    /\ UNCHANGED <<rows, locks, claims>>

\* _build_claims is two statements.
ReadNames(r) ==
    /\ At(r, "names")
    /\ req' = [req EXCEPT ![r].names = RoleNames(req[r].user), ![r].pc = "scope"]
    /\ UNCHANGED <<rows, locks, claims>>
ReadScope(r) ==
    /\ At(r, "scope")
    /\ req' = [req EXCEPT ![r].scope = Held(req[r].user), ![r].pc = "mint"]
    /\ UNCHANGED <<rows, locks, claims>>

Minted(r) == [sid |-> req[r].sid, names |-> req[r].names, scope |-> req[r].scope,
              raced |-> req[r].raced \/ \E q \in Req : Concerns(q, req[r].user)]

\* The commit of a login, and the response with the token
CommitLogin(r) ==
    /\ At(r, "mint") /\ req[r].op = "login"
    /\ session' = [session EXCEPT ![req[r].sid] =
                      [state |-> "open", user |-> req[r].user]]
    /\ tokens' = tokens \cup {Minted(r)}
    /\ req' = [req EXCEPT ![r] = Idle]
    /\ UNCHANGED <<rows, locks>>
IssueRefreshed(r) ==
    /\ At(r, "mint") /\ req[r].op = "refresh"
    /\ tokens' = tokens \cup {Minted(r)}
    /\ req' = [req EXCEPT ![r] = Idle]
    /\ UNCHANGED <<rows, locks, session>>

\* A worker dies or a store fails.
Abort(r) == ~At(r, "idle") /\ Rollback(r)

\* require_permissions: what a token opens now
Usable(t) == IF session[t.sid].state = "open" THEN {p \in t.scope : Effective(p)} ELSE {}

-----------------------------------------------------------------------------
Start(r) == \/ \E x \in Role : ViewRole(r, x) \/ StartCreate(r, x) \/ StartRoleSwitch(r, x)
            \/ \E p \in Permission : ViewPermission(r, p) \/ StartPermissionSwitch(r, p)
            \/ \E s \in Sid : StartRefresh(r, s) \/ \E u \in User : StartLogin(r, u, s)
Proceed(r) == \/ ViewPermissions(r) \/ CheckRole(r) \/ UpdateRole(r) \/ InsertRole(r)
              \/ LockRole(r) \/ LockTarget(r) \/ DecideAssignment(r)
              \/ CheckPermission(r) \/ UpdatePermission(r) \/ LockPermission(r)
              \/ Sweep(r) \/ Commit(r)
              \/ ReadNames(r) \/ ReadScope(r) \/ CommitLogin(r) \/ IssueRefreshed(r)

Next == \E r \in Req : Start(r) \/ Proceed(r) \/ Abort(r)

Spec == Init /\ [][Next]_vars
-----------------------------------------------------------------------------
(* Properties *)

\* Rows, sessions, tokens and requests have the shapes the code gives them.
TypeOK ==
    /\ role \in [Role -> RoleRow]
    /\ perm \in [Permission -> PermissionRow]
    /\ member \in [User -> SUBSET Role]
    /\ roleLock \in [Role -> Req \cup {NoReq}]
    /\ permLock \in [Permission -> Req \cup {NoReq}]
    /\ session \in [Sid -> Session]
    /\ tokens \subseteq Token
    /\ req \in [Req -> Request]
    /\ mix \subseteq Op

\* A live token claims nothing that its user has lost since, unless it was made between
\* the sweep and the commit of the change, or by a request that was under way in
\* between: the sweeps of disable_role, assign_permissions,
\* update_role and disable_permission miss no session that was there to be seen, and
\* a refresh that began before them brings nothing back.
OutdatedOnlyByRace ==
    \A t \in tokens :
        LET s == session[t.sid]
        IN  s.state = "open" /\ ~t.raced => t.scope \subseteq Held(s.user) /\ t.names \subseteq RoleNames(s.user)

\* No token opens what its user has not got any more.
OpensOnlyWhatIsHeld == \A t \in tokens : Usable(t) \subseteq Held(session[t.sid].user)

\* An edit that carries a version (update_role, assign_permissions, update_permission)
\* changes exactly what the administrator was shown: whatever happened in between
\* was noticed by one of the comparisons.  And every audit event tells the change that
\* is made: its values from before are not those of an earlier row.
EditsInformed ==
    [][\A r \in Req : Commit(r) =>
          /\ IF req[r].op \in RoleOp
             THEN RoleAudit(r) = <<role[req[r].role], role'[req[r].role]>>
             ELSE PermissionAudit(r) = <<perm[req[r].perm], perm'[req[r].perm]>>
          /\ req[r].op \in RoleEdit => role[req[r].role] = req[r].seenRole
          /\ req[r].op = "relabel" => perm[req[r].perm] = req[r].seenPerm]_vars

\* Roles have different names, whatever create_role and update_role saw when they looked.
NamesUnique == \A x, y \in Role : x # y /\ Exists(x) => role[x].name # role[y].name

\* There is always a way back: the admin role keeps its name, stays enabled and
\* opens permission:enable, whatever is renamed, disabled or reassigned, and in
\* which order.
RecoveryRemains ==
    /\ role[AdminRole].name = AdminName /\ role[AdminRole].enabled
    /\ CorePermission \in role[AdminRole].perms /\ Effective(CorePermission)
=============================================================================
