----------------------------- MODULE AdminUsers -----------------------------
(***************************************************************************)
(* The administration of users: AdminUserService behind api/admin_users.   *)
(*                                                                         *)
(* Several administrators act at once.  A request runs in one transaction  *)
(* and takes row locks as it goes: the target's users row, roles in id     *)
(* order, the admin role, an entry of the unique index on e-mail, and last *)
(* the row of the acting administrator, which the foreign key of its audit *)
(* row refers to.  PostgreSQL breaks the deadlocks that result.            *)
(*                                                                         *)
(* One ORM session serves the whole request.  A users row it has loaded    *)
(* already is not loaded again, not even by SELECT ... FOR UPDATE: whoever *)
(* acts on himself sees himself as require_permissions loaded him.         *)
(***************************************************************************)
EXTENDS Integers, FiniteSets

CONSTANTS
    User, Email, Req,
    Role,          \* role ids
    AdminRole,     \* the id of the role named "admin"
    NoUser, NoEmail, NoReq,
    Founder,       \* the users that exist at the start
    Ops,           \* bound on the operations that occur
    MaxVersion     \* bound on the version of a users row that is operated on

Active(a) == a.active /\ ~a.blacklisted

StatusOp  == {"disable", "enable", "blacklist", "recover"}
LockingOp == StatusOp \cup {"reset", "force_logout", "assign"}
UpdateOp  == {"rename", "change_email"}      \* update_user without and with an e-mail
Op == LockingOp \cup UpdateOp \cup {"create"}

ASSUME UserAssumption ==
    /\ IsFiniteSet(User)
    /\ Founder \subseteq User
    /\ NoUser \notin User
    /\ NoEmail \notin Email
    /\ NoReq \notin Req
    /\ Role \subseteq Nat
    /\ AdminRole \in Role
    /\ Ops \subseteq Op
    /\ MaxVersion \in Nat

VARIABLES
    row,       \* committed rows of users
    roles,     \* committed rows of user_roles: the roles of each user
    userLock,  \* the request whose row lock on a users row excludes other writers
    roleLock,  \* the request that holds a roles row FOR UPDATE
    claim,     \* the request whose uncommitted row has an e-mail
    req        \* the requests being served

vars == <<row, roles, userLock, roleLock, claim, req>>
locks == <<userLock, roleLock, claim>>

Row == [email : Email \cup {NoEmail}, active : BOOLEAN, blacklisted : BOOLEAN, version : Nat]
Absent == [email |-> NoEmail, active |-> FALSE, blacklisted |-> FALSE, version |-> 0]

Step == {"idle", "lock", "roles", "guard", "update", "claim", "commit"}
Request == [pc : Step, op : Op \cup {"none", "no_change"},
            actor : User \cup {NoUser}, target : User \cup {NoUser},
            email : Email \cup {NoEmail}, version : Nat, want : SUBSET Role,
            todo : SUBSET Role,      \* of the roles wanted, those not locked yet
            loaded : Row]            \* the target's User object in the ORM session
Idle == [pc |-> "idle", op |-> "none", actor |-> NoUser, target |-> NoUser,
         email |-> NoEmail, version |-> 0, want |-> {}, todo |-> {}, loaded |-> Absent]

Exists(u) == row[u].email # NoEmail

\* The users counted by _ensure_can_remove_admin
ActiveAdmins == {u \in User : AdminRole \in roles[u] /\ Active(row[u])}

Init ==
    /\ \E e \in [Founder -> Email] :
          /\ \A u, v \in Founder : u # v => e[u] # e[v]
          /\ row = [u \in User |-> IF u \in Founder
                                   THEN [email |-> e[u], active |-> TRUE,
                                         blacklisted |-> FALSE, version |-> 1]
                                   ELSE Absent]
    /\ roles \in [User -> SUBSET Role]
    /\ \A u \in User : ~Exists(u) => roles[u] = {}
    /\ ActiveAdmins # {}
    /\ userLock = [u \in User |-> NoReq]
    /\ roleLock = [x \in Role |-> NoReq]
    /\ claim = [e \in Email |-> NoReq]
    /\ req = [r \in Req |-> Idle]

-----------------------------------------------------------------------------
At(r, step) == req[r].pc = step
Goto(r, step) == req' = [req EXCEPT ![r].pc = step]
Finish(r) == req' = [req EXCEPT ![r] = Idle]

\* The end of a transaction
Without(lock, r) == [x \in DOMAIN lock |-> IF lock[x] = r THEN NoReq ELSE lock[x]]
Release(r) == /\ userLock' = Without(userLock, r)
              /\ roleLock' = Without(roleLock, r)
              /\ claim' = Without(claim, r)
Rollback(r) == Release(r) /\ Finish(r) /\ UNCHANGED <<row, roles>>

\* The User object an operation gets: the one its session has, or else the row.
Loaded(r) == IF req[r].loaded = Absent THEN row[req[r].target] ELSE req[r].loaded

NextRole(r) == CHOOSE x \in req[r].todo : \A y \in req[r].todo : x <= y

\* q's transaction has written e-mail e, or written over it.
Contends(q, e) ==
    \/ claim[e] = q
    \/ /\ req[q].op = "change_email" /\ req[q].pc \in {"claim", "commit"}
       /\ row[req[q].target].email = e

\* The transactions whose end r's next step waits for.  The audit row's foreign
\* key takes FOR KEY SHARE on the actor's row, which only an update that leaves
\* the unique columns alone tolerates.
Blockers(r) == {q \in Req \ {r} :
    \/ req[r].pc \in {"lock", "update"} /\ userLock[req[r].target] = q
    \/ req[r].pc = "roles" /\ req[r].todo # {} /\ roleLock[NextRole(r)] = q
    \/ req[r].pc = "guard" /\ roleLock[AdminRole] = q
    \/ req[r].pc = "claim" /\ Contends(q, req[r].email)
    \/ req[r].pc = "commit" /\ userLock[req[r].actor] = q /\ req[q].op # "rename"}

Granted(r) == Blockers(r) = {}

-----------------------------------------------------------------------------
(* A request arrives: require_permissions loads the actor. *)

Call(op, a, u) == [Idle EXCEPT !.op = op, !.actor = a, !.target = u,
                               !.loaded = IF a = u THEN row[u] ELSE Absent]

Arrive(r, a) == At(r, "idle") /\ Exists(a) /\ Active(row[a])

StartLocking(r, a, u) ==
    /\ Arrive(r, a)
    /\ Exists(u)
    /\ \E op \in Ops \cap (LockingOp \ {"assign"}) :
          /\ op = "force_logout" \/ row[u].version < MaxVersion
          /\ req' = [req EXCEPT ![r] = [Call(op, a, u) EXCEPT !.pc = "lock"]]
    /\ UNCHANGED <<row, roles, locks>>

\* Mutant: ids of roles that do not exist are not refused.
StartAssignUnknown(r, a, u) ==
    /\ Arrive(r, a)
    /\ "assign" \in Ops
    /\ Exists(u) /\ row[u].version < MaxVersion
    /\ \E want \in SUBSET (Role \cup {0}), v \in 1 .. row[u].version :
          req' = [req EXCEPT ![r] = [Call("assign", a, u) EXCEPT !.pc = "lock", !.version = v,
                                                                 !.want = want, !.todo = want]]
    /\ UNCHANGED <<row, roles, locks>>

\* The version is one the client may have read.
StartAssign(r, a, u) ==
    /\ Arrive(r, a)
    /\ "assign" \in Ops
    /\ Exists(u) /\ row[u].version < MaxVersion
    /\ \E want \in SUBSET Role, v \in 1 .. row[u].version :
          req' = [req EXCEPT ![r] = [Call("assign", a, u) EXCEPT !.pc = "lock", !.version = v,
                                                                 !.want = want, !.todo = want]]
    /\ UNCHANGED <<row, roles, locks>>

\* update_user reads the row without a lock to see what would change.
StartUpdate(r, a, u) ==
    /\ Arrive(r, a)
    /\ Exists(u) /\ row[u].version < MaxVersion
    /\ \E op \in Ops \cap UpdateOp, e \in Email, v \in 1 .. row[u].version :
          LET c == [Call(op, a, u) EXCEPT !.version = v]
          IN  \/ /\ op = "rename" \/ e # row[u].email
                 /\ req' = [req EXCEPT ![r] = [c EXCEPT !.pc = "update", !.email =
                                                  IF op = "rename" THEN NoEmail ELSE e]]
              \/ req' = [req EXCEPT ![r] = [c EXCEPT !.pc = "commit", !.op = "no_change"]]
    /\ UNCHANGED <<row, roles, locks>>

\* create_user looks for the e-mail first; the id of the new row is fresh.
StartCreate(r, a, u) ==
    /\ Arrive(r, a)
    /\ "create" \in Ops
    /\ ~Exists(u) /\ \A q \in Req : req[q].target # u
    /\ \E e \in Email, active \in BOOLEAN :
          /\ \A v \in User : row[v].email # e
          /\ req' = [req EXCEPT ![r] =
                        [Call("create", a, u) EXCEPT
                            !.pc = "claim", !.email = e,
                            !.loaded = [email |-> e, active |-> active,
                                        blacklisted |-> FALSE, version |-> 1]]]
    /\ UNCHANGED <<row, roles, locks>>

-----------------------------------------------------------------------------
(* _lock_user and what each operation checks once it has the row *)

Refused(r) ==
    \/ req[r].op \in {"disable", "blacklist"} /\ req[r].actor = req[r].target
    \/ req[r].op = "enable" /\ Loaded(r).blacklisted
    \/ req[r].op = "assign" /\ Loaded(r).version # req[r].version

NothingToDo(r) ==
    \/ req[r].op = "disable" /\ ~Loaded(r).active
    \/ req[r].op = "enable" /\ Loaded(r).active
    \/ req[r].op = "blacklist" /\ Loaded(r).blacklisted
    \/ req[r].op = "recover" /\ ~Loaded(r).blacklisted

\* Mutant: blacklist_user does not look for the last administrator.
NeedsGuardToDisable(r) ==
    /\ req[r].op = "disable"
    /\ AdminRole \in roles[req[r].target]
    /\ Active(Loaded(r))

NeedsGuard(r) ==
    /\ req[r].op \in {"disable", "blacklist"}
    /\ AdminRole \in roles[req[r].target]
    /\ Active(Loaded(r))

\* Mutant: _lock_user reads the row without FOR UPDATE.
LockUserNot(r) ==
    /\ At(r, "lock")
    /\ \/ Refused(r) /\ Rollback(r)
       \/ /\ ~Refused(r)
          /\ req' = [req EXCEPT ![r].loaded = Loaded(r),
                                ![r].op = IF NothingToDo(r) THEN "no_change" ELSE @,
                                ![r].pc = IF NothingToDo(r) THEN "commit"
                                          ELSE IF req[r].op = "assign" THEN "roles"
                                          ELSE IF NeedsGuard(r) THEN "guard" ELSE "commit"]
          /\ UNCHANGED <<row, roles, locks>>

LockUser(r) ==
    /\ At(r, "lock")
    /\ Granted(r)
    /\ \/ Refused(r) /\ Rollback(r)
       \/ /\ ~Refused(r)
          /\ userLock' = [userLock EXCEPT ![req[r].target] = r]
          /\ \/ /\ NothingToDo(r)
                /\ req' = [req EXCEPT ![r].pc = "commit", ![r].op = "no_change"]
             \/ /\ ~NothingToDo(r)
                /\ req' = [req EXCEPT ![r].loaded = Loaded(r),
                                      ![r].pc = IF req[r].op = "assign" THEN "roles"
                                                ELSE IF NeedsGuard(r) THEN "guard" ELSE "commit"]
          /\ UNCHANGED <<row, roles, roleLock, claim>>

\* _get_roles_by_ids: SELECT ... ORDER BY id FOR UPDATE locks row after row.
LockRole(r) ==
    /\ At(r, "roles")
    /\ req[r].todo # {}
    /\ Granted(r)
    /\ roleLock' = [roleLock EXCEPT ![NextRole(r)] = r]
    /\ req' = [req EXCEPT ![r].todo = @ \ {NextRole(r)}]
    /\ UNCHANGED <<row, roles, userLock, claim>>

\* assign_roles compares the roles wanted with the roles there are; when they are
\* the same it commits without an audit row.
Compare(r) ==
    LET current == roles[req[r].target]
    IN  /\ At(r, "roles")
        /\ req[r].todo = {}
        /\ \/ req[r].want = current /\ Rollback(r)
           \/ /\ req[r].want # current
              /\ Goto(r, IF AdminRole \in current \ req[r].want THEN "guard" ELSE "commit")
              /\ UNCHANGED <<row, roles, locks>>

\* Mutant: the administrators are counted without the lock on their role.
GuardUnlocked(r) ==
    /\ At(r, "guard")
    /\ \/ /\ \/ req[r].actor = req[r].target
             \/ Active(req[r].loaded) /\ Cardinality(ActiveAdmins) <= 1
          /\ Rollback(r)
       \/ /\ req[r].actor # req[r].target
          /\ Active(req[r].loaded) => Cardinality(ActiveAdmins) > 1
          /\ Goto(r, "commit")
          /\ UNCHANGED <<row, roles, locks>>

\* _ensure_can_remove_admin and _ensure_admin_role_removal_allowed: lock the admin
\* role, then count.
Guard(r) ==
    /\ At(r, "guard")
    /\ Granted(r)
    /\ \/ /\ \/ req[r].actor = req[r].target
             \/ Active(req[r].loaded) /\ Cardinality(ActiveAdmins) <= 1
          /\ Rollback(r)
       \/ /\ req[r].actor # req[r].target
          /\ Active(req[r].loaded) => Cardinality(ActiveAdmins) > 1
          /\ roleLock' = [roleLock EXCEPT ![AdminRole] = r]
          /\ Goto(r, "commit")
          /\ UNCHANGED <<row, roles, userLock, claim>>

\* UPDATE users ... WHERE id AND version: the row is looked at again once its lock
\* is granted, and a version that has moved on updates nothing.
UpdateRow(r) ==
    /\ At(r, "update")
    /\ Granted(r)
    /\ \/ row[req[r].target].version # req[r].version /\ Rollback(r)
       \/ /\ row[req[r].target].version = req[r].version
          /\ userLock' = [userLock EXCEPT ![req[r].target] = r]
          /\ Goto(r, IF req[r].op = "change_email" THEN "claim" ELSE "commit")
          /\ UNCHANGED <<row, roles, roleLock, claim>>

\* Mutant: users.email has no unique index, the earlier look at it is trusted.
ClaimUnchecked(r) ==
    /\ At(r, "claim")
    /\ Goto(r, "commit")
    /\ UNCHANGED <<row, roles, locks>>

\* The unique index on users.email: waits for a transaction that claims or gives
\* up the same e-mail, then refuses one that a committed row has (IntegrityError).
ClaimEmail(r) ==
    /\ At(r, "claim")
    /\ Granted(r)
    /\ \/ (\E v \in User \ {req[r].target} : row[v].email = req[r].email) /\ Rollback(r)
       \/ /\ \A v \in User \ {req[r].target} : row[v].email # req[r].email
          /\ claim' = [claim EXCEPT ![req[r].email] = r]
          /\ Goto(r, "commit")
          /\ UNCHANGED <<row, roles, userLock, roleLock>>

-----------------------------------------------------------------------------
\* The target's row as the transaction leaves it.  The ORM writes the columns it
\* was told to change, the version as one more than the one it loaded; update_user
\* increments it in SQL.
Written(r) ==
    LET a == row[req[r].target]
        v == req[r].loaded.version + 1
    IN  CASE req[r].op = "disable"      -> [a EXCEPT !.version = v, !.active = FALSE]
          [] req[r].op = "enable"       -> [a EXCEPT !.version = v, !.active = TRUE]
          [] req[r].op = "blacklist"    -> [a EXCEPT !.version = v, !.blacklisted = TRUE]
          [] req[r].op = "recover"      -> [a EXCEPT !.version = v, !.blacklisted = FALSE]
          [] req[r].op \in {"reset", "assign"} -> [a EXCEPT !.version = v]
          [] req[r].op = "rename"       -> [a EXCEPT !.version = @ + 1]
          [] req[r].op = "change_email" -> [a EXCEPT !.version = @ + 1, !.email = req[r].email]
          [] req[r].op = "create"       -> req[r].loaded
          [] OTHER                      -> a

\* assign_roles deletes and inserts rows of user_roles until they are those wanted.
WrittenRoles(r) == IF req[r].op = "assign" THEN req[r].want ELSE roles[req[r].target]

\* The audit row is inserted, which takes the share lock on the actor's row, and
\* the transaction commits.  Nobody can wait for r between the two.
Commit(r) ==
    LET u == req[r].target
    IN  /\ At(r, "commit")
        /\ Granted(r)
        /\ row' = [row EXCEPT ![u] = Written(r)]
        /\ roles' = [roles EXCEPT ![u] = WrittenRoles(r)]
        /\ Release(r)
        /\ Finish(r)

\* The worker dies, the database fails, or a wanted role is disabled.
Abort(r) == ~At(r, "idle") /\ Rollback(r)

\* PostgreSQL aborts a transaction that waits in a circle.
Deadlocked(r) == \E S \in SUBSET Req : r \in S /\ \A q \in S : Blockers(q) \cap S # {}
BreakDeadlock(r) == Deadlocked(r) /\ Rollback(r)

Start(r) == \E a, u \in User : \/ StartLocking(r, a, u) \/ StartAssign(r, a, u)
                               \/ StartUpdate(r, a, u) \/ StartCreate(r, a, u)
Proceed(r) == \/ LockUser(r) \/ LockRole(r) \/ Compare(r) \/ Guard(r)
              \/ UpdateRow(r) \/ ClaimEmail(r) \/ Commit(r)

Next == \E r \in Req : Start(r) \/ Proceed(r) \/ Abort(r) \/ BreakDeadlock(r)

Spec == Init /\ [][Next]_vars

\* A lock that is free again and again is granted in the end, and a deadlock is
\* found; clients and failures owe nothing.
Fairness == /\ \A r \in Req : SF_vars(Proceed(r))
            /\ WF_vars(\E r \in Req : BreakDeadlock(r))
FairSpec == Spec /\ Fairness
-----------------------------------------------------------------------------
(* Properties *)

\* Rows, locks and requests have the shapes the code gives them.
TypeOK ==
    /\ row \in [User -> Row]
    /\ roles \in [User -> SUBSET Role]
    /\ userLock \in [User -> Req \cup {NoReq}]
    /\ roleLock \in [Role -> Req \cup {NoReq}]
    /\ claim \in [Email -> Req \cup {NoReq}]
    /\ req \in [Req -> Request]

\* Whatever administrators do to each other at the same time, one who can act
\* remains (_ensure_can_remove_admin, _ensure_admin_role_removal_allowed).
AdminRemains == ActiveAdmins # {}

\* Two users never have the same e-mail, whatever create_user and update_user saw
\* when they looked.
EmailsUnique == \A u, v \in User : u # v /\ Exists(u) => row[u].email # row[v].email

WritingOp == Op \ {"force_logout", "create"}

\* A change that somebody else makes to a user advances the version by one, so that
\* an edit based on an older version is refused (_lock_user, _increment_version).
OthersAdvanceVersion ==
    [][\A r \in Req :
          Commit(r) /\ req[r].op \in WritingOp /\ req[r].actor # req[r].target =>
             row'[req[r].target].version = row[req[r].target].version + 1]_vars

\* Every operation that changes a users row advances its version by one, the ones
\* that users perform on themselves included.
VersionAdvances ==
    [][\A r \in Req :
          Commit(r) /\ req[r].op \in WritingOp =>
             row'[req[r].target].version = row[req[r].target].version + 1]_vars

Roster == INSTANCE AdminRoster WITH admins <- ActiveAdmins

\* The administrators change one at a time and are never used up.
RosterRefined == Roster!Spec
=============================================================================
