--------------------------- MODULE PermissionSync ---------------------------
(***************************************************************************)
(* How permissions come and go: the synchronisation of the main            *)
(* application's routes (the permission-sync command) and the snapshots    *)
(* that sub-applications report, while administrators switch and edit      *)
(* permissions, change those of the admin role, switch applications, and   *)
(* users log in.                                                           *)
(*                                                                         *)
(* A transaction reads committed rows, statement by statement; what it     *)
(* writes is seen when it commits.  Until then it holds the locks.         *)
(***************************************************************************)
EXTENDS Integers, FiniteSets

CONSTANTS
    Req, User, App,
    Main,            \* names of permissions that routes declare (two segments)
    Sub,             \* names that sub-applications report (three segments)
    Admins,          \* the users with the admin role
    Custom,          \* the permissions of the one other role, which all other users have
    Releases,        \* sets of routes: versions of the main application
    Endpoint, RouteName,
    MainApp, NoApp, NoReq, NoName,
    Mixes,           \* bound on the operations that occur together
    MaxVersion       \* bound on the version of a row that is operated on, for each of them

Switch == {"disable", "enable"}
Op == Switch \cup {"sync", "report", "edit", "assign"}

\* What require_permissions and a report's schema let through: at least one name of
\* two segments; any number of different names of three segments.
Dependency == SUBSET Main \ {{}}
Snapshot == SUBSET Sub
\* An APIRoute for one method and path, with its require_permissions dependencies
Route == [at : Endpoint, name : RouteName, admin : BOOLEAN, deps : SUBSET Dependency]

ASSUME SyncAssumption ==
    /\ Main \cap Sub = {} /\ IsFiniteSet(Main) /\ IsFiniteSet(Sub)
    /\ Admins \subseteq User /\ Custom \subseteq Main \cup Sub
    /\ Releases \subseteq SUBSET Route /\ {} \notin Releases
    /\ MainApp \notin App /\ NoApp \notin App \cup {MainApp}
    /\ NoReq \notin Req /\ NoName \notin Main \cup Sub
    /\ MaxVersion \in [Mixes -> Nat]

VARIABLES
    perm,        \* committed rows of permissions, by name
    binding,     \* committed rows of permission_endpoints
    adminRole,   \* whether there is a role named "admin", which the seed creates
    granted,     \* the permissions of the admin role
    app,         \* the sub-applications that are enabled
    syncLock, roleLock, appLock, permLock,   \* who holds the locks
    session,     \* of each user
    req,         \* the commands and requests that run
    mix,         \* the operations that occur in this behaviour
    applied,     \* history: the release whose sync committed last, {} before the first
    reported,    \* history: the last snapshot of each application that was accepted
    taken,       \* history: what administrators took from the admin role after that
    lost         \* history: what they took after a sync that runs had built its plan

vars == <<perm, binding, adminRole, granted, app, syncLock, roleLock, appLock, permLock,
          session, req, mix, applied, reported, taken, lost>>
rows == <<perm, binding, adminRole, granted, app, mix, applied, reported, taken>>
locks == <<syncLock, roleLock, appLock, permLock, lost>>

Name == Main \cup Sub
Binding == Main \X Endpoint \X RouteName
\* missing_at is set exactly while is_declared is false, so one field stands for both.
Row == [owner : App \cup {MainApp, NoApp}, declared : BOOLEAN, enabled : BOOLEAN, version : Nat]
NoRow == [owner |-> NoApp, declared |-> FALSE, enabled |-> FALSE, version |-> 0]
NewRow(owner) == [owner |-> owner, declared |-> TRUE, enabled |-> TRUE, version |-> 1]

\* raced: history, whether the login overlapped a change that takes from it.
Session == [open : BOOLEAN, scope : SUBSET Name, raced : BOOLEAN]

\* What a sync, a report or an assignment is going to do
Plan == [target : SUBSET Name, created : SUBSET Name, updated : SUBSET Name,
         removed : SUBSET Binding, added : SUBSET Binding,
         grants : SUBSET Name, users : SUBSET User]
NoPlan == [target |-> {}, created |-> {}, updated |-> {}, removed |-> {}, added |-> {},
           grants |-> {}, users |-> {}]

Step == {"idle", "advisory", "caller", "role", "plan", "rows", "flush", "grant", "lock", "edit", "wanted",
         "sweep", "commit"}
Request == [pc : Step, op : Op \cup {"none"}, release : Releases \cup {{}}, app : App \cup {NoApp},
            codes : Snapshot, name : Name \cup {NoName}, plan : Plan,
            seen : [Name -> Row],     \* the rows as they were loaded
            exit : 0..2]              \* exit status of the last command
Idle == [pc |-> "idle", op |-> "none", release |-> {}, app |-> NoApp, codes |-> {},
         name |-> NoName, plan |-> NoPlan, seen |-> [n \in Name |-> NoRow], exit |-> 0]

Owned(a) == {n \in Name : perm[n].owner = a}
Listed == {n \in Name : perm[n].owner # NoApp}      \* what list_permissions shows
\* The bindings in the database of the permissions that are the main application's
CurrentBindings == {b \in binding : b[1] \in Owned(MainApp)}
Declared(a) == {n \in Owned(a) : perm[n].declared}
RolePermissions(u) == IF u \in Admins THEN granted ELSE Custom
Effective(n) == perm[n].declared /\ perm[n].enabled
Held(u) == {n \in RolePermissions(u) : Effective(n)}

-----------------------------------------------------------------------------
(* The scan of a release's routes *)

Requires(route) == UNION route.deps
Bindings(release) == UNION {{<<n, route.at, route.name>> : n \in Requires(route)} : route \in release}
Names(release) == {b[1] : b \in Bindings(release)}
SameKey(b, c) == b[1] = c[1] /\ b[2] = c[2]       \* the primary key of permission_endpoints
\* Mutant: the names of routes are not compared.
ScanFailsUncovered(release) == \E route \in release : route.admin /\ Requires(route) = {}
\* An admin route without a permission, or two names for one binding: no result
ScanFails(release) ==
    \/ \E route \in release : route.admin /\ Requires(route) = {}
    \/ \E b, c \in Bindings(release) : SameKey(b, c) /\ b # c

(* build_plan, and what a report decides *)

\* The users whose sessions end: those who hold a permission whose effect changes, and
\* the administrators when there is something new for them.
Holders(names, grants) == {u \in User : \/ RolePermissions(u) \cap names # {}
                                        \/ u \in Admins /\ grants # {}}

SyncPlan(release) ==
    LET known == Owned(MainApp)
        target == Names(release)
        flipped == {n \in known : perm[n].declared # (n \in target)}   \* restored, marked missing
        removed == CurrentBindings \ Bindings(release)
        added == Bindings(release) \ CurrentBindings
        grants == target \ (known \cap granted)
    IN  [target |-> target, created |-> target \ known,
         updated |-> (target \ known) \cup flipped \cup {b[1] : b \in removed \cup added},
         removed |-> removed, added |-> added, grants |-> grants,
         users |-> Holders({n \in flipped : perm[n].enabled}, grants)]
HasChanges(plan) == plan.updated # {} \/ plan.grants # {}

\* Mutant: what is not declared stays that way when it is reported again.
ReportPlanOnce(a, codes) ==
    LET known == Owned(a)
        flipped == {n \in known \ codes : perm[n].declared}
        grants == codes \ granted
    IN  [NoPlan EXCEPT !.target = codes, !.created = codes \ known,
                       !.updated = (codes \ known) \cup flipped, !.grants = grants,
                       !.users = Holders({n \in flipped : perm[n].enabled}, grants)]
ReportPlan(a, codes) ==
    LET known == Owned(a)
        flipped == {n \in known : perm[n].declared # (n \in codes)}
        grants == codes \ granted
    IN  [NoPlan EXCEPT !.target = codes, !.created = codes \ known,
                       !.updated = (codes \ known) \cup flipped, !.grants = grants,
                       !.users = Holders({n \in flipped : perm[n].enabled}, grants)]

-----------------------------------------------------------------------------
\* A database whose sync is still to come, sub-applications that have not reported
Unsynced ==
    /\ perm = [n \in Name |-> NoRow]
    /\ binding = {} /\ app = App
    /\ syncLock = NoReq /\ roleLock = NoReq
    /\ appLock = [a \in App |-> NoReq] /\ permLock = [n \in Name |-> NoReq]
    /\ session = [u \in User |-> [open |-> FALSE, scope |-> {}, raced |-> FALSE]]
    /\ req = [r \in Req |-> Idle]
    /\ mix \in Mixes
    /\ applied = {} /\ reported = [a \in App |-> {NoName}]
    /\ taken = {} /\ lost = [r \in Req |-> {}]
\* The seed has run.
Init == Unsynced /\ adminRole = TRUE /\ granted = {}

At(r, step) == req[r].pc = step
Goto(r, step) == req' = [req EXCEPT ![r].pc = step]
Free(holder, r) == holder \in {NoReq, r}
Operable == \A n \in Name : perm[n].version < MaxVersion[mix]

Release(r) ==
    /\ syncLock' = IF syncLock = r THEN NoReq ELSE syncLock
    /\ roleLock' = IF roleLock = r THEN NoReq ELSE roleLock
    /\ appLock' = [a \in App |-> IF appLock[a] = r THEN NoReq ELSE appLock[a]]
    /\ permLock' = [n \in Name |-> IF permLock[n] = r THEN NoReq ELSE permLock[n]]
\* The end of a request; the command's exit status
End(r, status) == /\ Release(r)
                  /\ req' = [req EXCEPT ![r] = [Idle EXCEPT !.exit = status]]
                  /\ lost' = [lost EXCEPT ![r] = {}]
Rollback(r) == End(r, IF req[r].op = "sync" THEN 2 ELSE 0) /\ UNCHANGED <<rows, session>>

-----------------------------------------------------------------------------
(* The permission-sync command *)

\* No result of the scan, or no role to grant to (_get_admin_role)
CannotPlan(release) == ScanFails(release) \/ ~adminRole
\* run: the scan, and the plan built before any lock; --check answers with it, and
\* otherwise it is not used any more.
StartSync(r, release) ==
    /\ At(r, "idle") /\ Operable
    /\ req' = [req EXCEPT ![r] =
                 IF CannotPlan(release) THEN [Idle EXCEPT !.exit = 2]
                 ELSE [Idle EXCEPT !.pc = "advisory", !.op = "sync", !.release = release]]
    /\ UNCHANGED <<rows, locks, session>>
CheckSync(r, release) ==
    /\ At(r, "idle")
    /\ req' = [req EXCEPT ![r].exit = IF CannotPlan(release) THEN 2
                                      ELSE IF HasChanges(SyncPlan(release)) THEN 1 ELSE 0]
    /\ UNCHANGED <<rows, locks, session>>

\* Mutant: nobody waits for the advisory lock.
TakeAdvisoryLockFreely(r) ==
    /\ At(r, "advisory")
    /\ syncLock' = r
    /\ Goto(r, "plan")
    /\ UNCHANGED <<rows, roleLock, appLock, permLock, lost, session>>
TakeAdvisoryLock(r) ==
    /\ At(r, "advisory") /\ syncLock = NoReq
    /\ syncLock' = r
    /\ Goto(r, "plan")
    /\ UNCHANGED <<rows, roleLock, appLock, permLock, lost, session>>

\* The plan that is applied
BuildPlan(r) ==
    /\ At(r, "plan") /\ req[r].op = "sync"
    /\ req' = [req EXCEPT ![r].plan = SyncPlan(req[r].release), ![r].pc = "rows"]
    /\ UNCHANGED <<rows, locks, session>>

\* _apply_locked_plan selects the permissions again.
LoadRows(r) ==
    /\ At(r, "rows")
    /\ req' = [req EXCEPT ![r].seen = perm, ![r].pc = "flush"]
    /\ UNCHANGED <<rows, locks, session>>

\* The INSERTs into role_permissions share the rows that the new rows refer to: those of the
\* permissions are not to be had from who has them FOR UPDATE, and are not given to him
\* until the transaction with the INSERTs ends.
MayGrant(r) == \A n \in req[r].plan.grants, q \in Req \ {r} :
                  permLock[n] = q => req[q].op \notin Switch \cup {"assign"}
Shared(n, r) == \E q \in Req \ {r} : /\ req[q].op \in {"sync", "report"} /\ req[q].pc \in {"sweep", "commit"}
                                     /\ n \in req[q].plan.grants

\* The admin role's row is shared, too; a report or an assignment may have it.  An administrator
\* who has granted a permission since the plan was built makes the INSERT fail.
Grant(r) ==
    /\ At(r, "grant")
    /\ \/ /\ req[r].plan.grants = {}
          /\ Goto(r, "sweep")
          /\ UNCHANGED <<rows, locks, session>>
       \/ /\ req[r].plan.grants # {} /\ Free(roleLock, r)
          /\ req[r].plan.grants \cap granted # {}
          /\ Rollback(r)
       \/ /\ req[r].plan.grants # {} /\ Free(roleLock, r) /\ MayGrant(r)
          /\ req[r].plan.grants \cap granted = {}
          /\ roleLock' = r
          /\ Goto(r, "sweep")
          /\ UNCHANGED <<rows, syncLock, appLock, permLock, lost, session>>

-----------------------------------------------------------------------------
(* A sub-application's report *)

StartReport(r, a, codes) ==
    /\ "report" \in mix /\ At(r, "idle") /\ Operable
    /\ req' = [req EXCEPT ![r] = [Idle EXCEPT !.pc = "caller", !.op = "report",
                                              !.app = a, !.codes = codes]]
    /\ UNCHANGED <<rows, locks, session>>

\* Mutant: the application's row is read without its lock.
LockCallerUnlocked(r) ==
    /\ At(r, "caller")
    /\ \/ req[r].app \notin app /\ Rollback(r)
       \/ /\ req[r].app \in app
          /\ Goto(r, "role")
          /\ UNCHANGED <<rows, locks, session>>
\* _acquire_caller_lock and _lock_caller: two locks that the same reports contend for
LockCaller(r) ==
    LET a == req[r].app
    IN  /\ At(r, "caller") /\ Free(appLock[a], r)
        /\ \/ a \notin app /\ Rollback(r)
           \/ /\ a \in app
              /\ appLock' = [appLock EXCEPT ![a] = r]
              /\ Goto(r, "role")
              /\ UNCHANGED <<rows, syncLock, roleLock, permLock, lost, session>>

\* _get_admin_role: all reports wait for each other here.
LockAdminRole(r) ==
    /\ At(r, "role") /\ req[r].op = "report" /\ Free(roleLock, r)
    /\ \/ ~adminRole /\ Rollback(r)
       \/ /\ adminRole
          /\ roleLock' = r
          /\ Goto(r, "plan")
          /\ UNCHANGED <<rows, syncLock, appLock, permLock, lost, session>>

\* The application's permissions, _validate_name_ownership, and what is to change.
DecideReport(r) ==
    LET a == req[r].app
        foreign == {n \in req[r].codes : perm[n].owner \notin {a, NoApp}}
    IN  /\ At(r, "plan") /\ req[r].op = "report"
        /\ \/ foreign # {} /\ Rollback(r)
           \/ /\ foreign = {}
              /\ req' = [req EXCEPT ![r].plan = ReportPlan(a, req[r].codes),
                                    ![r].seen = perm, ![r].pc = "flush"]
              /\ UNCHANGED <<rows, locks, session>>

-----------------------------------------------------------------------------
(* What syncs and reports have in common *)

\* The UPDATEs wait for administrators who hold a row; a report grants in the same step.
Flush(r) ==
    LET names == req[r].plan.updated
    IN  /\ At(r, "flush")
        /\ \A n \in names : Free(permLock[n], r)
        /\ req[r].op = "report" => MayGrant(r)
        /\ permLock' = [n \in Name |-> IF n \in names THEN r ELSE permLock[n]]
        /\ Goto(r, IF req[r].op = "sync" THEN "grant" ELSE "sweep")
        /\ UNCHANGED <<rows, syncLock, roleLock, appLock, lost, session>>

\* Mutant: only what is new is a reason to end sessions.
SweptForGrants(r) == IF req[r].op = "disable" THEN Holders({req[r].name}, {})
                     ELSE Holders({}, req[r].plan.grants)
\* Whose sessions a request ends
Swept(r) == IF req[r].op = "disable" THEN Holders({req[r].name}, {}) ELSE req[r].plan.users
Sweep(r) ==
    /\ At(r, "sweep")
    /\ session' = [u \in User |-> IF u \in Swept(r) THEN [session[u] EXCEPT !.open = FALSE]
                                  ELSE session[u]]
    /\ Goto(r, "commit")
    /\ UNCHANGED <<rows, locks>>

\* Mutant: every column of the row is written.
WrittenWhole(r, n) ==
    LET plan == req[r].plan
    IN  IF n \in plan.created THEN NewRow(IF req[r].op = "sync" THEN MainApp ELSE req[r].app)
        ELSE [req[r].seen[n] EXCEPT !.declared = n \in plan.target, !.version = @ + 1]
\* The columns that were changed are written; the version is one more than the one
\* loaded, whatever it is by now.
Written(r, n) ==
    LET plan == req[r].plan
    IN  IF n \in plan.created THEN NewRow(IF req[r].op = "sync" THEN MainApp ELSE req[r].app)
        ELSE [perm[n] EXCEPT !.declared = n \in plan.target,
                             !.version = req[r].seen[n].version + 1]

Commit(r) ==
    LET plan == req[r].plan
        deleted == {b \in binding : \E c \in plan.removed : SameKey(b, c)}
    IN  /\ At(r, "commit") /\ req[r].op \in {"sync", "report"}
        /\ perm' = [n \in Name |-> IF n \in plan.updated THEN Written(r, n) ELSE perm[n]]
        /\ binding' = (binding \ deleted) \cup plan.added
        /\ granted' = granted \cup plan.grants
        /\ IF req[r].op = "sync"
           THEN applied' = req[r].release /\ UNCHANGED reported
           ELSE reported' = [reported EXCEPT ![req[r].app] = plan.target] /\ UNCHANGED applied
        /\ taken' = (taken \ plan.target) \cup (lost[r] \cap plan.target)
        /\ End(r, 0)
        /\ UNCHANGED <<adminRole, app, mix, session>>

-----------------------------------------------------------------------------
(* Administrators and users *)

\* disable_permission and enable_permission
StartSwitch(r, n) ==
    /\ At(r, "idle") /\ n \in Listed /\ Operable
    /\ \E op \in mix \cap Switch :
          req' = [req EXCEPT ![r] = [Idle EXCEPT !.pc = "lock", !.op = op, !.name = n]]
    /\ UNCHANGED <<rows, locks, session>>
LockPermission(r) ==
    LET n == req[r].name
        refused == IF req[r].op = "disable" THEN ~perm[n].enabled
                   ELSE perm[n].enabled \/ ~perm[n].declared
    IN  /\ At(r, "lock") /\ Free(permLock[n], r)
        /\ ~Shared(n, r)
        /\ \/ refused /\ Rollback(r)
           \/ /\ ~refused
              /\ permLock' = [permLock EXCEPT ![n] = r]
              /\ Goto(r, IF req[r].op = "disable" THEN "sweep" ELSE "commit")
              /\ UNCHANGED <<rows, syncLock, roleLock, appLock, lost, session>>
CommitSwitch(r) ==
    /\ At(r, "commit") /\ req[r].op \in Switch
    /\ perm' = [perm EXCEPT ![req[r].name].enabled = req[r].op = "enable",
                            ![req[r].name].version = @ + 1]
    /\ End(r, 0)
    /\ UNCHANGED <<binding, adminRole, granted, app, mix, applied, reported, taken, session>>

\* update_permission: the row is read and has the version that was shown; the UPDATE looks
\* at the version again once it has the row.  What is edited is not modelled.
StartEdit(r, n) ==
    /\ "edit" \in mix /\ At(r, "idle") /\ n \in Listed /\ Operable
    /\ req' = [req EXCEPT ![r] = [Idle EXCEPT !.pc = "edit", !.op = "edit", !.name = n,
                                              !.seen[n] = perm[n]]]
    /\ UNCHANGED <<rows, locks, session>>
UpdatePermission(r) ==
    LET n == req[r].name
    IN  /\ At(r, "edit") /\ Free(permLock[n], r)
        /\ \/ perm[n].version # req[r].seen[n].version /\ Rollback(r)
           \/ /\ perm[n].version = req[r].seen[n].version
              /\ permLock' = [permLock EXCEPT ![n] = r]
              /\ Goto(r, "commit")
              /\ UNCHANGED <<rows, syncLock, roleLock, appLock, lost, session>>
CommitEdit(r) ==
    /\ At(r, "commit") /\ req[r].op = "edit"
    /\ perm' = [perm EXCEPT ![req[r].name].version = @ + 1]
    /\ End(r, 0)
    /\ UNCHANGED <<binding, adminRole, granted, app, mix, applied, reported, taken, session>>

\* assign_permissions on the admin role, whose version is not modelled: a request that
\* brings an old one ends like one that fails.
StartAssign(r, want) ==
    /\ "assign" \in mix /\ At(r, "idle") /\ adminRole /\ want \subseteq Listed
    /\ req' = [req EXCEPT ![r] = [Idle EXCEPT !.pc = "role", !.op = "assign", !.plan.target = want]]
    /\ UNCHANGED <<rows, locks, session>>
\* Its lock on the role, and what it asks of the permissions that the role has, read
\* without their locks: none that is effective is taken from the admin role.
LockRoleToAssign(r) ==
    LET want == req[r].plan.target
        refused == want = granted \/ \E n \in granted \ want : Effective(n)
    IN  /\ At(r, "role") /\ req[r].op = "assign" /\ Free(roleLock, r)
        /\ \/ refused /\ Rollback(r)
           \/ /\ ~refused
              /\ roleLock' = r
              /\ req' = [req EXCEPT ![r].pc = "wanted", ![r].plan.grants = want \ granted,
                                    ![r].plan.users = Admins]
              /\ UNCHANGED <<rows, syncLock, appLock, permLock, lost, session>>
\* _get_permissions_by_ids locks those that are wanted; what is new must be effective.
LockWanted(r) ==
    LET plan == req[r].plan
    IN  /\ At(r, "wanted")
        /\ \A n \in plan.target : Free(permLock[n], r) /\ ~Shared(n, r)
        /\ \/ (\E n \in plan.grants : ~Effective(n)) /\ Rollback(r)
           \/ /\ \A n \in plan.grants : Effective(n)
              /\ permLock' = [n \in Name |-> IF n \in plan.target THEN r ELSE permLock[n]]
              /\ Goto(r, "sweep")
              /\ UNCHANGED <<rows, syncLock, roleLock, appLock, lost, session>>
\* A sync that has a plan
Planning(q) == req[q].op = "sync" /\ req[q].pc \in {"rows", "flush", "grant", "sweep", "commit"}
CommitAssign(r) ==
    LET want == req[r].plan.target
        removed == granted \ want
    IN  /\ At(r, "commit") /\ req[r].op = "assign"
        /\ granted' = want
        /\ taken' = (taken \cup removed) \ want
        /\ lost' = [q \in Req |-> IF Planning(q) THEN (lost[q] \cup removed) \ want ELSE lost[q]]
        /\ Release(r) /\ req' = [req EXCEPT ![r] = Idle]
        /\ UNCHANGED <<perm, binding, adminRole, app, mix, applied, reported, session>>

\* disable_app and enable_app, which need nothing but the application's row
SwitchApp(a) ==
    /\ appLock[a] = NoReq
    /\ app' = IF a \in app THEN app \ {a} ELSE app \cup {a}
    /\ UNCHANGED <<perm, binding, adminRole, granted, mix, applied, reported, taken, locks, session, req>>

\* q has looked at who holds what and has not committed: it will take something from u.
Concerns(q, u) ==
    \/ /\ req[q].pc \in {"rows", "flush", "grant", "sweep", "commit"}
       /\ (req[q].plan.updated \ req[q].plan.target) \cap Held(u) # {}
    \/ At(q, "commit") /\ req[q].op = "disable" /\ req[q].name \in Held(u)
    \/ At(q, "commit") /\ req[q].op = "assign" /\ u \in Admins /\ Held(u) \ req[q].plan.target # {}
Login(u) ==
    /\ adminRole /\ ~session[u].open
    /\ session' = [session EXCEPT ![u] = [open |-> TRUE, scope |-> Held(u),
                                          raced |-> \E q \in Req : Concerns(q, u)]]
    /\ UNCHANGED <<rows, locks, req>>

\* A process dies, a store fails; sessions that were swept stay so.
Abort(r) == ~At(r, "idle") /\ Rollback(r)

-----------------------------------------------------------------------------
Start(r) == \/ /\ "sync" \in mix
               /\ \E release \in Releases : StartSync(r, release) \/ CheckSync(r, release)
            \/ \E a \in App, codes \in Snapshot : StartReport(r, a, codes)
            \/ \E n \in Name : StartSwitch(r, n) \/ StartEdit(r, n)
            \/ \E want \in SUBSET Name : StartAssign(r, want)
Proceed(r) == \/ TakeAdvisoryLock(r) \/ BuildPlan(r) \/ LoadRows(r) \/ Grant(r)
              \/ LockCaller(r) \/ LockAdminRole(r) \/ DecideReport(r)
              \/ Flush(r) \/ Sweep(r) \/ Commit(r)
              \/ LockPermission(r) \/ CommitSwitch(r) \/ UpdatePermission(r) \/ CommitEdit(r)
              \/ LockRoleToAssign(r) \/ LockWanted(r) \/ CommitAssign(r) \/ Abort(r)

Next == \/ \E r \in Req : Start(r) \/ Proceed(r)
        \/ \E a \in App : SwitchApp(a)
        \/ \E u \in User : Login(u)

Spec == Init /\ [][Next]_vars
-----------------------------------------------------------------------------
(* Properties *)

\* Rows, plans and requests have the shapes the code gives them; bindings have the
\* primary key of their table.
TypeOK ==
    /\ perm \in [Name -> Row]
    /\ binding \subseteq Binding /\ \A b, c \in binding : SameKey(b, c) => b = c
    /\ adminRole \in BOOLEAN /\ granted \subseteq Name /\ app \subseteq App
    /\ syncLock \in Req \cup {NoReq} /\ roleLock \in Req \cup {NoReq}
    /\ appLock \in [App -> Req \cup {NoReq}] /\ permLock \in [Name -> Req \cup {NoReq}]
    /\ session \in [User -> Session]
    /\ req \in [Req -> Request]
    /\ mix \in Mixes /\ applied \in Releases \cup {{}}
    /\ reported \in [App -> SUBSET (Sub \cup {NoName})]
    /\ taken \subseteq Name /\ lost \in [Req -> SUBSET Name]

\* A deployment applies the permissions and then checks them (dry-run, apply, check):
\* once a release is applied the check finds no difference, whatever syncs ran at the same
\* time and whatever administrators and sub-applications do before the check, but for what
\* administrators have taken from the admin role since the plan that was applied.
CheckPassesAfterApply ==
    applied # {} => LET plan == SyncPlan(applied) IN plan.updated = {} /\ plan.grants \subseteq taken

\* What a sub-application has declared is what its last accepted report says, whatever other
\* applications have reported; the administrators have all of it, but for what one of them
\* has taken from their role since.
ReportsHold ==
    \A a \in App : reported[a] # {NoName} =>
       Declared(a) = reported[a] /\ reported[a] \ taken \subseteq granted

\* Only an administrator changes whether a permission is enabled: a sync or report that
\* loaded the row before does not undo it.
DecisionsKept ==
    [][\A n \in Name :
          perm[n].owner # NoApp /\ perm'[n].enabled # perm[n].enabled
              => \E r \in Req : req[r].op \in Switch /\ req[r].name = n /\ CommitSwitch(r)]_vars

\* The permission n changes, or what it is bound to.
Changes(n) == perm'[n] # perm[n] \/ \E b \in (binding \ binding') \cup (binding' \ binding) : b[1] = n
\* A change of a permission keeps its version, or brings an earlier one back, only when it is
\* a sync's or report's, and the row got later versions since that loaded it.  They are
\* administrators': nobody else has declared or retired the permission since, because
\* other syncs and reports are kept away by their locks.
OnlyAdministratorsLoseVersions ==
    [][\A n \in Name :
          perm[n].owner # NoApp /\ Changes(n) /\ perm'[n].version <= perm[n].version
          => \E r \in Req : /\ Commit(r) /\ n \in req[r].plan.updated
                            /\ req[r].seen[n].version < perm[n].version
                            /\ req[r].seen[n].declared = perm[n].declared]_vars

\* Every declaration, retirement and switch of a permission takes a new version, as an
\* optimistic lock needs: an edit that was shown an older one is refused.
StatusTakesVersion ==
    [][\A n \in Name :
          /\ perm[n].owner # NoApp
          /\ perm'[n].enabled # perm[n].enabled \/ perm'[n].declared # perm[n].declared
          => perm'[n].version > perm[n].version]_vars

\* No report is accepted from an application that is disabled by the time it commits.
SilentOnceDisabled ==
    [][\A r \in Req : req[r].op = "report" /\ Commit(r) => req[r].app \in app]_vars

\* The sessions of everybody who loses a permission end with it: an open session claims
\* only what its user holds, unless its login overlapped the change.
SweepsReachEveryone ==
    \A u \in User : session[u].open /\ ~session[u].raced => session[u].scope \subseteq Held(u)
=============================================================================
