# Verification of the authentication centre (tsuz-api-main)

The repository is a FastAPI service that issues sessions and tokens to the users of
several applications, and lets administrators manage users, roles, permissions and
applications. This directory holds TLA+ models of it, the TLC configurations that check
them and proofs for TLAPS. Paths below are relative to the repository.

## The system

PostgreSQL (SQLAlchemy 2, READ COMMITTED, `autoflush=False`) holds users, sessions, roles,
permissions, applications and grants. Redis holds refresh token hashes, revocation markers,
the access token blacklist, e-mail challenges and send counters. Access tokens are RS256
JWTs. Gunicorn runs several Uvicorn workers; every request runs in a worker's thread pool
with a database session (one transaction at a time) of its own, so any two requests interleave at every
exchange with a store, and a request may die at any of them.

| Component | State | Operations | Correct when |
|---|---|---|---|
| Session and token lifecycle (`auth_service`, `refresh_token_service`, `session_service`, `blacklist_service`, `token_service`, `authorization_service`, `api/auth`, `api/dependencies`) | `users`, `sessions`; Redis: token hashes, markers, blacklist | login, refresh, logout, authenticate, revoke one or all sessions | an ended session is never served again; a sweep misses no session; the stores agree; a marker outlives the tokens it bars |
| Admin users (`admin_user_service`, `api/admin_users`) | `users`, `user_roles`, `audit_events` | create, update, disable, enable, blacklist, recover, reset password, force logout, assign roles | one active administrator always remains; e-mails are unique; versions advance; nobody waits for ever |
| Admin roles, admin permissions (`admin_role_service`, `admin_permission_service`) | `roles`, `permissions`, `role_permissions` | create, update, disable, enable, assign | tokens whose claims are outdated are revoked; the admin role keeps its permissions |
| Permission sync and sub-application report (`permission_sync_service`, `permission_report_service`, `permission_scanner`) | `permissions`, `permission_endpoints`, `role_permissions` | build and apply a plan; report | declared permissions follow the code; names have one owner; no update is lost |
| E-mail registration, reset, challenges (`email_auth_service`, `verification_challenge_service`) | Redis challenges and counters | send, register, reset, consume | a code is used once and tried a bounded number of times; send limits hold |
| Applications, scopes, grants, service tokens (`admin_app_service`, `resource_scope_service`, `app_service_grant_service`, `service_token_service`, `deps/service_auth`) | `apps`, `resource_scopes`, `app_service_grants` | manage; issue and verify a token | a token carries only granted scopes, and dies within its life of a revocation |
| JCC client (`clients/jcc_client`) | per-process token cache | fetch, reuse | a token handed out is still good; one fetch at a time |
| Seed and local initialisation (`scripts/init_local`, `app/seed`) | environment file, image, schema revision, admin role, running API | initialise, seed | whatever failed and was run again, what runs agrees with the file and the database |
| Migrations (`alembic`) | schema revision | upgrade | modelled as far as local initialisation and existing permissions meet them |
| Configuration, logging, schemas, health, wiring, validation scripts, deployment | none at run time | | not modelled |

The components meet at three places, and where one calls another. `revoke_user_sessions` and `revoke_session` are called
by every component that changes what a token stands for. The row locks of `users` and of the
admin role serialise the operations. And a Redis write takes effect at once, while the
PostgreSQL change that goes with it appears at the commit, or never. The calls: the JCC client
asks the token endpoint, sub-applications report with a service token, and local initialisation
runs the migration, the seed and the permission-sync command as processes of their own.

What is hard is listed, with its line, under `hazards` in `PROJECT.json`.

## Modules

| Module | What it is |
|---|---|
| `SessionLifecycle` | sessions, tokens and the administrator's sweeps, step by step |
| `SessionAuthority` | what these promise: a session opens once, ends once, and is not served to a request that arrives later |
| `MCSessionLifecycle` | symmetry for TLC |
| `SessionInvariant` | the inductive invariant of `SessionLifecycle` and what its parts need |
| `SessionLifecycle_proofs` | its inductiveness, and the theorems |
| `AdminUsers` | administrators who act on users, and on each other, at the same time |
| `AdminRoster` | what that promises: administrators come and go one at a time, and the last never goes |
| `MCAdminUsers` | symmetry for TLC |
| `AdminUsers_proofs` | the inductive invariant of `AdminUsers`, and the theorems |
| `RoleClaims` | administrators who edit roles and permissions, while logins and refreshes read them into tokens |
| `MCRoleClaims` | symmetry for TLC |
| `RoleClaims_proofs` | the inductive invariant of `RoleClaims`, and the theorems |
| `PermissionSync` | the permission-sync command, the reports of sub-applications, and the administrators in between |
| `PermissionSync_proofs` | the inductive invariant of `PermissionSync`, and the theorems |
| `LocalInit` | composes `PermissionSync` with the initialisation script, the migration and the seed around it |
| `LocalInit_proofs` | what the composition adds to that invariant, and the theorems |
| `MCPermissionSync` | the releases, and symmetry for TLC |
| `EmailChallenge` | codes by e-mail, their limits, and the registrations and resets they permit |
| `OneTimeCode` | what a code promises: tried a limited number of times, right at most once, then worth nothing |
| `MCEmailChallenge` | spellings, forwarded lists and mixes for TLC |
| `EmailChallenge_proofs` | the inductive invariant of `EmailChallenge`, and the theorems |
| `ServiceAuth` | applications, scopes, grants and the service tokens issued on them |
| `JccClient` | composes `ServiceAuth` with the threads of a client that caches its tokens |
| `JccClient_proofs` | the inductive invariants of `ServiceAuth` and of `JccClient`, and the theorems |
| `MCRequestsEnd` | the requests of `AdminUsers` or those of `SessionLifecycle`, without symmetry, for liveness |
| `MCJccClient` | scopes, windows and mixes for TLC, and symmetry |

### SessionLifecycle and the code

`account` and `session` are the committed rows; what a transaction has written and not
committed is in its request's record (`sweep`, `fresh`, `sid`), so a rollback is the loss of
that record. `userLock` and `sessionLock` are the row locks of `SELECT ... FOR UPDATE` and
`UPDATE`. `markedAt`, `token` and `blackUntil` are the Redis keys, with the time they were
written; expiry is a comparison with `now`. A pair `k` is a refresh token together with the
access token returned beside it. `delivered` are the pairs some client has received; the
response to a login may be lost, and an `Abort` just after the rotation is a lost response to a
refresh.

Every handler is one action per exchange with a store, named for it:
`StartLogin` (`login_by_email`), `LoginLock`, `LoginMint`, `LoginCommit` (`complete_login`);
`StartRefresh`, `RefreshCheck`, `RefreshMint`, `RefreshRotate` (`rotate_refresh_token`),
`RefreshUser`, `RefreshRecheck`, `RefreshIssue` (`AuthService.refresh`); `StartLogout` and the
three `Revoke` steps (`revoke_session` and its caller's commit, shared by logout and refresh);
`StartAdmin` and the four `Admin` steps (`AdminUserService`); `StartAuthenticate`, `AuthUser`,
`AuthServe` (`authenticate_access_token` and the endpoint behind it). `Abort` ends any request
anywhere: worker death, store failure, failed commit.

Choices worth knowing:

- The SQLAlchemy identity map is modelled where it matters. `login_by_email` keeps a
  reference to the `User` it read, so the locked re-read returns the same attributes
  (`seenUser`). Rows of `sessions` are not kept referenced between two reads, so
  `ensure_session_active` reads the row afresh each time.
- `ensure_session_active` reads Redis, then PostgreSQL. They are one step: a session leaves
  the active state only, so a change in between can only turn the second read into a
  rejection, which is the outcome of an earlier read of both.
- When a refresh detects reuse, `revoke_session` runs twice, in `rotate_refresh_token` and in
  `AuthService.refresh`, in the same transaction. The second finds the row revoked and writes
  the marker again; the model has one.
- The e-mail change of `update_user`, `assign_roles` and the e-mail password reset sweep
  sessions under the same user lock as `force_logout` and `reset`, and `force_logout` stands
  for them here.
- `Stall` bounds how long a request runs. Nothing in the code bounds it (Gunicorn's timeout
  watches the worker, not a request in its thread pool). `TimingAssumption` asks that a request
  ends before a marker written during it can expire *minus* an access token's life: with the defaults
  (7 days, 60 minutes), within 6 days and 23 hours.
- Ids and tokens are random in the code; the model draws one that nothing else has.

### AdminUsers and the code

A request is one transaction. `row` and `roles` are the committed rows of `users` and
`user_roles`; what a transaction would write is computed at its `Commit` (`Written`) from its
record, so a rollback is the loss of that record. `userLock` and `roleLock` are row locks,
`claim` the entry in the unique index on e-mail of a row not yet committed. `req[r].loaded` is the
target's `User` object in the ORM session.

`StartLocking`, `StartAssign`, `StartUpdate` and `StartCreate` are the endpoints after
`require_permissions`, with the unlocked reads of `update_user` and `create_user`. `LockUser`
is `_lock_user` and the checks that follow it in each operation; `LockRole` one row of
`_get_roles_by_ids`; `Compare` the rest of `assign_roles`; `Guard` is
`_ensure_can_remove_admin` and `_ensure_admin_role_removal_allowed`; `UpdateRow` the versioned
UPDATE; `ClaimEmail` the unique index; `Commit` is `_finish_change` or `_finish_no_change`,
the audit row and the commit; `Abort` any failure; `BreakDeadlock` is PostgreSQL's.

Choices worth knowing:

- Whoever acts on himself finds, under the lock, the `User` that `require_permissions` loaded: the
  identity map returns the object it has, unrefreshed (`Loaded`).
- `Guard` locks the admin role and then counts. The two are one step: whoever could change the
  count in between waits for the lock, or only adds an administrator.
- The foreign key of the audit row takes FOR KEY SHARE on the actor's row. It is part of
  `Commit`, since the insert is the last exchange before the commit and a share lock
  held for that moment delays nobody who would not be delayed by the commit itself. An update that leaves the e-mail
  alone takes FOR NO KEY UPDATE, which tolerates it (`Blockers`).
- Any active user may be an administrator here: the permission of the actor is not
  modelled, which only adds behaviours.
- A wanted role that is disabled ends the request as `Abort` does. Names, passwords and audit
  details are left out. The sweep of sessions is in `SessionLifecycle`.
- `MaxVersion` bounds the versions of the rows that are operated on and `Ops` the operations
  that occur, both in the guards of the `Start` actions.

### RoleClaims and the code

`role` and `perm` are the committed rows, `role_permissions` a set in its role's row. What an
administrator was shown (`seenRole`, `seenPerm`), the row as the service read it (`before`, `was`)
and the effective permissions read before any lock are in the request's record. A session is
open or barred; a token is what `_build_claims` found, in two statements (`ReadNames`,
`ReadScope`).

`ViewRole`, `ViewPermissions` and `ViewPermission` are the GET an edit is based on. `CheckRole` and
`UpdateRole` are `update_role`, `InsertRole` is `create_role` after its look (`StartCreate`),
`LockRole` is `_lock_role` with the checks of each operation, `LockTarget` one row of
`_get_permissions_by_ids`, `DecideAssignment` the rest of `assign_permissions`;
`CheckPermission` and `UpdatePermission` are `update_permission`, `LockPermission` the two
switches. `Sweep` is `_revoke_role_user_sessions` or `_revoke_permission_user_sessions`, `Commit` the
audit event and the commit, `CommitLogin` and `IssueRefreshed` the ends of `complete_login` and
`AuthService.refresh`.

- The sweep is one step here; that markers are written one by one is in `SessionLifecycle`. It
  sees the sessions that are committed, and that is the point of this module.
- `raced` remembers whether a token was made while a change that takes from its user had made its
  sweep and was not committed, or by a request that was reading the token's claims at that commit,
  whenever it mints (`MarkRaced`). `OutdatedOnlyByRace` says this is the only way to a live token
  with an outdated scope; `OpensOnlyWhatIsHeld` says there is no way, and is violated.
- `member` does not change: `assign_roles` locks the users row and sweeps under that lock
  (`AdminUsers`, `SessionLifecycle`).
- Labels and descriptions are left out: `describe` and `relabel` change the version only.

### PermissionSync, LocalInit and the code

`perm`, `binding` and `granted` are the committed rows of `permissions`, `permission_endpoints` and
of the admin role's `role_permissions`. A release is a set of routes; `ScanFails`, `Bindings`,
`SyncPlan` and `ReportPlan` are `scan_permissions`, `build_plan` and what
`PermissionReportService.report` decides, as operators. The command is `StartSync` or `CheckSync`
(`run`, with the plan before the lock), `TakeAdvisoryLock`, `BuildPlan`, `LoadRows`, `Flush`,
`Grant`, `Sweep`, `Commit`; a report is `StartReport`, `LockCaller`, `LockAdminRole`,
`DecideReport`, `Flush`, `Sweep`, `Commit`. The operations of administrators that write the same rows are here in short, in full in `RoleClaims`:
- the switches: `StartSwitch`, `LockPermission`, `Sweep`, `CommitSwitch`;
- edits (`update_permission`): `StartEdit`, `UpdatePermission`, whose UPDATE steps the version in SQL and holds
  the row until `CommitEdit`;
- assignments to the admin role (`assign_permissions`): `StartAssign`, `LockRoleToAssign`, which refuses
  to take a permission that is effective, `LockWanted`, `Sweep`, `CommitAssign`. A permission that is
  disabled may be taken from the admin role although it is declared; so `granted` shrinks. `taken`
  remembers what was taken since the plan that was applied, `lost` what was taken while a plan was under way.

- Rows are loaded by one statement and written by another, column by column: `Written` leaves
  `enabled` as it finds it and makes the version one more than the one loaded (`OnlyAdministratorsLoseVersions` and `StatusTakesVersion` are about what becomes of it).
- The rows of a flush are locked in one step; two flushes of the same names exclude each other by
  the advisory lock or the application's row before they come to it. An assignment locks the permissions it wants in one step, too.
- The foreign keys of `role_permissions` take FOR KEY SHARE on the permissions of new grants: `MayGrant` waits
  for whoever has one FOR UPDATE, `Shared` keeps it from others until the grant's transaction ends. A sync
  and an assignment may wait for each other in a circle; `Abort` stands for the one that PostgreSQL ends.
- The admin role's own version is left out: an assignment based on an old one ends as a failure does. Who is
  administrator is fixed (`Admins`), and what the other users hold does not change (`Custom`):
  assignments to other roles are in `RoleClaims`.
- `missing_at` is set exactly while a permission is not declared, so one field stands for both.
- `Operable` bounds versions by `MaxVersion` in the guards of the `Start` actions.

`LocalInit` adds `scripts/init_local.py`: `Steps` are the steps of `initialize_local`, with the two
transactions of the migration and the seed cut at their reads. `Fail` ends a script anywhere; its
sync, a process of its own, may run on in `req`. `LinkEnv` is `os.link`, which does not
replace a file. `Upgrade` is `alembic upgrade head`: a database is found empty, at a
revision before 0005 with permissions of the old form, or at head.

- An operator edits only an environment file that is missing or not fit; a script that is done is
  not run again. `req[r]` is the command that script `r` runs as its sync step, so nobody else
  starts one there while the script is under way; an operator's own commands take other slots. The printed diagnostics and the seed's `ensure_user_role` are left out.
- Revisions 0005 and 0008 are modelled by what they make of existing permissions. The others
  create the tables that the models start from. Downgrades are not modelled.

### EmailChallenge and the code

Each Redis key is kept with the time left to it, so the clock needs no bound. `CheckLimits` is
`_RATE_LIMIT_SCRIPT`, `Consume` is `_CONSUME_SCRIPT`, each atomic as Redis runs it; `StoreChallenge`
the MULTI of `create`, `SendMail` the provider (external: it accepts or fails), `Discard` the
deletion after a failure. `ClientIp` is `get_client_ip`. Registration goes `Consume`,
`LockNormalRole`, `LookForUser`, `Flush`, `CommitRegister`, `LoadRegistered`, `CompleteLogin`; a reset goes
`LockUser`, `Consume`, `CommitReset`; `StartAdmin`, `CommitAdmin` and `SwitchNormalRole` are the
administrators that get in their way. `create` and `register` meet in the unique index on
addresses (`Inserting`).

- A code is right or wrong; ids are random, so nobody draws one twice. A challenge that was used stays
  `spent` in the model to remember what happened to it; in Redis its key is gone.
- After the commit of a registration `user.id` loads the user again (`LoadRegistered`), and
  `complete_login` decides by that copy when it has the row's lock, as in `LoginUsesCurrentAccount`: a
  disable in between is overlooked. No property here depends on it.
- `accepted` remembers the codes let through for as long as any property asks.
- A `ChallengeStateError` in `reset_password` (a malformed hash) is not modelled: no code
  path writes one.

### ServiceAuth, JccClient and the code

`app`, `scope` and `grant` are the committed rows with the times that their operations write.
`LockRow` is `_lock_app`, `_lock_scope` or the join of `revoke_grant` with the check that follows;
`ViewApp`, `ReadApp`, `UpdateApp` are `update_app`, whose UPDATE compares the version in SQL;
`ReadGrant` and `InsertGrant` are `create_grant`. A token request reads in four steps, as the
code's statements do: `StartIssue` (`authenticate_client`), `ReadTarget`, `ReadGrants`
(`effective_scopes`), `Encode`. `Accepts` and `Serves` are `get_service_principal` and
`require_service_scope` at the resource side, which looks at no row.

- An application that asks for itself is not read again by `ReadTarget`: the ORM has the row.
- `create_app` and `create_scope` are one step each: rows are never deleted and identifiers are
  unique, so nothing can come between their check and their commit. The FOR KEY SHARE locks of
  foreign keys disturb nobody, since no operation changes a key.
- `Stall` bounds the running time of a token request or administrator's request. A token that nobody accepts any more is
  forgotten in `Tick`. Whole seconds of `exp` are abstracted: one unit of time is many seconds.
- Secrets are counted instead of hashed; a client may present any earlier one.

`JccClient` puts threads on top: `StartCall` and `Acquire` are the two looks of
`_get_service_token` at the cache, outside and inside the lock, `Post`, `Receive`, `FetchFails`
the HTTP call to the token endpoint, which is a request of `ServiceAuth` in the thread's own slot, `Use` the
call to JCC, `Restart` the loss of the process and its cache. `ClientAssumption` asks that a call
to JCC ends within the refresh margin and, with its fetch, within a token's life. The code does not enforce this: the 10 seconds of
`httpx.Timeout` are those of each connect, read and write, not of the call, so an answer that trickles in may take longer. No endpoint calls the
client yet; its tests do.

### What the runs check

Time in `SessionLifecycle` is counted in units with `AccessTTL` 1, `RefreshTTL` 2, `Grace` 0, `Stall` 1, the
smallest values at which a token expires before its marker, a marker expires within the
run, and a replay falls within and after the grace.

| Run | Instance | What it shows |
|---|---|---|
| `session_safety` | 1 user, 1 session, 3 pairs, 2 requests, clock to 2 | types, `EndedNeverServed`, `MarkerOutlivesTokens`, `StoresAgree`, `SweepIsComplete`, and the refinement of `SessionAuthority` |
| `session_stale_login` | as the first, with reset and blacklist | **violated**: `LoginUsesCurrentAccount` |
| `session_fork` | as the first | **violated**: `RotatedOnce` |
| `admin_roster` | 3 users of whom 2 exist, 3 e-mails, the admin role, 2 requests, every operation | types, `AdminRemains`, `EmailsUnique`, `OthersAdvanceVersion` and the refinement of `AdminRoster` |
| `admin_versions` | 2 users, 2 roles, 2 requests, reset, assign, log out | **violated**: `VersionAdvances` |
| `requests_end` | 2 users of whom 1 exists, 2 e-mails, 2 roles, 2 requests: create, update, assign, log out; or 1 user, 2 sessions, 2 pairs, 2 requests: blacklist and recover against logins, refreshes and logouts; fair | a sweep of several sessions that may fail between two markers (`SessionStoresAgree`, `SessionSweepIsComplete`); `EveryRequestEnds` |
| `role_claims` | 1 user, 1 session, 3 roles of which 2 exist, 2 permissions, 3 names, 2 requests, five mixes | types, `OutdatedOnlyByRace`, `NamesUnique`, `RecoveryRemains`, `EditsInformed` |
| `role_outdated_login` | the same, disable a role and log in | **violated**: `OpensOnlyWhatIsHeld` |
| `permission_sync` | 2 commands or requests, 1 user, 1 name of the main application and 1 of sub-applications, 2 sub-applications, 5 releases, 2 scripts, 2 pairs of keys | types, `CheckPassesAfterApply`, `ReportsHold`, `SweepsReachEveryone`, `OnlyAdministratorsLoseVersions`, `DecisionsKept`, `SilentOnceDisabled`, `Installed` |
| `permission_versions` | the same, a sync with switches and edits | **violated**: `StatusTakesVersion` |
| `email_challenge` | 2 addresses in 3 spellings, 2 hosts of which 1 a proxy, 2 challenges, 2 requests, six mixes, unbounded time | types, `ThrottleHolds`, `RejectedLeavesNoTrace`, `CommitsAreJustified`, and the refinement of `OneTimeCode` |
| `service_auth` | 2 applications, 2 scopes, 2 requests, 2 threads, eleven mixes | types of both modules, `OldRightsDie`, `AuditTells`, `GrantsFinal`, `TokensLast`, `OneFetch` |

Two requests are enough for every race listed in the hazards of these components: each is between one request
that reads and one that changes. Three pairs allow a login, a refresh, and a refresh of the
refreshed or a replay of the old. `requests_end` draws one family of requests in each behaviour (`family`) and
leaves the other as it is; its sessions hold the clock still (`MaxTime` 0) because
the questions asked of them there do not depend on time. Bounds are in guards only: `MaxTime` in `Tick`, `MaxPwd` in
`StartAdmin`, `Ops` chooses the administrator's operations that occur.

`admin_roster` needs three users: two administrators who remove each other wait for each other's
rows when they write their audit rows, and PostgreSQL breaks the deadlock, so only requests of a third who
is not an administrator, or no longer one, depend on the lock on the admin role. Two exist at the
start and the third may be created. In `requests_end`, with two roles, the admin role the lower
id, an assignment that takes the other role and gives up the admin role locks them in the
opposite order to one that takes both; with an e-mail to spare (in both runs), a creation races a change to the same
address, and two users can try to swap theirs. `MaxVersion` 2 lets an edit meet a version that
has moved on, and 3 lets two stale copies follow each other.

`LoginUsesCurrentAccount`: the re-check after the lock in `complete_login` looks at the copy
read before the lock. A user disabled in between gets a session (which
`authenticate_access_token` then refuses while the user stays disabled); a password reset in
between leaves a live session opened with the old password, which the reset's sweep was meant
to end. `RotatedOnce`: two simultaneous uses of a refresh token both succeed and the session
has two chains of refresh tokens from then on. `VersionAdvances`: a user who acts on himself (resets his
own password, say) while another administrator changes him writes the version loaded before
the other's change plus one, so the second change leaves the version where it was.

The four larger modules bound what occurs together by `Mixes`: a behaviour draws one mix and runs
only its operations. Each mix puts together the operations that touch the same rows or
decide about the same token, so every race named under the hazards has a mix in which both sides
occur.

`role_claims`: a token against the four operations that sweep; names against creations and renames;
edits against switches. Role 3 is the one that may be created. `MaxVersion` 2 lets an edit come back with a
version that has moved on. In `role_outdated_login` a login reads its claims, `disable_role` sweeps the
sessions it can see, both commit, and the token opens what the role opened until it expires.

`permission_sync`: the five releases declare a permission, drop it, bind it to a
route of another name, and fail the scan in its two ways. Two sub-applications want the same name. The mixes
put a sync, and then a report, together with all operations of administrators, a sync with a report, and
`init` starts from databases at revisions 0, 4 and 8; the others start from an installation that is up.
`MaxVersion` is a bound for each mix: 3 with administrators, so that two of their changes fit between the load and the
flush of a sync, and 2 without. `CheckPassesAfterApply` and `ReportsHold` hold but for `taken`: an administrator may disable a
declared permission and then take it from the admin role, and `--check` then lists it as `admin_grants_added`
with no change of the release.

A flush writes the version it loaded plus one. An edit or a switch that commits between the load and the flush
loses its version to it: `OnlyAdministratorsLoseVersions` says that no change of anybody else does.
`StatusTakesVersion` is what `PERMISSION_SYNC_DESIGN.md` claims of versions (line 243: an optimistic lock; line 511: a
change of status takes version + 1), and is violated: an edit that commits in between makes the row version 2, the sync
retires it with version 2 again, and whoever was shown the row in between edits another one.

`email_challenge`: limits 2 and 2, windows of 4 and 2, resend distance 1, life 2, two attempts, so
that windows end and start within the distance of two codes and the last attempt is not the first. The
fixed windows let up to twice the limit less one through in a window's length that spans two; that
is what `ThrottleHolds` states. The repository's documents claim the plain limit for any hour, which the code does not keep
around the end of a window.

`service_auth`: `TTL` 3, `Skew` 1, `Stall` 1, `Margin` 1, `Patience` 1, `Delay` 1. The clock runs
in each mix until the last token that can carry a right taken away has expired. One token at a time
(`MaxTokens`): what `OldRightsDie` says of a token depends on no other. `MaxVersion` 3 lets two
stale loads of an application follow each other.

A related behaviour is modelled and breaks no property: a logout that dies between
`add_jti` and `revoke_session` bars the access token and leaves the session and its refresh token alive.

### Fairness

`SessionLifecycle`'s `FairSpec` asks weak fairness of a request's own next step (a worker thread that runs keeps
running) and strong fairness of its lock acquisitions (PostgreSQL queues the waiters of a row
lock). Nothing is asked of clients, of `Abort` or of the clock. Its requests end because
locks are taken in the order user, then sessions, and nobody waits for a user while holding a session.

`AdminUsers`'s `FairSpec` asks strong fairness of each request's `Proceed` for the same reason, and weak
fairness of `BreakDeadlock` (`deadlock_timeout`). That its requests end needs both: administrators who act on each other, and
assignments of the same roles in opposite orders, do wait in a circle.

`requests_end` checks `EveryRequestEnds` of both, one family in each behaviour, under the fairness of the family's own module.

The other modules state no fairness and no liveness. Their locks are let go by `Commit` or `Abort`
of whoever holds them; that a failed fetch lets go of the client's lock is in `ClientTypeOK`. Where their configurations say
`CHECK_DEADLOCK FALSE`, a behaviour ends because versions, ids, keys or time are used up.

## Proofs

### SessionLifecycle

`SessionLifecycle_proofs` proves for any sets, any timing that satisfies `TimingAssumption`
and any bounds: `TypeCorrect`, `MarkersSuffice`, `StoresConsistent`, `NoServiceAfterEnd`,
`SweepsComplete` and `Refinement`, the safety properties of `session_safety`, and those of sessions in `requests_end`.

They rest on `Inductive`: `IInv` holds initially and every step preserves it. `IInv` joins to
`TypeOK`
- `TimeInv`: no stamp is ahead of the clock;
- `StoreInv`: what the stores say about each other, in every intermediate state (a committed
  revocation has its marker, a stored token its session);
- `MarkerOutlivesTokens` and, for pairs still being made, its counterpart in `RequestInv`;
- `DistinctInv`: two requests never create the same session or pair;
- `RequestInv`: what each step of each handler may assume (that a running request began less than
  `Stall` ago or just now, that a login past its
  lock holds it, that a refresh past its re-check holds a pair born before any marker).

None of the properties is inductive alone: that a late request is not served needs that its
marker was still in force when it was checked, which needs the request's running time
and that no token outlives the marker (`MarkerOutlivesTokens`), which in turn
needs the re-check of the session after the rotation (`RequestInv`).

### AdminUsers

`AdminUsers_proofs` proves under `UserAssumption` alone, for any users, roles, e-mails and
requests: `TypeCorrect`, `AdminAlwaysRemains`, `EmailsStayUnique`, `VersionsOfOthers` and
`RosterImplemented`, the safety properties of `admin_roster`. They rest on
`Inductive`. Beside the properties themselves, its `IInv` has `RequestInv`:
- `HoldInv`: whoever is past `_lock_user` holds the row, and his copy of another's row is as
  fresh as the row;
- `LeavingInv`: whoever is about to remove an active administrator holds the admin role, and
  another administrator is there. As one request at a time holds the role, no two can
  remove each other; as nobody else removes an active administrator, the other one stays;
- `ClaimInv`: an e-mail about to be committed is claimed in the index, and no row has it;
- `NewInv`, `NewTargets`: a row being created is not there yet, and is one request's.

The count in `_ensure_can_remove_admin` enters through one lemma (`AnotherAdmin`): more than
one active administrator means one beside the target. That is why the users are a finite set.

### RoleClaims

`RoleClaims_proofs` proves under `ClaimsAssumption` alone, for any users, sessions, roles, permissions, names,
requests and mixes: `TypeCorrect`, `NamesStayUnique`, `RecoveryStays`, `OnlyRacesOutdate` and
`EditsAreInformed`, all that `role_claims` checks. They rest on `Inductive`, whose `IInv` joins
to the properties
- `HoldInv`: past its lock a request holds the row, and its copy is as the row is;
- `SeenInv`: a row of the version that was shown is the row that was shown. Versions only grow and every
  change takes a new one, so comparing versions is comparing rows;
- `NameInv`, `Apart`: a name about to be committed is no other row's, and is written by one
  request (the unique index makes good the look without a lock);
- `SafeInv`: what is about to be written to the admin role leaves it its name, its switch and `permission:enable`.
  `assign_permissions` decides this on copies read before its locks, which is enough for a
  permission that cannot be disabled;
- `ClaimInv`: claims that are being read are still their user's, or the request is raced;
- `WindowInv`: between a sweep and its commit no live token opens what the commit takes away, but for
  raced ones. With `ClaimInv` this is what remains of `OutdatedOnlyByRace` in each intermediate state.

`OpensOnlyWhatIsHeld` is false (`role_outdated_login`), so `OnlyRacesOutdate` is the strongest of its kind.

### EmailChallenge

`EmailChallenge_proofs` proves under `EmailAssumption` alone, for any addresses, clients, limits,
windows and requests, and without a bound on time: `TypeCorrect`, `Throttled`, `RejectionsLeaveNoTrace`,
`CommitsJustified` and `CodesImplemented`, all that `email_challenge` checks. They rest on `Inductive`, whose `IInv` joins to `TypeOK`
- `DistanceInv`: while a code is younger than `Resend`, the key of the short window is there. Without
  it a rejection could be one whose rollback deletes a key that an earlier request made;
- `CountInv`, for every address and client: a counter counts the codes since its window began, one
  of which began it; and what earlier windows let through and is still younger than a window is less than the limit.
  Their sum is `ThrottleHolds`, which says nothing of counters and is not inductive. A rejection that
  steps a counter back to zero leaves it with a time to live, and `Counted` has to hold of that too;
- `ChallengeInv`: a hash that is there has attempts and time left, so a miss is one of the
  chances that `OneTimeCode` counts;
- `SpentInv`: past `_CONSUME_SCRIPT`, the code presented is spent, and for this address and purpose;
- `RoleInv`, `HoldInv`: a registration holds the role of new users, a reset the row of a user
  who may log in, so neither can be barred before the commit;
- `NewInv`, `InsertsUnique`: the address of a row to be inserted is free, and one insertion of it
  is under way: the unique index makes good what `register` looked at without a lock.

The ages and numbers in `CountInv` are those of a finite set of codes that grows by one and ages as a whole:
lemmas `NumberNew`, `NumberOlder` and `NumberSplit`.

### PermissionSync and LocalInit

`PermissionSync_proofs` proves under `SyncAssumption` alone, for any releases, applications, names,
users and requests: `TypeCorrect`, `ChecksPass`, `ReportsAreKept`, `SessionsEndWithRights`, `DecisionsStay`,
`VersionsAreLostToAdministrators` and `DisabledAreSilent`. `ReportsAreKept` and `ChecksPass` say what the admin role holds but for
`taken`. They rest on `Invariance`, whose `IInv` joins to the four invariants
- `RowInv`: a row of the main application has a name of two segments, a sub-application's has three, so a sync and a
  report change different rows although neither locks what the other loads;
- `HoldInv`: past its lock a sync holds the advisory lock, a report the row of its application, which
  stays enabled; both hold the admin role where they grant, and the rows that they have flushed. An assignment holds the admin role to its commit,
  a switch its permission;
- `PlanInv`: while the lock is held, the plan's changes of permissions and bindings are what would be planned now (`Matches`),
  and what the release names is in its grants, or granted, or in `lost` (`Grants`). This is why the plan must be built again inside the lock, and all that
  `CheckPassesAfterApply` and `ReportsHold` need of the commit;
- `SeenInv`: since it was loaded a row has been declared or retired by nobody else; only its switch and its
  version may differ. `DecisionsKept` and `OnlyAdministratorsLoseVersions` follow, since the flush writes the columns it changed;
- `WindowInv`: between the plan and the commit, a session that claims what the plan takes away is
  one that the sweep will end, or overlapped; past the sweep there is none. The same of what an assignment or a switch takes away.

`LocalInit_proofs` proves of `InstallSpec`, the specification that `permission_sync` runs, that `Installed`
holds (`InstallationsWork`) and that everything above holds from an empty or old database on (`SafeFromTheStart`,
`StepsFromTheStart`): the states that `PermissionSync` starts from are those that a migration and a seed leave. It adds
- `OldInv`: before the upgrade nobody uses the tables, so the rewriting of rows by the migration meets no request;
- `ScriptInv`: what each step of a script may rely on: the file it read or made, the revision, the role, a committed sync. Each of
  these, once there, is never taken away, also not by a second script that starts from the beginning;
- `ApiInv`: an API runs with the keys of a file that nobody writes any more.

### ServiceAuth and JccClient

`JccClient_proofs` proves for both specifications, under `ServiceAssumption` and
`ClientAssumption`, for any applications, scopes, windows, times, requests and threads: `TypeCorrect`, `RightsDie`,
`AuditIsTrue` and `GrantsAreFinal` of the server with and without the client's threads, and `ClientTypes`, `TokensOutlastCalls` and
`FetchesAlone` of the client. The server's `IInv` has
- `IssueInv`: what a token request has found so far was good at its start, give or take `Stall`: if the caller, the
  target or a grant has been barred since, the time written to the row is not more than `Stall` before that start. Rows are
  read one statement after the other without locks, and this is what each read hands on to the next;
- `TokenInv`: the same of a token and its `iat`, which is at most `Stall` after the request's start. `OldRightsDie` adds the token's life;
- `TimeInv`: a request ends within `Stall`, and dates what it writes by its start. Without it a slow
  revocation could be dated before tokens that it does not stop;
- `HoldInv`, `SeenInv`: at its commit a request holds the row and finds it as it was loaded, and a version that was
  shown and is still there means the row that was shown; from these the audit events and `GrantsFinal`.

The client's `ClientInv` adds `FetchInv` (a fetch takes at most `Patience` and its answer is younger than it), `CacheInv` (the cache
forgets a token when the margin is left of its life) and `UseInv` (a token in hand is good for the call).

The specifications with threads are proved by lemmas on `ServiceAuth`'s actions, one for each, that
are cited for its own `Next` and for the steps that the client lets the server take.

### Assumptions

Each `ASSUME` is evaluated by the runs. `TimingAssumption` and `ClientAssumption` speak of times: the second asks what `JccClient` says it does of
calls and fetches. The others say that sentinels are no rows (`NoReq`, `NoKey`, `NoFile`, `Unfit`),
that bounds are numbers, that limits and windows are positive, and that there is an application, a profile and a code to
speak of, since the types of tokens and rows are empty otherwise.

### Only model-checked

`EveryRequestEnds`, since liveness under fairness is out of the
prover's reach, and the five violations. Every other property of a passing run is a theorem. The operators that would need induction over
data are not used by these proofs: `ClientIp` is a choice over positions, plans and bindings are set comprehensions.

## Not modelled

- Configuration, logging, request schemas, health checks and routing: no state of their own. What a
  schema lets through bounds the inputs of the actions.
- The validation scripts (`scripts/validate_*.py`), two fifths of the lines under `src/`: test harnesses that drive a
  running system from outside. Their expectations are where several of the properties come from.
- Deployment files and CI.
- Migrations beyond what is said above: each runs once, offline, and creates tables.
- Lists and lookups, except where a change is based on what they showed.
- Liveness of syncs, reports and service requests. A sync and `assign_permissions` on the admin role may wait
  for each other (`permission_sync_service.py:308`); PostgreSQL ends one, which reports a failure. The models have the failure
  (`Abort`) and no property that the other ends.

## Plan

1. Liveness of `PermissionSync`: that syncs, reports and assignments end, given that PostgreSQL breaks their circles.
2. An abstract specification of `PermissionSync` (a release's declarations take effect at once) and of `ServiceAuth` (rights
   end within a bound), and the proofs that the models implement them.
