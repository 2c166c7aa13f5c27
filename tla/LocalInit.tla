----------------------------- MODULE LocalInit -----------------------------
(***************************************************************************)
(* How an installation comes up: scripts/init_local.py prepares the        *)
(* environment file, builds the image, migrates the database, runs the     *)
(* seed and the permission-sync command, and starts the API.  It may fail  *)
(* at every step and is then run again; two of them may run at once.  An   *)
(* administrator can use the system of PermissionSync from then on.        *)
(***************************************************************************)
EXTENDS PermissionSync, Sequences

CONSTANTS
    Key,             \* pairs of JWT keys
    NoKey, NoFile,
    Unfit,           \* an environment file with placeholders or insecure permissions
    Found            \* the revisions of databases that are found

\* The revisions of alembic/versions; in Declaring, permissions get their columns.
Latest == 8
Declaring == 5

ASSUME InitAssumption ==
    /\ NoKey \notin Key /\ NoFile \notin Key /\ Unfit \notin Key \cup {NoFile}
    /\ Found \subseteq {0, Latest} \cup 1..(Declaring - 1)

VARIABLES
    env,             \* the environment file
    revision,        \* of the database, 0 when it is empty
    legacy,          \* the permissions that a database before Declaring has
    image,           \* whether there is an image of the API
    api,             \* the keys that the running API was started with
    inst             \* the initialisation scripts that run, each with its sync in req

installVars == <<vars, env, revision, legacy, image, api, inst>>

\* The steps of initialize_local, with the transactions of its migration and its seed
Steps == <<"env", "link", "stores", "image", "migrate", "upgrade", "seed", "insert", "sync", "exit",
           "api", "health", "done">>
\* keys: generated and not yet in the file; revision, role: what was read before a write
NotRunning == [pc |-> "idle", keys |-> NoKey, revision |-> 0, role |-> FALSE]

-----------------------------------------------------------------------------
InstallInit ==
    /\ inst = [i \in Req |-> NotRunning]
    /\ \/ /\ Init /\ "init" \notin mix          \* installed before
          /\ legacy = {} /\ revision = Latest /\ image = TRUE
          /\ env \in Key /\ api = env
       \/ /\ Unsynced /\ "init" \in mix
          /\ revision \in Found /\ image \in BOOLEAN
          /\ env \in {NoFile, Unfit} /\ api = NoKey
          /\ adminRole \in (IF revision = 0 THEN {FALSE} ELSE BOOLEAN)
          /\ legacy \in SUBSET (IF revision \in {0, Latest} THEN {} ELSE Main)
          /\ granted \in SUBSET (IF adminRole THEN legacy ELSE {})

Doing(i, step) == inst[i].pc = step
Position(step) == CHOOSE k \in 1..Len(Steps) : Steps[k] = step
Following(step) == Steps[Position(step) + 1]
\* run_command: the script goes on when the command succeeded.
Succeed(i) == inst' = [inst EXCEPT ![i] = [NotRunning EXCEPT !.pc = Following(inst[i].pc)]]
Keep(i) == inst' = [inst EXCEPT ![i] = [NotRunning EXCEPT !.pc = "stores"]]
\* main: an exception ends the script, wherever it is.
Stop(i) == inst' = [inst EXCEPT ![i] = NotRunning]
Fail(i) == /\ inst[i].pc \notin {"idle", "done"}
           /\ Stop(i)
           /\ UNCHANGED <<vars, env, revision, legacy, image, api>>

-----------------------------------------------------------------------------
(* The environment file *)

\* No other process knows the keys that are generated.
Fresh(k) == k \notin {env, api} \cup {inst[i].keys : i \in Req}
\* validate_env_file
Fit(file) == file \in Key

StartInstall(i) ==
    /\ Doing(i, "idle") /\ At(i, "idle")
    /\ inst' = [inst EXCEPT ![i].pc = "env"]
    /\ UNCHANGED <<vars, env, revision, legacy, image, api>>

\* An existing file is kept; otherwise keys are generated for the template.
DraftEnv(i) ==
    /\ Doing(i, "env")
    /\ \/ env # NoFile /\ Fit(env) /\ Keep(i)
       \/ env # NoFile /\ ~Fit(env) /\ Stop(i)
       \/ /\ env = NoFile
          /\ \E k \in Key : Fresh(k) /\ inst' = [inst EXCEPT ![i].pc = "link", ![i].keys = k]
    /\ UNCHANGED <<vars, env, revision, legacy, image, api>>

\* Mutant: the new file replaces one that was made in the meantime.
ReplaceEnv(i) ==
    /\ Doing(i, "link")
    /\ env' = inst[i].keys
    /\ Keep(i)
    /\ UNCHANGED <<vars, revision, legacy, image, api>>
\* os.link refuses to replace a file that was made in the meantime; that one is kept.
LinkEnv(i) ==
    /\ Doing(i, "link")
    /\ \/ env = NoFile /\ env' = inst[i].keys /\ Keep(i)
       \/ env # NoFile /\ Fit(env) /\ Keep(i) /\ UNCHANGED env
       \/ env # NoFile /\ ~Fit(env) /\ Stop(i) /\ UNCHANGED env
    /\ UNCHANGED <<vars, revision, legacy, image, api>>

\* The operator copies the template, and fills it in.
EditEnv ==
    /\ \/ env = NoFile /\ env' = Unfit
       \/ env = Unfit /\ \E k \in Key : Fresh(k) /\ env' = k
    /\ UNCHANGED <<vars, revision, legacy, image, api, inst>>

-----------------------------------------------------------------------------
(* Services, image and database *)

\* wait_for_compose_services: both stores are healthy before the deadline.
WaitForStores(i) ==
    /\ Doing(i, "stores")
    /\ Succeed(i)
    /\ UNCHANGED <<vars, env, revision, legacy, image, api>>

\* ensure_api_image: a failed build does not matter when there is an image.
EnsureImage(i) ==
    /\ Doing(i, "image")
    /\ \E built \in BOOLEAN :
          /\ image' = (image \/ built)
          /\ IF image' THEN Succeed(i) ELSE Stop(i)
    /\ UNCHANGED <<vars, env, revision, legacy, api>>

\* Revision 0005: what was there is declared and enabled.
WithDeclaration(row) == [row EXCEPT !.declared = TRUE, !.enabled = TRUE, !.version = 1]
\* Revision 0008: what was there has no owner_app_id, which is the main application's.
WithOwner(row) == [row EXCEPT !.owner = MainApp]

ReadRevision(i) ==
    /\ Doing(i, "migrate")
    /\ inst' = [inst EXCEPT ![i].pc = Following(@), ![i].revision = revision]
    /\ UNCHANGED <<vars, env, revision, legacy, image, api>>
\* alembic upgrade head, one transaction: what another one has added cannot be added again.
Upgrade(i) ==
    /\ Doing(i, "upgrade")
    /\ \/ inst[i].revision = Latest /\ Succeed(i) /\ UNCHANGED <<perm, revision>>
       \/ /\ inst[i].revision = revision /\ revision # Latest
          /\ perm' = [n \in Name |-> IF n \in legacy THEN WithOwner(WithDeclaration(NoRow)) ELSE NoRow]
          /\ revision' = Latest
          /\ Succeed(i)
       \/ inst[i].revision # revision /\ Stop(i) /\ UNCHANGED <<perm, revision>>
    /\ UNCHANGED <<binding, adminRole, granted, app, locks, session, req, mix, applied, reported, taken,
                   env, legacy, image, api>>

\* The seed: ensure_admin_user and ensure_role look first; the unique indexes let one
\* of two transactions insert.
LookForRole(i) ==
    /\ Doing(i, "seed")
    /\ inst' = [inst EXCEPT ![i].pc = Following(@), ![i].role = adminRole]
    /\ UNCHANGED <<vars, env, revision, legacy, image, api>>
CommitSeed(i) ==
    /\ Doing(i, "insert")
    /\ IF adminRole /\ ~inst[i].role THEN Stop(i) ELSE Succeed(i)
    /\ adminRole' = TRUE
    /\ UNCHANGED <<perm, binding, granted, app, locks, session, req, mix, applied, reported, taken,
                   env, revision, legacy, image, api>>

\* The permission-sync command runs, and its exit status ends the script or lets it go on.
RunSync(i) ==
    /\ Doing(i, "sync") /\ Succeed(i)
    /\ \E release \in Releases : StartSync(i, release)
    /\ UNCHANGED <<env, revision, legacy, image, api>>
ExitSync(i) ==
    /\ Doing(i, "exit") /\ At(i, "idle")
    /\ IF req[i].exit = 0 THEN Succeed(i) ELSE Stop(i)
    /\ UNCHANGED <<vars, env, revision, legacy, image, api>>

\* Compose creates the API's container, again when its environment is another one.
UpApi(i) ==
    /\ Doing(i, "api") /\ image
    /\ api' = env
    /\ Succeed(i)
    /\ UNCHANGED <<vars, env, revision, legacy, image>>
WaitForHealth(i) ==
    /\ Doing(i, "health") /\ api # NoKey
    /\ Succeed(i)
    /\ UNCHANGED <<vars, env, revision, legacy, image, api>>

-----------------------------------------------------------------------------
Install(i) == \/ StartInstall(i) \/ DraftEnv(i) \/ LinkEnv(i)
              \/ WaitForStores(i) \/ EnsureImage(i) \/ ReadRevision(i) \/ Upgrade(i)
              \/ LookForRole(i) \/ CommitSeed(i) \/ RunSync(i) \/ ExitSync(i)
              \/ UpApi(i) \/ WaitForHealth(i) \/ Fail(i)
\* What needs the API, or an image that somebody has started by hand.  Commands and requests
\* find the tables of the latest revision, or fail; the sync of a script is its own.
Use == /\ \/ api # NoKey /\ ((\E a \in App : SwitchApp(a)) \/ (\E u \in User : Login(u)))
          \/ \E r \in Req : (revision = Latest /\ inst[r].pc \in {"idle", "done"} /\ Start(r)) \/ Proceed(r)
       /\ UNCHANGED <<env, revision, legacy, image, api, inst>>

InstallNext == \/ "init" \in mix /\ (EditEnv \/ \E i \in Req : Install(i))
               \/ Use
InstallSpec == InstallInit /\ [][InstallNext]_installVars
-----------------------------------------------------------------------------
\* The API that runs signs with the keys of the file, however many scripts ran and
\* failed; and a script that ends well leaves an installation that works: the schema of
\* the code, the admin role, a release that is applied, and the API.
Installed ==
    /\ api # NoKey => api = env
    /\ \A i \in Req : Doing(i, "done") =>
          revision = Latest /\ adminRole /\ applied # {} /\ api # NoKey
=============================================================================
