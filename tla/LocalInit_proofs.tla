-------------------------- MODULE LocalInit_proofs --------------------------
(***************************************************************************)
(* Proofs about LocalInit, and so about PermissionSync from an empty or    *)
(* old database on: whatever scripts run, fail and run again, at once.     *)
(***************************************************************************)
EXTENDS LocalInit, PermissionSync_proofs

Phase == {"idle"} \cup {Steps[k] : k \in 1..Len(Steps)}
Script == [pc : Phase, keys : Key \cup {NoKey},
           revision : Nat, role : BOOLEAN]
FileTypes ==
    /\ env \in Key \cup {NoFile, Unfit} /\ api \in Key \cup {NoKey}
    /\ revision \in Nat /\ legacy \subseteq Main /\ image \in BOOLEAN
InstallTypes == FileTypes /\ inst \in [Req -> Script]

\* Before the upgrade nothing uses the tables.
OldInv ==
    revision # Latest =>
       /\ api = NoKey /\ applied = {} /\ binding = {}
       /\ perm = [n \in Name |-> NoRow]
       /\ \A a \in App : reported[a] = {NoName}
       /\ \A u \in User : ~session[u].open
       /\ \A r \in Req : req[r].pc = "idle" /\ req[r].op = "none"

\* The API runs with the keys of a file that is not written any more.
ApiInv == api # NoKey => env \in Key /\ api = env

\* What each step of a script relies on.
Past(step) == {Steps[k] : k \in (Position(step) + 1)..Len(Steps)}
Exited(i) == \/ req[i].op = "sync" /\ ~At(i, "idle")
             \/ At(i, "idle") /\ (req[i].exit = 0 => applied # {})
ScriptInv(i) ==
    /\ Doing(i, "link") => inst[i].keys \in Key
    /\ inst[i].pc \in Past("link") => env \in Key
    /\ Doing(i, "upgrade") /\ inst[i].revision = Latest => revision = Latest
    /\ inst[i].pc \in Past("upgrade") => revision = Latest
    /\ inst[i].pc \in Past("insert") => adminRole
    /\ Doing(i, "exit") => Exited(i)
    /\ inst[i].pc \in Past("exit") => applied # {}
    /\ inst[i].pc \in Past("api") => api # NoKey

InstallInv == IInv /\ InstallTypes /\ OldInv /\ ApiInv /\ \A i \in Req : ScriptInv(i)

-----------------------------------------------------------------------------
(* The order of the steps *)

\* The steps of a script, each at its one place
LEMMA Places ==
  /\ Len(Steps) = 13
  /\ Steps[1] = "env" /\ Steps[2] = "link" /\ Steps[3] = "stores" /\ Steps[4] = "image"
  /\ Steps[5] = "migrate" /\ Steps[6] = "upgrade" /\ Steps[7] = "seed" /\ Steps[8] = "insert"
  /\ Steps[9] = "sync" /\ Steps[10] = "exit" /\ Steps[11] = "api" /\ Steps[12] = "health"
  /\ Steps[13] = "done"
  BY DEF Steps
\* No step has two places.
LEMMA Positions ==
  ASSUME NEW k \in 1..13
  PROVE  Position(Steps[k]) = k
  <1>1. k \in 1..Len(Steps)
    BY Places
  <1>2. ASSUME NEW j \in 1..Len(Steps), Steps[j] = Steps[k] PROVE j = k
    <2>1. j \in 1..13
      BY Places
    <2> QED BY <1>2, <2>1, Places
  <1> QED BY <1>1, <1>2 DEF Position

\* What follows each step, and all that does
LEMMA Follow ==
  /\ Following("stores") = "image" /\ Following("image") = "migrate" /\ Following("migrate") = "upgrade"
  /\ Following("upgrade") = "seed" /\ Following("seed") = "insert" /\ Following("insert") = "sync"
  /\ Following("sync") = "exit" /\ Following("exit") = "api" /\ Following("api") = "health"
  /\ Following("health") = "done"
  <1>1. \A k \in 1..13 : Following(Steps[k]) = Steps[k + 1]
    BY Positions DEF Following
  <1> QED BY <1>1, Places
\* What comes after the steps that the invariant names.
LEMMA PastSets ==
  /\ Past("api") = {"health", "done"}
  /\ Past("exit") = {"api", "health", "done"}
  /\ Past("insert") = {"sync", "exit", "api", "health", "done"}
  /\ Past("upgrade") = {"seed", "insert", "sync", "exit", "api", "health", "done"}
  /\ Past("link") = {"stores", "image", "migrate", "upgrade", "seed", "insert", "sync", "exit", "api", "health", "done"}
  <1>1. \A k \in 1..13 : Past(Steps[k]) = {Steps[j] : j \in (k + 1)..13}
    BY Positions, Places DEF Past
  <1>2. /\ Past("api") = {Steps[j] : j \in 12..13} /\ Past("exit") = {Steps[j] : j \in 11..13}
        /\ Past("insert") = {Steps[j] : j \in 9..13} /\ Past("upgrade") = {Steps[j] : j \in 7..13}
        /\ Past("link") = {Steps[j] : j \in 3..13}
    BY <1>1, Places
  <1>3. {Steps[j] : j \in 12..13} = {Steps[12], Steps[13]}
    OBVIOUS
  <1>4. {Steps[j] : j \in 11..13} = {Steps[11], Steps[12], Steps[13]}
    OBVIOUS
  <1>5. {Steps[j] : j \in 9..13} = {Steps[9], Steps[10], Steps[11], Steps[12], Steps[13]}
    OBVIOUS
  <1>6. {Steps[j] : j \in 7..13} = {Steps[7], Steps[8], Steps[9], Steps[10], Steps[11], Steps[12], Steps[13]}
    OBVIOUS
  <1>7. {Steps[j] : j \in 3..13} = {Steps[3], Steps[4], Steps[5], Steps[6], Steps[7], Steps[8], Steps[9], Steps[10],
                                    Steps[11], Steps[12], Steps[13]}
    OBVIOUS
  <1> QED BY <1>2, <1>3, <1>4, <1>5, <1>6, <1>7, Places
\* A script at a step, with nothing read or generated, is one.
LEMMA AtStep ==
  ASSUME NEW k \in 1..13
  PROVE  [NotRunning EXCEPT !.pc = Steps[k]] \in Script /\ [NotRunning EXCEPT !.pc = Steps[k]].pc = Steps[k]
  <1>1. Steps[k] \in Phase /\ "idle" \in Phase
    BY Places DEF Phase
  <1>2. NotRunning \in Script
    BY <1>1 DEF NotRunning, Script
  <1> QED BY <1>1, <1>2 DEF Script

-----------------------------------------------------------------------------
(* Scripts *)

\* What is reached stays so.
Grows == /\ env \in Key => env' \in Key
         /\ revision = Latest => revision' = Latest
         /\ adminRole => adminRole'
         /\ applied # {} => applied' # {}
         /\ api # NoKey => api' # NoKey

\* A script that does nothing can still rely on what it did.
LEMMA ScriptKept ==
  ASSUME InstallInv, Grows, NEW q \in Req, inst'[q] = inst[q],
         Doing(q, "exit") => req'[q] = req[q] \/ Exited(q)'
  PROVE  ScriptInv(q)'
  <1>1. ScriptInv(q)
    BY DEF InstallInv
  <1>2. Doing(q, "exit")' => Exited(q)'
    BY <1>1 DEF ScriptInv, Exited, Doing, At, Grows
  <1> QED BY <1>1, <1>2 DEF ScriptInv, Doing, Grows

OnlyScript(i) == \E m \in Script : inst' = [inst EXCEPT ![i] = m]
\* A step of one script keeps the invariant if that script keeps its part.
LEMMA ScriptStep ==
  ASSUME InstallInv, IInv', NEW i \in Req, OnlyScript(i), Grows, \A q \in Req \ {i} : req'[q] = req[q],
         FileTypes', OldInv', ApiInv', ScriptInv(i)'
  PROVE  InstallInv'
  <1>1. inst' \in [Req -> Script] /\ \A q \in Req \ {i} : inst'[q] = inst[q]
    BY DEF OnlyScript, InstallInv, InstallTypes
  <1>2. ASSUME NEW q \in Req, q # i PROVE ScriptInv(q)'
    BY <1>1, <1>2, ScriptKept
  <1> QED BY <1>1, <1>2 DEF InstallInv, InstallTypes

\* A step that only looks
LEMMA LookingStep ==
  ASSUME InstallInv, NEW i \in Req, OnlyScript(i), UNCHANGED <<vars, env, revision, legacy, api>>,
         image' \in BOOLEAN, ScriptInv(i)'
  PROVE  InstallInv'
  <1>1. IInv'
    BY Stutter DEF InstallInv
  <1>2. Grows /\ (\A q \in Req \ {i} : req'[q] = req[q])
    BY DEF Grows, vars
  <1>3. FileTypes'
    BY DEF InstallInv, InstallTypes, FileTypes
  <1>4. OldInv' /\ ApiInv'
    BY DEF InstallInv, OldInv, ApiInv, vars
  <1> QED BY <1>1, <1>2, <1>3, <1>4, ScriptStep

\* A script that goes on to a step, ends, or keeps the file that is there
LEMMA Scripts ==
  ASSUME InstallInv, NEW i \in Req, NEW m \in Script, inst' = [inst EXCEPT ![i] = m]
  PROVE  OnlyScript(i) /\ inst'[i] = m
  BY DEF OnlyScript, InstallInv, InstallTypes
\* A command that succeeds leads to the next place.
LEMMA SucceedStep ==
  ASSUME InstallInv, NEW i \in Req, Succeed(i), NEW k \in 1..12, Doing(i, Steps[k])
  PROVE  OnlyScript(i) /\ inst'[i].pc = Steps[k + 1]
  <1> DEFINE m == [NotRunning EXCEPT !.pc = Steps[k + 1]]
  <1>1. Following(inst[i].pc) = Steps[k + 1]
    BY Positions DEF Following, Doing
  <1>2. m \in Script /\ m.pc = Steps[k + 1]
    BY AtStep
  <1>3. inst' = [inst EXCEPT ![i] = m]
    BY <1>1 DEF Succeed
  <1> HIDE DEF m
  <1> QED BY <1>2, <1>3, Scripts
\* A script that has ended is asked nothing.
LEMMA StopStep ==
  ASSUME InstallInv, NEW i \in Req, Stop(i)
  PROVE  OnlyScript(i) /\ ScriptInv(i)'
  <1>1. NotRunning \in Script /\ NotRunning.pc = "idle"
    BY DEF Script, Phase, NotRunning
  <1>2. OnlyScript(i) /\ inst'[i] = NotRunning
    BY <1>1, Scripts DEF Stop
  <1> QED BY <1>1, <1>2, PastSets DEF ScriptInv, Doing
\* With a file at hand the script goes on to the stores.
LEMMA KeepStep ==
  ASSUME InstallInv, NEW i \in Req, Keep(i)
  PROVE  OnlyScript(i) /\ inst'[i].pc = "stores"
  <1> DEFINE m == [NotRunning EXCEPT !.pc = "stores"]
  <1>1. m \in Script /\ m.pc = "stores"
    BY AtStep, Places
  <1>2. inst' = [inst EXCEPT ![i] = m]
    BY DEF Keep
  <1> HIDE DEF m
  <1> QED BY <1>1, <1>2, Scripts

\* StartInstall: a script that has done nothing yet.
LEMMA StartInstallStep ==
  ASSUME InstallInv, NEW i \in Req, StartInstall(i)
  PROVE  InstallInv'
  <1> DEFINE m == [inst[i] EXCEPT !.pc = "env"]
  <1>1. m \in Script /\ m.pc = "env"
    <2>1. inst[i] \in Script /\ "env" \in Phase
      BY Places DEF InstallInv, InstallTypes, Phase
    <2> QED BY <2>1 DEF Script
  <1>2. inst' = [inst EXCEPT ![i] = m]
    BY DEF StartInstall
  <1> HIDE DEF m
  <1>3. OnlyScript(i) /\ inst'[i] = m
    BY <1>1, <1>2, Scripts
  <1>4. ScriptInv(i)'
    BY <1>1, <1>3, PastSets DEF ScriptInv, Doing
  <1>5. UNCHANGED <<vars, env, revision, legacy, api>> /\ image' \in BOOLEAN
    BY DEF StartInstall, InstallInv, InstallTypes, FileTypes
  <1> QED BY <1>3, <1>4, <1>5, LookingStep

\* DraftEnv: the script goes on with a fit file, or has keys for a new one.
LEMMA DraftEnvStep ==
  ASSUME InstallInv, NEW i \in Req, DraftEnv(i)
  PROVE  InstallInv'
  <1>1. UNCHANGED <<vars, env, revision, legacy, api>> /\ image' \in BOOLEAN
    BY DEF DraftEnv, InstallInv, InstallTypes, FileTypes
  <1>2. CASE Fit(env) /\ Keep(i)
    <2>1. OnlyScript(i) /\ inst'[i].pc = "stores" /\ env' \in Key
      BY <1>1, <1>2, KeepStep DEF Fit
    <2>2. ScriptInv(i)'
      BY <2>1, PastSets DEF ScriptInv, Doing
    <2> QED BY <1>1, <2>1, <2>2, LookingStep
  <1>3. CASE Stop(i)
    BY <1>1, <1>3, StopStep, LookingStep
  <1>4. CASE \E k \in Key : inst' = [inst EXCEPT ![i].pc = "link", ![i].keys = k]
    <2>1. PICK k \in Key : inst' = [inst EXCEPT ![i].pc = "link", ![i].keys = k]
      BY <1>4
    <2> DEFINE m == [inst[i] EXCEPT !.pc = "link", !.keys = k]
    <2>2. m \in Script /\ m.pc = "link" /\ m.keys = k
      <3>1. inst[i] \in Script /\ "link" \in Phase
        BY Places DEF InstallInv, InstallTypes, Phase
      <3> QED BY <2>1, <3>1 DEF Script
    <2>3. inst' = [inst EXCEPT ![i] = m]
      BY <2>1
    <2> HIDE DEF m
    <2>4. OnlyScript(i) /\ inst'[i] = m
      BY <2>2, <2>3, Scripts
    <2>5. ScriptInv(i)'
      BY <2>1, <2>2, <2>4, PastSets DEF ScriptInv, Doing
    <2> QED BY <1>1, <2>4, <2>5, LookingStep
  <1> QED BY <1>2, <1>3, <1>4 DEF DraftEnv

\* LinkEnv: a new file is made only where there is none, and so before the API runs.
LEMMA LinkEnvStep ==
  ASSUME InstallInv, NEW i \in Req, LinkEnv(i)
  PROVE  InstallInv'
  <1>1. UNCHANGED <<vars, revision, legacy, image, api>>
    BY DEF LinkEnv
  <1>2. CASE env' = env
    <2>1. image' \in BOOLEAN
      BY <1>1 DEF InstallInv, InstallTypes, FileTypes
    <2>2. CASE Stop(i)
      BY <1>1, <1>2, <2>1, <2>2, StopStep, LookingStep
    <2>3. CASE Keep(i) /\ env' \in Key
      <3>1. OnlyScript(i) /\ inst'[i].pc = "stores"
        BY <2>3, KeepStep
      <3>2. ScriptInv(i)'
        BY <2>3, <3>1, PastSets DEF ScriptInv, Doing
      <3> QED BY <1>1, <1>2, <2>1, <3>1, <3>2, LookingStep
    <2>4. inst[i].keys \in Key
      BY DEF LinkEnv, InstallInv, ScriptInv
    <2> QED BY <1>2, <2>2, <2>3, <2>4 DEF LinkEnv, Fit
  <1>3. CASE env' # env
    <2>1. env = NoFile /\ env' \in Key /\ Keep(i)
      BY <1>3 DEF LinkEnv, InstallInv, ScriptInv
    <2>2. api = NoKey
      BY <2>1, InitAssumption DEF InstallInv, ApiInv
    <2>3. OnlyScript(i) /\ inst'[i].pc = "stores"
      BY <2>1, KeepStep
    <2>4. ScriptInv(i)'
      BY <2>1, <2>3, PastSets DEF ScriptInv, Doing
    <2>5. IInv' /\ Grows /\ \A q \in Req \ {i} : req'[q] = req[q]
      BY <1>1, <2>1, Stutter DEF InstallInv, Grows, vars
    <2>6. FileTypes' /\ OldInv' /\ ApiInv'
      BY <1>1, <2>1, <2>2 DEF InstallInv, InstallTypes, FileTypes, OldInv, ApiInv, vars
    <2> QED BY <2>3, <2>4, <2>5, <2>6, ScriptStep
  <1> QED BY <1>2, <1>3

\* The operator writes a file that no process has started with.
LEMMA EditEnvStep ==
  ASSUME InstallInv, EditEnv
  PROVE  InstallInv'
  <1>1. UNCHANGED <<vars, revision, legacy, image, api, inst>> /\ env \in {NoFile, Unfit} /\ env' \in Key \cup {Unfit}
    BY DEF EditEnv
  <1>2. env \notin Key /\ api = NoKey
    BY <1>1, InitAssumption DEF InstallInv, ApiInv
  <1>3. IInv' /\ Grows
    BY <1>1, <1>2, Stutter DEF InstallInv, Grows, vars
  <1>4. InstallTypes' /\ OldInv' /\ ApiInv'
    BY <1>1, <1>2 DEF InstallInv, InstallTypes, FileTypes, OldInv, ApiInv, vars
  <1>5. \A q \in Req : ScriptInv(q)'
    BY <1>1, <1>3, ScriptKept DEF vars
  <1> QED BY <1>3, <1>4, <1>5 DEF InstallInv

\* WaitForStores goes on.
LEMMA WaitForStoresStep ==
  ASSUME InstallInv, NEW i \in Req, WaitForStores(i)
  PROVE  InstallInv'
  <1>1. OnlyScript(i) /\ inst'[i].pc = "image"
    BY SucceedStep, Places DEF WaitForStores
  <1>2. UNCHANGED <<vars, env, revision, legacy, api>> /\ image' \in BOOLEAN
    BY DEF WaitForStores, InstallInv, InstallTypes, FileTypes
  <1>3. ScriptInv(i) /\ inst[i].pc = "stores"
    BY DEF WaitForStores, InstallInv, Doing
  <1>4. ScriptInv(i)'
    BY <1>1, <1>2, <1>3, PastSets DEF ScriptInv, Doing
  <1> QED BY <1>1, <1>2, <1>4, LookingStep

\* EnsureImage goes on, or ends the script.
LEMMA EnsureImageStep ==
  ASSUME InstallInv, NEW i \in Req, EnsureImage(i)
  PROVE  InstallInv'
  <1>1. UNCHANGED <<vars, env, revision, legacy, api>> /\ image' \in BOOLEAN /\ (Succeed(i) \/ Stop(i))
    BY DEF EnsureImage, InstallInv, InstallTypes, FileTypes
  <1>2. CASE Stop(i)
    BY <1>1, <1>2, StopStep, LookingStep
  <1>3. CASE Succeed(i)
    <2>1. OnlyScript(i) /\ inst'[i].pc = "migrate"
      BY <1>3, SucceedStep, Places DEF EnsureImage
    <2>2. ScriptInv(i) /\ inst[i].pc = "image"
      BY DEF EnsureImage, InstallInv, Doing
    <2>3. ScriptInv(i)'
      BY <1>1, <2>1, <2>2, PastSets DEF ScriptInv, Doing
    <2> QED BY <1>1, <2>1, <2>3, LookingStep
  <1> QED BY <1>1, <1>2, <1>3

\* ReadRevision: the revision that was read is the latest only if it stays so.
LEMMA ReadRevisionStep ==
  ASSUME InstallInv, NEW i \in Req, ReadRevision(i)
  PROVE  InstallInv'
  <1>1. /\ inst[i] \in Script /\ inst[i].pc = "migrate" /\ ScriptInv(i) /\ revision \in Nat
        /\ UNCHANGED <<vars, env, revision, legacy, api>> /\ image' \in BOOLEAN
    BY DEF ReadRevision, Doing, InstallInv, InstallTypes, FileTypes
  <1> DEFINE m == [inst[i] EXCEPT !.pc = "upgrade", !.revision = revision]
  <1>2. m \in Script /\ m.pc = "upgrade" /\ m.revision = revision
    <2>1. "upgrade" \in Phase
      BY Places DEF Phase
    <2> QED BY <1>1, <2>1 DEF Script
  <1>3. inst' = [inst EXCEPT ![i] = m]
    <2>1. inst' = [inst EXCEPT ![i].pc = Following(@), ![i].revision = revision]
      BY DEF ReadRevision
    <2> QED BY <1>1, <2>1, Follow
  <1> HIDE DEF m
  <1>4. OnlyScript(i) /\ inst'[i] = m
    BY <1>2, <1>3, Scripts
  <1>5. ScriptInv(i)'
    BY <1>1, <1>2, <1>4, PastSets DEF ScriptInv, Doing
  <1> QED BY <1>1, <1>4, <1>5, LookingStep

\* LookForRole goes on, after the upgrade.
LEMMA LookForRoleStep ==
  ASSUME InstallInv, NEW i \in Req, LookForRole(i)
  PROVE  InstallInv'
  <1>1. /\ inst[i] \in Script /\ inst[i].pc = "seed" /\ ScriptInv(i) /\ adminRole \in BOOLEAN
        /\ UNCHANGED <<vars, env, revision, legacy, api>> /\ image' \in BOOLEAN
    BY DEF LookForRole, Doing, InstallInv, InstallTypes, FileTypes, IInv, TypeOK
  <1> DEFINE m == [inst[i] EXCEPT !.pc = "insert", !.role = adminRole]
  <1>2. m \in Script /\ m.pc = "insert"
    <2>1. "insert" \in Phase
      BY Places DEF Phase
    <2> QED BY <1>1, <2>1 DEF Script
  <1>3. inst' = [inst EXCEPT ![i] = m]
    <2>1. inst' = [inst EXCEPT ![i].pc = Following(@), ![i].role = adminRole]
      BY DEF LookForRole
    <2> QED BY <1>1, <2>1, Follow
  <1> HIDE DEF m
  <1>4. OnlyScript(i) /\ inst'[i] = m
    BY <1>2, <1>3, Scripts
  <1>5. ScriptInv(i)'
    BY <1>1, <1>2, <1>4, PastSets DEF ScriptInv, Doing, vars
  <1> QED BY <1>1, <1>4, <1>5, LookingStep

\* ExitSync: the script goes on when a sync has ended well, and so with a release applied.
LEMMA ExitSyncStep ==
  ASSUME InstallInv, NEW i \in Req, ExitSync(i)
  PROVE  InstallInv'
  <1>1. UNCHANGED <<vars, env, revision, legacy, api>> /\ image' \in BOOLEAN
    BY DEF ExitSync, InstallInv, InstallTypes, FileTypes
  <1>2. CASE Stop(i)
    BY <1>1, <1>2, StopStep, LookingStep
  <1>3. CASE ~Stop(i)
    <2>1. Succeed(i) /\ req[i].exit = 0 /\ At(i, "idle")
      BY <1>3 DEF ExitSync
    <2>2. OnlyScript(i) /\ inst'[i].pc = "api"
      BY <2>1, SucceedStep, Places DEF ExitSync
    <2>3. ScriptInv(i) /\ inst[i].pc = "exit"
      BY DEF ExitSync, InstallInv, Doing
    <2>4. applied # {}
      BY <2>1, <2>3 DEF ScriptInv, Exited, Doing
    <2>5. ScriptInv(i)'
      BY <1>1, <2>2, <2>3, <2>4, PastSets DEF ScriptInv, Doing, vars
    <2> QED BY <1>1, <2>2, <2>5, LookingStep
  <1> QED BY <1>2, <1>3

\* WaitForHealth: the API runs when the script is done.
LEMMA WaitForHealthStep ==
  ASSUME InstallInv, NEW i \in Req, WaitForHealth(i)
  PROVE  InstallInv'
  <1>1. OnlyScript(i) /\ inst'[i].pc = "done"
    BY SucceedStep, Places DEF WaitForHealth
  <1>2. UNCHANGED <<vars, env, revision, legacy, api>> /\ image' \in BOOLEAN
    BY DEF WaitForHealth, InstallInv, InstallTypes, FileTypes
  <1>3. ScriptInv(i) /\ inst[i].pc = "health"
    BY DEF WaitForHealth, InstallInv, Doing
  <1>4. ScriptInv(i)'
    BY <1>1, <1>2, <1>3, PastSets DEF ScriptInv, Doing, vars
  <1> QED BY <1>1, <1>2, <1>4, LookingStep

\* Fail ends the script.
LEMMA FailStep ==
  ASSUME InstallInv, NEW i \in Req, Fail(i)
  PROVE  InstallInv'
  <1>1. UNCHANGED <<vars, env, revision, legacy, api>> /\ image' \in BOOLEAN /\ Stop(i)
    BY DEF Fail, InstallInv, InstallTypes, FileTypes
  <1> QED BY <1>1, StopStep, LookingStep

\* UpApi: the API gets the keys of a file that stays.
LEMMA UpApiStep ==
  ASSUME InstallInv, NEW i \in Req, UpApi(i)
  PROVE  InstallInv'
  <1>1. OnlyScript(i) /\ inst'[i].pc = "health"
    BY SucceedStep, Places DEF UpApi
  <1>2. UNCHANGED <<vars, env, revision, legacy, image>> /\ api' = env
    BY DEF UpApi
  <1>3. ScriptInv(i) /\ inst[i].pc = "api"
    BY DEF UpApi, InstallInv, Doing
  <1>4. env \in Key /\ api' # NoKey /\ revision = Latest
    BY <1>2, <1>3, PastSets, InitAssumption DEF ScriptInv
  <1>5. ScriptInv(i)'
    BY <1>1, <1>2, <1>3, <1>4, PastSets DEF ScriptInv, Doing, vars
  <1>6. IInv' /\ Grows /\ \A q \in Req \ {i} : req'[q] = req[q]
    BY <1>2, <1>4, Stutter DEF InstallInv, Grows, vars
  <1>7. FileTypes' /\ OldInv' /\ ApiInv'
    BY <1>2, <1>4 DEF InstallInv, InstallTypes, FileTypes, OldInv, ApiInv, vars
  <1> QED BY <1>1, <1>5, <1>6, <1>7, ScriptStep

\* The first upgrade to the latest revision finds nothing that uses the tables, and leaves
\* what was there to the main application.
LEMMA UpgradedRows ==
  ASSUME InstallInv, revision # Latest,
         perm' = [n \in Name |-> IF n \in legacy THEN WithOwner(WithDeclaration(NoRow)) ELSE NoRow],
         UNCHANGED <<binding, adminRole, granted, app, locks, session, req, mix, applied, reported, taken>>
  PROVE  IInv'
  <1>1. /\ applied = {} /\ binding = {} /\ (\A a \in App : reported[a] = {NoName})
        /\ (\A u \in User : ~session[u].open) /\ (\A r \in Req : req[r].pc = "idle" /\ req[r].op = "none")
    BY DEF InstallInv, OldInv
  <1> DEFINE row == WithOwner(WithDeclaration(NoRow))
  <1>2. row \in Row /\ row.owner = MainApp /\ NoRow \in Row /\ NoRow.owner = NoApp
    BY DEF WithOwner, WithDeclaration, NoRow, Row
  <1>3. legacy \subseteq Main
    BY DEF InstallInv, InstallTypes, FileTypes
  <1> HIDE DEF row
  <1>4. perm' = [n \in Name |-> IF n \in legacy THEN row ELSE NoRow]
    BY DEF row
  <1>5. perm' \in [Name -> Row]
    BY <1>2, <1>4
  <1>6. TypeOK'
    BY <1>1, <1>5 DEF InstallInv, IInv, TypeOK, locks
  <1>7. RowInv'
    <2>1. \A n \in Name : \/ n \in Main /\ perm'[n].owner = MainApp
                          \/ perm'[n] = NoRow /\ perm'[n].owner = NoApp
      BY <1>2, <1>3, <1>4
    <2> QED BY <1>1, <2>1, SyncAssumption DEF RowInv, NoRow
  <1>8. CheckPassesAfterApply' /\ ReportsHold' /\ SweepsReachEveryone'
    BY <1>1 DEF CheckPassesAfterApply, ReportsHold, SweepsReachEveryone
  <1>9. \A r \in Req : RequestInv(r)'
    BY <1>1, IdleHolds
  <1> QED BY <1>6, <1>7, <1>8, <1>9 DEF IInv

\* Upgrade: the first one changes rows that nothing uses, later ones change nothing.
LEMMA UpgradeStep ==
  ASSUME InstallInv, NEW i \in Req, Upgrade(i)
  PROVE  InstallInv'
  <1>1. /\ UNCHANGED <<binding, adminRole, granted, app, locks, session, req, mix, applied, reported, taken>>
        /\ UNCHANGED <<env, legacy, image, api>> /\ inst[i].pc = "upgrade" /\ ScriptInv(i)
    BY DEF Upgrade, Doing, InstallInv
  <1>2. image' \in BOOLEAN
    BY <1>1 DEF InstallInv, InstallTypes, FileTypes
  <1>3. ASSUME UNCHANGED <<perm, revision>> PROVE UNCHANGED <<vars, env, revision, legacy, api>>
    BY <1>1, <1>3 DEF vars, locks
  <1>4. CASE Stop(i) /\ UNCHANGED <<perm, revision>>
    BY <1>2, <1>3, <1>4, StopStep, LookingStep
  <1>5. ASSUME Succeed(i), revision' = Latest, env' = env
        PROVE  OnlyScript(i) /\ ScriptInv(i)'
    <2>1. OnlyScript(i) /\ inst'[i].pc = "seed"
      BY <1>5, SucceedStep, Places DEF Upgrade
    <2> QED BY <1>1, <1>5, <2>1, PastSets DEF ScriptInv, Doing
  <1>6. CASE inst[i].revision = Latest /\ Succeed(i) /\ UNCHANGED <<perm, revision>>
    <2>1. revision = Latest
      BY <1>1, <1>6 DEF ScriptInv, Doing
    <2> QED BY <1>1, <1>2, <1>3, <1>5, <1>6, <2>1, LookingStep
  <1>7. CASE /\ revision # Latest /\ revision' = Latest /\ Succeed(i)
             /\ perm' = [n \in Name |-> IF n \in legacy THEN WithOwner(WithDeclaration(NoRow)) ELSE NoRow]
    <2>1. IInv'
      BY <1>1, <1>7, UpgradedRows
    <2>2. Grows /\ \A q \in Req \ {i} : req'[q] = req[q]
      BY <1>1, <1>7 DEF Grows
    <2>3. FileTypes' /\ OldInv' /\ ApiInv'
      BY <1>1, <1>7 DEF InstallInv, InstallTypes, FileTypes, OldInv, ApiInv, Latest
    <2> QED BY <1>1, <1>5, <1>7, <2>1, <2>2, <2>3, ScriptStep
  <1> QED BY <1>4, <1>6, <1>7 DEF Upgrade

\* CommitSeed: there is a role from here on; no plan depends on that.
LEMMA CommitSeedStep ==
  ASSUME InstallInv, NEW i \in Req, CommitSeed(i)
  PROVE  InstallInv'
  <1>1. /\ UNCHANGED <<perm, binding, granted, app, locks, session, req, mix, applied, reported, taken>>
        /\ UNCHANGED <<env, revision, legacy, image, api>> /\ inst[i].pc = "insert" /\ ScriptInv(i)
        /\ adminRole' = TRUE /\ (Succeed(i) \/ Stop(i))
    BY DEF CommitSeed, Doing, InstallInv
  <1>2. IInv'
    <2>1. Stable(Main) /\ Stable(Sub) /\ RowInv'
      BY <1>1, RowsStay DEF InstallInv
    <2>2. TypeOK'
      BY <1>1 DEF InstallInv, IInv, TypeOK, locks
    <2>3. SweepsReachEveryone'
      BY <1>1 DEF InstallInv, IInv, SweepsReachEveryone, Held, Effective, RolePermissions
    <2>4. \A q \in Req : req'[q] = req[q] /\ Frame(q)
      BY <1>1, <2>1 DEF Frame, LossKept, locks
    <2> QED BY <1>1, <2>1, <2>2, <2>3, <2>4, AdministratorStep DEF InstallInv
  <1>3. Grows /\ \A q \in Req \ {i} : req'[q] = req[q]
    BY <1>1 DEF Grows
  <1>4. FileTypes' /\ OldInv' /\ ApiInv'
    BY <1>1 DEF InstallInv, InstallTypes, FileTypes, OldInv, ApiInv
  <1>5. CASE Stop(i)
    BY <1>2, <1>3, <1>4, <1>5, StopStep, ScriptStep
  <1>6. CASE Succeed(i)
    <2>1. OnlyScript(i) /\ inst'[i].pc = "sync"
      BY <1>6, SucceedStep, Places DEF CommitSeed
    <2>2. ScriptInv(i)'
      BY <1>1, <2>1, PastSets DEF ScriptInv, Doing
    <2> QED BY <1>2, <1>3, <1>4, <2>1, <2>2, ScriptStep
  <1> QED BY <1>1, <1>5, <1>6

\* RunSync: the script waits for a sync that runs, or that has failed.
LEMMA RunSyncStep ==
  ASSUME InstallInv, NEW i \in Req, RunSync(i)
  PROVE  InstallInv'
  <1>1. PICK release \in Releases : StartSync(i, release)
    BY DEF RunSync
  <1>2. UNCHANGED <<rows, locks, session>> /\ UNCHANGED <<env, revision, legacy, image, api>>
        /\ inst[i].pc = "sync" /\ ScriptInv(i) /\ revision = Latest
    BY <1>1, PastSets DEF RunSync, Doing, InstallInv, ScriptInv, StartSync
  <1>3. IInv'
    BY <1>1, StartSyncStep DEF InstallInv
  <1>4. Exited(i)' /\ \A q \in Req \ {i} : req'[q] = req[q]
    <2>1. req' = [req EXCEPT ![i] = IF CannotPlan(release) THEN [Idle EXCEPT !.exit = 2]
                     ELSE [Idle EXCEPT !.pc = "advisory", !.op = "sync", !.release = release]]
      BY <1>1 DEF StartSync
    <2>2. req'[i] = IF CannotPlan(release) THEN [Idle EXCEPT !.exit = 2]
                     ELSE [Idle EXCEPT !.pc = "advisory", !.op = "sync", !.release = release]
      BY <2>1 DEF InstallInv, IInv, TypeOK
    <2>3. Exited(i)'
      BY <2>2 DEF Exited, At, Idle
    <2> QED BY <2>1, <2>3 DEF InstallInv, IInv, TypeOK
  <1>5. OnlyScript(i) /\ inst'[i].pc = "exit"
    BY SucceedStep, Places DEF RunSync
  <1>6. ScriptInv(i)'
    BY <1>2, <1>4, <1>5, PastSets DEF ScriptInv, Doing, rows
  <1>7. Grows
    BY <1>2 DEF Grows, rows
  <1>8. FileTypes' /\ OldInv' /\ ApiInv'
    BY <1>2 DEF InstallInv, InstallTypes, FileTypes, OldInv, ApiInv
  <1> QED BY <1>3, <1>4, <1>5, <1>6, <1>7, <1>8, ScriptStep

-----------------------------------------------------------------------------
(* Scripts while the system is used *)

\* A step of a request: a sync stays one, or ends well only if a release has been applied.
LEMMA ProceedFacts ==
  ASSUME IInv, NEW r \in Req, Proceed(r)
  PROVE  /\ ~At(r, "idle") /\ adminRole' = adminRole /\ (applied # {} => applied' # {})
         /\ \A q \in Req \ {r} : req'[q] = req[q]
         /\ req[r].op = "sync" => Exited(r)'
  <1>1. ASSUME Rollback(r), ~At(r, "idle")
        PROVE  /\ adminRole' = adminRole /\ applied' = applied /\ (\A q \in Req \ {r} : req'[q] = req[q])
               /\ req[r].op = "sync" => Exited(r)'
    <2>1. PICK status \in 0..2 : End(r, status) /\ (req[r].op = "sync" => status = 2)
      BY <1>1 DEF Rollback
    <2>2. OnlyRequest(r) /\ req'[r].pc = "idle" /\ req'[r].exit = status
      BY <2>1, EndStep
    <2> QED BY <1>1, <2>1, <2>2 DEF Rollback, rows, OnlyRequest, Exited, At
  <1>2. ASSUME NEW step \in Step \ {"idle"}, Goto(r, step)
        PROVE  /\ (\A q \in Req \ {r} : req'[q] = req[q]) /\ (req[r].op = "sync" => Exited(r)')
    <2>1. OnlyRequest(r) /\ req'[r].pc = step /\ req'[r].op = req[r].op
      BY <1>2, Moves DEF Continues
    <2> QED BY <1>2, <2>1 DEF OnlyRequest, Exited, At
  <1>3. ASSUME Commit(r) \/ CommitSwitch(r) \/ CommitEdit(r)
        PROVE  /\ ~At(r, "idle") /\ adminRole' = adminRole /\ (applied # {} => applied' # {})
               /\ (\A q \in Req \ {r} : req'[q] = req[q]) /\ (req[r].op = "sync" => Exited(r)')
    <2>1. End(r, 0) /\ ~At(r, "idle") /\ adminRole' = adminRole
      BY <1>3 DEF Commit, CommitSwitch, CommitEdit, At
    <2>2. OnlyRequest(r) /\ req'[r].pc = "idle" /\ req'[r].exit = 0
      BY <2>1, EndStep
    <2>3. (applied # {} => applied' # {}) /\ (req[r].op = "sync" => applied' # {})
      <3>1. req[r].op = "sync" => req[r].release \in Releases
        BY DEF IInv, RequestInv, ShapeInv
      <3> QED BY <1>3, <3>1, SyncAssumption DEF Commit, CommitSwitch, CommitEdit, Switch
    <2> QED BY <2>1, <2>2, <2>3 DEF OnlyRequest, Exited, At
  <1>4. CASE BuildPlan(r) \/ LoadRows(r) \/ (DecideReport(r) /\ ~Rollback(r))
    <2>1. ~At(r, "idle") /\ UNCHANGED rows
      BY <1>4 DEF BuildPlan, LoadRows, DecideReport, At
    <2>2. \A q \in Req \ {r} : req'[q] = req[q]
      BY <1>4 DEF BuildPlan, LoadRows, DecideReport, IInv, TypeOK
    <2>3. ASSUME req[r].op = "sync" PROVE req'[r].op = "sync" /\ req'[r].pc \in {"rows", "flush"}
      BY <1>4, <2>3 DEF BuildPlan, LoadRows, DecideReport, At, IInv, TypeOK, Request
    <2> QED BY <2>1, <2>2, <2>3 DEF rows, Exited, At
  <1>5. CASE /\ ~Rollback(r)
             /\ \/ TakeAdvisoryLock(r) \/ Grant(r) \/ LockCaller(r) \/ LockAdminRole(r) \/ Flush(r) \/ Sweep(r)
                \/ LockPermission(r) \/ UpdatePermission(r) \/ LockWanted(r)
    <2>1. ~At(r, "idle") /\ UNCHANGED rows
      BY <1>5 DEF TakeAdvisoryLock, Grant, LockCaller, LockAdminRole, Flush, Sweep, LockPermission,
                  UpdatePermission, LockWanted, At
    <2>2. \E step \in {"plan", "sweep", "role", "grant", "commit"} : Goto(r, step)
      BY <1>5 DEF TakeAdvisoryLock, Grant, LockCaller, LockAdminRole, Flush, Sweep, LockPermission,
                  UpdatePermission, LockWanted
    <2> QED BY <1>2, <2>1, <2>2 DEF rows, Step
  <1>6. CASE CommitAssign(r) \/ (LockRoleToAssign(r) /\ ~Rollback(r))
    <2>1. /\ ~At(r, "idle") /\ adminRole' = adminRole /\ applied' = applied /\ req[r].op = "assign"
          /\ \A q \in Req \ {r} : req'[q] = req[q]
      BY <1>6 DEF CommitAssign, LockRoleToAssign, At, rows, IInv, TypeOK
    <2> QED BY <2>1
  <1>7. CASE /\ Rollback(r)
             /\ \/ Grant(r) \/ LockCaller(r) \/ LockAdminRole(r) \/ DecideReport(r) \/ LockPermission(r)
                \/ UpdatePermission(r) \/ LockRoleToAssign(r) \/ LockWanted(r) \/ Abort(r)
    <2>1. ~At(r, "idle")
      BY <1>7 DEF Grant, LockCaller, LockAdminRole, DecideReport, LockPermission, UpdatePermission,
                  LockRoleToAssign, LockWanted, Abort, At
    <2> QED BY <1>1, <1>7, <2>1
  <1>8. CASE Rollback(r) /\ (TakeAdvisoryLock(r) \/ Flush(r) \/ Sweep(r))
    <2>1. ~At(r, "idle")
      BY <1>8 DEF TakeAdvisoryLock, Flush, Sweep, At
    <2> QED BY <1>1, <1>8, <2>1
  <1> QED BY <1>3, <1>4, <1>5, <1>6, <1>7, <1>8 DEF Proceed, Abort

\* Whatever is used, scripts rely on what they did: only syncs end a script's sync.
LEMMA UseStep ==
  ASSUME InstallInv, Use
  PROVE  InstallInv'
  <1>1. UNCHANGED <<env, revision, legacy, image, api, inst>>
    BY DEF Use
  <1>2. ASSUME IInv', revision = Latest, adminRole' = adminRole, applied # {} => applied' # {},
               \A q \in Req : Doing(q, "exit") => req'[q] = req[q] \/ Exited(q)'
        PROVE  InstallInv'
    <2>1. Grows
      BY <1>1, <1>2 DEF Grows
    <2>2. \A q \in Req : ScriptInv(q)'
      BY <1>1, <1>2, <2>1, ScriptKept
    <2> QED BY <1>1, <1>2, <2>2 DEF InstallInv, InstallTypes, FileTypes, OldInv, ApiInv
  <1>3. ASSUME NEW a \in App, SwitchApp(a), api # NoKey PROVE InstallInv'
    <2>1. IInv' /\ revision = Latest
      BY <1>3, SwitchAppStep DEF InstallInv, OldInv
    <2> QED BY <1>2, <1>3, <2>1 DEF SwitchApp
  <1>4. ASSUME NEW u \in User, Login(u), api # NoKey PROVE InstallInv'
    <2>1. IInv' /\ revision = Latest
      BY <1>4, LoginStep DEF InstallInv, OldInv
    <2> QED BY <1>2, <1>4, <2>1 DEF Login, rows
  <1>5. ASSUME NEW r \in Req, revision = Latest, inst[r].pc \in {"idle", "done"}, Start(r) PROVE InstallInv'
    <2>1. IInv'
      BY <1>5, StartStep DEF InstallInv
    <2>2. adminRole' = adminRole /\ applied' = applied /\ \A q \in Req \ {r} : req'[q] = req[q]
      BY <1>5 DEF Start, StartSync, CheckSync, StartReport, StartSwitch, StartEdit, StartAssign, rows, InstallInv, IInv, TypeOK
    <2> QED BY <1>2, <1>5, <2>1, <2>2 DEF Doing
  <1>6. ASSUME NEW r \in Req, Proceed(r) PROVE InstallInv'
    <2>1. IInv' /\ revision = Latest
      BY <1>6, ProceedStep, ProceedFacts DEF InstallInv, OldInv, At
    <2>2. Doing(r, "exit") => Exited(r)'
      <3>1. Doing(r, "exit") => Exited(r)
        BY DEF InstallInv, ScriptInv
      <3> QED BY <1>6, <3>1, ProceedFacts DEF Exited, InstallInv
    <2> QED BY <1>2, <1>6, <2>1, <2>2, ProceedFacts DEF InstallInv
  <1> QED BY <1>3, <1>4, <1>5, <1>6 DEF Use

-----------------------------------------------------------------------------
(* The invariant *)

\* The invariant holds of an installed system, and of what the scripts find.
LEMMA InstallInitially ==
  ASSUME InstallInit
  PROVE  InstallInv
  <1>1. Unsynced /\ adminRole \in BOOLEAN /\ granted \subseteq Name
    BY DEF InstallInit, Init, Name
  <1>2. IInv
    BY <1>1, Initially
  <1>3. NotRunning \in Script /\ NotRunning.pc = "idle"
    BY DEF Script, Phase, NotRunning
  <1>4. InstallTypes
    <2>1. inst \in [Req -> Script]
      BY <1>3 DEF InstallInit
    <2>2. revision \in Nat /\ legacy \subseteq Main
      <3>1. Found \subseteq Nat /\ Latest \in Nat
        BY InitAssumption DEF Latest, Declaring
      <3>2. revision \in Found \cup {Latest}
        BY DEF InstallInit
      <3>3. legacy \subseteq Main
        BY DEF InstallInit
      <3> QED BY <3>1, <3>2, <3>3
    <2>3. env \in Key \cup {NoFile, Unfit} /\ api \in Key \cup {NoKey}
      BY DEF InstallInit
    <2>4. image \in BOOLEAN
      BY DEF InstallInit
    <2> QED BY <2>1, <2>2, <2>3, <2>4 DEF InstallTypes, FileTypes
  <1>5. OldInv
    BY <1>1 DEF InstallInit, OldInv, Unsynced, Idle
  <1>6. ApiInv
    BY DEF InstallInit, ApiInv
  <1>7. \A i \in Req : ScriptInv(i)
    <2>1. \A i \in Req : inst[i].pc = "idle"
      BY <1>3 DEF InstallInit
    <2> QED BY <2>1, PastSets DEF ScriptInv, Doing
  <1> QED BY <1>2, <1>4, <1>5, <1>6, <1>7 DEF InstallInv

\* The invariant is inductive,
LEMMA InstallSteps ==
  ASSUME InstallInv, [InstallNext]_installVars
  PROVE  InstallInv'
  <1>1. ASSUME NEW i \in Req, Install(i) PROVE InstallInv'
    <2>1. CASE StartInstall(i) \/ DraftEnv(i) \/ LinkEnv(i) \/ WaitForStores(i) \/ EnsureImage(i)
      BY <2>1, StartInstallStep, DraftEnvStep, LinkEnvStep, WaitForStoresStep, EnsureImageStep
    <2>2. CASE ReadRevision(i) \/ Upgrade(i) \/ LookForRole(i) \/ CommitSeed(i) \/ RunSync(i)
      BY <2>2, ReadRevisionStep, UpgradeStep, LookForRoleStep, CommitSeedStep, RunSyncStep
    <2>3. CASE ExitSync(i) \/ UpApi(i) \/ WaitForHealth(i) \/ Fail(i)
      BY <2>3, ExitSyncStep, UpApiStep, WaitForHealthStep, FailStep
    <2> QED BY <1>1, <2>1, <2>2, <2>3 DEF Install
  <1>2. CASE UNCHANGED installVars
    <2>1. IInv' /\ Grows
      BY <1>2, Stutter DEF InstallInv, installVars, Grows, vars
    <2>2. \A q \in Req : ScriptInv(q)'
      BY <1>2, <2>1, ScriptKept DEF installVars, vars
    <2> QED BY <1>2, <2>1, <2>2 DEF InstallInv, InstallTypes, FileTypes, OldInv, ApiInv, installVars, vars
  <1> QED BY <1>1, <1>2, EditEnvStep, UseStep DEF InstallNext

\* and so it always holds.
LEMMA InstallInvariance == InstallSpec => []InstallInv
  BY InstallInitially, InstallSteps, PTL DEF InstallSpec

-----------------------------------------------------------------------------
(* What a step may do to a permission, scripts included *)

\* The upgrade changes rows when there are none to speak of, and nothing else but commits does.
LEMMA InstallRowChanges ==
  ASSUME InstallInv, [InstallNext]_installVars
  PROVE  RowsChange \/ \A n \in Name : perm[n].owner = NoApp
  <1>1. ASSUME NEW i \in Req, Install(i)
        PROVE  UNCHANGED <<perm, binding>> \/ \A n \in Name : perm[n].owner = NoApp
    <2>1. CASE Upgrade(i)
      BY <2>1 DEF Upgrade, InstallInv, OldInv, NoRow
    <2>2. CASE RunSync(i)
      BY <2>2 DEF RunSync, StartSync, rows
    <2> QED BY <1>1, <2>1, <2>2 DEF Install, StartInstall, DraftEnv, LinkEnv, WaitForStores, EnsureImage, ReadRevision,
               LookForRole, CommitSeed, ExitSync, UpApi, WaitForHealth, Fail, vars
  <1>2. Use \/ UNCHANGED installVars => [Next]_vars
    BY DEF Use, Next, installVars
  <1>3. EditEnv => UNCHANGED <<perm, binding>>
    BY DEF EditEnv, vars
  <1> QED BY <1>1, <1>2, <1>3, RowChanges DEF InstallNext, RowsChange

-----------------------------------------------------------------------------
(* Theorems *)

\* The API that runs has the keys of the file, and a script that ends well leaves an
\* installation that works, whatever other scripts did or failed to do meanwhile.
THEOREM InstallationsWork == InstallSpec => []Installed
  <1>1. InstallInv => Installed
    BY PastSets DEF InstallInv, ApiInv, ScriptInv, Installed, Doing
  <1> QED BY <1>1, InstallInvariance, PTL

\* What holds of a system that was installed before holds from an empty or old database on.
THEOREM SafeFromTheStart ==
  InstallSpec => [](TypeOK /\ CheckPassesAfterApply /\ ReportsHold /\ SweepsReachEveryone)
  BY InstallInvariance, PTL DEF InstallInv, IInv

\* So do the properties of steps: decisions, versions and reports.
THEOREM StepsFromTheStart ==
  InstallSpec => DecisionsKept /\ OnlyAdministratorsLoseVersions /\ SilentOnceDisabled
  <1>1. InstallInv /\ [InstallNext]_installVars => [\A n \in Name :
          perm[n].owner # NoApp /\ perm'[n].enabled # perm[n].enabled
              => \E r \in Req : req[r].op \in Switch /\ req[r].name = n /\ CommitSwitch(r)]_vars
    BY InstallRowChanges, DecisionStep DEF InstallInv
  <1>2. InstallInv /\ [InstallNext]_installVars => [\A n \in Name :
          perm[n].owner # NoApp /\ Changes(n) /\ perm'[n].version <= perm[n].version
          => \E r \in Req : /\ Commit(r) /\ n \in req[r].plan.updated
                            /\ req[r].seen[n].version < perm[n].version
                            /\ req[r].seen[n].declared = perm[n].declared]_vars
    BY InstallRowChanges, VersionStep DEF InstallInv
  <1>3. InstallInv => [\A r \in Req : req[r].op = "report" /\ Commit(r) => req[r].app \in app]_vars
    BY SilentStep DEF InstallInv
  <1> QED BY <1>1, <1>2, <1>3, InstallInvariance, PTL
      DEF InstallSpec, DecisionsKept, OnlyAdministratorsLoseVersions, SilentOnceDisabled
=============================================================================
