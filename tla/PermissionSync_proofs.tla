----------------------- MODULE PermissionSync_proofs -----------------------
(***************************************************************************)
(* Proofs about PermissionSync, for any permissions, releases, users,      *)
(* sub-applications and requests.  The invariant says that a plan, once    *)
(* built, stays the plan: while a sync or a report waits for its rows      *)
(* nobody else declares, retires or binds a name of its kind.  What it     *)
(* grants may be granted and taken by administrators meanwhile: what they  *)
(* take is what the admin role then misses.                                *)
(***************************************************************************)
EXTENDS PermissionSync, TLAPS

\* Names have two segments or three; so much do the rows of both kinds keep apart.
RowInv ==
    /\ \A n \in Name : /\ perm[n].owner = MainApp => n \in Main
                       /\ perm[n].owner \in App => n \in Sub
                       /\ perm[n].owner = NoApp => perm[n] = NoRow
    /\ \A b \in binding : perm[b[1]].owner = MainApp

Syncing(r, steps) == req[r].op = "sync" /\ req[r].pc \in steps
Reporting(r, steps) == req[r].op = "report" /\ req[r].pc \in steps
Switching(r, steps) == req[r].op \in Switch /\ req[r].pc \in steps
Assigning(r, steps) == req[r].op = "assign" /\ req[r].pc \in steps

\* The steps of an assignment once it has the role
AssignPlanned == {"wanted", "sweep", "commit"}
\* Which operation is at which step, and on what.
ShapeInv(r) ==
    /\ req[r].pc = "idle" => req[r].op = "none"
    /\ req[r].pc \in {"advisory", "rows", "grant"} => req[r].op = "sync"
    /\ req[r].pc = "caller" => req[r].op = "report"
    /\ req[r].pc = "role" => req[r].op \in {"report", "assign"}
    /\ req[r].pc = "wanted" => req[r].op = "assign"
    /\ req[r].pc = "edit" => req[r].op = "edit"
    /\ req[r].pc \in {"plan", "flush"} => req[r].op \in {"sync", "report"}
    /\ req[r].pc = "lock" => req[r].op \in Switch
    /\ req[r].pc = "sweep" => req[r].op \in {"sync", "report", "disable", "assign"}
    /\ req[r].pc = "commit" => req[r].op \in Op
    /\ req[r].op = "sync" => req[r].release \in Releases /\ ~ScanFails(req[r].release)
    /\ req[r].op = "report" => req[r].app \in App
    /\ req[r].op \in Switch \cup {"edit"} => req[r].name \in Name /\ perm[req[r].name].owner # NoApp
    /\ Assigning(r, AssignPlanned) => req[r].plan.users = Admins

\* The steps between a plan and its commit
SyncPlanned == {"rows", "flush", "grant", "sweep", "commit"}
ReportPlanned == {"flush", "sweep", "commit"}
Planned(r) == Syncing(r, SyncPlanned) \/ Reporting(r, ReportPlanned)
\* The steps between the rows' locks and the commit
Locking(r) == req[r].op \in {"sync", "report"} /\ req[r].pc \in {"grant", "sweep", "commit"}

\* What a request has locked, and that the application of a report stays enabled.
HoldInv(r) ==
    /\ Syncing(r, SyncPlanned \cup {"plan"}) => syncLock = r
    /\ Reporting(r, ReportPlanned \cup {"role", "plan"}) => appLock[req[r].app] = r /\ req[r].app \in app
    /\ Reporting(r, ReportPlanned \cup {"plan"}) => roleLock = r
    /\ Assigning(r, AssignPlanned) => roleLock = r
    /\ Locking(r) => \A n \in req[r].plan.updated : permLock[n] = r
    /\ Switching(r, {"sweep", "commit"}) => permLock[req[r].name] = r

\* A plan is what would be planned now, but for the users, as administrators may have
\* switched a permission since, and the grants.
Matches(plan, now) ==
    /\ plan.target = now.target /\ plan.created = now.created /\ plan.updated = now.updated
    /\ plan.removed = now.removed /\ plan.added = now.added
\* What it names is granted when it commits, unless administrators took it after the plan.
Grants(plan, gone) == plan.grants \subseteq plan.target /\ plan.target \subseteq plan.grants \cup granted \cup gone
PlanInv(r) ==
    /\ Syncing(r, SyncPlanned) => /\ Matches(req[r].plan, SyncPlan(req[r].release))
                                  /\ Grants(req[r].plan, lost[r])
    /\ Reporting(r, ReportPlanned) =>
          /\ Matches(req[r].plan, ReportPlan(req[r].app, req[r].codes))
          /\ Grants(req[r].plan, {})
          /\ \A n \in req[r].codes : perm[n].owner \in {req[r].app, NoApp}

\* Nobody else has declared or retired a row since it was loaded.
SeenInv(r) ==
    Planned(r) /\ req[r].pc # "rows" =>
       \A n \in req[r].plan.updated : /\ req[r].seen[n].declared = perm[n].declared
                                      /\ req[r].seen[n].version <= perm[n].version

\* An open session that claims what a request is going to take away was opened before its
\* plan, which ends it, or has raced.
Lost(r) == req[r].plan.updated \ req[r].plan.target
Claiming(names) == {u \in User : /\ session[u].open /\ ~session[u].raced
                                 /\ session[u].scope \cap names # {}}
WindowInv(r) ==
    /\ Planned(r) => Claiming(Lost(r)) \subseteq (IF req[r].pc = "commit" THEN {} ELSE req[r].plan.users)
    /\ req[r].op = "disable" /\ req[r].pc = "commit" => Claiming({req[r].name}) = {}
    /\ Assigning(r, {"commit"}) => Claiming(Name \ req[r].plan.target) \cap Admins = {}

RequestInv(r) == ShapeInv(r) /\ HoldInv(r) /\ PlanInv(r) /\ SeenInv(r) /\ WindowInv(r)
IInv == /\ TypeOK /\ RowInv /\ CheckPassesAfterApply /\ ReportsHold /\ SweepsReachEveryone
        /\ \A r \in Req : RequestInv(r)
-----------------------------------------------------------------------------
(* Types *)

\* The type of each field of a request.
LEMMA Fields ==
  ASSUME NEW m \in Request
  PROVE  /\ m.pc \in Step /\ m.op \in Op \cup {"none"} /\ m.release \in Releases \cup {{}}
         /\ m.app \in App \cup {NoApp} /\ m.codes \in SUBSET Sub /\ m.name \in Name \cup {NoName}
         /\ m.plan \in Plan /\ m.seen \in [Name -> Row] /\ m.exit \in 0..2
  BY DEF Request, Snapshot

\* The type of each field of a plan, and of each column of a row.
LEMMA PlanFields ==
  ASSUME NEW m \in Plan
  PROVE  /\ m.target \in SUBSET Name /\ m.created \in SUBSET Name /\ m.updated \in SUBSET Name
         /\ m.removed \in SUBSET Binding /\ m.added \in SUBSET Binding
         /\ m.grants \in SUBSET Name /\ m.users \in SUBSET User
  BY DEF Plan
\* The type of each column of a row.
LEMMA RowFields ==
  ASSUME NEW m \in Row
  PROVE  /\ m.owner \in App \cup {MainApp, NoApp} /\ m.declared \in BOOLEAN
         /\ m.enabled \in BOOLEAN /\ m.version \in Nat
  BY DEF Row

\* No row, no plan and no request have their types.
LEMMA IdleTypes == NoRow \in Row /\ NoPlan \in Plan /\ Idle \in Request
  <1>1. NoRow \in Row
    BY DEF NoRow, Row
  <1>2. NoPlan \in Plan
    BY DEF NoPlan, Plan
  <1>3. [n \in Name |-> NoRow] \in [Name -> Row]
    BY <1>1
  <1> QED BY <1>1, <1>2, <1>3 DEF Idle, Request, Step, Snapshot

\* The names that a release's routes require are of two segments.
LEMMA ScanTypes ==
  ASSUME NEW release \in Releases
  PROVE  /\ Bindings(release) \subseteq Binding /\ Names(release) \subseteq Main
         /\ \A b \in Bindings(release) : b[1] \in Names(release)
         /\ \A n \in Names(release) : \E b \in Bindings(release) : b[1] = n
  <1>1. release \subseteq Route
    BY SyncAssumption
  <1>2. \A route \in release : Requires(route) \subseteq Main
    BY <1>1 DEF Route, Dependency, Requires
  <1>3. Bindings(release) \subseteq Binding
    BY <1>1, <1>2 DEF Bindings, Binding, Route
  <1> QED BY <1>3 DEF Names, Binding

\* What belongs to the main application and what to a sub-application
LEMMA OwnedNames ==
  ASSUME RowInv
  PROVE  Owned(MainApp) \subseteq Main /\ (\A a \in App : Owned(a) \subseteq Sub)
  BY DEF Owned, RowInv

\* All bindings are of permissions of the main application.
LEMMA AllBindings ==
  ASSUME IInv
  PROVE  CurrentBindings = binding
  BY DEF IInv, TypeOK, Binding, Name, CurrentBindings, Owned, RowInv

\* Plans concern names of their kind only.
LEMMA SyncPlanNames ==
  ASSUME IInv, NEW release \in Releases
  PROVE  /\ SyncPlan(release) \in Plan
         /\ SyncPlan(release).updated \subseteq Main /\ SyncPlan(release).target \subseteq Main
         /\ SyncPlan(release).grants \subseteq Main
  <1> DEFINE known == Owned(MainApp)
             target == Names(release)
             flipped == {n \in known : perm[n].declared # (n \in target)}
             removed == CurrentBindings \ Bindings(release)
             added == Bindings(release) \ CurrentBindings
             grants == target \ (known \cap granted)
             updated == (target \ known) \cup flipped \cup {b[1] : b \in removed \cup added}
             users == Holders({n \in flipped : perm[n].enabled}, grants)
  <1>1. SyncPlan(release) = [target |-> target, created |-> target \ known, updated |-> updated,
           removed |-> removed, added |-> added, grants |-> grants, users |-> users]
    BY DEF SyncPlan
  <1>2. target \subseteq Main /\ known \subseteq Main /\ Bindings(release) \subseteq Binding
    BY ScanTypes, OwnedNames DEF IInv
  <1>3. removed \subseteq Binding /\ added \subseteq Binding
    BY <1>2 DEF IInv, TypeOK, CurrentBindings
  <1>4. updated \subseteq Main
    <2>1. \A b \in Binding : b[1] \in Main
      BY DEF Binding
    <2> QED BY <1>2, <1>3, <2>1
  <1>5. users \subseteq User
    BY DEF Holders
  <1>6. Main \subseteq Name
    BY DEF Name
  <1> HIDE DEF known, target, flipped, removed, added, updated, users
  <1>7. SyncPlan(release) \in Plan
    BY <1>1, <1>2, <1>3, <1>4, <1>5, <1>6 DEF Plan, grants
  <1> QED BY <1>1, <1>2, <1>4, <1>7 DEF grants
\* So do those of reports.
LEMMA ReportPlanNames ==
  ASSUME IInv, NEW a \in App, NEW codes \in SUBSET Sub
  PROVE  /\ ReportPlan(a, codes) \in Plan /\ ReportPlan(a, codes).target = codes
         /\ ReportPlan(a, codes).updated \subseteq Sub /\ ReportPlan(a, codes).grants \subseteq Sub
  <1> DEFINE known == Owned(a)
             flipped == {n \in known : perm[n].declared # (n \in codes)}
             grants == codes \ granted
             updated == (codes \ known) \cup flipped
             users == Holders({n \in flipped : perm[n].enabled}, grants)
  <1>1. ReportPlan(a, codes) = [NoPlan EXCEPT !.target = codes, !.created = codes \ known,
                       !.updated = updated, !.grants = grants, !.users = users]
    BY DEF ReportPlan
  <1>2. known \subseteq Sub
    BY OwnedNames DEF IInv
  <1>3. updated \subseteq Sub /\ users \subseteq User /\ Sub \subseteq Name
    BY <1>2 DEF Holders, Name
  <1> HIDE DEF known, flipped, updated, users
  <1>4. ReportPlan(a, codes) \in Plan
    BY <1>1, <1>3, IdleTypes DEF Plan, grants
  <1> QED BY <1>1, <1>3, <1>4 DEF grants, NoPlan

-----------------------------------------------------------------------------
(* What a step leaves to the requests that it does not concern *)

\* Nobody declares or retires a name of a kind; what the admin role loses of it is taken.
Stable(names) ==
    /\ \A n \in names : /\ perm'[n].owner = perm[n].owner /\ perm'[n].declared = perm[n].declared
                        /\ perm'[n].version >= perm[n].version
    /\ names \cap (granted \cup taken) \subseteq granted' \cup taken'
\* What the admin role loses is lost to a sync that has a plan.
LossKept(q) == granted \cup lost[q] \subseteq granted' \cup lost'[q]

\* What request q relies on, while others go on.
Frame(q) ==
    /\ syncLock = q => syncLock' = q /\ Stable(Main) /\ binding' = binding
    /\ roleLock = q => roleLock' = q /\ Stable(Sub) /\ granted \subseteq granted'
    /\ Syncing(q, SyncPlanned) => LossKept(q)
    /\ \A a \in App : appLock[a] = q => appLock'[a] = q /\ (a \in app => a \in app')
    /\ \A n \in Name : permLock[n] = q => permLock'[n] = q
    /\ \A n \in Name : perm[n].owner # NoApp => perm'[n].owner # NoApp
    /\ \A u \in User : session'[u].open /\ ~session'[u].raced =>
          \/ session[u].open /\ ~session[u].raced /\ session'[u].scope = session[u].scope
          \/ session'[u].scope = Held(u) /\ ~Concerns(q, u)

\* A plan of a sync stays the plan while the main application's permissions and bindings
\* stay as they are.
LEMMA SyncPlanKept ==
  ASSUME IInv, RowInv', Stable(Main), binding' = binding, binding' \subseteq Binding,
         NEW release \in Releases, NEW plan, Matches(plan, SyncPlan(release))
  PROVE  Matches(plan, SyncPlan(release)')
  <1>1. Owned(MainApp)' = Owned(MainApp) /\ Owned(MainApp) \subseteq Main
    <2>1. \A n \in Name : perm'[n].owner = MainApp <=> perm[n].owner = MainApp
      BY DEF IInv, RowInv, Stable, Name
    <2> QED BY <2>1, OwnedNames DEF Owned, IInv
  <1>2. CurrentBindings' = CurrentBindings
    BY <1>1 DEF CurrentBindings
  <1>3. \A n \in Owned(MainApp) : perm'[n].declared = perm[n].declared
    BY <1>1 DEF Stable
  <1>4. {n \in Owned(MainApp) : perm[n].declared # (n \in Names(release))}'
        = {n \in Owned(MainApp) : perm[n].declared # (n \in Names(release))}
    BY <1>1, <1>3
  <1> QED BY <1>1, <1>2, <1>4 DEF SyncPlan, Matches

\* So does the plan of a report.
LEMMA ReportPlanKept ==
  ASSUME IInv, RowInv', Stable(Sub), NEW a \in App, NEW codes \in SUBSET Sub,
         NEW plan, Matches(plan, ReportPlan(a, codes))
  PROVE  Matches(plan, ReportPlan(a, codes)')
  <1>1. Owned(a)' = Owned(a) /\ Owned(a) \subseteq Sub
    <2>1. \A n \in Name : perm'[n].owner = a <=> perm[n].owner = a
      BY DEF IInv, RowInv, Stable, Name
    <2> QED BY <2>1, OwnedNames DEF Owned, IInv
  <1>2. \A n \in Owned(a) : perm'[n].declared = perm[n].declared
    BY <1>1 DEF Stable
  <1>3. {n \in Owned(a) : perm[n].declared # (n \in codes)}'
        = {n \in Owned(a) : perm[n].declared # (n \in codes)}
    BY <1>1, <1>2
  <1>4. NoPlan' = NoPlan
    BY DEF NoPlan
  <1> QED BY <1>1, <1>3, <1>4 DEF ReportPlan, Matches, NoPlan

\* The names that a planned request is about
LEMMA PlannedNames ==
  ASSUME IInv, NEW r \in Req
  PROVE  /\ Syncing(r, SyncPlanned) => /\ req[r].release \in Releases /\ req[r].plan.updated \subseteq Main
                                       /\ req[r].plan.target \subseteq Main
         /\ Reporting(r, ReportPlanned) => /\ req[r].app \in App /\ req[r].plan.updated \subseteq Sub
                                           /\ req[r].plan.target \subseteq Sub /\ req[r].codes \subseteq Sub
  <1>1. RequestInv(r) /\ req[r].codes \in SUBSET Sub
    BY Fields DEF IInv, TypeOK
  <1>2. CASE Syncing(r, SyncPlanned)
    <2>1. req[r].release \in Releases /\ ~Reporting(r, ReportPlanned)
      BY <1>1, <1>2 DEF RequestInv, ShapeInv, Syncing, Reporting
    <2>2. Matches(req[r].plan, SyncPlan(req[r].release))
      BY <1>1, <1>2 DEF RequestInv, PlanInv
    <2> QED BY <2>1, <2>2, SyncPlanNames DEF Matches
  <1>3. CASE Reporting(r, ReportPlanned)
    <2>1. req[r].app \in App /\ ~Syncing(r, SyncPlanned)
      BY <1>1, <1>3 DEF RequestInv, ShapeInv, Syncing, Reporting
    <2>2. Matches(req[r].plan, ReportPlan(req[r].app, req[r].codes))
      BY <1>1, <1>3 DEF RequestInv, PlanInv
    <2> QED BY <1>1, <2>1, <2>2, ReportPlanNames DEF Matches
  <1> QED BY <1>2, <1>3

\* A request goes on with its plan.
Continues(q) == /\ req'[q].op = req[q].op /\ req'[q].release = req[q].release /\ req'[q].app = req[q].app
                /\ req'[q].codes = req[q].codes /\ req'[q].plan = req[q].plan /\ req'[q].name = req[q].name

\* Its plan stays what would be planned now,
LEMMA PlanKept ==
  ASSUME IInv, RowInv', binding' \subseteq Binding, NEW q \in Req, Continues(q),
         Syncing(q, SyncPlanned)' => /\ Syncing(q, SyncPlanned) /\ Stable(Main) /\ binding' = binding
                                     /\ LossKept(q),
         Reporting(q, ReportPlanned)' => Reporting(q, ReportPlanned) /\ Stable(Sub) /\ granted \subseteq granted'
  PROVE  PlanInv(q)'
  <1>1. PlanInv(q)
    BY DEF IInv, RequestInv
  <1>2. ASSUME Syncing(q, SyncPlanned)'
        PROVE  Matches(req[q].plan, SyncPlan(req[q].release))' /\ Grants(req[q].plan, lost[q])'
    <2>1. req[q].release \in Releases /\ Matches(req[q].plan, SyncPlan(req[q].release))
      BY <1>1, <1>2, PlannedNames DEF PlanInv
    <2>2. PICK release \in Releases : release = req[q].release
      BY <2>1
    <2>3. Matches(req[q].plan, SyncPlan(release)')
      BY <1>1, <1>2, <2>1, <2>2, SyncPlanKept
    <2>4. Grants(req[q].plan, lost[q])'
      BY <1>1, <1>2 DEF PlanInv, Grants, LossKept, Continues
    <2> QED BY <2>2, <2>3, <2>4 DEF Continues, Matches
  <1>3. ASSUME Reporting(q, ReportPlanned)'
        PROVE  /\ Matches(req[q].plan, ReportPlan(req[q].app, req[q].codes))' /\ Grants(req[q].plan, {})'
               /\ \A n \in req'[q].codes : perm'[n].owner \in {req'[q].app, NoApp}
    <2>1. /\ req[q].app \in App /\ req[q].codes \in SUBSET Sub
          /\ Matches(req[q].plan, ReportPlan(req[q].app, req[q].codes))
      BY <1>1, <1>3, PlannedNames DEF PlanInv
    <2>2. PICK a \in App, codes \in SUBSET Sub : a = req[q].app /\ codes = req[q].codes
      BY <2>1
    <2>3. Matches(req[q].plan, ReportPlan(a, codes)')
      BY <1>3, <2>1, <2>2, ReportPlanKept
    <2>4. \A n \in req[q].codes : perm'[n].owner \in {req[q].app, NoApp}
      BY <1>1, <1>3, <2>1 DEF PlanInv, Stable
    <2>5. Grants(req[q].plan, {})'
      BY <1>1, <1>3 DEF PlanInv, Grants, Continues
    <2> QED BY <2>2, <2>3, <2>4, <2>5 DEF Continues, Matches
  <1> QED BY <1>2, <1>3 DEF PlanInv

\* and the rows stay as they were loaded.
LEMMA SeenKept ==
  ASSUME IInv, perm' \in [Name -> Row], NEW q \in Req, Continues(q), req'[q].seen = req[q].seen,
         Syncing(q, SyncPlanned)' => Syncing(q, SyncPlanned) /\ Stable(Main),
         Reporting(q, ReportPlanned)' => Reporting(q, ReportPlanned) /\ Stable(Sub),
         req'[q].pc # "rows" => req[q].pc # "rows"
  PROVE  SeenInv(q)'
  <1> SUFFICES ASSUME Planned(q)', req'[q].pc # "rows", NEW n \in req[q].plan.updated
               PROVE  req[q].seen[n].declared = perm'[n].declared /\ req[q].seen[n].version <= perm'[n].version
    BY DEF SeenInv, Continues
  <1>1. /\ perm'[n].declared = perm[n].declared /\ perm'[n].version >= perm[n].version
        /\ n \in Name /\ Planned(q) /\ req[q].pc # "rows"
    BY PlannedNames DEF Planned, Stable, Name
  <1>2. /\ req[q].seen[n].declared = perm[n].declared /\ req[q].seen[n].version <= perm[n].version
    BY <1>1 DEF IInv, RequestInv, SeenInv
  <1>3. req[q].seen[n].version \in Nat /\ perm[n].version \in Nat /\ perm'[n].version \in Nat
    <2>1. perm[n] \in Row /\ perm'[n] \in Row
      BY <1>1 DEF IInv, TypeOK
    <2>2. req[q].seen \in [Name -> Row]
      BY Fields DEF IInv, TypeOK
    <2>3. req[q].seen[n] \in Row
      BY <1>1, <2>2
    <2> QED BY <2>1, <2>3, RowFields
  <1> QED BY <1>1, <1>2, <1>3

\* A request that a step does not concern keeps its invariant.
LEMMA Kept ==
  ASSUME IInv, RowInv', TypeOK', NEW q \in Req, req'[q] = req[q], Frame(q)
  PROVE  RequestInv(q)'
  <1>1. RequestInv(q) /\ Continues(q)
    BY DEF IInv, Continues
  <1>2. Syncing(q, SyncPlanned)' => /\ Syncing(q, SyncPlanned) /\ Stable(Main) /\ binding' = binding
                                    /\ LossKept(q)
    BY <1>1 DEF Syncing, RequestInv, HoldInv, Frame
  <1>3. Reporting(q, ReportPlanned)' => Reporting(q, ReportPlanned) /\ Stable(Sub) /\ granted \subseteq granted'
    BY <1>1 DEF Reporting, RequestInv, HoldInv, Frame
  <1>4. PlanInv(q)' /\ SeenInv(q)'
    BY <1>1, <1>2, <1>3, PlanKept, SeenKept DEF TypeOK
  <1>5. ShapeInv(q)'
    BY <1>1 DEF RequestInv, ShapeInv, Frame, Assigning
  <1>6. HoldInv(q)'
    <2>1. req[q].op = "report" => req[q].app \in App
      BY <1>1 DEF RequestInv, ShapeInv
    <2>2. req[q].op \in Switch => req[q].name \in Name
      BY <1>1 DEF RequestInv, ShapeInv
    <2>3. req[q].plan.updated \subseteq Name
      BY Fields, PlanFields DEF IInv, TypeOK
    <2> QED BY <1>1, <2>1, <2>2, <2>3 DEF RequestInv, HoldInv, Syncing, Reporting, Switching, Assigning, Locking, Frame
  <1>7. WindowInv(q)'
    <2>1. ASSUME Planned(q)
          PROVE  Claiming(Lost(q))' \subseteq Claiming(Lost(q))
      <3>1. Lost(q)' = Lost(q) /\ req[q].pc \in {"rows", "flush", "grant", "sweep", "commit"}
        BY <2>1 DEF Lost, Planned, Syncing, Reporting, SyncPlanned, ReportPlanned
      <3>2. SUFFICES ASSUME NEW u \in Claiming(Lost(q))', u \notin Claiming(Lost(q)) PROVE FALSE
        OBVIOUS
      <3>3. /\ u \in User /\ session'[u].open /\ ~session'[u].raced /\ session'[u].scope \cap Lost(q) # {}
        BY <3>1, <3>2 DEF Claiming
      <3>4. ~Concerns(q, u) /\ session'[u].scope = Held(u)
        BY <3>2, <3>3 DEF Claiming, Frame
      <3> QED BY <3>1, <3>3, <3>4 DEF Concerns, Lost
    <2>2. ASSUME req[q].op = "disable", req[q].pc = "commit"
          PROVE  Claiming({req[q].name})' \subseteq Claiming({req[q].name})
      <3>1. SUFFICES ASSUME NEW u \in Claiming({req[q].name})', u \notin Claiming({req[q].name}) PROVE FALSE
        OBVIOUS
      <3>2. /\ u \in User /\ session'[u].open /\ ~session'[u].raced /\ session'[u].scope \cap {req[q].name} # {}
        BY <3>1 DEF Claiming
      <3>3. ~Concerns(q, u) /\ session'[u].scope = Held(u)
        BY <3>1, <3>2 DEF Claiming, Frame
      <3> QED BY <2>2, <3>2, <3>3 DEF Concerns, At
    <2>3. Planned(q)' = Planned(q)
      BY DEF Planned, Syncing, Reporting
    <2>4. Planned(q) => Claiming(Lost(q))' \subseteq (IF req'[q].pc = "commit" THEN {} ELSE req'[q].plan.users)
      BY <1>1, <2>1 DEF RequestInv, WindowInv
    <2>5. req'[q].op = "disable" /\ req'[q].pc = "commit" => Claiming({req[q].name})' = {}
      BY <1>1, <2>2 DEF RequestInv, WindowInv
    <2>6. ASSUME Assigning(q, {"commit"})
          PROVE  Claiming(Name \ req[q].plan.target)' \cap Admins = {}
      <3>1. SUFFICES ASSUME NEW u \in Claiming(Name \ req[q].plan.target)', u \in Admins,
                            u \notin Claiming(Name \ req[q].plan.target)
                     PROVE  FALSE
        BY <1>1, <2>6 DEF RequestInv, WindowInv
      <3>2. /\ u \in User /\ session'[u].open /\ ~session'[u].raced
            /\ session'[u].scope \cap (Name \ req[q].plan.target) # {}
        BY <3>1 DEF Claiming
      <3>3. ~Concerns(q, u) /\ session'[u].scope = Held(u)
        BY <3>1, <3>2 DEF Claiming, Frame
      <3> QED BY <2>6, <3>1, <3>2, <3>3 DEF Concerns, At, Assigning
    <2> QED BY <2>3, <2>4, <2>5, <2>6 DEF WindowInv, Assigning
  <1> QED BY <1>4, <1>5, <1>6, <1>7 DEF RequestInv

\* A deployed release and the reports that were accepted are as they were while their
\* permissions and bindings are, but for what is taken from the admin role.
LEMMA CheckKept ==
  ASSUME IInv, RowInv', TypeOK', Stable(Main), binding' = binding, applied' = applied
  PROVE  CheckPassesAfterApply'
  <1> SUFFICES ASSUME applied # {}
               PROVE  SyncPlan(applied)'.updated = {} /\ SyncPlan(applied)'.grants \subseteq taken'
    BY DEF CheckPassesAfterApply
  <1>1. PICK release \in Releases : release = applied
    BY DEF IInv, TypeOK
  <1>2. Matches(SyncPlan(release), SyncPlan(release)) /\ binding' \subseteq Binding
    BY DEF Matches, TypeOK
  <1>3. Matches(SyncPlan(release), SyncPlan(release)')
    BY <1>2, SyncPlanKept
  <1>4. SyncPlan(release).updated = {} /\ SyncPlan(release).grants \subseteq taken
    BY <1>1 DEF IInv, CheckPassesAfterApply
  <1>5. SyncPlan(applied)' = SyncPlan(release)'
    BY <1>1
  <1>6. SyncPlan(release).grants = Names(release) \ (Owned(MainApp) \cap granted)
        /\ Names(release) \ Owned(MainApp) \subseteq SyncPlan(release).updated
        /\ SyncPlan(release)'.grants = Names(release) \ (Owned(MainApp)' \cap granted')
    BY DEF SyncPlan
  <1>7. Names(release) \subseteq Main /\ Names(release) \subseteq Owned(MainApp)'
    <2>1. Names(release) \subseteq Main /\ Names(release) \subseteq Owned(MainApp)
      BY <1>4, <1>6, ScanTypes
    <2>2. \A n \in Main : perm'[n].owner = perm[n].owner
      BY DEF Stable
    <2> QED BY <2>1, <2>2 DEF Owned
  <1>8. SyncPlan(release)'.grants \subseteq taken'
    BY <1>4, <1>6, <1>7 DEF Stable
  <1> QED BY <1>3, <1>4, <1>5, <1>8 DEF Matches
\* The reports that were accepted stay what is declared, as the permissions of their kind stay.
LEMMA ReportsKept ==
  ASSUME IInv, RowInv', Stable(Sub), reported' = reported
  PROVE  ReportsHold'
  <1> SUFFICES ASSUME NEW a \in App, reported[a] # {NoName}
               PROVE  Declared(a)' = reported[a] /\ reported[a] \ taken' \subseteq granted'
    BY DEF ReportsHold
  <1>1. Declared(a) = reported[a] /\ reported[a] \ taken \subseteq granted
    BY DEF IInv, ReportsHold
  <1>2. \A n \in Name : (perm'[n].owner = a /\ perm'[n].declared) <=> (perm[n].owner = a /\ perm[n].declared)
    BY DEF IInv, RowInv, Stable, Name
  <1>3. Declared(a)' = Declared(a)
    BY <1>2 DEF Declared, Owned
  <1>4. Declared(a) \subseteq Sub
    BY OwnedNames DEF Declared, IInv
  <1> QED BY <1>1, <1>3, <1>4 DEF Stable

\* Nobody else's locks are touched.
HoldersKept(q) ==
    /\ syncLock = q => syncLock' = q
    /\ roleLock = q => roleLock' = q
    /\ \A a \in App : appLock[a] = q => appLock'[a] = q
    /\ \A n \in Name : permLock[n] = q => permLock'[n] = q
LocksKept(q) == HoldersKept(q) /\ lost'[q] = lost[q]
HolderTypes ==
    /\ syncLock \in Req \cup {NoReq} /\ roleLock \in Req \cup {NoReq}
    /\ appLock \in [App -> Req \cup {NoReq}] /\ permLock \in [Name -> Req \cup {NoReq}]
LockTypes == HolderTypes /\ lost \in [Req -> SUBSET Name]

\* A step that writes no row keeps both kinds stable.
LEMMA RowsStay ==
  ASSUME IInv, UNCHANGED <<perm, binding, granted, taken>>
  PROVE  Stable(Main) /\ Stable(Sub) /\ RowInv'
  <1>1. \A n \in Name : perm[n].version \in Nat
    BY RowFields DEF IInv, TypeOK
  <1> QED BY <1>1 DEF Stable, IInv, RowInv, Name

\* A step of a request that changes locks, or closes sessions
OnlyRequest(r) == \E m \in Request : req' = [req EXCEPT ![r] = m]
Closing == /\ session' \in [User -> Session]
           /\ \A u \in User : session'[u].open => session'[u] = session[u]
\* Such a step keeps the invariant if its own request keeps it.
LEMMA QuietStep ==
  ASSUME IInv, NEW r \in Req, UNCHANGED rows, Closing, LockTypes', OnlyRequest(r),
         \A q \in Req \ {r} : LocksKept(q), RequestInv(r)'
  PROVE  IInv'
  <1>1. UNCHANGED <<perm, binding, adminRole, granted, app, mix, applied, reported, taken>>
    BY DEF rows
  <1>2. Stable(Main) /\ Stable(Sub) /\ RowInv'
    BY <1>1, RowsStay
  <1>3. req' \in [Req -> Request] /\ \A q \in Req \ {r} : req'[q] = req[q]
    BY DEF OnlyRequest, IInv, TypeOK
  <1>4. TypeOK'
    BY <1>1, <1>3 DEF IInv, TypeOK, LockTypes, HolderTypes, Closing
  <1>5. CheckPassesAfterApply' /\ ReportsHold'
    BY <1>1, <1>2, <1>4, CheckKept, ReportsKept
  <1>6. SweepsReachEveryone'
    BY <1>1 DEF IInv, SweepsReachEveryone, Held, Effective, RolePermissions, Closing
  <1>7. ASSUME NEW q \in Req, q # r PROVE RequestInv(q)'
    <2>1. Frame(q)
      BY <1>1, <1>2, <1>7 DEF Frame, LocksKept, HoldersKept, LossKept, Closing
    <2> QED BY <1>2, <1>3, <1>4, <1>7, <2>1, Kept
  <1> QED BY <1>2, <1>4, <1>5, <1>6, <1>7 DEF IInv

-----------------------------------------------------------------------------
(* The steps of requests *)

\* Before its plan a request is asked nothing about it.
LEMMA Unplanned ==
  ASSUME NEW r, req'[r].pc \notin SyncPlanned
  PROVE  PlanInv(r)' /\ SeenInv(r)' /\ WindowInv(r)'
  BY DEF PlanInv, SeenInv, WindowInv, Planned, Syncing, Reporting, Assigning, SyncPlanned, ReportPlanned
\* A request that has ended is asked nothing.
LEMMA IdleHolds ==
  ASSUME NEW r, req'[r].pc = "idle", req'[r].op = "none"
  PROVE  RequestInv(r)'
  <1>1. PlanInv(r)' /\ SeenInv(r)' /\ WindowInv(r)'
    BY Unplanned DEF SyncPlanned
  <1> QED BY <1>1 DEF RequestInv, ShapeInv, HoldInv, Syncing, Reporting, Switching, Assigning, Locking, Switch

\* The end of a request releases its locks only.
LEMMA ReleaseStep ==
  ASSUME IInv, NEW r \in Req, Release(r)
  PROVE  HolderTypes' /\ \A q \in Req \ {r} : HoldersKept(q)
  BY DEF Release, HolderTypes, HoldersKept, IInv, TypeOK

\* A request that ends
LEMMA EndStep ==
  ASSUME IInv, NEW r \in Req, NEW status \in 0..2, End(r, status)
  PROVE  /\ OnlyRequest(r) /\ LockTypes' /\ \A q \in Req \ {r} : LocksKept(q)
         /\ RequestInv(r)' /\ req'[r].pc = "idle" /\ req'[r].op = "none" /\ req'[r].exit = status
  <1> DEFINE m == [Idle EXCEPT !.exit = status]
  <1>1. m \in Request /\ m.pc = "idle" /\ m.op = "none" /\ m.exit = status
    BY IdleTypes DEF Request, Idle
  <1>2. req' = [req EXCEPT ![r] = m] /\ LockTypes' /\ \A q \in Req \ {r} : LocksKept(q)
    BY ReleaseStep DEF End, LockTypes, LocksKept, IInv, TypeOK
  <1> HIDE DEF m
  <1>3. req'[r] = m /\ OnlyRequest(r)
    BY <1>1, <1>2 DEF IInv, TypeOK, OnlyRequest
  <1>4. RequestInv(r)'
    BY <1>1, <1>3, IdleHolds
  <1> QED BY <1>1, <1>2, <1>3, <1>4

\* Without a commit nothing has happened.
LEMMA RollbackStep ==
  ASSUME IInv, NEW r \in Req, Rollback(r)
  PROVE  IInv'
  <1>1. PICK status \in 0..2 : End(r, status) /\ UNCHANGED <<rows, session>>
    BY DEF Rollback
  <1>2. Closing
    BY <1>1 DEF Closing, IInv, TypeOK
  <1> QED BY <1>1, <1>2, EndStep, QuietStep

\* A step that takes no lock
LEMMA UnlockedStep ==
  ASSUME IInv, NEW r \in Req, UNCHANGED <<rows, locks, session>>, OnlyRequest(r), RequestInv(r)'
  PROVE  IInv'
  <1>1. LockTypes' /\ \A q \in Req \ {r} : LocksKept(q)
    BY DEF locks, LockTypes, LocksKept, HolderTypes, HoldersKept, IInv, TypeOK
  <1>2. Closing
    BY DEF Closing, IInv, TypeOK
  <1> QED BY <1>1, <1>2, QuietStep

\* A new request
LEMMA NewRequest ==
  ASSUME IInv, NEW r \in Req, NEW m \in Request, req' = [req EXCEPT ![r] = m]
  PROVE  OnlyRequest(r) /\ req'[r] = m
  BY DEF OnlyRequest, IInv, TypeOK

\* The next step of a request
LEMMA Moves ==
  ASSUME IInv, NEW r \in Req, NEW step \in Step, Goto(r, step)
  PROVE  OnlyRequest(r) /\ req'[r].pc = step /\ Continues(r) /\ req'[r].seen = req[r].seen
  <1> DEFINE m == [req[r] EXCEPT !.pc = step]
  <1>1. req[r] \in Request
    BY DEF IInv, TypeOK
  <1>2. /\ m \in Request /\ m.pc = step /\ m.op = req[r].op /\ m.release = req[r].release
        /\ m.app = req[r].app /\ m.codes = req[r].codes /\ m.plan = req[r].plan
        /\ m.name = req[r].name /\ m.seen = req[r].seen
    BY <1>1 DEF Request
  <1>3. req' = [req EXCEPT ![r] = m]
    BY DEF Goto
  <1> HIDE DEF m
  <1> QED BY <1>2, <1>3, NewRequest DEF Continues

\* StartSync: a command that cannot plan ends; another one has its release and no plan.
LEMMA StartSyncStep ==
  ASSUME IInv, NEW r \in Req, NEW release \in Releases, StartSync(r, release)
  PROVE  IInv'
  <1>1. UNCHANGED <<rows, locks, session>>
    BY DEF StartSync
  <1>2. CASE CannotPlan(release)
    <2> DEFINE m == [Idle EXCEPT !.exit = 2]
    <2>1. m \in Request /\ m.pc = "idle" /\ m.op = "none"
      BY IdleTypes DEF Request, Idle
    <2>2. req' = [req EXCEPT ![r] = m]
      BY <1>2 DEF StartSync
    <2> HIDE DEF m
    <2> QED BY <1>1, <2>1, <2>2, NewRequest, IdleHolds, UnlockedStep
  <1>3. CASE ~CannotPlan(release)
    <2> DEFINE m == [Idle EXCEPT !.pc = "advisory", !.op = "sync", !.release = release]
    <2>1. m \in Request /\ m.pc = "advisory" /\ m.op = "sync" /\ m.release = release
      BY IdleTypes DEF Request, Idle, Step, Op
    <2>2. req' = [req EXCEPT ![r] = m]
      BY <1>3 DEF StartSync
    <2> HIDE DEF m
    <2>3. req'[r] = m /\ OnlyRequest(r) /\ ~ScanFails(release)
      BY <1>3, <2>1, <2>2, NewRequest DEF CannotPlan
    <2>4. PlanInv(r)' /\ SeenInv(r)' /\ WindowInv(r)'
      BY <2>1, <2>3, Unplanned DEF SyncPlanned
    <2>5. ShapeInv(r)' /\ HoldInv(r)'
      BY <2>1, <2>3 DEF ShapeInv, HoldInv, Syncing, Reporting, Switching, Assigning, Locking, Switch, SyncPlanned
    <2> QED BY <1>1, <2>3, <2>4, <2>5, UnlockedStep DEF RequestInv
  <1> QED BY <1>2, <1>3

\* CheckSync changes an exit status.
LEMMA CheckSyncStep ==
  ASSUME IInv, NEW r \in Req, NEW release \in Releases, CheckSync(r, release)
  PROVE  IInv'
  <1> DEFINE status == IF CannotPlan(release) THEN 2
                       ELSE IF HasChanges(SyncPlan(release)) THEN 1 ELSE 0
  <1>1. status \in 0..2 /\ req' = [req EXCEPT ![r].exit = status]
    BY DEF CheckSync
  <1> HIDE DEF status
  <1> DEFINE m == [req[r] EXCEPT !.exit = status]
  <1>2. req[r] \in Request /\ req[r].pc = "idle" /\ req[r].op = "none" /\ UNCHANGED <<rows, locks, session>>
    BY DEF CheckSync, At, IInv, TypeOK, RequestInv, ShapeInv
  <1>3. m \in Request /\ m.pc = "idle" /\ m.op = "none"
    BY <1>1, <1>2 DEF Request
  <1>4. req' = [req EXCEPT ![r] = m]
    BY <1>1
  <1> HIDE DEF m
  <1> QED BY <1>2, <1>3, <1>4, NewRequest, IdleHolds, UnlockedStep

\* StartReport: a request with an application and its codes.
LEMMA StartReportStep ==
  ASSUME IInv, NEW r \in Req, NEW a \in App, NEW codes \in Snapshot, StartReport(r, a, codes)
  PROVE  IInv'
  <1> DEFINE m == [Idle EXCEPT !.pc = "caller", !.op = "report", !.app = a, !.codes = codes]
  <1>1. m \in Request /\ m.pc = "caller" /\ m.op = "report" /\ m.app = a
    BY IdleTypes DEF Request, Idle, Step, Op
  <1>2. req' = [req EXCEPT ![r] = m] /\ UNCHANGED <<rows, locks, session>>
    BY DEF StartReport
  <1> HIDE DEF m
  <1>3. req'[r] = m /\ OnlyRequest(r)
    BY <1>1, <1>2, NewRequest
  <1>4. PlanInv(r)' /\ SeenInv(r)' /\ WindowInv(r)'
    BY <1>1, <1>3, Unplanned DEF SyncPlanned
  <1>5. ShapeInv(r)' /\ HoldInv(r)'
    BY <1>1, <1>3 DEF ShapeInv, HoldInv, Syncing, Reporting, Switching, Assigning, Locking, Switch, SyncPlanned, ReportPlanned
  <1> QED BY <1>2, <1>3, <1>4, <1>5, UnlockedStep DEF RequestInv

\* StartSwitch: a request about a permission that is listed.
LEMMA StartSwitchStep ==
  ASSUME IInv, NEW r \in Req, NEW n \in Name, StartSwitch(r, n)
  PROVE  IInv'
  <1>1. PICK op \in Switch : req' = [req EXCEPT ![r] = [Idle EXCEPT !.pc = "lock", !.op = op, !.name = n]]
    BY DEF StartSwitch
  <1> DEFINE m == [Idle EXCEPT !.pc = "lock", !.op = op, !.name = n]
  <1>2. m \in Request /\ m.pc = "lock" /\ m.op = op /\ m.name = n
    BY IdleTypes DEF Request, Idle, Step, Op
  <1>3. req' = [req EXCEPT ![r] = m] /\ UNCHANGED <<rows, locks, session>>
    BY <1>1 DEF StartSwitch
  <1> HIDE DEF m
  <1>4. req'[r] = m /\ OnlyRequest(r) /\ perm'[n].owner # NoApp
    BY <1>2, <1>3, NewRequest DEF StartSwitch, Listed, rows
  <1>5. PlanInv(r)' /\ SeenInv(r)' /\ WindowInv(r)'
    BY <1>2, <1>4, Unplanned DEF SyncPlanned
  <1>6. ShapeInv(r)' /\ HoldInv(r)'
    BY <1>2, <1>4 DEF ShapeInv, HoldInv, Syncing, Reporting, Switching, Assigning, Locking, Switch, SyncPlanned, ReportPlanned
  <1> QED BY <1>3, <1>4, <1>5, <1>6, UnlockedStep DEF RequestInv

\* StartEdit: a request about a permission that is listed, with its row.
LEMMA StartEditStep ==
  ASSUME IInv, NEW r \in Req, NEW n \in Name, StartEdit(r, n)
  PROVE  IInv'
  <1>1. PICK seen \in [Name -> Row] : seen = [Idle.seen EXCEPT ![n] = perm[n]]
    BY IdleTypes, Fields DEF IInv, TypeOK
  <1> DEFINE m == [Idle EXCEPT !.pc = "edit", !.op = "edit", !.name = n, !.seen = seen]
  <1>2. m \in Request /\ m.pc = "edit" /\ m.op = "edit" /\ m.name = n
    BY IdleTypes DEF Request, Idle, Step, Op
  <1>3. req' = [req EXCEPT ![r] = m] /\ UNCHANGED <<rows, locks, session>>
    BY <1>1 DEF StartEdit, Idle
  <1> HIDE DEF m
  <1>4. req'[r] = m /\ OnlyRequest(r) /\ perm'[n].owner # NoApp
    BY <1>2, <1>3, NewRequest DEF StartEdit, Listed, rows
  <1>5. PlanInv(r)' /\ SeenInv(r)' /\ WindowInv(r)'
    BY <1>2, <1>4, Unplanned DEF SyncPlanned
  <1>6. ShapeInv(r)' /\ HoldInv(r)'
    BY <1>2, <1>4 DEF ShapeInv, HoldInv, Syncing, Reporting, Switching, Assigning, Locking, Switch
  <1> QED BY <1>3, <1>4, <1>5, <1>6, UnlockedStep DEF RequestInv

\* StartAssign: a request that wants permissions.
LEMMA StartAssignStep ==
  ASSUME IInv, NEW r \in Req, NEW want \in SUBSET Name, StartAssign(r, want)
  PROVE  IInv'
  <1> DEFINE plan == [NoPlan EXCEPT !.target = want]
             m == [Idle EXCEPT !.pc = "role", !.op = "assign", !.plan = plan]
  <1>1. plan \in Plan
    BY IdleTypes DEF Plan
  <1>2. req' = [req EXCEPT ![r] = m] /\ UNCHANGED <<rows, locks, session>>
    BY DEF StartAssign, Idle
  <1> HIDE DEF plan
  <1>3. m \in Request /\ m.pc = "role" /\ m.op = "assign"
    BY <1>1, IdleTypes DEF Request, Idle, Step, Op
  <1> HIDE DEF m
  <1>4. req'[r] = m /\ OnlyRequest(r)
    BY <1>2, <1>3, NewRequest
  <1>5. PlanInv(r)' /\ SeenInv(r)' /\ WindowInv(r)'
    BY <1>3, <1>4, Unplanned DEF SyncPlanned
  <1>6. ShapeInv(r)' /\ HoldInv(r)'
    BY <1>3, <1>4 DEF ShapeInv, HoldInv, Syncing, Reporting, Switching, Assigning, AssignPlanned, Locking, Switch
  <1> QED BY <1>2, <1>4, <1>5, <1>6, UnlockedStep DEF RequestInv

\* TakeAdvisoryLock: from here on no other sync has a plan.
LEMMA TakeAdvisoryLockStep ==
  ASSUME IInv, NEW r \in Req, TakeAdvisoryLock(r)
  PROVE  IInv'
  <1>1. OnlyRequest(r) /\ req'[r].pc = "plan" /\ Continues(r)
    BY Moves DEF TakeAdvisoryLock, Step
  <1>2. LockTypes' /\ \A q \in Req \ {r} : LocksKept(q)
    BY SyncAssumption DEF TakeAdvisoryLock, LockTypes, LocksKept, HolderTypes, HoldersKept, IInv, TypeOK
  <1>3. req[r].pc = "advisory" /\ req[r].op = "sync" /\ ShapeInv(r) /\ syncLock' = r
    BY DEF TakeAdvisoryLock, At, IInv, RequestInv, ShapeInv
  <1>4. PlanInv(r)' /\ SeenInv(r)' /\ WindowInv(r)'
    BY <1>1, Unplanned DEF SyncPlanned
  <1>5. ShapeInv(r)' /\ HoldInv(r)'
    BY <1>1, <1>3 DEF ShapeInv, HoldInv, Continues, Syncing, Reporting, Switching, Assigning, Locking, Switch, SyncPlanned
  <1>6. Closing /\ UNCHANGED rows
    BY DEF TakeAdvisoryLock, Closing, IInv, TypeOK
  <1> QED BY <1>1, <1>2, <1>4, <1>5, <1>6, QuietStep DEF RequestInv

\* LockCaller: from here on the application stays enabled.
LEMMA LockCallerStep ==
  ASSUME IInv, NEW r \in Req, LockCaller(r)
  PROVE  IInv'
  <1>1. CASE Rollback(r)
    BY <1>1, RollbackStep
  <1>2. CASE ~Rollback(r)
    <2>1. PICK a \in App : a = req[r].app
      BY DEF LockCaller, At, IInv, RequestInv, ShapeInv
    <2>2. /\ Free(appLock[a], r) /\ a \in app /\ appLock' = [appLock EXCEPT ![a] = r] /\ Goto(r, "role")
          /\ UNCHANGED <<rows, syncLock, roleLock, permLock, lost, session>>
      BY <1>2, <2>1 DEF LockCaller
    <2>3. OnlyRequest(r) /\ req'[r].pc = "role" /\ Continues(r)
      BY <2>2, Moves DEF Step
    <2>4. LockTypes' /\ \A q \in Req \ {r} : LocksKept(q)
      BY <2>2, SyncAssumption DEF Free, LockTypes, LocksKept, HolderTypes, HoldersKept, IInv, TypeOK
    <2>5. req[r].pc = "caller" /\ req[r].op = "report" /\ ShapeInv(r) /\ appLock'[a] = r /\ a \in app'
      BY <2>2 DEF LockCaller, At, IInv, RequestInv, ShapeInv, TypeOK, rows
    <2>6. PlanInv(r)' /\ SeenInv(r)' /\ WindowInv(r)'
      BY <2>3, Unplanned DEF SyncPlanned
    <2>7. ShapeInv(r)' /\ HoldInv(r)'
      BY <2>1, <2>3, <2>5 DEF ShapeInv, HoldInv, Continues, Syncing, Reporting, Switching, Assigning, Locking, Switch,
                              SyncPlanned, ReportPlanned
    <2>8. Closing
      BY <2>2 DEF Closing, IInv, TypeOK
    <2> QED BY <2>2, <2>3, <2>4, <2>6, <2>7, <2>8, QuietStep DEF RequestInv
  <1> QED BY <1>1, <1>2

\* LockAdminRole: from here on no other report has a plan.
LEMMA LockAdminRoleStep ==
  ASSUME IInv, NEW r \in Req, LockAdminRole(r)
  PROVE  IInv'
  <1>1. CASE Rollback(r)
    BY <1>1, RollbackStep
  <1>2. CASE ~Rollback(r)
    <2>1. /\ Free(roleLock, r) /\ roleLock' = r /\ Goto(r, "plan")
          /\ UNCHANGED <<rows, syncLock, appLock, permLock, lost, session>>
      BY <1>2 DEF LockAdminRole
    <2>2. OnlyRequest(r) /\ req'[r].pc = "plan" /\ Continues(r)
      BY <2>1, Moves DEF Step
    <2>3. LockTypes' /\ \A q \in Req \ {r} : LocksKept(q)
      BY <2>1, SyncAssumption DEF Free, LockTypes, LocksKept, HolderTypes, HoldersKept, IInv, TypeOK
    <2>4. req[r].pc = "role" /\ req[r].op = "report" /\ ShapeInv(r) /\ HoldInv(r)
      BY DEF LockAdminRole, At, IInv, RequestInv, ShapeInv
    <2>5. appLock'[req[r].app] = r /\ req[r].app \in app'
      BY <2>1, <2>4 DEF HoldInv, Reporting, rows
    <2>6. PlanInv(r)' /\ SeenInv(r)' /\ WindowInv(r)'
      BY <2>2, Unplanned DEF SyncPlanned
    <2>7. ShapeInv(r)' /\ HoldInv(r)'
      BY <2>1, <2>2, <2>4, <2>5 DEF ShapeInv, HoldInv, Continues, Syncing, Reporting, Switching, Assigning, Locking, Switch,
                              SyncPlanned, ReportPlanned
    <2>8. Closing
      BY <2>1 DEF Closing, IInv, TypeOK
    <2> QED BY <2>1, <2>2, <2>3, <2>6, <2>7, <2>8, QuietStep DEF RequestInv
  <1> QED BY <1>1, <1>2

\* LockPermission: from here on no other request writes the row.
LEMMA LockPermissionStep ==
  ASSUME IInv, NEW r \in Req, LockPermission(r)
  PROVE  IInv'
  <1>1. CASE Rollback(r)
    BY <1>1, RollbackStep
  <1>2. CASE ~Rollback(r)
    <2>1. PICK n \in Name : n = req[r].name
      BY DEF LockPermission, At, IInv, RequestInv, ShapeInv
    <2>2. PICK step \in {"sweep", "commit"} :
             /\ step = (IF req[r].op = "disable" THEN "sweep" ELSE "commit")
             /\ Free(permLock[n], r) /\ permLock' = [permLock EXCEPT ![n] = r] /\ Goto(r, step)
             /\ UNCHANGED <<rows, syncLock, roleLock, appLock, lost, session>>
      BY <1>2, <2>1 DEF LockPermission
    <2>3. OnlyRequest(r) /\ req'[r].pc = step /\ Continues(r)
      BY <2>2, Moves DEF Step
    <2>4. LockTypes' /\ \A q \in Req \ {r} : LocksKept(q)
      BY <2>2, SyncAssumption DEF Free, LockTypes, LocksKept, HolderTypes, HoldersKept, IInv, TypeOK
    <2>5. req[r].pc = "lock" /\ req[r].op \in Switch /\ ShapeInv(r) /\ permLock'[n] = r
      BY <2>2 DEF LockPermission, At, IInv, RequestInv, ShapeInv, TypeOK
    <2>6. perm'[n].owner # NoApp
      BY <2>1, <2>2, <2>5 DEF ShapeInv, rows
    <2>7. ShapeInv(r)'
      BY <2>1, <2>2, <2>3, <2>5, <2>6 DEF ShapeInv, Continues, Switch, Op, Assigning
    <2>8. HoldInv(r)'
      BY <2>1, <2>3, <2>5 DEF HoldInv, Continues, Syncing, Reporting, Switching, Assigning, Locking, Switch
    <2>9. PlanInv(r)' /\ SeenInv(r)' /\ WindowInv(r)'
      BY <2>2, <2>3, <2>5 DEF PlanInv, SeenInv, WindowInv, Planned, Continues, Syncing, Reporting, Assigning, Switch
    <2>10. Closing
      BY <2>2 DEF Closing, IInv, TypeOK
    <2> QED BY <2>2, <2>3, <2>4, <2>7, <2>8, <2>9, <2>10, QuietStep DEF RequestInv
  <1> QED BY <1>1, <1>2

\* UpdatePermission: an edit of what was shown has its row.
LEMMA UpdatePermissionStep ==
  ASSUME IInv, NEW r \in Req, UpdatePermission(r)
  PROVE  IInv'
  <1>1. CASE Rollback(r)
    BY <1>1, RollbackStep
  <1>2. CASE ~Rollback(r)
    <2>1. req[r].pc = "edit" /\ req[r].op = "edit" /\ ShapeInv(r)
      BY DEF UpdatePermission, At, IInv, RequestInv, ShapeInv
    <2>2. PICK n \in Name : n = req[r].name /\ perm[n].owner # NoApp
      BY <2>1 DEF ShapeInv
    <2>3. /\ Free(permLock[n], r) /\ permLock' = [permLock EXCEPT ![n] = r] /\ Goto(r, "commit")
          /\ UNCHANGED <<rows, syncLock, roleLock, appLock, lost, session>>
      BY <1>2, <2>2 DEF UpdatePermission
    <2>4. OnlyRequest(r) /\ req'[r].pc = "commit" /\ Continues(r)
      BY <2>3, Moves DEF Step
    <2>5. LockTypes' /\ \A q \in Req \ {r} : LocksKept(q)
      BY <2>3, SyncAssumption DEF Free, LockTypes, LocksKept, HolderTypes, HoldersKept, IInv, TypeOK
    <2>6. ShapeInv(r)'
      BY <2>1, <2>2, <2>3, <2>4 DEF ShapeInv, Continues, Switch, Op, Assigning, rows
    <2>7. HoldInv(r)'
      BY <2>1, <2>4 DEF HoldInv, Continues, Syncing, Reporting, Switching, Assigning, Locking, Switch
    <2>8. PlanInv(r)' /\ SeenInv(r)' /\ WindowInv(r)'
      BY <2>1, <2>4 DEF PlanInv, SeenInv, WindowInv, Planned, Continues, Syncing, Reporting, Assigning
    <2>9. Closing
      BY <2>3 DEF Closing, IInv, TypeOK
    <2> QED BY <2>3, <2>4, <2>5, <2>6, <2>7, <2>8, <2>9, QuietStep DEF RequestInv
  <1> QED BY <1>1, <1>2

\* LockRoleToAssign: from here on nobody else assigns, and no report has a plan.
LEMMA LockRoleToAssignStep ==
  ASSUME IInv, NEW r \in Req, LockRoleToAssign(r)
  PROVE  IInv'
  <1>1. CASE Rollback(r)
    BY <1>1, RollbackStep
  <1>2. CASE ~Rollback(r)
    <2>1. req[r].pc = "role" /\ req[r].op = "assign" /\ req[r] \in Request
      BY DEF LockRoleToAssign, At, IInv, TypeOK
    <2> DEFINE new == req[r].plan.target \ granted
               plan == [req[r].plan EXCEPT !.grants = new, !.users = Admins]
               m == [req[r] EXCEPT !.pc = "wanted", !.plan = plan]
    <2>2. /\ Free(roleLock, r) /\ roleLock' = r /\ req' = [req EXCEPT ![r] = m]
          /\ UNCHANGED <<rows, syncLock, appLock, permLock, lost, session>>
      <3>1. /\ Free(roleLock, r) /\ roleLock' = r
            /\ req' = [req EXCEPT ![r].pc = "wanted", ![r].plan.grants = new, ![r].plan.users = Admins]
            /\ UNCHANGED <<rows, syncLock, appLock, permLock, lost, session>>
        BY <1>2 DEF LockRoleToAssign
      <3>2. req \in [Req -> Request]
        BY DEF IInv, TypeOK
      <3> HIDE DEF new
      <3> QED BY <3>1, <3>2
    <2>3. plan \in Plan /\ plan.users = Admins
      <3>1. req[r].plan \in Plan /\ new \subseteq Name
        BY <2>1, Fields, PlanFields
      <3> HIDE DEF new
      <3> QED BY <3>1, SyncAssumption DEF Plan
    <2> HIDE DEF plan
    <2>4. m \in Request /\ m.pc = "wanted" /\ m.op = "assign" /\ m.plan = plan
      BY <2>1, <2>3 DEF Request, Step
    <2> HIDE DEF m
    <2>5. req'[r] = m /\ OnlyRequest(r)
      BY <2>2, <2>4, NewRequest
    <2>6. LockTypes' /\ \A q \in Req \ {r} : LocksKept(q)
      BY <2>2, SyncAssumption DEF Free, LockTypes, LocksKept, HolderTypes, HoldersKept, IInv, TypeOK
    <2>7. PlanInv(r)' /\ SeenInv(r)' /\ WindowInv(r)'
      BY <2>4, <2>5, Unplanned DEF SyncPlanned
    <2>8. ShapeInv(r)' /\ HoldInv(r)'
      BY <2>2, <2>3, <2>4, <2>5
          DEF ShapeInv, HoldInv, Syncing, Reporting, Switching, Assigning, Locking, Switch
    <2>9. Closing
      BY <2>2 DEF Closing, IInv, TypeOK
    <2> QED BY <2>2, <2>5, <2>6, <2>7, <2>8, <2>9, QuietStep DEF RequestInv
  <1> QED BY <1>1, <1>2

\* LockWanted: the permissions are locked, and none is written.
LEMMA LockWantedStep ==
  ASSUME IInv, NEW r \in Req, LockWanted(r)
  PROVE  IInv'
  <1>1. CASE Rollback(r)
    BY <1>1, RollbackStep
  <1>2. CASE ~Rollback(r)
    <2>1. req[r].pc = "wanted" /\ req[r].op = "assign" /\ RequestInv(r)
      BY DEF LockWanted, At, IInv, RequestInv, ShapeInv
    <2>2. /\ \A n \in req[r].plan.target : Free(permLock[n], r)
          /\ permLock' = [n \in Name |-> IF n \in req[r].plan.target THEN r ELSE permLock[n]] /\ Goto(r, "sweep")
          /\ UNCHANGED <<rows, syncLock, roleLock, appLock, lost, session>>
      BY <1>2 DEF LockWanted
    <2>3. OnlyRequest(r) /\ req'[r].pc = "sweep" /\ Continues(r)
      BY <2>2, Moves DEF Step
    <2>4. LockTypes' /\ \A q \in Req \ {r} : LocksKept(q)
      <3>1. permLock' \in [Name -> Req \cup {NoReq}]
        BY <2>2 DEF IInv, TypeOK
      <3>2. \A q \in Req \ {r} : \A n \in Name : permLock[n] = q => permLock'[n] = q
        BY <2>2, SyncAssumption DEF Free
      <3> QED BY <2>2, <3>1, <3>2 DEF LockTypes, LocksKept, HolderTypes, HoldersKept, IInv, TypeOK
    <2>5. roleLock' = r /\ req'[r].op = "assign" /\ req'[r].plan.users = Admins
      BY <2>1, <2>2, <2>3 DEF RequestInv, ShapeInv, HoldInv, Assigning, AssignPlanned, Continues
    <2>6. ShapeInv(r)' /\ HoldInv(r)'
      BY <2>3, <2>5 DEF ShapeInv, HoldInv, Syncing, Reporting, Switching, Assigning, Locking, Switch
    <2>7. PlanInv(r)' /\ SeenInv(r)' /\ WindowInv(r)'
      BY <2>3, <2>5 DEF PlanInv, SeenInv, WindowInv, Planned, Syncing, Reporting, Assigning
    <2>8. Closing
      BY <2>2 DEF Closing, IInv, TypeOK
    <2> QED BY <2>2, <2>3, <2>4, <2>6, <2>7, <2>8, QuietStep DEF RequestInv
  <1> QED BY <1>1, <1>2

-----------------------------------------------------------------------------
(* Plans *)

\* Whoever can claim what a plan takes away is among the users whose sessions it ends.
LEMMA SyncPlanUsers ==
  ASSUME IInv, NEW release \in Releases
  PROVE  Claiming(SyncPlan(release).updated \ SyncPlan(release).target) \subseteq SyncPlan(release).users
  <1> DEFINE known == Owned(MainApp)
             target == Names(release)
             flipped == {n \in known : perm[n].declared # (n \in target)}
             removed == CurrentBindings \ Bindings(release)
             added == Bindings(release) \ CurrentBindings
             grants == target \ (known \cap granted)
             plan == SyncPlan(release)
  <1>1. /\ plan.target = target
        /\ plan.updated = (target \ known) \cup flipped \cup {b[1] : b \in removed \cup added}
        /\ plan.users = Holders({n \in flipped : perm[n].enabled}, grants)
    BY DEF SyncPlan
  <1>2. ASSUME NEW u \in Claiming(plan.updated \ plan.target)
        PROVE  u \in plan.users
    <2>1. PICK n \in plan.updated \ plan.target : n \in session[u].scope
      BY DEF Claiming
    <2>2. u \in User /\ n \in Held(u)
      BY <2>1 DEF Claiming, IInv, SweepsReachEveryone
    <2>3. n \in RolePermissions(u) /\ perm[n].declared /\ perm[n].enabled /\ n \notin target
      BY <1>1, <2>1, <2>2 DEF Held, Effective
    <2>4. n \in known
      <3>1. \A b \in added : b[1] \in target
        BY ScanTypes
      <3>2. \A b \in removed : b[1] \in known
        BY DEF CurrentBindings
      <3> QED BY <1>1, <2>1, <2>3, <3>1, <3>2
    <2>5. n \in flipped
      BY <2>3, <2>4
    <2> HIDE DEF flipped, known, target, removed, added, grants, plan
    <2> QED BY <1>1, <2>2, <2>3, <2>5 DEF Holders
  <1> QED BY <1>2
\* The users of a report's plan are enough, too.
LEMMA ReportPlanUsers ==
  ASSUME IInv, NEW a \in App, NEW codes \in SUBSET Sub
  PROVE  Claiming(ReportPlan(a, codes).updated \ ReportPlan(a, codes).target) \subseteq ReportPlan(a, codes).users
  <1> DEFINE known == Owned(a)
             flipped == {n \in known : perm[n].declared # (n \in codes)}
             grants == codes \ granted
             plan == ReportPlan(a, codes)
  <1>1. /\ plan.target = codes
        /\ plan.updated = (codes \ known) \cup flipped
        /\ plan.users = Holders({n \in flipped : perm[n].enabled}, grants)
    BY DEF ReportPlan, NoPlan
  <1>2. ASSUME NEW u \in Claiming(plan.updated \ plan.target)
        PROVE  u \in plan.users
    <2>1. PICK n \in plan.updated \ plan.target : n \in session[u].scope
      BY DEF Claiming
    <2>2. u \in User /\ n \in Held(u)
      BY <2>1 DEF Claiming, IInv, SweepsReachEveryone
    <2>3. n \in RolePermissions(u) /\ perm[n].enabled /\ n \in flipped
      BY <1>1, <2>1, <2>2 DEF Held, Effective
    <2> HIDE DEF flipped, known, grants, plan
    <2> QED BY <1>1, <2>2, <2>3 DEF Holders
  <1> QED BY <1>2

\* BuildPlan: the plan is what would be planned now.
LEMMA BuildPlanStep ==
  ASSUME IInv, NEW r \in Req, BuildPlan(r)
  PROVE  IInv'
  <1>1. req[r].pc = "plan" /\ req[r].op = "sync" /\ UNCHANGED <<rows, locks, session>> /\ RequestInv(r)
    BY DEF BuildPlan, At, IInv
  <1>2. PICK release \in Releases : release = req[r].release /\ ~ScanFails(release)
    BY <1>1 DEF RequestInv, ShapeInv
  <1>3. PICK plan \in Plan : plan = SyncPlan(release)
    BY SyncPlanNames
  <1> DEFINE m == [req[r] EXCEPT !.plan = plan, !.pc = "rows"]
  <1>4. /\ m \in Request /\ m.pc = "rows" /\ m.op = "sync" /\ m.release = release /\ m.plan = plan
    <2>1. req[r] \in Request
      BY DEF IInv, TypeOK
    <2>2. m \in Request
      BY <1>3, <2>1 DEF Request, Step
    <2> QED BY <1>1, <1>2, <2>1, <2>2 DEF Request
  <1>5. req' = [req EXCEPT ![r] = m]
    BY <1>2, <1>3 DEF BuildPlan
  <1> HIDE DEF m
  <1>6. req'[r] = m /\ OnlyRequest(r)
    BY <1>4, <1>5, NewRequest
  <1>7. UNCHANGED <<perm, binding, granted, taken, app, session, syncLock>>
    BY <1>1 DEF rows, locks
  <1>8. Matches(plan, SyncPlan(release)')
    <2>1. Stable(Main) /\ RowInv'
      BY <1>7, RowsStay
    <2>2. binding' \subseteq Binding /\ Matches(plan, SyncPlan(release))
      BY <1>3, <1>7 DEF IInv, TypeOK, Matches
    <2> QED BY <1>7, <2>1, <2>2, SyncPlanKept
  <1>9. PlanInv(r)' /\ SeenInv(r)'
    <2>1. plan.target = Names(release) /\ plan.grants = Names(release) \ (Owned(MainApp) \cap granted)
      BY <1>3 DEF SyncPlan
    <2>2. Grants(plan, lost[r])'
      BY <1>7, <2>1 DEF Grants
    <2> QED BY <1>4, <1>6, <1>8, <2>2 DEF PlanInv, SeenInv, Syncing, Reporting
  <1>10. WindowInv(r)'
    <2>1. Claiming(plan.updated \ plan.target) \subseteq plan.users
      BY <1>3, SyncPlanUsers
    <2>2. Claiming(Lost(r))' = Claiming(plan.updated \ plan.target)
      BY <1>4, <1>6, <1>7 DEF Claiming, Lost
    <2> QED BY <1>4, <1>6, <2>1, <2>2 DEF WindowInv, Assigning
  <1>11. ShapeInv(r)' /\ HoldInv(r)'
    BY <1>1, <1>2, <1>4, <1>6, <1>7 DEF RequestInv, ShapeInv, HoldInv, Syncing, Reporting, Switching, Assigning, Locking, Switch
  <1> QED BY <1>1, <1>6, <1>9, <1>10, <1>11, UnlockedStep DEF RequestInv

\* A request that goes on with its plan, one kind of change at a time
LEMMA PlanGoesOn ==
  ASSUME IInv, NEW r \in Req, UNCHANGED <<rows, lost>>, Continues(r), Planned(r), req[r].pc # "commit",
         req'[r].pc \in (IF req[r].op = "sync" THEN SyncPlanned ELSE ReportPlanned)
  PROVE  /\ PlanInv(r)'
         /\ req[r].pc # "rows" /\ req'[r].seen = req[r].seen => SeenInv(r)'
         /\ req'[r].pc # "commit" /\ UNCHANGED session => WindowInv(r)'
  <1>1. UNCHANGED <<perm, binding, granted, taken>>
    BY DEF rows
  <1>2. Stable(Main) /\ Stable(Sub) /\ RowInv'
    BY <1>1, RowsStay
  <1>3. binding' \subseteq Binding /\ perm' \in [Name -> Row] /\ WindowInv(r)
    BY <1>1 DEF IInv, TypeOK, RequestInv
  <1>4. /\ Syncing(r, SyncPlanned)' => Syncing(r, SyncPlanned)
        /\ Reporting(r, ReportPlanned)' => Reporting(r, ReportPlanned)
    BY DEF Planned, Syncing, Reporting, Continues
  <1>5. PlanInv(r)'
    BY <1>1, <1>2, <1>3, <1>4, PlanKept DEF LossKept
  <1>6. ASSUME req[r].pc # "rows", req'[r].seen = req[r].seen
        PROVE  SeenInv(r)'
    BY <1>2, <1>3, <1>4, <1>6, SeenKept
  <1>7. ASSUME req'[r].pc # "commit", UNCHANGED session
        PROVE  WindowInv(r)'
    <2>1. Claiming(Lost(r))' = Claiming(Lost(r))
      BY <1>7 DEF Claiming, Lost, Continues
    <2> QED BY <1>3, <1>7, <2>1 DEF WindowInv, Continues, Assigning
  <1> QED BY <1>5, <1>6, <1>7

\* LoadRows: the rows are as they were when the plan was built, but for switches.
LEMMA LoadRowsStep ==
  ASSUME IInv, NEW r \in Req, LoadRows(r)
  PROVE  IInv'
  <1>1. req[r].pc = "rows" /\ req[r].op = "sync" /\ UNCHANGED <<rows, locks, session>> /\ RequestInv(r)
    BY DEF LoadRows, At, IInv, RequestInv, ShapeInv
  <1> DEFINE m == [req[r] EXCEPT !.seen = perm, !.pc = "flush"]
  <1>2. /\ m \in Request /\ m.pc = "flush" /\ m.op = req[r].op /\ m.release = req[r].release
        /\ m.app = req[r].app /\ m.codes = req[r].codes /\ m.plan = req[r].plan
        /\ m.name = req[r].name /\ m.seen = perm
    <2>1. req[r] \in Request /\ perm \in [Name -> Row]
      BY DEF IInv, TypeOK
    <2> QED BY <2>1 DEF Request, Step
  <1>3. req' = [req EXCEPT ![r] = m]
    BY DEF LoadRows
  <1> HIDE DEF m
  <1>4. req'[r] = m /\ OnlyRequest(r) /\ Continues(r)
    BY <1>2, <1>3, NewRequest DEF Continues
  <1>5. PlanInv(r)' /\ WindowInv(r)'
    BY <1>1, <1>2, <1>4, PlanGoesOn DEF Planned, Syncing, SyncPlanned, locks
  <1>6. SeenInv(r)'
    <2>1. req'[r].seen = perm' /\ req'[r].plan.updated = req[r].plan.updated /\ req[r].plan.updated \subseteq Name
      BY <1>1, <1>2, <1>4, Fields, PlanFields DEF rows, IInv, TypeOK
    <2>2. \A n \in Name : perm[n].version \in Nat
      BY RowFields DEF IInv, TypeOK
    <2>3. perm' = perm
      BY <1>1 DEF rows
    <2> QED BY <2>1, <2>2, <2>3 DEF SeenInv
  <1>7. ShapeInv(r)' /\ HoldInv(r)'
    <2>1. syncLock' = r
      BY <1>1 DEF RequestInv, HoldInv, Syncing, locks, SyncPlanned
    <2> QED BY <1>1, <1>2, <1>4, <2>1 DEF RequestInv, ShapeInv, HoldInv, Syncing, Reporting, Switching, Assigning, Locking, Switch
  <1> QED BY <1>1, <1>4, <1>5, <1>6, <1>7, UnlockedStep DEF RequestInv

\* DecideReport: a plan that concerns no other application's permission.
LEMMA DecideReportStep ==
  ASSUME IInv, NEW r \in Req, DecideReport(r)
  PROVE  IInv'
  <1>1. CASE Rollback(r)
    BY <1>1, RollbackStep
  <1>2. CASE ~Rollback(r)
    <2>1. req[r].pc = "plan" /\ req[r].op = "report" /\ RequestInv(r) /\ req[r] \in Request
      BY DEF DecideReport, At, IInv, TypeOK
    <2>2. PICK a \in App, codes \in SUBSET Sub : a = req[r].app /\ codes = req[r].codes
      BY <2>1, Fields DEF RequestInv, ShapeInv
    <2>3. PICK plan \in Plan : plan = ReportPlan(a, codes) /\ plan.target = codes
      BY ReportPlanNames
    <2> DEFINE m == [req[r] EXCEPT !.plan = plan, !.seen = perm, !.pc = "flush"]
    <2>4. req' = [req EXCEPT ![r] = m] /\ UNCHANGED <<rows, locks, session>>
      BY <1>2, <2>2, <2>3 DEF DecideReport
    <2>5. \A n \in codes : perm[n].owner \in {a, NoApp}
      BY <1>2, <2>2 DEF DecideReport
    <2>6. /\ m \in Request /\ m.pc = "flush" /\ m.op = "report" /\ m.app = a /\ m.codes = codes
          /\ m.plan = plan /\ m.seen = perm
      <3>1. perm \in [Name -> Row]
        BY DEF IInv, TypeOK
      <3>2. m \in Request
        BY <2>1, <2>3, <3>1 DEF Request, Step
      <3> QED BY <2>1, <2>2, <3>2 DEF Request
    <2> HIDE DEF m
    <2>7. req'[r] = m /\ OnlyRequest(r)
      BY <2>4, <2>6, NewRequest
    <2>8. UNCHANGED <<perm, binding, granted, taken, app, session, appLock, roleLock>>
      BY <2>4 DEF rows, locks
    <2>9. PlanInv(r)'
      <3>1. Stable(Sub) /\ RowInv' /\ Matches(plan, ReportPlan(a, codes))
        BY <2>3, <2>8, RowsStay DEF Matches
      <3>2. Matches(plan, ReportPlan(a, codes)')
        BY <3>1, ReportPlanKept
      <3>3. Grants(plan, {})'
        BY <2>3, <2>8 DEF ReportPlan, Grants, NoPlan
      <3> QED BY <2>5, <2>6, <2>7, <2>8, <3>2, <3>3 DEF PlanInv, Syncing, Reporting
    <2>10. SeenInv(r)'
      <3>1. \A n \in Name : perm[n].version \in Nat
        BY RowFields DEF IInv, TypeOK
      <3>2. plan.updated \subseteq Name
        BY <2>3, PlanFields
      <3> QED BY <2>6, <2>7, <2>8, <3>1, <3>2 DEF SeenInv
    <2>11. WindowInv(r)'
      <3>1. Claiming(plan.updated \ plan.target) \subseteq plan.users
        BY <2>3, ReportPlanUsers
      <3>2. Claiming(Lost(r))' = Claiming(plan.updated \ plan.target)
        BY <2>6, <2>7, <2>8 DEF Claiming, Lost
      <3> QED BY <2>6, <2>7, <3>1, <3>2 DEF WindowInv, Assigning
    <2>12. ShapeInv(r)'
      BY <2>6, <2>7 DEF ShapeInv, Switch, Assigning
    <2>13. HoldInv(r)'
      <3>1. appLock[a] = r /\ a \in app /\ roleLock = r
        BY <2>1, <2>2 DEF RequestInv, HoldInv, Reporting
      <3> QED BY <2>6, <2>7, <2>8, <3>1 DEF HoldInv, Syncing, Reporting, Switching, Assigning, Locking, Switch
    <2> QED BY <2>4, <2>7, <2>9, <2>10, <2>11, <2>12, <2>13, UnlockedStep DEF RequestInv
  <1> QED BY <1>1, <1>2

\* Grant: the role's row is locked if there is something to grant.
LEMMA GrantStep ==
  ASSUME IInv, NEW r \in Req, Grant(r)
  PROVE  IInv'
  <1>1. CASE Rollback(r)
    BY <1>1, RollbackStep
  <1>2. CASE ~Rollback(r)
    <2>1. /\ req[r].pc = "grant" /\ req[r].op = "sync" /\ RequestInv(r)
          /\ UNCHANGED <<rows, syncLock, appLock, permLock, lost, session>>
      BY <1>2 DEF Grant, At, IInv, RequestInv, ShapeInv, locks
    <2>2. OnlyRequest(r) /\ req'[r].pc = "sweep" /\ Continues(r) /\ req'[r].seen = req[r].seen
      BY <1>2, Moves DEF Grant, Step
    <2>3. roleLock' = roleLock \/ (Free(roleLock, r) /\ roleLock' = r)
      BY <1>2 DEF Grant, locks
    <2>4. LockTypes' /\ \A q \in Req \ {r} : LocksKept(q)
      BY <2>1, <2>3, SyncAssumption DEF Free, LockTypes, LocksKept, HolderTypes, HoldersKept, IInv, TypeOK
    <2>5. PlanInv(r)' /\ SeenInv(r)' /\ WindowInv(r)'
      BY <2>1, <2>2, PlanGoesOn DEF Planned, Syncing, SyncPlanned
    <2>6. ShapeInv(r)'
      BY <2>1, <2>2 DEF RequestInv, ShapeInv, Continues, Switch, Assigning
    <2>7. HoldInv(r)'
      <3>1. syncLock = r /\ \A n \in req[r].plan.updated : permLock[n] = r
        BY <2>1 DEF RequestInv, HoldInv, Syncing, Locking, SyncPlanned
      <3> QED BY <2>1, <2>2, <3>1 DEF HoldInv, Continues, Syncing, Reporting, Switching, Assigning, Locking, Switch
    <2>8. Closing
      BY <2>1 DEF Closing, IInv, TypeOK
    <2> QED BY <2>1, <2>2, <2>4, <2>5, <2>6, <2>7, <2>8, QuietStep DEF RequestInv
  <1> QED BY <1>1, <1>2

\* Flush: the rows that will change are locked.
LEMMA FlushStep ==
  ASSUME IInv, NEW r \in Req, Flush(r)
  PROVE  IInv'
  <1>1. /\ req[r].pc = "flush" /\ req[r].op \in {"sync", "report"} /\ RequestInv(r)
        /\ UNCHANGED <<rows, syncLock, roleLock, appLock, lost, session>>
    BY DEF Flush, At, IInv, RequestInv, ShapeInv
  <1>2. PICK step \in {"grant", "sweep"} : /\ step = (IF req[r].op = "sync" THEN "grant" ELSE "sweep")
                                           /\ Goto(r, step)
    BY DEF Flush
  <1>3. OnlyRequest(r) /\ req'[r].pc = step /\ Continues(r) /\ req'[r].seen = req[r].seen
    BY <1>2, Moves DEF Step
  <1>4. LockTypes' /\ \A q \in Req \ {r} : LocksKept(q)
    <2>1. /\ permLock' = [n \in Name |-> IF n \in req[r].plan.updated THEN r ELSE permLock[n]]
          /\ \A n \in req[r].plan.updated : permLock[n] \in {NoReq, r}
      BY DEF Flush, Free
    <2>2. permLock' \in [Name -> Req \cup {NoReq}]
      BY <2>1 DEF IInv, TypeOK
    <2>3. \A q \in Req \ {r} : \A n \in Name : permLock[n] = q => permLock'[n] = q
      BY <2>1, SyncAssumption
    <2> QED BY <1>1, <2>2, <2>3 DEF LockTypes, LocksKept, HolderTypes, HoldersKept, IInv, TypeOK
  <1>5. PlanInv(r)' /\ SeenInv(r)' /\ WindowInv(r)'
    BY <1>1, <1>2, <1>3, PlanGoesOn DEF Planned, Syncing, Reporting, SyncPlanned, ReportPlanned
  <1>6. ShapeInv(r)'
    BY <1>1, <1>2, <1>3 DEF RequestInv, ShapeInv, Continues, Switch, Assigning
  <1>7. HoldInv(r)'
    <2>1. req[r].op = "sync" => syncLock' = r
      BY <1>1 DEF RequestInv, HoldInv, Syncing, SyncPlanned
    <2>2. req[r].op = "report" => roleLock' = r /\ appLock'[req[r].app] = r /\ req[r].app \in app'
      BY <1>1 DEF RequestInv, HoldInv, Reporting, ReportPlanned, rows
    <2>3. \A n \in req[r].plan.updated : permLock'[n] = r
      <3>1. req[r].plan.updated \subseteq Name
        BY Fields, PlanFields DEF IInv, TypeOK
      <3> QED BY <3>1 DEF Flush
    <2> QED BY <1>1, <1>2, <1>3, <2>1, <2>2, <2>3
        DEF HoldInv, Continues, Syncing, Reporting, Switching, Assigning, Locking, Switch
  <1>8. Closing
    BY <1>1 DEF Closing, IInv, TypeOK
  <1> QED BY <1>1, <1>3, <1>4, <1>5, <1>6, <1>7, <1>8, QuietStep DEF RequestInv

\* Sweep: nobody claims any more what the request is going to take away.
LEMMA SweepStep ==
  ASSUME IInv, NEW r \in Req, Sweep(r)
  PROVE  IInv'
  <1>1. /\ req[r].pc = "sweep" /\ req[r].op \in {"sync", "report", "disable", "assign"} /\ RequestInv(r)
        /\ UNCHANGED <<rows, locks>>
    BY DEF Sweep, At, IInv, RequestInv, ShapeInv
  <1>2. OnlyRequest(r) /\ req'[r].pc = "commit" /\ Continues(r) /\ req'[r].seen = req[r].seen
    BY Moves DEF Sweep, Step
  <1>3. \A u \in User : session'[u] = IF u \in Swept(r) THEN [session[u] EXCEPT !.open = FALSE] ELSE session[u]
    BY DEF Sweep
  <1>4. \A u \in User : session'[u].open => session'[u] = session[u] /\ u \notin Swept(r)
    BY <1>3 DEF IInv, TypeOK, Session
  <1>5. Closing
    <2>1. session' \in [User -> Session]
      BY DEF Sweep, IInv, TypeOK, Session
    <2> QED BY <1>4, <2>1 DEF Closing
  <1>6. LockTypes' /\ \A q \in Req \ {r} : LocksKept(q)
    BY <1>1 DEF locks, LockTypes, LocksKept, HolderTypes, HoldersKept, IInv, TypeOK
  <1>7. PlanInv(r)' /\ SeenInv(r)'
    <2>1. CASE Planned(r)
      BY <1>1, <1>2, <2>1, PlanGoesOn DEF Planned, Syncing, Reporting, SyncPlanned, ReportPlanned, locks
    <2>2. CASE req[r].op \in {"disable", "assign"}
      BY <1>2, <2>2 DEF PlanInv, SeenInv, Planned, Syncing, Reporting, Continues
    <2> QED BY <1>1, <2>1, <2>2 DEF Planned, Syncing, Reporting, SyncPlanned, ReportPlanned
  <1>8. WindowInv(r)'
    <2>1. CASE req[r].op \in {"sync", "report"}
      <3>1. Claiming(Lost(r)) \subseteq req[r].plan.users
        BY <1>1, <2>1 DEF RequestInv, WindowInv, Planned, Syncing, Reporting, SyncPlanned, ReportPlanned
      <3>2. Swept(r) = req[r].plan.users /\ Lost(r)' = Lost(r)
        BY <1>2, <2>1 DEF Swept, Lost, Continues
      <3>3. Claiming(Lost(r))' = {}
        BY <1>4, <3>1, <3>2 DEF Claiming
      <3> QED BY <1>2, <2>1, <3>3 DEF WindowInv, Continues, Assigning
    <2>2. CASE req[r].op = "disable"
      <3>1. req'[r].name = req[r].name /\ req'[r].op = "disable"
        BY <1>2, <2>2 DEF Continues
      <3>2. ASSUME NEW u \in User, session'[u].open, ~session'[u].raced, req[r].name \in session'[u].scope
            PROVE  FALSE
        <4>1. session'[u] = session[u] /\ u \notin Holders({req[r].name}, {})
          BY <1>4, <2>2, <3>2 DEF Swept
        <4>2. req[r].name \in RolePermissions(u)
          BY <3>2, <4>1 DEF IInv, SweepsReachEveryone, Held
        <4> QED BY <4>1, <4>2 DEF Holders
      <3>3. Claiming({req[r].name})' = {}
        BY <3>1, <3>2 DEF Claiming
      <3> QED BY <3>1, <3>3 DEF WindowInv, Planned, Syncing, Reporting, Assigning
    <2>3. CASE req[r].op = "assign"
      <3>1. req'[r].op = "assign" /\ Swept(r) = Admins
        BY <1>1, <1>2, <2>3 DEF RequestInv, ShapeInv, Swept, Assigning, AssignPlanned, Continues
      <3>2. \A names : Claiming(names)' \cap Admins = {}
        BY <1>4, <3>1 DEF Claiming
      <3> QED BY <3>1, <3>2 DEF WindowInv, Planned, Syncing, Reporting
    <2> QED BY <1>1, <2>1, <2>2, <2>3
  <1>9. ShapeInv(r)'
    BY <1>1, <1>2 DEF RequestInv, ShapeInv, Continues, Switch, Op, Assigning, AssignPlanned, rows
  <1>10. HoldInv(r)'
    <2>1. UNCHANGED <<syncLock, roleLock, appLock, permLock, app>>
      BY <1>1 DEF locks, rows
    <2>2. HoldInv(r)
      BY <1>1 DEF RequestInv
    <2> QED BY <1>1, <1>2, <2>1, <2>2
        DEF HoldInv, Continues, Syncing, Reporting, Switching, Assigning, Locking, Switch, SyncPlanned, ReportPlanned,
            AssignPlanned
  <1> QED BY <1>1, <1>2, <1>5, <1>6, <1>7, <1>8, <1>9, <1>10, QuietStep DEF RequestInv

-----------------------------------------------------------------------------
(* The steps that change rows *)

\* A step that declares, retires and binds nothing
LEMMA AdministratorStep ==
  ASSUME IInv, TypeOK', RowInv', Stable(Main), Stable(Sub), SweepsReachEveryone',
         UNCHANGED <<binding, applied, reported>>,
         \A q \in Req : (req'[q] = req[q] /\ Frame(q)) \/ RequestInv(q)'
  PROVE  IInv'
  <1>1. CheckPassesAfterApply' /\ ReportsHold'
    BY CheckKept, ReportsKept
  <1>2. \A q \in Req : RequestInv(q)'
    BY Kept
  <1> QED BY <1>1, <1>2 DEF IInv

\* The commit of an administrator's change of one permission, which nobody claims if it is disabled.
LEMMA RowWritten ==
  ASSUME IInv, NEW r \in Req, NEW n \in Name, perm[n].owner # NoApp,
         NEW g \in Row, g.owner = perm[n].owner, g.declared = perm[n].declared, g.version >= perm[n].version,
         perm[n].enabled => g.enabled \/ Claiming({n}) = {},
         perm' = [perm EXCEPT ![n] = g], End(r, 0),
         UNCHANGED <<binding, adminRole, granted, app, mix, applied, reported, taken, session>>
  PROVE  IInv'
  <1>1. OnlyRequest(r) /\ LockTypes' /\ (\A q \in Req \ {r} : LocksKept(q)) /\ RequestInv(r)'
    BY EndStep
  <1>2. perm' \in [Name -> Row] /\ perm'[n] = g /\ \A o \in Name \ {n} : perm'[o] = perm[o]
    BY DEF IInv, TypeOK
  <1>3. TypeOK'
    BY <1>1, <1>2 DEF IInv, TypeOK, LockTypes, HolderTypes, OnlyRequest
  <1>4. Stable(Main) /\ Stable(Sub) /\ \A o \in Name : perm[o].owner # NoApp => perm'[o].owner # NoApp
    <2>1. \A o \in Name : perm[o].version \in Nat
      BY RowFields DEF IInv, TypeOK
    <2> QED BY <1>2, <2>1 DEF Stable, Name
  <1>5. RowInv'
    <2>1. \A o \in Name : perm'[o].owner = perm[o].owner
      BY <1>2
    <2>2. \A o \in Name : perm'[o].owner = NoApp => perm'[o] = NoRow
      BY <1>2, <2>1 DEF IInv, RowInv, NoRow
    <2>3. \A b \in binding : b[1] \in Name
      BY DEF IInv, TypeOK, Binding, Name
    <2> QED BY <2>1, <2>2, <2>3 DEF IInv, RowInv
  <1>6. SweepsReachEveryone'
    <2>1. SUFFICES ASSUME NEW u \in User, session[u].open, ~session[u].raced, NEW o \in session[u].scope
                   PROVE  o \in Held(u)'
      BY DEF SweepsReachEveryone
    <2>2. o \in Held(u) /\ o \in Name
      BY <2>1 DEF IInv, SweepsReachEveryone, TypeOK, Session
    <2>3. perm'[o].declared /\ perm'[o].enabled
      <3>1. CASE o # n
        BY <1>2, <2>2, <3>1 DEF Held, Effective
      <3>2. CASE o = n
        <4>1. Claiming({n}) # {}
          BY <2>1, <3>2 DEF Claiming
        <4> QED BY <1>2, <2>2, <3>2, <4>1 DEF Held, Effective
      <3> QED BY <3>1, <3>2
    <2> QED BY <2>2, <2>3 DEF Held, Effective, RolePermissions
  <1>7. ASSUME NEW q \in Req, q # r
        PROVE  req'[q] = req[q] /\ Frame(q)
    BY <1>1, <1>4, <1>7 DEF Frame, LocksKept, HoldersKept, LossKept, OnlyRequest, IInv, TypeOK
  <1> QED BY <1>1, <1>3, <1>4, <1>5, <1>6, <1>7, AdministratorStep

\* CommitSwitch: what is disabled is claimed by nobody.
LEMMA CommitSwitchStep ==
  ASSUME IInv, NEW r \in Req, CommitSwitch(r)
  PROVE  IInv'
  <1>1. req[r].pc = "commit" /\ req[r].op \in Switch /\ RequestInv(r)
    BY DEF CommitSwitch, At, IInv
  <1>2. PICK n \in Name : n = req[r].name /\ perm[n].owner # NoApp
    BY <1>1 DEF RequestInv, ShapeInv
  <1>3. PICK f \in Row : f = perm[n]
    BY DEF IInv, TypeOK
  <1>4. PICK on \in BOOLEAN : on = (req[r].op = "enable")
    OBVIOUS
  <1> DEFINE v == f.version + 1
             g == [f EXCEPT !.enabled = on, !.version = v]
  <1>5. v \in Nat /\ v >= f.version
    BY <1>3, RowFields
  <1>6. perm' = [perm EXCEPT ![n] = g]
    <2>1. perm' = [perm EXCEPT ![n].enabled = on, ![n].version = @ + 1]
      BY <1>2, <1>4 DEF CommitSwitch
    <2> QED BY <1>3, <2>1 DEF IInv, TypeOK
  <1> HIDE DEF v
  <1>7. g \in Row /\ g.owner = f.owner /\ g.declared = f.declared /\ g.version = v /\ g.enabled = on
    BY <1>3, <1>4, <1>5 DEF Row
  <1> HIDE DEF g
  <1>8. on \/ Claiming({n}) = {}
    BY <1>1, <1>2, <1>4 DEF RequestInv, WindowInv, Switch
  <1>9. UNCHANGED <<binding, adminRole, granted, app, mix, applied, reported, taken, session>> /\ End(r, 0)
    BY DEF CommitSwitch
  <1> QED BY <1>2, <1>3, <1>5, <1>6, <1>7, <1>8, <1>9, RowWritten

\* CommitEdit: the permission has a new version, and nothing else that matters here.
LEMMA CommitEditStep ==
  ASSUME IInv, NEW r \in Req, CommitEdit(r)
  PROVE  IInv'
  <1>1. req[r].pc = "commit" /\ req[r].op = "edit" /\ RequestInv(r)
    BY DEF CommitEdit, At, IInv
  <1>2. PICK n \in Name : n = req[r].name /\ perm[n].owner # NoApp
    BY <1>1 DEF RequestInv, ShapeInv
  <1>3. PICK f \in Row : f = perm[n]
    BY DEF IInv, TypeOK
  <1> DEFINE v == f.version + 1
             g == [f EXCEPT !.version = v]
  <1>4. v \in Nat /\ v >= f.version
    BY <1>3, RowFields
  <1>5. perm' = [perm EXCEPT ![n] = g]
    BY <1>2, <1>3 DEF CommitEdit, IInv, TypeOK
  <1> HIDE DEF v
  <1>6. g \in Row /\ g.owner = f.owner /\ g.declared = f.declared /\ g.version = v /\ g.enabled = f.enabled
    BY <1>3, <1>4 DEF Row
  <1> HIDE DEF g
  <1>7. UNCHANGED <<binding, adminRole, granted, app, mix, applied, reported, taken, session>> /\ End(r, 0)
    BY DEF CommitEdit
  <1> QED BY <1>2, <1>3, <1>4, <1>5, <1>6, <1>7, RowWritten

\* CommitAssign: what the admin role loses is taken, and no administrator's session claims it.
LEMMA CommitAssignStep ==
  ASSUME IInv, NEW r \in Req, CommitAssign(r)
  PROVE  IInv'
  <1>1. Assigning(r, {"commit"}) /\ RequestInv(r) /\ req[r] \in Request
    BY DEF CommitAssign, At, Assigning, IInv, TypeOK
  <1>2. PICK want \in SUBSET Name : want = req[r].plan.target
    BY <1>1, Fields, PlanFields
  <1>3. roleLock = r /\ Claiming(Name \ want) \cap Admins = {}
    BY <1>1, <1>2 DEF RequestInv, HoldInv, WindowInv, Assigning, AssignPlanned
  <1>4. /\ granted' = want /\ taken' = (taken \cup (granted \ want)) \ want
        /\ lost' = [q \in Req |-> IF Planning(q) THEN (lost[q] \cup (granted \ want)) \ want ELSE lost[q]]
        /\ Release(r) /\ req' = [req EXCEPT ![r] = Idle]
        /\ UNCHANGED <<perm, binding, adminRole, app, mix, applied, reported, session>>
    BY <1>2 DEF CommitAssign
  <1>5. HolderTypes' /\ \A q \in Req \ {r} : HoldersKept(q)
    BY <1>4, ReleaseStep
  <1>6. req'[r] = Idle /\ OnlyRequest(r) /\ RequestInv(r)'
    <2>1. req'[r] = Idle /\ OnlyRequest(r)
      BY <1>4, IdleTypes, NewRequest
    <2> QED BY <2>1, IdleHolds DEF Idle
  <1>7. lost' \in [Req -> SUBSET Name]
    BY <1>4 DEF IInv, TypeOK
  <1>8. TypeOK'
    BY <1>4, <1>5, <1>6, <1>7 DEF IInv, TypeOK, HolderTypes, OnlyRequest
  <1>9. Stable(Main) /\ Stable(Sub)
    <2>1. \A n \in Name : perm[n].version \in Nat
      BY RowFields DEF IInv, TypeOK
    <2>2. granted \cup taken \subseteq granted' \cup taken'
      BY <1>4
    <2> QED BY <1>4, <2>1, <2>2 DEF Stable, Name
  <1>10. RowInv'
    BY <1>4 DEF IInv, RowInv
  <1>11. SweepsReachEveryone'
    <2>1. SUFFICES ASSUME NEW u \in User, session[u].open, ~session[u].raced PROVE session[u].scope \subseteq Held(u)'
      BY <1>4 DEF SweepsReachEveryone
    <2>2. session[u].scope \subseteq Held(u) /\ session[u].scope \subseteq Name
      BY <2>1 DEF IInv, SweepsReachEveryone, TypeOK, Session
    <2>3. CASE u \in Admins
      <3>1. session[u].scope \subseteq want
        BY <1>3, <2>1, <2>2, <2>3 DEF Claiming
      <3> QED BY <1>4, <2>2, <2>3, <3>1 DEF Held, Effective, RolePermissions
    <2>4. CASE u \notin Admins
      BY <1>4, <2>2, <2>4 DEF Held, Effective, RolePermissions
    <2> QED BY <2>3, <2>4
  <1>12. ASSUME NEW q \in Req, q # r
         PROVE  req'[q] = req[q] /\ Frame(q)
    <2>1. Syncing(q, SyncPlanned) => LossKept(q)
      BY <1>4 DEF Syncing, SyncPlanned, Planning, LossKept
    <2> QED BY <1>3, <1>4, <1>5, <1>6, <1>9, <1>12, <2>1 DEF Frame, HoldersKept, OnlyRequest, IInv, TypeOK
  <1> QED BY <1>4, <1>6, <1>8, <1>9, <1>10, <1>11, <1>12, AdministratorStep

\* SwitchApp waits for the lock of a report, whose application therefore stays enabled.
LEMMA SwitchAppStep ==
  ASSUME IInv, NEW a \in App, SwitchApp(a)
  PROVE  IInv'
  <1>1. UNCHANGED <<perm, binding, adminRole, granted, mix, applied, reported, taken, locks, session, req>>
        /\ appLock[a] = NoReq /\ app' \subseteq App /\ \A b \in App \ {a} : b \in app => b \in app'
    BY DEF SwitchApp, IInv, TypeOK
  <1>2. Stable(Main) /\ Stable(Sub) /\ RowInv'
    BY <1>1, RowsStay
  <1>3. TypeOK'
    BY <1>1 DEF IInv, TypeOK, locks
  <1>4. SweepsReachEveryone'
    BY <1>1 DEF IInv, SweepsReachEveryone, Held, Effective, RolePermissions
  <1>5. \A q \in Req : req'[q] = req[q] /\ Frame(q)
    BY <1>1, <1>2, SyncAssumption DEF Frame, LossKept, locks
  <1> QED BY <1>1, <1>2, <1>3, <1>4, <1>5, AdministratorStep

\* Login: what the new session claims is held, and no request has planned to take it.
LEMMA LoginStep ==
  ASSUME IInv, NEW u \in User, Login(u)
  PROVE  IInv'
  <1>1. PICK raced \in BOOLEAN : /\ raced = (\E q \in Req : Concerns(q, u))
                                 /\ session' = [session EXCEPT ![u] = [open |-> TRUE, scope |-> Held(u), raced |-> raced]]
    BY DEF Login
  <1>2. UNCHANGED <<perm, binding, adminRole, granted, app, mix, applied, reported, taken, locks, req>>
    BY DEF Login, rows
  <1>3. Stable(Main) /\ Stable(Sub) /\ RowInv'
    BY <1>2, RowsStay
  <1>4. session' \in [User -> Session]
    <2>1. Held(u) \subseteq Name
      BY SyncAssumption DEF Held, RolePermissions, IInv, TypeOK, Name
    <2> QED BY <1>1, <2>1 DEF IInv, TypeOK, Session
  <1>5. TypeOK'
    BY <1>2, <1>4 DEF IInv, TypeOK, locks
  <1>6. /\ session'[u].scope = Held(u) /\ session'[u].raced = raced
        /\ \A v \in User \ {u} : session'[v] = session[v]
    BY <1>1 DEF IInv, TypeOK
  <1>7. SweepsReachEveryone'
    <2>1. \A v \in User : Held(v)' = Held(v)
      BY <1>2 DEF Held, Effective, RolePermissions
    <2> QED BY <1>6, <2>1 DEF IInv, SweepsReachEveryone
  <1>8. \A q \in Req : req'[q] = req[q] /\ Frame(q)
    BY <1>1, <1>2, <1>3, <1>6 DEF Frame, LossKept, locks
  <1> QED BY <1>2, <1>3, <1>5, <1>7, <1>8, AdministratorStep

-----------------------------------------------------------------------------
(* Commits *)

\* What a plan of a sync, and one of a report, says of the rows as they are.
LEMMA SyncPlanFacts ==
  ASSUME IInv, NEW release \in Releases, NEW plan, Matches(plan, SyncPlan(release))
  PROVE  /\ plan.target = Names(release) /\ plan.created = Names(release) \ Owned(MainApp)
         /\ plan.created \subseteq plan.updated /\ plan.updated \subseteq plan.created \cup Owned(MainApp)
         /\ \A n \in Owned(MainApp) \ plan.updated : perm[n].declared = (n \in Names(release))
         /\ plan.removed = binding \ Bindings(release) /\ plan.added = Bindings(release) \ binding
         /\ \A b \in plan.removed \cup plan.added : b[1] \in plan.updated
  <1> DEFINE known == Owned(MainApp)
             target == Names(release)
             flipped == {n \in known : perm[n].declared # (n \in target)}
             removed == binding \ Bindings(release)
             added == Bindings(release) \ binding
  <1>1. CurrentBindings = binding
    BY AllBindings
  <1>2. /\ plan.target = target /\ plan.created = target \ known
        /\ plan.updated = (target \ known) \cup flipped \cup {b[1] : b \in removed \cup added}
        /\ plan.removed = removed /\ plan.added = added
    BY <1>1 DEF SyncPlan, Matches
  <1>3. \A b \in removed \cup added : b[1] \in target \cup known
    <2>1. \A b \in added : b[1] \in target
      BY ScanTypes
    <2>2. \A b \in removed : b[1] \in known
      BY <1>1 DEF CurrentBindings
    <2> QED BY <2>1, <2>2
  <1>4. plan.updated \subseteq plan.created \cup known
    BY <1>2, <1>3
  <1>5. \A n \in known \ plan.updated : perm[n].declared = (n \in target)
    <2> SUFFICES ASSUME NEW n \in known, n \notin plan.updated PROVE perm[n].declared = (n \in target)
      OBVIOUS
    <2>1. n \notin flipped
      BY <1>2
    <2> QED BY <2>1
  <1> QED BY <1>2, <1>4, <1>5
\* The same of a report's plan.
LEMMA ReportPlanFacts ==
  ASSUME IInv, NEW a \in App, NEW codes \in SUBSET Sub, NEW plan, Matches(plan, ReportPlan(a, codes))
  PROVE  /\ plan.target = codes /\ plan.created = codes \ Owned(a)
         /\ plan.created \subseteq plan.updated /\ plan.updated \subseteq plan.created \cup Owned(a)
         /\ \A n \in Owned(a) \ plan.updated : perm[n].declared = (n \in codes)
         /\ plan.removed = {} /\ plan.added = {}
  <1> DEFINE known == Owned(a)
             flipped == {n \in known : perm[n].declared # (n \in codes)}
  <1>1. /\ plan.target = codes /\ plan.created = codes \ known
        /\ plan.updated = (codes \ known) \cup flipped
        /\ plan.removed = {} /\ plan.added = {}
    BY DEF ReportPlan, Matches, NoPlan
  <1>2. \A n \in known \ plan.updated : perm[n].declared = (n \in codes)
    <2> SUFFICES ASSUME NEW n \in known, n \notin plan.updated PROVE perm[n].declared = (n \in codes)
      OBVIOUS
    <2>1. n \notin flipped
      BY <1>1
    <2> QED BY <2>1
  <1> QED BY <1>1, <1>2

\* The rows after a commit: new ones, ones that are declared or not as planned, and the others.
OwnerOf(r) == IF req[r].op = "sync" THEN MainApp ELSE req[r].app
\* They are as the plan says.
LEMMA CommitRows ==
  ASSUME IInv, NEW r \in Req, Commit(r)
  PROVE  /\ RequestInv(r) /\ Planned(r) /\ req[r].pc = "commit" /\ req[r].op \in {"sync", "report"}
         /\ req[r].plan \in Plan /\ OwnerOf(r) \in App \cup {MainApp} /\ perm' \in [Name -> Row]
         /\ \A n \in Name \ req[r].plan.updated : perm'[n] = perm[n]
         /\ \A n \in req[r].plan.updated \cap req[r].plan.created : perm'[n] = NewRow(OwnerOf(r))
         /\ \A n \in req[r].plan.updated \ req[r].plan.created :
               /\ perm'[n].owner = perm[n].owner /\ perm'[n].enabled = perm[n].enabled
               /\ perm'[n].declared = (n \in req[r].plan.target)
               /\ perm'[n].version = req[r].seen[n].version + 1
  <1>1. req[r].pc = "commit" /\ req[r].op \in {"sync", "report"} /\ RequestInv(r) /\ Planned(r)
    BY DEF Commit, At, IInv, Planned, Syncing, Reporting, SyncPlanned, ReportPlanned
  <1>2. PICK plan \in Plan : plan = req[r].plan
    BY Fields DEF IInv, TypeOK
  <1>3. PICK seen \in [Name -> Row] : seen = req[r].seen
    BY Fields DEF IInv, TypeOK
  <1>4. PICK owner \in App \cup {MainApp} : owner = OwnerOf(r)
    BY <1>1 DEF RequestInv, ShapeInv, OwnerOf
  <1>5. perm' = [n \in Name |-> IF n \in plan.updated THEN Written(r, n) ELSE perm[n]]
    BY <1>2 DEF Commit
  <1>6. plan.updated \subseteq Name
    BY <1>2, PlanFields
  <1>7. ASSUME NEW n \in plan.updated
        PROVE  /\ perm'[n] \in Row
               /\ n \in plan.created => perm'[n] = NewRow(owner)
               /\ n \notin plan.created =>
                     /\ perm'[n].owner = perm[n].owner /\ perm'[n].enabled = perm[n].enabled
                     /\ perm'[n].declared = (n \in plan.target)
                     /\ perm'[n].version = seen[n].version + 1
    <2>1. perm'[n] = Written(r, n) /\ n \in Name
      BY <1>5, <1>6, <1>7
    <2>2. CASE n \in plan.created
      <3>1. perm'[n] = NewRow(owner)
        BY <1>2, <1>4, <2>1, <2>2 DEF Written, OwnerOf
      <3>2. NewRow(owner) \in Row
        BY <1>4 DEF NewRow, Row
      <3> QED BY <2>2, <3>1, <3>2
    <2>3. CASE n \notin plan.created
      <3>1. PICK f \in Row : f = perm[n]
        BY <2>1 DEF IInv, TypeOK
      <3> DEFINE v == seen[n].version + 1
      <3>2. v \in Nat
        BY <1>3, <2>1, RowFields
      <3> HIDE DEF v
      <3> DEFINE on == n \in plan.target
      <3>3. on \in BOOLEAN
        OBVIOUS
      <3> HIDE DEF on
      <3>4. perm'[n] = [f EXCEPT !.declared = on, !.version = v]
        BY <1>2, <1>3, <2>1, <2>3, <3>1 DEF Written, v, on
      <3>5. perm'[n] \in Row /\ perm'[n].owner = f.owner /\ perm'[n].enabled = f.enabled
            /\ perm'[n].declared = on /\ perm'[n].version = v
        BY <3>1, <3>2, <3>3, <3>4 DEF Row
      <3> QED BY <2>3, <3>1, <3>5 DEF v, on
    <2> QED BY <2>2, <2>3
  <1>8. \A n \in Name \ plan.updated : perm'[n] = perm[n]
    BY <1>5
  <1>9. perm' \in [Name -> Row]
    <2>1. \A n \in Name : perm'[n] \in Row
      BY <1>7, <1>8 DEF IInv, TypeOK
    <2> QED BY <1>5, <2>1
  <1> QED BY <1>1, <1>2, <1>3, <1>4, <1>7, <1>8, <1>9

\* Whatever is committed, sessions that stay open claim only what their users still hold.
LEMMA CommitKeepsHeld ==
  ASSUME IInv, NEW r \in Req, Commit(r)
  PROVE  SweepsReachEveryone'
  <1>1. SUFFICES ASSUME NEW u \in User, session[u].open, ~session[u].raced, NEW n \in session[u].scope
                 PROVE  n \in Held(u)'
    BY DEF SweepsReachEveryone, Commit
  <1>2. n \in Held(u) /\ n \in Name
    BY <1>1 DEF IInv, SweepsReachEveryone, TypeOK, Session
  <1>3. n \in RolePermissions(u)'
    BY <1>2 DEF Held, Effective, RolePermissions, Commit
  <1>4. perm'[n].declared /\ perm'[n].enabled
    <2>1. CASE n \notin req[r].plan.updated
      BY <1>2, <2>1, CommitRows DEF Held, Effective
    <2>2. CASE n \in req[r].plan.updated /\ n \in req[r].plan.created
      <3>1. perm'[n] = NewRow(OwnerOf(r))
        BY <2>2, CommitRows
      <3> QED BY <3>1 DEF NewRow
    <2>3. CASE n \in req[r].plan.updated /\ n \notin req[r].plan.created
      <3>1. perm'[n].enabled = perm[n].enabled /\ perm'[n].declared = (n \in req[r].plan.target)
        BY <2>3, CommitRows
      <3>2. n \in req[r].plan.target
        <4>1. Claiming(Lost(r)) = {}
          BY CommitRows DEF RequestInv, WindowInv
        <4> QED BY <1>1, <2>3, <4>1 DEF Claiming, Lost
      <3> QED BY <1>2, <3>1, <3>2 DEF Held, Effective
    <2> QED BY <2>1, <2>2, <2>3
  <1> QED BY <1>3, <1>4 DEF Held, Effective, RolePermissions

\* A commit concerns the names of its kind.
LEMMA CommitStable ==
  ASSUME IInv, NEW r \in Req, Commit(r), NEW names \in SUBSET Name,
         req[r].plan.updated \cap names = {}, req[r].plan.target \cap names = {}
  PROVE  Stable(names)
  <1>1. \A n \in names : perm'[n] = perm[n]
    BY CommitRows
  <1>2. \A n \in Name : perm[n].version \in Nat
    BY RowFields DEF IInv, TypeOK
  <1>3. granted \subseteq granted' /\ taken \ req[r].plan.target \subseteq taken'
    BY DEF Commit
  <1> QED BY <1>1, <1>2, <1>3 DEF Stable

\* Commit of a sync: the release is applied, and what the other kind relies on stays.
LEMMA CommitSyncStep ==
  ASSUME IInv, NEW r \in Req, Commit(r), req[r].op = "sync"
  PROVE  IInv'
  <1>1. RequestInv(r) /\ Syncing(r, SyncPlanned) /\ req[r].pc = "commit"
    BY CommitRows DEF Planned, Syncing, Reporting
  <1>2. PICK release \in Releases : release = req[r].release /\ ~ScanFails(release)
    BY <1>1 DEF RequestInv, ShapeInv
  <1>3. PICK plan \in Plan : plan = req[r].plan
    BY CommitRows
  <1>4. Matches(plan, SyncPlan(release)) /\ Grants(plan, lost[r])
    BY <1>1, <1>2, <1>3 DEF RequestInv, PlanInv
  <1> DEFINE known == Owned(MainApp)
             target == Names(release)
  <1>5. /\ plan.target = target /\ plan.created = target \ known
        /\ plan.created \subseteq plan.updated /\ plan.updated \subseteq plan.created \cup known
        /\ \A n \in known \ plan.updated : perm[n].declared = (n \in target)
        /\ plan.removed = binding \ Bindings(release) /\ plan.added = Bindings(release) \ binding
    BY <1>4, SyncPlanFacts
  <1>6. /\ perm' \in [Name -> Row]
        /\ \A n \in Name \ plan.updated : perm'[n] = perm[n]
        /\ \A n \in plan.created : perm'[n] = NewRow(MainApp)
        /\ \A n \in plan.updated \ plan.created :
              /\ perm'[n].owner = perm[n].owner /\ perm'[n].declared = (n \in target)
    BY <1>3, <1>5, CommitRows DEF OwnerOf
  <1>7. target \subseteq Main /\ known \subseteq Main /\ Main \subseteq Name /\ plan.updated \subseteq Main
    BY <1>5, ScanTypes, OwnedNames DEF IInv, Name
  <1>8. Stable(Sub)
    <2>1. plan.updated \cap Sub = {} /\ plan.target \cap Sub = {}
      BY <1>5, <1>7, SyncAssumption
    <2> QED BY <1>3, <2>1, CommitStable DEF Name
  <1>9. binding' = Bindings(release)
    <2>1. \A b, c \in binding : SameKey(b, c) => b = c
      BY DEF IInv, TypeOK
    <2>2. {b \in binding : \E c \in plan.removed : SameKey(b, c)} = plan.removed
      BY <1>5, <2>1 DEF SameKey
    <2>3. binding' = (binding \ plan.removed) \cup plan.added
      BY <1>3, <2>2 DEF Commit
    <2> QED BY <1>5, <2>3
  <1>10. UNCHANGED <<adminRole, app, mix, session, reported>> /\ applied' = release
         /\ granted' = granted \cup plan.grants /\ End(r, 0)
         /\ taken' = (taken \ plan.target) \cup (lost[r] \cap plan.target)
    BY <1>2, <1>3 DEF Commit
  <1>11. OnlyRequest(r) /\ LockTypes' /\ (\A q \in Req \ {r} : LocksKept(q)) /\ RequestInv(r)'
    BY <1>10, EndStep
  <1> HIDE DEF known, target
  <1>12. TypeOK'
    <2>1. binding' \subseteq Binding /\ \A b, c \in binding' : SameKey(b, c) => b = c
      BY <1>2, <1>9, ScanTypes DEF ScanFails
    <2>2. granted' \subseteq Name /\ taken' \subseteq Name
      BY <1>4, <1>5, <1>7, <1>10 DEF IInv, TypeOK, Grants
    <2> QED BY <1>6, <1>10, <1>11, <2>1, <2>2 DEF IInv, TypeOK, LockTypes, HolderTypes, OnlyRequest
  <1>13. Owned(MainApp)' = known \cup target
    <2>1. \A n \in Name : perm'[n].owner = MainApp <=> n \in known \cup target
      <3>1. ASSUME NEW n \in Name, n \in plan.created
            PROVE  perm'[n].owner = MainApp /\ n \in target
        BY <1>5, <1>6, <3>1 DEF NewRow
      <3>2. ASSUME NEW n \in Name, n \notin plan.created
            PROVE  perm'[n].owner = perm[n].owner /\ (n \in known \cup target <=> n \in known)
        BY <1>5, <1>6, <3>2
      <3>3. \A n \in Name : perm[n].owner = MainApp <=> n \in known
        BY DEF known, Owned
      <3> QED BY <3>1, <3>2, <3>3
    <2> QED BY <1>7, <2>1 DEF Owned
  <1>14. RowInv'
    <2>1. \A n \in plan.updated : perm'[n].owner = MainApp
      <3>1. \A n \in plan.updated \ plan.created : perm[n].owner = MainApp
        BY <1>5 DEF known, Owned
      <3> QED BY <1>6, <3>1 DEF NewRow
    <2>2. \A n \in Name : /\ perm'[n].owner = MainApp => n \in Main
                          /\ perm'[n].owner \in App => n \in Sub
                          /\ perm'[n].owner = NoApp => perm'[n] = NoRow
      BY <1>6, <1>7, <2>1, SyncAssumption DEF IInv, RowInv
    <2>3. \A b \in binding' : b[1] \in target
      BY <1>9, ScanTypes DEF target
    <2>4. \A n \in target : perm'[n].owner = MainApp
      BY <1>7, <1>13 DEF Owned
    <2> QED BY <2>2, <2>3, <2>4 DEF RowInv, NoRow
  <1>15. CheckPassesAfterApply'
    <2>1. CurrentBindings' = Bindings(release)
      BY <1>9, <1>13, ScanTypes DEF CurrentBindings, target
    <2>2. \A n \in known \cup target : perm'[n].declared = (n \in target)
      <3>1. \A n \in plan.created : perm'[n].declared /\ n \in target
        BY <1>5, <1>6 DEF NewRow
      <3>2. \A n \in known \ plan.updated : perm'[n].declared = (n \in target)
        BY <1>5, <1>6, <1>7
      <3> QED BY <1>5, <1>6, <3>1, <3>2
    <2>3. target \ ((known \cup target) \cap granted') \subseteq taken'
      BY <1>4, <1>5, <1>10 DEF Grants
    <2> SUFFICES SyncPlan(release)'.updated = {} /\ SyncPlan(release)'.grants \subseteq taken'
      BY <1>10 DEF CheckPassesAfterApply
    <2> DEFINE flipped == {n \in known \cup target : perm'[n].declared # (n \in target)}
    <2>4. /\ SyncPlan(release)'.updated = (target \ (known \cup target)) \cup flipped
                   \cup {b[1] : b \in (Bindings(release) \ Bindings(release)) \cup (Bindings(release) \ Bindings(release))}
          /\ SyncPlan(release)'.grants = target \ ((known \cup target) \cap granted')
      BY <1>13, <2>1 DEF SyncPlan, target
    <2>5. flipped = {}
      BY <2>2
    <2> HIDE DEF flipped
    <2>6. {b[1] : b \in (Bindings(release) \ Bindings(release)) \cup (Bindings(release) \ Bindings(release))} = {}
      OBVIOUS
    <2> QED BY <2>3, <2>4, <2>5, <2>6
  <1>16. ReportsHold'
    BY <1>8, <1>10, <1>14, ReportsKept
  <1>17. ASSUME NEW q \in Req, q # r
         PROVE  RequestInv(q)'
    <2>1. syncLock = r
      BY <1>1 DEF RequestInv, HoldInv, Syncing, SyncPlanned
    <2>2. \A n \in Name : perm[n].owner # NoApp => perm'[n].owner # NoApp
      <3>1. \A n \in plan.created : perm'[n].owner # NoApp
        BY <1>6, SyncAssumption DEF NewRow
      <3> QED BY <1>6, <3>1
    <2>3. Frame(q)
      BY <1>8, <1>10, <1>11, <1>17, <2>1, <2>2 DEF Frame, LocksKept, HoldersKept, LossKept
    <2>4. req'[q] = req[q]
      BY <1>11, <1>17 DEF OnlyRequest, IInv, TypeOK
    <2> QED BY <1>12, <1>14, <2>3, <2>4, Kept
  <1> QED BY <1>11, <1>12, <1>14, <1>15, <1>16, <1>17, CommitKeepsHeld DEF IInv

\* Commit of a report: its codes are declared, and what the other kind relies on stays.
LEMMA CommitReportStep ==
  ASSUME IInv, NEW r \in Req, Commit(r), req[r].op = "report"
  PROVE  IInv'
  <1>1. RequestInv(r) /\ Reporting(r, ReportPlanned) /\ req[r].pc = "commit"
    BY CommitRows DEF Planned, Syncing, Reporting
  <1>2. PICK a \in App, codes \in SUBSET Sub : a = req[r].app /\ codes = req[r].codes
    BY <1>1, Fields DEF RequestInv, ShapeInv, IInv, TypeOK
  <1>3. PICK plan \in Plan : plan = req[r].plan
    BY CommitRows
  <1>4. /\ Matches(plan, ReportPlan(a, codes)) /\ Grants(plan, {})
        /\ \A n \in codes : perm[n].owner \in {a, NoApp}
    BY <1>1, <1>2, <1>3 DEF RequestInv, PlanInv
  <1> DEFINE known == Owned(a)
  <1>5. /\ plan.target = codes /\ plan.created = codes \ known
        /\ plan.created \subseteq plan.updated /\ plan.updated \subseteq plan.created \cup known
        /\ \A n \in known \ plan.updated : perm[n].declared = (n \in codes)
        /\ plan.removed = {} /\ plan.added = {}
    BY <1>4, ReportPlanFacts
  <1>6. /\ perm' \in [Name -> Row]
        /\ \A n \in Name \ plan.updated : perm'[n] = perm[n]
        /\ \A n \in plan.created : perm'[n] = NewRow(a)
        /\ \A n \in plan.updated \ plan.created :
              /\ perm'[n].owner = perm[n].owner /\ perm'[n].declared = (n \in codes)
    <2>1. OwnerOf(r) = a
      BY <1>2 DEF OwnerOf
    <2> QED BY <1>3, <1>5, <2>1, CommitRows
  <1>7. known \subseteq Sub /\ Sub \subseteq Name /\ plan.updated \subseteq Sub /\ plan.target \subseteq Sub
    BY <1>5, OwnedNames DEF IInv, Name
  <1>8. Stable(Main)
    <2>1. plan.updated \cap Main = {} /\ plan.target \cap Main = {}
      BY <1>7, SyncAssumption
    <2> QED BY <1>3, <2>1, CommitStable DEF Name
  <1>9. UNCHANGED <<binding, adminRole, app, mix, session, applied>>
        /\ reported' = [reported EXCEPT ![a] = codes] /\ granted' = granted \cup plan.grants /\ End(r, 0)
        /\ taken' = (taken \ plan.target) \cup (lost[r] \cap plan.target)
    <2>1. binding' = (binding \ {b \in binding : \E c \in plan.removed : SameKey(b, c)}) \cup plan.added
      BY <1>3 DEF Commit
    <2>2. binding' = binding
      BY <1>5, <2>1
    <2> QED BY <1>2, <1>3, <1>5, <2>2 DEF Commit
  <1>10. OnlyRequest(r) /\ LockTypes' /\ (\A q \in Req \ {r} : LocksKept(q)) /\ RequestInv(r)'
    BY <1>9, EndStep
  <1> HIDE DEF known
  <1>11. TypeOK'
    <2>1. granted' \subseteq Name /\ taken' \subseteq Name
      BY <1>4, <1>7, <1>9 DEF IInv, TypeOK, Grants
    <2>2. reported' \in [App -> SUBSET (Sub \cup {NoName})]
      BY <1>2, <1>9 DEF IInv, TypeOK
    <2> QED BY <1>6, <1>9, <1>10, <2>1, <2>2 DEF IInv, TypeOK, LockTypes, HolderTypes, OnlyRequest
  <1>12. \A n \in plan.updated : perm'[n].owner = a
    <2>1. \A n \in known : perm[n].owner = a
      BY DEF known, Owned
    <2> QED BY <1>5, <1>6, <2>1 DEF NewRow
  <1>13. RowInv'
    <2>1. \A n \in Name : /\ perm'[n].owner = MainApp => n \in Main
                          /\ perm'[n].owner \in App => n \in Sub
                          /\ perm'[n].owner = NoApp => perm'[n] = NoRow
      BY <1>6, <1>7, <1>12, SyncAssumption DEF IInv, RowInv
    <2>2. \A b \in binding : b[1] \in Main /\ perm[b[1]].owner = MainApp
      BY DEF IInv, TypeOK, RowInv, Binding
    <2>3. \A n \in Main : perm'[n].owner = perm[n].owner
      BY <1>8 DEF Stable
    <2> QED BY <1>9, <2>1, <2>2, <2>3 DEF RowInv, NoRow
  <1>14. CheckPassesAfterApply'
    BY <1>8, <1>9, <1>11, <1>13, CheckKept
  <1>15. ReportsHold'
    <2>1. ASSUME NEW b \in App, b # a, reported[b] # {NoName}
          PROVE  Declared(b)' = reported[b] /\ reported[b] \ taken' \subseteq granted'
      <3>1. Declared(b) = reported[b] /\ reported[b] \ taken \subseteq granted
        BY <2>1 DEF IInv, ReportsHold
      <3>2. \A n \in Name : (perm'[n].owner = b /\ perm'[n].declared) <=> (perm[n].owner = b /\ perm[n].declared)
        <4>1. \A n \in plan.updated : perm[n].owner \in {a, NoApp}
          BY <1>4, <1>5 DEF known, Owned
        <4>2. b # NoApp
          BY SyncAssumption
        <4> QED BY <1>6, <1>12, <2>1, <4>1, <4>2
      <3>3. Declared(b)' = Declared(b)
        BY <3>2 DEF Declared, Owned
      <3>4. codes \subseteq granted' /\ granted \subseteq granted' /\ taken \ codes \subseteq taken'
        BY <1>4, <1>5, <1>9 DEF Grants
      <3> QED BY <3>1, <3>3, <3>4
    <2>2. Declared(a)' = codes
      <3>1. \A n \in codes : n \in Name /\ perm'[n].owner = a /\ perm'[n].declared
        <4>1. ASSUME NEW n \in codes, n \in plan.created
              PROVE  perm'[n].owner = a /\ perm'[n].declared
          BY <1>6, <4>1 DEF NewRow
        <4>2. ASSUME NEW n \in codes, n \notin plan.created
              PROVE  perm'[n].owner = a /\ perm'[n].declared
          <5>1. n \in known
            BY <1>5, <4>2
          <5>2. n \in Name /\ perm[n].owner = a
            BY <5>1 DEF known, Owned
          <5> QED BY <1>5, <1>6, <4>2, <5>1, <5>2
        <4> QED BY <1>7, <4>1, <4>2, <1>2
      <3>2. \A n \in Name : perm'[n].owner = a /\ perm'[n].declared => n \in codes
        <4>1. ASSUME NEW n \in Name, n \in plan.created PROVE n \in codes
          BY <1>5, <4>1
        <4>2. ASSUME NEW n \in Name, n \notin plan.created, perm'[n].owner = a, perm'[n].declared PROVE n \in codes
          <5>1. perm[n].owner = a /\ n \in known
            BY <1>6, <4>2 DEF known, Owned
          <5> QED BY <1>5, <1>6, <4>2, <5>1
        <4> QED BY <4>1, <4>2
      <3> QED BY <3>1, <3>2 DEF Declared, Owned
    <2>3. codes \subseteq granted'
      BY <1>4, <1>5, <1>9 DEF Grants
    <2>4. reported'[a] = codes /\ \A b \in App \ {a} : reported'[b] = reported[b]
      BY <1>9 DEF IInv, TypeOK
    <2> SUFFICES ASSUME NEW b \in App, reported'[b] # {NoName}
                 PROVE  Declared(b)' = reported'[b] /\ reported'[b] \ taken' \subseteq granted'
      BY DEF ReportsHold
    <2>5. CASE b = a
      BY <2>2, <2>3, <2>4, <2>5
    <2>6. CASE b # a
      BY <2>1, <2>4, <2>6
    <2> QED BY <2>5, <2>6
  <1>16. ASSUME NEW q \in Req, q # r
         PROVE  RequestInv(q)'
    <2>1. roleLock = r
      BY <1>1 DEF RequestInv, HoldInv, Reporting, ReportPlanned
    <2>2. \A n \in Name : perm[n].owner # NoApp => perm'[n].owner # NoApp
      BY <1>6, <1>12, SyncAssumption
    <2>3. Frame(q)
      BY <1>8, <1>9, <1>10, <1>16, <2>1, <2>2 DEF Frame, LocksKept, HoldersKept, LossKept
    <2>4. req'[q] = req[q]
      BY <1>10, <1>16 DEF OnlyRequest, IInv, TypeOK
    <2> QED BY <1>11, <1>13, <2>3, <2>4, Kept
  <1> QED BY <1>10, <1>11, <1>13, <1>14, <1>15, <1>16, CommitKeepsHeld DEF IInv

\* Commit, of either.
LEMMA CommitStep ==
  ASSUME IInv, NEW r \in Req, Commit(r)
  PROVE  IInv'
  BY CommitRows, CommitSyncStep, CommitReportStep

-----------------------------------------------------------------------------
(* The invariant *)

\* A database whose sync is still to come satisfies the invariant, whatever it has granted.
LEMMA Initially ==
  ASSUME Unsynced, adminRole \in BOOLEAN, granted \subseteq Name
  PROVE  IInv
  <1>1. TypeOK
    <2>1. \A b, c \in binding : SameKey(b, c) => b = c
      BY DEF Unsynced
    <2>2. session \in [User -> Session]
      BY DEF Unsynced, Session
    <2>3. perm \in [Name -> Row] /\ req \in [Req -> Request]
      BY IdleTypes DEF Unsynced
    <2>4. reported \in [App -> SUBSET (Sub \cup {NoName})]
      BY DEF Unsynced
    <2> QED BY <2>1, <2>2, <2>3, <2>4 DEF Unsynced, TypeOK
  <1>2. RowInv
    BY SyncAssumption DEF Unsynced, RowInv, NoRow
  <1>3. CheckPassesAfterApply /\ ReportsHold /\ SweepsReachEveryone
    BY DEF Unsynced, CheckPassesAfterApply, ReportsHold, SweepsReachEveryone
  <1>4. ASSUME NEW r \in Req PROVE RequestInv(r)
    <2>1. req[r].pc = "idle" /\ req[r].op = "none"
      BY DEF Unsynced, Idle
    <2> QED BY <2>1 DEF RequestInv, ShapeInv, HoldInv, PlanInv, SeenInv, WindowInv, Planned, Syncing, Reporting,
                        Switching, Assigning, Locking, Switch, SyncPlanned, ReportPlanned
  <1> QED BY <1>1, <1>2, <1>3, <1>4 DEF IInv

\* Every start of a request keeps the invariant,
LEMMA StartStep ==
  ASSUME IInv, NEW r \in Req, Start(r)
  PROVE  IInv'
  BY StartSyncStep, CheckSyncStep, StartReportStep, StartSwitchStep, StartEditStep, StartAssignStep DEF Start

\* every further step does,
LEMMA ProceedStep ==
  ASSUME IInv, NEW r \in Req, Proceed(r)
  PROVE  IInv'
  <1>1. CASE TakeAdvisoryLock(r) BY <1>1, TakeAdvisoryLockStep
  <1>2. CASE BuildPlan(r) BY <1>2, BuildPlanStep
  <1>3. CASE LoadRows(r) BY <1>3, LoadRowsStep
  <1>4. CASE Grant(r) BY <1>4, GrantStep
  <1>5. CASE LockCaller(r) BY <1>5, LockCallerStep
  <1>6. CASE LockAdminRole(r) BY <1>6, LockAdminRoleStep
  <1>7. CASE DecideReport(r) BY <1>7, DecideReportStep
  <1>8. CASE Flush(r) BY <1>8, FlushStep
  <1>9. CASE Sweep(r) BY <1>9, SweepStep
  <1>10. CASE Commit(r) BY <1>10, CommitStep
  <1>11. CASE LockPermission(r) BY <1>11, LockPermissionStep
  <1>12. CASE CommitSwitch(r) BY <1>12, CommitSwitchStep
  <1>13. CASE UpdatePermission(r) BY <1>13, UpdatePermissionStep
  <1>14. CASE CommitEdit(r) BY <1>14, CommitEditStep
  <1>15. CASE LockRoleToAssign(r) BY <1>15, LockRoleToAssignStep
  <1>16. CASE LockWanted(r) BY <1>16, LockWantedStep
  <1>17. CASE CommitAssign(r) BY <1>17, CommitAssignStep
  <1>18. CASE Abort(r) BY <1>18, RollbackStep DEF Abort
  <1> QED BY <1>1, <1>2, <1>3, <1>4, <1>5, <1>6, <1>7, <1>8, <1>9, <1>10, <1>11, <1>12, <1>13, <1>14, <1>15,
             <1>16, <1>17, <1>18 DEF Proceed

\* and so does a step that changes nothing.
LEMMA Stutter ==
  ASSUME IInv, UNCHANGED vars
  PROVE  IInv'
  <1>1. Stable(Main) /\ Stable(Sub) /\ RowInv'
    BY RowsStay DEF vars
  <1>2. TypeOK'
    BY DEF IInv, TypeOK, vars
  <1>3. SweepsReachEveryone'
    BY DEF IInv, SweepsReachEveryone, Held, Effective, RolePermissions, vars
  <1>4. \A q \in Req : req'[q] = req[q] /\ Frame(q)
    BY <1>1 DEF Frame, LossKept, vars
  <1> QED BY <1>1, <1>2, <1>3, <1>4, AdministratorStep DEF vars

\* The invariant is inductive,
LEMMA EveryStep ==
  ASSUME IInv, [Next]_vars
  PROVE  IInv'
  BY StartStep, ProceedStep, SwitchAppStep, LoginStep, Stutter DEF Next

\* and so it always holds.
LEMMA Invariance == Spec => []IInv
  <1>1. Init => IInv
    BY Initially DEF Init
  <1> QED BY <1>1, EveryStep, PTL DEF Spec

-----------------------------------------------------------------------------
(* What a step may do to a permission *)

\* The commit of an administrator's change of one permission
Administers(r) == CommitSwitch(r) \/ CommitEdit(r)
\* Rows change with the commits of syncs, reports, switches and edits, bindings with those of syncs.
RowsChange == UNCHANGED <<perm, binding>> \/ \E r \in Req : Commit(r) \/ Administers(r)
\* No other step writes a row.
LEMMA RowChanges ==
  ASSUME [Next]_vars
  PROVE  RowsChange
  <1>1. ASSUME NEW r \in Req, Start(r) PROVE UNCHANGED <<perm, binding>>
    BY <1>1 DEF Start, StartSync, CheckSync, StartReport, StartSwitch, StartEdit, StartAssign, rows
  <1>2. ASSUME NEW r \in Req, Rollback(r) PROVE UNCHANGED <<perm, binding>>
    BY <1>2 DEF Rollback, rows
  <1>3. ASSUME NEW r \in Req, Proceed(r) PROVE UNCHANGED <<perm, binding>> \/ Commit(r) \/ Administers(r)
    BY <1>2, <1>3 DEF Proceed, TakeAdvisoryLock, BuildPlan, LoadRows, Grant, LockCaller, LockAdminRole, DecideReport,
                      Flush, Sweep, LockPermission, UpdatePermission, LockRoleToAssign, LockWanted, CommitAssign,
                      Abort, Administers, rows
  <1>4. ASSUME NEW a \in App, SwitchApp(a) PROVE UNCHANGED <<perm, binding>>
    BY <1>4 DEF SwitchApp
  <1>5. ASSUME NEW u \in User, Login(u) PROVE UNCHANGED <<perm, binding>>
    BY <1>5 DEF Login, rows
  <1> QED BY <1>1, <1>3, <1>4, <1>5 DEF Next, vars, RowsChange

\* A plan creates what nobody has: by its commit nobody else has taken the name.
LEMMA CreatedFresh ==
  ASSUME IInv, NEW r \in Req, Commit(r), NEW n \in req[r].plan.created
  PROVE  n \in Name /\ perm[n].owner = NoApp
  <1>1. RequestInv(r) /\ Planned(r)
    BY CommitRows
  <1>2. CASE Syncing(r, SyncPlanned)
    <2>1. PICK release \in Releases : release = req[r].release /\ Matches(req[r].plan, SyncPlan(release))
      BY <1>1, <1>2 DEF RequestInv, PlanInv, ShapeInv, Syncing
    <2>2. n \in Names(release) /\ n \notin Owned(MainApp)
      BY <2>1, SyncPlanFacts
    <2>3. n \in Main /\ n \in Name
      BY <2>2, ScanTypes DEF Name
    <2>4. perm[n].owner \in App \cup {MainApp, NoApp}
      BY <2>3, RowFields DEF IInv, TypeOK
    <2> QED BY <2>2, <2>3, <2>4, SyncAssumption DEF IInv, RowInv, Owned
  <1>3. CASE Reporting(r, ReportPlanned)
    <2>1. PICK a \in App, codes \in SUBSET Sub :
             /\ a = req[r].app /\ codes = req[r].codes /\ Matches(req[r].plan, ReportPlan(a, codes))
             /\ \A o \in codes : perm[o].owner \in {a, NoApp}
      BY <1>1, <1>3, Fields DEF RequestInv, PlanInv, ShapeInv, Reporting, IInv, TypeOK
    <2>2. n \in codes /\ n \notin Owned(a)
      BY <2>1, ReportPlanFacts
    <2> QED BY <2>1, <2>2 DEF Owned, Name
  <1> QED BY <1>1, <1>2, <1>3 DEF Planned

\* A permission's columns after the commit of a sync or a report, and after that of a switch
\* or an edit.
LEMMA CommitChanges ==
  ASSUME IInv, NEW r \in Req, Commit(r), NEW n \in Name, perm[n].owner # NoApp, Changes(n)
  PROVE  /\ perm'[n].enabled = perm[n].enabled /\ n \in req[r].plan.updated
         /\ perm'[n].version = req[r].seen[n].version + 1 /\ req[r].seen[n].declared = perm[n].declared
         /\ req[r].seen[n].version \in Nat
  <1>1. n \in req[r].plan.updated
    <2>1. CASE perm'[n] # perm[n]
      BY <2>1, CommitRows
    <2>2. CASE \E b \in (binding \ binding') \cup (binding' \ binding) : b[1] = n
      <3>1. PICK b : b \in (binding \ binding') \cup (binding' \ binding) /\ b[1] = n
        BY <2>2
      <3>2. \A c, d \in binding : SameKey(c, d) => c = d
        BY DEF IInv, TypeOK
      <3>3. CASE Syncing(r, SyncPlanned)
        <4>1. PICK release \in Releases : Matches(req[r].plan, SyncPlan(release))
          BY <3>3, CommitRows DEF RequestInv, PlanInv, ShapeInv, Syncing
        <4>2. /\ req[r].plan.removed = binding \ Bindings(release) /\ req[r].plan.added = Bindings(release) \ binding
              /\ \A c \in req[r].plan.removed \cup req[r].plan.added : c[1] \in req[r].plan.updated
          BY <4>1, SyncPlanFacts
        <4>3. b \in req[r].plan.removed \cup req[r].plan.added
          BY <3>1, <3>2, <4>2 DEF Commit
        <4> QED BY <3>1, <4>2, <4>3
      <3>4. CASE Reporting(r, ReportPlanned)
        <4>1. PICK a \in App, codes \in SUBSET Sub : Matches(req[r].plan, ReportPlan(a, codes))
          BY <3>4, CommitRows, Fields DEF RequestInv, PlanInv, ShapeInv, Reporting, IInv, TypeOK
        <4>2. req[r].plan.removed = {} /\ req[r].plan.added = {}
          BY <4>1, ReportPlanFacts
        <4> QED BY <3>1, <4>2 DEF Commit
      <3> QED BY <3>3, <3>4, CommitRows DEF Planned
    <2> QED BY <2>1, <2>2 DEF Changes
  <1>2. n \notin req[r].plan.created
    BY CreatedFresh
  <1>3. perm'[n].enabled = perm[n].enabled /\ perm'[n].version = req[r].seen[n].version + 1
    BY <1>1, <1>2, CommitRows
  <1>4. req[r].seen[n].declared = perm[n].declared
    BY <1>1, CommitRows DEF RequestInv, SeenInv
  <1>5. req[r].seen \in [Name -> Row]
    BY Fields DEF IInv, TypeOK
  <1>6. req[r].seen[n] \in Row
    BY <1>5
  <1> QED BY <1>1, <1>3, <1>4, <1>6, RowFields
\* An administrator's change takes a new version of the one row; an edit does not switch it.
LEMMA AdministratorChanges ==
  ASSUME IInv, NEW r \in Req, Administers(r), NEW n \in Name, Changes(n)
  PROVE  /\ req[r].name = n /\ perm'[n].version > perm[n].version
         /\ perm'[n].enabled # perm[n].enabled => CommitSwitch(r)
  <1>1. perm'[n] # perm[n]
    BY DEF Administers, CommitSwitch, CommitEdit, Changes
  <1>2. req[r].name = n
    BY <1>1 DEF Administers, CommitSwitch, CommitEdit, IInv, TypeOK
  <1>3. PICK f \in Row : f = perm[n]
    BY DEF IInv, TypeOK
  <1> DEFINE v == f.version + 1
  <1>4. v \in Nat /\ v > f.version
    BY <1>3, RowFields
  <1>5. /\ CommitSwitch(r) => perm'[n] = [f EXCEPT !.enabled = (req[r].op = "enable"), !.version = v]
        /\ CommitEdit(r) => perm'[n] = [f EXCEPT !.version = v]
    BY <1>2, <1>3 DEF CommitSwitch, CommitEdit, IInv, TypeOK
  <1> HIDE DEF v
  <1>6. /\ perm'[n].version = v
        /\ CommitEdit(r) => perm'[n].enabled = f.enabled
    BY <1>3, <1>5 DEF Row, Administers
  <1> QED BY <1>2, <1>3, <1>4, <1>6 DEF Administers

\* The statements of DecisionsKept, OnlyAdministratorsLoseVersions and SilentOnceDisabled about a step
LEMMA DecisionStep ==
  ASSUME IInv, RowsChange, NEW n \in Name, perm[n].owner # NoApp, perm'[n].enabled # perm[n].enabled
  PROVE  \E r \in Req : req[r].op \in Switch /\ req[r].name = n /\ CommitSwitch(r)
  <1>1. PICK r \in Req : Commit(r) \/ Administers(r)
    BY DEF RowsChange
  <1>2. Changes(n)
    BY DEF Changes
  <1>3. CommitSwitch(r) /\ req[r].name = n
    BY <1>1, <1>2, CommitChanges, AdministratorChanges
  <1> QED BY <1>3 DEF CommitSwitch
\* A step that loses a version is the commit of a sync or report that loaded the row before.
LEMMA VersionStep ==
  ASSUME IInv, RowsChange, NEW n \in Name, perm[n].owner # NoApp, Changes(n),
         perm'[n].version <= perm[n].version
  PROVE  \E r \in Req : /\ Commit(r) /\ n \in req[r].plan.updated
                        /\ req[r].seen[n].version < perm[n].version
                        /\ req[r].seen[n].declared = perm[n].declared
  <1>1. PICK r \in Req : Commit(r) \/ Administers(r)
    BY DEF RowsChange, Changes
  <1>2. perm[n].version \in Nat
    BY RowFields DEF IInv, TypeOK
  <1>3. CASE Administers(r)
    <2>1. perm' \in [Name -> Row]
      BY <1>3, CommitSwitchStep, CommitEditStep DEF Administers, IInv, TypeOK
    <2>2. perm'[n] \in Row
      BY <2>1
    <2>3. perm'[n].version > perm[n].version /\ perm'[n].version \in Nat
      BY <1>3, <2>2, AdministratorChanges, RowFields
    <2> QED BY <1>2, <2>3
  <1>4. CASE Commit(r)
    <2>1. /\ n \in req[r].plan.updated /\ perm'[n].version = req[r].seen[n].version + 1
          /\ req[r].seen[n].declared = perm[n].declared /\ req[r].seen[n].version \in Nat
      BY <1>4, CommitChanges
    <2>2. req[r].seen[n].version < perm[n].version
      BY <1>2, <2>1
    <2> QED BY <1>4, <2>1, <2>2
  <1> QED BY <1>1, <1>3, <1>4
\* A report commits while its application is enabled.
LEMMA SilentStep ==
  ASSUME IInv, NEW r \in Req, req[r].op = "report", Commit(r)
  PROVE  req[r].app \in app
  BY DEF Commit, At, IInv, RequestInv, HoldInv, Reporting, ReportPlanned

-----------------------------------------------------------------------------
(* Theorems *)

\* Rows, plans and requests keep their shapes, and bindings the primary key of their table.
THEOREM TypeCorrect == Spec => []TypeOK
  BY Invariance, PTL DEF IInv

\* Once a sync has committed, a check of the release it applied finds no difference but what
\* administrators have taken from their role: nobody but the next sync declares, retires or
\* binds what routes require, and what it needs is granted.
THEOREM ChecksPass == Spec => []CheckPassesAfterApply
  BY Invariance, PTL DEF IInv

\* An application has declared what its last accepted report says, and administrators have it
\* but for what one of them has taken from the role since that report.
THEOREM ReportsAreKept == Spec => []ReportsHold
  BY Invariance, PTL DEF IInv

\* Whoever loses a permission, to a sync, a report or an administrator, loses the session
\* that claims it, unless the login overlapped the change.
THEOREM SessionsEndWithRights == Spec => []SweepsReachEveryone
  BY Invariance, PTL DEF IInv

\* No sync or report undoes an administrator's switch of a permission.
THEOREM DecisionsStay == Spec => DecisionsKept
  <1>1. IInv /\ [Next]_vars => [\A n \in Name :
          perm[n].owner # NoApp /\ perm'[n].enabled # perm[n].enabled
              => \E r \in Req : req[r].op \in Switch /\ req[r].name = n /\ CommitSwitch(r)]_vars
    BY RowChanges, DecisionStep
  <1> QED BY <1>1, Invariance, PTL DEF Spec, DecisionsKept

\* Only an administrator's change between a sync's or report's load and its commit costs a
\* version: other syncs and reports are kept away.
THEOREM VersionsAreLostToAdministrators == Spec => OnlyAdministratorsLoseVersions
  <1>1. IInv /\ [Next]_vars => [\A n \in Name :
          perm[n].owner # NoApp /\ Changes(n) /\ perm'[n].version <= perm[n].version
          => \E r \in Req : /\ Commit(r) /\ n \in req[r].plan.updated
                            /\ req[r].seen[n].version < perm[n].version
                            /\ req[r].seen[n].declared = perm[n].declared]_vars
    BY RowChanges, VersionStep
  <1> QED BY <1>1, Invariance, PTL DEF Spec, OnlyAdministratorsLoseVersions

\* The lock on the application's row keeps it enabled until the report commits.
THEOREM DisabledAreSilent == Spec => SilentOnceDisabled
  <1>1. IInv => [\A r \in Req : req[r].op = "report" /\ Commit(r) => req[r].app \in app]_vars
    BY SilentStep
  <1> QED BY <1>1, Invariance, PTL DEF SilentOnceDisabled
=============================================================================
