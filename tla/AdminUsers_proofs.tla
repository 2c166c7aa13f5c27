-------------------------- MODULE AdminUsers_proofs --------------------------
(***************************************************************************)
(* Proofs about AdminUsers, for any number of users, roles, e-mails and    *)
(* requests.  The invariant says what a request may rely on once it has    *)
(* its locks; the heart is LeavingInv: whoever is about to remove an       *)
(* active administrator holds the admin role, and another one remains.     *)
(***************************************************************************)
EXTENDS AdminUsers, FiniteSetTheorems, TLAPS

\* The request has the row of its target.
Holds(r) == \/ req[r].pc \in {"roles", "guard"}
            \/ req[r].pc \in {"claim", "commit"} /\ req[r].op \notin {"create", "no_change"}

\* Which operation is at which step, on a user that exists.
CallInv(r) ==
    /\ req[r].pc = "idle" => req[r].op = "none"
    /\ req[r].pc # "idle" => req[r].target \in User /\ req[r].actor \in User
    /\ req[r].pc = "lock" => req[r].op \in LockingOp
    /\ req[r].pc = "roles" => req[r].op = "assign"
    /\ req[r].pc = "guard" => req[r].op \in {"disable", "blacklist", "assign"}
    /\ req[r].pc = "update" => req[r].op \in UpdateOp
    /\ req[r].pc = "claim" => req[r].op \in {"create", "change_email"}
    /\ req[r].pc # "idle" /\ req[r].op # "create" => Exists(req[r].target)
    /\ req[r].pc \in {"guard", "commit"} /\ req[r].op \in {"disable", "blacklist"} =>
          req[r].actor # req[r].target

\* A held row is locked, and its copy is as fresh as the row unless it is the
\* actor's own.
HoldInv(r) ==
    /\ Holds(r) => userLock[req[r].target] = r
    /\ req[r].actor # req[r].target =>
          /\ req[r].pc = "lock" => req[r].loaded = Absent
          /\ Holds(r) /\ req[r].op \in LockingOp => req[r].loaded = row[req[r].target]

\* r is about to remove an active administrator.
Leaves(r) ==
    /\ req[r].pc = "commit"
    /\ req[r].target \in ActiveAdmins
    /\ \/ req[r].op \in {"disable", "blacklist"}
       \/ req[r].op = "assign" /\ AdminRole \notin req[r].want

LeavingInv(r) == Leaves(r) => /\ roleLock[AdminRole] = r
                              /\ \E v \in ActiveAdmins : v # req[r].target

\* An e-mail about to be committed is claimed, and nobody else has it.
ClaimInv(r) ==
    req[r].op \in {"create", "change_email"} =>
        /\ req[r].email \in Email
        /\ req[r].pc = "commit" => /\ claim[req[r].email] = r
                                   /\ \A v \in User : v # req[r].target => row[v].email # req[r].email

\* The row about to be inserted
NewInv(r) ==
    req[r].op = "create" /\ req[r].pc # "idle" =>
        ~Exists(req[r].target) /\ req[r].loaded.email = req[r].email

RequestInv(r) == CallInv(r) /\ HoldInv(r) /\ LeavingInv(r) /\ ClaimInv(r) /\ NewInv(r)

\* A row being created belongs to one request.
NewTargets == \A p, q \in Req : p # q /\ req[p].op = "create" => req[q].target # req[p].target

RowInv == \A u \in User : ~Exists(u) => row[u] = Absent

IInv == /\ TypeOK
        /\ RowInv
        /\ AdminRemains
        /\ EmailsUnique
        /\ NewTargets
        /\ \A r \in Req : RequestInv(r)
-----------------------------------------------------------------------------
(* Types *)

\* The type of each field of a request.
LEMMA Fields ==
  ASSUME NEW m \in Request
  PROVE  /\ m.pc \in Step /\ m.op \in Op \cup {"none", "no_change"}
         /\ m.actor \in User \cup {NoUser} /\ m.target \in User \cup {NoUser}
         /\ m.email \in Email \cup {NoEmail} /\ m.version \in Nat
         /\ m.want \in SUBSET Role /\ m.todo \in SUBSET Role /\ m.loaded \in Row
  BY DEF Request

\* An ended request is a request, a row not yet inserted is a row.
LEMMA NullTypes == Idle \in Request /\ Absent \in Row
  BY DEF Idle, Absent, Request, Row, Step

\* Moving a request on, ending it, or loading its target keep the types.
LEMMA MoveTypes ==
  ASSUME NEW m \in Request
  PROVE  /\ \A step \in Step : [m EXCEPT !.pc = step] \in Request
         /\ [m EXCEPT !.pc = "commit", !.op = "no_change"] \in Request
         /\ \A b \in Row, step \in Step : [m EXCEPT !.loaded = b, !.pc = step] \in Request
         /\ \A x : [m EXCEPT !.todo = @ \ {x}] \in Request
  BY DEF Request, Step

\* Dropping a transaction's locks keeps the types of the lock tables.
LEMMA WithoutType ==
  ASSUME NEW D, NEW lock \in [D -> Req \cup {NoReq}], NEW r
  PROVE  Without(lock, r) \in [D -> Req \cup {NoReq}]
  BY DEF Without

\* Rolling back keeps the types.
LEMMA RollbackType ==
  ASSUME TypeOK, NEW r \in Req, Rollback(r)
  PROVE  TypeOK'
  BY WithoutType, NullTypes DEF TypeOK, Rollback, Release, Finish

\* What a transaction writes is a row: the copy's version is a number.
LEMMA WrittenType ==
  ASSUME TypeOK, NEW r \in Req, req[r].target \in User, req[r].email \in Email \/ req[r].op # "change_email"
  PROVE  Written(r) \in Row
  <1>0. req[r].op = "change_email" => req[r].email \in Email
    OBVIOUS
  <1>1. row[req[r].target] \in Row /\ req[r].loaded \in Row
    BY Fields DEF TypeOK
  <1> DEFINE a == row[req[r].target]  v == req[r].loaded.version + 1
  <1>2. v \in Nat
    BY <1>1 DEF Row
  <1>3. /\ [a EXCEPT !.version = v, !.active = FALSE] \in Row
        /\ [a EXCEPT !.version = v, !.active = TRUE] \in Row
        /\ [a EXCEPT !.version = v, !.blacklisted = TRUE] \in Row
        /\ [a EXCEPT !.version = v, !.blacklisted = FALSE] \in Row
        /\ [a EXCEPT !.version = v] \in Row
    BY <1>1, <1>2 DEF Row
  <1>4. [a EXCEPT !.version = @ + 1] \in Row
    BY <1>1 DEF Row
  <1>5. \A e \in Email : [a EXCEPT !.version = @ + 1, !.email = e] \in Row
    <2> TAKE e \in Email
    <2>1. a.version + 1 \in Nat
      BY <1>1 DEF Row
    <2>2. [[a EXCEPT !.version = a.version + 1] EXCEPT !.email = e] \in Row
      <3>1. [a EXCEPT !.version = a.version + 1] \in Row
        BY <1>1, <2>1 DEF Row
      <3>2. \A b \in Row : [b EXCEPT !.email = e] \in Row
        BY DEF Row
      <3> QED BY <3>1, <3>2
    <2> QED BY <2>2
  <1>6. req[r].op = "create" => Written(r) = req[r].loaded
    BY DEF Written
  <1>7. req[r].op \in StatusOp => Written(r) \in Row
    BY <1>3 DEF Written, StatusOp
  <1>8. req[r].op \in {"reset", "assign", "rename", "change_email"} => Written(r) \in Row
    <2>1. req[r].op \in {"reset", "assign", "rename"} => Written(r) \in Row
      BY <1>3, <1>4 DEF Written
    <2>2. req[r].op = "change_email" => Written(r) = [a EXCEPT !.version = @ + 1, !.email = req[r].email]
      BY DEF Written
    <2> QED BY <2>1, <2>2, <1>0, <1>5
  <1>9. req[r].op \notin StatusOp \cup {"reset", "assign", "rename", "change_email", "create"}
           => Written(r) = a
    BY DEF Written, StatusOp
  <1> QED BY <1>1, <1>6, <1>7, <1>8, <1>9

-----------------------------------------------------------------------------
(* What a step of one request leaves to the others *)

\* q keeps the locks it has.
Kept(q) == /\ \A u \in User : userLock[u] = q => userLock'[u] = q
           /\ \A x \in Role : roleLock[x] = q => roleLock'[x] = q
           /\ \A e \in Email : claim[e] = q => claim'[e] = q

\* Nobody loses a lock at the end of another's transaction.
LEMMA ReleaseKeeps ==
  ASSUME TypeOK, NEW r, NEW q, q # r, Release(r)
  PROVE  Kept(q)
  BY DEF Release, Without, Kept, TypeOK

\* Nothing that leaves the tables and q's locks alone disturbs what q relies on.
LEMMA Others ==
  ASSUME TypeOK, NEW q \in Req, RequestInv(q), Kept(q), UNCHANGED <<row, roles>>, req'[q] = req[q]
  PROVE  RequestInv(q)'
  <1>1. CallInv(q)'
    BY DEF RequestInv, CallInv, Exists
  <1>2. HoldInv(q)'
    <2>1. Holds(q)' <=> Holds(q)
      BY DEF Holds
    <2>2. Holds(q) => req[q].target \in User
      BY DEF Holds, RequestInv, CallInv
    <2> QED BY <2>1, <2>2 DEF RequestInv, HoldInv, Kept
  <1>3. LeavingInv(q)'
    BY UserAssumption DEF RequestInv, LeavingInv, Leaves, Kept, ActiveAdmins
  <1>4. ClaimInv(q)'
    BY DEF RequestInv, ClaimInv, Kept
  <1>5. NewInv(q)'
    BY DEF RequestInv, NewInv, Exists
  <1> QED BY <1>1, <1>2, <1>3, <1>4, <1>5 DEF RequestInv

\* The parts of the invariant about the tables alone
LEMMA TablesKept ==
  ASSUME IInv, UNCHANGED <<row, roles>>
  PROVE  RowInv' /\ AdminRemains' /\ EmailsUnique'
  BY DEF IInv, RowInv, AdminRemains, EmailsUnique, ActiveAdmins, Exists

\* A request that goes on with its target does not disturb NewTargets.
LEMMA TargetsKept ==
  ASSUME IInv, NEW r \in Req, NEW m, req' = [req EXCEPT ![r] = m],
         m.target = req[r].target, m.op = "create" => req[r].op = "create"
  PROVE  NewTargets'
  BY DEF IInv, NewTargets, TypeOK

\* A request that has ended relies on nothing and creates nothing.
LEMMA EndInv ==
  ASSUME IInv, NEW r \in Req, req' = [req EXCEPT ![r] = Idle]
  PROVE  NewTargets' /\ RequestInv(r)'
  <1> USE DEF IInv
  <1>1. NewTargets'
    <2> SUFFICES ASSUME NEW p \in Req, NEW q \in Req, p # q, req'[p].op = "create"
                 PROVE  req'[q].target # req'[p].target
      BY DEF NewTargets
    <2>1. p # r /\ req'[p] = req[p]
      BY DEF Idle, TypeOK
    <2>2. req[p].target \in User
      BY <2>1 DEF RequestInv, CallInv
    <2>3. CASE q = r
      BY <2>1, <2>2, <2>3, UserAssumption DEF Idle, TypeOK
    <2>4. CASE q # r
      BY <2>1, <2>4 DEF TypeOK, NewTargets
    <2> QED BY <2>3, <2>4
  <1>2. RequestInv(r)'
    BY DEF TypeOK, RequestInv, CallInv, HoldInv, Holds, LeavingInv, Leaves, ClaimInv, NewInv, Idle
  <1> QED BY <1>1, <1>2

\* Rolling back preserves the invariant.
LEMMA RollbackInv ==
  ASSUME IInv, NEW r \in Req, Rollback(r)
  PROVE  IInv'
  <1> USE DEF IInv
  <1>1. TypeOK'
    BY RollbackType
  <1>2. RowInv' /\ AdminRemains' /\ EmailsUnique'
    BY TablesKept DEF Rollback
  <1>3. req' = [req EXCEPT ![r] = Idle]
    BY DEF Rollback, Finish
  <1>4. NewTargets' /\ RequestInv(r)'
    BY <1>3, EndInv
  <1>5. ASSUME NEW q \in Req PROVE RequestInv(q)'
    <2>1. CASE q = r
      BY <1>4, <2>1
    <2>2. CASE q # r
      <3>1. Kept(q)
        BY <2>2, ReleaseKeeps DEF Rollback
      <3>2. req'[q] = req[q] /\ UNCHANGED <<row, roles>>
        BY <1>3, <2>2 DEF TypeOK, Rollback
      <3> QED BY <3>1, <3>2, Others
    <2> QED BY <2>1, <2>2
  <1> QED BY <1>1, <1>2, <1>4, <1>5

-----------------------------------------------------------------------------
(* A request that arrives *)

\* The requests that a client can cause are requests.
LEMMA CallTypes ==
  ASSUME TypeOK, NEW a \in User, NEW u \in User, NEW op \in Op
  PROVE  /\ Call(op, a, u) \in Request
         /\ [Call(op, a, u) EXCEPT !.pc = "lock"] \in Request
         /\ \A v \in Nat, want \in SUBSET Role :
               [Call(op, a, u) EXCEPT !.pc = "lock", !.version = v, !.want = want, !.todo = want] \in Request
         /\ \A v \in Nat, e \in Email \cup {NoEmail} :
               [[Call(op, a, u) EXCEPT !.version = v] EXCEPT !.pc = "update", !.email = e] \in Request
         /\ \A v \in Nat :
               [[Call(op, a, u) EXCEPT !.version = v] EXCEPT !.pc = "commit", !.op = "no_change"] \in Request
         /\ \A e \in Email, b \in Row :
               [Call(op, a, u) EXCEPT !.pc = "claim", !.email = e, !.loaded = b] \in Request
  <1>1. Call(op, a, u) \in Request
    <2>1. row[u] \in Row
      BY DEF TypeOK
    <2> QED BY <2>1, NullTypes DEF Call, Idle, Request
  <1> QED BY <1>1 DEF Request, Step

\* A new request m relies on nothing yet, and takes nothing from the others.
LEMMA Arrival ==
  ASSUME IInv, NEW r \in Req, NEW m \in Request, req' = [req EXCEPT ![r] = m],
         UNCHANGED <<row, roles, locks>>, NewTargets', RequestInv(r)'
  PROVE  IInv'
  <1> USE DEF IInv
  <1>1. TypeOK'
    BY DEF TypeOK, locks
  <1>2. RowInv' /\ AdminRemains' /\ EmailsUnique'
    BY TablesKept
  <1>3. ASSUME NEW q \in Req, q # r PROVE RequestInv(q)'
    <2>1. Kept(q)
      BY DEF Kept, locks
    <2>2. req'[q] = req[q]
      BY <1>3 DEF TypeOK
    <2> QED BY <2>1, <2>2, Others
  <1> QED BY <1>1, <1>2, <1>3

\* A request to a user that exists creates nothing, so it disturbs no creation.
LEMMA OldTarget ==
  ASSUME IInv, NEW r \in Req, NEW m, req' = [req EXCEPT ![r] = m],
         Exists(m.target), m.op # "create"
  PROVE  NewTargets'
  <1> SUFFICES ASSUME NEW p \in Req, NEW q \in Req, p # q, req'[p].op = "create"
               PROVE  req'[q].target # req'[p].target
    BY DEF NewTargets
  <1>1. p # r /\ req'[p] = req[p]
    BY DEF IInv, TypeOK
  <1>2. ~Exists(req[p].target)
    BY <1>1 DEF IInv, RequestInv, NewInv, CallInv
  <1>3. CASE q = r
    BY <1>1, <1>2, <1>3 DEF IInv, TypeOK
  <1>4. CASE q # r
    BY <1>1, <1>4 DEF IInv, TypeOK, NewTargets
  <1> QED BY <1>3, <1>4

\* Starting a request preserves the invariant.
LEMMA StartInv ==
  ASSUME IInv, NEW r \in Req, Start(r)
  PROVE  IInv'
  <1> USE DEF IInv
  <1>0. PICK a \in User, u \in User : \/ StartLocking(r, a, u) \/ StartAssign(r, a, u)
                                      \/ StartUpdate(r, a, u) \/ StartCreate(r, a, u)
    BY DEF Start
  <1>1. ASSUME Exists(u), UNCHANGED <<row, roles, locks>>, NEW op \in LockingOp, NEW m \in Request,
               m.pc = "lock", m.op = op, m.target = u, m.actor = a,
               a # u => m.loaded = Absent, req' = [req EXCEPT ![r] = m]
        PROVE  IInv'
    <2>1. req'[r] = m
      BY <1>1 DEF TypeOK
    <2>2. m.op \notin {"create", "change_email"}
      BY <1>1 DEF LockingOp, StatusOp
    <2>3. NewTargets'
      BY <1>1, <2>2, OldTarget
    <2>4. RequestInv(r)'
      BY <1>1, <2>1, <2>2 DEF RequestInv, CallInv, HoldInv, Holds, LeavingInv, Leaves, ClaimInv,
                              NewInv, Exists
    <2> QED BY <1>1, <2>3, <2>4, Arrival
  <1>2. CASE StartLocking(r, a, u)
    <2>1. PICK op \in Ops \cap (LockingOp \ {"assign"}) :
             req' = [req EXCEPT ![r] = [Call(op, a, u) EXCEPT !.pc = "lock"]]
      BY <1>2 DEF StartLocking
    <2> DEFINE m == [Call(op, a, u) EXCEPT !.pc = "lock"]
    <2>2. op \in Op /\ op \in LockingOp
      BY DEF Op
    <2>3. m \in Request
      BY <2>2, CallTypes
    <2>4. /\ m.pc = "lock" /\ m.op = op /\ m.target = u /\ m.actor = a
          /\ a # u => m.loaded = Absent
      BY DEF Call, Idle
    <2>5. Exists(u) /\ UNCHANGED <<row, roles, locks>>
      BY <1>2 DEF StartLocking
    <2> HIDE DEF m
    <2> QED BY <1>1, <2>1, <2>2, <2>3, <2>4, <2>5 DEF m
  <1>3. CASE StartAssign(r, a, u)
    <2>1. PICK want \in SUBSET Role, v \in 1 .. row[u].version :
             req' = [req EXCEPT ![r] = [Call("assign", a, u) EXCEPT
                        !.pc = "lock", !.version = v, !.want = want, !.todo = want]]
      BY <1>3 DEF StartAssign
    <2> DEFINE m == [Call("assign", a, u) EXCEPT
                        !.pc = "lock", !.version = v, !.want = want, !.todo = want]
    <2>2. "assign" \in Op /\ "assign" \in LockingOp
      BY DEF Op, LockingOp
    <2>3. row[u].version \in Nat
      BY DEF TypeOK, Row
    <2>4. m \in Request
      <3>1. v \in Nat
        BY <2>3
      <3> QED BY <2>2, <3>1, CallTypes
    <2>5. /\ m.pc = "lock" /\ m.op = "assign" /\ m.target = u /\ m.actor = a
          /\ a # u => m.loaded = Absent
      BY DEF Call, Idle
    <2>6. Exists(u) /\ UNCHANGED <<row, roles, locks>>
      BY <1>3 DEF StartAssign
    <2> HIDE DEF m
    <2> QED BY <1>1, <2>1, <2>2, <2>4, <2>5, <2>6 DEF m
  <1>4. CASE StartUpdate(r, a, u)
    <2>0. PICK op \in Ops \cap UpdateOp, e \in Email \cup {NoEmail}, v \in 1 .. row[u].version :
             /\ op = "change_email" => e \in Email
             /\ \/ req' = [req EXCEPT ![r] = [[Call(op, a, u) EXCEPT !.version = v]
                                                 EXCEPT !.pc = "update", !.email = e]]
                \/ req' = [req EXCEPT ![r] = [[Call(op, a, u) EXCEPT !.version = v]
                                                 EXCEPT !.pc = "commit", !.op = "no_change"]]
      BY <1>4 DEF StartUpdate
    <2>1. PICK m :
             /\ op = "change_email" => e \in Email
             /\ \/ m = [[Call(op, a, u) EXCEPT !.version = v] EXCEPT !.pc = "update", !.email = e]
                \/ m = [[Call(op, a, u) EXCEPT !.version = v] EXCEPT !.pc = "commit", !.op = "no_change"]
             /\ req' = [req EXCEPT ![r] = m]
      BY <2>0
    <2>2. op \in Op /\ v \in Nat
      BY DEF Op, TypeOK, Row
    <2>3. m \in Request
      <3>1. CASE m = [[Call(op, a, u) EXCEPT !.version = v] EXCEPT !.pc = "update", !.email = e]
        BY <3>1, <2>2, CallTypes
      <3>2. CASE m = [[Call(op, a, u) EXCEPT !.version = v] EXCEPT !.pc = "commit", !.op = "no_change"]
        BY <3>2, <2>2, CallTypes
      <3> QED BY <2>1, <3>1, <3>2
    <2>4. /\ m.target = u /\ m.actor = a
          /\ \/ m.pc = "update" /\ m.op \in UpdateOp /\ (m.op = "change_email" => m.email \in Email)
             \/ m.pc = "commit" /\ m.op = "no_change"
      BY <2>1 DEF Call, Idle
    <2>5. Exists(u) /\ UNCHANGED <<row, roles, locks>>
      BY <1>4 DEF StartUpdate
    <2>6. m.op # "create"
      BY <2>4 DEF UpdateOp
    <2>7. NewTargets'
      BY <2>1, <2>4, <2>5, <2>6, OldTarget
    <2>8. req'[r] = m
      BY <2>1 DEF TypeOK
    <2>9. RequestInv(r)'
      BY <2>4, <2>5, <2>6, <2>8 DEF RequestInv, CallInv, HoldInv, Holds, LeavingInv, Leaves,
                                    ClaimInv, NewInv, Exists
    <2> QED BY <2>1, <2>3, <2>5, <2>7, <2>9, Arrival
  <1>5. CASE StartCreate(r, a, u)
    <2>1. PICK e \in Email, active \in BOOLEAN :
             req' = [req EXCEPT ![r] =
                        [Call("create", a, u) EXCEPT
                            !.pc = "claim", !.email = e,
                            !.loaded = [email |-> e, active |-> active,
                                        blacklisted |-> FALSE, version |-> 1]]]
      BY <1>5 DEF StartCreate
    <2> DEFINE b == [email |-> e, active |-> active, blacklisted |-> FALSE, version |-> 1]
               m == [Call("create", a, u) EXCEPT !.pc = "claim", !.email = e, !.loaded = b]
    <2>2. b \in Row
      BY DEF Row
    <2>3. m \in Request
      BY <2>2, CallTypes DEF Op
    <2>4. /\ m.pc = "claim" /\ m.op = "create" /\ m.target = u /\ m.actor = a
          /\ m.email = e /\ m.loaded.email = e
      BY DEF Call, Idle
    <2>5. /\ ~Exists(u) /\ Exists(a) /\ UNCHANGED <<row, roles, locks>>
          /\ \A q \in Req : req[q].target # u
      BY <1>5 DEF StartCreate, Arrive
    <2> HIDE DEF m
    <2>6. req' = [req EXCEPT ![r] = m] /\ req'[r] = m
      BY <2>1 DEF TypeOK, m
    <2>7. NewTargets'
      BY <2>4, <2>5, <2>6 DEF NewTargets, TypeOK
    <2>8. RequestInv(r)'
      <3>1. a # u
        BY <2>5
      <3> QED BY <2>4, <2>5, <2>6, <3>1 DEF RequestInv, CallInv, HoldInv, Holds, LeavingInv, Leaves,
                                    ClaimInv, NewInv, Exists
    <2> QED BY <2>3, <2>5, <2>6, <2>7, <2>8, Arrival
  <1> QED BY <1>0, <1>2, <1>3, <1>4, <1>5

-----------------------------------------------------------------------------
(* A request that goes on before it commits *)

\* A step that takes locks nobody else has, and moves r on, disturbs nobody.
LEMMA GoesOn ==
  ASSUME IInv, NEW r \in Req, NEW m \in Request, req' = [req EXCEPT ![r] = m],
         m.target = req[r].target, m.op = "create" => req[r].op = "create",
         UNCHANGED <<row, roles>>,
         userLock' \in [User -> Req \cup {NoReq}],
         roleLock' \in [Role -> Req \cup {NoReq}],
         claim' \in [Email -> Req \cup {NoReq}],
         \A q \in Req : q # r => Kept(q),
         RequestInv(r)'
  PROVE  IInv'
  <1> USE DEF IInv
  <1>1. TypeOK'
    BY DEF TypeOK
  <1>2. RowInv' /\ AdminRemains' /\ EmailsUnique'
    BY TablesKept
  <1>3. NewTargets'
    BY TargetsKept
  <1>4. ASSUME NEW q \in Req, q # r PROVE RequestInv(q)'
    <2>1. req'[q] = req[q]
      BY <1>4 DEF TypeOK
    <2> QED BY <1>4, <2>1, Others
  <1> QED BY <1>1, <1>2, <1>3, <1>4

\* _lock_user preserves the invariant.
LEMMA LockUserInv ==
  ASSUME IInv, NEW r \in Req, LockUser(r)
  PROVE  IInv'
  <1> USE DEF IInv
  <1>1. CASE Rollback(r)
    BY <1>1, RollbackInv
  <1>2. CASE ~Refused(r) /\ UNCHANGED <<row, roles, roleLock, claim>>
             /\ userLock' = [userLock EXCEPT ![req[r].target] = r]
    <2>1. /\ req[r] \in Request /\ req[r].pc = "lock" /\ req[r].op \in LockingOp
          /\ req[r].target \in User /\ Exists(req[r].target)
          /\ userLock \in [User -> Req \cup {NoReq}]
      BY DEF LockUser, At, TypeOK, RequestInv, CallInv, LockingOp, StatusOp
    <2>2. userLock[req[r].target] \in {r, NoReq}
      BY <2>1 DEF LockUser, Granted, Blockers
    <2>3. \A q \in Req : q # r => Kept(q)
      BY <1>2, <2>1, <2>2, UserAssumption DEF Kept
    <2>4. userLock' \in [User -> Req \cup {NoReq}] /\ userLock'[req[r].target] = r
      BY <1>2, <2>1
    <2>5. roleLock' \in [Role -> Req \cup {NoReq}] /\ claim' \in [Email -> Req \cup {NoReq}]
      BY <1>2 DEF TypeOK
    <2>6. CASE NothingToDo(r) /\ req' = [req EXCEPT ![r].pc = "commit", ![r].op = "no_change"]
      <3> DEFINE m == [req[r] EXCEPT !.pc = "commit", !.op = "no_change"]
      <3>1. m \in Request
        BY <2>1, MoveTypes
      <3>2. m.pc = "commit" /\ m.op = "no_change" /\ m.target = req[r].target /\ m.actor = req[r].actor
        BY <2>1 DEF Request
      <3>3. req' = [req EXCEPT ![r] = m]
        BY <2>6 DEF TypeOK
      <3> HIDE DEF m
      <3>4. req'[r] = m
        BY <3>3 DEF TypeOK
      <3>5. RequestInv(r)'
        BY <1>2, <2>1, <3>2, <3>4 DEF RequestInv, CallInv, HoldInv, Holds, LeavingInv, Leaves, ClaimInv,
                          NewInv, Exists
      <3> QED BY <1>2, <2>3, <2>4, <2>5, <3>1, <3>2, <3>3, <3>5, GoesOn
    <2>7. CASE ~NothingToDo(r) /\
               req' = [req EXCEPT ![r].loaded = Loaded(r),
                                  ![r].pc = IF req[r].op = "assign" THEN "roles"
                                            ELSE IF NeedsGuard(r) THEN "guard" ELSE "commit"]
      <3> DEFINE next == IF req[r].op = "assign" THEN "roles"
                         ELSE IF NeedsGuard(r) THEN "guard" ELSE "commit"
                 m == [req[r] EXCEPT !.loaded = Loaded(r), !.pc = next]
      <3>1. Loaded(r) \in Row /\ next \in Step
        BY <2>1, Fields DEF Loaded, TypeOK, Step
      <3>2. m \in Request
        BY <2>1, <3>1, MoveTypes
      <3>3. /\ m.pc = next /\ m.op = req[r].op /\ m.target = req[r].target /\ m.actor = req[r].actor
            /\ m.loaded = Loaded(r)
        BY <2>1 DEF Request
      <3>4. req' = [req EXCEPT ![r] = m]
        BY <2>7 DEF TypeOK
      <3> HIDE DEF m
      <3>5. req'[r] = m
        BY <3>4 DEF TypeOK
      <3>6. CallInv(r)'
        <4>1. NeedsGuard(r) => req[r].op \in {"disable", "blacklist"}
          BY DEF NeedsGuard
        <4>2. req[r].op \in {"disable", "blacklist"} => req[r].actor # req[r].target
          BY <1>2 DEF Refused
        <4>3. req[r].actor \in User
          BY <2>1 DEF RequestInv, CallInv
        <4> QED BY <1>2, <2>1, <3>3, <3>5, <4>1, <4>2, <4>3 DEF CallInv, Exists
      <3>7. HoldInv(r)'
        <4>1. req[r].actor # req[r].target => Loaded(r) = row[req[r].target]
          BY <2>1 DEF Loaded, RequestInv, HoldInv
        <4> QED BY <1>2, <2>4, <3>3, <3>5, <4>1 DEF HoldInv, Holds
      <3>8. LeavingInv(r)'
        <4> SUFFICES ASSUME Leaves(r)' PROVE FALSE
          BY DEF LeavingInv
        <4>1. next = "commit" /\ req[r].op \in {"disable", "blacklist"} /\ ~NeedsGuard(r)
          BY <3>3, <3>5 DEF Leaves
        <4>2. req[r].target \in ActiveAdmins
          BY <1>2, <3>3, <3>5 DEF Leaves, ActiveAdmins
        <4>3. Loaded(r) = row[req[r].target]
          BY <1>2, <2>1, <4>1 DEF Loaded, RequestInv, HoldInv, Refused
        <4> QED BY <4>1, <4>2, <4>3 DEF NeedsGuard, ActiveAdmins
      <3>9. ClaimInv(r)' /\ NewInv(r)'
        BY <2>1, <3>3, <3>5 DEF ClaimInv, NewInv, LockingOp, StatusOp
      <3>10. RequestInv(r)'
        BY <3>6, <3>7, <3>8, <3>9 DEF RequestInv
      <3> QED BY <1>2, <2>3, <2>4, <2>5, <3>2, <3>3, <3>4, <3>10, GoesOn
    <2> QED BY <1>2, <2>6, <2>7 DEF LockUser
  <1> QED BY <1>1, <1>2 DEF LockUser

\* Locking the next role preserves the invariant.
LEMMA LockRoleInv ==
  ASSUME IInv, NEW r \in Req, LockRole(r)
  PROVE  IInv'
  <1> USE DEF IInv
  <1> DEFINE m == [req[r] EXCEPT !.todo = @ \ {NextRole(r)}]
  <1>1. req[r] \in Request /\ req[r].pc = "roles" /\ req[r].todo # {}
    BY DEF LockRole, At, TypeOK
  <1>2. m \in Request
    BY <1>1, MoveTypes
  <1>3. /\ m.pc = "roles" /\ m.op = req[r].op /\ m.target = req[r].target /\ m.actor = req[r].actor
        /\ m.loaded = req[r].loaded
    BY <1>1 DEF Request
  <1>4. req' = [req EXCEPT ![r] = m]
    BY DEF LockRole, TypeOK
  <1> HIDE DEF m
  <1>5. req'[r] = m
    BY <1>4 DEF TypeOK
  <1>6. ~\E q \in Req \ {r} : roleLock[NextRole(r)] = q
    BY <1>1 DEF LockRole, Granted, Blockers
  <1>7. /\ roleLock' = [roleLock EXCEPT ![NextRole(r)] = r]
        /\ UNCHANGED <<row, roles, userLock, claim>>
    BY DEF LockRole
  <1>8. \A q \in Req : q # r => Kept(q)
    BY <1>6, <1>7 DEF Kept, TypeOK
  <1>9. /\ userLock' \in [User -> Req \cup {NoReq}] /\ claim' \in [Email -> Req \cup {NoReq}]
        /\ roleLock' \in [Role -> Req \cup {NoReq}]
    BY <1>7 DEF TypeOK
  <1>10. RequestInv(r)'
    BY <1>1, <1>3, <1>5, <1>7 DEF RequestInv, CallInv, HoldInv, Holds, LeavingInv, Leaves, ClaimInv,
                                  NewInv, Exists
  <1> QED BY <1>2, <1>3, <1>4, <1>7, <1>8, <1>9, <1>10, GoesOn

\* Comparing the roles preserves the invariant.
LEMMA CompareInv ==
  ASSUME IInv, NEW r \in Req, Compare(r)
  PROVE  IInv'
  <1> USE DEF IInv
  <1>1. CASE Rollback(r)
    BY <1>1, RollbackInv
  <1>2. CASE /\ Goto(r, IF AdminRole \in roles[req[r].target] \ req[r].want THEN "guard" ELSE "commit")
             /\ UNCHANGED <<row, roles, locks>>
    <2> DEFINE next == IF AdminRole \in roles[req[r].target] \ req[r].want THEN "guard" ELSE "commit"
               m == [req[r] EXCEPT !.pc = next]
    <2>1. req[r] \in Request /\ req[r].pc = "roles" /\ next \in Step
      BY DEF Compare, At, TypeOK, Step
    <2>2. m \in Request
      BY <2>1, MoveTypes
    <2>3. /\ m.pc = next /\ m.op = req[r].op /\ m.target = req[r].target /\ m.actor = req[r].actor
          /\ m.loaded = req[r].loaded /\ m.want = req[r].want
      BY <2>1 DEF Request
    <2>4. req' = [req EXCEPT ![r] = m]
      BY <1>2 DEF Goto, TypeOK
    <2> HIDE DEF m
    <2>5. req'[r] = m
      BY <2>4 DEF TypeOK
    <2>6. req[r].op = "assign"
      BY <2>1 DEF RequestInv, CallInv
    <2>7. ~Leaves(r)'
      BY <1>2, <2>3, <2>5, <2>6 DEF Leaves, ActiveAdmins
    <2>8. RequestInv(r)'
      BY <1>2, <2>1, <2>3, <2>5, <2>6, <2>7
      DEF RequestInv, CallInv, HoldInv, Holds, LeavingInv, ClaimInv, NewInv, Exists, locks
    <2>9. \A q \in Req : q # r => Kept(q)
      BY <1>2 DEF Kept, locks
    <2> QED BY <1>2, <2>2, <2>3, <2>4, <2>8, <2>9, GoesOn DEF locks, TypeOK
  <1> QED BY <1>1, <1>2 DEF Compare

\* When more than one administrator can act, another than u can.
LEMMA AnotherAdmin ==
  ASSUME NEW u, Cardinality(ActiveAdmins) > 1
  PROVE  \E v \in ActiveAdmins : v # u
  <1> SUFFICES ASSUME \A v \in ActiveAdmins : v = u PROVE FALSE
    OBVIOUS
  <1>1. ActiveAdmins \subseteq {u}
    OBVIOUS
  <1>2. IsFiniteSet({u}) /\ Cardinality({u}) = 1
    BY FS_Singleton
  <1>3. Cardinality(ActiveAdmins) \in Nat /\ Cardinality(ActiveAdmins) <= 1
    BY <1>1, <1>2, FS_Subset, FS_CardinalityType
  <1> QED BY <1>3

\* The guard of the last administrator preserves the invariant: it is what makes
\* LeavingInv true.
LEMMA GuardInv ==
  ASSUME IInv, NEW r \in Req, Guard(r)
  PROVE  IInv'
  <1> USE DEF IInv
  <1>1. CASE Rollback(r)
    BY <1>1, RollbackInv
  <1>2. CASE /\ req[r].actor # req[r].target
             /\ Active(req[r].loaded) => Cardinality(ActiveAdmins) > 1
             /\ roleLock' = [roleLock EXCEPT ![AdminRole] = r]
             /\ Goto(r, "commit")
             /\ UNCHANGED <<row, roles, userLock, claim>>
    <2> DEFINE m == [req[r] EXCEPT !.pc = "commit"]
    <2>1. req[r] \in Request /\ req[r].pc = "guard"
      BY DEF Guard, At, TypeOK
    <2>2. m \in Request
      BY <2>1, MoveTypes DEF Step
    <2>3. /\ m.pc = "commit" /\ m.op = req[r].op /\ m.target = req[r].target /\ m.actor = req[r].actor
          /\ m.loaded = req[r].loaded /\ m.want = req[r].want
      BY <2>1 DEF Request
    <2>4. req' = [req EXCEPT ![r] = m]
      BY <1>2 DEF Goto, TypeOK
    <2> HIDE DEF m
    <2>5. req'[r] = m
      BY <2>4 DEF TypeOK
    <2>6. req[r].op \in {"disable", "blacklist", "assign"}
      BY <2>1 DEF RequestInv, CallInv
    <2>7. ~\E q \in Req \ {r} : roleLock[AdminRole] = q
      BY <2>1 DEF Guard, Granted, Blockers
    <2>8. \A q \in Req : q # r => Kept(q)
      BY <1>2, <2>7 DEF Kept, TypeOK
    <2>9. roleLock' \in [Role -> Req \cup {NoReq}] /\ roleLock'[AdminRole] = r
      BY <1>2, UserAssumption DEF TypeOK
    <2>10. LeavingInv(r)'
      <3> SUFFICES ASSUME Leaves(r)' PROVE \E v \in ActiveAdmins' : v # req'[r].target
        BY <2>9 DEF LeavingInv
      <3>1. req[r].target \in ActiveAdmins /\ ActiveAdmins' = ActiveAdmins
        BY <1>2, <2>3, <2>5 DEF Leaves, ActiveAdmins
      <3>2. req[r].loaded = row[req[r].target]
        BY <1>2, <2>1, <2>6 DEF RequestInv, HoldInv, Holds, LockingOp, StatusOp
      <3>3. Cardinality(ActiveAdmins) > 1
        BY <1>2, <3>1, <3>2 DEF ActiveAdmins
      <3> QED BY <2>3, <2>5, <3>1, <3>3, AnotherAdmin
    <2>11. CallInv(r)' /\ HoldInv(r)'
      BY <1>2, <2>1, <2>3, <2>5, <2>6
      DEF RequestInv, CallInv, HoldInv, Holds, Exists, LockingOp, StatusOp
    <2>12. ClaimInv(r)' /\ NewInv(r)'
      BY <2>3, <2>5, <2>6 DEF ClaimInv, NewInv
    <2>13. RequestInv(r)'
      BY <2>10, <2>11, <2>12 DEF RequestInv
    <2> QED BY <1>2, <2>2, <2>3, <2>4, <2>8, <2>9, <2>13, GoesOn DEF TypeOK
  <1> QED BY <1>1, <1>2 DEF Guard

\* The versioned UPDATE preserves the invariant.
LEMMA UpdateRowInv ==
  ASSUME IInv, NEW r \in Req, UpdateRow(r)
  PROVE  IInv'
  <1> USE DEF IInv
  <1>1. CASE Rollback(r)
    BY <1>1, RollbackInv
  <1>2. CASE /\ userLock' = [userLock EXCEPT ![req[r].target] = r]
             /\ Goto(r, IF req[r].op = "change_email" THEN "claim" ELSE "commit")
             /\ UNCHANGED <<row, roles, roleLock, claim>>
    <2> DEFINE next == IF req[r].op = "change_email" THEN "claim" ELSE "commit"
               m == [req[r] EXCEPT !.pc = next]
    <2>1. req[r] \in Request /\ req[r].pc = "update" /\ next \in Step
      BY DEF UpdateRow, At, TypeOK, Step
    <2>2. m \in Request
      BY <2>1, MoveTypes
    <2>3. /\ m.pc = next /\ m.op = req[r].op /\ m.target = req[r].target /\ m.actor = req[r].actor
          /\ m.loaded = req[r].loaded /\ m.email = req[r].email
      BY <2>1 DEF Request
    <2>4. req' = [req EXCEPT ![r] = m]
      BY <1>2 DEF Goto, TypeOK
    <2> HIDE DEF m
    <2>5. req'[r] = m
      BY <2>4 DEF TypeOK
    <2>6. req[r].op \in {"rename", "change_email"} /\ req[r].target \in User
      BY <2>1 DEF RequestInv, CallInv, UpdateOp
    <2>7. ~\E q \in Req \ {r} : userLock[req[r].target] = q
      BY <2>1 DEF UpdateRow, Granted, Blockers
    <2>8. \A q \in Req : q # r => Kept(q)
      BY <1>2, <2>7 DEF Kept, TypeOK
    <2>9. userLock' \in [User -> Req \cup {NoReq}] /\ userLock'[req[r].target] = r
      BY <1>2, <2>6 DEF TypeOK
    <2>10. CallInv(r)' /\ HoldInv(r)' /\ LeavingInv(r)' /\ NewInv(r)'
      BY <1>2, <2>1, <2>3, <2>5, <2>6, <2>9
      DEF RequestInv, CallInv, HoldInv, Holds, Exists, LockingOp, StatusOp, LeavingInv, Leaves, NewInv
    <2>11. ClaimInv(r)'
      BY <2>1, <2>3, <2>5, <2>6 DEF RequestInv, ClaimInv
    <2>13. RequestInv(r)'
      BY <2>10, <2>11 DEF RequestInv
    <2> QED BY <1>2, <2>2, <2>3, <2>4, <2>8, <2>9, <2>13, GoesOn DEF TypeOK
  <1> QED BY <1>1, <1>2 DEF UpdateRow

\* The unique index preserves the invariant: it is what makes ClaimInv true.
LEMMA ClaimEmailInv ==
  ASSUME IInv, NEW r \in Req, ClaimEmail(r)
  PROVE  IInv'
  <1> USE DEF IInv
  <1>1. CASE Rollback(r)
    BY <1>1, RollbackInv
  <1>2. CASE /\ \A v \in User \ {req[r].target} : row[v].email # req[r].email
             /\ claim' = [claim EXCEPT ![req[r].email] = r]
             /\ Goto(r, "commit")
             /\ UNCHANGED <<row, roles, userLock, roleLock>>
    <2> DEFINE m == [req[r] EXCEPT !.pc = "commit"]
    <2>1. req[r] \in Request /\ req[r].pc = "claim"
      BY DEF ClaimEmail, At, TypeOK
    <2>2. m \in Request
      BY <2>1, MoveTypes DEF Step
    <2>3. /\ m.pc = "commit" /\ m.op = req[r].op /\ m.target = req[r].target /\ m.actor = req[r].actor
          /\ m.loaded = req[r].loaded /\ m.email = req[r].email
      BY <2>1 DEF Request
    <2>4. req' = [req EXCEPT ![r] = m]
      BY <1>2 DEF Goto, TypeOK
    <2> HIDE DEF m
    <2>5. req'[r] = m
      BY <2>4 DEF TypeOK
    <2>6. req[r].op \in {"create", "change_email"} /\ req[r].email \in Email
      BY <2>1 DEF RequestInv, CallInv, ClaimInv
    <2>7. ~\E q \in Req \ {r} : claim[req[r].email] = q
      BY <2>1 DEF ClaimEmail, Granted, Blockers, Contends
    <2>8. \A q \in Req : q # r => Kept(q)
      BY <1>2, <2>7 DEF Kept, TypeOK
    <2>9. claim' \in [Email -> Req \cup {NoReq}] /\ claim'[req[r].email] = r
      BY <1>2, <2>6 DEF TypeOK
    <2>10. CallInv(r)' /\ HoldInv(r)' /\ LeavingInv(r)' /\ NewInv(r)'
      BY <1>2, <2>1, <2>3, <2>5, <2>6
      DEF RequestInv, CallInv, HoldInv, Holds, Exists, LockingOp, StatusOp, LeavingInv, Leaves, NewInv
    <2>11. ClaimInv(r)'
      BY <1>2, <2>3, <2>5, <2>6, <2>9 DEF ClaimInv
    <2>12. RequestInv(r)'
      BY <2>10, <2>11 DEF RequestInv
    <2> QED BY <1>2, <2>2, <2>3, <2>4, <2>8, <2>9, <2>12, GoesOn DEF TypeOK
  <1> QED BY <1>1, <1>2 DEF ClaimEmail

-----------------------------------------------------------------------------
(* A request that commits *)

\* Who commits has a target; the rows it writes are the target's.
LEMMA CommitEffect ==
  ASSUME IInv, NEW r \in Req, Commit(r)
  PROVE  /\ req[r].pc = "commit" /\ req[r].target \in User
         /\ row' = [row EXCEPT ![req[r].target] = Written(r)]
         /\ row'[req[r].target] = Written(r)
         /\ \A v \in User : v # req[r].target => row'[v] = row[v] /\ roles'[v] = roles[v]
         /\ roles'[req[r].target] = IF req[r].op = "assign" THEN req[r].want ELSE roles[req[r].target]
         /\ req' = [req EXCEPT ![r] = Idle]
         /\ TypeOK'
  <1> USE DEF IInv
  <1>1. req[r].pc = "commit" /\ req[r].target \in User
    BY DEF Commit, At, RequestInv, CallInv
  <1>2. /\ row' = [row EXCEPT ![req[r].target] = Written(r)]
        /\ roles' = [roles EXCEPT ![req[r].target] = WrittenRoles(r)]
        /\ Release(r) /\ req' = [req EXCEPT ![r] = Idle]
    BY DEF Commit, Finish
  <1>3. req[r].op = "change_email" => req[r].email \in Email
    BY DEF RequestInv, ClaimInv
  <1>4. Written(r) \in Row
    BY <1>1, <1>3, WrittenType
  <1>5. req[r].want \in SUBSET Role
    BY Fields DEF TypeOK
  <1>6. TypeOK'
    <2>1. row' \in [User -> Row] /\ roles' \in [User -> SUBSET Role]
      <3>1. row' \in [User -> Row]
        BY <1>1, <1>2, <1>4 DEF TypeOK
      <3>2. WrittenRoles(r) \in SUBSET Role
        BY <1>1, <1>5 DEF WrittenRoles, TypeOK
      <3> QED BY <1>1, <1>2, <3>1, <3>2 DEF TypeOK
    <2>2. /\ userLock' \in [User -> Req \cup {NoReq}] /\ roleLock' \in [Role -> Req \cup {NoReq}]
          /\ claim' \in [Email -> Req \cup {NoReq}]
      BY <1>2, WithoutType DEF TypeOK, Release
    <2>3. req' \in [Req -> Request]
      BY <1>2, NullTypes DEF TypeOK
    <2> QED BY <2>1, <2>2, <2>3 DEF TypeOK
  <1> QED BY <1>1, <1>2, <1>6 DEF TypeOK, WrittenRoles

\* The e-mail of the row a transaction writes
LEMMA WrittenEmail ==
  ASSUME IInv, NEW r \in Req, req[r].target \in User
  PROVE  /\ req[r].op \in {"create", "change_email"} => Written(r).email = req[r].email
         /\ req[r].op \notin {"create", "change_email"} => Written(r).email = row[req[r].target].email
  <1> USE DEF IInv
  <1> DEFINE a == row[req[r].target]  v == req[r].loaded.version + 1
  <1>0. a \in Row
    BY DEF TypeOK
  <1>1. req[r].op = "create" => Written(r).email = req[r].email
    <2>1. req[r].op = "create" => req[r].pc # "idle"
      BY DEF RequestInv, CallInv
    <2>2. req[r].op = "create" => Written(r) = req[r].loaded
      BY DEF Written
    <2> QED BY <2>1, <2>2 DEF RequestInv, NewInv
  <1>2. req[r].op = "change_email" => Written(r).email = req[r].email
    <2>1. req[r].op = "change_email" =>
             Written(r) = [a EXCEPT !.version = @ + 1, !.email = req[r].email]
      BY DEF Written
    <2> QED BY <1>0, <2>1 DEF Row
  <1>3. req[r].op \in StatusOp => Written(r).email = a.email
    BY <1>0 DEF Written, StatusOp, Row
  <1>4. req[r].op \in {"reset", "assign", "rename"} => Written(r).email = a.email
    BY <1>0 DEF Written, Row
  <1>5. req[r].op \notin StatusOp \cup {"reset", "assign", "rename", "change_email", "create"}
           => Written(r) = a
    BY DEF Written, StatusOp
  <1> QED BY <1>1, <1>2, <1>3, <1>4, <1>5 DEF StatusOp

\* Only disabling and blacklisting take an active user away.
LEMMA WrittenActive ==
  ASSUME IInv, NEW r \in Req, req[r].target \in User, Active(row[req[r].target]),
         req[r].op \notin {"create", "disable", "blacklist"}
  PROVE  Active(Written(r))
  <1> USE DEF IInv
  <1> DEFINE a == row[req[r].target]
  <1>0. a \in Row
    BY DEF TypeOK
  <1>1. CASE req[r].op \in {"enable", "recover"}
    <2>1. /\ req[r].op = "enable" => Written(r).blacklisted = a.blacklisted /\ Written(r).active = TRUE
          /\ req[r].op = "recover" => Written(r).active = a.active /\ Written(r).blacklisted = FALSE
      BY <1>0 DEF Written, Row
    <2> QED BY <1>1, <2>1 DEF Active
  <1>2. CASE req[r].op \in {"reset", "assign", "rename", "change_email"}
    <2>1. Written(r).active = a.active /\ Written(r).blacklisted = a.blacklisted
      BY <1>0, <1>2 DEF Written, Row
    <2> QED BY <2>1 DEF Active
  <1>3. CASE req[r].op \notin StatusOp \cup {"reset", "assign", "rename", "change_email", "create"}
    <2>1. Written(r) = a
      BY <1>3 DEF Written, StatusOp
    <2> QED BY <2>1
  <1> QED BY <1>1, <1>2, <1>3 DEF StatusOp

\* After a commit the target's row exists, with the e-mail it had or a claimed one.
LEMMA CommitEmail ==
  ASSUME IInv, NEW r \in Req, Commit(r)
  PROVE  /\ row'[req[r].target].email # NoEmail
         /\ \/ row'[req[r].target].email = row[req[r].target].email
            \/ /\ row'[req[r].target].email = req[r].email /\ claim[req[r].email] = r
               /\ \A v \in User : v # req[r].target => row[v].email # req[r].email
  <1> USE DEF IInv
  <1> DEFINE u == req[r].target
  <1>1. req[r].pc = "commit" /\ u \in User /\ row'[u] = Written(r)
    BY CommitEffect
  <1>2. CASE req[r].op \in {"create", "change_email"}
    <2>1. row'[u].email = req[r].email
      BY <1>1, <1>2, WrittenEmail
    <2> QED BY <1>1, <1>2, <2>1, UserAssumption DEF RequestInv, ClaimInv, Exists
  <1>3. CASE req[r].op \notin {"create", "change_email"}
    <2>1. row'[u].email = row[u].email
      BY <1>1, <1>3, WrittenEmail
    <2> QED BY <1>1, <1>3, <2>1 DEF RequestInv, CallInv, Exists
  <1> QED BY <1>2, <1>3

\* Only a transaction that was about to remove an active administrator does so.
LEMMA CommitAdmins ==
  ASSUME IInv, NEW r \in Req, Commit(r), NEW v \in ActiveAdmins,
         v # req[r].target \/ ~Leaves(r)
  PROVE  v \in ActiveAdmins'
  <1> USE DEF IInv
  <1>1. CASE v # req[r].target
    BY <1>1, CommitEffect DEF ActiveAdmins
  <1>2. CASE v = req[r].target /\ ~Leaves(r)
    <2>1. req[r].pc = "commit" /\ v \in User /\ row'[v] = Written(r)
      BY <1>2, CommitEffect
    <2>2. Exists(v)
      <3>1. row[v] # Absent
        BY DEF ActiveAdmins, Active, Absent
      <3> QED BY <3>1 DEF RowInv, ActiveAdmins
    <2>3. req[r].op \notin {"create", "disable", "blacklist"}
      BY <1>2, <2>1, <2>2 DEF Leaves, RequestInv, NewInv
    <2>4. Active(Written(r))
      BY <1>2, <2>3, WrittenActive DEF ActiveAdmins
    <2>5. AdminRole \in roles'[v]
      BY <1>2, <2>1, CommitEffect DEF Leaves, ActiveAdmins
    <2>6. Active(row'[v])
      BY <2>1, <2>4
    <2> QED BY <2>1, <2>5, <2>6 DEF ActiveAdmins
  <1> QED BY <1>1, <1>2

\* A commit writes nothing that another request holds.
LEMMA CommitApart ==
  ASSUME IInv, NEW r \in Req, Commit(r), NEW q \in Req, q # r, Holds(q)
  PROVE  row'[req[q].target] = row[req[q].target] /\ roles'[req[q].target] = roles[req[q].target]
  <1> USE DEF IInv
  <1>1. /\ req[r].pc = "commit" /\ req[q].target \in User
        /\ req[q].pc # "idle" /\ req[q].op # "create"
    BY CommitEffect DEF Holds, RequestInv, CallInv
  <1>2. CASE req[q].target # req[r].target
    BY <1>1, <1>2, CommitEffect
  <1>3. CASE req[q].target = req[r].target
    <2>1. req[r].op # "create"
      BY <1>3 DEF NewTargets
    <2>2. req[r].op = "no_change"
      BY <1>1, <1>3, <2>1 DEF RequestInv, HoldInv, Holds
    <2>3. Written(r) = row[req[r].target]
      BY <2>2 DEF Written
    <2> QED BY <1>3, <2>2, <2>3, CommitEffect
  <1> QED BY <1>2, <1>3

\* A commit preserves what the other requests rely on.
LEMMA CommitOthers ==
  ASSUME IInv, NEW r \in Req, Commit(r), NEW q \in Req, q # r
  PROVE  RequestInv(q)'
  <1> USE DEF IInv
  <1>1. Kept(q)
    BY ReleaseKeeps DEF Commit
  <1>2. req'[q] = req[q]
    BY CommitEffect DEF TypeOK
  <1>3. req[q] \in Request /\ TypeOK'
    BY CommitEffect DEF TypeOK
  <1>4. \A v \in User : row[v].email # NoEmail => row'[v].email # NoEmail
    BY CommitEmail, CommitEffect
  <1>5. Holds(q)' <=> Holds(q)
    BY <1>2 DEF Holds
  <1>6. CallInv(q)'
    BY <1>2, <1>4 DEF RequestInv, CallInv, Exists
  <1>7. HoldInv(q)'
    <2>1. Holds(q) => req[q].target \in User
      BY DEF Holds, RequestInv, CallInv
    <2>2. Holds(q) => userLock'[req[q].target] = q
      BY <1>1, <2>1 DEF Kept, RequestInv, HoldInv
    <2>3. Holds(q) => row'[req[q].target] = row[req[q].target]
      BY CommitApart
    <2> QED BY <1>2, <1>5, <2>2, <2>3 DEF RequestInv, HoldInv
  <1>8. LeavingInv(q)'
    <2> SUFFICES ASSUME Leaves(q)'
                 PROVE  /\ roleLock'[AdminRole] = q
                        /\ \E v \in ActiveAdmins' : v # req[q].target
      BY <1>2 DEF LeavingInv
    <2>1. Holds(q)
      BY <1>2 DEF Leaves, Holds
    <2>2. req[q].target \in User
      BY <2>1 DEF Holds, RequestInv, CallInv
    <2>3. row'[req[q].target] = row[req[q].target] /\ roles'[req[q].target] = roles[req[q].target]
      BY <2>1, CommitApart
    <2>4. Leaves(q)
      BY <1>2, <2>2, <2>3 DEF Leaves, ActiveAdmins
    <2>5. PICK v \in ActiveAdmins : v # req[q].target
      BY <2>4 DEF RequestInv, LeavingInv
    <2>6. roleLock[AdminRole] = q
      BY <2>4 DEF RequestInv, LeavingInv
    <2>7. ~Leaves(r)
      BY <2>6 DEF RequestInv, LeavingInv
    <2>8. v \in ActiveAdmins'
      BY <2>7, CommitAdmins
    <2> QED BY <1>1, <2>5, <2>6, <2>8, UserAssumption DEF Kept
  <1>9. ClaimInv(q)'
    <2> SUFFICES ASSUME req[q].op \in {"create", "change_email"}, req[q].pc = "commit"
                 PROVE  /\ claim'[req[q].email] = q
                        /\ \A v \in User : v # req[q].target => row'[v].email # req[q].email
      BY <1>2 DEF RequestInv, ClaimInv
    <2>1. /\ req[q].email \in Email /\ claim[req[q].email] = q
          /\ \A v \in User : v # req[q].target => row[v].email # req[q].email
      BY DEF RequestInv, ClaimInv
    <2>2. claim'[req[q].email] = q
      BY <1>1, <2>1 DEF Kept
    <2>3. ASSUME NEW v \in User, v # req[q].target PROVE row'[v].email # req[q].email
      <3>1. CASE v # req[r].target
        BY <2>1, <2>3, <3>1, CommitEffect
      <3>2. CASE v = req[r].target
        BY <2>1, <2>3, <3>2, CommitEmail
      <3> QED BY <3>1, <3>2
    <2> QED BY <2>2, <2>3
  <1>10. NewInv(q)'
    <2> SUFFICES ASSUME req[q].op = "create", req[q].pc # "idle"
                 PROVE  ~Exists(req[q].target)' /\ req[q].loaded.email = req[q].email
      BY <1>2 DEF NewInv, Exists
    <2>1. req[q].target # req[r].target /\ req[q].target \in User
      BY DEF NewTargets, RequestInv, CallInv
    <2>2. row'[req[q].target] = row[req[q].target]
      BY <2>1, CommitEffect
    <2> QED BY <1>2, <2>2 DEF RequestInv, NewInv, Exists
  <1> QED BY <1>6, <1>7, <1>8, <1>9, <1>10 DEF RequestInv

\* A commit preserves the invariant.
LEMMA CommitInv ==
  ASSUME IInv, NEW r \in Req, Commit(r)
  PROVE  IInv'
  <1> USE DEF IInv
  <1>1. TypeOK'
    BY CommitEffect
  <1>2. RowInv'
    BY CommitEmail, CommitEffect DEF RowInv, Exists
  <1>3. AdminRemains'
    <2>1. CASE Leaves(r)
      <3>1. PICK v \in ActiveAdmins : v # req[r].target
        BY <2>1 DEF RequestInv, LeavingInv
      <3>2. v \in ActiveAdmins'
        BY <3>1, CommitAdmins
      <3> QED BY <3>2 DEF AdminRemains
    <2>2. CASE ~Leaves(r)
      <3>1. PICK v \in ActiveAdmins : TRUE
        BY DEF AdminRemains
      <3>2. v \in ActiveAdmins'
        BY <2>2, CommitAdmins
      <3> QED BY <3>2 DEF AdminRemains
    <2> QED BY <2>1, <2>2
  <1>4. EmailsUnique'
    <2> SUFFICES ASSUME NEW v \in User, NEW w \in User, v # w, Exists(v)'
                 PROVE  row'[v].email # row'[w].email
      BY DEF EmailsUnique
    <2>1. CASE v # req[r].target /\ w # req[r].target
      BY <2>1, CommitEffect DEF EmailsUnique, Exists
    <2>2. CASE w = req[r].target
      BY <2>2, CommitEffect, CommitEmail DEF EmailsUnique, Exists
    <2>3. CASE v = req[r].target
      BY <2>3, CommitEffect, CommitEmail DEF EmailsUnique, Exists
    <2> QED BY <2>1, <2>2, <2>3
  <1>5. NewTargets' /\ RequestInv(r)'
    BY CommitEffect, EndInv
  <1>6. \A q \in Req : q # r => RequestInv(q)'
    BY CommitOthers
  <1> QED BY <1>1, <1>2, <1>3, <1>4, <1>5, <1>6

-----------------------------------------------------------------------------
(* The theorems *)

\* The invariant holds initially.
LEMMA InitInv == Init => IInv
  <1> SUFFICES ASSUME Init PROVE IInv
    OBVIOUS
  <1>1. PICK e \in [Founder -> Email] :
           /\ \A u, v \in Founder : u # v => e[u] # e[v]
           /\ row = [u \in User |-> IF u \in Founder
                                    THEN [email |-> e[u], active |-> TRUE,
                                          blacklisted |-> FALSE, version |-> 1]
                                    ELSE Absent]
    BY DEF Init
  <1>2. row \in [User -> Row]
    <2>1. \A u \in Founder : [email |-> e[u], active |-> TRUE, blacklisted |-> FALSE, version |-> 1] \in Row
      BY DEF Row
    <2> QED BY <1>1, <2>1, NullTypes
  <1>3. TypeOK
    BY <1>2, NullTypes DEF Init, TypeOK
  <1>4. \A u \in User : IF u \in Founder THEN row[u].email = e[u] ELSE row[u] = Absent
    BY <1>1
  <1>5. RowInv /\ EmailsUnique
    BY <1>1, <1>4, UserAssumption DEF RowInv, EmailsUnique, Exists, Absent
  <1>6. AdminRemains
    BY DEF Init, AdminRemains
  <1>7. \A r \in Req : req[r] = Idle
    BY DEF Init
  <1>8. NewTargets
    BY <1>7 DEF NewTargets, Idle
  <1>9. \A r \in Req : RequestInv(r)
    BY <1>7 DEF RequestInv, CallInv, HoldInv, Holds, LeavingInv, Leaves, ClaimInv, NewInv, Idle
  <1> QED BY <1>3, <1>5, <1>6, <1>8, <1>9 DEF IInv

\* Every step preserves the invariant.
LEMMA NextInv == IInv /\ [Next]_vars => IInv'
  <1> SUFFICES ASSUME IInv, [Next]_vars PROVE IInv'
    OBVIOUS
  <1>1. CASE UNCHANGED vars
    BY <1>1 DEF vars, IInv, TypeOK, RowInv, AdminRemains, ActiveAdmins, EmailsUnique, NewTargets,
                RequestInv, CallInv, HoldInv, Holds, LeavingInv, Leaves, ClaimInv, NewInv, Exists
  <1>2. ASSUME NEW r \in Req, Start(r) PROVE IInv'
    BY <1>2, StartInv
  <1>3. ASSUME NEW r \in Req, Proceed(r) PROVE IInv'
    BY <1>3, LockUserInv, LockRoleInv, CompareInv, GuardInv, UpdateRowInv, ClaimEmailInv, CommitInv
    DEF Proceed
  <1>4. ASSUME NEW r \in Req, Abort(r) \/ BreakDeadlock(r) PROVE IInv'
    BY <1>4, RollbackInv DEF Abort, BreakDeadlock
  <1> QED BY <1>1, <1>2, <1>3, <1>4 DEF Next

\* The invariant is inductive: what a request relies on between taking its locks
\* and committing holds in every reachable state.
THEOREM Inductive == Spec => []IInv
  BY InitInv, NextInv, PTL DEF Spec

\* Rows, locks and requests always have the shapes the code gives them.
THEOREM TypeCorrect == Spec => []TypeOK
  <1>1. IInv => TypeOK
    BY DEF IInv
  <1> QED BY Inductive, <1>1, PTL

\* However many administrators disable, blacklist and demote each other at the same
\* time, one who can act remains: the lock on the admin role orders the counts of
\* _ensure_can_remove_admin.
THEOREM AdminAlwaysRemains == Spec => []AdminRemains
  <1>1. IInv => AdminRemains
    BY DEF IInv
  <1> QED BY Inductive, <1>1, PTL

\* No two users ever have the same e-mail, whatever create_user and update_user saw
\* when they looked.
THEOREM EmailsStayUnique == Spec => []EmailsUnique
  <1>1. IInv => EmailsUnique
    BY DEF IInv
  <1> QED BY Inductive, <1>1, PTL

\* A version written is one more than that of the row, or of the copy loaded.
LEMMA WrittenVersion ==
  ASSUME IInv, NEW r \in Req, req[r].target \in User, req[r].op \in WritingOp,
         req[r].op \in LockingOp => req[r].loaded = row[req[r].target]
  PROVE  Written(r).version = row[req[r].target].version + 1
  <1> DEFINE a == row[req[r].target]
  <1>0. a \in Row
    BY DEF IInv, TypeOK
  <1>1. CASE req[r].op \in StatusOp
    BY <1>0, <1>1 DEF Written, StatusOp, LockingOp, Row
  <1>2. CASE req[r].op \in {"reset", "assign"}
    BY <1>0, <1>2 DEF Written, LockingOp, Row
  <1>3. CASE req[r].op \in {"rename", "change_email"}
    BY <1>0, <1>3 DEF Written, Row
  <1> QED BY <1>1, <1>2, <1>3 DEF WritingOp, Op, LockingOp, UpdateOp

\* A change that somebody else makes to a user advances the version by exactly one:
\* the copy the request loaded under the row lock is still fresh when it commits.
THEOREM VersionsOfOthers == Spec => OthersAdvanceVersion
  <1>1. ASSUME IInv, NEW r \in Req, Commit(r), req[r].op \in WritingOp,
               req[r].actor # req[r].target
        PROVE  row'[req[r].target].version = row[req[r].target].version + 1
    <2>1. req[r].pc = "commit" /\ req[r].target \in User /\ row'[req[r].target] = Written(r)
      BY <1>1, CommitEffect
    <2>2. Holds(r)
      BY <1>1, <2>1 DEF Holds, WritingOp, Op, LockingOp, UpdateOp, StatusOp
    <2>3. req[r].op \in LockingOp => req[r].loaded = row[req[r].target]
      BY <1>1, <2>2 DEF IInv, RequestInv, HoldInv
    <2> QED BY <1>1, <2>1, <2>3, WrittenVersion
  <1>2. IInv => [\A r \in Req :
                    Commit(r) /\ req[r].op \in WritingOp /\ req[r].actor # req[r].target =>
                       row'[req[r].target].version = row[req[r].target].version + 1]_vars
    BY <1>1
  <1> QED BY Inductive, <1>2, PTL DEF OthersAdvanceVersion

\* Only a commit changes the tables.
LEMMA OnlyCommits ==
  ASSUME [Next]_vars
  PROVE  UNCHANGED <<row, roles>> \/ \E r \in Req : Commit(r)
  <1>1. ASSUME NEW r \in Req, Start(r) PROVE UNCHANGED <<row, roles>>
    BY <1>1 DEF Start, StartLocking, StartAssign, StartUpdate, StartCreate
  <1>2. ASSUME NEW r \in Req, Proceed(r), ~Commit(r) PROVE UNCHANGED <<row, roles>>
    BY <1>2 DEF Proceed, LockUser, LockRole, Compare, Guard, UpdateRow, ClaimEmail, Rollback
  <1>3. ASSUME NEW r \in Req, Abort(r) \/ BreakDeadlock(r) PROVE UNCHANGED <<row, roles>>
    BY <1>3 DEF Abort, BreakDeadlock, Rollback
  <1> QED BY <1>1, <1>2, <1>3 DEF Next, vars

\* User administration implements AdminRoster: administrators come and go one at a
\* time, and the last one never goes.
THEOREM RosterImplemented == Spec => RosterRefined
  <1>1. Init => Roster!Init
    BY DEF Init, Roster!Init, ActiveAdmins
  <1>2. ASSUME IInv, [Next]_vars PROVE [Roster!Next]_ActiveAdmins
    <2>1. CASE UNCHANGED <<row, roles>>
      BY <2>1 DEF ActiveAdmins
    <2>2. ASSUME NEW r \in Req, Commit(r) PROVE [Roster!Next]_ActiveAdmins
      <3>1. req[r].target \in User
        BY <1>2, <2>2, CommitEffect
      <3>2. \A v \in User : v # req[r].target => (v \in ActiveAdmins' <=> v \in ActiveAdmins)
        BY <1>2, <2>2, CommitEffect DEF ActiveAdmins
      <3>3. ActiveAdmins \subseteq User /\ ActiveAdmins' \subseteq User
        BY DEF ActiveAdmins
      <3>4. ActiveAdmins' # {}
        BY <1>2, NextInv DEF IInv, AdminRemains
      <3>5. CASE req[r].target \in ActiveAdmins' /\ req[r].target \notin ActiveAdmins
        <4>1. ActiveAdmins' = ActiveAdmins \cup {req[r].target}
          BY <3>1, <3>2, <3>3, <3>5
        <4> QED BY <3>1, <3>5, <4>1 DEF Roster!Next, Roster!Join
      <3>6. CASE req[r].target \notin ActiveAdmins' /\ req[r].target \in ActiveAdmins
        <4>1. ActiveAdmins' = ActiveAdmins \ {req[r].target}
          BY <3>1, <3>2, <3>3, <3>6
        <4> QED BY <3>1, <3>4, <3>6, <4>1 DEF Roster!Next, Roster!Leave
      <3>7. CASE req[r].target \in ActiveAdmins' <=> req[r].target \in ActiveAdmins
        <4>1. ActiveAdmins' = ActiveAdmins
          BY <3>2, <3>3, <3>7
        <4> QED BY <4>1
      <3> QED BY <3>5, <3>6, <3>7
    <2> QED BY <1>2, <2>1, <2>2, OnlyCommits
  <1>3. Spec => Roster!Init /\ [][Roster!Next]_ActiveAdmins
    BY Inductive, <1>1, <1>2, PTL DEF Spec
  <1> QED BY <1>3 DEF RosterRefined, Roster!Spec
=============================================================================
