------------------------ MODULE EmailChallenge_proofs ------------------------
(***************************************************************************)
(* Proofs about EmailChallenge, for any limits, windows, addresses, codes  *)
(* and requests.  The invariant says what a registration or a reset may    *)
(* rely on once its code is spent and its locks are taken.                 *)
(***************************************************************************)
EXTENDS EmailChallenge, FiniteSetTheorems, TLAPS

\* Which operation is at which step, and with what.
ShapeInv(r) ==
    /\ req[r].pc = "limits" => req[r].op \in SendOp /\ req[r].ip \in Host
    /\ req[r].pc = "store" => req[r].op \in SendOp
    /\ req[r].pc \in {"mail", "discard"} => req[r].id \in Id
    /\ req[r].pc \notin {"idle", "mail", "discard"} => req[r].email \in Email
    /\ req[r].pc = "consume" => req[r].op \in UseOp
    /\ req[r].pc = "lock" => req[r].op \in {"reset", "switch"}
    /\ req[r].pc \in {"role", "load", "login"} => req[r].op = "register"
    /\ req[r].pc \in {"look", "flush"} => req[r].op \in {"register", "create"}
    /\ req[r].pc = "commit" => req[r].op \in {"register", "create", "reset", "switch"}
    /\ req[r].pc # "idle" /\ req[r].op \in UseOp => req[r].id \in Id

\* Past _CONSUME_SCRIPT, the code that was presented is spent.
SpentInv(r) ==
    req[r].pc \in {"role", "look", "flush", "commit"} /\ req[r].op \in UseOp =>
        challenge[req[r].id].state = "spent" /\ Matches(req[r].id, r)

\* A registration keeps the role of new users from being disabled.
RoleInv(r) ==
    req[r].pc \in {"look", "flush", "commit"} /\ req[r].op = "register" => roleLock = r /\ normal

\* Nobody has the address of a row that is inserted and not committed.
NewInv(r) ==
    req[r].pc = "commit" /\ req[r].op \in {"register", "create"} => user[req[r].email] = "none"

\* A reset holds the row of a user who may log in; an administrator the row that he changes.
HoldInv(r) ==
    /\ req[r].pc \in {"consume", "commit"} /\ req[r].op = "reset" =>
          userLock[req[r].email] = r /\ CanAuthenticate(req[r].email)
    /\ req[r].pc = "commit" /\ req[r].op = "switch" => userLock[req[r].email] = r
    /\ req[r].pc \in {"lock", "commit"} /\ req[r].op = "switch" => user[req[r].email] # "none"

RequestInv(r) == ShapeInv(r) /\ SpentInv(r) /\ RoleInv(r) /\ NewInv(r) /\ HoldInv(r)

\* A challenge that may be tried has attempts and time left.
ChallengeInv == \A c \in Id : Active(c) => challenge[c].attempts < MaxAttempts /\ challenge[c].left > 0

\* The unique index: one insertion of an address at a time.
InsertsUnique == \A p, q \in Req, e \in Email : Inserting(p, e) /\ Inserting(q, e) => p = q

\* Codes to one address keep their distance: while one is younger than that, the key
\* of the short window is there.
DistanceInv ==
    /\ \A a \in accepted : short[a.email] + a.age >= Resend
    /\ \A a, b \in accepted : a.email = b.email /\ a.age < b.age => b.age - a.age >= Resend

\* How many codes are of an age
Number(codes, from, to) == Cardinality({a \in codes : from <= a.age /\ a.age < to})

\* A fixed window counts the codes since it began, with a code of its own, window - left ago;
\* the windows before it let less than a limit through in what reaches into the last "window".
Counted(codes, counter, limit, window) ==
    LET start == window - counter.left
    IN  IF counter.count = 0
        THEN (\A a \in codes : a.age >= 1) /\ Number(codes, 0, window) < limit
        ELSE /\ Number(codes, 0, start + 1) <= counter.count
             /\ Number(codes, 0, start) < counter.count
             /\ Number(codes, start + 1, window) < limit
ToEmail(e) == {a \in accepted : a.email = e}
FromIp(h) == {a \in accepted : a.ip = h}
CountInv ==
    /\ IsFiniteSet(accepted)
    /\ \A e \in Email : Counted(ToEmail(e), hourly[e], HourLimit, HourWindow)
    /\ \A h \in Host : Counted(FromIp(h), perIp[h], IpLimit, IpWindow)

LimitsInv == DistanceInv /\ CountInv

IInv == /\ TypeOK
        /\ LimitsInv
        /\ ChallengeInv
        /\ InsertsUnique
        /\ \A r \in Req : RequestInv(r)
-----------------------------------------------------------------------------
(* Types *)

\* The type of each field of a request.
LEMMA Fields ==
  ASSUME NEW m \in Request
  PROVE  /\ m.pc \in Step /\ m.op \in Op \cup {"none"}
         /\ m.email \in Email \cup {NoEmail} /\ m.ip \in Host \cup {NoHost}
         /\ m.id \in Id \cup {NoId} /\ m.right \in BOOLEAN /\ m.eligible \in BOOLEAN
  BY DEF Request

\* Idle, and a request moved on, are requests.
LEMMA MoveTypes ==
  /\ Idle \in Request
  /\ \A m \in Request, step \in Step : [m EXCEPT !.pc = step] \in Request
  <1>1. Idle \in Request
    BY DEF Idle, Request, Step
  <1>2. ASSUME NEW m \in Request, NEW step \in Step PROVE [m EXCEPT !.pc = step] \in Request
    BY DEF Request
  <1> QED BY <1>1, <1>2

\* The requests that clients and administrators cause are requests.
LEMMA CallTypes ==
  ASSUME NEW op \in Op, NEW e \in Email, NEW step \in Step
  PROVE  /\ \A ip \in Host, b \in BOOLEAN :
               [Idle EXCEPT !.pc = step, !.op = op, !.email = e, !.ip = ip, !.eligible = b] \in Request
         /\ \A c \in Id, b \in BOOLEAN :
               [Idle EXCEPT !.pc = step, !.op = op, !.email = e, !.id = c, !.right = b] \in Request
         /\ [Idle EXCEPT !.pc = step, !.op = op, !.email = e] \in Request
  BY DEF Idle, Request

\* A sequence has a last element of every kind that it has.
LEMMA Rightmost ==
  ASSUME NEW n \in Nat, NEW S \in SUBSET (1..n), S # {}
  PROVE  \E i \in S : \A j \in S : j <= i
  <1> DEFINE After(i) == {k \in 1..n : k > i}
             T == {After(i) : i \in S}
  <1>1. T \subseteq FiniteSubsetsOf(1..n)
    <2>1. IsFiniteSet(1..n)
      BY FS_Interval
    <2>2. FiniteSubsetsOf(1..n) = SUBSET (1..n)
      BY <2>1, FS_FiniteSubsetsOfFinite
    <2> QED BY <2>2
  <1>2. PICK x \in T : \A y \in T : <<y, x>> \notin StrictSubsetOrdering(1..n)
    <2>1. T # {}
      OBVIOUS
    <2> HIDE DEF T
    <2> QED BY <1>1, <2>1, FS_StrictSubsetOrderingWellFounded, WFMin
  <1>3. PICK i \in S : x = After(i)
    BY <1>2
  <1>4. ASSUME NEW j \in S, ~(j <= i) PROVE FALSE
    <2>1. After(j) \subseteq After(i) /\ j \in After(i) /\ j \notin After(j)
      BY <1>4
    <2>2. <<After(j), After(i)>> \in StrictSubsetOrdering(1..n)
      BY <2>1 DEF StrictSubsetOrdering
    <2> QED BY <1>2, <1>3, <2>2
  <1> QED BY <1>4

\* get_client_ip finds a host.
LEMMA ClientIpType ==
  ASSUME NEW peer \in Host, NEW f \in Forwarded
  PROVE  ClientIp(peer, f) \in Host
  <1> DEFINE outside == {i \in DOMAIN f : f[i] \notin Trusted}
  <1>1. f \in Seq(Host \cup {Garbled}) /\ Len(f) \in Nat /\ DOMAIN f = 1..Len(f)
    BY EmailAssumption
  <1>2. CASE \/ peer \notin Trusted \/ f = <<>>
             \/ \E i \in DOMAIN f : f[i] = Garbled
    BY <1>2 DEF ClientIp
  <1>3. CASE ~(\/ peer \notin Trusted \/ f = <<>>
               \/ \E i \in DOMAIN f : f[i] = Garbled)
    <2>1. \A i \in DOMAIN f : f[i] \in Host
      BY <1>1, <1>3
    <2>2. CASE outside = {}
      <3>1. 1 \in DOMAIN f
        BY <1>1, <1>3
      <3> QED BY <1>3, <2>1, <2>2, <3>1 DEF ClientIp
    <2>3. CASE outside # {}
      <3>1. \E i \in outside : \A j \in outside : j <= i
        BY <1>1, <2>3, Rightmost
      <3>2. (CHOOSE i \in outside : \A j \in outside : j <= i) \in outside
        BY <3>1
      <3>3. ClientIp(peer, f) = f[CHOOSE i \in outside : \A j \in outside : j <= i]
        BY <1>3, <2>3 DEF ClientIp
      <3> QED BY <2>1, <3>2, <3>3
    <2> QED BY <2>2, <2>3
  <1> QED BY <1>2, <1>3

\* Dropping a transaction's locks keeps the types of the lock tables.
LEMMA ReleaseTypes ==
  ASSUME TypeOK, NEW r \in Req, Release(r)
  PROVE  userLock' \in [Email -> Req \cup {NoReq}] /\ roleLock' \in Req \cup {NoReq}
  BY DEF TypeOK, Release

\* The types say of counters what the script sees.
LEMMA CounterTypes ==
  ASSUME TypeOK
  PROVE  /\ \A e \in Email : /\ hourly[e] \in [count : 0..HourLimit, left : 0..HourWindow]
                             /\ hourly[e].count > 0 => hourly[e].left > 0
         /\ \A h \in Host : /\ perIp[h] \in [count : 0..IpLimit, left : 0..IpWindow]
                            /\ perIp[h].count > 0 => perIp[h].left > 0
  <1>1. \A e \in Email : hourly[e].count > 0 => hourly[e].left > 0
    BY DEF TypeOK
  <1>2. \A h \in Host : perIp[h].count > 0 => perIp[h].left > 0
    BY DEF TypeOK
  <1> QED BY <1>1, <1>2 DEF TypeOK

\* The types of the limits
LimitTypes ==
    /\ short \in [Email -> 0..Resend]
    /\ hourly \in [Email -> [count : 0..HourLimit, left : 0..HourWindow]]
    /\ perIp \in [Host -> [count : 0..IpLimit, left : 0..IpWindow]]
    /\ \A e \in Email : hourly[e].count > 0 => hourly[e].left > 0
    /\ \A h \in Host : perIp[h].count > 0 => perIp[h].left > 0
    /\ accepted \subseteq [email : Email, ip : Host, age : 0..HourWindow - 1]
\* ... and of everything but limits and requests
RowTypes ==
    /\ challenge \in [Id -> Challenge]
    /\ user \in [Email -> {"none", "active", "barred"}] /\ normal \in BOOLEAN
    /\ userLock \in [Email -> Req \cup {NoReq}] /\ roleLock \in Req \cup {NoReq}
    /\ open \subseteq Email /\ mix \in Mixes

\* TypeOK has these parts.
LEMMA TypeParts == TypeOK <=> LimitTypes /\ RowTypes /\ req \in [Req -> Request]
  <1>1. TypeOK => LimitTypes
    BY CounterTypes DEF LimitTypes, TypeOK
  <1>2. TypeOK => RowTypes /\ req \in [Req -> Request]
    BY DEF RowTypes, TypeOK
  <1>3. LimitTypes => \A c \in {hourly[e] : e \in Email} \cup {perIp[h] : h \in Host} : c.count > 0 => c.left > 0
    BY DEF LimitTypes
  <1>4. LimitTypes /\ RowTypes /\ req \in [Req -> Request] => TypeOK
    BY <1>3 DEF LimitTypes, RowTypes, TypeOK
  <1> QED BY <1>1, <1>2, <1>4
\* The same of the next state.
LEMMA TypePartsNext == LimitTypes' /\ RowTypes' /\ req' \in [Req -> Request] => TypeOK'
  <1>1. LimitTypes' => \A c \in {hourly'[e] : e \in Email} \cup {perIp'[h] : h \in Host} : c.count > 0 => c.left > 0
    BY DEF LimitTypes
  <1> QED BY <1>1 DEF LimitTypes, RowTypes, TypeOK

-----------------------------------------------------------------------------
(* What a step of one request leaves to the others *)

Kept(q) ==
    /\ \A c \in Id : challenge[c].state = "spent" => challenge'[c] = challenge[c]
    /\ \A e \in Email : userLock[e] = q => userLock'[e] = q
    /\ \A e \in Email : userLock[e] = q /\ user[e] = "active" => user'[e] = "active"
    /\ \A e \in Email : user[e] # "none" => user'[e] # "none"
    /\ \A e \in Email : Inserting(q, e) => user'[e] = user[e]
    /\ roleLock = q => roleLock' = q /\ normal' = normal

\* What is kept is all that a request relies on.
LEMMA Others ==
  ASSUME TypeOK, NEW q \in Req, RequestInv(q), Kept(q), req'[q] = req[q]
  PROVE  RequestInv(q)'
  <1> USE DEF RequestInv
  <1>1. ShapeInv(q)'
    BY DEF ShapeInv
  <1>2. SpentInv(q)'
    BY DEF SpentInv, ShapeInv, Kept, Matches
  <1>3. RoleInv(q)'
    BY DEF RoleInv, Kept
  <1>4. NewInv(q)'
    BY DEF NewInv, ShapeInv, Kept, Inserting, At
  <1>5. HoldInv(q)'
    BY DEF HoldInv, ShapeInv, Kept, CanAuthenticate
  <1> QED BY <1>1, <1>2, <1>3, <1>4, <1>5

\* One request goes on, the others keep what they rely on.
LEMMA StepInv ==
  ASSUME IInv, NEW r \in Req, NEW m \in Request, req' = [req EXCEPT ![r] = m],
         LimitTypes', LimitsInv', RowTypes', ChallengeInv', RequestInv(r)',
         \A q \in Req \ {r} : Kept(q),
         m.pc = "commit" /\ m.op \in {"register", "create"} =>
             \A q \in Req \ {r} : ~Inserting(q, m.email)
  PROVE  IInv'
  <1> USE DEF IInv
  <1>1. req' \in [Req -> Request] /\ req'[r] = m /\ \A q \in Req \ {r} : req'[q] = req[q]
    BY DEF TypeOK
  <1>2. TypeOK'
    BY <1>1, TypePartsNext
  <1>3. \A q \in Req : RequestInv(q)'
    BY <1>1, Others
  <1>4. InsertsUnique'
    BY <1>1 DEF InsertsUnique, Inserting, At
  <1> QED BY <1>2, <1>3, <1>4

\* The end of a transaction takes no lock from anybody else.
LEMMA ReleaseKeeps ==
  ASSUME TypeOK, NEW r \in Req, Release(r), NEW q \in Req \ {r}
  PROVE  /\ \A e \in Email : userLock[e] = q => userLock'[e] = q
         /\ roleLock = q => roleLock' = q
  BY DEF TypeOK, Release

\* A request that has ended relies on nothing.
LEMMA EndedInv ==
  ASSUME IInv, NEW r \in Req, req' = [req EXCEPT ![r] = Idle]
  PROVE  RequestInv(r)'
  <1>1. req'[r] = Idle
    BY DEF IInv, TypeOK
  <1> QED BY <1>1 DEF RequestInv, ShapeInv, SpentInv, RoleInv, NewInv, HoldInv, Idle, UseOp

\* A request ends and changes nothing but limits and challenges that are not spent.
LEMMA EndInv ==
  ASSUME IInv, NEW r \in Req, End(r), LimitTypes', LimitsInv', UNCHANGED rows,
         challenge' \in [Id -> Challenge], ChallengeInv',
         \A c \in Id : challenge[c].state = "spent" => challenge'[c] = challenge[c]
  PROVE  IInv'
  <1>1. req' = [req EXCEPT ![r] = Idle] /\ Release(r)
    BY DEF End
  <1>2. RowTypes'
    BY <1>1, ReleaseTypes DEF IInv, RowTypes, TypeOK, rows
  <1>3. \A q \in Req \ {r} : Kept(q)
    BY <1>1, ReleaseKeeps DEF IInv, Kept, rows
  <1>4. Idle.pc # "commit"
    BY DEF Idle
  <1> HIDE DEF IInv
  <1> QED BY <1>1, <1>2, <1>3, <1>4, MoveTypes, EndedInv, StepInv

\* What is left alone keeps its types.
LEMMA SameTypes ==
  ASSUME IInv
  PROVE  /\ UNCHANGED limits => LimitTypes' /\ LimitsInv'
         /\ UNCHANGED <<challenge, rows, locks>> => RowTypes'
         /\ UNCHANGED challenge => ChallengeInv' /\ challenge' \in [Id -> Challenge]
  <1>1. LimitTypes /\ RowTypes
    BY TypeParts DEF IInv
  <1>2. UNCHANGED limits => LimitTypes' /\ LimitsInv'
    BY <1>1 DEF limits, LimitTypes, LimitsInv, DistanceInv, CountInv, ToEmail, FromIp, IInv
  <1>3. UNCHANGED <<challenge, rows, locks>> => RowTypes'
    BY <1>1 DEF rows, locks, RowTypes
  <1>4. UNCHANGED challenge => ChallengeInv' /\ challenge' \in [Id -> Challenge]
    BY <1>1 DEF IInv, ChallengeInv, Active, RowTypes
  <1> QED BY <1>2, <1>3, <1>4

\* Rejections and failures: a request ends and leaves nothing behind.
LEMMA GoneInv ==
  ASSUME IInv, NEW r \in Req, End(r), UNCHANGED <<limits, challenge, rows>>
  PROVE  IInv'
  BY EndInv, SameTypes

\* A request moves on; at most a free lock is taken.
LEMMA MoveInv ==
  ASSUME IInv, NEW r \in Req, NEW m \in Request, req' = [req EXCEPT ![r] = m],
         UNCHANGED <<limits, challenge, rows, locks>>, RequestInv(r)',
         m.pc = "commit" /\ m.op \in {"register", "create"} =>
             \A q \in Req \ {r} : ~Inserting(q, m.email)
  PROVE  IInv'
  <1>1. LimitTypes' /\ LimitsInv' /\ RowTypes' /\ ChallengeInv'
    BY SameTypes
  <1>2. \A q \in Req \ {r} : Kept(q)
    BY DEF Kept, rows, locks
  <1> QED BY <1>1, <1>2, StepInv

-----------------------------------------------------------------------------
(* What the counters of the script say of the codes that were let through *)

Code == [email : Email, ip : Host, age : 0..HourWindow - 1]

\* Numbers of codes are numbers.
LEMMA NumberType ==
  ASSUME NEW codes, IsFiniteSet(codes), NEW lo, NEW hi
  PROVE  Number(codes, lo, hi) \in Nat
  BY FS_Subset, FS_CardinalityType DEF Number

\* A wider span has no fewer codes.
LEMMA NumberWider ==
  ASSUME NEW codes, IsFiniteSet(codes), \A a \in codes : a.age \in Nat,
         NEW lo \in Int, NEW hi \in Int, NEW low \in Int, NEW high \in Int, low <= lo, hi <= high
  PROVE  Number(codes, lo, hi) <= Number(codes, low, high)
  <1> DEFINE S == {a \in codes : low <= a.age /\ a.age < high}
             T == {a \in codes : lo <= a.age /\ a.age < hi}
  <1>1. S \in SUBSET codes /\ T \in SUBSET S
    OBVIOUS
  <1> HIDE DEF S, T
  <1>2. IsFiniteSet(S)
    BY <1>1, FS_Subset
  <1>3. IsFiniteSet(T) /\ Cardinality(T) <= Cardinality(S)
    BY <1>1, <1>2, FS_Subset
  <1> QED BY <1>3 DEF S, T, Number

\* The numbers of adjacent spans add up.
LEMMA NumberSplit ==
  ASSUME NEW codes, IsFiniteSet(codes), \A a \in codes : a.age \in Nat,
         NEW lo \in Int, NEW mid \in Int, NEW hi \in Int
  PROVE  Number(codes, lo, hi) <= Number(codes, lo, mid) + Number(codes, mid, hi)
  <1> DEFINE S == {a \in codes : lo <= a.age /\ a.age < mid}
             T == {a \in codes : mid <= a.age /\ a.age < hi}
             U == {a \in codes : lo <= a.age /\ a.age < hi}
  <1>1. S \in SUBSET codes /\ T \in SUBSET codes /\ U \in SUBSET (S \cup T)
    OBVIOUS
  <1> HIDE DEF S, T, U
  <1>2. IsFiniteSet(S) /\ IsFiniteSet(T)
    BY <1>1, FS_Subset
  <1>3. /\ IsFiniteSet(S \cup T)
        /\ Cardinality(S \cup T) = Cardinality(S) + Cardinality(T) - Cardinality(S \cap T)
    BY <1>2, FS_Union
  <1>4. IsFiniteSet(U) /\ Cardinality(U) <= Cardinality(S \cup T)
    BY <1>1, <1>3, FS_Subset
  <1>5. IsFiniteSet(S \cap T)
    BY <1>2, FS_Subset
  <1>6. /\ Cardinality(S) \in Nat /\ Cardinality(T) \in Nat /\ Cardinality(S \cap T) \in Nat
        /\ Cardinality(S \cup T) \in Nat /\ Cardinality(U) \in Nat
    BY <1>2, <1>3, <1>4, <1>5, FS_CardinalityType
  <1>7. Cardinality(U) <= Cardinality(S) + Cardinality(T)
    BY <1>3, <1>4, <1>6
  <1> QED BY <1>7 DEF S, T, U, Number

\* A new code is one more, and none of the older ones.
LEMMA NumberNew ==
  ASSUME NEW codes, IsFiniteSet(codes), \A a \in codes : a.age \in Nat, NEW new, new.age = 0,
         NEW lo \in Int, NEW hi \in Int
  PROVE  /\ Number(codes \cup {new}, lo, hi) <= Number(codes, lo, hi) + 1
         /\ lo > 0 \/ hi <= 0 => Number(codes \cup {new}, lo, hi) = Number(codes, lo, hi)
  <1> DEFINE more == codes \cup {new}
             S == {a \in codes : lo <= a.age /\ a.age < hi}
             T == {a \in more : lo <= a.age /\ a.age < hi}
  <1>1. S \in SUBSET codes /\ T \in SUBSET (S \cup {new}) /\ (lo > 0 \/ hi <= 0 => T = S)
    OBVIOUS
  <1> HIDE DEF S, T
  <1>2. IsFiniteSet(S)
    BY <1>1, FS_Subset
  <1>3. /\ IsFiniteSet(S \cup {new})
        /\ Cardinality(S \cup {new}) = IF new \in S THEN Cardinality(S) ELSE Cardinality(S) + 1
    BY <1>2, FS_AddElement
  <1>4. IsFiniteSet(T) /\ Cardinality(T) <= Cardinality(S \cup {new})
    BY <1>1, <1>3, FS_Subset
  <1>5. Cardinality(S) \in Nat /\ Cardinality(T) \in Nat
    BY <1>2, <1>4, FS_CardinalityType
  <1>6. Cardinality(T) <= Cardinality(S) + 1
    BY <1>3, <1>4, <1>5
  <1> QED BY <1>1, <1>6 DEF S, T, Number

\* Codes that have grown older are finitely many still ...
LEMMA OlderFinite ==
  ASSUME NEW codes, IsFiniteSet(codes),
         NEW later, later \subseteq {[a EXCEPT !.age = @ + 1] : a \in codes}
  PROVE  IsFiniteSet(later)
  <1> DEFINE all == {[a EXCEPT !.age = @ + 1] : a \in codes}
             f == [a \in codes |-> [a EXCEPT !.age = @ + 1]]
  <1>1. f \in Surjection(codes, all)
    BY DEF Surjection
  <1>2. IsFiniteSet(all)
    BY <1>1, FS_Surjection
  <1> QED BY <1>2, FS_Subset

\* ... and no more than they were.
LEMMA NumberOlder ==
  ASSUME NEW codes \in SUBSET Code, IsFiniteSet(codes),
         NEW later, later \subseteq {[a EXCEPT !.age = @ + 1] : a \in codes},
         NEW lo \in Int, NEW hi \in Int, NEW low \in Int, NEW high \in Int,
         \A n \in Nat : low <= n + 1 /\ n + 1 < high => lo <= n /\ n < hi
  PROVE  Number(later, low, high) <= Number(codes, lo, hi)
  <1> DEFINE S == {a \in codes : lo <= a.age /\ a.age < hi}
             T == {a \in later : low <= a.age /\ a.age < high}
             f == [a \in S |-> [a EXCEPT !.age = @ + 1]]
             all == {[a EXCEPT !.age = @ + 1] : a \in S}
  <1>1. \A a \in codes : a.age \in Nat /\ [a EXCEPT !.age = @ + 1].age = a.age + 1
    BY EmailAssumption DEF Code
  <1>2. S \in SUBSET codes /\ T \in SUBSET all
    <2>1. ASSUME NEW b \in T PROVE b \in all
      <3>1. PICK a \in codes : b = [a EXCEPT !.age = @ + 1]
        OBVIOUS
      <3>2. a \in S
        BY <1>1, <3>1
      <3> QED BY <3>1, <3>2
    <2> QED BY <2>1
  <1>3. f \in Surjection(S, all)
    BY DEF Surjection
  <1> HIDE DEF S, T, f, all
  <1>4. IsFiniteSet(S)
    BY <1>2, FS_Subset
  <1>5. IsFiniteSet(all) /\ Cardinality(all) <= Cardinality(S)
    BY <1>3, <1>4, FS_Surjection
  <1>6. IsFiniteSet(T) /\ Cardinality(T) <= Cardinality(all)
    BY <1>2, <1>5, FS_Subset
  <1>7. Cardinality(S) \in Nat /\ Cardinality(T) \in Nat /\ Cardinality(all) \in Nat
    BY <1>4, <1>5, <1>6, FS_CardinalityType
  <1>8. Cardinality(T) <= Cardinality(S)
    BY <1>5, <1>6, <1>7
  <1> QED BY <1>8 DEF S, T, Number

\* What a counter may say: its parts, with the time it began.
LEMMA CountedParts ==
  ASSUME NEW codes, NEW c, NEW limit, NEW window, NEW start, start = window - c.left
  PROVE  Counted(codes, c, limit, window) <=>
           /\ c.count = 0 => (\A a \in codes : a.age >= 1) /\ Number(codes, 0, window) < limit
           /\ c.count # 0 => /\ Number(codes, 0, start + 1) <= c.count
                             /\ Number(codes, 0, start) < c.count
                             /\ Number(codes, start + 1, window) < limit
  BY DEF Counted

\* A code that is let through is counted, by the window that it falls into or begins.
LEMMA CountedAccepted ==
  ASSUME NEW codes, IsFiniteSet(codes), \A a \in codes : a.age \in Nat, NEW new, new.age = 0,
         NEW limit \in Nat \ {0}, NEW window \in Nat \ {0},
         NEW c \in [count : 0..limit, left : 0..window],
         Counted(codes, c, limit, window)
  PROVE  Counted(codes \cup {new}, Stepped(c, window), limit, window)
  <1> DEFINE s == Stepped(c, window)
             more == codes \cup {new}
             start == window - c.left
  <1>1. c.count \in 0..limit /\ c.left \in 0..window
    OBVIOUS
  <1>2. s.count = c.count + 1 /\ s.left = IF c.count = 0 THEN window ELSE c.left
    BY DEF Stepped
  <1>3. IsFiniteSet(more) /\ \A a \in more : a.age \in Nat
    BY FS_AddElement
  <1>4. \A lo, hi \in Int : /\ Number(more, lo, hi) <= Number(codes, lo, hi) + 1
                            /\ lo > 0 \/ hi <= 0 => Number(more, lo, hi) = Number(codes, lo, hi)
    BY NumberNew
  <1> SUFFICES Counted(more, s, limit, window)
    OBVIOUS
  <1> HIDE DEF s, more
  <1>6. CASE c.count = 0
    <2>1. /\ \A a \in codes : a.age >= 1
          /\ Number(codes, 0, window) < limit
      BY <1>6 DEF Counted
    <2>2. Number(codes, 0, 1) = 0 /\ Number(codes, 0, 0) = 0
      <3>1. {a \in codes : 0 <= a.age /\ a.age < 1} = {} /\ {a \in codes : 0 <= a.age /\ a.age < 0} = {}
        BY <2>1
      <3> QED BY <3>1, FS_EmptySet DEF Number
    <2>3. Number(codes, 1, window) <= Number(codes, 0, window)
      BY NumberWider
    <2>4. Number(more, 0, 1) <= 1 /\ Number(more, 0, 0) < 1
      <3>1. Number(more, 0, 1) <= Number(codes, 0, 1) + 1 /\ Number(more, 0, 0) = Number(codes, 0, 0)
        BY <1>4
      <3> QED BY <2>2, <3>1
    <2>4a. Number(more, 1, window) < limit
      <3>1. Number(more, 1, window) = Number(codes, 1, window)
        BY <1>4
      <3>2. Number(codes, 1, window) \in Nat /\ Number(codes, 0, window) \in Nat
        BY NumberType
      <3> QED BY <2>1, <2>3, <3>1, <3>2
    <2>5. s.count = 1 /\ 0 = window - s.left
      BY <1>2, <1>6
    <2> QED BY <2>4, <2>4a, <2>5, CountedParts
  <1>7. CASE c.count # 0
    <2>1. start \in Nat /\ s.count = c.count + 1 /\ start = window - s.left /\ s.count # 0
      BY <1>1, <1>2, <1>7
    <2>2. /\ Number(codes, 0, start + 1) <= c.count
          /\ Number(codes, 0, start) < c.count
          /\ Number(codes, start + 1, window) < limit
      BY <1>7 DEF Counted
    <2> HIDE DEF start
    <2>3. /\ Number(more, 0, start + 1) <= s.count
          /\ Number(more, 0, start) < s.count
          /\ Number(more, start + 1, window) < limit
      <3>1. Number(more, 0, start + 1) <= Number(codes, 0, start + 1) + 1
        BY <1>4, <2>1
      <3>2. Number(more, 0, start) <= Number(codes, 0, start) + 1
        BY <1>4, <2>1
      <3>3. Number(more, start + 1, window) = Number(codes, start + 1, window)
        BY <1>4, <2>1
      <3>4. Number(codes, 0, start + 1) \in Nat /\ Number(codes, 0, start) \in Nat
        BY NumberType
      <3>5. Number(more, 0, start + 1) \in Nat /\ Number(more, 0, start) \in Nat
        BY <1>3, NumberType
      <3> QED BY <1>1, <2>1, <2>2, <3>1, <3>2, <3>3, <3>4, <3>5
    <2> QED BY <2>1, <2>3, CountedParts
  <1> QED BY <1>6, <1>7

\* Stepping a counter up to its limit, and back from beyond it, keeps its type and its expiry.
LEMMA SteppedTypes ==
  ASSUME NEW limit \in Nat \ {0}, NEW window \in Nat \ {0},
         NEW c \in [count : 0..limit, left : 0..window], c.count > 0 => c.left > 0
  PROVE  LET s == Stepped(c, window)
         IN  /\ s.count <= limit => s \in [count : 0..limit, left : 0..window] /\ s.left > 0
             /\ SteppedBack(s) \in [count : 0..limit, left : 0..window]
             /\ SteppedBack(s).count = c.count
             /\ c.count > 0 => SteppedBack(s) = c
             /\ SteppedBack(s).count > 0 => SteppedBack(s).left > 0
  <1> DEFINE s == Stepped(c, window)
  <1>1. c.count \in 0..limit /\ c.left \in 0..window /\ c = [count |-> c.count, left |-> c.left]
    OBVIOUS
  <1>2. s = [count |-> c.count + 1, left |-> IF c.count = 0 THEN window ELSE c.left]
    BY DEF Stepped
  <1>3. SteppedBack(s) = [count |-> c.count, left |-> IF c.count = 0 THEN window ELSE c.left]
    BY <1>1, <1>2 DEF SteppedBack
  <1> QED BY <1>1, <1>2, <1>3

\* A counter that is stepped and stepped back says what it said.
LEMMA CountedRejected ==
  ASSUME NEW codes, NEW limit \in Nat \ {0}, NEW window \in Nat \ {0},
         NEW c \in [count : 0..limit, left : 0..window], c.count > 0 => c.left > 0,
         Counted(codes, c, limit, window)
  PROVE  Counted(codes, SteppedBack(Stepped(c, window)), limit, window)
  <1> DEFINE b == SteppedBack(Stepped(c, window))
  <1>1. b.count = c.count /\ (c.count > 0 => b = c) /\ c.count \in Nat
    BY SteppedTypes
  <1> SUFFICES Counted(codes, b, limit, window)
    OBVIOUS
  <1> HIDE DEF b
  <1>2. CASE c.count = 0
    BY <1>1, <1>2 DEF Counted
  <1>3. CASE c.count > 0
    BY <1>1, <1>3
  <1> QED BY <1>1, <1>2, <1>3

\* Time moves a window and its codes alike, and closes it when no more of it counts.
LEMMA CountedTick ==
  ASSUME NEW codes \in SUBSET Code, IsFiniteSet(codes),
         NEW later, later \subseteq {[a EXCEPT !.age = @ + 1] : a \in codes},
         NEW limit \in Nat \ {0}, NEW window \in Nat \ {0},
         NEW c \in [count : 0..limit, left : 0..window], c.count > 0 => c.left > 0,
         Counted(codes, c, limit, window)
  PROVE  Counted(later, Aged(c), limit, window)
  <1> DEFINE start == window - c.left
             d == Aged(c)
  <1>1. c.count \in 0..limit /\ c.left \in 0..window
    OBVIOUS
  <1>2. (\A a \in codes : a.age \in Nat) /\ \A b \in later : b.age >= 1
    BY EmailAssumption DEF Code
  <1>5. IsFiniteSet(later)
    BY OlderFinite
  <1>6. d = IF c.left <= 1 THEN Expired ELSE [c EXCEPT !.left = @ - 1]
    BY DEF Aged
  <1> SUFFICES Counted(later, d, limit, window)
    OBVIOUS
  <1> HIDE DEF d
  <1>7. CASE c.count = 0
    <2>1. d.count = 0
      BY <1>6, <1>7 DEF Expired
    <2>2. Number(codes, 0, window) < limit
      BY <1>7 DEF Counted
    <2>3. Number(later, 0, window) <= Number(codes, 0, window)
      <3>1. \A n \in Nat : 0 <= n + 1 /\ n + 1 < window => 0 <= n /\ n < window
        OBVIOUS
      <3> QED BY <3>1, NumberOlder
    <2>4. Number(later, 0, window) < limit
      <3>1. Number(later, 0, window) \in Nat /\ Number(codes, 0, window) \in Nat
        BY <1>5, NumberType
      <3> QED BY <2>2, <2>3, <3>1
    <2> QED BY <1>2, <2>1, <2>4, CountedParts
  <1>8. CASE c.count # 0 /\ c.left <= 1
    <2>1. d.count = 0 /\ start = window - 1
      BY <1>1, <1>6, <1>8 DEF Expired
    <2>2. Number(codes, 0, start) < c.count
      BY <1>8 DEF Counted
    <2>3. start \in Int
      BY <1>1
    <2> HIDE DEF start
    <2>4. Number(later, 0, window) <= Number(codes, 0, start)
      <3>1. \A n \in Nat : 0 <= n + 1 /\ n + 1 < window => 0 <= n /\ n < start
        BY <2>1
      <3> QED BY <2>3, <3>1, NumberOlder
    <2>5. Number(later, 0, window) < limit
      <3>1. Number(later, 0, window) \in Nat /\ Number(codes, 0, start) \in Nat
        BY <1>5, NumberType
      <3> QED BY <1>1, <2>2, <2>4, <3>1
    <2> QED BY <1>2, <2>1, <2>5, CountedParts
  <1>9. CASE c.count # 0 /\ c.left > 1
    <2>1. d.count = c.count /\ d.left = c.left - 1
      BY <1>1, <1>6, <1>9
    <2>2. start \in Nat /\ start + 1 = window - d.left /\ d.count # 0
      BY <1>1, <1>9, <2>1
    <2>3. /\ Number(codes, 0, start + 1) <= c.count
          /\ Number(codes, 0, start) < c.count
          /\ Number(codes, start + 1, window) < limit
      BY <1>9 DEF Counted
    <2> HIDE DEF start
    <2>4. Number(later, 0, start + 1 + 1) <= Number(codes, 0, start + 1)
      <3>1. \A n \in Nat : 0 <= n + 1 /\ n + 1 < start + 1 + 1 => 0 <= n /\ n < start + 1
        BY <2>2
      <3> QED BY <2>2, <3>1, NumberOlder
    <2>5. Number(later, 0, start + 1) <= Number(codes, 0, start)
      <3>1. \A n \in Nat : 0 <= n + 1 /\ n + 1 < start + 1 => 0 <= n /\ n < start
        BY <2>2
      <3> QED BY <2>2, <3>1, NumberOlder
    <2>6. Number(later, start + 1 + 1, window) <= Number(codes, start + 1, window)
      <3>1. \A n \in Nat : start + 1 + 1 <= n + 1 /\ n + 1 < window => start + 1 <= n /\ n < window
        BY <2>2
      <3> QED BY <2>2, <3>1, NumberOlder
    <2>7. /\ Number(later, 0, start + 1 + 1) <= d.count
          /\ Number(later, 0, start + 1) < d.count
          /\ Number(later, start + 1 + 1, window) < limit
      <3>1. /\ Number(codes, 0, start + 1) \in Nat /\ Number(codes, 0, start) \in Nat
            /\ Number(codes, start + 1, window) \in Nat
        BY NumberType
      <3>2. /\ Number(later, 0, start + 1 + 1) \in Nat /\ Number(later, 0, start + 1) \in Nat
            /\ Number(later, start + 1 + 1, window) \in Nat
        BY <1>5, NumberType
      <3> QED BY <1>1, <2>1, <2>3, <2>4, <2>5, <2>6, <3>1, <3>2
    <2> QED BY <2>2, <2>7, CountedParts
  <1> QED BY <1>1, <1>7, <1>8, <1>9

\* Two windows' worth, less one, is the most that a stretch of a window's length can see.
LEMMA CountedBound ==
  ASSUME NEW codes, IsFiniteSet(codes), \A a \in codes : a.age \in Nat,
         NEW limit \in Nat \ {0}, NEW window \in Nat \ {0},
         NEW c \in [count : 0..limit, left : 0..window],
         Counted(codes, c, limit, window)
  PROVE  Number(codes, 0, window) < 2 * limit
  <1> DEFINE start == window - c.left
  <1>1. c.count \in 0..limit /\ start \in Nat
    OBVIOUS
  <1>2. CASE c.count = 0
    <2>1. Number(codes, 0, window) < limit
      BY <1>2 DEF Counted
    <2>2. Number(codes, 0, window) \in Nat
      BY NumberType
    <2> QED BY <2>1, <2>2
  <1>3. CASE c.count # 0
    <2>1. Number(codes, 0, start + 1) <= c.count /\ Number(codes, start + 1, window) < limit
      BY <1>3 DEF Counted
    <2> HIDE DEF start
    <2>2. Number(codes, 0, window) <= Number(codes, 0, start + 1) + Number(codes, start + 1, window)
      BY <1>1, NumberSplit
    <2>3. /\ Number(codes, 0, window) \in Nat /\ Number(codes, 0, start + 1) \in Nat
          /\ Number(codes, start + 1, window) \in Nat
      BY NumberType
    <2> QED BY <1>1, <2>1, <2>2, <2>3
  <1> QED BY <1>2, <1>3

\* Whoever a code goes to, whoever asked for it: its counters count it.
LEMMA AcceptedLimits ==
  ASSUME LimitTypes, LimitsInv, NEW e \in Email, NEW i \in Host, short[e] = 0,
         short' = [short EXCEPT ![e] = Resend],
         hourly' = [hourly EXCEPT ![e] = Stepped(hourly[e], HourWindow)],
         perIp' = [perIp EXCEPT ![i] = Stepped(perIp[i], IpWindow)],
         accepted' = accepted \cup {[email |-> e, ip |-> i, age |-> 0]}
  PROVE  LimitsInv'
  <1> DEFINE new == [email |-> e, ip |-> i, age |-> 0]
  <1>1. /\ Resend \in Nat \ {0} /\ HourLimit \in Nat \ {0} /\ HourWindow \in Nat \ {0}
        /\ IpLimit \in Nat \ {0} /\ IpWindow \in Nat \ {0}
    BY EmailAssumption
  <1>2. /\ short \in [Email -> 0..Resend] /\ accepted \subseteq Code
        /\ hourly \in [Email -> [count : 0..HourLimit, left : 0..HourWindow]]
        /\ perIp \in [Host -> [count : 0..IpLimit, left : 0..IpWindow]]
    BY DEF LimitTypes, Code
  <1>3. new.email = e /\ new.ip = i /\ new.age = 0 /\ accepted' = accepted \cup {new}
    OBVIOUS
  <1> HIDE DEF new
  <1>4. \A a \in accepted : a.email \in Email /\ a.age \in Nat /\ short[a.email] \in Nat
    BY <1>1, <1>2 DEF Code
  <1>5. \A a \in accepted : a.email = e => a.age >= Resend
    BY <1>1, <1>4 DEF LimitsInv, DistanceInv
  <1>6. \A a \in accepted' : short'[a.email] + a.age >= Resend
    BY <1>1, <1>2, <1>3, <1>4, <1>5 DEF LimitsInv, DistanceInv
  <1>7. \A a, b \in accepted' : a.email = b.email /\ a.age < b.age => b.age - a.age >= Resend
    <2> SUFFICES ASSUME NEW a \in accepted', NEW b \in accepted', a.email = b.email, a.age < b.age
                 PROVE  b.age - a.age >= Resend
      OBVIOUS
    <2>1. b \in accepted
      BY <1>3, <1>4
    <2>2. CASE a \in accepted
      BY <2>1, <2>2 DEF LimitsInv, DistanceInv
    <2>3. CASE a = new
      BY <1>1, <1>3, <1>4, <1>5, <2>1, <2>3
    <2> QED BY <1>3, <2>2, <2>3
  <1>8. IsFiniteSet(accepted) /\ IsFiniteSet(accepted')
    BY <1>3, FS_AddElement DEF LimitsInv, CountInv
  <1>9. ASSUME NEW f \in Email
        PROVE  Counted({a \in accepted' : a.email = f}, hourly'[f], HourLimit, HourWindow)
    <2> DEFINE codes == {a \in accepted : a.email = f}
    <2>1. Counted(codes, hourly[f], HourLimit, HourWindow)
      BY DEF LimitsInv, CountInv, ToEmail
    <2>2. CASE f = e
      <3>1. {a \in accepted' : a.email = f} = codes \cup {new}
        BY <1>3, <2>2
      <3>2. IsFiniteSet(codes) /\ (\A a \in codes : a.age \in Nat)
        BY <1>4, <1>8, FS_Subset
      <3>3. hourly'[f] = Stepped(hourly[f], HourWindow)
            /\ hourly[f] \in [count : 0..HourLimit, left : 0..HourWindow]
        BY <1>2, <2>2
      <3> HIDE DEF codes
      <3>4. Counted(codes \cup {new}, hourly'[f], HourLimit, HourWindow)
        BY <1>1, <1>3, <2>1, <3>2, <3>3, CountedAccepted
      <3> QED BY <3>1, <3>4
    <2>3. CASE f # e
      <3>1. {a \in accepted' : a.email = f} = codes
        BY <1>3, <2>3
      <3>2. hourly'[f] = hourly[f]
        BY <1>2, <2>3
      <3> QED BY <2>1, <3>1, <3>2
    <2> QED BY <2>2, <2>3
  <1>10. ASSUME NEW h \in Host
         PROVE  Counted({a \in accepted' : a.ip = h}, perIp'[h], IpLimit, IpWindow)
    <2> DEFINE codes == {a \in accepted : a.ip = h}
    <2>1. Counted(codes, perIp[h], IpLimit, IpWindow)
      BY DEF LimitsInv, CountInv, FromIp
    <2>2. CASE h = i
      <3>1. {a \in accepted' : a.ip = h} = codes \cup {new}
        BY <1>3, <2>2
      <3>2. IsFiniteSet(codes) /\ (\A a \in codes : a.age \in Nat)
        BY <1>4, <1>8, FS_Subset
      <3>3. perIp'[h] = Stepped(perIp[h], IpWindow)
            /\ perIp[h] \in [count : 0..IpLimit, left : 0..IpWindow]
        BY <1>2, <2>2
      <3> HIDE DEF codes
      <3>4. Counted(codes \cup {new}, perIp'[h], IpLimit, IpWindow)
        BY <1>1, <1>3, <2>1, <3>2, <3>3, CountedAccepted
      <3> QED BY <3>1, <3>4
    <2>3. CASE h # i
      <3>1. {a \in accepted' : a.ip = h} = codes
        BY <1>3, <2>3
      <3>2. perIp'[h] = perIp[h]
        BY <1>2, <2>3
      <3> QED BY <2>1, <3>1, <3>2
    <2> QED BY <2>2, <2>3
  <1> QED BY <1>6, <1>7, <1>8, <1>9, <1>10 DEF LimitsInv, DistanceInv, CountInv, ToEmail, FromIp

\* A rejected request leaves counters that say what they said.
LEMMA RejectedLimits ==
  ASSUME LimitTypes, LimitsInv, NEW e \in Email, NEW i \in Host, UNCHANGED <<short, accepted>>,
         hourly' = [hourly EXCEPT ![e] = SteppedBack(Stepped(hourly[e], HourWindow))],
         UNCHANGED perIp \/ perIp' = [perIp EXCEPT ![i] = SteppedBack(Stepped(perIp[i], IpWindow))]
  PROVE  LimitsInv'
  <1>1. /\ HourLimit \in Nat \ {0} /\ HourWindow \in Nat \ {0}
        /\ IpLimit \in Nat \ {0} /\ IpWindow \in Nat \ {0}
    BY EmailAssumption
  <1>2. ASSUME NEW f \in Email
        PROVE  Counted({a \in accepted : a.email = f}, hourly'[f], HourLimit, HourWindow)
    <2>1. /\ hourly[f] \in [count : 0..HourLimit, left : 0..HourWindow]
          /\ hourly[f].count > 0 => hourly[f].left > 0
          /\ hourly'[f] = hourly[f] \/ hourly'[f] = SteppedBack(Stepped(hourly[f], HourWindow))
      BY DEF LimitTypes
    <2>2. Counted({a \in accepted : a.email = f}, hourly[f], HourLimit, HourWindow)
      BY DEF LimitsInv, CountInv, ToEmail
    <2> QED BY <1>1, <2>1, <2>2, CountedRejected
  <1>3. ASSUME NEW h \in Host
        PROVE  Counted({a \in accepted : a.ip = h}, perIp'[h], IpLimit, IpWindow)
    <2>1. /\ perIp[h] \in [count : 0..IpLimit, left : 0..IpWindow]
          /\ perIp[h].count > 0 => perIp[h].left > 0
          /\ perIp'[h] = perIp[h] \/ perIp'[h] = SteppedBack(Stepped(perIp[h], IpWindow))
      BY DEF LimitTypes
    <2>2. Counted({a \in accepted : a.ip = h}, perIp[h], IpLimit, IpWindow)
      BY DEF LimitsInv, CountInv, FromIp
    <2> QED BY <1>1, <2>1, <2>2, CountedRejected
  <1> QED BY <1>2, <1>3 DEF LimitsInv, DistanceInv, CountInv, ToEmail, FromIp

\* Time adds to the age of codes what it takes from the life of keys.
LEMMA TickLimits ==
  ASSUME LimitTypes, LimitsInv, Tick
  PROVE  LimitsInv'
  <1>1. /\ Resend \in Nat \ {0} /\ HourLimit \in Nat \ {0} /\ HourWindow \in Nat \ {0}
        /\ IpLimit \in Nat \ {0} /\ IpWindow \in Nat \ {0}
    BY EmailAssumption
  <1>2. /\ short \in [Email -> 0..Resend] /\ accepted \subseteq Code
        /\ hourly \in [Email -> [count : 0..HourLimit, left : 0..HourWindow]]
        /\ perIp \in [Host -> [count : 0..IpLimit, left : 0..IpWindow]]
    BY DEF LimitTypes, Code
  <1>3. accepted' \subseteq {[a EXCEPT !.age = @ + 1] : a \in accepted}
    BY DEF Tick
  <1>4. \A b \in accepted' : \E a \in accepted :
           /\ b = [a EXCEPT !.age = @ + 1] /\ b.age = a.age + 1 /\ a.age \in Nat
           /\ b.email = a.email /\ b.ip = a.ip /\ a.email \in Email
    BY <1>1, <1>2, <1>3 DEF Code
  <1>5. \A b \in accepted' : short'[b.email] + b.age >= Resend
    <2> SUFFICES ASSUME NEW b \in accepted' PROVE short'[b.email] + b.age >= Resend
      OBVIOUS
    <2>1. PICK a \in accepted : b.age = a.age + 1 /\ a.age \in Nat /\ b.email = a.email /\ a.email \in Email
      BY <1>4
    <2>2. short[a.email] + a.age >= Resend
      BY DEF LimitsInv, DistanceInv
    <2>3. short'[a.email] = IF short[a.email] = 0 THEN 0 ELSE short[a.email] - 1
      BY <2>1 DEF Tick, Less
    <2>4. short[a.email] \in 0..Resend
      BY <1>2, <2>1
    <2> QED BY <1>1, <2>1, <2>2, <2>3, <2>4
  <1>6. \A b, c \in accepted' : b.email = c.email /\ b.age < c.age => c.age - b.age >= Resend
    <2> SUFFICES ASSUME NEW b \in accepted', NEW c \in accepted', b.email = c.email, b.age < c.age
                 PROVE  c.age - b.age >= Resend
      OBVIOUS
    <2>1. PICK a \in accepted : b.age = a.age + 1 /\ a.age \in Nat /\ b.email = a.email
      BY <1>4
    <2>2. PICK d \in accepted : c.age = d.age + 1 /\ d.age \in Nat /\ c.email = d.email
      BY <1>4
    <2>3. a.email = d.email /\ a.age < d.age
      <3>1. a.age + 1 < d.age + 1 /\ a.age \in Nat /\ d.age \in Nat
        BY <2>1, <2>2
      <3>2. a.email = d.email
        BY <2>1, <2>2
      <3> QED BY <3>1, <3>2
    <2>4. d.age - a.age >= Resend
      BY <2>3 DEF LimitsInv, DistanceInv
    <2> QED BY <2>1, <2>2, <2>4
  <1>7. IsFiniteSet(accepted)
    BY DEF LimitsInv, CountInv
  <1>8. IsFiniteSet(accepted')
    BY <1>3, <1>7, OlderFinite
  <1>9. ASSUME NEW e \in Email
        PROVE  Counted({a \in accepted' : a.email = e}, hourly'[e], HourLimit, HourWindow)
    <2> DEFINE codes == {a \in accepted : a.email = e}
               later == {a \in accepted' : a.email = e}
    <2>1. Counted(codes, hourly[e], HourLimit, HourWindow)
      BY DEF LimitsInv, CountInv, ToEmail
    <2>2. codes \in SUBSET Code /\ IsFiniteSet(codes)
      BY <1>2, <1>7, FS_Subset
    <2>3. later \subseteq {[a EXCEPT !.age = @ + 1] : a \in codes}
      BY <1>4
    <2>4. /\ hourly[e] \in [count : 0..HourLimit, left : 0..HourWindow]
          /\ hourly[e].count > 0 => hourly[e].left > 0
          /\ hourly'[e] = Aged(hourly[e])
      BY DEF LimitTypes, Tick
    <2> HIDE DEF codes, later
    <2>5. Counted(later, hourly'[e], HourLimit, HourWindow)
      BY <1>1, <2>1, <2>2, <2>3, <2>4, CountedTick
    <2> QED BY <2>5 DEF later
  <1>10. ASSUME NEW h \in Host
         PROVE  Counted({a \in accepted' : a.ip = h}, perIp'[h], IpLimit, IpWindow)
    <2> DEFINE codes == {a \in accepted : a.ip = h}
               later == {a \in accepted' : a.ip = h}
    <2>1. Counted(codes, perIp[h], IpLimit, IpWindow)
      BY DEF LimitsInv, CountInv, FromIp
    <2>2. codes \in SUBSET Code /\ IsFiniteSet(codes)
      BY <1>2, <1>7, FS_Subset
    <2>3. later \subseteq {[a EXCEPT !.age = @ + 1] : a \in codes}
      BY <1>4
    <2>4. /\ perIp[h] \in [count : 0..IpLimit, left : 0..IpWindow]
          /\ perIp[h].count > 0 => perIp[h].left > 0
          /\ perIp'[h] = Aged(perIp[h])
      BY DEF LimitTypes, Tick
    <2> HIDE DEF codes, later
    <2>5. Counted(later, perIp'[h], IpLimit, IpWindow)
      BY <1>1, <2>1, <2>2, <2>3, <2>4, CountedTick
    <2> QED BY <2>5 DEF later
  <1> QED BY <1>5, <1>6, <1>8, <1>9, <1>10 DEF LimitsInv, DistanceInv, CountInv, ToEmail, FromIp

-----------------------------------------------------------------------------
(* The operations *)

\* A new request relies on nothing yet.
LEMMA StartInv ==
  ASSUME IInv, NEW r \in Req,
         \/ \E s \in Spelling, peer \in Host, f \in Forwarded : StartSend(r, s, peer, f)
         \/ \E s \in Spelling, c \in mix.id, right \in BOOLEAN : StartUse(r, s, c, right)
         \/ \E e \in Email : StartAdmin(r, e)
  PROVE  IInv'
  <1> USE DEF Begin
  <1>0. mix \in Mixes /\ mix.id \subseteq Id /\ \A s \in Spelling : Normalized[s] \in Email
    BY EmailAssumption DEF IInv, TypeOK
  <1>1. CASE \E s \in Spelling, peer \in Host, f \in Forwarded : StartSend(r, s, peer, f)
    <2>0. PICK s \in Spelling, peer \in Host, f \in Forwarded : StartSend(r, s, peer, f)
      BY <1>1
    <2>1. PICK op \in SendOp :
             /\ req' = [req EXCEPT ![r] = [Idle EXCEPT !.pc = "limits", !.op = op, !.email = Normalized[s],
                          !.ip = ClientIp(peer, f),
                          !.eligible = op = "send_register" \/ CanAuthenticate(Normalized[s])]]
             /\ UNCHANGED <<limits, challenge, rows, locks>>
      BY <2>0 DEF StartSend
    <2> DEFINE b == op = "send_register" \/ CanAuthenticate(Normalized[s])
               m == [Idle EXCEPT !.pc = "limits", !.op = op, !.email = Normalized[s],
                                 !.ip = ClientIp(peer, f), !.eligible = b]
    <2>2. ClientIp(peer, f) \in Host /\ b \in BOOLEAN /\ op \in Op /\ "limits" \in Step
      BY ClientIpType DEF Op, Step
    <2> HIDE DEF b
    <2>3. m \in Request
      BY <1>0, <2>2, CallTypes
    <2>4. m.pc = "limits" /\ m.op = op /\ m.email = Normalized[s] /\ m.ip = ClientIp(peer, f)
      BY DEF Idle
    <2>5. req' = [req EXCEPT ![r] = m]
      BY <2>1 DEF b
    <2> HIDE DEF m
    <2>6. req'[r] = m
      BY <2>5 DEF IInv, TypeOK
    <2>7. RequestInv(r)'
      BY <1>0, <2>2, <2>4, <2>6 DEF RequestInv, ShapeInv, SpentInv, RoleInv, NewInv, HoldInv, SendOp, UseOp
    <2> QED BY <2>1, <2>3, <2>4, <2>5, <2>7, MoveInv
  <1>2. CASE \E s \in Spelling, c \in mix.id, right \in BOOLEAN : StartUse(r, s, c, right)
    <2>0. PICK s \in Spelling, c \in mix.id, right \in BOOLEAN : StartUse(r, s, c, right)
      BY <1>2
    <2>1. PICK op \in UseOp :
             /\ req' = [req EXCEPT ![r] = [Idle EXCEPT !.pc = IF op = "reset" THEN "lock" ELSE "consume",
                          !.op = op, !.email = Normalized[s], !.id = c, !.right = right]]
             /\ UNCHANGED <<limits, challenge, rows, locks>>
      BY <2>0 DEF StartUse
    <2> DEFINE step == IF op = "reset" THEN "lock" ELSE "consume"
               m == [Idle EXCEPT !.pc = step, !.op = op, !.email = Normalized[s], !.id = c, !.right = right]
    <2>2. step \in Step /\ op \in Op /\ c \in Id
      BY <1>0 DEF Op, Step
    <2>3. m \in Request
      BY <1>0, <2>2, CallTypes
    <2>4. m.pc = step /\ m.op = op /\ m.email = Normalized[s] /\ m.id = c
      BY DEF Idle
    <2>5. req' = [req EXCEPT ![r] = m]
      BY <2>1
    <2> HIDE DEF m
    <2>6. req'[r] = m
      BY <2>5 DEF IInv, TypeOK
    <2>7. RequestInv(r)'
      BY <1>0, <2>2, <2>4, <2>6 DEF RequestInv, ShapeInv, SpentInv, RoleInv, NewInv, HoldInv, UseOp
    <2> QED BY <2>1, <2>3, <2>4, <2>5, <2>7, MoveInv
  <1>3. CASE \E e \in Email : StartAdmin(r, e)
    <2>1. PICK e \in Email, op \in AdminOp \ {"switch_role"} :
             /\ op = "switch" => user[e] # "none"
             /\ req' = [req EXCEPT ![r] = [Idle EXCEPT !.pc = IF op = "create" THEN "look" ELSE "lock",
                          !.op = op, !.email = e]]
             /\ UNCHANGED <<limits, challenge, rows, locks>>
      BY <1>3 DEF StartAdmin
    <2> DEFINE step == IF op = "create" THEN "look" ELSE "lock"
               m == [Idle EXCEPT !.pc = step, !.op = op, !.email = e]
    <2>2. step \in Step /\ op \in Op /\ op \in {"create", "switch"}
      BY DEF Op, AdminOp, Step
    <2>3. m \in Request
      BY <2>2, CallTypes
    <2>4. m.pc = step /\ m.op = op /\ m.email = e
      BY DEF Idle
    <2>5. req' = [req EXCEPT ![r] = m] /\ user' = user
      BY <2>1 DEF rows
    <2> HIDE DEF m
    <2>6. req'[r] = m
      BY <2>5 DEF IInv, TypeOK
    <2>7. RequestInv(r)'
      BY <2>1, <2>2, <2>4, <2>5, <2>6 DEF RequestInv, ShapeInv, SpentInv, RoleInv, NewInv, HoldInv, UseOp
    <2> QED BY <2>1, <2>3, <2>4, <2>5, <2>7, MoveInv
  <1> QED BY <1>1, <1>2, <1>3

\* The script, whatever it answers
LEMMA CheckLimitsInv ==
  ASSUME IInv, NEW r \in Req, CheckLimits(r)
  PROVE  IInv'
  <1> DEFINE e == req[r].email
             i == req[r].ip
             hour == Stepped(hourly[e], HourWindow)
             ip == Stepped(perIp[i], IpWindow)
  <1>0. At(r, "limits") /\ UNCHANGED <<challenge, rows>>
    BY DEF CheckLimits
  <1>1. e \in Email /\ i \in Host /\ req[r].op \in SendOp
    BY <1>0 DEF IInv, RequestInv, ShapeInv, At
  <1>2. LimitTypes /\ LimitsInv /\ challenge' \in [Id -> Challenge] /\ ChallengeInv'
    BY <1>0, TypeParts, SameTypes DEF IInv
  <1>3. /\ Resend \in Nat \ {0} /\ HourLimit \in Nat \ {0} /\ HourWindow \in Nat \ {0}
        /\ IpLimit \in Nat \ {0} /\ IpWindow \in Nat \ {0}
    BY EmailAssumption
  <1>4. /\ hour.count <= HourLimit => hour \in [count : 0..HourLimit, left : 0..HourWindow] /\ hour.left > 0
        /\ SteppedBack(hour) \in [count : 0..HourLimit, left : 0..HourWindow]
        /\ SteppedBack(hour).count > 0 => SteppedBack(hour).left > 0
    BY <1>1, <1>2, <1>3, SteppedTypes DEF LimitTypes
  <1>5. /\ ip.count <= IpLimit => ip \in [count : 0..IpLimit, left : 0..IpWindow] /\ ip.left > 0
        /\ SteppedBack(ip) \in [count : 0..IpLimit, left : 0..IpWindow]
        /\ SteppedBack(ip).count > 0 => SteppedBack(ip).left > 0
    BY <1>1, <1>2, <1>3, SteppedTypes DEF LimitTypes
  <1> HIDE DEF hour, ip
  <1>6. CASE short[e] > 0 /\ End(r) /\ UNCHANGED limits
    BY <1>0, <1>6, GoneInv
  <1>7. CASE /\ hourly' = [hourly EXCEPT ![e] = SteppedBack(hour)]
             /\ End(r) /\ UNCHANGED <<short, perIp, accepted>>
    <2>1. LimitTypes'
      BY <1>1, <1>2, <1>4, <1>7 DEF LimitTypes
    <2>2. LimitsInv'
      BY <1>1, <1>2, <1>7, RejectedLimits DEF hour
    <2> QED BY <1>0, <1>2, <1>7, <2>1, <2>2, EndInv
  <1>8. CASE /\ hourly' = [hourly EXCEPT ![e] = SteppedBack(hour)]
             /\ perIp' = [perIp EXCEPT ![i] = SteppedBack(ip)]
             /\ End(r) /\ UNCHANGED <<short, accepted>>
    <2>1. LimitTypes'
      BY <1>1, <1>2, <1>4, <1>5, <1>8 DEF LimitTypes
    <2>2. LimitsInv'
      BY <1>1, <1>2, <1>8, RejectedLimits DEF hour, ip
    <2> QED BY <1>0, <1>2, <1>8, <2>1, <2>2, EndInv
  <1>9. CASE /\ short[e] = 0 /\ hour.count <= HourLimit /\ ip.count <= IpLimit
             /\ short' = [short EXCEPT ![e] = Resend]
             /\ hourly' = [hourly EXCEPT ![e] = hour]
             /\ perIp' = [perIp EXCEPT ![i] = ip]
             /\ accepted' = accepted \cup {[email |-> e, ip |-> i, age |-> 0]}
             /\ req' = [req EXCEPT ![r].pc = "store", ![r].ip = NoHost]
             /\ UNCHANGED locks
    <2> DEFINE m == [req[r] EXCEPT !.pc = "store", !.ip = NoHost]
    <2>1. LimitTypes'
      <3>1. [email |-> e, ip |-> i, age |-> 0] \in [email : Email, ip : Host, age : 0..HourWindow - 1]
        BY <1>1, <1>3
      <3>2. short' \in [Email -> 0..Resend]
        BY <1>1, <1>2, <1>3, <1>9 DEF LimitTypes
      <3>3. /\ hourly' \in [Email -> [count : 0..HourLimit, left : 0..HourWindow]]
            /\ \A f \in Email : hourly'[f].count > 0 => hourly'[f].left > 0
        BY <1>1, <1>2, <1>4, <1>9 DEF LimitTypes
      <3>4. /\ perIp' \in [Host -> [count : 0..IpLimit, left : 0..IpWindow]]
            /\ \A h \in Host : perIp'[h].count > 0 => perIp'[h].left > 0
        BY <1>1, <1>2, <1>5, <1>9 DEF LimitTypes
      <3>5. accepted' \subseteq [email : Email, ip : Host, age : 0..HourWindow - 1]
        BY <1>2, <1>9, <3>1 DEF LimitTypes
      <3> QED BY <3>2, <3>3, <3>4, <3>5 DEF LimitTypes
    <2>1a. LimitsInv'
      BY <1>1, <1>2, <1>9, AcceptedLimits DEF hour, ip
    <2>2. req[r] \in Request
      BY DEF IInv, TypeOK
    <2>3. m \in Request /\ m.pc = "store" /\ m.op = req[r].op /\ m.email = e /\ m.id = req[r].id
      BY <2>2 DEF Request, Step
    <2>4. req' = [req EXCEPT ![r] = m]
      BY <1>9 DEF IInv, TypeOK
    <2> HIDE DEF m
    <2>5. req'[r] = m
      BY <2>4 DEF IInv, TypeOK
    <2>6. RequestInv(r)'
      BY <1>1, <2>3, <2>5 DEF RequestInv, ShapeInv, SpentInv, RoleInv, NewInv, HoldInv, SendOp, UseOp
    <2>7. RowTypes'
      BY <1>0, <1>9, SameTypes
    <2>8. \A q \in Req \ {r} : Kept(q)
      BY <1>0, <1>9 DEF Kept, rows, locks
    <2> QED BY <1>2, <2>1, <2>1a, <2>3, <2>4, <2>6, <2>7, <2>8, StepInv
  <1> QED BY <1>6, <1>7, <1>8, <1>9 DEF CheckLimits, hour, ip

\* A challenge is made: nobody has spent it.
LEMMA StoreChallengeInv ==
  ASSUME IInv, NEW r \in Req, NEW c \in Id, StoreChallenge(r, c)
  PROVE  IInv'
  <1> DEFINE n == [state |-> "active", email |-> req[r].email, attempts |-> 0,
                   purpose |-> Purpose(req[r].op), left |-> Life]
             step == IF req[r].eligible THEN "mail" ELSE "discard"
             m == [Idle EXCEPT !.op = req[r].op, !.id = c, !.pc = step]
  <1>0. /\ At(r, "store") /\ challenge[c].state = "none"
        /\ challenge' = [challenge EXCEPT ![c] = n] /\ req' = [req EXCEPT ![r] = m]
        /\ UNCHANGED <<limits, rows, locks>>
    BY DEF StoreChallenge
  <1>1. req[r] \in Request /\ challenge \in [Id -> Challenge] /\ ChallengeInv
    BY DEF IInv, TypeOK
  <1>2. req[r].op \in SendOp /\ req[r].email \in Email
    BY <1>0 DEF IInv, RequestInv, ShapeInv, At
  <1>3. n \in Challenge /\ n.state = "active" /\ n.attempts < MaxAttempts /\ n.left > 0
    BY <1>2, EmailAssumption DEF Challenge, Purpose
  <1>4. m \in Request /\ m.pc = step /\ m.op = req[r].op /\ m.id = c
    BY <1>1, <1>2 DEF Request, Idle, Step, Op
  <1> HIDE DEF n, m
  <1>5. challenge' \in [Id -> Challenge] /\ ChallengeInv'
    BY <1>0, <1>1, <1>3 DEF ChallengeInv, Active
  <1>6. LimitTypes' /\ LimitsInv' /\ RowTypes'
    BY <1>0, <1>5, SameTypes, TypeParts DEF IInv, RowTypes, rows, locks
  <1>7. req'[r] = m
    BY <1>0 DEF IInv, TypeOK
  <1>8. RequestInv(r)'
    BY <1>2, <1>4, <1>7 DEF RequestInv, ShapeInv, SpentInv, RoleInv, NewInv, HoldInv, SendOp, UseOp
  <1>9. \A q \in Req \ {r} : Kept(q)
    BY <1>0, <1>1 DEF Kept, rows, locks
  <1> QED BY <1>0, <1>4, <1>5, <1>6, <1>8, <1>9, StepInv

\* The mail is sent or not; the challenge of one that was not is deleted.
LEMMA MailInv ==
  ASSUME IInv, NEW r \in Req, SendMail(r) \/ Discard(r)
  PROVE  IInv'
  <1>1. CASE SendMail(r) /\ End(r)
    BY <1>1, GoneInv DEF SendMail
  <1>2. CASE SendMail(r) /\ Goto(r, "discard") /\ UNCHANGED locks
    <2> DEFINE m == [req[r] EXCEPT !.pc = "discard"]
    <2>1. req[r] \in Request /\ req[r].pc = "mail" /\ req[r].id \in Id
      BY <1>2 DEF SendMail, At, IInv, TypeOK, RequestInv, ShapeInv
    <2>2. m \in Request /\ m.pc = "discard" /\ m.op = req[r].op /\ m.id = req[r].id /\ m.email = req[r].email
      BY <2>1 DEF Request, Step
    <2>3. req' = [req EXCEPT ![r] = m]
      BY <1>2 DEF Goto
    <2> HIDE DEF m
    <2>4. req'[r] = m /\ user' = user
      BY <1>2, <2>3 DEF IInv, TypeOK, SendMail, rows
    <2>5. RequestInv(r)'
      BY <2>1, <2>2, <2>4 DEF IInv, RequestInv, ShapeInv, SpentInv, RoleInv, NewInv, HoldInv
    <2> QED BY <1>2, <2>2, <2>3, <2>5, MoveInv DEF SendMail
  <1>3. CASE Discard(r)
    <2>1. challenge \in [Id -> Challenge] /\ ChallengeInv /\ Gone \in Challenge /\ Gone.state = "gone"
      BY DEF IInv, TypeOK, Challenge, Gone, Blank
    <2>2. /\ challenge' \in [Id -> Challenge] /\ ChallengeInv'
          /\ \A c \in Id : challenge[c].state = "spent" => challenge'[c] = challenge[c]
      BY <1>3, <2>1 DEF Discard, Deleted, ChallengeInv, Active
    <2>3. LimitTypes' /\ LimitsInv'
      BY <1>3, SameTypes DEF Discard
    <2> QED BY <1>3, <2>2, <2>3, EndInv DEF Discard
  <1> QED BY <1>1, <1>2, <1>3 DEF SendMail

\* What a try makes of a challenge
LEMMA TriedTypes ==
  ASSUME IInv, NEW r \in Req, NEW c \in Id, Active(c)
  PROVE  /\ Tried(c, r) \in Challenge
         /\ Tried(c, r).state = "active" => Tried(c, r).attempts < MaxAttempts /\ Tried(c, r).left > 0
         /\ req[r].right => /\ Tried(c, r).state = "spent" /\ Tried(c, r).purpose = challenge[c].purpose
                            /\ Tried(c, r).email = challenge[c].email
  <1> DEFINE h == challenge[c]
  <1>1. h \in Challenge /\ h.attempts < MaxAttempts /\ h.left > 0 /\ MaxAttempts \in Nat
    BY EmailAssumption DEF IInv, TypeOK, ChallengeInv
  <1>2. CASE req[r].right
    <2>1. Tried(c, r) = [h EXCEPT !.state = "spent", !.left = 0]
      BY <1>2 DEF Tried
    <2>2. \A g \in Challenge : LET s == [g EXCEPT !.state = "spent", !.left = 0]
                              IN  s \in Challenge /\ s.state = "spent" /\ s.purpose = g.purpose /\ s.email = g.email
      BY DEF Challenge
    <2>3. /\ Tried(c, r) \in Challenge /\ Tried(c, r).state = "spent"
          /\ Tried(c, r).purpose = h.purpose /\ Tried(c, r).email = h.email
      BY <1>1, <2>1, <2>2
    <2> QED BY <2>3
  <1>3. CASE ~req[r].right /\ h.attempts + 1 < MaxAttempts
    <2>1. Tried(c, r) = [h EXCEPT !.attempts = @ + 1]
      BY <1>3 DEF Tried
    <2> QED BY <1>1, <1>3, <2>1 DEF Challenge
  <1>4. CASE ~req[r].right /\ ~(h.attempts + 1 < MaxAttempts)
    BY <1>4 DEF Tried, Gone, Blank, Challenge
  <1> QED BY <1>2, <1>3, <1>4

\* _CONSUME_SCRIPT spends a code only for the request that presents it.
LEMMA ConsumeInv ==
  ASSUME IInv, NEW r \in Req, Consume(r)
  PROVE  IInv'
  <1> DEFINE c == req[r].id
             step == IF req[r].op = "register" THEN "role" ELSE "commit"
             m == [req[r] EXCEPT !.pc = step]
  <1>0. At(r, "consume") /\ UNCHANGED <<limits, rows>>
    BY DEF Consume
  <1>1. /\ req[r].op \in UseOp /\ c \in Id /\ req[r].email \in Email /\ req[r] \in Request
        /\ req[r].op = "reset" => userLock[req[r].email] = r /\ CanAuthenticate(req[r].email)
    BY <1>0 DEF IInv, TypeOK, RequestInv, ShapeInv, HoldInv, At
  <1>2. challenge \in [Id -> Challenge] /\ ChallengeInv /\ LimitTypes' /\ LimitsInv'
    BY <1>0, SameTypes DEF IInv, TypeOK
  <1>3. CASE ~(Active(c) /\ Matches(c, r)) /\ End(r) /\ UNCHANGED challenge
    BY <1>0, <1>3, GoneInv
  <1>4. CASE Active(c) /\ Matches(c, r) /\ challenge' = [challenge EXCEPT ![c] = Tried(c, r)]
    <2>1. /\ challenge' \in [Id -> Challenge] /\ ChallengeInv'
          /\ \A d \in Id : challenge[d].state = "spent" => challenge'[d] = challenge[d]
      BY <1>1, <1>2, <1>4, TriedTypes DEF ChallengeInv, Active
    <2>2. CASE ~req[r].right
      BY <1>0, <1>2, <1>4, <2>1, <2>2, EndInv DEF Consume
    <2>3. CASE req[r].right
      <3>1. req' = [req EXCEPT ![r] = m] /\ UNCHANGED locks
        BY <1>4, <2>3 DEF Consume, Goto
      <3>2. /\ m \in Request /\ m.pc = step /\ m.op = req[r].op /\ m.id = c /\ m.email = req[r].email
        BY <1>1 DEF Request, Step
      <3> HIDE DEF m
      <3>3. req'[r] = m
        BY <3>1 DEF IInv, TypeOK
      <3>4. challenge'[c].state = "spent" /\ Matches(c, r)'
        BY <1>1, <1>2, <1>4, <2>3, <3>2, <3>3, TriedTypes DEF Matches
      <3>5. RequestInv(r)'
        BY <1>0, <1>1, <3>1, <3>2, <3>3, <3>4
           DEF RequestInv, ShapeInv, SpentInv, RoleInv, NewInv, HoldInv, UseOp, rows, locks, CanAuthenticate
      <3>6. RowTypes'
        BY <1>0, <2>1, <3>1, TypeParts DEF IInv, RowTypes, rows, locks
      <3>7. \A q \in Req \ {r} : Kept(q)
        BY <1>0, <2>1, <3>1 DEF Kept, rows, locks
      <3>8. ~(m.pc = "commit" /\ m.op \in {"register", "create"})
        BY <1>1, <3>2 DEF UseOp
      <3> QED BY <1>2, <2>1, <3>1, <3>2, <3>5, <3>6, <3>7, <3>8, StepInv
    <2> QED BY <2>2, <2>3
  <1> QED BY <1>3, <1>4 DEF Consume

\* register, up to the insertion; create_user from its look on
LEMMA RegisterInv ==
  ASSUME IInv, NEW r \in Req, LockNormalRole(r) \/ LookForUser(r) \/ Flush(r)
  PROVE  IInv'
  <1>0. UNCHANGED <<limits, challenge, rows>>
    BY DEF LockNormalRole, LookForUser, Flush
  <1>1. CASE End(r)
    BY <1>0, <1>1, GoneInv
  <1>2. req[r] \in Request /\ RequestInv(r)
    BY DEF IInv, TypeOK
  <1>3. CASE LockNormalRole(r) /\ ~End(r)
    <2> DEFINE m == [req[r] EXCEPT !.pc = "look"]
    <2>1. /\ req' = [req EXCEPT ![r] = m] /\ roleLock' = r /\ Free(roleLock, r) /\ normal
          /\ UNCHANGED userLock /\ req[r].pc = "role"
      BY <1>3 DEF LockNormalRole, Goto, At
    <2>2. m \in Request /\ m.pc = "look" /\ m.op = req[r].op /\ m.id = req[r].id /\ m.email = req[r].email
      BY <1>2 DEF Request, Step
    <2> HIDE DEF m
    <2>3. req'[r] = m
      BY <2>1 DEF IInv, TypeOK
    <2>4. RequestInv(r)'
      BY <1>0, <1>2, <2>1, <2>2, <2>3
         DEF RequestInv, ShapeInv, SpentInv, RoleInv, NewInv, HoldInv, UseOp, rows, Matches
    <2>5. LimitTypes' /\ LimitsInv' /\ RowTypes' /\ ChallengeInv'
      BY <1>0, <2>1, SameTypes, TypeParts DEF IInv, RowTypes, rows
    <2>6. \A q \in Req \ {r} : Kept(q)
      BY <1>0, <2>1, EmailAssumption DEF Kept, rows, Free
    <2> QED BY <2>1, <2>2, <2>4, <2>5, <2>6, StepInv
  <1>4. ASSUME NEW step \in {"flush", "commit"}, Goto(r, step), UNCHANGED locks,
               req[r].pc \in {"look", "flush"},
               step = "commit" => user[req[r].email] = "none" /\ \A q \in Req : ~Inserting(q, req[r].email)
        PROVE  IInv'
    <2> DEFINE m == [req[r] EXCEPT !.pc = step]
    <2>1. req' = [req EXCEPT ![r] = m]
      BY <1>4 DEF Goto
    <2>2. m \in Request /\ m.pc = step /\ m.op = req[r].op /\ m.id = req[r].id /\ m.email = req[r].email
      BY <1>2 DEF Request, Step
    <2> HIDE DEF m
    <2>3. req'[r] = m
      BY <2>1 DEF IInv, TypeOK
    <2>4. RequestInv(r)'
      BY <1>0, <1>2, <1>4, <2>2, <2>3
         DEF RequestInv, ShapeInv, SpentInv, RoleInv, NewInv, HoldInv, UseOp, rows, locks, Matches
    <2> QED BY <1>0, <1>4, <2>1, <2>2, <2>4, MoveInv
  <1>5. CASE LookForUser(r) /\ ~End(r)
    BY <1>4, <1>5 DEF LookForUser, At
  <1>6. CASE Flush(r) /\ ~End(r)
    BY <1>4, <1>6 DEF Flush, At
  <1> QED BY <1>1, <1>3, <1>5, <1>6

\* A request at its commit is the only one to insert its address, and nobody has it.
LEMMA Inserters ==
  ASSUME IInv, NEW r \in Req, NEW q \in Req \ {r}, Inserting(r, req[r].email)
  PROVE  /\ req[r].email \in Email /\ user[req[r].email] = "none"
         /\ ~Inserting(q, req[r].email)
  BY DEF IInv, RequestInv, ShapeInv, NewInv, InsertsUnique, Inserting, At

\* The row that is inserted is the only one of its address.
LEMMA CommitRegisterInv ==
  ASSUME IInv, NEW r \in Req, CommitRegister(r)
  PROVE  IInv'
  <1> DEFINE e == req[r].email
             m == [req[r] EXCEPT !.pc = "load"]
  <1>0. /\ At(r, "commit") /\ req[r].op = "register" /\ user' = [user EXCEPT ![e] = "active"]
        /\ Release(r) /\ req' = [req EXCEPT ![r] = m]
        /\ UNCHANGED <<limits, challenge, normal, open, mix>>
    BY DEF CommitRegister, Goto
  <1>1. e \in Email /\ user[e] = "none" /\ req[r] \in Request /\ req[r].id \in Id
    BY <1>0 DEF IInv, TypeOK, RequestInv, ShapeInv, NewInv, At, UseOp
  <1>2. m \in Request /\ m.pc = "load" /\ m.op = req[r].op /\ m.id = req[r].id /\ m.email = e
    BY <1>1 DEF Request, Step
  <1> HIDE DEF m
  <1>3. req'[r] = m
    BY <1>0 DEF IInv, TypeOK
  <1>4. RequestInv(r)'
    BY <1>0, <1>1, <1>2, <1>3 DEF RequestInv, ShapeInv, SpentInv, RoleInv, NewInv, HoldInv, UseOp
  <1>5. LimitTypes' /\ LimitsInv' /\ ChallengeInv'
    BY <1>0, SameTypes
  <1>6. RowTypes'
    BY <1>0, <1>1, ReleaseTypes, TypeParts DEF IInv, RowTypes
  <1>7. \A q \in Req \ {r} : Kept(q)
    <2> TAKE q \in Req \ {r}
    <2>1. ~Inserting(q, e)
      BY <1>0, Inserters DEF Inserting
    <2>2. \A f \in Email : userLock[f] = q => userLock'[f] = q
      BY <1>0, ReleaseKeeps DEF IInv
    <2>3. roleLock = q => roleLock' = q
      BY <1>0, ReleaseKeeps DEF IInv
    <2>4. \A f \in Email : user'[f] = IF f = e THEN "active" ELSE user[f]
      BY <1>0 DEF IInv, TypeOK
    <2> QED BY <1>0, <2>1, <2>2, <2>3, <2>4 DEF Kept
  <1> QED BY <1>0, <1>2, <1>4, <1>5, <1>6, <1>7, StepInv

\* complete_login's look at the user touches the request only.
LEMMA LoadInv ==
  ASSUME IInv, NEW r \in Req, LoadRegistered(r)
  PROVE  IInv'
  <1> DEFINE b == CanAuthenticate(req[r].email)
             m == [req[r] EXCEPT !.pc = "login", !.eligible = b]
  <1>1. /\ req' = [req EXCEPT ![r] = m] /\ req[r].pc = "load"
        /\ UNCHANGED <<limits, challenge, rows, locks>>
    BY DEF LoadRegistered, At
  <1>2. req[r] \in Request /\ RequestInv(r)
    BY DEF IInv, TypeOK
  <1>3. b \in BOOLEAN
    BY DEF CanAuthenticate
  <1> HIDE DEF b
  <1>4. m \in Request /\ m.pc = "login" /\ m.op = req[r].op /\ m.id = req[r].id /\ m.email = req[r].email
    BY <1>2, <1>3 DEF Request, Step
  <1> HIDE DEF m
  <1>5. req'[r] = m
    BY <1>1 DEF IInv, TypeOK
  <1>6. RequestInv(r)'
    BY <1>1, <1>2, <1>4, <1>5
       DEF RequestInv, ShapeInv, SpentInv, RoleInv, NewInv, HoldInv, UseOp, rows, locks, Matches
  <1>7. ~(m.pc = "commit" /\ m.op \in {"register", "create"})
    BY <1>4
  <1> QED BY <1>1, <1>4, <1>6, <1>7, MoveInv

\* Who commits and ends: at most his own rows and the sessions change.
LEMMA CommitInv ==
  ASSUME IInv, NEW r \in Req, End(r), UNCHANGED <<limits, challenge, normal, mix>>,
         open' \subseteq Email,
         user' \in [Email -> {"none", "active", "barred"}],
         \A e \in Email : \/ user'[e] = user[e]
                          \/ /\ user'[e] # "none"
                             /\ \A q \in Req \ {r} : ~Inserting(q, e) /\ (userLock[e] = q => user[e] # "active")
  PROVE  IInv'
  <1>1. req' = [req EXCEPT ![r] = Idle] /\ Release(r)
    BY DEF End
  <1>2. LimitTypes' /\ LimitsInv' /\ ChallengeInv'
    BY SameTypes
  <1>3. RowTypes'
    BY <1>1, ReleaseTypes, TypeParts DEF IInv, RowTypes
  <1>4. \A q \in Req \ {r} : Kept(q)
    <2> TAKE q \in Req \ {r}
    <2>1. \A f \in Email : userLock[f] = q => userLock'[f] = q
      BY <1>1, ReleaseKeeps DEF IInv
    <2>2. roleLock = q => roleLock' = q
      BY <1>1, ReleaseKeeps DEF IInv
    <2> QED BY <2>1, <2>2 DEF Kept
  <1>5. Idle.pc # "commit"
    BY DEF Idle
  <1> QED BY <1>1, <1>2, <1>3, <1>4, <1>5, MoveTypes, EndedInv, StepInv

\* The commits of resets and of administrators change only rows that they hold, or a new one.
LEMMA CommitsInv ==
  ASSUME IInv, NEW r \in Req, CompleteLogin(r) \/ CommitReset(r) \/ CommitAdmin(r)
  PROVE  IInv'
  <1> DEFINE e == req[r].email
  <1>0. UNCHANGED <<limits, challenge, normal, mix>> /\ End(r)
    BY DEF CompleteLogin, CommitReset, CommitAdmin
  <1>1. e \in Email /\ open \subseteq Email /\ user \in [Email -> {"none", "active", "barred"}]
    BY DEF CompleteLogin, CommitReset, CommitAdmin, IInv, TypeOK, RequestInv, ShapeInv, At
  <1>2. CASE CompleteLogin(r) \/ CommitReset(r)
    <2>1. user' = user /\ open' \subseteq Email
      BY <1>1, <1>2 DEF CompleteLogin, CommitReset
    <2> QED BY <1>0, <1>1, <2>1, CommitInv
  <1>3. CASE CommitAdmin(r)
    <2>1. PICK state \in {"active", "barred"} \ {user[e]} :
             /\ user' = [user EXCEPT ![e] = state]
             /\ open' = IF state = "barred" THEN open \ {e} ELSE open
      BY <1>3 DEF CommitAdmin
    <2>2. At(r, "commit") /\ req[r].op \in {"create", "switch"}
      BY <1>3 DEF CommitAdmin, AdminOp, IInv, RequestInv, ShapeInv, At
    <2>3. \A q \in Req \ {r} : ~Inserting(q, e) /\ (userLock[e] = q => user[e] # "active")
      <3>1. CASE req[r].op = "create"
        BY <2>2, <3>1, Inserters DEF Inserting
      <3>2. CASE req[r].op = "switch"
        <4>1. userLock[e] = r /\ user[e] # "none"
          BY <2>2, <3>2 DEF IInv, RequestInv, HoldInv, At
        <4>2. \A q \in Req : Inserting(q, e) => user[e] = "none"
          BY DEF IInv, RequestInv, NewInv, Inserting, At
        <4> QED BY <4>1, <4>2
      <3> QED BY <2>2, <3>1, <3>2
    <2>4. user' \in [Email -> {"none", "active", "barred"}] /\ open' \subseteq Email
      BY <1>1, <2>1
    <2>5. \A f \in Email : f # e => user'[f] = user[f]
      BY <1>1, <2>1
    <2>6. user'[e] # "none"
      BY <1>1, <2>1
    <2> QED BY <1>0, <2>3, <2>4, <2>5, <2>6, CommitInv
  <1> QED BY <1>2, <1>3

\* The row lock, and what reset_password asks of the row
LEMMA LockUserInv ==
  ASSUME IInv, NEW r \in Req, LockUser(r)
  PROVE  IInv'
  <1> DEFINE e == req[r].email
             step == IF req[r].op = "reset" THEN "consume" ELSE "commit"
             m == [req[r] EXCEPT !.pc = step]
  <1>0. At(r, "lock") /\ Free(userLock[e], r) /\ UNCHANGED <<limits, challenge, rows>>
    BY DEF LockUser
  <1>1. CASE End(r)
    BY <1>0, <1>1, GoneInv
  <1>2. CASE ~End(r)
    <2>1. /\ req[r].op = "reset" => CanAuthenticate(e)
          /\ userLock' = [userLock EXCEPT ![e] = r]
          /\ req' = [req EXCEPT ![r] = m] /\ UNCHANGED roleLock
      BY <1>2 DEF LockUser, Goto
    <2>2. /\ e \in Email /\ req[r].op \in {"reset", "switch"} /\ req[r] \in Request
          /\ req[r].op = "switch" => user[e] # "none"
          /\ req[r].op = "reset" => req[r].id \in Id
          /\ userLock \in [Email -> Req \cup {NoReq}]
      BY <1>0 DEF IInv, TypeOK, RequestInv, ShapeInv, HoldInv, At, UseOp
    <2>3. m \in Request /\ m.pc = step /\ m.op = req[r].op /\ m.id = req[r].id /\ m.email = e
      BY <2>2 DEF Request, Step
    <2> HIDE DEF m
    <2>4. req'[r] = m /\ userLock'[e] = r /\ user' = user
      BY <1>0, <2>1, <2>2 DEF IInv, TypeOK, rows
    <2>5. RequestInv(r)'
      BY <2>1, <2>2, <2>3, <2>4
         DEF RequestInv, ShapeInv, SpentInv, RoleInv, NewInv, HoldInv, UseOp, CanAuthenticate
    <2>6. LimitTypes' /\ LimitsInv' /\ ChallengeInv'
      BY <1>0, SameTypes
    <2>7. RowTypes'
      BY <1>0, <2>1, <2>2, TypeParts DEF IInv, RowTypes, rows
    <2>8. \A q \in Req \ {r} : Kept(q)
      BY <1>0, <2>1, <2>2, EmailAssumption DEF Kept, rows, Free
    <2>9. ~(m.pc = "commit" /\ m.op \in {"register", "create"})
      BY <2>2, <2>3
    <2> QED BY <2>1, <2>3, <2>5, <2>6, <2>7, <2>8, <2>9, StepInv
  <1> QED BY <1>1, <1>2

\* Time passes, or the role is switched, while every request stands still.
LEMMA StillInv ==
  ASSUME IInv, LimitTypes', LimitsInv', RowTypes', ChallengeInv', UNCHANGED <<userLock, roleLock, user, req>>,
         \A c \in Id : challenge[c].state = "spent" => challenge'[c] = challenge[c],
         roleLock = NoReq \/ UNCHANGED normal
  PROVE  IInv'
  <1>1. \A q \in Req : Kept(q)
    BY EmailAssumption DEF Kept
  <1>2. \A q \in Req : RequestInv(q)'
    BY <1>1, Others DEF IInv
  <1>3. TypeOK'
    BY TypePartsNext DEF IInv, TypeOK
  <1>4. InsertsUnique'
    BY DEF IInv, InsertsUnique, Inserting, At
  <1> QED BY <1>2, <1>3, <1>4 DEF IInv

\* The role of new users is switched only while no registration holds it.
LEMMA SwitchInv ==
  ASSUME IInv, SwitchNormalRole
  PROVE  IInv'
  <1>1. LimitTypes' /\ LimitsInv' /\ ChallengeInv'
    BY SameTypes DEF SwitchNormalRole
  <1>2. RowTypes'
    BY TypeParts DEF IInv, SwitchNormalRole, RowTypes, locks
  <1> QED BY <1>1, <1>2, StillInv DEF SwitchNormalRole, locks

\* Time takes life from keys and adds age to codes at the same rate.
LEMMA TickInv ==
  ASSUME IInv, Tick
  PROVE  IInv'
  <1>0. LimitTypes /\ LimitsInv /\ RowTypes /\ ChallengeInv
    BY TypeParts DEF IInv
  <1>1. /\ Resend \in Nat \ {0} /\ HourLimit \in Nat \ {0} /\ HourWindow \in Nat \ {0}
        /\ IpLimit \in Nat \ {0} /\ IpWindow \in Nat \ {0}
    BY EmailAssumption
  <1>2. \A limit, window \in Nat : \A c \in [count : 0..limit, left : 0..window] :
           (c.count > 0 => c.left > 0) =>
              Aged(c) \in [count : 0..limit, left : 0..window] /\ (Aged(c).count > 0 => Aged(c).left > 0)
    <2> TAKE limit, window \in Nat
    <2> TAKE c \in [count : 0..limit, left : 0..window]
    <2>1. CASE c.left <= 1
      BY <2>1 DEF Aged, Expired
    <2>2. CASE ~(c.left <= 1)
      <3>1. Aged(c) = [c EXCEPT !.left = @ - 1]
        BY <2>2 DEF Aged
      <3> QED BY <2>2, <3>1
    <2> QED BY <2>1, <2>2
  <1>3. short' \in [Email -> 0..Resend]
    <2>1. ASSUME NEW e \in Email PROVE Less(short[e]) \in 0..Resend
      <3>1. short[e] \in 0..Resend
        BY <1>0 DEF LimitTypes
      <3> QED BY <1>1, <3>1 DEF Less
    <2> QED BY <2>1 DEF Tick
  <1>4. /\ hourly' \in [Email -> [count : 0..HourLimit, left : 0..HourWindow]]
        /\ \A e \in Email : hourly'[e].count > 0 => hourly'[e].left > 0
    BY <1>0, <1>1, <1>2 DEF Tick, LimitTypes
  <1>5. /\ perIp' \in [Host -> [count : 0..IpLimit, left : 0..IpWindow]]
        /\ \A h \in Host : perIp'[h].count > 0 => perIp'[h].left > 0
    BY <1>0, <1>1, <1>2 DEF Tick, LimitTypes
  <1>6. accepted' \subseteq [email : Email, ip : Host, age : 0..HourWindow - 1]
    <2> SUFFICES ASSUME NEW b \in accepted, b.age + 1 < HourWindow
                 PROVE  [b EXCEPT !.age = @ + 1] \in [email : Email, ip : Host, age : 0..HourWindow - 1]
      BY DEF Tick
    <2>1. b \in [email : Email, ip : Host, age : 0..HourWindow - 1]
      BY <1>0 DEF LimitTypes
    <2> QED BY <1>1, <2>1
  <1>7. /\ challenge' \in [Id -> Challenge] /\ ChallengeInv'
        /\ \A c \in Id : challenge[c].state = "spent" => challenge'[c] = challenge[c]
    <2> DEFINE next(c) == IF ~Active(c) THEN challenge[c]
                          ELSE IF challenge[c].left = 1 THEN Gone
                          ELSE [challenge[c] EXCEPT !.left = @ - 1]
    <2>1. challenge' = [c \in Id |-> next(c)]
      BY DEF Tick
    <2>2. ASSUME NEW c \in Id
          PROVE  /\ next(c) \in Challenge
                 /\ next(c).state = "active" => next(c).attempts < MaxAttempts /\ next(c).left > 0
                 /\ challenge[c].state = "spent" => next(c) = challenge[c]
      <3>1. challenge[c] \in Challenge
        BY <1>0 DEF RowTypes
      <3>2. CASE ~Active(c)
        BY <3>1, <3>2 DEF Active
      <3>3. CASE Active(c) /\ challenge[c].left = 1
        BY <3>3 DEF Active, Gone, Blank, Challenge
      <3>4. CASE Active(c) /\ challenge[c].left # 1
        <4>1. next(c) = [challenge[c] EXCEPT !.left = @ - 1]
          BY <3>4
        <4>2. challenge[c].left \in Nat /\ challenge[c].left > 0 /\ challenge[c].attempts < MaxAttempts
          BY <1>0, <3>1, <3>4 DEF ChallengeInv, Challenge
        <4> QED BY <3>1, <3>4, <4>1, <4>2 DEF Challenge, Active
      <3> QED BY <3>2, <3>3, <3>4
    <2> HIDE DEF next
    <2>3. \A c \in Id : challenge'[c] = next(c)
      BY <2>1
    <2> QED BY <2>1, <2>2, <2>3 DEF ChallengeInv, Active
  <1>8. LimitTypes'
    BY <1>3, <1>4, <1>5, <1>6 DEF LimitTypes
  <1>9. RowTypes'
    BY <1>0, <1>7 DEF RowTypes, Tick, rows, locks
  <1>10. LimitsInv'
    BY <1>0, TickLimits
  <1> QED BY <1>7, <1>8, <1>9, <1>10, StillInv DEF Tick, rows, locks

-----------------------------------------------------------------------------
\* Nothing is counted, sent, locked or requested at the start.
LEMMA InitInv == Init => IInv
  <1> SUFFICES ASSUME Init PROVE IInv
    OBVIOUS
  <1>1. LimitTypes
    BY EmailAssumption DEF Init, LimitTypes, Expired
  <1>1a. LimitsInv
    <2>1. IsFiniteSet({}) /\ \A limit, window \in Nat \ {0} : Counted({}, Expired, limit, window)
      <3>1. \A to : {a \in {} : 0 <= a.age /\ a.age < to} = {}
        OBVIOUS
      <3>2. \A to : Number({}, 0, to) = 0
        BY <3>1, FS_EmptySet DEF Number
      <3> QED BY <3>2, FS_EmptySet DEF Counted, Expired
    <2>2. /\ HourLimit \in Nat \ {0} /\ HourWindow \in Nat \ {0}
          /\ IpLimit \in Nat \ {0} /\ IpWindow \in Nat \ {0}
      BY EmailAssumption
    <2>3. \A e \in Email : ToEmail(e) = {} /\ hourly[e] = Expired
      BY DEF Init, ToEmail
    <2>4. \A h \in Host : FromIp(h) = {} /\ perIp[h] = Expired
      BY DEF Init, FromIp
    <2>5. CountInv
      BY <2>1, <2>2, <2>3, <2>4 DEF Init, CountInv
    <2> QED BY <2>5 DEF Init, LimitsInv, DistanceInv
  <1>2. RowTypes
    BY DEF Init, RowTypes, Challenge, Blank
  <1>3. TypeOK
    BY <1>1, <1>2, TypeParts, MoveTypes DEF Init
  <1>4. ChallengeInv
    BY DEF Init, ChallengeInv, Active, Blank
  <1>5. InsertsUnique
    BY DEF Init, InsertsUnique, Inserting, At, Idle
  <1>6. \A r \in Req : RequestInv(r)
    BY DEF Init, RequestInv, ShapeInv, SpentInv, RoleInv, NewInv, HoldInv, Idle, UseOp
  <1> QED BY <1>1a, <1>3, <1>4, <1>5, <1>6 DEF IInv

\* Every step preserves the invariant.
LEMMA NextInv == IInv /\ [Next]_vars => IInv'
  <1> SUFFICES ASSUME IInv, [Next]_vars PROVE IInv'
    OBVIOUS
  <1>1. CASE UNCHANGED vars
    BY <1>1, StillInv, SameTypes DEF vars, limits, rows, locks
  <1>2. CASE SwitchNormalRole \/ Tick
    BY <1>2, SwitchInv, TickInv
  <1>3. ASSUME NEW r \in Req,
               \/ \E s \in Spelling, peer \in Host, f \in Forwarded : StartSend(r, s, peer, f)
               \/ \E s \in Spelling, c \in mix.id, right \in BOOLEAN : StartUse(r, s, c, right)
               \/ \E e \in Email : StartAdmin(r, e)
        PROVE  IInv'
    BY <1>3, StartInv
  <1>4. ASSUME NEW r \in Req,
               \/ \E c \in Id : StoreChallenge(r, c)
               \/ CheckLimits(r) \/ SendMail(r) \/ Discard(r)
        PROVE  IInv'
    BY <1>4, StoreChallengeInv, CheckLimitsInv, MailInv
  <1>5. ASSUME NEW r \in Req,
               \/ Consume(r) \/ LockNormalRole(r) \/ LookForUser(r) \/ Flush(r)
               \/ CommitRegister(r) \/ LoadRegistered(r) \/ CompleteLogin(r)
               \/ LockUser(r) \/ CommitReset(r) \/ CommitAdmin(r)
        PROVE  IInv'
    BY <1>5, ConsumeInv, RegisterInv, CommitRegisterInv, LoadInv, CommitsInv, LockUserInv
  <1>6. ASSUME NEW r \in Req, Abort(r)
        PROVE  IInv'
    BY <1>6, GoneInv DEF Abort
  <1> QED BY <1>1, <1>2, <1>3, <1>4, <1>5, <1>6 DEF Next

\* The invariant is inductive: what a registration or a reset relies on between its
\* code and its commit holds in every reachable state.
THEOREM Inductive == Spec => []IInv
  BY InitInv, NextInv, PTL DEF Spec

\* Keys, rows and requests always have the shapes the code gives them; no count ever
\* exceeds its limit, and no key that counts loses its expiry.
THEOREM TypeCorrect == Spec => []TypeOK
  <1>1. IInv => TypeOK
    BY DEF IInv
  <1> QED BY Inductive, <1>1, PTL

\* Codes to one address keep their distance, and whatever is requested, spelt and rejected in
\* whatever order, less than twice the limit is let through in any stretch of a window's length.
THEOREM Throttled == Spec => []ThrottleHolds
  <1>1. ASSUME IInv PROVE ThrottleHolds
    <2>1. LimitTypes /\ LimitsInv
      BY <1>1, TypeParts DEF IInv
    <2>2. /\ HourLimit \in Nat \ {0} /\ HourWindow \in Nat \ {0}
          /\ IpLimit \in Nat \ {0} /\ IpWindow \in Nat \ {0}
      BY EmailAssumption
    <2>3. IsFiniteSet(accepted) /\ \A a \in accepted : a.age \in Nat /\ a.age < HourWindow
      BY <2>1, <2>2 DEF LimitTypes, LimitsInv, CountInv
    <2>4. ASSUME NEW e \in Email PROVE Cardinality({a \in accepted : a.email = e}) < 2 * HourLimit
      <3>1. Counted(ToEmail(e), hourly[e], HourLimit, HourWindow)
        BY <2>1 DEF LimitsInv, CountInv
      <3>2. hourly[e] \in [count : 0..HourLimit, left : 0..HourWindow]
        BY <2>1 DEF LimitTypes
      <3>3. IsFiniteSet(ToEmail(e)) /\ \A a \in ToEmail(e) : a.age \in Nat
        BY <2>3, FS_Subset DEF ToEmail
      <3>4. Number(ToEmail(e), 0, HourWindow) < 2 * HourLimit
        BY <2>2, <3>1, <3>2, <3>3, CountedBound
      <3>5. {a \in ToEmail(e) : 0 <= a.age /\ a.age < HourWindow} = {a \in accepted : a.email = e}
        BY <2>3 DEF ToEmail
      <3> QED BY <3>4, <3>5 DEF Number
    <2>5. ASSUME NEW h \in Host PROVE Cardinality({a \in Recent(IpWindow) : a.ip = h}) < 2 * IpLimit
      <3>1. Counted(FromIp(h), perIp[h], IpLimit, IpWindow)
        BY <2>1 DEF LimitsInv, CountInv
      <3>2. perIp[h] \in [count : 0..IpLimit, left : 0..IpWindow]
        BY <2>1 DEF LimitTypes
      <3>3. IsFiniteSet(FromIp(h)) /\ \A a \in FromIp(h) : a.age \in Nat
        BY <2>3, FS_Subset DEF FromIp
      <3>4. Number(FromIp(h), 0, IpWindow) < 2 * IpLimit
        BY <2>2, <3>1, <3>2, <3>3, CountedBound
      <3>5. {a \in FromIp(h) : 0 <= a.age /\ a.age < IpWindow} = {a \in Recent(IpWindow) : a.ip = h}
        BY <2>3 DEF FromIp, Recent
      <3> QED BY <3>4, <3>5 DEF Number
    <2> QED BY <2>1, <2>4, <2>5 DEF ThrottleHolds, LimitsInv, DistanceInv
  <1> QED BY Inductive, <1>1, PTL

\* What _RATE_LIMIT_SCRIPT rejects leaves no part of its quota behind and prolongs no window.
THEOREM RejectionsLeaveNoTrace == Spec => RejectedLeavesNoTrace
  <1>1. ASSUME IInv, NEW r \in Req, CheckLimits(r), accepted' = accepted
        PROVE  /\ short' = short
               /\ \A e \in Email : hourly'[e].count = hourly[e].count /\ (hourly[e].count > 0 => hourly'[e] = hourly[e])
               /\ \A h \in Host : perIp'[h].count = perIp[h].count /\ (perIp[h].count > 0 => perIp'[h] = perIp[h])
    <2> DEFINE e == req[r].email
               i == req[r].ip
               hour == Stepped(hourly[e], HourWindow)
               ip == Stepped(perIp[i], IpWindow)
    <2>1. e \in Email /\ i \in Host
      BY <1>1 DEF IInv, RequestInv, ShapeInv, At, CheckLimits
    <2>2. LimitTypes
      BY <1>1, TypeParts DEF IInv
    <2>3. /\ HourLimit \in Nat \ {0} /\ HourWindow \in Nat \ {0}
          /\ IpLimit \in Nat \ {0} /\ IpWindow \in Nat \ {0}
      BY EmailAssumption
    <2>4. SteppedBack(hour).count = hourly[e].count /\ (hourly[e].count > 0 => SteppedBack(hour) = hourly[e])
      BY <2>1, <2>2, <2>3, SteppedTypes DEF LimitTypes
    <2>5. SteppedBack(ip).count = perIp[i].count /\ (perIp[i].count > 0 => SteppedBack(ip) = perIp[i])
      BY <2>1, <2>2, <2>3, SteppedTypes DEF LimitTypes
    <2> HIDE DEF hour, ip
    <2>6. CASE UNCHANGED limits
      BY <2>6 DEF limits
    <2>7. CASE hourly' = [hourly EXCEPT ![e] = SteppedBack(hour)] /\ UNCHANGED <<short, perIp>>
      BY <2>1, <2>2, <2>4, <2>7 DEF LimitTypes
    <2>8. CASE /\ hourly' = [hourly EXCEPT ![e] = SteppedBack(hour)]
               /\ perIp' = [perIp EXCEPT ![i] = SteppedBack(ip)]
               /\ UNCHANGED short
      BY <2>1, <2>2, <2>4, <2>5, <2>8 DEF LimitTypes
    <2>9. CASE /\ short[e] = 0 /\ short' = [short EXCEPT ![e] = Resend]
               /\ hour.count <= HourLimit
               /\ hourly' = [hourly EXCEPT ![e] = hour]
               /\ perIp' = [perIp EXCEPT ![i] = ip]
               /\ accepted' = accepted \cup {[email |-> e, ip |-> i, age |-> 0]}
      <3>1. [email |-> e, ip |-> i, age |-> 0] \in accepted
        BY <1>1, <2>9
      <3>2. short[e] + 0 >= Resend
        BY <1>1, <3>1 DEF IInv, LimitsInv, DistanceInv
      <3> QED BY <2>9, <3>2, EmailAssumption
    <2> QED BY <1>1, <2>6, <2>7, <2>8, <2>9 DEF CheckLimits, hour, ip
  <1>2. IInv => [\A r \in Req : CheckLimits(r) /\ accepted' = accepted =>
          /\ short' = short
          /\ \A e \in Email : hourly'[e].count = hourly[e].count /\ (hourly[e].count > 0 => hourly'[e] = hourly[e])
          /\ \A h \in Host : perIp'[h].count = perIp[h].count /\ (perIp[h].count > 0 => perIp'[h] = perIp[h])]_vars
    BY <1>1
  <1> QED BY Inductive, <1>2, PTL DEF RejectedLeavesNoTrace

\* When a registration or a reset commits, its code was spent on it, and what was checked
\* before still holds: the locks and the unique index keep it so.
THEOREM CommitsJustified == Spec => CommitsAreJustified
  <1>1. ASSUME IInv, NEW r \in Req, CommitRegister(r) \/ CommitReset(r)
        PROVE  /\ challenge[req[r].id].state = "spent" /\ Matches(req[r].id, r)
               /\ IF req[r].op = "register" THEN user[req[r].email] = "none" /\ normal
                  ELSE CanAuthenticate(req[r].email)
    BY <1>1 DEF CommitRegister, CommitReset, At, IInv, RequestInv, SpentInv, RoleInv, NewInv, HoldInv, UseOp
  <1>2. IInv => [\A r \in Req :
          CommitRegister(r) \/ CommitReset(r) =>
             /\ challenge[req[r].id].state = "spent" /\ Matches(req[r].id, r)
             /\ IF req[r].op = "register" THEN user[req[r].email] = "none" /\ normal
                ELSE CanAuthenticate(req[r].email)]_vars
    BY <1>1
  <1> QED BY Inductive, <1>2, PTL DEF CommitsAreJustified

-----------------------------------------------------------------------------
(* Refinement *)

Issued == {c \in Id : challenge[c].state # "none"}
Spent == {c \in Id : challenge[c].state = "spent"}
Chances == [c \in Id |-> IF Active(c) THEN MaxAttempts - challenge[c].attempts ELSE 0]

\* One challenge changes.
LEMMA OneChanges ==
  ASSUME NEW c \in Id, NEW h, challenge \in [Id -> Challenge], challenge' = [challenge EXCEPT ![c] = h]
  PROVE  \A d \in Id : challenge'[d] = IF d = c THEN h ELSE challenge[d]
  OBVIOUS

\* The four ways in which challenges change are the four of OneTimeCode.
LEMMA StoreIssues ==
  ASSUME IInv, NEW r \in Req, NEW c \in Id, StoreChallenge(r, c)
  PROVE  Codes!Next
  <1>1. PICK h : h.state = "active" /\ h.attempts = 0 /\ challenge' = [challenge EXCEPT ![c] = h]
    BY DEF StoreChallenge
  <1>2. challenge[c].state = "none" /\ challenge \in [Id -> Challenge] /\ MaxAttempts \in Nat
    BY EmailAssumption DEF StoreChallenge, IInv, TypeOK
  <1>3. \A d \in Id : challenge'[d] = IF d = c THEN h ELSE challenge[d]
    BY <1>1, <1>2, OneChanges
  <1>4. c \notin Issued /\ Issued' = Issued \cup {c} /\ Spent' = Spent
    BY <1>1, <1>2, <1>3 DEF Issued, Spent
  <1>5. Chances' = [Chances EXCEPT ![c] = MaxAttempts]
    <2>1. challenge'[c].state = "active" /\ MaxAttempts - challenge'[c].attempts = MaxAttempts
      BY <1>1, <1>2, <1>3
    <2>2. \A d \in Id \ {c} : challenge'[d] = challenge[d]
      BY <1>3
    <2> QED BY <2>1, <2>2 DEF Chances, Active
  <1>6. Codes!Issue(c)
    BY <1>4, <1>5 DEF Codes!Issue, Issued, Spent, Chances
  <1> QED BY <1>6 DEF Codes!Next

\* A try is a miss or spends the code.
LEMMA ConsumeTries ==
  ASSUME IInv, NEW r \in Req, Consume(r)
  PROVE  Codes!Next \/ UNCHANGED <<Issued, Spent, Chances>>
  <1>0. PICK c \in Id : c = req[r].id
    BY DEF Consume, IInv, RequestInv, ShapeInv, At, UseOp
  <1>1. CASE UNCHANGED challenge
    BY <1>1 DEF Issued, Spent, Chances, Active
  <1>2. CASE Active(c) /\ challenge' = [challenge EXCEPT ![c] = Tried(c, r)]
    <2>1. challenge \in [Id -> Challenge] /\ MaxAttempts \in Nat /\ challenge[c] \in Challenge
      BY EmailAssumption DEF IInv, TypeOK
    <2>2. \A d \in Id : challenge'[d] = IF d = c THEN Tried(c, r) ELSE challenge[d]
      BY <1>2, <2>1, OneChanges
    <2>3. challenge[c].attempts < MaxAttempts /\ challenge[c].attempts \in Nat
      BY <1>2, <2>1 DEF IInv, ChallengeInv, Challenge
    <2>4. Chances[c] = MaxAttempts - challenge[c].attempts /\ Chances[c] > 0
      BY <1>2, <2>1, <2>3 DEF Chances
    <2>5. CASE req[r].right
      <3>1. Tried(c, r).state = "spent"
        BY <1>2, <2>1, <2>5, TriedTypes
      <3>2. Issued' = Issued /\ Spent' = Spent \cup {c}
        BY <1>2, <2>1, <2>2, <3>1 DEF Issued, Spent, Active
      <3>3. Chances' = [Chances EXCEPT ![c] = 0]
        BY <2>1, <2>2, <3>1 DEF Chances, Active
      <3>4. Codes!Spend(c)
        BY <2>4, <3>2, <3>3 DEF Codes!Spend, Issued, Spent, Chances
      <3> QED BY <2>1, <3>4 DEF Codes!Next
    <2>6. CASE ~req[r].right
      <3>1. \/ Tried(c, r).state = "active" /\ Tried(c, r).attempts = challenge[c].attempts + 1
            \/ Tried(c, r).state = "gone" /\ challenge[c].attempts + 1 = MaxAttempts
        <4>1. CASE challenge[c].attempts + 1 < MaxAttempts
          <5>1. Tried(c, r) = [challenge[c] EXCEPT !.attempts = @ + 1]
            BY <2>6, <4>1 DEF Tried
          <5> QED BY <1>2, <2>1, <5>1 DEF Challenge, Active
        <4>2. CASE ~(challenge[c].attempts + 1 < MaxAttempts)
          <5>1. Tried(c, r).state = "gone"
            BY <2>6, <4>2 DEF Tried, Gone, Blank
          <5> QED BY <2>1, <2>3, <4>2, <5>1
        <4> QED BY <4>1, <4>2
      <3>2. Issued' = Issued /\ Spent' = Spent
        BY <1>2, <2>1, <2>2, <3>1 DEF Issued, Spent, Active
      <3>3. Chances' = [Chances EXCEPT ![c] = @ - 1]
        <4>1. (IF Tried(c, r).state = "active" THEN MaxAttempts - Tried(c, r).attempts ELSE 0) = Chances[c] - 1
          BY <2>1, <2>3, <2>4, <3>1
        <4> QED BY <2>1, <2>2, <4>1 DEF Chances, Active
      <3>4. Codes!Miss(c)
        BY <2>4, <3>2, <3>3 DEF Codes!Miss, Issued, Spent, Chances
      <3> QED BY <2>1, <3>4 DEF Codes!Next
    <2> QED BY <2>5, <2>6
  <1> QED BY <1>0, <1>1, <1>2 DEF Consume

\* Challenges that lapse, or are deleted
LEMMA LapseWithdraws ==
  ASSUME IInv, NEW S \in SUBSET Id, \A c \in S : Active(c) /\ challenge'[c] = Gone,
         \A c \in Id \ S : /\ challenge'[c].state = challenge[c].state
                           /\ Active(c) => challenge'[c].attempts = challenge[c].attempts
  PROVE  Codes!Next
  <1>1. Issued' = Issued /\ Spent' = Spent
    BY DEF Issued, Spent, Active, Gone, Blank
  <1>2. Chances' = [c \in Id |-> IF c \in S THEN 0 ELSE Chances[c]]
    <2>1. ASSUME NEW c \in Id
          PROVE  (IF Active(c) THEN MaxAttempts - challenge[c].attempts ELSE 0)' =
                 IF c \in S THEN 0 ELSE Chances[c]
      BY DEF Chances, Active, Gone, Blank
    <2> QED BY <2>1 DEF Chances
  <1>3. Codes!Withdraw(S)
    BY <1>1, <1>2 DEF Codes!Withdraw, Issued, Spent, Chances
  <1> QED BY <1>3 DEF Codes!Next

\* A mail that could not be sent withdraws its code.
LEMMA DiscardWithdraws ==
  ASSUME IInv, NEW r \in Req, Discard(r)
  PROVE  Codes!Next \/ UNCHANGED <<Issued, Spent, Chances>>
  <1>0. PICK c \in Id : c = req[r].id
    BY DEF Discard, IInv, RequestInv, ShapeInv, At
  <1>1. challenge \in [Id -> Challenge]
    BY DEF IInv, TypeOK
  <1>2. CASE Active(c)
    <2>1. challenge' = [challenge EXCEPT ![c] = Gone]
      BY <1>0, <1>2 DEF Discard, Deleted
    <2>2. \A d \in Id : challenge'[d] = IF d = c THEN Gone ELSE challenge[d]
      BY <1>1, <2>1
    <2>3. PICK S \in SUBSET Id : S = {c}
      OBVIOUS
    <2>4. \A d \in S : Active(d) /\ challenge'[d] = Gone
      BY <1>2, <2>2, <2>3
    <2>5. ASSUME NEW d \in Id \ S
          PROVE  /\ challenge'[d].state = challenge[d].state
                 /\ Active(d) => challenge'[d].attempts = challenge[d].attempts
      BY <2>2, <2>3
    <2>6. S \in SUBSET Id
      OBVIOUS
    <2>7. Codes!Next
      BY <2>4, <2>5, <2>6, LapseWithdraws
    <2> QED BY <2>7
  <1>3. CASE ~Active(c)
    BY <1>0, <1>3 DEF Discard, Deleted, Issued, Spent, Chances, Active
  <1> QED BY <1>2, <1>3

\* Codes that expire are withdrawn, several at once.
LEMMA TickWithdraws ==
  ASSUME IInv, Tick
  PROVE  Codes!Next
  <1> DEFINE S == {c \in Id : Active(c) /\ challenge[c].left = 1}
  <1>1. challenge \in [Id -> Challenge]
    BY DEF IInv, TypeOK
  <1>2. \A c \in S : Active(c) /\ challenge'[c] = Gone
    BY DEF Tick
  <1>3. ASSUME NEW c \in Id \ S
        PROVE  /\ challenge'[c].state = challenge[c].state
               /\ Active(c) => challenge'[c].attempts = challenge[c].attempts
    <2>1. challenge'[c] = IF ~Active(c) THEN challenge[c] ELSE [challenge[c] EXCEPT !.left = @ - 1]
      BY <1>3 DEF Tick
    <2>2. challenge[c] \in Challenge
      BY <1>1
    <2> QED BY <2>1, <2>2 DEF Challenge
  <1> HIDE DEF S
  <1>4. S \in SUBSET Id
    BY DEF S
  <1> QED BY <1>2, <1>3, <1>4, LapseWithdraws

\* Nothing else touches challenges.
LEMMA OnlyThese ==
  ASSUME [Next]_vars
  PROVE  \/ UNCHANGED challenge \/ Tick
         \/ \E r \in Req : Consume(r) \/ Discard(r) \/ \E c \in Id : StoreChallenge(r, c)
  BY DEF Next, vars, StartSend, StartUse, StartAdmin, CheckLimits, SendMail, LockNormalRole, LookForUser, Flush,
         CommitRegister, LoadRegistered, CompleteLogin, LockUser, CommitReset, CommitAdmin, Abort, SwitchNormalRole

\* The hashes, _CONSUME_SCRIPT and the expiry of keys implement OneTimeCode: a code is
\* tried at most MaxAttempts times, is right at most once, and is worth nothing after that.
THEOREM CodesImplemented == Spec => CodesAreOneTime
  <1>1. Init => Codes!Init
    BY DEF Init, Codes!Init, Active, Blank
  <1>2. ASSUME IInv, [Next]_vars PROVE [Codes!Next]_<<Issued, Spent, Chances>>
    <2>1. CASE UNCHANGED challenge
      BY <2>1 DEF Issued, Spent, Chances, Active
    <2> QED BY <1>2, <2>1, OnlyThese, StoreIssues, ConsumeTries, DiscardWithdraws, TickWithdraws
  <1>3. Spec => Codes!Init /\ [][Codes!Next]_<<Issued, Spent, Chances>>
    BY Inductive, <1>1, <1>2, PTL DEF Spec
  <1> QED BY <1>3, PTL DEF CodesAreOneTime, Codes!Spec, Issued, Spent, Chances
=============================================================================
