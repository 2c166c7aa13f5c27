--------------------------- MODULE EmailChallenge ---------------------------
(***************************************************************************)
(* Registration and password reset by e-mail: VerificationChallengeService *)
(* with its two Lua scripts, EmailAuthService and the administrators'      *)
(* operations that get in its way.                                         *)
(*                                                                         *)
(* Time is kept as the time that is left to each Redis key and the age of  *)
(* each code sent, so it needs no bound.                                   *)
(***************************************************************************)
EXTENDS Integers, FiniteSets, Sequences

CONSTANTS
    Req, Id,
    Email,                \* addresses as they are stored, and ...
    Spelling, Normalized, \* ... as they are typed: Normalized \in [Spelling -> Email]
    Host, Trusted, Garbled, Forwarded,   \* peers, proxies, and X-Forwarded-For lists of them
    Resend, HourWindow, IpWindow, Life,  \* expiry of the four kinds of key
    HourLimit, IpLimit, MaxAttempts,
    NoEmail, NoId, NoReq, NoHost,
    Mixes                 \* bound on what occurs together: operations, addresses, clients, ids, requests,
                          \* and the users at the start

SendOp == {"send_register", "send_reset"}
UseOp == {"register", "reset"}
AdminOp == {"create", "switch", "switch_role"}
Op == SendOp \cup UseOp \cup AdminOp
Purpose(op) == IF op \in {"send_register", "register"} THEN "register" ELSE "password_reset"

ASSUME EmailAssumption ==
    /\ Normalized \in [Spelling -> Email]
    /\ Trusted \subseteq Host /\ Garbled \notin Host
    /\ Forwarded \subseteq Seq(Host \cup {Garbled})
    /\ {Resend, HourWindow, IpWindow, Life, HourLimit, IpLimit, MaxAttempts} \subseteq Nat \ {0}
    /\ NoEmail \notin Email /\ NoId \notin Id /\ NoReq \notin Req /\ NoHost \notin Host
    /\ Mixes \subseteq [op : SUBSET Op, email : SUBSET Email, ip : SUBSET Host,
                             user : SUBSET Email, id : SUBSET Id, req : SUBSET Req]

VARIABLES
    short,       \* of each address: time left before another code may be sent
    hourly,      \* of each address: codes counted, and time left to the count
    perIp,       \* the same of each client
    challenge,   \* hashes in Redis; "spent" and "gone" are no keys any more
    user,        \* committed rows of users
    normal,      \* whether the role that new users get is enabled
    userLock, roleLock,
    open,        \* the users with an active session
    req,         \* the requests being served
    mix,         \* what occurs in this behaviour
    accepted     \* history: the codes that were let through, with their age

vars == <<short, hourly, perIp, challenge, user, normal, userLock, roleLock, open, req, mix, accepted>>
limits == <<short, hourly, perIp, accepted>>
rows == <<user, normal, open, mix>>
locks == <<userLock, roleLock>>

Counter == [count : Nat, left : Nat]
Expired == [count |-> 0, left |-> 0]
Challenge == [state : {"none", "active", "spent", "gone"}, email : Email \cup {NoEmail},
              purpose : {"register", "password_reset"}, attempts : Nat, left : Nat]
Blank == [state |-> "none", email |-> NoEmail, purpose |-> "register", attempts |-> 0, left |-> 0]
Gone == [Blank EXCEPT !.state = "gone"]
Step == {"idle", "limits", "store", "mail", "discard", "consume", "lock", "role", "look",
         "flush", "commit", "load", "login"}
Request == [pc : Step, op : Op \cup {"none"}, email : Email \cup {NoEmail}, ip : Host \cup {NoHost},
            id : Id \cup {NoId}, right : BOOLEAN,
            eligible : BOOLEAN]    \* the user, as read for send_password_reset_code or complete_login, may log in
Idle == [pc |-> "idle", op |-> "none", email |-> NoEmail, ip |-> NoHost, id |-> NoId,
         right |-> FALSE, eligible |-> TRUE]

Init ==
    /\ short = [e \in Email |-> 0]
    /\ hourly = [e \in Email |-> Expired] /\ perIp = [h \in Host |-> Expired]
    /\ challenge = [c \in Id |-> Blank]
    /\ mix \in Mixes
    /\ user = [e \in Email |-> IF e \in mix.user THEN "active" ELSE "none"]
    /\ normal = TRUE
    /\ userLock = [e \in Email |-> NoReq] /\ roleLock = NoReq
    /\ open = {}
    /\ req = [r \in Req |-> Idle]
    /\ accepted = {}

-----------------------------------------------------------------------------
At(r, step) == req[r].pc = step
Goto(r, step) == req' = [req EXCEPT ![r].pc = step]
Free(holder, r) == holder \in {NoReq, r}
Active(c) == challenge[c].state = "active"
CanAuthenticate(e) == user[e] = "active"
Begin(r, c) == /\ At(r, "idle") /\ r \in mix.req /\ c.op \in mix.op /\ c.email \in mix.email
               /\ c.ip \in mix.ip \cup {NoHost}
               /\ req' = [req EXCEPT ![r] = c]

Release(r) == /\ userLock' = [e \in Email |-> IF userLock[e] = r THEN NoReq ELSE userLock[e]]
              /\ roleLock' = IF roleLock = r THEN NoReq ELSE roleLock
End(r) == Release(r) /\ req' = [req EXCEPT ![r] = Idle]

-----------------------------------------------------------------------------
(* A code is sent. *)

\* get_client_ip: proxies that are trusted tell whom they talk to; the list grows to
\* the right.
ClientIp(peer, forwarded) ==
    LET outside == {i \in DOMAIN forwarded : forwarded[i] \notin Trusted}
    IN  IF \/ peer \notin Trusted \/ forwarded = <<>>
           \/ \E i \in DOMAIN forwarded : forwarded[i] = Garbled THEN peer
        ELSE IF outside = {} THEN forwarded[1]
        ELSE forwarded[CHOOSE i \in outside : \A j \in outside : j <= i]

\* send_password_reset_code looks at the user first, send_registration_code does not.
StartSend(r, spelling, peer, forwarded) ==
    /\ mix.id = {} \/ \E c \in mix.id : challenge[c].state = "none"
    /\ \E op \in SendOp :
          LET e == Normalized[spelling]
          IN  Begin(r, [Idle EXCEPT !.pc = "limits", !.op = op, !.email = e,
                                    !.ip = ClientIp(peer, forwarded),
                                    !.eligible = op = "send_register" \/ CanAuthenticate(e)])
    /\ UNCHANGED <<limits, challenge, rows, locks>>

\* Mutant: the script forgets to set the expiry.
SteppedForGood(counter, window) == [counter EXCEPT !.count = @ + 1]
\* INCR, and EXPIRE when it is the first
Stepped(counter, window) == [count |-> counter.count + 1,
                             left |-> IF counter.count = 0 THEN window ELSE counter.left]
\* Mutants: the count stays; the key is deleted.
SteppedBackNot(counter) == counter
SteppedBackWhole(counter) == Expired
\* DECR
SteppedBack(counter) == [counter EXCEPT !.count = @ - 1]

\* _RATE_LIMIT_SCRIPT: what a rejected request has stepped is stepped back; its key of
\* the short window, which only it can have made, is deleted.
CheckLimits(r) ==
    LET e == req[r].email
        i == req[r].ip
        hour == Stepped(hourly[e], HourWindow)
        ip == Stepped(perIp[i], IpWindow)
    IN  /\ At(r, "limits")
        /\ \/ short[e] > 0 /\ End(r) /\ UNCHANGED limits
           \/ /\ short[e] = 0 /\ hour.count > HourLimit
              /\ hourly' = [hourly EXCEPT ![e] = SteppedBack(hour)]
              /\ End(r) /\ UNCHANGED <<short, perIp, accepted>>
           \/ /\ short[e] = 0 /\ hour.count <= HourLimit /\ ip.count > IpLimit
              /\ hourly' = [hourly EXCEPT ![e] = SteppedBack(hour)]
              /\ perIp' = [perIp EXCEPT ![i] = SteppedBack(ip)]
              /\ End(r) /\ UNCHANGED <<short, accepted>>
           \/ /\ short[e] = 0 /\ hour.count <= HourLimit /\ ip.count <= IpLimit
              /\ short' = [short EXCEPT ![e] = Resend]
              /\ hourly' = [hourly EXCEPT ![e] = hour]
              /\ perIp' = [perIp EXCEPT ![i] = ip]
              /\ accepted' = accepted \cup {[email |-> e, ip |-> i, age |-> 0]}
              /\ req' = [req EXCEPT ![r].pc = "store", ![r].ip = NoHost]
              /\ UNCHANGED locks
        /\ UNCHANGED <<challenge, rows>>

\* HSET and EXPIRE in one MULTI
StoreChallenge(r, c) ==
    /\ At(r, "store") /\ c \in mix.id /\ challenge[c].state = "none"
    /\ challenge' = [challenge EXCEPT ![c] = [state |-> "active", email |-> req[r].email, attempts |-> 0,
                                              purpose |-> Purpose(req[r].op), left |-> Life]]
    /\ req' = [req EXCEPT ![r] = [Idle EXCEPT !.op = req[r].op, !.id = c,
                                             !.pc = IF req[r].eligible THEN "mail" ELSE "discard"]]
    /\ UNCHANGED <<limits, rows, locks>>

\* The provider accepts the mail, or fails.
SendMail(r) ==
    /\ At(r, "mail")
    /\ \/ End(r)
       \/ Goto(r, "discard") /\ UNCHANGED locks
    /\ UNCHANGED <<limits, challenge, rows>>
Deleted(c) == IF Active(c) THEN [challenge EXCEPT ![c] = Gone] ELSE challenge
Discard(r) == /\ At(r, "discard")
              /\ challenge' = Deleted(req[r].id)
              /\ End(r)
              /\ UNCHANGED <<limits, rows>>

-----------------------------------------------------------------------------
(* A code is used. *)

\* A client sends any id, address and code; reset_password locks the user first.
StartUse(r, spelling, c, right) ==
    /\ \E op \in UseOp :
          Begin(r, [Idle EXCEPT !.pc = IF op = "reset" THEN "lock" ELSE "consume", !.op = op,
                                !.email = Normalized[spelling], !.id = c, !.right = right])
    /\ UNCHANGED <<limits, challenge, rows, locks>>

\* Mutant: one more wrong code than allowed.
TriedOnceMore(c, r) == IF req[r].right THEN [challenge[c] EXCEPT !.state = "spent", !.left = 0]
                       ELSE IF challenge[c].attempts < MaxAttempts
                       THEN [challenge[c] EXCEPT !.attempts = @ + 1]
                       ELSE Gone
\* _CONSUME_SCRIPT on a challenge of the right purpose and address.  History keeps
\* whose code it was.
Tried(c, r) == IF req[r].right THEN [challenge[c] EXCEPT !.state = "spent", !.left = 0]
               ELSE IF challenge[c].attempts + 1 < MaxAttempts
               THEN [challenge[c] EXCEPT !.attempts = @ + 1]
               ELSE Gone
Matches(c, r) == challenge[c].purpose = Purpose(req[r].op) /\ challenge[c].email = req[r].email
Consume(r) ==
    LET c == req[r].id
    IN  /\ At(r, "consume")
        /\ \/ ~(Active(c) /\ Matches(c, r)) /\ End(r) /\ UNCHANGED challenge
           \/ /\ Active(c) /\ Matches(c, r)
              /\ challenge' = [challenge EXCEPT ![c] = Tried(c, r)]
              /\ IF ~req[r].right THEN End(r)
                 ELSE Goto(r, IF req[r].op = "register" THEN "role" ELSE "commit") /\ UNCHANGED locks
        /\ UNCHANGED <<limits, rows>>

\* register: the role, locked until the commit; the address, looked at and inserted.
LockNormalRole(r) ==
    /\ At(r, "role") /\ Free(roleLock, r)
    /\ \/ ~normal /\ End(r)
       \/ normal /\ roleLock' = r /\ Goto(r, "look") /\ UNCHANGED userLock
    /\ UNCHANGED <<limits, challenge, rows>>
LookForUser(r) ==
    /\ At(r, "look")
    /\ \/ user[req[r].email] # "none" /\ End(r)
       \/ user[req[r].email] = "none" /\ Goto(r, "flush") /\ UNCHANGED locks
    /\ UNCHANGED <<limits, challenge, rows>>
\* The unique index on addresses: an INSERT waits for one that is not committed yet.
Inserting(q, e) == At(q, "commit") /\ req[q].op \in {"register", "create"} /\ req[q].email = e
Flush(r) ==
    LET e == req[r].email
    IN  /\ At(r, "flush") /\ \A q \in Req : ~Inserting(q, e)
        /\ \/ user[e] # "none" /\ End(r)
           \/ user[e] = "none" /\ Goto(r, "commit") /\ UNCHANGED locks
        /\ UNCHANGED <<limits, challenge, rows>>
CommitRegister(r) ==
    /\ At(r, "commit") /\ req[r].op = "register"
    /\ user' = [user EXCEPT ![req[r].email] = "active"]
    /\ Release(r) /\ Goto(r, "load")
    /\ UNCHANGED <<limits, challenge, normal, open, mix>>
\* user.id: the commit has expired the instance, so the row is read.
LoadRegistered(r) ==
    /\ At(r, "load")
    /\ req' = [req EXCEPT ![r].pc = "login", ![r].eligible = CanAuthenticate(req[r].email)]
    /\ UNCHANGED <<limits, challenge, rows, locks>>
\* complete_login waits for the row, and decides by the instance that was read before.
CompleteLogin(r) ==
    LET e == req[r].email
    IN  /\ At(r, "login") /\ userLock[e] = NoReq
        /\ open' = IF req[r].eligible THEN open \cup {e} ELSE open
        /\ End(r)
        /\ UNCHANGED <<limits, challenge, user, normal, mix>>

\* Mutant: the user is read without a lock.
LockUserNot(r) ==
    /\ At(r, "lock")
    /\ \/ req[r].op = "reset" /\ ~CanAuthenticate(req[r].email) /\ End(r)
       \/ /\ req[r].op = "reset" => CanAuthenticate(req[r].email)
          /\ Goto(r, IF req[r].op = "reset" THEN "consume" ELSE "commit")
          /\ UNCHANGED locks
    /\ UNCHANGED <<limits, challenge, rows>>
\* reset_password takes only users who may log in; administrators' operations take any.
LockUser(r) ==
    LET e == req[r].email
    IN  /\ At(r, "lock") /\ Free(userLock[e], r)
        /\ \/ req[r].op = "reset" /\ ~CanAuthenticate(e) /\ End(r)
           \/ /\ req[r].op = "reset" => CanAuthenticate(e)
              /\ userLock' = [userLock EXCEPT ![e] = r]
              /\ Goto(r, IF req[r].op = "reset" THEN "consume" ELSE "commit")
              /\ UNCHANGED roleLock
        /\ UNCHANGED <<limits, challenge, rows>>
\* The new password, and revoke_user_sessions
CommitReset(r) ==
    /\ At(r, "commit") /\ req[r].op = "reset"
    /\ open' = open \ {req[r].email}
    /\ End(r)
    /\ UNCHANGED <<limits, challenge, user, normal, mix>>

-----------------------------------------------------------------------------
(* Administrators: create_user; disable, enable or blacklist a user, with the sweep; *)
(* disable_role and enable_role of the role "normal"                                 *)
StartAdmin(r, e) ==
    /\ \E op \in AdminOp \ {"switch_role"} :
          /\ op = "switch" => user[e] # "none"
          /\ Begin(r, [Idle EXCEPT !.pc = IF op = "create" THEN "look" ELSE "lock",
                                   !.op = op, !.email = e])
    /\ UNCHANGED <<limits, challenge, rows, locks>>
CommitAdmin(r) ==
    LET e == req[r].email
    IN  /\ At(r, "commit") /\ req[r].op \in AdminOp
        /\ \E state \in {"active", "barred"} \ {user[e]} :
              /\ user' = [user EXCEPT ![e] = state]
              /\ open' = IF state = "barred" THEN open \ {e} ELSE open
        /\ End(r)
        /\ UNCHANGED <<limits, challenge, normal, mix>>
SwitchNormalRole ==
    /\ "switch_role" \in mix.op /\ roleLock = NoReq
    /\ normal' = ~normal
    /\ UNCHANGED <<limits, challenge, user, open, mix, locks, req>>

\* A worker dies, or Redis, PostgreSQL or the client's patience fails.
Abort(r) == ~At(r, "idle") /\ End(r) /\ UNCHANGED <<limits, challenge, rows>>

\* Redis expires keys.
Less(n) == IF n = 0 THEN 0 ELSE n - 1
Aged(counter) == IF counter.left <= 1 THEN Expired ELSE [counter EXCEPT !.left = @ - 1]
Tick ==
    /\ short' = [e \in Email |-> Less(short[e])]
    /\ hourly' = [e \in Email |-> Aged(hourly[e])]
    /\ perIp' = [h \in Host |-> Aged(perIp[h])]
    /\ challenge' = [c \in Id |-> IF ~Active(c) THEN challenge[c]
                                  ELSE IF challenge[c].left = 1 THEN Gone
                                  ELSE [challenge[c] EXCEPT !.left = @ - 1]]
    /\ accepted' = {[a EXCEPT !.age = @ + 1] : a \in {b \in accepted : b.age + 1 < HourWindow}}
    /\ UNCHANGED <<rows, locks, req>>

-----------------------------------------------------------------------------
Next == \/ \E r \in Req :
             \/ \E s \in Spelling, peer \in Host, f \in Forwarded : StartSend(r, s, peer, f)
             \/ \E s \in Spelling, c \in mix.id, right \in BOOLEAN : StartUse(r, s, c, right)
             \/ \E e \in Email : StartAdmin(r, e)
             \/ \E c \in Id : StoreChallenge(r, c)
             \/ CheckLimits(r) \/ SendMail(r) \/ Discard(r)
             \/ Consume(r) \/ LockNormalRole(r) \/ LookForUser(r) \/ Flush(r)
             \/ CommitRegister(r) \/ LoadRegistered(r) \/ CompleteLogin(r) \/ LockUser(r) \/ CommitReset(r)
             \/ CommitAdmin(r) \/ Abort(r)
        \/ SwitchNormalRole \/ Tick

Spec == Init /\ [][Next]_vars
-----------------------------------------------------------------------------
(* Properties *)

\* Keys, rows and requests have the shapes the code gives them; a count never exceeds
\* its limit, and a key that counts always has its expiry.
TypeOK ==
    /\ short \in [Email -> 0..Resend]
    /\ hourly \in [Email -> [count : 0..HourLimit, left : 0..HourWindow]]
    /\ perIp \in [Host -> [count : 0..IpLimit, left : 0..IpWindow]]
    /\ \A c \in {hourly[e] : e \in Email} \cup {perIp[h] : h \in Host} : c.count > 0 => c.left > 0
    /\ challenge \in [Id -> Challenge]
    /\ user \in [Email -> {"none", "active", "barred"}] /\ normal \in BOOLEAN
    /\ userLock \in [Email -> Req \cup {NoReq}] /\ roleLock \in Req \cup {NoReq}
    /\ open \subseteq Email
    /\ req \in [Req -> Request] /\ mix \in Mixes
    /\ accepted \subseteq [email : Email, ip : Host, age : 0..HourWindow - 1]

\* Whatever is requested, spelt and rejected in whatever order: codes to one address
\* keep their distance, and the fixed windows that start with the first code let less
\* than twice their limit through in any stretch of their length.
Recent(window) == {a \in accepted : a.age < window}
ThrottleHolds ==
    /\ \A a, b \in accepted : a.email = b.email /\ a.age < b.age => b.age - a.age >= Resend
    /\ \A e \in Email : Cardinality({a \in accepted : a.email = e}) < 2 * HourLimit
    /\ \A h \in Host : Cardinality({a \in Recent(IpWindow) : a.ip = h}) < 2 * IpLimit

\* A rejected request leaves no part of its quota behind, and prolongs no window.
RejectedLeavesNoTrace ==
    [][\A r \in Req : CheckLimits(r) /\ accepted' = accepted =>
          /\ short' = short
          /\ \A e \in Email : hourly'[e].count = hourly[e].count /\ (hourly[e].count > 0 => hourly'[e] = hourly[e])
          /\ \A h \in Host : perIp'[h].count = perIp[h].count /\ (perIp[h].count > 0 => perIp'[h] = perIp[h])]_vars

\* When a registration or a reset commits, its own code was spent on it, for this
\* address and purpose; and whatever administrators did since it was checked, the address is
\* still free and the role enabled, or the user may still log in.
CommitsAreJustified ==
    [][\A r \in Req :
          CommitRegister(r) \/ CommitReset(r) =>
             /\ challenge[req[r].id].state = "spent" /\ Matches(req[r].id, r)
             /\ IF req[r].op = "register" THEN user[req[r].email] = "none" /\ normal
                ELSE CanAuthenticate(req[r].email)]_vars

\* The hashes, the script and the expiry of keys implement one-time codes.
Codes == INSTANCE OneTimeCode WITH
    issued <- {c \in Id : challenge[c].state # "none"},
    spent <- {c \in Id : challenge[c].state = "spent"},
    chances <- [c \in Id |-> IF Active(c) THEN MaxAttempts - challenge[c].attempts ELSE 0]
CodesAreOneTime == Codes!Spec
=============================================================================
