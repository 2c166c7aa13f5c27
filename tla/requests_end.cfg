SPECIFICATION EitherSpec
CONSTANTS
    User = {u1, u2}
    Email = {e1, e2}
    Req = {r1, r2}
    Role = {1, 2}
    AdminRole = 1
    NoUser = NoUser
    NoEmail = NoEmail
    NoReq = NoReq
    Founder = {u1}
    Ops = {"create", "change_email", "rename", "assign", "force_logout"}
    MaxVersion = 2
    LoginUser = {u1}
    Sid = {s1, s2}
    Pair = {k1, k2}
    NoSid = NoSid
    NoPair = NoPair
    AccessTTL = 1
    RefreshTTL = 2
    Grace = 0
    Stall = 1
    SweepOps = {"blacklist", "recover"}
    MaxTime = 0
    MaxPwd = 1
INVARIANT SessionStoresAgree
PROPERTIES SessionSweepIsComplete EveryRequestEnds
