SPECIFICATION Spec
CONSTANTS
    User = {u1}
    Sid = {s1}
    Pair = {k1, k2, k3}
    Req = {r1, r2}
    NoUser = NoUser
    NoSid = NoSid
    NoPair = NoPair
    NoReq = NoReq
    AccessTTL = 1
    RefreshTTL = 2
    Grace = 0
    Stall = 1
    Ops = {"disable", "enable", "blacklist", "reset"}
    MaxTime = 2
    MaxPwd = 2
SYMMETRY Symmetry
PROPERTY LoginUsesCurrentAccount
