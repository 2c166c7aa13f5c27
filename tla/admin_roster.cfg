SPECIFICATION Spec
CONSTANTS
    User = {u1, u2, u3}
    Email = {e1, e2, e3}
    Req = {r1, r2}
    Role = {1}
    AdminRole = 1
    NoUser = NoUser
    NoEmail = NoEmail
    NoReq = NoReq
    Founder = {u1, u2}
    Ops = {"disable", "enable", "blacklist", "recover", "reset", "force_logout", "assign", "create", "rename", "change_email"}
    MaxVersion = 2
SYMMETRY Symmetry
INVARIANTS TypeOK AdminRemains EmailsUnique
PROPERTIES OthersAdvanceVersion RosterRefined
