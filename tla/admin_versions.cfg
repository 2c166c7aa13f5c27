SPECIFICATION Spec
CONSTANTS
    User = {u1, u2}
    Email = {e1, e2}
    Req = {r1, r2}
    Role = {1, 2}
    AdminRole = 1
    NoUser = NoUser
    NoEmail = NoEmail
    NoReq = NoReq
    Founder = {u1, u2}
    Ops = {"reset", "assign", "force_logout"}
    MaxVersion = 3
SYMMETRY Symmetry
PROPERTY VersionAdvances
