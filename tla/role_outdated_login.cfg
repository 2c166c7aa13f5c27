SPECIFICATION Spec
CONSTANTS
    User = {u1}
    Sid = {s1}
    Req = {r1, r2}
    Role = {1, 2, 3}
    Permission = {1, 2}
    AdminRole = 1
    CorePermission = 1
    Seeded = {1, 2}
    Holding = {{2}}
    Name = {admin, a, b}
    AdminName = admin
    NoName = NoName
    NoUser = NoUser
    NoSid = NoSid
    NoReq = NoReq
    Mixes = {{"disable_role", "login"}}
    MaxVersion = 2
SYMMETRY Symmetry
INVARIANTS OpensOnlyWhatIsHeld
CHECK_DEADLOCK FALSE
