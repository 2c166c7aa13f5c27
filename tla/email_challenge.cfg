SPECIFICATION Spec
CONSTANTS
    e1 = e1
    e2 = e2
    shouted = shouted
    proxy = proxy
    client = client
    c1 = c1
    c2 = c2
    r1 = r1
    r2 = r2
    Req = {r1, r2}
    Id = {c1, c2}
    Email = {e1, e2}
    Spelling = {e1, e2, shouted}
    Normalized <- MCNormalized
    Host = {proxy, client}
    Trusted = {proxy}
    Garbled = Garbled
    Forwarded <- MCForwarded
    Resend = 1
    HourWindow = 4
    IpWindow = 2
    Life = 2
    HourLimit = 2
    IpLimit = 2
    MaxAttempts = 2
    NoEmail = NoEmail
    NoId = NoId
    NoReq = NoReq
    NoHost = NoHost
    Mixes <- MCMixes
SYMMETRY Symmetry
INVARIANTS TypeOK ThrottleHolds
PROPERTIES RejectedLeavesNoTrace CommitsAreJustified CodesAreOneTime
CHECK_DEADLOCK FALSE
