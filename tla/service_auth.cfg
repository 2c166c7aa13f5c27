SPECIFICATION ClientSpec
CONSTANTS
    main = main
    jcc = jcc
    records = records
    statistics = statistics
    Req = {r1, r2, t1, t2}
    Thread = {t1, t2}
    App = {main, jcc}
    Code = {records, statistics}
    Scope <- MCScope
    Profile = {p1, p2}
    Offer <- MCOffer
    TTL = 3
    Skew = 1
    Stall = 1
    Main = main
    Jcc = jcc
    Configured = 0
    Margin = 1
    Patience = 1
    Delay = 1
    NoReq = NoReq
    NoRow = NoRow
    NoToken = NoToken
    Mixes <- MCMixes
    MaxTokens = 1
    MaxVersion = 3
SYMMETRY Symmetry
INVARIANTS TypeOK ClientTypeOK OldRightsDie TokensLast OneFetch
PROPERTIES AuditTells GrantsFinal
CHECK_DEADLOCK FALSE
