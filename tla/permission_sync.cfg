SPECIFICATION InstallSpec
CONSTANTS
    Req = {r1, r2}
    User = {u1}
    App = {a1, a2}
    Admins = {u1}
    m1 = m1
    e1 = e1
    first = first
    second = second
    Main = {m1}
    Sub = {s1}
    Custom = {}
    Releases <- MCReleases
    Endpoint = {e1}
    RouteName = {first, second}
    MainApp = MainApp
    NoApp = NoApp
    NoReq = NoReq
    NoName = NoName
    Mixes = {{"sync", "disable", "enable", "edit", "assign"}, {"report", "disable", "enable", "edit", "assign"}, {"sync", "report"}, {"init"}}
    MaxVersion <- MCMaxVersion
    Key = {k1, k2}
    NoKey = NoKey
    NoFile = NoFile
    Unfit = Unfit
    Found = {0, 4, 8}
SYMMETRY Symmetry
INVARIANTS TypeOK CheckPassesAfterApply ReportsHold  Installed
PROPERTIES OnlyAdministratorsLoseVersions DecisionsKept SilentOnceDisabled
CHECK_DEADLOCK FALSE
