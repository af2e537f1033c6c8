SPECIFICATION TnSpec
CONSTANTS
    Tenant = {n1}
    User = {x1, x2}
    Project = {p1}
    Wl = {w1}
    Ask = {y1, y2}
    NoTenant = NoTenant
    NoUser = NoUser
    NoProject = NoProject
    NoWl = NoWl
    Gpu = {x1}
    Label = {l2}
    GpusOf <- MCGpusOf
    MaxRes = 3
    Client = {y1, y2}
    Horizon = 2
    Org = {o1, o2}
    Box = {b1}
    Tok = {t1, t2}
    Cred = {k1, k2, k3, k4}
    MaxUses = 2
    MaxCrash = 1
    NoOrg = NoOrg
    NoTok = NoTok
    NoCred = NoCred
    NoNode = NoNode
SYMMETRY TnSymmetry
CONSTRAINT TnBound
INVARIANTS TnTypeOK NotOverbooked OneLiveCredential UsesCounted RemovalEndsStream
PROPERTIES AuthorizedThroughout
