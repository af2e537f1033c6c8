SPECIFICATION IdSpec
CONSTANTS
    Browser = {b1}
    Sess = {x1, x2}
    Slot = {y1, y2}
    MaxGen = 2
    MaxReset = 1
    NoCookie = NoCookie
    NoSess = NoSess
    Keep = Keep
    Acct = {x1, x2}
    Sub = {g1}
    Link = {y1, y2}
    Visitor = {z1, z2}
    NoAcct = NoAcct
    NoSub = NoSub
    Org = {o1, o2}
    Person = {u1}
    Machine = {m1}
    Key = {k1}
    Call = {y1, y2}
    NoOrg = NoOrg
    NoOwner = NoOwner
    Ip = {x1, x2}
    Hit = {y1, y2}
    Limit = 2
    Window = 2
    MaxTime = 4
    NoBucket = NoBucket
SYMMETRY IdSymmetry
CONSTRAINT CountBound
INVARIANTS IdTypeOK TokenRedeemedOnce  CookieCurrent LogoutEffective NoTwinUnlessRaced  VoidAuthorityRefused TwiceTheLimit
