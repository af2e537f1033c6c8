SPECIFICATION GwSpec
CONSTANTS
    Stream = {s1, s2, s3}
    Sender = {x1}
    Cap = 1
    None = None
    Org = {o1, o2}
    Box = {b1}
    Tok = {t1, t2}
    Cred = {k1, k2}
    MaxUses = 1
    MaxCrash = 2
    NoOrg = NoOrg
    NoTok = NoTok
    NoCred = NoCred
    NoNode = NoNode
INVARIANTS LatestIsRegistered
PROPERTIES NodeComesBack AgentConnects
CHECK_DEADLOCK FALSE
