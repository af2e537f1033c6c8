SPECIFICATION SvSpec
CONSTANTS
    p1 = p1
    r1 = r1
    Rule = {r1, r2}
    Def <- MCDef
    Scope = {p1}
    Workload = {w1}
    Amount = {1}
    MaxSpend = 1
    MaxHours = 1
    MaxPeriod = 1
    MaxFail = 1
    NoScope = NoScope
    NoRule = NoRule
    Sample = {m1, m2}
    RawHours = 1
    RollupHours = 2
    Batch = 1
    MaxHour = 4
    MaxBreak = 1
    Page = {g1}
    Topic = {u1, u2}
    Cap = 2
    MaxVersion = 2
INVARIANTS  NoSampleLost  
PROPERTIES  AlertSurfaces
CHECK_DEADLOCK FALSE
