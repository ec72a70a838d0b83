SPECIFICATION FairSpec
CONSTANTS
    c1 = c1
    c2 = c2
    a1 = a1
    a2 = a2
    k1 = k1
    NoKey = NoKey
    NoSettings = NoSettings
    Clients = {c1, c2}
    Admins = {a1, a2}
    Keys = {k1}
    Limits = {0, 1}
    DefaultLimit = 1
    Budgets <- Mixes
INVARIANTS TypeOK OneExecutionPerKey NoneForgotten CacheFollows ChangesCompose QuotaKept
PROPERTY SettingsTakeHold
CHECK_DEADLOCK FALSE
