SPECIFICATION Spec
CONSTANTS
    c1 = c1
    c2 = c2
    m1 = m1
    NoEmail = NoEmail
    Clients = {c1, c2}
    Emails = {m1}
    MaxTokens = 4
    MaxFaults = 1
SYMMETRY Interchangeable
INVARIANTS TypeOK OneUserPerEmail OneLivePerFamily BurnedFamiliesAreDead SpentTokensAreRefused
CHECK_DEADLOCK FALSE
