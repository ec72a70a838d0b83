SPECIFICATION Spec
CONSTANTS
    c1 = c1
    c2 = c2
    t1 = t1
    t2 = t2
    i1 = i1
    i2 = i2
    Callers = {c1, c2}
    Tools = {t1}
    Inputs = {i1, i2}
    MaxCalls = 3
    MaxFailures = 0
INVARIANTS OutputsOfTheirInput
CHECK_DEADLOCK FALSE
