SPECIFICATION Spec
CONSTANTS
    tg = tg
    r1 = r1
    r2 = r2
    p1 = p1
    tu = tu
    r3 = r3
    p2 = p2
    Tools = {tg}
    Gated = {tg}
    NoTool = NoTool
    MaxLoops = 1
    Plans = {FALSE}
    Texts = {"text"}
    Slots = {r1}
    Concurrency = 1
    Attempts = 3
    MaxStalls = 1
    Approvers = {p1}
    MaxAhead = 1
    MaxJobs = 2
    MaxApprovals = 1
    MaxCrashes = 0
    MaxFaults = 0
    MaxCancels = 1
SYMMETRY Interchangeable
PROPERTY CancelledIsFinal
CHECK_DEADLOCK FALSE
