SPECIFICATION FairSpec
CONSTANTS
    tg = tg
    r1 = r1
    r2 = r2
    p1 = p1
    tu = tu
    r3 = r3
    p2 = p2
    Tools = {tg}
    Gated = {tg}
    NoTool = NoTool
    MaxLoops = 1
    Plans = {FALSE}
    Texts = {"text"}
    Slots = {r1, r2}
    Concurrency = 2
    Attempts = 2
    MaxStalls = 1
    Approvers = {}
    MaxAhead = 1
    MaxJobs = 2
    MaxApprovals = 6
    MaxCrashes = 1
    MaxFaults = 0
    MaxCancels = 0
INVARIANTS ToolBudget NoStrandedRun
PROPERTIES ProgressKept WorkEnds
CHECK_DEADLOCK FALSE
