SPECIFICATION Spec
CONSTANTS
    tg = tg
    r1 = r1
    r2 = r2
    p1 = p1
    tu = tu
    r3 = r3
    p2 = p2
    Tools = {tg}
    Gated = {tg}
    NoTool = NoTool
    MaxLoops = 1
    Plans = {TRUE}
    Texts = {"text"}
    Slots = {r1, r2}
    Concurrency = 2
    Attempts = 1
    MaxStalls = 1
    Approvers = {p1}
    MaxAhead = 1
    MaxJobs = 2
    MaxApprovals = 1
    MaxCrashes = 0
    MaxFaults = 1
    MaxCancels = 1
SYMMETRY Interchangeable
INVARIANTS TypeOK AnswersAreResponses GateRespected
PROPERTY SettledIsFinal
CHECK_DEADLOCK FALSE
