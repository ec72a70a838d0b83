SPECIFICATION Spec
CONSTANTS
    api = api
    worker = worker
    Writers = {api}
    Api = api
    PageSize = 1
    MaxEvents = 3
    MaxConnects = 1
    MaxFailures = 0
INVARIANT NoGaps
CHECK_DEADLOCK FALSE
