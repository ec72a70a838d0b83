SPECIFICATION FairSpec
CONSTANTS
    api = api
    worker = worker
    Writers = {api, worker}
    Api = api
    PageSize = 1
    MaxEvents = 3
    MaxConnects = 2
    MaxFailures = 1
INVARIANTS TypeOK CommitOrder ReplayHasNoGaps
PROPERTIES GivenInOrder EndedStreamsClose
CHECK_DEADLOCK FALSE
