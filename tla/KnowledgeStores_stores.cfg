SPECIFICATION MCSpec
CONSTANTS
    d1 = d1
    d2 = d2
    d3 = d3
    q1 = q1
    q2 = q2
    c1 = c1
    c2 = c2
    k1 = k1
    t1 = t1
    t2 = t2
    NoKey = NoKey
    Documents = {d1, d2, d3}
    Uncut = {d2}
    Blank = {d2, d3}
    Requests = {q1, q2}
    DocBudgets <- DocBudgetSet
    Callers = {c1, c2}
    Keys = {k1}
    Topics = {t1, t2}
    ChunkSize = 2
    ChunkOverlap = 1
    MaxLength = 8
    MemBudgets <- MemBudgetSet
INVARIANTS WordsAreKept ChunksAreBounded DocumentTypes ChunksOnce IndexedIsSearchable DeletedIsGone MemoryTypes KeyedOnce SavedIsFound
PROPERTY IngestionSettles
CHECK_DEADLOCK FALSE
