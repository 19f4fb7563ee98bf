SPECIFICATION Spec
CONSTANTS
    t1 = t1
    t2 = t2
    o1 = o1
    o2 = o2
    o3 = o3
    o4 = o4
    p1 = p1
    p2 = p2
    p3 = p3
    None = None
    TaskIds <- OneTask
    Objects <- TwoObjects
    Operations <- TwoOperations
    Types = {"Download"}
    Queues = {"user"}
    CanRestart = FALSE
SYMMETRY Symmetry2
CONSTRAINT PauseBound
INVARIANTS
    CachedHasRow
    BlocksHaveTask
    OpDicMatchesCache
    SuccessIsReal
    CreateHasOperation
    StartedOperationsGoOn
PROPERTY
    FinishBlockOnce
CHECK_DEADLOCK FALSE
