SPECIFICATION Spec
CONSTANTS
    t1 = t1
    t2 = t2
    o1 = o1
    o2 = o2
    o3 = o3
    o4 = o4
    p1 = p1
    p2 = p2
    p3 = p3
    None = None
    TaskIds <- OneTask
    Objects <- TwoObjects
    Operations <- TwoOperations
    Types = {"Upload"}
    Queues = {"default"}
    CanRestart = TRUE
SYMMETRY Symmetry2
CONSTRAINT OneAfterTheOther
INVARIANTS
    TypeOK
    SuccessIsReal
    CreateHasOperation
    InterruptNeverSaved
