SPECIFICATION SpecCalls
CONSTANTS
    None = None
    Md5s = {a, b}
    AppKeys = {k}
    Tags = {x}
    Groups = {g}
    Times = {1}
    Roots = {1, 2}
    Days = {1, 2}
    Callers = {c, d}
    CanRestart = TRUE
SYMMETRY Symmetry
CONSTRAINT OverlapBound
INVARIANT
    TypeOK
    DoomedAreUntagged
    LookupIsLive
    SavedIsThere
    CleanupIsComplete
    OneCopyPerContent
