SPECIFICATION SpecKeep
CONSTANTS
    None = None
    Md5s = {a, b}
    AppKeys = {k}
    Tags = {x}
    Groups = {g}
    Times = {1}
    Roots = {1}
    Days = {1}
    Callers = {c}
    CanRestart = FALSE
INVARIANT
    TaggedFileStays
