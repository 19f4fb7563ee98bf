SPECIFICATION Spec
CONSTANTS
    Tasks = {t1, t2}
    Keys = {k1, k2}
    Paths = {p1, p2}
    Contents = {c1, c2}
    ErrorDigest = errorDigest
    None = None
    ReuseKeys = FALSE
    RewriteFiles = FALSE
SYMMETRY Symmetry
INVARIANT FinishedIsTrue TaskGoesOn
PROPERTY UploadCopyIsFile DownloadCopyIsObject
