SPECIFICATION Spec
CONSTANTS
    Tasks = {t1, t2}
    FileKey <- ByTaskId
    Transfers = {u1, u2, u3}
    Size = 1
    Patient = TRUE
    None = None
SYMMETRY Symmetry
INVARIANT NothingRunsUnasked ProgressIsTransfer
PROPERTY ResumeContinues
