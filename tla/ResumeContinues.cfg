SPECIFICATION Spec
CONSTANTS
    Tasks = {t1}
    FileKey <- ByKey
    Transfers = {u1, u2, u3}
    Size = 1
    Patient = TRUE
    None = None
SYMMETRY Symmetry
PROPERTY ResumeContinues
