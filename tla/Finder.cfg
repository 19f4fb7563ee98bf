SPECIFICATION Spec
CONSTANTS
    Objs = {a, b}
    Protocols = {p}
    Threads = {t1, t2}
    MaxQueue = 2
PROPERTY
    IsRegistry
CHECK_DEADLOCK FALSE
