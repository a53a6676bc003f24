SPECIFICATION Spec
CONSTANTS
    m1 = m1
    m2 = m2
    m3 = m3
    m4 = m4
    info = info
    error = error
    Messages = {m1, m2, m3}
    Levels = {info, error}
    LevelOf <- FewLevels
    Threads = {t1}
    Nobody = Nobody
INVARIANT OnlyOldDropped
