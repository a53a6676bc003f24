SPECIFICATION FairSpec
CONSTANTS
    m1 = m1
    m2 = m2
    m3 = m3
    m4 = m4
    info = info
    error = error
    Messages = {m1, m2, m3, m4}
    Levels = {info, error}
    LevelOf <- TwoLevels
    Threads = {t1, t2}
    Nobody = Nobody
INVARIANTS OnePlace FileOrder
PROPERTIES EveryMessageLeaves
