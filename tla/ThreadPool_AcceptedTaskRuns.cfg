SPECIFICATION FairSpec
CONSTANTS
    Workers = {w1}
    NumThreads = 1
    Producers = {p1}
    Tasks = {t1, t2}
    NoTask = NoTask
PROPERTY AcceptedTaskRuns
CHECK_DEADLOCK FALSE
