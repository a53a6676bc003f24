SPECIFICATION FairSpec
CONSTANTS
    Workers = {w1, w2}
    NumThreads = 1
    Producers = {p1, p2}
    Tasks = {t1, t2, t3}
    NoTask = NoTask
INVARIANTS ExactlyOnce
PROPERTIES ImplementsTaskQueue AwakeWorkerDrains AwakeWorkerLeaves
\* the pool is quiescent once every task has run, and its destructor may
\* never return
CHECK_DEADLOCK FALSE
