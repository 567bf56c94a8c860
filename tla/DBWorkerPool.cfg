\* More workers than connections.
CONSTANTS
    Threads = {w1, w2}
    Tasks = {t1, t2, t3}
    NoTask = NoTask
    MaxPool = 1
    Warm = 1
SPECIFICATION FairSpec
INVARIANTS Drained
PROPERTIES UsesPool PoolProgress
