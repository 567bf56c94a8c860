\* More tasks than the queue holds, and more workers than it has places.
CONSTANTS
    Workers = {w1, w2, w3}
    Tasks = {t1, t2, t3, t4}
    NoTask = NoTask
    Capacity = 2
SPECIFICATION FairSpec
INVARIANTS SomeoneAwake Drained
PROPERTIES KeepsPromise PoolProgress
