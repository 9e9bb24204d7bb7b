CONSTANTS
    t1 = t1
    t2 = t2
    t3 = t3
    t4 = t4
    Owner = owner
    NoTask = none
    Workers = {w1, w2}
    Producers = {p1, p2}
    Tasks = {t1, t2, t3, t4}
    Child <- Nested
    maxQueueSize_ = 2
SPECIFICATION FairSpec
CHECK_DEADLOCK FALSE
INVARIANT NoLostNotification
INVARIANT OnceInOrder
PROPERTY AcceptedTasksRun
PROPERTY StopReturns
