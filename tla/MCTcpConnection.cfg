CONSTANTS
    m1 = m1
    Messages = {m1, m2}
    ChunksPerMessage = 2
    highWaterMark_ = 3
    MaxIn = 1
    Usages <- MCUsages
SPECIFICATION FairSpec
CHECK_DEADLOCK FALSE
INVARIANT AssertionsHold
PROPERTY LifeSpec
INVARIANT WireInOrder
INVARIANT ShutdownAfterOutput
PROPERTY ClosingCloses
PROPERTY ClosedIsDestroyed
