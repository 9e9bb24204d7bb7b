CONSTANTS
    Conns = {c1, c2, c3}
    ThreadNums = {0, 2}
    DestroyedWith = {0}
SPECIFICATION FairSpec
CHECK_DEADLOCK FALSE
INVARIANT AssertionsHold
INVARIANT MapInStep
PROPERTY LifeSpec
PROPERTY ClosedIsDestroyed
