CONSTANTS
    Functors = {f1, f2}
    Threads = {owner}
    Owner = owner
    Channels = {}
    EventfdMax = 2
    Usages = {{}, {"initCallback"}, {"quitFunctor"}, {"initCallback", "quitFunctor"}}
SPECIFICATION ThreadFairSpec
CHECK_DEADLOCK FALSE
INVARIANT PublishedLoopAlive
PROPERTY StartLoopReturns
PROPERTY DestructorReturns
