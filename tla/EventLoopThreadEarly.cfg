CONSTANTS
    Functors = {f1}
    Threads = {owner}
    Owner = owner
    Channels = {}
    EventfdMax = 2
    Usages = {{"destroyEarly"}}
SPECIFICATION ThreadFairSpec
CHECK_DEADLOCK FALSE
PROPERTY DestructorReturns
