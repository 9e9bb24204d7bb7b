CONSTANTS
    Addrs = {1, 2}
    MaxTimers = 2
    MaxNow = 2
    Delays = {0, 1}
    Intervals = {1}
SPECIFICATION FairSpec
CHECK_DEADLOCK FALSE
INVARIANT InStep
INVARIANT Armed
INVARIANT NoTimerLost
INVARIANT CancelledNotQueued
PROPERTY DueTimersRun
