CONSTANTS
    Fds = {0, 1, 2}
    AcceptFd = 0
    kInitEventListSize = 1
    MaxEventListSize = 4
SPECIFICATION DispatchSpec
INVARIANT IndexInStep
INVARIANT NoFailure
INVARIANT ActiveAlive
PROPERTY PollerSpec
CHECK_DEADLOCK FALSE
