CONSTANTS
    Peers = {p1, p2}
    Limit = 4
SPECIFICATION FairSpec
CHECK_DEADLOCK FALSE
INVARIANT OwnDescriptors
INVARIANT AcceptedIsReported
PROPERTY BacklogServed
