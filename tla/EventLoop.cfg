CONSTANTS
    Functors = {f1, f2}
    Threads = {t1, t2}
    Channels = {c1}
    EventfdMax = 1
SPECIFICATION FairSpec
INVARIANT NoLostWakeup
PROPERTY ExecutorSpec
PROPERTY FunctorsRun
PROPERTY QuitEndsLoop
