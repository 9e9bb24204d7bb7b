CONSTANTS
    Parts = {"Buffer", "LogFile", "ReadSmallFile", "LogStream", "LogFormat", "Logging", "Date",
             "TimeZone", "TimeZoneFile", "StringPiece", "InetAddress", "CountDownLatch",
             "Thread", "Singleton"}
    Bytes = {0, 1}
    kCheapPrepend = 2
    kInitialSize = 2
    ExtraBuf = 2
    Widths = {1, 2}
    MaxLen = 3
    MaxContent = 3
    rollSize_ = 3
    flushInterval_ = 1
    checkEveryN_ = 2
    kRollPerSeconds_ = 4
    Lengths = {1, 2}
    MaxNow = 4
    MaxLines = 3
    kBufferSize = 2
    MaxFile = 4
    SIZE = 20
    kMaxNumericSize = 14
    Width = 7
    MaxText = 7
    MaxDouble = 6
    UnitsSI = 2
    UnitsIEC = 2
    Values <- MCValues
    LogThreads = {t1, t2}
    MaxSecond = 2
    MaxNested = 2
    FirstYear = 1896
    LastYear = 2105
    TimesOfDay = {0, 59, 3600, 86399}
    MaxDays = 24000
    Hour = 4
    Offsets <- MCOffsets
    TransitionTimes = {1, 5, 10, 12, 20, 25, 31, 33}
    Spacing = 9
    MaxTransitions = 4
    MaxTime = 60
    MaxCount = 2
    Garbage = {0, 7}
    Chars = {0, 65, 255}
    MaxPiece = 3
    Ips = {"any", "loopback", "peer"}
    PortRadix = 2
    Waiters = {t1, t2}
    Counters = {t3, t4, t5}
    Count = 2
    Owner = t1
    Child = t2
    Users = {t1, t2}
    Rounds = 2
    MaxAgain = 2
SPECIFICATION BaseSpec
CHECK_DEADLOCK FALSE
INVARIANT BufferContent
INVARIANT FilesTruthful
INVARIANT IntegersExact
INVARIANT ConversionsExact
INVARIANT ThreadsInStep
