SPECIFICATION FairSpec
CONSTANTS
    Keys = {k1}
    Workers = {w1, w2}
    Operators = {o1}
    NoWorker = NoWorker
    NoKey = NoKey
    Attempts = 2
    MaxPublishes = 2
    MaxFaults = 2
CHECK_DEADLOCK FALSE
INVARIANTS QueueSafe
PROPERTIES AnnouncementHonoured ImplementsJobLife EverySettles CloseEnds
