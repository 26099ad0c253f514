SPECIFICATION FairSpec
CONSTANTS
    Tids <- MCTids
    Idle = 0
    NoThread = NoThread
    Base = 1
    Prio <- MCPrio
    JIFFIES_MAX = 4
    INITVAL = 1
    Period = 2
    Margin = 2
    Slice = 1
    Delays = {2}
    Wakers = {}
PROPERTY AllSleepersWake
