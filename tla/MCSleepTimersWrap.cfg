SPECIFICATION Spec
CONSTANTS
    Tids <- MCTids
    Idle = 0
    NoThread = NoThread
    Base = 1
    Prio <- MCPrio
    JIFFIES_MAX = 7
    INITVAL = 3
    Period = 2
    Margin = 3
    Slice = 3
    Delays = {2}
    Wakers = {}
INVARIANT DelayNotShort
