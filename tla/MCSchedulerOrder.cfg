SPECIFICATION FairSpec
CONSTANTS
    Tids <- MCTids5
    Idle = 0
    NoThread = NoThread
    Base = 1
    UserTids <- MCUserTids5
    AttrPrio <- MCAttrPrio5
    DefaultPrio = 80
    LatePrio <- NoLatePrio
    Killers = {}
INVARIANT ListsSorted
PROPERTY TopNotStarved
