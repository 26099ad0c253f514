SPECIFICATION Spec
CONSTANTS
    Tids <- MCTids
    Idle = 0
    NoThread = NoThread
    Base = 1
    UserTids <- MCUserTids
    AttrPrio <- MCAttrPrio
    DefaultPrio = 80
    LatePrio <- NoLatePrio
    Killers = {3}
PROPERTY MovesAsDocumented
