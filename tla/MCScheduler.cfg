SPECIFICATION Spec
CONSTANTS
    Tids <- MCTids
    Idle = 0
    NoThread = NoThread
    Base = 1
    UserTids <- MCUserTids
    AttrPrio <- MCAttrPrio
    DefaultPrio = 80
    LatePrio <- NetifPrio
    Killers = {2, 3}
INVARIANTS
    TypeOK
    PlaceMatchesStatus
    SomebodyRuns
    NoNullContext
    RequestsOfRunning
    SwitchedOutClean
    PreemptBalanced
    LookupsStayValid
PROPERTIES
    PreemptionNeverDemotes
    FifoAmongEquals
    TickNeverRevivesKilled
    ImplementsThreadStates
