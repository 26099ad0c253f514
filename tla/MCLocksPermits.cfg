SPECIFICATION Spec
CONSTANTS
    Threads = {t1, t2}
    Isr = isr
    Permits = 2
    SemDebt = 1
INVARIANT PermitsReturn
CHECK_DEADLOCK FALSE
