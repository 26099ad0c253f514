SPECIFICATION Spec
CONSTANTS
    Threads = {t1, t2, t3}
    Isr = isr
    Permits = 2
    SemDebt = 1
SYMMETRY Symmetry
INVARIANTS
    TypeOK
    SpinExclusive
    ThreadsNeverSpin
    IrqRestored
    MutexCounts
    SemNoGain
CHECK_DEADLOCK FALSE
