SPECIFICATION Spec
CONSTANTS
    Threads = {t1, t2}
    Isr = isr
    Permits = 1
    SemDebt = 1
INVARIANT SpinnerYields
CHECK_DEADLOCK FALSE
