\* One caller: what it can rely on when nobody else uses its names.
CONSTANTS
    a = a
    n1 = n1
    n2 = n2
    Callers = {a}
    Names = {n1, n2}
    None = None
    Repeats = {0, 2}
    MaxNodes = 3
    MaxWorkers = 2
SPECIFICATION FairSpec
INVARIANT RunsAsConfigured
PROPERTY DeRegisterReturns
\* The caller may stop calling; a crashed process does nothing more.
CHECK_DEADLOCK FALSE
