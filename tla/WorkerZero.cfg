\* The comment of SharedWorker.h:28 on dwRepeatCnt against what worker does.
CONSTANTS
    a = a
    n1 = n1
    Callers = {a}
    Names = {n1}
    None = None
    Repeats = {0, 2}
    MaxNodes = 1
    MaxWorkers = 1
SPECIFICATION Spec
INVARIANT ZeroRepeatsForever
CHECK_DEADLOCK FALSE
