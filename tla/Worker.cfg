\* Two callers that compete for one name, with three nodes and three workers.
CONSTANTS
    a = a
    b = b
    n1 = n1
    Callers = {a, b}
    Names = {n1}
    None = None
    Repeats = {0, 2}
    MaxNodes = 3
    MaxWorkers = 3
SPECIFICATION Spec
INVARIANTS
    TypeOK
    ReferenceStaysGood
    AtMostOneLateRun
SYMMETRY Symmetry
VIEW View
\* The callers may stop calling; a crashed process does nothing more.
CHECK_DEADLOCK FALSE
