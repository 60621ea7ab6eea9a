\* The comment of SharedNetwork.cpp:388 on the message number against pushes.
CONSTANTS
    c1 = c1
    Callers = {c1}
    ByteMax = 7
    SignBit = 4
    MaxSends = 1
    MaxPushes = 1
    MaxConnects = 1
    MaxPolls = 1
SPECIFICATION Spec
INVARIANT NumberNamesRequest
CHECK_DEADLOCK FALSE
