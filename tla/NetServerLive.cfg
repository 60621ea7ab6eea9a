\* One client with two packets: what must happen on one connection does not
\* depend on the others, whose threads share nothing it waits for.
CONSTANTS
    c1 = c1
    h1 = h1
    Clients = {c1}
    Handles = {h1}
    None = None
    MaxPackets = 2
    MaxConnects = 2
    MaxBroadcasts = 1
SPECIFICATION FairSpec
PROPERTIES
    PacketsHandled
    ClosedIsCleanedUp
    DisConnectReturns
\* A crashed or stopped server does nothing more.
CHECK_DEADLOCK FALSE
