\* Two clients, one whole packet each and one cut short; two handles that are
\* used again once closed; Connect twice, one broadcast.
CONSTANTS
    c1 = c1
    c2 = c2
    h1 = h1
    h2 = h2
    Clients = {c1, c2}
    Handles = {h1, h2}
    None = None
    MaxPackets = 1
    MaxConnects = 2
    MaxBroadcasts = 1
SPECIFICATION Spec
INVARIANTS
    TypeOK
    FifoPerConnection
    EntryPerConnection
    ReplyReachesRequester
    StopEndsReceiving
PROPERTIES
    NoCallAfterEnd
    BroadcastReachesAll
SYMMETRY Symmetry
VIEW View
\* A crashed or stopped server does nothing more.
CHECK_DEADLOCK FALSE
