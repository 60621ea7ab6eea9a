\* Three handles for a client, a server and a stranger; three attempts let one
\* leave something, one use its number, and one come after both.
CONSTANTS
    Handles = {h1, h2, h3}
    None = None
    Other = Other
    Listener = Listener
    MaxConns = 3
SYMMETRY Alike
SPECIFICATION Spec
INVARIANTS
    TypeOK
    SessionFitsConnection
    NothingLost
    RecordsReachPeer
PROPERTIES
    ClosesOwnHandle
\* The process may have ended, and both objects may be gone.
CHECK_DEADLOCK FALSE
