\* One caller with two requests, one push, one reconnection; the numbers in use
\* are not negative as chars.
CONSTANTS
    c1 = c1
    Callers = {c1}
    ByteMax = 7
    SignBit = 4
    MaxSends = 2
    MaxPushes = 1
    MaxConnects = 2
    MaxPolls = 1
SPECIFICATION FairSpec
INVARIANTS
    TypeOK
    AnswerIsOwnOrPushed
    ConnectFindsNoThread
PROPERTIES
    FiledAnswerKept
    AnswerFiled
    DisConnectReturns
\* A client that crashed, or used up its calls, does nothing more.
CHECK_DEADLOCK FALSE
