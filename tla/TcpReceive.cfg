\* Sizes whose bytes are not negative as chars, frames in any pieces, recvs of the
\* header that fail, retries that run out.
CONSTANTS
    ByteMax = 31
    SignBit = 16
    Sizes = {0, 3}
    MaxFrames = 2
    BufSize = 40
    MaxTries = 1
SPECIFICATION Spec
VIEW View
INVARIANTS
    TypeOK
    FramesExact
PROPERTIES
    ImplementsChannel
\* A write in front of the buffer may end the process.
CHECK_DEADLOCK FALSE
