\* The comment of TCPServer.cpp:384 on the size field against a size byte that
\* is negative as a char: 8 + 8 is SignBit.
CONSTANTS
    ByteMax = 31
    SignBit = 16
    Sizes = {3, 8}
    MaxFrames = 2
    BufSize = 40
    MaxTries = 0
SPECIFICATION Spec
INVARIANT SizeFieldIsSize
