\* A recv() takes 8 bytes or fewer, a slice 3; a size_t has two hexadecimal
\* digits; bodies above 5 bytes are in a file.
CONSTANTS
    Byte <- MCByte
    Requests <- MCRequests
    MaxBodySizes = {0, 2}
    MaxHeaderSize = 8
    BufferLimit = 5
    ParseByteSlice = 3
    Word = 256
SPECIFICATION FairSpec
INVARIANTS
    TypeOK
    BodyIsPayload
    LengthReached
    Decoded
    ErrorsMeant
    EndSeen
PROPERTIES
    DecodingEnds
CHECK_DEADLOCK FALSE
