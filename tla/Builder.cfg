\* Two requests; bodies of up to 5 bytes, above 2 in a file; a slice takes 2.
CONSTANTS
    Client = {c1, c2}
    Requests <- MCRequests
    Servers <- MCServers
    InitialFiles <- MCInitialFiles
    Directories <- MCDirectories
    Specials <- MCSpecials
    UploadName <- MCUploadName
    MaxTime = 1
    BufferLimit = 2
    WriteBufferSize = 2
    Closed = Closed
    Zero = Zero
    Old = Old
SPECIFICATION FairSpec
INVARIANTS
    TypeOK
    DescriptorsClosed
    UploadKept
    BytesInPlace
PROPERTIES
    ChangesAllowed
    Answered
CHECK_DEADLOCK FALSE
