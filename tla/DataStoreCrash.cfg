\* One store that outgrows its memory.
CONSTANTS
    Store = {s1}
    Byte = {a}
    BufferLimit = 1
    MaxSize = 2
    MaxName = 1
    NoName = NoName
    NoFile = NoFile
SPECIFICATION Spec
INVARIANT CleanedUpOnCrash
CHECK_DEADLOCK FALSE
