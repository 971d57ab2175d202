CONSTANTS
    Store = {s1, s2}
    Byte = {a, b}
    BufferLimit = 1
    MaxSize = 2
    MaxName = 1
    NoName = NoName
    NoFile = NoFile
SPECIFICATION Spec
INVARIANTS
    TypeOK
    Holds
    FilesOwned
PROPERTIES
    Promise
CHECK_DEADLOCK FALSE
