\* Files of up to 15 tokens; an int of 4 bits, a long of 6.
CONSTANTS
    Text <- MCText
    Number <- MCNumber
    Codes = {"404"}
    Suffixed <- MCSuffixed
    Addresses <- MCAddresses
    Resolve <- MCResolve
    IntRange = 16
    LongRange = 64
    MaxPort = 6
    MaxTokens = 15
    MaxMethods = 2
SPECIFICATION Spec
INVARIANTS
    TypeOK
    Understood
    EachListens
    NothingLeft
CHECK_DEADLOCK FALSE
