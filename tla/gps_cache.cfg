SPECIFICATION FairSpec
CONSTANTS
    t1 = t1
    t2 = t2
    NoTransport = NoTransport
    Transports <- TwoTransports
    MaxAge = 1
    MaxAccuracyAge = 2
    MaxLines = 2
INVARIANTS
    TypeOK
    ReadReleased
    OneConnection
    NoMissedFix
    FixIsConsistent
PROPERTIES
    ReaderEnds
