SPECIFICATION FairSpec
CONSTANTS
    r1 = r1
    r2 = r2
    p1 = p1
    p2 = p2
    NoPolicy = NoPolicy
    NoRound = NoRound
    Rounds <- OneRound
    LegacyRounds <- NoneOfThem
    Policies <- TwoPolicies
    MaxFaults = 2
INVARIANTS
    TypeOK
    SecretOutlivesRows
    RecordTellsTruth
    ClosedStaysClosed
    SuccessIsClean
PROPERTIES
    RawDataKept
    StoredUnderPinnedPolicy
    PendingIsSettled
