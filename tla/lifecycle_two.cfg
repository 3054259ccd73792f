SPECIFICATION FairSpec
CONSTANTS
    r1 = r1
    r2 = r2
    p1 = p1
    p2 = p2
    NoPolicy = NoPolicy
    NoRound = NoRound
    Rounds <- TwoRounds
    LegacyRounds <- FirstRound
    Policies <- OnePolicy
    MaxFaults = 1
INVARIANTS
    NoLegacyFallback
PROPERTIES
    ImplementsContract
    PendingIsSettled
