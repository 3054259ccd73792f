SPECIFICATION Spec
CONSTANTS
    r1 = r1
    r2 = r2
    p1 = p1
    p2 = p2
    NoPolicy = NoPolicy
    NoRound = NoRound
    Rounds <- OneRound
    LegacyRounds <- NoneOfThem
    Policies <- OnePolicy
    MaxFaults = 1
INVARIANTS
    RecoveryKeepsInputs
