SPECIFICATION Spec
CONSTANTS
    None = None
    MaxAccuracy = 15
    MaxPackets = 3
    Zones <- MCZones
    Covers <- MCCovers
    NetworkOf <- MCNetworkOf
    Receptions <- MCReceptions
CHECK_DEADLOCK FALSE
INVARIANTS
    TypeOK
    EveryRowAccountedFor
    StagesAgree
    WholeRepresentative
    OrderOnlyShowsInTie
    MoreEvidenceNeverLowersScore
