SPECIFICATION Spec
CONSTANTS
    Rounds = {r1, r2}
    Contents <- MCContents
    StagedFilters <- MCStagedFilters
    Operators = {me, other}
    Me = me
    Pipeline = pipeline
    NoOne = no_one
    NoRound = no_round
    NoNetwork = no_network
    NoPreview = no_preview
    n1 = n1
    n2 = n2
    n3 = n3
    MaxStores = 1
    MaxDeletes = 2
    MaxFaults = 1
    MaxClicks = 2
CHECK_DEADLOCK FALSE
INVARIANTS
    TypeOK
    DeletionToldTruly
    ShownFindingsAreWhole
    DetailIsOfClickedNetwork
    DeletesOnlyConfirmedRounds
    BrokenOnlyByStaleFilters
    PdfIsOfThisView
    NoEndlessRerun
PROPERTIES
    VerifiedMeansStored
