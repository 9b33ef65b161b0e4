SPECIFICATION FairSpec
CONSTANTS
    p1 = p1
    p2 = p2
    a = a
    b = b
    c = c
    NoContent = NoContent
    NoPath = NoPath
    NoRecord = NoRecord
    Paths = {p1, p2}
    Contents = {a, b, c}
    MaxPolicies = 2
    MaxWrites = 2
    MaxCrashes = 1
    MaxCandidates = 1
    MaxSpool = 2
    Accepts <- MCAccepts
INVARIANTS
    ApprovalHasSnapshot
    SettledUploadIsBound
    RestIsClean
    LoadedUnderItsPolicy
PROPERTIES
    StaleApprovalsVanish
    UploadsSettle
