SPECIFICATION FairSpec
CONSTANTS
    InitialDisks <- MCInitialDisks
    OtherLines = {"stepper", "older"}
    Broken = {"open.cfg"}
    MaxInstalls = 1
    MaxFaults = 2
    MaxEdits = 2
INVARIANTS
    OutcomeIsTrue
    SuccessMeansReloaded
    BackupCovers
PROPERTIES
    IncludesResolve
    InstallEnds
