SPECIFICATION FairSpec
CONSTANTS
    MaxLoads = 2
    MaxSequence = 4
    MaxLines = 1
    MaxLiveZ = 1
INVARIANTS
    ReservationIsBound
    CheckedPlateIsClean
    ReadyPlateIsCold
    ReadyOnlyBeforeStart
    NoTuningLeak
    LockedIsInert
PROPERTIES
    HomesOnlyCheckedPlate
    MutexIsReleased
    PrintFinishes
