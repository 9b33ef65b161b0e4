SPECIFICATION FairSpec
CONSTANTS
    maximum_frames = 2
    MaxPrints = 2
    MaxShots = 4
    MaxUSBEvents = 2
    MaxRequests = 1
    MaxRestarts = 1
INVARIANTS
    FramesAreKept
    OneShot
PROPERTIES
    FlagsClear
CHECK_DEADLOCK FALSE
