SPECIFICATION Spec
CONSTANTS
    maximum_frames = 2
    MaxPrints = 2
    MaxShots = 4
    MaxUSBEvents = 2
    MaxRequests = 1
    MaxRestarts = 1
INVARIANT
    RemovedFramesAreRendered
CHECK_DEADLOCK FALSE
