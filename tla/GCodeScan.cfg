SPECIFICATION Spec
CONSTANTS
    NoWord = NoWord
    AxisMax = 1
    MaxRetract = 1
    MaxPush = 2
    kamp_purge_margin = 1
    max_objects = 1
    max_extrude_only_distance = 2
    MaxFlow = 1
    ORCA_ZERO_LENGTH_PATH_E_MM = 1
    ORCA_MAX_RETRACTION_SEGMENTS = 1
    RoundingShare = 2
    FullFlow = 2
    MaxManualFlow = 3
    max_lines = 8
INVARIANTS
    FlowIsBounded
    InsideTheBed
    StationaryIsEarned
CONSTRAINT
    Clean
CHECK_DEADLOCK FALSE
