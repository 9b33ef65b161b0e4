SPECIFICATION Spec
CONSTANTS
    m1 = m1
    m2 = m2
    NoFile = NoFile
    Machines = {m1, m2}
    Size <- MCSize
    Partitions = {1, 2}
    MaxBoots = 4
    MaxVersions = 2
    MaxDamages = 1
    MaxCommands = 5
SYMMETRY MCSymmetry
INVARIANTS
    HistoryIsHonest
    ManifestIsTheMachine
PROPERTIES
    RestoredIsTheCapture
    CheckedLeavesNothing
CHECK_DEADLOCK FALSE
