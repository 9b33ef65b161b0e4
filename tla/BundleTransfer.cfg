SPECIFICATION Spec
CONSTANTS
    r1 = r1
    r2 = r2
    r3 = r3
    Receivers = {r1, r2, r3}
    Stages = {s1, s2, s3}
    Ready = {s1}
    Unlocked = {s1, s3}
    Initial = Initial
    NoFile = NoFile
    NoConfig = NoConfig
    Blocks = 2
    MaxDeploys = 2
    MaxPrepared = 2
INVARIANTS
    AppliedIsReviewed
    LeftoversAreComplete
SYMMETRY MCSymmetry
CHECK_DEADLOCK FALSE
