SPECIFICATION Spec
CONSTANTS
  Configs = {c1, c2}
  NoConfig = NoConfig
  NoTree = NoTree
  InitialConfig = c1
  Unlocked = {c2}
  MaxMishaps = 1
  MaxDeploys = 1
  MaxArms = 1
  HandStarts = {{"maintenance"}}
  HandStops = {{"klipper", "moonraker", "admission", "host", "maintenance"}}
INVARIANTS
  MaintenanceOneUse
  UnlockedNeedsEvidence
  ReleaseIsEarned
  JournalTellsTheTruth
PROPERTIES
  DeploySpec
  StoreSpec
CONSTRAINT
  ArmOrDeploy
