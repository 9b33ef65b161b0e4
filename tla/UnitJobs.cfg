SPECIFICATION Spec
CONSTANTS
  Boots = {{}, {"data", "gcodes", "admission", "klipper", "moonraker"}}
  StartRequests = {{"admission", "klipper", "moonraker"}, {"maintenance"},
                   {"crowsnest", "mainsail", "gateway", "bridge"}}
  StopRequests = {{"maintenance"}, {"moonraker", "klipper", "admission"}}
  MaxRequests = 2
  MaxMishaps = 1
INVARIANTS
  OneDriver
PROPERTIES
  JobsSettle
CHECK_DEADLOCK FALSE
