SPECIFICATION FairSpec
CONSTANTS
  sensor = sensor
  assistant = assistant
  None = None
  Mistake = Mistake
  Devices = {sensor}
  Agents = {assistant}
  Deployed = {assistant}
  MaxRuns = 2
  MaxEdits = 1
  Documents <- MCDocuments
  Usable <- MCUsable
INVARIANTS
  LifecycleTypeOK
  DevicesHaveOperators
  DisabledMayNothing
PROPERTIES
  
  SuccessIsLive
  UntriedIsServed
  EveryWaitEnds
CHECK_DEADLOCK FALSE
