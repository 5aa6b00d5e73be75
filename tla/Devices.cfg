CONSTANTS
  phone = phone
  laptop = laptop
  i1 = i1
  i2 = i2
  s1 = s1
  s2 = s2
  Nobody = Nobody
  Devices = {phone, laptop}
  Instances = {i1, i2}
  Asks <- AllAsks
  Scenarios <- FiveScenarios
  Slots <- BothSlots
  HomeOf <- Homes
  Cap = 2
  Threshold = 2
  MaxFaults = 1
SPECIFICATION Spec
CHECK_DEADLOCK FALSE
INVARIANTS
  HandedOutOnce
  
  LowIsSignalled
