CONSTANTS
  phone = phone
  tablet = tablet
  h1 = h1
  h2 = h2
  Messages = {1, 2}
  Devices = {phone, tablet}
  Setups <- ThreeSetups
  Handlers <- TwoHandlers
  PageSize = 1
  Ttl = 1
  Retention = 1
  MaxAge = 2
  LastTick = 3
  MaxFaults = 1
SPECIFICATION Spec
SYMMETRY Alike
CHECK_DEADLOCK FALSE
INVARIANTS
  StillFetchable
  LastReceiptTells
