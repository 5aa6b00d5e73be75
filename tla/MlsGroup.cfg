CONSTANTS
  u1 = u1
  u2 = u2
  d1 = d1
  d2 = d2
  NoDevice = NoDevice
  Users = {u1, u2}
  Devices <- TwoDevices
  Owner <- Siblings
  MaxEpoch = 2
  MaxChanges = 1
  MaxInFlight = 2
SPECIFICATION FairSpec
CHECK_DEADLOCK FALSE
INVARIANTS
  
  CatchUpConverges
  EveryJoinHasWelcome
PROPERTIES
  RequestsAnswered
  ImplementsEpochLog
