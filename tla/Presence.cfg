CONSTANTS
  phone = phone
  laptop = laptop
  k1 = k1
  k2 = k2
  i1 = i1
  i2 = i2
  Sockets = {k1, k2}
  Devices = {phone, laptop}
  Instances = {i1, i2}
  Layouts <- TwoLayouts
  Before <- OneAfterTheOther
  MaxFaults = 1
SPECIFICATION FairSpec
CHECK_DEADLOCK FALSE
PROPERTIES
  ConnectedIsRegistered
  GoneIsOffline
  OfflineIsHeard
