CONSTANTS
  f1 = f1
  f2 = f2
  m1 = m1
  m2 = m2
  m3 = m3
  s1 = s1
  s2 = s2
  NoAsk = NoAsk
  NoFile = NoFile
  FileIds = {f1, f2}
  Messages = {m1, m2, m3}
  Slots <- BothSlots
  Collectors = {"c1"}
  Asks <- AllAsks
  Scenarios <- ThreeScenarios
  Streams = TRUE
  MaxFaults = 1
SPECIFICATION FairSpec
CHECK_DEADLOCK FALSE
INVARIANTS
  StillReadable
  RetractedNotServed
PROPERTIES
  RetractedCollected
