CONSTANTS
  alice = alice
  bob = bob
  a1 = a1
  a2 = a2
  b1 = b1
  m1 = m1
  m2 = m2
  m3 = m3
  NoMessage = NoMessage
  NoEvent = NoEvent
  s1 = s1
  s2 = s2
  Slots <- BothSlots
  Devices <- Everyone
  UserOf <- TwoUsers
  Events <- AllEvents
  Scenarios <- FourScenarios
  MaxAge = 1
  Skew = 1
  Ttl = 1
  LastTick = 2
  MaxOpen = 1
SPECIFICATION Spec
SYMMETRY Alike
CHECK_DEADLOCK FALSE
INVARIANTS
  
  
  RetractionComplete

  
