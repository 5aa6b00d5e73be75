CONSTANTS
  d1 = d1
  d2 = d2
  m1 = m1
  m2 = m2
  Devices = {d1, d2}
  Sends = {m1, m2}
  Phases = {"sealed", "signal"}
  MaxChanges = 2
  MaxBundles = 3
SPECIFICATION Spec
SYMMETRY SendsAlike
CHECK_DEADLOCK FALSE
INVARIANT
  SealedToPinned
  
