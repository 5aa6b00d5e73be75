CONSTANTS
  Accounts = {u1, u2, u3}
  Requests = {r1, r2}
  NoRequest = NoRequest
  MaxEvents = 3
  PageSize = 1
SPECIFICATION ControlSpec
SYMMETRY Interchangeable
CHECK_DEADLOCK FALSE
INVARIANTS
  AddedStays
  CaughtUpIsCurrent
