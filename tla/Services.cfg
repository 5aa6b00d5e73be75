CONSTANTS
  d1 = d1
  d2 = d2
  e1 = e1
  e2 = e2
  Devices = {d1, d2}
  Endpoints = {e1, e2}
  Scenes <- AllScenes
SPECIFICATION Spec
INVARIANTS
  NothingForgotten
  OncePerWindow
  
  LastPresenceShows
  
  CursorCovers
  AnsweredStays
  
  WithinBudget
CHECK_DEADLOCK FALSE
