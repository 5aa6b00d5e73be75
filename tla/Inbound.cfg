CONSTANTS
  Scenes <- Small
  Page = 2
SPECIFICATION InboundSpec
INVARIANTS
  ArrivedIsRead
  
CHECK_DEADLOCK FALSE
