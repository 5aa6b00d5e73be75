CONSTANTS
  Addresses = {a1, a2, a3}
  EarlyCalls = FALSE
  MaxThreshold = 2
  MaxProposals = 2
  MaxBallots = 2
  MaxBoth = 2
  MaxTtl = 1
  MaxTime = 2
  MaxFunds = 1
SPECIFICATION BothSpec
SYMMETRY Interchangeable
INVARIANTS
  OutcomeFollowsVotes
PROPERTIES
  RejectionExact
  ImplementsFund
