SPECIFICATION FairSpec
CONSTANTS
  MaxRounds = 4
  MaxCalls = 2
INVARIANTS TypeOK GateMatchesFlag HandoffHasReason
PROPERTY LoopEnds
