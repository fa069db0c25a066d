SPECIFICATION OrderSpec
CONSTANTS
  Window = 1
  LegalDays = 0
  InspectionAfter = 0
  Threshold = 1
  Warranties = {1}
  Amounts = {1}
  MaxDays = 0
  Turns = {t1, t2}
  NoTurn = NoTurn
  MaxCalls = 1
INVARIANT OneRefundPerDuplicate
CHECK_DEADLOCK FALSE
