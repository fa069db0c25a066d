SPECIFICATION OrderSpec
CONSTANTS
  Window = 2
  LegalDays = 1
  InspectionAfter = 1
  Threshold = 1
  Warranties = {3}
  Amounts = {1, 2}
  MaxDays = 4
  Turns = {t1, t2}
  NoTurn = NoTurn
  MaxCalls = 2
SYMMETRY Symmetry
INVARIANTS OrderTypeOK   DefectDominates
PROPERTY TimeNeverHelps
CHECK_DEADLOCK FALSE
