SPECIFICATION Spec
CONSTANTS
  yes = yes  no = no
  Texts = {yes, no}
  Notice = "closed"
  Streamed = "we will"
  MaxTurns = 2
SYMMETRY Symmetry
CHECK_DEADLOCK FALSE
INVARIANTS TypeOK NoDoubles AnswersAreKept  
  NoPhantoms
