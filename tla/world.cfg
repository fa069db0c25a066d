SPECIFICATION LoaderSpec
CONSTANTS
  Window = 30
  LegalDays = 7
  InspectionAfter = 7
  Threshold = 1000
  Copies = 1
  Profiles <- MCProfiles
  Days = {1, 24, 25, 316}
  Loaders = {l1, l2}
  Turns = {u1}
  Nobody = Nobody
INVARIANTS LoaderTypeOK WorldsAreCoherent  
PROPERTIES WorldsStay ReplacedWorldsStartFresh
SYMMETRY Symmetry
CHECK_DEADLOCK FALSE
