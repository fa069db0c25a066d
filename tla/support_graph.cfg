SPECIFICATION FairSpec
CONSTANT MaxTurns = 3
INVARIANTS TypeOK  
PROPERTIES DemandIsForever RunsEnd
