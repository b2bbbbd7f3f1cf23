CONSTANTS
  N = 4
  Site <- MCSite
  Blinds <- MCBlinds
  MaxSignals = 2
SPECIFICATION FairSpec
INVARIANTS
  EachEditAlone
  UndisturbedVerdict
  
PROPERTY Ends
