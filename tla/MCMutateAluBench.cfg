CONSTANTS
  N = 4
  Site <- MCSite
  Blinds <- NoBlinds
  MaxSignals = 0
SPECIFICATION Spec
INVARIANT KilledByTheBench
