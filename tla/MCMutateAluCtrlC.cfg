CONSTANTS
  N = 4
  Site <- MCSite
  Blinds <- NoBlinds
  MaxSignals = 1
SPECIFICATION Spec
INVARIANT RestoredOnEveryExit
