CONSTANTS
  Params <- MCParams
  PPM = 6
  MaxConns = 3
  Overhead = 5
  FieldLimit = 8
  Draws = 8
SPECIFICATION FairSpec
INVARIANTS
  StreamsAsRuled
  TurnsKept
  CheckAgrees
PROPERTIES
  ImplementsDelivery
  Finishes
