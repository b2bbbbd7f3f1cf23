CONSTANTS
  Candidates <- MCCandidates
  MAX_FIELDS = 3
SPECIFICATION FairSpec
INVARIANTS
  TypeOK
  FieldsTileRecord
  PrintedInOrder
  WrittenIsPrinted
PROPERTY Returns
