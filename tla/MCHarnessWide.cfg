CONSTANTS
  Images <- MCImages
  MaxConnections = 3
  Garbled = Garbled
  Lengths = {1, 2000, 4000, 4004, 4020, 4024, 4072}
  MixedLengths = {1, 4000}
  WideLengths = {1, 32768, 65535}
SPECIFICATION Spec
INVARIANT RefusesOnlyForeignRecords
