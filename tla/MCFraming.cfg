SPECIFICATION Spec
CONSTANTS
  Conns   <- MCConns
  MaySend <- MCMaySend
  MaxLong = 6
INVARIANTS
  AccountsAgree
  InStepComesOut
  PairingLosesRuns
  NoSentenceUncorrected
  RealignsAtFrameEnds
