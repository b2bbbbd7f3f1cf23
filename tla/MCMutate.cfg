SPECIFICATION FairSpec
CONSTANTS
  SOURCE_FAULTS <- MCSourceFaults
  StimulusFaults <- MCStimulusFaults
  MaxRuns = 2
  MaxSignals = 1
INVARIANTS
  FaultAlone
  RunsWhatItNames
PROPERTIES
  EveryRunEnds
