SPECIFICATION Spec
CONSTANTS
  SOURCE_FAULTS <- MCSourceFaults
  StimulusFaults <- MCStimulusFaults
  MaxRuns = 1
  MaxSignals = 1
INVARIANTS
  RestoredWhateverHappens
