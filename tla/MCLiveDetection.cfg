CONSTANTS
  MaxStarts = 2
  MaxBatches = 5
  MaxImports = 1
  MinSamples = 2
  Features <- MCFeatures
  Growths <- MCGrowths
  Baselines <- MCBaselines
SPECIFICATION Spec
CHECK_DEADLOCK FALSE
INVARIANTS OneWindow FileIsModel VerdictsSound
