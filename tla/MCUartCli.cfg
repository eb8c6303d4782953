SPECIFICATION Spec
CONSTANTS
  RingLength = 3
  Bounds <- MCBounds
  SampleMax = 3
  WordMod = 8
  CyclesPerUs = 2
  Expected = 2
  Elapsed = {1, 4, 10}
  MaxRecords = 6
  Letters = {"l", "r"}
  LineLength = 2
  LatencyWord <- MCLatencyWord
  ResetWord <- MCResetWord
INVARIANTS
  TypeOK
  PlotAgreesWithHistogram
  ReportIsCoherent
  DumpFollowsTheRing
