SPECIFICATION StressSpec
CONSTANTS
  Null = Null
  Clients = {p1, p2, p3, b}
  Producers = {p1, p2, p3}
  p1 = p1
  p2 = p2
  p3 = p3
  b = b
  Burst = b
  NumBlocks = 5
  CountMod = 1
SYMMETRY ProducerSymmetry
INVARIANTS
  StressTypeOK
  NoCorruption
  BurstReturnsEverything
  ProducersNeverRefused
