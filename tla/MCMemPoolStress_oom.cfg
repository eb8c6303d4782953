SPECIFICATION StressSpec
CONSTANTS
  Null = Null
  Clients = {p1, p2, b}
  Producers = {p1, p2}
  p1 = p1
  p2 = p2
  b = b
  Burst = b
  NumBlocks = 3
  CountMod = 1
PROPERTIES
  ProducersHitOOM
