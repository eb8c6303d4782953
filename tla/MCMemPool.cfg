SPECIFICATION Spec
CONSTANTS
  Null = Null
  Clients = {c1, c2, c3}
  c1 = c1
  c2 = c2
  c3 = c3
  NumBlocks = 3
  CountMod = 2
SYMMETRY ClientSymmetry
INVARIANTS
  TypeOK
  FreeListIsSound
  NoBlockShared
PROPERTIES
  HeldBlocksAreLeftAlone
  ImplementsBlockPool
