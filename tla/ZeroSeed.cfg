SPECIFICATION PSpec
CONSTANTS
  Clients = {c1, c2}
  Blocks = {b1, b2, b3}
  Zero = Zero
  Urandom = Urandom
  Caller = Caller
  RESERVOIR_CAPACITY = 2
  LOW_WATER_MARK = 0
  HIGH_WATER_MARK = 2
  SLOT_SIZE = 32
  MaxDescriptorLen = 65535
  RCT_CUTOFF = 10
  APT_CUTOFF = 177
  Shapes <- MCShapes
  MaxOutputs = 1
SYMMETRY Symmetry
INVARIANTS
  SeedsHaveEntropy
