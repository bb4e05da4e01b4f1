SPECIFICATION Spec
CONSTANTS
  Clients = {c1, c2}
  Blocks = {b1, b2, b3, b4, b5}
  Zero = Zero
  RESERVOIR_CAPACITY = 4
  LOW_WATER_MARK = 1
  HIGH_WATER_MARK = 3
  SLOT_SIZE = 32
  MaxDescriptorLen = 65535
  RCT_CUTOFF = 10
  APT_CUTOFF = 177
  Shapes <- MCShapes
SYMMETRY Symmetry
INVARIANTS
  TypeOK
  NoResidue
  SingleHolder
  ModeMatchesMarks
PROPERTIES
  NoFlapping
  ImplementsQueue
