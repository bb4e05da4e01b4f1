SPECIFICATION SSpec
CONSTANTS
  Domains = {1, 2}
  Epochs = {1, 2, 3}
  Keys = {k1, k2}
  NoKey = NoKey
  Garbled = Garbled
SYMMETRY Symmetry
PROPERTIES
  EpochMonotonic
