SPECIFICATION CSpec
CONSTANTS
  Threads = {t1}
  SessionIds = {s1, s2}
  MaxTokens = 1
  MaxPairs = 1
  Domains = {1}
  Epochs = {1}
  Keys = {k1}
  NoKey = NoKey
  Garbled = Garbled
PROPERTIES
  CloseWipesSealedSlot
