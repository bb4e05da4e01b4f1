SPECIFICATION HSpec
CONSTANTS
  Threads = {t1}
  SessionIds = {s1, s2}
  MaxTokens = 2
  MaxPairs = 3
SYMMETRY Symmetry
INVARIANTS
  HTypeOK
  KeysOnlyWhileLoggedIn
  ContextsLive
  LoginRequired
PROPERTIES
  HandleNamesOneObject
