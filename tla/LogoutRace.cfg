SPECIFICATION HSpec
CONSTANTS
  Threads = {t1, t2}
  SessionIds = {s1, s2}
  MaxTokens = 2
  MaxPairs = 2
SYMMETRY Symmetry
INVARIANTS
  LoginRequired
