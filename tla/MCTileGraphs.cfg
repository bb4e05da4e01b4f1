SPECIFICATION Spec
CONSTANTS
  Callers = {c1, c2}
  sound = sound
  bad = bad
  Requests = {sound, bad}
  Ids = {1}
  NoId = 0
  Nothing = Nothing
  Depth = 1
  Short = 3
  MaxOnTiles = 2
  Graphs <- MCGraphs
  Failing <- MCFailing
  Builds <- MCBuilds
CONSTRAINT
  FewOnTiles
INVARIANTS
  TileTypeOK
  FailsClosed
  StopsOnlyClogged
PROPERTIES
  ForeignLeavesOwn
  ImplementsCalls
  EveryCallReturns
