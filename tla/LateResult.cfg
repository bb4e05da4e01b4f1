SPECIFICATION Spec
CONSTANTS
  Callers = {c1, c2}
  sound = sound
  bad = bad
  Requests = {sound, bad}
  Ids = {1}
  NoId = 0
  Nothing = Nothing
  Depth = 1
  Short = 6
  MaxOnTiles = 2
  Graphs <- MCDecaps
  Failing <- MCFailing
  Builds = {{}}
INVARIANTS
  OwnAnswer
