CONSTANTS
  NumWarps = 2
  CodeSize = 9
  Code <- Image
  Entries = {0, 5}
  Careful = FALSE
  GAddr = {0, 1}
  MaxLaunches = 3
SPECIFICATION Spec
INVARIANT BarrierReleasesAll
