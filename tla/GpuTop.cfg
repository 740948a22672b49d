CONSTANTS
  NumWarps = 3
  CodeSize = 9
  Code <- Image
  Entries = {0, 5}
  Careful = TRUE
  GAddr = {0, 1}
  MaxLaunches = 4
SPECIFICATION FairSpec
INVARIANTS TypeOK IssuesOwnInstruction ExecCompletes BarrierCounts BarrierReleasesAll TransactionHasOwner
PROPERTIES ImplementsKernel WarpsFinish
