CONSTANTS
  Long = 512
  Size = 4
  Bytes = {0, 1, 2}
  Chars = {" ", "-", "0", "7", "x", "f"}
  MaxChars = 4
  Widths = {0, 2, 6}
  HeapBytes = 56
  SizeT = 65536
  Requests = {0, 1, 9, 24, 60000}
  MaxLive = 3
  MaxErrors = 1
SPECIFICATION Library
INVARIANTS CallsKeepContracts FormatsReadBack HeapChecked FailsOnlyWhenFull
PROPERTIES ImplementsPromise
