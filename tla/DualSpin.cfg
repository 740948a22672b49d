CONSTANTS
  Lines = {"x", "y", "done"}
  WORDS = 8
  Programs <- SpinPrograms
SPECIFICATION Spec
CHECK_DEADLOCK FALSE
INVARIANT NoLostUpdates
