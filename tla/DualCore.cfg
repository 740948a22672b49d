CONSTANTS
  Lines = {"x", "y", "done"}
  WORDS = 8
  Programs <- LitmusPrograms
SPECIFICATION Spec
CHECK_DEADLOCK FALSE
INVARIANTS StoreBuffering MessagePassing StoresLand
