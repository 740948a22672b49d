CONSTANTS
  Xlen = 8
  DataTop = 128
  Programs <- DivIrqPrograms
  MaxIrq = 1
SPECIFICATION CoreSpec
PROPERTY TrappedDoesNotRetire
