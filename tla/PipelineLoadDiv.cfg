CONSTANTS
  Xlen = 8
  DataTop = 128
  Programs <- LoadDivPrograms
  MaxIrq = 0
SPECIFICATION CoreSpec
PROPERTY HeldBundleKept
