CONSTANTS
  Xlen = 8
  DataTop = 128
  Programs <- AllPrograms
  MaxIrq = 2
SPECIFICATION CoreSpec
INVARIANTS TypeOK PcNamesInstruction UnitsAgree
PROPERTIES TrappedDoesNotRetire ImplementsIsa InterruptServed DirectedPass
