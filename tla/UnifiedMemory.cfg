CONSTANTS
  Addr = {0, 1}
  Data = {0, 1}
SPECIFICATION FairSpec
INVARIANTS TypeOK CpuLoadCurrent GpuLoadCurrent
PROPERTIES ImplementsAtomicMemory GpuServed
