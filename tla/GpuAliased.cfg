CONSTANTS
  TICK_MAX_TIMERS = 2
  LoWord = 8
  tick_us = 2
  Kinds <- MCKinds
  Starts = {5}
  MaxTime = 6
  MaxRegs = 2
  Kernels <- MCKernels
  ImemWords = 4
  Aliased = TRUE
  MaxTimeouts = 1
  Q_LEN = 3
  N_ITEMS = 8
  RAISES = 3
  LAT_N = 3
  SW_TRIPS = 3
  TICK_TARGET = 8
  REQUIRED_A_TICKS = 3
  REQUIRED_B_PRINTS = 2
  LINE_MAX = 6
  Letters = {" ", "m", "p", "g", "r", "1"}
  NumberW = 256
  RxDepth = 1
  GpuTicks = 1
SPECIFICATION Firmware
CHECK_DEADLOCK FALSE
INVARIANT CompletionPending
