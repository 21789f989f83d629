SPECIFICATION Spec
CONSTANTS
  broad = broad
  deep = deep
  NoSweep = NoSweep
  NPARTS = 2
  Sweeps <- OneSweep
  After <- Alone
  AfterEach = {}
  OneLap = {}
  HoldSweeps <- OnlyBroad
  PER_RUN = 1
  MAX_CUTS = 2
  MAX_HOLDS = 3
  Clocks = {c1, c2}
  TROUBLES = 2
  Faults = {"stop_download"}
INVARIANTS MarksAreEarned
