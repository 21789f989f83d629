SPECIFICATION Spec
CONSTANTS
  broad = broad
  deep = deep
  NoSweep = NoSweep
  NPARTS = 2
  Sweeps <- TwoSweeps
  After <- DeepAfterBroad
  AfterEach <- OnlyDeep
  OneLap <- OnlyDeep
  HoldSweeps <- OnlyBroad
  PER_RUN = 1
  MAX_CUTS = 1
  MAX_HOLDS = 1
  Clocks = {c1, c2}
  TROUBLES = 2
  Faults = {}
SYMMETRY SameClocks
INVARIANTS TypeOK MarksAreEarned 
PROPERTIES RewindIsRight
