SPECIFICATION MCSpec
CONSTANTS
  Threads = {t1, t2}
  Region = 3
  Sizes = {1, 3}
  Streams = 2
  Word = 16
  Calls = 7
  Processes = {p1, p2}
  CpuLoads = {80, 130}
  RamLoads = {80}
  CpuLimit = 50
  RamLimit = 50
  Data <- MCData
  FileCalls = 2
INVARIANTS
  BuffersAreDisjoint
  RefusalsGiveBack
  CommandsFollowBringUp
  StreamsKeepTheirSlot
  OkMeansDone
PROPERTY
  DescriptorsAreClosed
SYMMETRY Symmetric
CHECK_DEADLOCK FALSE
