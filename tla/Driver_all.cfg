\* Every package on two traces, on traces of its own, and on broken files.
CONSTANTS
  WORD = 16
  MICRO = 16
  MAX_ETIME = 100
  RUNS = 2
  kbest = 2
  maxsamples = 3
  epsilon = 5
  NEVENT = 2
  RECORDTHRESH = 6
  Readings = {0, 253}
  Durations = {20, 21}
  Ticks = {0, 1}
  Events <- MCEvents
  UTIL_WEIGHT = 60
  AVG_LIBC_THRUPUT = 1
  Disk <- MCDisk
  Argvs <- MCArgvs
  Teams <- MCTeams
  default_tracefiles <- MCTraces
  Extents = {4, 6}
  ALIGNMENT = 2
  CHAR = 2
  NULL = NULL
  Unset = Unset
SPECIFICATION Spec
CHECK_DEADLOCK FALSE
INVARIANTS
  TypeOK
  RangesAreLive
  ReportTrue
  BestSamples
