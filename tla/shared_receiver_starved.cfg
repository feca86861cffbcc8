\* Two jobs, and a runtime of one thread.
CONSTANTS
  Job = {j1, j2}
  Threads = 1
  MinChunk = 1
  MaxQueued = 1
  NoJob = NoJob
SPECIFICATION FairSpec
PROPERTY JobEnds
CHECK_DEADLOCK FALSE
