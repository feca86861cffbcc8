\* As many threads as jobs.
CONSTANTS
  Job = {j1, j2, j3}
  Threads = 3
  MinChunk = 1
  MaxQueued = 2
  NoJob = NoJob
SPECIFICATION FairSpec
INVARIANTS TypeOK GuardIsReceiving
PROPERTY JobEnds
