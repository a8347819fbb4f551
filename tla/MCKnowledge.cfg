\* Three requests (an upload, reindexes, deletes), two workers, every
\* failure, one transaction that dies.
SPECIFICATION FairSpec
CONSTANTS
  Req = {r1, r2, r3}
  Workers = {w1, w2}
  NoProc = NoProc
  Chunk = {c1, c2}
  Faults = {"parse", "embed", "mismatch"}
  MaxCrashes = 1
  Files <- MCFiles
  ChunkingConfigs <- MCConfigs
  MinChunkSize = 6
  Stores <- MCStores
  Requests <- MCRequests
  SearchTopK = 1
  SearchMinSimilarity = 2
INVARIANTS
  SearchableIsComplete
  OneProcessPerJob
  NothingLeftRunning
  StatusIsTrue
  BlobKept
  ChunksCoverDocument
  SearchIsSound
PROPERTY
  EveryJobFinishes
