SPECIFICATION FairSpec
CONSTANTS
  c1 = c1
  c2 = c2
  c3 = c3
  Calls = {c1, c2, c3}
  Does <- MCDoes
  None = None
  ChunkSize = 2
  MaxFileSize = 8
  MaxChunkCount = 4
  ChunkCap = 3
  ClientTimeout = 0
  Contents <- MCContents
  Shapes <- MCShapes
  Served <- MCServed
INVARIANTS UploadIsTrue HonestIsAccepted WantNeverWraps
PROPERTIES AtomicFile CallsReturn
CHECK_DEADLOCK FALSE
