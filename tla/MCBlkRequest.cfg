SPECIFICATION Spec
CONSTANTS
  QueueSize = 4
  RequestHead = 0
  Readable = {0, 1, 2, 3}
  Mapped <- MCMapped
  Tables <- MCTables
  Memories <- MCMemories
  Disk <- MCDisk
  Rewrites <- MCRewrites
  MaxRewrites = 2
  LenMod = 4
INVARIANTS TypeOK WalkBounded WalkIsChain BuffersFit OneCall DataIntact
PROPERTIES WritesGranted AnswersAsService Answered
CHECK_DEADLOCK FALSE
