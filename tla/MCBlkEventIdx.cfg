SPECIFICATION FairSpec
CONSTANTS
  Word = {0, 1}
  MaxQueueSize = 2
  IdxMod = 4
  Vcpus = {v1}
  Heads = {0}
  Kinds = {"ok"}
  RingBase <- MCRingBase
  Faults = {}
  Spurious = FALSE
  EventIdx = TRUE
  Resets = FALSE
  Pauses = FALSE
  MaxPosts = 4
  NoOne = NoOne
PROPERTY RequestsServed
CHECK_DEADLOCK FALSE
