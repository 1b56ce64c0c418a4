SPECIFICATION FairSpec
CONSTANTS
  Word = {0, 1}
  MaxQueueSize = 2
  IdxMod = 4
  Vcpus = {v1}
  Heads = {0, 1}
  Kinds = {"ok", "nodata", "bad"}
  RingBase <- MCRingBase
  Faults = {}
  Spurious = FALSE
  EventIdx = FALSE
  Resets = TRUE
  Pauses = FALSE
  MaxPosts = 4
  NoOne = NoOne
PROPERTIES RequestsServed ImplementsFairService
