SPECIFICATION Spec
CONSTANTS
  Word = {0, 1}
  MaxQueueSize = 1
  IdxMod = 2
  Vcpus = {v1, v2}
  Heads = {0}
  Kinds = {"ok"}
  RingBase <- MCRingBase
  Faults = {}
  Spurious = FALSE
  EventIdx = FALSE
  Resets = TRUE
  Pauses = FALSE
  MaxPosts = 4
  NoOne = NoOne
INVARIANT FreshSetup
