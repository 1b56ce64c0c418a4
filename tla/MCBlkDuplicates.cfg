SPECIFICATION Spec
CONSTANTS
  Word = {0, 1}
  MaxQueueSize = 2
  IdxMod = 8
  Vcpus = {v1, v2}
  Heads = {0, 1}
  Kinds = {"ok"}
  RingBase <- MCRingBase
  Faults = {}
  Spurious = FALSE
  EventIdx = FALSE
  Resets = FALSE
  Pauses = FALSE
  MaxPosts = 2
  NoOne = NoOne
INVARIANT CompletedOnce
CHECK_DEADLOCK FALSE
