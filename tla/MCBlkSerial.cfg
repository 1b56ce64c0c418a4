SPECIFICATION Spec
CONSTANTS
  Word = {0, 1}
  MaxQueueSize = 2
  IdxMod = 4
  Vcpus = {v1}
  Heads = {0, 1}
  Kinds = {"ok", "nostatus", "unmapped"}
  RingBase <- MCRingBase
  Faults = {"availIdx", "availEntry", "usedElem", "usedIdx", "usedFlags"}
  Spurious = TRUE
  EventIdx = FALSE
  Resets = TRUE
  Pauses = TRUE
  MaxPosts = 4
  NoOne = NoOne
INVARIANTS TypeOK RequestConservation FreshSetup InterruptNotLost
PROPERTIES LostOnlyByFailure ImplementsService
