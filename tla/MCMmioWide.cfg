SPECIFICATION DriverSpec
CONSTANTS
  Word = {0, 1, 2}
  MaxQueueSize = 4
  IdxMod = 8
  Bits = {"f", "g"}
  Offered <- MCOffered
  Selectors = {0, 1}
  AvailIdxs = {}
  QueueNums = {}
  AckValues = {}
  StatusValues = {}
  Sizes = {4}
  Addrs <- MCWideAddrs
  Wanted <- MCWanted
  MaxPosts = 2
INVARIANT LayoutAgreed
