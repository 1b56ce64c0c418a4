SPECIFICATION DriverSpec
CONSTANTS
  Word = {0, 1, 2}
  MaxQueueSize = 4
  IdxMod = 8
  Bits = {"f", "g"}
  Offered <- MCOffered
  Selectors = {0, 1}
  AvailIdxs = {}
  QueueNums = {}
  AckValues = {}
  StatusValues = {}
  Sizes = {1, 2, 4}
  Addrs <- MCAddrs
  Wanted <- MCWanted
  MaxPosts = 2
INVARIANTS LayoutAgreed IndicesAgreed FeaturesAgreed
