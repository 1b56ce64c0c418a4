SPECIFICATION AccessSpec
CONSTANTS
  Word = {0, 1}
  MaxQueueSize = 4
  IdxMod = 8
  Bits = {"f"}
  Offered <- MCOffered
  Selectors = {0, 1}
  AvailIdxs = {0, 3}
  QueueNums = {0, 3, 10}
  AckValues <- MCAckValues
  StatusValues <- MCStatusValues
  BaseAddr <- MCBase
  Length <- MCLength
  AddrMod = 4096
  Width = {"Byte", "Dword"}
  Touched <- MCTouched
  blockConfig <- MCConfig
INVARIANTS TypeOK RingsMatchAddrs SlotsFollowIndex NoStrayAccess ConfigReadable
PROPERTIES RingsFixedUntilReset ResetReadsFresh
