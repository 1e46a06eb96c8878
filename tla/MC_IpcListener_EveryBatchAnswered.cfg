CONSTANTS
  a1 = a1
  a2 = a2
  d1 = d1
  d2 = d2
  Addrs <- MCAddrs
  Data <- MCData
  Indices = {0, 1}
  ByteCode = ByteCode
  EmptyBytes = EmptyBytes
  BadHex = BadHex
  Missing = Missing
  Default = Default
  Requests <- MCRequests
  Batches <- MCBatches
  MaxBatch = 2

CHECK_DEADLOCK FALSE
SPECIFICATION Spec
PROPERTY EveryBatchAnswered
