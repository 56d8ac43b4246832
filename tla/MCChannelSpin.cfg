\* Only the worker thread progresses; the peer may stop reading.
CONSTANTS
  MaxStreams = 1
  Sizes <- MCSizes
  Types <- DataTypes
  PreserveFlags = {FALSE}
  SockBuf = 1
  PageSize = 1
  EofCallbackUnlinks = TRUE
SPECIFICATION WorkerSpec
PROPERTY FlushReturns
