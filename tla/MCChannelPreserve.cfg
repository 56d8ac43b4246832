\* Streams may carry the preserve flag, which mk_stream_release honours.
CONSTANTS
  MaxStreams = 2
  Sizes <- MCSizes
  Types <- DataTypes
  PreserveFlags = {FALSE, TRUE}
  SockBuf = 2
  PageSize = 1
  EofCallbackUnlinks = TRUE
SPECIFICATION Spec
INVARIANT BufferFreedOnce
