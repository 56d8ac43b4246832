\* The stream engine as the HTTP layer uses it: unpreserved streams of every
\* type, an EOF marker whose cb_finished unlinks it, a peer that keeps reading.
CONSTANTS
  MaxStreams = 3
  Sizes <- MCSizes
  Types <- AllTypes
  PreserveFlags = {FALSE}
  SockBuf = 2
  PageSize = 1
  EofCallbackUnlinks = TRUE
SPECIFICATION Spec
INVARIANT TypeOK
INVARIANT CompletionOnceInOrder
INVARIANT BufferFreedOnce
PROPERTY Delivered
PROPERTY ChannelRefines
