\* The engine alone: nothing but the channel ever unlinks an EOF marker.
CONSTANTS
  MaxStreams = 2
  Sizes <- MCSizes
  Types <- AllTypes
  PreserveFlags = {FALSE}
  SockBuf = 2
  PageSize = 1
  EofCallbackUnlinks = FALSE
SPECIFICATION Spec
INVARIANT CompletionOnceInOrder
