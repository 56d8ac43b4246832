\* One worker, peers that keep reading, responses of two streams: a channel
\* write may fail while the peer is still there.
CONSTANTS
  MaxConns = 1
  Fds <- MCFds
  Timeout = 1
  PageSize = 0
  MaxOut = 2
  SockBuf = 1
  AcceptOutcomes = {"registered"}
  NoConn = NoConn
  Leaked = Leaked
SPECIFICATION Spec
PROPERTY ErrorCloses
