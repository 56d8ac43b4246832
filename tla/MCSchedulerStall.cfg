\* One worker whose peers may stop reading: a connection waiting for its
\* first request must still be timed out.
CONSTANTS
  MaxConns = 2
  Fds <- MCFds
  Timeout = 1
  PageSize = 0
  MaxOut = 1
  SockBuf = 1
  AcceptOutcomes = {"registered"}
  NoConn = NoConn
  Leaked = Leaked
SPECIFICATION WorkerSpec
PROPERTY TimeoutsFire
