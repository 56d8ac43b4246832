\* One worker, peers that keep reading: index, dispatch and timeout checks.
CONSTANTS
  MaxConns = 2
  Fds <- MCFds
  Timeout = 1
  PageSize = 0
  MaxOut = 2
  SockBuf = 1
  AcceptOutcomes = {"registered", "plugin_close"}
  NoConn = NoConn
  Leaked = Leaked
SPECIFICATION Spec
INVARIANT TypeOK
INVARIANT IndexConsistent
INVARIANT NoStaleDispatch
INVARIANT NoFdLeak
INVARIANT NoStrandedOutput
PROPERTY TimeoutsFire
