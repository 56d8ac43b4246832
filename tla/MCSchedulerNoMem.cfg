\* One worker whose connection allocation may fail at accept time: the
\* descriptor mk_sched_add_connection returns NULL for is never closed.
CONSTANTS
  MaxConns = 2
  Fds <- MCFds
  Timeout = 1
  PageSize = 0
  MaxOut = 1
  SockBuf = 1
  AcceptOutcomes = {"registered", "nomem"}
  NoConn = NoConn
  Leaked = Leaked
SPECIFICATION Spec
INVARIANT NoFdLeak
