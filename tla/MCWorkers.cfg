\* Three workers starting together (any may fail its set-up), then the
\* dispatcher scanning their loads with a ceiling of two while running
\* workers close connections, until the shutdown broadcast frees them.
CONSTANTS
  NSlots = 3
  Capacity = 2
  NoThread = NoThread
SPECIFICATION Spec
\* The process stops after exit(EXIT_FAILURE) or once every worker is freed.
CHECK_DEADLOCK FALSE
 
INVARIANT SlotsDistinct
INVARIANT LoadBounded
INVARIANT RejectOnlyWhenFull
INVARIANT MatchesReference
PROPERTY StartupCompletes
