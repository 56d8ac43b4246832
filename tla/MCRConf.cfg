\* Every file of up to three such lines, read with the 255-byte buffer of
\* mk_rconf_create (no line is long enough to be split).
CONSTANTS
  BufSize = 255
  Lines <- MCLines
  MaxLines = 3
SPECIFICATION Spec
\* The reader stops after returning conf or after exit(EXIT_FAILURE).
CHECK_DEADLOCK FALSE
INVARIANT MatchesFormat
