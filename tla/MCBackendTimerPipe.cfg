\* Build without timerfd_create, where registering the timer pipe may fail.
CONSTANTS
  TimerBuilds = {"pipe"}
  ChanBuilds = {"eventfd"}
  Faults = {"tpipe_add_fail"}
  TickCap = 2
SPECIFICATION Spec
CHECK_DEADLOCK FALSE
PROPERTY TimerServed
