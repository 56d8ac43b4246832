\* Both builds of the timer and the channel, every failure point except the
\* two the violation runs single out.
CONSTANTS
  TimerBuilds = {"timerfd", "pipe"}
  ChanBuilds = {"eventfd", "pipe"}
  Faults = {"ctx_nomem", "epoll_fail", "events_nomem", "timerfd_fail",
            "tfd_add_fail", "timer_nomem", "tpipe_fail", "eventfd_fail",
            "efd_add_fail", "cpipe_fail", "cpipe_add_fail"}
  TickCap = 2
SPECIFICATION Spec
\* The loop's life ends when it is destroyed or its creation failed.
CHECK_DEADLOCK FALSE
INVARIANT TypeOK
INVARIANT NoLeak
PROPERTY TimerServed
