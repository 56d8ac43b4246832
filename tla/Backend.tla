------------------------------ MODULE Backend ------------------------------
(***************************************************************************)
(* The resource handling of the epoll backend, mk_event_epoll.c: creating  *)
(* and destroying an event loop (_mk_event_loop_create,                    *)
(* _mk_event_loop_destroy), its periodic timer (_mk_event_timeout_create,  *)
(* a timerfd, or in builds without timerfd_create a pipe fed by a thread)  *)
(* and its signal channel (_mk_event_channel_create, an eventfd or a       *)
(* pipe).  Each call is one step: every allocation or system call of it    *)
(* may fail, and the step acquires what the code acquired before that     *)
(* point and releases what that error path releases.                       *)
(*                                                                         *)
(* Resources are named: the context, its epoll descriptor and event array; *)
(* the timer descriptor, or the fd_timer record and both ends of its pipe; *)
(* the channel descriptor, or both ends of its pipe.  The build, which     *)
(* HAVE_TIMERFD_CREATE and HAVE_EVENTFD select, is fixed in Init.          *)
(***************************************************************************)
EXTENDS Naturals

CONSTANTS
  TimerBuilds,   \* timer implementations compiled in: "timerfd", "pipe"
  ChanBuilds,    \* channel implementations compiled in: "eventfd", "pipe"
  Faults,        \* the failure points the environment may produce
  TickCap        \* unread expirations a timer can hold (pipe capacity)

ASSUME TimerBuilds \subseteq {"timerfd", "pipe"} /\ TimerBuilds # {}
ASSUME ChanBuilds \subseteq {"eventfd", "pipe"} /\ ChanBuilds # {}
ASSUME TickCap \in Nat \ {0}

\* Where each call can fail, in the order the code reaches the points.
LoopFaults == {"ctx_nomem", "epoll_fail", "events_nomem"}
TimerfdFaults == {"timerfd_fail", "settime_fail", "tfd_add_fail"}
TimerPipeFaults == {"timer_nomem", "tpipe_fail", "tpipe_add_fail"}
EventfdFaults == {"eventfd_fail", "efd_add_fail"}
ChanPipeFaults == {"cpipe_fail", "cpipe_add_fail"}

ASSUME Faults \subseteq LoopFaults \cup TimerfdFaults \cup TimerPipeFaults
                        \cup EventfdFaults \cup ChanPipeFaults

\* The descriptor each notification event carries in event->fd.
EvFd == [timer |-> [timerfd |-> "tfd", pipe |-> "tpr"],
         chan |-> [eventfd |-> "chfd", pipe |-> "chr"]]

VARIABLES
  build,   \* [timer, chan]: the implementations this binary was built with
  ctx,     \* the loop context: "none", "live", "destroyed", or "failed"
           \*   (NULL returned: mk_sched_launch_worker_loop exits)
  held,    \* descriptors open and blocks allocated
  reg,     \* descriptors in the epoll interest list
  mask,    \* event->mask of the timer and channel events
  res,     \* what each create call returned: "none", "ok" or "fail"
  ticks,   \* timer expirations not read yet (timerfd counter, pipe bytes)
  thr      \* the pipe build's _timeout_worker: "none", "run", "exited"

vars == <<build, ctx, held, reg, mask, res, ticks, thr>>

\* What a live loop, timer and channel own.
LoopRes == {"ctx", "efd", "events"}
TimerRes == [timerfd |-> {"tfd"}, pipe |-> {"tstruct", "tpr", "tpw"}]
ChanRes == [eventfd |-> {"chfd"}, pipe |-> {"chr", "chw"}]

\* The outcomes a call can have in this environment.
Outcomes(F) == (F \cap Faults) \cup {"ok"}

(***************************************************************************)
(* _mk_event_loop_create: malloc the context, epoll_create1, malloc the   *)
(* event array; a failure frees or closes what came before it.           *)
(***************************************************************************)
\* Slip: the event-array failure frees the context but not the epoll fd.
LoopCreateNoClose(o) ==
  LET acq == CASE o = "ctx_nomem" -> {}
               [] o = "epoll_fail" -> {"ctx"}
               [] o = "events_nomem" -> {"ctx", "efd"}
               [] o = "ok" -> LoopRes
      rel == CASE o = "epoll_fail" -> {"ctx"}
               [] o = "events_nomem" -> {"ctx"}
               [] OTHER -> {}
  IN /\ ctx = "none"
     /\ held' = (held \cup acq) \ rel
     /\ ctx' = IF o = "ok" THEN "live" ELSE "failed"
     /\ res' = [res EXCEPT !.loop = IF o = "ok" THEN "ok" ELSE "fail"]
     /\ UNCHANGED <<build, reg, mask, ticks, thr>>

LoopCreate(o) ==
  LET acq == CASE o = "ctx_nomem" -> {}
               [] o = "epoll_fail" -> {"ctx"}
               [] o = "events_nomem" -> {"ctx", "efd"}
               [] o = "ok" -> LoopRes
      rel == CASE o = "epoll_fail" -> {"ctx"}
               [] o = "events_nomem" -> {"ctx", "efd"}
               [] OTHER -> {}
  IN /\ ctx = "none"
     /\ held' = (held \cup acq) \ rel
     /\ ctx' = IF o = "ok" THEN "live" ELSE "failed"
     /\ res' = [res EXCEPT !.loop = IF o = "ok" THEN "ok" ELSE "fail"]
     /\ UNCHANGED <<build, reg, mask, ticks, thr>>

\* _mk_event_loop_destroy: close the epoll fd (dropping its interest list),
\* free the event array and the context.
LoopDestroy ==
  /\ ctx = "live"
  /\ ctx' = "destroyed"
  /\ held' = held \ LoopRes
  /\ reg' = {}
  /\ UNCHANGED <<build, mask, res, ticks, thr>>

(***************************************************************************)
(* _mk_event_add of a fresh notification event (mask MK_EVENT_EMPTY, so    *)
(* EPOLL_CTL_ADD): on success the descriptor joins the interest list and   *)
(* event->mask becomes MK_EVENT_READ; on failure both are left alone.      *)
(***************************************************************************)
AddRead(fd, ok) == IF ok THEN reg \cup {fd} ELSE reg

\* Slip: the timer is created and armed but never added to the epoll set.
TimerfdCreateSkipAdd(o) ==
  LET acq == IF o = "timerfd_fail" THEN {} ELSE {"tfd"}
      rel == IF o = "tfd_add_fail" THEN {"tfd"} ELSE {}
  IN /\ ctx = "live" /\ res.timer = "none" /\ build.timer = "timerfd"
     /\ held' = (held \cup acq) \ rel
     /\ mask' = [mask EXCEPT !.timer = IF o = "ok" THEN "READ" ELSE "EMPTY"]
     /\ res' = [res EXCEPT !.timer = IF o = "ok" THEN "ok" ELSE "fail"]
     /\ UNCHANGED <<build, ctx, reg, ticks, thr>>

(***************************************************************************)
(* _mk_event_timeout_create, timerfd build: timerfd_create,               *)
(* timerfd_settime (periodic, it_interval = expire), then the add, which   *)
(* closes the descriptor when it fails.                                    *)
(***************************************************************************)
TimerfdCreate(o) ==
  LET acq == IF o = "timerfd_fail" THEN {} ELSE {"tfd"}
      rel == IF o = "tfd_add_fail" THEN {"tfd"} ELSE {}
  IN /\ ctx = "live" /\ res.timer = "none" /\ build.timer = "timerfd"
     /\ held' = (held \cup acq) \ rel
     /\ reg' = AddRead("tfd", o = "ok")
     /\ mask' = [mask EXCEPT !.timer = IF o = "ok" THEN "READ" ELSE "EMPTY"]
     /\ res' = [res EXCEPT !.timer = IF o = "ok" THEN "ok" ELSE "fail"]
     /\ UNCHANGED <<build, ctx, ticks, thr>>

\* Slip: the write end fd[1] is the one added to the epoll set.
TimerPipeCreateWrongEnd(o) ==
  LET fails == o \in {"timer_nomem", "tpipe_fail"}
      acq == CASE o = "timer_nomem" -> {}
               [] o = "tpipe_fail" -> {"tstruct"}
               [] OTHER -> TimerRes.pipe
      rel == IF o = "tpipe_fail" THEN {"tstruct"} ELSE {}
  IN /\ ctx = "live" /\ res.timer = "none" /\ build.timer = "pipe"
     /\ held' = (held \cup acq) \ rel
     /\ reg' = AddRead("tpw", o = "ok")
     /\ mask' = [mask EXCEPT !.timer = IF fails THEN "EMPTY" ELSE "READ"]
     /\ res' = [res EXCEPT !.timer = IF fails THEN "fail" ELSE "ok"]
     /\ thr' = IF fails THEN thr ELSE "run"
     /\ UNCHANGED <<build, ctx, ticks>>

(***************************************************************************)
(* _mk_event_timeout_create without timerfd_create: malloc the fd_timer,   *)
(* pipe (freeing the record when it fails), the add of fd[0] whose result *)
(* is not looked at, event->mask = MK_EVENT_READ, and a thread spawned     *)
(* that owns the record and fd[1]; fd[0] is returned.                      *)
(***************************************************************************)
TimerPipeCreate(o) ==
  LET fails == o \in {"timer_nomem", "tpipe_fail"}
      acq == CASE o = "timer_nomem" -> {}
               [] o = "tpipe_fail" -> {"tstruct"}
               [] OTHER -> TimerRes.pipe
      rel == IF o = "tpipe_fail" THEN {"tstruct"} ELSE {}
  IN /\ ctx = "live" /\ res.timer = "none" /\ build.timer = "pipe"
     /\ held' = (held \cup acq) \ rel
     /\ reg' = AddRead("tpr", o = "ok")
     /\ mask' = [mask EXCEPT !.timer = IF fails THEN "EMPTY" ELSE "READ"]
     /\ res' = [res EXCEPT !.timer = IF fails THEN "fail" ELSE "ok"]
     /\ thr' = IF fails THEN thr ELSE "run"
     /\ UNCHANGED <<build, ctx, ticks>>

(***************************************************************************)
(* _mk_event_channel_create, eventfd build: eventfd, event->mask =         *)
(* MK_EVENT_EMPTY, then the add, which closes the descriptor on failure;   *)
(* both ends of the channel are that one descriptor.                       *)
(***************************************************************************)
EventfdChannelCreate(o) ==
  LET acq == IF o = "eventfd_fail" THEN {} ELSE {"chfd"}
      rel == IF o = "efd_add_fail" THEN {"chfd"} ELSE {}
  IN /\ ctx = "live" /\ res.chan = "none" /\ build.chan = "eventfd"
     /\ held' = (held \cup acq) \ rel
     /\ reg' = AddRead("chfd", o = "ok")
     /\ mask' = [mask EXCEPT !.chan = IF o = "ok" THEN "READ" ELSE "EMPTY"]
     /\ res' = [res EXCEPT !.chan = IF o = "ok" THEN "ok" ELSE "fail"]
     /\ UNCHANGED <<build, ctx, ticks, thr>>

\* _mk_event_channel_create, pipe build: pipe, then the add of fd[0], which
\* closes both ends on failure.
PipeChannelCreate(o) ==
  LET acq == IF o = "cpipe_fail" THEN {} ELSE ChanRes.pipe
      rel == IF o = "cpipe_add_fail" THEN ChanRes.pipe ELSE {}
  IN /\ ctx = "live" /\ res.chan = "none" /\ build.chan = "pipe"
     /\ held' = (held \cup acq) \ rel
     /\ reg' = AddRead("chr", o = "ok")
     /\ mask' = [mask EXCEPT !.chan = IF o = "ok" THEN "READ" ELSE "EMPTY"]
     /\ res' = [res EXCEPT !.chan = IF o = "ok" THEN "ok" ELSE "fail"]
     /\ UNCHANGED <<build, ctx, ticks, thr>>

(***************************************************************************)
(* A timer expiration.  timerfd build: the kernel counts it.  Pipe build: *)
(* _timeout_worker wakes from sleep and writes a byte; the write blocks    *)
(* while the pipe is full, and fails once the read end is closed, when the *)
(* thread leaves its loop, closes the write end and frees the record       *)
(* (nothing among the sources closes the read end).                        *)
(***************************************************************************)
TimerExpire ==
  /\ res.timer = "ok"
  /\ \/ /\ build.timer = "timerfd"
        /\ ticks < TickCap
        /\ ticks' = ticks + 1
        /\ UNCHANGED <<held, thr>>
     \/ /\ build.timer = "pipe" /\ thr = "run"
        /\ IF "tpr" \in held
           THEN /\ ticks < TickCap
                /\ ticks' = ticks + 1
                /\ UNCHANGED <<held, thr>>
           ELSE /\ held' = held \ {"tpw", "tstruct"}
                /\ thr' = "exited"
                /\ UNCHANGED ticks
  /\ UNCHANGED <<build, ctx, reg, mask, res>>

\* The worker loop sees the timer readable in epoll_wait and reads it.
TimerRead ==
  /\ ctx = "live"
  /\ EvFd.timer[build.timer] \in reg
  /\ ticks > 0
  /\ ticks' = 0
  /\ UNCHANGED <<build, ctx, held, reg, mask, res, thr>>

Init ==
  /\ build \in [timer : TimerBuilds, chan : ChanBuilds]
  /\ ctx = "none"
  /\ held = {}
  /\ reg = {}
  /\ mask = [timer |-> "EMPTY", chan |-> "EMPTY"]
  /\ res = [loop |-> "none", timer |-> "none", chan |-> "none"]
  /\ ticks = 0
  /\ thr = "none"

Next ==
  \/ \E o \in Outcomes(LoopFaults) : LoopCreate(o)
  \/ \E o \in Outcomes(TimerfdFaults) : TimerfdCreate(o)
  \/ \E o \in Outcomes(TimerPipeFaults) : TimerPipeCreate(o)
  \/ \E o \in Outcomes(EventfdFaults) : EventfdChannelCreate(o)
  \/ \E o \in Outcomes(ChanPipeFaults) : PipeChannelCreate(o)
  \/ LoopDestroy
  \/ TimerExpire
  \/ TimerRead

\* The clock keeps ticking and the worker loop serves what epoll reports.
Spec == Init /\ [][Next]_vars /\ WF_vars(TimerExpire) /\ WF_vars(TimerRead)

-----------------------------------------------------------------------------
TypeOK ==
  /\ build \in [timer : TimerBuilds, chan : ChanBuilds]
  /\ ctx \in {"none", "live", "destroyed", "failed"}
  /\ held \subseteq LoopRes \cup TimerRes.timerfd \cup TimerRes.pipe
                  \cup ChanRes.eventfd \cup ChanRes.pipe
  /\ reg \subseteq {"tfd", "tpr", "chfd", "chr"}
  /\ mask \in [{"timer", "chan"} -> {"EMPTY", "READ"}]
  /\ res \in [{"loop", "timer", "chan"} -> {"none", "ok", "fail"}]
  /\ ticks \in 0 .. TickCap
  /\ thr \in {"none", "run", "exited"}

\* The resources some live object owns: the loop until it is destroyed,
\* a timer or channel whose create call succeeded.
Owned ==
  (IF ctx = "live" THEN LoopRes ELSE {})
  \cup (IF res.timer = "ok" /\ thr # "exited" THEN TimerRes[build.timer]
       ELSE {})
  \cup (IF res.chan = "ok" THEN ChanRes[build.chan] ELSE {})

(***************************************************************************)
(* Every error path of the create calls releases what the call acquired   *)
(* before it failed, and a successful call hands over everything it        *)
(* acquired: at every point the descriptors open and blocks allocated are *)
(* exactly those a live loop, timer or channel owns.                       *)
(***************************************************************************)
NoLeak == held = Owned

(***************************************************************************)
(* The periodic timer drives the timeout sweep: while the loop lives, an   *)
(* expiration of a timer whose creation reported success is eventually     *)
(* read by the worker loop.                                                *)
(***************************************************************************)
TimerServed == (ticks > 0 /\ ctx = "live") ~> (ticks = 0 \/ ctx # "live")
=============================================================================
