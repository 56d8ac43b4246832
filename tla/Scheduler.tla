----------------------------- MODULE Scheduler -----------------------------
(***************************************************************************)
(* One worker of mk_scheduler.c: its epoll loop, its connection index      *)
(* (sched->rb_queue, keyed by descriptor), its timeout queue, and the      *)
(* handlers the loop runs for a ready descriptor (mk_sched_event_read,     *)
(* mk_sched_event_write, mk_sched_event_close), the timer                 *)
(* (mk_sched_check_timeouts) and the listening socket                      *)
(* (mk_sched_add_connection).  The epoll backend of mk_event_epoll.c is    *)
(* the interest list 'ep'; the kernel descriptor table is 'fdt'.           *)
(*                                                                         *)
(* Workers share no connection, so one worker is modelled.  Its channels   *)
(* are abstracted to a count of queued one-byte streams; Channel.tla       *)
(* models mk_channel_write in full.  The protocol callbacks (cb_read,      *)
(* cb_done, cb_close) and the peers are the environment.  The worker loop  *)
(* itself (mk_server_worker_loop) is not among the sources and follows the *)
(* design: a handler returning -1 closes the connection, and an event      *)
(* whose mk_event was recycled (MK_EVENT_IDLE) is skipped.                 *)
(***************************************************************************)
EXTENDS Integers, Sequences, SequencesExt, FiniteSets

CONSTANTS
  MaxConns,    \* connection objects allocated over the run
  Fds,         \* descriptor numbers the kernel hands out
  Timeout,     \* mk_config->timeout, in clock ticks
  PageSize,    \* sched->mem_pagesize, in bytes
  MaxOut,      \* bytes a connection may have queued on its channel
  SockBuf,     \* free space of an empty socket send buffer
  AcceptOutcomes, \* how mk_sched_add_connection may end at accept time
  NoConn,
  Leaked       \* fdt value of a descriptor left open with no connection

ASSUME MaxConns \in Nat \ {0}
ASSUME Fds \subseteq Nat \ {0} /\ Fds # {}
ASSUME Timeout \in Nat \ {0} /\ PageSize \in Nat
ASSUME MaxOut \in Nat \ {0} /\ SockBuf \in Nat \ {0}
ASSUME AcceptOutcomes \subseteq {"registered", "plugin_close", "nomem"}
       /\ AcceptOutcomes # {}

Conns == 1 .. MaxConns
ASSUME NoConn \notin Conns /\ Leaked \notin Conns \cup {NoConn}

\* Interest bits (MK_EVENT_READ, MK_EVENT_WRITE) and reported conditions.
R == "R"
W == "W"
EvIn == "IN"
EvOut == "OUT"
EvErr == "ERR"   \* EPOLLERR | EPOLLHUP | EPOLLRDHUP, always monitored

\* mk_channel_write return codes, and the stop mask of the read loop.
DONE == "DONE"
ERROR == "ERROR"
FLUSH == "FLUSH"
EMPTY == "EMPTY"
BUSY == "BUSY"
Stop == {DONE, ERROR, EMPTY}

VARIABLES
  cs,         \* cs[c]: connection c (status, fd, event mask, IDLE bit,
              \*   ticks since arrival, is_timeout_on)
  out,        \* bytes queued on connection c's channel
  rbq,        \* sched->rb_queue: the connections in the index
  tq,         \* sched->timeout_queue, in insertion order
  ep,         \* epoll interest list: ep[f] = [on, mask, ptr]
  fdt,        \* kernel descriptor table: fdt[f] = connection owning f,
              \*   NoConn when f is closed, Leaked when open but unowned
  rx,         \* the peer of c has sent bytes not read yet
  hup,        \* the peer of c has closed or reset the connection
  room,       \* free space in c's socket send buffer
  backlog,    \* clients waiting in the listening socket's queue
  timerReady, \* the timeout timer descriptor is readable
  pc,         \* worker: "wait" in epoll_wait, "batch", or "rdloop"
  batch,      \* events of the last epoll_wait not handled yet
  rl,         \* frame of the write loop of mk_sched_event_read
  nConn,      \* connection objects allocated so far
  closes,     \* history: cb_close calls per connection
  uaf,        \* history: a handler ran on a dropped connection
  failed      \* history: a mk_channel_write of c returned MK_CHANNEL_ERROR

connVars == <<cs, out, rbq, tq, ep, fdt>>
peerVars == <<rx, hup, room, backlog>>
vars == <<cs, out, rbq, tq, ep, fdt, rx, hup, room, backlog, timerReady,
          pc, batch, rl, nConn, closes, uaf, failed>>

Live == {c \in Conns : cs[c].st = "live"}
FreeFds == {f \in Fds : fdt[f] = NoConn}
InTq(c) == \E k \in 1 .. Len(tq) : tq[k] = c
MinFd(S) == CHOOSE f \in S : \A g \in S : f <= g

NoReg == [on |-> FALSE, mask |-> {}, ptr |-> NoConn]

(***************************************************************************)
(* _mk_event_add: EPOLL_CTL_ADD when event->mask is MK_EVENT_EMPTY, else   *)
(* EPOLL_CTL_MOD; the kernel refuses an ADD of a registered descriptor and *)
(* a MOD of an unregistered one, and then event->mask is left unchanged.   *)
(***************************************************************************)
AddOk(c) == IF cs[c].mask = {} THEN ~ep[cs[c].fd].on ELSE ep[cs[c].fd].on

EpAfterAdd(c, m) ==
  IF AddOk(c) THEN [ep EXCEPT ![cs[c].fd] = [on |-> TRUE, mask |-> m, ptr |-> c]]
              ELSE ep

MaskAfterAdd(c, m) == IF AddOk(c) THEN m ELSE cs[c].mask

\* mk_event_add(sched->loop, fd, MK_EVENT_CONNECTION, m, conn)
EventAdd(c, m) ==
  /\ ep' = EpAfterAdd(c, m)
  /\ cs' = [cs EXCEPT ![c].mask = MaskAfterAdd(c, m)]

\* What epoll reports for descriptor f, from the socket that owns it now.
FdEvents(f) ==
  LET s == fdt[f] IN
  IF s \notin Conns THEN {}
  ELSE {e \in {EvIn, EvOut, EvErr} :
          \/ e = EvIn /\ R \in ep[f].mask /\ (rx[s] \/ hup[s])
          \/ e = EvOut /\ W \in ep[f].mask /\ (room[s] > 0 \/ hup[s])
          \/ e = EvErr /\ hup[s]}

\* _mk_event_wait: the batch epoll_wait returns (data.ptr is the mk_event).
Ready ==
  {[k |-> "conn", c |-> ep[f].ptr, ev |-> FdEvents(f)] :
      f \in {g \in Fds : ep[g].on /\ FdEvents(g) # {}}}
  \cup (IF timerReady THEN {[k |-> "timer", c |-> NoConn, ev |-> {}]} ELSE {})
  \cup (IF backlog > 0 THEN {[k |-> "listen", c |-> NoConn, ev |-> {}]} ELSE {})

(***************************************************************************)
(* mk_channel_write on the abstract channel: one one-byte stream per call. *)
(***************************************************************************)
\* Mutant: a write that ignores a full send buffer (no EAGAIN branch).
ChanWriteNoEagain(c) ==
  LET fail == [ret |-> ERROR, out |-> out[c] - 1, room |-> room[c], n |-> 0]
  IN IF out[c] = 0 THEN {[ret |-> EMPTY, out |-> 0, room |-> room[c], n |-> 0]}
     ELSE IF hup[c] THEN {fail}
     ELSE {fail, [ret |-> IF out[c] = 1 THEN DONE ELSE FLUSH, out |-> out[c] - 1,
                  room |-> room[c] - 1, n |-> 1]}

(***************************************************************************)
(* The outcomes of one call: EMPTY on an empty queue; on a reset peer the  *)
(* write fails (EPIPE); EAGAIN on a full buffer is BUSY; otherwise a byte  *)
(* goes out (DONE when the queue empties, else FLUSH).  A write may also  *)
(* fail with the peer still there: a non-EAGAIN error or 0 bytes (a file  *)
(* that shrank).  A failure releases the head stream and returns ERROR.   *)
(***************************************************************************)
ChanWrite(c) ==
  LET fail == [ret |-> ERROR, out |-> out[c] - 1, room |-> room[c], n |-> 0]
  IN IF out[c] = 0 THEN {[ret |-> EMPTY, out |-> 0, room |-> room[c], n |-> 0]}
     ELSE IF hup[c] THEN {fail}
     ELSE IF room[c] = 0 THEN {fail, [ret |-> BUSY, out |-> out[c], room |-> 0, n |-> 0]}
     ELSE {fail, [ret |-> IF out[c] = 1 THEN DONE ELSE FLUSH, out |-> out[c] - 1,
                  room |-> room[c] - 1, n |-> 1]}

(***************************************************************************)
(* mk_sched_event_free: mark the event MK_EVENT_IDLE (recycled) once.      *)
(***************************************************************************)
\* Mutant: mk_sched_event_free that forgets to set MK_EVENT_IDLE.
EventFreeNoMark(r) == r

EventFree(r) == [r EXCEPT !.idle = TRUE]

(***************************************************************************)
(* mk_sched_remove_client for every connection of D: mk_event_del, close  *)
(* counter, rb_erase, mk_sched_conn_timeout_del, net->close,               *)
(* mk_channel_clean, mk_sched_event_free, status MK_SCHED_CONN_CLOSED.     *)
(* Closing the descriptor frees its number for the next accept.           *)
(***************************************************************************)
\* Mutant: mk_sched_remove_client without rb_erase.
RemoveClientNoErase(D) ==
  /\ cs' = [c \in Conns |->
              IF c \in D THEN [EventFree(cs[c]) EXCEPT !.st = "closed",
                                                       !.tmo = FALSE]
                         ELSE cs[c]]
  /\ ep' = [f \in Fds |-> IF \E c \in D : cs[c].fd = f THEN NoReg ELSE ep[f]]
  /\ rbq' = rbq
  /\ tq' = SelectSeq(tq, LAMBDA c : c \notin D)
  /\ fdt' = [f \in Fds |-> IF fdt[f] \in D THEN NoConn ELSE fdt[f]]
  /\ out' = [c \in Conns |-> IF c \in D THEN 0 ELSE out[c]]

\* Mutant: mk_sched_remove_client without net->close of the descriptor.
RemoveClientNoClose(D) ==
  /\ cs' = [c \in Conns |->
              IF c \in D THEN [EventFree(cs[c]) EXCEPT !.st = "closed",
                                                       !.tmo = FALSE]
                         ELSE cs[c]]
  /\ ep' = [f \in Fds |-> IF \E c \in D : cs[c].fd = f THEN NoReg ELSE ep[f]]
  /\ rbq' = rbq \ D
  /\ tq' = SelectSeq(tq, LAMBDA c : c \notin D)
  /\ fdt' = fdt
  /\ out' = [c \in Conns |-> IF c \in D THEN 0 ELSE out[c]]

RemoveClient(D) ==
  /\ cs' = [c \in Conns |->
              IF c \in D THEN [EventFree(cs[c]) EXCEPT !.st = "closed",
                                                       !.tmo = FALSE]
                         ELSE cs[c]]
  /\ ep' = [f \in Fds |-> IF \E c \in D : cs[c].fd = f THEN NoReg ELSE ep[f]]
  /\ rbq' = rbq \ D
  /\ tq' = SelectSeq(tq, LAMBDA c : c \notin D)
  /\ fdt' = [f \in Fds |-> IF fdt[f] \in D THEN NoConn ELSE fdt[f]]
  /\ out' = [c \in Conns |-> IF c \in D THEN 0 ELSE out[c]]

Bit(b) == IF b THEN 1 ELSE 0
NoFrame == [c |-> NoConn, total |-> 0, count |-> 0]

\* The worker goes on with the batch, or back to epoll_wait when it is done.
NextPc(b) == IF b = {} THEN "wait" ELSE "batch"

(***************************************************************************)
(* mk_sched_event_close(conn, sched, MK_EP_SOCKET_CLOSED): mk_event_del,   *)
(* cb_close (the type is not MK_EP_SOCKET_DONE), mk_sched_drop_connection. *)
(***************************************************************************)
EventClose(c) ==
  /\ closes' = [closes EXCEPT ![c] = @ + 1]
  /\ RemoveClient({c})
  /\ UNCHANGED <<rx, room, backlog, timerReady, rl, nConn, failed>>

(***************************************************************************)
(* mk_sched_check_timeouts: every connection of the timeout queue that is  *)
(* not IDLE and whose arrive_time + timeout <= now gets cb_close with      *)
(* MK_SCHED_CONN_TIMEOUT and is dropped.  The worker loop has read the     *)
(* timer descriptor, which is readable again at the next expiration.       *)
(***************************************************************************)
\* Mutant: the expiry test arrive_time + timeout < now (off by one tick).
CheckTimeoutsStrict ==
  LET Exp == {c \in Conns : InTq(c) /\ ~cs[c].idle /\ cs[c].age > Timeout}
  IN /\ closes' = [c \in Conns |-> closes[c] + Bit(c \in Exp)]
     /\ RemoveClient(Exp)
     /\ timerReady' = FALSE
     /\ UNCHANGED <<rx, room, backlog, rl, nConn, failed>>

CheckTimeouts ==
  LET Exp == {c \in Conns : InTq(c) /\ ~cs[c].idle /\ cs[c].age >= Timeout}
  IN /\ closes' = [c \in Conns |-> closes[c] + Bit(c \in Exp)]
     /\ RemoveClient(Exp)
     /\ timerReady' = FALSE
     /\ UNCHANGED <<rx, room, backlog, rl, nConn, failed>>

(***************************************************************************)
(* A listening-socket event: accept4 returns the lowest free descriptor    *)
(* and mk_sched_add_connection runs on it.  Stage 10 may close it at once  *)
(* ("plugin_close"); the connection allocation may fail, and then the      *)
(* function logs and returns NULL with remote_fd still open ("nomem");     *)
(* otherwise it links the connection into rb_queue and the timeout queue,  *)
(* and the caller registers it for MK_EVENT_READ.  The caller is not among *)
(* the sources; it cannot close on NULL, since on the stage-10 path the    *)
(* descriptor is already closed, and it is modelled as leaving it alone.   *)
(***************************************************************************)
AcceptConn(o) ==
  LET f == MinFd(FreeFds)
      c == nConn + 1
      fresh == [st |-> "live", fd |-> f, mask |-> {}, idle |-> FALSE,
                age |-> 0, tmo |-> TRUE]
      ok == ~ep[f].on
  IN /\ backlog' = backlog - 1
     /\ CASE o = "plugin_close" ->
               UNCHANGED <<connVars, rx, room, nConn, closes>>
          [] o = "nomem" ->
               /\ fdt' = [fdt EXCEPT ![f] = Leaked]
               /\ UNCHANGED <<cs, out, rbq, tq, ep, rx, room, nConn, closes>>
          [] o = "registered" ->
               /\ cs' = [cs EXCEPT ![c] = IF ok THEN [fresh EXCEPT !.mask = {R}]
                                                ELSE fresh]
               /\ ep' = IF ok THEN [ep EXCEPT ![f] = [on |-> TRUE, mask |-> {R},
                                                      ptr |-> c]]
                              ELSE ep
               /\ rbq' = rbq \cup {c}
               /\ tq' = Append(tq, c)
               /\ fdt' = [fdt EXCEPT ![f] = c]
               /\ out' = [out EXCEPT ![c] = 0]
               /\ rx' = [rx EXCEPT ![c] = FALSE]
               /\ room' = [room EXCEPT ![c] = SockBuf]
               /\ nConn' = c
               /\ UNCHANGED closes
     /\ UNCHANGED <<timerReady, rl, failed>>

(***************************************************************************)
(* mk_sched_event_read, first half: cb_read.  The protocol handler reads   *)
(* the bytes; it may need more (returns -1 with EAGAIN, the handler        *)
(* returns 1), fail (-1, the loop closes the connection), or complete a    *)
(* request: it takes the connection off the timeout queue and queues a     *)
(* response of one or more one-byte streams, and the write loop starts.   *)
(***************************************************************************)
ReadNeedMore(c) ==
  /\ rx' = [rx EXCEPT ![c] = FALSE]
  /\ UNCHANGED <<connVars, room, backlog, timerReady, rl, nConn, closes, failed>>

ReadFatal(c) ==
  /\ rx' = [rx EXCEPT ![c] = FALSE]
  /\ closes' = [closes EXCEPT ![c] = @ + 1]
  /\ RemoveClient({c})
  /\ UNCHANGED <<room, backlog, timerReady, rl, nConn, failed>>

ReadRequest(c) ==
  /\ out[c] < MaxOut
  /\ rx' = [rx EXCEPT ![c] = FALSE]
  /\ \E n \in 1 .. MaxOut - out[c] : out' = [out EXCEPT ![c] = @ + n]
  /\ cs' = [cs EXCEPT ![c].tmo = FALSE]
  /\ tq' = SelectSeq(tq, LAMBDA x : x # c)
  /\ rl' = [c |-> c, total |-> 0, count |-> 0]
  /\ UNCHANGED <<rbq, ep, fdt, room, backlog, timerReady, nConn, closes, failed>>

(***************************************************************************)
(* mk_sched_event_write: one mk_channel_write.  FLUSH or BUSY: return 0.   *)
(* DONE or EMPTY: cb_done; -1 closes, 0 re-arms MK_EVENT_READ, 1 means the *)
(* handler queued more and write interest stays.  ERROR: return -1.        *)
(***************************************************************************)
EventWrite(c) ==
  /\ \E w \in ChanWrite(c) :
       /\ room' = [room EXCEPT ![c] = w.room]
       /\ failed' = [failed EXCEPT ![c] = @ \/ w.ret = ERROR]
       /\ CASE w.ret \in {FLUSH, BUSY} ->
                 /\ out' = [out EXCEPT ![c] = w.out]
                 /\ UNCHANGED <<cs, rbq, tq, ep, fdt, closes>>
            [] w.ret \in {DONE, EMPTY} ->
                 \/ /\ closes' = [closes EXCEPT ![c] = @ + 1]
                    /\ RemoveClient({c})
                 \/ /\ out' = [out EXCEPT ![c] = w.out]
                    /\ EventAdd(c, {R})
                    /\ UNCHANGED <<rbq, tq, fdt, closes>>
                 \/ /\ out' = [out EXCEPT ![c] = w.out + 1]
                    /\ UNCHANGED <<cs, rbq, tq, ep, fdt, closes>>
            [] OTHER ->
                 /\ closes' = [closes EXCEPT ![c] = @ + 1]
                 /\ RemoveClient({c})
  /\ UNCHANGED <<rx, backlog, timerReady, rl, nConn>>

(***************************************************************************)
(* mk_sched_event_read, second half: the write loop                        *)
(*   do { ret = mk_channel_write(..., &count); total += count; }           *)
(*   while (total <= sched->mem_pagesize && (ret & stop) == 0);            *)
(* one iteration per step; 'count' keeps its value when a write returns   *)
(* BUSY.  On exit: DONE runs cb_done (1: arm MK_EVENT_WRITE; -1: the loop  *)
(* closes the connection); FLUSH or BUSY arm MK_EVENT_WRITE unless armed.  *)
(***************************************************************************)
\* Mutant: the write loop stops on FLUSH or BUSY without arming MK_EVENT_WRITE.
ReadLoopExitNoArm(c, w) ==
  CASE w.ret = DONE ->
         \/ /\ out' = [out EXCEPT ![c] = w.out + 1]
            /\ EventAdd(c, {W})
            /\ UNCHANGED <<rbq, tq, fdt, closes>>
         \/ /\ out' = [out EXCEPT ![c] = w.out]
            /\ UNCHANGED <<cs, rbq, tq, ep, fdt, closes>>
         \/ /\ closes' = [closes EXCEPT ![c] = @ + 1]
            /\ RemoveClient({c})
    [] OTHER ->
         /\ out' = [out EXCEPT ![c] = w.out]
         /\ UNCHANGED <<cs, rbq, tq, ep, fdt, closes>>

ReadLoopExit(c, w) ==
  CASE w.ret = DONE ->
         \/ /\ out' = [out EXCEPT ![c] = w.out + 1]
            /\ EventAdd(c, {W})
            /\ UNCHANGED <<rbq, tq, fdt, closes>>
         \/ /\ out' = [out EXCEPT ![c] = w.out]
            /\ UNCHANGED <<cs, rbq, tq, ep, fdt, closes>>
         \/ /\ closes' = [closes EXCEPT ![c] = @ + 1]
            /\ RemoveClient({c})
    [] w.ret \in {FLUSH, BUSY} ->
         /\ out' = [out EXCEPT ![c] = w.out]
         /\ IF W \notin cs[c].mask THEN EventAdd(c, {W}) ELSE UNCHANGED <<cs, ep>>
         /\ UNCHANGED <<rbq, tq, fdt, closes>>
    [] OTHER ->
         /\ out' = [out EXCEPT ![c] = w.out]
         /\ UNCHANGED <<cs, rbq, tq, ep, fdt, closes>>

\* One iteration of the loop, with the outcome of mk_channel_write taken
\* from the set Outcomes(c).
ReadLoopWith(Outcomes(_)) ==
  LET c == rl.c IN
  /\ pc = "rdloop"
  /\ \E w \in Outcomes(c) :
       LET cnt == IF w.n > 0 THEN w.n ELSE rl.count
           total == rl.total + cnt
       IN /\ room' = [room EXCEPT ![c] = w.room]
          /\ failed' = [failed EXCEPT ![c] = @ \/ w.ret = ERROR]
          /\ IF total <= PageSize /\ w.ret \notin Stop
             THEN /\ rl' = [rl EXCEPT !.total = total, !.count = cnt]
                  /\ out' = [out EXCEPT ![c] = w.out]
                  /\ UNCHANGED <<cs, rbq, tq, ep, fdt, closes, pc>>
             ELSE /\ rl' = NoFrame
                  /\ pc' = NextPc(batch)
                  /\ ReadLoopExit(c, w)
  /\ UNCHANGED <<rx, hup, backlog, timerReady, batch, nConn, uaf>>

ReadLoopStep == ReadLoopWith(ChanWrite)

(***************************************************************************)
(* The worker loop's dispatch of a connection event (design, 4.3): an      *)
(* event whose mk_event is IDLE was recycled earlier in this batch and is  *)
(* skipped; otherwise an error or hang-up closes, write readiness runs     *)
(* mk_sched_event_write, read readiness mk_sched_event_read.              *)
(***************************************************************************)
HandleConn(c, ev) ==
  /\ uaf' = (uaf \/ (~cs[c].idle /\ cs[c].st # "live"))
  /\ \/ /\ cs[c].idle
        /\ pc' = NextPc(batch')
        /\ UNCHANGED <<connVars, rx, room, backlog, timerReady, rl, nConn,
                       closes, failed>>
     \/ /\ ~cs[c].idle
        /\ CASE EvErr \in ev -> EventClose(c) /\ pc' = NextPc(batch')
             [] EvOut \in ev -> EventWrite(c) /\ pc' = NextPc(batch')
             [] OTHER ->
                  \/ ReadNeedMore(c) /\ pc' = NextPc(batch')
                  \/ ReadFatal(c) /\ pc' = NextPc(batch')
                  \/ ReadRequest(c) /\ pc' = "rdloop"

\* One event of the batch, in any order (the backend's order is unspecified).
Process ==
  /\ pc = "batch"
  /\ \E e \in batch :
       /\ batch' = batch \ {e}
       /\ CASE e.k = "timer" ->
                 CheckTimeouts /\ pc' = NextPc(batch') /\ UNCHANGED uaf
            [] e.k = "listen" ->
                 /\ \E o \in AcceptOutcomes : AcceptConn(o)
                 /\ pc' = NextPc(batch')
                 /\ UNCHANGED uaf
            [] OTHER -> HandleConn(e.c, e.ev)
  /\ UNCHANGED hup

\* _mk_event_wait: block until something is ready, take the whole batch.
Wait ==
  /\ pc = "wait"
  /\ Ready # {}
  /\ batch' = Ready
  /\ pc' = "batch"
  /\ UNCHANGED <<connVars, peerVars, timerReady, rl, nConn, closes, uaf, failed>>

-----------------------------------------------------------------------------
(* Environment: clients, peers and the clock.                              *)

\* A client connects to the listening socket.
Connect ==
  /\ backlog = 0
  /\ nConn < MaxConns
  /\ FreeFds # {}
  /\ backlog' = 1
  /\ UNCHANGED <<connVars, rx, hup, room, timerReady, pc, batch, rl, nConn,
                 closes, uaf, failed>>

PeerSend(c) ==
  /\ c \in Live /\ ~rx[c] /\ ~hup[c]
  /\ rx' = [rx EXCEPT ![c] = TRUE]
  /\ UNCHANGED <<connVars, hup, room, backlog, timerReady, pc, batch, rl,
                 nConn, closes, uaf, failed>>

PeerRead(c) ==
  /\ c \in Live /\ room[c] < SockBuf
  /\ room' = [room EXCEPT ![c] = SockBuf]
  /\ UNCHANGED <<connVars, rx, hup, backlog, timerReady, pc, batch, rl,
                 nConn, closes, uaf, failed>>

PeerHangup(c) ==
  /\ c \in Live /\ ~hup[c]
  /\ hup' = [hup EXCEPT ![c] = TRUE]
  /\ UNCHANGED <<connVars, rx, room, backlog, timerReady, pc, batch, rl,
                 nConn, closes, uaf, failed>>

(***************************************************************************)
(* A clock tick: log_current_utime advances and the periodic timer         *)
(* (_mk_event_timeout_create, it_interval = expire) becomes readable.      *)
(* A connection's age is now - arrive_time, capped at Timeout, where the   *)
(* test arrive_time + timeout <= now no longer changes.                    *)
(***************************************************************************)
Tick ==
  /\ timerReady' = TRUE
  /\ cs' = [c \in Conns |->
              IF InTq(c) THEN [cs[c] EXCEPT !.age = IF @ < Timeout THEN @ + 1
                                                                  ELSE @]
                         ELSE cs[c]]
  /\ UNCHANGED <<out, rbq, tq, ep, fdt, peerVars, pc, batch, rl, nConn,
                 closes, uaf, failed>>

Init ==
  /\ cs = [c \in Conns |-> [st |-> "unused", fd |-> 0, mask |-> {},
                            idle |-> FALSE, age |-> 0, tmo |-> FALSE]]
  /\ out = [c \in Conns |-> 0]
  /\ rbq = {}
  /\ tq = <<>>
  /\ ep = [f \in Fds |-> NoReg]
  /\ fdt = [f \in Fds |-> NoConn]
  /\ rx = [c \in Conns |-> FALSE]
  /\ hup = [c \in Conns |-> FALSE]
  /\ room = [c \in Conns |-> SockBuf]
  /\ backlog = 0
  /\ timerReady = FALSE
  /\ pc = "wait"
  /\ batch = {}
  /\ rl = NoFrame
  /\ nConn = 0
  /\ closes = [c \in Conns |-> 0]
  /\ uaf = FALSE
  /\ failed = [c \in Conns |-> FALSE]

Next ==
  \/ Wait
  \/ Process
  \/ ReadLoopStep
  \/ Connect
  \/ \E c \in Conns : PeerSend(c) \/ PeerRead(c) \/ PeerHangup(c)
  \/ Tick

\* The worker thread and the clock thread run; epoll_wait returns when a
\* descriptor is ready.
\* A scheduled thread makes progress, but the kernel owes it no write error:
\* the fairness of the read loop is over the outcomes other than a failure
\* (a failure with the peer still there is never forced), and a spin on
\* EAGAIN, which changes no state, is not a step the loop is owed.
WriteNoFail(c) ==
  IF hup[c] THEN ChanWrite(c) ELSE {w \in ChanWrite(c) : w.ret # ERROR}

WorkerFairness ==
  /\ WF_vars(Wait) /\ WF_vars(Process) /\ WF_vars(ReadLoopWith(WriteNoFail))
  /\ WF_vars(Tick)

\* ... and every peer eventually reads what was sent to it.
Spec == Init /\ [][Next]_vars /\ WorkerFairness
        /\ \A c \in Conns : WF_vars(PeerRead(c))

\* Peers may stop reading.
WorkerSpec == Init /\ [][Next]_vars /\ WorkerFairness

-----------------------------------------------------------------------------
ConnRec ==
  [st : {"unused", "live", "closed"}, fd : Fds \cup {0}, mask : SUBSET {R, W},
   idle : BOOLEAN, age : 0 .. Timeout, tmo : BOOLEAN]

TypeOK ==
  /\ cs \in [Conns -> ConnRec]
  /\ out \in [Conns -> 0 .. MaxOut]
  /\ rbq \subseteq Conns
  /\ tq \in Seq(Conns)
  /\ ep \in [Fds -> [on : BOOLEAN, mask : SUBSET {R, W}, ptr : Conns \cup {NoConn}]]
  /\ fdt \in [Fds -> Conns \cup {NoConn, Leaked}]
  /\ rx \in [Conns -> BOOLEAN] /\ hup \in [Conns -> BOOLEAN]
  /\ room \in [Conns -> 0 .. SockBuf]
  /\ backlog \in 0 .. 1 /\ timerReady \in BOOLEAN
  /\ pc \in {"wait", "batch", "rdloop"}
  /\ nConn \in 0 .. MaxConns
  /\ closes \in [Conns -> Nat] /\ uaf \in BOOLEAN
  /\ failed \in [Conns -> BOOLEAN]

(***************************************************************************)
(* mk_sched_get_connection: the rb_queue node whose event.fd is fd.        *)
(***************************************************************************)
GetConnection(fd) ==
  IF \E c \in rbq : cs[c].fd = fd THEN CHOOSE c \in rbq : cs[c].fd = fd
                                  ELSE NoConn

(***************************************************************************)
(* The worker's indexes agree with the kernel: looking a descriptor up in  *)
(* rb_queue yields the live connection whose socket it is, and "not       *)
(* found" once that connection was removed, even after the number was     *)
(* reused; no two indexed connections share a key; the epoll registration *)
(* of a descriptor carries the connection that owns it; the timeout queue  *)
(* holds each live connection with is_timeout_on exactly once.            *)
(***************************************************************************)
IndexConsistent ==
  /\ rbq = Live
  /\ \A c, d \in rbq : c # d => cs[c].fd # cs[d].fd
  /\ \A f \in Fds : GetConnection(f) = IF fdt[f] \in Live THEN fdt[f] ELSE NoConn
  /\ \A f \in Fds : ep[f].on => ep[f].ptr = fdt[f]
  /\ \A c \in Conns : InTq(c) <=> (c \in Live /\ cs[c].tmo)
  /\ \A i, j \in 1 .. Len(tq) : i # j => tq[i] # tq[j]

(***************************************************************************)
(* No handler runs on a connection that was dropped earlier (its memory is *)
(* recycled), and cb_close runs at most once per connection, whatever the  *)
(* order of a batch that mixes the timer, errors and I/O on one            *)
(* connection.                                                             *)
(***************************************************************************)
NoStaleDispatch ==
  /\ ~uaf
  /\ \A c \in Conns : closes[c] <= 1

(***************************************************************************)
(* No descriptor leaks: every socket accept4 handed to the worker is       *)
(* either owned by a live, indexed connection or closed again, whichever   *)
(* way mk_sched_add_connection ended and however the connection was       *)
(* dropped later (error, hang-up, fatal read, timeout).                    *)
(***************************************************************************)
NoFdLeak == \A f \in Fds : fdt[f] \in Live \cup {NoConn}

(***************************************************************************)
(* A connection in the timeout queue eventually leaves it: it completes a  *)
(* request, fails, or is closed by mk_sched_check_timeouts.               *)
(***************************************************************************)
TimeoutsFire == \A c \in Conns : InTq(c) ~> ~InTq(c)

(***************************************************************************)
(* No response is stranded: whenever a live connection none of whose      *)
(* writes has failed has bytes queued on its channel, either the worker is *)
(* inside the write loop of mk_sched_event_read for it, or the epoll       *)
(* registration of its descriptor asks for MK_EVENT_WRITE, so a later      *)
(* epoll_wait runs mk_sched_event_write.  The loop's page budget, a full   *)
(* socket and cb_done's "send more" all leave bytes queued.  (After a      *)
(* failed write, see ErrorCloses.)                                         *)
(***************************************************************************)
NoStrandedOutput ==
  \A c \in Live :
     out[c] > 0 /\ ~failed[c] =>
       \/ pc = "rdloop" /\ rl.c = c
       \/ ep[cs[c].fd].on /\ W \in ep[cs[c].fd].mask

(***************************************************************************)
(* The design (sections 4.3 and 7): a write failure is a PeerError and     *)
(* moves the connection to Closing.  A connection one of whose channel     *)
(* writes returned MK_CHANNEL_ERROR is eventually dropped.                 *)
(***************************************************************************)
ErrorCloses == \A c \in Conns : failed[c] ~> c \notin Live
=============================================================================
