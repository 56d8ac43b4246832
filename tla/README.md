# TLA+ models of the Monkey connection core

This directory holds TLA+ models of the connection-handling core in
`src/monkey-1.6.9/mk_server/` and `src/SuperExe/mk_core/`, with the TLC
configurations that check them.

## The system

The server runs one worker thread per core, and each worker has its own
epoll loop. Its parts:

| Part | Source | Role |
|------|--------|------|
| Event backend | `mk_event_epoll.c` | `_mk_event_loop_create`/`_destroy` own the epoll fd and event array. `_mk_event_add` chooses `EPOLL_CTL_ADD` or `MOD` from `event->mask`; `_mk_event_del` swallows failures. `_mk_event_timeout_create` makes a periodic timerfd, or a pipe fed by `_timeout_worker` in builds without timerfd. `_mk_event_channel_create` makes an eventfd or a pipe. `_mk_event_wait` blocks with no timeout. |
| Channel / stream engine | `mk_stream.c` | Keeps a FIFO of streams (FILE, IOV, COPYBUF, EOF) per socket. `mk_channel_write` tries one write of the head stream and returns DONE, FLUSH, EMPTY, BUSY or ERROR. `mk_channel_flush` loops over it. `mk_stream_release` and `mk_channel_clean` free streams and their buffers. |
| Scheduler / worker core | `mk_scheduler.c` | `mk_sched_add_connection` puts a new connection in the `rb_queue` index (keyed by fd) and the timeout queue. `mk_sched_get_connection` looks a connection up. `mk_sched_check_timeouts` sweeps the queue. `_next_target` balances load across workers. |
| Connection lifecycle | `mk_scheduler.c` | `mk_sched_event_read` calls cb_read, runs a write loop, then calls cb_done. `mk_sched_event_write` and `mk_sched_event_close` handle the other events. `mk_sched_remove_client` releases a connection, and `mk_sched_event_free` sets the `MK_EVENT_IDLE` mark. |

How the parts work together:
- The worker loop itself (`mk_server_worker_loop`, not under `src/`) takes a
  batch from `epoll_wait`.
- It runs the timer sweep, accepts on the listening socket, or dispatches a
  connection event to the read, write or close handler.
- It skips an event whose `mk_event` was recycled earlier in the same batch.

Not modelled:
- `mk_rconf_section_get`, `mk_rconf_section_get_key` and `mk_rconf_free`
  in `mk_rconf.c`. They are list lookups and frees that run after parsing.
- The Elastos runtime and linker files under `src/SuperExe/plugins/`. They are
  an unrelated subsystem.

## Modules

### `Channel.tla`: the stream engine (`mk_stream.c`)

State:
- the channel's stream list `queue`;
- per stream, its type, remaining bytes, preserve flag and buffer state
  (`alloc`, `null` or `dangling`);
- the kernel's free send-buffer space `room`, and `reset` once the peer has
  reset the connection;
- the last return code `ret` and the `count` out-parameter;
- the frame `fl` of the `mk_channel_flush` loop.

History variables (`consumed`, `finished`, `finOrder`, `frees`) record the
callbacks and `free` calls.

Actions:

| Action | Code |
|--------|------|
| `Enqueue` | `mk_stream_new`, done by the protocol layer |
| `FlushBegin` | entry of `mk_channel_flush` |
| `FlushIter` | one loop iteration: a whole `mk_channel_write`, plus the loop test and the exit |
| `ChannelClean` | `mk_channel_clean` |
| `PeerDrain`, `PeerReset` | the kernel and the peer |

`ChannelWrite` splits into `WriteBytes`, `WriteFails` and `WriteEof`, exactly
as the code branches. `SyscallResults` lists every result `write`, `writev`
or `sendfile` can return: a capped positive count, 0, `EAGAIN` or `EPIPE`.

### `Scheduler.tla`: one worker (`mk_scheduler.c` plus the epoll backend)

Workers share no connection, so one worker is modelled.

State, per connection:
- status, fd, interest mask, IDLE bit;
- ticks since arrival (capped at `Timeout`, where the expiry test no longer
  changes) and `is_timeout_on`.

State of the worker and the kernel:
- the index `rbq` and the timeout queue `tq`;
- the epoll interest list `ep` (registered, mask, data pointer);
- the kernel descriptor table `fdt`;
- the peers: `rx`, `hup`, `room`;
- the listen backlog and the timerfd;
- the worker's control point `pc` (`wait`, `batch` or `rdloop`), the pending
  batch, and the frame `rl` of the write loop in `mk_sched_event_read`.

The channel is abstracted to a count of queued one-byte streams; cb_read
queues a response of one or more of them. `ChanWrite` is the set of
results one `mk_channel_write` can have. It keeps the return codes and the
`count` behaviour. A write may fail (ERROR, the head stream released) even
while the peer is connected: `write` returned 0 or an error other than
EAGAIN. After a hang-up a failure is the only result. The history variable
`failed[c]` records that a write of `c` has failed.

Actions:

| Action | Code |
|--------|------|
| `Wait` | `_mk_event_wait` |
| `Process` | one event of the batch, in any order |
| `CheckTimeouts` | timer event |
| `AcceptConn` | listen event: `accept4` takes the lowest free fd, then stage 10 and `mk_sched_add_connection` run and the fd is registered for read |
| `HandleConn` | a connection event: the IDLE skip, then `EventClose`, `EventWrite`, or the cb_read outcomes `ReadNeedMore`, `ReadFatal` and `ReadRequest` |
| `ReadLoopStep` | one iteration of the write loop, including its exit through cb_done and write-interest arming (`ReadLoopExit`) |
| `Connect`, `PeerSend`, `PeerRead`, `PeerHangup`, `Tick` | the environment |

`RemoveClient` is the whole of `mk_sched_remove_client`:
1. `mk_event_del`
2. `rb_erase`
3. `timeout_del`
4. close
5. `mk_channel_clean`
6. `mk_sched_event_free`
7. set the status to closed

The callbacks cb_read, cb_done and cb_close are chosen nondeterministically
among the return values the handlers act on.

An accepted connection ends in one of the `AcceptOutcomes`:
- `registered`: the normal path;
- `plugin_close`: a stage-10 plugin closed the fd, so nothing changes;
- `nomem`: the connection allocation failed. `mk_sched_add_connection`
  returns NULL and the caller cannot close the fd, because on the stage-10
  path NULL also means "already closed". The descriptor stays open with
  no owner (`fdt[f] = Leaked`).

### `StreamQueue.tla`: what a channel promises

This is the abstract FIFO of streams, with bytes abstracted away:
- `Put` appends a stream.
- `Complete` reports the head as finished.
- `Drop` releases the head after a write error.
- `Close` drops every stream.

A partial write, `EAGAIN` and an empty write are stuttering steps.
`Channel.tla` instantiates it with `pending <- queue`, `done <- finOrder`,
`made <- nEnq` and `live <- open`. `ChannelRefines` (= `Abs!ASpec`) is
checked as a PROPERTY of the channel run.

### `Backend.tla`: creating and destroying loops, timers and channels (`mk_event_epoll.c`)

Each create call is one atomic step, and every allocation or system call in
it may fail at a point in `Faults`. The step adds to `held` what the code
acquired before the failure point. It removes what that error path frees or
closes. It also records:
- the epoll registration (`reg`);
- `event->mask`;
- the value the call returned (`res`).

The build (`HAVE_TIMERFD_CREATE`, `HAVE_EVENTFD`) is fixed in `Init`.

| Action | Code |
|--------|------|
| `LoopCreate(o)` | `_mk_event_loop_create`: context, `epoll_create1`, event array |
| `LoopDestroy` | `_mk_event_loop_destroy` |
| `TimerfdCreate(o)` | `_mk_event_timeout_create`, timerfd build: `timerfd_create`, `timerfd_settime`, the add |
| `TimerPipeCreate(o)` | the pipe build: the `fd_timer` record, `pipe`, the add of the read end, the `_timeout_worker` thread |
| `EventfdChannelCreate(o)`, `PipeChannelCreate(o)` | `_mk_event_channel_create` in both builds |
| `TimerExpire` | the timerfd counter increments, or `_timeout_worker` writes to the pipe (it exits when the read end is closed) |
| `TimerRead` | the worker loop reads the timer when its event fires (`mk_server_worker_loop`, modelled from the design) |

`AddRead` is the `_mk_event_add` of a READ event.

### `Balancer.tla`: fair balancing (`_next_target`, `mk_sched_next_target`)

`NextTarget` is the loop of `_next_target` written as a recursive operator
(`ScanFrom`) over a snapshot of the loads. It shares its loop body
(`LoopBody`), its start (`FirstFrame`), its loop test (`ScanMore`) and its
capacity check (`Verdict`) with the state machine.

The state machine makes one step per loop iteration:
- `BalStart` reads worker 0.
- `BalStep` reads worker `i`.
- `BalDecide` either counts the accept or refuses the connection.
- Meanwhile other workers `Close` connections (`closed_connections++` in
  `mk_sched_remove_client`).

The dispatcher is the only writer of `accepted_connections` (design,
section 5). So a worker's load can only drop during a scan, and the model
keeps each worker's load `accepted - closed`.

### `Startup.tla`: worker start-up and shutdown

Actions:

| Action | Code |
|--------|------|
| `LaunchThread` | `mk_sched_launch_thread`: `pthread_create` succeeds, or it fails, the function returns -1 and the caller ends the process (the caller is in `mk_server.c`; this follows the design, section 7) |
| `LockSchedInit`, `ReadWid`, `WriteSlot` | `mk_sched_register_thread`: lock, `sl = &sched_list[wid]`, `sl->idx = wid++; sl->tid = ...`, unlock |
| `SetupWorker` | loop, channel and listener creation, any of which may call `exit(EXIT_FAILURE)` |
| `MarkInitialized` | `sched->initialized = 1` under `mutex_worker_init` |
| `WorkerFree` | `mk_sched_worker_free`: find the slot by thread id, `mk_bug(!sl)` |

The server thread's wait for all slots (`WaitWorkers`) and the shutdown
broadcast (`Shutdown`) are in `mk_server.c`, which is not under `src/`. They
follow the design.

### `Workers.tla`: start-up and balancing together

`Workers` instantiates `Startup` and `Balancer` over one set of variables.
The two interact in three ways:
- The dispatcher starts a scan (`Dispatch`) only while the server thread is
  serving, that is, after every slot was initialized.
- Closes (`WorkerClose`) come from a running worker, on the counters of the
  slot it registered in.
- A shutdown may arrive during a scan, and the scan then finishes.

The properties of both modules are checked on this composition.

### `RConf.tla`: the configuration reader (`mk_rconf_create`)

The file is a sequence of one-character strings. `Fgets` cuts it into the
buffers that `fgets(buf, 255, f)` returns, and `StripEol` removes `\n` and
`\r\n`. Each buffer is one step, one of these actions:
- `SkipLine`: an empty line or a `#` line;
- `SectionLine`: `[name]` goes through `mk_rconf_section_add`, and a header
  with no `]` ends the process;
- `KeyLine`: the indentation rule, then the key/value split and trim, then
  `mk_rconf_section_entry_add` into the last section;
- `Finish`: the end of the file.

`FirstIndent` is the code's indentation scan, including its `do { i++; }`.
Warnings and line numbers only go to the log and are left out. The
`mk_string` helpers are not among the sources, so they follow their
documented behaviour.

`RefParse` is the format as the reader's own checks and comments describe
it:
- blank and `#` lines are skipped;
- a header is `[name]`;
- every key line has the same run of blanks as indentation, then a key, a
  space and a value.

## Runs

| Run | Expect | Checks | What it shows |
|-----|--------|--------|---------------|
| `MCChannel.cfg` | pass (173k states) | TypeOK, CompletionOnceInOrder, BufferFreedOnce, Delivered, ChannelRefines | With unpreserved streams, every callback contract holds across partial writes, EAGAIN, resets and clean. Every copy buffer is freed exactly once, and every stream leaves the channel. The channel refines `StreamQueue`. |
| `MCChannelEof.cfg` | violation | CompletionOnceInOrder | `mk_channel_write` never releases an EOF marker, so its cb_finished runs again on every call unless the callback unlinks the marker itself. |
| `MCChannelSpin.cfg` | violation | FlushReturns | `mk_channel_flush` spins on a full socket: BUSY is not in the stop mask, and `count` stays 0 (it is assigned only when `bytes > 0`), so `total` never passes the page limit. In the trace the EAGAIN iteration changes no state, so TLC shows it as stuttering inside the loop. |
| `MCChannelPreserve.cfg` | violation | BufferFreedOnce | `mk_stream_release` frees the buffer of a preserved COPYBUF stream after a write error but keeps the pointer. `mk_channel_clean` then frees it again. |
| `MCScheduler.cfg` | pass (297k states) | TypeOK, IndexConsistent, NoStaleDispatch, TimeoutsFire, NoFdLeak, NoStrandedOutput | The index, interest list and timeout queue agree with the kernel through fd reuse and batches in any order. No handler touches a dropped connection, and cb_close runs at most once. Every pending connection leaves the timeout queue while peers keep reading. With stage-10 rejections, every open descriptor has an owner. Until a write of the connection fails, queued response bytes always have write interest registered or are being written by the read handler's loop, so no response waits for an event that never comes. |
| `MCSchedulerWriteErr.cfg` | violation | ErrorCloses | A write that fails inside the loop of `mk_sched_event_read` while the peer is still connected makes it return `MK_CHANNEL_ERROR` (`mk_scheduler.c:643`). That is a positive flag, and the worker loop closes only on -1. The connection stays open, the failed response is gone, and the peer's next request is served. The design says a write failure moves the connection to Closing. `mk_sched_event_write` does close on the same result. |
| `MCSchedulerNoMem.cfg` | violation | NoFdLeak | When the connection allocation in `mk_sched_add_connection` fails, the accepted descriptor stays open with no connection, index entry or registration. One descriptor leaks per failure. |
| `MCWorkers.cfg` | pass (75.6k states) | TypeOK, SlotsDistinct, LoadBounded, RejectOnlyWhenFull, MatchesReference, StartupCompletes | Three threads registering at once get distinct slots that hold their own thread id. Start-up reaches serving unless a failed `pthread_create` or a set-up failure ends the process. While serving, the dispatcher scans loads as running workers close connections. No worker exceeds `server_capacity`, and a refusal happens only when every worker was full when the scan began (a stale read can hide a close but never adds load). `_next_target` equals "first worker of least load, -1 if that load has reached capacity" on all 64 load vectors of 3 workers with loads 0..3, covering the early return, the break and the tie-break. Every worker frees its resources after shutdown. Deadlock is not checked, because the process really stops after `exit` or once every worker is freed. |
| `MCSchedulerStall.cfg` | violation | TimeoutsFire | One peer stops reading. The write loop in `mk_sched_event_read` spins, the timer event in the batch is never handled, and another connection is never timed out. |
| `MCBackend.cfg` | pass (128 states) | TypeOK, NoLeak, TimerServed | In both timer builds and both channel builds, every failure point except the two named in the Backend bounds frees exactly what it acquired, and so does destroying the loop. Every expiration of a timer whose creation succeeded is eventually read. Deadlock is not checked: a loop's life ends once it is destroyed or fails to be created. |
| `MCRConf.cfg` | violation | MatchesFormat | The input is every file of up to three lines from eleven line shapes. The first key line `ab b` has no indentation, but `mk_rconf_create` accepts it: `buf[0]` counts as indentation, so the key becomes `b`. A later key line without indentation would fail "Invalid indentation level". Leaving out that line shape and the lines of blanks only, TLC finds no other difference from the format (2.9k states, checked outside the project's runs). |
| `MCBackendTimerPipe.cfg` | violation | TimerServed | In the pipe-timer build, the result of adding the timer pipe is ignored (`mk_event_epoll.c:261`). The call reports success and sets the mask to READ, but the timer is never read, so the timeout sweep never runs. |

Each property of a passing run has a mutant in `PROJECT.json`: a plausible
slip in the mapped code that TLC catches under the run's own configuration.

| Mutant | Property that catches it |
|--------|--------------------------|
| `SyscallResultsUncapped` | TypeOK |
| `WriteBytesReportRequested` | CompletionOnceInOrder |
| `AfterConsumeKeepPtr` | BufferFreedOnce |
| `FlushBeginOnlyArmed` | Delivered |
| `EnqueueFront` | ChannelRefines |
| `ChanWriteNoEagain` | TypeOK |
| `RemoveClientNoErase` | IndexConsistent |
| `EventFreeNoMark` | NoStaleDispatch |
| `CheckTimeoutsStrict` | TimeoutsFire |
| `RemoveClientNoClose` | NoFdLeak |
| `ReadLoopExitNoArm` | NoStrandedOutput |
| `LoopBodyLastMin` | MatchesReference |
| `CloseUncounted` | TypeOK of Balancer |
| `BalStepPrevWorker` | LoadBounded |
| `BalStartNoReset` | RejectOnlyWhenFull |
| `LockSchedInitNoop` | SlotsDistinct |
| `LaunchThreadIgnoreFailure` | StartupCompletes |
| `TimerPipeCreateWrongEnd` | TypeOK of Backend |
| `LoopCreateNoClose` | NoLeak |
| `TimerfdCreateSkipAdd` | TimerServed |

In the workers run, TypeOK is the conjunction of the two modules' type
invariants. `CloseUncounted` breaks it.

## Bounds

Channel:
- Up to 3 streams of 1 or 2 bytes.
- A send buffer of 2 bytes, so a 2-byte stream can be written partially
  (room 1) or not at all (room 0).
- A page budget of 1 byte, so the loop both continues and exits on the
  budget.
- The spin run needs only one stream and a 1-byte buffer.

Scheduler:
- 2 connection objects over the run and 2 descriptor numbers, so a closed
  fd is reused by the second connection.
- `Timeout` of 1 tick.
- A one-byte socket buffer and a page budget of 0, so the write loop exits
  after one byte and EAGAIN happens.
- A request queues a response of 1 or 2 streams (`MaxOut = 2`), so the loop
  also stops on its budget with bytes left (FLUSH) and the rest goes out
  through write events.
- Stage 10 may reject. The allocation failure is in its own run, so that
  the passing run checks the rest of the lifecycle.

Backend:
- Both builds of the timer and of the channel, with every failure point
  except two. Each failure point is one choice of the step, and they do not
  interact.
- `tpipe_add_fail` is left out of `MCBackend.cfg` because the pipe-timer
  run shows what it does.
- `settime_fail` is left out too. With it, NoLeak is violated:
  `_mk_event_timeout_create` returns -1 without closing the timerfd
  (`mk_event_epoll.c:177`). No run keeps that case.
- `TickCap = 2`: two unread expirations, so an expiration can arrive while
  an earlier one is still unread.

Workers:
- 3 workers and a ceiling of 2. That is enough for ties, a zero load found
  mid-scan, full and non-full workers, and a close between two reads.
- With 3 threads, two can contend for the mutex while a third is being set
  up.

Configuration reader:
- Up to 3 lines per file, drawn from 11 line shapes:
  - an empty line, a comment and a line of blanks;
  - a good header and one missing its `]`;
  - key lines with no, one or two spaces or a tab of indentation;
  - a key with no value and an indented comment;
  - a CRLF ending.
- 3 lines allow a header, a line that fixes the indentation, and a line
  checked against it.
- The buffer is the real 255 bytes, so no line is split.

With 3 connections the Scheduler run took about 27 minutes, so 2 is what the run
budget allows. The fd-reuse case, the same-batch timer/error/I/O mixes and
the EAGAIN paths all occur at size 2.

## Fairness

- Weak fairness on the worker's steps (`Wait`, `Process`, the read loop's
  step,
  or `FlushBegin`/`FlushIter`; every start-up thread in
  `Workers`; the dispatcher and the closes get no fairness, because nothing
  forces a connection to arrive or close). The worker thread is always runnable when it
  has something to do. The read loop is owed a step only among the write
  results other than a failure (`WriteNoFail`). The kernel never has to make
  a write fail, and a spin on EAGAIN changes no state, so it is not a step
  the loop is owed.
- Weak fairness on `Tick`: the periodic timerfd always becomes readable
  again.
- In `Backend`, weak fairness on `TimerExpire` (the clock runs) and on
  `TimerRead` (the worker loop reads a readable timer event).
- The passing runs also assume that peers keep reading (`PeerRead`,
  `PeerDrain`). The violation runs (`WorkerSpec`) drop that assumption,
  because the code cannot rely on it.

## Not modelled yet (plan)

1. `Channel` composed into the scheduler in place of the one-byte
   abstraction. The scheduler run already takes about 40 s at two
   connections, and three took about 27 minutes before; the product with
   the channel's streams is out of reach, so the two are checked apart.
2. The `mk_rconf.c` lookups (`mk_rconf_section_get`,
   `mk_rconf_section_get_key`) and frees (`mk_rconf_free`,
   `mk_rconf_free_entries`). The lookups change no state; they return the
   first section and the first key that match, ignoring case. A section
   repeated later in the file gets a second list node; its keys go there,
   but `mk_rconf_section_get` returns the first node, so they are never
   found. The frees walk the lists once after parsing.
3. Counters instead of loads in `Balancer`. `accepted - closed` is an
   unsigned subtraction. `mk_sched_remove_client` counts every close
   (line 463), but `accepted_connections` is counted in `mk_server.c`, which
   is not under `src/`. The model counts the accept when the target is
   chosen, and counts a close only for a connection the worker holds (the
   guard of `Close`). So it cannot represent the wrap to a huge load that
   the "ULONG_MAX BUG" comment at lines 364-370 records. Dropping that guard
   (`CloseUncounted`) is what Balancer's type invariant catches.
4. The headers (`mk_config.h`, `mk_socket.h`, `mk_tls.h`) hold declarations,
   constants and the TLS macros. The fields the core reads are CONSTANTS.
   `mk_socket_accept` is the `accept4` call that `AcceptConn` models.
5. The Elastos runtime and linker files (`SuperExeStaticMain.cpp`,
   `implClassFactory.cpp`, `libc_logging.cpp`, `libc_init_common.cpp`)
   are a separate bundled subsystem. They share no state with the server
   core: process and thread start-up, formatting and logging, and
   `__libc_fini`, which calls the `.fini_array` destructors in reverse
   order.
