------------------------------ MODULE Channel ------------------------------
(***************************************************************************)
(* The stream engine of mk_stream.c: one channel (struct mk_channel) bound *)
(* to a non-blocking socket, its FIFO list of streams, and the calls that  *)
(* drain it: mk_channel_write (one write of the head stream),              *)
(* mk_channel_flush (the bounded write loop), mk_stream_release and        *)
(* mk_channel_clean.  The socket is the environment: its free send-buffer *)
(* space, the peer draining it, and the peer resetting the connection.    *)
(*                                                                         *)
(* Data is abstracted to byte counts; a stream is its type, its remaining  *)
(* byte count (bytes_total), its preserve flag and, for COPYBUF streams,   *)
(* the state of its heap buffer.  History variables record what the       *)
(* stream callbacks (cb_bytes_consumed, cb_finished) observe and every     *)
(* free of a COPYBUF buffer.                                               *)
(***************************************************************************)
EXTENDS Integers, Sequences, SequencesExt, FiniteSets

CONSTANTS
  MaxStreams,        \* streams enqueued over the channel's life
  Sizes,             \* byte sizes a data stream may have
  Types,             \* stream types the protocol layer enqueues
  PreserveFlags,     \* values of stream->preserve the protocol layer uses
  SockBuf,           \* free space of an empty socket send buffer
  PageSize,          \* the byte budget of one flush loop
  EofCallbackUnlinks \* whether the EOF stream's cb_finished unlinks it

ASSUME MaxStreams \in Nat \ {0}
ASSUME Sizes \subseteq Nat \ {0} /\ Sizes # {}
ASSUME Types \subseteq {"FILE", "IOV", "COPYBUF", "EOF"} /\ Types # {}
ASSUME PreserveFlags \subseteq BOOLEAN /\ PreserveFlags # {}
ASSUME SockBuf \in Nat \ {0} /\ PageSize \in Nat
ASSUME EofCallbackUnlinks \in BOOLEAN

Ids == 1 .. MaxStreams

\* Return codes of mk_channel_write (MK_CHANNEL_*).
DONE == "DONE"
ERROR == "ERROR"
FLUSH == "FLUSH"
EMPTY == "EMPTY"
BUSY == "BUSY"
\* The stop mask of the flush loops: MK_CHANNEL_DONE|ERROR|EMPTY.
Stop == {DONE, ERROR, EMPTY}

VARIABLES
  queue,     \* channel->streams, as stream ids in list order
  strm,      \* strm[i]: the struct mk_stream of stream i
  nEnq,      \* number of streams enqueued so far
  room,      \* free space in the socket send buffer
  reset,     \* the peer has reset the connection (writes fail, EPIPE)
  ret,       \* value returned by the last mk_channel_write
  count,     \* the caller's 'count', set by mk_channel_write only on bytes > 0
  fl,        \* mk_channel_flush's frame: pc and its local 'total'
  wmask,     \* (channel->event->mask & MK_EVENT_WRITE) != 0
  open,      \* the channel has not been cleaned (connection alive)
  consumed,  \* history: bytes reported to cb_bytes_consumed per stream
  finished,  \* history: calls of cb_finished per stream
  finOrder,  \* history: streams in the order cb_finished was called
  frees      \* history: frees of each stream's COPYBUF buffer

chanVars == <<queue, strm, nEnq, ret, count, consumed, finished, finOrder, frees>>
envVars == <<room, reset>>
vars == <<queue, strm, nEnq, room, reset, ret, count, fl, wmask, open,
          consumed, finished, finOrder, frees>>

NoStream == [type |-> "NONE", size |-> 0, total |-> 0, preserve |-> FALSE,
             buf |-> "null"]

MinOf(a, b) == IF a < b THEN a ELSE b

InQueue(i) == \E k \in 1 .. Len(queue) : queue[k] = i

(***************************************************************************)
(* Stream buffer bookkeeping.  buf is "alloc" while the COPYBUF buffer is  *)
(* live, "null" once stream->buffer was set to NULL, and "dangling" once   *)
(* it was freed while the pointer was kept.                                *)
(***************************************************************************)
\* mk_copybuf_consume: the buffer is freed and NULLed when every byte went out.
ConsumeFrees(st, n) == st.type = "COPYBUF" /\ n = st.total

\* mk_stream_release: a COPYBUF buffer is freed when stream->buffer != NULL.
ReleaseFrees(st) == st.type = "COPYBUF" /\ st.buf # "null"

\* mk_stream_release: the node is unlinked unless the stream is preserved.
ReleaseUnlinks(st) == ~st.preserve

\* Slip: the buffer is freed but stream->buffer is left pointing at it.
AfterConsumeKeepPtr(st, n) == [st EXCEPT !.total = @ - n]

\* mk_copybuf_consume followed by mk_stream_bytes_consumed.
AfterConsume(st, n) ==
  [st EXCEPT !.total = @ - n,
             !.buf = IF ConsumeFrees(st, n) THEN "null" ELSE @]

\* mk_stream_release on the stream record (the pointer is not cleared).
AfterRelease(st) ==
  [st EXCEPT !.buf = IF ReleaseFrees(st) THEN "dangling" ELSE @]

Bit(b) == IF b THEN 1 ELSE 0

(***************************************************************************)
(* What one write(2)/writev(2)/sendfile(2) of the head stream can return:  *)
(* a positive byte count, 0, or -1 with errno EAGAIN or EPIPE.  A request  *)
(* of zero bytes returns 0; sendfile returns 0 early when the file shrank. *)
(***************************************************************************)
\* Slip: the byte count ignores how much the socket accepted.
SyscallResultsUncapped(st) ==
  IF st.total = 0 THEN {[n |-> 0, err |-> "none"]}
  ELSE IF reset THEN {[n |-> -1, err |-> "EPIPE"]}
  ELSE IF room = 0 THEN {[n |-> -1, err |-> "EAGAIN"]}
  ELSE {[n |-> st.total, err |-> "none"]}

SyscallResults(st) ==
  IF st.total = 0 THEN {[n |-> 0, err |-> "none"]}
  ELSE IF reset THEN {[n |-> -1, err |-> "EPIPE"]}
  ELSE IF room = 0 THEN {[n |-> -1, err |-> "EAGAIN"]}
  ELSE {[n |-> MinOf(st.total, room), err |-> "none"]}
       \cup (IF st.type = "FILE" THEN {[n |-> 0, err |-> "none"]} ELSE {})

\* Slip: the new stream is linked at the head of channel->streams.
EnqueueFront(t, n, p) ==
  /\ open
  /\ nEnq < MaxStreams
  /\ LET i == nEnq + 1
         sz == IF t = "EOF" THEN 0 ELSE n
     IN /\ strm' = [strm EXCEPT ![i] = [type |-> t, size |-> sz, total |-> sz,
                                        preserve |-> p,
                                        buf |-> IF t = "COPYBUF" THEN "alloc"
                                                                ELSE "null"]]
        /\ queue' = <<i>> \o queue
        /\ nEnq' = i
  /\ UNCHANGED <<ret, count, consumed, finished, finOrder, frees>>

\* mk_stream_new (+ mk_stream_set): the protocol layer appends a stream.
Enqueue(t, n, p) ==
  /\ open
  /\ nEnq < MaxStreams
  /\ LET i == nEnq + 1
         sz == IF t = "EOF" THEN 0 ELSE n
     IN /\ strm' = [strm EXCEPT ![i] = [type |-> t, size |-> sz, total |-> sz,
                                        preserve |-> p,
                                        buf |-> IF t = "COPYBUF" THEN "alloc"
                                                                ELSE "null"]]
        /\ queue' = Append(queue, i)
        /\ nEnq' = i
  /\ UNCHANGED <<ret, count, consumed, finished, finOrder, frees>>

\* Slip: cb_bytes_consumed is passed the bytes requested, not those written.
WriteBytesReportRequested(s, n) ==
  LET st == strm[s]
      c == AfterConsume(st, n)
      done == c.total = 0
      q == IF done /\ ReleaseUnlinks(c) THEN Tail(queue) ELSE queue
  IN /\ strm' = [strm EXCEPT ![s] = IF done THEN AfterRelease(c) ELSE c]
     /\ frees' = [frees EXCEPT ![s] = @ + Bit(ConsumeFrees(st, n))
                                        + Bit(done /\ ReleaseFrees(c))]
     /\ consumed' = [consumed EXCEPT ![s] = @ + st.total]
     /\ finished' = [finished EXCEPT ![s] = @ + Bit(done)]
     /\ finOrder' = IF done THEN Append(finOrder, s) ELSE finOrder
     /\ queue' = q
     /\ count' = n
     /\ room' = room - n
     /\ ret' = IF q = <<>> THEN DONE ELSE FLUSH

\* Bytes went out: consume, notify, and release the stream when drained.
WriteBytes(s, n) ==
  LET st == strm[s]
      c == AfterConsume(st, n)
      done == c.total = 0
      q == IF done /\ ReleaseUnlinks(c) THEN Tail(queue) ELSE queue
  IN /\ strm' = [strm EXCEPT ![s] = IF done THEN AfterRelease(c) ELSE c]
     /\ frees' = [frees EXCEPT ![s] = @ + Bit(ConsumeFrees(st, n))
                                        + Bit(done /\ ReleaseFrees(c))]
     /\ consumed' = [consumed EXCEPT ![s] = @ + n]
     /\ finished' = [finished EXCEPT ![s] = @ + Bit(done)]
     /\ finOrder' = IF done THEN Append(finOrder, s) ELSE finOrder
     /\ queue' = q
     /\ count' = n
     /\ room' = room - n
     /\ ret' = IF q = <<>> THEN DONE ELSE FLUSH

\* A failed or empty write: the head stream is released, ERROR returned.
WriteFails(s) ==
  /\ strm' = [strm EXCEPT ![s] = AfterRelease(strm[s])]
  /\ frees' = [frees EXCEPT ![s] = @ + Bit(ReleaseFrees(strm[s]))]
  /\ queue' = IF ReleaseUnlinks(strm[s]) THEN Tail(queue) ELSE queue
  /\ ret' = ERROR
  /\ UNCHANGED <<consumed, finished, finOrder, count, room>>

\* The EOF marker: cb_finished, then DONE; the channel never unlinks it.
WriteEof(s) ==
  /\ finished' = [finished EXCEPT ![s] = @ + 1]
  /\ finOrder' = Append(finOrder, s)
  /\ queue' = IF EofCallbackUnlinks THEN Tail(queue) ELSE queue
  /\ ret' = DONE
  /\ UNCHANGED <<strm, consumed, frees, count, room>>

(***************************************************************************)
(* mk_channel_write: one I/O attempt on the head stream only.              *)
(***************************************************************************)
ChannelWrite ==
  IF queue = <<>>
  THEN /\ ret' = EMPTY
       /\ UNCHANGED <<queue, strm, count, consumed, finished, finOrder, frees,
                      room>>
  ELSE LET s == Head(queue) IN
       IF strm[s].type = "EOF" THEN WriteEof(s)
       ELSE \E r \in SyscallResults(strm[s]) :
              CASE r.n > 0 -> WriteBytes(s, r.n)
                [] r.err = "EAGAIN" ->
                     /\ ret' = BUSY
                     /\ UNCHANGED <<queue, strm, count, consumed, finished,
                                    finOrder, frees, room>>
                [] OTHER -> WriteFails(s)

(***************************************************************************)
(* mk_channel_flush: write until the page budget is spent or a stop code   *)
(* comes back, then arm write interest on FLUSH or BUSY.  Each loop        *)
(* iteration is a step, so the peer can act between two writes.  'count'  *)
(* starts at 0 and keeps its last value when a write returns BUSY.         *)
(***************************************************************************)
\* Slip: a flush is only started once write interest is armed.
FlushBeginOnlyArmed ==
  /\ open
  /\ wmask
  /\ fl.pc = "idle"
  /\ fl' = [pc |-> "loop", total |-> 0]
  /\ count' = 0
  /\ UNCHANGED <<queue, strm, nEnq, ret, consumed, finished, finOrder, frees,
                 envVars, wmask, open>>

FlushBegin ==
  /\ open
  /\ fl.pc = "idle"
  /\ fl' = [pc |-> "loop", total |-> 0]
  /\ count' = 0
  /\ UNCHANGED <<queue, strm, nEnq, ret, consumed, finished, finOrder, frees,
                 envVars, wmask, open>>

FlushIter ==
  /\ fl.pc = "loop"
  /\ ChannelWrite
  /\ LET total == fl.total + count' IN
       IF total <= PageSize /\ ret' \notin Stop
       THEN /\ fl' = [fl EXCEPT !.total = total]
            /\ UNCHANGED wmask
       ELSE /\ fl' = [pc |-> "idle", total |-> 0]
            /\ wmask' = (wmask \/ ret' \in {FLUSH, BUSY})
  /\ UNCHANGED <<nEnq, reset, open>>

(***************************************************************************)
(* mk_channel_clean: mk_stream_release on every stream still queued, run   *)
(* by mk_sched_remove_client when the connection goes away.               *)
(***************************************************************************)
ChannelClean ==
  /\ open
  /\ fl.pc = "idle"
  /\ open' = FALSE
  /\ queue' = SelectSeq(queue, LAMBDA i : ~ReleaseUnlinks(strm[i]))
  /\ strm' = [i \in Ids |-> IF InQueue(i) THEN AfterRelease(strm[i])
                                          ELSE strm[i]]
  /\ frees' = [i \in Ids |-> frees[i] + Bit(InQueue(i) /\ ReleaseFrees(strm[i]))]
  /\ UNCHANGED <<nEnq, ret, count, consumed, finished, finOrder, fl, wmask,
                 envVars>>

\* The kernel sends queued bytes as the peer acknowledges them.
PeerDrain ==
  /\ room < SockBuf
  /\ \E k \in room + 1 .. SockBuf : room' = k
  /\ UNCHANGED <<chanVars, reset, fl, wmask, open>>

\* The peer resets the connection; every later write fails with EPIPE.
PeerReset ==
  /\ ~reset
  /\ reset' = TRUE
  /\ UNCHANGED <<chanVars, room, fl, wmask, open>>

\* A cleaned channel is never used again.
Terminated ==
  /\ ~open
  /\ UNCHANGED vars

Init ==
  /\ queue = <<>>
  /\ strm = [i \in Ids |-> NoStream]
  /\ nEnq = 0
  /\ room = SockBuf
  /\ reset = FALSE
  /\ ret = EMPTY
  /\ count = 0
  /\ fl = [pc |-> "idle", total |-> 0]
  /\ wmask = FALSE
  /\ open = TRUE
  /\ consumed = [i \in Ids |-> 0]
  /\ finished = [i \in Ids |-> 0]
  /\ finOrder = <<>>
  /\ frees = [i \in Ids |-> 0]

Next ==
  \/ \E t \in Types, n \in Sizes, p \in PreserveFlags :
       Enqueue(t, n, p) /\ UNCHANGED <<envVars, fl, wmask, open>>
  \/ FlushBegin
  \/ FlushIter
  \/ ChannelClean
  \/ PeerDrain
  \/ PeerReset
  \/ Terminated

\* The worker calls mk_channel_flush whenever the channel is writable and
\* the peer keeps reading.
Spec == Init /\ [][Next]_vars
        /\ WF_vars(FlushBegin) /\ WF_vars(FlushIter) /\ WF_vars(PeerDrain)

\* Only the worker thread is assumed to progress; the peer may stop reading.
WorkerSpec == Init /\ [][Next]_vars /\ WF_vars(FlushIter)

-----------------------------------------------------------------------------
StreamRec ==
  [type : Types \cup {"NONE"}, size : Nat, total : Nat,
   preserve : BOOLEAN, buf : {"alloc", "null", "dangling"}]

TypeOK ==
  /\ queue \in Seq(Ids)
  /\ strm \in [Ids -> StreamRec]
  /\ nEnq \in 0 .. MaxStreams
  /\ room \in 0 .. SockBuf
  /\ reset \in BOOLEAN
  /\ ret \in {DONE, ERROR, FLUSH, EMPTY, BUSY}
  /\ count \in Nat
  /\ fl \in [pc : {"idle", "loop"}, total : Nat]
  /\ wmask \in BOOLEAN /\ open \in BOOLEAN
  /\ consumed \in [Ids -> Nat] /\ finished \in [Ids -> Nat]
  /\ finOrder \in Seq(Ids) /\ frees \in [Ids -> Nat]

(***************************************************************************)
(* Callback contract of mk_channel_write: cb_finished is called at most    *)
(* once per stream, in the order the streams were enqueued, and only after *)
(* cb_bytes_consumed has reported every byte of the stream.               *)
(***************************************************************************)
CompletionOnceInOrder ==
  /\ \A i \in Ids : finished[i] <= 1
  /\ \A k \in 1 .. Len(finOrder) - 1 : finOrder[k] < finOrder[k + 1]
  /\ \A i \in Ids : finished[i] = 1 => consumed[i] = strm[i].size

(***************************************************************************)
(* A COPYBUF buffer is freed at most once (by mk_copybuf_consume or by     *)
(* mk_stream_release), and exactly once when its stream has left the      *)
(* channel: no double free and no leak.                                    *)
(***************************************************************************)
BufferFreedOnce ==
  \A i \in 1 .. nEnq :
    /\ frees[i] <= 1
    /\ strm[i].type = "COPYBUF" /\ ~InQueue(i) => frees[i] = 1

(***************************************************************************)
(* Every stream put on the channel eventually leaves it: it is drained and *)
(* released, released on a write error, or released by mk_channel_clean.   *)
(***************************************************************************)
Delivered == \A i \in Ids : InQueue(i) ~> ~InQueue(i)

(***************************************************************************)
(* mk_channel_flush returns: the worker thread is never stuck in the write *)
(* loop, whatever the peer does (only epoll_wait may block a worker).      *)
(***************************************************************************)
FlushReturns == (fl.pc = "loop") ~> (fl.pc = "idle")

(***************************************************************************)
(* The channel implements the stream FIFO of StreamQueue: the list of      *)
(* queued streams is the abstract queue, the cb_finished order is the      *)
(* abstract completion order.  Every mk_channel_write, flush iteration and *)
(* mk_channel_clean is a Put, Complete, Drop or Close of the head, or      *)
(* leaves both unchanged (a partial write, EAGAIN, an empty channel).      *)
(***************************************************************************)
Abs == INSTANCE StreamQueue
         WITH pending <- queue, done <- finOrder, made <- nEnq, live <- open

ChannelRefines == Abs!ASpec
=============================================================================
