------------------------------ MODULE Startup ------------------------------
(***************************************************************************)
(* Worker start-up and shutdown in mk_scheduler.c.  Each thread created by *)
(* mk_sched_launch_thread runs mk_sched_launch_worker_loop: it takes its   *)
(* slot of sched_list in mk_sched_register_thread (the static counter wid, *)
(* under mutex_sched_init), builds its event loop and signal channel (a    *)
(* failure ends the process), and sets sched->initialized under            *)
(* mutex_worker_init.  mk_sched_worker_free, run by each worker at         *)
(* shutdown under mutex_worker_exit, finds its slot by thread id.          *)
(*                                                                         *)
(* The server thread that launches the workers, waits until every slot is  *)
(* initialized and later broadcasts the shutdown (mk_server.c) is not      *)
(* among the sources; it follows the design (section 6: launch_worker      *)
(* blocks until the worker reports initialized).                           *)
(***************************************************************************)
EXTENDS Integers, FiniteSets

CONSTANTS
  NSlots,     \* mk_config->workers: size of sched_list, threads launched
  NoThread    \* the zero thread id of a slot nobody registered

Threads == 1 .. NSlots
Slots == 0 .. NSlots - 1
ASSUME NoThread \notin Threads

VARIABLES
  wpc,        \* control point of each worker thread ("none": not created)
  my,         \* the value of wid thread t read (-1 before it read it)
  wid,        \* static int wid of mk_sched_register_thread
  owner,      \* holder of mutex_sched_init
  slot,       \* sched_list[s]: [tid, idx, init]
  mpc,        \* server thread: "launch", "wait", "serving", "stopping"
  launched,   \* threads created so far
  exited,     \* exit(EXIT_FAILURE) ended the process
  bug         \* mk_bug(!sl) fired in mk_sched_worker_free

vars == <<wpc, my, wid, owner, slot, mpc, launched, exited, bug>>

Running == ~exited

(***************************************************************************)
(* mk_sched_launch_thread: pthread_create of the next worker.  When it     *)
(* fails the function returns -1 and no thread exists; the caller ends the *)
(* process (design, section 7: a worker that cannot start is fatal).      *)
(***************************************************************************)
\* Slip: the -1 of mk_sched_launch_thread is ignored and the next is launched.
LaunchThreadIgnoreFailure ==
  /\ Running /\ mpc = "launch"
  /\ \/ wpc' = [wpc EXCEPT ![launched + 1] = "lock"]
     \/ UNCHANGED wpc
  /\ launched' = launched + 1
  /\ mpc' = IF launched + 1 = NSlots THEN "wait" ELSE "launch"
  /\ UNCHANGED <<my, wid, owner, slot, exited, bug>>

LaunchThread ==
  /\ Running /\ mpc = "launch"
  /\ \/ /\ wpc' = [wpc EXCEPT ![launched + 1] = "lock"]
        /\ launched' = launched + 1
        /\ mpc' = IF launched + 1 = NSlots THEN "wait" ELSE "launch"
        /\ UNCHANGED exited
     \/ /\ exited' = TRUE
        /\ UNCHANGED <<wpc, launched, mpc>>
  /\ UNCHANGED <<my, wid, owner, slot, bug>>

\* Slip: the thread enters the section without pthread_mutex_lock.
LockSchedInitNoop(t) ==
  /\ Running /\ wpc[t] = "lock"
  /\ wpc' = [wpc EXCEPT ![t] = "rdwid"]
  /\ UNCHANGED <<my, wid, owner, slot, mpc, launched, exited, bug>>

\* pthread_mutex_lock(&mutex_sched_init).
LockSchedInit(t) ==
  /\ Running /\ wpc[t] = "lock"
  /\ owner = NoThread
  /\ owner' = t
  /\ wpc' = [wpc EXCEPT ![t] = "rdwid"]
  /\ UNCHANGED <<my, wid, slot, mpc, launched, exited, bug>>

\* sl = &sched_list[wid]
ReadWid(t) ==
  /\ Running /\ wpc[t] = "rdwid"
  /\ my' = [my EXCEPT ![t] = wid]
  /\ wpc' = [wpc EXCEPT ![t] = "wrslot"]
  /\ UNCHANGED <<wid, owner, slot, mpc, launched, exited, bug>>

(***************************************************************************)
(* sl->idx = wid++; sl->tid = pthread_self(); pthread_mutex_unlock; then   *)
(* the lists of the slot are initialised outside the mutex.               *)
(***************************************************************************)
WriteSlot(t) ==
  LET w == my[t] IN
  /\ Running /\ wpc[t] = "wrslot"
  /\ slot' = [slot EXCEPT ![w] = [@ EXCEPT !.idx = w, !.tid = t]]
  /\ wid' = w + 1
  /\ owner' = NoThread
  /\ wpc' = [wpc EXCEPT ![t] = "setup"]
  /\ UNCHANGED <<my, mpc, launched, exited, bug>>

(***************************************************************************)
(* mk_sched_launch_worker_loop after registration: mk_event_loop_create,   *)
(* mk_event_channel_create and, in SO_REUSEPORT mode, the listeners; any   *)
(* failure calls exit(EXIT_FAILURE).                                       *)
(***************************************************************************)
SetupWorker(t) ==
  /\ Running /\ wpc[t] = "setup"
  /\ \/ /\ wpc' = [wpc EXCEPT ![t] = "initmark"]
        /\ UNCHANGED exited
     \/ /\ exited' = TRUE
        /\ UNCHANGED wpc
  /\ UNCHANGED <<my, wid, owner, slot, mpc, launched, bug>>

\* Slip: the worker enters its loop without setting sched->initialized.
MarkInitializedNoFlag(t) ==
  /\ Running /\ wpc[t] = "initmark"
  /\ wpc' = [wpc EXCEPT ![t] = "run"]
  /\ UNCHANGED <<my, wid, owner, slot, mpc, launched, exited, bug>>

\* sched = &sched_list[wid]; under mutex_worker_init: sched->initialized = 1.
MarkInitialized(t) ==
  LET s == slot[my[t]].idx IN
  /\ Running /\ wpc[t] = "initmark"
  /\ slot' = [slot EXCEPT ![s].init = TRUE]
  /\ wpc' = [wpc EXCEPT ![t] = "run"]
  /\ UNCHANGED <<my, wid, owner, mpc, launched, exited, bug>>

\* The server thread polls, under mutex_worker_init, until all are ready.
WaitWorkers ==
  /\ Running /\ mpc = "wait"
  /\ \A s \in Slots : slot[s].init
  /\ mpc' = "serving"
  /\ UNCHANGED <<wpc, my, wid, owner, slot, launched, exited, bug>>

\* MK_SCHED_SIGNAL_FREE_ALL is written to every worker's signal channel.
Shutdown ==
  /\ Running /\ mpc = "serving"
  /\ mpc' = "stopping"
  /\ UNCHANGED <<wpc, my, wid, owner, slot, launched, exited, bug>>

(***************************************************************************)
(* mk_sched_worker_free under mutex_worker_exit: the slot whose tid is     *)
(* pthread_self(), mk_bug(!sl), free the thread-local lists.              *)
(***************************************************************************)
WorkerFree(t) ==
  /\ Running /\ mpc = "stopping" /\ wpc[t] = "run"
  /\ bug' = (bug \/ ~\E s \in Slots : slot[s].tid = t)
  /\ wpc' = [wpc EXCEPT ![t] = "freed"]
  /\ UNCHANGED <<my, wid, owner, slot, mpc, launched, exited>>

Init ==
  /\ wpc = [t \in Threads |-> "none"]
  /\ my = [t \in Threads |-> -1]
  /\ wid = 0
  /\ owner = NoThread
  /\ slot = [s \in Slots |-> [tid |-> NoThread, idx |-> 0, init |-> FALSE]]
  /\ mpc = "launch"
  /\ launched = 0
  /\ exited = FALSE
  /\ bug = FALSE

Next ==
  \/ LaunchThread \/ WaitWorkers \/ Shutdown
  \/ \E t \in Threads :
       \/ LockSchedInit(t) \/ ReadWid(t) \/ WriteSlot(t)
       \/ SetupWorker(t) \/ MarkInitialized(t) \/ WorkerFree(t)

\* Every thread is scheduled; a blocked mutex_lock is retried.
Spec == Init /\ [][Next]_vars /\ WF_vars(LaunchThread) /\ WF_vars(WaitWorkers)
        /\ WF_vars(Shutdown)
        /\ \A t \in Threads :
             /\ WF_vars(LockSchedInit(t)) /\ WF_vars(ReadWid(t))
             /\ WF_vars(WriteSlot(t)) /\ WF_vars(SetupWorker(t))
             /\ WF_vars(MarkInitialized(t)) /\ WF_vars(WorkerFree(t))

-----------------------------------------------------------------------------
TypeOK ==
  /\ wpc \in [Threads -> {"none", "lock", "rdwid", "wrslot", "setup",
                          "initmark", "run", "freed"}]
  /\ my \in [Threads -> Slots \cup {-1}]
  /\ wid \in 0 .. NSlots
  /\ owner \in Threads \cup {NoThread}
  /\ slot \in [Slots -> [tid : Threads \cup {NoThread}, idx : Slots,
                         init : BOOLEAN]]
  /\ mpc \in {"launch", "wait", "serving", "stopping"}
  /\ launched \in 0 .. NSlots
  /\ exited \in BOOLEAN /\ bug \in BOOLEAN

Registered == {t \in Threads : wpc[t] \in {"setup", "initmark", "run", "freed"}}

(***************************************************************************)
(* Concurrent mk_sched_register_thread calls hand out distinct slots, and  *)
(* each registered thread's slot records its index and its thread id, so  *)
(* mk_sched_worker_free later finds it.                                    *)
(***************************************************************************)
SlotsDistinct ==
  /\ \A t, u \in Registered : t # u => my[t] # my[u]
  /\ \A t \in Registered : slot[my[t]].tid = t /\ slot[my[t]].idx = my[t]
  /\ ~bug

(***************************************************************************)
(* Start-up completes: unless a thread cannot be created or a worker's    *)
(* set-up fails, either of which ends the process, the server thread      *)
(* eventually sees every slot initialized (it never waits for a slot no   *)
(* thread will register), and after the shutdown broadcast every worker   *)
(* frees its resources.                                                    *)
(***************************************************************************)
StartupCompletes ==
  /\ <>(exited \/ mpc = "serving")
  /\ (mpc = "stopping") ~> (exited \/ \A t \in Threads : wpc[t] = "freed")
=============================================================================
