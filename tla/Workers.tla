------------------------------ MODULE Workers ------------------------------
(***************************************************************************)
(* Start-up and fair balancing together, as mk_scheduler.c runs them: the  *)
(* dispatcher's _next_target only starts once the server thread has seen   *)
(* every sched_list slot initialized (mk_sched_launch_thread blocks until *)
(* then), and the closes it races with are made by running workers, each *)
(* on the counters of the slot it registered in.  Shutdown may come while *)
(* a scan is under way; the scan then completes on the counters it reads. *)
(***************************************************************************)
EXTENDS Integers

CONSTANTS
  NSlots,     \* mk_config->workers
  Capacity,   \* mk_config->server_capacity
  NoThread    \* the zero thread id of a slot nobody registered

VARIABLES
  wpc, my, wid, owner, slot, mpc, launched, exited, bug,   \* Startup
  load, bpc, i, st, snap                                   \* Balancer

svars == <<wpc, my, wid, owner, slot, mpc, launched, exited, bug>>
bvars == <<load, bpc, i, st, snap>>
vars == <<svars, bvars>>

S == INSTANCE Startup
B == INSTANCE Balancer WITH NWorkers <- NSlots

\* A connection reaches the dispatcher only while the server is serving.
Dispatch ==
  /\ \/ mpc = "serving" /\ B!BalStart
     \/ B!BalStep
     \/ B!BalDecide
  /\ UNCHANGED svars

\* mk_sched_remove_client runs on the worker thread that owns the slot.
WorkerClose ==
  /\ \E t \in S!Threads : wpc[t] = "run" /\ B!Close(my[t])
  /\ UNCHANGED svars

Init == S!Init /\ B!Init

\* A step of start-up and shutdown, which leaves the dispatcher alone.
SStep(A) == A /\ UNCHANGED bvars

Next == SStep(S!Next) \/ Dispatch \/ WorkerClose

\* Every thread is scheduled; a blocked mutex_lock is retried.
Spec == Init /\ [][Next]_vars
        /\ WF_vars(SStep(S!LaunchThread)) /\ WF_vars(SStep(S!WaitWorkers))
        /\ WF_vars(SStep(S!Shutdown))
        /\ \A t \in S!Threads :
             /\ WF_vars(SStep(S!LockSchedInit(t)))
             /\ WF_vars(SStep(S!ReadWid(t)))
             /\ WF_vars(SStep(S!WriteSlot(t)))
             /\ WF_vars(SStep(S!SetupWorker(t)))
             /\ WF_vars(SStep(S!MarkInitialized(t)))
             /\ WF_vars(SStep(S!WorkerFree(t)))

-----------------------------------------------------------------------------
TypeOK == S!TypeOK /\ B!TypeOK

\* Concurrent mk_sched_register_thread calls hand out distinct slots that
\* record their own thread id, so mk_sched_worker_free finds its slot.
SlotsDistinct == S!SlotsDistinct

\* Start-up reaches serving unless a set-up failure exits, and every worker
\* frees its resources after the shutdown broadcast.
StartupCompletes == S!StartupCompletes

\* Fail-fast admission: _next_target never hands a worker more than
\* server_capacity connections, though it reads counters being closed.
LoadBounded == B!LoadBounded

\* A refusal by mk_sched_next_target happens only when every worker was
\* full when the scan began.
RejectOnlyWhenFull == B!RejectOnlyWhenFull

\* _next_target agrees with its reference on every load vector up to one
\* above the ceiling.
MatchesReference == B!MatchesReference
=============================================================================
