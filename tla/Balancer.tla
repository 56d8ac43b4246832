----------------------------- MODULE Balancer ------------------------------
(***************************************************************************)
(* The fair-balancing dispatcher of mk_scheduler.c: _next_target picks the *)
(* worker with the least load accepted_connections - closed_connections,  *)
(* or -1 when even that worker has reached server_capacity, and           *)
(* mk_sched_next_target turns -1 into NULL (the caller closes the         *)
(* connection).                                                            *)
(*                                                                         *)
(* The scan is one step per loop iteration, because the counters it reads *)
(* belong to other workers, which close connections concurrently            *)
(* (closed_connections++ in mk_sched_remove_client).  The dispatcher that  *)
(* calls mk_sched_next_target and counts the accept (in mk_server.c) is    *)
(* not among the sources: following the design, it is the only writer of  *)
(* accepted_connections, so during a scan a worker's load can only drop;   *)
(* the model keeps each worker's load, the difference of its counters.    *)
(***************************************************************************)
EXTENDS Integers

CONSTANTS
  NWorkers,   \* mk_config->workers
  Capacity    \* mk_config->server_capacity

ASSUME NWorkers \in Nat \ {0} /\ Capacity \in Nat \ {0}

Workers == 0 .. NWorkers - 1
NoTarget == -1

(***************************************************************************)
(* The body of the for loop of _next_target on worker i with load tmp:    *)
(* a strictly lower load takes the lead; a lead of 0 ends the scan.       *)
(***************************************************************************)
\* Slip: a later worker with an equal load takes the lead.
LoopBodyLastMin(i, st, tmp) ==
  IF tmp <= st.cur THEN [target |-> i, cur |-> tmp, stop |-> tmp = 0]
  ELSE st

LoopBody(i, st, tmp) ==
  IF tmp < st.cur THEN [target |-> i, cur |-> tmp, stop |-> tmp = 0]
  ELSE st

\* The scan starts on worker 0; a load of 0 returns 0 at once.
FirstFrame(tmp0) == [target |-> 0, cur |-> tmp0, stop |-> tmp0 = 0]

\* The loop goes on while i < workers and no idle worker was found.
ScanMore(i, st) == i < NWorkers /\ ~st.stop

\* After the loop: the least-loaded worker, or -1 if it is full.
Verdict(st) == IF st.stop THEN st.target
               ELSE IF st.cur >= Capacity THEN NoTarget ELSE st.target

(***************************************************************************)
(* _next_target on a snapshot ld of the loads, as a recursive operator.   *)
(***************************************************************************)
RECURSIVE ScanFrom(_, _, _)
ScanFrom(ld, i, st) ==
  IF ScanMore(i, st) THEN ScanFrom(ld, i + 1, LoopBody(i, st, ld[i])) ELSE st

NextTarget(ld) == Verdict(ScanFrom(ld, 1, FirstFrame(ld[0])))

\* The reference: the first worker of least load, unless that load is full.
LeastLoaded(ld) ==
  CHOOSE i \in Workers :
    \A j \in Workers : ld[i] < ld[j] \/ (ld[i] = ld[j] /\ i <= j)

RefTarget(ld) ==
  IF ld[LeastLoaded(ld)] >= Capacity THEN NoTarget ELSE LeastLoaded(ld)

-----------------------------------------------------------------------------
VARIABLES
  load,    \* load[w]: accepted_connections - closed_connections of worker w
  bpc,     \* dispatcher: "idle" or "scan" (inside _next_target)
  i,       \* loop index of the scan
  st,      \* [target, cur, stop]: the lead so far
  snap     \* history: the loads when the scan began

vars == <<load, bpc, i, st, snap>>

\* Slip: the loop index is not reset to 1 when a new scan begins.
BalStartNoReset ==
  /\ bpc = "idle"
  /\ bpc' = "scan"
  /\ st' = FirstFrame(load[0])
  /\ snap' = load
  /\ UNCHANGED <<load, i>>

\* A connection arrives; _next_target reads worker 0's counters.
BalStart ==
  /\ bpc = "idle"
  /\ bpc' = "scan"
  /\ i' = 1
  /\ st' = FirstFrame(load[0])
  /\ snap' = load
  /\ UNCHANGED load

\* Slip: iteration i reads the counters of worker i - 1.
BalStepPrevWorker ==
  /\ bpc = "scan"
  /\ ScanMore(i, st)
  /\ st' = LoopBody(i, st, load[i - 1])
  /\ i' = i + 1
  /\ UNCHANGED <<load, bpc, snap>>

\* One iteration of the for loop: read worker i's counters.
BalStep ==
  /\ bpc = "scan"
  /\ ScanMore(i, st)
  /\ st' = LoopBody(i, st, load[i])
  /\ i' = i + 1
  /\ UNCHANGED <<load, bpc, snap>>

(***************************************************************************)
(* The loop is over: mk_sched_next_target returns the worker, whose        *)
(* accepted_connections the dispatcher then counts, or NULL, and the      *)
(* connection is closed.                                                   *)
(***************************************************************************)
BalDecide ==
  LET t == Verdict(st) IN
  /\ bpc = "scan"
  /\ ~ScanMore(i, st)
  /\ load' = IF t = NoTarget THEN load ELSE [load EXCEPT ![t] = @ + 1]
  /\ bpc' = "idle"
  /\ UNCHANGED <<i, st, snap>>

Close(w) ==
  /\ load[w] > 0
  /\ load' = [load EXCEPT ![w] = @ - 1]
  /\ UNCHANGED <<bpc, i, st, snap>>

Init ==
  /\ load = [w \in Workers |-> 0]
  /\ bpc = "idle"
  /\ i = 1
  /\ st = FirstFrame(0)
  /\ snap = [w \in Workers |-> 0]

Next == BalStart \/ BalStep \/ BalDecide \/ \E w \in Workers : Close(w)

Spec == Init /\ [][Next]_vars

-----------------------------------------------------------------------------
TypeOK ==
  /\ load \in [Workers -> Nat]
  /\ bpc \in {"idle", "scan"}
  /\ i \in 1 .. NWorkers
  /\ st \in [target : Workers, cur : Nat, stop : BOOLEAN]
  /\ snap \in [Workers -> Nat]

(***************************************************************************)
(* _next_target agrees with its reference on every snapshot of loads up   *)
(* to one above the ceiling: the first worker of least load, or -1 when   *)
(* that load has reached server_capacity (the early return on an idle     *)
(* worker 0 and the break on an idle worker included).                     *)
(***************************************************************************)
MatchesReference ==
  \A ld \in [Workers -> 0 .. Capacity + 1] : NextTarget(ld) = RefTarget(ld)

(***************************************************************************)
(* Fail-fast admission bounds memory: no worker is ever handed more than  *)
(* server_capacity connections, although the loads _next_target reads are *)
(* stale while other workers close connections.                            *)
(***************************************************************************)
LoadBounded == \A w \in Workers : load[w] <= Capacity

(***************************************************************************)
(* A connection is refused only when every worker was full when the scan  *)
(* began: a stale read may miss a close, but never invents load.          *)
(***************************************************************************)
RejectOnlyWhenFull ==
  (bpc = "scan" /\ ~ScanMore(i, st) /\ Verdict(st) = NoTarget)
    => \A w \in Workers : snap[w] >= Capacity
=============================================================================
