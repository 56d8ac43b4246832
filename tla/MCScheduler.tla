---------------------------- MODULE MCScheduler ----------------------------
(***************************************************************************)
(* Model-checking instances of Scheduler.  accept4 hands out the lowest    *)
(* free descriptor, so the second connection reuses the first one's        *)
(* number once it is closed.  A one-byte socket buffer and a page of zero *)
(* bytes make every write loop exit on its budget or find the socket full; *)
(* a timeout of one tick lets the timer and the I/O of one connection land *)
(* in the same epoll batch.                                                *)
(***************************************************************************)
EXTENDS Scheduler

MCFds == {3, 4}
=============================================================================
