---------------------------- MODULE StreamQueue -----------------------------
(***************************************************************************)
(* What a channel promises the protocol layer that queues output on it,   *)
(* with the bytes abstracted away: streams leave in the order they were    *)
(* queued; the one at the head either completes (its cb_finished runs) or *)
(* is dropped on a write error; closing the channel drops them all.  How  *)
(* many bytes one write moves is invisible at this level: a partial write  *)
(* is a stuttering step.  Channel.tla implements this specification.      *)
(***************************************************************************)
EXTENDS Integers, Sequences

VARIABLES
  pending,   \* streams queued and not yet completed or dropped, in order
  done,      \* streams whose completion was reported, in report order
  made,      \* number of streams queued so far (stream ids are 1 .. made)
  live       \* the channel has not been closed

avars == <<pending, done, made, live>>

\* The protocol layer queues the next stream at the tail.
Put ==
  /\ live
  /\ pending' = Append(pending, made + 1)
  /\ made' = made + 1
  /\ UNCHANGED <<done, live>>

\* The head stream has gone out entirely and its completion is reported.
Complete ==
  /\ pending # <<>>
  /\ done' = Append(done, Head(pending))
  /\ pending' = Tail(pending)
  /\ UNCHANGED <<made, live>>

\* A write of the head stream failed; it is released without completion.
Drop ==
  /\ pending # <<>>
  /\ pending' = Tail(pending)
  /\ UNCHANGED <<done, made, live>>

\* The connection goes away; every stream still queued is released.
Close ==
  /\ live
  /\ live' = FALSE
  /\ pending' = <<>>
  /\ UNCHANGED <<done, made>>

AInit ==
  /\ pending = <<>>
  /\ done = <<>>
  /\ made = 0
  /\ live = TRUE

ANext == Put \/ Complete \/ Drop \/ Close

ASpec == AInit /\ [][ANext]_avars
=============================================================================
