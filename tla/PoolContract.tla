---------------------------- MODULE PoolContract ----------------------------
(***************************************************************************)
(* What the warm pool promises to the rest of the system, with nothing of  *)
(* how it does it: a bounded queue of prepared instances, handed out first *)
(* in first out, each one to a single holder, and never put back.          *)
(***************************************************************************)
EXTENDS Naturals, Sequences, FiniteSets

CONSTANTS Id, TargetPoolSize, MaxPoolSize

VARIABLES
  queue,   \* prepared instances, oldest first
  out      \* instances handed out and not yet removed

Queued == {queue[k] : k \in DOMAIN queue}

Init == queue = <<>> /\ out = {}

\* A new instance joins at the end, if the target and the cap leave room for it.
Add(i) ==
  /\ i \notin Queued \cup out
  /\ Len(queue) < TargetPoolSize
  /\ Len(queue) + Cardinality(out) < MaxPoolSize
  /\ queue' = Append(queue, i)
  /\ UNCHANGED out

\* The oldest instance is handed out.
Grant ==
  /\ queue # <<>>
  /\ queue' = Tail(queue)
  /\ out' = out \cup {Head(queue)}

\* A handed out instance is removed for good.
Retire(i) ==
  /\ i \in out
  /\ out' = out \ {i}
  /\ UNCHANGED queue

Next == Grant \/ \E i \in Id : Add(i) \/ Retire(i)

Spec == Init /\ [][Next]_<<queue, out>>

=============================================================================
