----------------------------- MODULE PoolStats -----------------------------
(***************************************************************************)
(* The arithmetic of domain.PoolStats (internal/domain/pool.go): how many  *)
(* instances the pool lacks, given one reading of its counters.            *)
(***************************************************************************)
EXTENDS Integers

\* The readings GetPoolStats can return, the configured sizes filled in.
Stats == [ready: Nat, assigned: Nat, warming: Nat, target: Nat, capacity: Nat]

Used(s) == s.ready + s.assigned + s.warming

\* Mutant of AvailableCapacity: instances in use are not counted.
AvailableCapacityOfReady(s) == IF s.ready >= s.capacity THEN 0 ELSE s.capacity - s.ready

\* How many more instances may be created.
AvailableCapacity(s) == IF Used(s) >= s.capacity THEN 0 ELSE s.capacity - Used(s)

\* How many instances should be created: the gap to the target, cut at the capacity.
ReplenishmentNeeded(s) ==
  LET gap == s.target - s.ready - s.warming
      available == AvailableCapacity(s)
  IN  IF gap <= 0 THEN 0 ELSE IF gap > available THEN available ELSE gap

=============================================================================
