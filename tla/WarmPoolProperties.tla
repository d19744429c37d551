------------------------- MODULE WarmPoolProperties -------------------------
(***************************************************************************)
(* What the warm pool promises.  Each property names the code it is about; *)
(* README.md says under which processes and failures each one holds.       *)
(***************************************************************************)
EXTENDS WarmPool

\* a has popped an instance and has not answered its client yet.
Serving(a) == pc[a] \in AcquireLabel

\* p has a port from AllocatePort and neither a pool entry nor its release behind it.
Provisioning(p) == pc[p] \in ProvisionLabel \ {"alloc"}

Running == {i \in Id : running[i] # None}

\* AcquireFromPool hands an instance to one request only: whatever requests,
\* releases, failures and restarts come together, no instance is in the ready
\* list twice, in the list and with a request or a client, or with two requests.
NoDoubleAssignment ==
  /\ \A j, k \in DOMAIN poolReady : poolReady[j] = poolReady[k] => j = k
  /\ Elements(poolReady) \cap handed = {}
  /\ \A a \in Acquirer : Serving(a) => job[a] \notin Elements(poolReady) \cup handed
  /\ \A a, b \in Acquirer : Serving(a) /\ Serving(b) /\ job[a] = job[b] => a = b

\* Every id in the ready list can be served: its record is ready and its container
\* runs on the recorded port, so the request that pops it gets a working shop.
ReadyInstancesServe ==
  \A i \in Elements(poolReady) :
    /\ record[i] # None /\ record[i].state = "ready"
    /\ running[i] = record[i].port

\* AllocatePort does not return a port that is in use: no other container is bound to
\* the port of a provisioning process, and no other process provisions on it.
PortAllocatedOnce ==
  \A p \in Proc : Provisioning(p) =>
    /\ \A i \in Id : running[i] = inst[p].port => i = job[p]
    /\ \A q \in Proc : Provisioning(q) /\ inst[q].port = inst[p].port => q = p

\* The available set never offers a port that is taken: AllocatePort, ReleasePort and the
\* order of Release's steps keep it apart from containers and provisioning processes.
PortExclusive ==
  /\ \A n \in portsAvailable : ~PortBound(n)
  /\ \A p \in Proc : Provisioning(p) => inst[p].port \notin portsAvailable
  /\ PortAllocatedOnce

\* A port outside the available set has an owner that will return it: a provisioning
\* process or an instance record (the deferred ReleasePort and Release see to that).
NoPortLeak ==
  \A n \in Port \ portsAvailable :
    \/ \E p \in Proc : Provisioning(p) /\ inst[p].port = n
    \/ \E i \in Id : record[i] # None /\ record[i].port = n

\* The same promise for one provision that fails: once provisionInstance is on its way
\* back, it does not return before its port is available again.
FailedProvisionReturnsPort ==
  [][\A p \in Proc :
       pc[p] \in {"undoUntrack", "undoReturn"} /\ pc'[p] \notin {"undoUntrack", "undoReturn"}
         => inst[p].port \in portsAvailable']_vars

\* A route never leads to another instance's container: Release removes the route
\* before the port can be allocated again.
RouteIsolation ==
  \A i, j \in Id : routes[i] # None /\ running[j] = routes[i] => i = j

\* MaxPoolSize is a hard cap on the containers that run, although the counters
\* that TriggerReplenish compares with it are read by separate commands.
HardCap == Cardinality(Running) <= MaxPoolSize

\* The state sets are exact: whoever is listed under a state has a record in it, and
\* an assigned record is listed where ListExpired looks, until its DEL is next.
StateSetsExact ==
  /\ \A s \in State : \A i \in stateSet[s] : record[i] # None /\ record[i].state = s
  /\ \A i \in Id : record[i] # None /\ record[i].state = "assigned" =>
       \/ i \in stateSet["assigned"]
       \/ \E p \in Proc : At(p, "dDel") /\ job[p] = i

\* No zombies: an assigned instance has an expiry, or a request still works on it.
NoZombie ==
  \A i \in Id : record[i] # None /\ record[i].state = "assigned" /\ ~record[i].expires =>
    \E a \in Acquirer : job[a] = i

\* TriggerReplenish finds nothing to do and returns.
StopsReplenishing == At(Loop, "scard") /\ pc'[Loop] \in {"select", "list"}

\* The trigger sent by Acquire is never lost, although the channel has one slot and the
\* counters are read one by one: when TriggerReplenish finds nothing to do, the pool is full or
\* the cap is reached by what is there now, or a token waits for the next pass, or a
\* request will still send one.
NoLostTrigger ==
  [][StopsReplenishing =>
       \/ Len(poolReady) >= TargetPoolSize
       \/ Len(poolReady) + Cardinality(stateSet["assigned"]) >= MaxPoolSize
       \/ replenishCh
       \/ \E a \in Acquirer : pc[a] \in {"ttlGet", "ttlSet", "route", "signal"}]_vars

-----------------------------------------------------------------------------
\* Refinement: the ready list and the assigned set implement PoolContract.  In
\* particular the list is FIFO, Ready + Assigned never exceeds MaxPoolSize and Ready
\* never exceeds TargetPoolSize (TriggerReplenish), and Release never returns an
\* instance to the pool.
Contract == INSTANCE PoolContract WITH queue <- poolReady, out <- stateSet["assigned"]
ImplementsContract == Contract!Spec

-----------------------------------------------------------------------------
(* Liveness.  Goroutines are scheduled; a started request runs to its end. *)
(* The ticker fires for ever and Go's select chooses at random among the   *)
(* ready cases, so the tick cannot be passed over for ever (SF).  Time     *)
(* passes every expiry.                                                    *)

LoopStep ==
  \/ ReadReady \/ ReadAssigned \/ ProvisionInstance(Loop)
  \/ ListAssigned \/ FetchAssigned \/ Sweep \/ Release(Loop)

Serve(a) == ~At(a, "idle") /\ (Acquire(a) \/ Release(a))

Fairness ==
  /\ WF_vars(LoopStep) /\ WF_vars(Trigger) /\ SF_vars(Tick)
  /\ \A a \in Acquirer : WF_vars(Serve(a))
  /\ \A i \in Id : WF_vars(Elapse(i))

FairSpec == Spec /\ Fairness

\* Every assigned instance is removed in the end: its expiry passes, a tick lists it
\* and cleanupExpired releases it, port, container, route and record.
AssignedEventuallyRemoved ==
  \A i \in Id :
    (record[i] # None /\ record[i].state = "assigned")
      ~> (record[i] = None /\ running[i] = None /\ routes[i] = None)

\* An empty pool is filled again, although assigned instances may fill the cap or
\* hold every port for now and provisioning may fail on the way.
EmptyEventuallyRefilled == (poolReady = <<>>) ~> (poolReady # <<>>)

=============================================================================
