# The warm pool of demo instances, in TLA+

The server under `src/` hands out short-lived PrestaShop demos from a pool of
containers that are started in advance. This directory holds a TLA+ model of its
core, the TLC configurations that check the model on small instances, and proofs,
checked by TLAPS, for every size of the constants.

1. [Inventory of the system](#1-inventory)
2. [Modules and how they correspond to the code](#2-modules)
3. [Runs](#3-runs)
4. [Fairness](#4-fairness)
5. [Proofs](#5-proofs)
6. [What the model found](#6-findings)
7. [Assumptions and what is left out](#7-assumptions)
8. [Plan](#8-plan)

## 1. Inventory

| Component | State | Operations that change state | What makes it correct |
|---|---|---|---|
| Pool manager (`internal/pool`) | `replenishCh` (one slot), `running`/`stopCh`/`doneCh`; everything else in the store | `Acquire`, `Release`, `TriggerReplenish`, `replenishLoop`, `provisionInstance`, `cleanupExpired`, `ProvisionOne`, `StartReplenisher`, `StopReplenisher` | one holder per instance; ports and containers come back; the cap holds; no trigger is lost; the expired go; the empty pool refills |
| Pool arithmetic (`internal/domain/pool.go`) | none | none (`AvailableCapacity`, `ReplenishmentNeeded`) | never asks for more than the capacity leaves |
| Instance store (`internal/store/valkey.go`) | Valkey: `instance:{id}`, `pool:ready`, `state:{s}`, `ports:available`, `ports:in_use`, `counter:*` | `AcquireFromPool` (Lua), `AddToPool`, `SaveInstance`, `DeleteInstance`, `SetInstanceTTL`, `AllocatePort`, `ReleasePort`, `InitializePorts`, `ExtendInstanceTTLAtomic` (Lua, then a GET and a SET) | list, records and state sets agree; a port has one user |
| Rate limiter (`internal/store/valkey.go`, `acquireDemo`) | `ratelimit:hour:{ip}`, `ratelimit:day:{ip}` with their expiries | `CheckAndIncrementRateLimit` (Lua) | in no hour and no day more requests than the limit; a denial has a reason |
| TTL extension (`extendDemo`, `internal/store/valkey.go`) | `expires_at_unix` and `expires_at` of a record | `ExtendInstanceTTLAtomic` (Lua), `syncExpiresAtField` | never beyond `MaxTTL`; what is granted is kept |
| API (`internal/api/handler.go`) | none | `acquireDemo` (rate limit, `Acquire`, `SaveInstance` with the user's address), `releaseDemo`, `extendDemo`; `demoStatus` streams | a client gets an instance that works, with an expiry and a route; every request is answered |
| Container runtimes (`internal/container`) | the runtime's containers and port bindings | `Start`, `Stop`, `RestoreFromCheckpoint` | one container per port |
| Caddy routes (`internal/proxy/caddy.go`) | Caddy's server for the demos and its routes; `serverOnce`, `serverInitErr` | `AddRoute`, `ensureServerExists`, `createServerIfNotExists`, `RemoveRoute` | the server is there before the first route; a hostname leads to its own container or nowhere |
| Demo database (`internal/database`) | prefixed tables | `DropPrefixedTables` (`UpdateDomain`, `ClearCaches` change contents only) | tables go with the instance |
| Task queue (`internal/queue`) | JetStream stream, two durable consumers, `running`/`stopCh`/`doneCh` | publish, fetch, `ProvisionHandler`, `CleanupHandler`, Ack/Nak/Term, `Start`, `Stop` | a task is done, and once |
| Server start and shutdown (`cmd/server/main.go`, `StartReplenisher`, `StopReplenisher`) | how far the shutdown is; whether the loop and requests still run | start, signal, deferred calls, `logger.Fatal`, crash | what the store kept is good for a new process; nobody uses a closed connection; a shutdown ends |
| Middleware, configuration, metrics, logging, `cmd/checkpoint` | write-only or read-once | none of interest | not modelled |

**How they interact.** HTTP requests run in goroutines of their own and call the pool
manager, which calls Valkey, the runtime, Caddy and the database over the network, one
command at a time, in the context of the request. One replenisher goroutine loops
over a `select` on the trigger channel and a ticker; it provisions instances one by
one and, on a tick, releases the expired ones. Queue workers call `ProvisionOne`
from goroutines of their own. There is no lock around any of it: the pool manager's
mutex guards only `running`. All coordination is in Valkey, where a command or a Lua script
is atomic and a Go method of several commands is not.

**What is hard.** (1) *Interleaving*: two `Release` calls of one instance, a pop between
two reads of the statistics, a worker next to the replenisher. (2) *Partial failure*:
`provisionInstance` has eight commands that each may fail, and its way back three
more. (3) *Contexts*: the compensation of a failed step runs in the context that may be the
reason of the failure; Docker heeds that context, Podman's client does not.
(4) *Crashes*: the store, the containers and the routes outlive the process.
(5) *Liveness*: nothing but a non-blocking send into a channel of one slot, and a ticker,
drives replenishment and clean-up.

The full list, each at its line, is under `hazards` in `PROJECT.json`.

## 2. Modules

```
PoolStats      InstanceStore
      \          /
       WarmPool                     PoolContract
          |                            |
   WarmPoolProperties  --- INSTANCE ---+
     |            |
 MCWarmPool   WarmPoolProofs
                  |
              AssignmentProofs
                  |
              PoolProofs
                  |
              PortProofs

 RateLimiter    CaddyRoutes          TaskQueue          TtlExtension
       \          /                     |                 |      |
       AcquireDemo                  Lifecycle             |  MCTtlExtension
     |          |                    |      |             |
     |     MCAcquireDemo             |  MCLifecycle    TtlProofs
 RateLimiterProofs              QueueProofs
     |
 RoutesProofs
```

The pool is one step in `AcquireDemo`, and a pass of the loop is two in `Lifecycle`; `WarmPool` has
the commands of both.

* **`PoolStats`** is `domain.PoolStats`: one reading of the counters and the arithmetic on it.
* **`InstanceStore`** is the Valkey server. Each operator is one command or one Lua
  script, and so one atomic step: `PopInstance`, `PopGhost` and `PopNothing` are the three ways
  through `acquireFromPoolScript`; `SPopPort` and `STrackPort` are the two commands of
  `AllocatePort`, and so on. A record keeps the fields some decision reads: state, port and whether
  an expiry is set.
* **`WarmPool`** is everything that runs: requests (`Acquirer` for `POST /acquire`,
  `Deleter` for `DELETE /{id}`), queue workers (`Worker`) and the replenisher (`Loop`). `pc[p]`
  is the command `p` sends next, so every step is one command with the local
  decision on its answer, and everything else may happen between two commands.
  The actions stand in the order of the code:

  | Code | Actions |
  |---|---|
  | `Acquire`, rest of `acquireDemo` | `AcquireFromPool`, `GetForTTL`, `SetTTL`, `AddRoute`, `Signal`, `SaveUserIP`, `SaveUserIPIndex` |
  | `Release` (and `DeleteInstance` in it) | `GetForRelease`, `RemoveRoute`, `DropPrefixedTables`, `Stop`, `UntrackPort`, `ReturnPort`, `GetForDelete`, `RemoveFromStateSet`, `DeleteRecord` |
  | `provisionInstance` | `AllocatePort`, `TrackPort`, `RestoreFromCheckpoint`, `Start`, `WaitForReady`, `AddRecord`, `AddToStateSet`, `PushReady`; on the way back `UndoStop`, `UndoUntrackPort`, `UndoReturnPort` |
  | `replenishLoop`, `TriggerReplenish`, `GetPoolStats` | `Trigger`, `Tick`, `ReadReady`, `ReadAssigned` |
  | `cleanupExpired`, `ListExpired` | `ListAssigned`, `FetchAssigned`, `Sweep`, then `Release(Loop)` |
  | `main` after a crash | `Restart` with `InitializePorts` |

  `inst[p]` is the `*domain.Instance` the Go code holds in memory; `read[p]` is the copy a
  read-modify-write method of the store works on. They are kept apart from the
  stored `record` because writing a stale copy back is one of the hazards.

  Failures are parameters. `Call(p, Effect, Ok, Err)` is one command: answered; or
  lost, with its effect applied or not; or refused unsent because the context of `p` is done.
  `RuntimeCall` is the same for the container runtime, where Podman's client works
  in the context of its connection and so ignores the end of the caller's.
  `Failure` selects which of `FailureKind` may happen and `MaxFailures` bounds how often.
* **`PoolContract`** is the abstract specification: a bounded queue of prepared instances,
  handed out first in first out, each removed for good. `WarmPoolProperties`
  instantiates it with `queue <- poolReady` and `out <- stateSet["assigned"]`.
* **`WarmPoolProperties`** holds the invariants, action properties, refinement and liveness
  properties, each with a comment that says which code it is about.
* **`TtlExtension`** is the life time of one assigned instance: `POST /{id}/extend` next to
  the clean-up and `DELETE`. Unlike `WarmPool` it counts seconds (`clock`) and keeps both expiry
  fields of the record, `expires_at_unix` (`unix`) and `expires_at` (`text`).

  | Code | Actions |
  |---|---|
  | `extendDemo`, `ExtendInstanceTTLAtomic` | `Ask` (reads the time), then the script: `Extend`, `ExtendUnanswered` (its answer is lost) or `Refuse` |
  | `syncExpiresAtField` | `SyncGet`, `SyncSet` |
  | `cleanupExpired`, `ListExpired` | `List`, `Fetch` |
  | `Release`, as far as it concerns the record | `Get`, `Stop` or `StopFailed`, `RemoveFromStateSet`, `DeleteRecord` |
  | any command that fails, or a context that ends | `Abandon` |

  `promise` is not in the code: it is the latest expiry that was granted while the previous one
  had not passed, which is what a client may count on.
* **`TaskQueue`** is the NATS consumer of `internal/queue`: tasks of two subjects, a pool of
  worker goroutines for each, deliveries and answers. It has `ProvisionOne` as one step, whose commands
  are in `WarmPool`, and each call of `CleanupHandler` as one step.

  | Code | Actions |
  |---|---|
  | `PublishProvisionTask`, `PublishCleanupTask` | `Publish` |
  | the durable consumers (AckWait, MaxDeliver, MaxAckPending) | `AckWait`, `Deliverable` |
  | `runProvisionWorker`, `runCleanupWorker` | `Fetch`, `FetchNothing`, `StopSignal`, `Process` |
  | the handlers | `ProvisionHandler`, `ProvisionHandlerFails`, `CleanupHandler`, `CleanupHandlerWarns`, `Panic`, `Hang` (a call is never answered) |
  | `processProvisionMessage`, `processCleanupMessage` | `Ack`, `Nak`, `AnswerLost` |
  | `Stop`, `main`, `Start` | `Stop` (`stopCh` is closed), `Stopped` (all workers left or hang, or 10 seconds are over before a slow one is done), `Exit` (the process ends), `Die` (a crash), `Abort` (`logger.Fatal`), `Elsewhere` (something fails in another part of the process), `Start` |

  Once `Stop` is through, the connections are closed one after the other under whoever is still at work:
  from then on any call may fail, and so may an answer to the server (`CallFails`).
* **`Lifecycle`** is the server process around the queue, which it extends: `main`, the replenisher's loop and the
  requests in flight.

  | Code | Actions |
  |---|---|
  | `replenishLoop`, `TriggerReplenish` | `WakeLoop`, `PassEnds`, `LoopHangs` (a call of the pass is never answered), `LoopStops`; `LoopPanics` is the `recover` of `StartReplenisher` |
  | `main`: signal, `server.Shutdown` | `Interrupt`, `RequestsEnd`, `RequestHangs` (or takes longer than 30 seconds), `ShutdownReturns` |
  | the deferred calls, last to first | `ReplenisherStopped` (`StopReplenisher` returns, `consumer.Stop` begins), `Stopped`, `ProcessExits` |
  | `logger.Fatal` after 30 seconds; a crash | `ShutdownForced`; `Killed` |
  | the next start | `Started` |

  Every step of it is a step of the queue or none (`LifecycleRefinesQueue`, proved).
* **`RateLimiter`** is `checkAndIncrementRateLimitScript`: `Grant`, `Deny` and the passing of time. A counter is
  its value and its expiry, both written by every allowed request. `granted` is not in the code: it is when
  the requests of an address were allowed.
* **`CaddyRoutes`** is the route manager, one HTTP request per step.

  | Code | Actions |
  |---|---|
  | `ensureServerExists` | `EnterOnce`, `PassOnce`, `Initialized` |
  | `createServerIfNotExists` | `GetServer`, `PutServer` |
  | `AddRoute`, `RemoveRoute` | `Begin`, `PostRoute`, `RemoveRoute` |
  | `client.Do` | `Http`: answered; lost, applied or not; not sent in a dead context |

* **`AcquireDemo`** composes the two into `POST /acquire`: `CheckAndIncrementRateLimit`, `AcquireFromPool`,
  `Manage` (a step of the route manager), then `Respond`, or `RouteFailed` and `AnswerRouteFailed`;
  next to it `Finish` (a demo ends), `ClientLeaves` and `Restart`, after which the counters and Caddy are
  as they were and the `sync.Once` is new. `served` are the hostnames clients were sent.
* **`MCWarmPool`**, **`MCTtlExtension`**, **`MCLifecycle`**, **`MCAcquireDemo`** are what TLC runs; the first two
  add the symmetry sets for TLC.
* **`WarmPoolProofs`**, **`AssignmentProofs`**, **`PoolProofs`**, **`PortProofs`**, **`TtlProofs`**,
  **`RateLimiterProofs`**, **`RoutesProofs`**, **`QueueProofs`**: section 5.

Definitions whose comment starts with "Mutant of" are not part of the
specification: each is a plausible bug of the definition it names and shows
that a property is able to fail.

## 3. Runs

Ids, ports and requests of one kind are interchangeable and form symmetry sets, except
in the runs that check liveness (`liveness`, `queue`, `requests`), which use none.

| Run | Processes | Bounds | Failures | Checks |
|---|---|---|---|---|
| `pool` | 1 acquire, 1 worker, loop | 4 ids, 3 ports, target 1, cap 2, Podman with checkpoint | one sick container | `PortExclusive`, `NoPortLeak`, `NoZombie` |
| `delete` | 1 acquire, 1 delete, loop | 3 ids, 3 ports, target 1, cap 2 | none | `StateSetsExact`, `HardCap`, `NoLostTrigger` |
| `cancel` | 1 acquire, 1 delete, loop | 2 ids, 2 ports, target 2, cap 2 | one ended context or one restart | `ReadyInstancesServe`, `RouteIsolation`, `ImplementsContract` |
| `failures` | 2 acquires, loop | 2 ids, 2 ports, target 2, cap 2, Podman | one of: lost command, ended context, sick container, restart; requests of any length | `TypeOK`, `NoDoubleAssignment` |
| `liveness` | 1 acquire, loop, `FairSpec` | 3 ids, 2 ports, target 1, cap 2 | one sick container | `AssignedEventuallyRemoved`, `EmptyEventuallyRefilled` |
| `extend` | 2 extensions, 1 delete, loop | 4 seconds, TTL 1, limit 3, extensions of 1 and 2 | any command | `LimitKept`, `ShownNeverLater` |
| `queue` | 2 workers per consumer, main, loop, requests, `LifeFairSpec` | 1 provision or 1 cleanup task, MaxDeliver 3, one stop, any number of starts | one of: failed call, hung call, panic or lost answer of a worker, a worker that outlasts the stop, a request that outlasts `Shutdown`, crash; provisioning fails and the loop panics or hangs at will | `LifecycleTypeOK`, `SettledWhenDone`, `PortFreedLast`, `NothingForgotten`, `ClosedWhenQuiet`, `EveryTaskTried`, `ShutdownEnds` |
| `requests` | 2 requests, `FairSpec` | 1 address, 2 hostnames, 5 seconds with hours of 2 and days of 3, limits 2 and 3 | one failed call or one client that leaves, one restart | `RequestsTypeOK`, `HourlyLimitKept`, `DailyLimitKept`, `DeniedAfterChain`, `PostMeetsServer`, `ServedRouted`, `RoutedUnlessFailure`, `EveryRequestAnswered` |
| `port_twice` | 1 acquire, 1 delete, loop | 3 ids, 2 ports | none | `PortAllocatedOnce` is violated |
| `port_leak` | 1 acquire, loop | 3 ids, 2 ports | one ended context | `FailedProvisionReturnsPort` is violated |
| `zombie` | 1 acquire, loop | 3 ids, 2 ports | one ended context | `NoZombie` is violated |
| `extension_lost` | 2 extensions, loop | 5 seconds, TTL 1, limit 4, extensions of 1 | any command | `ExtensionHonoured` is violated |

**Reading the results.** A property holds under the processes and failures of its run, and the
table is also a statement of where it does not. `NoDoubleAssignment` needs nothing. For the others the theorems of
section 5 name the condition, and the table there says what goes wrong outside it.

**Why the bounds are enough.** A process never works on more than one instance, so the
interesting conflicts need two processes and the instance or port they meet on. Ids
are reused once no trace of them is left (`Fresh`), as a stand-in for new UUIDs, so
two or three of them go through unboundedly many generations: every acquired
instance expires, is released, and its id and port come back. Two ports with a cap of two make
exhaustion and immediate reuse of a port routine. In `TtlExtension` each
extension ends and may be asked for again, so two requests stand for any sequence of
them with two overlapping; a limit of 3 is reached and refused within the 4 seconds, and
the expiry passes within them too. In `queue` the two consumers share nothing but the process, so
the tasks of a behaviour have one subject (`OneSubject`). One task is enough for its deliveries to meet: two
workers hold it at once while a third delivery waits, and `MaxDeliver` (5 and 3 in the
code) only says how often that repeats; what two tasks might do to each other is covered by the proofs,
which are for any number. The panics and hung calls of the loop are not bounded. In `requests` a counter is created,
renewed and expires within the 5 seconds, at either limit, and the clock then stands still while requests go on. Two requests are enough for one to wait for the `sync.Once` that the other runs, and
two hostnames for one to be removed while the other is added. A target of 1 under a cap of 2
in `delete` makes both reasons to stop replenishing happen. One failure
per behaviour is enough to break any single step of any process, at any
point; the sets where two failures matter are small (a failure and the failure
of its compensation) and are reached by `"cancel"`, which makes every later call of the
process fail as well.

**Deadlock** is checked in every run: the ticker always can wake the loop, a client can
always ask for an extension, a worker always can fetch, and the loop of the process can wake (or the
process starts again).

## 4. Fairness

`FairSpec` in `WarmPoolProperties` asks for no more than the runtime gives:

* `WF_vars(LoopStep)`, `WF_vars(Serve(a))`: a goroutine that can run does run, and a call
  is answered or fails (see below). `Serve` only finishes requests that started; none ever has to start.
* `WF_vars(Trigger)`: a token in the channel stays there until the loop takes it.
* `SF_vars(Tick)`: the ticker fires for ever, and Go's `select` chooses at random
  among ready cases, so a tick is not passed over for ever even when triggers keep coming.
  Between two ticks the loop is busy, so the tick is enabled again and again
  but not continuously: weak fairness would be too little.
* `WF_vars(Elapse(i))`: time passes.

`Fairness` of `TaskQueue` asks that workers take their steps (`WF_vars(Work(w))`) and that the server's
timer fires (`WF_vars(AckWait(t))`). `LifeFairSpec` adds that `main` runs (`MainStep`), that a request
(`RequestsEnd`) and a pass (`PassEnds`) that are not stuck come to an end, and
`SF_allVars(LoopStops)`: once `stopCh` is closed every `select` of the loop finds it ready, perhaps next to a trigger, and
chooses at random. The loop may begin another pass in between, so weak fairness would be too little.
A process that is down need not come back, which is why `EveryTaskTried` speaks of a process that stays up.

`FairSpec` of `AcquireDemo` is `WF_vars(Request(a))`: a request that was started goes on. Nobody has to start one, and
time need not pass.

**Calls that are never answered.** Deadlines do not end every call. The loop's first pass and those of the
ticker run in `main`'s `context.Background()` (`impl.go:271`, `289`, `294`), only a triggered pass has 30 seconds, the Docker
client (`docker.go:38`) and the MySQL connection (`prestashop.go:36`) have no timeout, and Podman's
client does not look at the caller's context. `Lifecycle` has this case as steps, and no fairness takes a process out of
it: `LoopHangs`, `Hang(w)` of a worker and `RequestHangs`. What `ShutdownEnds` promises is that a process told to stop ends,
unless a pass of the loop is stuck: `main` then stays in `StopReplenisher` (section 6). A stuck worker is left behind after
the 10 seconds of `NATSConsumer.Stop`, a stuck request ends the process after the 30 of `Shutdown`; that these two
timers fire is `WF_allVars(MainStep)`. In `WarmPool`, `TtlExtension` and `AcquireDemo` there is no such step: `AssignedEventuallyRemoved`,
`EmptyEventuallyRefilled` and `EveryRequestAnswered` **assume that every call is answered or fails**. A loop that is stuck neither
removes nor refills anything. For `EveryRequestAnswered` the calls that others wait for, those inside the `sync.Once`, are requests to Caddy, whose client gives
up after 10 seconds; the release of an instance whose route failed may call Docker, and there it is an assumption.

Nothing is assumed of failures, of the client, or of workers.

## 5. Proofs

Of `WarmPool`'s `Spec`, for all constants that satisfy the named assumptions of
`WarmPool` and `InstanceStore` (sizes are natural numbers, process sets are disjoint,
`None` is no id, port or record) - any number of requests, workers, instances and ports, and any number of failures
of the kinds a theorem allows. The first two hold for all kinds of failure.

* **`TypeCorrect == Spec => []TypeOK`** (`WarmPoolProofs`). `TypeOK` is not inductive: a step at
  `"ttlSet"` writes `read[a]` into the store, which is a record only because the step
  before put one there. The strengthening `IndType == TypeOK /\ LocalsOK` says which
  commands need an id in `job`, a record in `inst` and a record in `read`.
  `LocalsOK` is the model's version of "no nil dereference on any path".
  One lemma per action group: calls that only move `pc`, the pop, the commands of
  `Acquire`, `Release`, `provisionInstance`, the replenisher and the environment.
* **`NoDoubleAssignmentHolds == Spec => []NoDoubleAssignment`** (`AssignmentProofs`). The property
  only speaks of the list, requests and clients. What makes it inductive is where an
  instance is *before* it is in the list: `ClaimInv` gives a claim to every request that serves an
  instance and to every provisioning process from the start of its container to the push, and says that
  a claimed id is neither in the list nor with a client and is claimed only once. So a push never
  brings in a second copy, and gives the claim up in the same step.
  New ids are `Fresh`, which is the model's form of an unused UUID;
  `PopInstance` moves the head of a list without duplicates to one request; everything
  else leaves the claims alone or drops one. Failures, contexts and restarts only ever drop claims,
  and that is why the theorem needs no assumption about them.

* **What holds under a condition** (`PoolProofs` and `PortProofs`). The condition of each theorem is about the constants
  `Failure`, `Worker`, `Deleter` and `ContainerMode`, and nothing else is assumed. It is not there for the proof: TLC violates
  each property on three or four instances and two or three ports as soon as one part of its condition is dropped.

  | Theorem | Condition | Without it |
  |---|---|---|
  | `ReadyInstancesServeHolds` | no lost command | the `RPUSH` is applied, its answer is lost, and `provisionInstance` stops the container of an id that is in the list |
  | `RouteIsolationHolds` | no lost command, no slow request, no cancelled context with Podman | `RemoveRoute` fails and `Stop` does not, or a slow request adds its route after the instance was released; the port then gets another container |
  | `HardCapHolds` | no queue worker, no lost command, no restart, no cancelled context with Docker | `ProvisionOne` looks at no counter (`docs/code-review.md`), or a container outlives its instance: it is not stopped, or the process dies before it is in the store |
  | `PortExclusiveHolds` | no `DELETE`; no lost command, slow request or restart | two releases of one instance return its port twice (`port_twice`); a slow request writes back a released record, which is released again; a `Start` whose answer is lost leaves a container on a port that is returned; after a restart `InitializePorts` takes an empty set for a fresh one |
  | `NoPortLeakHolds` | no lost command, cancelled context or restart | the deferred `ReleasePort` fails as well (`port_leak`), or the process dies between `SPOP` and the record |
  | `StateSetsExactHolds` | no lost command, cancelled context, slow request or restart | `SaveInstance` and `DeleteInstance` stop between their two commands, or a slow request writes the record of a released instance |
  | `NoZombieHolds` | no lost command, cancelled context or restart | nothing sets the expiry after the pop (`zombie`) |
  | `NoLostTriggerHolds` | no lost command, no cancelled context | the loop's own reading fails, or a request ends before its trigger |
  | `ImplementsContractHolds` | no queue worker, no slow request | a worker pushes over the target, or a slow request puts a released instance back into the assigned set |

* **`PoolInv == IndType /\ ClaimInv /\ LifeInv /\ UseInv /\ SoleInv`** (`PoolProofs`) is what all of them rest on; it is
  inductive for every kind of failure. It follows an instance from its creation to its removal:
  `LifeInv` is its time before the pop (its maker is alone with it, and nothing else refers to it, neither a route nor a
  state set of the assigned); `UseInv` its time after (its record, and every copy of it that somebody may still write
  back, is an assigned one); `SoleInv` says how long the request that popped it is alone with it, namely until it has set
  the expiry, and, if no request is slow, until the client has the answer. Each step lemma says what one
  group of commands does to the store (`MakesEffects`, `ServedEffects`, `ReleaseEffects`) and to the process
  (`MakesLocals`, `ServedLocals`, `ReleaseLocals`, `Frame`), and the invariants after it use only these.
* **State sets and expiries**: `SetsInv` adds that a process about to `DEL` a record finds its id in no set, and `ListedInv`
  that an assigned record is listed until then. `ExpiryInv` turns "a request still works on it" into "a
  request is about to set the expiry", which is what a step preserves.
* **`ImplementsContractHolds`**: every step of `WarmPool` is an `Add`, `Grant` or `Retire` of `PoolContract` or leaves list and
  assigned set alone. The hard step is `RPUSH`, because the counters were read several commands earlier: `RoomInv` says that
  from the reading to the push the list is shorter than the target and there is room below the cap, since only the replenisher adds.
* **`NoLostTriggerHolds`** (an action property): `TriggerInv` says that between `LLEN` and `SCARD` the list falls below
  what was read only by pops whose request is still on its way to the trigger or has put the token into the channel. A
  restart is harmless: the new loop begins with a pass.
* **Ports**: `PortInv` says that all copies of an instance name one port. `LeakInv` gives every port outside
  the available set an owner: a provisioning process, or an instance whose `Release` has not come to `DeleteInstance`.
  `PortExclusiveHolds` needs the converse: `HoldInv` says that no port has two owners and no available
  port has one. Its step at `ReturnPort` needs that the replenisher is the only one that gets anywhere in `Release`, that what it
  releases still exists and that its container has stopped (`SweepInv`; a request that gives up without `DELETE`s does so
  in a context that is over, so all its calls are refused), and that a failed
  provisioning leaves nothing behind (`UndoInv`).
* **Containers and routes**: `ServeInv` carries "runs on the recorded port" from the start of the container over the
  health check into the list. `RouteInv` says that a `Release` whose context is alive has removed the route before it stops the
  container. `CapInv` counts containers through the two numbers the replenisher compares: whatever runs is in the list,
  assigned or being made, and while one is on its way to be started there is room for it (`SeenInv`, `OutInv`).

* **`LimitHolds == Spec => []LimitKept`** and **`ShownNeverLaterHolds == Spec => []ShownNeverLater`**
  (`TtlProofs`, of `TtlExtension`'s `Spec`; assumed: a default TTL of at least a second and at most `MaxTTL`,
  positive extensions, disjoint sets of processes). Neither is inductive: `SyncSet` writes an expiry
  granted earlier, and the script checks against a time read earlier. `RequestsOK` says that the time a
  request holds is not in the future and that what it was granted is within the limit of now; both
  survive the passing of time. `Granted` is the lemma about the script: what `Allowed` lets
  through is within the limit, whether or not the remaining time was cut at 0.

* **`HourlyLimitHolds`, `DailyLimitHolds`, `DeniedAfterChainHolds`** (`RateLimiterProofs`, of `AcquireDemo`'s
  `Spec`, for any limits and any windows of at least a second). The properties speak of any `limit + 1` allowed requests
  of an address, the counter only of the last ones. `Tracks` says what the counter knows: its value is
  the length of the last run of requests that follow each other within the window; between that run and
  the one before it a whole window passed (that is when the key expired); and of any `limit + 1` requests the first and the last are a
  window apart. `TracksGrant` shows that the script keeps this for one counter, whether its key is alive or gone, and is used
  for the hour and for the day; `Chained` is what remains after a denial.
* **`PostMeetsServerHolds`, `ServedRoutedHolds`, `RoutedUnlessFailureHolds`** (`RoutesProofs`, of the same `Spec`). `RoutesInv` has
  four parts besides the types: one caller at most runs the function of the `Once`; whoever passes it without an
  error finds the server; hostnames in use are different from each other and from those that were
  served, so that nobody's `RemoveRoute` meets somebody else's route; and as long as nothing failed no context is done, the error
  is not set and a caller about to create the server knows that it is absent.
* **`RequestsTypeHolds`** (`RoutesProofs`) puts the three together: `RateInv` and `RoutesInv` keep the types of their variables, and that only
  hostnames are served follows from `HostsApart`.
* **`LifecycleTypeCorrect`, `SettledWhenDoneHolds`, `PortFreedLastHolds`, `NothingForgottenHolds`, `ClosedWhenQuietHolds`** (`QueueProofs`, of
  `LifeSpec`, for any tasks, workers, deliveries, failures and stops). `LifecycleRefinesQueue` shows that
  `LifeSpec` implements `TaskQueue`'s `Spec`, so the first invariants are proved of the queue alone: `TasksInHand` (a worker
  holds a task of its own consumer wherever it needs one), `DoneInv` (a worker at the k-th call of
  `CleanupHandler` has done the calls before it, or they failed, whatever the other deliveries of the task did;
  nothing is ever given back), `ForgetInv` (without failures, a delivered task is in somebody's hands, no worker hangs, and workers are
  gone when the connections are closed). `LeaveInv` is about `main`, the loop and the requests.

The invariants above were checked by TLC, as invariants of runs like `pool`, `delete`, `cancel` and `failures`, before they were proved.

**Only model-checked**: liveness (`AssignedEventuallyRemoved`, `EmptyEventuallyRefilled`, `EveryTaskTried`, `ShutdownEnds`,
`EveryRequestAnswered`), because fairness and `ENABLED` are out of the prover's reach. Every invariant, the action property and the
refinement that a run checks are also proved. That outside its condition a property fails is TLC's
result; the four findings of section 6 are the runs of it that the project keeps.

## 6. Findings

Each is a run that ends in a counterexample to something the code or its
comments say.

1. **A port is allocated twice** (`port_twice`). `Release` reads the instance once and then
   calls `ReleasePort` with what it read. A `DELETE` and `cleanupExpired` that both
   got past `GetInstance` release the port twice; if it was allocated in between, it is
   available again while a new container uses it.
2. **A failed provisioning keeps its port** (`port_leak`). The deferred `ReleasePort` runs in the
   context of `provisionInstance`. If that context's end is the failure, the port is lost.
3. **An instance without an expiry** (`zombie`). If the client goes away right after the pop,
   `SetInstanceTTL` fails, and so does the compensating `Release` in the same context. The instance
   stays assigned and `ListExpired` never finds it.
4. **A granted extension is undone** (`extension_lost`). `syncExpiresAtField` writes back the whole record
   with the expiry of its own request. If another extension was granted in between, the
   record falls back to the older expiry and `cleanupExpired` stops the container before the promised time.

Disagreements that no run shows, because they are about words and not about a state the model could reject:

* `docs/operations.md:168-173` lists the shutdown as: requests, NATS, handlers, replenisher, connections. Deferred
  calls run last to first, so the code stops the replenisher *before* the consumer (`main.go:133-145`).
* After 30 seconds `main.go:217` calls `logger.Fatal`, which ends the process and skips all deferred calls (`ShutdownForced`). An open
  stream of `demoStatus` is enough for that.
* A call of a pass to Docker or MySQL that is never answered keeps `StopReplenisher` (`impl.go:234`) waiting for ever, and with it
  the shutdown, as section 4 explains: `ShutdownEnds` excepts it. No line of the repository promises that the shutdown
  ends; `docs/operations.md:168-173` gives a limit for the handlers (10 seconds) and none for the replenisher.
* `handler.go:264` tells a client whose route failed to try again in a few moments. If what failed was the creation of Caddy's
  server, `serverInitErr` stays set and no later request of the process succeeds.
* `handler.go:235` calls the limits "per hour" and "per day", and `research/initial-research.md:243-252` sets the expiry with the first request
  only. In the code every allowed request renews both expiries, so a client that stays below the limit is
  denied after enough requests. `DeniedAfterChain` says when; `HourlyLimitKept` and `DailyLimitKept` hold all the same.

## 7. Assumptions

* Valkey, Caddy, the runtime and the database outlive the server and lose nothing. A command is
  atomic. `RemoveRoute` and `AddRoute` are one step each in `WarmPool`, and one HTTP request per
  step in `CaddyRoutes`. If Caddy starts again from its Caddyfile while the server runs, the demos' server is gone and
  the `Once` is done; that is not modelled.
* `psDB` is connected and every instance has a prefix.
* An instance's expiry passes at one point in time (`Elapse`), once. Unless `"slow"`
  is a possible failure, a request is over before the TTL of its instance is. Extension of
  the TTL is not part of `WarmPool` but of `TtlExtension`, which in turn has one instance and
  no pool.
* `TtlExtension` takes `POOL_DEFAULT_TTL <= POOL_MAX_TTL`, which `config.go` defaults to (1 h, 24 h) and
  does not enforce. The clock of the server never goes back.
* A record that `syncExpiresAtField` writes after it was deleted does appear in `TtlExtension`; no
  property forbids it, because nothing in the code says it cannot happen and nothing but `GET /{id}` reads it.
* A call cut off in flight by the end of its context is modelled as lost and then cancelled.
* `IncrementCounter`, `UpdateDomain`, `ClearCaches`, metrics and logs change nothing the
  properties look at and are left out. The goroutine that updates the gauges is cancelled at a shutdown but not
  waited for; it only reads.
* In `AcquireDemo` the hostname of an instance whose client left before the answer stays routed and is never used
  again (`FreshHost`); in the code the instance expires and its route goes with it.
* No command ever adds to `state:warming`, so its `SCARD` needs no step of its own.
* Nothing in the repository but its tests publishes tasks, although the server always consumes them.
  The consumer is not part of `WarmPool`: `Worker` there is the
  handler of one delivered provision task in its 30 s context.
* The JetStream server is modelled from how `nats.go` uses it: an `Ack` settles a task whichever of its
  deliveries it answers, a `Nak` makes one that is out for delivery available again, and a task
  delivered `MaxDeliver` times is not delivered again. Malformed messages (`Term`) are left out, as is the
  stream's `MaxAge` of a day.
* `CleanupHandler` returns nil whatever failed. `SettledWhenDone` says exactly that: of a settled cleanup, what a
  call failed on may be left (`refused`).

## 8. Plan

In this order:

1. `CleanupTask`: the cleanup workers of `TaskQueue` on `InstanceStore`, next to a provisioning that reuses the port; is
   a cleanup that is delivered twice harmless?
2. `AddToPool` whose answer is lost, and what a redelivered provision task makes of it.
3. `InitializePorts` at a restart with all ports in use.
4. Proofs: `PortExclusive` with `DELETE`s that do not meet a sweep, that is with an assumption on the behaviour and not on
   the constants; the steps of `TtlExtension`, `AcquireDemo` and `Lifecycle` mapped to the commands of `WarmPool`.

**Not modelled**: `cmd/checkpoint`, a sequential tool that is run by hand and shares nothing with the server; metrics and
logging, which no decision depends on; configuration, which is read once and is the constants here; the
middleware, which keeps nothing between two requests.
