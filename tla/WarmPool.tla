------------------------------ MODULE WarmPool ------------------------------
(***************************************************************************)
(* The warm pool of internal/pool/impl.go over the store, the container    *)
(* runtime and the proxy: concurrent API requests acquire and delete in-   *)
(* stances, one replenisher goroutine provisions new ones and removes the  *)
(* expired, and queue workers may provision on demand.                     *)
(*                                                                         *)
(* A step of a process is one command it sends (to Valkey, to Docker or    *)
(* Podman, to Caddy or to the demo database) with the local decision that  *)
(* follows the answer; pc[p] names the command that p sends next.          *)
(***************************************************************************)
EXTENDS InstanceStore, PoolStats

CONSTANTS
  Acquirer,        \* API requests POST /acquire, each served by its own goroutine
  Deleter,         \* API requests DELETE /{id}
  Worker,          \* queue workers running ProvisionOne
  Loop,            \* the replenisher goroutine
  TargetPoolSize,
  MaxPoolSize,
  ContainerMode,   \* "docker", "podman" or "podman-criu", Podman with a usable checkpoint
  Failure,         \* the kinds of failure that may happen, out of FailureKind
  MaxFailures      \* BOUND: how many of them may happen in one behaviour

FailureKind == {"lost",      \* a command fails, whether or not it took effect
                "cancel",    \* a context is cancelled or its deadline passes between two
                             \* calls (a call cut off in flight is lost, then cancelled)
                "sick",      \* a container never becomes healthy
                "slow",      \* a request outlasts the TTL of its instance (not counted)
                "restart"}   \* the server process dies and is started again

Proc == Acquirer \cup Deleter \cup Worker \cup {Loop}

ASSUME SizeAssumption == TargetPoolSize \in Nat /\ MaxPoolSize \in Nat /\ MaxFailures \in Nat
ASSUME ModeAssumption ==
  ContainerMode \in {"docker", "podman", "podman-criu"} /\ Failure \subseteq FailureKind
ASSUME ProcAssumption ==
  /\ Acquirer \cap Deleter = {} /\ Acquirer \cap Worker = {} /\ Deleter \cap Worker = {}
  /\ Loop \notin Acquirer \cup Deleter \cup Worker

VARIABLES
  running,     \* the runtime: container of instance i -> host port it is bound to
  routes,      \* the proxy: hostname of instance i -> upstream port
  tables,      \* the database: instances whose prefixed tables exist
  pc,          \* the command each process sends next
  job,         \* the instance each process works on
  inst,        \* the in-memory *domain.Instance of each process
  read,        \* the record a GET ... SET or GET ... DEL method of the store has read
  mode,        \* why the replenisher runs: first pass, trigger or ticker
  seenReady,   \* LLEN as the replenisher read it
  listed,      \* SMEMBERS state:assigned as the replenisher read it, still to GET
  expired,     \* the instances ListExpired found expired, still to release
  replenishCh, \* a token is in the buffered channel of size one
  handed,      \* instances whose acquire response reached the client
  elapsed,     \* instances whose expiry time has passed
  ctxDone,     \* processes whose context is cancelled or past its deadline
  failures     \* how many failures happened so far

outside == <<running, routes, tables>>
locals  == <<job, inst, read>>
sweep   == <<listed, expired>>
loop    == <<mode, seenReady, sweep>>
client  == <<handed, elapsed>>
vars == <<store, outside, pc, locals, loop, replenishCh, client, ctxDone, failures>>

AcquireLabel   == {"ttlGet", "ttlSet", "route", "signal", "save", "saveAdd"}
ReleaseLabel   == {"rGet", "rRoute", "rDrop", "rStop", "rUntrack", "rReturn", "dGet", "dSRem", "dDel"}
ProvisionLabel == {"alloc", "track", "restore", "start", "health", "addSet", "addIndex", "push",
                   "undoStop", "undoUntrack", "undoReturn"}
LoopLabel      == {"select", "llen", "scard", "list", "fetch", "sweep"}
Label == {"idle"} \cup AcquireLabel \cup ReleaseLabel \cup ProvisionLabel \cup LoopLabel

OutsideTypeOK ==
  /\ running \in [Id -> Port \cup {None}]
  /\ routes \in [Id -> Port \cup {None}]
  /\ tables \subseteq Id

ProcTypeOK ==
  /\ pc \in [Proc -> Label]
  /\ job \in [Proc -> Id \cup {None}]
  /\ inst \in [Proc -> Record \cup {None}]
  /\ read \in [Proc -> Record \cup {None}]
  /\ ctxDone \subseteq Proc
  /\ failures \in 0..MaxFailures

LoopTypeOK ==
  /\ mode \in {"first", "trigger", "tick"}
  /\ seenReady \in Nat
  /\ listed \subseteq Id
  /\ expired \subseteq Id
  /\ replenishCh \in BOOLEAN

ClientTypeOK == handed \subseteq Id /\ elapsed \subseteq Id

TypeOK == StoreTypeOK /\ OutsideTypeOK /\ ProcTypeOK /\ LoopTypeOK /\ ClientTypeOK

Init ==
  /\ StoreInit
  /\ running = [i \in Id |-> None]
  /\ routes = [i \in Id |-> None]
  /\ tables = {}
  /\ pc = [p \in Proc |-> IF p = Loop THEN "llen" ELSE "idle"]
  /\ job = [p \in Proc |-> None]
  /\ inst = [p \in Proc |-> None]
  /\ read = [p \in Proc |-> None]
  /\ mode = "first" /\ seenReady = 0 /\ listed = {} /\ expired = {}
  /\ replenishCh = FALSE
  /\ handed = {} /\ elapsed = {}
  /\ ctxDone = {}
  /\ failures = 0

-----------------------------------------------------------------------------
(* Calls and their failures.                                               *)

Fails(kind) == kind \in Failure /\ failures < MaxFailures /\ failures' = failures + 1

Answered(p) == p \notin ctxDone /\ UNCHANGED failures
Lost(p)     == p \notin ctxDone /\ Fails("lost")
Refused(p)  == p \in ctxDone /\ UNCHANGED failures

\* A call of p that changes store and outside by Effect: it is answered and p
\* goes on with Ok; or it fails and p goes on with Err, the effect applied or
\* not.  Once p's context is done the client library fails every call unsent.
Call(p, Effect, Ok, Err) ==
  \/ Answered(p) /\ Effect /\ Ok
  \/ Lost(p) /\ Effect /\ Err
  \/ (Lost(p) \/ Refused(p)) /\ UNCHANGED <<store, outside>> /\ Err

\* A call of the container runtime.  Docker is called in p's context; Podman in the
\* context of the connection, which never ends.
RuntimeAnswered(p) == IF ContainerMode = "docker" THEN Answered(p) ELSE UNCHANGED failures
RuntimeLost(p)     == IF ContainerMode = "docker" THEN Lost(p) ELSE Fails("lost")
RuntimeRefused(p)  == ContainerMode = "docker" /\ Refused(p)

RuntimeCall(p, Effect, Ok, Err) ==
  \/ RuntimeAnswered(p) /\ Effect /\ Ok
  \/ RuntimeLost(p) /\ Effect /\ Err
  \/ (RuntimeLost(p) \/ RuntimeRefused(p)) /\ UNCHANGED <<store, outside>> /\ Err

\* A call that only reads.
Query(p, Ok, Err) ==
  /\ UNCHANGED <<store, outside>>
  /\ \/ Answered(p) /\ Ok
     \/ (Lost(p) \/ Refused(p)) /\ Err

At(p, l) == pc[p] = l
Goto(p, l) == pc' = [pc EXCEPT ![p] = l]

\* p sends l next, and works on with what it has.
Send(p, l) == Goto(p, l) /\ UNCHANGED <<locals, ctxDone>>

\* p keeps nothing of the instance it worked on.
Drop(p) ==
  /\ job' = [job EXCEPT ![p] = None]
  /\ inst' = [inst EXCEPT ![p] = None]
  /\ read' = [read EXCEPT ![p] = None]

\* A request or a task is over, and its context with it.
End(p) == Goto(p, "idle") /\ Drop(p) /\ ctxDone' = ctxDone \ {p}

-----------------------------------------------------------------------------
(* Acquire, and the rest of acquireDemo after it.                          *)

AcquireFromPool(a) ==
  /\ At(a, "idle")
  /\ \/ (PopNothing \/ PopGhost) /\ UNCHANGED <<pc, locals, ctxDone, failures>>
     \/ /\ PopInstance /\ Answered(a)
        /\ Goto(a, "ttlGet")
        /\ job' = [job EXCEPT ![a] = Head(poolReady)]
        /\ inst' = [inst EXCEPT ![a] = Assigned(record[Head(poolReady)])]
        /\ UNCHANGED <<read, ctxDone>>
     \/ PopInstance /\ Lost(a) /\ UNCHANGED <<pc, locals, ctxDone>>
  /\ UNCHANGED <<outside, loop, replenishCh, client>>

\* SetInstanceTTL reads the record ...
GetForTTL(a) ==
  /\ At(a, "ttlGet")
  /\ Query(a, IF record[job[a]] = None
              THEN Send(a, "rGet")
              ELSE /\ Goto(a, "ttlSet")
                   /\ read' = [read EXCEPT ![a] = record[job[a]]]
                   /\ UNCHANGED <<job, inst, ctxDone>>,
              Send(a, "rGet"))
  /\ UNCHANGED <<loop, replenishCh, client>>

\* Mutant of SetTTL: the in-memory instance keeps no expiry, and SaveUserIP loses it again.
SetTTLInStoreOnly(a) ==
  /\ At(a, "ttlSet")
  /\ Call(a, Set(job[a], [read[a] EXCEPT !.expires = TRUE]) /\ UNCHANGED outside,
          Send(a, "route"), Send(a, "rGet"))
  /\ UNCHANGED <<loop, replenishCh, client>>

\* ... and writes it back with an expiry; Acquire then sets the same expiry in memory.
SetTTL(a) ==
  /\ At(a, "ttlSet")
  /\ Call(a, Set(job[a], [read[a] EXCEPT !.expires = TRUE]) /\ UNCHANGED outside,
          /\ Goto(a, "route")
          /\ inst' = [inst EXCEPT ![a] = [@ EXCEPT !.expires = TRUE]]
          /\ UNCHANGED <<job, read, ctxDone>>,
          Send(a, "rGet"))
  /\ UNCHANGED <<loop, replenishCh, client>>

AddRoute(a) ==
  /\ At(a, "route")
  /\ Call(a, routes' = [routes EXCEPT ![job[a]] = inst[a].port] /\ UNCHANGED <<store, running, tables>>,
          Send(a, "signal"), Send(a, "rGet"))
  /\ UNCHANGED <<loop, replenishCh, client>>

\* Mutant of Signal: an unbuffered channel, the send only meets a waiting select.
SignalUnbuffered(a) ==
  /\ At(a, "signal")
  /\ replenishCh' = (replenishCh \/ At(Loop, "select"))
  /\ Send(a, "save")
  /\ UNCHANGED <<store, outside, loop, client, failures>>

\* The send that never blocks: a token already in the channel stands for both.
Signal(a) ==
  /\ At(a, "signal")
  /\ replenishCh' = TRUE
  /\ Send(a, "save")
  /\ UNCHANGED <<store, outside, loop, client, failures>>

\* The response is written; a client that went away never learns the id.
Respond(a) ==
  /\ handed' = IF a \in ctxDone THEN handed ELSE handed \cup {job[a]}
  /\ End(a)
  /\ UNCHANGED elapsed

\* SaveInstance with the user's address, its first command ...
SaveUserIP(a) ==
  /\ At(a, "save")
  /\ Call(a, Set(job[a], inst[a]) /\ UNCHANGED outside,
          Send(a, "saveAdd") /\ UNCHANGED client, Respond(a))
  /\ UNCHANGED <<loop, replenishCh>>

\* ... and its second; a failure of either is only logged.
SaveUserIPIndex(a) ==
  /\ At(a, "saveAdd")
  /\ Call(a, SAddState(inst[a].state, job[a]) /\ UNCHANGED outside, Respond(a), Respond(a))
  /\ UNCHANGED <<loop, replenishCh>>

Acquire(a) ==
  \/ AcquireFromPool(a) \/ GetForTTL(a) \/ SetTTL(a) \/ AddRoute(a) \/ Signal(a)
  \/ SaveUserIP(a) \/ SaveUserIPIndex(a)

-----------------------------------------------------------------------------
(* Release: called by a DELETE request, by Acquire when it must give up,   *)
(* and by the replenisher for every expired instance.                      *)

\* releaseDemo has checked that the instance exists.
Delete(d) ==
  /\ At(d, "idle")
  /\ \E i \in handed : record[i] # None /\ job' = [job EXCEPT ![d] = i]
  /\ Goto(d, "rGet")
  /\ UNCHANGED <<store, outside, inst, read, loop, replenishCh, client, ctxDone, failures>>

Released(p) ==
  IF p = Loop THEN Goto(p, "sweep") /\ Drop(p) /\ UNCHANGED ctxDone ELSE End(p)

\* A step of Release that goes on in the same way after success and failure.
Attempt(p, Effect, l) == Call(p, Effect, Send(p, l), Send(p, l))

\* Mutant of GetForRelease: Release does not remove the route.
GetForReleaseKeepRoute(p) ==
  /\ At(p, "rGet")
  /\ Query(p, IF record[job[p]] = None
              THEN Released(p)
              ELSE /\ Goto(p, "rDrop")
                   /\ inst' = [inst EXCEPT ![p] = record[job[p]]]
                   /\ UNCHANGED <<job, read, ctxDone>>,
              Released(p))

GetForRelease(p) ==
  /\ At(p, "rGet")
  /\ Query(p, IF record[job[p]] = None
              THEN Released(p)
              ELSE /\ Goto(p, "rRoute")
                   /\ inst' = [inst EXCEPT ![p] = record[job[p]]]
                   /\ UNCHANGED <<job, read, ctxDone>>,
              Released(p))

RemoveRoute(p) ==
  /\ At(p, "rRoute")
  /\ Attempt(p, routes' = [routes EXCEPT ![job[p]] = None] /\ UNCHANGED <<store, running, tables>>,
             "rDrop")

DropPrefixedTables(p) ==
  /\ At(p, "rDrop")
  /\ Attempt(p, tables' = tables \ {job[p]} /\ UNCHANGED <<store, running, routes>>, "rStop")

StopContainer(i) == running' = [running EXCEPT ![i] = None] /\ UNCHANGED <<store, routes, tables>>

Stop(p) ==
  At(p, "rStop") /\ RuntimeCall(p, StopContainer(job[p]), Send(p, "rUntrack"), Send(p, "rUntrack"))

\* ReleasePort, both commands; Release only logs a failure of either.
UntrackPort(p) ==
  /\ At(p, "rUntrack")
  /\ Call(p, SUntrackPort(inst[p].port) /\ UNCHANGED outside, Send(p, "rReturn"), Send(p, "dGet"))

ReturnPort(p) ==
  /\ At(p, "rReturn")
  /\ Attempt(p, SReturnPort(inst[p].port) /\ UNCHANGED outside, "dGet")

\* DeleteInstance: the record is read once more for its state.
GetForDelete(p) ==
  /\ At(p, "dGet")
  /\ Query(p, IF record[job[p]] = None
              THEN Released(p)
              ELSE /\ Goto(p, "dSRem")
                   /\ read' = [read EXCEPT ![p] = record[job[p]]]
                   /\ UNCHANGED <<job, inst, ctxDone>>,
              Released(p))

RemoveFromStateSet(p) ==
  /\ At(p, "dSRem")
  /\ Call(p, SRemState(read[p].state, job[p]) /\ UNCHANGED outside, Send(p, "dDel"), Released(p))

DeleteRecord(p) ==
  /\ At(p, "dDel")
  /\ Call(p, Del(job[p]) /\ UNCHANGED outside, Released(p), Released(p))

Release(p) ==
  /\ \/ GetForRelease(p) \/ RemoveRoute(p) \/ DropPrefixedTables(p) \/ Stop(p)
     \/ UntrackPort(p) \/ ReturnPort(p)
     \/ GetForDelete(p) \/ RemoveFromStateSet(p) \/ DeleteRecord(p)
  /\ UNCHANGED <<loop, replenishCh, client>>

-----------------------------------------------------------------------------
(* provisionInstance: run by the replenisher and by the queue workers.     *)

\* TriggerReplenish returns; a tick goes on to the expired instances.
Replenished ==
  /\ Goto(Loop, IF mode = "tick" THEN "list" ELSE "select")
  /\ Drop(Loop)
  /\ seenReady' = 0
  /\ ctxDone' = ctxDone \ {Loop}
  /\ UNCHANGED <<mode, sweep>>

ProvisionFailed(p) == IF p = Loop THEN Replenished ELSE End(p) /\ UNCHANGED loop

\* TriggerReplenish looks at the counters again after every instance it adds.
Provisioned(p) ==
  /\ IF p = Loop THEN Goto(p, "llen") /\ Drop(p) /\ UNCHANGED ctxDone ELSE End(p)
  /\ UNCHANGED loop

Resume(p, l) == Send(p, l) /\ UNCHANGED loop

ProvisionOne(w) ==
  /\ At(w, "idle")
  /\ Resume(w, "alloc")
  /\ UNCHANGED <<store, outside, replenishCh, client, failures>>

\* The instance that is being made: its port is known first.
Warming(n) == [state |-> "warming", port |-> n, expires |-> FALSE]

AllocatePort(p) ==
  /\ At(p, "alloc")
  /\ \/ portsAvailable = {} /\ Query(p, ProvisionFailed(p), ProvisionFailed(p))
     \/ \E n \in portsAvailable :
          Call(p, SPopPort(n) /\ UNCHANGED outside,
               /\ Goto(p, "track")
               /\ inst' = [inst EXCEPT ![p] = Warming(n)]
               /\ UNCHANGED <<job, read, ctxDone, loop>>,
               ProvisionFailed(p))
  /\ UNCHANGED <<replenishCh, client>>

\* AllocatePort's second command.  The deferred release is not registered yet.
TrackPort(p) ==
  /\ At(p, "track")
  /\ Call(p, STrackPort(inst[p].port) /\ UNCHANGED outside,
          Resume(p, IF ContainerMode = "podman-criu" THEN "restore" ELSE "start"), ProvisionFailed(p))
  /\ UNCHANGED <<replenishCh, client>>

\* No trace of i is left anywhere: it can stand for a newly generated identifier.
Fresh(i) ==
  /\ record[i] = None /\ i \notin Elements(poolReady)
  /\ \A s \in State : i \notin stateSet[s]
  /\ running[i] = None /\ routes[i] = None /\ i \notin tables
  /\ \A p \in Proc : job[p] # i
  /\ i \notin listed \cup expired

PortBound(n) == \E i \in Id : running[i] = n

\* The runtime starts a container on a host port that is not bound, and the
\* shop creates its tables.  What was known of the old bearer of i is void.
Boot(i, n) ==
  /\ Fresh(i) /\ ~PortBound(n)
  /\ running' = [running EXCEPT ![i] = n]
  /\ tables' = tables \cup {i}
  /\ handed' = handed \ {i} /\ elapsed' = elapsed \ {i}
  /\ UNCHANGED <<store, routes>>

\* Start or RestoreFromCheckpoint of p; errLabel is where p goes when it fails.
StartContainer(p, errLabel) ==
  /\ \/ \E i \in Id :
          /\ Boot(i, inst[p].port)
          /\ \/ /\ RuntimeAnswered(p)
                /\ job' = [job EXCEPT ![p] = i]
                /\ Goto(p, "health")
                /\ UNCHANGED <<inst, read, ctxDone>>
             \/ RuntimeLost(p) /\ Send(p, errLabel)
     \/ /\ \/ RuntimeLost(p) \/ RuntimeRefused(p)
           \/ PortBound(inst[p].port) /\ RuntimeAnswered(p)
        /\ Send(p, errLabel)
        /\ UNCHANGED <<store, outside, client>>
  /\ UNCHANGED <<loop, replenishCh>>

RestoreFromCheckpoint(p) == At(p, "restore") /\ StartContainer(p, "start")
Start(p) == At(p, "start") /\ StartContainer(p, "undoUntrack")

\* The polls of waitForReady, up to the one that decides.
WaitForReady(p) ==
  /\ At(p, "health")
  /\ \/ Answered(p) /\ Resume(p, "addSet")
     \/ p \notin ctxDone /\ Fails("sick") /\ Resume(p, "undoStop")
     \/ Refused(p) /\ Resume(p, "undoStop")
  /\ UNCHANGED <<store, outside, replenishCh, client>>

\* Mutant of AddRecord: the state is not set to ready.
AddRecordWarming(p) ==
  /\ At(p, "addSet")
  /\ Call(p, Set(job[p], inst[p]) /\ UNCHANGED outside,
          Resume(p, "addIndex"), Resume(p, "undoStop"))
  /\ UNCHANGED <<replenishCh, client>>

\* AddToPool: the record, the state set, then the list.
AddRecord(p) ==
  LET ready == [inst[p] EXCEPT !.state = "ready"] IN
  /\ At(p, "addSet")
  /\ Call(p, Set(job[p], ready) /\ UNCHANGED outside,
          /\ Goto(p, "addIndex")
          /\ inst' = [inst EXCEPT ![p] = ready]
          /\ UNCHANGED <<job, read, ctxDone, loop>>,
          Resume(p, "undoStop"))
  /\ UNCHANGED <<replenishCh, client>>

AddToStateSet(p) ==
  /\ At(p, "addIndex")
  /\ Call(p, SAddState(inst[p].state, job[p]) /\ UNCHANGED outside,
          Resume(p, "push"), Resume(p, "undoStop"))
  /\ UNCHANGED <<replenishCh, client>>

PushReady(p) ==
  /\ At(p, "push")
  /\ Call(p, RPush(job[p]) /\ UNCHANGED outside, Provisioned(p), Resume(p, "undoStop"))
  /\ UNCHANGED <<replenishCh, client>>

\* Mutant of UndoStop: no deferred ReleasePort.
UndoStopOnly(p) ==
  /\ At(p, "undoStop")
  /\ RuntimeCall(p, StopContainer(job[p]), ProvisionFailed(p), ProvisionFailed(p))
  /\ UNCHANGED <<replenishCh, client>>

\* The way back: stop the container, then the deferred ReleasePort, in p's context.
UndoStop(p) ==
  /\ At(p, "undoStop")
  /\ RuntimeCall(p, StopContainer(job[p]), Send(p, "undoUntrack"), Send(p, "undoUntrack"))
  /\ UNCHANGED <<loop, replenishCh, client>>

UndoUntrackPort(p) ==
  /\ At(p, "undoUntrack")
  /\ Call(p, SUntrackPort(inst[p].port) /\ UNCHANGED outside,
          Resume(p, "undoReturn"), ProvisionFailed(p))
  /\ UNCHANGED <<replenishCh, client>>

UndoReturnPort(p) ==
  /\ At(p, "undoReturn")
  /\ Call(p, SReturnPort(inst[p].port) /\ UNCHANGED outside,
          ProvisionFailed(p), ProvisionFailed(p))
  /\ UNCHANGED <<replenishCh, client>>

ProvisionInstance(p) ==
  \/ AllocatePort(p) \/ TrackPort(p) \/ RestoreFromCheckpoint(p) \/ Start(p) \/ WaitForReady(p)
  \/ AddRecord(p) \/ AddToStateSet(p) \/ PushReady(p)
  \/ UndoStop(p) \/ UndoUntrackPort(p) \/ UndoReturnPort(p)

-----------------------------------------------------------------------------
(* The replenisher goroutine.                                              *)

\* The two cases of the select that lead to work.
Wake(m) ==
  /\ At(Loop, "select")
  /\ Send(Loop, "llen")
  /\ mode' = m
  /\ UNCHANGED <<store, outside, seenReady, sweep, client, failures>>

Trigger == replenishCh /\ replenishCh' = FALSE /\ Wake("trigger")
Tick == Wake("tick") /\ UNCHANGED replenishCh

\* GetPoolStats counts the ready list first ...
ReadReady ==
  /\ At(Loop, "llen")
  /\ Query(Loop,
           Send(Loop, "scard") /\ seenReady' = Len(poolReady) /\ UNCHANGED <<mode, sweep>>,
           Replenished)
  /\ UNCHANGED <<replenishCh, client>>

\* What GetPoolStats returns when its last reads happen now.
Seen == [ready |-> seenReady, assigned |-> Cardinality(stateSet["assigned"]),
         warming |-> Cardinality(stateSet["warming"]),
         target |-> TargetPoolSize, capacity |-> MaxPoolSize]

\* ... and the assigned and warming sets later (no command ever adds to the
\* warming set, so its own read needs no step).  Then the pass ends, or provisions.
ReadAssigned ==
  /\ At(Loop, "scard")
  /\ Query(Loop, IF ReplenishmentNeeded(Seen) = 0 THEN Replenished ELSE Resume(Loop, "alloc"),
           Replenished)
  /\ UNCHANGED <<replenishCh, client>>

Rest == Send(Loop, "select") /\ listed' = {} /\ expired' = {}

\* ListExpired: SMEMBERS of the assigned set ...
ListAssigned ==
  /\ At(Loop, "list")
  /\ Query(Loop, Send(Loop, "fetch") /\ listed' = stateSet["assigned"] /\ UNCHANGED expired, Rest)
  /\ UNCHANGED <<mode, seenReady, replenishCh, client>>

\* Mutant of IsExpired: waits for a state that nothing ever sets.
IsExpiredByState(i) == record[i].state = "warming" /\ i \in elapsed

IsExpired(i) == record[i].expires /\ i \in elapsed

\* ... and a GET of every member; a member that is gone is skipped.
FetchAssigned ==
  /\ At(Loop, "fetch")
  /\ \E i \in listed :
       Query(Loop,
             /\ listed' = listed \ {i}
             /\ expired' = IF record[i] # None /\ IsExpired(i) THEN expired \cup {i} ELSE expired
             /\ Send(Loop, IF listed = {i} THEN "sweep" ELSE "fetch"),
             Rest)
  /\ UNCHANGED <<mode, seenReady, replenishCh, client>>

\* cleanupExpired releases what it listed, one after the other, then rests.
Sweep ==
  /\ At(Loop, "sweep") \/ (At(Loop, "fetch") /\ listed = {})
  /\ \/ \E i \in expired :
          /\ expired' = expired \ {i}
          /\ job' = [job EXCEPT ![Loop] = i]
          /\ Goto(Loop, "rGet")
          /\ UNCHANGED <<listed, inst, read, ctxDone>>
     \/ expired = {} /\ Rest
  /\ UNCHANGED <<store, outside, mode, seenReady, replenishCh, client, failures>>

Replenisher ==
  \/ Trigger \/ Tick \/ ReadReady \/ ReadAssigned \/ ProvisionInstance(Loop)
  \/ ListAssigned \/ FetchAssigned \/ Sweep \/ Release(Loop)

-----------------------------------------------------------------------------
(* The environment: time and failures.                                     *)

\* The expiry time of i passes; unless requests may be slow, not before the
\* request that acquired i is over.
Elapse(i) ==
  /\ record[i] # None /\ record[i].expires /\ i \notin elapsed
  /\ "slow" \in Failure \/ \A a \in Acquirer : job[a] # i
  /\ elapsed' = elapsed \cup {i}
  /\ UNCHANGED <<store, outside, pc, locals, loop, replenishCh, handed, ctxDone, failures>>

\* The client of a request goes away, the 30 s of a queue task or of a
\* triggered pass are over.  The other passes run in the background context.
HasDeadline(p) ==
  IF p = Loop
  THEN mode = "trigger" /\ pc[p] \in {"llen", "scard"} \cup ProvisionLabel
  ELSE ~At(p, "idle")

Cancel(p) ==
  /\ HasDeadline(p) /\ p \notin ctxDone
  /\ Fails("cancel")
  /\ ctxDone' = ctxDone \cup {p}
  /\ UNCHANGED <<store, outside, pc, locals, loop, replenishCh, client>>

\* InitializePorts of the new process sees whether any port is available.
InitializePorts ==
  /\ portsAvailable' = IF portsAvailable = {} THEN Port ELSE portsAvailable
  /\ UNCHANGED <<record, poolReady, stateSet, portsInUse>>

\* The process dies at any point and main runs again.
Restart ==
  /\ Fails("restart")
  /\ InitializePorts
  /\ pc' = [p \in Proc |-> IF p = Loop THEN "llen" ELSE "idle"]
  /\ job' = [p \in Proc |-> None]
  /\ inst' = [p \in Proc |-> None]
  /\ read' = [p \in Proc |-> None]
  /\ mode' = "first" /\ seenReady' = 0 /\ listed' = {} /\ expired' = {}
  /\ replenishCh' = FALSE
  /\ ctxDone' = {}
  /\ UNCHANGED <<outside, client>>

-----------------------------------------------------------------------------
Next ==
  \/ \E a \in Acquirer : Acquire(a) \/ Release(a)
  \/ \E d \in Deleter : Delete(d) \/ Release(d)
  \/ \E w \in Worker : ProvisionOne(w) \/ ProvisionInstance(w)
  \/ Replenisher
  \/ \E i \in Id : Elapse(i)
  \/ \E p \in Proc : Cancel(p)
  \/ Restart

Spec == Init /\ [][Next]_vars

=============================================================================
