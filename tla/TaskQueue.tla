----------------------------- MODULE TaskQueue -----------------------------
(***************************************************************************)
(* The NATS consumer: workers fetch tasks from two durable consumers of    *)
(* one stream, run the handler, and acknowledge or refuse.  The server     *)
(* delivers a task again when no answer came within AckWait, which is      *)
(* also the handler's own deadline.                                        *)
(*                                                                         *)
(* Provisioning is one step here (WarmPool has its commands), and so is    *)
(* every call of CleanupHandler.  What a cleanup task names is a set of    *)
(* resources, and the property of interest is which of them are left.      *)
(***************************************************************************)
EXTENDS Naturals, FiniteSets, Sequences

CONSTANTS
  Provision, Cleanup,                \* tasks, by subject
  ProvisionWorker, CleanupWorker,    \* goroutines, WorkerCount of each
  None,                              \* no task
  MaxDeliver,                        \* of both consumers (5 and 3 in the code)
  MaxFailures,                       \* BOUND: panics, lost answers, failed calls, hung calls, crashes
  MaxStops                           \* BOUND: orderly shutdowns

Task == Provision \cup Cleanup
Worker == ProvisionWorker \cup CleanupWorker

ASSUME QueueAssumption ==
  /\ Provision \cap Cleanup = {} /\ ProvisionWorker \cap CleanupWorker = {}
  /\ None \notin Task
  /\ MaxDeliver \in Nat \ {0} /\ MaxFailures \in Nat /\ MaxStops \in Nat
  /\ IsFiniteSet(Task) /\ IsFiniteSet(Worker)

\* Mutant of Teardown: the port is released with the container, before the route.
TeardownPortFirst == <<"container", "tables", "port", "route", "record">>

\* What a cleanup task names, in the order CleanupHandler gives it up.
Teardown == <<"container", "tables", "route", "port", "record">>
Resource == {Teardown[k] : k \in 1..5}

VARIABLES
  message,      \* what the stream knows of a task
  deliveries,   \* how often a task was delivered
  process,      \* the server process: "up"; "stopping": stopCh is closed; "closing": the
                \* connections are closed one after the other; "down"
  pc,           \* where each worker is
  job,          \* the task each worker holds
  made,         \* provision tasks whose handler succeeded
  held,         \* what is left of the instance of each cleanup task
  refused,      \* kept for a property: the calls of CleanupHandler that failed
  failures,     \* for MaxFailures
  stops         \* for MaxStops

stream == <<message, deliveries>>
world == <<made, held, refused>>
bounds == <<failures, stops>>
vars == <<stream, process, pc, job, world, bounds>>

Status == {"unpublished", "waiting", "delivered", "settled"}
Label == {"fetch", "fetched", "provision", "ack", "nak", "hung", "exited"} \cup Resource

QueueTypeOK ==
  /\ message \in [Task -> Status]
  /\ deliveries \in [Task -> 0..MaxDeliver]
  /\ process \in {"up", "stopping", "closing", "down"}
  /\ pc \in [Worker -> Label]
  /\ job \in [Worker -> Task \cup {None}]
  /\ made \subseteq Provision
  /\ held \in [Cleanup -> SUBSET Resource]
  /\ refused \in [Cleanup -> SUBSET Resource]
  /\ failures \in 0..MaxFailures /\ stops \in 0..MaxStops

Init ==
  /\ message = [t \in Task |-> "unpublished"]
  /\ deliveries = [t \in Task |-> 0]
  /\ process = "up"
  /\ pc = [w \in Worker |-> "fetch"]
  /\ job = [w \in Worker |-> None]
  /\ made = {}
  /\ held = [t \in Cleanup |-> Resource]
  /\ refused = [t \in Cleanup |-> {}]
  /\ failures = 0 /\ stops = 0

Goto(w, l) == pc' = [pc EXCEPT ![w] = l]
Take(w, t) == job' = [job EXCEPT ![w] = t]
Fail == failures < MaxFailures /\ failures' = failures + 1 /\ UNCHANGED stops

\* The workers see that stopCh is closed.
Stopping == process \in {"stopping", "closing"}

\* A call fails: when something went wrong, and at any time once its connection may be closed.
CallFails == Fail \/ (process = "closing" /\ UNCHANGED bounds)

\* The tasks a worker's consumer filters for, and the workers that share it.
Filter(w) == IF w \in ProvisionWorker THEN Provision ELSE Cleanup
Peers(w) == IF w \in ProvisionWorker THEN ProvisionWorker ELSE CleanupWorker

-----------------------------------------------------------------------------
(* The stream.                                                             *)

\* BOUND: all tasks of a behaviour have the subject of t, as the two consumers share
\* nothing but the process.
OneSubject(t) ==
  \A u \in Task : message[u] # "unpublished" => (u \in Provision <=> t \in Provision)

\* The first publication; one with the same MsgID again is dropped by the stream.
Publish(t) ==
  /\ message[t] = "unpublished" /\ OneSubject(t)
  /\ message' = [message EXCEPT ![t] = "waiting"]
  /\ UNCHANGED <<deliveries, process, pc, job, world, bounds>>

\* Mutant of Deliverable: a consumer without MaxDeliver.
DeliverableForEver(w) ==
  IF Cardinality({t \in Filter(w) : message[t] = "delivered"}) < 2 * Cardinality(Peers(w))
  THEN {t \in Filter(w) : message[t] = "waiting"}
  ELSE {}

\* MaxDeliver and MaxAckPending (WorkerCount * 2) of the durable consumer.
Deliverable(w) ==
  IF Cardinality({t \in Filter(w) : message[t] = "delivered"}) < 2 * Cardinality(Peers(w))
  THEN {t \in Filter(w) : message[t] = "waiting" /\ deliveries[t] < MaxDeliver}
  ELSE {}

\* No answer within AckWait, whether or not a worker still works on the task.
AckWait(t) ==
  /\ message[t] = "delivered"
  /\ message' = [message EXCEPT ![t] = "waiting"]
  /\ UNCHANGED <<deliveries, process, pc, job, world, bounds>>

\* An answer counts whichever delivery of the task it belongs to; none counts after an Ack.
Acked(t) == message' = [message EXCEPT ![t] = "settled"]

\* Mutant of Naked: Term, as for a malformed task.
Termed(t) == message' = [message EXCEPT ![t] = "settled"]

Naked(t) == message' = [message EXCEPT ![t] = IF @ = "delivered" THEN "waiting" ELSE @]

-----------------------------------------------------------------------------
(* A worker.                                                               *)

\* The select at the top of the loop: a worker that is done with a task fetches the next
\* one, unless stopCh is closed.
Turn == IF Stopping THEN "exited" ELSE "fetch"

\* Fetch returns a task, and may do so after stopCh was closed ...
Fetch(w) ==
  /\ pc[w] = "fetch" /\ process # "down"
  /\ \E t \in Deliverable(w) :
       /\ message' = [message EXCEPT ![t] = "delivered"]
       /\ deliveries' = [deliveries EXCEPT ![t] = @ + 1]
       /\ Take(w, t)
  /\ Goto(w, "fetched")
  /\ UNCHANGED <<process, world, bounds>>

\* ... or, after 5 seconds, nothing; then the loop ends or fetches again.
FetchNothing(w) ==
  /\ pc[w] = "fetch" /\ process # "down"
  /\ Stopping \/ Deliverable(w) = {}
  /\ Goto(w, Turn)
  /\ UNCHANGED <<stream, process, job, world, bounds>>

\* Mutant of StopSignal: the worker leaves without an answer.
StopSignalSilent(w) ==
  /\ pc[w] = "fetched" /\ Stopping
  /\ Take(w, None) /\ Goto(w, "exited")
  /\ UNCHANGED <<stream, process, world, bounds>>

\* stopCh was closed while the task was on its way: it is refused, and the worker leaves.
StopSignal(w) ==
  /\ pc[w] = "fetched" /\ Stopping
  /\ Naked(job[w])
  /\ Take(w, None) /\ Goto(w, "exited")
  /\ UNCHANGED <<deliveries, process, world, bounds>>

Process(w) ==
  /\ pc[w] = "fetched" /\ process = "up"
  /\ Goto(w, IF w \in ProvisionWorker THEN "provision" ELSE Teardown[1])
  /\ UNCHANGED <<stream, process, job, world, bounds>>

\* ProvisionHandler: ProvisionOne adds an instance ...
ProvisionHandler(w) ==
  /\ pc[w] = "provision"
  /\ made' = made \cup {job[w]}
  /\ Goto(w, "ack")
  /\ UNCHANGED <<stream, process, job, held, refused, bounds>>

\* ... or fails, as often as it likes.
ProvisionHandlerFails(w) ==
  /\ pc[w] = "provision"
  /\ Goto(w, "nak")
  /\ UNCHANGED <<stream, process, job, world, bounds>>

\* CleanupHandler goes on to the next call; after the last it returns nil.
AfterCall(k) == IF k = Len(Teardown) THEN "ack" ELSE Teardown[k + 1]

\* One call of CleanupHandler, which leaves nothing of its resource ...
CleanupHandler(w) ==
  \E k \in DOMAIN Teardown :
    /\ pc[w] = Teardown[k]
    /\ held' = [held EXCEPT ![job[w]] = @ \ {Teardown[k]}]
    /\ Goto(w, AfterCall(k))
    /\ UNCHANGED <<stream, process, job, made, refused, bounds>>

\* ... or fails, which is only logged.
CleanupHandlerWarns(w) ==
  \E k \in DOMAIN Teardown :
    /\ pc[w] = Teardown[k] /\ CallFails
    /\ refused' = [refused EXCEPT ![job[w]] = @ \cup {Teardown[k]}]
    /\ Goto(w, AfterCall(k))
    /\ UNCHANGED <<stream, process, job, made, held>>

Ack(w) ==
  /\ pc[w] = "ack" /\ Acked(job[w])
  /\ Take(w, None) /\ Goto(w, Turn)
  /\ UNCHANGED <<deliveries, process, world, bounds>>

\* Mutant of Nak: the worker ends with its task.
NakExit(w) ==
  /\ pc[w] = "nak" /\ Naked(job[w])
  /\ Take(w, None) /\ Goto(w, "exited")
  /\ UNCHANGED <<deliveries, process, world, bounds>>

Nak(w) ==
  /\ pc[w] = "nak" /\ Naked(job[w])
  /\ Take(w, None) /\ Goto(w, Turn)
  /\ UNCHANGED <<deliveries, process, world, bounds>>

\* The error of Ack and Nak is ignored.
AnswerLost(w) ==
  /\ pc[w] \in {"ack", "nak"} /\ CallFails
  /\ Take(w, None) /\ Goto(w, Turn)
  /\ UNCHANGED <<stream, process, world>>

\* A handler panics: recover() ends the goroutine, and nobody starts another.
Panic(w) ==
  /\ pc[w] \in Resource \cup {"provision"} /\ Fail
  /\ Take(w, None) /\ Goto(w, "exited")
  /\ UNCHANGED <<stream, process, world>>

\* A call is never answered, and its deadline does not reach the client (Podman's takes the
\* context of its own connection).
Hang(w) ==
  /\ pc[w] \in Resource \cup {"provision"} /\ Fail
  /\ Goto(w, "hung")
  /\ UNCHANGED <<stream, process, job, world>>

Work(w) ==
  \/ Fetch(w) \/ FetchNothing(w) \/ StopSignal(w) \/ Process(w)
  \/ ProvisionHandler(w) \/ ProvisionHandlerFails(w)
  \/ CleanupHandler(w) \/ CleanupHandlerWarns(w) \/ Ack(w) \/ Nak(w)

-----------------------------------------------------------------------------
(* The process.                                                            *)

Gone == pc' = [w \in Worker |-> "exited"] /\ job' = [w \in Worker |-> None]

\* Stop closes stopCh ...
Stop ==
  /\ process = "up" /\ stops < MaxStops
  /\ process' = "stopping" /\ stops' = stops + 1
  /\ UNCHANGED <<stream, pc, job, world, failures>>

\* ... waits for the workers, but not longer than 10 seconds, which are over in the end when
\* one hangs and may be before a slow one is done, and drains the connection ...
Stopped ==
  /\ process = "stopping" /\ process' = "closing"
  /\ \/ (\A w \in Worker : pc[w] \in {"exited", "hung"}) /\ UNCHANGED bounds
     \/ Fail
  /\ UNCHANGED <<stream, pc, job, world>>

\* ... and when main has closed the other connections the process ends, with the workers that
\* are still there ...
Exit ==
  /\ process = "closing"
  /\ process' = "down" /\ Gone
  /\ UNCHANGED <<stream, world, bounds>>

\* ... as it does in a crash ...
Die ==
  /\ process # "down" /\ Fail
  /\ process' = "down" /\ Gone
  /\ UNCHANGED <<stream, world>>

\* ... and when main gives up, because of something that went wrong before (logger.Fatal).
Abort ==
  /\ process = "up" /\ failures # 0
  /\ process' = "down" /\ Gone
  /\ UNCHANGED <<stream, world, bounds>>

\* Something goes wrong in another part of the process.
Elsewhere == process # "down" /\ Fail /\ UNCHANGED <<stream, process, pc, job, world>>

\* Start, in a new process.
Start ==
  /\ process = "down"
  /\ process' = "up"
  /\ pc' = [w \in Worker |-> "fetch"]
  /\ UNCHANGED <<stream, job, world, bounds>>

Next ==
  \/ \E t \in Task : Publish(t) \/ AckWait(t)
  \/ \E w \in Worker : Work(w) \/ AnswerLost(w) \/ Panic(w) \/ Hang(w)
  \/ Stop \/ Stopped \/ Exit \/ Die \/ Elsewhere \/ Abort \/ Start

Spec == Init /\ [][Next]_vars

\* Goroutines run, calls are answered or fail unless they hang, and the server's timer fires.
Fairness ==
  /\ \A w \in Worker : WF_vars(Work(w))
  /\ \A t \in Task : WF_vars(AckWait(t))

-----------------------------------------------------------------------------
\* A task leaves the stream only when it is done: an instance was provisioned, or nothing
\* is left of the instance but what some call failed on, although the delivery that is
\* acknowledged may not be the one that did the work and workers may have died in the
\* middle of it (processProvisionMessage, CleanupHandler).
SettledWhenDone ==
  \A t \in Task : message[t] = "settled" =>
    IF t \in Provision THEN t \in made ELSE held[t] \subseteq refused[t]

\* A cleanup task gives the port away when nothing of the instance can use it any more but what a
\* call failed to remove, although two workers may be at work on the task at once and a
\* third may have died half way (CleanupHandler).
PortFreedLast ==
  \A t \in Cleanup :
    "port" \notin held[t] => held[t] \cap {"container", "route"} \subseteq refused[t]

\* As long as nothing went wrong, a task that is out for delivery is in some worker's
\* hands: whoever lets go of one, at a shutdown too, answers it (runProvisionWorker).
NothingForgotten ==
  failures = 0 =>
    \A t \in Task : message[t] = "delivered" => \E w \in Worker : job[w] = t

\* While the process is up, every published task is settled in the end or has been
\* delivered as often as the consumer allows, also when a handler panics or an answer is
\* lost (AckWait, MaxDeliver, the recover of each worker).
EveryTaskTried ==
  \A t \in Task :
    message[t] = "waiting" /\ process = "up" ~>
      message[t] = "settled" \/ deliveries[t] = MaxDeliver \/ process # "up"

=============================================================================
