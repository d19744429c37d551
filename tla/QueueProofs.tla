---------------------------- MODULE QueueProofs ----------------------------
(***************************************************************************)
(* What the task queue promises, for any number of tasks, workers, redeli- *)
(* veries, failures and shutdowns, in the server process of Lifecycle.     *)
(***************************************************************************)
EXTENDS Lifecycle, TLAPS

LEMMA TeardownFacts ==
  /\ DOMAIN Teardown = 1..5 /\ Len(Teardown) = 5
  /\ Teardown[1] = "container" /\ Teardown[2] = "tables" /\ Teardown[3] = "route"
  /\ Teardown[4] = "port" /\ Teardown[5] = "record"
  /\ Resource = {"container", "tables", "route", "port", "record"}
  <1>1. /\ DOMAIN Teardown = 1..5 /\ Len(Teardown) = 5
        /\ Teardown[1] = "container" /\ Teardown[2] = "tables" /\ Teardown[3] = "route"
        /\ Teardown[4] = "port" /\ Teardown[5] = "record"
    BY DEF Teardown
  <1>2. 1..5 = {1, 2, 3, 4, 5}
    OBVIOUS
  <1>3. Resource = {Teardown[k] : k \in {1, 2, 3, 4, 5}}
    BY <1>2 DEF Resource
  <1> QED
    BY <1>1, <1>3

\* The calls of CleanupHandler before the k-th are done, or failed.
DoneBefore(t, k) == \A j \in 1..(k - 1) : Teardown[j] \in held[t] => Teardown[j] \in refused[t]

\* What a settled task stands for.
Finished(t) == IF t \in Provision THEN t \in made ELSE held[t] \subseteq refused[t]

\* A worker has a task of its own consumer in hand wherever it needs one.
Assigned(w) ==
  /\ pc[w] \in {"fetch", "exited"} => job[w] = None
  /\ pc[w] \notin {"fetch", "exited"} => job[w] \in Filter(w)
  /\ process = "down" => pc[w] = "exited"
  /\ pc[w] = "provision" => w \in ProvisionWorker
  /\ pc[w] \in Resource => w \in CleanupWorker

\* The k-th call of CleanupHandler, successful or not.
Call(w, k) ==
  /\ pc[w] = Teardown[k] /\ pc' = [pc EXCEPT ![w] = AfterCall(k)]
  /\ \/ /\ held' = [held EXCEPT ![job[w]] = @ \ {Teardown[k]}]
        /\ refused' = refused
     \/ /\ refused' = [refused EXCEPT ![job[w]] = @ \cup {Teardown[k]}]
        /\ held' = held
  /\ failures' = failures \/ (failures < MaxFailures /\ failures' = failures + 1)
  /\ UNCHANGED <<message, deliveries, process, job, made, stops>>

LEMMA CleanupCall ==
  ASSUME NEW w, CleanupHandler(w) \/ CleanupHandlerWarns(w)
  PROVE  \E k \in 1..5 : Call(w, k)
  <1>1. CASE CleanupHandler(w)
    <2>1. PICK k \in 1..5 :
            /\ pc[w] = Teardown[k] /\ pc' = [pc EXCEPT ![w] = AfterCall(k)]
            /\ held' = [held EXCEPT ![job[w]] = @ \ {Teardown[k]}]
            /\ UNCHANGED <<stream, process, job, made, refused, bounds>>
      BY <1>1, TeardownFacts DEF CleanupHandler, Goto
    <2> QED
      BY <2>1 DEF Call, stream, bounds
  <1>2. CASE CleanupHandlerWarns(w)
    <2>1. PICK k \in 1..5 :
            /\ pc[w] = Teardown[k] /\ pc' = [pc EXCEPT ![w] = AfterCall(k)]
            /\ CallFails
            /\ refused' = [refused EXCEPT ![job[w]] = @ \cup {Teardown[k]}]
            /\ UNCHANGED <<stream, process, job, made, held>>
      BY <1>2, TeardownFacts DEF CleanupHandlerWarns, Goto
    <2>2. UNCHANGED stops /\ (failures' = failures \/ (failures < MaxFailures /\ failures' = failures + 1))
      BY <2>1 DEF CallFails, Fail, bounds
    <2> QED
      BY <2>1, <2>2 DEF Call, stream
  <1> QED
    BY <1>1, <1>2

-----------------------------------------------------------------------------
(* Types and the tasks in hand.                                            *)

LEMMA TypesInit == Init => QueueTypeOK /\ \A w \in Worker : Assigned(w)
  BY TeardownFacts, QueueAssumption DEF Init, QueueTypeOK, Status, Label, Assigned, Task

LEMMA TypesStep ==
  ASSUME QueueTypeOK, \A w \in Worker : Assigned(w), [Next]_vars
  PROVE  QueueTypeOK' /\ \A w \in Worker : Assigned(w)'
  <1> USE DEF Goto, Take, Fail, CallFails, Naked, Acked, Turn, stream, world, bounds
  <1>1. ASSUME UNCHANGED vars PROVE QueueTypeOK' /\ \A w \in Worker : Assigned(w)'
    BY <1>1 DEF vars, QueueTypeOK, Assigned
  <1>2. ASSUME NEW t \in Task, Publish(t) \/ AckWait(t)
        PROVE  QueueTypeOK' /\ \A w \in Worker : Assigned(w)'
    BY <1>2 DEF Publish, AckWait, QueueTypeOK, Status, Assigned
  <1>3. ASSUME NEW w \in Worker, Fetch(w)
        PROVE  QueueTypeOK' /\ \A v \in Worker : Assigned(v)'
    <2>1. PICK t \in Deliverable(w) :
            /\ message' = [message EXCEPT ![t] = "delivered"]
            /\ deliveries' = [deliveries EXCEPT ![t] = @ + 1]
            /\ job' = [job EXCEPT ![w] = t]
      BY <1>3 DEF Fetch
    <2>2. t \in Filter(w) /\ t \in Task /\ deliveries[t] < MaxDeliver
      BY DEF Deliverable, Filter, Task
    <2>3. QueueTypeOK'
      BY <1>3, <2>1, <2>2, QueueAssumption DEF Fetch, QueueTypeOK, Status, Label
    <2>4. ASSUME NEW v \in Worker PROVE Assigned(v)'
      BY <1>3, <2>1, <2>2, TeardownFacts DEF Fetch, QueueTypeOK, Assigned, Filter
    <2> QED
      BY <2>3, <2>4
  <1>4. ASSUME NEW w \in Worker, FetchNothing(w) \/ StopSignal(w) \/ Process(w)
        PROVE  QueueTypeOK' /\ \A v \in Worker : Assigned(v)'
    <2>1. QueueTypeOK'
      BY <1>4, TeardownFacts
      DEF FetchNothing, StopSignal, Process, QueueTypeOK, Status, Label
    <2>2. ASSUME NEW v \in Worker PROVE Assigned(v)'
      BY <1>4, TeardownFacts
      DEF FetchNothing, StopSignal, Process, QueueTypeOK, Assigned, Filter, Worker
    <2> QED
      BY <2>1, <2>2
  <1>5. ASSUME NEW w \in Worker, ProvisionHandler(w) \/ ProvisionHandlerFails(w)
        PROVE  QueueTypeOK' /\ \A v \in Worker : Assigned(v)'
    <2>1. job[w] \in Provision
      BY <1>5 DEF ProvisionHandler, ProvisionHandlerFails, Assigned, Filter
    <2>2. QueueTypeOK'
      BY <1>5, <2>1 DEF ProvisionHandler, ProvisionHandlerFails, QueueTypeOK, Label
    <2>3. ASSUME NEW v \in Worker PROVE Assigned(v)'
      BY <1>5, <2>1, TeardownFacts
      DEF ProvisionHandler, ProvisionHandlerFails, QueueTypeOK, Assigned, Filter
    <2> QED
      BY <2>2, <2>3
  <1>6. ASSUME NEW w \in Worker, CleanupHandler(w) \/ CleanupHandlerWarns(w)
        PROVE  QueueTypeOK' /\ \A v \in Worker : Assigned(v)'
    <2>1. PICK k \in 1..5 : Call(w, k)
      BY <1>6, CleanupCall
    <2>2. /\ Teardown[k] \in Resource /\ AfterCall(k) \in Resource \cup {"ack"}
          /\ job[w] \in Cleanup /\ w \in CleanupWorker
      BY <2>1, TeardownFacts, QueueAssumption DEF Call, AfterCall, Assigned, Filter
    <2>3. QueueTypeOK'
      BY <2>1, <2>2, QueueAssumption DEF Call, QueueTypeOK, Label
    <2>4. ASSUME NEW v \in Worker PROVE Assigned(v)'
      BY <2>1, <2>2, TeardownFacts DEF Call, QueueTypeOK, Assigned, Filter
    <2> QED
      BY <2>3, <2>4
  <1>7. ASSUME NEW w \in Worker, Ack(w) \/ Nak(w) \/ AnswerLost(w) \/ Panic(w) \/ Hang(w)
        PROVE  QueueTypeOK' /\ \A v \in Worker : Assigned(v)'
    <2>1. QueueTypeOK'
      BY <1>7, TeardownFacts, QueueAssumption
      DEF Ack, Nak, AnswerLost, Panic, Hang, QueueTypeOK, Status, Label
    <2>2. ASSUME NEW v \in Worker PROVE Assigned(v)'
      BY <1>7, TeardownFacts DEF Ack, Nak, AnswerLost, Panic, Hang, QueueTypeOK, Assigned, Filter
    <2> QED
      BY <2>1, <2>2
  <1>8. ASSUME Stop \/ Stopped \/ Elsewhere
        PROVE  QueueTypeOK' /\ \A v \in Worker : Assigned(v)'
    BY <1>8, QueueAssumption DEF Stop, Stopped, Elsewhere, QueueTypeOK, Assigned, Filter
  <1>9. ASSUME Exit \/ Die \/ Abort \/ Start
        PROVE  QueueTypeOK' /\ \A v \in Worker : Assigned(v)'
    BY <1>9, TeardownFacts, QueueAssumption
    DEF Exit, Die, Abort, Start, Gone, QueueTypeOK, Label, Assigned
  <1> QED
    BY <1>1, <1>2, <1>3, <1>4, <1>5, <1>6, <1>7, <1>8, <1>9 DEF Next, Work

-----------------------------------------------------------------------------
(* What is done when a task is settled.                                    *)

TasksInHand == QueueTypeOK /\ \A w \in Worker : Assigned(w)

\* How far each worker is with its task.
Progress(w) ==
  /\ \A k \in 1..5 : pc[w] = Teardown[k] => DoneBefore(job[w], k)
  /\ pc[w] = "ack" => Finished(job[w])

DoneInv == SettledWhenDone /\ PortFreedLast /\ \A w \in Worker : Progress(w)

\* What is done stays done.
LEMMA DoneStays ==
  ASSUME TasksInHand, DoneInv,
         made \subseteq made',
         \A t \in Cleanup : \A r \in Resource :
           /\ r \in held'[t] => r \in held[t]
           /\ r \in refused[t] => r \in refused'[t],
         QueueTypeOK'
  PROVE  /\ \A t \in Task : Finished(t) => Finished(t)'
         /\ \A t \in Cleanup : \A k \in 1..5 : DoneBefore(t, k) => DoneBefore(t, k)'
  <1>1. \A t \in Task : Finished(t) => Finished(t)'
    BY DEF Finished, Task, TasksInHand, QueueTypeOK
  <1>2. \A j \in 1..5 : Teardown[j] \in Resource
    BY DEF Resource
  <1>3. \A k \in 1..5 : \A j \in 1..(k - 1) : j \in 1..5
    OBVIOUS
  <1> QED
    BY <1>1, <1>2, <1>3 DEF DoneBefore

LEMMA DoneInit == Init => DoneInv
  BY TeardownFacts DEF Init, DoneInv, SettledWhenDone, PortFreedLast, Progress

LEMMA DoneStep ==
  ASSUME TasksInHand, DoneInv, [Next]_vars
  PROVE  DoneInv'
  <1> USE DEF TasksInHand
  <1>0. TasksInHand'
    BY TypesStep
  <1>1. CASE UNCHANGED vars
    BY <1>1 DEF DoneInv, SettledWhenDone, PortFreedLast, Progress, Finished, DoneBefore,
                vars, stream, world
  <1>2. ASSUME NEW w \in Worker, CleanupHandler(w) \/ CleanupHandlerWarns(w)
        PROVE  DoneInv'
    <2>1. PICK k \in 1..5 : Call(w, k)
      BY <1>2, CleanupCall
    <2>2. job[w] \in Cleanup /\ Teardown[k] \in Resource
      BY <2>1, TeardownFacts, QueueAssumption DEF Call, Assigned, Filter
    <2>3. /\ \A t \in Task : Finished(t) => Finished(t)'
          /\ \A t \in Cleanup : \A l \in 1..5 : DoneBefore(t, l) => DoneBefore(t, l)'
      <3>1. made \subseteq made'
        BY <2>1 DEF Call
      <3>2. \A t \in Cleanup : \A r \in Resource :
              /\ r \in held'[t] => r \in held[t]
              /\ r \in refused[t] => r \in refused'[t]
        BY <2>1, <2>2 DEF Call, QueueTypeOK
      <3> QED
        BY <1>0, <3>1, <3>2, DoneStays
    <2>4. DoneBefore(job[w], k)' /\ (Teardown[k] \in held[job[w]] => Teardown[k] \in refused[job[w]])'
      <3>1. DoneBefore(job[w], k)
        BY <2>1 DEF Call, DoneInv, Progress
      <3>2. job'[w] = job[w]
        BY <2>1 DEF Call
      <3>3. DoneBefore(job[w], k)'
        BY <2>2, <2>3, <3>1, <3>2
      <3> QED
        BY <2>1, <2>2, <3>2, <3>3 DEF Call, QueueTypeOK
    <2>5. ASSUME NEW v \in Worker PROVE Progress(v)'
      <3>1. CASE v # w
        <4>1. pc'[v] = pc[v] /\ job'[v] = job[v]
          BY <2>1, <3>1 DEF Call, QueueTypeOK
        <4>2. pc[v] \in Resource => job[v] \in Cleanup
          BY TeardownFacts, QueueAssumption DEF Assigned, Filter
        <4>3. pc[v] = "ack" => job[v] \in Task
          BY DEF Assigned, Filter, Task
        <4> QED
          BY <2>3, <4>1, <4>2, <4>3, TeardownFacts DEF DoneInv, Progress
      <3>2. CASE v = w
        <4>1. pc'[w] = AfterCall(k) /\ job'[w] = job[w]
          BY <2>1 DEF Call, QueueTypeOK
        <4>2. ASSUME NEW l \in 1..5, pc'[w] = Teardown[l] PROVE DoneBefore(job[w], l)'
          <5>1. l = k + 1 /\ k < 5
            BY <4>1, <4>2, TeardownFacts DEF AfterCall
          <5> QED
            BY <2>4, <5>1 DEF DoneBefore
        <4>3. ASSUME pc'[w] = "ack" PROVE Finished(job[w])'
          <5>1. k = 5
            BY <4>1, <4>3, TeardownFacts DEF AfterCall
          <5>2. \A j \in 1..5 : (Teardown[j] \in held[job[w]] => Teardown[j] \in refused[job[w]])'
            BY <2>4, <5>1 DEF DoneBefore
          <5>3. held'[job[w]] \subseteq Resource
            BY <1>0, <2>2 DEF QueueTypeOK
          <5>4. (held[job[w]] \subseteq refused[job[w]])'
            BY <4>1, <5>2, <5>3 DEF Resource
          <5> QED
            BY <2>2, <4>1, <5>4, QueueAssumption DEF Finished
        <4> QED
          BY <3>2, <4>2, <4>3 DEF Progress
      <3> QED
        BY <3>1, <3>2
    <2>6. SettledWhenDone'
      BY <2>1, <2>3 DEF Call, DoneInv, SettledWhenDone, Finished
    <2>7. PortFreedLast'
      <3>1. SUFFICES ASSUME NEW t \in Cleanup, "port" \notin held'[t]
                     PROVE  held'[t] \cap {"container", "route"} \subseteq refused'[t]
        BY DEF PortFreedLast
      <3>2. CASE "port" \notin held[t]
        BY <2>1, <2>2, <3>2 DEF Call, QueueTypeOK, DoneInv, PortFreedLast
      <3>3. CASE "port" \in held[t]
        <4>1. t = job[w] /\ Teardown[k] = "port"
          BY <2>1, <2>2, <3>1, <3>3 DEF Call, QueueTypeOK
        <4>2. k = 4 /\ job'[w] = job[w]
          BY <2>1, <4>1, TeardownFacts DEF Call
        <4>3. 1 \in 1..(k - 1) /\ 3 \in 1..(k - 1)
          BY <4>2
        <4> QED
          BY <2>4, <4>1, <4>2, <4>3, TeardownFacts DEF DoneBefore
      <3> QED
        BY <3>2, <3>3
    <2> QED
      BY <2>5, <2>6, <2>7 DEF DoneInv
  <1>3. ASSUME NEW w \in Worker, ProvisionHandler(w)
        PROVE  DoneInv'
    <2>1. job[w] \in Provision /\ made' = made \cup {job[w]} /\ held' = held /\ refused' = refused
      BY <1>3 DEF ProvisionHandler, Assigned, Filter
    <2>2. /\ \A t \in Task : Finished(t) => Finished(t)'
          /\ \A t \in Cleanup : \A l \in 1..5 : DoneBefore(t, l) => DoneBefore(t, l)'
      BY <1>0, <2>1, DoneStays
    <2>3. pc' = [pc EXCEPT ![w] = "ack"] /\ job' = job /\ message' = message
      BY <1>3 DEF ProvisionHandler, Goto, stream
    <2>4. ASSUME NEW v \in Worker PROVE Progress(v)'
      <3>1. CASE v = w
        BY <2>1, <2>3, <3>1, TeardownFacts DEF Progress, Finished, QueueTypeOK
      <3>2. CASE v # w
        <4>1. pc[v] \in Resource => job[v] \in Cleanup
          BY TeardownFacts, QueueAssumption DEF Assigned, Filter
        <4>2. pc[v] = "ack" => job[v] \in Task
          BY DEF Assigned, Filter, Task
        <4> QED
          BY <2>2, <2>3, <3>2, <4>1, <4>2, TeardownFacts DEF DoneInv, Progress, QueueTypeOK
      <3> QED
        BY <3>1, <3>2
    <2>5. SettledWhenDone' /\ PortFreedLast'
      BY <2>1, <2>2, <2>3 DEF DoneInv, SettledWhenDone, PortFreedLast, Finished
    <2> QED
      BY <2>4, <2>5 DEF DoneInv
  <1>4. ASSUME UNCHANGED world,
               \A t \in Task : message'[t] = "settled" =>
                 message[t] = "settled" \/ \E w \in Worker : pc[w] = "ack" /\ job[w] = t,
               \A w \in Worker :
                 \/ pc'[w] = pc[w] /\ job'[w] = job[w]
                 \/ pc'[w] \in {"fetch", "fetched", "provision", "nak", "hung", "exited"}
                 \/ pc'[w] = Teardown[1]
        PROVE  DoneInv'
    <2>1. made' = made /\ held' = held /\ refused' = refused
      BY <1>4 DEF world
    <2>2. ASSUME NEW v \in Worker PROVE Progress(v)'
      <3>1. CASE pc'[v] = pc[v] /\ job'[v] = job[v]
        BY <2>1, <3>1 DEF DoneInv, Progress, DoneBefore, Finished
      <3>2. CASE pc'[v] \in {"fetch", "fetched", "provision", "nak", "hung", "exited"}
        BY <3>2, TeardownFacts DEF Progress
      <3>3. CASE pc'[v] = Teardown[1]
        <4>1. \A k \in 1..5 : pc'[v] = Teardown[k] => k = 1
          BY <3>3, TeardownFacts
        <4> QED
          BY <3>3, <4>1, TeardownFacts DEF Progress, DoneBefore
      <3> QED
        BY <1>4, <3>1, <3>2, <3>3
    <2>3. SettledWhenDone'
      BY <1>4, <2>1 DEF DoneInv, SettledWhenDone, Progress, Finished
    <2>4. PortFreedLast'
      BY <2>1 DEF DoneInv, PortFreedLast
    <2> QED
      BY <2>2, <2>3, <2>4 DEF DoneInv
  <1> USE DEF Goto, Take, Fail, CallFails, Naked, Acked, Turn, stream, world
  <1>5. ASSUME NEW t \in Task, Publish(t) \/ AckWait(t) PROVE DoneInv'
    BY <1>4, <1>5 DEF Publish, AckWait, QueueTypeOK
  <1>6. ASSUME NEW w \in Worker, Fetch(w) PROVE DoneInv'
    BY <1>4, <1>6 DEF Fetch, QueueTypeOK
  <1>7. ASSUME NEW w \in Worker,
               FetchNothing(w) \/ StopSignal(w) \/ Process(w) \/ ProvisionHandlerFails(w)
        PROVE  DoneInv'
    BY <1>4, <1>7
    DEF FetchNothing, StopSignal, Process, ProvisionHandlerFails, QueueTypeOK
  <1>8. ASSUME NEW w \in Worker, Ack(w) \/ Nak(w) \/ AnswerLost(w) \/ Panic(w) \/ Hang(w)
        PROVE  DoneInv'
    BY <1>4, <1>8 DEF Ack, Nak, AnswerLost, Panic, Hang, QueueTypeOK
  <1>9. ASSUME Stop \/ Stopped \/ Exit \/ Die \/ Abort \/ Elsewhere \/ Start PROVE DoneInv'
    BY <1>4, <1>9 DEF Stop, Stopped, Exit, Die, Abort, Elsewhere, Start, Gone, QueueTypeOK
  <1> QED
    BY <1>1, <1>2, <1>3, <1>5, <1>6, <1>7, <1>8, <1>9 DEF Next, Work

-----------------------------------------------------------------------------
(* Whoever lets go of a task answers it.                                   *)

\* A worker hangs only when something went wrong.
NoneHangs == failures = 0 => \A w \in Worker : pc[w] # "hung"

ForgetInv ==
  /\ NothingForgotten
  /\ NoneHangs
  /\ process = "closing" /\ failures = 0 => \A w \in Worker : pc[w] = "exited"

LEMMA ForgetInit == Init => ForgetInv
  BY DEF Init, ForgetInv, NothingForgotten, NoneHangs

\* Nothing but Hang leads to "hung", and Hang is a failure.
LEMMA HangStep ==
  ASSUME TasksInHand, NoneHangs, [Next]_vars
  PROVE  NoneHangs'
  <1> USE DEF TasksInHand, QueueTypeOK, NoneHangs, Goto, Turn, Fail, CallFails, bounds
  <1>1. CASE UNCHANGED vars
    BY <1>1 DEF vars
  <1>2. ASSUME NEW t \in Task, Publish(t) \/ AckWait(t) PROVE NoneHangs'
    BY <1>2 DEF Publish, AckWait
  <1>3. ASSUME NEW w \in Worker, CleanupHandler(w) \/ CleanupHandlerWarns(w) PROVE NoneHangs'
    <2>1. PICK k \in 1..5 : Call(w, k)
      BY <1>3, CleanupCall
    <2>2. AfterCall(k) # "hung"
      BY TeardownFacts DEF AfterCall
    <2> QED
      BY <2>1, <2>2 DEF Call
  <1>4. ASSUME NEW w \in Worker,
               \/ Fetch(w) \/ FetchNothing(w) \/ StopSignal(w) \/ Process(w)
               \/ ProvisionHandler(w) \/ ProvisionHandlerFails(w)
               \/ Ack(w) \/ Nak(w) \/ AnswerLost(w) \/ Panic(w) \/ Hang(w)
        PROVE  NoneHangs'
    BY <1>4, TeardownFacts
    DEF Fetch, FetchNothing, StopSignal, Process, ProvisionHandler, ProvisionHandlerFails, Ack,
        Nak, AnswerLost, Panic, Hang
  <1>5. CASE Stop \/ Stopped \/ Exit \/ Die \/ Abort \/ Elsewhere \/ Start
    BY <1>5 DEF Stop, Stopped, Exit, Die, Abort, Elsewhere, Start, Gone
  <1> QED
    BY <1>1, <1>2, <1>3, <1>4, <1>5 DEF Next, Work

LEMMA ForgetStep ==
  ASSUME TasksInHand, ForgetInv, [Next]_vars
  PROVE  ForgetInv'
  <1> USE DEF TasksInHand, Goto, Take, Turn, stream, world, bounds
  <1>0. NoneHangs /\ NoneHangs'
    BY HangStep DEF ForgetInv
  <1>1. CASE failures' # 0
    BY <1>0, <1>1 DEF ForgetInv, NothingForgotten
  <1>2. CASE failures' = 0
    <2> USE <1>2
    <2>1. failures = 0 /\ ~Fail
      <3>1. ~Fail
        BY DEF Fail, QueueTypeOK
      <3> QED
        BY <3>1, TypesStep DEF Next, Work, vars, QueueTypeOK, Publish, AckWait, Fetch, FetchNothing,
           StopSignal, Process, ProvisionHandler, ProvisionHandlerFails, CleanupHandler,
           CleanupHandlerWarns, CallFails, Ack, Nak, AnswerLost, Panic, Hang, Stop, Stopped, Exit,
           Die, Abort, Elsewhere, Start
    <2>2. /\ \A t \in Task : message[t] = "delivered" => \E w \in Worker : job[w] = t
          /\ process = "closing" => \A w \in Worker : pc[w] = "exited"
          /\ \A w \in Worker : pc[w] # "hung"
      BY <2>1 DEF ForgetInv, NothingForgotten, NoneHangs
    <2>3. SUFFICES /\ \A t \in Task : message'[t] = "delivered" => \E w \in Worker : job'[w] = t
                   /\ process' = "closing" => \A w \in Worker : pc'[w] = "exited"
      BY <1>0 DEF ForgetInv, NothingForgotten
    <2>4. CASE UNCHANGED vars
      BY <2>2, <2>4 DEF vars
    <2>5. ASSUME NEW t \in Task, Publish(t) \/ AckWait(t)
          PROVE  /\ \A u \in Task : message'[u] = "delivered" => \E w \in Worker : job'[w] = u
                 /\ process' = "closing" => \A w \in Worker : pc'[w] = "exited"
      BY <2>2, <2>5 DEF Publish, AckWait, QueueTypeOK
    <2>6. ASSUME NEW w \in Worker, Work(w) \/ AnswerLost(w) \/ Panic(w) \/ Hang(w)
          PROVE  /\ \A t \in Task : message'[t] = "delivered" => \E v \in Worker : job'[v] = t
                 /\ process' = "closing" => \A v \in Worker : pc'[v] = "exited"
      <3>1. process' = process /\ pc[w] # "exited" /\ process # "closing"
        <4>1. process' = process /\ pc[w] # "exited"
          BY <2>6, TeardownFacts
          DEF Work, Fetch, FetchNothing, StopSignal, Process, ProvisionHandler,
              ProvisionHandlerFails, CleanupHandler, CleanupHandlerWarns, Ack, Nak, AnswerLost, Panic,
              Hang
        <4> QED
          BY <2>2, <4>1
      <3>2. CASE Fetch(w)
        <4>1. PICK t \in Deliverable(w) : /\ message' = [message EXCEPT ![t] = "delivered"]
                                          /\ job' = [job EXCEPT ![w] = t]
          BY <3>2 DEF Fetch
        <4>2. job[w] = None /\ job'[w] = t /\ \A v \in Worker : v # w => job'[v] = job[v]
          BY <3>2, <4>1 DEF Fetch, Assigned, QueueTypeOK
        <4> QED
          BY <2>2, <3>1, <4>1, <4>2, QueueAssumption DEF QueueTypeOK
      <3>3. CASE message' = message /\ job' = job
        BY <2>2, <3>1, <3>3
      <3>4. CASE /\ Naked(job[w]) \/ Acked(job[w])
                 /\ job' = [job EXCEPT ![w] = None] /\ job[w] \in Task
        <4>1. /\ message'[job[w]] # "delivered"
              /\ \A t \in Task : t # job[w] => message'[t] = message[t]
              /\ \A v \in Worker : v # w => job'[v] = job[v]
          BY <3>4 DEF Naked, Acked, QueueTypeOK
        <4> QED
          BY <2>2, <3>1, <4>1
      <3>5. CASE ~Fetch(w)
        <4>1. pc[w] \notin {"fetch", "exited"} => job[w] \in Task
          BY DEF Assigned, Filter, Task
        <4>2. \/ message' = message /\ job' = job
              \/ /\ Naked(job[w]) \/ Acked(job[w])
                 /\ job' = [job EXCEPT ![w] = None] /\ job[w] \in Task
          BY <2>1, <2>6, <3>1, <3>5, <4>1
          DEF Work, FetchNothing, StopSignal, Process, ProvisionHandler, ProvisionHandlerFails,
              CleanupHandler, CleanupHandlerWarns, Ack, Nak, AnswerLost, Panic, Hang,
              CallFails
        <4> QED
          BY <3>3, <3>4, <4>2
      <3> QED
        BY <3>2, <3>5
    <2>7. CASE Stop \/ Stopped \/ Start
      BY <2>1, <2>2, <2>7 DEF Stop, Stopped, Start
    <2>8. CASE Exit
      <3>1. \A w \in Worker : job[w] \notin Task
        BY <2>2, <2>8, QueueAssumption DEF Exit, Assigned
      <3> QED
        BY <2>2, <2>8, <3>1 DEF Exit
    <2>9. CASE Die \/ Abort \/ Elsewhere
      BY <2>1, <2>9 DEF Die, Abort, Elsewhere
    <2> QED
      BY <2>4, <2>5, <2>6, <2>7, <2>8, <2>9 DEF Next
  <1> QED
    BY <1>1, <1>2

-----------------------------------------------------------------------------
(* The process.                                                            *)

\* A process that leaves has neither requests nor a loop.
LeaveInv ==
  /\ LifecycleTypeOK
  /\ main = "replenisher" => requests = "none"
  /\ main = "leaving" <=> process # "up"
  /\ main = "leaving" => requests = "none" /\ loop = "ended"

\* Whatever main and the loop do, the queue takes one of its own steps or none.
LEMMA LifecycleRefinesQueue == LifeSpec => Spec
  <1>1. LifeInit => Init
    BY DEF LifeInit
  <1>2. [LifeNext]_allVars => [Next]_vars
    <2> SUFFICES ASSUME [LifeNext]_allVars PROVE [Next]_vars
      OBVIOUS
    <2>1. CASE UNCHANGED allVars
      BY <2>1 DEF allVars
    <2>2. CASE \/ WakeLoop \/ PassEnds \/ LoopHangs \/ LoopStops \/ LoopPanics
               \/ Interrupt \/ RequestsEnd \/ ShutdownReturns
      BY <2>2 DEF WakeLoop, PassEnds, LoopHangs, LoopStops, LoopPanics, Interrupt, RequestsEnd,
         ShutdownReturns
    <2> QED
      BY <2>1, <2>2 DEF LifeNext, MainStep, RequestHangs, ShutdownForced, ReplenisherStopped,
         Killed, ProcessExits, Started, Next
  <1> QED
    BY <1>1, <1>2, PTL DEF LifeSpec, Spec

LEMMA LeaveInit == LifeInit => LeaveInv
  BY TypesInit DEF LifeInit, LeaveInv, LifecycleTypeOK, Init

LEMMA LeaveStep ==
  ASSUME TasksInHand, LeaveInv, [LifeNext]_allVars, TasksInHand'
  PROVE  LeaveInv'
  <1> USE DEF LeaveInv, LifecycleTypeOK, TasksInHand
  <1>1. CASE UNCHANGED allVars
    BY <1>1 DEF allVars, vars, lifeVars
  <1>2. CASE WakeLoop \/ PassEnds \/ LoopHangs \/ LoopStops \/ LoopPanics
    BY <1>2 DEF WakeLoop, PassEnds, LoopHangs, LoopStops, LoopPanics, vars
  <1>3. CASE Interrupt \/ RequestsEnd \/ RequestHangs \/ ShutdownReturns
    <2>1. process' = process /\ loop' = loop
      BY <1>3 DEF Interrupt, RequestsEnd, RequestHangs, Elsewhere, ShutdownReturns, vars
    <2>2. CASE Interrupt
      BY <2>1, <2>2 DEF Interrupt
    <2>3. CASE RequestsEnd
      BY <2>1, <2>3 DEF RequestsEnd
    <2>4. CASE ShutdownReturns
      BY <2>1, <2>4 DEF ShutdownReturns
    <2>5. CASE RequestHangs
      BY <2>1, <2>5 DEF RequestHangs
    <2> QED
      BY <1>3, <2>2, <2>3, <2>4, <2>5
  <1>4. CASE ReplenisherStopped \/ ShutdownForced \/ Killed \/ ProcessExits \/ Started
    <2>1. CASE ReplenisherStopped
      BY <2>1 DEF ReplenisherStopped, Stop
    <2>2. CASE Killed
      BY <2>2 DEF Killed, LifeGone, Die
    <2>3. CASE ProcessExits
      BY <2>3 DEF ProcessExits, Exit
    <2>4. CASE Started
      BY <2>4 DEF Started, Start
    <2>5. CASE ShutdownForced
      BY <2>5 DEF ShutdownForced, LifeGone, Abort
    <2> QED
      BY <1>4, <2>1, <2>2, <2>3, <2>4, <2>5
  <1>5. CASE Stopped /\ UNCHANGED lifeVars
    BY <1>5 DEF Stopped, lifeVars
  <1>6. ASSUME NEW t \in Task, Publish(t) \/ AckWait(t), UNCHANGED lifeVars PROVE LeaveInv'
    BY <1>6 DEF Publish, AckWait, lifeVars
  <1>7. ASSUME NEW w \in Worker, Work(w) \/ AnswerLost(w) \/ Panic(w) \/ Hang(w), UNCHANGED lifeVars
        PROVE  LeaveInv'
    <2>1. process' = process
      BY <1>7
      DEF Work, Fetch, FetchNothing, StopSignal, Process, ProvisionHandler,
          ProvisionHandlerFails, CleanupHandler, CleanupHandlerWarns, Ack, Nak, AnswerLost, Panic,
          Hang
    <2> QED
      BY <1>7, <2>1 DEF lifeVars
  <1> QED
    BY <1>1, <1>2, <1>3, <1>4, <1>5, <1>6, <1>7 DEF LifeNext, MainStep

-----------------------------------------------------------------------------
LEMMA TasksInHandHolds == Spec => []TasksInHand
  <1>1. Init => TasksInHand
    BY TypesInit DEF TasksInHand
  <1>2. TasksInHand /\ [Next]_vars => TasksInHand'
    BY TypesStep DEF TasksInHand
  <1> QED
    BY <1>1, <1>2, PTL DEF Spec

LEMMA DoneInvHolds == Spec => []DoneInv
  <1>1. TasksInHand /\ DoneInv /\ [Next]_vars => DoneInv'
    BY DoneStep
  <1> QED
    BY <1>1, DoneInit, TasksInHandHolds, PTL DEF Spec

LEMMA ForgetInvHolds == Spec => []ForgetInv
  <1>1. TasksInHand /\ ForgetInv /\ [Next]_vars => ForgetInv'
    BY ForgetStep
  <1> QED
    BY <1>1, ForgetInit, TasksInHandHolds, PTL DEF Spec

LEMMA LeaveInvHolds == LifeSpec => []LeaveInv
  <1>1. TasksInHand /\ TasksInHand' /\ LeaveInv /\ [LifeNext]_allVars => LeaveInv'
    BY LeaveStep
  <1> QED
    BY <1>1, LeaveInit, TasksInHandHolds, LifecycleRefinesQueue, PTL DEF LifeSpec

\* The types, of the queue and of the process around it.
THEOREM LifecycleTypeCorrect == LifeSpec => []LifecycleTypeOK
  <1>1. LeaveInv => LifecycleTypeOK
    BY DEF LeaveInv
  <1> QED
    BY <1>1, LeaveInvHolds, PTL

\* A settled task is done, in every behaviour of the process.
THEOREM SettledWhenDoneHolds == LifeSpec => []SettledWhenDone
  <1>1. DoneInv => SettledWhenDone
    BY DEF DoneInv
  <1> QED
    BY <1>1, DoneInvHolds, LifecycleRefinesQueue, PTL

\* The port goes last.
THEOREM PortFreedLastHolds == LifeSpec => []PortFreedLast
  <1>1. DoneInv => PortFreedLast
    BY DEF DoneInv
  <1> QED
    BY <1>1, DoneInvHolds, LifecycleRefinesQueue, PTL

\* As long as nothing went wrong, a delivered task is in somebody's hands, over shutdowns too.
THEOREM NothingForgottenHolds == LifeSpec => []NothingForgotten
  <1>1. ForgetInv => NothingForgotten
    BY DEF ForgetInv
  <1> QED
    BY <1>1, ForgetInvHolds, LifecycleRefinesQueue, PTL

\* The connections are closed when nobody uses them any more.
THEOREM ClosedWhenQuietHolds == LifeSpec => []ClosedWhenQuiet
  <1>1. LeaveInv /\ ForgetInv => ClosedWhenQuiet
    BY DEF LeaveInv, ForgetInv, ClosedWhenQuiet
  <1> QED
    BY <1>1, LeaveInvHolds, ForgetInvHolds, LifecycleRefinesQueue, PTL

=============================================================================
