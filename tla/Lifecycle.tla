----------------------------- MODULE Lifecycle -----------------------------
(***************************************************************************)
(* The server process from start to end: main, the loop of the pool mana-  *)
(* ger, the requests in flight when main is told to stop, and the workers  *)
(* of TaskQueue.  main shuts the HTTP server down, and then runs its de-   *)
(* ferred calls, the last one first: the loop is stopped, then the workers, *)
(* then the connections are closed.  A pass of the loop is one step to     *)
(* begin and one to end here (WarmPool has its commands).                  *)
(***************************************************************************)
EXTENDS TaskQueue

VARIABLES
  main,       \* where main is until the consumer is stopped: "serving", "draining",
              \* "replenisher"; then "leaving"
  loop,       \* replenishLoop: "select", "pass", "stuck" in a call of a pass that is never
              \* answered, or "ended": doneCh is closed
  requests    \* those that were in flight at the signal: "none" any more, "running", or
              \* "stuck": one of them will not end within the 30 seconds of Shutdown

lifeVars == <<main, loop, requests>>
allVars == <<vars, lifeVars>>

LifecycleTypeOK ==
  /\ QueueTypeOK
  /\ main \in {"serving", "draining", "replenisher", "leaving"}
  /\ loop \in {"select", "pass", "stuck", "ended"}
  /\ requests \in {"none", "running", "stuck"}

LifeInit == Init /\ main = "serving" /\ loop = "pass" /\ requests = "none"

-----------------------------------------------------------------------------
(* The loop of the pool manager.                                           *)

\* A trigger or the ticker; the select may choose it when stopCh is closed as well.
WakeLoop ==
  /\ process # "down" /\ loop = "select" /\ loop' = "pass"
  /\ UNCHANGED <<vars, main, requests>>

\* Every call of the pass was answered, or failed.
PassEnds ==
  /\ loop = "pass" /\ loop' = "select"
  /\ UNCHANGED <<vars, main, requests>>

\* A call of the pass is never answered: the first pass and those of the ticker have no deadline
\* (main's context is Background), and neither have the clients of Docker and MySQL.
LoopHangs ==
  /\ loop = "pass" /\ loop' = "stuck"
  /\ UNCHANGED <<vars, main, requests>>

\* stopCh is closed.
LoopStops ==
  /\ loop = "select" /\ main \in {"replenisher", "leaving"}
  /\ loop' = "ended"
  /\ UNCHANGED <<vars, main, requests>>

\* Mutant of LoopPanics: doneCh is closed at the end of the function and not deferred.
LoopPanicsSilently ==
  /\ loop = "pass" /\ loop' = "lost"
  /\ UNCHANGED <<vars, main, requests>>

\* recover() ends the goroutine, nobody starts another, and running stays true.
LoopPanics ==
  /\ loop = "pass" /\ loop' = "ended"
  /\ UNCHANGED <<vars, main, requests>>

-----------------------------------------------------------------------------
(* main.                                                                   *)

\* A signal, or ListenAndServe failed.
Interrupt ==
  /\ main = "serving" /\ process = "up" /\ stops < MaxStops
  /\ main' = "draining" /\ requests' \in {"none", "running"}
  /\ UNCHANGED <<vars, loop>>

\* The last request ends; a stream of demoStatus does when its demo does, when
\* its time is over or when it cannot be written.
RequestsEnd ==
  /\ requests = "running" /\ requests' = "none"
  /\ UNCHANGED <<vars, main, loop>>

\* A request hangs in a call, or takes longer than Shutdown waits.
RequestHangs ==
  /\ main = "draining" /\ requests = "running" /\ requests' = "stuck"
  /\ Elsewhere /\ UNCHANGED <<main, loop>>

\* Shutdown returns, and StopReplenisher closes stopCh, ...
ShutdownReturns ==
  /\ main = "draining" /\ requests = "none"
  /\ main' = "replenisher"
  /\ UNCHANGED <<vars, loop, requests>>

\* Mutant of ReplenisherStopped: StopReplenisher does not wait for the loop.
ReplenisherLeft ==
  /\ main = "replenisher"
  /\ main' = "leaving" /\ Stop
  /\ UNCHANGED <<loop, requests>>

\* ... waits for doneCh, and consumer.Stop closes the stopCh of the workers.
ReplenisherStopped ==
  /\ main = "replenisher" /\ loop = "ended"
  /\ main' = "leaving" /\ Stop
  /\ UNCHANGED <<loop, requests>>

\* Nothing that the process did goes on.
LifeGone == main' = "leaving" /\ loop' = "ended" /\ requests' = "none"

\* The 30 seconds of Shutdown are over: logger.Fatal ends the process without the deferred calls.
ShutdownForced == main = "draining" /\ requests = "stuck" /\ Abort /\ LifeGone

Killed == Die /\ LifeGone

ProcessExits == Exit /\ UNCHANGED <<main, requests>> /\ loop' = "ended"

Started ==
  /\ Start
  /\ main' = "serving" /\ loop' = "pass" /\ UNCHANGED requests

MainStep ==
  \/ ShutdownReturns \/ ShutdownForced \/ ReplenisherStopped
  \/ Stopped /\ UNCHANGED lifeVars
  \/ ProcessExits

LifeNext ==
  \/ \E t \in Task : (Publish(t) \/ AckWait(t)) /\ UNCHANGED lifeVars
  \/ \E w \in Worker : (Work(w) \/ AnswerLost(w) \/ Panic(w) \/ Hang(w)) /\ UNCHANGED lifeVars
  \/ WakeLoop \/ PassEnds \/ LoopHangs \/ LoopStops \/ LoopPanics
  \/ Interrupt \/ RequestsEnd \/ RequestHangs \/ MainStep \/ Killed \/ Started

LifeSpec == LifeInit /\ [][LifeNext]_allVars

\* Besides the fairness of TaskQueue: main runs; a pass and a request that are not stuck come
\* to an end; and a select in which stopCh is ready again and again chooses it in the end.
LifeFairSpec ==
  /\ LifeSpec /\ Fairness
  /\ WF_allVars(MainStep) /\ WF_allVars(RequestsEnd)
  /\ WF_allVars(PassEnds) /\ SF_allVars(LoopStops)

-----------------------------------------------------------------------------
\* When main closes the connections, nobody is left who uses them: no request, not the loop, and,
\* unless the consumer's 10 seconds were over, no worker (main's deferred calls,
\* StopReplenisher, NATSConsumer.Stop).
ClosedWhenQuiet ==
  process = "closing" =>
    /\ requests = "none" /\ loop = "ended"
    /\ failures = 0 => \A w \in Worker : pc[w] = "exited"

\* A process that is told to stop ends, although the loop or a worker has panicked before, a
\* worker or a request hangs, or triggers go on to arrive.  One thing alone can keep it: a
\* call of the loop's pass that is never answered, as StopReplenisher waits for the loop
\* without a limit, and then main is still there (Shutdown, StopReplenisher, NATSConsumer.Stop).
ShutdownEnds ==
  main # "serving" ~> process = "down" \/ (main = "replenisher" /\ loop = "stuck")

=============================================================================
