---------------------------- MODULE AcquireDemo ----------------------------
(***************************************************************************)
(* POST /acquire from the client's side: the rate limit, then an instance  *)
(* of the pool, then its route, then the answer.  The pool is one step     *)
(* here (WarmPool has its commands); the rate limiter and the route mana-  *)
(* ger are the modules below.  The process may die and be started again:   *)
(* the counters and Caddy stay, the sync.Once is new.                      *)
(***************************************************************************)
EXTENDS RateLimiter, CaddyRoutes

CONSTANT MaxRestarts   \* BOUND

ASSUME RestartAssumption == MaxRestarts \in Nat

VARIABLES
  pc,         \* where each request is: "idle", "pool", "route", "release"
  served,     \* the hostnames that clients were sent
  restarts    \* for MaxRestarts

vars == <<rateVars, caddyVars, pc, served, restarts>>

RequestsTypeOK ==
  /\ RateTypeOK /\ CaddyTypeOK
  /\ pc \in [Caller -> {"idle", "pool", "route", "release"}]
  /\ served \subseteq Hostname
  /\ restarts \in 0..MaxRestarts

Init ==
  /\ RateInit /\ CaddyInit
  /\ pc = [a \in Caller |-> "idle"]
  /\ served = {} /\ restarts = 0

Goto(a, l) == pc' = [pc EXCEPT ![a] = l]

\* The request is over, and its context with it.
End(a) ==
  /\ Goto(a, "idle")
  /\ call' = [call EXCEPT ![a] = "none"] /\ host' = [host EXCEPT ![a] = None]
  /\ ctxDone' = ctxDone \ {a}
  /\ UNCHANGED <<manager, caddy, failures>>

\* The check that is a step of the store: allowed, or denied, or its answer is lost.
CheckAndIncrementRateLimit(a) ==
  /\ pc[a] = "idle"
  /\ \E ip \in Ip :
       \/ Grant(ip) /\ Goto(a, "pool") /\ UNCHANGED caddyVars
       \/ Grant(ip) /\ Fail /\ UNCHANGED <<manager, caddy, call, host, ctxDone, pc>>
       \/ Deny(ip) /\ UNCHANGED <<caddyVars, pc>>
  /\ UNCHANGED <<served, restarts>>

\* Every instance has a hostname of its own.
FreshHost(h) == h \notin routes \cup served /\ \A a \in Caller : host[a] # h

\* Acquire, up to its AddRoute: there is an instance, or none (or an error on the way).
AcquireFromPool(a) ==
  /\ pc[a] = "pool"
  /\ \/ \E h \in Hostname : FreshHost(h) /\ Begin(a, "once", h) /\ Goto(a, "route")
     \/ End(a)
  /\ UNCHANGED <<rateVars, served, restarts>>

\* Mutant of Respond: the hostname is read after it was given up.
RespondLate(a) ==
  /\ pc[a] = "route" /\ call[a] = "added"
  /\ End(a)
  /\ served' = IF a \in ctxDone THEN served ELSE served \cup {host'[a]}
  /\ UNCHANGED <<rateVars, restarts>>

\* The route is there: the client is sent the URL, if it still listens.
Respond(a) ==
  /\ pc[a] = "route" /\ call[a] = "added"
  /\ served' = IF a \in ctxDone THEN served ELSE served \cup {host[a]}
  /\ End(a)
  /\ UNCHANGED <<rateVars, restarts>>

\* It is not: the instance is released, its route first ...
RouteFailed(a) ==
  /\ pc[a] = "route" /\ call[a] = "failed"
  /\ Begin(a, "delete", host[a]) /\ Goto(a, "release")
  /\ UNCHANGED <<rateVars, served, restarts>>

\* ... and the client is told to try again.
AnswerRouteFailed(a) ==
  /\ pc[a] = "release" /\ call[a] = "removed"
  /\ End(a)
  /\ UNCHANGED <<rateVars, served, restarts>>

Manage(a) == CaddyStep(a) /\ UNCHANGED <<rateVars, pc, served, restarts>>

Request(a) ==
  \/ AcquireFromPool(a) \/ Manage(a) \/ Respond(a) \/ RouteFailed(a) \/ AnswerRouteFailed(a)

\* A demo that was served ends: Release removes its route.
Finish(h) ==
  /\ h \in served
  /\ served' = served \ {h} /\ routes' = routes \ {h}
  /\ UNCHANGED <<rateVars, manager, server, call, host, ctxDone, failures, pc, restarts>>

ClientLeaves(a) ==
  /\ pc[a] # "idle" /\ a \notin ctxDone /\ Fail
  /\ ctxDone' = ctxDone \cup {a}
  /\ UNCHANGED <<rateVars, manager, caddy, call, host, pc, served, restarts>>

\* The process dies at any point; the new one has a new route manager.
Restart ==
  /\ restarts < MaxRestarts /\ restarts' = restarts + 1
  /\ once' = "new" /\ serverInitErr' = FALSE
  /\ pc' = [a \in Caller |-> "idle"]
  /\ call' = [a \in Caller |-> "none"] /\ host' = [a \in Caller |-> None]
  /\ ctxDone' = {}
  /\ UNCHANGED <<rateVars, caddy, failures, served>>

Next ==
  \/ Elapse /\ UNCHANGED <<caddyVars, pc, served, restarts>>
  \/ \E a \in Caller : CheckAndIncrementRateLimit(a) \/ Request(a) \/ ClientLeaves(a)
  \/ \E h \in Hostname : Finish(h)
  \/ Restart

Spec == Init /\ [][Next]_vars

\* A request that was started runs to its end.
FairSpec == Spec /\ \A a \in Caller : WF_vars(Request(a))

-----------------------------------------------------------------------------
\* A route is only posted when Caddy has the server, although many requests start at once, any of
\* them may have to create it, and the creation may fail or be cut off by a
\* restart (ensureServerExists, createServerIfNotExists).
PostMeetsServer == \A c \in Caller : call[c] = "post" => server

\* A client is only sent a URL that Caddy routes, and it stays routed until the demo ends, also
\* over a restart and the initialization after it (Acquire fails if AddRoute fails).
ServedRouted == served \subseteq routes

\* Nothing but a failed call or a client that left makes a route fail: not requests
\* that come together, and not what a process that died left behind (AddRoute).
RoutedUnlessFailure == failures = 0 => \A c \in Caller : call[c] # "failed"

\* Every request is answered: whoever waits for the Once does not wait for ever, also when the one
\* that runs it fails or its client leaves (ensureServerExists).
EveryRequestAnswered == \A a \in Caller : pc[a] # "idle" ~> pc[a] = "idle"

=============================================================================
