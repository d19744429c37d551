---------------------------- MODULE CaddyRoutes ----------------------------
(***************************************************************************)
(* The route manager, one HTTP request to Caddy per step.  The first call  *)
(* of AddRoute creates Caddy's server for the demos if there is none; a    *)
(* sync.Once makes all other calls of the process wait for it and use its  *)
(* result.                                                                 *)
(***************************************************************************)
EXTENDS Naturals

CONSTANTS
  Caller,        \* goroutines that call the route manager
  Hostname,      \* of demo instances
  None,          \* no hostname
  MaxFailures    \* BOUND: calls that fail and clients that go away

ASSUME CaddyAssumption == None \notin Hostname /\ MaxFailures \in Nat

VARIABLES
  once,            \* serverOnce: "new", "running" or "done"
  serverInitErr,   \* is the error the function of the Once left
  server,          \* Caddy has the server
  routes,          \* the hostnames Caddy routes
  call,            \* where each caller is
  host,            \* the hostname it works on
  ctxDone,         \* callers whose request context is cancelled
  failures         \* for MaxFailures

manager == <<once, serverInitErr>>
caddy == <<server, routes>>
caddyVars == <<manager, caddy, call, host, ctxDone, failures>>

\* "added", "failed" and "removed" are what a call returned.
CallLabel == {"none", "once", "get", "put", "post", "delete", "added", "failed", "removed"}

CaddyTypeOK ==
  /\ once \in {"new", "running", "done"} /\ serverInitErr \in BOOLEAN
  /\ server \in BOOLEAN /\ routes \subseteq Hostname
  /\ call \in [Caller -> CallLabel]
  /\ host \in [Caller -> Hostname \cup {None}]
  /\ ctxDone \subseteq Caller /\ failures \in 0..MaxFailures

CaddyInit ==
  /\ once = "new" /\ serverInitErr = FALSE
  /\ server = FALSE /\ routes = {}
  /\ call = [c \in Caller |-> "none"] /\ host = [c \in Caller |-> None]
  /\ ctxDone = {} /\ failures = 0

Fail == failures < MaxFailures /\ failures' = failures + 1
Continue(c, l) == call' = [call EXCEPT ![c] = l] /\ UNCHANGED <<host, ctxDone>>

\* One request to Caddy: answered; or lost, with its effect applied or not; or, in a
\* context that is done, not sent.  Ok and Err are local.
Http(c, Effect, Ok, Err) ==
  \/ c \notin ctxDone /\ Effect /\ Ok /\ UNCHANGED failures
  \/ c \notin ctxDone /\ Fail /\ (Effect \/ UNCHANGED caddy) /\ Err
  \/ c \in ctxDone /\ UNCHANGED <<caddy, failures>> /\ Err

-----------------------------------------------------------------------------
(* ensureServerExists.                                                     *)

\* AddRoute and RemoveRoute are called.
Begin(c, l, h) ==
  /\ call' = [call EXCEPT ![c] = l] /\ host' = [host EXCEPT ![c] = h]
  /\ UNCHANGED <<manager, caddy, ctxDone, failures>>

\* The first caller runs the function; while it does, no other gets past Do.
EnterOnce(c) ==
  /\ call[c] = "once" /\ once = "new"
  /\ once' = "running" /\ Continue(c, "get")
  /\ UNCHANGED <<serverInitErr, caddy, failures>>

\* Mutant of PassOnce: the error is kept by the first caller only.
PassOnceWithoutError(c) ==
  /\ call[c] = "once" /\ once = "done"
  /\ Continue(c, "post")
  /\ UNCHANGED <<manager, caddy, failures>>

PassOnce(c) ==
  /\ call[c] = "once" /\ once = "done"
  /\ Continue(c, IF serverInitErr THEN "failed" ELSE "post")
  /\ UNCHANGED <<manager, caddy, failures>>

\* Mutant of Initialized: only a success lets the others go on.
InitializedOnSuccess(c, err) ==
  /\ once' = (IF err THEN once ELSE "done") /\ serverInitErr' = err
  /\ Continue(c, IF err THEN "failed" ELSE "post")

\* The function of the Once returns an error or nil.
Initialized(c, err) ==
  /\ once' = "done" /\ serverInitErr' = err
  /\ Continue(c, IF err THEN "failed" ELSE "post")

\* Mutant of GetServer: looks at the status code only, which is 200 for an absent server too.
GetServerByStatus(c) ==
  /\ call[c] = "get"
  /\ Http(c, UNCHANGED caddy, Initialized(c, FALSE), Initialized(c, TRUE))

\* Mutant of GetServer: the server is created without a look.
GetServerNever(c) ==
  /\ call[c] = "get"
  /\ Http(c, UNCHANGED caddy, Continue(c, "put") /\ UNCHANGED manager, Initialized(c, TRUE))

\* createServerIfNotExists looks whether the server is there; an answer with another status
\* than 200, or whose body cannot be read, counts as "no" ...
GetServer(c) ==
  /\ call[c] = "get"
  /\ \/ Http(c, UNCHANGED caddy,
             IF server THEN Initialized(c, FALSE) ELSE Continue(c, "put") /\ UNCHANGED manager,
             Initialized(c, TRUE))
     \/ /\ c \notin ctxDone /\ Fail
        /\ Continue(c, "put") /\ UNCHANGED <<manager, caddy>>

\* ... and puts it there, which Caddy refuses to do over an existing one.
PutServer(c) ==
  /\ call[c] = "put"
  /\ Http(c, server' = TRUE /\ routes' = routes, Initialized(c, server), Initialized(c, TRUE))

-----------------------------------------------------------------------------
(* The routes.                                                             *)

Post(h) == routes' = (IF server THEN routes \cup {h} ELSE routes) /\ UNCHANGED server

\* Mutant of PostRoute: the answer is not looked at.
PostRouteUnchecked(c) ==
  /\ call[c] = "post"
  /\ Http(c, Post(host[c]), Continue(c, "added"), Continue(c, "added"))
  /\ UNCHANGED manager

\* AddRoute, after ensureServerExists: a route below a server that is absent is refused.
PostRoute(c) ==
  /\ call[c] = "post"
  /\ Http(c, Post(host[c]), Continue(c, IF server THEN "added" ELSE "failed"), Continue(c, "failed"))
  /\ UNCHANGED manager

\* A route that is not there is no error.
RemoveRoute(c) ==
  /\ call[c] = "delete"
  /\ Http(c, routes' = routes \ {host[c]} /\ UNCHANGED server,
          Continue(c, "removed"), Continue(c, "removed"))
  /\ UNCHANGED manager

CaddyStep(c) ==
  \/ EnterOnce(c) \/ PassOnce(c) \/ GetServer(c) \/ PutServer(c)
  \/ PostRoute(c) \/ RemoveRoute(c)

=============================================================================
