---------------------------- MODULE RoutesProofs ----------------------------
(***************************************************************************)
(* What a client of POST /acquire may rely on, for any number of requests, *)
(* hostnames, failures and restarts: a URL it is sent is routed, no route  *)
(* is posted before the server exists, and nothing but a failed call or a  *)
(* client that left makes a route fail.                                    *)
(***************************************************************************)
EXTENDS RateLimiterProofs

\* One caller at most runs the function of the Once.
OneRunner ==
  \A c \in Caller : call[c] \in {"get", "put"} =>
    /\ once = "running"
    /\ \A d \in Caller : call[d] \in {"get", "put"} => d = c

\* Whoever is past the Once, or gets past it without an error, finds the server.
ServerThere ==
  /\ once = "done" /\ serverInitErr = FALSE => server = TRUE
  /\ \A c \in Caller : call[c] = "post" => server = TRUE

\* A route is there before its hostname is sent out, and nobody else has the hostname.
HostsApart ==
  /\ served \subseteq routes
  /\ \A c \in Caller : call[c] \in {"once", "get", "put", "post"} => host[c] \in Hostname
  /\ \A c \in Caller : call[c] = "added" => host[c] \in routes
  /\ \A c \in Caller : host[c] # None =>
       host[c] \notin served /\ \A d \in Caller : d # c => host[d] # host[c]

\* As long as nothing went wrong, nothing is in its way.
Undisturbed ==
  failures = 0 =>
    /\ ctxDone = {} /\ serverInitErr = FALSE
    /\ \A c \in Caller : call[c] # "failed" /\ (call[c] = "put" => server = FALSE)

RoutesInv == CaddyTypeOK /\ OneRunner /\ ServerThere /\ HostsApart /\ Undisturbed

-----------------------------------------------------------------------------
LEMMA RoutesInit == Init => RoutesInv
  <1> SUFFICES ASSUME Init PROVE RoutesInv
    OBVIOUS
  <1> USE DEF Init, CaddyInit
  <1>1. CaddyTypeOK
    <2>1. call \in [Caller -> CallLabel] /\ host \in [Caller -> Hostname \cup {None}]
      BY DEF CallLabel
    <2>2. serverInitErr \in BOOLEAN /\ server \in BOOLEAN
      BY Zenon
    <2>3. /\ once \in {"new", "running", "done"} /\ routes \subseteq Hostname
          /\ ctxDone \subseteq Caller /\ failures \in 0..MaxFailures
      BY CaddyAssumption
    <2> QED
      BY <2>1, <2>2, <2>3 DEF CaddyTypeOK
  <1>2. OneRunner /\ ServerThere
    BY DEF OneRunner, ServerThere
  <1>3. HostsApart
    BY DEF HostsApart
  <1>4. Undisturbed
    BY DEF Undisturbed
  <1> QED
    BY <1>1, <1>2, <1>3, <1>4 DEF RoutesInv

\* What the steps of one caller leave alone.
LEMMA Moved ==
  ASSUME CaddyTypeOK, NEW c \in Caller, NEW l \in CallLabel, Continue(c, l)
  PROVE  /\ call' \in [Caller -> CallLabel] /\ call'[c] = l
         /\ \A d \in Caller : d # c => call'[d] = call[d]
         /\ host' = host /\ ctxDone' = ctxDone
  BY DEF CaddyTypeOK, Continue

\* The caller that runs the function of the Once leaves it.
LEMMA InitializedStep ==
  ASSUME RoutesInv, NEW c \in Caller, call[c] \in {"get", "put"},
         NEW err \in BOOLEAN, Initialized(c, err),
         server' \in BOOLEAN, server = TRUE => server' = TRUE, routes' = routes,
         err = FALSE => server' = TRUE,
         failures' \in 0..MaxFailures, failures' = 0 => err = FALSE /\ failures = 0,
         served' = served
  PROVE  RoutesInv'
  <1> USE DEF RoutesInv
  <1>1. /\ once' = "done" /\ serverInitErr' = err
        /\ call' \in [Caller -> CallLabel]
        /\ call'[c] = IF err THEN "failed" ELSE "post"
        /\ \A d \in Caller : d # c => call'[d] = call[d]
        /\ host' = host /\ ctxDone' = ctxDone
    BY DEF Initialized, Continue, CaddyTypeOK, CallLabel
  <1>2. \A d \in Caller : call'[d] \notin {"get", "put"}
    BY <1>1 DEF OneRunner
  <1>3. CaddyTypeOK'
    BY <1>1 DEF CaddyTypeOK
  <1>4. ServerThere'
    BY <1>1 DEF ServerThere
  <1>5. HostsApart'
    BY <1>1 DEF HostsApart
  <1>6. Undisturbed'
    BY <1>1, <1>2 DEF Undisturbed
  <1> QED
    BY <1>2, <1>3, <1>4, <1>5, <1>6 DEF OneRunner

LEMMA EnterPassStep ==
  ASSUME RoutesInv, NEW c \in Caller, EnterOnce(c) \/ PassOnce(c), served' = served
  PROVE  RoutesInv'
  <1> USE DEF RoutesInv
  <1>1. /\ call' \in [Caller -> CallLabel]
        /\ \A d \in Caller : d # c => call'[d] = call[d]
        /\ host' = host /\ ctxDone' = ctxDone
        /\ server' = server /\ routes' = routes /\ failures' = failures
        /\ serverInitErr' = serverInitErr
    BY DEF EnterOnce, PassOnce, Continue, CaddyTypeOK, CallLabel, caddy, manager
  <1>2. CASE EnterOnce(c)
    <2>1. call[c] = "once" /\ call'[c] = "get" /\ once = "new" /\ once' = "running"
      BY <1>2 DEF EnterOnce, Continue, CaddyTypeOK
    <2> QED
      <3>1. CaddyTypeOK'
        BY <1>1, <2>1 DEF CaddyTypeOK
      <3>2. OneRunner' /\ ServerThere'
        BY <1>1, <2>1 DEF OneRunner, ServerThere
      <3>3. HostsApart'
        BY <1>1, <2>1 DEF HostsApart, EnterOnce
      <3>4. Undisturbed'
        BY <1>1, <2>1 DEF Undisturbed
      <3> QED
        BY <3>1, <3>2, <3>3, <3>4
  <1>3. CASE PassOnce(c)
    <2>1. /\ call[c] = "once" /\ once = "done" /\ once' = once
          /\ serverInitErr = TRUE => call'[c] = "failed"
          /\ serverInitErr = FALSE => call'[c] = "post"
      BY <1>3 DEF PassOnce, Continue, CaddyTypeOK, manager
    <2> QED
      <3>1. CaddyTypeOK'
        BY <1>1, <2>1 DEF CaddyTypeOK
      <3>2. OneRunner' /\ ServerThere'
        BY <1>1, <2>1 DEF OneRunner, ServerThere, CaddyTypeOK
      <3>3. HostsApart'
        BY <1>1, <2>1 DEF HostsApart
      <3>4. Undisturbed'
        BY <1>1, <2>1 DEF Undisturbed
      <3> QED
        BY <3>1, <3>2, <3>3, <3>4
  <1> QED
    BY <1>2, <1>3

LEMMA GetPutStep ==
  ASSUME RoutesInv, NEW c \in Caller, GetServer(c) \/ PutServer(c), served' = served
  PROVE  RoutesInv'
  <1> USE DEF RoutesInv
  <1>1. CASE GetServer(c)
    <2>1. server' = server /\ routes' = routes /\ call[c] = "get"
      BY <1>1 DEF GetServer, Http, caddy
    <2>2. CASE Initialized(c, FALSE) /\ server = TRUE /\ failures' = failures
      BY <2>1, <2>2, InitializedStep DEF CaddyTypeOK
    <2>3. CASE Initialized(c, TRUE) /\ Fail
      <3>1. failures' \in 0..MaxFailures /\ failures' # 0
        BY <2>3, CaddyAssumption DEF CaddyTypeOK, Fail
      <3> QED
        BY <2>1, <2>3, <3>1, InitializedStep DEF CaddyTypeOK
    <2>4. CASE Initialized(c, TRUE) /\ c \in ctxDone /\ failures' = failures
      <3>1. failures # 0
        BY <2>4 DEF Undisturbed
      <3> QED
        BY <2>1, <2>4, <3>1, InitializedStep DEF CaddyTypeOK
    <2>5. CASE Continue(c, "put") /\ UNCHANGED manager /\ server = FALSE /\ failures' = failures
      <3>1. /\ call' \in [Caller -> CallLabel] /\ call'[c] = "put"
            /\ \A d \in Caller : d # c => call'[d] = call[d]
            /\ host' = host /\ ctxDone' = ctxDone
            /\ once' = once /\ serverInitErr' = serverInitErr
        BY <2>5, Moved DEF manager, CallLabel
      <3> QED
        BY <2>1, <2>5, <3>1 DEF CaddyTypeOK, OneRunner, ServerThere, HostsApart, Undisturbed
    <2>6. CASE /\ failures' = failures
               /\ IF server THEN Initialized(c, FALSE) ELSE Continue(c, "put") /\ UNCHANGED manager
      <3>1. CASE server = TRUE
        BY <2>2, <2>6, <3>1
      <3>2. CASE server = FALSE
        BY <2>5, <2>6, <3>2
      <3> QED
        BY <3>1, <3>2 DEF CaddyTypeOK
    <2>7. CASE Continue(c, "put") /\ UNCHANGED manager /\ Fail
      <3>1. /\ call' \in [Caller -> CallLabel] /\ call'[c] = "put"
            /\ \A d \in Caller : d # c => call'[d] = call[d]
            /\ host' = host /\ ctxDone' = ctxDone
            /\ once' = once /\ serverInitErr' = serverInitErr
        BY <2>7, Moved DEF manager, CallLabel
      <3>2. failures' \in 0..MaxFailures /\ failures' # 0
        BY <2>7, CaddyAssumption DEF CaddyTypeOK, Fail
      <3> QED
        BY <2>1, <3>1, <3>2 DEF CaddyTypeOK, OneRunner, ServerThere, HostsApart, Undisturbed
    <2> QED
      BY <1>1, <2>3, <2>4, <2>6, <2>7 DEF GetServer, Http
  <1>2. CASE PutServer(c)
    <2>1. call[c] = "put" /\ routes' = routes
      BY <1>2 DEF PutServer, Http, caddy
    <2>2. CASE server' = TRUE /\ Initialized(c, server) /\ failures' = failures
      <3>1. failures = 0 => server = FALSE
        BY <2>1 DEF Undisturbed
      <3> QED
        BY <2>1, <2>2, <3>1, InitializedStep DEF CaddyTypeOK
    <2>3. CASE Initialized(c, TRUE) /\ Fail /\ (server' = TRUE \/ server' = server)
      <3>1. failures' \in 0..MaxFailures /\ failures' # 0
        BY <2>3, CaddyAssumption DEF CaddyTypeOK, Fail
      <3> QED
        BY <2>1, <2>3, <3>1, InitializedStep DEF CaddyTypeOK
    <2>4. CASE Initialized(c, TRUE) /\ c \in ctxDone /\ failures' = failures /\ server' = server
      <3>1. failures # 0
        BY <2>4 DEF Undisturbed
      <3> QED
        BY <2>1, <2>4, <3>1, InitializedStep DEF CaddyTypeOK
    <2>5. \/ server' = TRUE /\ Initialized(c, server) /\ failures' = failures
          \/ Initialized(c, TRUE) /\ Fail /\ (server' = TRUE \/ server' = server)
          \/ Initialized(c, TRUE) /\ c \in ctxDone /\ failures' = failures /\ server' = server
      <3> HIDE DEF RoutesInv
      <3> QED
        BY <1>2, Zenon DEF PutServer, Http, caddy
    <2> QED
      BY <2>2, <2>3, <2>4, <2>5
  <1> QED
    BY <1>1, <1>2

LEMMA PostStep ==
  ASSUME RoutesInv, NEW c \in Caller, PostRoute(c), served' = served
  PROVE  RoutesInv'
  <1> USE DEF RoutesInv
  <1>1. /\ call[c] = "post" /\ server = TRUE
        /\ once' = once /\ serverInitErr' = serverInitErr /\ server' = server
        /\ routes' = routes \cup {host[c]} \/ routes' = routes
    BY DEF PostRoute, Http, Post, ServerThere, manager, caddy
  <1>2. /\ \/ /\ Continue(c, "added") /\ routes' = routes \cup {host[c]}
              /\ failures' = failures
           \/ /\ Continue(c, "failed")
              /\ Fail \/ (c \in ctxDone /\ failures' = failures)
    BY <1>1 DEF PostRoute, Http, Post
  <1>3. PICK l \in {"added", "failed"} :
          /\ call' \in [Caller -> CallLabel] /\ call'[c] = l
          /\ \A d \in Caller : d # c => call'[d] = call[d]
          /\ host' = host /\ ctxDone' = ctxDone
          /\ l = "added" => routes' = routes \cup {host[c]} /\ failures' = failures
          /\ l = "failed" => Fail \/ (c \in ctxDone /\ failures' = failures)
    BY <1>2, Moved DEF CallLabel
  <1>4. failures' \in 0..MaxFailures /\ (l = "failed" => failures' # 0)
        /\ (failures' = 0 => failures = 0)
    BY <1>3, CaddyAssumption DEF CaddyTypeOK, Fail, Undisturbed
  <1>5. host[c] \in Hostname
    BY <1>1 DEF HostsApart
  <1> QED
    BY <1>1, <1>3, <1>4, <1>5 DEF CaddyTypeOK, OneRunner, ServerThere, HostsApart, Undisturbed

LEMMA RemoveStep ==
  ASSUME RoutesInv, NEW c \in Caller, RemoveRoute(c), served' = served
  PROVE  RoutesInv'
  <1> USE DEF RoutesInv
  <1>1. /\ call[c] = "delete" /\ Continue(c, "removed")
        /\ once' = once /\ serverInitErr' = serverInitErr /\ server' = server
        /\ routes' = routes \ {host[c]} \/ routes' = routes
        /\ failures' = failures \/ Fail
    BY DEF RemoveRoute, Http, manager, caddy
  <1>2. /\ call' \in [Caller -> CallLabel] /\ call'[c] = "removed"
        /\ \A d \in Caller : d # c => call'[d] = call[d]
        /\ host' = host /\ ctxDone' = ctxDone
    BY <1>1, Moved DEF CallLabel
  <1>3. failures' \in 0..MaxFailures /\ (failures' = 0 => failures = 0)
    BY <1>1, CaddyAssumption DEF CaddyTypeOK, Fail
  <1>4. CaddyTypeOK'
    BY <1>1, <1>2, <1>3 DEF CaddyTypeOK
  <1>5. OneRunner' /\ ServerThere' /\ Undisturbed'
    BY <1>1, <1>2, <1>3 DEF OneRunner, ServerThere, Undisturbed
  <1>6. HostsApart'
    <2>1. \A d \in Caller : d # c /\ host[d] \in Hostname => host[d] # host[c]
      BY CaddyAssumption DEF HostsApart
    <2>2. served \subseteq routes'
      <3>1. host[c] \notin served
        BY CaddyAssumption DEF HostsApart, CaddyTypeOK
      <3> QED
        BY <1>1, <3>1 DEF HostsApart
    <2>3. \A d \in Caller : call'[d] = "added" => host[d] \in routes'
      BY <1>1, <1>2, <2>1 DEF HostsApart, CaddyTypeOK
    <2> QED
      BY <1>2, <2>2, <2>3 DEF HostsApart
  <1> QED
    BY <1>4, <1>5, <1>6

LEMMA CaddyStepKeeps ==
  ASSUME RoutesInv, NEW c \in Caller, CaddyStep(c), served' = served
  PROVE  RoutesInv'
  BY EnterPassStep, GetPutStep, PostStep, RemoveStep DEF CaddyStep

-----------------------------------------------------------------------------
(* The steps of a request.                                                 *)

\* A request that ends drops its hostname.
LEMMA EndStep ==
  ASSUME RoutesInv, NEW a \in Caller, End(a),
         \/ served' = served
         \/ call[a] = "added" /\ served' = served \cup {host[a]}
  PROVE  RoutesInv'
  <1> USE DEF RoutesInv
  <1>1. /\ call' = [call EXCEPT ![a] = "none"] /\ host' = [host EXCEPT ![a] = None]
        /\ ctxDone' = ctxDone \ {a}
        /\ once' = once /\ serverInitErr' = serverInitErr
        /\ server' = server /\ routes' = routes /\ failures' = failures
    BY DEF End, manager, caddy
  <1>2. /\ call' \in [Caller -> CallLabel] /\ host' \in [Caller -> Hostname \cup {None}]
        /\ call'[a] = "none" /\ host'[a] = None
        /\ \A d \in Caller : d # a => call'[d] = call[d] /\ host'[d] = host[d]
    BY <1>1 DEF CaddyTypeOK, CallLabel
  <1>3. CaddyTypeOK'
    BY <1>1, <1>2 DEF CaddyTypeOK
  <1>4. OneRunner' /\ ServerThere' /\ Undisturbed'
    BY <1>1, <1>2 DEF OneRunner, ServerThere, Undisturbed
  <1>5. HostsApart'
    <2>1. served' \subseteq routes'
      BY <1>1 DEF HostsApart
    <2>2. \A d \in Caller : /\ call'[d] \in {"once", "get", "put", "post"} => host'[d] \in Hostname
                            /\ call'[d] = "added" => host'[d] \in routes'
      BY <1>1, <1>2 DEF HostsApart
    <2>3. ASSUME NEW d \in Caller, host'[d] # None
          PROVE  host'[d] \notin served' /\ \A e \in Caller : e # d => host'[e] # host'[d]
      <3>1. d # a /\ host'[d] = host[d] /\ host[d] \notin served
        BY <1>2, <2>3 DEF HostsApart
      <3>2. host[a] # host[d]
        BY <1>2, <2>3, <3>1 DEF HostsApart
      <3>3. \A e \in Caller : e # d => host'[e] # host'[d]
        BY <1>2, <2>3, <3>1 DEF HostsApart
      <3> QED
        BY <3>1, <3>2, <3>3
    <2> QED
      BY <2>1, <2>2, <2>3 DEF HostsApart
  <1> QED
    BY <1>3, <1>4, <1>5

\* AddRoute is called for a hostname nobody else has, RemoveRoute for the caller's own.
LEMMA BeginStep ==
  ASSUME RoutesInv, NEW a \in Caller, NEW l, NEW h, Begin(a, l, h), served' = served,
         \/ l = "once" /\ h \in Hostname /\ FreshHost(h)
         \/ l = "delete" /\ h = host[a]
  PROVE  RoutesInv'
  <1> USE DEF RoutesInv
  <1>1. /\ call' = [call EXCEPT ![a] = l] /\ host' = [host EXCEPT ![a] = h]
        /\ ctxDone' = ctxDone
        /\ once' = once /\ serverInitErr' = serverInitErr
        /\ server' = server /\ routes' = routes /\ failures' = failures
    BY DEF Begin, manager, caddy
  <1>2. /\ call' \in [Caller -> CallLabel] /\ host' \in [Caller -> Hostname \cup {None}]
        /\ call'[a] = l /\ host'[a] = h
        /\ \A d \in Caller : d # a => call'[d] = call[d] /\ host'[d] = host[d]
    BY <1>1 DEF CaddyTypeOK, CallLabel
  <1>3. CaddyTypeOK'
    BY <1>1, <1>2 DEF CaddyTypeOK
  <1>4. OneRunner' /\ ServerThere' /\ Undisturbed'
    BY <1>1, <1>2 DEF OneRunner, ServerThere, Undisturbed
  <1>5. HostsApart'
    <2>1. h # None => h \notin served /\ \A e \in Caller : e # a => host[e] # h
      BY DEF FreshHost, HostsApart
    <2>2. \A d \in Caller : /\ call'[d] \in {"once", "get", "put", "post"} => host'[d] \in Hostname
                            /\ call'[d] = "added" => host'[d] \in routes'
      BY <1>1, <1>2 DEF HostsApart
    <2>3. ASSUME NEW d \in Caller, host'[d] # None
          PROVE  host'[d] \notin served' /\ \A e \in Caller : e # d => host'[e] # host'[d]
      <3>1. CASE d = a
        BY <1>2, <2>1, <2>3, <3>1
      <3>2. CASE d # a
        <4>1. host'[d] = host[d] /\ host[d] # None
          BY <1>2, <2>3, <3>2
        <4>2. h # host[d]
          BY <2>1, <3>2, <4>1
        <4> QED
          BY <1>2, <4>1, <4>2 DEF HostsApart
      <3> QED
        BY <3>1, <3>2
    <2>4. served' \subseteq routes'
      BY <1>1 DEF HostsApart
    <2> QED
      BY <2>2, <2>3, <2>4 DEF HostsApart
  <1> QED
    BY <1>3, <1>4, <1>5

LEMMA RequestStep ==
  ASSUME RoutesInv, NEW a \in Caller, Request(a)
  PROVE  RoutesInv'
  <1>1. CASE AcquireFromPool(a)
    BY <1>1, EndStep, BeginStep DEF AcquireFromPool
  <1>2. CASE Manage(a)
    BY <1>2, CaddyStepKeeps DEF Manage
  <1>3. CASE Respond(a)
    BY <1>3, EndStep DEF Respond
  <1>4. CASE RouteFailed(a)
    BY <1>4, BeginStep DEF RouteFailed
  <1>5. CASE AnswerRouteFailed(a)
    BY <1>5, EndStep DEF AnswerRouteFailed
  <1> QED
    BY <1>1, <1>2, <1>3, <1>4, <1>5 DEF Request

LEMMA FinishStep ==
  ASSUME RoutesInv, NEW h \in Hostname, Finish(h)
  PROVE  RoutesInv'
  <1> USE DEF RoutesInv, Finish, manager
  <1>1. CaddyTypeOK' /\ OneRunner' /\ ServerThere' /\ Undisturbed'
    BY DEF CaddyTypeOK, OneRunner, ServerThere, Undisturbed
  <1>2. \A c \in Caller : host[c] # h
    BY CaddyAssumption DEF HostsApart
  <1>3. \A c \in Caller : call'[c] = "added" => host'[c] \in routes'
    BY <1>2 DEF HostsApart
  <1> QED
    BY <1>1, <1>3 DEF HostsApart

LEMMA RoutesStep == RoutesInv /\ [Next]_vars => RoutesInv'
  <1> SUFFICES ASSUME RoutesInv, [Next]_vars PROVE RoutesInv'
    OBVIOUS
  <1>1. CASE UNCHANGED <<caddyVars, served>>
    BY <1>1
    DEF RoutesInv, caddyVars, manager, caddy, CaddyTypeOK, OneRunner, ServerThere, HostsApart,
        Undisturbed
  <1>2. ASSUME NEW a \in Caller, CheckAndIncrementRateLimit(a) PROVE RoutesInv'
    <2>1. CASE UNCHANGED caddyVars
      BY <1>1, <1>2, <2>1 DEF CheckAndIncrementRateLimit
    <2>2. CASE Fail /\ UNCHANGED <<manager, caddy, call, host, ctxDone>>
      <3>1. failures' \in 0..MaxFailures /\ (failures' = 0 => failures = 0) /\ served' = served
        BY <1>2, <2>2, CaddyAssumption DEF Fail, RoutesInv, CaddyTypeOK, CheckAndIncrementRateLimit
      <3> QED
        BY <2>2, <3>1
        DEF RoutesInv, manager, caddy, CaddyTypeOK, OneRunner, ServerThere, HostsApart, Undisturbed
    <2> QED
      BY <1>2, <2>1, <2>2 DEF CheckAndIncrementRateLimit
  <1>3. ASSUME NEW a \in Caller, ClientLeaves(a) PROVE RoutesInv'
    <2>1. failures' \in 0..MaxFailures /\ failures' # 0
      BY <1>3, CaddyAssumption DEF ClientLeaves, Fail, RoutesInv, CaddyTypeOK
    <2> QED
      BY <1>3, <2>1
      DEF ClientLeaves, RoutesInv, manager, caddy, CaddyTypeOK, OneRunner, ServerThere,
          HostsApart, Undisturbed
  <1>4. CASE Restart
    <2>1. /\ once' = "new" /\ serverInitErr' = FALSE /\ ctxDone' = {}
          /\ server' = server /\ routes' = routes /\ served' = served /\ failures' = failures
          /\ \A c \in Caller : call'[c] = "none" /\ host'[c] = None
      BY <1>4 DEF Restart, caddy
    <2>2. CaddyTypeOK'
      BY <1>4, <2>1 DEF Restart, RoutesInv, CaddyTypeOK, CallLabel
    <2> QED
      BY <2>1, <2>2 DEF RoutesInv, OneRunner, ServerThere, HostsApart, Undisturbed
  <1> QED
    BY <1>1, <1>2, <1>3, <1>4, RequestStep, FinishStep DEF Next, vars

LEMMA RoutesInvHolds == Spec => []RoutesInv
  BY RoutesInit, RoutesStep, PTL DEF Spec

\* A route is only posted when Caddy has the server (ensureServerExists).
THEOREM PostMeetsServerHolds == Spec => []PostMeetsServer
  <1>1. RoutesInv => PostMeetsServer
    BY DEF RoutesInv, ServerThere, PostMeetsServer
  <1> QED
    BY <1>1, RoutesInvHolds, PTL

\* A client is only sent a URL that Caddy routes, and it stays routed until the demo ends.
THEOREM ServedRoutedHolds == Spec => []ServedRouted
  <1>1. RoutesInv => ServedRouted
    BY DEF RoutesInv, HostsApart, ServedRouted
  <1> QED
    BY <1>1, RoutesInvHolds, PTL

\* Nothing but a failed call or a client that left makes a route fail.
THEOREM RoutedUnlessFailureHolds == Spec => []RoutedUnlessFailure
  <1>1. RoutesInv => RoutedUnlessFailure
    BY DEF RoutesInv, Undisturbed, RoutedUnlessFailure
  <1> QED
    BY <1>1, RoutesInvHolds, PTL

\* The part of the state that belongs to neither component, whatever step is taken.
ControlTypeOK ==
  /\ pc \in [Caller -> {"idle", "pool", "route", "release"}]
  /\ served \subseteq Hostname
  /\ restarts \in 0..MaxRestarts

LEMMA ControlTypeStep == RoutesInv /\ ControlTypeOK /\ [Next]_vars => ControlTypeOK'
  <1> SUFFICES ASSUME RoutesInv, ControlTypeOK, [Next]_vars PROVE ControlTypeOK'
    OBVIOUS
  <1> USE DEF ControlTypeOK
  <1>1. CASE UNCHANGED <<pc, served, restarts>>
    BY <1>1
  <1>2. ASSUME NEW a \in Caller, CheckAndIncrementRateLimit(a) \/ ClientLeaves(a)
        PROVE  ControlTypeOK'
    BY <1>2 DEF CheckAndIncrementRateLimit, ClientLeaves, Goto
  <1>3. ASSUME NEW a \in Caller, Request(a) PROVE ControlTypeOK'
    <2>1. CASE Respond(a)
      <3>1. host[a] \in Hostname
        BY <2>1 DEF RoutesInv, CaddyTypeOK, HostsApart, Respond
      <3> QED
        BY <2>1, <3>1 DEF Respond, End, Goto
    <2>2. CASE AcquireFromPool(a)
      BY <2>2 DEF AcquireFromPool, End, Goto
    <2>3. CASE Manage(a)
      BY <2>3 DEF Manage
    <2>4. CASE RouteFailed(a)
      BY <2>4 DEF RouteFailed, Goto
    <2>5. CASE AnswerRouteFailed(a)
      BY <2>5 DEF AnswerRouteFailed, End, Goto
    <2> QED
      BY <1>3, <2>1, <2>2, <2>3, <2>4, <2>5 DEF Request
  <1>4. ASSUME NEW h \in Hostname, Finish(h) PROVE ControlTypeOK'
    BY <1>4 DEF Finish
  <1>5. CASE Restart
    BY <1>5, RestartAssumption DEF Restart
  <1> QED
    BY <1>1, <1>2, <1>3, <1>4, <1>5 DEF Next, vars

\* Counters, route manager and requests keep their types: in particular a client is only ever
\* sent a hostname of an instance, and never the empty one (acquireDemo).
THEOREM RequestsTypeHolds == Spec => []RequestsTypeOK
  <1>1. Init => ControlTypeOK
    BY RestartAssumption DEF Init, ControlTypeOK
  <1>2. Spec => []ControlTypeOK
    BY <1>1, ControlTypeStep, RoutesInvHolds, PTL DEF Spec
  <1>3. RateInv /\ RoutesInv /\ ControlTypeOK => RequestsTypeOK
    BY DEF RateInv, RoutesInv, ControlTypeOK, RequestsTypeOK
  <1> QED
    BY <1>2, <1>3, RateInvHolds, RoutesInvHolds, PTL

=============================================================================
