------------------------- MODULE RateLimiterProofs -------------------------
(***************************************************************************)
(* The limits of the rate limiter hold for every limit, window, number of  *)
(* addresses and requests, failures and restarts; and a request is denied  *)
(* exactly after a chain of allowed ones.                                  *)
(***************************************************************************)
EXTENDS AcquireDemo, TLAPS

\* What a counter (its value and its expiry) knows of the n requests allowed until now: its count
\* begins with the first request since its key was created.
Tracks(count, expiry, times, n, limit, window, now) ==
  /\ count <= n /\ count <= limit
  /\ n = 0 => expiry = 0
  /\ n > 0 => count > 0 /\ expiry = times[n] + window
  /\ \A k \in 1..n : times[k] \in Nat /\ times[k] <= now
  /\ \A j, k \in 1..n : j <= k => times[j] <= times[k]
  /\ n - count > 0 => times[n - count + 1] >= times[n - count] + window
  /\ \A k \in (n - count + 1)..(n - 1) : times[k + 1] < times[k] + window
  /\ \A j, k \in 1..n : k = j + limit => times[k] >= times[j] + window

\* An allowed request keeps the counter in step: if the key is alive the count goes on, and if it
\* has expired all earlier requests are a window away.
LEMMA TracksGrant ==
  ASSUME NEW count \in Nat, NEW expiry \in Nat, NEW ts, NEW us, NEW n \in Nat, NEW now \in Nat,
         NEW limit \in Nat, NEW window \in Nat, NEW alive \in Nat,
         alive = IF now < expiry THEN count ELSE 0, alive < limit,
         us[n + 1] = now, \A k \in 1..n : us[k] = ts[k],
         Tracks(count, expiry, ts, n, limit, window, now)
  PROVE  Tracks(alive + 1, now + window, us, n + 1, limit, window, now)
  <1>1. /\ count <= n
        /\ n = 0 => expiry = 0
        /\ n > 0 => count > 0 /\ expiry = ts[n] + window
        /\ \A k \in 1..n : ts[k] \in Nat /\ ts[k] <= now
        /\ \A j, k \in 1..n : j <= k => ts[j] <= ts[k]
    BY DEF Tracks
  <1>2. /\ \A k \in 1..(n + 1) : us[k] \in Nat /\ us[k] <= now
        /\ \A j, k \in 1..(n + 1) : j <= k => us[j] <= us[k]
    BY <1>1
  <1>3. CASE alive = 0
    <2>1. n > 0 => now >= ts[n] + window
      BY <1>1, <1>3
    <2>2. \A j \in 1..n : now >= ts[j] + window
      BY <1>1, <2>1
    <2>3. \A j, k \in 1..(n + 1) : k = j + limit => us[k] >= us[j] + window
      BY <2>2 DEF Tracks
    <2> QED
      BY <1>1, <1>2, <1>3, <2>1, <2>3 DEF Tracks
  <1>4. CASE alive # 0
    <2>1. alive = count /\ count > 0 /\ n > 0 /\ now < ts[n] + window
      BY <1>1, <1>4
    <2>2. /\ n - count > 0 => ts[n - count + 1] >= ts[n - count] + window
          /\ \A k \in (n - count + 1)..(n - 1) : ts[k + 1] < ts[k] + window
      BY DEF Tracks
    <2>3. n - count > 0 => us[n - count + 1] >= us[n - count] + window
      BY <1>1, <2>1, <2>2
    <2>4. \A k \in (n - count + 1)..n : us[k + 1] < us[k] + window
      BY <1>1, <2>1, <2>2
    <2>5. \A j \in 1..n : n + 1 = j + limit => now >= ts[j] + window
      <3>1. SUFFICES ASSUME NEW j \in 1..n, n + 1 = j + limit PROVE now >= ts[j] + window
        OBVIOUS
      <3>2. j <= n - count /\ n - count \in 1..n /\ n - count + 1 \in 1..n
        BY <1>1, <2>1, <3>1
      <3>3. ts[j] <= ts[n - count] /\ ts[n - count + 1] <= now
        BY <1>1, <3>2
      <3> QED
        BY <1>1, <2>2, <3>2, <3>3
    <2>6. \A j, k \in 1..(n + 1) : k = j + limit => us[k] >= us[j] + window
      BY <2>5 DEF Tracks
    <2> QED
      BY <1>1, <1>2, <2>1, <2>3, <2>4, <2>6 DEF Tracks
  <1> QED
    BY <1>3, <1>4

\* Chain, at time now, of the first n requests.
Chained(times, n, limit, window, now) ==
  /\ n >= limit
  /\ limit > 0 => now < times[n] + window
  /\ \A k \in (n - limit + 1)..(n - 1) : times[k + 1] < times[k] + window

\* A counter is at its limit exactly after a chain.
LEMMA TracksChain ==
  ASSUME NEW count \in Nat, NEW expiry \in Nat, NEW ts, NEW n \in Nat, NEW now \in Nat,
         NEW limit \in Nat, NEW window \in Nat, NEW alive \in Nat,
         alive = IF now < expiry THEN count ELSE 0,
         Tracks(count, expiry, ts, n, limit, window, now)
  PROVE  alive >= limit <=> Chained(ts, n, limit, window, now)
  <1> DEFINE Close(first) == \A k \in first..(n - 1) : ts[k + 1] < ts[k] + window
  <1>1. /\ count <= n /\ count <= limit
        /\ n = 0 => expiry = 0
        /\ n > 0 => count > 0 /\ expiry = ts[n] + window
        /\ \A k \in 1..n : ts[k] \in Nat
        /\ n - count > 0 => ts[n - count + 1] >= ts[n - count] + window
        /\ Close(n - count + 1)
    BY DEF Tracks
  <1>2. CASE limit = 0
    BY <1>2 DEF Chained
  <1>3. ASSUME limit > 0, alive >= limit
        PROVE  n >= limit /\ now < ts[n] + window /\ Close(n - limit + 1)
    <2>1. count = limit /\ now < expiry /\ n > 0
      BY <1>1, <1>3
    <2> QED
      BY <1>1, <2>1
  <1>4. ASSUME limit > 0, n >= limit, now < ts[n] + window, Close(n - limit + 1)
        PROVE  alive >= limit
    <2>1. alive = count /\ count > 0
      BY <1>1, <1>4
    <2>2. SUFFICES ASSUME count < limit PROVE FALSE
      BY <2>1
    <2>3. n - count \in (n - limit + 1)..(n - 1) /\ n - count \in 1..n /\ n - count + 1 \in 1..n
      BY <1>1, <1>4, <2>1, <2>2
    <2>4. ts[n - count + 1] < ts[n - count] + window
      BY <1>4, <2>3
    <2> QED
      BY <1>1, <2>3, <2>4
  <1> QED
    BY <1>2, <1>3, <1>4 DEF Chained

InStep(counter, times, limit, window, now) ==
  Tracks(counter.count, counter.expiry, times, Len(times), limit, window, now)

\* The same of a counter as the script keeps it.
LEMMA InStepGrant ==
  ASSUME NEW c \in Counter, NEW ts \in Seq(Nat), clock \in Nat,
         NEW limit \in Nat, NEW window \in Nat,
         Count(c) < limit, InStep(c, ts, limit, window, clock)
  PROVE  /\ Incremented(c, window) \in Counter
         /\ InStep(Incremented(c, window), Append(ts, clock), limit, window, clock)
  <1>1. c.count \in Nat /\ c.expiry \in Nat
    BY DEF Counter
  <1>2. Count(c) = (IF clock < c.expiry THEN c.count ELSE 0) /\ Count(c) \in Nat
    BY <1>1 DEF Count
  <1>3. /\ Len(ts) \in Nat /\ Len(Append(ts, clock)) = Len(ts) + 1
        /\ Append(ts, clock)[Len(ts) + 1] = clock
        /\ \A k \in 1..Len(ts) : Append(ts, clock)[k] = ts[k]
    OBVIOUS
  <1>4. Tracks(c.count, c.expiry, ts, Len(ts), limit, window, clock)
    BY DEF InStep
  <1>5. Tracks(Count(c) + 1, clock + window, Append(ts, clock), Len(ts) + 1, limit, window, clock)
    BY <1>1, <1>2, <1>3, <1>4, TracksGrant
  <1>6. /\ Incremented(c, window).count = Count(c) + 1
        /\ Incremented(c, window).expiry = clock + window
        /\ Incremented(c, window) \in Counter
    BY <1>2 DEF Incremented, Counter
  <1> QED
    BY <1>3, <1>5, <1>6 DEF InStep

LEMMA InStepChain ==
  ASSUME NEW c \in Counter, NEW ts \in Seq(Nat), clock \in Nat,
         NEW limit \in Nat, NEW window \in Nat, InStep(c, ts, limit, window, clock)
  PROVE  Count(c) \in Nat /\ (Count(c) >= limit <=> Chain(ts, limit, window))
  <1>1. c.count \in Nat /\ c.expiry \in Nat
    BY DEF Counter
  <1>2. Count(c) = (IF clock < c.expiry THEN c.count ELSE 0) /\ Count(c) \in Nat
    BY <1>1 DEF Count
  <1>3. Tracks(c.count, c.expiry, ts, Len(ts), limit, window, clock) /\ Len(ts) \in Nat
    BY DEF InStep
  <1>4. Count(c) >= limit <=> Chained(ts, Len(ts), limit, window, clock)
    BY <1>1, <1>2, <1>3, TracksChain
  <1> QED
    BY <1>2, <1>4 DEF Chain, Chained

\* The inductive invariant: both counters of every address are in step with what was allowed.
RateInv ==
  /\ RateTypeOK
  /\ \A ip \in Ip : /\ InStep(hourly[ip], granted[ip], HourlyLimit, Hour, clock)
                    /\ InStep(daily[ip], granted[ip], DailyLimit, Day, clock)

LEMMA RateInvInit == RateInit => RateInv
  <1> SUFFICES ASSUME RateInit PROVE RateInv
    OBVIOUS
  <1>1. RateTypeOK
    BY DEF RateInit, RateTypeOK, NoCounter, Counter
  <1>2. ASSUME NEW limit \in Nat, NEW window \in Nat
        PROVE  InStep(NoCounter, <<>>, limit, window, clock)
    BY DEF InStep, Tracks, NoCounter
  <1> QED
    BY <1>1, <1>2, RateAssumption DEF RateInit, RateInv

LEMMA RateInvStep == RateInv /\ [RateNext]_rateVars => RateInv'
  <1> SUFFICES ASSUME RateInv, [RateNext]_rateVars PROVE RateInv'
    OBVIOUS
  <1>1. CASE UNCHANGED rateVars
    BY <1>1 DEF RateInv, RateTypeOK, rateVars
  <1>2. CASE Elapse
    <2>1. RateTypeOK' /\ clock \in Nat /\ clock' = clock + 1
      BY <1>2 DEF RateInv, RateTypeOK, Elapse
    <2>2. ASSUME NEW c \in Counter, NEW ts \in Seq(Nat), NEW limit, NEW window,
                 InStep(c, ts, limit, window, clock)
          PROVE  InStep(c, ts, limit, window, clock')
      <3>1. \A k \in 1..Len(ts) : ts[k] \in Nat
        OBVIOUS
      <3> QED
        BY <2>1, <2>2, <3>1 DEF InStep, Tracks
    <2> QED
      BY <1>2, <2>1, <2>2 DEF RateInv, RateTypeOK, Elapse
  <1>3. ASSUME NEW ip \in Ip, Grant(ip) PROVE RateInv'
    <2>1. /\ clock \in Nat /\ clock' = clock /\ granted[ip] \in Seq(Nat)
          /\ hourly[ip] \in Counter /\ daily[ip] \in Counter
      BY <1>3 DEF RateInv, RateTypeOK, Grant
    <2>2. /\ Incremented(hourly[ip], Hour) \in Counter
          /\ InStep(Incremented(hourly[ip], Hour), Append(granted[ip], clock), HourlyLimit, Hour, clock)
      BY <1>3, <2>1, InStepGrant, RateAssumption DEF RateInv, Grant, Allowed
    <2>3. /\ Incremented(daily[ip], Day) \in Counter
          /\ InStep(Incremented(daily[ip], Day), Append(granted[ip], clock), DailyLimit, Day, clock)
      BY <1>3, <2>1, InStepGrant, RateAssumption DEF RateInv, Grant, Allowed
    <2>4. RateTypeOK'
      BY <1>3, <2>1, <2>2, <2>3 DEF RateInv, RateTypeOK, Grant
    <2>5. ASSUME NEW other \in Ip
          PROVE  /\ InStep(hourly'[other], granted'[other], HourlyLimit, Hour, clock')
                 /\ InStep(daily'[other], granted'[other], DailyLimit, Day, clock')
      BY <1>3, <2>1, <2>2, <2>3 DEF RateInv, RateTypeOK, Grant
    <2> QED
      BY <2>4, <2>5 DEF RateInv
  <1> QED
    BY <1>1, <1>2, <1>3 DEF RateNext

\* Whatever else a step of acquireDemo, the route manager, a client or a restart does, the rate
\* limiter takes one of its own steps or none.
LEMMA AcquireDemoRefinesRate == Spec => RateSpec
  <1>1. Init => RateInit
    BY DEF Init
  <1>2. [Next]_vars => [RateNext]_rateVars
    BY DEF Next, vars, RateNext, rateVars, Elapse, CheckAndIncrementRateLimit, Deny, Request,
           AcquireFromPool, Manage, Respond, RouteFailed, AnswerRouteFailed, Finish, ClientLeaves,
           Restart
  <1> QED
    BY <1>1, <1>2, PTL DEF Spec, RateSpec

LEMMA RateInvHolds == Spec => []RateInv
  <1>1. RateSpec => []RateInv
    BY RateInvInit, RateInvStep, PTL DEF RateSpec
  <1> QED
    BY <1>1, AcquireDemoRefinesRate, PTL

\* No address gets more than HourlyLimit requests allowed in any hour.
THEOREM HourlyLimitHolds == Spec => []HourlyLimitKept
  <1>1. RateInv => HourlyLimitKept
    BY DEF RateInv, InStep, Tracks, HourlyLimitKept, Spaced
  <1> QED
    BY <1>1, RateInvHolds, PTL

\* No address gets more than DailyLimit requests allowed in any day.
THEOREM DailyLimitHolds == Spec => []DailyLimitKept
  <1>1. RateInv => DailyLimitKept
    BY DEF RateInv, InStep, Tracks, DailyLimitKept, Spaced
  <1> QED
    BY <1>1, RateInvHolds, PTL

\* A request is denied after a chain of allowed requests, and only then.
THEOREM DeniedAfterChainHolds == Spec => []DeniedAfterChain
  <1>1. ASSUME RateInv PROVE DeniedAfterChain
    <2>1. SUFFICES ASSUME NEW ip \in Ip
                   PROVE  ~Allowed(ip) <=> \/ Chain(granted[ip], HourlyLimit, Hour)
                                           \/ Chain(granted[ip], DailyLimit, Day)
      BY DEF DeniedAfterChain
    <2>2. /\ clock \in Nat /\ granted[ip] \in Seq(Nat)
          /\ hourly[ip] \in Counter /\ daily[ip] \in Counter
      BY <1>1 DEF RateInv, RateTypeOK
    <2>3. /\ Count(hourly[ip]) \in Nat
          /\ Count(hourly[ip]) >= HourlyLimit <=> Chain(granted[ip], HourlyLimit, Hour)
      BY <1>1, <2>2, InStepChain, RateAssumption DEF RateInv
    <2>4. /\ Count(daily[ip]) \in Nat
          /\ Count(daily[ip]) >= DailyLimit <=> Chain(granted[ip], DailyLimit, Day)
      BY <1>1, <2>2, InStepChain, RateAssumption DEF RateInv
    <2> QED
      BY <2>3, <2>4, RateAssumption DEF Allowed
  <1> QED
    BY <1>1, RateInvHolds, PTL

=============================================================================
