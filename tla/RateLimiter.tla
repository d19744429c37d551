---------------------------- MODULE RateLimiter ----------------------------
(***************************************************************************)
(* The rate limit in front of POST /acquire: a script that looks at two    *)
(* counters of the client's address and, if neither is at its limit, in-   *)
(* crements both and renews both expiries.  A script is one step of        *)
(* Valkey, and a key is gone as soon as its expiry is reached.             *)
(***************************************************************************)
EXTENDS Integers, Sequences

CONSTANTS
  Ip,            \* addresses of clients
  HourlyLimit,   \* RATE_LIMIT_HOURLY
  DailyLimit,    \* RATE_LIMIT_DAILY
  Hour, Day,     \* the two expiries, 3600 and 86400 seconds in the code
  MaxClock       \* BOUND: the last second

ASSUME RateAssumption ==
  /\ HourlyLimit \in Nat /\ DailyLimit \in Nat
  /\ Hour \in Nat \ {0} /\ Day \in Nat \ {0}
  /\ MaxClock \in Nat

VARIABLES
  clock,    \* the time of the Valkey server
  hourly,   \* ratelimit:hour:{ip}: its value and when it expires
  daily,    \* ratelimit:day:{ip}
  granted   \* kept for the properties: when each allowed request of an address was allowed

rateVars == <<clock, hourly, daily, granted>>

Counter == [count: Nat, expiry: Nat]
NoCounter == [count |-> 0, expiry |-> 0]

RateTypeOK ==
  /\ clock \in Nat
  /\ hourly \in [Ip -> Counter] /\ daily \in [Ip -> Counter]
  /\ granted \in [Ip -> Seq(Nat)]

RateInit ==
  /\ clock = 0
  /\ hourly = [ip \in Ip |-> NoCounter] /\ daily = [ip \in Ip |-> NoCounter]
  /\ granted = [ip \in Ip |-> <<>>]

Elapse ==
  /\ clock < MaxClock
  /\ clock' = clock + 1
  /\ UNCHANGED <<hourly, daily, granted>>

\* GET, where no key counts as 0.
Count(counter) == IF clock < counter.expiry THEN counter.count ELSE 0

\* Mutant of Incremented: the expiry is set by the first request only.
IncrementedOnce(counter, ttl) ==
  [count |-> Count(counter) + 1,
   expiry |-> IF Count(counter) = 0 THEN clock + ttl ELSE counter.expiry]

\* INCR and EXPIRE.
Incremented(counter, ttl) == [count |-> Count(counter) + 1, expiry |-> clock + ttl]

\* Mutant of Allowed: one request too many.
AllowedAtLimit(ip) == Count(hourly[ip]) <= HourlyLimit /\ Count(daily[ip]) < DailyLimit

\* Mutant of Allowed: the daily counter is not looked at.
AllowedByHour(ip) == Count(hourly[ip]) < HourlyLimit

Allowed(ip) == Count(hourly[ip]) < HourlyLimit /\ Count(daily[ip]) < DailyLimit

\* CheckAndIncrementRateLimit answers 1 ...
Grant(ip) ==
  /\ Allowed(ip)
  /\ hourly' = [hourly EXCEPT ![ip] = Incremented(@, Hour)]
  /\ daily' = [daily EXCEPT ![ip] = Incremented(@, Day)]
  /\ granted' = [granted EXCEPT ![ip] = Append(@, clock)]
  /\ UNCHANGED clock

\* ... or 0.
Deny(ip) == ~Allowed(ip) /\ UNCHANGED rateVars

RateNext == Elapse \/ \E ip \in Ip : Grant(ip)

RateSpec == RateInit /\ [][RateNext]_rateVars

-----------------------------------------------------------------------------
\* Of the requests that were allowed, those that lie limit apart lie a window apart: in no
\* time of that length are more than limit allowed.
Spaced(times, limit, window) ==
  \A j, k \in DOMAIN times : k = j + limit => times[k] >= times[j] + window

\* No address is allowed more than HourlyLimit requests in any hour or more than DailyLimit in
\* any day, wherever the hour begins, although the counters are not sliding windows
\* (checkAndIncrementRateLimitScript).
HourlyLimitKept == \A ip \in Ip : Spaced(granted[ip], HourlyLimit, Hour)
DailyLimitKept == \A ip \in Ip : Spaced(granted[ip], DailyLimit, Day)

\* The last limit requests followed each other, and are followed by now, within the window.
Chain(times, limit, window) ==
  LET n == Len(times) IN
  /\ n >= limit
  /\ limit > 0 => clock < times[n] + window
  /\ \A k \in (n - limit + 1)..(n - 1) : times[k + 1] < times[k] + window

\* When a request is denied.  Every allowed request renews the expiry, so it takes no
\* hour with too many requests: a client is denied once its last HourlyLimit
\* requests came less than an hour apart each, and allowed again when it
\* stayed away for an hour; the same holds for the day.
DeniedAfterChain ==
  \A ip \in Ip :
    ~Allowed(ip) <=> \/ Chain(granted[ip], HourlyLimit, Hour)
                     \/ Chain(granted[ip], DailyLimit, Day)

=============================================================================
