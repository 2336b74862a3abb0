----------------------------- MODULE RateLimit -----------------------------
(***************************************************************************)
(* The fixed-window rate limiters of the provider (rate-limit.ts: memory   *)
(* and Redis) and of the console's public surface (rate-limit.ts: memory   *)
(* and Postgres), for the requests of one key.  The memory and Postgres    *)
(* limiters open a window with the first request that finds none and take  *)
(* a decision in one step.  The Redis limiter counts in a key named after  *)
(* the aligned window of the caller's clock: INCR, then PEXPIRE by the     *)
(* request that found the key absent.  Either may be lost, or arrive after *)
(* the window, or even the key, is gone.                                   *)
(*                                                                         *)
(* A console limit of 0 switches a limiter off and is left out.            *)
(***************************************************************************)
EXTENDS Integers, FiniteSets, FiniteSetsExt

CONSTANTS
  Limiters,    \* subset of {"memory", "postgres", "redis"}
  Requests,    \* requests in flight at once with the Redis limiter
  MaxRequests, \* maxRequests
  Window,      \* windowMs
  MaxDelay,    \* the longest a Redis request stays in flight
  MaxCount,    \* bound: requests counted at one instant
  MaxTime,     \* bound: the clock stops here
  Nothing

ASSUME LimitsAssumption ==
  /\ Limiters \subseteq {"memory", "postgres", "redis"}
  /\ MaxRequests \in Nat \ {0} /\ Window \in Nat \ {0} /\ MaxDelay \in 0..Window
  /\ MaxCount \in Nat /\ MaxTime \in Nat
  /\ IsFiniteSet(Requests)

Times == 0..MaxTime

Buckets == [count : Nat, resetAt : Nat]
Keys    == [count : Nat, expiresAt : Nat]
Calls   == [at : {"incr", "expire", "decide"}, arrived : Times, count : Nat]

ASSUME NothingAssumption == Nothing \notin Buckets \cup Keys \cup Calls

VARIABLES
  limiter,   \* which one is configured
  now,       \* the clock
  bucket,    \* memory, Postgres: [count, resetAt], or Nothing
  keys,      \* Redis: window -> [count, expiresAt], or Nothing; 0 is never
  request,   \* Redis: request -> [at, arrived, count] while in flight
  counted,   \* history: requests counted, by the time they are judged by
  admitted,  \* history: requests let through
  denied,    \* history: times of requests that were turned away
  late       \* history: windows of Redis that an INCR reached after their end

history     == <<counted, admitted, denied, late>>
limiterVars == <<limiter, now, bucket, keys, request, history>>

LimiterInit ==
  /\ limiter \in Limiters
  /\ now = 0
  /\ bucket = Nothing
  /\ keys = [w \in Times |-> Nothing]
  /\ request = [r \in Requests |-> Nothing]
  /\ counted = [t \in Times |-> 0]
  /\ admitted = [t \in Times |-> 0]
  /\ denied = {}
  /\ late = {}

Count(t) == counted[t] < MaxCount /\ counted' = [counted EXCEPT ![t] = @ + 1]
Admit(t) == admitted' = [admitted EXCEPT ![t] = @ + 1] /\ UNCHANGED denied
Deny(t)  == denied' = denied \cup {t} /\ UNCHANGED admitted

----------------------------------------------------------------------------
(* Mutant: the comparison is turned round. *)
ClosedReversed == bucket = Nothing \/ bucket.resetAt >= now

(* No window is open: the next request opens one. *)
Closed == bucket = Nothing \/ bucket.resetAt <= now

(* InMemoryRateLimiter.check, MemoryWindowRateLimitStore.consume: a denied *)
(* request is not counted.                                                 *)
CheckMemory ==
  /\ limiter = "memory"
  /\ LET open == IF Closed THEN [count |-> 0, resetAt |-> now + Window] ELSE bucket IN
     IF open.count >= MaxRequests
       THEN bucket' = open /\ Deny(now) /\ UNCHANGED counted
       ELSE bucket' = [open EXCEPT !.count = @ + 1] /\ Count(now) /\ Admit(now)
  /\ UNCHANGED <<limiter, now, keys, request, late>>

(* PostgresWindowRateLimitStore.consume: one upsert counts the request,    *)
(* denied or not; its answer may be lost.                                  *)
CheckPostgres ==
  /\ limiter = "postgres"
  /\ bucket' = [count   |-> IF Closed THEN 1 ELSE bucket.count + 1,
                resetAt |-> IF Closed THEN now + Window ELSE bucket.resetAt]
  /\ Count(now)
  /\ \/ IF bucket'.count <= MaxRequests THEN Admit(now) ELSE Deny(now)
     \/ UNCHANGED <<admitted, denied>>
  /\ UNCHANGED <<limiter, now, keys, request, late>>

----------------------------------------------------------------------------
(* RedisRateLimiter.check *)

(* Mutant: one key for all windows. *)
WindowOnly(t) == 0

(* windowStart: the key a request that arrived at t counts in. *)
WindowOf(t) == (t \div Window) * Window

Absent(w) == keys[w] = Nothing \/ (keys[w].expiresAt # 0 /\ keys[w].expiresAt <= now)

Arrive(r) ==
  /\ limiter = "redis"
  /\ request[r] = Nothing
  /\ request' = [request EXCEPT ![r] = [at |-> "incr", arrived |-> now, count |-> 0]]
  /\ UNCHANGED <<limiter, now, bucket, keys, history>>

At(r, step) == request[r] # Nothing /\ request[r].at = step
Leave(r)    == request' = [request EXCEPT ![r] = Nothing]

(* The INCR, whose answer may be lost. *)
Incr(r) ==
  LET w     == WindowOf(request[r].arrived)
      count == IF Absent(w) THEN 1 ELSE keys[w].count + 1
  IN
  /\ At(r, "incr")
  /\ Count(request[r].arrived)
  /\ keys' = [keys EXCEPT ![w] =
       [count |-> count, expiresAt |-> IF Absent(w) THEN 0 ELSE keys[w].expiresAt]]
  /\ \/ request' = [request EXCEPT
            ![r].at = IF count = 1 THEN "expire" ELSE "decide", ![r].count = count]
     \/ Leave(r)
  /\ late' = IF now >= w + Window THEN late \cup {w} ELSE late
  /\ UNCHANGED <<limiter, now, bucket, admitted, denied>>

(* The PEXPIRE, which sets how long the key lives from now. *)
Expire(r) ==
  LET w == WindowOf(request[r].arrived) IN
  /\ At(r, "expire")
  /\ keys' = IF Absent(w) THEN keys ELSE [keys EXCEPT ![w].expiresAt = now + Window]
  /\ request' = [request EXCEPT ![r].at = "decide"]
  /\ UNCHANGED <<limiter, now, bucket, history>>

(* The caller's connection fails before INCR or PEXPIRE is carried out. *)
LoseCall(r) ==
  /\ At(r, "incr") \/ At(r, "expire")
  /\ Leave(r)
  /\ UNCHANGED <<limiter, now, bucket, keys, history>>

(* Mutant: the request that reaches the limit goes through. *)
DecideLoosely(r) ==
  /\ At(r, "decide")
  /\ IF request[r].count > MaxRequests + 1 THEN Deny(request[r].arrived) ELSE Admit(request[r].arrived)
  /\ Leave(r)
  /\ UNCHANGED <<limiter, now, bucket, keys, counted, late>>

Decide(r) ==
  /\ At(r, "decide")
  /\ IF request[r].count > MaxRequests THEN Deny(request[r].arrived) ELSE Admit(request[r].arrived)
  /\ Leave(r)
  /\ UNCHANGED <<limiter, now, bucket, keys, counted, late>>

----------------------------------------------------------------------------
(* A restart loses the windows in memory; what was let through before is   *)
(* counted with the process that let it through.                           *)
Restart ==
  /\ limiter = "memory"
  /\ bucket # Nothing
  /\ bucket' = Nothing
  /\ counted' = [t \in Times |-> 0]
  /\ admitted' = [t \in Times |-> 0]
  /\ denied' = {}
  /\ UNCHANGED <<limiter, now, keys, request, late>>

Tick ==
  /\ now < MaxTime
  /\ \A r \in Requests : request[r] # Nothing => now - request[r].arrived < MaxDelay
  /\ now' = now + 1
  /\ UNCHANGED <<limiter, bucket, keys, request, history>>

LimiterNext ==
  \/ CheckMemory
  \/ CheckPostgres
  \/ \E r \in Requests : Arrive(r) \/ Incr(r) \/ Expire(r) \/ LoseCall(r) \/ Decide(r)
  \/ Restart
  \/ Tick

LimiterSpec == LimiterInit /\ [][LimiterNext]_limiterVars

----------------------------------------------------------------------------
Span(from) == {t \in Times : from <= t /\ t < from + Window}

Within(tally, from) == SumFunctionOnSet(tally, Span(from))

(* No window lets more than MaxRequests requests through.  The exception   *)
(* is a window of Redis that an INCR reached late: its key may be gone and *)
(* count anew, once.                                                       *)
WindowQuota ==
  /\ limiter # "redis" /\ bucket # Nothing =>
       Within(admitted, bucket.resetAt - Window) <= MaxRequests
  /\ limiter = "redis" =>
       \A w \in {WindowOf(t) : t \in Times} :
         Within(admitted, w) <= IF w \in late THEN 2 * MaxRequests ELSE MaxRequests

(* Over any span of a window's length, wherever the windows began, no more *)
(* than twice MaxRequests pass the limiters in memory and in Postgres.     *)
SpanQuota ==
  limiter # "redis" => \A t \in Times : Within(admitted, t) <= 2 * MaxRequests

(* A request is turned away only if the limit was reached within a window  *)
(* around it.  So neither the requests that Postgres counts though it      *)
(* denies them nor a key of Redis whose PEXPIRE was lost lock anyone out   *)
(* of a later window.                                                      *)
DeniedOnlyWhenFull ==
  \A t \in denied : \E from \in (t - Window + 1)..t :
    Within(counted, from) >= IF limiter = "memory" THEN MaxRequests ELSE MaxRequests + 1
=============================================================================
