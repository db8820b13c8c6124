----------------------------- MODULE RateLimiter -----------------------------
(***************************************************************************)
(* The per-address token-bucket rate limiter and its two kinds of sweep:   *)
(* src/middleware/rate_limiter.rs.                                         *)
(*                                                                         *)
(* Time is the monotonic clock behind Instant, in ticks of                 *)
(* 1 / (rate_rps * Cost) seconds, and tokens are counted in units of       *)
(* 1 / Cost token: a bucket gains one unit per tick, one second is         *)
(* Capacity ticks, and the f64 arithmetic of the code is exact here.       *)
(*                                                                         *)
(* DashMap locks one shard at a time: an entry() with the closure that     *)
(* follows it is one step, a retain() is one step per bucket.              *)
(***************************************************************************)
EXTENDS Naturals

CONSTANTS
  Ip,            \* client addresses
  Worker,        \* threads that run check()
  EvictionTask,  \* the task start_eviction_task spawns
  Cost,          \* units in one token
  Capacity,      \* rate_rps tokens, in units
  StaleTtl,      \* STALE_BUCKET_TTL, in ticks
  SweepInterval, \* period of the eviction task, in ticks
  EvictEvery,    \* EVICT_EVERY_N_CHECKS
  Start,         \* the clock when the limiter is created
  MaxTime,       \* bound on the clock
  MaxChecks      \* bound on the number of calls

ASSUME LimiterConstants ==
  /\ Cost \in Nat \ {0} /\ Capacity \in Nat /\ SweepInterval \in Nat \ {0}
  /\ EvictEvery \in Nat \ {0}
  /\ Start \in Nat /\ MaxTime \in Nat /\ MaxChecks \in Nat
  /\ EvictionTask \notin Worker

(* An empty bucket fills up in one second; STALE_BUCKET_TTL is 300.        *)
ASSUME TtlCoversRefill == StaleTtl \in Nat /\ StaleTtl >= Capacity

VARIABLES
  now,          \* the monotonic clock
  buckets,      \* the DashMap: a bucket, or NoBucket
  check_count,  \* calls to check() so far
  call,         \* what each worker is doing
  sweep,        \* the evict_stale() each sweeper is in
  next_sweep,   \* when the eviction task's interval ticks next
  verdict,      \* what the last check() answered, and for whom
  window        \* history: units admitted since an arbitrary moment

limiterVars == <<now, buckets, check_count, call, sweep, next_sweep, verdict, window>>

Sweeper == Worker \cup {EvictionTask}

NoBucket == [tokens |-> 0, last_refill |-> 0, present |-> FALSE]

Bucket(tokens, last_refill) ==
  [tokens |-> tokens, last_refill |-> last_refill, present |-> TRUE]

Idle == [at |-> "idle"]

NoSweep == [cutoff |-> 0, todo |-> {}]

Capped(units) == IF units < Capacity THEN units ELSE Capacity

(* The units a request for ip would find now.                              *)
Level(ip) ==
  IF buckets[ip].present
    THEN Capped(buckets[ip].tokens + (now - buckets[ip].last_refill))
    ELSE Capacity

Promise == INSTANCE TokenBuckets WITH level <- [ip \in Ip |-> Level(ip)]

LimiterTypeOK ==
  /\ now \in Nat
  /\ buckets \in [Ip -> [tokens : 0..Capacity, last_refill : Nat,
                         present : BOOLEAN]]
  /\ check_count \in Nat
  /\ call \in [Worker -> {Idle} \cup [at : {"evict", "entry"}, ip : Ip]]
  /\ sweep \in [Sweeper -> [cutoff : Nat, todo : SUBSET Ip]]
  /\ next_sweep \in Nat
  /\ window \in [start : Nat, spent : [Ip -> Nat]]

LimiterInit ==
  /\ now = Start
  /\ buckets = [ip \in Ip |-> NoBucket]
  /\ check_count = 0
  /\ call = [w \in Worker |-> Idle]
  /\ sweep = [s \in Sweeper |-> NoSweep]
  /\ next_sweep = Start + SweepInterval
  /\ verdict = Promise!NoVerdict
  /\ window = [start |-> Start, spent |-> [ip \in Ip |-> 0]]

-----------------------------------------------------------------------------
(* evict_stale().                                                          *)

(* Variant: while the clock has not reached the TTL, the cutoff is now.    *)
BeginSweepFromNow(s) ==
  sweep' = [sweep EXCEPT ![s] =
              [cutoff |-> IF now < StaleTtl THEN now ELSE now - StaleTtl,
               todo |-> Ip]]

(* The start of a sweep: nothing to do while the clock has not reached the *)
(* TTL, otherwise the cutoff is fixed before the first bucket is visited.  *)
BeginSweep(s) ==
  sweep' = [sweep EXCEPT ![s] =
              IF now < StaleTtl THEN NoSweep
              ELSE [cutoff |-> now - StaleTtl, todo |-> Ip]]

(* retain() visits the bucket of ip.                                       *)
SweepBucket(s, ip) ==
  /\ ip \in sweep[s].todo
  /\ buckets' = [buckets EXCEPT ![ip] =
                   IF @.last_refill >= sweep[s].cutoff THEN @ ELSE NoBucket]
  /\ sweep' = [sweep EXCEPT ![s].todo = @ \ {ip}]
  /\ UNCHANGED <<now, check_count, call, next_sweep, verdict, window>>

(* Variant: the interval ticks, but the sweep is forgotten.                *)
EvictionTickIdle ==
  /\ now >= next_sweep
  /\ next_sweep' = next_sweep + SweepInterval
  /\ UNCHANGED <<now, buckets, check_count, call, sweep, verdict, window>>

(* The eviction task, woken by its interval.                               *)
EvictionTick ==
  /\ now >= next_sweep
  /\ sweep[EvictionTask].todo = {}
  /\ BeginSweep(EvictionTask)
  /\ next_sweep' = next_sweep + SweepInterval
  /\ UNCHANGED <<now, buckets, check_count, call, verdict, window>>

-----------------------------------------------------------------------------
(* check(ip), called by a worker.                                          *)

EvictionDue(n) == n > 0 /\ n % EvictEvery = 0

CheckBegin(w, ip) ==
  /\ call[w] = Idle
  /\ check_count < MaxChecks
  /\ check_count' = check_count + 1
  /\ IF EvictionDue(check_count)
       THEN /\ call' = [call EXCEPT ![w] = [at |-> "evict", ip |-> ip]]
            /\ BeginSweep(w)
       ELSE /\ call' = [call EXCEPT ![w] = [at |-> "entry", ip |-> ip]]
            /\ UNCHANGED sweep
  /\ UNCHANGED <<now, buckets, next_sweep, verdict, window>>

CheckSwept(w) ==
  /\ call[w].at = "evict"
  /\ sweep[w].todo = {}
  /\ call' = [call EXCEPT ![w].at = "entry"]
  /\ UNCHANGED <<now, buckets, check_count, sweep, next_sweep, verdict,
                 window>>

(* Variant: last_refill moves only when a token is taken, so that the same *)
(* time refills a bucket again after each refusal.                         *)
CheckConsumeRefillingTwice(w) ==
  /\ call[w].at = "entry"
  /\ LET ip == call[w].ip
         bucket == IF buckets[ip].present THEN buckets[ip]
                                          ELSE Bucket(Capacity, now)
         tokens == Capped(bucket.tokens + (now - bucket.last_refill))
         ok == tokens >= Cost
     IN  /\ buckets' = [buckets EXCEPT ![ip] =
                          IF ok THEN Bucket(tokens - Cost, now)
                                ELSE Bucket(tokens, bucket.last_refill)]
         /\ verdict' = [ip |-> ip, ok |-> ok]
         /\ window' = IF ok THEN [window EXCEPT !.spent[ip] = @ + Cost]
                            ELSE window
  /\ call' = [call EXCEPT ![w] = Idle]
  /\ UNCHANGED <<now, check_count, sweep, next_sweep>>

(* entry(ip).or_insert_with(TokenBucket::new).try_consume(), all under the *)
(* lock of the shard: refill up to the capacity, then take a token if      *)
(* there is one.                                                           *)
CheckConsume(w) ==
  /\ call[w].at = "entry"
  /\ LET ip == call[w].ip
         bucket == IF buckets[ip].present THEN buckets[ip]
                                          ELSE Bucket(Capacity, now)
         tokens == Capped(bucket.tokens + (now - bucket.last_refill))
         ok == tokens >= Cost
     IN  /\ buckets' = [buckets EXCEPT ![ip] =
                          Bucket(IF ok THEN tokens - Cost ELSE tokens, now)]
         /\ verdict' = [ip |-> ip, ok |-> ok]
         /\ window' = IF ok THEN [window EXCEPT !.spent[ip] = @ + Cost]
                            ELSE window
  /\ call' = [call EXCEPT ![w] = Idle]
  /\ UNCHANGED <<now, check_count, sweep, next_sweep>>

-----------------------------------------------------------------------------

(* Time passes.  The eviction task's sweep takes less than a tick; a sweep *)
(* a worker runs inside check() may take any time.                         *)
Tick ==
  /\ now < MaxTime
  /\ now < next_sweep
  /\ sweep[EvictionTask].todo = {}
  /\ now' = now + 1
  /\ UNCHANGED <<buckets, check_count, call, sweep, next_sweep, verdict,
                 window>>

(* An observer starts to count.                                            *)
StartWindow ==
  /\ window' = [start |-> now, spent |-> [ip \in Ip |-> 0]]
  /\ UNCHANGED <<now, buckets, check_count, call, sweep, next_sweep, verdict>>

LimiterNext ==
  \/ Tick
  \/ EvictionTick
  \/ \E s \in Sweeper, ip \in Ip : SweepBucket(s, ip)
  \/ \E w \in Worker : \/ \E ip \in Ip : CheckBegin(w, ip)
                       \/ CheckSwept(w)
                       \/ CheckConsume(w)
  \/ StartWindow

LimiterSpec == LimiterInit /\ [][LimiterNext]_limiterVars

-----------------------------------------------------------------------------
(* Properties.                                                             *)

(* The promise of a rate limit: over any interval, whenever it starts, the *)
(* requests admitted for one address take no more than a full bucket plus  *)
(* what is refilled in that interval, although buckets are evicted and     *)
(* recreated full meanwhile.                                               *)
WindowBound ==
  \A ip \in Ip : window.spent[ip] <= Capacity + (now - window.start)

(* Sweeping is invisible: the limiter answers exactly as one that never    *)
(* forgets a bucket (module TokenBuckets), so an eviction never gives a    *)
(* client tokens back, and never takes any away.                           *)
ImplementsTokenBuckets == Promise!Spec

(* "The background task guarantees at most 60 s of extra memory per idle   *)
(* IP" (start_eviction_task): no bucket stays longer than the TTL and one  *)
(* interval after its last use.                                            *)
IdleBucketBound ==
  \A ip \in Ip : buckets[ip].present =>
     now - buckets[ip].last_refill <= StaleTtl + SweepInterval
==============================================================================
