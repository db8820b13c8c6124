---------------------------- MODULE MCSharedState ----------------------------
(* ItemsApi and RateLimiter, with interchangeable handlers, items and      *)
(* addresses.  They share no state, so that nothing is lost by looking at  *)
(* behaviours in which only one of the two moves.                          *)
EXTENDS ItemsApi, RateLimiter, TLC

VARIABLE moving   \* which of the two moves

Symmetric == Permutations(Handler) \cup Permutations(Item) \cup Permutations(Ip)

LimiterStill == moving = "items" /\ UNCHANGED <<moving, limiterVars>>
ItemsStill == moving = "limiter" /\ UNCHANGED <<moving, vars>>

(* The steps of Next.                                                      *)
ItemsNext ==
  \/ \E h \in Handler, i \in Item, op \in {"list", "get"} : LimiterStill /\ BeginRead(h, op, i)
  \/ \E h \in Handler, i \in Item : LimiterStill /\ BeginCreate(h, i)
  \/ \E h \in Handler, i \in Item : LimiterStill /\ BeginDelete(h, i)
  \/ \E h \in Handler : LimiterStill /\ Refused(h)
  \/ \E h \in Handler : LimiterStill /\ Execute(h)
  \/ \E h \in Handler : LimiterStill /\ Reply(h)
  \/ \E h \in Handler : LimiterStill /\ Fails(h)
  \/ \E h \in Handler : LimiterStill /\ Timeout(h)
  \/ \E h \in Handler : LimiterStill /\ Vanishes(h)
  \/ LimiterStill /\ Finished

(* The steps of LimiterNext.                                               *)
ChecksNext ==
  \/ ItemsStill /\ Tick
  \/ ItemsStill /\ EvictionTick
  \/ \E s \in Sweeper, ip \in Ip : ItemsStill /\ SweepBucket(s, ip)
  \/ \E w \in Worker, ip \in Ip : ItemsStill /\ CheckBegin(w, ip)
  \/ \E w \in Worker : ItemsStill /\ CheckSwept(w)
  \/ \E w \in Worker : ItemsStill /\ CheckConsume(w)
  \/ ItemsStill /\ StartWindow

SharedInit == Init /\ LimiterInit /\ moving \in {"items", "limiter"}
SharedSpec == SharedInit /\ [][ItemsNext \/ ChecksNext]_<<moving, vars, limiterVars>>
==============================================================================
