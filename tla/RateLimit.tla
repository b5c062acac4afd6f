------------------------------ MODULE RateLimit ------------------------------
(* The token buckets in front of the routes.  RateLimitMiddleware asks the  *)
(* buckets of a request one after the other; each question reads the clock  *)
(* in Python and then runs one Lua script in Redis, so it may arrive with a *)
(* time that is already past.                                               *)
EXTENDS Integers, Sequences, FiniteSetsExt

CONSTANTS Clients,
          Buckets,      \* the buckets of a request, in the order they are asked
          Capacity, Refill, Cost,  \* in units of a token; Refill per tick
          Lifetime,     \* ticks after which Redis forgets a bucket
          MaxClock,     \* bound
          MaxDelay      \* bound: the delay of one bucket's scripts, in tokens

BucketIds == {Buckets[i] : i \in DOMAIN Buckets}

(* The key outlives two windows, long enough for any configured burst.      *)
ASSUME RefillAssumption ==
  /\ Buckets \in Seq(BucketIds) \ {<<>>}
  /\ Capacity \in [BucketIds -> Nat] /\ Refill \in [BucketIds -> Nat]
  /\ Cost \in Nat /\ Lifetime \in Nat /\ MaxClock \in Nat \ {0} /\ MaxDelay \in Nat
  /\ \A b \in BucketIds : Capacity[b] <= Refill[b] * Lifetime

VARIABLES clock,
          bucket,    \* tokens, last_refill and the time of the last touch
          ask,       \* where each client's request is
          allowance, \* history: what an ideal bucket would still grant
          delay      \* history: what was refilled while scripts were on their way

rateVars == <<clock, bucket, ask, allowance, delay>>

Gone == [tokens |-> 0, last |-> 0, touched |-> 0]
Asking(pc, i, now) == [pc |-> pc, i |-> i, now |-> now]
Resting == Asking("idle", 1, 0)

RateInit ==
  /\ clock = 1
  /\ bucket = [b \in BucketIds |-> Gone]
  /\ ask = [c \in Clients |-> Resting]
  /\ allowance = Capacity
  /\ delay = [b \in BucketIds |-> 0]

Asked(c) == Buckets[ask[c].i]

-----------------------------------------------------------------------------
(* rate_limit_lua.lua: refill for the time elapsed, never above the burst.  *)
Unbounded(n, b) == n
Capped(n, b) == Min({n, Capacity[b]})

Level(b, now) ==
  IF bucket[b] = Gone THEN Capacity[b]
  ELSE LET elapsed == IF now > bucket[b].last THEN now - bucket[b].last ELSE 0
       IN Capped(bucket[b].tokens + elapsed * Refill[b], b)

(* A refusal is written back like a grant, last_refill even when it goes    *)
(* back: a script that comes late has its delay refilled once more.  The    *)
(* ideal bucket fills by time alone.                                        *)
Write(b, now, charge, spent) ==
  /\ bucket' = [bucket EXCEPT ![b] = [tokens |-> Level(b, now) - charge, last |-> now,
                                     touched |-> clock]]
  /\ allowance' = [allowance EXCEPT ![b] = @ - spent]
  /\ delay' = [delay EXCEPT ![b] = @ + Refill[b] * (clock - now)]
  /\ delay'[b] <= MaxDelay

Sufficient(b, now) == Level(b, now) >= Cost

-----------------------------------------------------------------------------
(* check_all: the first bucket that refuses ends the questions.             *)
ReadClock(c) ==
  /\ ask[c].pc \in {"idle", "next"}
  /\ ask' = [ask EXCEPT ![c] = Asking("consume", @.i, clock)]
  /\ UNCHANGED <<clock, bucket, allowance, delay>>

Grant(c) ==
  /\ ask[c].pc \in {"consume", "retry"}
  /\ Sufficient(Asked(c), ask[c].now)
  /\ Write(Asked(c), ask[c].now, Cost, Cost)
  /\ ask' = [ask EXCEPT ![c] = IF @.i = Len(Buckets) THEN Resting
                              ELSE Asking("next", @.i + 1, 0)]
  /\ UNCHANGED clock

Refuse(c) ==
  /\ ask[c].pc \in {"consume", "retry"}
  /\ ~Sufficient(Asked(c), ask[c].now)
  /\ Write(Asked(c), ask[c].now, 0, 0)
  /\ ask' = [ask EXCEPT ![c] = Resting]
  /\ UNCHANGED clock

(* evalsha raised: with the script never run, or with its answer lost.  The *)
(* script is sent again with the same time.                                 *)
EvalShaFails(c) ==
  /\ ask[c].pc = "consume"
  /\ \/ UNCHANGED <<bucket, allowance, delay>>
     \/ Write(Asked(c), ask[c].now,
              IF Sufficient(Asked(c), ask[c].now) THEN Cost ELSE 0, 0)
  /\ ask' = [ask EXCEPT ![c] = Asking("retry", @.i, @.now)]
  /\ UNCHANGED clock

(* eval raised, too: the middleware answers 503 or lets the request pass    *)
(* unchecked, by path.                                                      *)
Unreachable(c) ==
  /\ ask[c].pc = "retry"
  /\ ask' = [ask EXCEPT ![c] = Resting]
  /\ UNCHANGED <<clock, bucket, allowance, delay>>

-----------------------------------------------------------------------------
Tick ==
  /\ clock < MaxClock
  /\ clock' = clock + 1
  /\ allowance' = [b \in BucketIds |-> Min({Capacity[b], allowance[b] + Refill[b]})]
  /\ UNCHANGED <<bucket, ask, delay>>

BucketExpires ==
  /\ \E b \in BucketIds :
       /\ bucket[b] # Gone /\ clock >= bucket[b].touched + Lifetime
       /\ bucket' = [bucket EXCEPT ![b] = Gone]
  /\ UNCHANGED <<clock, ask, allowance, delay>>

RateNext ==
  \/ \E c \in Clients :
       ReadClock(c) \/ Grant(c) \/ Refuse(c) \/ EvalShaFails(c) \/ Unreachable(c)
  \/ Tick \/ BucketExpires

RateSpec == RateInit /\ [][RateNext]_rateVars

-----------------------------------------------------------------------------
RateTypeOK ==
  /\ clock \in 1 .. MaxClock
  /\ \A b \in BucketIds : bucket[b].tokens \in 0 .. Capacity[b] /\ bucket[b].last <= clock
  /\ \A c \in Clients : ask[c].i \in DOMAIN Buckets /\ ask[c].now <= clock

(* In any stretch of time a bucket grants no more than its burst, what is   *)
(* refilled meanwhile and, for each script that came late, what its delay   *)
(* refills: exactly the ideal bucket when none did, however requests        *)
(* interleave, replies are lost and Redis forgets the bucket.               *)
BurstIsBounded == \A b \in BucketIds : allowance[b] + delay[b] >= 0
=============================================================================
