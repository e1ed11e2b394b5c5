--------------------------- MODULE RateLimitProofs ---------------------------
(***************************************************************************)
(* Theorems of RateLimit, for every number of threads, budgets and ticks   *)
(* and every limit.                                                        *)
(*                                                                         *)
(* Level(b, t) is what bucket b holds at time t if nobody takes from it.   *)
(* The inductive invariant bounds what was taken since any grant by the    *)
(* level that is left; so the requests on their way are at most what a     *)
(* bucket misses and takes in during the latency.  What the service's      *)
(* bucket misses and still has to expect is at most that of all buckets.   *)
(***************************************************************************)
EXTENDS RateLimit, FiniteSetTheorems, WellFoundedInduction, TLAPS

Bucket == [capacity : Nat, rate : Nat \ {0}, tokens : Nat, updated : Nat]

Grant == [at : Nat, bucket : Nat]

Level(b, t) == AtMost(b.capacity, b.tokens + (t - b.updated) * b.rate)
Missing(b, t) == b.capacity - Level(b, t)

TypeInv ==
    /\ now \in Nat
    /\ buckets \in Seq(Bucket) /\ Len(buckets) > 0
    /\ pc \in [Threads -> {"idle", "try", "reckon", "decide", "nap", "sleep"}]
    /\ held \in [Threads -> Nat]
    /\ deadline \in [Threads -> Nat]
    /\ wait \in [Threads -> Int]
    /\ wake \in [Threads -> Int]
    /\ slept \in [Threads -> Int]
    /\ grants \in Seq(Grant)
    /\ flying \subseteq DOMAIN grants
    /\ server \in Bucket
    /\ throttled \in BOOLEAN

(* Nothing was refilled, nor granted, in the future. *)
PastInv ==
    /\ \A n \in DOMAIN buckets : buckets[n].updated <= now
    /\ server.updated <= now
    /\ \A i \in DOMAIN grants : grants[i].at <= now /\ grants[i].bucket \in DOMAIN buckets
    /\ \A t \in Threads : pc[t] # "idle" => held[t] \in DOMAIN buckets

GrantsOf(n, i, j) == {k \in i .. j : grants[k].bucket = n}

(* Tokens taken since a grant, and those still there at time T, came from a  *)
(* full bucket and what has flowed in.                                       *)
SpentBy(T) ==
    \A i \in DOMAIN grants :
        LET n == grants[i].bucket
            b == buckets[n]
        IN  Cardinality(GrantsOf(n, i, Len(grants))) * Cost + Level(b, T)
                <= b.capacity + (T - grants[i].at) * b.rate

(* No request is on its way for longer than the latency. *)
FlownBy(T) == \A i \in flying : T - grants[i].at <= Latency

Discovered == AtLeast(2, Advertised)

(* The first budget is the conservative one; others are at most half of what *)
(* the service advertises, or conservative.                                  *)
RatesInv ==
    /\ server.rate = 2 * Advertised /\ server.capacity = 2 * Advertised * Minute
    /\ buckets[1].rate = Conservative
    /\ \A n \in DOMAIN buckets : /\ buckets[n].rate <= Discovered
                                  /\ buckets[n].capacity = buckets[n].rate * Minute

(* What a bucket misses, and takes in during the latency. *)
Lent(b, T) == Missing(b, T) + b.rate * Latency

(* What the service's bucket misses and has yet to expect, its client's own  *)
(* buckets have lent.                                                        *)
SafeInv ==
    Len(buckets) <= 2 /\ LatencyFits =>
        /\ ~throttled
        /\ Missing(server, now) + Cardinality(flying) * Cost
              <= Lent(buckets[1], now)
                    + (IF Len(buckets) = 2 THEN Lent(buckets[2], now) ELSE 0)

(* A call began max_wait before its deadline; what it has slept is in        *)
(* between, or ends with the sleep it is in.                                 *)
Began(t) == deadline[t] - MaxWait

SleepInv == \A t \in Threads :
    /\ slept[t] <= MaxWait
    /\ pc[t] = "idle" => slept[t] = 0
    /\ pc[t] \in {"try", "reckon", "decide", "nap"} => slept[t] <= now - Began(t)
    /\ pc[t] = "nap" => slept[t] + AtMost(wait[t], Nap) <= MaxWait
    /\ pc[t] = "sleep" => slept[t] <= wake[t] - Began(t)

IndInv == TypeInv /\ PastInv /\ SpentBy(now) /\ FlownBy(now) /\ RatesInv /\ SafeInv
          /\ WithinBudget /\ SleepInv

LEMMA CostIs == Cost \in Nat \ {0}
  BY RateLimitAssumption DEF Cost

(* One more tick: a bucket takes in its rate until it is full. *)
LEMMA LevelLater ==
  ASSUME NEW b \in Bucket, NEW t \in Nat, b.updated <= t
  PROVE  /\ Level(b, t) \in Nat /\ Level(b, t) <= b.capacity
         /\ Level(b, t + 1) = AtMost(b.capacity, Level(b, t) + b.rate)
  <1>1. b.capacity \in Nat /\ b.rate \in Nat /\ b.tokens \in Nat /\ b.updated \in Nat
    BY DEF Bucket
  <1> DEFINE d == t - b.updated
             in == d * b.rate
  <1>2. d \in Nat /\ (t + 1) - b.updated = d + 1
    BY <1>1
  <1>3. in \in Nat
    BY <1>1, <1>2
  <1>4. ((t + 1) - b.updated) * b.rate = in + b.rate
    BY <1>1, <1>2
  <1> HIDE DEF in, d
  <1>5. Level(b, t) = AtMost(b.capacity, b.tokens + in)
    BY DEF Level, in, d
  <1>6. Level(b, t + 1) = AtMost(b.capacity, b.tokens + (in + b.rate))
    <2>1. b.tokens + ((t + 1) - b.updated) * b.rate = b.tokens + (in + b.rate)
      BY <1>4
    <2> QED
      BY <2>1 DEF Level
  <1> QED
    BY <1>1, <1>3, <1>5, <1>6 DEF AtMost

LEMMA RefilledIs ==
  ASSUME NEW b \in Bucket, now \in Nat, b.updated <= now
  PROVE  /\ Refilled(b) \in Bucket /\ Refilled(b).tokens = Level(b, now)
         /\ Refilled(b).capacity = b.capacity /\ Refilled(b).rate = b.rate
         /\ Refilled(b).updated = now /\ Level(Refilled(b), now) = Level(b, now)
  <1>1. Level(b, now) \in Nat /\ Level(b, now) <= b.capacity
    BY LevelLater
  <1>2. Refilled(b) = [b EXCEPT !.tokens = Level(b, now), !.updated = now]
    BY DEF Refilled, Level
  <1> DEFINE l == Level(b, now)
  <1> HIDE DEF l
  <1>3. Refilled(b) = [b EXCEPT !.tokens = l, !.updated = now] /\ l \in Nat /\ l <= b.capacity
    BY <1>1, <1>2 DEF l
  <1>4. /\ Refilled(b) \in Bucket /\ Refilled(b).tokens = l
        /\ Refilled(b).capacity = b.capacity /\ Refilled(b).rate = b.rate
        /\ Refilled(b).updated = now
    BY <1>3 DEF Bucket
  <1>5. Level(Refilled(b), now) = l
    <2>1. now - now = 0 /\ 0 * b.rate = 0 /\ l + 0 = l /\ b.capacity \in Nat
      BY <1>3 DEF Bucket
    <2>2. Level(Refilled(b), now) = AtMost(b.capacity, l)
      BY <1>4, <2>1 DEF Level
    <2> QED
      BY <1>3, <2>1, <2>2 DEF AtMost
  <1> QED
    BY <1>4, <1>5 DEF l

LEMMA SpendIs ==
  ASSUME NEW b \in Bucket, NEW t \in Nat, b.updated = t, b.tokens >= Cost,
         b.tokens <= b.capacity
  PROVE  /\ Spend(b) \in Bucket /\ Spend(b).capacity = b.capacity
         /\ Spend(b).rate = b.rate /\ Spend(b).updated = t
         /\ Level(Spend(b), t) = b.tokens - Cost
  <1>1. Spend(b) = [b EXCEPT !.tokens = b.tokens - Cost] /\ b.tokens - Cost \in Nat
    BY CostIs DEF Spend, Bucket
  <1>2. /\ Spend(b) \in Bucket /\ Spend(b).capacity = b.capacity
        /\ Spend(b).rate = b.rate /\ Spend(b).updated = t
        /\ Spend(b).tokens = b.tokens - Cost
    BY <1>1 DEF Bucket
  <1>3. t - t = 0 /\ 0 * b.rate = 0 /\ b.capacity \in Nat /\ b.tokens \in Nat
    BY DEF Bucket
  <1>4. Level(Spend(b), t) = AtMost(b.capacity, b.tokens - Cost)
    BY <1>1, <1>2, <1>3 DEF Level
  <1> QED
    BY <1>1, <1>2, <1>3, <1>4, CostIs DEF AtMost

LEMMA ProductGrows ==
  ASSUME NEW a \in Int, NEW b \in Int, a <= b, NEW r \in Nat
  PROVE  a * r <= b * r /\ a * r \in Int /\ b * r \in Int
  <1> DEFINE d == b - a
  <1>1. d \in Nat /\ b = a + d
    OBVIOUS
  <1> HIDE DEF d
  <1>2. d * r \in Nat /\ a * r \in Int /\ (a + d) * r = a * r + d * r
    BY <1>1
  <1> QED
    BY <1>1, <1>2

(* Both budgets together flow no faster than the service's bucket, and with  *)
(* the latency they lend no more than it holds.                              *)
LEMMA BudgetsFit ==
  ASSUME LatencyFits, NEW r \in Nat, r <= Discovered
  PROVE  /\ 2 + r <= 2 * Advertised
         /\ (2 * Minute + 2 * Latency) + (r * Minute + r * Latency)
               <= 2 * Advertised * Minute
         /\ 2 * Minute + 2 * Latency <= 2 * Advertised * Minute
  <1> DEFINE m == Minute + Latency
             both == Discovered + 2
  <1>1. /\ Advertised \in Nat \ {0} /\ Minute \in Nat \ {0} /\ Latency \in Nat
        /\ m \in Nat /\ Minute <= m
    BY RateLimitAssumption
  <1>2. Discovered \in Nat /\ both \in Nat
    BY <1>1 DEF Discovered, AtLeast
  <1>3. both * m <= 2 * Advertised * Minute
    BY DEF LatencyFits, Conservative, Discovered
  <1>4. (2 + r) * m <= both * m /\ (2 + r) * m \in Int /\ both * m \in Int
    <2>1. 2 + r \in Int /\ both \in Int /\ 2 + r <= both
      BY <1>2
    <2> HIDE DEF both, m
    <2> QED
      BY <1>1, <2>1, ProductGrows
  <1>5. (2 + r) * m = (2 * Minute + 2 * Latency) + (r * Minute + r * Latency)
    BY <1>1
  <1>6. 2 * Advertised * Minute \in Nat /\ r * Minute \in Nat /\ r * Latency \in Nat
    BY <1>1
  <1>7. 2 + r <= 2 * Advertised
    <2> SUFFICES ASSUME 2 * Advertised + 1 <= 2 + r PROVE FALSE
      BY <1>1
    <2> DEFINE a == 2 * Advertised
    <2>1. a \in Nat /\ a + 1 <= 2 + r
      BY <1>1
    <2> HIDE DEF a
    <2>2. (a + 1) * Minute <= (2 + r) * Minute /\ (2 + r) * Minute \in Int
      BY <1>1, <2>1, ProductGrows
    <2>3. (2 + r) * Minute <= (2 + r) * m
      BY <1>1
    <2>4. (a + 1) * Minute = a * Minute + Minute /\ a * Minute \in Int
      BY <1>1, <2>1
    <2>5. a * Minute = 2 * Advertised * Minute
      BY DEF a
    <2> HIDE DEF m, both
    <2> QED
      BY <1>1, <1>3, <1>4, <2>2, <2>3, <2>4, <2>5
  <1> HIDE DEF m, both
  <1> QED
    BY <1>1, <1>3, <1>4, <1>5, <1>6, <1>7

(* A new budget is full. *)
LEMMA NewIs ==
  ASSUME now \in Nat, NEW m \in {Advertised, Conservative}
  PROVE  /\ from_advertised(m) \in Bucket /\ Refilled(from_advertised(m)) \in Bucket
         /\ Refilled(from_advertised(m)).updated = now
         /\ Missing(Refilled(from_advertised(m)), now) = 0
         /\ Refilled(from_advertised(m)).rate <= Discovered
         /\ Refilled(from_advertised(m)).capacity
               = Refilled(from_advertised(m)).rate * Minute
  <1> DEFINE h == AtLeast(2, m)
             b == from_advertised(m)
  <1>1. m \in Nat \ {0} /\ Minute \in Nat \ {0} /\ Advertised \in Nat
    BY RateLimitAssumption DEF Conservative
  <1>2. h \in Nat \ {0} /\ h <= Discovered
    BY <1>1 DEF AtLeast, Conservative, Discovered
  <1>3. h * Minute \in Nat
    BY <1>1, <1>2
  <1>4. b = [capacity |-> h * Minute, rate |-> h, tokens |-> h * Minute, updated |-> 0]
    BY DEF from_advertised
  <1> HIDE DEF h
  <1>5. /\ b \in Bucket /\ b.capacity = h * Minute /\ b.rate = h
        /\ b.tokens = h * Minute /\ b.updated = 0
    BY <1>2, <1>3, <1>4 DEF Bucket
  <1> HIDE DEF b
  <1>6. Level(b, now) = b.capacity
    <2>1. (now - b.updated) * b.rate \in Nat
      BY <1>2, <1>5
    <2> QED
      BY <1>3, <1>5, <2>1 DEF Level, AtMost
  <1>7. /\ Refilled(b) \in Bucket /\ Refilled(b).capacity = h * Minute
        /\ Refilled(b).rate = h /\ Refilled(b).updated = now
        /\ Level(Refilled(b), now) = h * Minute
    BY <1>5, <1>6, RefilledIs
  <1>8. Missing(Refilled(b), now) = 0
    BY <1>3, <1>7 DEF Missing
  <1> QED
    BY <1>2, <1>5, <1>7, <1>8 DEF b

LEMMA InitInv == Init => IndInv
  <1> SUFFICES ASSUME Init PROVE IndInv
    OBVIOUS
  <1> DEFINE first == from_advertised(Conservative)
  <1>1. Advertised \in Nat \ {0} /\ Minute \in Nat \ {0} /\ Latency \in Nat /\ MaxWait \in Nat
    BY RateLimitAssumption
  <1>2. 2 * Minute \in Nat /\ 2 * Advertised \in Nat \ {0} /\ 2 * Advertised * Minute \in Nat
    BY <1>1
  <1>3. first = [capacity |-> 2 * Minute, rate |-> 2, tokens |-> 2 * Minute, updated |-> 0]
    BY DEF from_advertised, Conservative, AtLeast
  <1>4. first \in Bucket /\ serverBucket \in Bucket
    BY <1>2, <1>3 DEF Bucket, serverBucket
  <1> HIDE DEF first
  <1>5. /\ now = 0 /\ buckets = <<first>> /\ server = serverBucket /\ grants = <<>>
        /\ pc = [t \in Threads |-> "idle"] /\ throttled = FALSE
        /\ flying = {} /\ slept = [t \in Threads |-> 0]
    BY DEF Init, first
  <1>6. buckets \in Seq(Bucket) /\ Len(buckets) = 1 /\ DOMAIN buckets = {1} /\ buckets[1] = first
    BY <1>4, <1>5
  <1>7. TypeInv
    <2>1. now \in Nat /\ throttled \in BOOLEAN /\ server \in Bucket
      BY <1>4, <1>5
    <2>2. grants \in Seq(Grant) /\ flying \subseteq DOMAIN grants
      BY <1>5
    <2>3. /\ pc \in [Threads -> {"idle", "try", "reckon", "decide", "nap", "sleep"}]
          /\ held \in [Threads -> Nat] /\ deadline \in [Threads -> Nat]
          /\ wait \in [Threads -> Int] /\ wake \in [Threads -> Int]
          /\ slept \in [Threads -> Int]
      BY DEF Init
    <2> QED
      BY <1>6, <2>1, <2>2, <2>3 DEF TypeInv
  <1>8. PastInv
    BY <1>3, <1>5, <1>6 DEF PastInv, serverBucket
  <1>9. SpentBy(now) /\ FlownBy(now) /\ WithinBudget
    BY <1>5 DEF SpentBy, FlownBy, WithinBudget
  <1>10. SleepInv
    BY <1>1, <1>5 DEF SleepInv
  <1>11. RatesInv
    <2>1. 2 <= Discovered
      BY <1>1 DEF Discovered, AtLeast
    <2> QED
      BY <1>1, <1>3, <1>5, <1>6, <2>1 DEF RatesInv, serverBucket, Conservative
  <1>12. SafeInv
    <2>1. Level(first, 0) = 2 * Minute /\ first.capacity = 2 * Minute
      BY <1>2, <1>3 DEF Level, AtMost
    <2>2. Level(server, 0) = server.capacity /\ server.capacity \in Nat
      <3>1. (0 - 0) * (2 * Advertised) = 0
        BY <1>2
      <3>2. 2 * Advertised * Minute + 0 = 2 * Advertised * Minute
        BY <1>2
      <3> QED
        BY <1>2, <1>5, <3>1, <3>2 DEF Level, AtMost, serverBucket
    <2>3. Missing(first, 0) = 0 /\ Missing(server, 0) = 0
      BY <1>2, <2>1, <2>2 DEF Missing
    <2>4. Cardinality(flying) * Cost = 0
      BY <1>5, CostIs, FS_EmptySet
    <2>5. Lent(first, 0) \in Nat
      BY <1>1, <1>3, <2>3 DEF Lent
    <2> QED
      BY <1>5, <1>6, <2>3, <2>4, <2>5 DEF SafeInv
  <1> QED
    BY <1>7, <1>8, <1>9, <1>10, <1>11, <1>12 DEF IndInv

-----------------------------------------------------------------------------
(* Steps that take nothing: no bucket holds more or less than before. *)

LEMMA QuietInv ==
  ASSUME IndInv, TypeInv', UNCHANGED <<now, grants, flying, server, throttled>>,
         Len(buckets') = Len(buckets),
         \A n \in DOMAIN buckets :
            /\ buckets'[n].capacity = buckets[n].capacity /\ buckets'[n].rate = buckets[n].rate
            /\ buckets'[n].updated <= now
            /\ Level(buckets'[n], now) = Level(buckets[n], now),
         \A t \in Threads : pc'[t] # "idle" => held'[t] \in DOMAIN buckets,
         SleepInv'
  PROVE  IndInv'
  <1>1. /\ DOMAIN buckets = 1 .. Len(buckets) /\ DOMAIN buckets' = DOMAIN buckets
        /\ 1 \in DOMAIN buckets
        /\ Len(buckets) = 2 => 2 \in DOMAIN buckets
    BY DEF IndInv, TypeInv
  <1>2. PastInv'
    BY <1>1 DEF IndInv, PastInv
  <1>3. SpentBy(now)' /\ FlownBy(now)'
    BY <1>1 DEF IndInv, PastInv, SpentBy, FlownBy, GrantsOf
  <1>4. RatesInv'
    <2>1. /\ buckets'[1].rate = buckets[1].rate /\ server' = server
      BY <1>1
    <2> QED
      BY <1>1, <2>1 DEF IndInv, RatesInv
  <1>5. SafeInv'
    <2>1. \A n \in DOMAIN buckets : Lent(buckets'[n], now) = Lent(buckets[n], now)
      BY DEF Lent, Missing
    <2>2. /\ Lent(buckets'[1], now) = Lent(buckets[1], now)
          /\ Len(buckets) = 2 => Lent(buckets'[2], now) = Lent(buckets[2], now)
      BY <1>1, <2>1
    <2>3. SafeInv
      BY DEF IndInv
    <2> HIDE DEF Missing
    <2> QED
      BY <2>2, <2>3 DEF SafeInv
  <1>6. WithinBudget'
    BY <1>1 DEF IndInv, PastInv, WithinBudget
  <1> QED
    BY <1>2, <1>3, <1>4, <1>5, <1>6 DEF IndInv

(* Of what SleepInv says, a step of one thread leaves the others alone. *)
LEMMA SleepStep ==
  ASSUME IndInv, NEW t \in Threads, now' = now,
         \A u \in Threads \ {t} :
            /\ pc'[u] = pc[u] /\ deadline'[u] = deadline[u] /\ wait'[u] = wait[u]
            /\ wake'[u] = wake[u] /\ slept'[u] = slept[u],
         slept'[t] <= MaxWait,
         pc'[t] = "idle" => slept'[t] = 0,
         pc'[t] \in {"try", "reckon", "decide", "nap"} => slept'[t] <= now - Began(t)',
         pc'[t] = "nap" => slept'[t] + AtMost(wait'[t], Nap) <= MaxWait,
         pc'[t] = "sleep" => slept'[t] <= wake'[t] - Began(t)'
  PROVE  SleepInv'
  <1>1. ASSUME NEW u \in Threads, u # t
        PROVE  /\ slept'[u] <= MaxWait
               /\ pc'[u] = "idle" => slept'[u] = 0
               /\ pc'[u] \in {"try", "reckon", "decide", "nap"} => slept'[u] <= now - Began(u)'
               /\ pc'[u] = "nap" => slept'[u] + AtMost(wait'[u], Nap) <= MaxWait
               /\ pc'[u] = "sleep" => slept'[u] <= wake'[u] - Began(u)'
    BY <1>1 DEF IndInv, SleepInv, Began
  <1> QED
    BY <1>1 DEF SleepInv

LEMMA SleepTypes ==
  ASSUME IndInv
  PROVE  /\ now \in Nat /\ MaxWait \in Nat /\ Nap \in Nat
         /\ \A t \in Threads : /\ deadline[t] \in Nat /\ wait[t] \in Int /\ wake[t] \in Int
                                /\ slept[t] \in Int
  BY RateLimitAssumption DEF IndInv, TypeInv

LEMMA AcquireInv ==
  ASSUME IndInv, NEW t \in Threads, Acquire(t)
  PROVE  IndInv'
  <1>1. TypeInv'
    <2>1. Len(buckets) \in Nat /\ now + MaxWait \in Nat
      BY RateLimitAssumption DEF IndInv, TypeInv
    <2>2. /\ pc' = [pc EXCEPT ![t] = "try"] /\ held' = [held EXCEPT ![t] = Len(buckets)]
          /\ deadline' = [deadline EXCEPT ![t] = now + MaxWait]
          /\ UNCHANGED <<now, buckets, wait, wake, slept, grants, flying, server, throttled>>
      BY DEF Acquire, service
    <2> QED
      BY <2>1, <2>2 DEF IndInv, TypeInv
  <1>2. \A u \in Threads : pc'[u] # "idle" => held'[u] \in DOMAIN buckets
    BY DEF IndInv, TypeInv, PastInv, Acquire
  <1>3. SleepInv'
    <2>1. /\ pc' = [pc EXCEPT ![t] = "try"] /\ deadline' = [deadline EXCEPT ![t] = now + MaxWait]
          /\ pc[t] = "idle" /\ UNCHANGED <<now, wait, wake, slept>>
      BY DEF Acquire
    <2>2. /\ pc'[t] = "try" /\ deadline'[t] = now + MaxWait
          /\ \A u \in Threads \ {t} : pc'[u] = pc[u] /\ deadline'[u] = deadline[u]
      BY <2>1 DEF IndInv, TypeInv
    <2>3. slept[t] = 0
      BY <2>1 DEF IndInv, SleepInv
    <2> QED
      BY <2>1, <2>2, <2>3, SleepStep, SleepTypes DEF Began
  <1> QED
    BY <1>1, <1>2, <1>3, QuietInv DEF Acquire, IndInv, PastInv, service

(* A bucket with a tick more misses its rate less, or nothing. *)
LEMMA MissingLater ==
  ASSUME NEW b \in Bucket, NEW t \in Nat, b.updated <= t
  PROVE  /\ Missing(b, t) \in Nat
         /\ Missing(b, t + 1) = AtLeast(0, Missing(b, t) - b.rate)
  <1>1. b.capacity \in Nat /\ b.rate \in Nat
    BY DEF Bucket
  <1> QED
    BY <1>1, LevelLater DEF Missing, AtMost, AtLeast

LEMMA BucketTypes ==
  ASSUME IndInv
  PROVE  /\ now \in Nat /\ Latency \in Nat
         /\ server \in Bucket /\ server.updated <= now
         /\ server.capacity \in Int /\ server.rate \in Int
         /\ Level(server, now) \in Int /\ Missing(server, now) \in Int
         /\ \A n \in DOMAIN buckets :
               /\ buckets[n] \in Bucket /\ buckets[n].updated <= now
               /\ buckets[n].capacity \in Int /\ buckets[n].rate \in Nat
               /\ buckets[n].rate * Latency \in Int
               /\ Level(buckets[n], now) \in Int /\ Level(buckets[n], now) >= 0
               /\ Missing(buckets[n], now) \in Int /\ Lent(buckets[n], now) \in Int
  <1>1. ASSUME NEW b \in Bucket, b.updated <= now, now \in Nat, Latency \in Nat
        PROVE  /\ b.capacity \in Int /\ b.rate \in Nat /\ b.rate * Latency \in Int
               /\ Level(b, now) \in Int /\ Level(b, now) >= 0
               /\ Missing(b, now) \in Int /\ Lent(b, now) \in Int
    <2>1. b.capacity \in Int /\ b.rate \in Nat /\ b.rate * Latency \in Int
      BY <1>1 DEF Bucket
    <2>2. Level(b, now) \in Nat
      BY <1>1, LevelLater
    <2> QED
      BY <2>1, <2>2 DEF Missing, Lent
  <1>2. /\ now \in Nat /\ Latency \in Nat
        /\ server \in Bucket /\ server.updated <= now
        /\ \A n \in DOMAIN buckets : buckets[n] \in Bucket /\ buckets[n].updated <= now
    BY RateLimitAssumption DEF IndInv, TypeInv, PastInv
  <1> QED
    BY <1>1, <1>2

(* The bucket a thread acquires from is brought up to date. *)
LEMMA RefillIs ==
  ASSUME IndInv, NEW n \in DOMAIN buckets,
         buckets' = [buckets EXCEPT ![n] = Refilled(buckets[n])]
  PROVE  /\ buckets' \in Seq(Bucket) /\ Len(buckets') = Len(buckets)
         /\ \A m \in DOMAIN buckets :
               /\ buckets'[m].capacity = buckets[m].capacity
               /\ buckets'[m].rate = buckets[m].rate
               /\ buckets'[m].updated <= now
               /\ Level(buckets'[m], now) = Level(buckets[m], now)
  <1> DEFINE b == Refilled(buckets[n])
  <1>1. buckets \in Seq(Bucket) /\ buckets[n] \in Bucket /\ now \in Nat /\ buckets[n].updated <= now
    BY DEF IndInv, TypeInv, PastInv
  <1>2. /\ b \in Bucket /\ b.capacity = buckets[n].capacity /\ b.rate = buckets[n].rate
        /\ b.updated = now /\ Level(b, now) = Level(buckets[n], now)
    BY <1>1, RefilledIs
  <1> HIDE DEF b
  <1>3. buckets' = [buckets EXCEPT ![n] = b]
    BY DEF b
  <1>4. /\ buckets' \in Seq(Bucket) /\ Len(buckets') = Len(buckets)
        /\ \A m \in DOMAIN buckets : buckets'[m] = IF m = n THEN b ELSE buckets[m]
    BY <1>1, <1>2, <1>3
  <1> QED
    BY <1>1, <1>2, <1>4 DEF IndInv, PastInv

(* try_acquire finds no token. *)
LEMMA TryFailsInv ==
  ASSUME IndInv, NEW t \in Threads, TryAcquire(t),
         ~(Refilled(buckets[held[t]]).tokens >= Cost)
  PROVE  IndInv'
  <1>1. /\ buckets' = [buckets EXCEPT ![held[t]] = Refilled(buckets[held[t]])]
        /\ pc' = [pc EXCEPT ![t] = "reckon"] /\ pc[t] = "try"
        /\ UNCHANGED <<now, held, deadline, wait, wake, slept, grants, flying, server, throttled>>
    BY DEF TryAcquire, service
  <1>2. held[t] \in DOMAIN buckets
    BY <1>1 DEF IndInv, PastInv
  <1>3. /\ buckets' \in Seq(Bucket) /\ Len(buckets') = Len(buckets)
        /\ \A m \in DOMAIN buckets :
              /\ buckets'[m].capacity = buckets[m].capacity
              /\ buckets'[m].rate = buckets[m].rate
              /\ buckets'[m].updated <= now
              /\ Level(buckets'[m], now) = Level(buckets[m], now)
    BY <1>1, <1>2, RefillIs
  <1>4. TypeInv'
    BY <1>1, <1>3 DEF IndInv, TypeInv
  <1>5. \A u \in Threads : pc'[u] # "idle" => held'[u] \in DOMAIN buckets
    BY <1>1 DEF IndInv, TypeInv, PastInv
  <1>6. SleepInv'
    <2>1. pc'[t] = "reckon" /\ \A u \in Threads \ {t} : pc'[u] = pc[u]
      BY <1>1 DEF IndInv, TypeInv
    <2>2. slept[t] <= MaxWait /\ slept[t] <= now - Began(t)
      BY <1>1 DEF IndInv, SleepInv
    <2> QED
      BY <1>1, <2>1, <2>2, SleepStep DEF Began
  <1> QED
    BY <1>1, <1>3, <1>4, <1>5, <1>6, QuietInv

LEMMA ReckonInv ==
  ASSUME IndInv, NEW t \in Threads, Reckon(t)
  PROVE  IndInv'
  <1> DEFINE b == Refilled(buckets[held[t]])
             w == AtLeast(1, (Cost - b.tokens + b.rate - 1) \div b.rate)
  <1>1. /\ buckets' = [buckets EXCEPT ![held[t]] = b]
        /\ wait' = [wait EXCEPT ![t] = w]
        /\ pc' = [pc EXCEPT ![t] = "decide"] /\ pc[t] = "reckon"
        /\ UNCHANGED <<now, held, deadline, wake, slept, grants, flying, server, throttled>>
    BY DEF Reckon, service
  <1>2. held[t] \in DOMAIN buckets
    BY <1>1 DEF IndInv, PastInv
  <1>3. /\ buckets' \in Seq(Bucket) /\ Len(buckets') = Len(buckets)
        /\ \A m \in DOMAIN buckets :
              /\ buckets'[m].capacity = buckets[m].capacity
              /\ buckets'[m].rate = buckets[m].rate
              /\ buckets'[m].updated <= now
              /\ Level(buckets'[m], now) = Level(buckets[m], now)
    BY <1>1, <1>2, RefillIs
  <1>4. w \in Int
    <2>1. b \in Bucket
      BY <1>2, RefilledIs DEF IndInv, TypeInv, PastInv
    <2>2. Cost - b.tokens + b.rate - 1 \in Int /\ b.rate \in Nat \ {0}
      BY <2>1, CostIs DEF Bucket
    <2>3. (Cost - b.tokens + b.rate - 1) \div b.rate \in Int
      BY <2>2
    <2> QED
      BY <2>3 DEF AtLeast
  <1> HIDE DEF b, w
  <1>5. TypeInv'
    BY <1>1, <1>3, <1>4 DEF IndInv, TypeInv
  <1>6. \A u \in Threads : pc'[u] # "idle" => held'[u] \in DOMAIN buckets
    BY <1>1 DEF IndInv, TypeInv, PastInv
  <1>7. SleepInv'
    <2>1. /\ pc'[t] = "decide" /\ \A u \in Threads \ {t} : pc'[u] = pc[u]
          /\ \A u \in Threads \ {t} : wait'[u] = wait[u]
      BY <1>1 DEF IndInv, TypeInv
    <2>2. slept[t] <= MaxWait /\ slept[t] <= now - Began(t)
      BY <1>1 DEF IndInv, SleepInv
    <2> QED
      BY <1>1, <2>1, <2>2, SleepStep DEF Began
  <1> QED
    BY <1>1, <1>3, <1>5, <1>6, <1>7, QuietInv

(* The call is over. *)
LEMMA DoneIs ==
  ASSUME IndInv, NEW t \in Threads, Done(t), now' = now
  PROVE  /\ pc' \in [Threads -> {"idle", "try", "reckon", "decide", "nap", "sleep"}]
         /\ held' \in [Threads -> Nat] /\ deadline' \in [Threads -> Nat]
         /\ wait' \in [Threads -> Int] /\ wake' \in [Threads -> Int]
         /\ slept' \in [Threads -> Int]
         /\ SleepInv'
         /\ \A u \in Threads : pc'[u] # "idle" => held'[u] \in DOMAIN buckets
  <1>1. /\ pc' \in [Threads -> {"idle", "try", "reckon", "decide", "nap", "sleep"}]
        /\ held' \in [Threads -> Nat] /\ deadline' \in [Threads -> Nat]
        /\ wait' \in [Threads -> Int] /\ wake' \in [Threads -> Int]
        /\ slept' \in [Threads -> Int]
        /\ pc'[t] = "idle" /\ slept'[t] = 0
        /\ \A u \in Threads \ {t} :
              /\ pc'[u] = pc[u] /\ held'[u] = held[u] /\ deadline'[u] = deadline[u]
              /\ wait'[u] = wait[u] /\ wake'[u] = wake[u] /\ slept'[u] = slept[u]
    BY DEF IndInv, TypeInv, Done
  <1>2. SleepInv'
    BY <1>1, SleepStep, SleepTypes
  <1> QED
    BY <1>1, <1>2 DEF IndInv, PastInv

(* RateLimitExceeded, or a sleep that the max_wait has room for. *)
LEMMA DecideInv ==
  ASSUME IndInv, NEW t \in Threads, Decide(t)
  PROVE  IndInv'
  <1>1. pc[t] = "decide" /\ UNCHANGED <<now, buckets, grants, flying, server, throttled>>
    BY DEF Decide, service
  <1>2. CASE now + wait[t] > deadline[t]
    <2>1. Done(t)
      BY <1>2 DEF Decide
    <2>2. TypeInv'
      BY <1>1, <2>1, DoneIs DEF IndInv, TypeInv
    <2> QED
      BY <1>1, <2>1, <2>2, DoneIs, QuietInv DEF IndInv, PastInv
  <1>3. CASE ~(now + wait[t] > deadline[t])
    <2>1. pc' = [pc EXCEPT ![t] = "nap"] /\ UNCHANGED <<held, deadline, wait, wake, slept>>
      BY <1>3 DEF Decide
    <2>2. TypeInv' /\ pc'[t] = "nap" /\ \A u \in Threads \ {t} : pc'[u] = pc[u]
      BY <1>1, <2>1 DEF IndInv, TypeInv
    <2>3. slept[t] <= MaxWait /\ slept[t] <= now - (deadline[t] - MaxWait)
      BY <1>1 DEF IndInv, SleepInv, Began
    <2>4. slept[t] + AtMost(wait[t], Nap) <= MaxWait
      BY <1>3, <2>3, SleepTypes DEF AtMost
    <2>5. SleepInv'
      BY <1>1, <2>1, <2>2, <2>3, <2>4, SleepStep DEF Began
    <2>6. \A u \in Threads : pc'[u] # "idle" => held'[u] \in DOMAIN buckets
      BY <1>1, <2>1, <2>2 DEF IndInv, PastInv
    <2> QED
      BY <1>1, <2>2, <2>5, <2>6, QuietInv DEF IndInv, PastInv
  <1> QED
    BY <1>2, <1>3

LEMMA SleepIsInv ==
  ASSUME IndInv, NEW t \in Threads, Sleep(t)
  PROVE  IndInv'
  <1> DEFINE span == AtMost(wait[t], Nap)
  <1>1. /\ pc[t] = "nap" /\ pc' = [pc EXCEPT ![t] = "sleep"]
        /\ wake' = [wake EXCEPT ![t] = now + span]
        /\ slept' = [slept EXCEPT ![t] = slept[t] + span]
        /\ UNCHANGED <<now, buckets, held, deadline, wait, grants, flying, server, throttled>>
    BY DEF Sleep, service
  <1>2. span \in Int
    BY SleepTypes DEF AtMost
  <1>3. slept[t] + span <= MaxWait /\ slept[t] <= now - (deadline[t] - MaxWait)
    BY <1>1 DEF IndInv, SleepInv, Began
  <1> HIDE DEF span
  <1>4. TypeInv'
    BY <1>1, <1>2 DEF IndInv, TypeInv
  <1>5. /\ pc'[t] = "sleep" /\ wake'[t] = now + span /\ slept'[t] = slept[t] + span
        /\ \A u \in Threads \ {t} :
              pc'[u] = pc[u] /\ wake'[u] = wake[u] /\ slept'[u] = slept[u]
    BY <1>1, <1>2 DEF IndInv, TypeInv
  <1>6. slept'[t] <= wake'[t] - (deadline[t] - MaxWait)
    BY <1>2, <1>3, <1>5, SleepTypes
  <1>7. SleepInv'
    BY <1>1, <1>3, <1>5, <1>6, SleepStep DEF Began
  <1>8. \A u \in Threads : pc'[u] # "idle" => held'[u] \in DOMAIN buckets
    BY <1>1, <1>5 DEF IndInv, PastInv
  <1> QED
    BY <1>1, <1>4, <1>7, <1>8, QuietInv DEF IndInv, PastInv

LEMMA WakeInv ==
  ASSUME IndInv, NEW t \in Threads, Wake(t)
  PROVE  IndInv'
  <1>1. /\ pc[t] = "sleep" /\ now >= wake[t] /\ pc' = [pc EXCEPT ![t] = "try"]
        /\ UNCHANGED <<now, buckets, held, deadline, wait, wake, slept, grants, flying,
                       server, throttled>>
    BY DEF Wake, service
  <1>2. TypeInv' /\ pc'[t] = "try" /\ \A u \in Threads \ {t} : pc'[u] = pc[u]
    BY <1>1 DEF IndInv, TypeInv
  <1>3. slept[t] <= MaxWait /\ slept[t] <= wake[t] - (deadline[t] - MaxWait)
    BY <1>1 DEF IndInv, SleepInv, Began
  <1>4. slept[t] <= now - (deadline[t] - MaxWait)
    BY <1>1, <1>3, SleepTypes
  <1>5. SleepInv'
    BY <1>1, <1>2, <1>3, <1>4, SleepStep DEF Began
  <1>6. \A u \in Threads : pc'[u] # "idle" => held'[u] \in DOMAIN buckets
    BY <1>1, <1>2 DEF IndInv, PastInv
  <1> QED
    BY <1>1, <1>2, <1>5, <1>6, QuietInv DEF IndInv, PastInv

-----------------------------------------------------------------------------
(* A token is taken *)

(* Counting up to one place more. *)
LEMMA GrantsGrow ==
  ASSUME NEW S, IsFiniteSet(S), NEW x, x \notin S
  PROVE  /\ Cardinality(S \cup {x}) = Cardinality(S) + 1 /\ Cardinality(S) \in Nat
         /\ Cardinality(S \cup {x}) * Cost = Cardinality(S) * Cost + Cost
  <1>1. Cardinality(S \cup {x}) = Cardinality(S) + 1 /\ Cardinality(S) \in Nat
    BY FS_AddElement, FS_CardinalityType
  <1> DEFINE n == Cardinality(S)
  <1> HIDE DEF n
  <1>2. n \in Nat => (n + 1) * Cost = n * Cost + Cost
    BY CostIs
  <1> QED
    BY <1>1, <1>2 DEF n

LEMMA GrantsFinite ==
  ASSUME NEW n, NEW i \in Nat, NEW j \in Nat
  PROVE  IsFiniteSet(GrantsOf(n, i, j)) /\ Cardinality(GrantsOf(n, i, j)) \in Nat
  <1>1. IsFiniteSet(i .. j)
    BY FS_Interval
  <1>2. GrantsOf(n, i, j) \in SUBSET (i .. j)
    BY DEF GrantsOf
  <1> QED
    BY <1>1, <1>2, FS_Subset, FS_CardinalityType

LEMMA FlyingFinite ==
  ASSUME TypeInv
  PROVE  IsFiniteSet(flying) /\ Cardinality(flying) \in Nat /\ Cardinality(flying) * Cost \in Nat
  <1>1. IsFiniteSet(DOMAIN grants)
    <2>1. DOMAIN grants = 1 .. Len(grants) /\ Len(grants) \in Nat
      BY DEF TypeInv
    <2> QED
      BY <2>1, FS_Interval
  <1>2. IsFiniteSet(flying) /\ Cardinality(flying) \in Nat
    <2>1. flying \in SUBSET (DOMAIN grants)
      BY DEF TypeInv
    <2> QED
      BY <1>1, <2>1, FS_Subset, FS_CardinalityType
  <1> QED
    BY <1>2, CostIs

(* Tokens are taken from a bucket, and the request is on its way. *)
LEMMA GrantInv ==
  ASSUME IndInv, NEW t \in Threads, TryAcquire(t),
         Refilled(buckets[held[t]]).tokens >= Cost
  PROVE  IndInv'
  <1> DEFINE h == held[t]
             full == Refilled(buckets[h])
             b == Spend(full)
             g == [at |-> now, bucket |-> h]
  <1>1. /\ buckets' = [buckets EXCEPT ![h] = b] /\ grants' = Append(grants, g)
        /\ flying' = flying \cup {Len(grants')}
        /\ Done(t) /\ pc[t] = "try" /\ UNCHANGED <<now, server, throttled>>
    BY DEF TryAcquire, service
  <1>2. /\ h \in DOMAIN buckets /\ buckets \in Seq(Bucket) /\ now \in Nat
        /\ buckets[h] \in Bucket /\ buckets[h].updated <= now
    BY <1>1 DEF IndInv, TypeInv, PastInv
  <1>3. /\ full \in Bucket /\ full.tokens = Level(buckets[h], now)
        /\ full.capacity = buckets[h].capacity /\ full.rate = buckets[h].rate
        /\ full.updated = now /\ full.tokens <= full.capacity
    BY <1>2, RefilledIs, LevelLater
  <1>4. /\ b \in Bucket /\ b.capacity = buckets[h].capacity /\ b.rate = buckets[h].rate
        /\ b.updated = now /\ Level(b, now) = Level(buckets[h], now) - Cost
    <2>1. full.tokens >= Cost
      OBVIOUS
    <2> HIDE DEF full
    <2> QED
      BY <1>2, <1>3, <2>1, SpendIs
  <1>5. Level(buckets[h], now) >= Cost /\ Level(buckets[h], now) \in Nat
    BY <1>2, <1>3, LevelLater
  <1> HIDE DEF b, full, h
  <1>6. /\ buckets' \in Seq(Bucket) /\ Len(buckets') = Len(buckets)
        /\ DOMAIN buckets' = DOMAIN buckets /\ DOMAIN buckets = 1 .. Len(buckets)
        /\ \A n \in DOMAIN buckets : buckets'[n] = IF n = h THEN b ELSE buckets[n]
    BY <1>1, <1>2, <1>4
  <1>7. \A n \in DOMAIN buckets :
           /\ buckets'[n].capacity = buckets[n].capacity
           /\ buckets'[n].rate = buckets[n].rate
           /\ buckets'[n].updated <= now
    BY <1>2, <1>4, <1>6 DEF IndInv, PastInv
  <1>8. /\ Len(grants) \in Nat /\ DOMAIN grants = 1 .. Len(grants)
        /\ DOMAIN grants' = 1 .. Len(grants) + 1 /\ Len(grants') = Len(grants) + 1
        /\ \A i \in DOMAIN grants : grants'[i] = grants[i]
        /\ grants'[Len(grants) + 1] = g /\ grants' \in Seq(Grant)
    <2>1. h \in Nat
      BY <1>2, <1>6
    <2>2. grants \in Seq(Grant) /\ g \in Grant
      BY <1>2, <2>1 DEF IndInv, TypeInv, Grant
    <2> HIDE DEF g
    <2> QED
      BY <1>1, <2>2
  <1>9. g.at = now /\ g.bucket = h
    OBVIOUS
  <1> HIDE DEF g
  <1>10. /\ flying' = flying \cup {Len(grants) + 1} /\ Len(grants) + 1 \notin flying
         /\ Cardinality(flying') * Cost = Cardinality(flying) * Cost + Cost
         /\ Cardinality(flying) * Cost \in Nat
    <2>1. TypeInv
      BY DEF IndInv
    <2>2. flying' = flying \cup {Len(grants) + 1} /\ Len(grants) + 1 \notin flying
      BY <1>1, <1>8, <2>1 DEF TypeInv
    <2> QED
      BY <2>1, <2>2, FlyingFinite, GrantsGrow
  <1>11. TypeInv'
    <2>1. flying' \subseteq DOMAIN grants'
      BY <1>8, <1>10 DEF IndInv, TypeInv
    <2> QED
      BY <1>1, <1>6, <1>8, <2>1, DoneIs DEF IndInv, TypeInv
  <1>12. PastInv' /\ FlownBy(now)'
    <2>1. \A u \in Threads : pc'[u] # "idle" => held'[u] \in DOMAIN buckets
      BY <1>1, DoneIs
    <2>2. \A i \in DOMAIN grants' : grants'[i].at <= now /\ grants'[i].bucket \in DOMAIN buckets
      BY <1>2, <1>8, <1>9 DEF IndInv, PastInv
    <2>3. now' = now /\ server' = server
      BY <1>1
    <2>4. PastInv'
      BY <1>2, <1>6, <1>7, <2>1, <2>2, <2>3 DEF IndInv, PastInv
    <2>5. \A i \in flying' : now - grants'[i].at <= Latency
      <3>1. \A i \in flying : now - grants'[i].at <= Latency
        BY <1>8 DEF IndInv, TypeInv, FlownBy
      <3>2. now - now <= Latency
        BY <1>2, RateLimitAssumption
      <3> QED
        BY <1>8, <1>9, <1>10, <3>1, <3>2
    <2> QED
      BY <2>3, <2>4, <2>5 DEF FlownBy
  <1>13. RatesInv'
    <2>1. 1 \in DOMAIN buckets
      BY <1>6 DEF IndInv, TypeInv
    <2>2. buckets'[1].rate = buckets[1].rate /\ server' = server
      BY <1>1, <1>7, <2>1
    <2> QED
      BY <1>6, <1>7, <2>2 DEF IndInv, RatesInv
  <1>14. SafeInv'
    <2> SUFFICES ASSUME Len(buckets) <= 2, LatencyFits
                 PROVE  /\ ~throttled
                        /\ Missing(server, now) + Cardinality(flying') * Cost
                              <= Lent(buckets'[1], now)
                                    + (IF Len(buckets) = 2 THEN Lent(buckets'[2], now) ELSE 0)
      BY <1>1, <1>6 DEF SafeInv
    <2>1. /\ ~throttled
          /\ Missing(server, now) + Cardinality(flying) * Cost
                <= Lent(buckets[1], now)
                      + (IF Len(buckets) = 2 THEN Lent(buckets[2], now) ELSE 0)
      BY DEF IndInv, SafeInv
    <2>2. 1 \in DOMAIN buckets /\ (Len(buckets) = 2 => 2 \in DOMAIN buckets)
      BY <1>6 DEF IndInv, TypeInv
    <2>3. \A n \in DOMAIN buckets : Lent(buckets[n], now) \in Int
      BY BucketTypes
    <2>4. Missing(server, now) \in Int
      BY BucketTypes
    <2>5. \A n \in DOMAIN buckets :
             Lent(buckets'[n], now) = IF n = h THEN Lent(buckets[n], now) + Cost
                                      ELSE Lent(buckets[n], now)
      <3>1. /\ \A n \in DOMAIN buckets :
                   /\ buckets[n].capacity \in Int /\ buckets[n].rate * Latency \in Int
                   /\ Level(buckets[n], now) \in Int
        BY BucketTypes
      <3> QED
        BY <1>4, <1>6, <3>1, CostIs DEF Lent, Missing
    <2>6. h = 1 \/ (Len(buckets) = 2 /\ h = 2)
      BY <1>2, <1>6
    <2> HIDE DEF Missing, Lent
    <2>7. CASE Len(buckets) = 2
      BY <1>10, <2>1, <2>2, <2>3, <2>4, <2>5, <2>6, <2>7, CostIs
    <2>8. CASE Len(buckets) # 2
      BY <1>10, <2>1, <2>2, <2>3, <2>4, <2>5, <2>6, <2>8, CostIs
    <2> QED
      BY <2>7, <2>8
  <1>15. ASSUME NEW i \in DOMAIN grants', NEW n, n = grants'[i].bucket
         PROVE  LET taken == {k \in i .. Len(grants) + 1 : grants'[k].bucket = n}
                IN  Cardinality(taken) * Cost + Level(buckets'[n], now)
                      <= buckets'[n].capacity + (now - grants'[i].at) * buckets'[n].rate
    <2> DEFINE S == GrantsOf(n, i, Len(grants))
               taken == {k \in i .. Len(grants) + 1 : grants'[k].bucket = n}
               flow == (now - grants'[i].at) * buckets[n].rate
    <2>1. n \in DOMAIN buckets /\ grants'[i].at <= now /\ grants'[i].at \in Nat
      <3>1. grants'[i] \in Grant
        BY <1>8
      <3>2. grants'[i].at <= now' /\ grants'[i].bucket \in DOMAIN buckets'
        BY <1>12 DEF PastInv
      <3> QED
        BY <1>1, <1>6, <1>15, <3>1, <3>2 DEF Grant
    <2>2. /\ buckets[n].capacity \in Nat /\ buckets[n].rate \in Nat
          /\ buckets[n] \in Bucket /\ buckets[n].updated <= now
      <3>1. buckets[n] \in Bucket /\ buckets[n].updated <= now
        BY <1>2, <2>1 DEF IndInv, PastInv
      <3> QED
        BY <3>1 DEF Bucket
    <2>3. Level(buckets[n], now) \in Nat /\ Level(buckets[n], now) <= buckets[n].capacity
      BY <1>2, <2>2, LevelLater
    <2>4. flow \in Nat
      <3>1. now - grants'[i].at \in Nat
        BY <1>2, <2>1
      <3> QED
        BY <2>2, <3>1
    <2>5. IsFiniteSet(S) /\ Cardinality(S) \in Nat
      BY <1>8, GrantsFinite
    <2>6. /\ buckets'[n].capacity = buckets[n].capacity /\ buckets'[n].rate = buckets[n].rate
          /\ Level(buckets'[n], now) = IF n = h THEN Level(buckets[n], now) - Cost
                                        ELSE Level(buckets[n], now)
      BY <1>4, <1>6, <1>7, <2>1
    <2>7. Cardinality(taken) * Cost + Level(buckets'[n], now) <= buckets[n].capacity + flow
      <3>1. CASE i \in DOMAIN grants
        <4>1. Cardinality(S) * Cost + Level(buckets[n], now) <= buckets[n].capacity + flow
          BY <1>8, <1>15, <3>1 DEF IndInv, SpentBy
        <4>2. CASE n = h
          <5>1. taken = S \cup {Len(grants) + 1} /\ Len(grants) + 1 \notin S
            BY <1>8, <1>9, <3>1, <4>2 DEF GrantsOf
          <5>2. Cardinality(taken) * Cost = Cardinality(S) * Cost + Cost
            BY <2>5, <5>1, GrantsGrow
          <5>3. Cardinality(S) * Cost \in Nat
            BY <2>5, CostIs
          <5> HIDE DEF taken, S, flow
          <5> QED
            BY <2>2, <2>3, <2>4, <2>6, <4>1, <4>2, <5>2, <5>3, CostIs
        <4>3. CASE n # h
          <5>1. taken = S
            BY <1>8, <1>9, <3>1, <4>3 DEF GrantsOf
          <5> QED
            BY <2>6, <4>1, <4>3, <5>1
        <4> QED
          BY <4>2, <4>3
      <3>2. CASE i = Len(grants) + 1
        <4>1. n = h /\ grants'[i].at = now
          BY <1>8, <1>9, <1>15, <3>2
        <4>2. taken = {i}
          BY <1>8, <1>15, <3>2
        <4> HIDE DEF taken, flow
        <4>3. Cardinality(taken) = 1 /\ 1 * Cost = Cost
          <5>1. Cardinality({i}) = 1
            BY FS_Singleton
          <5> QED
            BY <4>2, <5>1, CostIs
        <4> QED
          BY <2>2, <2>3, <2>4, <2>6, <4>1, <4>3, CostIs
      <3> QED
        BY <1>8, <3>1, <3>2
    <2> QED
      BY <2>6, <2>7
  <1>16. SpentBy(now)'
    <2>1. now' = now
      BY <1>1
    <2> QED
      BY <1>8, <1>15, <2>1 DEF SpentBy, GrantsOf
  <1>17. WithinBudget'
    <2> SUFFICES ASSUME NEW i \in DOMAIN grants', NEW j \in DOMAIN grants', i <= j,
                        NEW n, n = grants'[i].bucket, n = grants'[j].bucket
                 PROVE  LET taken == {k \in i .. j : grants'[k].bucket = n}
                        IN  Cardinality(taken) * Cost <= buckets'[n].capacity
                              + (grants'[j].at - grants'[i].at) * buckets'[n].rate
      BY DEF WithinBudget
    <2>1. n \in DOMAIN buckets
      BY <1>6, <1>12 DEF PastInv
    <2>2. CASE j \in DOMAIN grants
      <3>1. i \in DOMAIN grants /\ \A k \in i .. j : k \in DOMAIN grants /\ grants'[k] = grants[k]
        <4>1. i \in 1 .. Len(grants) /\ j \in 1 .. Len(grants)
          BY <1>8, <2>2
        <4>2. \A k \in i .. j : k \in DOMAIN grants
          BY <1>8, <4>1
        <4> QED
          BY <1>8, <4>1, <4>2
      <3>2. {k \in i .. j : grants'[k].bucket = n} = {k \in i .. j : grants[k].bucket = n}
        BY <3>1
      <3>3. LET taken == {k \in i .. j : grants[k].bucket = n}
            IN  Cardinality(taken) * Cost <= buckets[n].capacity
                  + (grants[j].at - grants[i].at) * buckets[n].rate
        <4>1. WithinBudget /\ n = grants[i].bucket /\ n = grants[j].bucket
          BY <1>8, <2>2, <3>1 DEF IndInv
        <4> QED
          BY <2>2, <3>1, <4>1 DEF WithinBudget
      <3> QED
        BY <1>7, <1>8, <2>1, <2>2, <3>1, <3>2, <3>3
    <2>3. CASE j = Len(grants) + 1
      <3> DEFINE taken == {k \in i .. j : grants'[k].bucket = n}
      <3>1. Cardinality(taken) * Cost + Level(buckets'[n], now)
              <= buckets'[n].capacity + (now - grants'[i].at) * buckets'[n].rate
        BY <1>15, <2>3
      <3>2. grants'[j].at = now
        BY <1>8, <1>9, <2>3
      <3>3. Level(buckets'[n], now) \in Nat
        <4>1. buckets'[n] \in Bucket /\ buckets'[n].updated <= now
          BY <1>6, <1>7, <1>11, <2>1 DEF TypeInv
        <4> QED
          BY <1>2, <4>1, LevelLater
      <3>4. Cardinality(taken) * Cost \in Int
        <4>1. IsFiniteSet(i .. j) /\ taken \in SUBSET (i .. j)
          BY <1>8, FS_Interval
        <4>2. Cardinality(taken) \in Nat
          BY <4>1, FS_Subset, FS_CardinalityType
        <4> QED
          BY <4>2, CostIs
      <3>5. buckets'[n].capacity + (now - grants'[i].at) * buckets'[n].rate \in Int
        <4>1. buckets'[n].capacity \in Int /\ buckets'[n].rate \in Int
          <5>1. buckets'[n] \in Bucket
            BY <1>6, <2>1
          <5> QED
            BY <5>1 DEF Bucket
        <4>2. now - grants'[i].at \in Int
          <5>1. grants'[i] \in Grant
            BY <1>8
          <5> QED
            BY <1>2, <5>1 DEF Grant
        <4> QED
          BY <4>1, <4>2
      <3> HIDE DEF taken
      <3>6. Cardinality(taken) * Cost
              <= buckets'[n].capacity + (now - grants'[i].at) * buckets'[n].rate
        BY <3>1, <3>3, <3>4, <3>5
      <3> QED
        BY <3>2, <3>6 DEF taken
    <2> QED
      BY <1>8, <2>2, <2>3
  <1>18. SleepInv'
    BY <1>1, DoneIs
  <1> QED
    BY <1>11, <1>12, <1>13, <1>14, <1>16, <1>17, <1>18 DEF IndInv

-----------------------------------------------------------------------------
(* A new budget, and the clock *)

LEMMA NewBudgetInv ==
  ASSUME IndInv, NEW m \in {Advertised, Conservative}, NewBudget(m)
  PROVE  IndInv'
  <1> DEFINE b == Refilled(from_advertised(m))
  <1>1. /\ buckets' = Append(buckets, b) /\ buckets \in Seq(Bucket) /\ now \in Nat
        /\ Len(buckets) > 0
        /\ UNCHANGED <<now, locals, grants, flying, server, throttled>>
    BY DEF NewBudget, IndInv, TypeInv, service
  <1>2. /\ b \in Bucket /\ b.updated = now /\ Missing(b, now) = 0
        /\ b.rate <= Discovered /\ b.capacity = b.rate * Minute
    BY <1>1, NewIs
  <1> HIDE DEF b
  <1>3. /\ Len(buckets) \in Nat /\ DOMAIN buckets = 1 .. Len(buckets)
        /\ DOMAIN buckets' = 1 .. Len(buckets) + 1 /\ Len(buckets') = Len(buckets) + 1
        /\ \A n \in DOMAIN buckets : buckets'[n] = buckets[n]
        /\ buckets'[Len(buckets) + 1] = b /\ buckets' \in Seq(Bucket)
        /\ 1 \in DOMAIN buckets
    BY <1>1, <1>2
  <1>4. TypeInv'
    BY <1>1, <1>3 DEF IndInv, TypeInv, locals
  <1>5. PastInv' /\ FlownBy(now)'
    BY <1>1, <1>2, <1>3 DEF IndInv, PastInv, FlownBy, locals
  <1>6. SpentBy(now)' /\ WithinBudget'
    BY <1>1, <1>3 DEF IndInv, PastInv, SpentBy, GrantsOf, WithinBudget
  <1>7. RatesInv'
    <2>1. buckets'[1] = buckets[1] /\ server' = server
      BY <1>1, <1>3
    <2>2. \A n \in DOMAIN buckets' : n \in DOMAIN buckets \/ n = Len(buckets) + 1
      BY <1>3
    <2> QED
      BY <1>2, <1>3, <2>1, <2>2 DEF IndInv, RatesInv
  <1>8. SafeInv'
    <2> SUFFICES ASSUME LatencyFits, Len(buckets) + 1 <= 2
                 PROVE  /\ ~throttled
                        /\ Missing(server, now) + Cardinality(flying) * Cost
                              <= Lent(buckets'[1], now)
                                    + (IF Len(buckets) + 1 = 2 THEN Lent(buckets'[2], now) ELSE 0)
      BY <1>1, <1>3 DEF SafeInv
    <2>1. Len(buckets) = 1
      BY <1>3
    <2>2. /\ ~throttled
          /\ Missing(server, now) + Cardinality(flying) * Cost <= Lent(buckets[1], now) + 0
      BY <2>1 DEF IndInv, SafeInv
    <2>3. buckets'[1] = buckets[1] /\ buckets'[2] = b
      BY <1>3, <2>1
    <2>4. Lent(b, now) \in Nat
      BY <1>2, RateLimitAssumption DEF Lent, Bucket
    <2>5. Missing(server, now) \in Int /\ Lent(buckets[1], now) \in Int
      BY <1>3, BucketTypes
    <2>6. Cardinality(flying) * Cost \in Int
      BY FlyingFinite DEF IndInv
    <2> HIDE DEF Lent
    <2> QED
      BY <2>1, <2>2, <2>3, <2>4, <2>5, <2>6
  <1>9. SleepInv'
    BY <1>1 DEF IndInv, SleepInv, Began, locals
  <1> QED
    BY <1>4, <1>5, <1>6, <1>7, <1>8, <1>9 DEF IndInv

-----------------------------------------------------------------------------
(* The way to the service *)

LEMMA FlyingLess ==
  ASSUME TypeInv, NEW i \in flying
  PROVE  /\ Cardinality(flying) * Cost = Cardinality(flying \ {i}) * Cost + Cost
         /\ Cardinality(flying \ {i}) * Cost \in Nat
  <1> DEFINE S == flying \ {i}
  <1>1. S \in SUBSET flying /\ S \cup {i} = flying /\ i \notin S
    OBVIOUS
  <1>2. IsFiniteSet(S)
    BY <1>1, FlyingFinite, FS_Subset
  <1> HIDE DEF S
  <1>3. /\ Cardinality(S \cup {i}) * Cost = Cardinality(S) * Cost + Cost
        /\ Cardinality(S) \in Nat
    BY <1>1, <1>2, GrantsGrow
  <1>4. Cardinality(S) * Cost \in Nat
    BY <1>3, CostIs
  <1> QED
    BY <1>1, <1>3, <1>4 DEF S

(* The buckets can have lent no more than the service's holds. *)
LEMMA ServiceHolds ==
  ASSUME IndInv, LatencyFits, Len(buckets) <= 2
  PROVE  Lent(buckets[1], now) + (IF Len(buckets) = 2 THEN Lent(buckets[2], now) ELSE 0)
            <= server.capacity
  <1>1. /\ 1 \in DOMAIN buckets /\ (Len(buckets) = 2 => 2 \in DOMAIN buckets)
    BY DEF IndInv, TypeInv
  <1>2. \A n \in DOMAIN buckets :
           /\ Lent(buckets[n], now) \in Int
           /\ buckets[n].rate * Minute \in Int /\ buckets[n].rate * Latency \in Int
           /\ Lent(buckets[n], now) <= buckets[n].rate * Minute + buckets[n].rate * Latency
    <2> TAKE n \in DOMAIN buckets
    <2>1. /\ Lent(buckets[n], now) \in Int /\ buckets[n].rate * Latency \in Int
          /\ Level(buckets[n], now) \in Int /\ Level(buckets[n], now) >= 0
          /\ buckets[n].rate \in Nat
      BY BucketTypes
    <2>2. buckets[n].capacity = buckets[n].rate * Minute /\ buckets[n].rate * Minute \in Int
      <3>1. buckets[n].capacity = buckets[n].rate * Minute
        BY DEF IndInv, RatesInv
      <3>2. Minute \in Nat
        BY RateLimitAssumption
      <3> QED
        BY <2>1, <3>1, <3>2
    <2> QED
      BY <2>1, <2>2 DEF Lent, Missing
  <1>3. /\ buckets[1].rate = 2 /\ server.capacity = 2 * Advertised * Minute
        /\ \A n \in DOMAIN buckets : buckets[n].rate <= Discovered /\ buckets[n].rate \in Nat
    BY BucketTypes DEF IndInv, RatesInv, Conservative
  <1> HIDE DEF Lent
  <1>4. 2 * Minute + 2 * Latency <= server.capacity /\ server.capacity \in Int
    BY <1>1, <1>3, BudgetsFit, BucketTypes
  <1>5. CASE Len(buckets) = 2
    <2>1. (2 * Minute + 2 * Latency) + (buckets[2].rate * Minute + buckets[2].rate * Latency)
             <= server.capacity
      BY <1>1, <1>3, <1>5, BudgetsFit
    <2>2. 2 * Minute \in Int /\ 2 * Latency \in Int
      BY RateLimitAssumption
    <2> QED
      BY <1>1, <1>2, <1>3, <1>4, <1>5, <2>1, <2>2
  <1>6. CASE Len(buckets) # 2
    <2>1. 2 * Minute \in Int /\ 2 * Latency \in Int
      BY RateLimitAssumption
    <2> QED
      BY <1>1, <1>2, <1>3, <1>4, <1>6, <2>1
  <1> QED
    BY <1>5, <1>6

(* A request that arrives, or is lost, is no longer to be expected. *)
LEMMA LandingInv ==
  ASSUME IndInv, NEW i \in flying, flying' = flying \ {i},
         UNCHANGED <<now, buckets, locals, grants>>,
         server' \in Bucket, server'.updated <= now,
         server'.capacity = server.capacity, server'.rate = server.rate,
         throttled' \in BOOLEAN,
         LatencyFits /\ Len(buckets) <= 2 =>
            /\ ~throttled'
            /\ Missing(server', now) \in Int
            /\ Missing(server', now) <= Missing(server, now) + Cost
  PROVE  IndInv'
  <1>1. TypeInv' /\ SleepInv' /\ PastInv' /\ FlownBy(now)'
    BY DEF IndInv, TypeInv, SleepInv, Began, PastInv, FlownBy, locals
  <1>2. SpentBy(now)' /\ WithinBudget' /\ RatesInv'
    BY DEF IndInv, SpentBy, GrantsOf, WithinBudget, RatesInv
  <1>3. SafeInv'
    <2> SUFFICES ASSUME LatencyFits, Len(buckets) <= 2
                 PROVE  /\ ~throttled'
                        /\ Missing(server', now) + Cardinality(flying \ {i}) * Cost
                              <= Lent(buckets[1], now)
                                    + (IF Len(buckets) = 2 THEN Lent(buckets[2], now) ELSE 0)
      BY DEF SafeInv, Lent, Missing
    <2> DEFINE lent == Lent(buckets[1], now)
                          + (IF Len(buckets) = 2 THEN Lent(buckets[2], now) ELSE 0)
    <2>1. Missing(server, now) + Cardinality(flying) * Cost <= lent
      BY DEF IndInv, SafeInv
    <2>2. lent \in Int
      <3>1. 1 \in DOMAIN buckets /\ (Len(buckets) = 2 => 2 \in DOMAIN buckets)
        BY DEF IndInv, TypeInv
      <3> QED
        BY <3>1, BucketTypes
    <2>3. /\ Cardinality(flying) * Cost = Cardinality(flying \ {i}) * Cost + Cost
          /\ Cardinality(flying \ {i}) * Cost \in Nat
      BY FlyingLess DEF IndInv
    <2>4. Missing(server, now) \in Int
      BY BucketTypes
    <2> HIDE DEF lent, Missing
    <2>5. Missing(server', now) + Cardinality(flying \ {i}) * Cost <= lent
      BY <2>1, <2>2, <2>3, <2>4, CostIs
    <2> QED
      BY <2>5 DEF lent
  <1> QED
    BY <1>1, <1>2, <1>3 DEF IndInv

LEMMA LostInv ==
  ASSUME IndInv, NEW i \in flying, Lost(i)
  PROVE  IndInv'
  <1>1. /\ flying' = flying \ {i} /\ UNCHANGED <<now, buckets, locals, grants>>
        /\ server' = server /\ throttled' = throttled
    BY DEF Lost, service
  <1>2. /\ server' \in Bucket /\ server'.updated <= now
        /\ server'.capacity = server.capacity /\ server'.rate = server.rate
        /\ throttled' \in BOOLEAN
    BY <1>1 DEF IndInv, TypeInv, PastInv
  <1>3. Missing(server', now) \in Int /\ Missing(server', now) <= Missing(server, now) + Cost
    <2>1. Missing(server, now) \in Int
      BY BucketTypes
    <2> QED
      BY <1>1, <2>1, CostIs
  <1>4. LatencyFits /\ Len(buckets) <= 2 => ~throttled'
    BY <1>1 DEF IndInv, SafeInv
  <1> QED
    BY <1>1, <1>2, <1>3, <1>4, LandingInv

(* The service's bucket holds a token for every request that arrives. *)
LEMMA ArriveInv ==
  ASSUME IndInv, NEW i \in flying, Arrive(i)
  PROVE  IndInv'
  <1> DEFINE full == Refilled(server)
  <1>1. /\ flying' = flying \ {i} /\ UNCHANGED <<now, buckets, locals, grants>>
        /\ IF full.tokens >= Cost THEN server' = Spend(full) /\ UNCHANGED throttled
                                  ELSE server' = full /\ throttled' = TRUE
    BY DEF Arrive
  <1>2. /\ full \in Bucket /\ full.tokens = Level(server, now) /\ full.capacity = server.capacity
        /\ full.rate = server.rate /\ full.updated = now /\ full.tokens <= full.capacity
        /\ Level(full, now) = Level(server, now)
    BY BucketTypes, RefilledIs, LevelLater
  <1> HIDE DEF full
  <1>3. CASE full.tokens >= Cost
    <2>1. /\ server' \in Bucket /\ server'.updated = now
          /\ server'.capacity = server.capacity /\ server'.rate = server.rate
          /\ Level(server', now) = Level(server, now) - Cost
      BY <1>1, <1>2, <1>3, SpendIs, BucketTypes
    <2>2. Missing(server', now) \in Int /\ Missing(server', now) <= Missing(server, now) + Cost
      BY <2>1, BucketTypes, CostIs DEF Missing
    <2>3. throttled' \in BOOLEAN /\ (LatencyFits /\ Len(buckets) <= 2 => ~throttled')
      BY <1>1, <1>3 DEF IndInv, TypeInv, SafeInv
    <2>4. server'.updated <= now
      BY <2>1, BucketTypes
    <2> QED
      BY <1>1, <2>1, <2>2, <2>3, <2>4, LandingInv
  <1>4. CASE ~(full.tokens >= Cost)
    <2>1. server' = full /\ throttled' = TRUE
      BY <1>1, <1>4
    <2>2. ~(LatencyFits /\ Len(buckets) <= 2)
      <3> SUFFICES ASSUME LatencyFits, Len(buckets) <= 2 PROVE FALSE
        OBVIOUS
      <3> DEFINE lent == Lent(buckets[1], now)
                            + (IF Len(buckets) = 2 THEN Lent(buckets[2], now) ELSE 0)
      <3>1. Missing(server, now) + Cardinality(flying) * Cost <= lent
        BY DEF IndInv, SafeInv
      <3>2. lent <= server.capacity
        BY ServiceHolds
      <3>3. lent \in Int
        <4>1. 1 \in DOMAIN buckets /\ (Len(buckets) = 2 => 2 \in DOMAIN buckets)
          BY DEF IndInv, TypeInv
        <4> QED
          BY <4>1, BucketTypes
      <3> HIDE DEF lent
      <3>4. /\ Cardinality(flying) * Cost = Cardinality(flying \ {i}) * Cost + Cost
            /\ Cardinality(flying \ {i}) * Cost \in Nat
        BY FlyingLess DEF IndInv
      <3>5. Level(server, now) >= Cost
        BY <3>1, <3>2, <3>3, <3>4, BucketTypes, CostIs DEF Missing
      <3> QED
        BY <1>2, <1>4, <3>5
    <2>3. server'.updated <= now /\ throttled' \in BOOLEAN
      BY <1>2, <2>1, BucketTypes
    <2> QED
      BY <1>1, <1>2, <2>1, <2>2, <2>3, LandingInv
  <1> QED
    BY <1>3, <1>4

-----------------------------------------------------------------------------
(* The clock *)

LEMMA LeastElement ==
  ASSUME NEW S, S \subseteq Nat, S # {}
  PROVE  \E x \in S : \A y \in S : x <= y
  <1> DEFINE R == OpToRel(<, Nat)
  <1>1. IsWellFoundedOn(R, Nat)
    BY NatLessThanWellFounded
  <1> HIDE DEF R
  <1>2. PICK x \in S : \A y \in S : ~(<<y, x>> \in R)
    BY <1>1, WFMin, Zenon
  <1>3. ASSUME NEW y \in S PROVE x <= y
    <2>1. y < x => <<y, x>> \in R
      BY DEF R, OpToRel
    <2> QED
      BY <1>2, <2>1
  <1> QED
    BY <1>3

FlyingFrom(n) == {i \in flying : grants[i].bucket = n}

(* The requests of a bucket that are on their way were paid for within the   *)
(* latency, from what it misses and took in since the oldest of them.        *)
LEMMA FlyingLent ==
  ASSUME IndInv, NEW T \in Nat, now <= T, SpentBy(T), FlownBy(T), NEW n \in DOMAIN buckets
  PROVE  /\ IsFiniteSet(FlyingFrom(n)) /\ Cardinality(FlyingFrom(n)) * Cost \in Nat
         /\ Cardinality(FlyingFrom(n)) * Cost <= Lent(buckets[n], T)
  <1> DEFINE b == buckets[n]
             F == FlyingFrom(n)
  <1>1. /\ b \in Bucket /\ b.updated <= T /\ b.capacity \in Int /\ b.rate \in Nat
        /\ b.rate * Latency \in Nat /\ Latency \in Nat
    <2>1. b \in Bucket /\ b.updated <= now /\ now \in Nat /\ Latency \in Nat
      BY BucketTypes
    <2>2. b.capacity \in Int /\ b.rate \in Nat /\ b.updated \in Nat
      BY <2>1 DEF Bucket
    <2> QED
      BY <2>1, <2>2
  <1>2. Level(b, T) \in Nat /\ Level(b, T) <= b.capacity
    BY <1>1, LevelLater
  <1>3. F \in SUBSET flying
    BY DEF FlyingFrom
  <1>4. IsFiniteSet(F) /\ Cardinality(F) \in Nat /\ Cardinality(F) * Cost \in Nat
    <2>1. IsFiniteSet(F) /\ Cardinality(F) \in Nat
      BY <1>3, FlyingFinite, FS_Subset, FS_CardinalityType DEF IndInv
    <2> HIDE DEF F
    <2> QED
      BY <2>1, CostIs
  <1>5. CASE F = {}
    <2>1. Cardinality(F) * Cost = 0
      <3>1. Cardinality(F) = 0
        BY <1>5, FS_EmptySet
      <3> HIDE DEF F
      <3> QED
        BY <3>1, CostIs
    <2> HIDE DEF F, b
    <2>2. 0 <= Lent(b, T)
      BY <1>1, <1>2 DEF Lent, Missing
    <2> QED
      BY <1>4, <2>1, <2>2 DEF F, b
  <1>6. CASE F # {}
    <2>1. /\ F \subseteq Nat /\ DOMAIN grants = 1 .. Len(grants) /\ Len(grants) \in Nat
          /\ grants \in Seq(Grant)
      BY <1>3 DEF IndInv, TypeInv
    <2>2. PICK i \in F : \A j \in F : i <= j
      BY <1>6, <2>1, LeastElement
    <2> DEFINE G == GrantsOf(n, i, Len(grants))
    <2>3. /\ i \in flying /\ i \in DOMAIN grants /\ grants[i].bucket = n
          /\ grants[i] \in Grant
      BY <1>3, <2>1, <2>2 DEF FlyingFrom, IndInv, TypeInv
    <2>4. F \in SUBSET G
      BY <1>3, <2>1, <2>2 DEF FlyingFrom, GrantsOf, IndInv, TypeInv
    <2>5. IsFiniteSet(G) /\ Cardinality(G) \in Nat
      BY <2>1, <2>3, GrantsFinite
    <2>6. Cardinality(F) <= Cardinality(G)
      BY <2>4, <2>5, FS_Subset
    <2>7. Cardinality(G) * Cost + Level(b, T) <= b.capacity + (T - grants[i].at) * b.rate
      BY <2>3 DEF SpentBy
    <2>8. T - grants[i].at <= Latency /\ T - grants[i].at \in Int
      BY <2>3 DEF FlownBy, Grant
    <2> HIDE DEF F, G, b
    <2>9. Cardinality(F) * Cost <= Cardinality(G) * Cost /\ Cardinality(G) * Cost \in Int
      BY <1>4, <2>5, <2>6, CostIs, ProductGrows
    <2>10. /\ (T - grants[i].at) * b.rate <= Latency * b.rate
           /\ (T - grants[i].at) * b.rate \in Int /\ Latency * b.rate \in Int
      BY <1>1, <2>8, ProductGrows
    <2>11. Latency * b.rate = b.rate * Latency
      BY <1>1
    <2>12. Cardinality(F) * Cost <= Lent(b, T)
      BY <1>1, <1>2, <1>4, <2>7, <2>9, <2>10, <2>11 DEF Lent, Missing
    <2> QED
      BY <1>4, <2>12 DEF F, b
  <1> QED
    BY <1>4, <1>5, <1>6

(* The requests on their way are those of the one bucket, or of the two. *)
LEMMA AllFlyingLent ==
  ASSUME IndInv, NEW T \in Nat, now <= T, SpentBy(T), FlownBy(T), Len(buckets) <= 2
  PROVE  Cardinality(flying) * Cost
            <= Lent(buckets[1], T) + (IF Len(buckets) = 2 THEN Lent(buckets[2], T) ELSE 0)
  <1>1. /\ DOMAIN buckets = 1 .. Len(buckets) /\ 1 \in DOMAIN buckets
        /\ Len(buckets) = 2 => 2 \in DOMAIN buckets
    BY DEF IndInv, TypeInv
  <1>2. \A i \in flying : grants[i].bucket \in DOMAIN buckets
    BY DEF IndInv, TypeInv, PastInv
  <1>3. \A n \in DOMAIN buckets :
           /\ IsFiniteSet(FlyingFrom(n)) /\ Cardinality(FlyingFrom(n)) * Cost \in Nat
           /\ Cardinality(FlyingFrom(n)) * Cost <= Lent(buckets[n], T)
           /\ Lent(buckets[n], T) \in Int
    <2> TAKE n \in DOMAIN buckets
    <2>1. buckets[n] \in Bucket /\ buckets[n].updated <= now /\ now \in Nat /\ Latency \in Nat
      BY BucketTypes
    <2>2. /\ buckets[n].capacity \in Int /\ buckets[n].updated <= T
          /\ buckets[n].rate * Latency \in Int
      BY <2>1 DEF Bucket
    <2>3. Lent(buckets[n], T) \in Int
      <3>1. Level(buckets[n], T) \in Nat
        BY <2>1, <2>2, LevelLater
      <3> QED
        BY <2>2, <3>1 DEF Lent, Missing
    <2> QED
      BY <2>3, FlyingLent
  <1>4. CASE Len(buckets) # 2
    <2>1. flying = FlyingFrom(1)
      BY <1>1, <1>2, <1>4 DEF FlyingFrom
    <2> HIDE DEF Lent
    <2> QED
      BY <1>1, <1>3, <1>4, <2>1
  <1>5. CASE Len(buckets) = 2
    <2> DEFINE F == FlyingFrom(1)
               G == FlyingFrom(2)
    <2>1. flying = F \cup G /\ F \cap G = {}
      BY <1>1, <1>2, <1>5 DEF FlyingFrom
    <2>2. IsFiniteSet(F) /\ IsFiniteSet(G)
      BY <1>1, <1>3, <1>5
    <2> HIDE DEF F, G
    <2>3. /\ Cardinality(F) \in Nat /\ Cardinality(G) \in Nat
          /\ Cardinality(flying) = Cardinality(F) + Cardinality(G)
      <3>1. Cardinality(F) \in Nat /\ Cardinality(G) \in Nat
        BY <2>2, FS_CardinalityType
      <3>2. Cardinality(F \cup G)
               = Cardinality(F) + Cardinality(G) - Cardinality(F \cap G)
        BY <2>2, FS_Union
      <3>3. Cardinality(F \cap G) = 0
        BY <2>1, FS_EmptySet
      <3>4. Cardinality(flying) = Cardinality(F) + Cardinality(G) - 0
        BY <2>1, <3>2, <3>3
      <3> QED
        BY <3>1, <3>4
    <2>4. Cardinality(flying) * Cost = Cardinality(F) * Cost + Cardinality(G) * Cost
      BY <2>3, CostIs
    <2>5. /\ Cardinality(F) * Cost \in Nat /\ Cardinality(F) * Cost <= Lent(buckets[1], T)
          /\ Cardinality(G) * Cost \in Nat /\ Cardinality(G) * Cost <= Lent(buckets[2], T)
          /\ Lent(buckets[1], T) \in Int /\ Lent(buckets[2], T) \in Int
      BY <1>1, <1>3, <1>5 DEF F, G
    <2> HIDE DEF Lent
    <2> QED
      BY <1>5, <2>4, <2>5
  <1> QED
    BY <1>4, <1>5

LEMMA TickInv ==
  ASSUME IndInv, Tick
  PROVE  IndInv'
  <1>1. now \in Nat /\ now' = now + 1 /\ UNCHANGED <<buckets, locals, grants, flying, server, throttled>>
    BY DEF Tick, IndInv, TypeInv, service
  <1>2. TypeInv'
    BY <1>1 DEF IndInv, TypeInv, locals
  <1>3. /\ \A n \in DOMAIN buckets : buckets[n] \in Bucket /\ buckets[n].updated <= now
        /\ server \in Bucket /\ server.updated <= now
    BY DEF IndInv, TypeInv, PastInv
  <1>4. PastInv'
    <2>1. \A n \in DOMAIN buckets : buckets[n].updated <= now + 1
      BY <1>1, <1>3 DEF Bucket
    <2>2. server.updated <= now + 1
      BY <1>1, <1>3 DEF Bucket
    <2>3. \A i \in DOMAIN grants : grants[i].at <= now + 1
      <3>1. \A i \in DOMAIN grants : grants[i] \in Grant
        BY DEF IndInv, TypeInv
      <3> QED
        BY <1>1, <3>1 DEF IndInv, PastInv, Grant
    <2> QED
      BY <1>1, <2>1, <2>2, <2>3 DEF IndInv, PastInv, locals
  <1>5. SpentBy(now + 1)
    <2> SUFFICES ASSUME NEW i \in DOMAIN grants
                 PROVE  LET n == grants[i].bucket IN
                        Cardinality(GrantsOf(n, i, Len(grants))) * Cost
                            + Level(buckets[n], now + 1)
                          <= buckets[n].capacity + ((now + 1) - grants[i].at) * buckets[n].rate
      BY DEF SpentBy
    <2> DEFINE n == grants[i].bucket
               c == Cardinality(GrantsOf(n, i, Len(grants))) * Cost
               flow == (now - grants[i].at) * buckets[n].rate
    <2>1. n \in DOMAIN buckets /\ grants[i].at \in Nat
      <3>1. grants[i] \in Grant
        BY DEF IndInv, TypeInv
      <3> QED
        BY <3>1 DEF IndInv, PastInv, Grant
    <2>2. buckets[n].capacity \in Nat /\ buckets[n].rate \in Nat
      BY <1>3, <2>1 DEF Bucket
    <2>3. c + Level(buckets[n], now) <= buckets[n].capacity + flow
      BY DEF IndInv, SpentBy
    <2>4. /\ Level(buckets[n], now) \in Nat
          /\ Level(buckets[n], now + 1) <= Level(buckets[n], now) + buckets[n].rate
          /\ Level(buckets[n], now + 1) \in Nat
      BY <1>1, <1>3, <2>1, <2>2, LevelLater DEF AtMost
    <2>5. flow \in Int /\ ((now + 1) - grants[i].at) * buckets[n].rate = flow + buckets[n].rate
      <3> DEFINE d == now - grants[i].at
                 r == buckets[n].rate
      <3>1. d \in Int /\ r \in Nat /\ (now + 1) - grants[i].at = d + 1
        BY <1>1, <2>1, <2>2
      <3> HIDE DEF d, r
      <3>2. d * r \in Int /\ (d + 1) * r = d * r + r
        BY <3>1
      <3> QED
        BY <3>1, <3>2 DEF d, r
    <2>6. c \in Int
      <3>1. i \in Nat /\ Len(grants) \in Nat
        BY DEF IndInv, TypeInv
      <3>2. Cardinality(GrantsOf(n, i, Len(grants))) \in Nat
        BY <3>1, GrantsFinite
      <3> QED
        BY <3>2, CostIs
    <2> HIDE DEF c, flow
    <2>7. c + Level(buckets[n], now + 1) <= buckets[n].capacity + (flow + buckets[n].rate)
      BY <2>2, <2>3, <2>4, <2>5, <2>6
    <2> QED
      BY <2>5, <2>7 DEF c
  <1>6. FlownBy(now + 1)
    <2>1. \A i \in flying : grants[i].at \in Nat
      <3> TAKE i \in flying
      <3>1. i \in DOMAIN grants
        BY DEF IndInv, TypeInv
      <3>2. grants[i] \in Grant
        BY <3>1 DEF IndInv, TypeInv
      <3> QED
        BY <3>2 DEF Grant
    <2> QED
      BY <1>1, <2>1, RateLimitAssumption DEF Tick, FlownBy
  <1>7. SpentBy(now)' /\ FlownBy(now)'
    BY <1>1, <1>5, <1>6 DEF SpentBy, FlownBy, GrantsOf
  <1>8. RatesInv' /\ WithinBudget'
    BY <1>1 DEF IndInv, RatesInv, WithinBudget
  <1>9. SleepInv'
    <2>1. UNCHANGED <<pc, deadline, wait, wake, slept>>
      BY <1>1 DEF locals
    <2>2. \A t \in Threads : slept[t] <= now - Began(t) => slept[t] <= (now + 1) - Began(t)
      BY SleepTypes DEF Began
    <2> QED
      BY <1>1, <2>1, <2>2 DEF IndInv, SleepInv, Began
  <1>10. SafeInv'
    <2> SUFFICES ASSUME LatencyFits, Len(buckets) <= 2
                 PROVE  /\ ~throttled
                        /\ Missing(server, now + 1) + Cardinality(flying) * Cost
                              <= Lent(buckets[1], now + 1)
                                    + (IF Len(buckets) = 2 THEN Lent(buckets[2], now + 1) ELSE 0)
      BY <1>1 DEF SafeInv
    <2>1. /\ ~throttled
          /\ Missing(server, now) + Cardinality(flying) * Cost
                <= Lent(buckets[1], now)
                      + (IF Len(buckets) = 2 THEN Lent(buckets[2], now) ELSE 0)
      BY DEF IndInv, SafeInv
    <2>2. 1 \in DOMAIN buckets /\ (Len(buckets) = 2 => 2 \in DOMAIN buckets)
      BY DEF IndInv, TypeInv
    <2>3. /\ Missing(server, now) \in Nat
          /\ Missing(server, now + 1) = AtLeast(0, Missing(server, now) - server.rate)
          /\ \A n \in DOMAIN buckets :
                /\ Missing(buckets[n], now) \in Nat
                /\ Missing(buckets[n], now + 1)
                      = AtLeast(0, Missing(buckets[n], now) - buckets[n].rate)
      BY <1>1, <1>3, MissingLater
    <2>4. /\ server.rate \in Nat
          /\ \A n \in DOMAIN buckets :
                buckets[n].rate \in Nat /\ buckets[n].rate * Latency \in Int
      BY <1>3, BucketTypes DEF Bucket
    <2>5. /\ buckets[1].rate <= server.rate
          /\ Len(buckets) = 2 => buckets[1].rate + buckets[2].rate <= server.rate
      <3>1. /\ server.rate = 2 * Advertised /\ buckets[1].rate = 2
            /\ \A n \in DOMAIN buckets : buckets[n].rate <= Discovered
        BY DEF IndInv, RatesInv, Conservative
      <3>2. \A n \in DOMAIN buckets : 2 + buckets[n].rate <= 2 * Advertised
        BY <2>4, <3>1, BudgetsFit
      <3> QED
        BY <2>2, <2>4, <3>1, <3>2
    <2>6. Cardinality(flying) * Cost
             <= Lent(buckets[1], now + 1)
                   + (IF Len(buckets) = 2 THEN Lent(buckets[2], now + 1) ELSE 0)
      BY <1>1, <1>5, <1>6, AllFlyingLent
    <2>7. Cardinality(flying) * Cost \in Nat
      BY FlyingFinite DEF IndInv
    <2> DEFINE f == Cardinality(flying) * Cost
               m0 == Missing(server, now)
               m1 == Missing(buckets[1], now)
               m2 == Missing(buckets[2], now)
               n0 == Missing(server, now + 1)
               n1 == Missing(buckets[1], now + 1)
               n2 == Missing(buckets[2], now + 1)
               r0 == server.rate
               r1 == buckets[1].rate
               r2 == buckets[2].rate
               l1 == buckets[1].rate * Latency
               l2 == buckets[2].rate * Latency
    <2>8. CASE Len(buckets) = 2
      <3>1. /\ m0 + f <= (m1 + l1) + (m2 + l2) /\ f <= (n1 + l1) + (n2 + l2)
            /\ n0 = AtLeast(0, m0 - r0) /\ n1 = AtLeast(0, m1 - r1) /\ n2 = AtLeast(0, m2 - r2)
            /\ r1 + r2 <= r0
            /\ f \in Nat /\ m0 \in Nat /\ m1 \in Nat /\ m2 \in Nat
            /\ r0 \in Nat /\ r1 \in Nat /\ r2 \in Nat /\ l1 \in Int /\ l2 \in Int
        BY <2>1, <2>2, <2>3, <2>4, <2>5, <2>6, <2>7, <2>8 DEF Lent
      <3> HIDE DEF f, m0, m1, m2, n0, n1, n2, r0, r1, r2, l1, l2
      <3>2. n0 + f <= (n1 + l1) + (n2 + l2)
        <4>1. CASE m0 <= r0
          BY <3>1, <4>1 DEF AtLeast
        <4>2. CASE ~(m0 <= r0)
          <5>1. n0 = m0 - r0 /\ n1 >= m1 - r1 /\ n2 >= m2 - r2
            BY <3>1, <4>2 DEF AtLeast
          <5>2. n1 \in Int /\ n2 \in Int
            BY <3>1 DEF AtLeast
          <5>3. n0 \in Int /\ f \in Int /\ m1 - r1 \in Int /\ m2 - r2 \in Int /\ l1 \in Int /\ l2 \in Int
            BY <3>1, <5>1
          <5>4. n0 + f <= ((m1 - r1) + l1) + ((m2 - r2) + l2)
            BY <3>1, <5>1
          <5>5. (m1 - r1) + l1 <= n1 + l1 /\ (m2 - r2) + l2 <= n2 + l2
            BY ONLY <5>1, <5>2, <5>3
          <5>6. (m1 - r1) + l1 \in Int /\ n1 + l1 \in Int /\ (m2 - r2) + l2 \in Int /\ n2 + l2 \in Int
            BY ONLY <5>2, <5>3
          <5> QED
            BY ONLY <5>3, <5>4, <5>5, <5>6
        <4> QED
          BY <4>1, <4>2
      <3> QED
        BY <2>1, <2>8, <3>2 DEF Lent, f, n0, n1, n2, l1, l2
    <2>9. CASE Len(buckets) # 2
      <3>1. /\ m0 + f <= (m1 + l1) + 0 /\ f <= (n1 + l1) + 0
            /\ n0 = AtLeast(0, m0 - r0) /\ n1 = AtLeast(0, m1 - r1)
            /\ r1 <= r0
            /\ f \in Nat /\ m0 \in Nat /\ m1 \in Nat /\ r0 \in Nat /\ r1 \in Nat
            /\ l1 \in Int
        BY <2>1, <2>2, <2>3, <2>4, <2>5, <2>6, <2>7, <2>9 DEF Lent
      <3> HIDE DEF f, m0, m1, n0, n1, r0, r1, l1
      <3>2. n0 + f <= (n1 + l1) + 0
        BY <3>1 DEF AtLeast
      <3> QED
        BY <2>1, <2>9, <3>2 DEF Lent, f, n0, n1, l1
    <2> QED
      BY <2>8, <2>9
  <1> QED
    BY <1>2, <1>4, <1>7, <1>8, <1>9, <1>10 DEF IndInv

-----------------------------------------------------------------------------
LEMMA NextInv ==
  ASSUME IndInv, [Next]_vars
  PROVE  IndInv'
  <1>1. CASE UNCHANGED vars
    <2>1. /\ TypeInv'
          /\ UNCHANGED <<now, buckets, pc, held, deadline, wait, wake, slept, grants, flying,
                         server, throttled>>
      BY <1>1 DEF vars, locals, service, IndInv, TypeInv
    <2>2. SleepInv'
      BY <2>1 DEF IndInv, SleepInv, Began
    <2> QED
      BY <2>1, <2>2, QuietInv DEF IndInv, PastInv
  <1>2. ASSUME NEW t \in Threads, TryAcquire(t) PROVE IndInv'
    BY <1>2, GrantInv, TryFailsInv
  <1>3. ASSUME NEW m \in {Advertised, Conservative}, NewBudget(m) PROVE IndInv'
    BY <1>3, NewBudgetInv
  <1>4. ASSUME NEW i \in flying, Arrive(i) \/ Lost(i) PROVE IndInv'
    BY <1>4, ArriveInv, LostInv
  <1> QED
    BY <1>1, <1>2, <1>3, <1>4, AcquireInv, ReckonInv, DecideInv, SleepIsInv, WakeInv, TickInv
    DEF Next

LEMMA Invariant == Spec => []IndInv
  BY InitInv, NextInv, PTL DEF Spec

(* However threads race for a bucket, over any stretch of time they take no  *)
(* more than a full one and what flows in (ratelimit.py, TokenBucket).       *)
THEOREM BudgetKept == Spec => []WithinBudget
  <1>1. IndInv => WithinBudget
    BY DEF IndInv
  <1> QED
    BY <1>1, Invariant, PTL

(* The sleeps of a call never exceed its max_wait together, however much     *)
(* time passes between a check and the sleep it allows (ratelimit.py,        *)
(* acquire).                                                                 *)
THEOREM SleepsInTime == Spec => []SleepsWithinMaxWait
  <1>1. IndInv => SleepsWithinMaxWait
    BY DEF IndInv, SleepInv, SleepsWithinMaxWait
  <1> QED
    BY <1>1, Invariant, PTL

(* A service never has to turn down a client that discovers its limits once, *)
(* for every limit and every latency of its requests that LatencyFits lets   *)
(* go together (client.py, discover_limits; ratelimit.py, SAFETY_FACTOR).    *)
THEOREM DiscoveryIsSafe == Spec => []OneDiscoveryIsSafe
  <1>1. IndInv => OneDiscoveryIsSafe
    BY DEF IndInv, SafeInv, OneDiscoveryIsSafe
  <1> QED
    BY <1>1, Invariant, PTL
=============================================================================
