----------------------------- MODULE RateLimit ------------------------------
(***************************************************************************)
(* The client-side token buckets (technocore/ratelimit.py) as              *)
(* TechnocoreClient uses the one for writes: threads that acquire, wait    *)
(* and give up; budgets that are replaced while threads still hold the old *)
(* one (client.py, discover_limits; a new client); the requests that the   *)
(* tokens pay for, on their way; and the service's own bucket, which       *)
(* counts them per address when they arrive.                               *)
(*                                                                         *)
(* Time is in ticks and tokens in units of 1 / (2 * Minute), so that half  *)
(* the advertised limit is a whole number of units; rounding of floats is  *)
(* not modelled.                                                           *)
(***************************************************************************)
EXTENDS Integers, Sequences, FiniteSets

CONSTANTS Threads,
          Advertised,   \* writes per minute the service advertises
          Minute,       \* ticks per minute
          MaxWait,      \* acquire's max_wait, in ticks
          Nap,          \* longest single sleep, in ticks
          Latency,      \* ticks from a token to its request's arrival, at most
          MaxTime,      \* bound: the clock
          MaxBudgets    \* bound: budgets made

ASSUME RateLimitAssumption ==
    /\ {Advertised, Minute, MaxWait, Nap, MaxBudgets} \subseteq Nat \ {0}
    /\ {Latency, MaxTime} \subseteq Nat

VARIABLES now,
          buckets,    \* the write bucket of every budget made, newest last
          pc, held,   \* where each thread is, and the bucket it acquires from
          deadline,
          wait,       \* what it reckons it must wait
          wake,       \* when its sleep ends
          slept,      \* history: all it has slept in this call
          grants,     \* history: tokens taken, [at, bucket], in order
          flying,     \* the grants whose requests have not arrived
          server,     \* the service's bucket for this address
          throttled   \* history: the service had to answer 429

locals == <<pc, held, deadline, wait, wake, slept>>
service == <<server, throttled>>
vars == <<now, buckets, locals, grants, flying, service>>

Cost == 2 * Minute      \* one token

AtLeast(a, b) == IF a >= b THEN a ELSE b
AtMost(a, b) == IF a <= b THEN a ELSE b

(* Mutant: the safety factor is forgotten. *)
from_advertised_Whole(perMinute) ==
    [capacity |-> 2 * perMinute * Minute, rate |-> perMinute,
     tokens |-> 2 * perMinute * Minute, updated |-> 0]

(* Budget.from_advertised: half the limit, at least one a minute; buckets    *)
(* start full.                                                               *)
from_advertised(perMinute) ==
    LET halves == AtLeast(2, perMinute)
    IN  [capacity |-> halves * Minute, rate |-> halves,
         tokens |-> halves * Minute, updated |-> 0]

(* EXTERNAL: the service's bucket, of the whole limit. *)
serverBucket == [capacity |-> 2 * Advertised * Minute, rate |-> 2 * Advertised,
                 tokens |-> 2 * Advertised * Minute, updated |-> 0]

Conservative == 2       \* Budget.conservative(): writes_per_minute

(* Mutant: the moment of the refill is not remembered. *)
Refilled_Again(b) ==
    [b EXCEPT !.tokens = AtMost(b.capacity, @ + (now - b.updated) * b.rate)]

(* TokenBucket._refill *)
Refilled(b) ==
    [b EXCEPT !.tokens = AtMost(b.capacity, @ + (now - b.updated) * b.rate),
              !.updated = now]

Spend(b) == [b EXCEPT !.tokens = @ - Cost]

Init == /\ now = 0
        /\ buckets = <<from_advertised(Conservative)>>
        /\ pc = [t \in Threads |-> "idle"]
        /\ held = [t \in Threads |-> 0]
        /\ deadline = [t \in Threads |-> 0]
        /\ wait = [t \in Threads |-> 0]
        /\ wake = [t \in Threads |-> 0]
        /\ slept = [t \in Threads |-> 0]
        /\ grants = <<>>
        /\ flying = {}
        /\ server = serverBucket
        /\ throttled = FALSE

Done(t) == /\ pc' = [pc EXCEPT ![t] = "idle"]
           /\ held' = [held EXCEPT ![t] = 0]
           /\ deadline' = [deadline EXCEPT ![t] = 0]
           /\ wait' = [wait EXCEPT ![t] = 0]
           /\ wake' = [wake EXCEPT ![t] = 0]
           /\ slept' = [slept EXCEPT ![t] = 0]

-----------------------------------------------------------------------------
(* acquire begins: max_wait counts from here, on the budget of this moment. *)
Acquire(t) ==
    /\ pc[t] = "idle"
    /\ pc' = [pc EXCEPT ![t] = "try"]
    /\ held' = [held EXCEPT ![t] = Len(buckets)]
    /\ deadline' = [deadline EXCEPT ![t] = now + MaxWait]
    /\ UNCHANGED <<now, buckets, wait, wake, slept, grants, flying, service>>

(* try_acquire, under the lock.  With the token the caller goes on to send   *)
(* its request, and may be back before that arrives.                         *)
TryAcquire(t) ==
    /\ pc[t] = "try"
    /\ LET b == Refilled(buckets[held[t]]) IN
       IF b.tokens >= Cost
       THEN /\ buckets' = [buckets EXCEPT ![held[t]] = Spend(b)]
            /\ grants' = Append(grants, [at |-> now, bucket |-> held[t]])
            /\ flying' = flying \cup {Len(grants')}
            /\ Done(t)
       ELSE /\ buckets' = [buckets EXCEPT ![held[t]] = b]
            /\ pc' = [pc EXCEPT ![t] = "reckon"]
            /\ UNCHANGED <<held, deadline, wait, wake, slept, grants, flying>>
    /\ UNCHANGED <<now, service>>

(* The lock is taken again to reckon the wait; others may have been there.   *)
Reckon(t) ==
    /\ pc[t] = "reckon"
    /\ LET b == Refilled(buckets[held[t]])
           deficit == Cost - b.tokens
       IN  /\ buckets' = [buckets EXCEPT ![held[t]] = b]
           /\ wait' = [wait EXCEPT ![t] =
                         AtLeast(1, (deficit + b.rate - 1) \div b.rate)]
    /\ pc' = [pc EXCEPT ![t] = "decide"]
    /\ UNCHANGED <<now, held, deadline, wake, slept, grants, flying, service>>

(* Mutant: only the deadline is looked at, not the wait before it. *)
DecideLate(t) ==
    /\ pc[t] = "decide"
    /\ IF now > deadline[t]
       THEN Done(t)
       ELSE /\ pc' = [pc EXCEPT ![t] = "nap"]
            /\ UNCHANGED <<held, deadline, wait, wake, slept>>
    /\ UNCHANGED <<now, buckets, grants, flying, service>>

(* RateLimitExceeded when the wait would end after the deadline. *)
Decide(t) ==
    /\ pc[t] = "decide"
    /\ IF now + wait[t] > deadline[t]
       THEN Done(t)
       ELSE /\ pc' = [pc EXCEPT ![t] = "nap"]
            /\ UNCHANGED <<held, deadline, wait, wake, slept>>
    /\ UNCHANGED <<now, buckets, grants, flying, service>>

(* time.sleep begins; the check it rests on may be of an earlier tick. *)
Sleep(t) ==
    /\ pc[t] = "nap"
    /\ pc' = [pc EXCEPT ![t] = "sleep"]
    /\ LET span == AtMost(wait[t], Nap)
       IN  /\ wake' = [wake EXCEPT ![t] = now + span]
           /\ slept' = [slept EXCEPT ![t] = @ + span]
    /\ UNCHANGED <<now, buckets, held, deadline, wait, grants, flying, service>>

Wake(t) ==
    /\ pc[t] = "sleep" /\ now >= wake[t]
    /\ pc' = [pc EXCEPT ![t] = "try"]
    /\ UNCHANGED <<now, buckets, held, deadline, wait, wake, slept, grants, flying, service>>

(* discover_limits, or a new client in a new process: a fresh, full budget.  *)
(* A failed discovery takes the conservative one.                            *)
NewBudget(perMinute) ==
    /\ Len(buckets) < MaxBudgets
    /\ buckets' = Append(buckets, Refilled(from_advertised(perMinute)))
    /\ UNCHANGED <<now, locals, grants, flying, service>>

(* EXTERNAL: a request reaches the service, which refuses it when its own    *)
(* bucket is empty.  Requests may overtake each other.                       *)
Arrive(i) ==
    /\ flying' = flying \ {i}
    /\ LET full == Refilled(server)
       IN  IF full.tokens >= Cost
           THEN server' = Spend(full) /\ UNCHANGED throttled
           ELSE server' = full /\ throttled' = TRUE
    /\ UNCHANGED <<now, buckets, locals, grants>>

(* EXTERNAL: a request that never arrives. *)
Lost(i) == /\ flying' = flying \ {i}
           /\ UNCHANGED <<now, buckets, locals, grants, service>>

Tick == /\ now < MaxTime
        /\ \A i \in flying : now - grants[i].at < Latency
        /\ now' = now + 1
        /\ UNCHANGED <<buckets, locals, grants, flying, service>>

Next == \/ \E t \in Threads : \/ Acquire(t) \/ TryAcquire(t) \/ Reckon(t)
                              \/ Decide(t) \/ Sleep(t) \/ Wake(t)
        \/ \E perMinute \in {Advertised, Conservative} : NewBudget(perMinute)
        \/ \E i \in flying : Arrive(i) \/ Lost(i)
        \/ Tick

Spec == Init /\ [][Next]_vars

-----------------------------------------------------------------------------
(* Properties *)

(* What the bucket is for: over any stretch of time its threads together     *)
(* take no more than a full bucket and what flows in meanwhile.              *)
WithinBudget ==
    \A i, j \in DOMAIN grants : i <= j /\ grants[i].bucket = grants[j].bucket =>
        LET b == buckets[grants[i].bucket]
            taken == {k \in i .. j : grants[k].bucket = grants[i].bucket}
        IN  Cardinality(taken) * Cost
                <= b.capacity + (grants[j].at - grants[i].at) * b.rate

(* The sleeps of one acquire never add up to more than its max_wait, however *)
(* often others take the token it waited for and however late each sleep     *)
(* begins after the check that allowed it.                                   *)
SleepsWithinMaxWait == \A t \in Threads : slept[t] <= MaxWait

(* What the conservative and one discovered budget can let arrive in a       *)
(* minute and the latency, their buckets having been full, is what the       *)
(* service lets in from a full bucket of its own.                            *)
LatencyFits ==
    (AtLeast(2, Advertised) + Conservative) * (Minute + Latency) <= 2 * Advertised * Minute

(* A client that starts on the conservative budget and discovers the limits  *)
(* once never makes the service answer 429, even while threads still wait on *)
(* the budget it started with, as long as requests do not take longer than   *)
(* LatencyFits allows: a third of a minute when 4 writes a minute are        *)
(* advertised, and no time at all when only 2 are.                           *)
OneDiscoveryIsSafe == Len(buckets) <= 2 /\ LatencyFits => ~throttled

=============================================================================
