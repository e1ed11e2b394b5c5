----------------------------- MODULE NonceStore -----------------------------
(***************************************************************************)
(* Nonce issuance (identity/nonce.py) over SQLite's BEGIN IMMEDIATE        *)
(* transactions (storage/db.py), by several processes sharing one ledger   *)
(* file.  A call runs                                                      *)
(*                                                                         *)
(*   begin  ->  read  ->  apply  ->  commit  ->  returned  ->  idle        *)
(*                                                                         *)
(* one SQL statement per step, so other connections interleave between     *)
(* them; a process may crash at any step.  An announcement that names its  *)
(* nonce (technocore/announcement.py, reserve_announcement_nonce) first    *)
(* looks at the counter outside any transaction: the "peek" step.          *)
(*                                                                         *)
(* A call refused before its first statement (an empty did, a negative     *)
(* floor, an over-long nonce) changes nothing and is not a step.           *)
(***************************************************************************)
EXTENDS Integers, Sequences

CONSTANTS Procs,              \* processes, each with its own connection
          NoProc,             \* nobody holds the write lock
          Keys,               \* (agent_did, scope) pairs
          Args,               \* floors, observed nonces and explicit nonces
          MaxStorableNonce,   \* 2^63 - 1 in the code
          MaxDigitsNonce      \* 10^19 - 1: the largest nonce of 19 digits

ASSUME NonceAssumption == /\ MaxStorableNonce \in Nat \ {0}
                          /\ MaxDigitsNonce \in Nat
                          /\ MaxStorableNonce <= MaxDigitsNonce
                          /\ Args \subseteq Int
                          /\ NoProc \notin Procs
                          /\ Keys # {}

VARIABLES last,       \* the nonces table: last_nonce, 0 when there is no row
          lock,       \* the connection holding SQLite's write lock
          pc,         \* where each process is in its call
          call,       \* the call: operation, key, argument
          seen,       \* what its SELECT returned
          pending,    \* the value its open transaction wrote, 0 if none
          result,     \* what the call will return
          issued,     \* history: nonces committed for a caller, per key
          witnessed   \* history: largest nonce issued or observed, per key

vars == <<last, lock, pc, call, seen, pending, result, issued, witnessed>>

Ops == {"reserve", "observe", "claim"}

InTransaction == {"read", "apply", "commit"}

Larger(a, b) == IF a >= b THEN a ELSE b

-----------------------------------------------------------------------------
(* validate_nonce: 1 to 19 digits *)
validate_nonce(n) == n >= 0 /\ n <= MaxDigitsNonce

(* Mutant: the floor alone decides, the stored value is ignored. *)
NextNonceFloorOnly(stored, floor) == floor + 1

(* The next nonce: strictly above the stored value and the floor. *)
NextNonce(stored, floor) == Larger(stored, floor) + 1

(* Mutant: only the digit count is checked. *)
ExhaustedDigitsOnly(n) == ~validate_nonce(n)

(* reserve refuses what SQLite cannot store or Technocore cannot parse. *)
Exhausted(n) == n > MaxStorableNonce \/ ~validate_nonce(n)

(* The floor a call passes to reserve: an explicit nonce n asks for n - 1. *)
Floor(c) == IF c.op = "claim" THEN c.arg - 1 ELSE c.arg

NoCall == [op |-> "none", key |-> CHOOSE k \in Keys : TRUE, arg |-> 0]

Init == /\ last = [k \in Keys |-> 0]
        /\ lock = NoProc
        /\ pc = [p \in Procs |-> "idle"]
        /\ call = [p \in Procs |-> NoCall]
        /\ seen = [p \in Procs |-> 0]
        /\ pending = [p \in Procs |-> 0]
        /\ result = [p \in Procs |-> 0]
        /\ issued = [k \in Keys |-> <<>>]
        /\ witnessed = [k \in Keys |-> 0]

(* The call is over: its frame is gone, whatever it returned or raised. *)
End(p) == /\ pc' = [pc EXCEPT ![p] = "idle"]
          /\ call' = [call EXCEPT ![p] = NoCall]
          /\ seen' = [seen EXCEPT ![p] = 0]
          /\ pending' = [pending EXCEPT ![p] = 0]
          /\ result' = [result EXCEPT ![p] = 0]

-----------------------------------------------------------------------------
(* Entering a call. *)
Enter(p, op, k, n, at) ==
    /\ pc[p] = "idle"
    /\ pc' = [pc EXCEPT ![p] = at]
    /\ call' = [call EXCEPT ![p] = [op |-> op, key |-> k, arg |-> n]]
    /\ UNCHANGED <<last, lock, seen, pending, result, issued, witnessed>>

(* NonceStore.reserve *)
Reserve(p, k, floor) == floor >= 0 /\ Enter(p, "reserve", k, floor, "begin")

(* NonceStore.observe *)
Observe(p, k, n) == validate_nonce(n) /\ Enter(p, "observe", k, n, "begin")

(* reserve_announcement_nonce with an explicit nonce *)
Claim(p, k, n) == validate_nonce(n) /\ Enter(p, "claim", k, n, "peek")

(* NonceStore.current, read with no transaction open; a stale or zero        *)
(* choice is refused, any other goes on to reserve(floor = chosen - 1).      *)
Peek(p) ==
    /\ pc[p] = "peek"
    /\ LET chosen == call[p].arg
       IN  IF chosen < 1 \/ chosen <= last[call[p].key]
           THEN End(p)
           ELSE /\ pc' = [pc EXCEPT ![p] = "begin"]
                /\ UNCHANGED <<call, seen, pending, result>>
    /\ UNCHANGED <<last, lock, issued, witnessed>>

-----------------------------------------------------------------------------
(* The transaction. *)

(* Mutant: a deferred BEGIN, which takes no lock before the read. *)
BeginDeferred(p) ==
    /\ pc[p] = "begin"
    /\ lock' = p
    /\ pc' = [pc EXCEPT ![p] = "read"]
    /\ UNCHANGED <<last, call, seen, pending, result, issued, witnessed>>

(* BEGIN IMMEDIATE takes the write lock before anything is read. *)
Begin(p) ==
    /\ pc[p] = "begin"
    /\ lock = NoProc
    /\ lock' = p
    /\ pc' = [pc EXCEPT ![p] = "read"]
    /\ UNCHANGED <<last, call, seen, pending, result, issued, witnessed>>

(* Mutant: no bound on the wait for the lock. *)
BusyForever(p) == pc[p] = "begin" /\ lock # NoProc /\ UNCHANGED vars

(* busy_timeout ran out: BEGIN IMMEDIATE raises before the try block. *)
BusyTimeout(p) ==
    /\ pc[p] = "begin"
    /\ lock # NoProc
    /\ End(p)
    /\ UNCHANGED <<last, lock, issued, witnessed>>

(* SELECT last_nonce *)
Read(p) ==
    /\ pc[p] = "read"
    /\ seen' = [seen EXCEPT ![p] = last[call[p].key]]
    /\ pc' = [pc EXCEPT ![p] = "apply"]
    /\ UNCHANGED <<last, lock, call, pending, result, issued, witnessed>>

(* The statements up to the commit: write w (0: nothing), answer r. *)
Write(p, w, r) ==
    /\ pending' = [pending EXCEPT ![p] = w]
    /\ result' = [result EXCEPT ![p] = r]
    /\ pc' = [pc EXCEPT ![p] = "commit"]
    /\ UNCHANGED <<lock, call, seen>>

(* Mutant: the exception escapes with the transaction still open. *)
RollbackForgotten(p) == UNCHANGED lock /\ End(p)

(* ROLLBACK and re-raise. *)
Rollback(p) == lock' = NoProc /\ End(p)

(* reserve: the upsert of the next nonce, or "nonce space exhausted". *)
ApplyReserve(p) ==
    /\ pc[p] = "apply"
    /\ call[p].op # "observe"
    /\ LET nxt == NextNonce(seen[p], Floor(call[p]))
       IN  IF Exhausted(nxt) THEN Rollback(p) ELSE Write(p, nxt, nxt)
    /\ UNCHANGED <<last, issued, witnessed>>

(* Mutant: observe overwrites the counter with whatever it is told. *)
ApplyObserveBlind(p) ==
    /\ pc[p] = "apply"
    /\ call[p].op = "observe"
    /\ IF call[p].arg > MaxStorableNonce THEN Rollback(p)
       ELSE Write(p, call[p].arg, call[p].arg)
    /\ UNCHANGED <<last, issued, witnessed>>

(* observe: nothing to write when the stored value is as large; a 19-digit   *)
(* nonce SQLite cannot bind raises OverflowError inside the transaction.     *)
ApplyObserve(p) ==
    /\ pc[p] = "apply"
    /\ call[p].op = "observe"
    /\ LET n == call[p].arg
       IN  IF n <= seen[p] THEN Write(p, 0, seen[p])
           ELSE IF n > MaxStorableNonce THEN Rollback(p)
           ELSE Write(p, n, n)
    /\ UNCHANGED <<last, issued, witnessed>>

(* COMMIT: what was written becomes durable and the lock is released. *)
Commit(p) ==
    /\ pc[p] = "commit"
    /\ LET k == call[p].key
           reserving == call[p].op # "observe"
           reported == IF reserving THEN result[p] ELSE call[p].arg
       IN  /\ last' = IF pending[p] = 0 THEN last
                      ELSE [last EXCEPT ![k] = pending[p]]
           /\ issued' = IF reserving
                        THEN [issued EXCEPT ![k] = Append(issued[k], result[p])]
                        ELSE issued
           /\ witnessed' = [witnessed EXCEPT ![k] = Larger(@, reported)]
    /\ lock' = NoProc
    /\ pc' = [pc EXCEPT ![p] = "returned"]
    /\ UNCHANGED <<call, seen, pending, result>>

(* A claim got another nonce than the one it named. *)
Raced(p) == call[p].op = "claim" /\ result[p] # call[p].arg

(* The caller has its answer. *)
Return(p) ==
    /\ pc[p] = "returned"
    /\ ~Raced(p)
    /\ End(p)
    /\ UNCHANGED <<last, lock, issued, witnessed>>

(* "announcement nonce reservation raced; refusing to sign": the counter has *)
(* moved, and the nonce it moved to is burnt.                                *)
RefuseRaced(p) ==
    /\ pc[p] = "returned"
    /\ Raced(p)
    /\ End(p)
    /\ UNCHANGED <<last, lock, issued, witnessed>>

(* The process dies: SQLite rolls its open transaction back. *)
Crash(p) ==
    /\ pc[p] # "idle"
    /\ lock' = IF lock = p THEN NoProc ELSE lock
    /\ End(p)
    /\ UNCHANGED <<last, issued, witnessed>>

-----------------------------------------------------------------------------
Step(p) == \/ Peek(p) \/ Begin(p) \/ BusyTimeout(p) \/ Read(p)
           \/ ApplyReserve(p) \/ ApplyObserve(p) \/ Commit(p) \/ Return(p)
           \/ RefuseRaced(p)

Calls(p) == \E k \in Keys, n \in Args :
               Reserve(p, k, n) \/ Observe(p, k, n) \/ Claim(p, k, n)

Next == \E p \in Procs : Calls(p) \/ Step(p) \/ Crash(p)

Spec == Init /\ [][Next]_vars

(* A started call keeps being scheduled; nothing forces a new call or a crash. *)
FairSpec == Spec /\ \A p \in Procs : WF_vars(Step(p))

-----------------------------------------------------------------------------
(* Properties *)

(* Every variable keeps its type; the counters fit SQLite's integers. *)
TypeOK ==
    /\ last \in [Keys -> 0 .. MaxStorableNonce]
    /\ lock \in Procs \cup {NoProc}
    /\ pc \in [Procs -> {"idle", "peek", "begin", "returned"} \cup InTransaction]
    /\ call \in [Procs -> [op : Ops \cup {"none"}, key : Keys, arg : Int]]
    /\ seen \in [Procs -> 0 .. MaxStorableNonce]
    /\ pending \in [Procs -> 0 .. MaxStorableNonce]
    /\ result \in [Procs -> 0 .. MaxStorableNonce]
    /\ issued \in [Keys -> Seq(1 .. MaxStorableNonce)]
    /\ witnessed \in [Keys -> 0 .. MaxStorableNonce]

(* The write lock is held by exactly the process inside `immediate`: every   *)
(* way out of the block, the raising ones included, lets it go (db.py).      *)
LockOwned ==
    \A p \in Procs : lock = p <=> pc[p] \in InTransaction

(* No nonce is issued twice for a (did, scope), and each is larger than      *)
(* every one issued before it, whatever the interleaving and the crashes:    *)
(* "reuse" and "concurrent duplicate issuance" in nonce.py's docstring.      *)
IssuedIncreasing ==
    \A k \in Keys : \A i, j \in 1 .. Len(issued[k]) :
        i < j => issued[k][i] < issued[k][j]

(* The stored counter is the largest nonce that any completed call issued or *)
(* observed: nothing a caller was told is forgotten, no failed call leaves a *)
(* trace ("regression" in nonce.py's docstring).                             *)
CounterIsHighest == \A k \in Keys : last[k] = witnessed[k]

(* A caller only sees a value that is already durable: a crash after the     *)
(* answer cannot make reserve forget it (nonce.py: "persisting before the    *)
(* caller sees the value").                                                  *)
DurableBeforeReturn ==
    \A p \in Procs : pc[p] = "returned" => result[p] <= last[call[p].key]

(* A step never lowers a counter, and issues a nonce only above everything   *)
(* issued or observed for that key so far.                                   *)
NeverBackwards ==
    [][\A k \in Keys :
          /\ last'[k] >= last[k]
          /\ issued'[k] # issued[k]
                => issued'[k][Len(issued'[k])] > witnessed[k]]_vars

(* The transactions implement atomic, strictly increasing issuance. *)
Abstract == INSTANCE NonceSpec WITH top <- last, MaxNonce <- MaxStorableNonce
ImplementsNonceSpec == Abstract!Spec

(* Every call ends: it returns, raises or dies with its process; the wait    *)
(* for the write lock is bounded by busy_timeout (db.py).                    *)
CallsEnd == \A p \in Procs : pc[p] # "idle" ~> pc[p] = "idle"
=============================================================================
