-------------------------- MODULE NonceStoreProofs --------------------------
(***************************************************************************)
(* For every set of processes, keys and arguments, and every bound: the    *)
(* nonce store issues each nonce once, in increasing order, its counter    *)
(* never forgets, and its transactions implement NonceSpec.                *)
(*                                                                         *)
(* The properties are not inductive by themselves.  What carries them is   *)
(* the lock: whoever is between its SELECT and its COMMIT is alone there   *)
(* (LockOwned), so what it read is still what is stored (ReadStillTrue)    *)
(* and what it is about to write is still above it (WriteStillAbove).      *)
(***************************************************************************)
EXTENDS NonceStore, TLAPS

(* What a transaction has read is still the stored value. *)
ReadStillTrue ==
    \A p \in Procs : pc[p] = "apply" => seen[p] = last[call[p].key]

(* What a transaction is about to commit: a reservation above the counter,   *)
(* or an observed nonce above it, or no write at all.                        *)
WriteStillAbove ==
    \A p \in Procs : pc[p] = "commit" =>
        IF call[p].op # "observe"
        THEN /\ pending[p] = result[p]
             /\ pending[p] > last[call[p].key]
        ELSE \/ /\ pending[p] = 0
                /\ result[p] = last[call[p].key]
                /\ call[p].arg <= last[call[p].key]
             \/ /\ pending[p] = call[p].arg
                /\ result[p] = call[p].arg
                /\ pending[p] > last[call[p].key]

(* Nothing was issued above the counter. *)
IssuedBelow ==
    \A k \in Keys : \A i \in 1 .. Len(issued[k]) : issued[k][i] <= last[k]

IndInv == /\ TypeOK /\ LockOwned /\ ReadStillTrue /\ WriteStillAbove
          /\ IssuedBelow /\ IssuedIncreasing /\ CounterIsHighest
          /\ DurableBeforeReturn

-----------------------------------------------------------------------------
(* The frame a finished call leaves is well typed. *)
LEMMA NoCallType == NoCall \in [op : Ops \cup {"none"}, key : Keys, arg : Int]
  BY NonceAssumption DEF NoCall, Ops

(* A nonce reserve computes and does not refuse is storable, positive and    *)
(* above the stored value.                                                   *)
LEMMA NextNonceAbove ==
  ASSUME NEW stored \in 0 .. MaxStorableNonce, NEW floor \in Int,
         ~Exhausted(NextNonce(stored, floor))
  PROVE  /\ NextNonce(stored, floor) \in 1 .. MaxStorableNonce
         /\ NextNonce(stored, floor) > stored
  BY NonceAssumption DEF NextNonce, Exhausted, Larger, validate_nonce

(* Appending a larger value keeps a sequence increasing and bounded by it. *)
LEMMA AppendIncreasing ==
  ASSUME NEW N \in Nat, NEW s \in Seq(1 .. N), NEW n \in 1 .. N,
         \A i, j \in 1 .. Len(s) : i < j => s[i] < s[j],
         \A i \in 1 .. Len(s) : s[i] < n
  PROVE  /\ Append(s, n) \in Seq(1 .. N)
         /\ \A i, j \in 1 .. Len(Append(s, n)) :
               i < j => Append(s, n)[i] < Append(s, n)[j]
         /\ \A i \in 1 .. Len(Append(s, n)) : Append(s, n)[i] <= n
         /\ Append(s, n)[Len(Append(s, n))] = n
         /\ Append(s, n) # s
  <1>1. /\ Len(Append(s, n)) = Len(s) + 1
        /\ Append(s, n)[Len(s) + 1] = n
        /\ \A i \in 1 .. Len(s) : Append(s, n)[i] = s[i]
    OBVIOUS
  <1>2. \A i \in 1 .. Len(s) : s[i] \in 1 .. N
    OBVIOUS
  <1> QED
    BY <1>1, <1>2

-----------------------------------------------------------------------------
(* The invariant holds initially. *)
LEMMA InitInv == Init => IndInv
  <1> SUFFICES ASSUME Init PROVE IndInv
    OBVIOUS
  <1>1. TypeOK
    BY NoCallType, NonceAssumption DEF Init, TypeOK, InTransaction
  <1> QED
    BY <1>1, NonceAssumption
    DEF Init, IndInv, LockOwned, ReadStillTrue, WriteStillAbove, IssuedBelow,
        IssuedIncreasing, CounterIsHighest, DurableBeforeReturn, InTransaction

(* A call that ends without touching the tables keeps the invariant. *)
LEMMA EndInv ==
  ASSUME IndInv, NEW p \in Procs, End(p),
         UNCHANGED <<last, issued, witnessed>>,
         lock' = IF pc[p] \in InTransaction THEN NoProc ELSE lock
  PROVE  IndInv'
  <1>1. TypeOK'
    <2>1. lock' \in Procs \cup {NoProc}
      BY DEF IndInv, TypeOK
    <2>2. call' \in [Procs -> [op : Ops \cup {"none"}, key : Keys, arg : Int]]
      BY NoCallType DEF IndInv, TypeOK, End
    <2>3. pc' \in [Procs -> {"idle", "peek", "begin", "returned"} \cup InTransaction]
      BY DEF IndInv, TypeOK, End
    <2>4. 0 \in 0 .. MaxStorableNonce
      BY NonceAssumption
    <2>5. /\ seen' \in [Procs -> 0 .. MaxStorableNonce]
          /\ pending' \in [Procs -> 0 .. MaxStorableNonce]
          /\ result' \in [Procs -> 0 .. MaxStorableNonce]
      BY <2>4 DEF IndInv, TypeOK, End
    <2> QED
      BY <2>1, <2>2, <2>3, <2>5 DEF IndInv, TypeOK
  <1>2. LockOwned'
    BY NonceAssumption DEF IndInv, TypeOK, LockOwned, End, InTransaction
  <1>3. ReadStillTrue' /\ WriteStillAbove' /\ DurableBeforeReturn'
    BY DEF IndInv, TypeOK, ReadStillTrue, WriteStillAbove, DurableBeforeReturn,
           End
  <1>4. IssuedBelow' /\ IssuedIncreasing' /\ CounterIsHighest'
    BY DEF IndInv, IssuedBelow, IssuedIncreasing, CounterIsHighest
  <1> QED
    BY <1>1, <1>2, <1>3, <1>4 DEF IndInv

(* Entering a call keeps the invariant. *)
LEMMA EnterInv ==
  ASSUME IndInv, NEW p \in Procs, NEW op \in Ops, NEW k \in Keys,
         NEW n \in Int, NEW at \in {"begin", "peek"}, Enter(p, op, k, n, at)
  PROVE  IndInv'
  <1>1. TypeOK'
    BY DEF IndInv, TypeOK, Enter, InTransaction
  <1>2. LockOwned'
    BY DEF IndInv, TypeOK, LockOwned, Enter, InTransaction
  <1>3. ReadStillTrue' /\ WriteStillAbove' /\ DurableBeforeReturn'
    BY DEF IndInv, TypeOK, ReadStillTrue, WriteStillAbove, DurableBeforeReturn,
           Enter
  <1>4. IssuedBelow' /\ IssuedIncreasing' /\ CounterIsHighest'
    BY DEF IndInv, IssuedBelow, IssuedIncreasing, CounterIsHighest, Enter
  <1> QED
    BY <1>1, <1>2, <1>3, <1>4 DEF IndInv

(* Writing inside the transaction: the tables do not change yet. *)
LEMMA WriteInv ==
  ASSUME IndInv, NEW p \in Procs, pc[p] = "apply",
         NEW w \in 0 .. MaxStorableNonce, NEW r \in 0 .. MaxStorableNonce,
         Write(p, w, r), UNCHANGED <<last, issued, witnessed>>,
         IF call[p].op # "observe"
         THEN w = r /\ w > seen[p]
         ELSE \/ w = 0 /\ r = seen[p] /\ call[p].arg <= seen[p]
              \/ w = call[p].arg /\ r = call[p].arg /\ w > seen[p]
  PROVE  IndInv'
  <1>1. TypeOK'
    BY DEF IndInv, TypeOK, Write, InTransaction
  <1>2. LockOwned'
    BY DEF IndInv, TypeOK, LockOwned, Write, InTransaction
  <1>3. ReadStillTrue' /\ DurableBeforeReturn'
    BY DEF IndInv, TypeOK, ReadStillTrue, DurableBeforeReturn, Write
  <1>4. WriteStillAbove'
    BY DEF IndInv, TypeOK, ReadStillTrue, WriteStillAbove, Write
  <1>5. IssuedBelow' /\ IssuedIncreasing' /\ CounterIsHighest'
    BY DEF IndInv, IssuedBelow, IssuedIncreasing, CounterIsHighest
  <1> QED
    BY <1>1, <1>2, <1>3, <1>4, <1>5 DEF IndInv

(* What a commit does to the tables, given that nobody else is between its   *)
(* SELECT and its COMMIT: the counter of one key becomes the call's result,  *)
(* which is no smaller.                                                      *)
LEMMA CommitTables ==
  ASSUME IndInv, NEW p \in Procs, Commit(p)
  PROVE  LET k == call[p].key
             n == result[p]
         IN  /\ n \in 0 .. MaxStorableNonce
             /\ n >= last[k]
             /\ last' = [last EXCEPT ![k] = n]
             /\ witnessed' = [witnessed EXCEPT ![k] = n]
             /\ \/ /\ n > last[k]
                   /\ issued' = [issued EXCEPT ![k] = Append(issued[k], n)]
                \/ issued' = issued
  <1> DEFINE k == call[p].key
  <1>1. /\ k \in Keys /\ call[p].arg \in Int
        /\ last[k] \in 0 .. MaxStorableNonce
        /\ pending[p] \in 0 .. MaxStorableNonce
        /\ result[p] \in 0 .. MaxStorableNonce
        /\ last = [last EXCEPT ![k] = last[k]]
        /\ witnessed[k] = last[k]
    BY DEF IndInv, TypeOK, CounterIsHighest
  <1>2. witnessed' = [witnessed EXCEPT ![k] =
                         Larger(witnessed[k], IF call[p].op # "observe"
                                              THEN result[p] ELSE call[p].arg)]
    BY DEF Commit
  <1>3. CASE call[p].op # "observe"
    <2>1. pending[p] = result[p] /\ pending[p] > last[k]
      BY <1>3 DEF IndInv, WriteStillAbove, Commit
    <2>2. last' = [last EXCEPT ![k] = result[p]]
      BY <1>1, <2>1 DEF Commit
    <2>3. Larger(witnessed[k], result[p]) = result[p]
      BY <1>1, <2>1 DEF Larger
    <2>4. issued' = [issued EXCEPT ![k] = Append(issued[k], result[p])]
      BY <1>3 DEF Commit
    <2> QED
      <3>1. witnessed' = [witnessed EXCEPT ![k] = result[p]]
        BY <1>2, <1>3, <2>3
      <3> QED
        BY <1>1, <2>1, <2>2, <2>4, <3>1
  <1>4. CASE call[p].op = "observe" /\ pending[p] = 0
    <2>1. result[p] = last[k] /\ call[p].arg <= last[k]
      BY <1>1, <1>4 DEF IndInv, WriteStillAbove, Commit
    <2>2. last' = last /\ issued' = issued
      BY <1>4 DEF Commit
    <2>3. Larger(witnessed[k], call[p].arg) = last[k]
      BY <1>1, <2>1 DEF Larger
    <2> QED
      <3>1. witnessed' = [witnessed EXCEPT ![k] = last[k]]
        BY <1>2, <1>4, <2>3
      <3> QED
        BY <1>1, <2>1, <2>2, <3>1
  <1>5. CASE call[p].op = "observe" /\ pending[p] # 0
    <2>1. /\ pending[p] = call[p].arg /\ result[p] = call[p].arg
          /\ pending[p] > last[k]
      BY <1>1, <1>5 DEF IndInv, WriteStillAbove, Commit
    <2>2. last' = [last EXCEPT ![k] = result[p]] /\ issued' = issued
      BY <1>5, <2>1 DEF Commit
    <2>3. Larger(witnessed[k], call[p].arg) = result[p]
      BY <1>1, <2>1 DEF Larger
    <2> QED
      <3>1. witnessed' = [witnessed EXCEPT ![k] = result[p]]
        BY <1>2, <1>5, <2>3
      <3> QED
        BY <1>1, <2>1, <2>2, <3>1
  <1> QED
    BY <1>3, <1>4, <1>5

(* Committing keeps the invariant. *)
LEMMA CommitInv ==
  ASSUME IndInv, NEW p \in Procs, Commit(p)
  PROVE  IndInv'
  <1> DEFINE k == call[p].key
             n == result[p]
  <1>0.      /\ n \in 0 .. MaxStorableNonce
             /\ n >= last[k]
             /\ last' = [last EXCEPT ![k] = n]
             /\ witnessed' = [witnessed EXCEPT ![k] = n]
             /\ \/ /\ n > last[k]
                   /\ issued' = [issued EXCEPT ![k] = Append(issued[k], n)]
                \/ issued' = issued
    BY CommitTables
  <1>k. /\ k \in Keys
        /\ last \in [Keys -> 0 .. MaxStorableNonce]
        /\ issued \in [Keys -> Seq(1 .. MaxStorableNonce)]
        /\ MaxStorableNonce \in Nat
    BY NonceAssumption DEF IndInv, TypeOK
  <1>m. \A j \in Keys : last'[j] = IF j = k THEN n ELSE last[j]
    BY <1>0, <1>k
  <1>1. TypeOK'
    <2>1. last' \in [Keys -> 0 .. MaxStorableNonce]
      BY <1>0, <1>k
    <2>2. witnessed' \in [Keys -> 0 .. MaxStorableNonce]
      BY <1>0, <1>k DEF IndInv, TypeOK
    <2>3. issued' \in [Keys -> Seq(1 .. MaxStorableNonce)]
      <3>1. CASE issued' = issued
        BY <3>1, <1>k
      <3>2. CASE n > last[k] /\ issued' = [issued EXCEPT ![k] = Append(issued[k], n)]
        <4>1. n \in 1 .. MaxStorableNonce /\ issued[k] \in Seq(1 .. MaxStorableNonce)
          BY <3>2, <1>0, <1>k
        <4>2. Append(issued[k], n) \in Seq(1 .. MaxStorableNonce)
          BY <4>1
        <4> QED
          BY <3>2, <4>2, <1>k
      <3> QED
        BY <3>1, <3>2, <1>0
    <2>4. /\ pc' \in [Procs -> {"idle", "peek", "begin", "returned"} \cup InTransaction]
          /\ lock' \in Procs \cup {NoProc}
      BY DEF IndInv, TypeOK, Commit
    <2> QED
      BY <2>1, <2>2, <2>3, <2>4 DEF IndInv, TypeOK, Commit
  <1>2. LockOwned'
    BY NonceAssumption DEF IndInv, TypeOK, LockOwned, Commit, InTransaction
  <1>3. \A q \in Procs : q # p => pc[q] \notin InTransaction
    BY DEF IndInv, LockOwned, Commit, InTransaction
  <1>4. ReadStillTrue' /\ WriteStillAbove'
    BY <1>3 DEF IndInv, TypeOK, ReadStillTrue, WriteStillAbove, Commit, InTransaction
  <1>5. DurableBeforeReturn'
    <2> SUFFICES ASSUME NEW q \in Procs, pc'[q] = "returned"
                 PROVE  result'[q] <= last'[call'[q].key]
      BY DEF DurableBeforeReturn
    <2>1. /\ call' = call /\ result' = result
          /\ q # p => pc[q] = "returned"
          /\ call[q].key \in Keys
          /\ result[q] \in 0 .. MaxStorableNonce
      BY DEF IndInv, TypeOK, Commit
    <2>2. CASE q = p
      BY <2>1, <2>2, <1>0, <1>k, <1>m
    <2>3. CASE q # p
      <3>1. result[q] <= last[call[q].key]
        BY <2>1, <2>3 DEF IndInv, DurableBeforeReturn
      <3> QED
        BY <2>1, <3>1, <1>0, <1>k, <1>m
    <2> QED
      BY <2>2, <2>3
  <1>6. CounterIsHighest'
    BY <1>0 DEF IndInv, TypeOK, CounterIsHighest
  <1>7. IssuedBelow' /\ IssuedIncreasing'
    <2>0. /\ \A j \in Keys : \A i \in 1 .. Len(issued[j]) :
                issued[j][i] <= last[j] /\ issued[j][i] \in Int
          /\ \A j \in Keys : \A i1, i2 \in 1 .. Len(issued[j]) :
                i1 < i2 => issued[j][i1] < issued[j][i2]
      BY <1>k DEF IndInv, IssuedBelow, IssuedIncreasing
    <2>1. CASE issued' = issued
      <3>1. \A j \in Keys : last'[j] >= last[j] /\ last'[j] \in Int /\ last[j] \in Int
        BY <1>0, <1>k, <1>m
      <3>2. IssuedBelow'
        BY <2>0, <2>1, <3>1 DEF IssuedBelow
      <3> QED
        BY <2>0, <2>1, <3>2 DEF IssuedIncreasing
    <2>2. CASE /\ n > last[k]
               /\ issued' = [issued EXCEPT ![k] = Append(issued[k], n)]
      <3>1. n \in 1 .. MaxStorableNonce /\ issued[k] \in Seq(1 .. MaxStorableNonce)
        BY <2>2, <1>0, <1>k
      <3>2. \A i \in 1 .. Len(issued[k]) : issued[k][i] < n
        <4>1. \A i \in 1 .. Len(issued[k]) :
                 issued[k][i] <= last[k] /\ issued[k][i] \in Int
          BY <1>k, <2>0
        <4>2. last[k] \in Int /\ n \in Int /\ last[k] < n
          BY <1>k, <2>2, <3>1
        <4> QED
          BY <4>1, <4>2
      <3>3. /\ \A i, j \in 1 .. Len(Append(issued[k], n)) :
                  i < j => Append(issued[k], n)[i] < Append(issued[k], n)[j]
            /\ \A i \in 1 .. Len(Append(issued[k], n)) : Append(issued[k], n)[i] <= n
        BY <2>0, <3>1, <3>2, <1>k, AppendIncreasing
      <3>4. /\ issued'[k] = Append(issued[k], n)
            /\ \A j \in Keys \ {k} : issued'[j] = issued[j]
        BY <2>2, <1>k
      <3>5. IssuedBelow'
        BY <2>0, <3>3, <3>4, <1>k, <1>m DEF IssuedBelow
      <3>6. IssuedIncreasing'
        BY <2>0, <3>3, <3>4, <1>k DEF IssuedIncreasing
      <3> QED
        BY <3>5, <3>6
    <2> QED
      BY <2>1, <2>2, <1>0
  <1> QED
    BY <1>1, <1>2, <1>4, <1>5, <1>6, <1>7 DEF IndInv

(* Every step keeps the invariant. *)
LEMMA NextInv == IndInv /\ [Next]_vars => IndInv'
  <1> SUFFICES ASSUME IndInv, [Next]_vars PROVE IndInv'
    OBVIOUS
  <1>1. CASE UNCHANGED vars
    BY <1>1 DEF vars, IndInv, TypeOK, LockOwned, ReadStillTrue, WriteStillAbove,
                IssuedBelow, IssuedIncreasing, CounterIsHighest,
                DurableBeforeReturn
  <1>2. ASSUME NEW p \in Procs, Calls(p) PROVE IndInv'
    <2>1. PICK k \in Keys, n \in Args :
             Reserve(p, k, n) \/ Observe(p, k, n) \/ Claim(p, k, n)
      BY <1>2 DEF Calls
    <2>2. n \in Int
      BY NonceAssumption
    <2> QED
      BY <2>1, <2>2, EnterInv DEF Reserve, Observe, Claim, Ops
  <1>3. ASSUME NEW p \in Procs, Step(p) PROVE IndInv'
    <2>1. CASE Peek(p)
      <3>1. CASE End(p)
        <4>1. pc[p] \notin InTransaction
          BY <2>1 DEF Peek, InTransaction
        <4> QED
          BY <2>1, <3>1, <4>1, EndInv DEF Peek
      <3>2. CASE /\ pc' = [pc EXCEPT ![p] = "begin"]
                 /\ UNCHANGED <<call, seen, pending, result>>
        <4>1. TypeOK'
          BY <2>1, <3>2 DEF Peek, IndInv, TypeOK
        <4>2. LockOwned'
          BY <2>1, <3>2 DEF Peek, IndInv, TypeOK, LockOwned, InTransaction
        <4>3. ReadStillTrue' /\ WriteStillAbove' /\ DurableBeforeReturn'
          BY <2>1, <3>2 DEF Peek, IndInv, TypeOK, ReadStillTrue,
                            WriteStillAbove, DurableBeforeReturn
        <4>4. IssuedBelow' /\ IssuedIncreasing' /\ CounterIsHighest'
          BY <2>1 DEF Peek, IndInv, IssuedBelow, IssuedIncreasing, CounterIsHighest
        <4> QED
          BY <4>1, <4>2, <4>3, <4>4 DEF IndInv
      <3> QED
        BY <2>1, <3>1, <3>2 DEF Peek
    <2>2. CASE Begin(p)
      <3>1. TypeOK'
        BY <2>2 DEF Begin, IndInv, TypeOK, InTransaction
      <3>2. LockOwned'
        BY <2>2, NonceAssumption DEF Begin, IndInv, TypeOK, LockOwned, InTransaction
      <3>3. ReadStillTrue' /\ WriteStillAbove' /\ DurableBeforeReturn'
        BY <2>2 DEF Begin, IndInv, TypeOK, ReadStillTrue, WriteStillAbove,
                    DurableBeforeReturn
      <3>4. IssuedBelow' /\ IssuedIncreasing' /\ CounterIsHighest'
        BY <2>2 DEF Begin, IndInv, IssuedBelow, IssuedIncreasing, CounterIsHighest
      <3> QED
        BY <3>1, <3>2, <3>3, <3>4 DEF IndInv
    <2>3. CASE BusyTimeout(p)
      <3>1. pc[p] \notin InTransaction
        BY <2>3 DEF BusyTimeout, InTransaction
      <3> QED
        BY <2>3, <3>1, EndInv DEF BusyTimeout
    <2>4. CASE Read(p)
      <3>1. TypeOK'
        <4>1. last[call[p].key] \in 0 .. MaxStorableNonce
          BY DEF IndInv, TypeOK
        <4> QED
          BY <2>4, <4>1 DEF Read, IndInv, TypeOK, InTransaction
      <3>2. LockOwned'
        BY <2>4 DEF Read, IndInv, TypeOK, LockOwned, InTransaction
      <3>3. ReadStillTrue' /\ WriteStillAbove' /\ DurableBeforeReturn'
        BY <2>4 DEF Read, IndInv, TypeOK, ReadStillTrue, WriteStillAbove,
                    DurableBeforeReturn
      <3>4. IssuedBelow' /\ IssuedIncreasing' /\ CounterIsHighest'
        BY <2>4 DEF Read, IndInv, IssuedBelow, IssuedIncreasing, CounterIsHighest
      <3> QED
        BY <3>1, <3>2, <3>3, <3>4 DEF IndInv
    <2>5. CASE ApplyReserve(p)
      <3> DEFINE nxt == NextNonce(seen[p], Floor(call[p]))
      <3>1. /\ pc[p] = "apply" /\ call[p].op # "observe"
            /\ UNCHANGED <<last, issued, witnessed>>
            /\ pc[p] \in InTransaction
        BY <2>5 DEF ApplyReserve, InTransaction
      <3>2. CASE Exhausted(nxt)
        BY <2>5, <3>1, <3>2, EndInv DEF ApplyReserve, Rollback
      <3>3. CASE ~Exhausted(nxt)
        <4>1. seen[p] \in 0 .. MaxStorableNonce /\ Floor(call[p]) \in Int
          BY DEF IndInv, TypeOK, Floor
        <4>2. nxt \in 1 .. MaxStorableNonce /\ nxt > seen[p]
          BY <4>1, <3>3, NextNonceAbove
        <4>3. nxt \in 0 .. MaxStorableNonce
          BY <4>2
        <4>4. Write(p, nxt, nxt)
          BY <2>5, <3>3 DEF ApplyReserve
        <4> HIDE DEF nxt
        <4> QED
          BY <3>1, <4>2, <4>3, <4>4, WriteInv
      <3> QED
        BY <3>2, <3>3
    <2>6. CASE ApplyObserve(p)
      <3> DEFINE n == call[p].arg
      <3>1. /\ pc[p] = "apply" /\ call[p].op = "observe"
            /\ UNCHANGED <<last, issued, witnessed>>
            /\ pc[p] \in InTransaction
        BY <2>6 DEF ApplyObserve, InTransaction
      <3>2. /\ n \in Int /\ seen[p] \in 0 .. MaxStorableNonce
            /\ MaxStorableNonce \in Nat
        BY NonceAssumption DEF IndInv, TypeOK
      <3>3. CASE n <= seen[p]
        <4>1. Write(p, 0, seen[p]) /\ 0 \in 0 .. MaxStorableNonce
          BY <2>6, <3>2, <3>3 DEF ApplyObserve
        <4> QED
          BY <3>1, <3>2, <3>3, <4>1, WriteInv
      <3>4. CASE n > seen[p] /\ n > MaxStorableNonce
        <4>1. Rollback(p)
          BY <2>6, <3>2, <3>4 DEF ApplyObserve
        <4> QED
          BY <3>1, <4>1, EndInv DEF Rollback
      <3>5. CASE n > seen[p] /\ n <= MaxStorableNonce
        <4>1. Write(p, n, n) /\ n \in 0 .. MaxStorableNonce
          BY <2>6, <3>2, <3>5 DEF ApplyObserve
        <4> QED
          BY <3>1, <3>5, <4>1, WriteInv
      <3> QED
        BY <3>2, <3>3, <3>4, <3>5
    <2>7. CASE Commit(p)
      BY <2>7, CommitInv
    <2>8. CASE Return(p) \/ RefuseRaced(p)
      <3>1. pc[p] \notin InTransaction
        BY <2>8 DEF Return, RefuseRaced, InTransaction
      <3> QED
        BY <2>8, <3>1, EndInv DEF Return, RefuseRaced
    <2> QED
      BY <1>3, <2>1, <2>2, <2>3, <2>4, <2>5, <2>6, <2>7, <2>8 DEF Step
  <1>4. ASSUME NEW p \in Procs, Crash(p) PROVE IndInv'
    <2>1. lock' = IF pc[p] \in InTransaction THEN NoProc ELSE lock
      BY <1>4 DEF Crash, IndInv, LockOwned
    <2> QED
      BY <1>4, <2>1, EndInv DEF Crash
  <1> QED
    BY <1>1, <1>2, <1>3, <1>4 DEF Next

-----------------------------------------------------------------------------
(* Every value of the store and of every call in flight keeps its type, and  *)
(* the counters never leave SQLite's integers (nonce.py, reserve).           *)
THEOREM TypeCorrect == Spec => []TypeOK
  <1>1. IndInv => TypeOK
    BY DEF IndInv
  <1> QED
    BY <1>1, InitInv, NextInv, PTL DEF Spec

(* No nonce is ever issued twice for a (did, scope), and they come out in    *)
(* increasing order: for any number of processes, any interleaving of their  *)
(* statements and any crash (nonce.py, reserve under `immediate`).           *)
THEOREM NoNonceReused == Spec => []IssuedIncreasing
  <1>1. IndInv => IssuedIncreasing
    BY DEF IndInv
  <1> QED
    BY <1>1, InitInv, NextInv, PTL DEF Spec

(* The write lock is held by exactly the process inside `immediate`. *)
THEOREM LockDiscipline == Spec => []LockOwned
  <1>1. IndInv => LockOwned
    BY DEF IndInv
  <1> QED
    BY <1>1, InitInv, NextInv, PTL DEF Spec

(* The counter is the largest nonce any completed call issued or observed,   *)
(* and what a caller was answered is already durable.                        *)
THEOREM CounterRemembers == Spec => [](CounterIsHighest /\ DurableBeforeReturn)
  <1>1. IndInv => CounterIsHighest /\ DurableBeforeReturn
    BY DEF IndInv
  <1> QED
    BY <1>1, InitInv, NextInv, PTL DEF Spec

-----------------------------------------------------------------------------
(* The abstract counter and the hand-outs move together, or not at all. *)
LEMMA StepKinds ==
  ASSUME IndInv, [Next]_vars
  PROVE  \/ UNCHANGED <<last, issued, witnessed>>
         \/ \E p \in Procs : Commit(p)
  BY DEF Next, Calls, Step, Reserve, Observe, Claim, Enter, Peek, Begin,
         BusyTimeout, Read, ApplyReserve, ApplyObserve, Return, RefuseRaced,
         Crash, vars

(* No step lowers a counter, and each nonce issued exceeds everything issued *)
(* or observed for its key before.                                           *)
THEOREM CounterNeverBackwards == Spec => NeverBackwards
  <1>1. ASSUME IndInv, [Next]_vars
        PROVE  [\A k \in Keys :
                  /\ last'[k] >= last[k]
                  /\ issued'[k] # issued[k]
                        => issued'[k][Len(issued'[k])] > witnessed[k]]_vars
    <2> SUFFICES ASSUME NEW j \in Keys
                 PROVE  /\ last'[j] >= last[j]
                        /\ issued'[j] # issued[j]
                              => issued'[j][Len(issued'[j])] > witnessed[j]
      OBVIOUS
    <2>0. /\ last \in [Keys -> 0 .. MaxStorableNonce]
          /\ issued \in [Keys -> Seq(1 .. MaxStorableNonce)]
          /\ MaxStorableNonce \in Nat
          /\ witnessed[j] = last[j]
      BY <1>1, NonceAssumption DEF IndInv, TypeOK, CounterIsHighest
    <2>1. CASE UNCHANGED <<last, issued, witnessed>>
      BY <2>0, <2>1
    <2>2. ASSUME NEW p \in Procs, Commit(p)
          PROVE  /\ last'[j] >= last[j]
                 /\ issued'[j] # issued[j]
                       => issued'[j][Len(issued'[j])] > witnessed[j]
      <3> DEFINE k == call[p].key
                 n == result[p]
      <3>1. /\ n \in 0 .. MaxStorableNonce
            /\ n >= last[k]
            /\ last' = [last EXCEPT ![k] = n]
            /\ \/ /\ n > last[k]
                  /\ issued' = [issued EXCEPT ![k] = Append(issued[k], n)]
               \/ issued' = issued
        BY <1>1, <2>2, CommitTables
      <3>2. k \in Keys
        BY <1>1 DEF IndInv, TypeOK
      <3>3. last'[j] >= last[j]
        BY <2>0, <3>1, <3>2
      <3>4. CASE issued' = issued
        BY <3>3, <3>4
      <3>5. CASE n > last[k] /\ issued' = [issued EXCEPT ![k] = Append(issued[k], n)]
        <4>1. CASE j # k
          BY <2>0, <3>2, <3>3, <3>5, <4>1
        <4>2. CASE j = k
          <5>1. issued'[j] = Append(issued[j], n) /\ issued[j] \in Seq(1 .. MaxStorableNonce)
            BY <2>0, <3>5, <4>2
          <5>2. Append(issued[j], n)[Len(Append(issued[j], n))] = n
            BY <5>1
          <5> QED
            BY <2>0, <3>3, <3>5, <4>2, <5>1, <5>2
        <4> QED
          BY <4>1, <4>2
      <3> QED
        BY <3>1, <3>4, <3>5
    <2> QED
      BY <1>1, <2>1, <2>2, StepKinds
  <1> QED
    BY <1>1, InitInv, NextInv, PTL DEF Spec, NeverBackwards

(* The transactions implement NonceSpec: to a caller, every commit is one    *)
(* atomic Issue or Raise, and every other statement is invisible.            *)
THEOREM Refinement == Spec => ImplementsNonceSpec
  <1>1. Init => Abstract!Init
    BY DEF Init, Abstract!Init
  <1>2. ASSUME IndInv, [Next]_vars PROVE [Abstract!Next]_(Abstract!specVars)
    <2>1. CASE UNCHANGED <<last, issued, witnessed>>
      BY <2>1 DEF Abstract!specVars
    <2>2. ASSUME NEW p \in Procs, Commit(p)
          PROVE  [Abstract!Next]_(Abstract!specVars)
      <3> DEFINE k == call[p].key
                 n == result[p]
      <3>1. /\ n \in 0 .. MaxStorableNonce
            /\ n >= last[k]
            /\ last' = [last EXCEPT ![k] = n]
            /\ \/ /\ n > last[k]
                  /\ issued' = [issued EXCEPT ![k] = Append(issued[k], n)]
               \/ issued' = issued
        BY <1>2, <2>2, CommitTables
      <3>2. k \in Keys /\ last[k] \in 0 .. MaxStorableNonce
        BY <1>2 DEF IndInv, TypeOK
      <3>3. CASE n = last[k]
        <4>1. last' = last /\ issued' = issued
          BY <1>2, <3>1, <3>2, <3>3 DEF IndInv, TypeOK
        <4> QED
          BY <4>1 DEF Abstract!specVars
      <3>4. CASE n > last[k]
        <4>1. n \in (last[k] + 1) .. MaxStorableNonce
          BY <3>1, <3>2, <3>4
        <4> HIDE DEF n, k
        <4>2. Abstract!Issue(k) \/ Abstract!Raise(k)
          BY <3>1, <4>1 DEF Abstract!Issue, Abstract!Raise
        <4> QED
          BY <3>2, <4>2 DEF Abstract!Next
      <3> QED
        BY <3>1, <3>2, <3>3, <3>4
    <2> QED
      BY <1>2, <2>1, <2>2, StepKinds
  <1> QED
    BY <1>1, <1>2, InitInv, NextInv, PTL DEF Spec, ImplementsNonceSpec, Abstract!Spec

=============================================================================
