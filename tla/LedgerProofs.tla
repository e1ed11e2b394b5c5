---------------------------- MODULE LedgerProofs ----------------------------
(***************************************************************************)
(* For every set of processes and contents: the chain that concurrent,     *)
(* failing and dying appends leave always verifies, no row is ever changed *)
(* or lost, references point back, and the append transactions implement   *)
(* LedgerSpec.  A ledger file that is opened, migrated, appended to and    *)
(* read at once by any set of writers and readers is a Ledger, so all of   *)
(* this holds of it; nobody is handed half a schema; and what              *)
(* ledger-status prints adds up and warns of what it counted.              *)
(*                                                                         *)
(* The inductive invariant adds to the properties what a writer knows      *)
(* between its statements: the head it read is still the head, the row it  *)
(* refers to is still there, and its id is its own.                        *)
(***************************************************************************)
EXTENDS LedgerFile, SequenceTheorems, FiniteSetTheorems, TLAPS

(* The write lock is held by exactly the process inside `immediate`. *)
LockOwned == \A p \in Procs : lock = p <=> pc[p] \in InTransaction

(* The head a transaction read is still the head. *)
HeadStillTrue ==
    \A p \in Procs : pc[p] \in {"ref", "insert"} => head[p] = HeadOf(rows)

(* The reference a transaction checked is still there. *)
RefStillThere ==
    \A p \in Procs : pc[p] = "insert" =>
        act[p].ref = NULL \/ Exists(rows, act[p].ref)

(* Every id in use was drawn, and belongs to one append. *)
IdsFresh ==
    /\ \A i \in DOMAIN rows : rows[i].activity_id \in 1 .. nextId - 1
    /\ \A p \in Procs : pc[p] \in {"begin"} \cup InTransaction =>
          /\ act[p].id \in 1 .. nextId - 1
          /\ ~Exists(rows, act[p].id)
          /\ \A q \in Procs : pc[q] \in {"begin"} \cup InTransaction
                              /\ act[q].id = act[p].id => q = p
    /\ nextId - 1 <= MaxIds

(* No position of the chain is broken. *)
Chained == \A i \in DOMAIN rows : ~Broken(rows, i)

(* Activities in flight passed _validate and refer to drawn ids or nothing. *)
ActsValid ==
    \A p \in Procs : pc[p] # "idle" =>
        act[p].body \in Bodies \ Refused /\ act[p].ref \in Nat

IndInv == /\ TypeOK /\ LockOwned /\ HeadStillTrue /\ RefStillThere /\ IdsFresh
          /\ Chained /\ RefsPointBack /\ RecordIsStored /\ ActsValid

-----------------------------------------------------------------------------
(* Facts about sequences and rows *)

IsRows(s) == s \in Seq({s[i] : i \in DOMAIN s})

(* A table is indexed from 1 to its length. *)
LEMMA RowsDomain ==
  ASSUME NEW s, IsRows(s)
  PROVE  Len(s) \in Nat /\ DOMAIN s = 1 .. Len(s) /\ (s = <<>> <=> Len(s) = 0)
  <1>1. Len(s) \in Nat /\ DOMAIN s = 1 .. Len(s)
    BY LenProperties DEF IsRows
  <1>2. s = <<>> <=> Len(s) = 0
    BY EmptySeq DEF IsRows
  <1> QED
    BY <1>1, <1>2

(* Appending a row keeps the others where they are. *)
LEMMA AppendRows ==
  ASSUME NEW s, NEW r, IsRows(s)
  PROVE  /\ IsRows(Append(s, r))
         /\ Len(Append(s, r)) = Len(s) + 1
         /\ DOMAIN Append(s, r) = 1 .. Len(s) + 1
         /\ \A i \in 1 .. Len(s) : Append(s, r)[i] = s[i]
         /\ Append(s, r)[Len(s) + 1] = r
  <1> DEFINE S == {s[i] : i \in DOMAIN s} \cup {r}
  <1>1. s \in Seq(S)
    BY SeqMonotonic, {s[i] : i \in DOMAIN s} \subseteq S DEF IsRows
  <1>2. r \in S
    OBVIOUS
  <1> HIDE DEF S
  <1>3. /\ Append(s, r) \in Seq(S)
        /\ Len(Append(s, r)) = Len(s) + 1
        /\ \A i \in 1 .. Len(s) : Append(s, r)[i] = s[i]
        /\ Append(s, r)[Len(s) + 1] = r
    BY <1>1, <1>2, AppendProperties
  <1> DEFINE t == Append(s, r)
  <1> HIDE DEF t
  <1>4. t \in Seq(S)
    BY <1>3 DEF t
  <1>5. Len(t) \in Nat /\ DOMAIN t = 1 .. Len(t) /\ t \in [1 .. Len(t) -> S]
    BY <1>4, LenProperties
  <1>6. t \in Seq({t[i] : i \in DOMAIN t})
    <2>1. t \in [1 .. Len(t) -> {t[i] : i \in DOMAIN t}]
      BY <1>5
    <2> QED
      BY <2>1, <1>5, SeqDef
  <1> QED
    BY <1>3, <1>5, <1>6 DEF t, IsRows

(* What append computes is what verify recomputes. *)
LEMMA RowHash ==
  ASSUME NEW id, NEW index, NEW prev, NEW ref, NEW body
  PROVE  LET r == ChainedRow(id, index, prev, ref, body)
         IN  /\ r.activity_id = id /\ r.chain_index = index /\ r.prev_hash = prev
             /\ r.ref_activity_id = ref /\ r.body = body
             /\ compute_entry_hash(r) = r.entry_hash
  BY DEF ChainedRow, compute_entry_hash, CHAINED_FIELDS

(* Equal digests mean equal ids. *)
LEMMA HashBindsId ==
  ASSUME NEW r, NEW s, compute_entry_hash(r) = compute_entry_hash(s)
  PROVE  r.activity_id = s.activity_id
  <1>1. [f \in CHAINED_FIELDS |-> r[f]] = [f \in CHAINED_FIELDS |-> s[f]]
    BY DEF compute_entry_hash
  <1>2. "activity_id" \in CHAINED_FIELDS
    BY DEF CHAINED_FIELDS
  <1>3. [f \in CHAINED_FIELDS |-> r[f]]["activity_id"]
          = [f \in CHAINED_FIELDS |-> s[f]]["activity_id"]
    BY <1>1
  <1> QED
    BY <1>2, <1>3

(* In an unbroken chain the next index is the number of rows. *)
LEMMA HeadIndex ==
  ASSUME NEW s, IsRows(s), \A i \in DOMAIN s : ~Broken(s, i)
  PROVE  /\ HeadOf(s).index = Len(s)
         /\ HeadOf(s).prev = IF Len(s) = 0 THEN GENESIS_PREV_HASH
                             ELSE s[Len(s)].entry_hash
  <1>1. CASE s = <<>>
    BY <1>1, RowsDomain DEF HeadOf
  <1>2. CASE s # <<>>
    <2>1. Len(s) \in Nat \ {0} /\ Len(s) \in DOMAIN s
      BY <1>2, RowsDomain
    <2>2. s[Len(s)].chain_index = Len(s) - 1
      BY <2>1 DEF Broken, IndexGap
    <2> QED
      BY <1>2, <2>1, <2>2 DEF HeadOf
  <1> QED
    BY <1>1, <1>2

(* A row built on the head extends an unbroken chain to an unbroken one. *)
LEMMA AppendChain ==
  ASSUME NEW s, NEW r, IsRows(s), \A i \in DOMAIN s : ~Broken(s, i),
         r.chain_index = HeadOf(s).index, r.prev_hash = HeadOf(s).prev,
         compute_entry_hash(r) = r.entry_hash
  PROVE  \A i \in DOMAIN Append(s, r) : ~Broken(Append(s, r), i)
  <1> DEFINE t == Append(s, r)
             n == Len(s)
  <1>1. /\ n \in Nat /\ DOMAIN s = 1 .. n /\ DOMAIN t = 1 .. n + 1
        /\ t[n + 1] = r
        /\ \A i \in 1 .. n : t[i] = s[i]
    BY RowsDomain, AppendRows
  <1>2. /\ r.chain_index = n
        /\ r.prev_hash = IF n = 0 THEN GENESIS_PREV_HASH ELSE s[n].entry_hash
    BY HeadIndex
  <1> HIDE DEF t, n
  <1> SUFFICES ASSUME NEW i \in 1 .. n + 1 PROVE ~Broken(t, i)
    BY <1>1 DEF t
  <1>3. CASE i \in 1 .. n
    <2>1. ~Broken(s, i)
      BY <1>1, <1>3
    <2>2. t[i] = s[i] /\ (i # 1 => t[i - 1] = s[i - 1])
      BY <1>1, <1>3
    <2> QED
      BY <2>1, <2>2 DEF Broken, IndexGap, LinkMismatch, HashMismatch
  <1>4. CASE i = n + 1
    <2>1. ~IndexGap(t, i)
      BY <1>1, <1>2, <1>4 DEF IndexGap
    <2>2. ~HashMismatch(t, i)
      BY <1>1, <1>4 DEF HashMismatch
    <2>3. ~LinkMismatch(t, i)
      <3>1. n # 0 => t[n] = s[n]
        BY <1>1
      <3> QED
        BY <1>1, <1>2, <1>4, <3>1 DEF LinkMismatch
    <2> QED
      BY <2>1, <2>2, <2>3 DEF Broken
  <1> QED
    BY <1>1, <1>3, <1>4

-----------------------------------------------------------------------------
(* The invariant is inductive. *)

(* It holds initially. *)
LEMMA InitInv == Init => IndInv
  <1> SUFFICES ASSUME Init PROVE IndInv
    OBVIOUS
  <1>1. /\ IsRows(rows) /\ DOMAIN rows = {} /\ Len(rows) = 0
    BY EmptySeq DEF Init, IsRows
  <1>2. TypeOK
    <2>1. \A p \in Procs : act[p].id \in Nat /\ act[p].ref \in Nat /\ head[p].index \in Nat
      BY DEF Init, NoAct, NoHead, NULL
    <2> QED
      BY <1>1, <2>1 DEF Init, TypeOK, IsRows
  <1>3. LockOwned /\ HeadStillTrue /\ RefStillThere /\ RecordIsStored /\ ActsValid
    BY LedgerAssumption
    DEF Init, LockOwned, HeadStillTrue, RefStillThere, RecordIsStored, ActsValid,
        InTransaction
  <1>4. IdsFresh /\ Chained /\ RefsPointBack
    BY <1>1, LedgerAssumption DEF Init, IdsFresh, Chained, RefsPointBack, InTransaction
  <1> QED
    BY <1>2, <1>3, <1>4 DEF IndInv

(* A call that ends without touching the table keeps it. *)
LEMMA EndInv ==
  ASSUME IndInv, NEW p \in Procs, End(p), UNCHANGED <<rows, nextId>>,
         lock' = IF pc[p] \in InTransaction THEN NoProc ELSE lock
  PROVE  IndInv'
  <1>0. /\ pc'[p] = "idle"
        /\ \A q \in Procs \ {p} : pc'[q] = pc[q] /\ act'[q] = act[q] /\ head'[q] = head[q]
        /\ act'[p] = NoAct /\ head'[p] = NoHead
        /\ DOMAIN act' = Procs /\ DOMAIN head' = Procs
        /\ rows' = rows /\ nextId' = nextId
    BY DEF IndInv, TypeOK, End
  <1>1. TypeOK'
    <2>1. act'[p].id \in Nat /\ act'[p].ref \in Nat /\ head'[p].index \in Nat
      BY <1>0 DEF NoAct, NoHead, NULL
    <2>2. lock' \in Procs \cup {NoProc}
      BY DEF IndInv, TypeOK
    <2>3. pc' \in [Procs -> {"idle", "begin", "returned"} \cup InTransaction]
      BY DEF IndInv, TypeOK, End
    <2>4. IsRows(rows')
      BY <1>0 DEF IndInv, TypeOK, IsRows
    <2>5. \A q \in Procs : /\ act'[q].id \in Nat /\ act'[q].ref \in Nat
                          /\ head'[q].index \in Nat
      BY <1>0, <2>1, <2>2 DEF IndInv, TypeOK
    <2>6. /\ nextId' \in Nat \ {0} /\ lock' \in Procs \cup {NoProc}
          /\ DOMAIN act' = Procs /\ DOMAIN head' = Procs
      BY <1>0, <2>2 DEF IndInv, TypeOK
    <2> QED
      BY <2>2, <2>3, <2>4, <2>5, <2>6 DEF TypeOK, IsRows
  <1>2. LockOwned'
    BY <1>0, LedgerAssumption DEF IndInv, TypeOK, LockOwned, InTransaction
  <1>3. HeadStillTrue' /\ RefStillThere'
    BY <1>0 DEF IndInv, HeadStillTrue, RefStillThere
  <1>4. IdsFresh'
    BY <1>0 DEF IndInv, IdsFresh, InTransaction
  <1>5. Chained' /\ RefsPointBack'
    BY <1>0 DEF IndInv, Chained, RefsPointBack
  <1>6. RecordIsStored'
    BY <1>0 DEF IndInv, RecordIsStored, NewRow
  <1>7. ActsValid'
    BY <1>0 DEF IndInv, ActsValid
  <1> QED
    BY <1>1, <1>2, <1>3, <1>4, <1>5, <1>6, <1>7 DEF IndInv

(* Entering append draws a new id. *)
LEMMA CallInv ==
  ASSUME IndInv, NEW p \in Procs, NEW ref \in {NULL} \cup 1 .. nextId,
         NEW body \in Bodies, AppendCall(p, ref, body)
  PROVE  IndInv'
  <1>0. /\ pc[p] = "idle" /\ pc'[p] = "begin"
        /\ \A q \in Procs \ {p} : pc'[q] = pc[q] /\ act'[q] = act[q]
        /\ act'[p] = [id |-> nextId, ref |-> ref, body |-> body]
        /\ DOMAIN act' = Procs
        /\ rows' = rows /\ lock' = lock /\ head' = head
        /\ nextId' = nextId + 1 /\ nextId <= MaxIds
        /\ body \notin Refused
        /\ ref \in Nat /\ nextId \in Nat \ {0}
    BY DEF IndInv, TypeOK, AppendCall, Acceptable, NULL
  <1>1. TypeOK'
    <2>1. pc' \in [Procs -> {"idle", "begin", "returned"} \cup InTransaction]
      BY DEF IndInv, TypeOK, AppendCall
    <2>2. act'[p].id \in Nat /\ act'[p].ref \in Nat
      BY <1>0
    <2>4. IsRows(rows')
      BY <1>0 DEF IndInv, TypeOK, IsRows
    <2>5. \A q \in Procs : /\ act'[q].id \in Nat /\ act'[q].ref \in Nat
                          /\ head'[q].index \in Nat
      BY <1>0, <2>1, <2>2 DEF IndInv, TypeOK
    <2>6. /\ nextId' \in Nat \ {0} /\ lock' \in Procs \cup {NoProc}
          /\ DOMAIN act' = Procs /\ DOMAIN head' = Procs
      BY <1>0, <2>2 DEF IndInv, TypeOK
    <2> QED
      BY <2>1, <2>4, <2>5, <2>6 DEF TypeOK, IsRows
  <1>2. LockOwned'
    BY <1>0 DEF IndInv, LockOwned, InTransaction
  <1>3. HeadStillTrue' /\ RefStillThere'
    BY <1>0 DEF IndInv, HeadStillTrue, RefStillThere
  <1>4. IdsFresh'
    <2>1. \A i \in DOMAIN rows : rows[i].activity_id \in 1 .. nextId - 1
      BY DEF IndInv, IdsFresh
    <2>2. ~Exists(rows, nextId)
      BY <2>1, <1>0 DEF Exists
    <2>3. \A q \in Procs \ {p} : pc[q] \in {"begin"} \cup InTransaction =>
             act[q].id \in 1 .. nextId - 1
      BY DEF IndInv, IdsFresh
    <2>4. /\ act'[p].id = nextId
          /\ \A q \in Procs \ {p} : pc'[q] \in {"begin"} \cup InTransaction =>
                /\ act'[q].id \in 1 .. nextId - 1 /\ act'[q].id # nextId
                /\ ~Exists(rows, act'[q].id)
                /\ \A z \in Procs \ {p} : pc'[z] \in {"begin"} \cup InTransaction
                                     /\ act'[z].id = act'[q].id => z = q
      BY <1>0, <2>3 DEF IndInv, IdsFresh
    <2>5. \A n \in 1 .. nextId - 1 : n \in 1 .. nextId' - 1
      BY <1>0
    <2>6. nextId \in 1 .. nextId' - 1 /\ nextId' - 1 <= MaxIds
      BY <1>0
    <2>7. \A i \in DOMAIN rows' : rows'[i].activity_id \in 1 .. nextId' - 1
      BY <1>0, <2>1, <2>5
    <2>8. ASSUME NEW q \in Procs, pc'[q] \in {"begin"} \cup InTransaction
          PROVE  /\ act'[q].id \in 1 .. nextId' - 1
                 /\ ~Exists(rows', act'[q].id)
                 /\ \A z \in Procs : pc'[z] \in {"begin"} \cup InTransaction
                                     /\ act'[z].id = act'[q].id => z = q
      BY <1>0, <2>2, <2>4, <2>5, <2>6, <2>8
    <2> QED
      BY <2>6, <2>7, <2>8 DEF IdsFresh, InTransaction
  <1>5. Chained' /\ RefsPointBack'
    BY <1>0 DEF IndInv, Chained, RefsPointBack
  <1>6. RecordIsStored'
    BY <1>0 DEF IndInv, RecordIsStored, NewRow
  <1>7. ActsValid'
    BY <1>0 DEF IndInv, ActsValid
  <1> QED
    BY <1>1, <1>2, <1>3, <1>4, <1>5, <1>6, <1>7 DEF IndInv

(* A statement that moves one process on inside append, and leaves the table *)
(* alone, keeps the invariant when what it claims to know is true.           *)
LEMMA MoveInv ==
  ASSUME IndInv, NEW p \in Procs, NEW at \in {"head", "ref", "insert"},
         pc[p] \in {"begin"} \cup InTransaction,
         pc' = [pc EXCEPT ![p] = at],
         UNCHANGED <<rows, act, nextId>>, lock' = p, pc[p] = "begin" => lock = NoProc,
         \A q \in Procs \ {p} : head'[q] = head[q], DOMAIN head' = Procs,
         at \in {"ref", "insert"} => head'[p] = HeadOf(rows),
         at = "insert" => act[p].ref = NULL \/ Exists(rows, act[p].ref),
         head'[p].index \in Nat
  PROVE  IndInv'
  <1>0. /\ pc'[p] = at /\ \A q \in Procs \ {p} : pc'[q] = pc[q]
        /\ act' = act /\ rows' = rows /\ nextId' = nextId
    BY DEF IndInv, TypeOK
  <1>1. TypeOK'
    <2>1. pc' \in [Procs -> {"idle", "begin", "returned"} \cup InTransaction]
      BY DEF IndInv, TypeOK, InTransaction
    <2>2. IsRows(rows')
      BY <1>0 DEF IndInv, TypeOK, IsRows
    <2>3. \A q \in Procs : /\ act'[q].id \in Nat /\ act'[q].ref \in Nat
                          /\ head'[q].index \in Nat
      BY <1>0 DEF IndInv, TypeOK
    <2>4. nextId' \in Nat \ {0} /\ DOMAIN act' = Procs
      BY <1>0 DEF IndInv, TypeOK
    <2> QED
      BY <2>1, <2>2, <2>3, <2>4 DEF TypeOK, IsRows
  <1>2. LockOwned'
    BY <1>0, LedgerAssumption DEF IndInv, TypeOK, LockOwned, InTransaction
  <1>3. HeadStillTrue' /\ RefStillThere'
    BY <1>0 DEF IndInv, HeadStillTrue, RefStillThere
  <1>4. IdsFresh'
    BY <1>0 DEF IndInv, IdsFresh, InTransaction
  <1>5. Chained' /\ RefsPointBack'
    BY <1>0 DEF IndInv, Chained, RefsPointBack
  <1>6. RecordIsStored'
    BY <1>0 DEF IndInv, RecordIsStored, NewRow
  <1>7. ActsValid'
    BY <1>0 DEF IndInv, ActsValid, InTransaction
  <1> QED
    BY <1>1, <1>2, <1>3, <1>4, <1>5, <1>6, <1>7 DEF IndInv

(* The row a transaction is about to insert. *)
LEMMA NewRowFacts ==
  ASSUME IndInv, NEW p \in Procs, pc[p] = "insert"
  PROVE  LET r == NewRow(p)
         IN  /\ r.activity_id = act[p].id /\ r.ref_activity_id = act[p].ref
             /\ r.chain_index = HeadOf(rows).index /\ r.prev_hash = HeadOf(rows).prev
             /\ compute_entry_hash(r) = r.entry_hash
             /\ r.chain_index = Len(rows) /\ head[p].index = Len(rows)
             /\ ~Exists(rows, r.activity_id)
             /\ r.ref_activity_id = NULL \/ Exists(rows, r.ref_activity_id)
             /\ act[p].id \in 1 .. nextId - 1
             /\ r = ChainedRow(act[p].id, HeadOf(rows).index, HeadOf(rows).prev,
                               act[p].ref, act[p].body)
  <1>1. head[p] = HeadOf(rows)
    BY DEF IndInv, HeadStillTrue
  <1>2. ~Exists(rows, act[p].id) /\ act[p].id \in 1 .. nextId - 1
    BY DEF IndInv, IdsFresh, InTransaction
  <1>3. act[p].ref = NULL \/ Exists(rows, act[p].ref)
    BY DEF IndInv, RefStillThere
  <1>4. HeadOf(rows).index = Len(rows)
    BY HeadIndex DEF IndInv, TypeOK, IsRows, Chained
  <1> QED
    BY <1>1, <1>2, <1>3, <1>4, RowHash DEF NewRow

(* ... does not trip the table's constraints. *)
LEMMA InsertAccepted ==
  ASSUME IndInv, NEW p \in Procs, pc[p] = "insert"
  PROVE  ~IntegrityError(NewRow(p))
  <1> DEFINE r == NewRow(p)
  <1>1. /\ compute_entry_hash(r) = r.entry_hash
        /\ r.chain_index = Len(rows)
        /\ ~Exists(rows, r.activity_id)
        /\ r.ref_activity_id = NULL \/ Exists(rows, r.ref_activity_id)
    BY NewRowFacts
  <1> HIDE DEF r
  <1>2. ASSUME NEW i \in DOMAIN rows
        PROVE  /\ rows[i].chain_index # r.chain_index
               /\ rows[i].entry_hash # r.entry_hash
               /\ rows[i].activity_id # r.activity_id
    <2>1. ~Broken(rows, i)
      BY DEF IndInv, Chained
    <2>2. Len(rows) \in Nat /\ i \in 1 .. Len(rows)
      BY RowsDomain DEF IndInv, TypeOK, IsRows
    <2>3. rows[i].chain_index = i - 1
      BY <2>1 DEF Broken, IndexGap
    <2>4. rows[i].activity_id # r.activity_id
      BY <1>1 DEF Exists
    <2>5. compute_entry_hash(rows[i]) = rows[i].entry_hash
      BY <2>1 DEF Broken, HashMismatch
    <2>6. rows[i].entry_hash # r.entry_hash
      BY <1>1, <2>4, <2>5, HashBindsId
    <2> QED
      BY <1>1, <2>2, <2>3, <2>4, <2>6
  <1> QED
    BY <1>1, <1>2 DEF IntegrityError, r

(* Inserting the row keeps the invariant. *)
LEMMA InsertInv ==
  ASSUME IndInv, NEW p \in Procs, Insert(p)
  PROVE  IndInv'
  <1> DEFINE r == NewRow(p)
             n == Len(rows)
  <1>0. /\ pc[p] = "insert" /\ pc'[p] = "returned"
        /\ \A q \in Procs \ {p} : pc'[q] = pc[q]
        /\ rows' = Append(rows, r)
        /\ lock' = NoProc /\ act' = act /\ head' = head /\ nextId' = nextId
        /\ pc' = [pc EXCEPT ![p] = "returned"]
    BY InsertAccepted DEF Insert, IndInv, TypeOK
  <1>r. /\ r.activity_id = act[p].id /\ r.ref_activity_id = act[p].ref
        /\ r.chain_index = HeadOf(rows).index /\ r.prev_hash = HeadOf(rows).prev
        /\ compute_entry_hash(r) = r.entry_hash
        /\ head[p].index = n
        /\ ~Exists(rows, r.activity_id)
        /\ r.ref_activity_id = NULL \/ Exists(rows, r.ref_activity_id)
        /\ act[p].id \in 1 .. nextId - 1
    BY <1>0, NewRowFacts
  <1>s. /\ n \in Nat /\ DOMAIN rows = 1 .. n
        /\ IsRows(rows') /\ Len(rows') = n + 1 /\ DOMAIN rows' = 1 .. n + 1
        /\ \A i \in 1 .. n : rows'[i] = rows[i]
        /\ rows'[n + 1] = r
    <2>1. IsRows(rows)
      BY DEF IndInv, TypeOK, IsRows
    <2> HIDE DEF r
    <2> QED
      BY <1>0, <2>1, RowsDomain, AppendRows
  <1>q. \A q \in Procs \ {p} : pc[q] \notin InTransaction /\ pc'[q] \notin InTransaction
    BY <1>0 DEF IndInv, LockOwned, InTransaction
  <1>1. TypeOK'
    <2>1. pc' \in [Procs -> {"idle", "begin", "returned"} \cup InTransaction]
      BY <1>0 DEF IndInv, TypeOK
    <2>2. \A q \in Procs : /\ act'[q].id \in Nat /\ act'[q].ref \in Nat
                          /\ head'[q].index \in Nat
      BY <1>0 DEF IndInv, TypeOK
    <2>3. nextId' \in Nat \ {0} /\ DOMAIN act' = Procs /\ DOMAIN head' = Procs
      BY <1>0 DEF IndInv, TypeOK
    <2> QED
      BY <1>0, <1>s, <2>1, <2>2, <2>3 DEF TypeOK, IsRows
  <1>2. LockOwned'
    BY <1>0, <1>q, LedgerAssumption DEF LockOwned, InTransaction
  <1>3. HeadStillTrue' /\ RefStillThere'
    BY <1>0, <1>q DEF HeadStillTrue, RefStillThere, InTransaction
  <1>4. IdsFresh'
    <2>1. \A i \in DOMAIN rows' : rows'[i].activity_id \in 1 .. nextId - 1
      BY <1>s, <1>r DEF IndInv, IdsFresh
    <2>2. ASSUME NEW q \in Procs, pc'[q] \in {"begin"} \cup InTransaction
          PROVE  /\ act[q].id \in 1 .. nextId - 1
                 /\ ~Exists(rows', act[q].id)
                 /\ \A z \in Procs : pc'[z] \in {"begin"} \cup InTransaction
                                     /\ act[z].id = act[q].id => z = q
      <3>1. q # p /\ pc[q] = pc'[q]
        BY <1>0, <2>2 DEF InTransaction
      <3>2. /\ act[q].id \in 1 .. nextId - 1 /\ ~Exists(rows, act[q].id)
            /\ \A z \in Procs : pc[z] \in {"begin"} \cup InTransaction
                                /\ act[z].id = act[q].id => z = q
        BY <3>1, <2>2 DEF IndInv, IdsFresh
      <3>3. act[q].id # act[p].id
        BY <1>0, <3>1, <3>2 DEF InTransaction
      <3>4. ~Exists(rows', act[q].id)
        BY <1>s, <1>r, <3>2, <3>3 DEF Exists
      <3>5. \A z \in Procs : pc'[z] \in {"begin"} \cup InTransaction => pc[z] = pc'[z]
        BY <1>0 DEF InTransaction
      <3> QED
        BY <3>2, <3>4, <3>5
    <2>3. nextId - 1 <= MaxIds
      BY DEF IndInv, IdsFresh
    <2> QED
      BY <1>0, <2>1, <2>2, <2>3 DEF IdsFresh, InTransaction
  <1>5. Chained'
    <2>1. \A i \in DOMAIN rows : ~Broken(rows, i)
      BY DEF IndInv, Chained
    <2>2. IsRows(rows)
      BY DEF IndInv, TypeOK, IsRows
    <2> HIDE DEF r
    <2>3. \A i \in DOMAIN Append(rows, r) : ~Broken(Append(rows, r), i)
      BY <1>r, <2>1, <2>2, AppendChain
    <2> QED
      BY <1>0, <2>3 DEF Chained
  <1>6. RefsPointBack'
    <2> SUFFICES ASSUME NEW i \in 1 .. n + 1
        PROVE  /\ \A j \in 1 .. n + 1 :
                     rows'[i].activity_id = rows'[j].activity_id => i = j
               /\ rows'[i].ref_activity_id # NULL =>
                     \E j \in 1 .. i - 1 : rows'[j].activity_id = rows'[i].ref_activity_id
      BY <1>s DEF RefsPointBack
    <2>1. \A j \in 1 .. n : rows[j].activity_id # r.activity_id
      BY <1>r, <1>s DEF Exists
    <2>2. CASE i = n + 1
      <3>1. \A j \in 1 .. n + 1 :
               rows'[i].activity_id = rows'[j].activity_id => i = j
        BY <1>s, <2>1, <2>2
      <3>2. ASSUME r.ref_activity_id # NULL
            PROVE  \E j \in 1 .. i - 1 : rows'[j].activity_id = r.ref_activity_id
        <4>1. PICK j \in 1 .. n : rows[j].activity_id = r.ref_activity_id
          BY <1>r, <1>s, <3>2 DEF Exists
        <4>2. j \in 1 .. i - 1 /\ rows'[j] = rows[j]
          BY <1>s, <2>2
        <4> QED
          BY <4>1, <4>2
      <3> QED
        BY <1>s, <2>2, <3>1, <3>2
    <2>3. CASE i \in 1 .. n
      <3>1. /\ \A j \in 1 .. n : rows[i].activity_id = rows[j].activity_id => i = j
            /\ rows[i].ref_activity_id # NULL =>
                 \E j \in 1 .. i - 1 : rows[j].activity_id = rows[i].ref_activity_id
        BY <1>s, <2>3 DEF IndInv, RefsPointBack
      <3>2. \A j \in 1 .. i - 1 : rows'[j] = rows[j]
        BY <1>s, <2>3
      <3> QED
        BY <1>s, <2>1, <2>3, <3>1, <3>2
    <2> QED
      BY <1>s, <2>2, <2>3
  <1>7. RecordIsStored'
    <2> SUFFICES ASSUME NEW q \in Procs, pc'[q] = "returned"
                 PROVE  /\ head[q].index < n + 1
                        /\ rows'[head[q].index + 1] = NewRow(q)
      BY <1>0, <1>s DEF RecordIsStored, NewRow
    <2>1. CASE q = p
      BY <1>r, <1>s, <2>1
    <2>2. CASE q # p
      <3>1. head[q].index < n /\ rows[head[q].index + 1] = NewRow(q) /\ head[q].index \in Nat
        BY <1>0, <2>2 DEF IndInv, TypeOK, RecordIsStored
      <3>2. head[q].index + 1 \in 1 .. n
        BY <1>s, <3>1
      <3> QED
        BY <1>s, <3>1, <3>2
    <2> QED
      BY <2>1, <2>2
  <1>8. ActsValid'
    BY <1>0 DEF IndInv, ActsValid
  <1> QED
    BY <1>1, <1>2, <1>3, <1>4, <1>5, <1>6, <1>7, <1>8 DEF IndInv

(* Every step keeps the invariant. *)
LEMMA NextInv == IndInv /\ [Next]_vars => IndInv'
  <1> SUFFICES ASSUME IndInv, [Next]_vars PROVE IndInv'
    OBVIOUS
  <1>1. CASE UNCHANGED vars
    BY <1>1 DEF vars, IndInv, TypeOK, LockOwned, HeadStillTrue, RefStillThere,
                IdsFresh, Chained, RefsPointBack, RecordIsStored, NewRow, ActsValid
  <1>2. ASSUME NEW p \in Procs, NEW ref \in {NULL} \cup 1 .. nextId,
               NEW body \in Bodies, AppendCall(p, ref, body)
        PROVE  IndInv'
    BY <1>2, CallInv
  <1>3. ASSUME NEW p \in Procs, Begin(p) PROVE IndInv'
    <2>1. pc[p] \in {"begin"} \cup InTransaction /\ DOMAIN head = Procs /\ head[p].index \in Nat
      BY <1>3 DEF Begin, IndInv, TypeOK
    <2> QED
      BY <1>3, <2>1, MoveInv DEF Begin
  <1>4. ASSUME NEW p \in Procs, BusyTimeout(p) PROVE IndInv'
    <2>1. pc[p] \notin InTransaction
      BY <1>4 DEF BusyTimeout, InTransaction
    <2> QED
      BY <1>4, <2>1, EndInv DEF BusyTimeout
  <1>5. ASSUME NEW p \in Procs, ReadHead(p) PROVE IndInv'
    <2>1. pc[p] \in InTransaction /\ pc[p] # "begin" /\ lock = p
      BY <1>5 DEF ReadHead, IndInv, LockOwned, InTransaction
    <2>2. /\ head'[p] = HeadOf(rows) /\ DOMAIN head' = Procs
          /\ \A q \in Procs \ {p} : head'[q] = head[q]
      BY <1>5 DEF ReadHead, IndInv, TypeOK
    <2>3. HeadOf(rows).index \in Nat
      BY HeadIndex, RowsDomain DEF IndInv, TypeOK, IsRows, Chained
    <2> QED
      BY <1>5, <2>1, <2>2, <2>3, MoveInv DEF ReadHead
  <1>6. ASSUME NEW p \in Procs, CheckRef(p) PROVE IndInv'
    <2>1. pc[p] \in InTransaction /\ pc[p] # "begin" /\ lock = p
      BY <1>6 DEF CheckRef, IndInv, LockOwned, InTransaction
    <2>2. CASE act[p].ref # NULL /\ ~Exists(rows, act[p].ref)
      BY <1>6, <2>1, <2>2, EndInv DEF CheckRef
    <2>3. CASE ~(act[p].ref # NULL /\ ~Exists(rows, act[p].ref))
      <3>1. /\ head[p] = HeadOf(rows) /\ DOMAIN head = Procs /\ head[p].index \in Nat
        BY <1>6 DEF CheckRef, IndInv, TypeOK, HeadStillTrue
      <3> QED
        BY <1>6, <2>1, <2>3, <3>1, MoveInv DEF CheckRef
    <2> QED
      BY <2>2, <2>3
  <1>7. ASSUME NEW p \in Procs, Insert(p) PROVE IndInv'
    BY <1>7, InsertInv
  <1>8. ASSUME NEW p \in Procs, Return(p) PROVE IndInv'
    <2>1. pc[p] \notin InTransaction
      BY <1>8 DEF Return, InTransaction
    <2> QED
      BY <1>8, <2>1, EndInv DEF Return
  <1>9. ASSUME NEW p \in Procs, Crash(p) PROVE IndInv'
    <2>1. lock' = IF pc[p] \in InTransaction THEN NoProc ELSE lock
      BY <1>9 DEF Crash, IndInv, LockOwned
    <2> QED
      BY <1>9, <2>1, EndInv DEF Crash
  <1> QED
    BY <1>1, <1>2, <1>3, <1>4, <1>5, <1>6, <1>7, <1>8, <1>9 DEF Next

-----------------------------------------------------------------------------
(* Every variable keeps its type. *)
THEOREM TypeCorrect == Spec => []TypeOK
  <1>1. IndInv => TypeOK
    BY DEF IndInv
  <1> QED
    BY <1>1, InitInv, NextInv, PTL DEF Spec

(* verify-ledger never reports a break in a file only this code has written, *)
(* however many processes write it and wherever they fail (proof/ledger.py,  *)
(* append; proof/verify.py, verify_chain).                                   *)
THEOREM ChainAlwaysVerifies == Spec => []ChainIntact
  <1>1. IndInv => ChainIntact
    <2> SUFFICES ASSUME IndInv PROVE verify_chain(rows).status # "BROKEN"
      BY DEF ChainIntact
    <2>1. {i \in DOMAIN rows : Broken(rows, i)} = {}
      BY DEF IndInv, Chained
    <2>2. CASE rows = <<>>
      BY <2>2 DEF verify_chain
    <2>3. CASE rows # <<>>
      <3>1. verify_chain(rows) = [status |-> "VALID", checked |-> Len(rows),
                                  head_hash |-> rows[Len(rows)].entry_hash]
        BY <2>1, <2>3 DEF verify_chain
      <3> QED
        BY <3>1
    <2> QED
      BY <2>2, <2>3
  <1> QED
    BY <1>1, InitInv, NextInv, PTL DEF Spec

(* References point back to one row each, and a returned record is stored. *)
THEOREM RecordsAreTraceable == Spec => [](RefsPointBack /\ RecordIsStored)
  <1>1. IndInv => RefsPointBack /\ RecordIsStored
    BY DEF IndInv
  <1> QED
    BY <1>1, InitInv, NextInv, PTL DEF Spec

(* A writer never trips the table's constraints: no race costs a record. *)
THEOREM WritersNeverConflict == Spec => []NoConflict
  <1>1. IndInv => NoConflict
    BY InsertAccepted DEF NoConflict
  <1> QED
    BY <1>1, InitInv, NextInv, PTL DEF Spec

(* Only a successful INSERT touches the table. *)
LEMMA TableChanges ==
  ASSUME IndInv, [Next]_vars
  PROVE  UNCHANGED rows \/ \E p \in Procs : Insert(p)
  BY DEF Next, AppendCall, Begin, BusyTimeout, ReadHead, CheckRef, Return, Crash, vars

(* No step changes or removes a row. *)
THEOREM NothingIsRewritten == Spec => AppendOnly
  <1>1. ASSUME IndInv, [Next]_vars
        PROVE  [/\ Len(rows') >= Len(rows)
                /\ \A i \in DOMAIN rows : rows'[i] = rows[i]]_vars
    <2>1. IsRows(rows) /\ Len(rows) \in Nat /\ DOMAIN rows = 1 .. Len(rows)
      BY <1>1, RowsDomain DEF IndInv, TypeOK, IsRows
    <2>2. CASE UNCHANGED rows
      BY <2>1, <2>2
    <2>3. ASSUME NEW p \in Procs, Insert(p)
          PROVE  Len(rows') >= Len(rows) /\ \A i \in DOMAIN rows : rows'[i] = rows[i]
      <3>1. rows' = Append(rows, NewRow(p))
        BY <1>1, <2>3, InsertAccepted DEF Insert
      <3> QED
        BY <2>1, <3>1, AppendRows
    <2> QED
      BY <1>1, <2>2, <2>3, TableChanges
  <1> QED
    BY <1>1, InitInv, NextInv, PTL DEF Spec, AppendOnly

(* The append transactions implement LedgerSpec's atomic append. *)
THEOREM Refinement == Spec => ImplementsLedgerSpec
  <1>1. Init => Abstract!Init
    BY DEF Init, Abstract!Init
  <1>2. ASSUME IndInv, [Next]_vars PROVE [Abstract!Next]_rows
    <2>1. CASE UNCHANGED rows
      BY <2>1
    <2>2. ASSUME NEW p \in Procs, Insert(p) PROVE Abstract!Next
      <3>0. pc[p] = "insert"
        BY <2>2 DEF Insert
      <3>1. rows' = Append(rows, NewRow(p))
        BY <1>2, <2>2, <3>0, InsertAccepted DEF Insert
      <3>2. /\ ~Exists(rows, act[p].id)
            /\ act[p].ref = NULL \/ Exists(rows, act[p].ref)
            /\ act[p].id \in 1 .. nextId - 1
            /\ NewRow(p) = ChainedRow(act[p].id, HeadOf(rows).index,
                                      HeadOf(rows).prev, act[p].ref, act[p].body)
        BY <1>2, <3>0, NewRowFacts
      <3>3. /\ act[p].id \in 1 .. MaxIds /\ act[p].body \in Bodies
            /\ act[p].ref \in (1 .. MaxIds) \cup {NULL}
        <4>1. nextId - 1 <= MaxIds /\ nextId \in Nat /\ MaxIds \in Nat
          BY <1>2, LedgerAssumption DEF IndInv, TypeOK, IdsFresh
        <4>2. act[p].body \in Bodies
          BY <1>2, <3>0 DEF IndInv, ActsValid
        <4>3. \A i \in DOMAIN rows : rows[i].activity_id \in 1 .. nextId - 1
          BY <1>2 DEF IndInv, IdsFresh
        <4>4. Exists(rows, act[p].ref) => act[p].ref \in 1 .. nextId - 1
          BY <4>3 DEF Exists
        <4> QED
          BY <3>2, <4>1, <4>2, <4>4
      <3>4. Abstract!AppendRow(act[p].id, act[p].ref, act[p].body)
        BY <3>1, <3>2 DEF Abstract!AppendRow, Abstract!Exists, Abstract!HeadOf,
           Abstract!ChainedRow, Abstract!compute_entry_hash, Abstract!CHAINED_FIELDS,
           Abstract!GENESIS_PREV_HASH, Abstract!NULL,
           Exists, HeadOf, ChainedRow, compute_entry_hash, CHAINED_FIELDS,
           GENESIS_PREV_HASH, NULL
      <3> QED
        BY <3>3, <3>4 DEF Abstract!Next, Abstract!NULL, NULL
    <2> QED
      BY <1>2, <2>1, <2>2, TableChanges
  <1> QED
    BY <1>1, <1>2, InitInv, NextInv, PTL DEF Spec, ImplementsLedgerSpec, Abstract!Spec

-----------------------------------------------------------------------------
(* Part two: the ledger file, opened, migrated, appended to and read at once. *)
(* A migration's write lock is not the variable lock of Ledger: a step that  *)
(* waits for it or fails on it is a stutter or a crash there.                *)

allVars == <<vars, fileVars>>

-----------------------------------------------------------------------------
(* The file is a Ledger *)

(* What happens to a connection or a report leaves Ledger's state alone. *)
LEMMA OthersStutter ==
  ASSUME NEW p \in Procs
  PROVE  /\ Open(p) => UNCHANGED vars
         /\ Connecting(p) => UNCHANGED vars
         /\ Close(p) => UNCHANGED vars
         /\ \A r \in Readers : Reading(r) => UNCHANGED vars
  <1>1. Open(p) => UNCHANGED vars
    BY DEF Open
  <1>2. Connecting(p) => UNCHANGED vars
    BY DEF Connecting, CreateBookkeeping, BeginMigration, OpenTimesOut,
           CheckVersion, Migrate, CommitMigration
  <1>3. Close(p) => UNCHANGED vars
    BY DEF Close
  <1>4. ASSUME NEW r \in Readers, Reading(r) PROVE UNCHANGED vars
    BY <1>4 DEF Reading, StartReport, Verify, StatusHead, StatusGroups,
                StatusDangling, EndReport, Select
  <1> QED
    BY <1>1, <1>2, <1>3, <1>4

(* A timeout behind a migration looks like a crash before the transaction. *)
LEMMA BusyIsCrash ==
  ASSUME IndInv, NEW p \in Procs, BusyBehindMigration(p)
  PROVE  Crash(p)
  <1>1. pc[p] = "begin" /\ End(p) /\ UNCHANGED <<rows, lock, nextId>>
    BY DEF BusyBehindMigration
  <1>2. lock # p
    BY <1>1 DEF IndInv, LockOwned, InTransaction
  <1> QED
    BY <1>1, <1>2 DEF Crash

LEMMA FileStep ==
  ASSUME IndInv, [FileNext]_allVars
  PROVE  [Next]_vars
  <1>1. CASE UNCHANGED allVars
    BY <1>1 DEF allVars
  <1>2. ASSUME NEW p \in Procs, Open(p) \/ Connecting(p) \/ Close(p) PROVE UNCHANGED vars
    BY <1>2, OthersStutter
  <1>3. ASSUME NEW p \in Procs, Appending(p) PROVE Next
    BY <1>3, BusyIsCrash DEF Appending, Next
  <1>4. ASSUME NEW p \in Procs, Die(p) PROVE [Next]_vars
    BY <1>4 DEF Die, Next
  <1>5. ASSUME NEW r \in Readers, Reading(r) PROVE UNCHANGED vars
    <2>1. CASE Procs = {}
      BY <1>5 DEF Reading, StartReport, Verify, StatusHead, StatusGroups,
                  StatusDangling, EndReport, Select
    <2>2. CASE Procs # {}
      BY <1>5, <2>2, OthersStutter
    <2> QED
      BY <2>1, <2>2
  <1> QED
    BY <1>1, <1>2, <1>3, <1>4, <1>5 DEF FileNext

(* Opening, migrating, reading, closing and dying included, the file goes    *)
(* only through what Ledger's own appends and crashes can do                 *)
(* (storage/db.py, connect and apply_migrations; proof/ledger.py, append).   *)
THEOREM FileIsLedger == FileSpec => Spec
  <1>1. FileInit => Init /\ IndInv
    BY InitInv DEF FileInit
  <1>2. IndInv /\ [FileNext]_allVars => IndInv' /\ [Next]_vars
    BY FileStep, NextInv
  <1> QED
    BY <1>1, <1>2, PTL DEF FileSpec, Spec, allVars

(* The chain of a shared file verifies, no append trips a constraint and     *)
(* references point back, while others migrate, read and die.                *)
THEOREM FileChainIntact == FileSpec => [](ChainIntact /\ NoConflict /\ RefsPointBack)
  BY FileIsLedger, ChainAlwaysVerifies, WritersNeverConflict, RecordsAreTraceable, PTL

(* Whatever connections migrate, time out or die, the shared file is         *)
(* appended to atomically, and only appended to (storage/db.py, connect;     *)
(* proof/ledger.py, append).                                                 *)
THEOREM FileImplementsLedgerSpec == FileSpec => ImplementsLedgerSpec /\ AppendOnly
  BY FileIsLedger, Refinement, NothingIsRewritten, PTL

-----------------------------------------------------------------------------
(* The schema *)

(* At most one migration is open. *)
OneMigrator == \A p, q \in Procs : Migrating(p) /\ Migrating(q) => p = q

(* The tables and their row in schema_migrations come together. *)
Versioned == IF file.version = 1 THEN Tables \subseteq file.tables
             ELSE file.tables \cap Tables = {}

(* What a connection knows of the version. *)
VersionKnown == \A p \in Procs : /\ conn[p] = "open" => file.version = 1
                                 /\ conn[p] = "migrate" => file.version = 0

SchemaInv == FileTypeOK /\ OneMigrator /\ Versioned /\ VersionKnown

LEMMA SchemaInit == FileInit => SchemaInv
  <1> SUFFICES ASSUME FileInit PROVE SchemaInv
    OBVIOUS
  <1>1. TypeOK
    BY InitInv DEF FileInit, IndInv
  <1> QED
    BY <1>1 DEF FileInit, SchemaInv, FileTypeOK, OneMigrator, Migrating, Versioned,
                VersionKnown, Tables

(* One connection moves; only `file` may change with it. *)
LEMMA ConnectingInv ==
  ASSUME SchemaInv, TypeOK', NEW p \in Procs, Connecting(p)
  PROVE  SchemaInv'
  <1>0. /\ conn \in [Procs -> {"closed", "create", "begin", "check", "migrate",
                               "commit", "open"}]
        /\ file \in [exists : BOOLEAN, version : {0, 1},
                     tables : SUBSET (Tables \cup {"schema_migrations"})]
    BY DEF SchemaInv, FileTypeOK
  <1>1. CASE CreateBookkeeping(p)
    <2>1. file'.tables \cap Tables = file.tables \cap Tables
      BY <1>0, <1>1 DEF CreateBookkeeping, Tables
    <2> QED
      BY <1>0, <1>1, <2>1 DEF CreateBookkeeping, SchemaInv, FileTypeOK, OneMigrator,
         Migrating, Versioned, VersionKnown, To
  <1>2. CASE BeginMigration(p)
    BY <1>0, <1>2 DEF BeginMigration, WriteLocked, SchemaInv, FileTypeOK, OneMigrator,
       Migrating, Versioned, VersionKnown, To
  <1>3. CASE OpenTimesOut(p)
    BY <1>0, <1>3 DEF OpenTimesOut, SchemaInv, FileTypeOK, OneMigrator,
       Migrating, Versioned, VersionKnown, To
  <1>4. CASE CheckVersion(p)
    BY <1>0, <1>4 DEF CheckVersion, SchemaInv, FileTypeOK, OneMigrator,
       Migrating, Versioned, VersionKnown, To
  <1>5. CASE Migrate(p)
    BY <1>0, <1>5 DEF Migrate, SchemaInv, FileTypeOK, OneMigrator,
       Migrating, Versioned, VersionKnown, To
  <1>6. CASE CommitMigration(p)
    <2>1. \A q \in Procs \ {p} : conn[q] # "migrate"
      BY <1>6 DEF CommitMigration, SchemaInv, OneMigrator, Migrating
    <2> QED
      BY <1>0, <1>6, <2>1 DEF CommitMigration, SchemaInv, FileTypeOK, OneMigrator,
         Migrating, Versioned, VersionKnown, To
  <1> QED
    BY <1>1, <1>2, <1>3, <1>4, <1>5, <1>6 DEF Connecting

LEMMA SchemaNext ==
  ASSUME SchemaInv, TypeOK', [FileNext]_allVars
  PROVE  SchemaInv'
  <1> USE DEF SchemaInv, FileTypeOK, OneMigrator, Migrating, Versioned, VersionKnown, To
  <1>1. CASE UNCHANGED <<file, conn>>
    BY <1>1
  <1>2. ASSUME NEW p \in Procs, Open(p) PROVE SchemaInv'
    BY <1>2 DEF Open
  <1>3. ASSUME NEW p \in Procs, Connecting(p) PROVE SchemaInv'
    BY <1>3, ConnectingInv
  <1>4. ASSUME NEW p \in Procs, Appending(p) PROVE UNCHANGED <<file, conn>>
    BY <1>4 DEF Appending, fileVars
  <1>5. ASSUME NEW p \in Procs, Close(p) \/ Die(p) PROVE SchemaInv'
    BY <1>5 DEF Close, Die
  <1>6. ASSUME NEW r \in Readers, Reading(r) PROVE UNCHANGED <<file, conn>>
    BY <1>6 DEF Reading, StartReport, Verify, StatusHead, StatusGroups,
                StatusDangling, EndReport, Select
  <1> QED
    BY <1>1, <1>2, <1>3, <1>4, <1>5, <1>6 DEF FileNext, allVars, fileVars

LEMMA FileInvariants == FileSpec => [](IndInv /\ SchemaInv)
  <1>1. FileInit => IndInv /\ SchemaInv
    BY InitInv, SchemaInit DEF FileInit
  <1>2. ASSUME IndInv, SchemaInv, [FileNext]_allVars PROVE IndInv' /\ SchemaInv'
    <2>1. IndInv'
      BY <1>2, FileStep, NextInv
    <2>2. TypeOK'
      BY <2>1 DEF IndInv
    <2> QED
      BY <1>2, <2>1, <2>2, SchemaNext
  <1> QED
    BY <1>1, <1>2, PTL DEF FileSpec, allVars

(* Every variable of the file keeps its type. *)
THEOREM FileTypeCorrect == FileSpec => []FileTypeOK
  <1>1. SchemaInv => FileTypeOK
    BY DEF SchemaInv
  <1> QED
    BY <1>1, FileInvariants, PTL

(* However many processes open a new file at once and wherever they die, a   *)
(* connection comes with the whole schema, and no migration meets tables     *)
(* that another one made (storage/db.py, apply_migrations).                  *)
THEOREM SchemaIsWhole == FileSpec => []SchemaWhole
  <1>1. SchemaInv => SchemaWhole
    BY DEF SchemaInv, Versioned, VersionKnown, SchemaWhole, AlreadyThere
  <1> QED
    BY <1>1, FileInvariants, PTL

-----------------------------------------------------------------------------
(* ledger-status *)

(* The head a report read, among the first n rows. *)
HeadAmong(s, n) == \/ s.head = GENESIS_PREV_HASH
                   \/ \E i \in 1 .. n : rows[i].entry_hash = s.head

GroupsCover(s) == \A b \in Bodies : s.groups[b] >= CountOf(b, s.count)

(* Row k records what became of row i. *)
Resolves(k, i) == /\ rows[k].ref_activity_id = rows[i].activity_id
                  /\ rows[k].body \in Outcomes

(* The pending intents a report read, against the records it counted. *)
WarnsRightly(s) ==
    \A i \in 1 .. s.count : rows[i].body = "intent" =>
        /\ (~\E k \in DOMAIN rows : Resolves(k, i)) => rows[i].activity_id \in s.pending
        /\ rows[i].activity_id \in s.pending => ~\E k \in 1 .. s.count : Resolves(k, i)

(* What a report knows at each of its SELECTs. *)
Knows(s) ==
    /\ s = [at |-> s.at, outcome |-> s.outcome, head |-> s.head, count |-> s.count,
            groups |-> s.groups, pending |-> s.pending]
    /\ s.count \in 0 .. Len(rows)
    /\ s.at \in {"idle", "verify", "head"} =>
          s.count = 0 /\ s.head = GENESIS_PREV_HASH /\ s.outcome = "none"
    /\ s.at \in {"count", "groups", "dangling"} =>
          "activities" \in file.tables /\ s.outcome = "none"
    /\ s.at = "count" => HeadAmong(s, Len(rows))
    /\ s.at \in {"groups", "dangling"} \/ s.outcome = "printed" => HeadAmong(s, s.count)
    /\ s.at = "dangling" \/ s.outcome = "printed" => GroupsCover(s)
    /\ s.outcome = "printed" => WarnsRightly(s)
    /\ s.outcome = "no such table" => s.count = 0 /\ s.head = GENESIS_PREV_HASH

ReportInv == DOMAIN report = Readers /\ \A r \in Readers : Knows(report[r])

(* Rows stay where they are. *)
RowsKept == /\ Len(rows) \in Nat /\ Len(rows') \in Nat /\ Len(rows') >= Len(rows)
            /\ DOMAIN rows = 1 .. Len(rows) /\ DOMAIN rows' = 1 .. Len(rows')
            /\ \A i \in 1 .. Len(rows) : rows'[i] = rows[i]

LEMMA StepKeepsRows ==
  ASSUME IndInv, IndInv', [Next]_vars
  PROVE  RowsKept
  <1>1. /\ IsRows(rows) /\ Len(rows) \in Nat /\ DOMAIN rows = 1 .. Len(rows)
        /\ IsRows(rows') /\ Len(rows') \in Nat /\ DOMAIN rows' = 1 .. Len(rows')
    BY RowsDomain DEF IndInv, TypeOK, IsRows
  <1>2. CASE UNCHANGED rows
    BY <1>1, <1>2 DEF RowsKept
  <1>3. ASSUME NEW p \in Procs, Insert(p) PROVE RowsKept
    <2>1. rows' = Append(rows, NewRow(p))
      BY <1>3, InsertAccepted DEF Insert
    <2> QED
      BY <1>1, <2>1, AppendRows DEF RowsKept
  <1> QED
    BY <1>2, <1>3, TableChanges

LEMMA TablesGrow ==
  ASSUME SchemaInv, [FileNext]_allVars
  PROVE  file.tables \subseteq file'.tables
  <1>1. CASE UNCHANGED file
    BY <1>1
  <1>2. ASSUME NEW p \in Procs, Open(p) \/ CreateBookkeeping(p) \/ CommitMigration(p)
        PROVE  file.tables \subseteq file'.tables
    <2>1. file = [exists |-> file.exists, version |-> file.version, tables |-> file.tables]
      BY DEF SchemaInv, FileTypeOK
    <2>2. Open(p) => file'.tables = file.tables
      BY <2>1 DEF Open
    <2>3. CreateBookkeeping(p) => file.tables \subseteq file'.tables
      BY <2>1 DEF CreateBookkeeping
    <2>4. CommitMigration(p) => file.tables \subseteq file'.tables
      BY <2>1 DEF CommitMigration
    <2> QED
      BY <1>2, <2>2, <2>3, <2>4
  <1>3. ASSUME NEW p \in Procs, Connecting(p) \/ Close(p) \/ Die(p) \/ Appending(p)
        PROVE  UNCHANGED file \/ CreateBookkeeping(p) \/ CommitMigration(p)
    BY <1>3 DEF Connecting, BeginMigration, OpenTimesOut, CheckVersion, Migrate,
       Close, Die, Appending, fileVars
  <1>4. ASSUME NEW r \in Readers, Reading(r) PROVE UNCHANGED file
    BY <1>4 DEF Reading, StartReport, Verify, StatusHead, StatusGroups,
                StatusDangling, EndReport, Select
  <1> QED
    BY <1>1, <1>2, <1>3, <1>4 DEF FileNext, allVars, fileVars

(* Counting more of the table counts no less. *)
LEMMA CountGrows ==
  ASSUME Len(rows) \in Nat, NEW n \in 0 .. Len(rows), NEW b
  PROVE  /\ CountOf(b, n) \in Nat /\ CountOf(b, Len(rows)) \in Nat
         /\ CountOf(b, Len(rows)) >= CountOf(b, n)
  <1> DEFINE S == {i \in 1 .. n : rows[i].body = b}
             T == {i \in 1 .. Len(rows) : rows[i].body = b}
  <1>1. IsFiniteSet(1 .. Len(rows))
    BY FS_Interval
  <1>2. IsFiniteSet(T) /\ S \subseteq T
    BY <1>1, FS_Subset
  <1>3. IsFiniteSet(S) /\ Cardinality(S) <= Cardinality(T)
    BY <1>2, FS_Subset
  <1>4. Cardinality(S) \in Nat /\ Cardinality(T) \in Nat
    BY <1>2, <1>3, FS_CardinalityType
  <1> QED
    BY <1>3, <1>4 DEF CountOf

(* What a report knows stays true while others write. *)
LEMMA KnowledgeLasts ==
  ASSUME NEW s, Knows(s), RowsKept, file.tables \subseteq file'.tables
  PROVE  Knows(s)'
  <1>2. HeadAmong(s, Len(rows)) => HeadAmong(s, Len(rows))'
    BY DEF HeadAmong, RowsKept
  <1>3. \A b : \A n \in 0 .. Len(rows) : CountOf(b, n)' = CountOf(b, n)
    <2> SUFFICES ASSUME NEW b, NEW n \in 0 .. Len(rows)
                 PROVE  {i \in 1 .. n : rows'[i].body = b} = {i \in 1 .. n : rows[i].body = b}
      BY DEF CountOf
    <2> QED
      BY DEF RowsKept
  <1>4. s.count \in 0 .. Len(rows)
    BY DEF Knows
  <1>5. GroupsCover(s) => GroupsCover(s)'
    BY <1>3, <1>4 DEF GroupsCover
  <1>6. s.count \in 0 .. Len(rows')
    BY <1>4 DEF RowsKept
  <1>7. HeadAmong(s, s.count) => HeadAmong(s, s.count)'
    BY <1>4 DEF HeadAmong, RowsKept
  <1>8. ASSUME WarnsRightly(s) PROVE WarnsRightly(s)'
    <2> SUFFICES ASSUME NEW i \in 1 .. s.count, rows'[i].body = "intent"
        PROVE  /\ (~\E k \in DOMAIN rows' : Resolves(k, i)') =>
                     rows'[i].activity_id \in s.pending
               /\ rows'[i].activity_id \in s.pending =>
                     ~\E k \in 1 .. s.count : Resolves(k, i)'
      BY DEF WarnsRightly
    <2>1. /\ 1 .. s.count \subseteq 1 .. Len(rows)
          /\ 1 .. Len(rows) \subseteq 1 .. Len(rows')
      BY <1>4 DEF RowsKept
    <2>2. \A k \in 1 .. Len(rows) : Resolves(k, i)' <=> Resolves(k, i)
      BY <2>1 DEF Resolves, RowsKept
    <2>3. rows'[i] = rows[i]
      BY <2>1 DEF RowsKept
    <2>4. DOMAIN rows = 1 .. Len(rows) /\ DOMAIN rows' = 1 .. Len(rows')
      BY DEF RowsKept
    <2> QED
      BY <1>8, <2>1, <2>2, <2>3, <2>4 DEF WarnsRightly
  <1> QED
    BY <1>2, <1>5, <1>6, <1>7, <1>8 DEF Knows

(* A report that did not move, or moved to something it knows. *)
LEMMA ReportMoves ==
  ASSUME ReportInv, RowsKept, file.tables \subseteq file'.tables,
         DOMAIN report' = Readers,
         \A r \in Readers : report'[r] = report[r] \/ Knows(report[r])'
  PROVE  ReportInv'
  <1> SUFFICES ASSUME NEW r \in Readers PROVE Knows(report[r])'
    BY DEF ReportInv
  <1>1. PICK s : s = report[r]
    OBVIOUS
  <1>2. Knows(s)
    BY <1>1 DEF ReportInv
  <1>3. Knows(s)'
    BY <1>2, KnowledgeLasts
  <1> QED
    BY <1>1, <1>3

(* A report that has read nothing, or was told there is nothing to read. *)
LEMMA EmptyKnows ==
  ASSUME Len(rows) \in Nat, NEW at, NEW outcome, NEW g, NEW pending,
         at \notin {"count", "groups", "dangling"},
         at \in {"idle", "verify", "head"} => outcome = "none",
         outcome # "printed"
  PROVE  Knows([at |-> at, outcome |-> outcome, head |-> GENESIS_PREV_HASH,
                count |-> 0, groups |-> g, pending |-> pending])
  <1> DEFINE s == [at |-> at, outcome |-> outcome, head |-> GENESIS_PREV_HASH,
                   count |-> 0, groups |-> g, pending |-> pending]
  <1>1. /\ s.at = at /\ s.outcome = outcome /\ s.head = GENESIS_PREV_HASH
        /\ s.count = 0 /\ s.groups = g /\ s.pending = pending
    OBVIOUS
  <1>2. s = [at |-> s.at, outcome |-> s.outcome, head |-> s.head, count |-> s.count,
             groups |-> s.groups, pending |-> s.pending]
    OBVIOUS
  <1> HIDE DEF s
  <1> Knows(s)
    BY <1>1, <1>2 DEF Knows
  <1> QED
    BY DEF s

(* A report that is over keeps what it had read. *)
LEMMA DoneKeeps ==
  ASSUME NEW s, NEW outcome,
         s = [at |-> s.at, outcome |-> s.outcome, head |-> s.head,
              count |-> s.count, groups |-> s.groups, pending |-> s.pending]
  PROVE  [s EXCEPT !.at = "done", !.outcome = outcome] =
         [at |-> "done", outcome |-> outcome, head |-> s.head,
          count |-> s.count, groups |-> s.groups, pending |-> s.pending]
  <1> DEFINE t == [s EXCEPT !.at = "done", !.outcome = outcome]
  <1>1. DOMAIN s = {"at", "outcome", "head", "count", "groups", "pending"}
    OBVIOUS
  <1>2. /\ t = [f \in DOMAIN s |-> t[f]]
        /\ t.at = "done" /\ t.outcome = outcome /\ t.head = s.head
        /\ t.count = s.count /\ t.groups = s.groups /\ t.pending = s.pending
    BY <1>1
  <1> HIDE DEF t
  <1>3. t = [at |-> "done", outcome |-> outcome, head |-> s.head,
             count |-> s.count, groups |-> s.groups, pending |-> s.pending]
    BY <1>1, <1>2
  <1> QED
    BY <1>3 DEF t

(* A reader's step leaves the table alone and answers from what is there.    *)
LEMMA ReadingKnows ==
  ASSUME IndInv, ReportInv, NEW r \in Readers, Reading(r)
  PROVE  ReportInv'
  <1>1. rows' = rows /\ file' = file
    BY DEF Reading, StartReport, Verify, StatusHead, StatusGroups,
           StatusDangling, EndReport, Select, vars
  <1>2. PICK t : report' = [report EXCEPT ![r] = t]
    BY DEF Reading, StartReport, Verify, StatusHead, StatusGroups,
           StatusDangling, EndReport, Select
  <1>3. /\ Len(rows) \in Nat /\ DOMAIN rows = 1 .. Len(rows)
        /\ HeadOf(rows).prev = IF Len(rows) = 0 THEN GENESIS_PREV_HASH
                               ELSE rows[Len(rows)].entry_hash
    BY HeadIndex, RowsDomain DEF IndInv, TypeOK, IsRows, Chained
  <1>4. /\ DOMAIN report' = Readers /\ report'[r] = t
        /\ \A q \in Readers \ {r} : report'[q] = report[q]
    BY <1>2 DEF ReportInv
  <1>5. SUFFICES Knows(t)
    <2>1. RowsKept
      BY <1>1, <1>3 DEF RowsKept
    <2>2. Knows(t)'
      BY <1>1, <1>5, <2>1, KnowledgeLasts
    <2>3. Knows(report[r])'
      BY <1>4, <2>2
    <2> QED
      BY <1>1, <1>4, <2>1, <2>3, ReportMoves
  <1>6. Knows(report[r])
    BY DEF ReportInv
  <1> DEFINE old == report[r]
  <1>7. ASSUME NEW command \in {"verify", "head"}, StartReport(r, command)
        PROVE  Knows(t)
    <2>1. \/ t = [at |-> command, outcome |-> "none", head |-> GENESIS_PREV_HASH,
                  count |-> 0, groups |-> [b \in Bodies |-> 0], pending |-> {}]
          \/ t = [at |-> "done", outcome |-> "ledger not found",
                  head |-> GENESIS_PREV_HASH, count |-> 0,
                  groups |-> [b \in Bodies |-> 0], pending |-> {}]
      BY <1>4, <1>7 DEF StartReport, NoReport, ReportInv
    <2> QED
      BY <1>3, <2>1, EmptyKnows
  <1>8. CASE EndReport(r)
    <2>1. t = [at |-> "idle", outcome |-> "none", head |-> GENESIS_PREV_HASH,
               count |-> 0, groups |-> [b \in Bodies |-> 0], pending |-> {}]
      BY <1>4, <1>8 DEF EndReport, NoReport, ReportInv
    <2> QED
      BY <1>3, <2>1, EmptyKnows
  <1>9. ASSUME NEW at \in {"verify", "head", "count", "groups", "dangling"}, NEW answer,
               Select(r, at, answer)
        PROVE  /\ old.at = at
               /\ t = answer \/ Knows(t)
               /\ "activities" \in file.tables \/ Knows(t)
    <2>1. CASE "activities" \in file.tables
      BY <1>4, <1>9, <2>1 DEF Select, ReportInv
    <2>2. CASE "activities" \notin file.tables
      <3>1. old.at = at /\ t = [old EXCEPT !.at = "done", !.outcome = "no such table"]
        BY <1>4, <1>9, <2>2 DEF Select, ReportInv
      <3>2. t = [at |-> "done", outcome |-> "no such table", head |-> old.head,
                 count |-> old.count, groups |-> old.groups, pending |-> old.pending]
        BY <1>6, <3>1 DEF Knows
      <3>3. old.count = 0 /\ old.head = GENESIS_PREV_HASH
        BY <1>6, <2>2, <3>1 DEF Knows
      <3> QED
        <4>1. t = [at |-> "done", outcome |-> "no such table", head |-> GENESIS_PREV_HASH,
                   count |-> 0, groups |-> old.groups, pending |-> old.pending]
          BY <3>2, <3>3
        <4>2. Knows(t)
          BY <1>3, <4>1, EmptyKnows
        <4> QED
          BY <3>1, <4>2
    <2> QED
      BY <2>1, <2>2
  <1> HIDE DEF old
  <1>10. CASE Verify(r)
    <2>1. PICK status \in {"EMPTY", "VALID", "BROKEN"} : verify_chain(rows).status = status
      BY DEF verify_chain
    <2> DEFINE answer == [report[r] EXCEPT !.at = "done", !.outcome = status]
    <2>2. old.at = "verify" /\ (t = answer \/ Knows(t))
      BY <1>9, <1>10, <2>1 DEF Verify
    <2>3. old.count = 0 /\ old.head = GENESIS_PREV_HASH
      BY <1>6, <2>2 DEF Knows, old
    <2>4. answer = [at |-> "done", outcome |-> status, head |-> old.head,
                    count |-> old.count, groups |-> old.groups, pending |-> old.pending]
      <3>1. old = [at |-> old.at, outcome |-> old.outcome, head |-> old.head,
                   count |-> old.count, groups |-> old.groups, pending |-> old.pending]
        BY <1>6 DEF Knows, old
      <3>2. answer = [old EXCEPT !.at = "done", !.outcome = status]
        BY DEF old
      <3> HIDE DEF answer
      <3> QED
        BY <3>1, <3>2, DoneKeeps
    <2>5. answer = [at |-> "done", outcome |-> status, head |-> GENESIS_PREV_HASH,
                    count |-> 0, groups |-> old.groups, pending |-> old.pending]
      BY <2>3, <2>4
    <2> HIDE DEF answer
    <2> QED
      BY <1>3, <2>2, <2>5, EmptyKnows
  <1>11. CASE StatusHead(r)
    <2> DEFINE ahead  == [report[r] EXCEPT !.at = "count", !.head = HeadOf(rows).prev]
               acount == [report[r] EXCEPT !.at = "groups", !.count = Len(rows)]
    <2>1. \/ old.at = "head" /\ ((t = ahead /\ "activities" \in file.tables) \/ Knows(t))
          \/ old.at = "count" /\ ((t = acount /\ "activities" \in file.tables) \/ Knows(t))
      BY <1>9, <1>11 DEF StatusHead
    <2>2. CASE old.at = "head" /\ t = ahead /\ "activities" \in file.tables
      <3>1. t = [at |-> "count", outcome |-> old.outcome, head |-> HeadOf(rows).prev,
                 count |-> old.count, groups |-> old.groups, pending |-> old.pending]
        BY <1>6, <2>2 DEF Knows, old
      <3>2. old.outcome = "none" /\ old.count = 0
        BY <1>6, <2>2 DEF Knows, old
      <3>3. HeadAmong(t, Len(rows))
        BY <1>3, <3>1 DEF HeadAmong
      <3>4. /\ t.at = "count" /\ t.outcome = "none" /\ t.count \in 0 .. Len(rows)
            /\ t = [at |-> t.at, outcome |-> t.outcome, head |-> t.head,
                    count |-> t.count, groups |-> t.groups, pending |-> t.pending]
        BY <1>3, <3>1, <3>2
      <3> QED
        BY <1>3, <2>2, <3>3, <3>4 DEF Knows
    <2>3. CASE old.at = "count" /\ t = acount /\ "activities" \in file.tables
      <3>1. t = [at |-> "groups", outcome |-> old.outcome, head |-> old.head,
                 count |-> Len(rows), groups |-> old.groups, pending |-> old.pending]
        BY <1>6, <2>3 DEF Knows, old
      <3>2. old.outcome = "none" /\ HeadAmong(old, Len(rows))
        BY <1>6, <2>3 DEF Knows, old
      <3>3. HeadAmong(t, t.count)
        BY <1>3, <3>1, <3>2 DEF HeadAmong
      <3>4. /\ t.at = "groups" /\ t.outcome = "none" /\ t.count \in 0 .. Len(rows)
            /\ t = [at |-> t.at, outcome |-> t.outcome, head |-> t.head,
                    count |-> t.count, groups |-> t.groups, pending |-> t.pending]
        BY <1>3, <3>1, <3>2
      <3> QED
        BY <1>3, <2>3, <3>3, <3>4 DEF Knows
    <2> QED
      BY <2>1, <2>2, <2>3
  <1>12. CASE StatusGroups(r)
    <2> DEFINE counts == [b \in Bodies |-> CountOf(b, Len(rows))]
               answer == [report[r] EXCEPT !.at = "dangling", !.groups = counts]
    <2>1. old.at = "groups" /\ ((t = answer /\ "activities" \in file.tables) \/ Knows(t))
      BY <1>9, <1>12 DEF StatusGroups
    <2>2. CASE t = answer /\ "activities" \in file.tables
      <3>1. t = [at |-> "dangling", outcome |-> old.outcome, head |-> old.head,
                 count |-> old.count, groups |-> counts, pending |-> old.pending]
        BY <1>6, <2>2 DEF Knows, old
      <3>2. old.outcome = "none" /\ HeadAmong(old, old.count) /\ old.count \in 0 .. Len(rows)
        BY <1>6, <2>1 DEF Knows, old
      <3>3. HeadAmong(t, t.count)
        BY <3>1, <3>2 DEF HeadAmong
      <3>4. GroupsCover(t)
        <4> SUFFICES ASSUME NEW b \in Bodies PROVE counts[b] >= CountOf(b, old.count)
          BY <3>1 DEF GroupsCover
        <4> QED
          BY <1>3, <3>2, CountGrows
      <3> HIDE DEF counts
      <3>5. /\ t.at = "dangling" /\ t.outcome = "none" /\ t.count = old.count
            /\ t = [at |-> t.at, outcome |-> t.outcome, head |-> t.head,
                    count |-> t.count, groups |-> t.groups, pending |-> t.pending]
        BY <1>3, <3>1, <3>2
      <3> QED
        BY <1>3, <2>2, <3>2, <3>3, <3>4, <3>5 DEF Knows
    <2> QED
      BY <2>1, <2>2
  <1>13. CASE StatusDangling(r)
    <2> DEFINE answer == [report[r] EXCEPT !.at = "done", !.outcome = "printed",
                                           !.pending = dangling_intents]
    <2>1. old.at = "dangling" /\ (t = answer \/ Knows(t))
      BY <1>9, <1>13 DEF StatusDangling
    <2>2. CASE t = answer
      <3>1. t = [at |-> "done", outcome |-> "printed", head |-> old.head,
                 count |-> old.count, groups |-> old.groups, pending |-> dangling_intents]
        BY <1>6, <2>2 DEF Knows, old
      <3>2. HeadAmong(old, old.count) /\ GroupsCover(old) /\ old.count \in 0 .. Len(rows)
        BY <1>6, <2>1 DEF Knows, old
      <3>3. HeadAmong(t, t.count) /\ GroupsCover(t)
        BY <3>1, <3>2 DEF HeadAmong, GroupsCover
      <3>4. WarnsRightly(t)
        <4>1. 1 .. old.count \subseteq DOMAIN rows
          BY <1>3, <3>2
        <4>2. t.count = old.count /\ t.pending = dangling_intents
          BY <3>1
        <4> QED
          BY <4>1, <4>2 DEF WarnsRightly, Resolves, dangling_intents
      <3> QED
        BY <1>3, <3>1, <3>2, <3>3, <3>4 DEF Knows
    <2> QED
      BY <2>1, <2>2
  <1> QED
    BY <1>7, <1>8, <1>10, <1>11, <1>12, <1>13 DEF Reading

-----------------------------------------------------------------------------
(* ledger-status adds up, and warns of what it counted. *)

LEMMA ReportInit == FileInit => ReportInv
  <1> SUFFICES ASSUME FileInit PROVE ReportInv
    OBVIOUS
  <1>1. rows = << >> /\ Len(rows) = 0
    BY DEF FileInit, Init
  <1>2. DOMAIN report = Readers /\ \A r \in Readers : report[r] = NoReport
    BY DEF FileInit
  <1>3. Knows([at |-> "idle", outcome |-> "none", head |-> GENESIS_PREV_HASH, count |-> 0,
               groups |-> [b \in Bodies |-> 0], pending |-> {}])
    BY <1>1, EmptyKnows
  <1> QED
    BY <1>2, <1>3 DEF ReportInv, NoReport

LEMMA ReportNext ==
  ASSUME IndInv, IndInv', SchemaInv, ReportInv, [FileNext]_allVars
  PROVE  ReportInv'
  <1>1. ASSUME NEW r \in Readers, Reading(r) PROVE ReportInv'
    BY <1>1, ReadingKnows
  <1>2. CASE UNCHANGED report
    <2>1. RowsKept
      BY FileStep, StepKeepsRows
    <2>2. file.tables \subseteq file'.tables
      BY TablesGrow
    <2> QED
      BY <1>2, <2>1, <2>2, ReportMoves DEF ReportInv
  <1>3. ASSUME NEW p \in Procs, Open(p) \/ Connecting(p) \/ Appending(p) \/ Close(p) \/ Die(p)
        PROVE  UNCHANGED report
    BY <1>3 DEF Open, Connecting, CreateBookkeeping, BeginMigration, OpenTimesOut,
       CheckVersion, Migrate, CommitMigration, Close, Die, Appending, fileVars
  <1> QED
    BY <1>1, <1>2, <1>3 DEF FileNext, allVars, fileVars

(* Reports know what they know throughout. *)
LEMMA ReportInvariant == FileSpec => []ReportInv
  <1>1. IndInv /\ IndInv' /\ SchemaInv /\ ReportInv /\ [FileNext]_allVars => ReportInv'
    BY ReportNext
  <1> QED
    BY <1>1, FileInvariants, ReportInit, PTL DEF FileSpec, allVars

(* What ledger-status prints adds up, whatever was appended between its four *)
(* queries: the head is among the records it counted, no group is smaller    *)
(* than the counted records of its type, and a file without the schema was   *)
(* found so before anything was read.                                        *)
THEOREM StatusIsTrue == FileSpec => []StatusAddsUp
  <1>1. ReportInv => StatusAddsUp
    <2> SUFFICES ASSUME ReportInv, NEW r \in Readers
                 PROVE  LET s == report[r] IN
                        /\ s.outcome = "no such table" => s.count = 0 /\ s.head = GENESIS_PREV_HASH
                        /\ s.outcome = "printed" => HeadAmong(s, s.count) /\ GroupsCover(s)
      BY DEF StatusAddsUp, HeadAmong, GroupsCover
    <2>1. Knows(report[r])
      BY DEF ReportInv
    <2> QED
      BY <2>1 DEF Knows
  <1> QED
    BY <1>1, ReportInvariant, PTL

(* ledger-status warns of every intent among the records it counted whose    *)
(* outcome nobody has recorded to this day, and of none whose outcome was    *)
(* among those records, though rows are appended between the count and the   *)
(* query for pending intents (proof/ledger.py, dangling_intents).            *)
THEOREM WarningsAreTrue == FileSpec => []WarnsOfCounted
  <1>1. ReportInv => WarnsOfCounted
    <2> SUFFICES ASSUME ReportInv, NEW r \in Readers, report[r].outcome = "printed"
                 PROVE  WarnsRightly(report[r])
      BY DEF WarnsOfCounted, WarnsRightly, Resolves
    <2>1. Knows(report[r])
      BY DEF ReportInv
    <2> QED
      BY <2>1 DEF Knows
  <1> QED
    BY <1>1, ReportInvariant, PTL
=============================================================================
