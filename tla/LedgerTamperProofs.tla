------------------------- MODULE LedgerTamperProofs -------------------------
(***************************************************************************)
(* Theorems of LedgerTamper, for every set of contents, every number of    *)
(* rows and any number of changes made behind the writer's back.           *)
(*                                                                         *)
(* verify_chain walks the rows from the first to the last, and a hash      *)
(* binds the row before it, so the arguments are inductions along the      *)
(* chain.  They are made by a least counterexample: a nonempty set of      *)
(* natural numbers has a least element (LeastElement).                     *)
(***************************************************************************)
EXTENDS LedgerTamper, SequenceTheorems, WellFoundedInduction, TLAPS

(* A row has the six columns, and nothing else. *)
IsRow(r) ==
    r = [activity_id |-> r.activity_id, chain_index |-> r.chain_index,
         ref_activity_id |-> r.ref_activity_id, body |-> r.body,
         prev_hash |-> r.prev_hash, entry_hash |-> r.entry_hash]

IsTable(s) == /\ s \in Seq({s[i] : i \in DOMAIN s})
              /\ \A i \in DOMAIN s : IsRow(s[i])

Unbroken(s) == \A i \in DOMAIN s : ~Broken(s, i)

-----------------------------------------------------------------------------
(* Least elements *)

(* A nonempty set of natural numbers has a least element. *)
LEMMA LeastElement ==
  ASSUME NEW S, S \subseteq Nat, S # {}
  PROVE  \E x \in S : \A y \in S : x <= y
  <1> DEFINE R == OpToRel(<, Nat)
  <1>1. IsWellFoundedOn(R, Nat)
    BY NatLessThanWellFounded
  <1> HIDE DEF R
  <1>2. PICK x \in S : \A y \in S : ~(<<y, x>> \in R)
    BY <1>1, WFMin, Zenon
  <1>3. ASSUME NEW y \in S PROVE x <= y
    <2>1. y < x => <<y, x>> \in R
      BY DEF R, OpToRel
    <2> QED
      BY <1>2, <2>1
  <1> QED
    BY <1>3

-----------------------------------------------------------------------------
(* Tables *)

(* A table is indexed from 1 to its length. *)
LEMMA TableDomain ==
  ASSUME NEW s, IsTable(s)
  PROVE  Len(s) \in Nat /\ DOMAIN s = 1 .. Len(s) /\ (s = <<>> <=> Len(s) = 0)
  <1>1. Len(s) \in Nat /\ DOMAIN s = 1 .. Len(s)
    BY LenProperties DEF IsTable
  <1>2. s = <<>> <=> Len(s) = 0
    BY EmptySeq DEF IsTable
  <1> QED
    BY <1>1, <1>2

(* Rows from 1 to n are a table of n rows. *)
LEMMA TableOf ==
  ASSUME NEW n \in Nat, NEW s, s = [i \in 1 .. n |-> s[i]], \A i \in 1 .. n : IsRow(s[i])
  PROVE  IsTable(s) /\ Len(s) = n
  <1> DEFINE S == {s[i] : i \in DOMAIN s}
  <1>1. DOMAIN s = 1 .. n
    OBVIOUS
  <1>2. s \in [1 .. n -> S]
    BY <1>1
  <1> HIDE DEF S
  <1>3. s \in Seq(S)
    BY <1>2, SeqDef
  <1>4. Len(s) = n
    BY <1>1, <1>3, LenProperties
  <1> QED
    BY <1>1, <1>3, <1>4 DEF IsTable, S

(* Appending a row keeps the others where they are. *)
LEMMA AppendTable ==
  ASSUME NEW s, NEW r, IsTable(s), IsRow(r)
  PROVE  /\ IsTable(Append(s, r))
         /\ Len(Append(s, r)) = Len(s) + 1
         /\ DOMAIN Append(s, r) = 1 .. Len(s) + 1
         /\ \A i \in 1 .. Len(s) : Append(s, r)[i] = s[i]
         /\ Append(s, r)[Len(s) + 1] = r
  <1> DEFINE S == {s[i] : i \in DOMAIN s} \cup {r}
             n == Len(s)
             t == Append(s, r)
  <1>1. s \in Seq(S)
    BY SeqMonotonic, {s[i] : i \in DOMAIN s} \subseteq S DEF IsTable
  <1>2. r \in S
    OBVIOUS
  <1>3. n \in Nat /\ DOMAIN s = 1 .. n
    BY TableDomain
  <1> HIDE DEF S
  <1>4. /\ t \in Seq(S) /\ Len(t) = n + 1 /\ t[n + 1] = r
        /\ \A i \in 1 .. n : t[i] = s[i]
    BY <1>1, <1>2, AppendProperties
  <1> HIDE DEF t, n
  <1>5. t = [i \in 1 .. n + 1 |-> t[i]]
    BY <1>4, LenProperties
  <1>6. \A i \in 1 .. n + 1 : IsRow(t[i])
    BY <1>3, <1>4 DEF IsTable
  <1>7. IsTable(t)
    BY <1>3, <1>5, <1>6, TableOf
  <1> QED
    BY <1>4, <1>5, <1>7 DEF t, n

(* The table with r as its row i. *)
WithRow(s, i, r) == [s EXCEPT ![i] = r]

(* Overwriting a row keeps the others. *)
LEMMA ChangeTable ==
  ASSUME NEW s, NEW r, NEW i \in DOMAIN s, IsTable(s), IsRow(r)
  PROVE  LET t == WithRow(s, i, r)
         IN  /\ IsTable(t) /\ Len(t) = Len(s) /\ DOMAIN t = DOMAIN s
             /\ t[i] = r
             /\ \A j \in DOMAIN s \ {i} : t[j] = s[j]
  <1> DEFINE n == Len(s)
             t == WithRow(s, i, r)
  <1>1. n \in Nat /\ DOMAIN s = 1 .. n
    BY TableDomain
  <1>2. /\ DOMAIN t = 1 .. n /\ t = [j \in 1 .. n |-> t[j]]
        /\ t[i] = r /\ \A j \in 1 .. n \ {i} : t[j] = s[j]
    BY <1>1 DEF WithRow
  <1>3. \A j \in 1 .. n : IsRow(t[j])
    BY <1>1, <1>2 DEF IsTable
  <1> HIDE DEF t
  <1>4. IsTable(t) /\ Len(t) = n
    BY <1>1, <1>2, <1>3, TableOf
  <1> QED
    BY <1>1, <1>2, <1>4 DEF t

(* The table without row i. *)
Without(s, i) == SubSeq(s, 1, i - 1) \o SubSeq(s, i + 1, Len(s))

(* Deleting a row closes the rows up, with the indices they had. *)
LEMMA DeleteTable ==
  ASSUME NEW s, NEW i \in DOMAIN s, IsTable(s),
         NEW t, t = Without(s, i)
  PROVE  /\ IsTable(t) /\ Len(t) = Len(s) - 1 /\ DOMAIN t = 1 .. Len(s) - 1
         /\ \A j \in 1 .. Len(s) - 1 : t[j] = IF j < i THEN s[j] ELSE s[j + 1]
  <1> DEFINE S == {s[j] : j \in DOMAIN s}
             n == Len(s)
             a == SubSeq(s, 1, i - 1)
             b == SubSeq(s, i + 1, n)
  <1>1. n \in Nat /\ DOMAIN s = 1 .. n /\ i \in 1 .. n
    BY TableDomain
  <1>2. \A j \in 1 .. n : s[j] \in S
    BY <1>1
  <1> HIDE DEF S
  <1>3. /\ a \in Seq(S) /\ Len(a) = i - 1
        /\ \A j \in 1 .. i - 1 : a[j] = s[j]
    <2>1. \A j \in 1 .. i - 1 : s[j] \in S
      BY <1>1, <1>2
    <2>2. /\ SubSeq(s, 1, i - 1) \in Seq(S)
          /\ Len(SubSeq(s, 1, i - 1)) = IF 1 <= i - 1 THEN (i - 1) - 1 + 1 ELSE 0
          /\ \A j \in 1 .. (i - 1) - 1 + 1 : SubSeq(s, 1, i - 1)[j] = s[1 + j - 1]
      BY <1>1, <2>1, SubSeqProperties
    <2> QED
      BY <1>1, <2>2
  <1>4. /\ b \in Seq(S) /\ Len(b) = n - i
        /\ \A j \in 1 .. n - i : b[j] = s[i + j]
    <2>1. \A j \in i + 1 .. n : s[j] \in S
      BY <1>1, <1>2
    <2>2. /\ SubSeq(s, i + 1, n) \in Seq(S)
          /\ Len(SubSeq(s, i + 1, n)) = IF i + 1 <= n THEN n - (i + 1) + 1 ELSE 0
          /\ \A j \in 1 .. n - (i + 1) + 1 : SubSeq(s, i + 1, n)[j] = s[(i + 1) + j - 1]
      BY <1>1, <2>1, SubSeqProperties
    <2> QED
      BY <1>1, <2>2
  <1> HIDE DEF a, b, n
  <1>5. /\ t \in Seq(S) /\ Len(t) = Len(a) + Len(b)
        /\ \A j \in 1 .. Len(a) + Len(b) : t[j] = IF j <= Len(a) THEN a[j] ELSE b[j - Len(a)]
    <2>1. t = a \o b
      BY DEF a, b, n, Without
    <2> QED
      BY <1>3, <1>4, <2>1, ConcatProperties
  <1>6. Len(t) = n - 1 /\ n - 1 \in Nat
    BY <1>1, <1>3, <1>4, <1>5
  <1>7. \A j \in 1 .. n - 1 : t[j] = IF j < i THEN s[j] ELSE s[j + 1]
    <2> TAKE j \in 1 .. n - 1
    <2>1. t[j] = IF j <= i - 1 THEN a[j] ELSE b[j - (i - 1)]
      BY <1>1, <1>3, <1>4, <1>5
    <2>2. CASE j < i
      BY <1>1, <1>3, <2>1, <2>2
    <2>3. CASE ~(j < i)
      <3>1. j - (i - 1) \in 1 .. n - i /\ i + (j - (i - 1)) = j + 1
        BY <1>1, <2>3
      <3>2. t[j] = b[j - (i - 1)]
        BY <1>1, <2>1, <2>3
      <3>3. b[j - (i - 1)] = s[i + (j - (i - 1))]
        BY <1>4, <3>1
      <3> QED
        BY <2>3, <3>1, <3>2, <3>3
    <2> QED
      BY <2>2, <2>3
  <1>8. t = [j \in 1 .. n - 1 |-> t[j]]
    BY <1>5, <1>6, LenProperties
  <1>9. \A j \in 1 .. n - 1 : IsRow(t[j])
    BY <1>1, <1>7 DEF IsTable
  <1>10. IsTable(t)
    BY <1>6, <1>8, <1>9, TableOf
  <1> QED
    BY <1>6, <1>7, <1>8, <1>10 DEF n

-----------------------------------------------------------------------------
(* Rows and digests *)

(* What the writer appends is a row whose hash is its own. *)
LEMMA ChainedIsRow ==
  ASSUME NEW id, NEW index, NEW prev, NEW ref, NEW body
  PROVE  LET r == ChainedRow(id, index, prev, ref, body)
         IN  /\ IsRow(r) /\ compute_entry_hash(r) = r.entry_hash
             /\ r.chain_index = index /\ r.prev_hash = prev
  BY DEF ChainedRow, compute_entry_hash, CHAINED_FIELDS, IsRow

(* A row with one column overwritten. *)
LEMMA ColumnChanged ==
  ASSUME NEW r, IsRow(r), NEW x
  PROVE  /\ IsRow([r EXCEPT !.body = x])
         /\ IsRow([r EXCEPT !.entry_hash = x])
         /\ IsRow([r EXCEPT !.prev_hash = x])
         /\ IsRow([r EXCEPT !.chain_index = x])
  <1>1. DOMAIN r = {"activity_id", "chain_index", "ref_activity_id", "body",
                    "prev_hash", "entry_hash"}
    BY DEF IsRow
  <1>2. ASSUME NEW t, DOMAIN t = DOMAIN r, t = [f \in DOMAIN t |-> t[f]] PROVE IsRow(t)
    BY <1>1, <1>2 DEF IsRow
  <1>3. IsRow([r EXCEPT !.body = x])
    BY <1>2
  <1>4. IsRow([r EXCEPT !.entry_hash = x])
    BY <1>2
  <1>5. IsRow([r EXCEPT !.prev_hash = x])
    BY <1>2
  <1>6. IsRow([r EXCEPT !.chain_index = x])
    BY <1>2
  <1> QED
    BY <1>3, <1>4, <1>5, <1>6

(* Equal digests mean equal chained columns. *)
LEMMA HashBinds ==
  ASSUME NEW r, NEW t, compute_entry_hash(r) = compute_entry_hash(t)
  PROVE  /\ r.activity_id = t.activity_id /\ r.chain_index = t.chain_index
         /\ r.ref_activity_id = t.ref_activity_id /\ r.body = t.body
         /\ r.prev_hash = t.prev_hash
  <1> DEFINE a == [f \in CHAINED_FIELDS |-> r[f]]
             b == [f \in CHAINED_FIELDS |-> t[f]]
  <1>1. a = b
    <2>1. [sha256 |-> a].sha256 = [sha256 |-> b].sha256
      BY DEF compute_entry_hash
    <2> QED
      BY <2>1
  <1>2. \A f \in CHAINED_FIELDS : a[f] = r[f] /\ b[f] = t[f]
    OBVIOUS
  <1> HIDE DEF a, b
  <1>3. \A f \in CHAINED_FIELDS : r[f] = t[f]
    BY <1>1, <1>2
  <1> QED
    BY <1>3 DEF CHAINED_FIELDS

(* Two unbroken tables that agree on the hash of one row agree on every row  *)
(* up to it: each hash binds the one before.                                 *)
LEMMA HashBindsHistory ==
  ASSUME NEW s, NEW h, IsTable(s), IsTable(h), Unbroken(s), Unbroken(h),
         NEW n \in Nat, n <= Len(s), n <= Len(h),
         n # 0 => s[n].entry_hash = h[n].entry_hash
  PROVE  \A i \in 1 .. n : s[i] = h[i]
  <1>1. /\ Len(s) \in Nat /\ DOMAIN s = 1 .. Len(s)
        /\ Len(h) \in Nat /\ DOMAIN h = 1 .. Len(h)
    BY TableDomain
  <1>2. ASSUME NEW i \in 1 .. n, s[i].entry_hash = h[i].entry_hash
        PROVE  /\ s[i] = h[i]
               /\ i # 1 => s[i - 1].entry_hash = h[i - 1].entry_hash
    <2>1. i \in DOMAIN s /\ i \in DOMAIN h
      BY <1>1
    <2>2. ~Broken(s, i) /\ ~Broken(h, i) /\ IsRow(s[i]) /\ IsRow(h[i])
      BY <2>1 DEF Unbroken, IsTable
    <2>3. compute_entry_hash(s[i]) = compute_entry_hash(h[i])
      BY <1>2, <2>2 DEF Broken, HashMismatch
    <2>4. s[i] = h[i]
      BY <1>2, <2>2, <2>3, HashBinds DEF IsRow
    <2>5. i # 1 => s[i].prev_hash = s[i - 1].entry_hash /\ h[i].prev_hash = h[i - 1].entry_hash
      BY <2>2 DEF Broken, LinkMismatch
    <2> QED
      BY <2>4, <2>5
  <1> DEFINE wrong == {d \in 0 .. n - 1 : s[n - d].entry_hash # h[n - d].entry_hash}
  <1>3. wrong = {}
    <2> SUFFICES ASSUME wrong # {} PROVE FALSE
      OBVIOUS
    <2>0. wrong \subseteq 0 .. n - 1 /\ wrong \subseteq Nat
      OBVIOUS
    <2>1. PICK d \in wrong : \A e \in wrong : d <= e
      <3> HIDE DEF wrong
      <3> QED
        BY <2>0, LeastElement
    <2>2. d \in 1 .. n - 1
      OBVIOUS
    <2>3. d - 1 \notin wrong /\ d - 1 \in 0 .. n - 1
      <3>1. ~(d <= d - 1) /\ d - 1 \in 0 .. n - 1
        BY <2>2
      <3> HIDE DEF wrong
      <3> QED
        BY <2>1, <3>1
    <2> DEFINE i == n - (d - 1)
    <2>4. i \in 1 .. n /\ s[i].entry_hash = h[i].entry_hash /\ i # 1 /\ i - 1 = n - d
      BY <2>2, <2>3
    <2> HIDE DEF i
    <2>5. s[n - d].entry_hash = h[n - d].entry_hash
      BY <1>2, <2>4
    <2> QED
      BY <2>1, <2>5
  <1>4. ASSUME NEW i \in 1 .. n PROVE s[i] = h[i]
    <2>1. n - i \in 0 .. n - 1 /\ n - (n - i) = i
      OBVIOUS
    <2>2. s[i].entry_hash = h[i].entry_hash
      BY <1>3, <2>1
    <2> QED
      BY <1>2, <2>2
  <1> QED
    BY <1>4

-----------------------------------------------------------------------------
(* What verify_chain reports *)

(* The first broken position is the one reported. *)
LEMMA FirstBreakReported ==
  ASSUME NEW s, IsTable(s), NEW i \in DOMAIN s, Broken(s, i),
         \A j \in 1 .. i - 1 : ~Broken(s, j)
  PROVE  verify_chain(s) = [status |-> "BROKEN", checked |-> i - 1,
                            kind |-> BreakKind(s, i), chain_index |-> s[i].chain_index]
  <1> DEFINE bad == {j \in DOMAIN s : Broken(s, j)}
             first == CHOOSE j \in bad : \A k \in bad : j <= k
  <1>1. Len(s) \in Nat /\ DOMAIN s = 1 .. Len(s) /\ s # <<>>
    BY TableDomain
  <1>2. i \in bad /\ \A k \in bad : i <= k
    BY <1>1
  <1>3. bad \subseteq Nat
    BY <1>1
  <1> HIDE DEF bad
  <1>4. first = i
    <2>1. first \in bad /\ \A k \in bad : first <= k
      BY <1>2
    <2> HIDE DEF first
    <2>2. first <= i /\ i <= first /\ first \in Nat /\ i \in Nat
      BY <1>2, <1>3, <2>1
    <2> QED
      BY <2>2
  <1>5. verify_chain(s) = [status |-> "BROKEN", checked |-> first - 1,
                           kind |-> BreakKind(s, first), chain_index |-> s[first].chain_index]
    BY <1>1, <1>2 DEF verify_chain, bad
  <1> HIDE DEF first
  <1> QED
    BY <1>4, <1>5

(* A chain reported as broken has a first broken position. *)
LEMMA BrokenHasFirst ==
  ASSUME NEW s, IsTable(s), verify_chain(s).status = "BROKEN"
  PROVE  \E i \in DOMAIN s : Broken(s, i) /\ \A j \in 1 .. i - 1 : ~Broken(s, j)
  <1> DEFINE bad == {j \in DOMAIN s : Broken(s, j)}
  <1>1. Len(s) \in Nat /\ DOMAIN s = 1 .. Len(s)
    BY TableDomain
  <1>2. bad # {} /\ bad \subseteq Nat
    BY <1>1 DEF verify_chain
  <1>3. PICK i \in bad : \A k \in bad : i <= k
    BY <1>2, LeastElement
  <1>4. ASSUME NEW j \in 1 .. i - 1 PROVE ~Broken(s, j)
    BY <1>1, <1>3
  <1> QED
    BY <1>3, <1>4

(* A chain reported as valid is unbroken. *)
LEMMA ValidIsUnbroken ==
  ASSUME NEW s, verify_chain(s).status = "VALID"
  PROVE  Unbroken(s)
  BY DEF verify_chain, Unbroken

(* The three checks at a position look at its row and the one before. *)
LEMMA BrokenIsLocal ==
  ASSUME NEW s, NEW t, NEW i, t[i] = s[i],
         i # 1 => t[i - 1].entry_hash = s[i - 1].entry_hash
  PROVE  /\ Broken(t, i) <=> Broken(s, i)
         /\ BreakKind(t, i) = BreakKind(s, i)
  <1>1. /\ IndexGap(t, i) <=> IndexGap(s, i)
        /\ LinkMismatch(t, i) <=> LinkMismatch(s, i)
        /\ HashMismatch(t, i) <=> HashMismatch(s, i)
    BY DEF IndexGap, LinkMismatch, HashMismatch
  <1> QED
    BY <1>1 DEF Broken, BreakKind

(* A row more leaves a break where it was. *)
LEMMA AppendKeepsFirst ==
  ASSUME NEW s, NEW r, IsTable(s), IsRow(r), verify_chain(s).status = "BROKEN"
  PROVE  verify_chain(Append(s, r)) = verify_chain(s)
  <1> DEFINE t == Append(s, r)
  <1>1. /\ Len(s) \in Nat /\ DOMAIN s = 1 .. Len(s)
        /\ IsTable(t) /\ DOMAIN t = 1 .. Len(s) + 1
        /\ \A i \in 1 .. Len(s) : t[i] = s[i]
    BY TableDomain, AppendTable
  <1>2. PICK i \in DOMAIN s : Broken(s, i) /\ \A j \in 1 .. i - 1 : ~Broken(s, j)
    BY BrokenHasFirst
  <1> HIDE DEF t
  <1>3. \A j \in 1 .. i : /\ Broken(t, j) <=> Broken(s, j)
                          /\ BreakKind(t, j) = BreakKind(s, j)
    <2> TAKE j \in 1 .. i
    <2>1. t[j] = s[j] /\ (j # 1 => t[j - 1] = s[j - 1])
      BY <1>1
    <2> QED
      BY <2>1, BrokenIsLocal
  <1>4. i \in DOMAIN t /\ Broken(t, i) /\ \A j \in 1 .. i - 1 : ~Broken(t, j)
    BY <1>1, <1>2, <1>3
  <1>5. verify_chain(t) = [status |-> "BROKEN", checked |-> i - 1,
                           kind |-> BreakKind(t, i), chain_index |-> t[i].chain_index]
    BY <1>1, <1>4, FirstBreakReported
  <1>6. verify_chain(s) = [status |-> "BROKEN", checked |-> i - 1,
                           kind |-> BreakKind(s, i), chain_index |-> s[i].chain_index]
    BY <1>2, FirstBreakReported
  <1>7. t[i] = s[i] /\ BreakKind(t, i) = BreakKind(s, i)
    BY <1>1, <1>3
  <1> QED
    BY <1>5, <1>6, <1>7 DEF t

-----------------------------------------------------------------------------
(* What one or two changes do to an unbroken table *)

(* A row with another body. *)
WithBody(r, b) == [r EXCEPT !.body = b]

(* Row i of h with another body, and nothing else changed up to h's length. *)
EditedAt(s, h, i) ==
    /\ i \in DOMAIN h /\ Len(s) >= Len(h)
    /\ \A j \in DOMAIN h \ {i} : s[j] = h[j]
    /\ s[i] = WithBody(h[i], s[i].body)
    /\ s[i].body # h[i].body

(* The columns of an edited row. *)
LEMMA EditedColumns ==
  ASSUME NEW r, NEW b, IsRow(r)
  PROVE  LET t == WithBody(r, b)
         IN  /\ IsRow(t)
             /\ t.body = b /\ t.chain_index = r.chain_index
             /\ t.prev_hash = r.prev_hash /\ t.entry_hash = r.entry_hash
             /\ b = r.body => t = r
  <1>1. DOMAIN r = {"activity_id", "chain_index", "ref_activity_id", "body",
                    "prev_hash", "entry_hash"}
    BY DEF IsRow
  <1> QED
    BY <1>1, ColumnChanged DEF IsRow, WithBody

(* An edit that changes the table changes the body of its row. *)
LEMMA EditEdits ==
  ASSUME NEW h, IsTable(h), NEW i \in DOMAIN h, NEW b, NEW s,
         s = WithRow(h, i, WithBody(h[i], b)), s # h
  PROVE  IsTable(s) /\ EditedAt(s, h, i)
  <1> DEFINE r == WithBody(h[i], b)
  <1>1. IsRow(h[i]) /\ Len(h) \in Nat /\ DOMAIN h = 1 .. Len(h)
    BY TableDomain DEF IsTable
  <1>3. IsRow(r) /\ r.body = b /\ (b = h[i].body => r = h[i])
    BY <1>1, EditedColumns
  <1>4. s = WithRow(h, i, r)
    OBVIOUS
  <1>5. r # h[i]
    <2> HIDE DEF r
    <2>1. h = [j \in DOMAIN h |-> h[j]]
      BY <1>1, LenProperties DEF IsTable
    <2> QED
      BY <1>4, <2>1 DEF WithRow
  <1>6. r = WithBody(h[i], r.body)
    BY <1>3
  <1> HIDE DEF r
  <1>7. /\ IsTable(s) /\ Len(s) = Len(h) /\ DOMAIN s = DOMAIN h
        /\ s[i] = r /\ \A j \in DOMAIN h \ {i} : s[j] = h[j]
    BY <1>3, <1>4, ChangeTable
  <1> QED
    BY <1>1, <1>3, <1>5, <1>6, <1>7 DEF EditedAt

(* An edited row no longer has the hash it carries. *)
LEMMA EditBreaks ==
  ASSUME NEW h, IsTable(h), Unbroken(h), NEW s, IsTable(s), NEW i, EditedAt(s, h, i)
  PROVE  verify_chain(s) = [status |-> "BROKEN", checked |-> i - 1,
                            kind |-> "HASH_MISMATCH", chain_index |-> i - 1]
  <1>1. /\ Len(h) \in Nat /\ DOMAIN h = 1 .. Len(h) /\ i \in 1 .. Len(h)
        /\ Len(s) \in Nat /\ DOMAIN s = 1 .. Len(s) /\ i \in DOMAIN s
    BY TableDomain DEF EditedAt
  <1>2. /\ s[i].chain_index = h[i].chain_index /\ s[i].prev_hash = h[i].prev_hash
        /\ s[i].entry_hash = h[i].entry_hash /\ s[i].body # h[i].body
    <2>1. IsRow(h[i]) /\ s[i] = WithBody(h[i], s[i].body) /\ s[i].body # h[i].body
      BY DEF EditedAt, IsTable
    <2> QED
      BY <2>1, EditedColumns
  <1>3. \A j \in 1 .. i - 1 : s[j] = h[j]
    BY <1>1 DEF EditedAt
  <1>4. ASSUME NEW j \in 1 .. i - 1 PROVE ~Broken(s, j)
    <2>1. s[j] = h[j] /\ (j # 1 => s[j - 1] = h[j - 1]) /\ ~Broken(h, j)
      BY <1>1, <1>3 DEF Unbroken
    <2> QED
      BY <2>1, BrokenIsLocal
  <1>5. ~IndexGap(h, i) /\ ~LinkMismatch(h, i) /\ ~HashMismatch(h, i)
    BY <1>1 DEF Unbroken, Broken
  <1>6. ~IndexGap(s, i) /\ s[i].chain_index = i - 1
    BY <1>2, <1>5 DEF IndexGap
  <1>7. ~LinkMismatch(s, i)
    <2>1. i # 1 => s[i - 1] = h[i - 1]
      BY <1>1, <1>3
    <2> QED
      BY <1>2, <1>5, <2>1 DEF LinkMismatch
  <1>8. HashMismatch(s, i)
    <2>1. compute_entry_hash(s[i]) # compute_entry_hash(h[i])
      BY <1>2, HashBinds
    <2> QED
      BY <1>2, <1>5, <2>1 DEF HashMismatch
  <1>9. Broken(s, i) /\ BreakKind(s, i) = "HASH_MISMATCH"
    BY <1>6, <1>7, <1>8 DEF Broken, BreakKind
  <1> QED
    BY <1>1, <1>4, <1>6, <1>9, FirstBreakReported

(* A row missing before the last leaves a gap in the indices. *)
LEMMA DeleteBreaks ==
  ASSUME NEW h, IsTable(h), Unbroken(h), NEW i \in DOMAIN h, i < Len(h), NEW s, s = Without(h, i)
  PROVE  verify_chain(s) = [status |-> "BROKEN", checked |-> i - 1,
                            kind |-> "INDEX_GAP", chain_index |-> i]
  <1>1. Len(h) \in Nat /\ DOMAIN h = 1 .. Len(h) /\ i \in 1 .. Len(h)
    BY TableDomain
  <1>2. /\ IsTable(s) /\ DOMAIN s = 1 .. Len(h) - 1
        /\ \A j \in 1 .. Len(h) - 1 : s[j] = IF j < i THEN h[j] ELSE h[j + 1]
    BY DeleteTable
  <1>a. /\ \A j \in 1 .. i - 1 : s[j] = h[j]
        /\ s[i] = h[i + 1] /\ i \in 1 .. Len(h) - 1
    <2>1. ASSUME NEW j \in 1 .. i - 1 PROVE s[j] = h[j]
      <3>1. j \in 1 .. Len(h) - 1 /\ j < i
        BY <1>1
      <3> QED
        BY <1>2, <3>1
    <2>2. i \in 1 .. Len(h) - 1 /\ ~(i < i)
      BY <1>1
    <2> QED
      BY <1>2, <2>1, <2>2
  <1>3. ASSUME NEW j \in 1 .. i - 1 PROVE ~Broken(s, j)
    <2>1. s[j] = h[j] /\ (j # 1 => s[j - 1] = h[j - 1])
      BY <1>1, <1>a
    <2>2. ~Broken(h, j)
      BY <1>1 DEF Unbroken
    <2> QED
      BY <2>1, <2>2, BrokenIsLocal
  <1>4. s[i].chain_index = i
    <2>1. ~Broken(h, i + 1) /\ (i + 1) - 1 = i
      BY <1>1 DEF Unbroken
    <2>2. h[i + 1].chain_index = i
      BY <2>1 DEF Broken, IndexGap
    <2> QED
      BY <1>a, <2>2
  <1>5. Broken(s, i) /\ BreakKind(s, i) = "INDEX_GAP"
    <2>1. IndexGap(s, i)
      BY <1>1, <1>4 DEF IndexGap
    <2> QED
      BY <2>1 DEF Broken, BreakKind
  <1>6. i \in DOMAIN s
    BY <1>2, <1>a
  <1> QED
    BY <1>2, <1>3, <1>4, <1>5, <1>6, FirstBreakReported

(* A row with its hash recomputed. *)
WithOwnHash(r) == [r EXCEPT !.entry_hash = compute_entry_hash(r)]

(* An edited row that is re-hashed is no longer the one its successor links. *)
LEMMA RehashBreaks ==
  ASSUME NEW h, IsTable(h), Unbroken(h), NEW s, IsTable(s), NEW i, EditedAt(s, h, i),
         i < Len(h), NEW t, t = WithRow(s, i, WithOwnHash(s[i]))
  PROVE  verify_chain(t) = [status |-> "BROKEN", checked |-> i,
                            kind |-> "LINK_MISMATCH", chain_index |-> i]
  <1> DEFINE r == WithOwnHash(s[i])
             k == i + 1
  <1>1. /\ Len(h) \in Nat /\ DOMAIN h = 1 .. Len(h) /\ i \in 1 .. Len(h)
        /\ Len(s) \in Nat /\ DOMAIN s = 1 .. Len(s) /\ i \in DOMAIN s
        /\ k \in DOMAIN s /\ k \in DOMAIN h /\ IsRow(s[i]) /\ IsRow(h[i])
    BY TableDomain DEF EditedAt, IsTable
  <1>2. /\ s[i].chain_index = h[i].chain_index /\ s[i].prev_hash = h[i].prev_hash
        /\ s[i].body # h[i].body
    <2>1. s[i] = WithBody(h[i], s[i].body) /\ s[i].body # h[i].body
      BY DEF EditedAt
    <2> QED
      BY <1>1, <2>1, EditedColumns
  <1>3. /\ IsRow(r) /\ r.entry_hash = compute_entry_hash(s[i])
        /\ r.chain_index = s[i].chain_index /\ r.prev_hash = s[i].prev_hash
        /\ compute_entry_hash(r) = compute_entry_hash(s[i])
    <2>1. IsRow(r)
      BY <1>1, ColumnChanged DEF WithOwnHash
    <2>2. DOMAIN s[i] = {"activity_id", "chain_index", "ref_activity_id", "body",
                         "prev_hash", "entry_hash"}
      BY <1>1 DEF IsRow
    <2>3. \A f \in CHAINED_FIELDS : r[f] = s[i][f]
      BY <2>2 DEF CHAINED_FIELDS, WithOwnHash
    <2>4. r.entry_hash = compute_entry_hash(s[i])
      BY <2>2 DEF WithOwnHash
    <2> HIDE DEF r
    <2>5. compute_entry_hash(r) = compute_entry_hash(s[i])
      BY <2>3 DEF compute_entry_hash
    <2> QED
      BY <2>1, <2>3, <2>4, <2>5 DEF CHAINED_FIELDS
  <1>4. t = WithRow(s, i, r)
    OBVIOUS
  <1> HIDE DEF r
  <1>5. /\ IsTable(t) /\ DOMAIN t = DOMAIN s /\ t[i] = r
        /\ \A j \in DOMAIN s \ {i} : t[j] = s[j]
    <2>1. i \in DOMAIN s /\ IsRow(r) /\ IsTable(s)
      BY <1>1, <1>3
    <2> QED
      BY <1>4, <2>1, ChangeTable
  <1>6. \A j \in 1 .. Len(h) : j # i => t[j] = h[j]
    BY <1>1, <1>5 DEF EditedAt
  <1>7. ASSUME NEW j \in 1 .. i - 1 PROVE ~Broken(t, j)
    <2>1. t[j] = h[j] /\ (j # 1 => t[j - 1] = h[j - 1]) /\ ~Broken(h, j)
      BY <1>1, <1>6 DEF Unbroken
    <2> QED
      BY <2>1, BrokenIsLocal
  <1>8. ~Broken(t, i)
    <2>1. ~IndexGap(h, i) /\ ~LinkMismatch(h, i)
      BY <1>1 DEF Unbroken, Broken
    <2>2. i # 1 => t[i - 1] = h[i - 1]
      BY <1>1, <1>6
    <2>3. ~IndexGap(t, i)
      BY <1>2, <1>3, <1>5, <2>1 DEF IndexGap
    <2>4. ~LinkMismatch(t, i)
      BY <1>2, <1>3, <1>5, <2>1, <2>2 DEF LinkMismatch
    <2>5. ~HashMismatch(t, i)
      BY <1>3, <1>5 DEF HashMismatch
    <2> QED
      BY <2>3, <2>4, <2>5 DEF Broken
  <1>9. Broken(t, k) /\ BreakKind(t, k) = "LINK_MISMATCH" /\ t[k].chain_index = i
    <2>1. t[k] = h[k] /\ k # 1 /\ k - 1 = i
      BY <1>1, <1>6
    <2>2. ~IndexGap(h, k) /\ ~LinkMismatch(h, k) /\ ~HashMismatch(h, i)
      BY <1>1 DEF Unbroken, Broken
    <2>3. t[k].prev_hash = h[i].entry_hash /\ h[i].entry_hash = compute_entry_hash(h[i])
      BY <2>1, <2>2 DEF LinkMismatch, HashMismatch
    <2>4. t[i].entry_hash # h[i].entry_hash
      BY <1>2, <1>3, <1>5, <2>3, HashBinds
    <2> HIDE DEF k
    <2>5. LinkMismatch(t, k) /\ ~IndexGap(t, k) /\ t[k].chain_index = i
      BY <2>1, <2>2, <2>3, <2>4 DEF LinkMismatch, IndexGap
    <2> QED
      BY <2>1, <2>5 DEF Broken, BreakKind
  <1>10. \A j \in 1 .. k - 1 : ~Broken(t, j)
    <2> TAKE j \in 1 .. k - 1
    <2>1. j = i \/ j \in 1 .. i - 1
      BY <1>1
    <2> QED
      BY <1>7, <1>8, <2>1
  <1>11. k \in DOMAIN t /\ k - 1 = i
    BY <1>1, <1>5
  <1> HIDE DEF k
  <1>12. verify_chain(t) = [status |-> "BROKEN", checked |-> k - 1,
                            kind |-> BreakKind(t, k), chain_index |-> t[k].chain_index]
    BY <1>5, <1>9, <1>10, <1>11, FirstBreakReported
  <1> QED
    BY <1>9, <1>11, <1>12

-----------------------------------------------------------------------------
(* The invariant *)

Changes == [op : {"edit", "rehash", "relink", "renumber", "delete"}, at : Nat]

EditedOnly == Len(tampers) = 1 /\ tampers[1].op = "edit" =>
                  EditedAt(rows, honest, tampers[1].at)

TypeInv == IsTable(rows) /\ IsTable(honest) /\ tampers \in Seq(Changes)

IndInv == /\ TypeInv
          /\ Unbroken(honest)
          /\ tampers = <<>> => rows = honest
          /\ EditedOnly
          /\ BreakLocated

(* BreakLocated, clause by clause. *)
BrokenAt(checked, kind, index) ==
    verdict = [status |-> "BROKEN", checked |-> checked, kind |-> kind, chain_index |-> index]

EditLocated == Len(tampers) = 1 /\ tampers[1].op = "edit" =>
    BrokenAt(tampers[1].at - 1, "HASH_MISMATCH", tampers[1].at - 1)

DeleteLocated ==
    Len(tampers) = 1 /\ tampers[1].op = "delete" /\ tampers[1].at < Len(honest) =>
        BrokenAt(tampers[1].at - 1, "INDEX_GAP", tampers[1].at)

RehashLocated ==
    Len(tampers) = 2 /\ tampers[1] = [op |-> "edit", at |-> tampers[2].at]
    /\ tampers[2].op = "rehash" /\ tampers[1].at < Len(honest) =>
        BrokenAt(tampers[1].at, "LINK_MISMATCH", tampers[1].at)

LEMMA BreakLocatedParts == BreakLocated <=> EditLocated /\ DeleteLocated /\ RehashLocated
  BY DEF BreakLocated, EditLocated, DeleteLocated, RehashLocated, BrokenAt

(* The writer's append on an honest file keeps the chain unbroken. *)
LEMMA AppendUnbroken ==
  ASSUME NEW s, IsTable(s), Unbroken(s), NEW r, IsRow(r),
         r.chain_index = HeadOf(s).index, r.prev_hash = HeadOf(s).prev,
         compute_entry_hash(r) = r.entry_hash
  PROVE  Unbroken(Append(s, r))
  <1> DEFINE t == Append(s, r)
             n == Len(s)
  <1>1. /\ n \in Nat /\ DOMAIN s = 1 .. n /\ DOMAIN t = 1 .. n + 1
        /\ t[n + 1] = r
        /\ \A i \in 1 .. n : t[i] = s[i]
    BY TableDomain, AppendTable
  <1>2. /\ r.chain_index = n
        /\ r.prev_hash = IF n = 0 THEN GENESIS_PREV_HASH ELSE s[n].entry_hash
    <2>1. CASE n = 0
      BY <2>1, TableDomain DEF HeadOf
    <2>2. CASE n # 0
      <3>1. n \in DOMAIN s /\ s # <<>>
        BY <1>1, <2>2, TableDomain
      <3>2. s[n].chain_index = n - 1
        BY <3>1 DEF Unbroken, Broken, IndexGap
      <3> QED
        BY <1>1, <2>2, <3>1, <3>2 DEF HeadOf
    <2> QED
      BY <2>1, <2>2
  <1> HIDE DEF t, n
  <1>3. ASSUME NEW i \in 1 .. n PROVE ~Broken(t, i)
    <2>1. ~Broken(s, i) /\ t[i] = s[i] /\ (i # 1 => t[i - 1] = s[i - 1])
      BY <1>1 DEF Unbroken
    <2> QED
      BY <2>1, BrokenIsLocal
  <1>4. ~Broken(t, n + 1)
    <2>1. ~IndexGap(t, n + 1) /\ ~HashMismatch(t, n + 1)
      BY <1>1, <1>2 DEF IndexGap, HashMismatch
    <2>2. ~LinkMismatch(t, n + 1)
      <3>1. n # 0 => t[n] = s[n]
        BY <1>1
      <3> QED
        BY <1>1, <1>2, <3>1 DEF LinkMismatch
    <2> QED
      BY <2>1, <2>2 DEF Broken
  <1> QED
    BY <1>1, <1>3, <1>4 DEF Unbroken, t

LEMMA InitInv == Init => IndInv
  <1> SUFFICES ASSUME Init PROVE IndInv
    OBVIOUS
  <1>1. rows = <<>> /\ honest = <<>> /\ tampers = <<>>
    BY DEF Init
  <1>2. IsTable(<<>>) /\ Unbroken(<<>>)
    <2>1. DOMAIN <<>> = {}
      OBVIOUS
    <2> QED
      BY <2>1, EmptySeq DEF IsTable, Unbroken
  <1>3. tampers \in Seq(Changes) /\ Len(tampers) = 0
    BY <1>1
  <1>4. EditedOnly /\ BreakLocated
    BY <1>3 DEF EditedOnly, BreakLocated
  <1> QED
    BY <1>1, <1>2, <1>3, <1>4 DEF IndInv, TypeInv

(* What the writer appends. *)
LEMMA WriteAppends ==
  ASSUME NEW body, Write(body)
  PROVE  \E r : /\ rows' = Append(rows, r) /\ IsRow(r)
                /\ compute_entry_hash(r) = r.entry_hash
                /\ r.chain_index = HeadOf(rows).index /\ r.prev_hash = HeadOf(rows).prev
  <1> DEFINE r == ChainedRow(nextId, HeadOf(rows).index, HeadOf(rows).prev, NULL, body)
  <1>1. rows' = Append(rows, r)
    BY DEF Write
  <1>2. /\ IsRow(r) /\ compute_entry_hash(r) = r.entry_hash
        /\ r.chain_index = HeadOf(rows).index /\ r.prev_hash = HeadOf(rows).prev
    BY ChainedIsRow
  <1> HIDE DEF r
  <1> QED
    BY <1>1, <1>2

LEMMA WriteInv ==
  ASSUME IndInv, NEW body, Write(body)
  PROVE  IndInv'
  <1>1. PICK r : /\ rows' = Append(rows, r) /\ IsRow(r)
                 /\ compute_entry_hash(r) = r.entry_hash
                 /\ r.chain_index = HeadOf(rows).index /\ r.prev_hash = HeadOf(rows).prev
    BY WriteAppends
  <1>2. /\ tampers' = tampers
        /\ honest' = IF tampers = <<>> THEN rows' ELSE honest
    BY DEF Write
  <1>3. IsTable(rows) /\ IsTable(honest) /\ tampers \in Seq(Changes) /\ Unbroken(honest)
    BY DEF IndInv, TypeInv
  <1>4. IsTable(Append(rows, r))
    BY <1>1, <1>3, AppendTable
  <1>5. CASE tampers = <<>>
    <2>1. honest' = Append(rows, r) /\ Unbroken(rows) /\ Len(tampers) = 0
      BY <1>1, <1>2, <1>3, <1>5 DEF IndInv
    <2>2. Unbroken(Append(rows, r))
      BY <1>1, <1>3, <2>1, AppendUnbroken
    <2>3. (EditedOnly /\ BreakLocated)'
      BY <1>2, <2>1 DEF EditedOnly, BreakLocated
    <2> QED
      BY <1>1, <1>2, <1>3, <1>4, <2>1, <2>2, <2>3 DEF IndInv, TypeInv
  <1>6. CASE tampers # <<>>
    <2>1. honest' = honest
      BY <1>2, <1>6
    <2>2. \A checked, kind, index : BrokenAt(checked, kind, index) => BrokenAt(checked, kind, index)'
      <3> SUFFICES ASSUME verdict.status = "BROKEN" PROVE verdict' = verdict
        BY DEF BrokenAt
      <3> QED
        BY <1>1, <1>3, AppendKeepsFirst DEF verdict
    <2>3. BreakLocated'
      <3>1. EditLocated /\ DeleteLocated /\ RehashLocated
        BY BreakLocatedParts DEF IndInv
      <3>2. EditLocated' /\ DeleteLocated' /\ RehashLocated'
        BY <1>2, <2>1, <2>2, <3>1 DEF EditLocated, DeleteLocated, RehashLocated
      <3> QED
        BY <3>2, BreakLocatedParts, PTL
    <2>4. EditedOnly'
      <3> SUFFICES ASSUME NEW i, EditedAt(rows, honest, i)
                   PROVE  EditedAt(Append(rows, r), honest, i)
        BY <1>1, <1>2, <2>1 DEF IndInv, EditedOnly
      <3>1. /\ Len(rows) \in Nat /\ Len(honest) \in Nat /\ DOMAIN honest = 1 .. Len(honest)
            /\ Len(Append(rows, r)) = Len(rows) + 1
            /\ \A j \in 1 .. Len(rows) : Append(rows, r)[j] = rows[j]
        BY <1>1, <1>3, TableDomain, AppendTable
      <3> DEFINE t == Append(rows, r)
      <3> HIDE DEF t
      <3>2. /\ Len(t) >= Len(honest)
            /\ \A j \in DOMAIN honest : t[j] = rows[j]
        BY <3>1 DEF EditedAt, t
      <3>3. EditedAt(t, honest, i)
        BY <3>2 DEF EditedAt
      <3> QED
        BY <3>3 DEF t
    <2> QED
      BY <1>1, <1>2, <1>3, <1>4, <1>6, <2>1, <2>3, <2>4 DEF IndInv, TypeInv
  <1> QED
    BY <1>5, <1>6

(* Whatever is changed is a table still. *)
LEMMA TamperTables ==
  ASSUME IsTable(rows), NEW i \in DOMAIN rows, NEW body
  PROVE  /\ [rows EXCEPT ![i].body = body] = WithRow(rows, i, WithBody(rows[i], body))
         /\ [rows EXCEPT ![i].entry_hash = compute_entry_hash(rows[i])]
               = WithRow(rows, i, WithOwnHash(rows[i]))
         /\ IsTable([rows EXCEPT ![i].body = body])
         /\ IsTable([rows EXCEPT ![i].entry_hash = body])
         /\ IsTable([rows EXCEPT ![i].prev_hash = body])
         /\ IsTable([rows EXCEPT ![i].chain_index = body])
         /\ IsTable(SubSeq(rows, 1, i - 1) \o SubSeq(rows, i + 1, Len(rows)))
  <1>1. /\ [rows EXCEPT ![i].body = body] = WithRow(rows, i, [rows[i] EXCEPT !.body = body])
        /\ [rows EXCEPT ![i].entry_hash = body]
              = WithRow(rows, i, [rows[i] EXCEPT !.entry_hash = body])
        /\ [rows EXCEPT ![i].prev_hash = body]
              = WithRow(rows, i, [rows[i] EXCEPT !.prev_hash = body])
        /\ [rows EXCEPT ![i].chain_index = body]
              = WithRow(rows, i, [rows[i] EXCEPT !.chain_index = body])
    BY DEF WithRow
  <1>2. [rows EXCEPT ![i].body = body] = WithRow(rows, i, WithBody(rows[i], body))
    BY <1>1 DEF WithBody
  <1>3. [rows EXCEPT ![i].entry_hash = compute_entry_hash(rows[i])]
          = WithRow(rows, i, WithOwnHash(rows[i]))
    BY DEF WithRow, WithOwnHash
  <1>4. IsRow(rows[i])
    BY DEF IsTable
  <1>5. /\ IsRow([rows[i] EXCEPT !.body = body])
        /\ IsRow([rows[i] EXCEPT !.entry_hash = body])
        /\ IsRow([rows[i] EXCEPT !.prev_hash = body])
        /\ IsRow([rows[i] EXCEPT !.chain_index = body])
    BY <1>4, ColumnChanged
  <1>6. \A r : IsRow(r) => IsTable(WithRow(rows, i, r))
    BY ChangeTable
  <1>7. IsTable(SubSeq(rows, 1, i - 1) \o SubSeq(rows, i + 1, Len(rows)))
    <2>1. IsTable(Without(rows, i))
      BY DeleteTable
    <2> QED
      BY <2>1 DEF Without
  <1>8. /\ IsTable([rows EXCEPT ![i].body = body])
        /\ IsTable([rows EXCEPT ![i].entry_hash = body])
    BY <1>1, <1>5, <1>6
  <1>9. /\ IsTable([rows EXCEPT ![i].prev_hash = body])
        /\ IsTable([rows EXCEPT ![i].chain_index = body])
    BY <1>1, <1>5, <1>6
  <1> QED
    BY <1>2, <1>3, <1>7, <1>8, <1>9

(* A change to the file: what it leaves, and what verify_chain says of it. *)
LEMMA TamperInv ==
  ASSUME IndInv, NEW op, NEW i \in DOMAIN rows, NEW changed, Tamper(op, i, changed),
         op \in {"edit", "rehash", "relink", "renumber", "delete"},
         IsTable(changed),
         op = "edit" => \E b : changed = WithRow(rows, i, WithBody(rows[i], b)),
         op = "rehash" => changed = WithRow(rows, i, WithOwnHash(rows[i])),
         op = "delete" => changed = Without(rows, i)
  PROVE  IndInv'
  <1> DEFINE c == [op |-> op, at |-> i]
             n == Len(tampers)
  <1>1. /\ rows' = changed /\ changed # rows /\ honest' = honest
        /\ tampers' = Append(tampers, c)
    BY DEF Tamper
  <1>2. /\ IsTable(rows) /\ IsTable(honest) /\ tampers \in Seq(Changes) /\ Unbroken(honest)
        /\ DOMAIN rows = 1 .. Len(rows) /\ Len(rows) \in Nat
    BY TableDomain DEF IndInv, TypeInv
  <1>3. c \in Changes
    BY <1>2 DEF Changes
  <1>4. c.op = op /\ c.at = i
    OBVIOUS
  <1>5. /\ n \in Nat /\ (n = 0 => tampers = <<>>)
        /\ tampers' \in Seq(Changes) /\ Len(tampers') = n + 1
        /\ tampers'[n + 1] = c
        /\ \A j \in 1 .. n : tampers'[j] = tampers[j]
    <2> HIDE DEF c
    <2> QED
      BY <1>1, <1>2, <1>3
  <1> HIDE DEF c, n
  <1>6. tampers' # <<>>
    BY <1>5
  <1>7. CASE n = 0
    <2>1. tampers = <<>> /\ rows = honest /\ tampers'[1] = c /\ Len(tampers') = 1
      BY <1>5, <1>7 DEF IndInv
    <2>2. ASSUME op = "edit"
          PROVE  /\ EditedAt(changed, honest, i)
                 /\ verify_chain(changed) = [status |-> "BROKEN", checked |-> i - 1,
                                             kind |-> "HASH_MISMATCH", chain_index |-> i - 1]
      <3>1. PICK b : changed = WithRow(honest, i, WithBody(honest[i], b))
        BY <2>1, <2>2
      <3>2. EditedAt(changed, honest, i)
        BY <1>1, <1>2, <2>1, <3>1, EditEdits
      <3> QED
        BY <1>2, <3>2, EditBreaks
    <2>3. ASSUME op = "delete", i < Len(honest)
          PROVE  verify_chain(changed) = [status |-> "BROKEN", checked |-> i - 1,
                                          kind |-> "INDEX_GAP", chain_index |-> i]
      BY <1>2, <2>1, <2>3, DeleteBreaks
    <2>4. EditedOnly'
      BY <1>1, <1>4, <2>1, <2>2 DEF EditedOnly
    <2>5. EditLocated' /\ DeleteLocated' /\ RehashLocated'
      BY <1>1, <1>4, <2>1, <2>2, <2>3
         DEF EditLocated, DeleteLocated, RehashLocated, BrokenAt, verdict
    <2>6. BreakLocated'
      BY <2>5, BreakLocatedParts, PTL
    <2> QED
      BY <1>1, <1>2, <1>5, <1>6, <2>4, <2>6 DEF IndInv, TypeInv
  <1>8. CASE n = 1
    <2>1. tampers'[1] = tampers[1] /\ tampers'[2] = c /\ Len(tampers') = 2
      BY <1>5, <1>8
    <2>2. ASSUME tampers[1] = [op |-> "edit", at |-> i], op = "rehash", i < Len(honest)
          PROVE  verify_chain(changed) = [status |-> "BROKEN", checked |-> i,
                                          kind |-> "LINK_MISMATCH", chain_index |-> i]
      <3>1. EditedAt(rows, honest, i)
        BY <1>8, <2>2 DEF IndInv, EditedOnly, n
      <3> QED
        BY <1>2, <2>2, <3>1, RehashBreaks
    <2>3. EditedOnly' /\ EditLocated' /\ DeleteLocated'
      BY <2>1 DEF EditedOnly, EditLocated, DeleteLocated
    <2>4. RehashLocated'
      <3> SUFFICES ASSUME tampers[1] = [op |-> "edit", at |-> i], op = "rehash",
                          tampers[1].at < Len(honest)
                   PROVE  BrokenAt(tampers[1].at, "LINK_MISMATCH", tampers[1].at)'
        BY <1>1, <1>4, <2>1 DEF RehashLocated, BrokenAt
      <3>1. tampers[1].at = i
        OBVIOUS
      <3>2. tampers'[1].at = i
        BY <2>1, <3>1
      <3> QED
        BY <1>1, <2>2, <3>1, <3>2 DEF BrokenAt, verdict
    <2>5. BreakLocated'
      BY <2>3, <2>4, BreakLocatedParts, PTL
    <2> QED
      BY <1>1, <1>2, <1>5, <1>6, <2>3, <2>5 DEF IndInv, TypeInv
  <1>9. CASE n # 0 /\ n # 1
    <2>1. Len(tampers') # 1 /\ Len(tampers') # 2
      BY <1>5, <1>9
    <2>2. EditedOnly' /\ BreakLocated'
      BY <2>1 DEF EditedOnly, BreakLocated
    <2> QED
      BY <1>1, <1>2, <1>5, <1>6, <2>2 DEF IndInv, TypeInv
  <1> QED
    BY <1>7, <1>8, <1>9

LEMMA NextInv == IndInv /\ [Next]_vars => IndInv'
  <1> SUFFICES ASSUME IndInv, [Next]_vars PROVE IndInv'
    OBVIOUS
  <1>1. CASE UNCHANGED vars
    BY <1>1 DEF vars, IndInv, TypeInv, EditedOnly, BreakLocated, verdict
  <1>2. ASSUME NEW body \in Bodies, Write(body) PROVE IndInv'
    BY <1>2, WriteInv
  <1>3. IsTable(rows)
    BY DEF IndInv, TypeInv
  <1>4. ASSUME NEW i \in DOMAIN rows, NEW body \in Bodies, Edit(i, body) PROVE IndInv'
    <2> DEFINE changed == [rows EXCEPT ![i].body = body]
    <2>1. IsTable(changed) /\ changed = WithRow(rows, i, WithBody(rows[i], body))
      BY <1>3, TamperTables
    <2>2. Tamper("edit", i, changed)
      BY <1>4 DEF Edit
    <2> HIDE DEF changed
    <2> QED
      BY <2>1, <2>2, TamperInv
  <1>5. ASSUME NEW i \in DOMAIN rows, Rehash(i) PROVE IndInv'
    <2> DEFINE changed == [rows EXCEPT ![i].entry_hash = compute_entry_hash(rows[i])]
    <2>1. IsTable(changed) /\ changed = WithRow(rows, i, WithOwnHash(rows[i]))
      BY <1>3, TamperTables
    <2>2. Tamper("rehash", i, changed)
      BY <1>5 DEF Rehash
    <2> HIDE DEF changed
    <2> QED
      BY <2>1, <2>2, TamperInv
  <1>6. ASSUME NEW i \in DOMAIN rows, Relink(i) PROVE IndInv'
    <2> DEFINE prev == IF i = 1 THEN GENESIS_PREV_HASH ELSE rows[i - 1].entry_hash
               changed == [rows EXCEPT ![i].prev_hash = prev]
    <2>1. Tamper("relink", i, changed)
      BY <1>6 DEF Relink
    <2>2. IsTable(changed)
      <3> HIDE DEF prev
      <3> QED
        BY <1>3, TamperTables
    <2> HIDE DEF changed
    <2> QED
      BY <2>1, <2>2, TamperInv
  <1>7. ASSUME NEW i \in DOMAIN rows, Renumber(i) PROVE IndInv'
    <2> DEFINE changed == [rows EXCEPT ![i].chain_index = i - 1]
    <2>1. Tamper("renumber", i, changed)
      BY <1>7 DEF Renumber
    <2>2. IsTable(changed)
      BY <1>3, TamperTables
    <2> HIDE DEF changed
    <2> QED
      BY <2>1, <2>2, TamperInv
  <1>8. ASSUME NEW i \in DOMAIN rows, Delete(i) PROVE IndInv'
    <2>1. Tamper("delete", i, Without(rows, i))
      BY <1>8 DEF Delete, Without
    <2>2. IsTable(Without(rows, i))
      BY <1>3, TamperTables DEF Without
    <2> QED
      BY <2>1, <2>2, TamperInv
  <1> QED
    BY <1>1, <1>2, <1>4, <1>5, <1>6, <1>7, <1>8 DEF Next

LEMMA Invariant == Spec => []IndInv
  BY InitInv, NextInv, PTL DEF Spec

-----------------------------------------------------------------------------
(* The head hash an operator noted while the file was honest commits to all  *)
(* of its history: a file that verifies and still carries that hash at that  *)
(* place holds exactly the rows the writer left, whatever was edited,        *)
(* re-hashed, re-linked, renumbered or deleted, and however often            *)
(* (proof/hashchain.py, CHAINED_FIELDS; proof/verify.py, verify_chain).      *)
THEOREM HeadCommits == Spec => []HeadCommitsToHistory
  <1>1. IndInv => HeadCommitsToHistory
    <2> SUFFICES ASSUME IndInv, Len(honest) > 0, verdict.status = "VALID",
                        Len(rows) >= Len(honest),
                        rows[Len(honest)].entry_hash = honest[Len(honest)].entry_hash
                 PROVE  SubSeq(rows, 1, Len(honest)) = honest
      BY DEF HeadCommitsToHistory
    <2> DEFINE n == Len(honest)
               S == {rows[i] : i \in DOMAIN rows} \cup {honest[i] : i \in DOMAIN honest}
    <2>1. IsTable(rows) /\ IsTable(honest) /\ Unbroken(honest) /\ Unbroken(rows)
      BY ValidIsUnbroken DEF IndInv, TypeInv, verdict
    <2>2. n \in Nat /\ Len(rows) \in Nat /\ DOMAIN rows = 1 .. Len(rows) /\ DOMAIN honest = 1 .. n
      BY <2>1, TableDomain
    <2>3. \A i \in 1 .. n : rows[i] = honest[i]
      BY <2>1, <2>2, HashBindsHistory
    <2>4. honest \in Seq(S) /\ \A i \in 1 .. n : rows[i] \in S
      <3>1. honest \in Seq(S)
        BY <2>1, SeqMonotonic, {honest[i] : i \in DOMAIN honest} \subseteq S DEF IsTable
      <3> QED
        BY <2>2, <3>1
    <2> HIDE DEF S
    <2>5. /\ SubSeq(rows, 1, n) \in Seq(S)
          /\ Len(SubSeq(rows, 1, n)) = n
          /\ \A i \in 1 .. n : SubSeq(rows, 1, n)[i] = rows[i]
      <3>1. /\ SubSeq(rows, 1, n) \in Seq(S)
            /\ Len(SubSeq(rows, 1, n)) = IF 1 <= n THEN n - 1 + 1 ELSE 0
            /\ \A i \in 1 .. n - 1 + 1 : SubSeq(rows, 1, n)[i] = rows[1 + i - 1]
        BY <2>2, <2>4, SubSeqProperties
      <3> QED
        BY <2>2, <3>1
    <2> DEFINE front == SubSeq(rows, 1, n)
    <2> HIDE DEF front
    <2>6. front \in Seq(S) /\ Len(front) = n /\ \A i \in 1 .. n : front[i] = honest[i]
      BY <2>3, <2>5 DEF front
    <2>7. front = honest
      BY <2>4, <2>6, SeqEqual
    <2> QED
      BY <2>7 DEF front
  <1> QED
    BY <1>1, Invariant, PTL

(* What verify-ledger says of an edit, of a deletion before the last row and *)
(* of an edited row re-hashed is where it was made, however many honest rows *)
(* follow (proof/verify.py, first_break).                                    *)
THEOREM BreaksAreLocated == Spec => []BreakLocated
  <1>1. IndInv => BreakLocated
    BY DEF IndInv
  <1> QED
    BY <1>1, Invariant, PTL

(* Whatever was done to the file before, an honest append neither hides the  *)
(* break nor moves it (proof/ledger.py, append; proof/verify.py).            *)
THEOREM AppendsHideNothing == Spec => AppendKeepsBreak
  <1>1. ASSUME IndInv, [Next]_vars
        PROVE  [tampers' = tampers /\ verdict.status = "BROKEN" => verdict' = verdict]_vars
    <2> SUFFICES ASSUME tampers' = tampers, verdict.status = "BROKEN", ~UNCHANGED vars
                 PROVE  verdict' = verdict
      OBVIOUS
    <2>1. tampers \in Seq(Changes) /\ IsTable(rows)
      BY <1>1 DEF IndInv, TypeInv
    <2>2. ASSUME NEW op, NEW i, NEW changed, Tamper(op, i, changed) PROVE FALSE
      <3> DEFINE c == [op |-> op, at |-> i]
      <3>1. tampers' = Append(tampers, c)
        BY <2>2 DEF Tamper
      <3> HIDE DEF c
      <3>2. Len(Append(tampers, c)) = Len(tampers) + 1 /\ Len(tampers) \in Nat
        BY <2>1
      <3> QED
        BY <3>1, <3>2
    <2>3. PICK body \in Bodies : Write(body)
      BY <1>1, <2>2 DEF Next, Edit, Rehash, Relink, Renumber, Delete
    <2>4. PICK r : rows' = Append(rows, r) /\ IsRow(r)
      BY <2>3, WriteAppends
    <2>5. verify_chain(Append(rows, r)) = verify_chain(rows)
      BY <2>1, <2>4, AppendKeepsFirst DEF verdict
    <2> QED
      BY <2>4, <2>5 DEF verdict
  <1> QED
    BY <1>1, Invariant, PTL DEF Spec, AppendKeepsBreak
=============================================================================
