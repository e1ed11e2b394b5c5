---------------------------- MODULE LedgerTamper ----------------------------
(***************************************************************************)
(* The ledger file changed behind the code's back: the append-only         *)
(* triggers of the schema dropped, single columns overwritten, rows        *)
(* re-hashed, re-linked or deleted, while the honest writer (whose append  *)
(* is atomic, see Ledger) may go on appending on top.  What                *)
(* proof/verify.py reports about the result.                               *)
(***************************************************************************)
EXTENDS HashChain

CONSTANTS Bodies,       \* contents of an activity
          MaxRows,      \* bound: rows the honest writer appends
          MaxTampers    \* bound: changes made behind its back

ASSUME TamperAssumption == MaxRows \in Nat /\ MaxTampers \in Nat

VARIABLES rows,       \* the file, in chain_index order
          honest,     \* history: the rows as the writer left them
          tampers,    \* history: the changes made, in order
          nextId      \* uuid4: ids are never drawn twice

vars == <<rows, honest, tampers, nextId>>

Init == rows = <<>> /\ honest = <<>> /\ tampers = <<>> /\ nextId = 1

(* Ledger.append by the honest writer. *)
Write(body) ==
    /\ nextId <= MaxRows
    /\ rows' = Append(rows, ChainedRow(nextId, HeadOf(rows).index,
                                       HeadOf(rows).prev, NULL, body))
    /\ honest' = IF tampers = <<>> THEN rows' ELSE honest
    /\ nextId' = nextId + 1
    /\ UNCHANGED tampers

(* A change to the file that is not the code's. *)
Tamper(op, i, changed) ==
    /\ Len(tampers) < MaxTampers
    /\ changed # rows
    /\ rows' = changed
    /\ tampers' = Append(tampers, [op |-> op, at |-> i])
    /\ UNCHANGED <<honest, nextId>>

Edit(i, body) == Tamper("edit", i, [rows EXCEPT ![i].body = body])

(* entry_hash recomputed from the row as it now stands. *)
Rehash(i) == Tamper("rehash", i, [rows EXCEPT ![i].entry_hash = compute_entry_hash(rows[i])])

(* prev_hash set to the predecessor's entry_hash. *)
Relink(i) == Tamper("relink", i,
    [rows EXCEPT ![i].prev_hash = IF i = 1 THEN GENESIS_PREV_HASH
                                  ELSE rows[i - 1].entry_hash])

(* chain_index closed up after a deletion; the column stays UNIQUE. *)
Renumber(i) == /\ i > 1 => rows[i - 1].chain_index < i - 1
               /\ Tamper("renumber", i, [rows EXCEPT ![i].chain_index = i - 1])

Delete(i) == Tamper("delete", i, SubSeq(rows, 1, i - 1) \o SubSeq(rows, i + 1, Len(rows)))

Next == \/ \E body \in Bodies : Write(body)
        \/ \E i \in DOMAIN rows :
              \/ \E body \in Bodies : Edit(i, body)
              \/ Rehash(i) \/ Relink(i) \/ Renumber(i) \/ Delete(i)

Spec == Init /\ [][Next]_vars

-----------------------------------------------------------------------------
(* Properties *)

verdict == verify_chain(rows)

(* The operator noted the head hash while the file was honest.  A file that  *)
(* verifies and still carries that hash at that place holds, up to there,    *)
(* exactly the rows the writer left: no combination of edits, re-hashes,     *)
(* re-links, renumberings and deletions gets past it.                        *)
HeadCommitsToHistory ==
    LET n == Len(honest)
    IN  n > 0 /\ verdict.status = "VALID" /\ Len(rows) >= n
        /\ rows[n].entry_hash = honest[n].entry_hash
            => SubSeq(rows, 1, n) = honest

(* What verify-ledger says of a few changes is where they were made          *)
(* (verify.py's first_break): an edited row at its own index; an edited and  *)
(* re-hashed one at the link of the next row; a deleted one as a gap.        *)
BreakLocated ==
    LET broken(checked, kind, index) ==
          verdict = [status |-> "BROKEN", checked |-> checked, kind |-> kind,
                     chain_index |-> index]
        t == tampers[1]
    IN  /\ Len(tampers) = 1 /\ t.op = "edit"
              => broken(t.at - 1, "HASH_MISMATCH", t.at - 1)
        /\ Len(tampers) = 1 /\ t.op = "delete" /\ t.at < Len(honest)
              => broken(t.at - 1, "INDEX_GAP", t.at)
        /\ Len(tampers) = 2 /\ t = [op |-> "edit", at |-> tampers[2].at]
              /\ tampers[2].op = "rehash" /\ t.at < Len(honest)
              => broken(t.at, "LINK_MISMATCH", t.at)

(* An honest append on top of a broken file neither hides nor moves the      *)
(* break verify-ledger reports.                                              *)
AppendKeepsBreak ==
    [][tampers' = tampers /\ verdict.status = "BROKEN" => verdict' = verdict]_vars

(* README.md: "It makes editing or deleting a record detectable and          *)
(* locatable"; THREAT_MODEL.md T11: "deletions surface as index gaps".  So a *)
(* file one row was deleted from never verifies as VALID.                    *)
DeletionDetectable ==
    Len(tampers) = 1 /\ tampers[1].op = "delete" => verdict.status # "VALID"
=============================================================================
