----------------------------- MODULE HashChain -----------------------------
(***************************************************************************)
(* The chained ledger row, its hash, and chain verification                *)
(* (proof/hashchain.py, proof/verify.py).                                  *)
(*                                                                         *)
(* SHA-256 is ideal: a digest is modelled by its preimage, so equal        *)
(* digests mean equal contents.  The columns no property tells apart       *)
(* (did, type, room, nonce, signature, timestamps, meta, ...) are one      *)
(* column, "body".                                                         *)
(***************************************************************************)
EXTENDS Integers, Sequences

(* Mutant: the link to the predecessor is left out of the digest. *)
CHAINED_FIELDS_Unlinked == {"activity_id", "chain_index", "ref_activity_id", "body"}

(* CHAINED_FIELDS: everything but entry_hash itself. *)
CHAINED_FIELDS ==
    {"activity_id", "chain_index", "ref_activity_id", "body", "prev_hash"}

(* A ref_activity_id of NULL; activity ids are positive. *)
NULL == 0

(* 64 zeros: the digest of no row. *)
GENESIS_PREV_HASH == [sha256 |-> <<>>]

compute_entry_hash(row) == [sha256 |-> [f \in CHAINED_FIELDS |-> row[f]]]

(* The row append builds on top of a head (chain_index, prev_hash). *)
ChainedRow(id, index, prev, ref, body) ==
    LET row == [activity_id |-> id, chain_index |-> index,
                ref_activity_id |-> ref, body |-> body, prev_hash |-> prev]
    IN  [activity_id |-> id, chain_index |-> index, ref_activity_id |-> ref,
         body |-> body, prev_hash |-> prev,
         entry_hash |-> compute_entry_hash(row)]

(* Mutant: the next row links to the head's own prev_hash. *)
HeadOfWrongColumn(rows) ==
    IF rows = <<>> THEN [index |-> 0, prev |-> GENESIS_PREV_HASH]
    ELSE [index |-> rows[Len(rows)].chain_index + 1,
          prev  |-> rows[Len(rows)].prev_hash]

(* Mutant: an empty table starts one index too low. *)
HeadOfOffByOne(rows) ==
    IF rows = <<>> THEN [index |-> -1, prev |-> GENESIS_PREV_HASH]
    ELSE [index |-> rows[Len(rows)].chain_index + 1,
          prev  |-> rows[Len(rows)].entry_hash]

(* SELECT chain_index, entry_hash ... ORDER BY chain_index DESC LIMIT 1:     *)
(* where the next row goes.  rows is the table in chain_index order.         *)
HeadOf(rows) ==
    IF rows = <<>> THEN [index |-> 0, prev |-> GENESIS_PREV_HASH]
    ELSE [index |-> rows[Len(rows)].chain_index + 1,
          prev  |-> rows[Len(rows)].entry_hash]

(* Mutant: the lookup compares the wrong column. *)
ExistsByIndex(rows, id) == \E i \in DOMAIN rows : rows[i].chain_index = id

(* SELECT 1 FROM activities WHERE activity_id = ? *)
Exists(rows, id) == \E i \in DOMAIN rows : rows[i].activity_id = id

-----------------------------------------------------------------------------
(* The three checks verify_chain makes at a position (1-based here). *)

IndexGap(rows, i) == rows[i].chain_index # i - 1

(* Mutant: only the first row's link is checked. *)
LinkMismatchGenesisOnly(rows, i) == i = 1 /\ rows[i].prev_hash # GENESIS_PREV_HASH

LinkMismatch(rows, i) ==
    rows[i].prev_hash # IF i = 1 THEN GENESIS_PREV_HASH ELSE rows[i - 1].entry_hash

HashMismatch(rows, i) == compute_entry_hash(rows[i]) # rows[i].entry_hash

Broken(rows, i) == IndexGap(rows, i) \/ LinkMismatch(rows, i) \/ HashMismatch(rows, i)

(* In the order the code tests them. *)
BreakKind(rows, i) ==
    CASE IndexGap(rows, i) -> "INDEX_GAP"
      [] ~IndexGap(rows, i) /\ LinkMismatch(rows, i)
            -> IF i = 1 THEN "BAD_GENESIS" ELSE "LINK_MISMATCH"
      [] OTHER -> "HASH_MISMATCH"

(* Mutant: only the newest row is verified. *)
verify_head_only(rows) ==
    LET n == Len(rows)
    IN  IF n = 0 THEN [status |-> "EMPTY", checked |-> 0]
        ELSE IF ~Broken(rows, n)
        THEN [status |-> "VALID", checked |-> n, head_hash |-> rows[n].entry_hash]
        ELSE [status |-> "BROKEN", checked |-> n - 1, kind |-> BreakKind(rows, n),
              chain_index |-> rows[n].chain_index]

(* verify_chain: EMPTY, VALID with the head's hash, or the first break. *)
verify_chain(rows) ==
    LET bad == {i \in DOMAIN rows : Broken(rows, i)}
        first == CHOOSE i \in bad : \A j \in bad : i <= j
    IN  IF rows = <<>> THEN [status |-> "EMPTY", checked |-> 0]
        ELSE IF bad = {}
        THEN [status |-> "VALID", checked |-> Len(rows),
              head_hash |-> rows[Len(rows)].entry_hash]
        ELSE [status |-> "BROKEN", checked |-> first - 1,
              kind |-> BreakKind(rows, first),
              chain_index |-> rows[first].chain_index]
=============================================================================
