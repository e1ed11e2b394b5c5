----------------------------- MODULE LedgerSpec -----------------------------
(***************************************************************************)
(* What proof/ledger.py promises: a table that only grows at its end, each *)
(* new row chained to the one before it and referring, if at all, to a row *)
(* that is already there.                                                  *)
(***************************************************************************)
EXTENDS HashChain

CONSTANTS Bodies, Ids

VARIABLE rows

Init == rows = <<>>

AppendRow(id, ref, body) ==
    /\ ~Exists(rows, id)
    /\ ref = NULL \/ Exists(rows, ref)
    /\ rows' = Append(rows, ChainedRow(id, HeadOf(rows).index, HeadOf(rows).prev,
                                       ref, body))

Next == \E id \in Ids, ref \in Ids \cup {NULL}, body \in Bodies :
            AppendRow(id, ref, body)

Spec == Init /\ [][Next]_rows
=============================================================================
