------------------------------ MODULE MCLedger ------------------------------
(* The ledger file for TLC: two writers, one of whose contents is turned     *)
(* down, and one reader.                                                     *)
EXTENDS LedgerFile

CONSTANTS p1, p2, r1

(* Bound: the activities the recorders append.  An intent stands alone, an   *)
(* outcome refers to some row, there or not.                                 *)
RecordersActivities ==
    \A p \in Procs : pc'[p] # "idle" =>
        (act'[p].body = "intent" <=> act'[p].ref = NULL)
=============================================================================
