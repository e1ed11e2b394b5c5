------------------------------- MODULE Ledger -------------------------------
(***************************************************************************)
(* The append-only proof ledger (proof/ledger.py) written by several       *)
(* processes over one SQLite file.  An append runs                         *)
(*                                                                         *)
(*   begin  ->  head  ->  ref  ->  insert  ->  returned  ->  idle          *)
(*                                                                         *)
(* and may stop anywhere: the lock wait times out, the reference does not  *)
(* exist, the process dies.  An activity _validate or _refuse_secrets      *)
(* turns down never opens a transaction and changes nothing.               *)
(***************************************************************************)
EXTENDS HashChain

CONSTANTS Procs,      \* writing processes
          NoProc,     \* nobody holds the write lock
          Bodies,     \* contents of an activity
          Refused,    \* the bodies _validate or _refuse_secrets turn down
          MaxIds      \* bound: appends attempted

ASSUME LedgerAssumption == /\ MaxIds \in Nat
                           /\ NoProc \notin Procs

VARIABLES rows,       \* the activities table, in chain_index order
          lock,       \* holder of SQLite's write lock
          pc,         \* where each process is in append
          act,        \* the activity being appended, with its uuid
          head,       \* the head its transaction read
          nextId      \* uuid4: ids are never drawn twice

vars == <<rows, lock, pc, act, head, nextId>>

InTransaction == {"head", "ref", "insert"}

NoAct == [id |-> 0, ref |-> NULL, body |-> CHOOSE b \in Bodies : TRUE]

NoHead == [index |-> 0, prev |-> GENESIS_PREV_HASH]

Init == /\ rows = <<>>
        /\ lock = NoProc
        /\ pc = [p \in Procs |-> "idle"]
        /\ act = [p \in Procs |-> NoAct]
        /\ head = [p \in Procs |-> NoHead]
        /\ nextId = 1

(* The call is over and its frame is gone. *)
End(p) == /\ pc' = [pc EXCEPT ![p] = "idle"]
          /\ act' = [act EXCEPT ![p] = NoAct]
          /\ head' = [head EXCEPT ![p] = NoHead]

-----------------------------------------------------------------------------
(* Ledger.append *)

(* What _validate and _refuse_secrets let through. *)
Acceptable(body) == body \notin Refused

(* _validate, _refuse_secrets and the uuid, before the transaction.  The     *)
(* reference is any id: of a row already there, of one still being written,  *)
(* of one whose append failed.                                               *)
AppendCall(p, ref, body) ==
    /\ pc[p] = "idle"
    /\ Acceptable(body)
    /\ nextId <= MaxIds
    /\ act' = [act EXCEPT ![p] = [id |-> nextId, ref |-> ref, body |-> body]]
    /\ nextId' = nextId + 1
    /\ pc' = [pc EXCEPT ![p] = "begin"]
    /\ UNCHANGED <<rows, lock, head>>

(* Mutant: a deferred BEGIN, which takes no lock before the read. *)
BeginDeferred(p) ==
    /\ pc[p] = "begin"
    /\ lock' = p
    /\ pc' = [pc EXCEPT ![p] = "head"]
    /\ UNCHANGED <<rows, act, head, nextId>>

(* BEGIN IMMEDIATE *)
Begin(p) ==
    /\ pc[p] = "begin"
    /\ lock = NoProc
    /\ lock' = p
    /\ pc' = [pc EXCEPT ![p] = "head"]
    /\ UNCHANGED <<rows, act, head, nextId>>

(* busy_timeout ran out: "database is locked" *)
BusyTimeout(p) ==
    /\ pc[p] = "begin"
    /\ lock # NoProc
    /\ End(p)
    /\ UNCHANGED <<rows, lock, nextId>>

(* The SELECT of the head. *)
ReadHead(p) ==
    /\ pc[p] = "head"
    /\ head' = [head EXCEPT ![p] = HeadOf(rows)]
    /\ pc' = [pc EXCEPT ![p] = "ref"]
    /\ UNCHANGED <<rows, lock, act, nextId>>

(* The SELECT of the referenced row; a missing one rolls back. *)
CheckRef(p) ==
    /\ pc[p] = "ref"
    /\ IF act[p].ref # NULL /\ ~Exists(rows, act[p].ref)
       THEN lock' = NoProc /\ End(p)
       ELSE pc' = [pc EXCEPT ![p] = "insert"] /\ UNCHANGED <<lock, act, head>>
    /\ UNCHANGED <<rows, nextId>>

(* The row append inserts, from the head it read. *)
NewRow(p) == ChainedRow(act[p].id, head[p].index, head[p].prev,
                        act[p].ref, act[p].body)

(* The schema's own constraints: UNIQUE chain_index and entry_hash, the      *)
(* primary key, and the foreign key on ref_activity_id.                      *)
IntegrityError(row) ==
    \/ \E i \in DOMAIN rows : \/ rows[i].chain_index = row.chain_index
                               \/ rows[i].entry_hash = row.entry_hash
                               \/ rows[i].activity_id = row.activity_id
    \/ row.ref_activity_id # NULL /\ ~Exists(rows, row.ref_activity_id)

(* INSERT and COMMIT, or an IntegrityError that rolls back. *)
Insert(p) ==
    /\ pc[p] = "insert"
    /\ lock' = NoProc
    /\ IF IntegrityError(NewRow(p))
       THEN End(p) /\ UNCHANGED rows
       ELSE /\ rows' = Append(rows, NewRow(p))
            /\ pc' = [pc EXCEPT ![p] = "returned"]
            /\ UNCHANGED <<act, head>>
    /\ UNCHANGED nextId

(* The caller has its LedgerRecord. *)
Return(p) ==
    /\ pc[p] = "returned"
    /\ End(p)
    /\ UNCHANGED <<rows, lock, nextId>>

(* Mutant: COMMIT did not reach the disk (synchronous = OFF). *)
CrashForgets(p) ==
    /\ pc[p] # "idle"
    /\ lock' = IF lock = p THEN NoProc ELSE lock
    /\ End(p)
    /\ rows' = IF rows = <<>> THEN rows ELSE SubSeq(rows, 1, Len(rows) - 1)
    /\ UNCHANGED nextId

(* The process dies: SQLite rolls its open transaction back. *)
Crash(p) ==
    /\ pc[p] # "idle"
    /\ lock' = IF lock = p THEN NoProc ELSE lock
    /\ End(p)
    /\ UNCHANGED <<rows, nextId>>

-----------------------------------------------------------------------------
Next == \E p \in Procs :
           \/ \E ref \in {NULL} \cup 1 .. nextId, body \in Bodies :
                 AppendCall(p, ref, body)
           \/ Begin(p) \/ BusyTimeout(p) \/ ReadHead(p) \/ CheckRef(p)
           \/ Insert(p) \/ Return(p) \/ Crash(p)

Spec == Init /\ [][Next]_vars

-----------------------------------------------------------------------------
(* Properties *)

(* Every variable keeps its type. *)
TypeOK ==
    /\ rows \in Seq({rows[i] : i \in DOMAIN rows})
    /\ lock \in Procs \cup {NoProc}
    /\ pc \in [Procs -> {"idle", "begin", "returned"} \cup InTransaction]
    /\ DOMAIN act = Procs
    /\ \A p \in Procs : act[p].id \in Nat /\ act[p].ref \in Nat
    /\ DOMAIN head = Procs
    /\ \A p \in Procs : head[p].index \in Nat
    /\ nextId \in Nat \ {0}

(* However appends interleave, fail or die, verify-ledger accepts what they  *)
(* leave: indexes 0, 1, 2, ..., every row linked to the one before it and    *)
(* hashed over its own contents.                                             *)
ChainIntact == verify_chain(rows).status # "BROKEN"

(* A writer that got as far as its INSERT never trips the table's            *)
(* constraints: the head and the reference it read under the lock still      *)
(* hold, so a race never costs a caller its record.                          *)
NoConflict == \A p \in Procs : pc[p] = "insert" => ~IntegrityError(NewRow(p))

(* A row refers only to a row written before it, and no two rows share an    *)
(* id: an outcome can be traced to the one intent it resolves.               *)
RefsPointBack ==
    \A i \in DOMAIN rows :
        /\ \A j \in DOMAIN rows : rows[i].activity_id = rows[j].activity_id => i = j
        /\ rows[i].ref_activity_id # NULL =>
              \E j \in 1 .. i - 1 : rows[j].activity_id = rows[i].ref_activity_id

(* The LedgerRecord a caller is given (id, chain_index, prev_hash,           *)
(* entry_hash) is the row that is stored at that index.                      *)
RecordIsStored ==
    \A p \in Procs : pc[p] = "returned" =>
        /\ head[p].index < Len(rows)
        /\ rows[head[p].index + 1] = NewRow(p)

(* No step changes or removes a row that is there. *)
AppendOnly ==
    [][/\ Len(rows') >= Len(rows)
       /\ \A i \in DOMAIN rows : rows'[i] = rows[i]]_vars

(* The transactions implement an atomic append. *)
Abstract == INSTANCE LedgerSpec WITH Ids <- 1 .. MaxIds
ImplementsLedgerSpec == Abstract!Spec
=============================================================================
