----------------------------- MODULE WriteSpec -----------------------------
(***************************************************************************)
(* What both recorders of writes to a room promise whoever reads the       *)
(* ledger (technocore/outbound.py, technocore/announcement.py), with no    *)
(* process, request or timeout in sight: a write is noted before it can    *)
(* land, lands at most once, and is concluded at most once, by a verdict   *)
(* that is true when it is given and that nothing makes false later.       *)
(***************************************************************************)
EXTENDS Integers, Sequences

CONSTANT Nonces       \* a write is known by its nonce

VARIABLES noted,      \* writes the ledger speaks of
          said,       \* verdicts in the ledger: [nonce, says, seq]
          room        \* nonces stored by the service; the position is the seq

specVars == <<noted, said, room>>

Says == {"landed", "not landed", "unknown"}

Holds(n) == \E s \in DOMAIN room : room[s] = n

Init == noted = {} /\ said = {} /\ room = <<>>

Note(n) == noted' = noted \cup {n} /\ UNCHANGED <<said, room>>

Land(n) == /\ n \in noted
           /\ ~Holds(n)
           /\ \A v \in said : v.nonce = n => v.says # "not landed"
           /\ room' = Append(room, n)
           /\ UNCHANGED <<noted, said>>

Conclude(n, says, seq) ==
    /\ n \in noted
    /\ \A v \in said : v.nonce # n
    /\ says = "landed" => seq \in DOMAIN room /\ room[seq] = n
    /\ says = "not landed" => ~Holds(n)
    /\ said' = said \cup {[nonce |-> n, says |-> says, seq |-> seq]}
    /\ UNCHANGED <<noted, room>>

Next == \E n \in Nonces :
           \/ Note(n)
           \/ Land(n)
           \/ \E says \in Says, seq \in 0 .. Len(room) : Conclude(n, says, seq)

Spec == Init /\ [][Next]_specVars
=============================================================================
