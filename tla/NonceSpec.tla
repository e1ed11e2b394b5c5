----------------------------- MODULE NonceSpec -----------------------------
(***************************************************************************)
(* What identity/nonce.py promises its callers, with no transaction in     *)
(* sight: one counter per (did, scope), which only ever grows; issuing a   *)
(* nonce moves the counter strictly up and hands out the new value, and    *)
(* observing a foreign nonce may move it up without handing anything out.  *)
(***************************************************************************)
EXTENDS Integers, Sequences

CONSTANTS Keys,       \* the (agent_did, scope) pairs in use
          MaxNonce    \* the largest nonce the store can keep

VARIABLES top,        \* top[k]: the counter
          issued      \* issued[k]: the nonces handed out for k, in order

specVars == <<top, issued>>

Init == /\ top = [k \in Keys |-> 0]
        /\ issued = [k \in Keys |-> <<>>]

Issue(k) == \E n \in (top[k] + 1) .. MaxNonce :
               /\ top' = [top EXCEPT ![k] = n]
               /\ issued' = [issued EXCEPT ![k] = Append(issued[k], n)]

Raise(k) == \E n \in (top[k] + 1) .. MaxNonce :
               /\ top' = [top EXCEPT ![k] = n]
               /\ UNCHANGED issued

Next == \E k \in Keys : Issue(k) \/ Raise(k)

Spec == Init /\ [][Next]_specVars
=============================================================================
