----------------------------- MODULE Technocore -----------------------------
(***************************************************************************)
(* EXTERNAL: one Technocore room as the client sees it, and the network    *)
(* between.  Modelled from the repository's own stand-in for the service   *)
(* (tests/integration/fake_technocore.py) and from what                    *)
(* technocore/client.py does with the answers.                             *)
(*                                                                         *)
(* All clients speak for one did in one room.  A request may be delayed    *)
(* past its caller's timeout, lost, or reordered with others; so may its   *)
(* answer be lost, or trickle in.  Something in between, a proxy or a      *)
(* gateway, may answer for the service, in its place or after it has       *)
(* stored the message.  A nonce is stored only if it exceeds the last one. *)
(***************************************************************************)
EXTENDS Integers, Sequences

CONSTANT Clients      \* processes that talk to the room

VARIABLES net,        \* requests on their way: [from, nonce]
          room,       \* nonces stored by the service; the position is the seq
          open,       \* open[c]: nonce whose answer c still waits for, or 0
          reply       \* reply[c]: the answer on its way to c; c has the
                      \* whole of it, or bytes of it keep arriving

tcVars == <<net, room, open, reply>>

NoReply == [kind |-> "none", seq |-> 0, whole |-> FALSE]

lastNonce == IF room = <<>> THEN 0 ELSE room[Len(room)]

tcInit == /\ net = {}
          /\ room = <<>>
          /\ open = [c \in Clients |-> 0]
          /\ reply = [c \in Clients |-> NoReply]

(* A client sends one request and keeps its connection open. *)
Request(c, n) == /\ net' = net \cup {[from |-> c, nonce |-> n]}
                 /\ open' = [open EXCEPT ![c] = n]
                 /\ UNCHANGED <<room, reply>>

(* A client stops waiting: it has its answer, gave up, or died. *)
HangUp(c) == /\ open' = [open EXCEPT ![c] = 0]
             /\ reply' = [reply EXCEPT ![c] = NoReply]
             /\ UNCHANGED <<net, room>>

(* The answer travels back only while the caller is still there. *)
Answer(r, kind, seq) ==
    /\ net' = net \ {r}
    /\ reply' = IF open[r.from] = r.nonce
                THEN [reply EXCEPT ![r.from] = [kind |-> kind, seq |-> seq,
                                                 whole |-> FALSE]]
                ELSE reply
    /\ UNCHANGED open

(* 200 {"ok": true, "seq": n} *)
Store(r) == /\ r.nonce > lastNonce
            /\ room' = Append(room, r.nonce)
            /\ Answer(r, "accepted", Len(room) + 1)

(* Stored, and what comes back does not say so: an error (a gateway's 502 or *)
(* 504), a redirect, or a body that is not the JSON of a success.            *)
StoreMasked(r) == /\ r.nonce > lastNonce
                  /\ room' = Append(room, r.nonce)
                  /\ \E kind \in {"odd", "rejected"} : Answer(r, kind, 0)

(* A status of 400 or more and nothing stored: 429, 422, a gateway's error,  *)
(* or 400 for a nonce that does not exceed the last.                         *)
Reject(r) == Answer(r, "rejected", 0) /\ UNCHANGED room

(* Something in between answers with a redirect or a page of its own. *)
Redirect(r) == Answer(r, "odd", 0) /\ UNCHANGED room

LoseRequest(r) == net' = net \ {r} /\ UNCHANGED <<room, open, reply>>

(* An answer that does not arrive, or stops arriving. *)
LoseReply(c) == /\ reply[c] # NoReply /\ ~reply[c].whole
                /\ reply' = [reply EXCEPT ![c] = NoReply]
                /\ UNCHANGED <<net, room, open>>

(* The last byte of it has arrived. *)
FinishReply(c) == /\ reply[c] # NoReply /\ ~reply[c].whole
                  /\ reply' = [reply EXCEPT ![c].whole = TRUE]
                  /\ UNCHANGED <<net, room, open>>

tcNext == \/ \E r \in net : \/ Store(r) \/ StoreMasked(r) \/ Reject(r)
                            \/ Redirect(r) \/ LoseRequest(r)
          \/ \E c \in Clients : LoseReply(c) \/ FinishReply(c)
=============================================================================
