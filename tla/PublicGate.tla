----------------------------- MODULE PublicGate -----------------------------
(***************************************************************************)
(* The write guard of technocore/client.py over a program's life: one-time *)
(* gates that are made, matched, mismatched, tried again and presented to  *)
(* the wrong client; writes that need no gate; calls that fail half way.   *)
(*                                                                         *)
(* One thread makes the calls, so a call to send_signed_message is one     *)
(* step; what it meets on its way out is a nondeterministic choice.        *)
(***************************************************************************)
EXTENDS Integers, Sequences

CONSTANTS Gates,      \* gate objects
          Hosts,      \* hosts a client may be made for
          PUBLIC_HOSTS, LOOPBACK_HOSTS,
          Rooms, Texts, Nonces,
          NoGate,
          MaxSent     \* bound: requests

ASSUME PublicGateAssumption ==
    /\ PUBLIC_HOSTS \subseteq Hosts /\ LOOPBACK_HOSTS \subseteq Hosts
    /\ PUBLIC_HOSTS \cap LOOPBACK_HOSTS = {}
    /\ NoGate \notin Gates
    /\ MaxSent \in Nat

VARIABLES gate,       \* gate[g]: what it is bound to, and its flags
          enabled,    \* FLOPOFFICE_ALLOW_LOCAL_WRITE is "1"
          tried,      \* history: gates given to a call
          sent        \* history: requests, in order

vars == <<gate, enabled, tried, sent>>

(* What a gate binds, and what a request shows. *)
Binding == [host : Hosts, room : Rooms, text : Texts, nonce : Nonces]

(* text stands for its SHA-256; genuine, for a signature that verifies. *)
SignedWrite == [room : Rooms, text : Texts, nonce : Nonces, genuine : BOOLEAN]

Unmade == [made |-> FALSE]

Init == /\ gate = [g \in Gates |-> Unmade]
        /\ enabled \in BOOLEAN
        /\ tried = {}
        /\ sent = <<>>

(* Mutant: a gate matches any text of its room and nonce. *)
MatchesAnyText(b, host, w) == /\ b.host = host
                              /\ b.room = w.room /\ b.nonce = w.nonce

(* The four comparisons of OneTimePublicWriteGate.consume. *)
Matches(b, host, w) == b = [host |-> host, room |-> w.room, text |-> w.text,
                            nonce |-> w.nonce]

-----------------------------------------------------------------------------
(* OneTimePublicWriteGate(...): refused without confirmation or off the      *)
(* public hosts; nothing is made then.                                       *)
MakeGate(g, b, confirm) ==
    /\ ~gate[g].made
    /\ confirm /\ b.host \in PUBLIC_HOSTS
    /\ gate' = [gate EXCEPT ![g] = [made |-> TRUE, bound |-> b,
                                    used |-> FALSE, closed |-> FALSE]]
    /\ UNCHANGED <<enabled, tried, sent>>

(* consume returns, rather than raises. *)
Consumes(g, host, w) == /\ ~gate[g].closed /\ ~gate[g].used
                        /\ Matches(gate[g].bound, host, w)

(* _assert_write_allowed *)
WriteAllowed(g, host, w) ==
    IF g # NoGate
    THEN host \in PUBLIC_HOSTS /\ Consumes(g, host, w)
    ELSE host \in LOOPBACK_HOSTS /\ enabled

(* Mutant: only a gate that let the write through is closed. *)
ClosedIfUsed(g, consumed) ==
    IF g = NoGate \/ ~consumed THEN gate
    ELSE [gate EXCEPT ![g].closed = TRUE, ![g].used = TRUE]

(* The `finally` of send_signed_message, after whatever consume did. *)
Closed(g, consumed) ==
    IF g = NoGate THEN gate
    ELSE [gate EXCEPT ![g].closed = TRUE, ![g].used = @ \/ consumed]

Attempt(g, consumed) == /\ gate' = Closed(g, consumed)
                        /\ tried' = tried \cup ({g} \ {NoGate})
                        /\ UNCHANGED enabled

Usable(g) == g # NoGate => gate[g].made

(* send_signed_message raises before the request: a false signature, the     *)
(* guard, or an empty budget.                                                *)
Refuse(g, host, w) ==
    /\ Usable(g)
    /\ ~(w.genuine /\ WriteAllowed(g, host, w))
    /\ Attempt(g, FALSE)
    /\ UNCHANGED sent

RateLimited(g, host, w) ==
    /\ Usable(g)
    /\ w.genuine /\ WriteAllowed(g, host, w)
    /\ Attempt(g, TRUE)
    /\ UNCHANGED sent

(* The request goes out; the answer, an error or a timeout changes nothing   *)
(* more.                                                                     *)
SendSignedMessage(g, host, w) ==
    /\ Usable(g)
    /\ w.genuine /\ WriteAllowed(g, host, w)
    /\ Len(sent) < MaxSent
    /\ Attempt(g, TRUE)
    /\ sent' = Append(sent, [gate |-> g, host |-> host, write |-> w,
                             enabled |-> enabled, first |-> g \notin tried])

(* The operator changes the environment. *)
ToggleLocalWrite == enabled' = ~enabled /\ UNCHANGED <<gate, tried, sent>>

Next == \/ \E g \in Gates, b \in Binding, confirm \in BOOLEAN : MakeGate(g, b, confirm)
        \/ \E g \in Gates \cup {NoGate}, host \in Hosts, w \in SignedWrite :
                \/ Refuse(g, host, w)
                \/ RateLimited(g, host, w)
                \/ SendSignedMessage(g, host, w)
        \/ ToggleLocalWrite

Spec == Init /\ [][Next]_vars

-----------------------------------------------------------------------------
(* Properties *)

(* A gate lets at most one request out, and only by the first call it is     *)
(* given to: not once that call failed, whatever it failed on ("It cannot be *)
(* reused for retries", client.py:78).                                       *)
OpensAtMostOnce ==
    \A i \in DOMAIN sent : sent[i].gate \in Gates =>
        /\ sent[i].first
        /\ \A j \in DOMAIN sent : sent[i].gate = sent[j].gate => i = j

(* Whatever reached a public host was genuine and exactly what a confirmed   *)
(* gate was bound to: host, room, text and nonce.  Anything else went to a   *)
(* loopback host, without a gate, while local writes were enabled.           *)
PublicOnlyAsBound ==
    \A i \in DOMAIN sent :
        LET s == sent[i]
        IN  IF s.host \in PUBLIC_HOSTS
            THEN /\ s.gate \in Gates /\ s.write.genuine
                 /\ gate[s.gate].bound = [host |-> s.host, room |-> s.write.room,
                                          text |-> s.write.text, nonce |-> s.write.nonce]
            ELSE s.host \in LOOPBACK_HOSTS /\ s.gate = NoGate /\ s.enabled
=============================================================================
