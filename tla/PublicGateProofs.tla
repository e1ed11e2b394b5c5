-------------------------- MODULE PublicGateProofs --------------------------
(***************************************************************************)
(* Theorems of PublicGate, for every number of gates, hosts, rooms, texts, *)
(* nonces and requests.                                                    *)
(*                                                                         *)
(* The type is needed for the gates' fields, and two facts about histories *)
(* for the rest: a gate given to a call is closed, and a gate that let a   *)
(* request out has been given to a call.                                   *)
(***************************************************************************)
EXTENDS PublicGate, TLAPS

Made == [made : {TRUE}, bound : Binding, used : BOOLEAN, closed : BOOLEAN]

Sent == [gate : Gates \cup {NoGate}, host : Hosts, write : SignedWrite,
         enabled : BOOLEAN, first : BOOLEAN]

TypeOK == /\ gate \in [Gates -> {Unmade} \cup Made]
          /\ enabled \in BOOLEAN
          /\ tried \subseteq Gates
          /\ sent \in Seq(Sent)

(* The `finally` of send_signed_message. *)
TriedIsClosed == \A g \in tried : gate[g].made /\ gate[g].closed

SentWasTried == \A i \in DOMAIN sent : sent[i].gate \in Gates => sent[i].gate \in tried

IndInv == /\ TypeOK
          /\ TriedIsClosed
          /\ SentWasTried
          /\ OpensAtMostOnce
          /\ PublicOnlyAsBound

(* A gate of Made has its fields; an unmade one is not made. *)
LEMMA GateFields ==
  ASSUME TypeOK, NEW g \in Gates, gate[g].made
  PROVE  gate[g] \in Made
  <1>1. gate[g] \in {Unmade} \cup Made
    BY DEF TypeOK
  <1>2. Unmade.made = FALSE
    BY DEF Unmade
  <1> QED
    BY <1>1, <1>2

(* What a call does to the gate it is given, and to no other. *)
LEMMA AttemptCloses ==
  ASSUME TypeOK, TriedIsClosed, NEW g \in Gates \cup {NoGate}, NEW consumed \in BOOLEAN,
         Usable(g), Attempt(g, consumed)
  PROVE  /\ gate' \in [Gates -> {Unmade} \cup Made] /\ enabled' = enabled
         /\ tried' = tried \cup ({g} \ {NoGate})
         /\ TriedIsClosed'
         /\ \A h \in Gates : gate[h].made =>
               gate'[h].made /\ gate'[h].bound = gate[h].bound
  <1>1. enabled' = enabled /\ tried' = tried \cup ({g} \ {NoGate})
    BY DEF Attempt
  <1>2. CASE g = NoGate
    <2>1. gate' = gate /\ tried' = tried
      BY <1>1, <1>2 DEF Attempt, Closed
    <2> QED
      BY <1>1, <2>1 DEF TypeOK, TriedIsClosed
  <1>3. CASE g # NoGate
    <2>1. gate[g] \in Made
      BY <1>3, GateFields DEF Usable
    <2> DEFINE new == [made |-> TRUE, bound |-> gate[g].bound,
                       used |-> gate[g].used \/ consumed, closed |-> TRUE]
    <2>2. gate' = [gate EXCEPT ![g].closed = TRUE, ![g].used = @ \/ consumed]
      BY <1>3 DEF Attempt, Closed
    <2>3. /\ gate'[g].made /\ gate'[g].closed /\ gate'[g].bound = gate[g].bound
          /\ gate'[g] \in Made
          /\ DOMAIN gate' = Gates
          /\ \A h \in Gates \ {g} : gate'[h] = gate[h]
      BY <1>3, <2>1, <2>2 DEF TypeOK, Made
    <2>4. gate' \in [Gates -> {Unmade} \cup Made]
      <3>1. \A h \in Gates : gate'[h] \in {Unmade} \cup Made
        BY <2>3 DEF TypeOK
      <3>2. gate' = [h \in Gates |-> gate'[h]]
        BY <2>2, <2>3 DEF TypeOK
      <3> QED
        BY <3>1, <3>2
    <2>5. TriedIsClosed'
      BY <1>1, <2>3 DEF TriedIsClosed, TypeOK
    <2> QED
      BY <1>1, <2>3, <2>4, <2>5
  <1> QED
    BY <1>2, <1>3

(* Nothing sent, gates bound as before: the histories stay true. *)
LEMMA NothingSent ==
  ASSUME IndInv, TypeOK', TriedIsClosed', sent' = sent, tried \subseteq tried',
         \A h \in Gates : gate[h].made => gate'[h].bound = gate[h].bound
  PROVE  IndInv'
  <1>1. SentWasTried' /\ OpensAtMostOnce'
    BY DEF IndInv, SentWasTried, OpensAtMostOnce
  <1>2. PublicOnlyAsBound'
    <2> SUFFICES ASSUME NEW i \in DOMAIN sent, sent[i].host \in PUBLIC_HOSTS
                 PROVE  gate'[sent[i].gate].bound = gate[sent[i].gate].bound
      BY DEF IndInv, PublicOnlyAsBound
    <2>1. sent[i].gate \in tried
      BY DEF IndInv, PublicOnlyAsBound, SentWasTried
    <2>2. sent[i].gate \in Gates /\ gate[sent[i].gate].made
      BY <2>1 DEF IndInv, TriedIsClosed, TypeOK
    <2> QED
      BY <2>2
  <1> QED
    BY <1>1, <1>2 DEF IndInv

LEMMA InitInv == Init => IndInv
  BY DEF Init, IndInv, TypeOK, TriedIsClosed, SentWasTried, OpensAtMostOnce,
         PublicOnlyAsBound

(* A gate is made: it was not tried before. *)
LEMMA MakeGateInv ==
  ASSUME IndInv, NEW g \in Gates, NEW b \in Binding, NEW confirm \in BOOLEAN,
         MakeGate(g, b, confirm)
  PROVE  IndInv'
  <1>1. TypeOK'
    BY DEF MakeGate, IndInv, TypeOK, Made
  <1>2. g \notin tried
    BY DEF MakeGate, IndInv, TriedIsClosed
  <1>3. \A h \in Gates \ {g} : gate'[h] = gate[h]
    BY DEF MakeGate, IndInv, TypeOK
  <1>4. TriedIsClosed'
    BY <1>2, <1>3 DEF MakeGate, IndInv, TriedIsClosed, TypeOK
  <1>5. \A h \in Gates : gate[h].made => gate'[h].bound = gate[h].bound
    BY <1>3 DEF MakeGate
  <1> QED
    BY <1>1, <1>4, <1>5, NothingSent DEF MakeGate

(* The call that sends: the guard let it through, so its gate was not tried. *)
LEMMA SendInv ==
  ASSUME IndInv, NEW g \in Gates \cup {NoGate}, NEW host \in Hosts, NEW w \in SignedWrite,
         SendSignedMessage(g, host, w)
  PROVE  IndInv'
  <1> DEFINE s == [gate |-> g, host |-> host, write |-> w, enabled |-> enabled,
                   first |-> g \notin tried]
  <1>1. /\ sent' = Append(sent, s) /\ sent \in Seq(Sent) /\ s \in Sent
        /\ w.genuine /\ Usable(g) /\ Attempt(g, TRUE)
    BY DEF SendSignedMessage, IndInv, TypeOK, Sent
  <1>2. /\ gate' \in [Gates -> {Unmade} \cup Made] /\ enabled' = enabled
        /\ tried' = tried \cup ({g} \ {NoGate})
        /\ TriedIsClosed'
        /\ \A h \in Gates : gate[h].made =>
              gate'[h].made /\ gate'[h].bound = gate[h].bound
    BY <1>1, AttemptCloses DEF IndInv
  <1> HIDE DEF s
  <1>3. TypeOK'
    BY <1>1, <1>2 DEF IndInv, TypeOK
  <1>4. /\ DOMAIN sent' = 1 .. Len(sent) + 1 /\ DOMAIN sent = 1 .. Len(sent)
        /\ Len(sent) \in Nat
        /\ sent'[Len(sent) + 1] = s
        /\ \A i \in DOMAIN sent : sent'[i] = sent[i]
    BY <1>1
  <1>5. /\ s.gate = g /\ s.host = host /\ s.write = w /\ s.enabled = enabled
        /\ s.first = (g \notin tried)
    BY DEF s
  <1>6. g \in Gates => /\ g \notin tried
                       /\ gate[g].made
                       /\ gate[g].bound = [host |-> host, room |-> w.room,
                                           text |-> w.text, nonce |-> w.nonce]
    BY <1>1, PublicGateAssumption
       DEF SendSignedMessage, WriteAllowed, Consumes, Matches, Usable, IndInv, TriedIsClosed
  <1>7. SentWasTried'
    <2>1. g \in Gates => g \in tried'
      BY <1>2, PublicGateAssumption
    <2>2. tried \subseteq tried'
      BY <1>2
    <2> SUFFICES ASSUME NEW i \in 1 .. Len(sent) + 1, sent'[i].gate \in Gates
                 PROVE  sent'[i].gate \in tried'
      BY <1>4 DEF SentWasTried
    <2>3. CASE i = Len(sent) + 1
      BY <2>1, <2>3, <1>4, <1>5
    <2>4. CASE i \in DOMAIN sent
      BY <2>2, <2>4, <1>4 DEF IndInv, SentWasTried
    <2> QED
      BY <1>4, <2>3, <2>4
  <1>8. OpensAtMostOnce'
    <2>1. \A i \in DOMAIN sent : sent[i].gate \in Gates => sent[i].gate # g
      BY <1>6 DEF IndInv, SentWasTried
    <2> SUFFICES ASSUME NEW i \in 1 .. Len(sent) + 1, sent'[i].gate \in Gates
                 PROVE  /\ sent'[i].first
                        /\ \A j \in 1 .. Len(sent) + 1 :
                              sent'[i].gate = sent'[j].gate => i = j
      BY <1>4 DEF OpensAtMostOnce
    <2>2. CASE i = Len(sent) + 1
      <3>1. sent'[i].gate = g /\ g \in Gates /\ sent'[i].first
        BY <1>4, <1>5, <1>6, <2>2
      <3>2. \A j \in 1 .. Len(sent) : sent'[j].gate # g
        BY <1>4, <2>1, <3>1
      <3> QED
        BY <1>4, <2>2, <3>1, <3>2
    <2>3. CASE i \in DOMAIN sent
      <3>1. /\ sent[i].gate \in Gates /\ sent[i].first /\ sent[i].gate # g
            /\ \A j \in DOMAIN sent : sent[i].gate = sent[j].gate => i = j
        BY <1>4, <2>1, <2>3 DEF IndInv, OpensAtMostOnce
      <3> QED
        BY <1>4, <1>5, <2>3, <3>1
    <2> QED
      BY <1>4, <2>2, <2>3
  <1>9. PublicOnlyAsBound'
    <2> DEFINE AsBound(r, gs) ==
          IF r.host \in PUBLIC_HOSTS
          THEN /\ r.gate \in Gates /\ r.write.genuine
               /\ gs[r.gate].bound = [host |-> r.host, room |-> r.write.room,
                                      text |-> r.write.text, nonce |-> r.write.nonce]
          ELSE r.host \in LOOPBACK_HOSTS /\ r.gate = NoGate /\ r.enabled
    <2>1. AsBound(s, gate')
      BY <1>1, <1>2, <1>5, <1>6, PublicGateAssumption
         DEF SendSignedMessage, WriteAllowed
    <2>2. \A i \in DOMAIN sent : AsBound(sent[i], gate')
      <3> SUFFICES ASSUME NEW i \in DOMAIN sent PROVE AsBound(sent[i], gate')
        OBVIOUS
      <3>1. AsBound(sent[i], gate)
        BY DEF IndInv, PublicOnlyAsBound
      <3>2. sent[i].host \in PUBLIC_HOSTS => gate[sent[i].gate].made
        BY <3>1 DEF IndInv, SentWasTried, TriedIsClosed
      <3> QED
        BY <1>2, <3>1, <3>2
    <2> HIDE DEF AsBound
    <2>3. \A i \in DOMAIN sent' : AsBound(sent'[i], gate')
      BY <1>4, <2>1, <2>2
    <2> QED
      BY <2>3 DEF AsBound, PublicOnlyAsBound
  <1> QED
    BY <1>2, <1>3, <1>7, <1>8, <1>9 DEF IndInv

LEMMA NextInv ==
  ASSUME IndInv, [Next]_vars
  PROVE  IndInv'
  <1>1. CASE UNCHANGED vars
    BY <1>1 DEF vars, IndInv, TypeOK, TriedIsClosed, SentWasTried, OpensAtMostOnce,
                PublicOnlyAsBound
  <1>2. ASSUME NEW g \in Gates, NEW b \in Binding, NEW confirm \in BOOLEAN,
               MakeGate(g, b, confirm)
        PROVE  IndInv'
    BY <1>2, MakeGateInv
  <1>3. ASSUME NEW g \in Gates \cup {NoGate}, NEW host \in Hosts, NEW w \in SignedWrite,
               NEW consumed \in BOOLEAN, Usable(g), Attempt(g, consumed), sent' = sent
        PROVE  IndInv'
    <2>1. /\ gate' \in [Gates -> {Unmade} \cup Made] /\ enabled' = enabled
          /\ tried' = tried \cup ({g} \ {NoGate})
          /\ TriedIsClosed'
          /\ \A h \in Gates : gate[h].made => gate'[h].bound = gate[h].bound
      BY <1>3, AttemptCloses DEF IndInv
    <2>2. TypeOK'
      BY <1>3, <2>1 DEF IndInv, TypeOK
    <2> QED
      BY <1>3, <2>1, <2>2, NothingSent
  <1>4. ASSUME NEW g \in Gates \cup {NoGate}, NEW host \in Hosts, NEW w \in SignedWrite,
               Refuse(g, host, w) \/ RateLimited(g, host, w)
        PROVE  IndInv'
    BY <1>3, <1>4 DEF Refuse, RateLimited
  <1>5. ASSUME NEW g \in Gates \cup {NoGate}, NEW host \in Hosts, NEW w \in SignedWrite,
               SendSignedMessage(g, host, w)
        PROVE  IndInv'
    BY <1>5, SendInv
  <1>6. CASE ToggleLocalWrite
    BY <1>6 DEF ToggleLocalWrite, IndInv, TypeOK, TriedIsClosed, SentWasTried,
                OpensAtMostOnce, PublicOnlyAsBound
  <1> QED
    BY <1>1, <1>2, <1>4, <1>5, <1>6 DEF Next

LEMMA Invariant == Spec => []IndInv
  BY InitInv, NextInv, PTL DEF Spec

(* A one-time gate lets out at most one request, and only by the first call  *)
(* it is given to (client.py, OneTimePublicWriteGate and the `finally` of    *)
(* send_signed_message).                                                     *)
THEOREM GateOpensOnce == Spec => []OpensAtMostOnce
  <1>1. IndInv => OpensAtMostOnce
    BY DEF IndInv
  <1> QED
    BY <1>1, Invariant, PTL

(* Whatever reached a public host was what a gate was bound to, and anything *)
(* else stayed on this machine (client.py, _assert_write_allowed).           *)
THEOREM PublicAsBound == Spec => []PublicOnlyAsBound
  <1>1. IndInv => PublicOnlyAsBound
    BY DEF IndInv
  <1> QED
    BY <1>1, Invariant, PTL
=============================================================================
