--------------------------- MODULE OutboundProofs ---------------------------
(***************************************************************************)
(* Theorems of Outbound, for every set of processes and configurations and *)
(* every number of writes.                                                 *)
(*                                                                         *)
(* The inductive invariant follows a nonce through its write.  A process   *)
(* in a write is the only one with its nonce; its intent row, once there,  *)
(* is the only one of that nonce and unresolved; the request of a nonce is *)
(* on its way, or stored, but never both and never twice; and an answer is *)
(* about the nonce its reader waits for.                                   *)
(***************************************************************************)
EXTENDS Outbound, TLAPS

Phases == {"idle", "intend", "guard", "send", "wait", "record"}
Details == {"none", "refused", "transport", "rejected"}

Row == [type : {"intent", "result", "failed"}, ref : Nat, nonce : Nat,
        detail : Details, seq : Nat]

Reply == [kind : {"none", "accepted", "odd", "rejected"}, seq : Nat, whole : BOOLEAN]

TypeInv ==
    /\ last \in Nat
    /\ ledger \in Seq(Row)
    /\ pc \in [Clients -> Phases]
    /\ write \in [Clients -> Nat]
    /\ intent \in [Clients -> Nat]
    /\ outcome \in [Clients -> [type : {"none", "result", "failed"}, detail : Details,
                                seq : Nat]]
    /\ net \subseteq [from : Clients, nonce : Nat]
    /\ room \in Seq(Nat)
    /\ open \in [Clients -> Nat]
    /\ reply \in [Clients -> Reply]

(* The request of this nonce is on its way, or was stored. *)
InNet(n) == \E r \in net : r.nonce = n
InRoom(n) == \E s \in DOMAIN room : room[s] = n

(* The intent of the write in hand: in the ledger, and not yet resolved. *)
HasIntent(c) ==
    /\ intent[c] \in DOMAIN ledger
    /\ ledger[intent[c]].type = "intent" /\ ledger[intent[c]].nonce = write[c]
    /\ \A j \in DOMAIN ledger : ledger[j].ref # intent[c]

(* What an answer on its way to c says. *)
ReplyTrue(c) ==
    /\ reply[c].kind = "accepted" =>
          reply[c].seq \in DOMAIN room /\ room[reply[c].seq] = write[c]
    /\ reply[c].kind \in {"none", "odd"} => reply[c].seq = 0

(* What c is about to record. *)
OutcomeTrue(c) ==
    /\ outcome[c].type \in {"result", "failed"}
    /\ outcome[c].type = "result" => outcome[c].detail = "none"
    /\ outcome[c].type = "result" /\ outcome[c].seq # 0 =>
          outcome[c].seq \in DOMAIN room /\ room[outcome[c].seq] = write[c]
    /\ outcome[c].detail = "refused" => ~InNet(write[c]) /\ ~InRoom(write[c])

ClientInv(c) ==
    /\ pc[c] = "idle" => write[c] = 0
    /\ pc[c] # "idle" => write[c] \in 1 .. last
    /\ pc[c] = "intend" => ~IntentOf(write[c])
    /\ pc[c] \in {"guard", "send", "wait", "record"} => HasIntent(c)
    /\ pc[c] \in {"guard", "send"} => ~InNet(write[c]) /\ ~InRoom(write[c])
    /\ pc[c] = "wait" => open[c] = write[c] /\ ReplyTrue(c)
    /\ pc[c] # "wait" => open[c] = 0 /\ reply[c] = NoReply
    /\ pc[c] = "record" => OutcomeTrue(c)

ClientsApart == \A c, d \in Clients :
    pc[c] # "idle" /\ write[c] = write[d] => c = d

(* An intent has a nonce of its own, and refers to nothing. *)
IntentsApart ==
    /\ \A i \in DOMAIN ledger : ledger[i].type = "intent" =>
          ledger[i].nonce \in 1 .. last /\ ledger[i].ref = 0 /\ ledger[i].detail = "none"
    /\ \A i, j \in DOMAIN ledger :
          ledger[i].type = "intent" /\ ledger[j].type = "intent"
          /\ ledger[i].nonce = ledger[j].nonce => i = j

(* A nonce is in one request, which is on its way or stored. *)
RequestsApart ==
    /\ \A r \in net : ~InRoom(r.nonce)
    /\ \A r, q \in net : r.nonce = q.nonce => r = q

IndInv ==
    /\ TypeInv
    /\ \A c \in Clients : ClientInv(c)
    /\ ClientsApart
    /\ IntentsApart
    /\ RequestsApart
    /\ IntentBeforeNetwork
    /\ OutcomesResolveOneIntent
    /\ ResultSeqTrue
    /\ RefusedNeverLands

(* What the other processes have in hand stays as it is. *)
OnlyMoves(c) == \A d \in Clients \ {c} :
    /\ pc'[d] = pc[d] /\ write'[d] = write[d] /\ intent'[d] = intent[d]
    /\ outcome'[d] = outcome[d] /\ open'[d] = open[d] /\ reply'[d] = reply[d]

(* A row more at the end of the ledger. *)
LEMMA LedgerGrows ==
  ASSUME ledger \in Seq(Row), NEW row, ledger' = Append(ledger, row)
  PROVE  /\ Len(ledger) \in Nat /\ DOMAIN ledger = 1 .. Len(ledger)
         /\ DOMAIN ledger' = 1 .. Len(ledger) + 1 /\ Len(ledger') = Len(ledger) + 1
         /\ \A i \in DOMAIN ledger : ledger'[i] = ledger[i]
         /\ ledger'[Len(ledger) + 1] = row
  OBVIOUS

LEMMA InitInv == Init => IndInv
  <1> SUFFICES ASSUME Init PROVE IndInv
    OBVIOUS
  <1>1. TypeInv
    BY DEF Init, tcInit, TypeInv, Phases, Details, NoOutcome, NoReply, Reply
  <1>2. \A c \in Clients : ClientInv(c)
    BY DEF Init, tcInit, ClientInv
  <1> QED
    BY <1>1, <1>2 DEF Init, tcInit, IndInv, ClientsApart, IntentsApart, RequestsApart,
       IntentBeforeNetwork, OutcomesResolveOneIntent, ResultSeqTrue, RefusedNeverLands

-----------------------------------------------------------------------------
(* Steps of one process that touch neither the ledger nor the requests *)

LEMMA LocalStep ==
  ASSUME IndInv, TypeInv', UNCHANGED <<last, ledger, net, room>>,
         NEW c \in Clients, OnlyMoves(c), ClientInv(c)',
         pc'[c] = "idle" \/ (pc[c] # "idle" /\ write'[c] = write[c])
  PROVE  IndInv'
  <1>1. ASSUME NEW d \in Clients, d # c PROVE ClientInv(d)'
    <2>1. ClientInv(d)
      BY DEF IndInv
    <2>2. /\ pc'[d] = pc[d] /\ write'[d] = write[d] /\ intent'[d] = intent[d]
          /\ outcome'[d] = outcome[d] /\ open'[d] = open[d] /\ reply'[d] = reply[d]
      BY <1>1 DEF OnlyMoves
    <2> QED
      BY <2>1, <2>2 DEF ClientInv, IntentOf, HasIntent, ReplyTrue, OutcomeTrue,
         InNet, InRoom, NoReply
  <1>2. ClientsApart'
    <2> SUFFICES ASSUME NEW d \in Clients, NEW e \in Clients,
                        pc'[d] # "idle", write'[d] = write'[e]
                 PROVE  d = e
      BY DEF ClientsApart
    <2>1. write'[d] # 0
      BY <1>1 DEF ClientInv
    <2>2. pc'[e] # "idle"
      BY <1>1, <2>1 DEF ClientInv
    <2> QED
      BY <2>2 DEF OnlyMoves, IndInv, ClientsApart
  <1>3. /\ IntentsApart' /\ RequestsApart' /\ IntentBeforeNetwork'
        /\ OutcomesResolveOneIntent' /\ ResultSeqTrue' /\ RefusedNeverLands'
    BY DEF IndInv, IntentsApart, RequestsApart, IntentBeforeNetwork, IntentOf, InRoom,
       OutcomesResolveOneIntent, ResultSeqTrue, RefusedNeverLands
  <1> QED
    BY <1>1, <1>2, <1>3 DEF IndInv

(* The write of c ended. *)
LEMMA OverIs ==
  ASSUME TypeInv, NEW c \in Clients, Over(c)
  PROVE  /\ pc' \in [Clients -> Phases] /\ write' \in [Clients -> Nat]
         /\ intent' \in [Clients -> Nat]
         /\ outcome' \in [Clients -> [type : {"none", "result", "failed"},
                                      detail : Details, seq : Nat]]
         /\ pc'[c] = "idle" /\ write'[c] = 0
         /\ \A d \in Clients \ {c} :
               /\ pc'[d] = pc[d] /\ write'[d] = write[d] /\ intent'[d] = intent[d]
               /\ outcome'[d] = outcome[d]
  BY DEF TypeInv, Over, Phases, Details, NoOutcome

(* c is to record this outcome. *)
LEMMA ToRecord ==
  ASSUME TypeInv, NEW c \in Clients, NEW o,
         o \in [type : {"none", "result", "failed"}, detail : Details, seq : Nat],
         pc' = [pc EXCEPT ![c] = "record"], outcome' = [outcome EXCEPT ![c] = o]
  PROVE  /\ pc' \in [Clients -> Phases]
         /\ outcome' \in [Clients -> [type : {"none", "result", "failed"},
                                      detail : Details, seq : Nat]]
         /\ pc'[c] = "record" /\ outcome'[c] = o
         /\ \A d \in Clients \ {c} : pc'[d] = pc[d] /\ outcome'[d] = outcome[d]
  BY DEF TypeInv, Phases

LEMMA HangUpIs ==
  ASSUME TypeInv, NEW c \in Clients, HangUp(c)
  PROVE  /\ open' \in [Clients -> Nat]
         /\ reply' \in [Clients -> Reply]
         /\ open'[c] = 0 /\ reply'[c] = NoReply
         /\ \A d \in Clients \ {c} : open'[d] = open[d] /\ reply'[d] = reply[d]
  BY DEF TypeInv, HangUp, NoReply, Reply

(* A write that ends early, by an exception, a locked ledger or a death. *)
LEMMA OverInv ==
  ASSUME IndInv, NEW c \in Clients, Over(c),
         HangUp(c) \/ (pc[c] # "wait" /\ UNCHANGED tcVars), UNCHANGED <<last, ledger>>
  PROVE  IndInv'
  <1>1. ClientInv(c) /\ TypeInv
    BY DEF IndInv
  <1>2. /\ open' \in [Clients -> Nat]
        /\ reply' \in [Clients -> Reply]
        /\ open'[c] = 0 /\ reply'[c] = NoReply
        /\ \A d \in Clients \ {c} : open'[d] = open[d] /\ reply'[d] = reply[d]
        /\ UNCHANGED <<net, room>>
    <2>1. CASE HangUp(c)
      BY <1>1, <2>1, HangUpIs DEF HangUp
    <2>2. CASE pc[c] # "wait" /\ UNCHANGED tcVars
      BY <1>1, <2>2 DEF tcVars, ClientInv, TypeInv
    <2> QED
      BY <2>1, <2>2
  <1>3. TypeInv' /\ OnlyMoves(c)
    BY <1>1, <1>2, OverIs DEF TypeInv, OnlyMoves
  <1>4. pc'[c] = "idle" /\ write'[c] = 0
    BY <1>1, OverIs
  <1>5. ClientInv(c)'
    BY <1>2, <1>4 DEF ClientInv
  <1> QED
    BY <1>2, <1>3, <1>4, <1>5, LocalStep

(* A write that came to an outcome: refused, not connected, answered, late. *)
LEMMA OutcomeInv ==
  ASSUME IndInv, NEW c \in Clients, NEW o,
         o \in [type : {"none", "result", "failed"}, detail : Details, seq : Nat],
         pc[c] \in {"guard", "send", "wait"},
         pc' = [pc EXCEPT ![c] = "record"], outcome' = [outcome EXCEPT ![c] = o],
         UNCHANGED <<last, ledger, write, intent>>,
         HangUp(c) \/ (pc[c] # "wait" /\ UNCHANGED tcVars),
         o.type \in {"result", "failed"},
         o.type = "result" => o.detail = "none",
         o.type = "result" /\ o.seq # 0 => o.seq \in DOMAIN room /\ room[o.seq] = write[c],
         o.detail = "refused" => ~InNet(write[c]) /\ ~InRoom(write[c])
  PROVE  IndInv'
  <1>1. ClientInv(c) /\ TypeInv
    BY DEF IndInv
  <1>2. /\ open' \in [Clients -> Nat]
        /\ reply' \in [Clients -> Reply]
        /\ open'[c] = 0 /\ reply'[c] = NoReply
        /\ \A d \in Clients \ {c} : open'[d] = open[d] /\ reply'[d] = reply[d]
        /\ UNCHANGED <<net, room>>
    <2>1. CASE HangUp(c)
      BY <1>1, <2>1, HangUpIs DEF HangUp
    <2>2. CASE pc[c] # "wait" /\ UNCHANGED tcVars
      BY <1>1, <2>2 DEF tcVars, ClientInv, TypeInv
    <2> QED
      BY <2>1, <2>2
  <1>3. /\ TypeInv' /\ OnlyMoves(c)
        /\ pc'[c] = "record" /\ outcome'[c] = o
    BY <1>1, <1>2, ToRecord DEF TypeInv, OnlyMoves
  <1>4. HasIntent(c)'
    BY <1>1 DEF ClientInv, HasIntent
  <1>5. OutcomeTrue(c)'
    BY <1>2, <1>3 DEF OutcomeTrue, InNet, InRoom
  <1>6. write[c] \in 1 .. last
    BY <1>1 DEF ClientInv
  <1>7. ClientInv(c)'
    BY <1>2, <1>3, <1>4, <1>5, <1>6 DEF ClientInv
  <1> QED
    BY <1>2, <1>3, <1>7, LocalStep

LEMMA GuardInv ==
  ASSUME IndInv, NEW c \in Clients, Guard(c)
  PROVE  IndInv'
  <1>1. ClientInv(c) /\ TypeInv /\ pc[c] = "guard"
    BY DEF IndInv, Guard
  <1>2. CASE WriteAllowed(config[c])
    <2>1. /\ pc' = [pc EXCEPT ![c] = "send"]
          /\ UNCHANGED <<write, intent, outcome, tcVars, last, ledger>>
      BY <1>2 DEF Guard
    <2>2. /\ TypeInv' /\ OnlyMoves(c) /\ pc'[c] = "send"
      BY <1>1, <2>1 DEF TypeInv, Phases, OnlyMoves, tcVars
    <2>3. ClientInv(c)'
      BY <1>1, <2>1, <2>2 DEF ClientInv, HasIntent, InNet, InRoom, tcVars, NoReply
    <2> QED
      BY <1>1, <2>1, <2>2, <2>3, LocalStep DEF tcVars
  <1>3. CASE ~WriteAllowed(config[c])
    <2>1. /\ Fail(c, "refused") /\ UNCHANGED <<tcVars, last, ledger>>
      BY <1>3 DEF Guard
    <2>2. ~InNet(write[c]) /\ ~InRoom(write[c])
      BY <1>1 DEF ClientInv
    <2>3. Failed("refused") \in [type : {"none", "result", "failed"},
                                 detail : Details, seq : Nat]
      BY DEF Failed, Details
    <2>4. Failed("refused").type = "failed" /\ Failed("refused").detail = "refused"
      BY DEF Failed
    <2> QED
      BY <1>1, <2>1, <2>2, <2>3, <2>4, OutcomeInv DEF Fail
  <1> QED
    BY <1>2, <1>3

(* No answer: the request never left, or nothing came back in time. *)
LEMMA TransportInv ==
  ASSUME IndInv, NEW c \in Clients, ConnectError(c) \/ Timeout(c)
  PROVE  IndInv'
  <1>1. Failed("transport") \in [type : {"none", "result", "failed"},
                                 detail : Details, seq : Nat]
    BY DEF Failed, Details
  <1>2. Failed("transport").type = "failed" /\ Failed("transport").detail = "transport"
    BY DEF Failed
  <1>3. /\ pc[c] \in {"guard", "send", "wait"} /\ Fail(c, "transport")
        /\ UNCHANGED <<last, ledger>>
        /\ HangUp(c) \/ (pc[c] # "wait" /\ UNCHANGED tcVars)
    BY DEF ConnectError, Timeout
  <1> QED
    BY <1>1, <1>2, <1>3, OutcomeInv DEF Fail

LEMMA RespondInv ==
  ASSUME IndInv, NEW c \in Clients, Respond(c)
  PROVE  IndInv'
  <1>1. /\ ReplyTrue(c) /\ TypeInv /\ pc[c] = "wait" /\ HangUp(c)
        /\ UNCHANGED <<last, ledger>>
    BY DEF IndInv, Respond, ClientInv
  <1>2. /\ reply[c].kind \in {"none", "accepted", "odd", "rejected"}
        /\ reply[c].seq \in Nat
    BY <1>1 DEF TypeInv, Reply
  <1>3. CASE reply[c].kind = "rejected"
    <2>1. Failed("rejected") \in [type : {"none", "result", "failed"},
                                  detail : Details, seq : Nat]
      BY DEF Failed, Details
    <2>2. Failed("rejected").type = "failed" /\ Failed("rejected").detail = "rejected"
      BY DEF Failed
    <2>3. Fail(c, "rejected")
      BY <1>3 DEF Respond
    <2> QED
      BY <1>1, <2>1, <2>2, <2>3, OutcomeInv DEF Fail
  <1>4. CASE reply[c].kind # "rejected"
    <2> DEFINE o == Result(reply[c].seq)
    <2>1. o \in [type : {"none", "result", "failed"}, detail : Details, seq : Nat]
      BY <1>2 DEF Result, Details
    <2>2. o.type = "result" /\ o.detail = "none" /\ o.seq = reply[c].seq
      BY DEF Result
    <2>3. o.seq # 0 => o.seq \in DOMAIN room /\ room[o.seq] = write[c]
      BY <1>1, <1>2, <1>4, <2>2 DEF ReplyTrue
    <2>4. /\ pc' = [pc EXCEPT ![c] = "record"] /\ outcome' = [outcome EXCEPT ![c] = o]
          /\ UNCHANGED <<write, intent>>
      BY <1>4 DEF Respond
    <2> HIDE DEF o
    <2> QED
      BY <1>1, <2>1, <2>2, <2>3, <2>4, OutcomeInv
  <1> QED
    BY <1>3, <1>4

-----------------------------------------------------------------------------
(* Steps of one process that issue a nonce, write the ledger or send *)

(* A nonce above everything in use. *)
LEMMA ReserveInv ==
  ASSUME IndInv, NEW c \in Clients, NEW cfg, Reserve(c, cfg)
  PROVE  IndInv'
  <1>1. /\ TypeInv /\ ClientInv(c) /\ pc[c] = "idle"
        /\ last' = last + 1 /\ last \in Nat
        /\ write' = [write EXCEPT ![c] = last + 1]
        /\ pc' = [pc EXCEPT ![c] = "intend"]
        /\ UNCHANGED <<ledger, intent, outcome, net, room, open, reply>>
    BY DEF Reserve, IndInv, TypeInv, tcVars
  <1>2. /\ TypeInv' /\ pc'[c] = "intend" /\ write'[c] = last + 1
        /\ \A d \in Clients \ {c} : pc'[d] = pc[d] /\ write'[d] = write[d]
    BY <1>1 DEF TypeInv, Phases
  <1>3. ~IntentOf(write'[c])
    BY <1>1, <1>2 DEF IndInv, IntentsApart, IntentOf
  <1>4. ClientInv(c)'
    BY <1>1, <1>2, <1>3 DEF ClientInv, IntentOf, NoReply
  <1>5. ASSUME NEW d \in Clients \ {c} PROVE ClientInv(d)'
    <2>1. ClientInv(d)
      BY DEF IndInv
    <2> QED
      BY <1>1, <1>2, <2>1 DEF ClientInv, IntentOf, HasIntent, ReplyTrue, OutcomeTrue,
         InNet, InRoom, NoReply
  <1>6. ClientsApart'
    <2>1. \A d \in Clients : write[d] <= last
      BY <1>1 DEF IndInv, ClientInv
    <2>2. \A d \in Clients \ {c} : write'[d] # write'[c]
      BY <1>1, <1>2, <2>1 DEF TypeInv
    <2>3. ClientsApart
      BY DEF IndInv
    <2> QED
      BY <1>2, <2>2, <2>3 DEF ClientsApart
  <1>7. IntentsApart'
    BY <1>1 DEF IndInv, IntentsApart
  <1>8. /\ RequestsApart' /\ IntentBeforeNetwork'
        /\ OutcomesResolveOneIntent' /\ ResultSeqTrue' /\ RefusedNeverLands'
    BY <1>1 DEF IndInv, RequestsApart, IntentBeforeNetwork, IntentOf, InRoom,
       OutcomesResolveOneIntent, ResultSeqTrue, RefusedNeverLands
  <1> QED
    BY <1>2, <1>4, <1>5, <1>6, <1>7, <1>8 DEF IndInv

LEMMA RecordIntentInv ==
  ASSUME IndInv, NEW c \in Clients, RecordIntent(c)
  PROVE  IndInv'
  <1> DEFINE row == IntentRow(c)
  <1>1. /\ TypeInv /\ ClientInv(c) /\ pc[c] = "intend"
        /\ ledger \in Seq(Row) /\ ledger' = Append(ledger, row)
        /\ intent' = [intent EXCEPT ![c] = Len(ledger')]
        /\ pc' = [pc EXCEPT ![c] = "guard"]
        /\ UNCHANGED <<last, write, outcome, net, room, open, reply>>
    BY DEF RecordIntent, IndInv, TypeInv, tcVars
  <1>2. /\ row.type = "intent" /\ row.ref = 0 /\ row.nonce = write[c]
        /\ row.detail = "none" /\ row \in Row
    BY <1>1 DEF IntentRow, Row, Details, TypeInv
  <1> HIDE DEF row
  <1>3. /\ Len(ledger) \in Nat /\ DOMAIN ledger = 1 .. Len(ledger)
        /\ DOMAIN ledger' = 1 .. Len(ledger) + 1 /\ Len(ledger') = Len(ledger) + 1
        /\ \A i \in DOMAIN ledger : ledger'[i] = ledger[i]
        /\ ledger'[Len(ledger) + 1] = row
    BY <1>1, LedgerGrows
  <1>4. /\ pc'[c] = "guard" /\ intent'[c] = Len(ledger) + 1
        /\ \A d \in Clients \ {c} : pc'[d] = pc[d] /\ intent'[d] = intent[d]
    BY <1>1, <1>3 DEF TypeInv
  <1>5. TypeInv'
    <2>1. ledger' \in Seq(Row)
      BY <1>1, <1>2
    <2>2. pc' \in [Clients -> Phases]
      BY <1>1 DEF TypeInv, Phases
    <2>3. intent' \in [Clients -> Nat]
      BY <1>1, <1>3 DEF TypeInv
    <2> QED
      BY <1>1, <2>1, <2>2, <2>3 DEF TypeInv
  <1>6. write[c] \in 1 .. last /\ ~IntentOf(write[c])
    BY <1>1 DEF ClientInv
  <1>7. \A j \in DOMAIN ledger : ledger[j].ref <= Len(ledger) /\ ledger[j].ref \in Nat
    <2> SUFFICES ASSUME NEW j \in DOMAIN ledger
                 PROVE  ledger[j].ref <= Len(ledger) /\ ledger[j].ref \in Nat
      OBVIOUS
    <2>1. ledger[j].type \in {"intent", "result", "failed"}
      <3>1. ledger[j] \in Row
        BY <1>1
      <3> QED
        BY <3>1 DEF Row
    <2>2. CASE ledger[j].type = "intent"
      BY <1>3, <2>2 DEF IndInv, IntentsApart
    <2>3. CASE ledger[j].type \in {"result", "failed"}
      <3>1. ledger[j].ref \in 1 .. j - 1
        BY <2>3 DEF IndInv, OutcomesResolveOneIntent
      <3> QED
        BY <1>3, <3>1
    <2> QED
      BY <2>1, <2>2, <2>3
  <1>8. HasIntent(c)'
    <2>1. \A j \in DOMAIN ledger' : ledger'[j].ref # Len(ledger) + 1
      BY <1>2, <1>3, <1>7
    <2> QED
      BY <1>1, <1>2, <1>3, <1>4, <2>1 DEF HasIntent
  <1>9. ~InNet(write[c]) /\ ~InRoom(write[c])
    BY <1>6 DEF IndInv, IntentBeforeNetwork, InNet, InRoom
  <1>10. ClientInv(c)'
    BY <1>1, <1>4, <1>6, <1>8, <1>9 DEF ClientInv, InNet, InRoom, NoReply
  <1>11. ASSUME NEW d \in Clients \ {c} PROVE ClientInv(d)'
    <2>1. ClientInv(d)
      BY DEF IndInv
    <2>2. pc[d] = "intend" => write[d] # write[c]
      BY <1>1, <1>11 DEF IndInv, ClientsApart
    <2>3. pc[d] = "intend" => ~IntentOf(write[d])'
      BY <1>1, <1>2, <1>3, <2>1, <2>2 DEF ClientInv, IntentOf
    <2>4. HasIntent(d) => HasIntent(d)'
      BY <1>1, <1>2, <1>3, <1>4 DEF HasIntent
    <2> QED
      BY <1>1, <1>4, <2>1, <2>3, <2>4 DEF ClientInv, ReplyTrue, OutcomeTrue,
         InNet, InRoom, NoReply
  <1>12. ClientsApart'
    BY <1>1, <1>4 DEF IndInv, ClientsApart
  <1>13. IntentsApart'
    <2>1. \A i \in DOMAIN ledger' : ledger'[i].type = "intent" =>
             ledger'[i].nonce \in 1 .. last /\ ledger'[i].ref = 0 /\ ledger'[i].detail = "none"
      BY <1>2, <1>3, <1>6 DEF IndInv, IntentsApart
    <2>2. \A i \in DOMAIN ledger : ledger[i].type = "intent" => ledger[i].nonce # row.nonce
      BY <1>2, <1>6 DEF IntentOf
    <2>3. ASSUME NEW i \in DOMAIN ledger', NEW j \in DOMAIN ledger',
                 ledger'[i].type = "intent", ledger'[j].type = "intent",
                 ledger'[i].nonce = ledger'[j].nonce
          PROVE  i = j
      <3>1. CASE i \in DOMAIN ledger /\ j \in DOMAIN ledger
        BY <1>3, <2>3, <3>1 DEF IndInv, IntentsApart
      <3>2. CASE i = Len(ledger) + 1 \/ j = Len(ledger) + 1
        BY <1>3, <2>2, <2>3, <3>2
      <3> QED
        BY <1>3, <3>1, <3>2
    <2> QED
      BY <1>1, <2>1, <2>3 DEF IntentsApart
  <1>14. RequestsApart' /\ IntentBeforeNetwork'
    <2>1. \A n : IntentOf(n) => IntentOf(n)'
      BY <1>3 DEF IntentOf
    <2> QED
      BY <1>1, <2>1 DEF IndInv, RequestsApart, IntentBeforeNetwork, InRoom
  <1>15. OutcomesResolveOneIntent'
    <2> SUFFICES ASSUME NEW j \in DOMAIN ledger', ledger'[j].type \in {"result", "failed"}
                 PROVE  /\ ledger'[j].ref \in 1 .. j - 1
                        /\ ledger'[ledger'[j].ref].type = "intent"
                        /\ ledger'[ledger'[j].ref].nonce = ledger'[j].nonce
                        /\ \A k \in DOMAIN ledger' : ledger'[k].ref = ledger'[j].ref => k = j
      BY DEF OutcomesResolveOneIntent
    <2>1. j \in DOMAIN ledger /\ ledger'[j] = ledger[j]
      BY <1>2, <1>3
    <2>2. /\ ledger[j].ref \in 1 .. j - 1
          /\ ledger[ledger[j].ref].type = "intent"
          /\ ledger[ledger[j].ref].nonce = ledger[j].nonce
          /\ \A k \in DOMAIN ledger : ledger[k].ref = ledger[j].ref => k = j
      BY <2>1 DEF IndInv, OutcomesResolveOneIntent
    <2>3. ledger[j].ref \in DOMAIN ledger
      BY <1>3, <2>1, <2>2
    <2> QED
      BY <1>2, <1>3, <2>1, <2>2, <2>3
  <1>16. ResultSeqTrue' /\ RefusedNeverLands'
    <2>1. \A j \in DOMAIN ledger' :
             \/ j \in DOMAIN ledger /\ ledger'[j] = ledger[j]
             \/ ledger'[j].type = "intent" /\ ledger'[j].detail = "none"
      <3> SUFFICES ASSUME NEW j \in DOMAIN ledger', j \notin DOMAIN ledger
                   PROVE  ledger'[j] = row
        BY <1>2, <1>3
      <3> QED
        BY <1>3
    <2> QED
      BY <1>1, <2>1 DEF IndInv, ResultSeqTrue, RefusedNeverLands
  <1> QED
    BY <1>5, <1>10, <1>11, <1>12, <1>13, <1>14, <1>15, <1>16 DEF IndInv

(* The request leaves: its nonce is in no other, and no outcome names it. *)
LEMMA SendInv ==
  ASSUME IndInv, NEW c \in Clients, Send(c)
  PROVE  IndInv'
  <1> DEFINE r == [from |-> c, nonce |-> write[c]]
  <1>1. /\ TypeInv /\ ClientInv(c) /\ pc[c] = "send"
        /\ net' = net \cup {r} /\ open' = [open EXCEPT ![c] = write[c]]
        /\ pc' = [pc EXCEPT ![c] = "wait"]
        /\ UNCHANGED <<last, ledger, write, intent, outcome, room, reply>>
    BY DEF Send, Request, IndInv
  <1>2. r.nonce = write[c] /\ r \in [from : Clients, nonce : Nat]
    BY <1>1 DEF TypeInv
  <1> HIDE DEF r
  <1>3. /\ TypeInv' /\ pc'[c] = "wait" /\ open'[c] = write[c]
        /\ \A d \in Clients \ {c} : pc'[d] = pc[d] /\ open'[d] = open[d]
    BY <1>1, <1>2 DEF TypeInv, Phases
  <1>4. \A n : InNet(n)' => InNet(n) \/ n = write[c]
    BY <1>1, <1>2 DEF InNet
  <1>5. /\ write[c] \in 1 .. last /\ HasIntent(c) /\ reply[c] = NoReply
        /\ ~InNet(write[c]) /\ ~InRoom(write[c])
    BY <1>1 DEF ClientInv
  <1>6. ClientInv(c)'
    <2>1. ReplyTrue(c)'
      BY <1>1, <1>5 DEF ReplyTrue, NoReply
    <2> QED
      BY <1>1, <1>3, <1>5, <2>1 DEF ClientInv, HasIntent
  <1>7. ASSUME NEW d \in Clients \ {c} PROVE ClientInv(d)'
    <2>1. ClientInv(d)
      BY DEF IndInv
    <2>2. write[d] # write[c]
      BY <1>1, <1>7 DEF IndInv, ClientsApart
    <2>3. /\ InNet(write[d])' => InNet(write[d])
          /\ InRoom(write[d])' => InRoom(write[d])
      BY <1>1, <1>2, <2>2 DEF InNet, InRoom
    <2>4. /\ ReplyTrue(d) => ReplyTrue(d)'
          /\ OutcomeTrue(d) => OutcomeTrue(d)'
      BY <1>1, <2>3 DEF ReplyTrue, OutcomeTrue
    <2> QED
      BY <1>1, <1>3, <2>1, <2>3, <2>4 DEF ClientInv, IntentOf, HasIntent, NoReply
  <1>8. ClientsApart' /\ IntentsApart' /\ OutcomesResolveOneIntent' /\ ResultSeqTrue'
    BY <1>1, <1>3 DEF IndInv, ClientsApart, IntentsApart, OutcomesResolveOneIntent,
                      ResultSeqTrue
  <1>9. RequestsApart'
    BY <1>1, <1>2, <1>5 DEF IndInv, RequestsApart, InNet, InRoom
  <1>10. IntentBeforeNetwork'
    <2>1. IntentOf(write[c])
      BY <1>5 DEF HasIntent, IntentOf
    <2> QED
      BY <1>1, <1>2, <2>1 DEF IndInv, IntentBeforeNetwork, IntentOf
  <1>11. RefusedNeverLands'
    <2>1. ASSUME NEW j \in DOMAIN ledger, ledger[j].detail = "refused"
          PROVE  ledger[j].nonce # write[c]
      <3>1. ledger[j] \in Row
        BY <1>1 DEF TypeInv
      <3>2. ledger[j].type # "intent"
        BY <2>1 DEF IndInv, IntentsApart
      <3>3. /\ ledger[j].ref \in 1 .. j - 1
            /\ ledger[ledger[j].ref].type = "intent"
            /\ ledger[ledger[j].ref].nonce = ledger[j].nonce
        BY <3>1, <3>2 DEF Row, IndInv, OutcomesResolveOneIntent
      <3>4. ledger[j].ref \in DOMAIN ledger
        BY <1>1, <3>3 DEF TypeInv
      <3> QED
        BY <1>5, <3>3, <3>4 DEF HasIntent, IndInv, IntentsApart
    <2> QED
      BY <1>1, <1>2, <2>1 DEF IndInv, RefusedNeverLands
  <1> QED
    BY <1>3, <1>6, <1>7, <1>8, <1>9, <1>10, <1>11 DEF IndInv

LEMMA RecordOutcomeInv ==
  ASSUME IndInv, NEW c \in Clients, RecordOutcome(c)
  PROVE  IndInv'
  <1> DEFINE row == OutcomeRow(c)
  <1>1. /\ TypeInv /\ ClientInv(c) /\ pc[c] = "record" /\ Over(c)
        /\ ledger \in Seq(Row) /\ ledger' = Append(ledger, row)
        /\ UNCHANGED <<last, net, room, open, reply>>
    BY DEF RecordOutcome, IndInv, TypeInv, tcVars
  <1>2. HasIntent(c) /\ OutcomeTrue(c) /\ write[c] \in 1 .. last
    BY <1>1 DEF ClientInv
  <1>3. /\ row.type = outcome[c].type /\ row.ref = intent[c] /\ row.nonce = write[c]
        /\ row.detail = outcome[c].detail /\ row.seq = outcome[c].seq
        /\ row \in Row /\ row.type # "intent"
    BY <1>1, <1>2 DEF OutcomeRow, OutcomeTrue, Row, TypeInv
  <1> HIDE DEF row
  <1>4. /\ Len(ledger) \in Nat /\ DOMAIN ledger = 1 .. Len(ledger)
        /\ DOMAIN ledger' = 1 .. Len(ledger) + 1 /\ Len(ledger') = Len(ledger) + 1
        /\ \A i \in DOMAIN ledger : ledger'[i] = ledger[i]
        /\ ledger'[Len(ledger) + 1] = row
    BY <1>1, LedgerGrows
  <1>5. /\ pc'[c] = "idle" /\ write'[c] = 0
        /\ \A d \in Clients \ {c} :
              /\ pc'[d] = pc[d] /\ write'[d] = write[d] /\ intent'[d] = intent[d]
              /\ outcome'[d] = outcome[d]
    BY <1>1, OverIs
  <1>6. TypeInv'
    <2>1. ledger' \in Seq(Row)
      BY <1>1, <1>3
    <2> QED
      BY <1>1, <2>1, OverIs DEF TypeInv
  <1>7. ClientInv(c)'
    BY <1>1, <1>5 DEF ClientInv, NoReply
  <1>8. ASSUME NEW d \in Clients \ {c} PROVE ClientInv(d)'
    <2>1. ClientInv(d)
      BY DEF IndInv
    <2>2. IntentOf(write[d])' => IntentOf(write[d])
      BY <1>3, <1>4, <1>5 DEF IntentOf
    <2>3. HasIntent(d) => intent[d] # intent[c]
      BY <1>1, <1>2, <1>8 DEF HasIntent, IndInv, ClientsApart
    <2>4. HasIntent(d) => HasIntent(d)'
      BY <1>3, <1>4, <1>5, <2>3 DEF HasIntent
    <2> QED
      BY <1>1, <1>5, <2>1, <2>2, <2>4 DEF ClientInv, ReplyTrue, OutcomeTrue,
         InNet, InRoom, NoReply
  <1>9. ClientsApart'
    <2>1. \A d \in Clients \ {c} : pc[d] # "idle" => write[d] # 0
      BY DEF IndInv, ClientInv
    <2> QED
      BY <1>5, <2>1 DEF IndInv, ClientsApart
  <1>10. IntentsApart' /\ RequestsApart'
    BY <1>1, <1>3, <1>4 DEF IndInv, IntentsApart, RequestsApart, InRoom
  <1>11. IntentBeforeNetwork'
    <2>1. \A n : IntentOf(n) => IntentOf(n)'
      BY <1>4 DEF IntentOf
    <2> QED
      BY <1>1, <2>1 DEF IndInv, IntentBeforeNetwork
  <1>12. OutcomesResolveOneIntent'
    <2> SUFFICES ASSUME NEW j \in DOMAIN ledger', ledger'[j].type \in {"result", "failed"}
                 PROVE  /\ ledger'[j].ref \in 1 .. j - 1
                        /\ ledger'[ledger'[j].ref].type = "intent"
                        /\ ledger'[ledger'[j].ref].nonce = ledger'[j].nonce
                        /\ \A k \in DOMAIN ledger' : ledger'[k].ref = ledger'[j].ref => k = j
      BY DEF OutcomesResolveOneIntent
    <2>1. CASE j = Len(ledger) + 1
      BY <1>2, <1>3, <1>4, <2>1 DEF HasIntent
    <2>2. CASE j \in DOMAIN ledger
      <3>1. /\ ledger[j].ref \in 1 .. j - 1
            /\ ledger[ledger[j].ref].type = "intent"
            /\ ledger[ledger[j].ref].nonce = ledger[j].nonce
            /\ \A k \in DOMAIN ledger : ledger[k].ref = ledger[j].ref => k = j
        BY <1>4, <2>2 DEF IndInv, OutcomesResolveOneIntent
      <3>2. ledger[j].ref \in DOMAIN ledger /\ ledger[j].ref # intent[c]
        BY <1>2, <1>4, <2>2, <3>1 DEF HasIntent
      <3> QED
        BY <1>3, <1>4, <2>2, <3>1, <3>2
    <2> QED
      BY <1>4, <2>1, <2>2
  <1>13. ResultSeqTrue'
    BY <1>1, <1>2, <1>3, <1>4 DEF IndInv, ResultSeqTrue, OutcomeTrue
  <1>14. RefusedNeverLands'
    BY <1>1, <1>2, <1>3, <1>4 DEF IndInv, RefusedNeverLands, OutcomeTrue, InNet, InRoom
  <1> QED
    BY <1>6, <1>7, <1>8, <1>9, <1>10, <1>11, <1>12, <1>13, <1>14 DEF IndInv

-----------------------------------------------------------------------------
(* Steps of the network and the room *)

(* Requests leave the network, some for the room, and answers change only    *)
(* for who waits for them.                                                   *)
LEMMA NetworkStep ==
  ASSUME IndInv, TypeInv', UNCHANGED <<last, ledger, locals, open>>,
         net' \subseteq net,
         \A s \in DOMAIN room : s \in DOMAIN room' /\ room'[s] = room[s],
         \A n : InRoom(n)' => InRoom(n) \/ InNet(n),
         \A r \in net' : ~InRoom(r.nonce)',
         \A c \in Clients : reply'[c] = reply[c] \/ (pc[c] = "wait" /\ ReplyTrue(c)')
  PROVE  IndInv'
  <1>1. UNCHANGED <<pc, write, intent, outcome>>
    BY DEF locals
  <1>2. \A n : InNet(n)' => InNet(n)
    BY DEF InNet
  <1>3. ASSUME NEW c \in Clients PROVE ClientInv(c)'
    <2>1. ClientInv(c)
      BY DEF IndInv
    <2>2. InNet(write[c])' \/ InRoom(write[c])' => InNet(write[c]) \/ InRoom(write[c])
      <3>1. PICK n : n = write[c]
        OBVIOUS
      <3>2. InNet(n)' \/ InRoom(n)' => InNet(n) \/ InRoom(n)
        BY <1>2
      <3>3. write'[c] = n
        BY <1>1, <3>1
      <3> QED
        BY <3>1, <3>2, <3>3 DEF InNet, InRoom
    <2>3. ReplyTrue(c) /\ reply'[c] = reply[c] => ReplyTrue(c)'
      BY <1>1, <2>2 DEF ReplyTrue, InNet, InRoom
    <2>4. OutcomeTrue(c) => OutcomeTrue(c)'
      BY <1>1, <2>2 DEF OutcomeTrue, InNet, InRoom
    <2>5. /\ pc[c] = "wait" => ReplyTrue(c)'
          /\ pc[c] # "wait" => reply'[c] = NoReply
      BY <2>1, <2>3 DEF ClientInv
    <2>6. pc[c] \in {"guard", "send"} => ~InNet(write[c])' /\ ~InRoom(write[c])'
      BY <2>1, <2>2 DEF ClientInv
    <2>7. pc[c] \in {"guard", "send"} =>
             ~(\E r \in net' : r.nonce = write'[c]) /\ ~(\E s \in DOMAIN room' : room'[s] = write'[c])
      BY <1>1, <2>6 DEF InNet, InRoom
    <2> QED
      BY <1>1, <2>1, <2>4, <2>5, <2>7 DEF ClientInv, IntentOf, HasIntent, InNet, InRoom, NoReply
  <1>4. /\ ClientsApart' /\ IntentsApart' /\ OutcomesResolveOneIntent'
    BY <1>1 DEF IndInv, ClientsApart, IntentsApart, OutcomesResolveOneIntent
  <1>5. RequestsApart'
    BY DEF IndInv, RequestsApart
  <1>6. IntentBeforeNetwork'
    <2>1. \A n : IntentOf(n)' = IntentOf(n)
      BY DEF IntentOf
    <2>2. ASSUME NEW s \in DOMAIN room' PROVE IntentOf(room'[s])
      <3>1. InRoom(room'[s]) \/ InNet(room'[s])
        BY <2>2 DEF InRoom
      <3> QED
        BY <3>1 DEF IndInv, IntentBeforeNetwork, InRoom, InNet
    <2>3. \A r \in net' : IntentOf(r.nonce)
      BY DEF IndInv, IntentBeforeNetwork
    <2> QED
      BY <2>1, <2>2, <2>3 DEF IntentBeforeNetwork, IntentOf
  <1>7. ResultSeqTrue'
    BY DEF IndInv, ResultSeqTrue
  <1>8. RefusedNeverLands'
    <2> SUFFICES ASSUME NEW j \in DOMAIN ledger, ledger[j].detail = "refused"
                 PROVE  /\ \A s \in DOMAIN room' : room'[s] # ledger[j].nonce
                        /\ \A r \in net' : r.nonce # ledger[j].nonce
      BY DEF RefusedNeverLands
    <2>1. ~InRoom(ledger[j].nonce) /\ ~InNet(ledger[j].nonce)
      BY DEF IndInv, RefusedNeverLands, InRoom, InNet
    <2>2. \A s \in DOMAIN room' : room'[s] # ledger[j].nonce
      BY <2>1 DEF InRoom
    <2>3. \A r \in net' : r.nonce # ledger[j].nonce
      BY <2>1 DEF InNet
    <2> QED
      BY <2>2, <2>3
  <1> QED
    BY <1>3, <1>4, <1>5, <1>6, <1>7, <1>8 DEF IndInv

(* An answer goes to the process that waits for this very nonce, or to none. *)
LEMMA AnswerIs ==
  ASSUME IndInv, NEW r \in net, NEW kind \in {"accepted", "odd", "rejected"},
         NEW seq \in Nat, Answer(r, kind, seq), UNCHANGED locals,
         kind = "accepted" => seq \in DOMAIN room' /\ room'[seq] = r.nonce,
         kind = "odd" => seq = 0
  PROVE  /\ reply' \in [Clients -> Reply]
         /\ open' = open /\ net' = net \ {r}
         /\ \A c \in Clients : reply'[c] = reply[c] \/ (pc[c] = "wait" /\ ReplyTrue(c)')
  <1>1. /\ TypeInv /\ r \in [from : Clients, nonce : Nat]
        /\ open' = open /\ net' = net \ {r}
    BY DEF IndInv, TypeInv, Answer
  <1>2. CASE open[r.from] # r.nonce
    BY <1>1, <1>2 DEF Answer, TypeInv
  <1>3. CASE open[r.from] = r.nonce
    <2> DEFINE c == r.from
    <2>1. /\ reply' = [reply EXCEPT ![c] = [kind |-> kind, seq |-> seq, whole |-> FALSE]]
          /\ c \in Clients
      BY <1>1, <1>3 DEF Answer
    <2>2. r.nonce # 0
      BY <1>1 DEF IndInv, IntentBeforeNetwork, IntentOf, IntentsApart
    <2>3. pc[c] = "wait" /\ write[c] = r.nonce
      BY <1>3, <2>1, <2>2 DEF IndInv, ClientInv
    <2>4. /\ reply'[c].kind = kind /\ reply'[c].seq = seq
          /\ \A d \in Clients \ {c} : reply'[d] = reply[d]
          /\ reply' \in [Clients -> Reply]
      BY <1>1, <2>1 DEF TypeInv, Reply
    <2>5. write'[c] = r.nonce
      BY <2>3 DEF locals
    <2> HIDE DEF c
    <2>6. ReplyTrue(c)'
      BY <2>4, <2>5 DEF ReplyTrue, InNet, InRoom
    <2> QED
      BY <1>1, <2>3, <2>4, <2>6
  <1> QED
    BY <1>2, <1>3

LEMMA StoredInv ==
  ASSUME IndInv, NEW r \in net, Store(r) \/ StoreMasked(r),
         UNCHANGED <<last, ledger, locals>>
  PROVE  IndInv'
  <1>1. TypeInv /\ r.nonce \in Nat /\ room' = Append(room, r.nonce)
    BY DEF IndInv, TypeInv, Store, StoreMasked
  <1>2. /\ Len(room) \in Nat /\ DOMAIN room = 1 .. Len(room)
        /\ DOMAIN room' = 1 .. Len(room) + 1
        /\ \A s \in DOMAIN room : room'[s] = room[s]
        /\ room'[Len(room) + 1] = r.nonce /\ room' \in Seq(Nat)
    BY <1>1 DEF TypeInv
  <1>3. PICK kind \in {"accepted", "odd", "rejected"}, seq \in Nat :
           /\ Answer(r, kind, seq)
           /\ kind = "accepted" => seq = Len(room) + 1
           /\ kind = "odd" => seq = 0
    BY <1>2 DEF Store, StoreMasked
  <1>4. /\ reply' \in [Clients -> Reply]
        /\ open' = open /\ net' = net \ {r}
        /\ \A c \in Clients : reply'[c] = reply[c] \/ (pc[c] = "wait" /\ ReplyTrue(c)')
    BY <1>2, <1>3, AnswerIs
  <1>5. TypeInv'
    BY <1>1, <1>2, <1>4 DEF TypeInv, locals
  <1>6. \A n : InRoom(n)' => InRoom(n) \/ n = r.nonce
    BY <1>2 DEF InRoom
  <1>7. \A q \in net' : ~InRoom(q.nonce)'
    BY <1>4, <1>6 DEF IndInv, RequestsApart
  <1>8. InNet(r.nonce)
    BY DEF InNet
  <1>9. \A n : InRoom(n)' => InRoom(n) \/ InNet(n)
    BY <1>6, <1>8
  <1> QED
    BY <1>2, <1>4, <1>5, <1>7, <1>9, NetworkStep

LEMMA TurnedDownInv ==
  ASSUME IndInv, NEW r \in net, Reject(r) \/ Redirect(r),
         UNCHANGED <<last, ledger, locals>>
  PROVE  IndInv'
  <1>1. TypeInv /\ UNCHANGED room
    BY DEF IndInv, Reject, Redirect
  <1>2. PICK kind \in {"odd", "rejected"} : Answer(r, kind, 0)
    BY DEF Reject, Redirect
  <1>3. /\ reply' \in [Clients -> Reply]
        /\ open' = open /\ net' = net \ {r}
        /\ \A c \in Clients : reply'[c] = reply[c] \/ (pc[c] = "wait" /\ ReplyTrue(c)')
    BY <1>2, AnswerIs
  <1>4. TypeInv'
    BY <1>1, <1>3 DEF TypeInv, locals
  <1>5. \A n : InRoom(n)' => InRoom(n)
    BY <1>1 DEF InRoom
  <1>6. \A q \in net' : ~InRoom(q.nonce)'
    BY <1>3, <1>5 DEF IndInv, RequestsApart
  <1> QED
    BY <1>1, <1>3, <1>4, <1>5, <1>6, NetworkStep

(* Something is lost on its way. *)
LEMMA LostInv ==
  ASSUME IndInv, UNCHANGED <<last, ledger, locals>>,
         (\E r \in net : LoseRequest(r)) \/ (\E c \in Clients : LoseReply(c) \/ FinishReply(c))
  PROVE  IndInv'
  <1>1. TypeInv /\ UNCHANGED <<room, open>> /\ net' \subseteq net
    BY DEF IndInv, LoseRequest, LoseReply, FinishReply
  <1>2. \A n : InRoom(n)' => InRoom(n)
    BY <1>1 DEF InRoom
  <1>3. \A q \in net' : ~InRoom(q.nonce)'
    BY <1>1, <1>2 DEF IndInv, RequestsApart
  <1>4. CASE UNCHANGED reply
    <2>1. TypeInv'
      BY <1>1, <1>4 DEF TypeInv, locals
    <2> QED
      BY <1>1, <1>2, <1>3, <1>4, <2>1, NetworkStep
  <1>5. ASSUME NEW c \in Clients, LoseReply(c)
        PROVE  IndInv'
    <2>1. /\ reply' \in [Clients -> Reply]
          /\ reply'[c] = NoReply /\ \A d \in Clients \ {c} : reply'[d] = reply[d]
      BY <1>1, <1>5 DEF TypeInv, LoseReply, NoReply, Reply
    <2>2. pc[c] = "wait"
      BY <1>5 DEF IndInv, ClientInv, LoseReply
    <2>3. ReplyTrue(c)'
      BY <2>1 DEF ReplyTrue, NoReply
    <2>4. TypeInv'
      BY <1>1, <2>1 DEF TypeInv, locals
    <2> QED
      BY <1>1, <1>2, <1>3, <2>1, <2>2, <2>3, <2>4, NetworkStep
  <1>6. ASSUME NEW c \in Clients, FinishReply(c)
        PROVE  IndInv'
    <2>1. /\ reply' = [reply EXCEPT ![c].whole = TRUE] /\ reply[c] \in Reply
          /\ reply[c] # NoReply
      BY <1>1, <1>6 DEF TypeInv, FinishReply
    <2>2. /\ reply' \in [Clients -> Reply]
          /\ reply'[c].kind = reply[c].kind /\ reply'[c].seq = reply[c].seq
          /\ \A d \in Clients \ {c} : reply'[d] = reply[d]
      BY <1>1, <2>1 DEF TypeInv, Reply
    <2>3. pc[c] = "wait" /\ ReplyTrue(c)
      BY <2>1 DEF IndInv, ClientInv
    <2>4. ReplyTrue(c)'
      BY <1>1, <2>2, <2>3 DEF ReplyTrue, locals
    <2>5. TypeInv'
      BY <1>1, <2>2 DEF TypeInv, locals
    <2> QED
      BY <1>1, <1>2, <1>3, <2>2, <2>3, <2>4, <2>5, NetworkStep
  <1> QED
    BY <1>4, <1>5, <1>6 DEF LoseRequest

-----------------------------------------------------------------------------
LEMMA NextInv ==
  ASSUME IndInv, [Next]_vars
  PROVE  IndInv'
  <1>1. CASE UNCHANGED vars
    BY <1>1 DEF vars, locals, tcVars, IndInv, TypeInv, ClientInv, ClientsApart, IntentsApart,
       RequestsApart, IntentBeforeNetwork, OutcomesResolveOneIntent, ResultSeqTrue,
       RefusedNeverLands, IntentOf, HasIntent, ReplyTrue, OutcomeTrue, InNet, InRoom, NoReply
  <1>2. ASSUME NEW c \in Clients, NEW cfg \in Configs, Reserve(c, cfg) PROVE IndInv'
    BY <1>2, ReserveInv
  <1>3. ASSUME NEW c \in Clients, Step(c) PROVE IndInv'
    <2>1. CASE IntentRefused(c)
      BY <2>1, OverInv DEF IntentRefused
    <2>2. CASE RateLimited(c)
      BY <2>2, OverInv DEF RateLimited, Raise
    <2>3. CASE OutcomeRefused(c)
      BY <2>3, OverInv DEF OutcomeRefused, Raise
    <2> QED
      BY <1>3, <2>1, <2>2, <2>3, RecordIntentInv, GuardInv, SendInv, TransportInv,
         RespondInv, RecordOutcomeInv DEF Step
  <1>4. ASSUME NEW c \in Clients, Crash(c) PROVE IndInv'
    BY <1>4, OverInv DEF Crash
  <1>5. CASE Elsewhere
    BY <1>5, StoredInv, TurnedDownInv, LostInv DEF Elsewhere, tcNext
  <1> QED
    BY <1>1, <1>2, <1>3, <1>4, <1>5 DEF Next

LEMMA Invariant == Spec => []IndInv
  BY InitInv, NextInv, PTL DEF Spec

(* The intent row of a request is in the ledger before the request leaves    *)
(* (outbound.py, "recorded BEFORE the request").                             *)
THEOREM IntentComesFirst == Spec => []IntentBeforeNetwork
  <1>1. IndInv => IntentBeforeNetwork
    BY DEF IndInv
  <1> QED
    BY <1>1, Invariant, PTL

(* Every outcome resolves one earlier intent of its own nonce, and no intent *)
(* is resolved twice (outbound.py, send_and_record).                         *)
THEOREM OutcomesAreLinked == Spec => []OutcomesResolveOneIntent
  <1>1. IndInv => OutcomesResolveOneIntent
    BY DEF IndInv
  <1> QED
    BY <1>1, Invariant, PTL

(* A recorded seq is where the room keeps that nonce, however late the       *)
(* answer and whoever else writes (outbound.py, technocore.write.result).    *)
THEOREM ResultsAreTrue == Spec => []ResultSeqTrue
  <1>1. IndInv => ResultSeqTrue
    BY DEF IndInv
  <1> QED
    BY <1>1, Invariant, PTL

(* What the guard refused is neither in the room nor on its way there, at no *)
(* later time, over a network that may answer an error for a message the     *)
(* service has stored (client.py, _assert_write_allowed; outbound.py,        *)
(* technocore.write.failed).                                                 *)
THEOREM RefusalsAreFinal == Spec => []RefusedNeverLands
  <1>1. IndInv => RefusedNeverLands
    BY DEF IndInv
  <1> QED
    BY <1>1, Invariant, PTL

(* A step adds no row, an intent, or the outcome of a write in hand. *)
LEMMA RowsAdded ==
  ASSUME IndInv, [Next]_vars
  PROVE  \/ UNCHANGED ledger
         \/ \E row : /\ ledger' = Append(ledger, row)
                     /\ \/ row.type = "intent"
                        \/ \E c \in Clients : row.ref = intent[c]
  <1>1. ASSUME NEW c \in Clients, RecordIntent(c)
        PROVE  ledger' = Append(ledger, IntentRow(c)) /\ IntentRow(c).type = "intent"
    BY <1>1 DEF RecordIntent, IntentRow
  <1>2. ASSUME NEW c \in Clients, RecordOutcome(c)
        PROVE  ledger' = Append(ledger, OutcomeRow(c)) /\ OutcomeRow(c).ref = intent[c]
    BY <1>2 DEF RecordOutcome, OutcomeRow
  <1>3. ASSUME NEW c \in Clients,
               Step(c) \/ Crash(c) \/ \E cfg \in Configs : Reserve(c, cfg)
        PROVE  UNCHANGED ledger \/ RecordIntent(c) \/ RecordOutcome(c)
    BY <1>3 DEF Step, Crash, Reserve, IntentRefused, Guard, RateLimited, Send, ConnectError,
                Respond, Timeout, OutcomeRefused
  <1>4. Elsewhere \/ UNCHANGED vars => UNCHANGED ledger
    BY DEF Elsewhere, vars
  <1> QED
    BY <1>1, <1>2, <1>3, <1>4 DEF Next

(* An intent whose process is gone stays dangling: no other write resolves   *)
(* it, so dangling_intents goes on reporting it (outbound.py).               *)
THEOREM DanglingStays == Spec => DanglingIsFinal
  <1>1. ASSUME IndInv, [Next]_vars, NEW i \in dangling_intents,
               \A c \in Clients : intent[c] # i
        PROVE  i \in dangling_intents'
    <2>1. /\ i \in DOMAIN ledger /\ ledger[i].type = "intent"
          /\ ~\E j \in DOMAIN ledger : ledger[j].ref = i /\ ledger[j].type \in {"result", "failed"}
      BY <1>1 DEF dangling_intents
    <2>2. CASE UNCHANGED ledger
      BY <2>1, <2>2 DEF dangling_intents
    <2>3. ASSUME NEW row, ledger' = Append(ledger, row),
                 row.type = "intent" \/ \E c \in Clients : row.ref = intent[c]
          PROVE  i \in dangling_intents'
      <3>1. row.type = "intent" \/ row.ref # i
        BY <1>1, <2>3
      <3>2. /\ Len(ledger) \in Nat /\ DOMAIN ledger = 1 .. Len(ledger)
            /\ DOMAIN ledger' = 1 .. Len(ledger) + 1
            /\ \A k \in DOMAIN ledger : ledger'[k] = ledger[k]
            /\ ledger'[Len(ledger) + 1] = row
        BY <1>1, <2>3, LedgerGrows DEF IndInv, TypeInv
      <3> QED
        BY <2>1, <3>1, <3>2 DEF dangling_intents
    <2> QED
      BY <1>1, <2>2, <2>3, RowsAdded
  <1>2. IndInv /\ [Next]_vars =>
           [\A i \in dangling_intents :
               (\A c \in Clients : intent[c] # i) => i \in dangling_intents']_vars
    BY <1>1
  <1> QED
    BY <1>2, Invariant, PTL DEF Spec, DanglingIsFinal

-----------------------------------------------------------------------------
(* Outbound implements WriteSpec *)

LastBounded == last <= MaxNonce

LEMMA NoncesBounded == Spec => []LastBounded
  <1>1. Init => LastBounded
    BY OutboundAssumption DEF Init, LastBounded
  <1>2. ASSUME IndInv, LastBounded, [Next]_vars PROVE LastBounded'
    <2>1. ASSUME NEW c \in Clients, NEW cfg, Reserve(c, cfg) PROVE LastBounded'
      BY <1>2, <2>1, OutboundAssumption DEF Reserve, LastBounded, IndInv, TypeInv
    <2>2. ASSUME NEW c \in Clients, Step(c) \/ Crash(c) PROVE last' = last
      BY <2>2 DEF Step, Crash, RecordIntent, IntentRefused, Guard, RateLimited, Send,
         ConnectError, Respond, Timeout, RecordOutcome, OutcomeRefused
    <2>3. Elsewhere \/ UNCHANGED vars => last' = last
      BY DEF Elsewhere, vars
    <2> QED
      BY <1>2, <2>1, <2>2, <2>3 DEF Next, LastBounded
  <1> QED
    BY <1>1, <1>2, Invariant, PTL DEF Spec

(* What a row more adds to what the ledger says. *)
LEMMA RowSays ==
  ASSUME ledger \in Seq(Row), NEW row \in Row, ledger' = Append(ledger, row)
  PROVE  /\ noted' = noted \cup {n \in {row.nonce} : row.type = "intent"}
         /\ said' = said \cup {v \in {verdict(row)} : row.type \in {"result", "failed"}}
  <1>1. /\ DOMAIN ledger' = DOMAIN ledger \cup {Len(ledger) + 1}
        /\ \A i \in DOMAIN ledger : ledger'[i] = ledger[i]
        /\ ledger'[Len(ledger) + 1] = row
    BY LedgerGrows
  <1>2. \A n : n \in noted' <=> n \in noted \/ (n = row.nonce /\ row.type = "intent")
    BY <1>1 DEF noted
  <1>3. \A v : v \in said' <=> \/ v \in said
                               \/ v = verdict(row) /\ row.type \in {"result", "failed"}
    BY <1>1 DEF said
  <1> QED
    BY <1>2, <1>3

LEMMA SameSays ==
  ASSUME UNCHANGED ledger
  PROVE  UNCHANGED <<noted, said>>
  BY DEF noted, said

(* The intent row is the note. *)
LEMMA IntentNotes ==
  ASSUME IndInv, LastBounded, NEW c \in Clients, RecordIntent(c)
  PROVE  Promise!Next
  <1> DEFINE row == IntentRow(c)
  <1>1. /\ ledger \in Seq(Row) /\ ledger' = Append(ledger, row) /\ UNCHANGED room
    BY DEF RecordIntent, IndInv, TypeInv, tcVars
  <1>2. /\ row.type = "intent" /\ row.nonce = write[c] /\ row \in Row
    BY DEF IntentRow, Row, IndInv, TypeInv, Details
  <1> HIDE DEF row
  <1>3. noted' = noted \cup {write[c]} /\ UNCHANGED said
    BY <1>1, <1>2, RowSays
  <1>4. write[c] \in 1 .. MaxNonce
    BY OutboundAssumption DEF RecordIntent, IndInv, TypeInv, ClientInv, LastBounded
  <1> QED
    BY <1>1, <1>3, <1>4 DEF Promise!Next, Promise!Note

(* The outcome row is the verdict, and it is true. *)
LEMMA OutcomeConcludes ==
  ASSUME IndInv, LastBounded, NEW c \in Clients, RecordOutcome(c)
  PROVE  Promise!Next
  <1> DEFINE row == OutcomeRow(c)
             n == write[c]
             says == verdict(row).says
             seq == verdict(row).seq
  <1>1. /\ TypeInv /\ ClientInv(c) /\ pc[c] = "record" /\ last \in Nat
        /\ ledger \in Seq(Row) /\ ledger' = Append(ledger, row) /\ UNCHANGED room
    BY DEF RecordOutcome, IndInv, TypeInv, tcVars
  <1>2. HasIntent(c) /\ OutcomeTrue(c) /\ n \in 1 .. MaxNonce
    BY <1>1, OutboundAssumption DEF ClientInv, LastBounded
  <1>3. /\ row.type = outcome[c].type /\ row.nonce = n
        /\ row.detail = outcome[c].detail /\ row.seq = outcome[c].seq
        /\ row.type \in {"result", "failed"} /\ row \in Row /\ row.seq \in Nat
    BY <1>1, <1>2 DEF OutcomeRow, OutcomeTrue, Row, TypeInv
  <1> HIDE DEF row, n
  <1>4. /\ verdict(row) = [nonce |-> n, says |-> says, seq |-> seq]
        /\ says \in {"landed", "not landed", "unknown"}
        /\ says = "landed" => row.type = "result" /\ row.seq # 0 /\ seq = row.seq
        /\ says # "landed" => seq = 0
        /\ says = "not landed" => row.detail = "refused"
    BY <1>3 DEF verdict
  <1> HIDE DEF says, seq
  <1>5. noted' = noted /\ said' = said \cup {[nonce |-> n, says |-> says, seq |-> seq]}
    BY <1>1, <1>3, <1>4, RowSays
  <1>6. n \in noted
    BY <1>2 DEF HasIntent, noted, n
  <1>7. \A v \in said : v.nonce # n
    <2>1. ASSUME NEW i \in DOMAIN ledger, ledger[i].type \in {"result", "failed"}
          PROVE  ledger[i].nonce # n
      <3>1. /\ ledger[i].ref \in 1 .. i - 1 /\ ledger[ledger[i].ref].type = "intent"
            /\ ledger[ledger[i].ref].nonce = ledger[i].nonce
        BY <2>1 DEF IndInv, OutcomesResolveOneIntent
      <3>2. ledger[i].ref \in DOMAIN ledger
        BY <1>1, <3>1
      <3>3. /\ intent[c] \in DOMAIN ledger /\ ledger[intent[c]].type = "intent"
            /\ ledger[intent[c]].nonce = n /\ ledger[i].ref # intent[c]
        BY <1>2, <2>1 DEF HasIntent, n
      <3> QED
        BY <3>1, <3>2, <3>3 DEF IndInv, IntentsApart
    <2>2. \A i : verdict(ledger[i]).nonce = ledger[i].nonce
      BY DEF verdict
    <2> QED
      BY <2>1, <2>2 DEF said
  <1>8. says = "landed" => seq \in DOMAIN room /\ room[seq] = n
    BY <1>2, <1>3, <1>4 DEF OutcomeTrue, n
  <1>9. says = "not landed" => ~Promise!Holds(n)
    BY <1>2, <1>3, <1>4 DEF OutcomeTrue, InRoom, Promise!Holds, n
  <1>10. seq \in 0 .. Len(room)
    <2>1. Len(room) \in Nat /\ DOMAIN room = 1 .. Len(room)
      BY <1>1 DEF TypeInv
    <2>2. CASE says = "landed"
      <3>1. seq \in 1 .. Len(room)
        BY <1>8, <2>1, <2>2
      <3> QED
        BY <2>1, <3>1
    <2>3. CASE says # "landed"
      <3>1. seq = 0
        BY <1>4, <2>3
      <3> QED
        BY <2>1, <3>1
    <2> QED
      BY <2>2, <2>3
  <1>11. Promise!Conclude(n, says, seq)
    BY <1>1, <1>5, <1>6, <1>7, <1>8, <1>9 DEF Promise!Conclude
  <1> QED
    BY <1>2, <1>4, <1>10, <1>11 DEF Promise!Next, Promise!Says, n

(* A request that the service stores is the landing. *)
LEMMA StoreLands ==
  ASSUME IndInv, LastBounded, NEW r \in net, Store(r) \/ StoreMasked(r), UNCHANGED ledger
  PROVE  Promise!Next
  <1>1. room' = Append(room, r.nonce)
    BY DEF Store, StoreMasked
  <1>2. IntentOf(r.nonce) /\ ~InRoom(r.nonce)
    BY DEF IndInv, IntentBeforeNetwork, RequestsApart
  <1>3. r.nonce \in noted /\ r.nonce \in 1 .. MaxNonce
    <2>1. PICK i \in DOMAIN ledger : ledger[i].type = "intent" /\ ledger[i].nonce = r.nonce
      BY <1>2 DEF IntentOf
    <2>2. r.nonce \in 1 .. last /\ last \in Nat
      BY <2>1 DEF IndInv, IntentsApart, TypeInv
    <2> QED
      BY <2>1, <2>2, OutboundAssumption DEF noted, LastBounded
  <1>4. \A v \in said : v.nonce = r.nonce => v.says # "not landed"
    <2>1. ASSUME NEW i \in DOMAIN ledger, ledger[i].nonce = r.nonce
          PROVE  ledger[i].detail # "refused"
      BY <2>1 DEF IndInv, RefusedNeverLands
    <2>2. \A i : /\ verdict(ledger[i]).nonce = ledger[i].nonce
                 /\ verdict(ledger[i]).says = "not landed" =>
                       ledger[i].detail = "refused"
      BY DEF verdict
    <2> QED
      BY <2>1, <2>2 DEF said
  <1>5. Promise!Land(r.nonce)
    BY <1>1, <1>2, <1>3, <1>4, SameSays DEF Promise!Land, Promise!Holds, InRoom
  <1> QED
    BY <1>3, <1>5 DEF Promise!Next

(* To who reads the ledger, a write is noted before it lands, lands at most  *)
(* once, and is concluded at most once and truly: landed at a place, refused *)
(* by the guard, or unknown, whatever processes, network and crashes do      *)
(* (outbound.py, record_intent, send_and_record).                            *)
THEOREM KeepsItsPromise == Spec => ImplementsWriteSpec
  <1>1. Init => Promise!Init
    BY DEF Init, tcInit, Promise!Init, noted, said
  <1>2. ASSUME IndInv, LastBounded, [Next]_vars PROVE [Promise!Next]_(Promise!specVars)
    <2>1. CASE UNCHANGED <<ledger, room>>
      BY <2>1, SameSays DEF Promise!specVars
    <2>2. ASSUME NEW c \in Clients,
                 Step(c) \/ Crash(c) \/ \E cfg \in Configs : Reserve(c, cfg)
          PROVE  UNCHANGED <<ledger, room>> \/ RecordIntent(c) \/ RecordOutcome(c)
      BY <2>2 DEF Step, Crash, Reserve, IntentRefused, Guard, RateLimited, Send, Request,
         HangUp, ConnectError, Respond, Timeout, OutcomeRefused, tcVars
    <2>3. CASE Elsewhere
      <3>1. UNCHANGED ledger
        BY <2>3 DEF Elsewhere
      <3>2. \/ UNCHANGED room
            \/ \E r \in net : Store(r) \/ StoreMasked(r)
        BY <2>3 DEF Elsewhere, tcNext, Reject, Redirect, LoseRequest, LoseReply,
           FinishReply
      <3> QED
        BY <1>2, <2>1, <3>1, <3>2, StoreLands
    <2>4. UNCHANGED vars => UNCHANGED <<ledger, room>>
      BY DEF vars, tcVars
    <2> QED
      BY <1>2, <2>1, <2>2, <2>3, <2>4, IntentNotes, OutcomeConcludes DEF Next
  <1> QED
    BY <1>1, <1>2, Invariant, NoncesBounded, PTL DEF Spec, ImplementsWriteSpec, Promise!Spec

-----------------------------------------------------------------------------
(* The steps Outbound takes for granted are steps of the modules below *)

Scope == {"room"}

(* All nonces up to last were handed out, each once, in order. *)
Issuance == INSTANCE NonceSpec WITH
    Keys <- Scope, top <- [k \in Scope |-> last],
    issued <- [k \in Scope |-> [n \in 1 .. last |-> n]]

(* What a step appends is one row, with a nonce that was handed out, and its *)
(* reference, if it has one, is a row that is there: Ledger.append never     *)
(* turns it down with "ref_activity_id does not exist".                      *)
AppendFits ==
    \E row \in Row : /\ ledger' = Append(ledger, row)
                     /\ row.nonce \in 1 .. last
                     /\ row.ref = 0 \/ row.ref \in DOMAIN ledger

RowsFitTheLedger == [][UNCHANGED ledger \/ AppendFits]_vars

(* Handing out the next nonce is a step NonceSpec allows. *)
LEMMA IssuesNext ==
  ASSUME last \in Nat, last < MaxNonce, MaxNonce \in Nat, last' = last + 1
  PROVE  Issuance!Next
  <1> DEFINE top == [k \in Scope |-> last]
             issued == [k \in Scope |-> [n \in 1 .. last |-> n]]
  <1>1. last' \in (last + 1) .. MaxNonce /\ "room" \in Scope
    BY DEF Scope
  <1>2. top' = [top EXCEPT !["room"] = last']
    BY DEF Scope
  <1>3. issued' = [issued EXCEPT !["room"] = Append(issued["room"], last')]
    <2>1. issued["room"] = [n \in 1 .. last |-> n]
      BY <1>1
    <2>2. [n \in 1 .. last |-> n] \in Seq(Nat) /\ Len([n \in 1 .. last |-> n]) = last
      OBVIOUS
    <2>3. Append([n \in 1 .. last |-> n], last + 1) = [n \in 1 .. last + 1 |-> n]
      BY <2>2
    <2> QED
      BY <2>1, <2>3 DEF Scope
  <1>4. Issuance!Issue("room")
    BY <1>1, <1>2, <1>3 DEF Issuance!Issue
  <1> QED
    BY <1>1, <1>4 DEF Issuance!Next

LEMMA OutboundRowFits ==
  ASSUME IndInv, NEW c \in Clients, RecordIntent(c) \/ RecordOutcome(c)
  PROVE  AppendFits
  <1>1. /\ write[c] \in Nat /\ intent[c] \in Nat /\ outcome[c].seq \in Nat
        /\ outcome[c].detail \in Details
    BY DEF IndInv, TypeInv
  <1>2. ASSUME RecordIntent(c)
        PROVE  /\ ledger' = Append(ledger, IntentRow(c)) /\ IntentRow(c) \in Row
               /\ IntentRow(c).nonce \in 1 .. last /\ IntentRow(c).ref = 0
    BY <1>1, <1>2 DEF RecordIntent, IntentRow, Row, Details, IndInv, ClientInv
  <1>3. ASSUME RecordOutcome(c)
        PROVE  /\ ledger' = Append(ledger, OutcomeRow(c)) /\ OutcomeRow(c) \in Row
               /\ OutcomeRow(c).nonce \in 1 .. last /\ OutcomeRow(c).ref \in DOMAIN ledger
    <2>1. pc[c] = "record" /\ ledger' = Append(ledger, OutcomeRow(c))
      BY <1>3 DEF RecordOutcome
    <2>2. /\ write[c] \in 1 .. last /\ intent[c] \in DOMAIN ledger
          /\ outcome[c].type \in {"result", "failed"}
      BY <2>1 DEF IndInv, ClientInv, HasIntent, OutcomeTrue
    <2> QED
      BY <1>1, <2>1, <2>2 DEF OutcomeRow, Row
  <1> QED
    BY <1>2, <1>3 DEF AppendFits

(* Nonces are taken as NonceSpec hands them out and rows are appended as     *)
(* LedgerSpec takes them, so that NonceStore's and Ledger's transactions can *)
(* stand for the single steps here (outbound.py, record_intent and           *)
(* send_and_record; the nonce is the caller's, from NonceStore.reserve).     *)
THEOREM UsesItsServices == Spec => Issuance!Spec /\ RowsFitTheLedger
  <1>1. Init => Issuance!Init
    BY DEF Init, Issuance!Init
  <1>2. ASSUME IndInv, [Next]_vars
        PROVE  \/ UNCHANGED <<last, ledger>>
               \/ \E c \in Clients : \E cfg \in Configs : Reserve(c, cfg)
               \/ \E c \in Clients : RecordIntent(c) \/ RecordOutcome(c)
    <2>1. ASSUME NEW c \in Clients, Step(c) \/ Crash(c)
          PROVE  UNCHANGED <<last, ledger>> \/ RecordIntent(c) \/ RecordOutcome(c)
      BY <2>1 DEF Step, Crash, IntentRefused, Guard, RateLimited, Send, ConnectError,
                  Respond, Timeout, OutcomeRefused
    <2>2. Elsewhere \/ UNCHANGED vars => UNCHANGED <<last, ledger>>
      BY DEF Elsewhere, vars
    <2> QED
      BY <1>2, <2>1, <2>2 DEF Next
  <1>3. ASSUME IndInv, [Next]_vars PROVE [Issuance!Next]_(Issuance!specVars)
    <2>1. CASE UNCHANGED last
      BY <2>1 DEF Issuance!specVars
    <2>2. ASSUME NEW c \in Clients, NEW cfg, Reserve(c, cfg) PROVE Issuance!Next
      BY <1>3, <2>2, IssuesNext, OutboundAssumption DEF Reserve, IndInv, TypeInv
    <2>3. ASSUME NEW c \in Clients, RecordIntent(c) \/ RecordOutcome(c) PROVE UNCHANGED last
      BY <2>3 DEF RecordIntent, RecordOutcome
    <2> QED
      BY <1>2, <1>3, <2>1, <2>2, <2>3
  <1>4. ASSUME IndInv, [Next]_vars
        PROVE  [UNCHANGED ledger \/ AppendFits]_vars
    <2>1. ASSUME NEW c \in Clients, NEW cfg, Reserve(c, cfg) PROVE UNCHANGED ledger
      BY <2>1 DEF Reserve
    <2> QED
      BY <1>2, <1>4, <2>1, OutboundRowFits
  <1> QED
    BY <1>1, <1>3, <1>4, Invariant, PTL DEF Spec, Issuance!Spec, RowsFitTheLedger
=============================================================================
