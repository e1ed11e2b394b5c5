---------------------------- MODULE PublishProofs ----------------------------
(***************************************************************************)
(* Theorems of Publish, for every set of processes and arguments and every *)
(* number of invocations.                                                  *)
(*                                                                         *)
(* The inductive invariant follows an invocation: its nonce is its own,    *)
(* the last row it wrote is of its stage and nonce and is continued by     *)
(* nothing yet, and until it sends, nothing was sent with its nonce.       *)
(***************************************************************************)
EXTENDS Publish, TLAPS

Phases == {"idle", "proof", "acquire", "wait", "record"}
Hosts == {a.host : a \in Args} \cup {"none"}
Outcome == [status : {"none", "PUBLISHED", "AMBIGUOUS_OR_FAILED", "UNEXPECTED_RESPONSE"},
            seq : Nat]

Run == [pc : Phases, nonce : Nat, host : Hosts, stage : 0 .. 4, row : Nat,
        outcome : Outcome]

Row == [type : {"prepare_intent", "signed_local", "verified_local", "publish_blocked",
                "publish_result"},
        ref : Nat, nonce : Nat,
        status : {"none", "NOT_SENT", "PUBLISHED", "AMBIGUOUS_OR_FAILED",
                  "UNEXPECTED_RESPONSE"},
        seq : Nat]

Reply == [kind : {"none", "accepted", "odd", "rejected"}, seq : Nat, whole : BOOLEAN]

TypeInv ==
    /\ last \in 0 .. MaxNonce
    /\ ledger \in Seq(Row)
    /\ run \in [Clients -> Run]
    /\ sent \in [1 .. MaxNonce -> Nat]
    /\ net \subseteq [from : Clients, nonce : Nat \ {0}]
    /\ room \in Seq(Nat)
    /\ open \in [Clients -> Nat]
    /\ reply \in [Clients -> Reply]

(* The message is in the room, at this place. *)
AtSeq(n, seq) == seq \in DOMAIN room /\ room[seq] = n

(* The last row of the trail: of this stage and nonce, continued by nothing. *)
TrailEnds(s) ==
    /\ s.row \in DOMAIN ledger
    /\ ledger[s.row].type = Stages[s.stage] /\ ledger[s.row].nonce = s.nonce
    /\ \A j \in DOMAIN ledger : ledger[j].ref # s.row

RunInv(c) ==
    LET s == run[c] IN
    /\ s.pc = "idle" => s.nonce = 0
    /\ s.pc # "idle" => s.nonce \in 1 .. last
    /\ s.pc # "idle" => IF s.stage = 0 THEN s.row = 0 ELSE TrailEnds(s)
    /\ s.pc \in {"acquire", "wait", "record"} => s.stage = 4
    /\ s.pc \in {"proof", "acquire"} => sent[s.nonce] = 0
    /\ s.pc = "wait" => /\ open[c] = s.nonce
                        /\ reply[c].kind = "accepted" => AtSeq(s.nonce, reply[c].seq)
    /\ s.pc # "wait" => open[c] = 0 /\ reply[c] = NoReply
    /\ s.pc = "record" => /\ s.outcome.status # "none"
                          /\ s.outcome.status = "PUBLISHED" => AtSeq(s.nonce, s.outcome.seq)

RunsApart == \A c, d \in Clients :
    run[c].pc # "idle" /\ run[c].nonce = run[d].nonce => c = d

FreshUnsent == \A n \in 1 .. MaxNonce : n > last => sent[n] = 0

FirstRows == \A i \in DOMAIN ledger : ledger[i].type = "prepare_intent" => ledger[i].ref = 0

IndInv ==
    /\ TypeInv
    /\ \A c \in Clients : RunInv(c)
    /\ RunsApart
    /\ FreshUnsent
    /\ FirstRows
    /\ TrailsStayApart
    /\ ProofBeforePublish
    /\ SentAtMostOnce
    /\ PublishedIsInRoom
    /\ ExitOkIsRecorded

OnlyMoves(c) == \A d \in Clients \ {c} :
    run'[d] = run[d] /\ open'[d] = open[d] /\ reply'[d] = reply[d]

(* No invocation exited well that had not before. *)
NoNewOk == \A x \in exits' : x.code = "ok" => x \in exits

LEMMA StagesAre ==
  /\ Len(Stages) = 4 /\ 2 .. Len(Stages) = {2, 3, 4}
  /\ Stages[1] = "prepare_intent" /\ Stages[2] = "signed_local"
  /\ Stages[3] = "verified_local" /\ Stages[4] = "publish_blocked"
  BY DEF Stages

LEMMA LedgerGrows ==
  ASSUME ledger \in Seq(Row), NEW row, ledger' = Append(ledger, row)
  PROVE  /\ Len(ledger) \in Nat /\ DOMAIN ledger = 1 .. Len(ledger)
         /\ DOMAIN ledger' = 1 .. Len(ledger) + 1 /\ Len(ledger') = Len(ledger) + 1
         /\ \A i \in DOMAIN ledger : ledger'[i] = ledger[i]
         /\ ledger'[Len(ledger) + 1] = row
  OBVIOUS

(* Links point back. *)
LEMMA RefsBack ==
  ASSUME IndInv, NEW i \in DOMAIN ledger
  PROVE  ledger[i].ref \in 0 .. i - 1 /\ i \in 1 .. Len(ledger) /\ Len(ledger) \in Nat
  <1>1. i \in 1 .. Len(ledger) /\ Len(ledger) \in Nat
    BY DEF IndInv, TypeInv
  <1>2. ledger[i] \in Row
    BY DEF IndInv, TypeInv
  <1>3. CASE ledger[i].type = "prepare_intent"
    BY <1>1, <1>3 DEF IndInv, FirstRows
  <1>4. CASE ledger[i].type \in {"signed_local", "verified_local", "publish_blocked",
                                 "publish_result"}
    BY <1>1, <1>4, StagesAre DEF IndInv, TrailsStayApart, Follows
  <1> QED
    BY <1>1, <1>2, <1>3, <1>4 DEF Row

LEMMA InitInv == Init => IndInv
  <1> SUFFICES ASSUME Init PROVE IndInv
    OBVIOUS
  <1>1. Idle \in Run
    BY DEF Idle, Run, Phases, Hosts, Outcome, NoOutcome
  <1>2. TypeInv
    BY <1>1, PublishAssumption DEF Init, tcInit, TypeInv, Reply, NoReply
  <1>3. \A c \in Clients : RunInv(c)
    BY DEF Init, tcInit, RunInv, Idle
  <1> QED
    BY <1>2, <1>3, StagesAre DEF Init, tcInit, IndInv, RunsApart, Idle, FreshUnsent, FirstRows,
       TrailsStayApart, ProofBeforePublish, SentAtMostOnce, PublishedIsInRoom, ExitOkIsRecorded

-----------------------------------------------------------------------------
(* Steps of one invocation that touch neither the ledger nor the requests *)

LEMMA LocalStep ==
  ASSUME IndInv, TypeInv', UNCHANGED <<last, ledger, sent, net, room>>, NoNewOk,
         NEW c \in Clients, OnlyMoves(c), RunInv(c)',
         \/ run'[c].pc = "idle"
         \/ run[c].pc # "idle" /\ run'[c].nonce = run[c].nonce
  PROVE  IndInv'
  <1>1. ASSUME NEW d \in Clients, d # c PROVE RunInv(d)'
    <2>1. RunInv(d)
      BY DEF IndInv
    <2>2. run'[d] = run[d] /\ open'[d] = open[d] /\ reply'[d] = reply[d]
      BY <1>1 DEF OnlyMoves
    <2> QED
      BY <2>1, <2>2 DEF RunInv, TrailEnds, AtSeq, NoReply
  <1>2. RunsApart'
    <2> SUFFICES ASSUME NEW d \in Clients, NEW e \in Clients,
                        run'[d].pc # "idle", run'[d].nonce = run'[e].nonce
                 PROVE  d = e
      BY DEF RunsApart
    <2>1. run'[d].nonce # 0
      BY <1>1 DEF RunInv
    <2>2. run'[e].pc # "idle"
      BY <1>1, <2>1 DEF RunInv
    <2> QED
      BY <2>2 DEF OnlyMoves, IndInv, RunsApart
  <1>3. FreshUnsent' /\ FirstRows' /\ SentAtMostOnce' /\ ProofBeforePublish'
    BY DEF IndInv, FreshUnsent, FirstRows, SentAtMostOnce, ProofBeforePublish
  <1>4. TrailsStayApart' /\ PublishedIsInRoom'
    BY DEF IndInv, TrailsStayApart, Follows, PublishedIsInRoom
  <1>5. ExitOkIsRecorded'
    BY DEF IndInv, ExitOkIsRecorded, NoNewOk
  <1> QED
    BY <1>1, <1>2, <1>3, <1>4, <1>5 DEF IndInv

LEMMA HangUpIs ==
  ASSUME TypeInv, NEW c \in Clients, HangUp(c)
  PROVE  /\ open' \in [Clients -> Nat] /\ reply' \in [Clients -> Reply]
         /\ open'[c] = 0 /\ reply'[c] = NoReply
         /\ \A d \in Clients \ {c} : open'[d] = open[d] /\ reply'[d] = reply[d]
         /\ UNCHANGED <<net, room>>
  BY DEF TypeInv, HangUp, NoReply, Reply

(* Nobody is waited for afterwards. *)
LEMMA NotWaiting ==
  ASSUME IndInv, NEW c \in Clients,
         HangUp(c) \/ (run[c].pc # "wait" /\ UNCHANGED tcVars)
  PROVE  /\ open' \in [Clients -> Nat] /\ reply' \in [Clients -> Reply]
         /\ open'[c] = 0 /\ reply'[c] = NoReply
         /\ \A d \in Clients \ {c} : open'[d] = open[d] /\ reply'[d] = reply[d]
         /\ UNCHANGED <<net, room>>
  <1>1. CASE HangUp(c)
    BY <1>1, HangUpIs DEF IndInv
  <1>2. CASE run[c].pc # "wait" /\ UNCHANGED tcVars
    BY <1>2 DEF tcVars, IndInv, RunInv, TypeInv
  <1> QED
    BY <1>1, <1>2

(* An invocation that ends without having published. *)
LEMMA FinishInv ==
  ASSUME IndInv, NEW c \in Clients, NEW code, code # "ok", Finish(c, code),
         HangUp(c) \/ (run[c].pc # "wait" /\ UNCHANGED tcVars),
         UNCHANGED <<last, ledger, sent>>
  PROVE  IndInv'
  <1>1. Idle \in Run /\ Idle.pc = "idle" /\ Idle.nonce = 0
    BY DEF Idle, Run, Phases, Hosts, Outcome, NoOutcome
  <1>2. /\ run' \in [Clients -> Run] /\ run'[c].pc = "idle" /\ run'[c].nonce = 0
        /\ \A d \in Clients \ {c} : run'[d] = run[d]
    BY <1>1 DEF Finish, IndInv, TypeInv
  <1>3. NoNewOk
    BY DEF Finish, NoNewOk
  <1>4. TypeInv' /\ OnlyMoves(c) /\ UNCHANGED <<net, room>>
    BY <1>2, NotWaiting DEF IndInv, TypeInv, OnlyMoves
  <1>5. RunInv(c)'
    BY <1>2, NotWaiting DEF RunInv, NoReply
  <1> QED
    BY <1>2, <1>3, <1>4, <1>5, LocalStep

(* A request that came to a result, to be recorded. *)
LEMMA ConcludeInv ==
  ASSUME IndInv, NEW c \in Clients, NEW status, NEW seq, Conclude(c, status, seq),
         status \in {"PUBLISHED", "AMBIGUOUS_OR_FAILED", "UNEXPECTED_RESPONSE"},
         seq \in Nat, status = "PUBLISHED" => AtSeq(run[c].nonce, seq),
         run[c].pc \in {"acquire", "wait"},
         HangUp(c) \/ (run[c].pc # "wait" /\ UNCHANGED tcVars),
         UNCHANGED <<last, ledger, sent>>
  PROVE  IndInv'
  <1>1. RunInv(c) /\ run[c] \in Run
    BY DEF IndInv, TypeInv
  <1> DEFINE s == [pc |-> "record", nonce |-> run[c].nonce, host |-> run[c].host,
                   stage |-> run[c].stage, row |-> run[c].row,
                   outcome |-> [status |-> status, seq |-> seq]]
  <1>2. /\ run' \in [Clients -> Run] /\ run'[c] = s /\ UNCHANGED exits
        /\ \A d \in Clients \ {c} : run'[d] = run[d]
    <2>1. [status |-> status, seq |-> seq] \in Outcome
      BY DEF Outcome
    <2>2. s \in Run
      BY <1>1, <2>1 DEF Run, Phases
    <2>3. /\ run' = [run EXCEPT ![c].pc = "record",
                               ![c].outcome = [status |-> status, seq |-> seq]]
          /\ UNCHANGED exits
      BY DEF Conclude
    <2>4. run \in [Clients -> Run]
      BY DEF IndInv, TypeInv
    <2>5. run'[c] = s
      BY <1>1, <2>3, <2>4 DEF Run
    <2>6. DOMAIN run' = Clients /\ \A d \in Clients \ {c} : run'[d] = run[d]
      BY <2>3, <2>4
    <2>7. run' = [d \in Clients |-> run'[d]]
      BY <2>3, <2>4
    <2> HIDE DEF s
    <2> QED
      BY <2>2, <2>3, <2>4, <2>5, <2>6, <2>7
  <1>3. /\ s.pc = "record" /\ s.nonce = run[c].nonce /\ s.stage = run[c].stage
        /\ s.row = run[c].row /\ s.outcome.status = status /\ s.outcome.seq = seq
    OBVIOUS
  <1> HIDE DEF s
  <1>5. TypeInv' /\ OnlyMoves(c) /\ UNCHANGED <<net, room>>
    BY <1>2, NotWaiting DEF IndInv, TypeInv, OnlyMoves
  <1>6. RunInv(c)'
    <2>1. TrailEnds(run[c]) /\ run[c].stage = 4 /\ run[c].nonce \in 1 .. last
      BY <1>1 DEF RunInv
    <2>2. TrailEnds(run[c])'
      BY <1>2, <1>3, <2>1 DEF TrailEnds
    <2> QED
      BY <1>2, <1>3, <1>5, <2>1, <2>2, NotWaiting DEF RunInv, AtSeq, TrailEnds
  <1>7. NoNewOk
    BY <1>2 DEF NoNewOk
  <1> QED
    BY <1>1, <1>2, <1>3, <1>5, <1>6, <1>7, LocalStep

LEMMA OpenGateInv ==
  ASSUME IndInv, NEW c \in Clients, OpenGate(c)
  PROVE  IndInv'
  <1>1. RunInv(c) /\ run[c] \in Run /\ run[c].pc = "proof" /\ run[c].stage = 4
    BY StagesAre DEF OpenGate, IndInv, TypeInv
  <1>2. CASE run[c].host = "public"
    <2> DEFINE s == [pc |-> "acquire", nonce |-> run[c].nonce, host |-> run[c].host,
                     stage |-> run[c].stage, row |-> run[c].row, outcome |-> run[c].outcome]
    <2>1. run' = [run EXCEPT ![c] = s] /\ s \in Run
      BY <1>1, <1>2 DEF OpenGate, IndInv, TypeInv, Run, Phases
    <2>2. /\ s.pc = "acquire" /\ s.nonce = run[c].nonce /\ s.stage = run[c].stage
          /\ s.row = run[c].row
      OBVIOUS
    <2> HIDE DEF s
    <2>3. /\ run' \in [Clients -> Run] /\ run'[c] = s
          /\ \A d \in Clients \ {c} : run'[d] = run[d]
      BY <2>1 DEF IndInv, TypeInv
    <2>4. UNCHANGED <<exits, last, ledger, sent, net, room, open, reply>>
      BY <1>2 DEF OpenGate, tcVars
    <2>5. TypeInv' /\ OnlyMoves(c) /\ NoNewOk
      BY <2>3, <2>4 DEF IndInv, TypeInv, OnlyMoves, NoNewOk
    <2>6. RunInv(c)'
      BY <1>1, <2>2, <2>3, <2>4 DEF RunInv, TrailEnds, NoReply
    <2> QED
      BY <1>1, <2>2, <2>3, <2>4, <2>5, <2>6, LocalStep
  <1>3. CASE run[c].host # "public"
    BY <1>1, <1>3, FinishInv DEF OpenGate
  <1> QED
    BY <1>2, <1>3

LEMMA RespondInv ==
  ASSUME IndInv, NEW c \in Clients, Respond(c)
  PROVE  IndInv'
  <1>1. /\ RunInv(c) /\ run[c].pc = "wait" /\ HangUp(c)
        /\ UNCHANGED <<last, ledger, sent>>
    BY DEF IndInv, Respond
  <1>2. reply[c].seq \in Nat
    BY DEF IndInv, TypeInv, Reply
  <1>3. reply[c].kind = "accepted" => AtSeq(run[c].nonce, reply[c].seq)
    BY <1>1 DEF RunInv
  <1>4. CASE Conclude(c, "AMBIGUOUS_OR_FAILED", 0) \/ Conclude(c, "UNEXPECTED_RESPONSE", 0)
    BY <1>1, <1>4, ConcludeInv
  <1>5. CASE reply[c].kind = "accepted" /\ Conclude(c, "PUBLISHED", reply[c].seq)
    BY <1>1, <1>2, <1>3, <1>5, ConcludeInv
  <1>6. CASE Finish(c, "error")
    BY <1>1, <1>6, FinishInv
  <1> QED
    BY <1>4, <1>5, <1>6 DEF Respond

-----------------------------------------------------------------------------
(* Steps that issue a nonce, write the ledger or send *)

LEMMA InvokeInv ==
  ASSUME IndInv, NEW c \in Clients, NEW a \in Args, Invoke(c, a)
  PROVE  IndInv'
  <1> DEFINE s == [Idle EXCEPT !.pc = "proof", !.nonce = last + 1, !.host = a.host]
  <1>1. /\ TypeInv /\ RunInv(c) /\ run[c].pc = "idle" /\ last \in Nat /\ last < MaxNonce
        /\ last' = last + 1 /\ run' = [run EXCEPT ![c] = s]
        /\ UNCHANGED <<ledger, sent, exits, net, room, open, reply>>
    <2>1. /\ TypeInv /\ RunInv(c) /\ run[c].pc = "idle" /\ last \in Nat /\ last < MaxNonce
          /\ last' = last + 1 /\ UNCHANGED <<ledger, sent, exits, net, room, open, reply>>
      BY PublishAssumption DEF Invoke, IndInv, TypeInv, tcVars
    <2>2. run' = [run EXCEPT ![c] = [Idle EXCEPT !.pc = "proof", !.nonce = last',
                                                 !.host = a.host]]
      BY DEF Invoke
    <2>3. [Idle EXCEPT !.pc = "proof", !.nonce = last', !.host = a.host] = s
      BY <2>1
    <2> QED
      BY <2>1, <2>2, <2>3
  <1>2. s \in Run
    <2>1. Idle \in Run /\ a.host \in Hosts
      BY DEF Idle, Run, Phases, Hosts, Outcome, NoOutcome
    <2>2. last + 1 \in Nat /\ "proof" \in Phases
      BY <1>1 DEF Phases
    <2> QED
      BY <2>1, <2>2 DEF Run
  <1>3. /\ run' \in [Clients -> Run] /\ run'[c] = s
        /\ \A d \in Clients \ {c} : run'[d] = run[d]
    <2> HIDE DEF s
    <2> QED
      BY <1>1, <1>2 DEF TypeInv
  <1>4. /\ run'[c].pc = "proof" /\ run'[c].nonce = last + 1 /\ run'[c].stage = 0
        /\ run'[c].row = 0
    BY <1>3 DEF Idle
  <1> HIDE DEF s
  <1>5. TypeInv'
    BY <1>1, <1>3, PublishAssumption DEF TypeInv
  <1>6. sent[last + 1] = 0
    BY <1>1, PublishAssumption DEF IndInv, FreshUnsent
  <1>7. RunInv(c)'
    BY <1>1, <1>4, <1>6 DEF RunInv, NoReply
  <1>8. ASSUME NEW d \in Clients \ {c} PROVE RunInv(d)'
    <2>1. RunInv(d)
      BY DEF IndInv
    <2> QED
      BY <1>1, <1>3, <2>1 DEF RunInv, TrailEnds, AtSeq, NoReply
  <1>9. RunsApart'
    <2>1. \A d \in Clients : run[d].nonce <= last
      BY <1>1 DEF IndInv, RunInv
    <2> QED
      BY <1>1, <1>3, <1>4, <2>1 DEF IndInv, RunsApart
  <1>10. FreshUnsent' /\ FirstRows' /\ SentAtMostOnce' /\ ProofBeforePublish'
    BY <1>1 DEF IndInv, FreshUnsent, FirstRows, SentAtMostOnce, ProofBeforePublish
  <1>11. TrailsStayApart' /\ PublishedIsInRoom' /\ ExitOkIsRecorded'
    BY <1>1 DEF IndInv, TrailsStayApart, Follows, PublishedIsInRoom, ExitOkIsRecorded
  <1> QED
    BY <1>5, <1>7, <1>8, <1>9, <1>10, <1>11 DEF IndInv

(* A row at the end of the ledger that starts the trail of c or continues it *)
(* at its last row: the trails stay apart.                                   *)
LEMMA TrailGrows ==
  ASSUME IndInv, NEW c \in Clients, run[c].pc # "idle", NEW row \in Row,
         ledger' = Append(ledger, row), row.nonce = run[c].nonce, row.ref = run[c].row,
         \/ row.type = "publish_result" /\ run[c].stage = 4
         \/ run[c].stage \in 0 .. 3 /\ row.type = Stages[run[c].stage + 1]
  PROVE  /\ TrailsStayApart' /\ FirstRows'
         /\ \A j \in DOMAIN ledger' : ledger'[j].ref # Len(ledger) + 1
         /\ \A d \in Clients \ {c} : run[d].pc # "idle" /\ run[d].stage # 0 =>
               run[d].row \in DOMAIN ledger /\ row.ref # run[d].row
  <1>1. ledger \in Seq(Row) /\ RunInv(c) /\ run[c] \in Run
    BY DEF IndInv, TypeInv
  <1>2. /\ Len(ledger) \in Nat /\ DOMAIN ledger = 1 .. Len(ledger)
        /\ DOMAIN ledger' = 1 .. Len(ledger) + 1
        /\ \A i \in DOMAIN ledger : ledger'[i] = ledger[i]
        /\ ledger'[Len(ledger) + 1] = row
    BY <1>1, LedgerGrows
  <1>3. run[c].stage # 0 => TrailEnds(run[c])
    BY <1>1 DEF RunInv
  <1>4. run[c].stage = 0 => row.ref = 0 /\ row.type = "prepare_intent"
    BY <1>1, StagesAre DEF RunInv
  <1>5. run[c].stage # 0 => /\ row.ref \in DOMAIN ledger
                            /\ ledger[row.ref].type = Stages[run[c].stage]
                            /\ ledger[row.ref].nonce = row.nonce
                            /\ \A j \in DOMAIN ledger : ledger[j].ref # row.ref
                            /\ row.type # "prepare_intent"
    <2>1. run[c].stage \in 0 .. 4
      BY <1>1 DEF Run
    <2> QED
      BY <1>3, <2>1, StagesAre DEF TrailEnds
  <1>6. FirstRows'
    BY <1>2, <1>4, <1>5 DEF IndInv, FirstRows
  <1>7. ASSUME NEW i \in DOMAIN ledger'
        PROVE  /\ \A k \in {2, 3, 4} : ledger'[i].type = Stages[k] => Follows(i, Stages[k - 1])'
               /\ ledger'[i].type = "publish_result" => Follows(i, Stages[4])'
    <2>1. CASE i \in DOMAIN ledger
      <3>1. ledger'[i] = ledger[i] /\ ledger[i].ref \in 0 .. i - 1 /\ i \in 1 .. Len(ledger)
        BY <1>2, <2>1, RefsBack
      <3>2. ASSUME NEW type, Follows(i, type) PROVE Follows(i, type)'
        <4>1. ledger[i].ref \in 1 .. i - 1 /\ ledger[i].ref \in DOMAIN ledger
          BY <1>2, <3>1, <3>2 DEF Follows
        <4> QED
          BY <1>2, <3>1, <3>2, <4>1 DEF Follows
      <3>3. /\ \A k \in {2, 3, 4} : ledger[i].type = Stages[k] => Follows(i, Stages[k - 1])
            /\ ledger[i].type = "publish_result" => Follows(i, Stages[4])
        BY <2>1, StagesAre DEF IndInv, TrailsStayApart
      <3>4. /\ \A k \in {2, 3, 4} : ledger[i].type = Stages[k] => Follows(i, Stages[k - 1])'
            /\ ledger[i].type = "publish_result" => Follows(i, Stages[4])'
        BY <3>2, <3>3
      <3> QED
        BY <3>1, <3>4
    <2>2. CASE i = Len(ledger) + 1
      <3>1. CASE run[c].stage = 0
        BY <1>2, <1>4, <2>2, <3>1, StagesAre
      <3>2. CASE run[c].stage # 0
        <4>1. ledger'[i] = row /\ ledger'[row.ref] = ledger[row.ref] /\ row.ref \in 1 .. i - 1
          BY <1>2, <1>5, <2>2, <3>2
        <4>2. PICK type : type = Stages[run[c].stage]
          OBVIOUS
        <4>3. Follows(i, type)'
          BY <1>5, <3>2, <4>1, <4>2 DEF Follows
        <4>4. /\ \A k \in {2, 3, 4} : ledger'[i].type = Stages[k] => type = Stages[k - 1]
              /\ ledger'[i].type = "publish_result" => type = Stages[4]
          <5>1. run[c].stage \in 1 .. 4
            BY <1>1, <3>2 DEF Run
          <5> QED
            BY <4>1, <4>2, <5>1, StagesAre
        <4> QED
          BY <4>3, <4>4
      <3> QED
        BY <3>1, <3>2
    <2> QED
      BY <1>2, <2>1, <2>2
  <1>8. \A i \in DOMAIN ledger' : \A j \in DOMAIN ledger' :
           ledger'[i].ref # 0 /\ ledger'[j].ref = ledger'[i].ref => i = j
    <2> SUFFICES ASSUME NEW i \in DOMAIN ledger', NEW j \in DOMAIN ledger',
                        ledger'[i].ref # 0, ledger'[j].ref = ledger'[i].ref
                 PROVE  i = j
      OBVIOUS
    <2>1. CASE i \in DOMAIN ledger /\ j \in DOMAIN ledger
      BY <1>2, <2>1 DEF IndInv, TrailsStayApart
    <2>2. CASE i = Len(ledger) + 1 \/ j = Len(ledger) + 1
      BY <1>2, <1>4, <1>5, <2>2
    <2> QED
      BY <1>2, <2>1, <2>2
  <1>9. TrailsStayApart'
    BY <1>7, <1>8, StagesAre DEF TrailsStayApart
  <1>10. \A j \in DOMAIN ledger' : ledger'[j].ref # Len(ledger) + 1
    <2>1. \A j \in DOMAIN ledger : ledger[j].ref <= Len(ledger)
      BY <1>2, RefsBack
    <2> QED
      BY <1>2, <1>4, <1>5, <2>1
  <1>11. ASSUME NEW d \in Clients \ {c}, run[d].pc # "idle", run[d].stage # 0
         PROVE  run[d].row \in DOMAIN ledger /\ row.ref # run[d].row
    <2>1. /\ run[d].row \in DOMAIN ledger
          /\ ledger[run[d].row].nonce = run[d].nonce
      BY <1>11 DEF IndInv, RunInv, TrailEnds
    <2>2. run[d].nonce # run[c].nonce
      BY <1>11 DEF IndInv, RunsApart
    <2> QED
      BY <1>2, <1>4, <1>5, <2>1, <2>2
  <1> QED
    BY <1>6, <1>9, <1>10, <1>11

(* What the others know survives a row of another trail. *)
LEMMA OthersKeep ==
  ASSUME IndInv, NEW row, ledger' = Append(ledger, row),
         UNCHANGED <<last, sent, net, room, open, reply>>,
         NEW d \in Clients, run'[d] = run[d],
         run[d].pc # "idle" /\ run[d].stage # 0 => row.ref # run[d].row
  PROVE  RunInv(d)'
  <1>1. RunInv(d) /\ ledger \in Seq(Row)
    BY DEF IndInv, TypeInv
  <1>2. /\ DOMAIN ledger = 1 .. Len(ledger) /\ DOMAIN ledger' = 1 .. Len(ledger) + 1
        /\ \A i \in DOMAIN ledger : ledger'[i] = ledger[i]
        /\ ledger'[Len(ledger) + 1] = row /\ Len(ledger) \in Nat
    BY <1>1, LedgerGrows
  <1>3. run[d].pc # "idle" /\ run[d].stage # 0 => TrailEnds(run[d])'
    <2> SUFFICES ASSUME run[d].pc # "idle", run[d].stage # 0 PROVE TrailEnds(run[d])'
      OBVIOUS
    <2>1. TrailEnds(run[d]) /\ row.ref # run[d].row
      BY <1>1 DEF RunInv
    <2> QED
      BY <1>2, <2>1 DEF TrailEnds
  <1> QED
    BY <1>1, <1>3 DEF RunInv, AtSeq, NoReply

LEMMA RecordProofInv ==
  ASSUME IndInv, NEW c \in Clients, RecordProof(c)
  PROVE  IndInv'
  <1> DEFINE row == ProofRow(c)
             s == [pc |-> "proof", nonce |-> run[c].nonce, host |-> run[c].host,
                   stage |-> run[c].stage + 1, row |-> Len(ledger) + 1,
                   outcome |-> run[c].outcome]
  <1>1. /\ RunInv(c) /\ run[c] \in Run /\ ledger \in Seq(Row) /\ run \in [Clients -> Run]
        /\ run[c].pc = "proof" /\ run[c].stage \in 0 .. 3
        /\ ledger' = Append(ledger, row)
        /\ UNCHANGED <<last, sent, exits, net, room, open, reply>>
    <2>1. run[c].stage \in 0 .. 4
      BY DEF IndInv, TypeInv, Run
    <2> QED
      BY <2>1, StagesAre DEF RecordProof, IndInv, TypeInv, tcVars
  <1>2. /\ row.type = Stages[run[c].stage + 1] /\ row.ref = run[c].row
        /\ row.nonce = run[c].nonce /\ row.status = "NOT_SENT" /\ row \in Row
    BY <1>1, StagesAre DEF ProofRow, Row, Run
  <1> HIDE DEF row
  <1>3. /\ Len(ledger) \in Nat /\ DOMAIN ledger = 1 .. Len(ledger)
        /\ DOMAIN ledger' = 1 .. Len(ledger) + 1 /\ Len(ledger') = Len(ledger) + 1
        /\ \A i \in DOMAIN ledger : ledger'[i] = ledger[i]
        /\ ledger'[Len(ledger) + 1] = row
    BY <1>1, LedgerGrows
  <1>4. /\ run' \in [Clients -> Run] /\ run'[c] = s
        /\ \A d \in Clients \ {c} : run'[d] = run[d]
    <2>1. run' = [run EXCEPT ![c].stage = @ + 1, ![c].row = Len(ledger')]
      BY DEF RecordProof
    <2>2. s \in Run
      BY <1>1, <1>3 DEF Run
    <2>3. run'[c] = s
      BY <1>1, <1>3, <2>1 DEF Run
    <2>4. DOMAIN run' = Clients /\ \A d \in Clients \ {c} : run'[d] = run[d]
      BY <1>1, <2>1
    <2>5. run' = [d \in Clients |-> run'[d]]
      BY <1>1, <2>1
    <2> HIDE DEF s
    <2> QED
      BY <1>1, <2>2, <2>3, <2>4, <2>5
  <1>5. /\ run'[c].pc = "proof" /\ run'[c].nonce = run[c].nonce
        /\ run'[c].stage = run[c].stage + 1 /\ run'[c].row = Len(ledger) + 1
    BY <1>4
  <1> HIDE DEF s
  <1>6. TypeInv'
    <2>1. ledger' \in Seq(Row)
      BY <1>1, <1>2
    <2> QED
      BY <1>1, <1>4, <2>1 DEF IndInv, TypeInv
  <1>7. /\ TrailsStayApart' /\ FirstRows'
        /\ \A j \in DOMAIN ledger' : ledger'[j].ref # Len(ledger) + 1
        /\ \A d \in Clients \ {c} : run[d].pc # "idle" /\ run[d].stage # 0 =>
              run[d].row \in DOMAIN ledger /\ row.ref # run[d].row
    BY <1>1, <1>2, TrailGrows
  <1>8. RunInv(c)'
    <2>1. TrailEnds(run[c])'
      BY <1>2, <1>3, <1>5, <1>7 DEF TrailEnds
    <2> QED
      BY <1>1, <1>5, <2>1 DEF RunInv, TrailEnds, NoReply
  <1>9. \A d \in Clients \ {c} : RunInv(d)'
    BY <1>1, <1>4, <1>7, OthersKeep
  <1>10. RunsApart' /\ FreshUnsent' /\ SentAtMostOnce'
    BY <1>1, <1>4, <1>5 DEF IndInv, RunsApart, FreshUnsent, SentAtMostOnce
  <1>11. ProofBeforePublish'
    <2> SUFFICES ASSUME NEW n \in DOMAIN sent, sent[n] > 0
                 PROVE  \E i \in DOMAIN ledger' :
                           ledger'[i].type = Stages[4] /\ ledger'[i].nonce = n
      BY <1>1, StagesAre DEF ProofBeforePublish
    <2>1. PICK i \in DOMAIN ledger : ledger[i].type = Stages[4] /\ ledger[i].nonce = n
      BY StagesAre DEF IndInv, ProofBeforePublish
    <2> QED
      BY <1>3, <2>1
  <1>12. PublishedIsInRoom'
    BY <1>1, <1>2, <1>3 DEF IndInv, PublishedIsInRoom
  <1>13. ExitOkIsRecorded'
    <2> SUFFICES ASSUME NEW x \in exits, x.code = "ok"
                 PROVE  \E i \in DOMAIN ledger' :
                           ledger'[i].status = "PUBLISHED" /\ ledger'[i].nonce = x.nonce
      BY <1>1 DEF ExitOkIsRecorded
    <2>1. PICK i \in DOMAIN ledger : ledger[i].status = "PUBLISHED" /\ ledger[i].nonce = x.nonce
      BY DEF IndInv, ExitOkIsRecorded
    <2> QED
      BY <1>3, <2>1
  <1> QED
    BY <1>6, <1>7, <1>8, <1>9, <1>10, <1>11, <1>12, <1>13 DEF IndInv

LEMMA RecordResultInv ==
  ASSUME IndInv, NEW c \in Clients, RecordResult(c)
  PROVE  IndInv'
  <1> DEFINE row == ResultRow(c)
             code == IF run[c].outcome.status = "PUBLISHED" THEN "ok" ELSE "error"
  <1>1. /\ RunInv(c) /\ run[c] \in Run /\ ledger \in Seq(Row) /\ run[c].pc = "record"
        /\ ledger' = Append(ledger, row) /\ Finish(c, code)
        /\ UNCHANGED <<last, sent, net, room, open, reply>>
    BY DEF RecordResult, IndInv, TypeInv, tcVars
  <1>2. /\ run[c].stage = 4 /\ run[c].nonce \in 1 .. last
        /\ run[c].outcome.status = "PUBLISHED" => AtSeq(run[c].nonce, run[c].outcome.seq)
        /\ open[c] = 0 /\ reply[c] = NoReply
    BY <1>1 DEF RunInv
  <1>3. /\ row.type = "publish_result" /\ row.ref = run[c].row
        /\ row.nonce = run[c].nonce /\ row.status = run[c].outcome.status
        /\ row.seq = run[c].outcome.seq /\ row \in Row
    BY <1>1 DEF ResultRow, Row, Run, Outcome
  <1> HIDE DEF row
  <1>4. /\ Len(ledger) \in Nat /\ DOMAIN ledger = 1 .. Len(ledger)
        /\ DOMAIN ledger' = 1 .. Len(ledger) + 1
        /\ \A i \in DOMAIN ledger : ledger'[i] = ledger[i]
        /\ ledger'[Len(ledger) + 1] = row
    BY <1>1, LedgerGrows
  <1>5. Idle \in Run /\ Idle.pc = "idle" /\ Idle.nonce = 0
    BY DEF Idle, Run, Phases, Hosts, Outcome, NoOutcome
  <1>6. /\ run' \in [Clients -> Run] /\ run'[c].pc = "idle" /\ run'[c].nonce = 0
        /\ \A d \in Clients \ {c} : run'[d] = run[d]
        /\ exits' = exits \cup {[nonce |-> run[c].nonce, code |-> code]}
    BY <1>1, <1>5 DEF Finish, IndInv, TypeInv
  <1>7. TypeInv'
    <2>1. ledger' \in Seq(Row)
      BY <1>1, <1>3
    <2> QED
      BY <1>1, <1>6, <2>1 DEF IndInv, TypeInv
  <1>8. /\ TrailsStayApart' /\ FirstRows'
        /\ \A d \in Clients \ {c} : run[d].pc # "idle" /\ run[d].stage # 0 =>
              run[d].row \in DOMAIN ledger /\ row.ref # run[d].row
    BY <1>1, <1>2, <1>3, TrailGrows
  <1>9. RunInv(c)'
    BY <1>1, <1>2, <1>6 DEF RunInv, NoReply
  <1>10. \A d \in Clients \ {c} : RunInv(d)'
    BY <1>1, <1>6, <1>8, OthersKeep
  <1>11. RunsApart' /\ FreshUnsent' /\ SentAtMostOnce'
    <2>1. \A d \in Clients : run[d].pc # "idle" => run[d].nonce # 0
      BY DEF IndInv, RunInv
    <2> QED
      BY <1>1, <1>6, <2>1 DEF IndInv, RunsApart, FreshUnsent, SentAtMostOnce
  <1>12. ProofBeforePublish'
    <2> SUFFICES ASSUME NEW n \in DOMAIN sent, sent[n] > 0
                 PROVE  \E i \in DOMAIN ledger' :
                           ledger'[i].type = Stages[4] /\ ledger'[i].nonce = n
      BY <1>1, StagesAre DEF ProofBeforePublish
    <2>1. PICK i \in DOMAIN ledger : ledger[i].type = Stages[4] /\ ledger[i].nonce = n
      BY StagesAre DEF IndInv, ProofBeforePublish
    <2> QED
      BY <1>4, <2>1
  <1>13. PublishedIsInRoom'
    BY <1>1, <1>2, <1>3, <1>4 DEF IndInv, PublishedIsInRoom, AtSeq
  <1>14. ExitOkIsRecorded'
    <2> SUFFICES ASSUME NEW x \in exits', x.code = "ok"
                 PROVE  \E i \in DOMAIN ledger' :
                           ledger'[i].status = "PUBLISHED" /\ ledger'[i].nonce = x.nonce
      BY DEF ExitOkIsRecorded
    <2>1. CASE x \in exits
      <3>1. PICK i \in DOMAIN ledger :
               ledger[i].status = "PUBLISHED" /\ ledger[i].nonce = x.nonce
        BY <2>1 DEF IndInv, ExitOkIsRecorded
      <3> QED
        BY <1>4, <3>1
    <2>2. CASE x = [nonce |-> run[c].nonce, code |-> code]
      BY <1>3, <1>4, <2>2
    <2> QED
      BY <1>6, <2>1, <2>2
  <1> QED
    BY <1>7, <1>8, <1>9, <1>10, <1>11, <1>12, <1>13, <1>14 DEF IndInv

LEMMA SendInv ==
  ASSUME IndInv, NEW c \in Clients, Send(c)
  PROVE  IndInv'
  <1> DEFINE n == run[c].nonce
             s == [pc |-> "wait", nonce |-> n, host |-> run[c].host,
                   stage |-> run[c].stage, row |-> run[c].row, outcome |-> run[c].outcome]
  <1>1. /\ TypeInv /\ RunInv(c) /\ run[c] \in Run /\ run[c].pc = "acquire"
        /\ UNCHANGED <<last, ledger, exits, room, reply>>
    BY DEF Send, Request, IndInv, TypeInv
  <1>2. /\ TrailEnds(run[c]) /\ run[c].stage = 4 /\ sent[n] = 0 /\ reply[c] = NoReply
        /\ n \in 1 .. last /\ n \in 1 .. MaxNonce
    BY <1>1, PublishAssumption DEF RunInv, TypeInv
  <1>3. run' = [run EXCEPT ![c] = s] /\ s \in Run
    <2>1. s \in Run
      BY <1>1 DEF Run, Phases
    <2>2. run' = [run EXCEPT ![c].pc = "wait"] /\ run \in [Clients -> Run]
      BY <1>1 DEF Send, TypeInv
    <2>3. [run[c] EXCEPT !.pc = "wait"] = s
      BY <1>1 DEF Run
    <2> QED
      BY <2>1, <2>2, <2>3
  <1>4. /\ s.pc = "wait" /\ s.nonce = n /\ s.stage = run[c].stage /\ s.row = run[c].row
    OBVIOUS
  <1> HIDE DEF s
  <1>5. /\ run' \in [Clients -> Run] /\ run'[c] = s
        /\ \A d \in Clients \ {c} : run'[d] = run[d]
    BY <1>1, <1>3 DEF TypeInv
  <1>6. /\ sent' \in [1 .. MaxNonce -> Nat] /\ sent'[n] = 1
        /\ \A m \in 1 .. MaxNonce : m # n => sent'[m] = sent[m]
    BY <1>1, <1>2 DEF Send, TypeInv
  <1>7. /\ open' \in [Clients -> Nat] /\ open'[c] = n
        /\ \A d \in Clients \ {c} : open'[d] = open[d]
        /\ net' = net \cup {[from |-> c, nonce |-> n]}
    BY <1>1, <1>2 DEF Send, Request, TypeInv
  <1>8. TypeInv'
    <2>1. n \in Nat \ {0}
      BY <1>1, <1>2, PublishAssumption DEF TypeInv
    <2>2. net' \subseteq [from : Clients, nonce : Nat \ {0}]
      BY <1>1, <1>7, <2>1 DEF TypeInv
    <2> QED
      BY <1>1, <1>5, <1>6, <1>7, <2>2 DEF TypeInv
  <1>9. RunInv(c)'
    <2>1. TrailEnds(run[c])'
      BY <1>1, <1>2, <1>4, <1>5 DEF TrailEnds
    <2> QED
      BY <1>1, <1>2, <1>4, <1>5, <1>7, <2>1 DEF RunInv, TrailEnds, NoReply
  <1>10. ASSUME NEW d \in Clients \ {c} PROVE RunInv(d)'
    <2>1. RunInv(d)
      BY DEF IndInv
    <2>2. run[d].pc # "idle" => run[d].nonce # n /\ run[d].nonce \in 1 .. MaxNonce
      BY <1>1, <2>1, PublishAssumption DEF IndInv, RunInv, RunsApart, TypeInv
    <2>3. run[d].pc \in {"proof", "acquire"} => sent'[run[d].nonce] = sent[run[d].nonce]
      BY <1>6, <2>2
    <2> QED
      BY <1>1, <1>5, <1>7, <2>1, <2>3 DEF RunInv, TrailEnds, AtSeq, NoReply
  <1>11. RunsApart' /\ FirstRows'
    <2>1. \A d \in Clients : run'[d].nonce = run[d].nonce
      BY <1>4, <1>5
    <2>2. \A d \in Clients : run'[d].pc # "idle" => run[d].pc # "idle"
      BY <1>1, <1>5
    <2> QED
      BY <1>1, <2>1, <2>2 DEF IndInv, RunsApart, FirstRows
  <1>12. FreshUnsent' /\ SentAtMostOnce'
    <2>1. \A m \in 1 .. MaxNonce : m > last => m # n
      BY <1>1, <1>2, PublishAssumption DEF TypeInv
    <2>2. DOMAIN sent = 1 .. MaxNonce /\ DOMAIN sent' = 1 .. MaxNonce
      BY <1>1, <1>6 DEF TypeInv
    <2> QED
      BY <1>1, <1>6, <2>1, <2>2 DEF IndInv, FreshUnsent, SentAtMostOnce
  <1>13. ProofBeforePublish'
    <2>1. \E i \in DOMAIN ledger : ledger[i].type = Stages[4] /\ ledger[i].nonce = n
      BY <1>2 DEF TrailEnds
    <2>2. DOMAIN sent' = DOMAIN sent /\ DOMAIN sent = 1 .. MaxNonce
      BY <1>1, <1>6 DEF TypeInv
    <2> QED
      BY <1>1, <1>6, <2>1, <2>2, StagesAre DEF IndInv, ProofBeforePublish
  <1>14. TrailsStayApart' /\ PublishedIsInRoom' /\ ExitOkIsRecorded'
    BY <1>1 DEF IndInv, TrailsStayApart, Follows, PublishedIsInRoom, ExitOkIsRecorded
  <1> QED
    BY <1>8, <1>9, <1>10, <1>11, <1>12, <1>13, <1>14 DEF IndInv

-----------------------------------------------------------------------------
(* Steps of the room and the network *)

(* The room only grows, and an acceptance tells the place of the nonce that  *)
(* its caller waits for.                                                     *)
LEMMA NetworkStep ==
  ASSUME IndInv, TypeInv', UNCHANGED <<last, ledger, run, sent, exits, open>>,
         \A seq \in DOMAIN room : seq \in DOMAIN room' /\ room'[seq] = room[seq],
         \A c \in Clients :
            \/ reply'[c] = reply[c]
            \/ /\ run[c].pc = "wait"
               /\ reply'[c].kind = "accepted" => AtSeq(run[c].nonce, reply[c].seq)'
  PROVE  IndInv'
  <1>1. ASSUME NEW c \in Clients PROVE RunInv(c)'
    <2>1. RunInv(c)
      BY DEF IndInv
    <2>2. CASE reply'[c] = reply[c]
      BY <2>1, <2>2 DEF RunInv, TrailEnds, AtSeq, NoReply
    <2>3. CASE /\ run[c].pc = "wait"
               /\ reply'[c].kind = "accepted" => AtSeq(run[c].nonce, reply[c].seq)'
      BY <2>1, <2>3 DEF RunInv, TrailEnds, AtSeq
    <2> QED
      BY <2>2, <2>3
  <1>2. RunsApart' /\ FreshUnsent' /\ FirstRows' /\ SentAtMostOnce' /\ ProofBeforePublish'
    BY DEF IndInv, RunsApart, FreshUnsent, FirstRows, SentAtMostOnce, ProofBeforePublish
  <1>3. TrailsStayApart' /\ ExitOkIsRecorded'
    BY DEF IndInv, TrailsStayApart, Follows, ExitOkIsRecorded
  <1>4. PublishedIsInRoom'
    BY DEF IndInv, PublishedIsInRoom
  <1> QED
    BY <1>1, <1>2, <1>3, <1>4 DEF IndInv

(* An answer reaches nobody, or the process that waits for this nonce. *)
LEMMA AnswerIs ==
  ASSUME IndInv, NEW r \in net, NEW kind \in {"accepted", "odd", "rejected"},
         NEW seq \in Nat, Answer(r, kind, seq), UNCHANGED run
  PROVE  /\ net' \subseteq net /\ UNCHANGED open /\ reply' \in [Clients -> Reply]
         /\ \A c \in Clients :
               \/ reply'[c] = reply[c]
               \/ /\ run[c].pc = "wait" /\ run[c].nonce = r.nonce
                  /\ reply'[c].kind = kind /\ reply'[c].seq = seq
  <1>1. /\ TypeInv /\ r.from \in Clients /\ r.nonce \in Nat \ {0}
        /\ net' \subseteq net /\ UNCHANGED open
    BY DEF IndInv, TypeInv, Answer
  <1>2. CASE open[r.from] = r.nonce
    <2>1. run[r.from].pc = "wait" /\ run[r.from].nonce = r.nonce
      BY <1>1, <1>2 DEF IndInv, RunInv
    <2>2. reply' = [reply EXCEPT ![r.from] = [kind |-> kind, seq |-> seq,
                                                    whole |-> FALSE]]
      BY <1>2 DEF Answer
    <2>3. reply' \in [Clients -> Reply]
      BY <1>1, <2>2 DEF TypeInv, Reply
    <2>4. reply'[r.from] = [kind |-> kind, seq |-> seq, whole |-> FALSE]
      BY <1>1, <2>2 DEF TypeInv
    <2>5. \A c \in Clients \ {r.from} : reply'[c] = reply[c]
      BY <1>1, <2>2 DEF TypeInv
    <2> QED
      BY <1>1, <2>1, <2>3, <2>4, <2>5
  <1>3. CASE open[r.from] # r.nonce
    BY <1>1, <1>3 DEF Answer, TypeInv
  <1> QED
    BY <1>2, <1>3

LEMMA StoredInv ==
  ASSUME IndInv, NEW r \in net, Store(r) \/ StoreMasked(r),
         UNCHANGED <<last, ledger, run, sent, exits>>
  PROVE  IndInv'
  <1>1. TypeInv /\ r.nonce \in Nat /\ room' = Append(room, r.nonce)
    BY DEF IndInv, TypeInv, Store, StoreMasked
  <1>2. /\ Len(room) \in Nat /\ DOMAIN room = 1 .. Len(room)
        /\ DOMAIN room' = 1 .. Len(room) + 1
        /\ \A seq \in DOMAIN room : room'[seq] = room[seq]
        /\ room'[Len(room) + 1] = r.nonce /\ room' \in Seq(Nat)
    BY <1>1 DEF TypeInv
  <1>3. PICK kind \in {"accepted", "odd", "rejected"}, seq \in Nat :
           Answer(r, kind, seq) /\ (kind = "accepted" => seq = Len(room) + 1)
    BY <1>2 DEF Store, StoreMasked
  <1>4. /\ net' \subseteq net /\ UNCHANGED open /\ reply' \in [Clients -> Reply]
        /\ \A c \in Clients :
              \/ reply'[c] = reply[c]
              \/ /\ run[c].pc = "wait" /\ run[c].nonce = r.nonce
                 /\ reply'[c].kind = kind /\ reply'[c].seq = seq
    BY <1>3, AnswerIs
  <1>5. TypeInv'
    BY <1>1, <1>2, <1>4 DEF TypeInv
  <1>6. kind = "accepted" => seq \in DOMAIN room' /\ room'[seq] = r.nonce
    BY <1>2, <1>3
  <1>7. \A c \in Clients :
           \/ reply'[c] = reply[c]
           \/ /\ run[c].pc = "wait"
              /\ reply'[c].kind = "accepted" => AtSeq(run[c].nonce, reply[c].seq)'
    BY <1>4, <1>6 DEF AtSeq
  <1> QED
    BY <1>2, <1>4, <1>5, <1>7, NetworkStep

LEMMA TurnedDownInv ==
  ASSUME IndInv, NEW r \in net, Reject(r) \/ Redirect(r),
         UNCHANGED <<last, ledger, run, sent, exits>>
  PROVE  IndInv'
  <1>1. TypeInv /\ UNCHANGED room
    BY DEF IndInv, Reject, Redirect
  <1>2. PICK kind \in {"odd", "rejected"} : Answer(r, kind, 0)
    BY DEF Reject, Redirect
  <1>3. /\ net' \subseteq net /\ UNCHANGED open /\ reply' \in [Clients -> Reply]
        /\ \A c \in Clients :
              \/ reply'[c] = reply[c]
              \/ /\ run[c].pc = "wait" /\ run[c].nonce = r.nonce
                 /\ reply'[c].kind = kind /\ reply'[c].seq = 0
    BY <1>2, AnswerIs
  <1>4. TypeInv'
    BY <1>1, <1>3 DEF TypeInv
  <1> QED
    BY <1>1, <1>3, <1>4, NetworkStep

(* Something is lost on its way. *)
LEMMA LostInv ==
  ASSUME IndInv, UNCHANGED <<last, ledger, run, sent, exits>>,
         (\E r \in net : LoseRequest(r)) \/ (\E c \in Clients : LoseReply(c) \/ FinishReply(c))
  PROVE  IndInv'
  <1>1. TypeInv /\ UNCHANGED <<room, open>> /\ net' \subseteq net
    BY DEF IndInv, LoseRequest, LoseReply, FinishReply
  <1>2. CASE UNCHANGED reply
    <2>1. TypeInv'
      BY <1>1, <1>2 DEF TypeInv
    <2> QED
      BY <1>1, <1>2, <2>1, NetworkStep
  <1>3. ASSUME NEW c \in Clients, LoseReply(c)
        PROVE  IndInv'
    <2>1. /\ reply' \in [Clients -> Reply] /\ reply'[c] = NoReply
          /\ \A d \in Clients \ {c} : reply'[d] = reply[d]
      BY <1>1, <1>3 DEF TypeInv, LoseReply, NoReply, Reply
    <2>2. run[c].pc = "wait"
      BY <1>3 DEF IndInv, RunInv, LoseReply
    <2>3. reply'[c].kind # "accepted"
      BY <2>1 DEF NoReply
    <2>4. TypeInv'
      BY <1>1, <2>1 DEF TypeInv
    <2> QED
      BY <1>1, <2>1, <2>2, <2>3, <2>4, NetworkStep
  <1>4. ASSUME NEW c \in Clients, FinishReply(c)
        PROVE  IndInv'
    <2>1. /\ reply' = [reply EXCEPT ![c].whole = TRUE] /\ reply[c] \in Reply
          /\ reply[c] # NoReply
      BY <1>1, <1>4 DEF TypeInv, FinishReply
    <2>2. /\ reply' \in [Clients -> Reply]
          /\ reply'[c].kind = reply[c].kind /\ reply'[c].seq = reply[c].seq
          /\ \A d \in Clients \ {c} : reply'[d] = reply[d]
      BY <1>1, <2>1 DEF TypeInv, Reply
    <2>3. /\ run[c].pc = "wait"
          /\ reply[c].kind = "accepted" => AtSeq(run[c].nonce, reply[c].seq)
      BY <2>1 DEF IndInv, RunInv
    <2>4. reply'[c].kind = "accepted" => AtSeq(run[c].nonce, reply[c].seq)'
      BY <1>1, <2>2, <2>3 DEF AtSeq
    <2>5. TypeInv'
      BY <1>1, <2>2 DEF TypeInv
    <2> QED
      BY <1>1, <2>2, <2>3, <2>4, <2>5, NetworkStep
  <1> QED
    BY <1>2, <1>3, <1>4 DEF LoseRequest

-----------------------------------------------------------------------------
LEMMA NextInv ==
  ASSUME IndInv, [Next]_vars
  PROVE  IndInv'
  <1>1. CASE UNCHANGED vars
    <2>1. TypeInv' /\ UNCHANGED <<last, ledger, run, sent, exits, open, room, reply>>
      BY <1>1 DEF vars, tcVars, IndInv, TypeInv
    <2> QED
      BY <2>1, NetworkStep
  <1>2. ASSUME NEW c \in Clients, NEW a \in Args, Invoke(c, a) PROVE IndInv'
    BY <1>2, InvokeInv
  <1>3. ASSUME NEW c \in Clients, Step(c) PROVE IndInv'
    <2>1. CASE ProofRefused(c)
      BY <2>1, FinishInv DEF ProofRefused
    <2>2. CASE RateLimited(c)
      BY <2>2, FinishInv DEF RateLimited
    <2>3. CASE ResultRefused(c)
      BY <2>3, FinishInv DEF ResultRefused
    <2>4. CASE ConnectError(c)
      BY <2>4, ConcludeInv DEF ConnectError
    <2>5. CASE Timeout(c)
      BY <2>5, ConcludeInv DEF Timeout
    <2> QED
      BY <1>3, <2>1, <2>2, <2>3, <2>4, <2>5, RecordProofInv, OpenGateInv, SendInv,
         RespondInv, RecordResultInv DEF Step
  <1>4. ASSUME NEW c \in Clients, Crash(c) PROVE IndInv'
    BY <1>4, FinishInv DEF Crash
  <1>5. CASE Elsewhere
    BY <1>5, StoredInv, TurnedDownInv, LostInv DEF Elsewhere, tcNext
  <1> QED
    BY <1>1, <1>2, <1>3, <1>4, <1>5 DEF Next

LEMMA Invariant == Spec => []IndInv
  BY InitInv, NextInv, PTL DEF Spec

(* The four proof rows and the result row of an invocation are one chain, in *)
(* their order, that no other invocation's row joins or continues            *)
(* (announcement.py, record_local_announcement_proof and                     *)
(* _record_publish_result pass on the id of the row before).                 *)
THEOREM TrailsApart == Spec => []TrailsStayApart
  <1>1. IndInv => TrailsStayApart
    BY DEF IndInv
  <1> QED
    BY <1>1, Invariant, PTL

(* A nonce is sent only when the row that closes its proof is in the ledger  *)
(* (announcement.py, publish_first_announcement_once: proof, then gate).      *)
THEOREM ProofComesFirst == Spec => []ProofBeforePublish
  <1>1. IndInv => ProofBeforePublish
    BY DEF IndInv
  <1> QED
    BY <1>1, Invariant, PTL

(* A nonce is sent once and never retried (announcement.py; the gate of      *)
(* client.py "cannot be reused for retries").                                *)
THEOREM NonceSentOnce == Spec => []SentAtMostOnce
  <1>1. IndInv => SentAtMostOnce
    BY DEF IndInv
  <1> QED
    BY <1>1, Invariant, PTL

(* A PUBLISHED row names the place where the room keeps the message          *)
(* (announcement.py, _record_publish_result).                                *)
THEOREM PublishedIsTrue == Spec => []PublishedIsInRoom
  <1>1. IndInv => PublishedIsInRoom
    BY DEF IndInv
  <1> QED
    BY <1>1, Invariant, PTL

(* An operator who saw EXIT_OK finds a PUBLISHED row of its nonce in the     *)
(* ledger, now and at any later time (announcement.py,                       *)
(* publish_official_announcement; the command's exit code).                  *)
THEOREM ExitOkIsTrue == Spec => []ExitOkIsRecorded
  <1>1. IndInv => ExitOkIsRecorded
    BY DEF IndInv
  <1> QED
    BY <1>1, Invariant, PTL

-----------------------------------------------------------------------------
(* Publish implements WriteSpec *)

(* What is on its way was sent; the room keeps its nonces in order; and no    *)
(* invocation in hand has a result row yet.                                  *)
RequestsSent == \A r \in net : r.nonce \in 1 .. MaxNonce /\ sent[r.nonce] > 0
RoomIncreasing == \A s, t \in DOMAIN room : s < t => room[s] < room[t]
NoncesIssued == \A i \in DOMAIN ledger : ledger[i].nonce \in 1 .. last
NotConcluded(c) == run[c].pc # "idle" =>
    \A i \in DOMAIN ledger :
        ledger[i].type = "publish_result" => ledger[i].nonce # run[c].nonce

SpecInv == /\ RequestsSent
           /\ RoomIncreasing
           /\ NoncesIssued
           /\ \A c \in Clients : NotConcluded(c)

(* A step that sends nothing, stores nothing and writes no row: who is in an *)
(* invocation stays in it or leaves it.                                      *)
Quiet == /\ UNCHANGED <<last, ledger, sent, room>> /\ net' \subseteq net
         /\ \A c \in Clients :
               \/ run'[c] = run[c]
               \/ run'[c].pc = "idle"
               \/ run[c].pc # "idle" /\ run'[c].nonce = run[c].nonce

LEMMA FinishIsQuiet ==
  ASSUME IndInv, NEW c \in Clients, NEW code, Finish(c, code),
         HangUp(c) \/ UNCHANGED tcVars, UNCHANGED <<last, ledger, sent>>
  PROVE  Quiet
  <1>1. UNCHANGED <<net, room>>
    BY DEF HangUp, tcVars
  <1>2. run' = [run EXCEPT ![c] = Idle] /\ Idle.pc = "idle"
    BY DEF Finish, Idle
  <1>3. run \in [Clients -> Run]
    BY DEF IndInv, TypeInv
  <1>4. run'[c].pc = "idle" /\ \A d \in Clients \ {c} : run'[d] = run[d]
    BY <1>2, <1>3
  <1> QED
    BY <1>1, <1>4 DEF Quiet

LEMMA ConcludeIsQuiet ==
  ASSUME IndInv, NEW c \in Clients, NEW status, NEW seq, Conclude(c, status, seq),
         run[c].pc # "idle", HangUp(c) \/ UNCHANGED tcVars, UNCHANGED <<last, ledger, sent>>
  PROVE  Quiet
  <1>1. UNCHANGED <<net, room>>
    BY DEF HangUp, tcVars
  <1>2. run' = [run EXCEPT ![c].pc = "record",
                           ![c].outcome = [status |-> status, seq |-> seq]]
    BY DEF Conclude
  <1>3. run \in [Clients -> Run]
    BY DEF IndInv, TypeInv
  <1>4. run'[c].nonce = run[c].nonce /\ \A d \in Clients \ {c} : run'[d] = run[d]
    BY <1>2, <1>3 DEF Run
  <1> QED
    BY <1>1, <1>4 DEF Quiet

LEMMA OpenGateIsQuiet ==
  ASSUME IndInv, NEW c \in Clients, OpenGate(c)
  PROVE  Quiet
  <1>1. CASE run[c].host = "public"
    <2>1. run' = [run EXCEPT ![c].pc = "acquire"] /\ run \in [Clients -> Run]
          /\ run[c].pc = "proof"
      BY <1>1 DEF OpenGate, IndInv, TypeInv
    <2>2. run'[c].nonce = run[c].nonce /\ \A d \in Clients \ {c} : run'[d] = run[d]
      BY <2>1 DEF Run
    <2> QED
      BY <2>1, <2>2 DEF Quiet, OpenGate, tcVars
  <1>2. CASE run[c].host # "public"
    BY <1>2, FinishIsQuiet DEF OpenGate
  <1> QED
    BY <1>1, <1>2

(* What a step can be, to the invariants here. *)
LEMMA KindsOfStep ==
  ASSUME IndInv, [Next]_vars
  PROVE  \/ Quiet
         \/ \E c \in Clients : \/ \E a \in Args : Invoke(c, a)
                               \/ RecordProof(c) \/ Send(c) \/ RecordResult(c)
         \/ /\ UNCHANGED <<last, ledger, run, sent>>
            /\ \E r \in net : Store(r) \/ StoreMasked(r)
  <1>1. CASE UNCHANGED vars
    BY <1>1 DEF vars, tcVars, Quiet
  <1>2. CASE Elsewhere
    <2>1. UNCHANGED <<last, ledger, run, sent>>
      BY <1>2 DEF Elsewhere
    <2>2. \/ \E r \in net : Store(r) \/ StoreMasked(r)
          \/ UNCHANGED room /\ net' \subseteq net
      BY <1>2 DEF Elsewhere, tcNext, Reject, Redirect, LoseRequest, LoseReply,
         FinishReply, Answer
    <2> QED
      BY <2>1, <2>2 DEF Quiet
  <1>3. ASSUME NEW c \in Clients, Step(c) \/ Crash(c)
        PROVE  Quiet \/ RecordProof(c) \/ Send(c) \/ RecordResult(c)
    <2>1. CASE ProofRefused(c)
      BY <2>1, FinishIsQuiet DEF ProofRefused
    <2>2. CASE RateLimited(c)
      BY <2>2, FinishIsQuiet DEF RateLimited
    <2>3. CASE ResultRefused(c)
      BY <2>3, FinishIsQuiet DEF ResultRefused
    <2>4. CASE Crash(c)
      BY <2>4, FinishIsQuiet DEF Crash
    <2>5. CASE ConnectError(c)
      BY <2>5, ConcludeIsQuiet DEF ConnectError
    <2>6. CASE Timeout(c)
      BY <2>6, ConcludeIsQuiet DEF Timeout
    <2>7. CASE Respond(c)
      BY <2>7, ConcludeIsQuiet, FinishIsQuiet DEF Respond
    <2> QED
      BY <1>3, <2>1, <2>2, <2>3, <2>4, <2>5, <2>6, <2>7, OpenGateIsQuiet DEF Step
  <1> QED
    BY <1>1, <1>2, <1>3 DEF Next

LEMMA SpecInvStarts == Init => SpecInv
  BY DEF Init, tcInit, Idle, SpecInv, RequestsSent, RoomIncreasing, NoncesIssued, NotConcluded

LEMMA QuietKeeps ==
  ASSUME IndInv, SpecInv, Quiet
  PROVE  SpecInv'
  <1>1. RequestsSent' /\ RoomIncreasing' /\ NoncesIssued'
    BY DEF SpecInv, Quiet, RequestsSent, RoomIncreasing, NoncesIssued
  <1>2. ASSUME NEW c \in Clients PROVE NotConcluded(c)'
    BY DEF SpecInv, Quiet, NotConcluded
  <1> QED
    BY <1>1, <1>2 DEF SpecInv

LEMMA InvokeKeeps ==
  ASSUME IndInv, SpecInv, NEW c \in Clients, NEW a \in Args, Invoke(c, a)
  PROVE  SpecInv'
  <1>1. /\ last \in Nat /\ last' = last + 1 /\ run \in [Clients -> Run]
        /\ UNCHANGED <<ledger, sent, net, room>>
    BY PublishAssumption DEF Invoke, IndInv, TypeInv, tcVars
  <1>2. run'[c].nonce = last + 1 /\ \A d \in Clients \ {c} : run'[d] = run[d]
    <2>1. run' = [run EXCEPT ![c] = [Idle EXCEPT !.pc = "proof", !.nonce = last',
                                                 !.host = a.host]]
      BY DEF Invoke
    <2>2. [Idle EXCEPT !.pc = "proof", !.nonce = last', !.host = a.host].nonce = last'
      BY DEF Idle
    <2> QED
      BY <1>1, <2>1, <2>2
  <1>3. RequestsSent' /\ RoomIncreasing' /\ NoncesIssued'
    BY <1>1 DEF SpecInv, RequestsSent, RoomIncreasing, NoncesIssued
  <1>4. NotConcluded(c)'
    BY <1>1, <1>2 DEF SpecInv, NoncesIssued, NotConcluded
  <1>5. \A d \in Clients \ {c} : NotConcluded(d)'
    BY <1>1, <1>2 DEF SpecInv, NotConcluded
  <1> QED
    BY <1>3, <1>4, <1>5 DEF SpecInv

(* A row of an invocation, with its nonce. *)
LEMMA RowKeeps ==
  ASSUME IndInv, SpecInv, NEW c \in Clients, run[c].pc # "idle",
         NEW row, row.nonce = run[c].nonce, ledger' = Append(ledger, row),
         row.type # "publish_result" \/ run'[c].pc = "idle",
         run'[c].pc = "idle" \/ run'[c].nonce = run[c].nonce,
         \A d \in Clients \ {c} : run'[d] = run[d],
         UNCHANGED <<last, sent, net, room>>
  PROVE  SpecInv'
  <1>1. /\ DOMAIN ledger' = DOMAIN ledger \cup {Len(ledger) + 1}
        /\ \A i \in DOMAIN ledger : ledger'[i] = ledger[i]
        /\ ledger'[Len(ledger) + 1] = row
    BY LedgerGrows DEF IndInv, TypeInv
  <1>2. row.nonce \in 1 .. last
    BY DEF IndInv, RunInv
  <1>3. RequestsSent' /\ RoomIncreasing' /\ NoncesIssued'
    BY <1>1, <1>2 DEF SpecInv, RequestsSent, RoomIncreasing, NoncesIssued
  <1>4. NotConcluded(c)'
    BY <1>1 DEF SpecInv, NotConcluded
  <1>5. ASSUME NEW d \in Clients \ {c} PROVE NotConcluded(d)'
    <2>1. run[d].pc # "idle" => row.nonce # run[d].nonce
      BY <1>5 DEF IndInv, RunsApart
    <2> QED
      BY <1>1, <1>5, <2>1 DEF SpecInv, NotConcluded
  <1> QED
    BY <1>3, <1>4, <1>5 DEF SpecInv

LEMMA RecordProofIs ==
  ASSUME IndInv, NEW c \in Clients, RecordProof(c)
  PROVE  /\ run[c].pc = "proof" /\ run'[c].nonce = run[c].nonce
         /\ ProofRow(c).nonce = run[c].nonce /\ ledger' = Append(ledger, ProofRow(c))
         /\ ProofRow(c).type \in {"prepare_intent", "signed_local", "verified_local",
                                  "publish_blocked"}
         /\ \A d \in Clients \ {c} : run'[d] = run[d]
         /\ UNCHANGED <<last, sent, net, room>>
  <1>1. run \in [Clients -> Run] /\ run[c].stage \in 0 .. 4
    BY DEF IndInv, TypeInv, Run
  <1>2. run' = [run EXCEPT ![c].stage = @ + 1, ![c].row = Len(ledger')]
    BY DEF RecordProof
  <1>3. run'[c].nonce = run[c].nonce /\ \A d \in Clients \ {c} : run'[d] = run[d]
    BY <1>1, <1>2 DEF Run
  <1>4. run[c].stage \in 0 .. 3
    BY <1>1, StagesAre DEF RecordProof
  <1>5. ProofRow(c).type = Stages[run[c].stage + 1] /\ ProofRow(c).nonce = run[c].nonce
    BY DEF ProofRow
  <1>6. ProofRow(c).type \in {"prepare_intent", "signed_local", "verified_local",
                             "publish_blocked"}
    <2>1. \/ run[c].stage = 0 \/ run[c].stage = 1 \/ run[c].stage = 2 \/ run[c].stage = 3
      BY <1>4
    <2> QED
      BY <1>5, <2>1, StagesAre
  <1>7. /\ run[c].pc = "proof" /\ ledger' = Append(ledger, ProofRow(c))
        /\ UNCHANGED <<last, sent, net, room>>
    BY DEF RecordProof, tcVars
  <1> QED
    BY <1>3, <1>5, <1>6, <1>7

LEMMA RecordResultIs ==
  ASSUME IndInv, NEW c \in Clients, RecordResult(c)
  PROVE  /\ run[c].pc = "record" /\ run'[c].pc = "idle"
         /\ ResultRow(c).nonce = run[c].nonce /\ ledger' = Append(ledger, ResultRow(c))
         /\ ResultRow(c).type = "publish_result"
         /\ \A d \in Clients \ {c} : run'[d] = run[d]
         /\ UNCHANGED <<last, sent, net, room>>
  <1>1. run \in [Clients -> Run] /\ run' = [run EXCEPT ![c] = Idle] /\ Idle.pc = "idle"
    BY DEF IndInv, TypeInv, RecordResult, Finish, Idle
  <1>2. run'[c].pc = "idle" /\ \A d \in Clients \ {c} : run'[d] = run[d]
    BY <1>1
  <1> QED
    BY <1>2 DEF RecordResult, ResultRow, tcVars

LEMMA SendKeeps ==
  ASSUME IndInv, SpecInv, NEW c \in Clients, Send(c)
  PROVE  SpecInv'
  <1>1. /\ run[c].pc = "acquire" /\ UNCHANGED <<last, ledger, room>>
        /\ net' = net \cup {[from |-> c, nonce |-> run[c].nonce]}
        /\ sent' = [sent EXCEPT ![run[c].nonce] = @ + 1]
        /\ run' = [run EXCEPT ![c].pc = "wait"]
        /\ run \in [Clients -> Run] /\ sent \in [1 .. MaxNonce -> Nat]
    BY DEF Send, Request, IndInv, TypeInv
  <1>2. run[c].nonce \in 1 .. MaxNonce
    BY <1>1, PublishAssumption DEF IndInv, RunInv, TypeInv
  <1>3. \A n \in 1 .. MaxNonce : sent'[n] = IF n = run[c].nonce THEN sent[n] + 1 ELSE sent[n]
    BY <1>1, <1>2
  <1>4. RequestsSent'
    <2>1. ASSUME NEW r \in net' PROVE r.nonce \in 1 .. MaxNonce /\ sent'[r.nonce] > 0
      <3>1. CASE r \in net
        <4>1. r.nonce \in 1 .. MaxNonce /\ sent[r.nonce] > 0
          BY <3>1 DEF SpecInv, RequestsSent
        <4> QED
          BY <1>1, <1>3, <4>1
      <3>2. CASE r = [from |-> c, nonce |-> run[c].nonce]
        <4>1. r.nonce = run[c].nonce
          BY <3>2
        <4> QED
          BY <1>1, <1>2, <1>3, <4>1
      <3> QED
        BY <1>1, <2>1, <3>1, <3>2
    <2> QED
      BY <2>1 DEF RequestsSent
  <1>5. RoomIncreasing' /\ NoncesIssued'
    BY <1>1 DEF SpecInv, RoomIncreasing, NoncesIssued
  <1>6. run'[c].nonce = run[c].nonce /\ \A d \in Clients \ {c} : run'[d] = run[d]
    BY <1>1 DEF Run
  <1>7. \A d \in Clients : NotConcluded(d)'
    BY <1>1, <1>6 DEF SpecInv, NotConcluded
  <1> QED
    BY <1>4, <1>5, <1>7 DEF SpecInv

(* What the service stores exceeds all that it has. *)
LEMMA StoredIsNew ==
  ASSUME IndInv, SpecInv, NEW r \in net, r.nonce > lastNonce
  PROVE  \A s \in DOMAIN room : room[s] < r.nonce
  <1>1. /\ room \in Seq(Nat) /\ Len(room) \in Nat /\ DOMAIN room = 1 .. Len(room)
        /\ r.nonce \in Nat
    BY DEF IndInv, TypeInv
  <1>2. ASSUME NEW s \in DOMAIN room PROVE room[s] < r.nonce
    <2>1. s \in 1 .. Len(room) /\ Len(room) \in DOMAIN room /\ room # <<>>
      BY <1>1
    <2>2. r.nonce > room[Len(room)] /\ room[s] \in Nat /\ room[Len(room)] \in Nat
      BY <1>1, <2>1 DEF lastNonce
    <2>3. s = Len(room) \/ room[s] < room[Len(room)]
      BY <1>1, <2>1 DEF SpecInv, RoomIncreasing
    <2> QED
      BY <1>1, <2>2, <2>3
  <1> QED
    BY <1>2

LEMMA StoreKeeps ==
  ASSUME IndInv, SpecInv, NEW r \in net, Store(r) \/ StoreMasked(r),
         UNCHANGED <<last, ledger, run, sent>>
  PROVE  SpecInv'
  <1>1. r.nonce > lastNonce /\ room' = Append(room, r.nonce) /\ net' \subseteq net
    BY DEF Store, StoreMasked, Answer
  <1>2. \A s \in DOMAIN room : room[s] < r.nonce
    BY <1>1, StoredIsNew
  <1>3. /\ Len(room) \in Nat /\ DOMAIN room = 1 .. Len(room)
        /\ DOMAIN room' = 1 .. Len(room) + 1
        /\ \A s \in DOMAIN room : room'[s] = room[s]
        /\ room'[Len(room) + 1] = r.nonce
    BY <1>1 DEF IndInv, TypeInv
  <1>4. RoomIncreasing'
    BY <1>2, <1>3 DEF SpecInv, RoomIncreasing
  <1>5. RequestsSent' /\ NoncesIssued' /\ \A c \in Clients : NotConcluded(c)'
    BY <1>1 DEF SpecInv, RequestsSent, NoncesIssued, NotConcluded
  <1> QED
    BY <1>4, <1>5 DEF SpecInv

LEMMA SpecInvariant == Spec => []SpecInv
  <1>1. ASSUME IndInv, SpecInv, [Next]_vars PROVE SpecInv'
    <2>1. ASSUME NEW c \in Clients, RecordProof(c) PROVE SpecInv'
      BY <1>1, <2>1, RecordProofIs, RowKeeps
    <2>2. ASSUME NEW c \in Clients, RecordResult(c) PROVE SpecInv'
      BY <1>1, <2>2, RecordResultIs, RowKeeps
    <2> QED
      BY <1>1, <2>1, <2>2, KindsOfStep, QuietKeeps, InvokeKeeps, SendKeeps, StoreKeeps
  <1> QED
    BY <1>1, SpecInvStarts, Invariant, PTL DEF Spec

(* What a row more adds to what the ledger says. *)
LEMMA RowSays ==
  ASSUME ledger \in Seq(Row), NEW row, ledger' = Append(ledger, row)
  PROVE  /\ noted' = noted \cup {n \in {row.nonce} : row.type = "publish_blocked"}
         /\ said' = said \cup {v \in {verdict(row)} : row.type = "publish_result"}
  <1>1. /\ DOMAIN ledger' = DOMAIN ledger \cup {Len(ledger) + 1}
        /\ \A i \in DOMAIN ledger : ledger'[i] = ledger[i]
        /\ ledger'[Len(ledger) + 1] = row
    BY LedgerGrows
  <1>2. \A n : n \in noted' <=> n \in noted \/ (n = row.nonce /\ row.type = "publish_blocked")
    BY <1>1, StagesAre DEF noted
  <1>3. \A v : v \in said' <=> v \in said \/ (v = verdict(row) /\ row.type = "publish_result")
    BY <1>1 DEF said
  <1> QED
    BY <1>2, <1>3

LEMMA SameSays ==
  ASSUME UNCHANGED ledger
  PROVE  UNCHANGED <<noted, said>>
  BY DEF noted, said

(* The row that closes the proof is the note. *)
LEMMA ProofNotes ==
  ASSUME IndInv, NEW c \in Clients, RecordProof(c)
  PROVE  [Promise!Next]_(Promise!specVars)
  <1> DEFINE row == ProofRow(c)
  <1>a. /\ ledger' = Append(ledger, row) /\ UNCHANGED room /\ run[c].pc = "proof"
        /\ row.nonce = run[c].nonce /\ row.type # "publish_result"
    BY RecordProofIs
  <1> HIDE DEF row
  <1>b. run[c].nonce \in 1 .. last /\ last \in 0 .. MaxNonce
    BY <1>a DEF IndInv, TypeInv, RunInv
  <1>1. /\ ledger \in Seq(Row) /\ ledger' = Append(ledger, row) /\ UNCHANGED room
        /\ row.nonce = run[c].nonce /\ row.type # "publish_result"
        /\ run[c].nonce \in 1 .. MaxNonce
    BY <1>a, <1>b, PublishAssumption DEF IndInv, TypeInv
  <1>2. /\ said' = said
        /\ noted' = noted \/ noted' = noted \cup {run[c].nonce}
    BY <1>1, RowSays
  <1> QED
    BY <1>1, <1>2 DEF Promise!Next, Promise!Note, Promise!specVars

(* The result row is the verdict, and it is true. *)
LEMMA ResultConcludes ==
  ASSUME IndInv, SpecInv, NEW c \in Clients, RecordResult(c)
  PROVE  Promise!Next
  <1> DEFINE row == ResultRow(c)
             n == run[c].nonce
             says == verdict(row).says
             seq == verdict(row).seq
  <1>1. /\ ledger \in Seq(Row) /\ ledger' = Append(ledger, row) /\ UNCHANGED room
        /\ row.nonce = n /\ row.type = "publish_result" /\ run[c].pc = "record"
        /\ n \in 1 .. MaxNonce
    BY RecordResultIs, PublishAssumption DEF IndInv, TypeInv, RunInv
  <1>2. row.status = run[c].outcome.status /\ row.seq = run[c].outcome.seq
    BY DEF ResultRow
  <1> HIDE DEF row
  <1>3. /\ verdict(row) = [nonce |-> n, says |-> says, seq |-> seq]
        /\ says \in {"landed", "unknown"}
        /\ says = "landed" => row.status = "PUBLISHED" /\ seq = row.seq
        /\ says # "landed" => seq = 0
    BY <1>1 DEF verdict
  <1>4. noted' = noted /\ said' = said \cup {[nonce |-> n, says |-> says, seq |-> seq]}
    <2>1. noted' = noted /\ said' = said \cup {verdict(row)}
      BY <1>1, RowSays
    <2> QED
      BY <1>3, <2>1
  <1> HIDE DEF says, seq
  <1>5. n \in noted
    BY <1>1, StagesAre DEF IndInv, RunInv, TrailEnds, noted
  <1>6. \A v \in said : v.nonce # n
    <2>1. \A i \in DOMAIN ledger : ledger[i].type = "publish_result" => ledger[i].nonce # n
      BY <1>1 DEF SpecInv, NotConcluded
    <2>2. \A i : verdict(ledger[i]).nonce = ledger[i].nonce
      BY DEF verdict
    <2> QED
      BY <2>1, <2>2 DEF said
  <1>7. says = "landed" => seq \in DOMAIN room /\ room[seq] = n
    BY <1>1, <1>2, <1>3 DEF IndInv, RunInv, AtSeq
  <1>8. seq \in 0 .. Len(room)
    <2>1. Len(room) \in Nat /\ DOMAIN room = 1 .. Len(room)
      BY DEF IndInv, TypeInv
    <2>2. CASE says = "landed"
      <3>1. seq \in 1 .. Len(room)
        BY <1>7, <2>1, <2>2
      <3> QED
        BY <2>1, <3>1
    <2>3. CASE says # "landed"
      <3>1. seq = 0
        BY <1>3, <2>3
      <3> QED
        BY <2>1, <3>1
    <2> QED
      BY <2>2, <2>3
  <1> HIDE DEF n
  <1>9. Promise!Conclude(n, says, seq)
    BY <1>1, <1>3, <1>4, <1>5, <1>6, <1>7 DEF Promise!Conclude
  <1> QED
    BY <1>1, <1>3, <1>8, <1>9 DEF Promise!Next, Promise!Says

(* A request that the service stores is the landing. *)
LEMMA StoreLands ==
  ASSUME IndInv, SpecInv, NEW r \in net, Store(r) \/ StoreMasked(r), UNCHANGED ledger
  PROVE  Promise!Next
  <1>1. r.nonce > lastNonce /\ room' = Append(room, r.nonce)
    BY DEF Store, StoreMasked
  <1>2. r.nonce \in 1 .. MaxNonce /\ sent[r.nonce] > 0
    BY DEF SpecInv, RequestsSent
  <1>3. r.nonce \in noted
    BY <1>2 DEF IndInv, TypeInv, ProofBeforePublish, noted
  <1>4. ~Promise!Holds(r.nonce)
    <2>1. \A s \in DOMAIN room : room[s] < r.nonce
      BY <1>1, StoredIsNew
    <2>2. \A s \in DOMAIN room : room[s] \in Nat
      BY DEF IndInv, TypeInv
    <2> QED
      BY <1>2, <2>1, <2>2 DEF Promise!Holds
  <1>5. \A v \in said : v.says # "not landed"
    <2>1. \A row : verdict(row).says # "not landed"
      BY DEF verdict
    <2> QED
      BY <2>1 DEF said
  <1>6. Promise!Land(r.nonce)
    BY <1>1, <1>3, <1>4, <1>5, SameSays DEF Promise!Land
  <1> QED
    BY <1>2, <1>6 DEF Promise!Next

(* To who reads the ledger, a publication is noted before it lands, lands at *)
(* most once, and is concluded at most once, PUBLISHED only with its place   *)
(* (announcement.py, publish_first_announcement_once).                       *)
THEOREM KeepsItsPromise == Spec => ImplementsWriteSpec
  <1>1. Init => Promise!Init
    BY DEF Init, tcInit, Promise!Init, noted, said
  <1>2. ASSUME IndInv, SpecInv, [Next]_vars PROVE [Promise!Next]_(Promise!specVars)
    <2>1. CASE UNCHANGED <<ledger, room>>
      BY <2>1, SameSays DEF Promise!specVars
    <2>2. Quiet => UNCHANGED <<ledger, room>>
      BY DEF Quiet
    <2>3. ASSUME NEW c \in Clients, Send(c) \/ \E a \in Args : Invoke(c, a)
          PROVE  UNCHANGED <<ledger, room>>
      BY <2>3 DEF Send, Request, Invoke, tcVars
    <2> QED
      BY <1>2, <2>1, <2>2, <2>3, KindsOfStep, ProofNotes, ResultConcludes, StoreLands
  <1> QED
    BY <1>1, <1>2, Invariant, SpecInvariant, PTL
       DEF Spec, ImplementsWriteSpec, Promise!Spec

-----------------------------------------------------------------------------
(* The steps Publish takes for granted are steps of the modules below *)

Scope == {"room"}

(* All nonces up to last were handed out, each once, in order. *)
Issuance == INSTANCE NonceSpec WITH
    Keys <- Scope, top <- [k \in Scope |-> last],
    issued <- [k \in Scope |-> [n \in 1 .. last |-> n]]

(* What a step appends is one row, with a nonce that was handed out, and its *)
(* reference, if it has one, is a row that is there: Ledger.append never     *)
(* turns it down with "ref_activity_id does not exist".                      *)
AppendFits ==
    \E row \in Row : /\ ledger' = Append(ledger, row)
                     /\ row.nonce \in 1 .. last
                     /\ row.ref = 0 \/ row.ref \in DOMAIN ledger

RowsFitTheLedger == [][UNCHANGED ledger \/ AppendFits]_vars

(* Handing out the next nonce is a step NonceSpec allows. *)
LEMMA IssuesNext ==
  ASSUME last \in Nat, last < MaxNonce, MaxNonce \in Nat, last' = last + 1
  PROVE  Issuance!Next
  <1> DEFINE top == [k \in Scope |-> last]
             issued == [k \in Scope |-> [n \in 1 .. last |-> n]]
  <1>1. last' \in (last + 1) .. MaxNonce /\ "room" \in Scope
    BY DEF Scope
  <1>2. top' = [top EXCEPT !["room"] = last']
    BY DEF Scope
  <1>3. issued' = [issued EXCEPT !["room"] = Append(issued["room"], last')]
    <2>1. issued["room"] = [n \in 1 .. last |-> n]
      BY <1>1
    <2>2. [n \in 1 .. last |-> n] \in Seq(Nat) /\ Len([n \in 1 .. last |-> n]) = last
      OBVIOUS
    <2>3. Append([n \in 1 .. last |-> n], last + 1) = [n \in 1 .. last + 1 |-> n]
      BY <2>2
    <2> QED
      BY <2>1, <2>3 DEF Scope
  <1>4. Issuance!Issue("room")
    BY <1>1, <1>2, <1>3 DEF Issuance!Issue
  <1> QED
    BY <1>1, <1>4 DEF Issuance!Next

LEMMA PublishRowFits ==
  ASSUME IndInv, NEW c \in Clients, RecordProof(c) \/ RecordResult(c)
  PROVE  AppendFits
  <1>1. /\ run[c] \in Run /\ run[c].row \in Nat /\ run[c].outcome.seq \in Nat
        /\ run[c].outcome \in Outcome
    BY DEF IndInv, TypeInv, Run, Outcome
  <1>2. /\ run[c].pc # "idle" => run[c].nonce \in 1 .. last
        /\ run[c].pc # "idle" => IF run[c].stage = 0 THEN run[c].row = 0
                                                     ELSE TrailEnds(run[c])
    BY DEF IndInv, RunInv
  <1>3. run[c].pc # "idle" => \/ run[c].row = 0
                              \/ run[c].row \in DOMAIN ledger
    BY <1>2 DEF TrailEnds
  <1>4. last \in Nat
    BY PublishAssumption DEF IndInv, TypeInv
  <1>5. ASSUME RecordProof(c)
        PROVE  /\ ledger' = Append(ledger, ProofRow(c)) /\ ProofRow(c) \in Row
               /\ ProofRow(c).nonce \in 1 .. last
               /\ ProofRow(c).ref = 0 \/ ProofRow(c).ref \in DOMAIN ledger
    <2>1. /\ run[c].pc = "proof" /\ ledger' = Append(ledger, ProofRow(c))
          /\ ProofRow(c).type \in {"prepare_intent", "signed_local", "verified_local",
                                   "publish_blocked"}
      BY <1>5, RecordProofIs
    <2>2. run[c].nonce \in 1 .. last /\ run[c].nonce \in Nat
      BY <1>2, <1>4, <2>1
    <2> QED
      BY <1>1, <1>3, <2>1, <2>2 DEF ProofRow, Row
  <1>6. ASSUME RecordResult(c)
        PROVE  /\ ledger' = Append(ledger, ResultRow(c)) /\ ResultRow(c) \in Row
               /\ ResultRow(c).nonce \in 1 .. last
               /\ ResultRow(c).ref = 0 \/ ResultRow(c).ref \in DOMAIN ledger
    <2>1. run[c].pc = "record" /\ ledger' = Append(ledger, ResultRow(c))
      BY <1>6, RecordResultIs
    <2>2. run[c].nonce \in 1 .. last /\ run[c].nonce \in Nat
      BY <1>2, <1>4, <2>1
    <2> QED
      BY <1>1, <1>3, <2>1, <2>2 DEF ResultRow, Row, Outcome
  <1> QED
    BY <1>5, <1>6 DEF AppendFits

(* Nonces are taken as NonceSpec hands them out and rows are appended as     *)
(* LedgerSpec takes them, so that NonceStore's and Ledger's transactions can *)
(* stand for the single steps here (announcement.py,                         *)
(* reserve_announcement_nonce, record_local_announcement_proof and           *)
(* _record_publish_result).                                                  *)
THEOREM UsesItsServices == Spec => Issuance!Spec /\ RowsFitTheLedger
  <1>1. Init => Issuance!Init
    BY DEF Init, Issuance!Init
  <1>2. ASSUME IndInv, [Next]_vars
        PROVE  \/ UNCHANGED <<last, ledger>>
               \/ \E c \in Clients : \E a \in Args : Invoke(c, a)
               \/ \E c \in Clients : RecordProof(c) \/ RecordResult(c)
    <2>1. Quiet => UNCHANGED <<last, ledger>>
      BY DEF Quiet
    <2>2. ASSUME NEW c \in Clients, Send(c) PROVE UNCHANGED <<last, ledger>>
      BY <2>2 DEF Send
    <2> QED
      BY <1>2, <2>1, <2>2, KindsOfStep
  <1>3. ASSUME IndInv, [Next]_vars PROVE [Issuance!Next]_(Issuance!specVars)
    <2>1. CASE UNCHANGED last
      BY <2>1 DEF Issuance!specVars
    <2>2. ASSUME NEW c \in Clients, NEW a, Invoke(c, a) PROVE Issuance!Next
      BY <1>3, <2>2, IssuesNext, PublishAssumption DEF Invoke, IndInv, TypeInv
    <2>3. ASSUME NEW c \in Clients, RecordProof(c) \/ RecordResult(c) PROVE UNCHANGED last
      BY <2>3 DEF RecordProof, RecordResult
    <2> QED
      BY <1>2, <1>3, <2>1, <2>2, <2>3
  <1>4. ASSUME IndInv, [Next]_vars
        PROVE  [UNCHANGED ledger \/ AppendFits]_vars
    <2>1. ASSUME NEW c \in Clients, NEW a, Invoke(c, a) PROVE UNCHANGED ledger
      BY <2>1 DEF Invoke
    <2> QED
      BY <1>2, <1>4, <2>1, PublishRowFits
  <1> QED
    BY <1>1, <1>3, <1>4, Invariant, PTL DEF Spec, Issuance!Spec, RowsFitTheLedger
=============================================================================
