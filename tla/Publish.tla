------------------------------ MODULE Publish -------------------------------
(***************************************************************************)
(* Publishing the reviewed announcement (technocore/announcement.py behind *)
(* `flopoffice publish-technocore-announcement`): reserve a nonce, sign,   *)
(* append four linked proof rows, open a one-use gate, send once, append a *)
(* linked result row.  Several invocations may run, and be run again after *)
(* a crash, over one ledger file.                                          *)
(*                                                                         *)
(* As in Outbound, nonce issuance and each ledger append are single steps. *)
(* The gate is made for the one write it meets here; PublicGate has the    *)
(* calls in which they differ.                                             *)
(***************************************************************************)
EXTENDS Technocore

CONSTANTS Args,       \* what an invocation is given: see Admitted
          MaxNonce    \* bound: invocations that get as far as a nonce

ASSUME PublishAssumption == MaxNonce \in Nat

VARIABLES last,       \* the nonce counter of (did, room)
          ledger,     \* the activities table; an id is a row's position
          run,        \* run[c]: the invocation that process c is in
          sent,       \* history: requests made with each nonce
          exits       \* history: how invocations ended: [nonce, code]

vars == <<last, ledger, run, sent, exits, tcVars>>

Stages == <<"prepare_intent", "signed_local", "verified_local", "publish_blocked">>

NoOutcome == [status |-> "none", seq |-> 0]

Idle == [pc |-> "idle", nonce |-> 0, host |-> "none",
         stage |-> 0,     \* proof rows written
         row |-> 0,       \* id of the last of them
         outcome |-> NoOutcome]

Init == /\ last = 0
        /\ ledger = <<>>
        /\ run = [c \in Clients |-> Idle]
        /\ sent = [n \in 1 .. MaxNonce |-> 0]
        /\ exits = {}
        /\ tcInit

(* The command checks what the function checks, and more. *)
Admitted(a) == /\ a.confirm /\ a.reviewed
               /\ a.via = "command" => a.host = "public" /\ a.clean

Finish(c, code) == /\ run' = [run EXCEPT ![c] = Idle]
                   /\ exits' = exits \cup {[nonce |-> run[c].nonce, code |-> code]}

-----------------------------------------------------------------------------
(* Mutant: the nonce is looked up, and not reserved. *)
InvokePeeks(c, a) ==
    /\ run[c].pc = "idle" /\ Admitted(a) /\ last < MaxNonce
    /\ run' = [run EXCEPT ![c] = [Idle EXCEPT !.pc = "proof", !.nonce = last + 1,
                                              !.host = a.host]]
    /\ UNCHANGED <<last, ledger, sent, exits, tcVars>>

(* The arguments pass, the nonce is reserved, the message signed and its     *)
(* signature verified.  Refused arguments leave no trace at all.  A nonce    *)
(* the operator chooses may leave a gap, and one that raced is spent for     *)
(* nothing: only the order of nonces matters here (NonceStore has the rest). *)
Invoke(c, a) ==
    /\ run[c].pc = "idle" /\ Admitted(a) /\ last < MaxNonce
    /\ last' = last + 1
    /\ run' = [run EXCEPT ![c] = [Idle EXCEPT !.pc = "proof", !.nonce = last',
                                              !.host = a.host]]
    /\ UNCHANGED <<ledger, sent, exits, tcVars>>

(* Mutant: each row refers to the ledger's head instead of its predecessor. *)
ProofRowAtHead(c) == [type |-> Stages[run[c].stage + 1], ref |-> Len(ledger),
                      nonce |-> run[c].nonce, status |-> "NOT_SENT", seq |-> 0]

ProofRow(c) == [type |-> Stages[run[c].stage + 1], ref |-> run[c].row,
                nonce |-> run[c].nonce, status |-> "NOT_SENT", seq |-> 0]

(* One of the four appends of record_local_announcement_proof. *)
RecordProof(c) ==
    /\ run[c].pc = "proof" /\ run[c].stage < Len(Stages)
    /\ ledger' = Append(ledger, ProofRow(c))
    /\ run' = [run EXCEPT ![c].stage = @ + 1, ![c].row = Len(ledger')]
    /\ UNCHANGED <<last, sent, exits, tcVars>>

(* Mutant: a locked ledger skips the rest of the proof. *)
ProofRefusedIgnored(c) ==
    /\ run[c].pc = "proof" /\ run[c].stage < Len(Stages)
    /\ run' = [run EXCEPT ![c].stage = Len(Stages)]
    /\ UNCHANGED <<last, ledger, sent, exits, tcVars>>

(* The ledger is locked: OperationalError leaves the command. *)
ProofRefused(c) ==
    /\ run[c].pc = "proof" /\ run[c].stage < Len(Stages)
    /\ Finish(c, "error")
    /\ UNCHANGED <<last, ledger, sent, tcVars>>

(* The gate is made for client.host, which must be a public one, and is      *)
(* consumed by the send it is made for.                                      *)
OpenGate(c) ==
    /\ run[c].pc = "proof" /\ run[c].stage = Len(Stages)
    /\ IF run[c].host = "public"
       THEN /\ run' = [run EXCEPT ![c].pc = "acquire"]
            /\ UNCHANGED exits
       ELSE Finish(c, "error")
    /\ UNCHANGED <<last, ledger, sent, tcVars>>

(* RateLimitExceeded is no TechnocoreError: no result row is written. *)
RateLimited(c) ==
    /\ run[c].pc = "acquire"
    /\ Finish(c, "error")
    /\ UNCHANGED <<last, ledger, sent, tcVars>>

Send(c) ==
    /\ run[c].pc = "acquire"
    /\ Request(c, run[c].nonce)
    /\ sent' = [sent EXCEPT ![run[c].nonce] = @ + 1]
    /\ run' = [run EXCEPT ![c].pc = "wait"]
    /\ UNCHANGED <<last, ledger, exits>>

Conclude(c, status, seq) ==
    /\ run' = [run EXCEPT ![c].pc = "record",
                          ![c].outcome = [status |-> status, seq |-> seq]]
    /\ UNCHANGED exits

(* httpx raises before the request leaves. *)
ConnectError(c) ==
    /\ run[c].pc = "acquire"
    /\ Conclude(c, "AMBIGUOUS_OR_FAILED", 0)
    /\ UNCHANGED <<last, ledger, sent, tcVars>>

(* Mutant: any answer below 400 counts as published. *)
RespondAny(c) ==
    /\ run[c].pc = "wait" /\ reply[c].whole
    /\ CASE reply[c].kind = "rejected" -> Conclude(c, "AMBIGUOUS_OR_FAILED", 0)
         [] OTHER -> Conclude(c, "PUBLISHED", reply[c].seq)
    /\ HangUp(c)
    /\ UNCHANGED <<last, ledger, sent>>

(* PUBLISHED takes {"ok": true, "seq": n}.  Any other answer below 400 is    *)
(* unexpected, or cannot even be hashed (JSON's NaN, a lone surrogate) and   *)
(* then _response_hash raises: no row.                                       *)
Respond(c) ==
    /\ run[c].pc = "wait" /\ reply[c].whole
    /\ \/ reply[c].kind = "rejected" /\ Conclude(c, "AMBIGUOUS_OR_FAILED", 0)
       \/ reply[c].kind = "accepted" /\ Conclude(c, "PUBLISHED", reply[c].seq)
       \/ reply[c].kind = "odd" /\ Conclude(c, "UNEXPECTED_RESPONSE", 0)
       \/ reply[c].kind = "odd" /\ Finish(c, "error")
    /\ HangUp(c)
    /\ UNCHANGED <<last, ledger, sent>>

(* Mutant: an ambiguous result is retried. *)
TimeoutRetries(c) ==
    /\ run[c].pc = "wait" /\ reply[c] = NoReply
    /\ run' = [run EXCEPT ![c].pc = IF sent[run[c].nonce] < 2 THEN "acquire" ELSE "record"]
    /\ HangUp(c)
    /\ UNCHANGED <<last, ledger, sent, exits>>

(* No answer in time; the request may still arrive. *)
Timeout(c) ==
    /\ run[c].pc = "wait" /\ reply[c] = NoReply
    /\ Conclude(c, "AMBIGUOUS_OR_FAILED", 0)
    /\ HangUp(c)
    /\ UNCHANGED <<last, ledger, sent>>

ResultRow(c) == [type |-> "publish_result", ref |-> run[c].row, nonce |-> run[c].nonce,
                 status |-> run[c].outcome.status, seq |-> run[c].outcome.seq]

(* _record_publish_result; only PUBLISHED exits with EXIT_OK. *)
RecordResult(c) ==
    /\ run[c].pc = "record"
    /\ ledger' = Append(ledger, ResultRow(c))
    /\ Finish(c, IF run[c].outcome.status = "PUBLISHED" THEN "ok" ELSE "error")
    /\ UNCHANGED <<last, sent, tcVars>>

(* Mutant: the exit code follows the answer, whatever became of the row. *)
ResultRefusedIgnored(c) ==
    /\ run[c].pc = "record"
    /\ Finish(c, IF run[c].outcome.status = "PUBLISHED" THEN "ok" ELSE "error")
    /\ UNCHANGED <<last, ledger, sent, tcVars>>

(* The ledger is locked when the result is to be written. *)
ResultRefused(c) ==
    /\ run[c].pc = "record"
    /\ Finish(c, "error")
    /\ UNCHANGED <<last, ledger, sent, tcVars>>

Crash(c) ==
    /\ run[c].pc # "idle"
    /\ Finish(c, "crash")
    /\ HangUp(c)
    /\ UNCHANGED <<last, ledger, sent>>

-----------------------------------------------------------------------------
Step(c) == \/ RecordProof(c) \/ ProofRefused(c) \/ OpenGate(c)
           \/ RateLimited(c) \/ Send(c) \/ ConnectError(c)
           \/ Respond(c) \/ Timeout(c) \/ RecordResult(c) \/ ResultRefused(c)

Elsewhere == tcNext /\ UNCHANGED <<last, ledger, run, sent, exits>>

Next == \/ \E c \in Clients : \/ \E a \in Args : Invoke(c, a)
                              \/ Step(c) \/ Crash(c)
        \/ Elsewhere

Spec == Init /\ [][Next]_vars

-----------------------------------------------------------------------------
(* What the ledger says of a publication, as WriteSpec puts it *)

noted == {ledger[i].nonce :
             i \in {k \in DOMAIN ledger : ledger[k].type = Stages[Len(Stages)]}}

verdict(row) ==
    [nonce |-> row.nonce,
     says |-> IF row.status = "PUBLISHED" THEN "landed" ELSE "unknown",
     seq |-> IF row.status = "PUBLISHED" THEN row.seq ELSE 0]

said == {verdict(ledger[i]) :
            i \in {k \in DOMAIN ledger : ledger[k].type = "publish_result"}}

Promise == INSTANCE WriteSpec WITH Nonces <- 1 .. MaxNonce

-----------------------------------------------------------------------------
(* Properties *)

Follows(i, type) == /\ ledger[i].ref \in 1 .. i - 1
                    /\ ledger[ledger[i].ref].type = type
                    /\ ledger[ledger[i].ref].nonce = ledger[i].nonce

(* However invocations interleave, every proof row links to the row before   *)
(* it in its own invocation's trail, every result to the last row of its     *)
(* trail, and no row is continued twice: the ledger keeps the trails of      *)
(* concurrent and repeated runs apart.                                       *)
TrailsStayApart ==
    \A i \in DOMAIN ledger :
        /\ \A k \in 2 .. Len(Stages) : ledger[i].type = Stages[k] => Follows(i, Stages[k - 1])
        /\ ledger[i].type = "publish_result" => Follows(i, Stages[Len(Stages)])
        /\ \A j \in DOMAIN ledger : ledger[i].ref # 0 /\ ledger[j].ref = ledger[i].ref => i = j

(* No request leaves before its whole proof is durable: the row that closes  *)
(* the trail of its nonce is in the ledger, whatever was locked or crashed.  *)
ProofBeforePublish ==
    \A n \in DOMAIN sent : sent[n] > 0 =>
        \E i \in DOMAIN ledger : ledger[i].type = Stages[Len(Stages)] /\ ledger[i].nonce = n

(* A nonce is sent at most once: by one invocation, and never retried, not   *)
(* after a timeout, nor after a crash (gate, "cannot be reused for retries").*)
SentAtMostOnce == \A n \in DOMAIN sent : sent[n] <= 1

(* PUBLISHED in the ledger is the truth about the room: the message is at    *)
(* the recorded seq, under the recorded nonce.                               *)
PublishedIsInRoom ==
    \A i \in DOMAIN ledger : ledger[i].status = "PUBLISHED" =>
        /\ ledger[i].seq \in DOMAIN room
        /\ room[ledger[i].seq] = ledger[i].nonce

(* An operator who saw EXIT_OK finds the PUBLISHED row in the ledger.        *)
ExitOkIsRecorded ==
    \A x \in exits : x.code = "ok" =>
        \E i \in DOMAIN ledger : ledger[i].status = "PUBLISHED" /\ ledger[i].nonce = x.nonce

(* To who reads the ledger, a publication is noted before it can land, lands *)
(* at most once, and is concluded at most once, PUBLISHED only with its      *)
(* place in the room (announcement.py).                                      *)
ImplementsWriteSpec == Promise!Spec

(* __main__.py:254, "publish the reviewed first Technocore announcement      *)
(* exactly once", and README.md:193, "It sends at most once".                *)
AnnouncedAtMostOnce == Len(room) <= 1
=============================================================================
