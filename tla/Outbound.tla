------------------------------ MODULE Outbound ------------------------------
(***************************************************************************)
(* Local writes to a Technocore room (technocore/outbound.py over          *)
(* technocore/client.py): reserve a nonce, sign, record the intent, check  *)
(* the write guard, take a token from the budget, send, and record a       *)
(* linked outcome.  Several processes share one ledger file and one did.   *)
(*                                                                         *)
(* Nonce issuance and ledger appends are single steps here; NonceStore and *)
(* Ledger show that their transactions implement such steps, and may       *)
(* instead raise "database is locked".                                     *)
(***************************************************************************)
EXTENDS Technocore

CONSTANTS Configs,    \* [host, enabled]: a client's host class and the value
                      \* of FLOPOFFICE_ALLOW_LOCAL_WRITE
          MaxNonce    \* bound: writes attempted

ASSUME OutboundAssumption == MaxNonce \in Nat

VARIABLES last,       \* the nonce counter of (did, room)
          ledger,     \* the activities table; an id is a row's position
          pc,         \* where each process is in its write
          write,      \* the SignedWrite in hand: its nonce, 0 if none
          config,     \* the client's configuration
          intent,     \* id of the intent row, 0 if none
          outcome,    \* what is about to be recorded
          raised      \* history: intents whose call raised, and why

locals == <<pc, write, config, intent, outcome>>
vars == <<last, ledger, locals, raised, tcVars>>

NoOutcome == [type |-> "none", detail |-> "none", seq |-> 0]
NoConfig == [host |-> "none", enabled |-> FALSE]

Failed(detail) == [type |-> "failed", detail |-> detail, seq |-> 0]
Result(seq) == [type |-> "result", detail |-> "none", seq |-> seq]

Init == /\ last = 0
        /\ ledger = <<>>
        /\ pc = [c \in Clients |-> "idle"]
        /\ write = [c \in Clients |-> 0]
        /\ config = [c \in Clients |-> NoConfig]
        /\ intent = [c \in Clients |-> 0]
        /\ outcome = [c \in Clients |-> NoOutcome]
        /\ raised = {}
        /\ tcInit

(* The call's frame is gone. *)
Over(c) == /\ pc' = [pc EXCEPT ![c] = "idle"]
           /\ write' = [write EXCEPT ![c] = 0]
           /\ config' = [config EXCEPT ![c] = NoConfig]
           /\ intent' = [intent EXCEPT ![c] = 0]
           /\ outcome' = [outcome EXCEPT ![c] = NoOutcome]

(* An exception send_and_record does not catch leaves it. *)
Raise(c, why) == /\ Over(c)
                 /\ raised' = raised \cup {[intent |-> intent[c], why |-> why]}

(* A TechnocoreError: caught, to be recorded as a failure. *)
Fail(c, detail) == /\ pc' = [pc EXCEPT ![c] = "record"]
                   /\ outcome' = [outcome EXCEPT ![c] = Failed(detail)]
                   /\ UNCHANGED <<write, config, intent>>

-----------------------------------------------------------------------------
(* NonceStore.reserve, then build_signed_message with the nonce. *)
Reserve(c, cfg) ==
    /\ pc[c] = "idle"
    /\ last < MaxNonce
    /\ last' = last + 1
    /\ write' = [write EXCEPT ![c] = last']
    /\ config' = [config EXCEPT ![c] = cfg]
    /\ pc' = [pc EXCEPT ![c] = "intend"]
    /\ UNCHANGED <<ledger, intent, outcome, raised, tcVars>>

IntentRow(c) == [type |-> "intent", ref |-> 0, nonce |-> write[c],
                 detail |-> "none", seq |-> 0]

(* record_intent *)
RecordIntent(c) ==
    /\ pc[c] = "intend"
    /\ ledger' = Append(ledger, IntentRow(c))
    /\ intent' = [intent EXCEPT ![c] = Len(ledger')]
    /\ pc' = [pc EXCEPT ![c] = "guard"]
    /\ UNCHANGED <<last, write, config, outcome, raised, tcVars>>

(* Mutant: a locked ledger is ignored and the write goes on. *)
IntentRefusedIgnored(c) ==
    /\ pc[c] = "intend"
    /\ pc' = [pc EXCEPT ![c] = "guard"]
    /\ UNCHANGED <<write, config, intent, outcome>>
    /\ UNCHANGED <<last, ledger, raised, tcVars>>

(* The ledger is locked: the call raises before anything is sent. *)
IntentRefused(c) ==
    /\ pc[c] = "intend"
    /\ Over(c)
    /\ UNCHANGED <<last, ledger, raised, tcVars>>

(* _assert_write_allowed with no public gate *)
WriteAllowed(cfg) == cfg.host = "loopback" /\ cfg.enabled

(* Mutant: the guard comes after the request. *)
GuardAfterSend(c) ==
    /\ pc[c] = "guard"
    /\ IF WriteAllowed(config[c])
       THEN /\ pc' = [pc EXCEPT ![c] = "send"]
            /\ UNCHANGED <<write, config, intent, outcome, tcVars>>
       ELSE Fail(c, "refused") /\ Request(c, write[c])
    /\ UNCHANGED <<last, ledger, raised>>

Guard(c) ==
    /\ pc[c] = "guard"
    /\ IF WriteAllowed(config[c])
       THEN /\ pc' = [pc EXCEPT ![c] = "send"]
            /\ UNCHANGED <<write, config, intent, outcome>>
       ELSE Fail(c, "refused")
    /\ UNCHANGED <<last, ledger, raised, tcVars>>

(* The write bucket is empty for longer than max_wait: RateLimitExceeded,    *)
(* which is no TechnocoreError.                                              *)
RateLimited(c) ==
    /\ pc[c] = "send"
    /\ Raise(c, "RateLimitExceeded")
    /\ UNCHANGED <<last, ledger, tcVars>>

(* A token is taken and the request goes out. *)
Send(c) ==
    /\ pc[c] = "send"
    /\ Request(c, write[c])
    /\ pc' = [pc EXCEPT ![c] = "wait"]
    /\ UNCHANGED <<last, ledger, write, config, intent, outcome, raised>>

(* No connection: httpx raises before the request leaves. *)
ConnectError(c) ==
    /\ pc[c] = "send"
    /\ Fail(c, "transport")
    /\ UNCHANGED <<last, ledger, raised, tcVars>>

(* Mutant: an HTTP error is taken for a refusal of the guard. *)
RespondRefused(c) ==
    /\ pc[c] = "wait"
    /\ reply[c].whole
    /\ IF reply[c].kind = "rejected"
       THEN Fail(c, "refused")
       ELSE /\ pc' = [pc EXCEPT ![c] = "record"]
            /\ outcome' = [outcome EXCEPT ![c] = Result(reply[c].seq)]
            /\ UNCHANGED <<write, config, intent>>
    /\ HangUp(c)
    /\ UNCHANGED <<last, ledger, raised>>

(* The answer: a status of 400 or more is a failure, whoever sent it; below  *)
(* that it is a result, with a seq when the body has one.                    *)
Respond(c) ==
    /\ pc[c] = "wait"
    /\ reply[c].whole
    /\ IF reply[c].kind = "rejected"
       THEN Fail(c, "rejected")
       ELSE /\ pc' = [pc EXCEPT ![c] = "record"]
            /\ outcome' = [outcome EXCEPT ![c] = Result(reply[c].seq)]
            /\ UNCHANGED <<write, config, intent>>
    /\ HangUp(c)
    /\ UNCHANGED <<last, ledger, raised>>

(* Mutant: the client waits for an answer however long it takes. *)
TimeoutNever(c) ==
    /\ pc[c] = "wait" /\ reply[c] = NoReply /\ UNCHANGED vars

(* httpx gives up when nothing has come for the length of its timeout, which *)
(* is of each read and not of the call; the request may still arrive.        *)
Timeout(c) ==
    /\ pc[c] = "wait"
    /\ reply[c] = NoReply
    /\ Fail(c, "transport")
    /\ HangUp(c)
    /\ UNCHANGED <<last, ledger, raised>>

OutcomeRow(c) == [type |-> outcome[c].type, ref |-> intent[c], nonce |-> write[c],
                  detail |-> outcome[c].detail, seq |-> outcome[c].seq]

(* Mutant: the seq is the room's newest, not the answer's. *)
RecordOutcomeNewestSeq(c) ==
    /\ pc[c] = "record"
    /\ ledger' = Append(ledger,
          [OutcomeRow(c) EXCEPT !.seq = IF @ = 0 THEN 0 ELSE Len(room)])
    /\ Over(c)
    /\ UNCHANGED <<last, raised, tcVars>>

(* Mutant: the append is repeated. *)
RecordOutcomeAgain(c) ==
    /\ pc[c] = "record"
    /\ Len(ledger) < 2 * MaxNonce
    /\ ledger' = Append(ledger, OutcomeRow(c))
    /\ UNCHANGED <<last, locals, raised, tcVars>>

(* Mutant: the outcome is linked to the oldest unresolved intent. *)
RecordOutcomeOldest(c) ==
    /\ pc[c] = "record"
    /\ LET unresolved == {i \in DOMAIN ledger :
                /\ ledger[i].type = "intent"
                /\ \A j \in DOMAIN ledger : ledger[j].ref # i}
           oldest == CHOOSE i \in unresolved : \A j \in unresolved : i <= j
       IN  ledger' = Append(ledger, [OutcomeRow(c) EXCEPT !.ref = oldest])
    /\ Over(c)
    /\ UNCHANGED <<last, raised, tcVars>>

(* technocore.write.result or technocore.write.failed, linked to the intent. *)
RecordOutcome(c) ==
    /\ pc[c] = "record"
    /\ ledger' = Append(ledger, OutcomeRow(c))
    /\ Over(c)
    /\ UNCHANGED <<last, raised, tcVars>>

(* The ledger is locked when the outcome is to be written. *)
OutcomeRefused(c) ==
    /\ pc[c] = "record"
    /\ Raise(c, "OperationalError")
    /\ UNCHANGED <<last, ledger, tcVars>>

(* The process dies; its connection closes with it. *)
Crash(c) ==
    /\ pc[c] # "idle"
    /\ Over(c)
    /\ HangUp(c)
    /\ UNCHANGED <<last, ledger, raised>>

-----------------------------------------------------------------------------
Step(c) == \/ RecordIntent(c) \/ IntentRefused(c) \/ Guard(c)
           \/ RateLimited(c) \/ Send(c) \/ ConnectError(c)
           \/ Respond(c) \/ Timeout(c)
           \/ RecordOutcome(c) \/ OutcomeRefused(c)

(* The room and the network move on their own. *)
Elsewhere == tcNext /\ UNCHANGED <<last, ledger, locals, raised>>

Next == \/ \E c \in Clients : \/ \E cfg \in Configs : Reserve(c, cfg)
                              \/ Step(c) \/ Crash(c)
        \/ Elsewhere

Spec == Init /\ [][Next]_vars

(* A started write keeps being scheduled, its wait for a token and each of   *)
(* its reads being bounded; the room and the network promise nothing.        *)
FairSpec == Spec /\ \A c \in Clients : WF_vars(Step(c))

-----------------------------------------------------------------------------
(* outbound.py, dangling_intents: intents no outcome refers to *)
dangling_intents ==
    {i \in DOMAIN ledger :
        /\ ledger[i].type = "intent"
        /\ ~\E j \in DOMAIN ledger : ledger[j].ref = i
                                     /\ ledger[j].type \in {"result", "failed"}}

-----------------------------------------------------------------------------
(* What the ledger says of a write, as WriteSpec puts it *)

noted == {ledger[i].nonce : i \in {k \in DOMAIN ledger : ledger[k].type = "intent"}}

verdict(row) ==
    LET says == IF row.type = "result" /\ row.seq # 0 THEN "landed"
                ELSE IF row.detail = "refused" THEN "not landed"
                ELSE "unknown"
    IN  [nonce |-> row.nonce, says |-> says,
         seq |-> IF says = "landed" THEN row.seq ELSE 0]

said == {verdict(ledger[i]) :
            i \in {k \in DOMAIN ledger : ledger[k].type \in {"result", "failed"}}}

Promise == INSTANCE WriteSpec WITH Nonces <- 1 .. MaxNonce

-----------------------------------------------------------------------------
(* Properties *)

IntentOf(n) == \E i \in DOMAIN ledger : ledger[i].type = "intent" /\ ledger[i].nonce = n

(* Nothing reaches the network, or the room, that the ledger did not hold    *)
(* first, whatever crashed since: the intent row of every request is durable *)
(* before the request leaves (outbound.py, "recorded BEFORE the request").   *)
IntentBeforeNetwork ==
    /\ \A r \in net : IntentOf(r.nonce)
    /\ \A s \in DOMAIN room : IntentOf(room[s])

(* An outcome resolves exactly one earlier intent, of its own nonce, and no  *)
(* intent is resolved twice.                                                 *)
OutcomesResolveOneIntent ==
    \A j \in DOMAIN ledger : ledger[j].type \in {"result", "failed"} =>
        /\ ledger[j].ref \in 1 .. j - 1
        /\ ledger[ledger[j].ref].type = "intent"
        /\ ledger[ledger[j].ref].nonce = ledger[j].nonce
        /\ \A k \in DOMAIN ledger : ledger[k].ref = ledger[j].ref => k = j

(* A recorded seq is where the room keeps that very nonce, even when answers *)
(* are delayed and others write in between.                                  *)
ResultSeqTrue ==
    \A j \in DOMAIN ledger : ledger[j].type = "result" /\ ledger[j].seq # 0 =>
        /\ ledger[j].seq \in DOMAIN room
        /\ room[ledger[j].seq] = ledger[j].nonce

(* A write recorded as PublicWriteRefused is not in the room, nor on its     *)
(* way, and never will be: of all failures the one that proves absence.      *)
RefusedNeverLands ==
    \A j \in DOMAIN ledger : ledger[j].detail = "refused" =>
        /\ \A s \in DOMAIN room : room[s] # ledger[j].nonce
        /\ \A r \in net : r.nonce # ledger[j].nonce

(* An intent whose process is gone stays dangling for good: no other process *)
(* resolves it, so dangling_intents keeps reporting it to the operator.      *)
DanglingIsFinal ==
    [][\A i \in dangling_intents :
          (\A c \in Clients : intent[c] # i) => i \in dangling_intents']_vars

(* To who reads the ledger, a write is noted before it can land, lands at    *)
(* most once, and is concluded at most once and truly: a seq is its place,   *)
(* the guard's refusal is final, and anything else, an HTTP error included,  *)
(* says nothing (outbound.py).                                               *)
ImplementsWriteSpec == Promise!Spec

(* Bytes of the answer to c keep arriving, each before the timeout. *)
Trickles(c) == reply[c] # NoReply /\ ~reply[c].whole

(* Every write ends, unless its answer trickles in for ever: it returns,     *)
(* raises or dies with its process, whether the request or the answer is     *)
(* lost, late, or breaks off (client.py:223, timeout).                       *)
WritesEnd == \A c \in Clients : pc[c] # "idle" ~> pc[c] = "idle" \/ Trickles(c)

(* outbound.py:8: technocore.write.failed is recorded "when the request did  *)
(* not land".                                                                *)
FailedDidNotLand ==
    \A j \in DOMAIN ledger : ledger[j].type = "failed" =>
        \A s \in DOMAIN room : room[s] # ledger[j].nonce

(* outbound.py:64-65: "A failed write is recorded as failed and returned to  *)
(* the caller": one that the rate limiter refused, too.                      *)
FailedWriteRecorded ==
    \A x \in raised : x.why = "RateLimitExceeded" => x.intent \notin dangling_intents
=============================================================================
