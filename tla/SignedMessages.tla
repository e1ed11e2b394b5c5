--------------------------- MODULE SignedMessages ---------------------------
(***************************************************************************)
(* A capability in use (identity/capability.py, identity/verifier.py,      *)
(* technocore/client.py): a message or note is swept and signed, a message *)
(* is sent as a path, verified by the service, and read back from a        *)
(* service that may answer anything.                                       *)
(*                                                                         *)
(* Ed25519 is ideal: a signature is the key and the bytes it was made of.  *)
(***************************************************************************)
EXTENDS SignerWiring, Canonical

CONSTANTS Rooms, Names, Nonces, Texts,   \* what a caller passes, right or wrong
          Strangers                      \* authors a service may name instead

(* str and int: the signature of CapabilitySigner's methods. *)
ASSUME ArgumentsAssumption == /\ Rooms \cup Names \cup Texts \subseteq Seq(Chars)
                              /\ Nonces \subseteq Int
                              /\ Strangers \subseteq Dids

VARIABLES write,     \* the message or note in hand
          service,   \* what the service said of it
          seen       \* a message read from a room

vars == <<wiringVars, write, service, seen>>

NoWrite == [kind |-> "none"]
NoMessage == [kind |-> "none"]

Init == WiringInit /\ write = NoWrite /\ service = "none" /\ seen = NoMessage

Sign(key, payload) == [key |-> key, payload |-> payload]

(* verifier.verify.  A did with a character outside ASCII makes did.py raise *)
(* a UnicodeEncodeError; being a ValueError, it reads as FALSE in            *)
(* _to_message, the one caller here whose did the program did not make.      *)
verify(did, signature, payload) ==
    /\ decode_did_key(did).error = "none"
    /\ signature = Sign(decode_did_key(did).key, payload)

(* message_payload on the verifying side, sweep included. *)
verify_message(did, signature, room, nonce, text) ==
    LET swept == single_line_sweep(text)
    IN  /\ ValidRoom(room) /\ ValidNonce(nonce) /\ ValidMessage(swept)
        /\ verify(did, signature, message_payload(room, nonce, swept))

-----------------------------------------------------------------------------
(* CapabilitySigner.  A string comes from the program, or from the network   *)
(* (an UntrustedText), which raw bytes are refused like.                     *)

Refused(error) == [kind |-> "refused", error |-> error]

_guard(values) == \A value \in values : value.from = "program"

sign_technocore_message(room, nonce, text) ==
    LET swept == single_line_sweep(text.chars)
    IN  IF ~_guard({room, text}) THEN Refused("untrusted or bytes")
        ELSE IF ~ValidRoom(room.chars) \/ ~ValidNonce(nonce) \/ ~ValidMessage(swept)
        THEN Refused("CanonicalisationError")
        ELSE [kind |-> "message", did |-> capability.did, room |-> room.chars,
              nonce |-> nonce, text |-> text.chars, swept_text |-> swept,
              signature |-> Sign(capability.key,
                                 message_payload(room.chars, nonce, swept))]

sign_technocore_note(namespace, key, nonce, value) ==
    LET swept == single_line_sweep(value.chars)
    IN  IF ~capability.allow_notes THEN Refused("CapabilityError")
        ELSE IF ~_guard({namespace, key, value}) THEN Refused("untrusted or bytes")
        ELSE IF ~ValidName(namespace.chars) \/ ~ValidName(key.chars)
                \/ ~ValidNonce(nonce) \/ ~ValidNote(swept)
        THEN Refused("CanonicalisationError")
        ELSE [kind |-> "note", did |-> capability.did, namespace |-> namespace.chars,
              key |-> key.chars, nonce |-> nonce, swept_value |-> swept,
              signature |-> Sign(capability.key,
                    note_payload(namespace.chars, key.chars, nonce, swept))]

Arguments(strings) == [from : {"program"}, chars : strings]
                      \cup [from : {"network"}, chars : {<<"a">>}]

Ready == capability.held /\ call.at = "idle" /\ write.kind = "none"

SignMessage(room, nonce, text) ==
    /\ Ready
    /\ write' = sign_technocore_message(room, nonce, text)
    /\ UNCHANGED <<wiringVars, service, seen>>

SignNote(namespace, key, nonce, value) ==
    /\ Ready
    /\ write' = sign_technocore_note(namespace, key, nonce, value)
    /\ UNCHANGED <<wiringVars, service, seen>>

-----------------------------------------------------------------------------
(* The client sends, the service verifies *)

(* SignedWrite.path, from the room on. *)
Path == encode_path_segment(write.room) \o << <<"/">> >>
        \o encode_path_segment(write.swept_text)

(* EXTERNAL: httpx takes a segment of dots out of the path it requests. *)
DotSegment(segment) == segment \in {<< <<".">> >>, << <<".">>, <<".">> >>}

(* EXTERNAL: the service's own clean_text. *)
ServiceSweep(text) == Strip(Spaces(text))

(* EXTERNAL: the answers the service may give.  It splits the path at its    *)
(* slash and decodes it; an escaped newline does not pass.  A good message   *)
(* may be a copy too many, or its nonce not above the did's last one.        *)
ServiceAnswers ==
    LET slash == SelectInSeq(Path, LAMBDA c : c = <<"/">>)
        before == SubSeq(Path, 1, slash - 1)
        after == SubSeq(Path, slash + 1, Len(Path))
        room == decode_path_segment(before)
        text == ServiceSweep(decode_path_segment(after))
    IN  IF \/ slash = 0 \/ <<"/">> \in ToSet(after) \/ <<"%", "nl">> \in ToSet(Path)
           \/ DotSegment(before) \/ DotSegment(after)
        THEN {"404 not found"}
        ELSE IF ~NAME_RE(room) THEN {"400 room"}
        ELSE IF ~verify(write.did, write.signature,
                        message_payload(room, write.nonce, text))
        THEN {"403 bad signature"}
        ELSE IF write.nonce < 1 THEN {"400 nonce"}
        ELSE {"200 stored", "400 nonce", "422 duplicate"}

(* write.verifies(), then the request. *)
SendMessage ==
    /\ write.kind = "message" /\ service = "none"
    /\ IF verify_message(write.did, write.signature, write.room,
                         write.nonce, write.swept_text)
       THEN service' \in ServiceAnswers
       ELSE service' = "fails local verification"
    /\ UNCHANGED <<wiringVars, write, seen>>

-----------------------------------------------------------------------------
(* read_room, from a service that need not be honest with us *)

(* Every room, nonce and text whose bytes would read as the same payload.    *)
Resplits(payload) ==
    LET bars == {i \in DOMAIN payload : payload[i] = "|"}
        part(i, j) == SubSeq(payload, i + 1, j - 1)
        reading(i, j) == [nonce : {m \in Nonces : Decimal(m) = part(i, j)},
                          room : {part(0, i)}, text : {part(j, Len(payload) + 1)}]
    IN  UNION {UNION {reading(i, j) : j \in {k \in bars : i < k}} : i \in bars}

(* What it may say of a signed message: its parts, in any of their readings, *)
(* or one of them changed; and the same for the bytes of a signed note.      *)
Said ==
    LET honest == [room |-> write.room, nonce |-> write.nonce, text |-> write.swept_text]
    IN  Resplits(write.signature.payload) \cup
        (IF write.kind # "message" THEN {}
         ELSE {[honest EXCEPT !.text = write.text],
               [honest EXCEPT !.text = Append(write.swept_text, "a")]}
              \cup {[honest EXCEPT !.room = r] : r \in Rooms}
              \cup {[honest EXCEPT !.nonce = n] : n \in Nonces})

(* The JSON forms of a nonce: which int() reads, which isdigit() shows, and  *)
(* which are shown by int() but raise there.                                 *)
NonceForms == {"int", "digits", "spaced", "float", "superscript", "missing"}

_to_message(author, signed, form, said) ==
    LET readable == form \in {"int", "digits", "spaced", "float"}
        verified == /\ signed /\ readable
                    /\ verify_message(author, write.signature, said.room,
                                      said.nonce, said.text)
    IN  IF form = "superscript" THEN Refused("ValueError")
        ELSE [kind |-> "message", room |-> said.room, text |-> said.text,
              did |-> author, verified |-> verified, signature_returned |-> signed,
              nonce |-> IF form \in {"int", "digits"} THEN said.nonce ELSE -1]

(* The service has the signature once it was sent; a note's goes to whoever  *)
(* claims a room with it.                                                    *)
Known == \/ write.kind = "message" /\ service \notin {"none", "fails local verification"}
         \/ write.kind = "note"

ReadRoom(author, signed, form, said) ==
    /\ Known /\ seen.kind = "none"
    /\ ValidRoom(said.room)
    /\ seen' = _to_message(author, signed, form, said)
    /\ UNCHANGED <<wiringVars, write, service>>

(* The program moves on to its next message. *)
Forget ==
    /\ write.kind # "none"
    /\ write' = NoWrite /\ service' = "none" /\ seen' = NoMessage
    /\ UNCHANGED wiringVars

-----------------------------------------------------------------------------
(* A process asks for its capability until it holds it. *)
Next ==
    \/ ~capability.held /\ Wiring /\ UNCHANGED <<write, service, seen>>
    \/ \E nonce \in Nonces, text \in Arguments(Texts) :
          \/ \E room \in Arguments(Rooms) : SignMessage(room, nonce, text)
          \/ \E namespace, key \in Arguments(Names) :
                SignNote(namespace, key, nonce, text)
    \/ SendMessage
    \/ /\ Known
       /\ \E author \in {write.did} \cup Strangers, signed \in BOOLEAN,
             form \in NonceForms, said \in Said :
             ReadRoom(author, signed, form, said)
    \/ Forget

Spec == Init /\ [][Next]_vars

-----------------------------------------------------------------------------
(* Properties *)

(* What the capability signs is a fixed point: it verifies here, it passes   *)
(* the path, and it verifies at the service after the service's own sweep    *)
(* (canonical.py:34-36).  Only a room or a text of nothing but one or two    *)
(* dots is lost on the way, and only a room outside the service's rule,      *)
(* which validate_room does not know, is refused for its characters.         *)
Dots == {<<".">>, <<".", ".">>}

SignedIsAccepted ==
    /\ service \notin {"fails local verification", "403 bad signature"}
    /\ service = "404 not found" => write.room \in Dots \/ write.swept_text \in Dots
    /\ service = "400 room" => ~NAME_RE(write.room)

(* The service told the truth of a message: all of it, and the signature.    *)
ToldTruly ==
    /\ write.kind = "message" /\ seen.signature_returned
    /\ seen.did = write.did /\ seen.room = write.room /\ seen.nonce = write.nonce
    /\ single_line_sweep(seen.text) = write.swept_text

(* A message shown as verified was signed by the author it names, for that   *)
(* room, nonce and text (swept), whatever the service said.  Only a note     *)
(* whose key is a number has the bytes of a message.  And a message of which *)
(* the service told the truth is shown as verified.                          *)
VerifiedIsAuthentic ==
    /\ seen.kind = "message" /\ seen.verified =>
        /\ seen.did = write.did
        /\ write.kind = "message" =>
              /\ seen.room = write.room
              /\ single_line_sweep(seen.text) = write.swept_text
              /\ seen.nonce \in {write.nonce, -1}
        /\ write.kind = "note" =>
              /\ seen.room = write.namespace /\ ToSet(write.key) \subseteq {"1"}
    /\ seen.kind = "message" /\ ToldTruly => seen.verified
=============================================================================
