----------------------------- MODULE Canonical -----------------------------
(***************************************************************************)
(* The bytes a signature covers (identity/canonical.py): the sweep, the    *)
(* validators, the two payloads and the path encoding, over one character  *)
(* of each class the code tells apart:                                     *)
(*                                                                         *)
(*   "a" "1"  a letter and a digit, as names have them                     *)
(*   "-"      allowed in a name but not first ("_" too)                    *)
(*   "A"      visible, in no name ("~" too)   "."  the same, and of dots   *)
(*   "|" "/"  the separators                  " "  the space               *)
(*   "nbsp"   category Zs: white space the sweep keeps                     *)
(*   "nl"     category Cc: swept, and white space                          *)
(*   "zw"     category Cf: swept, and not white space                      *)
(***************************************************************************)
EXTENDS Integers, SequencesExt

CONSTANTS MAX_MESSAGE_CHARS, MAX_NOTE_BYTES, MAX_NONCE_DIGITS

ASSUME CanonicalAssumption ==
    {MAX_MESSAGE_CHARS, MAX_NOTE_BYTES, MAX_NONCE_DIGITS} \subseteq Nat

Chars == {"a", "1", "-", "A", ".", "|", "/", " ", "nbsp", "nl", "zw"}
SWEEP_CATEGORIES == {"nl", "zw"}
WhiteSpace == {" ", "nbsp", "nl"}
NameChars == {"a", "1", "-"}
Unreserved == NameChars \cup {"A", "."}     \* what quote never escapes

(* str.strip *)
Strip(text) ==
    LET kept == {i \in DOMAIN text : text[i] \notin WhiteSpace}
    IN  IF kept = {} THEN <<>> ELSE SubSeq(text, Min(kept), Max(kept))

Spaces(text) ==
    [i \in DOMAIN text |-> IF text[i] \in SWEEP_CATEGORIES THEN " " ELSE text[i]]

(* Mutant: stripped before the invisible characters are spaces. *)
single_line_sweep_StripFirst(text) == Spaces(Strip(text))

single_line_sweep(text) == Strip(Spaces(text))

(* str(nonce): decimal, without leading zeros. *)
Decimal(nonce) ==
    LET digit(d) == <<"0", "1", "2", "3", "4", "5", "6", "7", "8", "9">>[d + 1]
        digits[n \in Nat] == IF n < 10 THEN <<digit(n)>>
                             ELSE Append(digits[n \div 10], digit(n % 10))
    IN  digits[nonce]

(* Mutant: the payload separator is let through in a room. *)
ValidRoomWithBar(room) ==
    /\ room # <<>>
    /\ room = single_line_sweep(room)
    /\ ToSet(room) \cap {"/"} = {}

(* validate_room; "/" stands for "?" and "#" too, and the limits on the      *)
(* length of a room or a name are left out.                                  *)
ValidRoom(room) ==
    /\ room # <<>>
    /\ room = single_line_sweep(room)
    /\ ToSet(room) \cap {"|", "/"} = {}

(* The service's rule for rooms and names.                                   *)
NAME_RE(name) == name # <<>> /\ Head(name) # "-" /\ ToSet(name) \subseteq NameChars

(* validate_name.  Its NAME_RE ends in "$", which also matches before a      *)
(* final newline.                                                            *)
ValidName(name) ==
    NAME_RE(IF name # <<>> /\ Last(name) = "nl" THEN Front(name) ELSE name)

ValidNonce(nonce) == nonce >= 0 /\ Len(Decimal(nonce)) <= MAX_NONCE_DIGITS

ValidMessage(swept) == swept # <<>> /\ Len(swept) <= MAX_MESSAGE_CHARS

(* Bytes of a text in UTF-8: only "nbsp" and "zw" are outside ASCII.         *)
Utf8Length(text) ==
    FoldLeft(LAMBDA n, c : n + (CASE c = "nbsp" -> 2 [] c = "zw" -> 3
                                  [] OTHER -> 1), 0, text)

ValidNote(swept) == swept # <<>> /\ Utf8Length(swept) <= MAX_NOTE_BYTES

message_payload(room, nonce, swept) ==
    room \o <<"|">> \o Decimal(nonce) \o <<"|">> \o swept

note_payload(namespace, key, nonce, swept) ==
    namespace \o <<"|">> \o key \o <<"|">> \o Decimal(nonce) \o <<"|">> \o swept

(* Mutant: quote with its default safe="/". *)
encode_path_segment_SafeSlash(text) ==
    [i \in DOMAIN text |-> IF text[i] \in Unreserved \cup {"/"} THEN <<text[i]>>
                           ELSE <<"%", text[i]>>]

(* quote(text, safe=""): what is not unreserved is escaped.                  *)
encode_path_segment(text) ==
    [i \in DOMAIN text |-> IF text[i] \in Unreserved THEN <<text[i]>>
                           ELSE <<"%", text[i]>>]

decode_path_segment(segment) == [i \in DOMAIN segment |-> Last(segment[i])]
=============================================================================
