------------------------------- MODULE DidKey -------------------------------
(***************************************************************************)
(* did:key strings (identity/did.py) with the four sizes of the encoding   *)
(* as constants: 58 letters, 256 byte values, the prefix 0xED 0x01 and 32  *)
(* key bytes.  A letter of the base58 alphabet is its position in it, so   *)
(* the letter "1" is 0; BadLetter is any other ASCII character, NotAscii   *)
(* any other at all.                                                       *)
(***************************************************************************)
EXTENDS Integers, SequencesExt

CONSTANTS Base,                \* letters of the alphabet
          Byte,                \* values of a byte
          ED25519_MULTICODEC,  \* the bytes before the key
          KEY_LENGTH           \* bytes of a public key

ASSUME DidAssumption == /\ Base \in Nat \ {0, 1} /\ Byte \in Nat \ {0, 1}
                        /\ ED25519_MULTICODEC \in Seq(0 .. Byte - 1)
                        /\ Len(ED25519_MULTICODEC) > 0
                        /\ ED25519_MULTICODEC[1] # 0
                        /\ KEY_LENGTH \in Nat \ {0}

BadLetter == -1
NotAscii  == -2

(* Any did a program or a service may name. *)
Dids == [scheme : STRING, text : Seq({NotAscii, BadLetter} \cup 0 .. Base - 1)]

(* int.from_bytes, and the same loop over letters *)
FromDigits(base, s) ==
    LET num[i \in 0 .. Len(s)] == IF i = 0 THEN 0 ELSE num[i - 1] * base + s[i]
    IN  num[Len(s)]

(* The digits of a number, the highest first and never a leading zero. *)
ToDigits(base, number) ==
    LET digits[n \in Nat] ==
          IF n = 0 THEN <<>> ELSE Append(digits[n \div base], n % base)
    IN  digits[number]

(* How many zeros a sequence begins with. *)
LeadingZeros(s) == Cardinality({i \in DOMAIN s : \A j \in 1 .. i : s[j] = 0})

Zeros(n) == [i \in 1 .. n |-> 0]

_b58encode(data) == Zeros(LeadingZeros(data)) \o ToDigits(Base, FromDigits(Byte, data))

(* Mutant: leading '1's carry no bytes. *)
_b58decode_NoZeros(text) == ToDigits(Byte, FromDigits(Base, text))

_b58decode(text) == Zeros(LeadingZeros(text)) \o ToDigits(Byte, FromDigits(Base, text))

(* A did:key string: what stands before the base58 text, and that text. *)
encode_did_key(key) == [scheme |-> "did:key:z",
                        text |-> _b58encode(ED25519_MULTICODEC \o key)]

NoKey(error) == [error |-> error, key |-> <<>>]

(* The key, or what is raised: a character outside ASCII raises a            *)
(* UnicodeEncodeError, everything else DidKeyError.                          *)
decode_did_key(did) ==
    CASE did.scheme # "did:key:z" \/ did.text = <<>> -> NoKey("DidKeyError")
      [] did.scheme = "did:key:z" /\ NotAscii \in ToSet(did.text)
            -> NoKey("UnicodeEncodeError")
      [] did.scheme = "did:key:z" /\ NotAscii \notin ToSet(did.text)
                                  /\ BadLetter \in ToSet(did.text)
            -> NoKey("DidKeyError")
      [] OTHER ->
            LET decoded == _b58decode(did.text)
                n == Len(ED25519_MULTICODEC)
            IN  IF /\ IsPrefix(ED25519_MULTICODEC, decoded)
                   /\ Len(decoded) = n + KEY_LENGTH
                THEN [error |-> "none", key |-> SubSeq(decoded, n + 1, n + KEY_LENGTH)]
                ELSE NoKey("DidKeyError")
=============================================================================
