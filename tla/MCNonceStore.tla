---------------------------- MODULE MCNonceStore ----------------------------
(* NonceStore for TLC: floors and nonces from below zero to beyond the       *)
(* largest 19-digit one, so that every refusal is met.                       *)
EXTENDS NonceStore

CONSTANTS p1, p2

MCArgs == -1 .. MaxDigitsNonce
=============================================================================
