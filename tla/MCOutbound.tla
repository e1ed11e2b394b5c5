----------------------------- MODULE MCOutbound -----------------------------
(* Outbound for TLC: a client the guard lets through and one it does not     *)
(* (PublicGate has the other ways the guard decides).                        *)
EXTENDS Outbound

CONSTANTS c1, c2

LocalEnabled  == [host |-> "loopback", enabled |-> TRUE]
PublicEnabled == [host |-> "public", enabled |-> TRUE]

TwoConfigs == {LocalEnabled, PublicEnabled}
OneConfig  == {LocalEnabled}
=============================================================================
