----------------------------- MODULE MCPublish ------------------------------
(* Publish for TLC: invocations that the checks of the command, of the       *)
(* function and of the gate tell apart.                                      *)
EXTENDS Publish, TLC

CONSTANTS c1, c2

Symmetry == Permutations(Clients)

Reviewed == [via |-> "command", confirm |-> TRUE, reviewed |-> TRUE,
             host |-> "public", clean |-> TRUE]

MCArgs == {Reviewed,
           [Reviewed EXCEPT !.confirm = FALSE],
           [Reviewed EXCEPT !.reviewed = FALSE],
           [Reviewed EXCEPT !.clean = FALSE],
           [Reviewed EXCEPT !.host = "loopback"],
           [Reviewed EXCEPT !.via = "function", !.host = "loopback"]}

OnlyReviewed == {Reviewed}
=============================================================================
