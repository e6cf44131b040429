------------------------- MODULE MCMultisigApproval -------------------------
(* A small instance of MultisigApproval: three calls of two admins. *)
EXTENDS MultisigApproval, TLC

CONSTANTS c1, c2, c3, alice, bob, q1, q2

\* alice may call twice, as with two tabs or a repeated request.
AliceTwice == c1 :> alice @@ c2 :> alice @@ c3 :> bob

\* No admin cares for the other request.
AllAboutOne == [c \in Calls |-> q1]
=============================================================================
