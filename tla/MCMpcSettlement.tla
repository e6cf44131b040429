-------------------------- MODULE MCMpcSettlement --------------------------
(* Small instances of MpcSettlement: provider wallets only. *)
EXTENDS MpcSettlement, TLC

CONSTANTS r1, r2, w1, s1, s2

AllMpc == [r \in Requests |-> "MPC"]
=============================================================================
