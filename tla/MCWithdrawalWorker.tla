------------------------- MODULE MCWithdrawalWorker -------------------------
(* Small instances of WithdrawalWorker: which wallet type each request has. *)
EXTENDS WithdrawalWorker, TLC

CONSTANTS r1, r2, w1, w2

KmsAndSss == r1 :> "KMS" @@ r2 :> "SSS"
BackendAndMpc == r1 :> "BACKEND_SEC" @@ r2 :> "MPC"
OneBackend == r1 :> "BACKEND_SEC"
=============================================================================
