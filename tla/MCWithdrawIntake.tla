-------------------------- MODULE MCWithdrawIntake --------------------------
(* A small instance of WithdrawIntake: a wallet of every type. *)
EXTENDS WithdrawIntake, TLC

CONSTANTS c1, c2, s1, s2, kms, sec, guard, mpc, sss, multi, ann, bob, x1, x2

Types ==
    kms :> "KMS" @@ sec :> "BACKEND_SEC" @@ guard :> "POLICY_GUARD" @@
    mpc :> "MPC" @@ sss :> "SSS" @@ multi :> "MULTISIG"

AllAnns == [w \in Wallets |-> ann]

Ask(user, w, to, amount, otp, tx) ==
    [user |-> user, wallet |-> w, to |-> to, amount |-> amount, otp |-> otp, tx |-> tx]

Tx(to, amount, n) ==
    [signer |-> sss, to |-> to, amount |-> amount, sepolia |-> TRUE, nonce |-> n]

\* A plain withdrawal from every wallet, and the ones the checks are for.
SomeBodies ==
    {Ask(ann, w, x1, 1, FALSE, NoTx) : w \in {kms, guard, mpc, multi}} \cup
    {Ask(ann, sec, x1, 2, TRUE, NoTx), Ask(ann, sec, x2, 1, FALSE, NoTx),
     Ask(ann, sec, sec, 1, FALSE, NoTx),
     Ask(bob, sec, x1, 1, FALSE, NoTx), Ask(ann, sec, x1, 2, FALSE, NoTx)} \cup
    {Ask(ann, sss, x1, 1, FALSE, Tx(x1, 1, 0)), Ask(ann, sss, x1, 1, FALSE, Tx(x2, 1, 0)),
     Ask(ann, sss, x1, 1, FALSE, NoTx)}

SomeLists == {<<x1>>, <<x1, x1>>}

Symmetric == Permutations(Calls) \cup Permutations(Saves)
=============================================================================
