--------------------------- MODULE MCWalletCleanup ---------------------------
(* A small instance of WalletCleanup: the test user and another one.  The   *)
(* seeds are a legacy row without a key, one that decrypts to the key of    *)
(* another address, and one that decrypts to no key at all.                 *)
EXTENDS WalletCleanup, TLC

CONSTANTS k1, k2, demo, old, odd, test, ann, s1, s2, m1, m2

User == demo :> test @@ old :> ann @@ odd :> test @@ k1 :> ann @@ k2 :> ann
SeedType == demo :> "BACKEND_SEC" @@ old :> "MULTISIG" @@ odd :> "MULTISIG"
SeedAddress == demo :> s1 @@ old :> old @@ odd :> odd
SeedSealed ==
    demo :> Nobody
    @@ old :> [master |-> m1, key |-> odd]
    @@ odd :> [master |-> m1, key |-> "not a key"]

SymmetricCalls == Permutations(Calls)
=============================================================================
