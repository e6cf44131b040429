----------------------------- MODULE MCSssShards -----------------------------
(* A small instance of SssShards: two wallets, two of three shards. *)
EXTENDS SssShards, TLC

CONSTANTS a, b

SymmetricWallets == Permutations(Wallets)
=============================================================================
