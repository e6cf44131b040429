---------------------------- MODULE MCKmsSendLock ----------------------------
(* Small instances of KmsSendLock: two processes with two connections each. *)
EXTENDS KmsSendLock, TLC

CONSTANTS p1, p2, a1, a2, b1, b2

TwoEach == a1 :> p1 @@ a2 :> p1 @@ b1 :> p2 @@ b2 :> p2

Symmetric == Permutations({a1, a2}) \cup Permutations({b1, b2})
=============================================================================
