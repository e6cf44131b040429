----------------------------- MODULE MCAccounts -----------------------------
(* A small instance of Accounts: two registrations, two tabs. *)
EXTENDS Accounts

CONSTANTS r1, r2, t1, t2
=============================================================================
