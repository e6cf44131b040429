---------------------------- MODULE MCClientView ----------------------------
(* A small instance of ClientView: two users of one browser. *)
EXTENDS ClientView

CONSTANTS u, v

StatusMovesOf == {<<"PENDING", "APPROVED">>, <<"APPROVED", "EXECUTED">>}
=============================================================================
