------------------------ MODULE WithdrawalLifecycle -------------------------
(***************************************************************************)
(* What the execution of a withdrawal promises, without queue, workers or  *)
(* retries: a request is queued, processed, and then either executed with  *)
(* exactly one transfer behind it or failed with none.                     *)
(***************************************************************************)
EXTENDS Naturals

CONSTANT Requests

VARIABLES
    status,   \* the request as its owner sees it
    paid      \* transfers made for it

vars == <<status, paid>>

Init ==
    /\ status = [r \in Requests |-> "NONE"]
    /\ paid = [r \in Requests |-> 0]

Move(r, from, to) == status[r] = from /\ status' = [status EXCEPT ![r] = to]

Accept(r) == Move(r, "NONE", "QUEUED") /\ UNCHANGED paid

Start(r) == Move(r, "QUEUED", "PROCESSING") /\ UNCHANGED paid

Pay(r) ==
    /\ status[r] = "PROCESSING"
    /\ paid[r] = 0
    /\ paid' = [paid EXCEPT ![r] = 1]
    /\ UNCHANGED status

Execute(r) == paid[r] = 1 /\ Move(r, "PROCESSING", "EXECUTED") /\ UNCHANGED paid

Fail(r) == paid[r] = 0 /\ Move(r, "PROCESSING", "FAILED") /\ UNCHANGED paid

Next == \E r \in Requests : Accept(r) \/ Start(r) \/ Pay(r) \/ Execute(r) \/ Fail(r)

Spec == Init /\ [][Next]_vars
=============================================================================
