-------------------------- MODULE ApprovalDecision ---------------------------
(***************************************************************************)
(* What the approval phase of a withdrawal promises, without transactions, *)
(* cron runs or failures: a request collects approvals and is decided      *)
(* once.  It is handed to the queue with an approval besides the one that  *)
(* does it, rejected, or expires after its deadline; and the log tells     *)
(* nothing or the decision.                                                *)
(***************************************************************************)
EXTENDS Sequences

CONSTANTS
    Requests,
    Approvals,   \* the approvals that may be given
    about        \* the request of each

VARIABLES
    decision,    \* the end of each request, PENDING until there is one
    given,       \* approvals
    due,         \* requests past their deadline
    queue,       \* requests handed over to be paid
    told         \* what the log tells of each request

vars == <<decision, given, due, queue, told>>

Init ==
    /\ decision = [r \in Requests |-> "PENDING"]
    /\ given = {} /\ due = {} /\ queue = {}
    /\ told = [r \in Requests |-> <<>>]

Decide(r, end) ==
    /\ decision[r] = "PENDING"
    /\ decision' = [decision EXCEPT ![r] = end]
    /\ UNCHANGED told

Pass(r) ==
    /\ r \notin due
    /\ due' = due \cup {r}
    /\ UNCHANGED <<decision, given, queue, told>>

Give(a) == a \notin given /\ given' = given \cup {a}

\* An approval that decides nothing: the first, one that raced with another,
\* or one that came too late.
Approve(a) == Give(a) /\ UNCHANGED <<decision, due, queue, told>>

Queue(a) ==
    /\ Give(a)
    /\ \E b \in given : about[b] = about[a]
    /\ Decide(about[a], "QUEUED")
    /\ queue' = queue \cup {about[a]}
    /\ UNCHANGED due

Reject(r) == Decide(r, "REJECTED") /\ UNCHANGED <<given, due, queue>>

Expire(r) == r \in due /\ Decide(r, "EXPIRED") /\ UNCHANGED <<given, due, queue>>

Tell(r) ==
    /\ decision[r] # "PENDING"
    /\ told[r] = <<>>
    /\ told' = [told EXCEPT ![r] = <<decision[r]>>]
    /\ UNCHANGED <<decision, given, due, queue>>

Next ==
    \/ \E r \in Requests : Pass(r) \/ Reject(r) \/ Expire(r) \/ Tell(r)
    \/ \E a \in Approvals : Approve(a) \/ Queue(a)

Spec == Init /\ [][Next]_vars
=============================================================================
