--------------------------- MODULE KeyedSubmission ---------------------------
(***************************************************************************)
(* What the intake of withdrawals promises, without policies, lookups or   *)
(* conflicts: a call makes one request, in one step and unless one with    *)
(* its key is there; it is answered with the request it made once the log  *)
(* tells all of it, or with the one that was there; and a refused call     *)
(* leaves nothing behind.                                                  *)
(***************************************************************************)
EXTENDS Naturals, Sequences, Functions

CONSTANTS
    Calls,
    Keys,     \* idempotency keys
    NoKey,    \* the call has none
    Plans,    \* the lists of events that tell of a request
    None

VARIABLES
    asked,    \* calls that have come in
    key,      \* the key of each
    plan,     \* the events that are to tell of its request
    rows,     \* the calls that have made a request
    queue,    \* requests handed over to be paid
    log,      \* the events told of each request
    answer    \* the request the call was answered with, or why with none

vars == <<asked, key, plan, rows, queue, log, answer>>

Init ==
    /\ asked = {} /\ rows = {} /\ queue = {}
    /\ key = [c \in Calls |-> NoKey]
    /\ plan = [c \in Calls |-> <<>>]
    /\ log = [c \in Calls |-> <<>>]
    /\ answer = [c \in Calls |-> None]

Ask(c) ==
    /\ c \notin asked
    /\ asked' = asked \cup {c}
    /\ \E k \in Keys \cup {NoKey} : key' = [key EXCEPT ![c] = k]
    /\ \E p \in Plans : plan' = [plan EXCEPT ![c] = p]
    /\ UNCHANGED <<rows, queue, log, answer>>

SameKey(c, d) == key[c] # NoKey /\ key[c] = key[d]

Pending(c) == c \in asked \ rows /\ answer[c] = None

\* The request is in the queue at once if the log is to say so.
Submit(c) ==
    /\ Pending(c)
    /\ \A r \in rows : ~SameKey(c, r)
    /\ rows' = rows \cup {c}
    /\ queue' = IF "QUEUED" \in Range(plan[c]) THEN queue \cup {c} ELSE queue
    /\ UNCHANGED <<asked, key, plan, log, answer>>

\* The next event; after the last one the call is answered.
Tell(c) ==
    /\ c \in rows /\ answer[c] = None
    /\ Len(log[c]) < Len(plan[c])
    /\ log' = [log EXCEPT ![c] = Append(@, plan[c][Len(@) + 1])]
    /\ IF log'[c] = plan[c] THEN answer' = [answer EXCEPT ![c] = c] ELSE UNCHANGED answer
    /\ UNCHANGED <<asked, key, plan, rows, queue>>

Reply(c, reply) ==
    /\ answer' = [answer EXCEPT ![c] = reply]
    /\ UNCHANGED <<asked, key, plan, rows, queue, log>>

Repeat(c) == Pending(c) /\ \E r \in rows : SameKey(c, r) /\ Reply(c, r)

Refuse(c) == Pending(c) /\ Reply(c, "refused")

\* What was made stays.
Fail(c) == c \in asked /\ answer[c] = None /\ Reply(c, "error")

Next == \E c \in Calls : Ask(c) \/ Submit(c) \/ Tell(c) \/ Repeat(c) \/ Refuse(c) \/ Fail(c)

Spec == Init /\ [][Next]_vars
=============================================================================
