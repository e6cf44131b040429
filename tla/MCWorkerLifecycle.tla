------------------------- MODULE MCWorkerLifecycle --------------------------
(* WithdrawalWorker with a history of the jobs that died with their process. *)
EXTENDS MCWithdrawalWorker

VARIABLE died   \* requests whose process died while its poll had their job

HistoryInit == Init /\ died = {}

HistoryNext ==
    /\ Next
    /\ died' = died \cup {job[w] : w \in {v \in Workers : Owns(v) /\ Crash(v)}}

HistorySpec == HistoryInit /\ [][HistoryNext]_<<vars, died>> /\ Fairness

\* Every queued request comes, through refusals, delays and retries, to an end it
\* never leaves, with both tables agreeing -- or its process died with it, and
\* then its row may stay RESERVED or RUNNING for ever.
EventuallySettled ==
    \A r \in Requests :
        reqStatus[r] = "QUEUED" ~> [](Settled(r) \/ (r \in died /\ Orphaned(r)))
=============================================================================
