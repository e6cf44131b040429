--------------------------- MODULE MpcSettlement ---------------------------
(***************************************************************************)
(* `poll` of MpcSettlementService, composed with the queue and workers     *)
(* that submit the transfers it settles.                                   *)
(*                                                                         *)
(* Every 10 s a process reads a batch of requests submitted to the         *)
(* provider and asks, one after the other, what became of each transfer.   *)
(* It works on the rows as it read them: metadata is one JSON column,      *)
(* written back whole, and no write has a condition on the status it       *)
(* replaces, while workers and other settling processes go on.             *)
(***************************************************************************)
EXTENDS WithdrawalWorker, FiniteSets

CONSTANTS
    Settlers,     \* API processes, each with its own settlement loop
    BatchSize     \* the literal 10 of `take`

ASSUME BatchSizeAssumption == BatchSize \in Nat \ {0}

VARIABLES
    processingAt, \* WithdrawRequest.processingAt, as the order of the updates
    stamps,       \* updates of processingAt so far
    stored,       \* metadata.externalRequestId, as the number of the transfer
    provider,     \* provider's status of every transfer of a request
    spc,          \* the call each settlement round waits for
    batch,        \* the rows the round read and has not handled yet
    answer,       \* the status the provider gave to the pending query
    outcomes      \* settlement events in the audit log of a request

metadataVars == <<processingAt, stamps, stored>>
roundVars == <<spc, batch, answer>>
settlementVars == <<metadataVars, provider, roundVars, outcomes>>
allVars == <<vars, settlementVars>>

-----------------------------------------------------------------------------
(* The provider                                                            *)

DfnsTransferStatus == {"Pending", "AwaitingApproval", "Broadcasted",
                       "Confirmed", "Failed", "Rejected", "Cancelled"}

\* Mutant: a transaction that is on its way counts as done.
MapTransferStatusEager(status) ==
    CASE status \in {"Broadcasted", "Confirmed"} -> "CONFIRMED"
      [] status \in {"Failed", "Rejected", "Cancelled"} -> "FAILED"
      [] OTHER -> "PENDING"

MapTransferStatus(status) ==
    CASE status = "Confirmed" -> "CONFIRMED"
      [] status \in {"Failed", "Rejected", "Cancelled"} -> "FAILED"
      [] OTHER -> "PENDING"

\* A transfer is refused or goes out, and is then mined or fails.  Of the
\* statuses the code treats alike, Pending stands for AwaitingApproval too,
\* and Rejected for Cancelled.
ProviderMoves(r, k) ==
    /\ ~OnChain(r)
    /\ k <= transfers[r]
    /\ \E status \in CASE provider[r][k] = "Pending" -> {"Broadcasted", "Rejected"}
                       [] provider[r][k] = "Broadcasted" -> {"Confirmed", "Failed"}
                       [] OTHER -> {} :
        provider' = [provider EXCEPT ![r][k] = status]
    /\ UNCHANGED <<vars, metadataVars, roundVars, outcomes>>

-----------------------------------------------------------------------------
(* The worker, and the columns that matter to settlement                   *)

MarkProcessingStamped(w) ==
    /\ MarkProcessing(w)
    /\ stamps' = stamps + 1
    /\ processingAt' = [processingAt EXCEPT ![job[w]] = stamps + 1]
    /\ UNCHANGED <<stored, provider, roundVars, outcomes>>

\* The identifier is that of the transfer this poll has just created.
SaveSubmission(w) ==
    /\ SaveResult(w)
    /\ stored' = [stored EXCEPT ![job[w]] = IF OnChain(job[w]) THEN @ ELSE transfers[job[w]]]
    /\ UNCHANGED <<processingAt, stamps, provider, roundVars, outcomes>>

OtherWorkerStep ==
    /\ Next
    /\ \A w \in Workers :
        <<pc[w], pc'[w]>> \notin {<<"loaded", "started">>, <<"save", "succeed">>}
    /\ UNCHANGED settlementVars

WorkerStep ==
    \/ \E w \in Workers : MarkProcessingStamped(w) \/ SaveSubmission(w)
    \/ OtherWorkerStep

-----------------------------------------------------------------------------
(* poll of the settlement service                                          *)

Awaiting(r) == reqStatus[r] = "PROCESSING" /\ ~OnChain(r) /\ external[r]

Due == {r \in Requests : Awaiting(r)}

\* The oldest rows that await settlement, BatchSize at most.
OldestDue(B) ==
    /\ B \subseteq Due
    /\ \A r \in B, q \in Due \ B : processingAt[r] <= processingAt[q]
    /\ Cardinality(B) <= BatchSize
    /\ Cardinality(B) < BatchSize => B = Due

StartRound(s) ==
    /\ spc[s] = "idle"
    /\ Due # {}
    /\ \E B \in SUBSET Due :
        /\ OldestDue(B)
        /\ batch' = [batch EXCEPT ![s] =
                        [r \in B |-> [id |-> stored[r], at |-> processingAt[r]]]]
    /\ spc' = [spc EXCEPT ![s] = "query"]
    /\ UNCHANGED <<vars, metadataVars, provider, answer, outcomes>>

\* The row the round is at: the oldest of those it has not handled yet.
Current(s, r) ==
    /\ r \in DOMAIN batch[s]
    /\ r = CHOOSE q \in DOMAIN batch[s] :
                \A p \in DOMAIN batch[s] : batch[s][q].at <= batch[s][p].at

\* Go on with the rest of the batch, or end the round.
NextRow(s, r) ==
    /\ batch' = [batch EXCEPT ![s] = [q \in DOMAIN @ \ {r} |-> @[q]]]
    /\ spc' = [spc EXCEPT ![s] = IF DOMAIN batch[s] = {r} THEN "idle" ELSE "query"]
    /\ answer' = [answer EXCEPT ![s] = "PENDING"]

GetTransferStatus(s, r) ==
    /\ spc[s] = "query"
    /\ Current(s, r)
    /\ answer' = [answer EXCEPT ![s] = MapTransferStatus(provider[r][batch[s][r].id])]
    /\ spc' = [spc EXCEPT ![s] = "store"]
    /\ UNCHANGED <<vars, metadataVars, provider, batch, outcomes>>

\* The metadata that was read is written back, with the identifier it had.
StoreMetadata(s, r) == stored' = [stored EXCEPT ![r] = batch[s][r].id]

StorePending(s, r) ==
    /\ spc[s] = "store" /\ answer[s] = "PENDING"
    /\ Current(s, r)
    /\ StoreMetadata(s, r)
    /\ NextRow(s, r)
    /\ UNCHANGED <<vars, processingAt, stamps, provider, outcomes>>

SettledStatus(verdict) == IF verdict = "CONFIRMED" THEN "EXECUTED" ELSE "FAILED"

\* Mutant: the new status is forgotten, only the metadata is written.
StoreOutcomeUnset(s, r) ==
    /\ spc[s] = "store" /\ answer[s] # "PENDING"
    /\ Current(s, r)
    /\ StoreMetadata(s, r)
    /\ spc' = [spc EXCEPT ![s] = "report"]
    /\ UNCHANGED <<vars, processingAt, stamps, provider, batch, answer, outcomes>>

StoreOutcome(s, r) ==
    /\ spc[s] = "store" /\ answer[s] # "PENDING"
    /\ Current(s, r)
    /\ reqStatus' = [reqStatus EXCEPT ![r] = SettledStatus(answer[s])]
    /\ StoreMetadata(s, r)
    /\ spc' = [spc EXCEPT ![s] = "report"]
    /\ UNCHANGED <<retryCount, signedTx, external, queueVars, workerVars, worldVars,
                   processingAt, stamps, provider, batch, answer, outcomes>>

\* The owner is told after the event is in the log.
ReportOutcome(s, r) ==
    /\ spc[s] = "report"
    /\ Current(s, r)
    /\ outcomes' = [outcomes EXCEPT ![r] = @ \cup {answer[s]}]
    /\ notified' = [notified EXCEPT ![r] = SettledStatus(answer[s])]
    /\ NextRow(s, r)
    /\ UNCHANGED <<reqVars, queueVars, workerVars, transfers, audit, metadataVars, provider>>

\* Mutant: the flag is not reset, the process never settles again.
RoundEndsHeld(s) ==
    /\ spc[s] # "idle"
    /\ spc' = [spc EXCEPT ![s] = "held"]
    /\ UNCHANGED <<vars, metadataVars, provider, batch, answer, outcomes>>

\* The query or a statement throws, or the process dies: the rest of the
\* batch is dropped, `finally` or the restart lets the next tick poll.
RoundEnds(s) ==
    /\ spc[s] # "idle"
    /\ spc' = [spc EXCEPT ![s] = "idle"]
    /\ batch' = [batch EXCEPT ![s] = <<>>]
    /\ answer' = [answer EXCEPT ![s] = "PENDING"]
    /\ UNCHANGED <<vars, metadataVars, provider, outcomes>>

-----------------------------------------------------------------------------
SettlementInit ==
    /\ Init
    /\ processingAt = [r \in Requests |-> 0]
    /\ stamps = 0
    /\ stored = [r \in Requests |-> 0]
    /\ provider = [r \in Requests |-> [k \in 1 .. MaxAttempts |-> "Pending"]]
    /\ spc = [s \in Settlers |-> "idle"]
    /\ batch = [s \in Settlers |-> <<>>]
    /\ answer = [s \in Settlers |-> "PENDING"]
    /\ outcomes = [r \in Requests |-> {}]

Handle(s, r) ==
    GetTransferStatus(s, r) \/ StorePending(s, r) \/ StoreOutcome(s, r) \/ ReportOutcome(s, r)

Round(s) == StartRound(s) \/ RoundEnds(s) \/ \E r \in Requests : Handle(s, r)

SettlementNext ==
    \/ WorkerStep
    \/ \E s \in Settlers : Round(s)
    \/ \E r \in Requests, k \in 1 .. MaxAttempts : ProviderMoves(r, k)

SettlementSpec == SettlementInit /\ [][SettlementNext]_allVars

(***************************************************************************)
(* Rounds go on and the provider decides every transfer.  A round may be   *)
(* cut short at every call, but not the same call for ever: again and      *)
(* again some process gets an answer about a request, and gets to store    *)
(* it.  Nothing is assumed of the workers.                                 *)
(***************************************************************************)
SettlementFairness ==
    /\ \A s \in Settlers : WF_allVars(Round(s))
    /\ \A r \in Requests :
        /\ WF_allVars(\E k \in 1 .. MaxAttempts : ProviderMoves(r, k))
        /\ SF_allVars(\E s \in Settlers : GetTransferStatus(s, r))
        /\ SF_allVars(\E s \in Settlers : StoreOutcome(s, r))

SettlementFairSpec == SettlementSpec /\ SettlementFairness

-----------------------------------------------------------------------------
(* Properties                                                              *)

RefusedStatuses == {"Failed", "Rejected", "Cancelled"}

Confirmed(r) == {k \in 1 .. transfers[r] : provider[r][k] = "Confirmed"}

Refused(r) == {k \in 1 .. transfers[r] : provider[r][k] \in RefusedStatuses}

\* A request is EXECUTED, in its row, in the log or to its owner, only if the
\* provider confirmed a transfer of it, and the log tells of a failure only if
\* the provider refused one, however many processes settle it and whatever
\* failed before.
OutcomesAreTrue ==
    \A r \in Requests : ~OnChain(r) =>
        /\ (\/ reqStatus[r] = "EXECUTED"
            \/ notified[r] = "EXECUTED"
            \/ "CONFIRMED" \in outcomes[r]) => Confirmed(r) # {}
        /\ "FAILED" \in outcomes[r] => Refused(r) # {}

\* A round asks for, and writes back, only transfers its request really has.
TrackedTransferExists ==
    /\ \A r \in Requests : stored[r] <= transfers[r] /\ (external[r] => stored[r] >= 1)
    /\ \A s \in Settlers : \A r \in DOMAIN batch[s] :
        batch[s][r].id \in 1 .. transfers[r]

\* The log and the notices never tell of an outcome the row does not have,
\* nor of two outcomes, although two processes settle the same request.
ReportsAgree ==
    \A r \in Requests :
        ~OnChain(r) =>
            /\ "CONFIRMED" \in outcomes[r] => reqStatus[r] = "EXECUTED"
            /\ "FAILED" \in outcomes[r] => reqStatus[r] = "FAILED"
            /\ notified[r] = "EXECUTED" => reqStatus[r] = "EXECUTED"

\* Worker and settlement together implement the lifecycle the client relies
\* on; what the provider confirmed is what was paid.
Paid == [r \in Requests |-> IF OnChain(r) THEN transfers[r] ELSE Cardinality(Confirmed(r))]

EndToEnd == INSTANCE WithdrawalLifecycle WITH status <- reqStatus, paid <- Paid
SettlementImplementsLifecycle == EndToEnd!Spec

-----------------------------------------------------------------------------
(* The inductive invariant while no answer is lost and no write fails,     *)
(* next to QueueInv and LossFreeInv                                        *)

SettlementTypeOK ==
    /\ stored \in [Requests -> Nat]
    /\ provider \in [Requests -> [1 .. MaxAttempts -> DfnsTransferStatus]]
    /\ spc \in [Settlers -> {"idle", "query", "store", "report"}]
    /\ answer \in [Settlers -> {"PENDING", "CONFIRMED", "FAILED"}]
    /\ outcomes \in [Requests -> SUBSET {"CONFIRMED", "FAILED"}]
    /\ DOMAIN batch = Settlers

\* A submitted request has one transfer and is out of the workers' hands.
SubmittedIsLeftAlone ==
    \A r \in Requests : external[r] =>
        /\ ~OnChain(r) /\ stored[r] = 1 /\ transfers[r] = 1
        /\ qStatus[r] \notin Waiting
        /\ reqStatus[r] \in {"PROCESSING", "EXECUTED", "FAILED"}
        /\ \A w \in Workers : Owns(w) /\ job[w] = r => pc[w] \in {"succeed", "audit"}

\* The provider has said what a status, a pending answer or the log tells.
Decides(r, verdict) ==
    /\ verdict = "CONFIRMED" => provider[r][1] = "Confirmed"
    /\ verdict = "FAILED" => provider[r][1] \in RefusedStatuses

BatchIsSubmitted ==
    \A s \in Settlers : \A r \in DOMAIN batch[s] :
        /\ r \in Requests /\ external[r] /\ batch[s][r].id = 1
        /\ Current(s, r) /\ spc[s] \in {"store", "report"} => Decides(r, answer[s])
        /\ Current(s, r) /\ spc[s] = "report" =>
                answer[s] # "PENDING" /\ reqStatus[r] = SettledStatus(answer[s])

StatusIsDecided ==
    \A r \in Requests : ~OnChain(r) =>
        /\ reqStatus[r] = "EXECUTED" => external[r] /\ Decides(r, "CONFIRMED")
        /\ reqStatus[r] = "FAILED" /\ external[r] => Decides(r, "FAILED")
        /\ transfers[r] = 1 /\ ~external[r] => reqStatus[r] = "PROCESSING"
        /\ transfers[r] = 0 => provider[r][1] = "Pending"

ReportsFollowStatus ==
    \A r \in Requests : ~OnChain(r) =>
        /\ \A verdict \in outcomes[r] : external[r] /\ reqStatus[r] = SettledStatus(verdict)
        /\ notified[r] = "EXECUTED" => external[r] /\ reqStatus[r] = "EXECUTED"

SettlementInv ==
    /\ SettlementTypeOK
    /\ SubmittedIsLeftAlone
    /\ BatchIsSubmitted
    /\ StatusIsDecided
    /\ ReportsFollowStatus

-----------------------------------------------------------------------------
(* Liveness                                                                *)

\* A submitted request gets its final status, and keeps it, although any
\* round may end early and older requests come first.
EventuallyFinal ==
    \A r \in Requests : external[r] ~> [](reqStatus[r] \in {"EXECUTED", "FAILED"})
=============================================================================
