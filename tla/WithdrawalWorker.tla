-------------------------- MODULE WithdrawalWorker --------------------------
(***************************************************************************)
(* The withdrawal queue and the workers that drain it: `poll` of           *)
(* WithdrawalWorkerService, the QueueService it reserves jobs from, the    *)
(* execution router and the executors it calls.                            *)
(*                                                                         *)
(* Every API process runs one poll at a time (`isProcessing`); several     *)
(* processes share the database.  An `await` of the code is a step here,   *)
(* so the polls of two processes interleave at every database and chain    *)
(* call, and a call may fail or the process may die at each of them.       *)
(* A request has exactly one queue row (withdrawRequestId is unique), so   *)
(* the rows of both tables are functions of the request.                   *)
(***************************************************************************)
EXTENDS Naturals

CONSTANTS
    Requests,     \* withdraw requests
    Workers,      \* API processes, each with its own poll loop
    walletType,   \* the type of the wallet each request belongs to
    MaxAttempts,  \* the literal 3 of the worker's catch block
    Faults,       \* the faults the environment may produce
    NoJob         \* "this worker holds no job"

WalletTypes == {"BACKEND_SEC", "MULTISIG", "POLICY_GUARD", "KMS", "MPC", "SSS"}

(***************************************************************************)
(* "reject": nothing is transferred and the executor throws (signer not    *)
(*           resolved, insufficient balance, refused or reverted           *)
(*           transaction, KMS lock busy).                                  *)
(* "lost":   the transfer goes out and the executor throws all the same    *)
(*           (reply of the node or of the provider lost, tx.wait error).   *)
(* "db":     a database call throws.                                       *)
(* "crash":  the process dies and is started again.                        *)
(***************************************************************************)
FaultKinds == {"reject", "lost", "db", "crash"}

ASSUME WalletTypeAssumption == walletType \in [Requests -> WalletTypes]
ASSUME MaxAttemptsAssumption == MaxAttempts \in Nat \ {0}
ASSUME FaultsAssumption == Faults \subseteq FaultKinds
ASSUME NoJobAssumption == NoJob \notin Requests

VARIABLES
    reqStatus,    \* WithdrawRequest.status; "NONE" before the row exists
    retryCount,   \* WithdrawRequest.retryCount
    signedTx,     \* metadata.sssSignedTx is present
    external,     \* metadata.externalRequestId is present
    qStatus,      \* WithdrawalQueue.status; "NONE" before the row exists
    attemptCount, \* WithdrawalQueue.attemptCount
    due,          \* availableAt <= NOW()
    createdAt,    \* WithdrawalQueue.createdAt, as the order of insertion
    rows,         \* queue rows inserted so far
    pc,           \* the call each worker's poll waits for
    job,          \* the job of each worker's poll
    seen,         \* retryCount as the poll read it
    transfers,    \* transfers of a request that reached chain or provider
    audit,        \* event types in the audit log of a request
    notified      \* status last emitted to the owner by the worker

reqVars == <<reqStatus, retryCount, signedTx, external>>
queueVars == <<qStatus, attemptCount, due, createdAt, rows>>
workerVars == <<pc, job, seen>>
worldVars == <<transfers, audit, notified>>
vars == <<reqVars, queueVars, workerVars, worldVars>>

-----------------------------------------------------------------------------
(* Where a poll can be, grouped by what a thrown error does there.         *)

BeforeTry == {"reserved", "running", "loaded", "started"}
InsideTry == {"execute", "wait", "strip", "auditSss", "save", "succeed",
              "audit", "auditKms"}
InCatch == {"catch", "fail", "kill", "auditFailed", "requeue", "auditRetry"}
Labels == {"idle"} \cup BeforeTry \cup InsideTry \cup InCatch

RequestStatuses == {"NONE", "QUEUED", "PROCESSING", "EXECUTED", "FAILED"}
QueueStatuses == {"NONE", "PENDING", "RESERVED", "RUNNING", "RETRY_WAIT",
                  "SUCCEEDED", "DEAD"}
AuditEvents == {"EXECUTION_STARTED", "SSS_SIGNED_TX_BROADCASTED",
                "TX_CONFIRMED", "KMS_BROADCASTED",
                "RETRY_SCHEDULED", "TX_FAILED"}

OnChain(r) == walletType[r] # "MPC"

Goto(w, from, to) == pc[w] = from /\ pc' = [pc EXCEPT ![w] = to]

\* The poll returns or rejects; `finally` lets the next tick poll again.
LeavePoll(w) ==
    /\ pc' = [pc EXCEPT ![w] = "idle"]
    /\ job' = [job EXCEPT ![w] = NoJob]
    /\ seen' = [seen EXCEPT ![w] = 0]

AppendAudit(r, event) == audit' = [audit EXCEPT ![r] = @ \cup {event}]

-----------------------------------------------------------------------------
Init ==
    /\ reqStatus = [r \in Requests |-> "NONE"]
    /\ retryCount = [r \in Requests |-> 0]
    /\ signedTx = [r \in Requests |-> FALSE]
    /\ external = [r \in Requests |-> FALSE]
    /\ qStatus = [r \in Requests |-> "NONE"]
    /\ attemptCount = [r \in Requests |-> 0]
    /\ due = [r \in Requests |-> FALSE]
    /\ createdAt = [r \in Requests |-> 0]
    /\ rows = 0
    /\ pc = [w \in Workers |-> "idle"]
    /\ job = [w \in Workers |-> NoJob]
    /\ seen = [w \in Workers |-> 0]
    /\ transfers = [r \in Requests |-> 0]
    /\ audit = [r \in Requests |-> {}]
    /\ notified = [r \in Requests |-> "NONE"]

\* The transaction that inserts a request and its queue row commits.
Enqueue(r) ==
    /\ reqStatus[r] = "NONE"
    /\ reqStatus' = [reqStatus EXCEPT ![r] = "QUEUED"]
    /\ signedTx' = [signedTx EXCEPT ![r] = (walletType[r] = "SSS")]
    /\ qStatus' = [qStatus EXCEPT ![r] = "PENDING"]
    /\ due' = [due EXCEPT ![r] = TRUE]
    /\ rows' = rows + 1
    /\ createdAt' = [createdAt EXCEPT ![r] = rows + 1]
    /\ UNCHANGED <<retryCount, external, attemptCount, workerVars, worldVars>>

-----------------------------------------------------------------------------
(* poll, up to the inner try block                                         *)

\* Mutant: rows reserved but not yet running are handed out again.
EligibleReclaimed(r) ==
    qStatus[r] \in {"PENDING", "RESERVED"} \/ (qStatus[r] = "RETRY_WAIT" /\ due[r])

Eligible(r) == qStatus[r] = "PENDING" \/ (qStatus[r] = "RETRY_WAIT" /\ due[r])

\* UPDATE ... FOR UPDATE SKIP LOCKED: the oldest eligible row, atomically.
ReserveNext(w) ==
    /\ Goto(w, "idle", "reserved")
    /\ \E r \in Requests :
        /\ Eligible(r)
        /\ \A s \in Requests : Eligible(s) => createdAt[r] <= createdAt[s]
        /\ qStatus' = [qStatus EXCEPT ![r] = "RESERVED"]
        /\ job' = [job EXCEPT ![w] = r]
    /\ UNCHANGED <<reqVars, attemptCount, due, createdAt, rows, seen, worldVars>>

\* No row to reserve: this tick of the timer does nothing.
PollFindsNothing(w) ==
    /\ pc[w] = "idle"
    /\ \A r \in Requests : ~Eligible(r)
    /\ UNCHANGED vars

MarkRunning(w) ==
    /\ Goto(w, "reserved", "running")
    /\ qStatus' = [qStatus EXCEPT ![job[w]] = "RUNNING"]
    /\ UNCHANGED <<reqVars, attemptCount, due, createdAt, rows, job, seen, worldVars>>

LoadRequest(w) ==
    /\ Goto(w, "running", "loaded")
    /\ seen' = [seen EXCEPT ![w] = retryCount[job[w]]]
    /\ UNCHANGED <<reqVars, queueVars, job, worldVars>>

\* The update has no condition on the status it replaces.
MarkProcessing(w) ==
    /\ Goto(w, "loaded", "started")
    /\ reqStatus' = [reqStatus EXCEPT ![job[w]] = "PROCESSING"]
    /\ UNCHANGED <<retryCount, signedTx, external, queueVars, job, seen, worldVars>>

AuditStarted(w) ==
    /\ Goto(w, "started", "execute")
    /\ AppendAudit(job[w], "EXECUTION_STARTED")
    /\ UNCHANGED <<reqVars, queueVars, job, seen, transfers, notified>>

-----------------------------------------------------------------------------
(* The inner try block: executor, then the result is stored                *)

\* A signed transaction has a fixed nonce and can be mined only once; every
\* other executor builds a new transaction or a new provider transfer.
Transfer(r) ==
    transfers' = [transfers EXCEPT ![r] = IF walletType[r] = "SSS" THEN 1 ELSE @ + 1]

\* What an executor may find before it sends: the client-signed transaction.
CanSend(r) == walletType[r] = "SSS" => signedTx[r]

\* The executor throws and nothing new is transferred.
ExecutorRejects(w) ==
    /\ Goto(w, "execute", "catch")
    /\ \/ "reject" \in Faults
       \/ ~CanSend(job[w])
       \/ walletType[job[w]] = "SSS" /\ transfers[job[w]] = 1  \* already known
    /\ UNCHANGED <<reqVars, queueVars, job, seen, worldVars>>

\* createTransfer answers at once; the other executors wait for the receipt.
Broadcast(w) ==
    /\ Goto(w, "execute", IF OnChain(job[w]) THEN "wait" ELSE "save")
    /\ CanSend(job[w])
    /\ Transfer(job[w])
    /\ UNCHANGED <<reqVars, queueVars, job, seen, audit, notified>>

\* The node or the provider took the transfer, its answer did not arrive.
BroadcastLost(w) ==
    /\ "lost" \in Faults
    /\ Goto(w, "execute", "catch")
    /\ CanSend(job[w])
    /\ Transfer(job[w])
    /\ UNCHANGED <<reqVars, queueVars, job, seen, audit, notified>>

\* Mutant: a receipt that takes long is an error.
ConfirmTimesOut(w) ==
    /\ Goto(w, "wait", "catch")
    /\ UNCHANGED <<reqVars, queueVars, job, seen, worldVars>>

Confirm(w) ==
    /\ Goto(w, "wait", IF walletType[job[w]] = "SSS" THEN "strip" ELSE "save")
    /\ UNCHANGED <<reqVars, queueVars, job, seen, worldVars>>

\* tx.wait throws although the transaction is on its way.
WaitFails(w) ==
    /\ "lost" \in Faults
    /\ Goto(w, "wait", "catch")
    /\ UNCHANGED <<reqVars, queueVars, job, seen, worldVars>>

\* Mutant: the signed transaction is dropped before it is broadcast.
StripSignedTxEarly(w) ==
    /\ Goto(w, "execute", "execute")
    /\ signedTx' = [signedTx EXCEPT ![job[w]] = FALSE]
    /\ UNCHANGED <<reqStatus, retryCount, external, queueVars, job, seen, worldVars>>

StripSignedTx(w) ==
    /\ Goto(w, "strip", "auditSss")
    /\ signedTx' = [signedTx EXCEPT ![job[w]] = FALSE]
    /\ UNCHANGED <<reqStatus, retryCount, external, queueVars, job, seen, worldVars>>

AuditSssBroadcast(w) ==
    /\ Goto(w, "auditSss", "save")
    /\ AppendAudit(job[w], "SSS_SIGNED_TX_BROADCASTED")
    /\ UNCHANGED <<reqVars, queueVars, job, seen, transfers, notified>>

\* Mutant: the provider's identifier is not stored.
SaveResultNoExternal(w) ==
    /\ Goto(w, "save", "succeed")
    /\ reqStatus' = [reqStatus EXCEPT ![job[w]] =
                        IF OnChain(job[w]) THEN "EXECUTED" ELSE "PROCESSING"]
    /\ UNCHANGED <<retryCount, signedTx, external, queueVars, job, seen, worldVars>>

\* ONCHAIN_TX: EXECUTED.  EXTERNAL_PENDING: PROCESSING, left to settlement.
SaveResult(w) ==
    /\ Goto(w, "save", "succeed")
    /\ reqStatus' = [reqStatus EXCEPT ![job[w]] =
                        IF OnChain(job[w]) THEN "EXECUTED" ELSE "PROCESSING"]
    /\ external' = [external EXCEPT ![job[w]] = ~OnChain(job[w])]
    /\ UNCHANGED <<retryCount, signedTx, queueVars, job, seen, worldVars>>

MarkSucceeded(w) ==
    /\ Goto(w, "succeed", "audit")
    /\ qStatus' = [qStatus EXCEPT ![job[w]] = "SUCCEEDED"]
    /\ notified' = [notified EXCEPT ![job[w]] = IF OnChain(job[w]) THEN "EXECUTED" ELSE @]
    /\ UNCHANGED <<reqVars, attemptCount, due, createdAt, rows, job, seen, transfers, audit>>

\* A submission to the provider is recorded as EXECUTION_STARTED, once more.
AuditResult(w) ==
    /\ pc[w] = "audit"
    /\ AppendAudit(job[w], IF OnChain(job[w]) THEN "TX_CONFIRMED" ELSE "EXECUTION_STARTED")
    /\ IF walletType[job[w]] = "KMS"
       THEN Goto(w, "audit", "auditKms") /\ UNCHANGED <<job, seen>>
       ELSE LeavePoll(w)
    /\ UNCHANGED <<reqVars, queueVars, transfers, notified>>

AuditKms(w) ==
    /\ pc[w] = "auditKms"
    /\ AppendAudit(job[w], "KMS_BROADCASTED")
    /\ LeavePoll(w)
    /\ UNCHANGED <<reqVars, queueVars, transfers, notified>>

-----------------------------------------------------------------------------
(* The catch block: give up after MaxAttempts failures, else retry later   *)

\* The owner is told FAILED before the request is FAILED.
GiveUp(w) ==
    /\ seen[w] + 1 >= MaxAttempts
    /\ Goto(w, "catch", "fail")
    /\ notified' = [notified EXCEPT ![job[w]] = "FAILED"]
    /\ UNCHANGED <<reqVars, queueVars, job, seen, transfers, audit>>

\* Mutant: the retry branch follows the failure branch.
StoreFailedThenRequeue(w) ==
    /\ Goto(w, "fail", "requeue")
    /\ reqStatus' = [reqStatus EXCEPT ![job[w]] = "FAILED"]
    /\ retryCount' = [retryCount EXCEPT ![job[w]] = seen[w] + 1]
    /\ UNCHANGED <<signedTx, external, queueVars, job, seen, worldVars>>

StoreFailed(w) ==
    /\ Goto(w, "fail", "kill")
    /\ reqStatus' = [reqStatus EXCEPT ![job[w]] = "FAILED"]
    /\ retryCount' = [retryCount EXCEPT ![job[w]] = seen[w] + 1]
    /\ UNCHANGED <<signedTx, external, queueVars, job, seen, worldVars>>

\* Mutant: the queue row is left as it is.
MarkDeadForgotten(w) ==
    /\ Goto(w, "kill", "auditFailed")
    /\ UNCHANGED <<reqVars, queueVars, job, seen, worldVars>>

MarkDead(w) ==
    /\ Goto(w, "kill", "auditFailed")
    /\ qStatus' = [qStatus EXCEPT ![job[w]] = "DEAD"]
    /\ UNCHANGED <<reqVars, attemptCount, due, createdAt, rows, job, seen, worldVars>>

AuditFailed(w) ==
    /\ pc[w] = "auditFailed"
    /\ AppendAudit(job[w], "TX_FAILED")
    /\ LeavePoll(w)
    /\ UNCHANGED <<reqVars, queueVars, transfers, notified>>

\* Mutant: one retry too many.
StoreRetryOffByOne(w) ==
    /\ seen[w] + 1 <= MaxAttempts
    /\ Goto(w, "catch", "requeue")
    /\ retryCount' = [retryCount EXCEPT ![job[w]] = seen[w] + 1]
    /\ UNCHANGED <<reqStatus, signedTx, external, queueVars, job, seen, worldVars>>

StoreRetry(w) ==
    /\ seen[w] + 1 < MaxAttempts
    /\ Goto(w, "catch", "requeue")
    /\ retryCount' = [retryCount EXCEPT ![job[w]] = seen[w] + 1]
    /\ UNCHANGED <<reqStatus, signedTx, external, queueVars, job, seen, worldVars>>

MarkRetry(w) ==
    /\ Goto(w, "requeue", "auditRetry")
    /\ qStatus' = [qStatus EXCEPT ![job[w]] = "RETRY_WAIT"]
    /\ attemptCount' = [attemptCount EXCEPT ![job[w]] = @ + 1]
    /\ due' = [due EXCEPT ![job[w]] = FALSE]
    /\ UNCHANGED <<reqVars, createdAt, rows, job, seen, worldVars>>

AuditRetry(w) ==
    /\ pc[w] = "auditRetry"
    /\ AppendAudit(job[w], "RETRY_SCHEDULED")
    /\ LeavePoll(w)
    /\ UNCHANGED <<reqVars, queueVars, transfers, notified>>

-----------------------------------------------------------------------------
(* Time, faults                                                            *)

\* The 30 seconds of a retry pass.
RetryDelayElapses(r) ==
    /\ qStatus[r] = "RETRY_WAIT" /\ ~due[r]
    /\ due' = [due EXCEPT ![r] = TRUE]
    /\ UNCHANGED <<reqVars, qStatus, attemptCount, createdAt, rows, workerVars, worldVars>>

\* Mutant: the flag is reset at the end of the poll, and not in a `finally`.
DatabaseFailsHeld(w) ==
    /\ "db" \in Faults
    /\ pc[w] \notin {"idle", "wait"}
    /\ ~(pc[w] = "catch" /\ seen[w] + 1 >= MaxAttempts)
    /\ IF pc[w] \in InsideTry
       THEN Goto(w, pc[w], "catch") /\ UNCHANGED <<job, seen>>
       ELSE /\ Goto(w, pc[w], "held")
            /\ job' = [job EXCEPT ![w] = NoJob]
            /\ seen' = [seen EXCEPT ![w] = 0]
    /\ UNCHANGED <<reqVars, queueVars, worldVars>>

\* The database call of this step throws: inside the inner try the catch
\* block takes over, anywhere else the poll rejects and keeps no trace.
DatabaseFails(w) ==
    /\ "db" \in Faults
    /\ pc[w] \notin {"idle", "wait"}
    /\ ~(pc[w] = "catch" /\ seen[w] + 1 >= MaxAttempts)
    /\ IF pc[w] \in InsideTry
       THEN Goto(w, pc[w], "catch") /\ UNCHANGED <<job, seen>>
       ELSE LeavePoll(w)
    /\ UNCHANGED <<reqVars, queueVars, worldVars>>

Crash(w) ==
    /\ "crash" \in Faults
    /\ pc[w] # "idle"
    /\ LeavePoll(w)
    /\ UNCHANGED <<reqVars, queueVars, worldVars>>

-----------------------------------------------------------------------------
Poll(w) ==
    \/ ReserveNext(w) \/ MarkRunning(w) \/ LoadRequest(w)
    \/ MarkProcessing(w) \/ AuditStarted(w)
    \/ ExecutorRejects(w) \/ Broadcast(w) \/ BroadcastLost(w)
    \/ StripSignedTx(w) \/ AuditSssBroadcast(w)
    \/ SaveResult(w) \/ MarkSucceeded(w) \/ AuditResult(w) \/ AuditKms(w)
    \/ GiveUp(w) \/ StoreFailed(w) \/ MarkDead(w) \/ AuditFailed(w)
    \/ StoreRetry(w) \/ MarkRetry(w) \/ AuditRetry(w)

Receipt(w) == Confirm(w) \/ WaitFails(w)

Next ==
    \/ \E r \in Requests : Enqueue(r) \/ RetryDelayElapses(r)
    \/ \E w \in Workers :
        Poll(w) \/ Receipt(w) \/ PollFindsNothing(w) \/ DatabaseFails(w) \/ Crash(w)

Spec == Init /\ [][Next]_vars

\* A started poll goes on, the timer polls every 5 s, retry delays pass, and
\* a broadcast transaction is mined or tx.wait throws.
Fairness ==
    /\ \A w \in Workers : WF_vars(Poll(w)) /\ WF_vars(Receipt(w))
    /\ \A r \in Requests : WF_vars(RetryDelayElapses(r))

FairSpec == Spec /\ Fairness

-----------------------------------------------------------------------------
(* Safety, whatever fails                                                  *)

Waiting == {"NONE", "PENDING", "RETRY_WAIT", "RESERVED"}

\* A poll that may still execute its job or write its rows.
Owns(w) == pc[w] \notin {"idle", "auditRetry"}

\* Every variable has its type, and the counters stay within the attempts
\* the catch block grants.
TypeOK ==
    /\ reqStatus \in [Requests -> RequestStatuses]
    /\ retryCount \in [Requests -> 0 .. MaxAttempts]
    /\ signedTx \in [Requests -> BOOLEAN]
    /\ external \in [Requests -> BOOLEAN]
    /\ qStatus \in [Requests -> QueueStatuses]
    /\ attemptCount \in [Requests -> 0 .. MaxAttempts]
    /\ due \in [Requests -> BOOLEAN]
    /\ createdAt \in [Requests -> Nat]
    /\ rows \in Nat
    /\ pc \in [Workers -> Labels]
    /\ job \in [Workers -> Requests \cup {NoJob}]
    /\ seen \in [Workers -> 0 .. MaxAttempts]
    /\ transfers \in [Requests -> 0 .. MaxAttempts]
    /\ audit \in [Requests -> SUBSET AuditEvents]
    /\ notified \in [Requests -> {"NONE", "EXECUTED", "FAILED"}]

\* Two processes never work on the same job: SKIP LOCKED hands a row to one
\* of them, and it becomes eligible again only when its poll is through with it.
ExclusiveExecution ==
    \A v, w \in Workers : v # w /\ Owns(v) /\ Owns(w) => job[v] # job[w]

\* The failures counted on the request and on its queue row, written one
\* after the other without a transaction, differ by at most the write in
\* between, and agree whenever a worker may pick the job up.
RetryLedger ==
    \A r \in Requests :
        /\ attemptCount[r] <= retryCount[r] /\ retryCount[r] <= attemptCount[r] + 1
        /\ qStatus[r] \in Waiting => retryCount[r] = attemptCount[r]

\* However calls fail, each attempt pays for at most one transfer and a job
\* is attempted at most MaxAttempts times.
TransfersBounded ==
    \A r \in Requests :
        transfers[r] <= attemptCount[r] + 1 /\ attemptCount[r] < MaxAttempts

\* A request reported or stored as executed, on either table or to its
\* owner, has a transfer behind it.
SuccessIsBacked ==
    \A r \in Requests :
        \/ reqStatus[r] = "EXECUTED"
        \/ qStatus[r] = "SUCCEEDED"
        \/ notified[r] = "EXECUTED"
        => transfers[r] >= 1

\* The only copy of a client-signed transaction is dropped only once the
\* transaction is out.
SignedTransactionKept ==
    \A r \in Requests :
        walletType[r] = "SSS" /\ reqStatus[r] # "NONE" /\ ~signedTx[r]
            => transfers[r] = 1

\* A dead job belongs to a failed request with all its attempts used.
DeadMeansFailed ==
    \A r \in Requests :
        qStatus[r] = "DEAD" => reqStatus[r] = "FAILED" /\ retryCount[r] = MaxAttempts

\* A request stored as FAILED stays so and no later step transfers for it.
FailedIsFinal ==
    [][\A r \in Requests : reqStatus[r] = "FAILED" =>
            reqStatus'[r] = "FAILED" /\ transfers'[r] = transfers[r]]_vars

-----------------------------------------------------------------------------
(* The inductive invariant behind the safety properties                    *)

\* A worker has a job exactly while its poll runs.
JobHeld == \A w \in Workers : pc[w] = "idle" <=> job[w] = NoJob

\* A request and its queue row are inserted together.
RowsTogether == \A r \in Requests : reqStatus[r] = "NONE" <=> qStatus[r] = "NONE"

\* The row of an owned job is not up for reservation.
OwnedRowTaken ==
    \A w \in Workers :
        Owns(w) =>
            /\ qStatus[job[w]] \notin {"NONE", "PENDING", "RETRY_WAIT"}
            /\ qStatus[job[w]] = "RESERVED" => pc[w] = "reserved"

\* Between the read of the request and the write of the new count, the
\* count read is the stored one; before and at that write both ledgers agree.
SeenIsCurrent ==
    \A w \in Workers :
        Owns(w) /\ pc[w] \notin {"kill", "auditFailed", "requeue"} =>
            /\ retryCount[job[w]] = attemptCount[job[w]]
            /\ pc[w] \notin {"reserved", "running"} => seen[w] = retryCount[job[w]]

\* No transfer of the current attempt exists before the executor is called.
AttemptUnspent ==
    /\ \A r \in Requests : qStatus[r] \in Waiting => transfers[r] <= attemptCount[r]
    /\ \A w \in Workers : pc[w] \in BeforeTry \cup {"execute"} =>
            transfers[job[w]] <= attemptCount[job[w]]

\* A retry is prepared only while an attempt is left.
RetryHasAttemptLeft ==
    \A w \in Workers :
        pc[w] = "requeue" => /\ attemptCount[job[w]] + 1 < MaxAttempts
                             /\ retryCount[job[w]] = attemptCount[job[w]] + 1

\* A failed request is not up for reservation and its owner is past its write.
FailedRowTaken ==
    /\ \A r \in Requests : reqStatus[r] = "FAILED" => qStatus[r] \notin Waiting
    /\ \A w \in Workers : Owns(w) /\ reqStatus[job[w]] = "FAILED" =>
            pc[w] \in {"kill", "auditFailed"}

\* What holds whoever else writes the status of a request.
QueueInv ==
    /\ TypeOK
    /\ JobHeld
    /\ RowsTogether
    /\ ExclusiveExecution
    /\ OwnedRowTaken
    /\ RetryLedger
    /\ SeenIsCurrent
    /\ TransfersBounded
    /\ AttemptUnspent
    /\ RetryHasAttemptLeft

IInv == QueueInv /\ FailedRowTaken

\* Where a transfer of the current attempt is known to be out.
Sent == {"wait", "strip", "auditSss", "save", "succeed", "audit", "auditKms"}

\* What a poll knows of its job's outcome, next to IInv.
OutcomeKnown ==
    /\ \A w \in Workers : pc[w] \in Sent => transfers[job[w]] >= 1
    /\ \A r \in Requests : walletType[r] = "SSS" => transfers[r] <= 1
    /\ \A w \in Workers : pc[w] = "fail" => seen[w] + 1 >= MaxAttempts
    /\ \A w \in Workers :
        pc[w] = "kill" => /\ reqStatus[job[w]] = "FAILED"
                          /\ retryCount[job[w]] = MaxAttempts
    /\ \A w \in Workers :
        Owns(w) => (qStatus[job[w]] = "DEAD" => pc[w] = "auditFailed")

StrongInv == IInv /\ OutcomeKnown

-----------------------------------------------------------------------------
(* What holds only while some faults are absent                            *)

\* One request, one transfer: the client cannot be charged twice.
AtMostOneTransfer == \A r \in Requests : transfers[r] <= 1

\* A request that is FAILED, or of which the owner hears that it FAILED,
\* moved no funds.
FailureIsUnpaid ==
    \A r \in Requests :
        reqStatus[r] = "FAILED" \/ notified[r] = "FAILED" => transfers[r] = 0

\* A job that SUCCEEDED belongs to a request that is executed, or submitted
\* to the provider and known to settlement.
SucceededRowMatches ==
    \A r \in Requests :
        qStatus[r] = "SUCCEEDED" =>
            \/ reqStatus[r] = "EXECUTED"
            \/ reqStatus[r] = "PROCESSING" /\ external[r]

\* The inductive invariant of loss-free runs, next to IInv: nothing is out
\* before the executor sent it, nor once the attempt is in the catch block.
LossFreeInv ==
    /\ \A r \in Requests :
        /\ transfers[r] <= 1
        /\ qStatus[r] \in Waiting => transfers[r] = 0
        /\ qStatus[r] \in {"NONE", "PENDING"} => reqStatus[r] \in {"NONE", "QUEUED"}
        /\ qStatus[r] = "RETRY_WAIT" => reqStatus[r] \in {"QUEUED", "PROCESSING"}
    /\ \A w \in Workers :
        /\ pc[w] \in BeforeTry \cup {"execute"} => transfers[job[w]] = 0
        /\ pc[w] \in InCatch \ {"auditRetry"} => transfers[job[w]] = 0
        /\ pc[w] \in Sent => transfers[job[w]] = 1
        /\ pc[w] \in {"reserved", "running", "loaded"} =>
                reqStatus[job[w]] \in {"QUEUED", "PROCESSING"}
        /\ pc[w] \in {"started", "execute", "wait", "strip", "auditSss", "save",
                     "catch", "fail", "requeue"} => reqStatus[job[w]] = "PROCESSING"

\* The queue and its workers implement the lifecycle a client relies on.
Lifecycle == INSTANCE WithdrawalLifecycle WITH status <- reqStatus, paid <- transfers
ImplementsLifecycle == Lifecycle!Spec

-----------------------------------------------------------------------------
(* Liveness                                                                *)

Settled(r) ==
    \/ reqStatus[r] = "EXECUTED" /\ qStatus[r] = "SUCCEEDED"
    \/ reqStatus[r] = "FAILED" /\ qStatus[r] = "DEAD"
    \/ external[r] /\ qStatus[r] = "SUCCEEDED"

\* RESERVED or RUNNING, and no process has it: no query selects the row again.
Orphaned(r) ==
    /\ qStatus[r] \in {"RESERVED", "RUNNING"}
    /\ \A w \in Workers : job[w] # r

\* A poll lets its process poll again, whichever call threw and wherever: in
\* front of the inner try, inside it, or in the catch block that follows it.
WorkerReleased == \A w \in Workers : []<>(pc[w] = "idle")
=============================================================================
