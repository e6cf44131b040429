-------------------------- MODULE WithdrawalProofs --------------------------
(***************************************************************************)
(* The safety properties of the execution of withdrawals, for any set of   *)
(* requests and of processes, any wallet types, any attempt limit and any  *)
(* faults, unless a theorem names the faults it excludes.                  *)
(*                                                                         *)
(*   I.   The queue: IInv is inductive.  Most steps of a poll neither      *)
(*        touch the rows the invariant speaks of nor leave the poll: one   *)
(*        lemma treats them together, another the steps that end a poll,   *)
(*        and each step that writes a status, a count or a transfer has a  *)
(*        lemma of its own.                                                *)
(*   II.  What the outcome stored for a request says about its transfers,  *)
(*        and that the workers implement WithdrawalLifecycle while no      *)
(*        database call fails and no answer about a transfer is lost.      *)
(*   III. Worker and settlement together: they keep the promises of        *)
(*        WithdrawalLifecycle under the same condition, for any number of  *)
(*        processes that settle, any batch size, and however often rounds  *)
(*        are cut short.                                                   *)
(*   IV.  Worker and settlement when anything may fail.                    *)
(***************************************************************************)
EXTENDS MpcSettlement, FiniteSetTheorems, TLAPS

USE DEF settlementVars, metadataVars, roundVars, reqVars, queueVars, workerVars, worldVars,
        Goto, LeavePoll, AppendAudit, BeforeTry, InsideTry, InCatch, Labels

-----------------------------------------------------------------------------
(* I.  The queue                                                           *)

\* The rows QueueInv relates, the counts excepted.
ledgerVars == <<reqStatus, retryCount, qStatus, attemptCount, transfers>>

LEMMA InitQueueInv == Init => QueueInv
<1> SUFFICES ASSUME Init PROVE QueueInv
  OBVIOUS
<1> USE MaxAttemptsAssumption, NoJobAssumption DEF Init
<1>1. TypeOK
  BY DEF TypeOK, RequestStatuses, QueueStatuses
<1>2. JobHeld /\ RowsTogether /\ ExclusiveExecution /\ OwnedRowTaken /\ SeenIsCurrent
  BY DEF JobHeld, RowsTogether, ExclusiveExecution, OwnedRowTaken, SeenIsCurrent, Owns
<1>3. RetryLedger /\ TransfersBounded /\ AttemptUnspent
  BY DEF RetryLedger, TransfersBounded, AttemptUnspent
<1>4. RetryHasAttemptLeft
  BY DEF RetryHasAttemptLeft
<1> QED
  BY <1>1, <1>2, <1>3, <1>4 DEF QueueInv

-----------------------------------------------------------------------------
(* Steps that write none of the rows                                       *)

\* The labels between the write of PROCESSING and the catch block's writes.
Attempting == {"started", "catch", "fail"} \cup InsideTry

LEMMA StepWithinAttempt ==
  ASSUME QueueInv, TypeOK', NEW w \in Workers, NEW to \in Attempting,
         pc[w] \in Attempting, pc' = [pc EXCEPT ![w] = to],
         to \in {"started", "execute"} => pc[w] = "started",
         UNCHANGED <<ledgerVars, job, seen>>
  PROVE  QueueInv'
<1> USE DEF QueueInv, TypeOK, Attempting, ledgerVars, Owns
<1>1. JobHeld' /\ RowsTogether' /\ ExclusiveExecution'
  BY DEF JobHeld, RowsTogether, ExclusiveExecution
<1>2. OwnedRowTaken' /\ SeenIsCurrent'
  BY DEF OwnedRowTaken, SeenIsCurrent, JobHeld
<1>3. RetryLedger' /\ TransfersBounded' /\ RetryHasAttemptLeft'
  BY DEF RetryLedger, TransfersBounded, RetryHasAttemptLeft, JobHeld
<1>4. AttemptUnspent'
  BY DEF AttemptUnspent, JobHeld
<1> QED
  BY <1>1, <1>2, <1>3, <1>4

LEMMA StepOutOfPoll ==
  ASSUME QueueInv, TypeOK', NEW w \in Workers, LeavePoll(w), UNCHANGED ledgerVars
  PROVE  QueueInv'
<1> USE NoJobAssumption DEF QueueInv, TypeOK, ledgerVars, Owns
<1>1. JobHeld' /\ RowsTogether' /\ ExclusiveExecution'
  BY DEF JobHeld, RowsTogether, ExclusiveExecution
<1>2. OwnedRowTaken' /\ SeenIsCurrent'
  BY DEF OwnedRowTaken, SeenIsCurrent, JobHeld
<1>3. RetryLedger' /\ TransfersBounded' /\ RetryHasAttemptLeft'
  BY DEF RetryLedger, TransfersBounded, RetryHasAttemptLeft, JobHeld
<1>4. AttemptUnspent'
  BY DEF AttemptUnspent, JobHeld
<1> QED
  BY <1>1, <1>2, <1>3, <1>4

LEMMA StutterQueueInv == QueueInv /\ UNCHANGED vars => QueueInv'
<1> SUFFICES ASSUME QueueInv, UNCHANGED vars PROVE QueueInv'
  OBVIOUS
<1> USE DEF QueueInv, vars, Owns
<1>1. TypeOK' /\ JobHeld' /\ RowsTogether' /\ ExclusiveExecution'
  BY DEF TypeOK, JobHeld, RowsTogether, ExclusiveExecution
<1>2. OwnedRowTaken' /\ SeenIsCurrent' /\ RetryLedger' /\ TransfersBounded'
  BY DEF OwnedRowTaken, SeenIsCurrent, RetryLedger, TransfersBounded
<1>3. RetryHasAttemptLeft' /\ AttemptUnspent'
  BY DEF RetryHasAttemptLeft, AttemptUnspent
<1> QED
  BY <1>1, <1>2, <1>3

-----------------------------------------------------------------------------
(* The type invariant, step by step                                        *)

LEMMA RequestStepType ==
  ASSUME TypeOK, NEW r \in Requests, Enqueue(r) \/ RetryDelayElapses(r)
  PROVE  TypeOK'
<1>1. CASE Enqueue(r)
  BY <1>1 DEF TypeOK, Enqueue, RequestStatuses, QueueStatuses
<1>2. CASE RetryDelayElapses(r)
  BY <1>2 DEF TypeOK, RetryDelayElapses
<1> QED
  BY <1>1, <1>2

LEMMA PollStepType ==
  ASSUME QueueInv, NEW w \in Workers,
         Poll(w) \/ Receipt(w) \/ PollFindsNothing(w) \/ DatabaseFails(w) \/ Crash(w)
  PROVE  TypeOK'
<1> USE MaxAttemptsAssumption DEF QueueInv, TypeOK
<1>0. pc[w] # "idle" => job[w] \in Requests
  BY DEF JobHeld
<1>1. ASSUME ReserveNext(w) \/ MarkRunning(w) \/ LoadRequest(w) \/ MarkProcessing(w)
      PROVE  TypeOK'
  BY <1>0, <1>1 DEF ReserveNext, MarkRunning, LoadRequest, MarkProcessing,
                    RequestStatuses, QueueStatuses
<1>2. ASSUME AuditStarted(w) \/ AuditSssBroadcast(w) \/ AuditResult(w) \/ AuditKms(w)
      PROVE  TypeOK'
  BY <1>0, <1>2 DEF AuditStarted, AuditSssBroadcast, AuditResult, AuditKms, AuditEvents
<1>3. ASSUME AuditFailed(w) \/ AuditRetry(w)
      PROVE  TypeOK'
  BY <1>0, <1>3 DEF AuditFailed, AuditRetry, AuditEvents
<1>4. ASSUME ExecutorRejects(w) \/ Confirm(w) \/ WaitFails(w) \/ StripSignedTx(w)
      PROVE  TypeOK'
  BY <1>0, <1>4 DEF ExecutorRejects, Confirm, WaitFails, StripSignedTx
<1>5. ASSUME Broadcast(w) \/ BroadcastLost(w)
      PROVE  TypeOK'
  BY <1>0, <1>5 DEF Broadcast, BroadcastLost, Transfer, AttemptUnspent, TransfersBounded
<1>6. ASSUME SaveResult(w) \/ MarkSucceeded(w) \/ GiveUp(w) \/ MarkDead(w)
      PROVE  TypeOK'
  <2>1. CASE SaveResult(w)
    <3>1. reqStatus' \in [Requests -> RequestStatuses]
      BY <1>0, <2>1 DEF SaveResult, RequestStatuses
    <3>2. external' \in [Requests -> BOOLEAN]
      BY <2>1, Zenon DEF SaveResult
    <3> QED
      BY <1>0, <2>1, <3>1, <3>2 DEF SaveResult
  <2>2. CASE MarkSucceeded(w)
    BY <1>0, <2>2 DEF MarkSucceeded, RequestStatuses, QueueStatuses
  <2>3. CASE GiveUp(w) \/ MarkDead(w)
    BY <1>0, <2>3 DEF GiveUp, MarkDead, RequestStatuses, QueueStatuses
  <2> QED
    BY <1>6, <2>1, <2>2, <2>3
<1>7. ASSUME StoreFailed(w) \/ StoreRetry(w)
      PROVE  TypeOK'
  BY <1>0, <1>7 DEF StoreFailed, StoreRetry, SeenIsCurrent, Owns, TransfersBounded,
                    RequestStatuses
<1>8. ASSUME MarkRetry(w)
      PROVE  TypeOK'
  BY <1>0, <1>8 DEF MarkRetry, RetryHasAttemptLeft, QueueStatuses
<1>9. ASSUME DatabaseFails(w) \/ Crash(w)
      PROVE  TypeOK'
  BY <1>9 DEF DatabaseFails, Crash
<1>10. ASSUME PollFindsNothing(w)
       PROVE  TypeOK'
  BY <1>10 DEF PollFindsNothing, vars
<1> QED
  BY <1>1, <1>2, <1>3, <1>4, <1>5, <1>6, <1>7, <1>8, <1>9, <1>10 DEF Poll, Receipt

-----------------------------------------------------------------------------
(* Steps that write a status, a count or a transfer                        *)

LEMMA EnqueueQueueInv ==
  ASSUME QueueInv, NEW r \in Requests, Enqueue(r), TypeOK'
  PROVE  QueueInv'
<1> USE DEF QueueInv, TypeOK, Enqueue, Owns
<1>1. qStatus[r] = "NONE" /\ \A w \in Workers : Owns(w) => job[w] # r
  BY DEF RowsTogether, OwnedRowTaken
<1>2. JobHeld' /\ RowsTogether' /\ ExclusiveExecution'
  BY DEF JobHeld, RowsTogether, ExclusiveExecution
<1>3. OwnedRowTaken' /\ SeenIsCurrent'
  BY <1>1 DEF OwnedRowTaken, SeenIsCurrent, JobHeld
<1>4. RetryLedger' /\ TransfersBounded' /\ RetryHasAttemptLeft'
  BY <1>1 DEF RetryLedger, TransfersBounded, RetryHasAttemptLeft, JobHeld, Waiting
<1>5. AttemptUnspent'
  BY <1>1 DEF AttemptUnspent, JobHeld, Waiting
<1> QED
  BY <1>2, <1>3, <1>4, <1>5

LEMMA RetryDelayQueueInv ==
  ASSUME QueueInv, NEW r \in Requests, RetryDelayElapses(r), TypeOK'
  PROVE  QueueInv'
<1> USE DEF QueueInv, TypeOK, RetryDelayElapses, Owns
<1>1. JobHeld' /\ RowsTogether' /\ ExclusiveExecution'
  BY DEF JobHeld, RowsTogether, ExclusiveExecution
<1>2. OwnedRowTaken' /\ SeenIsCurrent' /\ RetryLedger' /\ TransfersBounded'
  BY DEF OwnedRowTaken, SeenIsCurrent, RetryLedger, TransfersBounded
<1>3. RetryHasAttemptLeft' /\ AttemptUnspent'
  BY DEF RetryHasAttemptLeft, AttemptUnspent
<1> QED
  BY <1>1, <1>2, <1>3

LEMMA ReserveNextQueueInv ==
  ASSUME QueueInv, NEW w \in Workers, ReserveNext(w), TypeOK'
  PROVE  QueueInv'
<1> USE NoJobAssumption DEF QueueInv, TypeOK, Owns
<1> PICK r \in Requests :
        /\ Eligible(r)
        /\ qStatus' = [qStatus EXCEPT ![r] = "RESERVED"]
        /\ job' = [job EXCEPT ![w] = r]
  BY DEF ReserveNext
<1>0. /\ pc[w] = "idle" /\ pc' = [pc EXCEPT ![w] = "reserved"]
      /\ reqStatus' = reqStatus /\ retryCount' = retryCount /\ seen' = seen
      /\ attemptCount' = attemptCount /\ transfers' = transfers
  BY DEF ReserveNext
<1>1. qStatus[r] \in {"PENDING", "RETRY_WAIT"}
  BY DEF Eligible
<1>2. \A v \in Workers : Owns(v) => job[v] # r
  BY <1>1 DEF OwnedRowTaken
<1>3. JobHeld' /\ RowsTogether' /\ ExclusiveExecution'
  BY <1>0, <1>1, <1>2 DEF JobHeld, RowsTogether, ExclusiveExecution
<1>4. OwnedRowTaken'
  BY <1>0, <1>2 DEF OwnedRowTaken, JobHeld
<1>5. SeenIsCurrent'
  BY <1>0, <1>1 DEF SeenIsCurrent, RetryLedger, Waiting
<1>6. RetryLedger' /\ TransfersBounded' /\ RetryHasAttemptLeft'
  BY <1>0, <1>1 DEF RetryLedger, TransfersBounded, RetryHasAttemptLeft, Waiting
<1>7. AttemptUnspent'
  BY <1>0, <1>1, <1>2 DEF AttemptUnspent, Waiting, JobHeld
<1> QED
  BY <1>3, <1>4, <1>5, <1>6, <1>7

LEMMA MarkRunningQueueInv ==
  ASSUME QueueInv, NEW w \in Workers, MarkRunning(w), TypeOK'
  PROVE  QueueInv'
<1> USE NoJobAssumption, MaxAttemptsAssumption DEF QueueInv, TypeOK, MarkRunning, Owns
<1>0. job[w] \in Requests
  BY DEF JobHeld
<1>1. JobHeld' /\ RowsTogether'
  BY <1>0 DEF JobHeld, RowsTogether, OwnedRowTaken
<1>2. ExclusiveExecution'
  BY <1>0 DEF ExclusiveExecution, OwnedRowTaken, JobHeld
<1>3. OwnedRowTaken'
  BY <1>0 DEF OwnedRowTaken, ExclusiveExecution, JobHeld
<1>4. RetryLedger' /\ TransfersBounded'
  BY <1>0 DEF RetryLedger, TransfersBounded, SeenIsCurrent, RetryHasAttemptLeft,
              AttemptUnspent, OwnedRowTaken, Waiting
<1>5. SeenIsCurrent'
  BY <1>0 DEF SeenIsCurrent, ExclusiveExecution, RetryLedger, Waiting, JobHeld
<1>6. AttemptUnspent'
  BY <1>0 DEF AttemptUnspent, TransfersBounded, ExclusiveExecution, OwnedRowTaken,
              Waiting, JobHeld
<1>7. RetryHasAttemptLeft'
  BY <1>0 DEF RetryHasAttemptLeft, SeenIsCurrent, ExclusiveExecution, JobHeld
<1> QED
  BY <1>1, <1>2, <1>3, <1>4, <1>5, <1>6, <1>7

LEMMA LoadRequestQueueInv ==
  ASSUME QueueInv, NEW w \in Workers, LoadRequest(w), TypeOK'
  PROVE  QueueInv'
<1> USE NoJobAssumption, MaxAttemptsAssumption DEF QueueInv, TypeOK, LoadRequest, Owns
<1>0. job[w] \in Requests
  BY DEF JobHeld
<1>1. JobHeld' /\ RowsTogether'
  BY <1>0 DEF JobHeld, RowsTogether, OwnedRowTaken
<1>2. ExclusiveExecution'
  BY <1>0 DEF ExclusiveExecution, OwnedRowTaken, JobHeld
<1>3. OwnedRowTaken'
  BY <1>0 DEF OwnedRowTaken, ExclusiveExecution, JobHeld
<1>4. RetryLedger' /\ TransfersBounded'
  BY <1>0 DEF RetryLedger, TransfersBounded, SeenIsCurrent, RetryHasAttemptLeft,
              AttemptUnspent, OwnedRowTaken, Waiting
<1>5. SeenIsCurrent'
  BY <1>0 DEF SeenIsCurrent, ExclusiveExecution, RetryLedger, Waiting, JobHeld
<1>6. AttemptUnspent'
  BY <1>0 DEF AttemptUnspent, TransfersBounded, ExclusiveExecution, OwnedRowTaken,
              Waiting, JobHeld
<1>7. RetryHasAttemptLeft'
  BY <1>0 DEF RetryHasAttemptLeft, SeenIsCurrent, ExclusiveExecution, JobHeld
<1> QED
  BY <1>1, <1>2, <1>3, <1>4, <1>5, <1>6, <1>7

LEMMA MarkProcessingQueueInv ==
  ASSUME QueueInv, NEW w \in Workers, MarkProcessing(w), TypeOK'
  PROVE  QueueInv'
<1> USE NoJobAssumption, MaxAttemptsAssumption DEF QueueInv, TypeOK, MarkProcessing, Owns
<1>0. job[w] \in Requests
  BY DEF JobHeld
<1>1. JobHeld' /\ RowsTogether'
  BY <1>0 DEF JobHeld, RowsTogether, OwnedRowTaken
<1>2. ExclusiveExecution'
  BY <1>0 DEF ExclusiveExecution, OwnedRowTaken, JobHeld
<1>3. OwnedRowTaken'
  BY <1>0 DEF OwnedRowTaken, ExclusiveExecution, JobHeld
<1>4. RetryLedger' /\ TransfersBounded'
  BY <1>0 DEF RetryLedger, TransfersBounded, SeenIsCurrent, RetryHasAttemptLeft,
              AttemptUnspent, OwnedRowTaken, Waiting
<1>5. SeenIsCurrent'
  BY <1>0 DEF SeenIsCurrent, ExclusiveExecution, RetryLedger, Waiting, JobHeld
<1>6. AttemptUnspent'
  BY <1>0 DEF AttemptUnspent, TransfersBounded, ExclusiveExecution, OwnedRowTaken,
              Waiting, JobHeld
<1>7. RetryHasAttemptLeft'
  BY <1>0 DEF RetryHasAttemptLeft, SeenIsCurrent, ExclusiveExecution, JobHeld
<1> QED
  BY <1>1, <1>2, <1>3, <1>4, <1>5, <1>6, <1>7

LEMMA TransferQueueInv ==
  ASSUME QueueInv, NEW w \in Workers, Broadcast(w) \/ BroadcastLost(w), TypeOK'
  PROVE  QueueInv'
<1> USE NoJobAssumption, MaxAttemptsAssumption DEF QueueInv, TypeOK, Broadcast, BroadcastLost, Transfer, Owns
<1>0. job[w] \in Requests
  BY DEF JobHeld
<1>1. JobHeld' /\ RowsTogether'
  BY <1>0 DEF JobHeld, RowsTogether, OwnedRowTaken
<1>2. ExclusiveExecution'
  BY <1>0 DEF ExclusiveExecution, OwnedRowTaken, JobHeld
<1>3. OwnedRowTaken'
  BY <1>0 DEF OwnedRowTaken, ExclusiveExecution, JobHeld
<1>4. RetryLedger' /\ TransfersBounded'
  BY <1>0 DEF RetryLedger, TransfersBounded, SeenIsCurrent, RetryHasAttemptLeft,
              AttemptUnspent, OwnedRowTaken, Waiting
<1>5. SeenIsCurrent'
  BY <1>0 DEF SeenIsCurrent, ExclusiveExecution, RetryLedger, Waiting, JobHeld
<1>6. AttemptUnspent'
  BY <1>0 DEF AttemptUnspent, TransfersBounded, ExclusiveExecution, OwnedRowTaken,
              Waiting, JobHeld
<1>7. RetryHasAttemptLeft'
  BY <1>0 DEF RetryHasAttemptLeft, SeenIsCurrent, ExclusiveExecution, JobHeld
<1> QED
  BY <1>1, <1>2, <1>3, <1>4, <1>5, <1>6, <1>7

LEMMA SaveResultQueueInv ==
  ASSUME QueueInv, NEW w \in Workers, SaveResult(w), TypeOK'
  PROVE  QueueInv'
<1> USE NoJobAssumption, MaxAttemptsAssumption DEF QueueInv, TypeOK, SaveResult, Owns
<1>0. job[w] \in Requests
  BY DEF JobHeld
<1>1. JobHeld' /\ RowsTogether'
  BY <1>0 DEF JobHeld, RowsTogether, OwnedRowTaken
<1>2. ExclusiveExecution'
  BY <1>0 DEF ExclusiveExecution, OwnedRowTaken, JobHeld
<1>3. OwnedRowTaken'
  BY <1>0 DEF OwnedRowTaken, ExclusiveExecution, JobHeld
<1>4. RetryLedger' /\ TransfersBounded'
  BY <1>0 DEF RetryLedger, TransfersBounded, SeenIsCurrent, RetryHasAttemptLeft,
              AttemptUnspent, OwnedRowTaken, Waiting
<1>5. SeenIsCurrent'
  BY <1>0 DEF SeenIsCurrent, ExclusiveExecution, RetryLedger, Waiting, JobHeld
<1>6. AttemptUnspent'
  BY <1>0 DEF AttemptUnspent, TransfersBounded, ExclusiveExecution, OwnedRowTaken,
              Waiting, JobHeld
<1>7. RetryHasAttemptLeft'
  BY <1>0 DEF RetryHasAttemptLeft, SeenIsCurrent, ExclusiveExecution, JobHeld
<1> QED
  BY <1>1, <1>2, <1>3, <1>4, <1>5, <1>6, <1>7

LEMMA MarkSucceededQueueInv ==
  ASSUME QueueInv, NEW w \in Workers, MarkSucceeded(w), TypeOK'
  PROVE  QueueInv'
<1> USE NoJobAssumption, MaxAttemptsAssumption DEF QueueInv, TypeOK, MarkSucceeded, Owns
<1>0. job[w] \in Requests
  BY DEF JobHeld
<1>1. JobHeld' /\ RowsTogether'
  BY <1>0 DEF JobHeld, RowsTogether, OwnedRowTaken
<1>2. ExclusiveExecution'
  BY <1>0 DEF ExclusiveExecution, OwnedRowTaken, JobHeld
<1>3. OwnedRowTaken'
  BY <1>0 DEF OwnedRowTaken, ExclusiveExecution, JobHeld
<1>4. RetryLedger' /\ TransfersBounded'
  BY <1>0 DEF RetryLedger, TransfersBounded, SeenIsCurrent, RetryHasAttemptLeft,
              AttemptUnspent, OwnedRowTaken, Waiting
<1>5. SeenIsCurrent'
  BY <1>0 DEF SeenIsCurrent, ExclusiveExecution, RetryLedger, Waiting, JobHeld
<1>6. AttemptUnspent'
  BY <1>0 DEF AttemptUnspent, TransfersBounded, ExclusiveExecution, OwnedRowTaken,
              Waiting, JobHeld
<1>7. RetryHasAttemptLeft'
  BY <1>0 DEF RetryHasAttemptLeft, SeenIsCurrent, ExclusiveExecution, JobHeld
<1> QED
  BY <1>1, <1>2, <1>3, <1>4, <1>5, <1>6, <1>7

LEMMA StoreFailedQueueInv ==
  ASSUME QueueInv, NEW w \in Workers, StoreFailed(w), TypeOK'
  PROVE  QueueInv'
<1> USE NoJobAssumption, MaxAttemptsAssumption DEF QueueInv, TypeOK, StoreFailed, Owns
<1>0. job[w] \in Requests
  BY DEF JobHeld
<1>1. JobHeld' /\ RowsTogether'
  BY <1>0 DEF JobHeld, RowsTogether, OwnedRowTaken
<1>2. ExclusiveExecution'
  BY <1>0 DEF ExclusiveExecution, OwnedRowTaken, JobHeld
<1>3. OwnedRowTaken'
  BY <1>0 DEF OwnedRowTaken, ExclusiveExecution, JobHeld
<1>4. RetryLedger' /\ TransfersBounded'
  BY <1>0 DEF RetryLedger, TransfersBounded, SeenIsCurrent, RetryHasAttemptLeft,
              AttemptUnspent, OwnedRowTaken, Waiting
<1>5. SeenIsCurrent'
  BY <1>0 DEF SeenIsCurrent, ExclusiveExecution, RetryLedger, Waiting, JobHeld
<1>6. AttemptUnspent'
  BY <1>0 DEF AttemptUnspent, TransfersBounded, ExclusiveExecution, OwnedRowTaken,
              Waiting, JobHeld
<1>7. RetryHasAttemptLeft'
  BY <1>0 DEF RetryHasAttemptLeft, SeenIsCurrent, ExclusiveExecution, JobHeld
<1> QED
  BY <1>1, <1>2, <1>3, <1>4, <1>5, <1>6, <1>7

LEMMA MarkDeadQueueInv ==
  ASSUME QueueInv, NEW w \in Workers, MarkDead(w), TypeOK'
  PROVE  QueueInv'
<1> USE NoJobAssumption, MaxAttemptsAssumption DEF QueueInv, TypeOK, MarkDead, Owns
<1>0. job[w] \in Requests
  BY DEF JobHeld
<1>1. JobHeld' /\ RowsTogether'
  BY <1>0 DEF JobHeld, RowsTogether, OwnedRowTaken
<1>2. ExclusiveExecution'
  BY <1>0 DEF ExclusiveExecution, OwnedRowTaken, JobHeld
<1>3. OwnedRowTaken'
  BY <1>0 DEF OwnedRowTaken, ExclusiveExecution, JobHeld
<1>4. RetryLedger' /\ TransfersBounded'
  BY <1>0 DEF RetryLedger, TransfersBounded, SeenIsCurrent, RetryHasAttemptLeft,
              AttemptUnspent, OwnedRowTaken, Waiting
<1>5. SeenIsCurrent'
  BY <1>0 DEF SeenIsCurrent, ExclusiveExecution, RetryLedger, Waiting, JobHeld
<1>6. AttemptUnspent'
  BY <1>0 DEF AttemptUnspent, TransfersBounded, ExclusiveExecution, OwnedRowTaken,
              Waiting, JobHeld
<1>7. RetryHasAttemptLeft'
  BY <1>0 DEF RetryHasAttemptLeft, SeenIsCurrent, ExclusiveExecution, JobHeld
<1> QED
  BY <1>1, <1>2, <1>3, <1>4, <1>5, <1>6, <1>7

LEMMA StoreRetryQueueInv ==
  ASSUME QueueInv, NEW w \in Workers, StoreRetry(w), TypeOK'
  PROVE  QueueInv'
<1> USE NoJobAssumption, MaxAttemptsAssumption DEF QueueInv, TypeOK, StoreRetry, Owns
<1>0. job[w] \in Requests
  BY DEF JobHeld
<1>1. JobHeld' /\ RowsTogether'
  BY <1>0 DEF JobHeld, RowsTogether, OwnedRowTaken
<1>2. ExclusiveExecution'
  BY <1>0 DEF ExclusiveExecution, OwnedRowTaken, JobHeld
<1>3. OwnedRowTaken'
  BY <1>0 DEF OwnedRowTaken, ExclusiveExecution, JobHeld
<1>4. RetryLedger' /\ TransfersBounded'
  BY <1>0 DEF RetryLedger, TransfersBounded, SeenIsCurrent, RetryHasAttemptLeft,
              AttemptUnspent, OwnedRowTaken, Waiting
<1>5. SeenIsCurrent'
  BY <1>0 DEF SeenIsCurrent, ExclusiveExecution, RetryLedger, Waiting, JobHeld
<1>6. AttemptUnspent'
  BY <1>0 DEF AttemptUnspent, TransfersBounded, ExclusiveExecution, OwnedRowTaken,
              Waiting, JobHeld
<1>7. RetryHasAttemptLeft'
  BY <1>0 DEF RetryHasAttemptLeft, SeenIsCurrent, ExclusiveExecution, JobHeld
<1> QED
  BY <1>1, <1>2, <1>3, <1>4, <1>5, <1>6, <1>7

LEMMA MarkRetryQueueInv ==
  ASSUME QueueInv, NEW w \in Workers, MarkRetry(w), TypeOK'
  PROVE  QueueInv'
<1> USE NoJobAssumption, MaxAttemptsAssumption DEF QueueInv, TypeOK, MarkRetry, Owns
<1>0. job[w] \in Requests
  BY DEF JobHeld
<1>1. JobHeld' /\ RowsTogether'
  BY <1>0 DEF JobHeld, RowsTogether, OwnedRowTaken
<1>2. ExclusiveExecution'
  BY <1>0 DEF ExclusiveExecution, OwnedRowTaken, JobHeld
<1>3. OwnedRowTaken'
  BY <1>0 DEF OwnedRowTaken, ExclusiveExecution, JobHeld
<1>4. RetryLedger' /\ TransfersBounded'
  BY <1>0 DEF RetryLedger, TransfersBounded, SeenIsCurrent, RetryHasAttemptLeft,
              AttemptUnspent, OwnedRowTaken, Waiting
<1>5. SeenIsCurrent'
  BY <1>0 DEF SeenIsCurrent, ExclusiveExecution, RetryLedger, Waiting, JobHeld
<1>6. AttemptUnspent'
  BY <1>0 DEF AttemptUnspent, TransfersBounded, ExclusiveExecution, OwnedRowTaken,
              Waiting, JobHeld
<1>7. RetryHasAttemptLeft'
  BY <1>0 DEF RetryHasAttemptLeft, SeenIsCurrent, ExclusiveExecution, JobHeld
<1> QED
  BY <1>1, <1>2, <1>3, <1>4, <1>5, <1>6, <1>7

-----------------------------------------------------------------------------
(* The invariant                                                           *)

LEMMA PollQueueInv ==
  ASSUME QueueInv, NEW w \in Workers,
         Poll(w) \/ Receipt(w) \/ PollFindsNothing(w) \/ DatabaseFails(w) \/ Crash(w)
  PROVE  QueueInv'
<1>0. TypeOK'
  BY PollStepType
<1>1. CASE AuditStarted(w) \/ AuditSssBroadcast(w) \/ StripSignedTx(w) \/ GiveUp(w)
  BY <1>0, <1>1, StepWithinAttempt
     DEF AuditStarted, AuditSssBroadcast, StripSignedTx, GiveUp, Attempting, ledgerVars
<1>2. CASE ExecutorRejects(w) \/ Confirm(w) \/ WaitFails(w)
  BY <1>0, <1>2, StepWithinAttempt
     DEF ExecutorRejects, Confirm, WaitFails, Attempting, ledgerVars
<1>3. CASE AuditResult(w)
  BY <1>0, <1>3, StepWithinAttempt, StepOutOfPoll DEF AuditResult, Attempting, ledgerVars
<1>4. CASE AuditKms(w) \/ AuditFailed(w) \/ AuditRetry(w) \/ Crash(w)
  BY <1>0, <1>4, StepOutOfPoll DEF AuditKms, AuditFailed, AuditRetry, Crash, ledgerVars
<1>5. CASE DatabaseFails(w)
  BY <1>0, <1>5, StepWithinAttempt, StepOutOfPoll DEF DatabaseFails, Attempting, ledgerVars
<1>6. CASE PollFindsNothing(w)
  BY <1>6, StutterQueueInv DEF PollFindsNothing
<1> QED
  BY <1>0, <1>1, <1>2, <1>3, <1>4, <1>5, <1>6, ReserveNextQueueInv, MarkRunningQueueInv,
     LoadRequestQueueInv, MarkProcessingQueueInv, TransferQueueInv, SaveResultQueueInv,
     MarkSucceededQueueInv, StoreFailedQueueInv, MarkDeadQueueInv, StoreRetryQueueInv, MarkRetryQueueInv
     DEF Poll, Receipt

LEMMA NextQueueInv == QueueInv /\ [Next]_vars => QueueInv'
<1> SUFFICES ASSUME QueueInv, [Next]_vars PROVE QueueInv'
  OBVIOUS
<1>1. CASE \E r \in Requests : Enqueue(r) \/ RetryDelayElapses(r)
  BY <1>1, RequestStepType, EnqueueQueueInv, RetryDelayQueueInv DEF QueueInv
<1>2. CASE \E w \in Workers :
             Poll(w) \/ Receipt(w) \/ PollFindsNothing(w) \/ DatabaseFails(w) \/ Crash(w)
  BY <1>2, PollQueueInv
<1>3. CASE UNCHANGED vars
  BY <1>3, StutterQueueInv
<1> QED
  BY <1>1, <1>2, <1>3 DEF Next

-----------------------------------------------------------------------------
(* Failed requests are not taken up                                        *)

LEMMA InitFailedRow == Init => FailedRowTaken
BY DEF Init, FailedRowTaken, Owns

\* Steps of a poll that leave the request's status and the queue row alone.
LEMMA QuietFailedRow ==
  ASSUME QueueInv, FailedRowTaken, NEW w \in Workers,
         \/ LoadRequest(w) \/ AuditStarted(w) \/ ExecutorRejects(w) \/ Broadcast(w)
         \/ BroadcastLost(w) \/ Confirm(w) \/ WaitFails(w) \/ StripSignedTx(w)
         \/ AuditSssBroadcast(w) \/ AuditResult(w) \/ AuditKms(w) \/ GiveUp(w)
         \/ AuditFailed(w) \/ StoreRetry(w) \/ AuditRetry(w) \/ DatabaseFails(w) \/ Crash(w)
  PROVE  FailedRowTaken'
<1> USE NoJobAssumption DEF QueueInv, TypeOK, JobHeld, FailedRowTaken, Owns
<1>1. CASE LoadRequest(w) \/ AuditStarted(w) \/ ExecutorRejects(w) \/ Broadcast(w)
  BY <1>1 DEF LoadRequest, AuditStarted, ExecutorRejects, Broadcast
<1>2. CASE BroadcastLost(w) \/ Confirm(w) \/ WaitFails(w) \/ StripSignedTx(w)
  BY <1>2 DEF BroadcastLost, Confirm, WaitFails, StripSignedTx
<1>3. CASE AuditSssBroadcast(w) \/ GiveUp(w) \/ StoreRetry(w)
  BY <1>3 DEF AuditSssBroadcast, GiveUp, StoreRetry
<1>4. CASE AuditResult(w) \/ AuditKms(w)
  BY <1>4 DEF AuditResult, AuditKms
<1>5. CASE AuditFailed(w) \/ AuditRetry(w) \/ Crash(w)
  BY <1>5 DEF AuditFailed, AuditRetry, Crash
<1>6. CASE DatabaseFails(w)
  BY <1>6 DEF DatabaseFails
<1> QED
  BY <1>1, <1>2, <1>3, <1>4, <1>5, <1>6

LEMMA WriteFailedRow ==
  ASSUME QueueInv, FailedRowTaken, NEW w \in Workers,
         \/ ReserveNext(w) \/ MarkRunning(w) \/ MarkProcessing(w) \/ SaveResult(w)
         \/ MarkSucceeded(w) \/ StoreFailed(w) \/ MarkDead(w) \/ MarkRetry(w)
  PROVE  FailedRowTaken'
<1> USE NoJobAssumption DEF QueueInv, TypeOK, JobHeld, FailedRowTaken, Waiting, Owns
<1>1. CASE ReserveNext(w)
  BY <1>1 DEF ReserveNext, Eligible
<1>2. CASE MarkRunning(w) \/ MarkSucceeded(w)
  BY <1>2 DEF MarkRunning, MarkSucceeded, ExclusiveExecution
<1>3. CASE MarkProcessing(w) \/ SaveResult(w)
  BY <1>3 DEF MarkProcessing, SaveResult, ExclusiveExecution
<1>4. CASE StoreFailed(w)
  BY <1>4 DEF StoreFailed, ExclusiveExecution, OwnedRowTaken
<1>5. CASE MarkDead(w) \/ MarkRetry(w)
  BY <1>5 DEF MarkDead, MarkRetry, ExclusiveExecution
<1> QED
  BY <1>1, <1>2, <1>3, <1>4, <1>5

LEMMA NextFailedRow == QueueInv /\ FailedRowTaken /\ [Next]_vars => FailedRowTaken'
<1> SUFFICES ASSUME QueueInv, FailedRowTaken, [Next]_vars PROVE FailedRowTaken'
  OBVIOUS
<1>1. CASE \E r \in Requests : Enqueue(r) \/ RetryDelayElapses(r)
  BY <1>1 DEF QueueInv, TypeOK, Enqueue, RetryDelayElapses, FailedRowTaken, Waiting,
              RowsTogether, OwnedRowTaken, JobHeld, Owns
<1>2. CASE \E w \in Workers : Poll(w) \/ Receipt(w) \/ DatabaseFails(w) \/ Crash(w)
  BY <1>2, QuietFailedRow, WriteFailedRow DEF Poll, Receipt
<1>3. CASE UNCHANGED vars
  BY <1>3 DEF vars, FailedRowTaken, Owns
<1> QED
  BY <1>1, <1>2, <1>3 DEF Next, PollFindsNothing

\* The inductive invariant holds of every behaviour.
THEOREM Invariance == Spec => []IInv
<1>1. Init => IInv
  BY InitQueueInv, InitFailedRow DEF IInv
<1>2. IInv /\ [Next]_vars => IInv'
  BY NextQueueInv, NextFailedRow DEF IInv
<1> QED
  BY <1>1, <1>2, PTL DEF Spec

\* Every variable keeps its type and every counter stays within the attempts.
THEOREM TypeCorrect == Spec => []TypeOK
<1>1. IInv => TypeOK
  BY DEF IInv, QueueInv
<1> QED
  BY Invariance, <1>1, PTL

\* However many processes poll, and whatever fails, no two of them work on
\* the same job at the same time.
THEOREM Exclusion == Spec => []ExclusiveExecution
<1>1. IInv => ExclusiveExecution
  BY DEF IInv, QueueInv
<1> QED
  BY Invariance, <1>1, PTL

\* The counts of failures on the two tables differ by at most one and agree
\* whenever the job may be picked up.
THEOREM LedgersAgree == Spec => []RetryLedger
<1>1. IInv => RetryLedger
  BY DEF IInv, QueueInv
<1> QED
  BY Invariance, <1>1, PTL

\* At most one transfer per attempt and at most MaxAttempts attempts.
THEOREM BoundedTransfers == Spec => []TransfersBounded
<1>1. IInv => TransfersBounded
  BY DEF IInv, QueueInv
<1> QED
  BY Invariance, <1>1, PTL

-----------------------------------------------------------------------------
(* FAILED is final                                                         *)

\* A job whose request is FAILED is past every step that writes a status or
\* transfers, and no worker can reserve it again.
LEMMA FailedStep ==
  ASSUME IInv, [Next]_vars, NEW r \in Requests, reqStatus[r] = "FAILED"
  PROVE  reqStatus'[r] = "FAILED" /\ transfers'[r] = transfers[r]
<1> USE DEF IInv, QueueInv, TypeOK
<1>1. ASSUME NEW w \in Workers, job[w] = r, Owns(w)
      PROVE  pc[w] \in {"kill", "auditFailed"}
  BY <1>1 DEF FailedRowTaken
<1>2. ASSUME NEW s \in Requests, Enqueue(s) \/ RetryDelayElapses(s)
      PROVE  reqStatus'[r] = "FAILED" /\ transfers'[r] = transfers[r]
  BY <1>2 DEF Enqueue, RetryDelayElapses
<1>3. ASSUME NEW w \in Workers, MarkProcessing(w) \/ SaveResult(w) \/ StoreFailed(w)
      PROVE  reqStatus'[r] = "FAILED" /\ transfers'[r] = transfers[r]
  BY <1>1, <1>3 DEF MarkProcessing, SaveResult, StoreFailed, Owns
<1>4. ASSUME NEW w \in Workers, Broadcast(w) \/ BroadcastLost(w)
      PROVE  reqStatus'[r] = "FAILED" /\ transfers'[r] = transfers[r]
  BY <1>1, <1>4 DEF Broadcast, BroadcastLost, Transfer, Owns
<1>5. ASSUME NEW w \in Workers,
             Poll(w) \/ Receipt(w) \/ PollFindsNothing(w) \/ DatabaseFails(w) \/ Crash(w)
      PROVE  reqStatus'[r] = "FAILED" /\ transfers'[r] = transfers[r]
  BY <1>3, <1>4, <1>5
     DEF Poll, Receipt, ReserveNext, MarkRunning, LoadRequest, AuditStarted,
         ExecutorRejects, Confirm, WaitFails, StripSignedTx, AuditSssBroadcast,
         MarkSucceeded, AuditResult, AuditKms, GiveUp, MarkDead, AuditFailed,
         StoreRetry, MarkRetry, AuditRetry, PollFindsNothing, DatabaseFails, Crash, vars
<1> QED
  BY <1>2, <1>5 DEF Next, vars

\* A request stored as FAILED is never taken up, paid or relabelled again.
THEOREM FailureIsFinal == Spec => FailedIsFinal
<1>1. IInv /\ [Next]_vars =>
        [\A r \in Requests : reqStatus[r] = "FAILED" =>
            reqStatus'[r] = "FAILED" /\ transfers'[r] = transfers[r]]_vars
  BY FailedStep
<1> QED
  BY Invariance, <1>1, PTL DEF Spec, FailedIsFinal

-----------------------------------------------------------------------------
(* II.  The outcome of a request                                           *)

-----------------------------------------------------------------------------
(* OutcomeKnown is inductive next to QueueInv                              *)

LEMMA InitOutcome == Init => OutcomeKnown
BY DEF Init, OutcomeKnown, Sent, Owns

\* Steps that write neither a status nor a count nor a transfer.
LEMMA QuietOutcome ==
  ASSUME QueueInv, OutcomeKnown, NEW w \in Workers,
         \/ LoadRequest(w) \/ AuditStarted(w) \/ ExecutorRejects(w) \/ Confirm(w)
         \/ WaitFails(w) \/ StripSignedTx(w) \/ AuditSssBroadcast(w) \/ AuditResult(w)
         \/ AuditKms(w) \/ GiveUp(w) \/ AuditFailed(w) \/ AuditRetry(w)
         \/ DatabaseFails(w) \/ Crash(w)
  PROVE  OutcomeKnown'
<1> USE NoJobAssumption DEF QueueInv, TypeOK, OutcomeKnown, Sent, Owns
<1>1. CASE LoadRequest(w) \/ AuditStarted(w)
  BY <1>1 DEF LoadRequest, AuditStarted
<1>2. CASE ExecutorRejects(w) \/ Confirm(w) \/ WaitFails(w)
  BY <1>2 DEF ExecutorRejects, Confirm, WaitFails
<1>3. CASE StripSignedTx(w) \/ AuditSssBroadcast(w) \/ GiveUp(w)
  BY <1>3 DEF StripSignedTx, AuditSssBroadcast, GiveUp
<1>4. CASE AuditResult(w) \/ AuditKms(w)
  BY <1>4 DEF AuditResult, AuditKms
<1>5. CASE AuditFailed(w) \/ AuditRetry(w) \/ Crash(w)
  BY <1>5 DEF AuditFailed, AuditRetry, Crash
<1>6. CASE DatabaseFails(w)
  BY <1>6 DEF DatabaseFails
<1> QED
  BY <1>1, <1>2, <1>3, <1>4, <1>5, <1>6

LEMMA WriteOutcome ==
  ASSUME QueueInv, OutcomeKnown, NEW w \in Workers,
         \/ ReserveNext(w) \/ MarkRunning(w) \/ MarkProcessing(w) \/ Broadcast(w)
         \/ BroadcastLost(w) \/ SaveResult(w) \/ MarkSucceeded(w) \/ StoreFailed(w)
         \/ MarkDead(w) \/ StoreRetry(w) \/ MarkRetry(w)
  PROVE  OutcomeKnown'
<1> USE NoJobAssumption, MaxAttemptsAssumption DEF QueueInv, TypeOK, OutcomeKnown, Sent, Owns
<1>0. pc[w] # "idle" => job[w] \in Requests
  BY DEF JobHeld
<1>1. CASE ReserveNext(w)
  BY <1>1 DEF ReserveNext, Eligible, OwnedRowTaken
<1>2. CASE MarkRunning(w) \/ MarkSucceeded(w)
  BY <1>0, <1>2 DEF MarkRunning, MarkSucceeded, ExclusiveExecution, JobHeld
<1>3. CASE MarkProcessing(w) \/ SaveResult(w)
  BY <1>0, <1>3 DEF MarkProcessing, SaveResult, ExclusiveExecution, JobHeld
<1>4. CASE Broadcast(w) \/ BroadcastLost(w)
  BY <1>0, <1>4 DEF Broadcast, BroadcastLost, Transfer, JobHeld
<1>5. CASE StoreFailed(w)
  <2>1. seen[w] + 1 = MaxAttempts
    <3>1. job[w] \in Requests /\ seen[w] = attemptCount[job[w]]
      BY <1>0, <1>5 DEF StoreFailed, SeenIsCurrent
    <3>2. attemptCount[job[w]] < MaxAttempts /\ seen[w] + 1 >= MaxAttempts
      BY <1>5, <3>1 DEF StoreFailed, TransfersBounded
    <3> QED
      BY <3>1, <3>2
  <2>2. /\ pc[w] = "fail" /\ pc' = [pc EXCEPT ![w] = "kill"]
        /\ reqStatus' = [reqStatus EXCEPT ![job[w]] = "FAILED"]
        /\ retryCount' = [retryCount EXCEPT ![job[w]] = MaxAttempts]
        /\ UNCHANGED <<qStatus, transfers, job, seen>>
    BY <1>5, <2>1 DEF StoreFailed
  <2> QED
    BY <1>0, <2>2 DEF ExclusiveExecution, JobHeld
<1>6. CASE MarkDead(w)
  BY <1>0, <1>6 DEF MarkDead, ExclusiveExecution, JobHeld
<1>7. CASE StoreRetry(w) \/ MarkRetry(w)
  BY <1>0, <1>7 DEF StoreRetry, MarkRetry, ExclusiveExecution, JobHeld
<1> QED
  BY <1>1, <1>2, <1>3, <1>4, <1>5, <1>6, <1>7

LEMMA NextOutcome == QueueInv /\ OutcomeKnown /\ [Next]_vars => OutcomeKnown'
<1> SUFFICES ASSUME QueueInv, OutcomeKnown, [Next]_vars PROVE OutcomeKnown'
  OBVIOUS
<1>1. CASE \E r \in Requests : Enqueue(r) \/ RetryDelayElapses(r)
  BY <1>1 DEF QueueInv, TypeOK, Enqueue, RetryDelayElapses, OutcomeKnown, Owns,
              RowsTogether, OwnedRowTaken, JobHeld
<1>2. CASE \E w \in Workers :
             Poll(w) \/ Receipt(w) \/ DatabaseFails(w) \/ Crash(w)
  BY <1>2, QuietOutcome, WriteOutcome DEF Poll, Receipt
<1>3. CASE UNCHANGED vars
  BY <1>3 DEF vars, OutcomeKnown, Owns
<1> QED
  BY <1>1, <1>2, <1>3 DEF Next, PollFindsNothing

LEMMA OutcomeInvariance == Spec => []OutcomeKnown
<1>1. []IInv /\ OutcomeKnown /\ [][Next]_vars => []OutcomeKnown
  BY NextOutcome, PTL DEF IInv
<1> QED
  BY Invariance, InitOutcome, <1>1, PTL DEF Spec

\* The invariant that the outcome of a request is read off from.
THEOREM StrongInvariance == Spec => []StrongInv
BY Invariance, OutcomeInvariance, PTL DEF StrongInv

\* An executed request, a succeeded job and a success notice all have a
\* transfer behind them.
THEOREM SuccessHasTransfer == Spec => []SuccessIsBacked
<1>1. Init => SuccessIsBacked
  BY DEF Init, SuccessIsBacked
<1>2. IInv /\ OutcomeKnown /\ SuccessIsBacked /\ [Next]_vars => SuccessIsBacked'
  <2> SUFFICES ASSUME IInv, OutcomeKnown, SuccessIsBacked, [Next]_vars
               PROVE  SuccessIsBacked'
    OBVIOUS
  <2> USE DEF IInv, QueueInv, TypeOK, JobHeld, SuccessIsBacked
  <2>1. CASE \E r \in Requests : Enqueue(r) \/ RetryDelayElapses(r)
    BY <2>1 DEF Enqueue, RetryDelayElapses
  <2>2. ASSUME NEW w \in Workers, Broadcast(w) \/ BroadcastLost(w)
        PROVE  SuccessIsBacked'
    BY <2>2 DEF Broadcast, BroadcastLost, Transfer
  <2>3. ASSUME NEW w \in Workers, SaveResult(w) \/ MarkSucceeded(w)
        PROVE  SuccessIsBacked'
    BY <2>3 DEF SaveResult, MarkSucceeded, OutcomeKnown, Sent
  <2>4. ASSUME NEW w \in Workers,
               \/ ReserveNext(w) \/ MarkRunning(w) \/ MarkProcessing(w)
               \/ GiveUp(w) \/ StoreFailed(w) \/ MarkDead(w) \/ MarkRetry(w)
        PROVE  SuccessIsBacked'
    BY <2>4 DEF ReserveNext, MarkRunning, MarkProcessing, GiveUp, StoreFailed,
                MarkDead, MarkRetry
  <2>5. ASSUME NEW w \in Workers,
               Poll(w) \/ Receipt(w) \/ PollFindsNothing(w) \/ DatabaseFails(w) \/ Crash(w)
        PROVE  SuccessIsBacked'
    BY <2>2, <2>3, <2>4, <2>5
       DEF Poll, Receipt, LoadRequest, AuditStarted, ExecutorRejects, Confirm,
           WaitFails, StripSignedTx, AuditSssBroadcast, AuditResult, AuditKms,
           AuditFailed, StoreRetry, AuditRetry, PollFindsNothing, DatabaseFails,
           Crash, vars
  <2> QED
    BY <2>1, <2>5 DEF Next, vars
<1> QED
  BY Invariance, OutcomeInvariance, <1>1, <1>2, PTL DEF Spec

\* A client-signed transaction is dropped only once it is out.
THEOREM SignedTransactionSafe == Spec => []SignedTransactionKept
<1>1. Init => SignedTransactionKept
  BY DEF Init, SignedTransactionKept
<1>2. IInv /\ OutcomeKnown /\ SignedTransactionKept /\ [Next]_vars => SignedTransactionKept'
  <2> SUFFICES ASSUME IInv, OutcomeKnown, SignedTransactionKept, [Next]_vars
               PROVE  SignedTransactionKept'
    OBVIOUS
  <2> USE DEF IInv, QueueInv, TypeOK, JobHeld, SignedTransactionKept
  <2>1. ASSUME NEW r \in Requests, Enqueue(r) \/ RetryDelayElapses(r)
        PROVE  SignedTransactionKept'
    <3>1. CASE Enqueue(r)
      <4>1. walletType[r] = "SSS" => signedTx'[r]
        BY <3>1 DEF Enqueue
      <4>2. /\ transfers' = transfers
            /\ \A q \in Requests : q # r =>
                    reqStatus'[q] = reqStatus[q] /\ signedTx'[q] = signedTx[q]
        BY <3>1 DEF Enqueue
      <4> QED
        BY <4>1, <4>2
    <3>2. CASE RetryDelayElapses(r)
      BY <3>2 DEF RetryDelayElapses
    <3> QED
      BY <2>1, <3>1, <3>2
  <2>2. ASSUME NEW w \in Workers, Broadcast(w) \/ BroadcastLost(w)
        PROVE  SignedTransactionKept'
    BY <2>2 DEF Broadcast, BroadcastLost, Transfer
  <2>3. ASSUME NEW w \in Workers, StripSignedTx(w)
        PROVE  SignedTransactionKept'
    BY <2>3 DEF StripSignedTx, OutcomeKnown, Sent
  <2>4. ASSUME NEW w \in Workers, MarkProcessing(w) \/ SaveResult(w) \/ StoreFailed(w)
        PROVE  SignedTransactionKept'
    BY <2>4 DEF MarkProcessing, SaveResult, StoreFailed, RowsTogether, OwnedRowTaken, Owns
  <2>5. ASSUME NEW w \in Workers,
               Poll(w) \/ Receipt(w) \/ PollFindsNothing(w) \/ DatabaseFails(w) \/ Crash(w)
        PROVE  SignedTransactionKept'
    BY <2>2, <2>3, <2>4, <2>5
       DEF Poll, Receipt, ReserveNext, MarkRunning, LoadRequest, AuditStarted,
           ExecutorRejects, Confirm, WaitFails, AuditSssBroadcast, MarkSucceeded,
           AuditResult, AuditKms, GiveUp, MarkDead, AuditFailed, StoreRetry,
           MarkRetry, AuditRetry, PollFindsNothing, DatabaseFails, Crash, vars
  <2> QED
    BY <2>1, <2>5 DEF Next, vars
<1> QED
  BY Invariance, OutcomeInvariance, <1>1, <1>2, PTL DEF Spec

\* A dead job belongs to a failed request that used all its attempts.
THEOREM DeadJobsFailed == Spec => []DeadMeansFailed
<1>1. Init => DeadMeansFailed
  BY DEF Init, DeadMeansFailed
<1>2. IInv /\ OutcomeKnown /\ DeadMeansFailed /\ [Next]_vars => DeadMeansFailed'
  <2> SUFFICES ASSUME IInv, OutcomeKnown, DeadMeansFailed, [Next]_vars
               PROVE  DeadMeansFailed'
    OBVIOUS
  <2> USE DEF IInv, QueueInv, TypeOK, JobHeld, DeadMeansFailed
  <2>1. CASE \E r \in Requests : Enqueue(r) \/ RetryDelayElapses(r)
    BY <2>1 DEF Enqueue, RetryDelayElapses, RowsTogether
  <2>2. ASSUME NEW w \in Workers, MarkDead(w)
        PROVE  DeadMeansFailed'
    BY <2>2 DEF MarkDead, OutcomeKnown
  <2>3. ASSUME NEW w \in Workers,
               \/ MarkProcessing(w) \/ SaveResult(w) \/ StoreFailed(w) \/ StoreRetry(w)
        PROVE  DeadMeansFailed'
    BY <2>3 DEF MarkProcessing, SaveResult, StoreFailed, StoreRetry, OutcomeKnown, Owns
  <2>4. ASSUME NEW w \in Workers,
               \/ ReserveNext(w) \/ MarkRunning(w) \/ MarkSucceeded(w) \/ MarkRetry(w)
        PROVE  DeadMeansFailed'
    BY <2>4 DEF ReserveNext, MarkRunning, MarkSucceeded, MarkRetry
  <2>5. ASSUME NEW w \in Workers,
               Poll(w) \/ Receipt(w) \/ PollFindsNothing(w) \/ DatabaseFails(w) \/ Crash(w)
        PROVE  DeadMeansFailed'
    BY <2>2, <2>3, <2>4, <2>5
       DEF Poll, Receipt, LoadRequest, AuditStarted, ExecutorRejects, Broadcast,
           BroadcastLost, Confirm, WaitFails, StripSignedTx, AuditSssBroadcast,
           AuditResult, AuditKms, GiveUp, AuditFailed, AuditRetry,
           PollFindsNothing, DatabaseFails, Crash, vars
  <2> QED
    BY <2>1, <2>5 DEF Next, vars
<1> QED
  BY Invariance, OutcomeInvariance, <1>1, <1>2, PTL DEF Spec

-----------------------------------------------------------------------------
(* Refinement: without lost answers and failed writes the workers keep the *)
(* client's promises, however processes die and transfers are refused.     *)

LossFree == Faults \subseteq {"reject", "crash"}

LEMMA InitLossFree == Init => LossFreeInv
BY DEF Init, LossFreeInv, Waiting, Sent

LEMMA QuietLossFree ==
  ASSUME LossFree, QueueInv, LossFreeInv, NEW w \in Workers,
         \/ LoadRequest(w) \/ AuditStarted(w) \/ ExecutorRejects(w) \/ Confirm(w)
         \/ WaitFails(w) \/ StripSignedTx(w) \/ AuditSssBroadcast(w) \/ AuditResult(w)
         \/ AuditKms(w) \/ GiveUp(w) \/ AuditFailed(w) \/ AuditRetry(w)
         \/ StoreRetry(w) \/ DatabaseFails(w) \/ Crash(w)
  PROVE  LossFreeInv'
<1> USE DEF LossFree, QueueInv, TypeOK, JobHeld, LossFreeInv, Waiting, Sent
<1>1. CASE LoadRequest(w) \/ AuditStarted(w) \/ StoreRetry(w)
  BY <1>1 DEF LoadRequest, AuditStarted, StoreRetry
<1>2. CASE ExecutorRejects(w) \/ Confirm(w) \/ WaitFails(w)
  BY <1>2 DEF ExecutorRejects, Confirm, WaitFails
<1>3. CASE StripSignedTx(w) \/ AuditSssBroadcast(w) \/ GiveUp(w)
  BY <1>3 DEF StripSignedTx, AuditSssBroadcast, GiveUp
<1>4. CASE AuditResult(w) \/ AuditKms(w)
  BY <1>4 DEF AuditResult, AuditKms
<1>5. CASE AuditFailed(w) \/ AuditRetry(w) \/ Crash(w)
  BY <1>5 DEF AuditFailed, AuditRetry, Crash
<1>6. CASE DatabaseFails(w)
  BY <1>6 DEF DatabaseFails
<1> QED
  BY <1>1, <1>2, <1>3, <1>4, <1>5, <1>6

LEMMA WriteLossFree ==
  ASSUME LossFree, QueueInv, LossFreeInv, NEW w \in Workers,
         \/ ReserveNext(w) \/ MarkRunning(w) \/ MarkProcessing(w) \/ Broadcast(w)
         \/ BroadcastLost(w) \/ SaveResult(w) \/ MarkSucceeded(w) \/ StoreFailed(w)
         \/ MarkDead(w) \/ MarkRetry(w)
  PROVE  LossFreeInv'
<1> USE DEF LossFree, QueueInv, TypeOK, JobHeld, LossFreeInv, Waiting, Sent
<1>1. CASE ReserveNext(w)
  BY <1>1 DEF ReserveNext, Eligible, OwnedRowTaken, RowsTogether, Owns
<1>2. CASE MarkRunning(w)
  BY <1>2 DEF MarkRunning, ExclusiveExecution, Owns
<1>3. CASE MarkProcessing(w)
  BY <1>3 DEF MarkProcessing, ExclusiveExecution, OwnedRowTaken, Owns
<1>4. CASE Broadcast(w) \/ BroadcastLost(w)
  BY <1>4 DEF Broadcast, BroadcastLost, Transfer, ExclusiveExecution, OwnedRowTaken, Owns
<1>5. CASE SaveResult(w)
  BY <1>5 DEF SaveResult, ExclusiveExecution, OwnedRowTaken, Owns
<1>6. CASE StoreFailed(w)
  BY <1>6 DEF StoreFailed, ExclusiveExecution, OwnedRowTaken, Owns
<1>7. CASE MarkSucceeded(w) \/ MarkDead(w) \/ MarkRetry(w)
  BY <1>7 DEF MarkSucceeded, MarkDead, MarkRetry, ExclusiveExecution, OwnedRowTaken, Owns
<1> QED
  BY <1>1, <1>2, <1>3, <1>4, <1>5, <1>6, <1>7

LEMMA NextLossFree ==
  LossFree /\ QueueInv /\ LossFreeInv /\ [Next]_vars => LossFreeInv'
<1> SUFFICES ASSUME LossFree, QueueInv, LossFreeInv, [Next]_vars PROVE LossFreeInv'
  OBVIOUS
<1>1. CASE \E r \in Requests : Enqueue(r) \/ RetryDelayElapses(r)
  BY <1>1 DEF QueueInv, TypeOK, Enqueue, RetryDelayElapses, LossFreeInv, Waiting, Sent,
              RowsTogether, OwnedRowTaken, JobHeld, Owns
<1>2. CASE \E w \in Workers :
             Poll(w) \/ Receipt(w) \/ DatabaseFails(w) \/ Crash(w)
  BY <1>2, QuietLossFree, WriteLossFree DEF Poll, Receipt
<1>3. CASE UNCHANGED vars
  BY <1>3 DEF vars, LossFreeInv, Waiting, Sent
<1> QED
  BY <1>1, <1>2, <1>3 DEF Next, PollFindsNothing

LEMMA LossFreeInvariance == LossFree => (Spec => []LossFreeInv)
<1> SUFFICES ASSUME LossFree PROVE Spec => []LossFreeInv
  OBVIOUS
<1>1. IInv /\ LossFreeInv /\ [Next]_vars => LossFreeInv'
  BY NextLossFree DEF IInv
<1> QED
  BY Invariance, InitLossFree, <1>1, PTL DEF Spec

\* Nobody is paid twice, whichever polls and crashes interleave.
THEOREM PaidOnce == LossFree => (Spec => []AtMostOneTransfer)
<1> SUFFICES ASSUME LossFree PROVE Spec => []AtMostOneTransfer
  OBVIOUS
<1>1. LossFreeInv => AtMostOneTransfer
  BY DEF LossFreeInv, AtMostOneTransfer
<1> QED
  BY LossFreeInvariance, <1>1, PTL

\* Steps of a poll, of the clock and of faults that the lifecycle does not see.
LEMMA HiddenSteps ==
  ASSUME LossFree, QueueInv, LossFreeInv, NEW w \in Workers,
         \/ ReserveNext(w) \/ MarkRunning(w) \/ LoadRequest(w) \/ AuditStarted(w)
         \/ ExecutorRejects(w) \/ StripSignedTx(w) \/ AuditSssBroadcast(w)
         \/ MarkSucceeded(w) \/ AuditResult(w) \/ AuditKms(w) \/ GiveUp(w)
         \/ MarkDead(w) \/ AuditFailed(w) \/ StoreRetry(w) \/ MarkRetry(w)
         \/ AuditRetry(w) \/ Confirm(w) \/ WaitFails(w) \/ PollFindsNothing(w)
         \/ DatabaseFails(w) \/ Crash(w)
  PROVE  UNCHANGED <<reqStatus, transfers>>
BY DEF ReserveNext, MarkRunning, LoadRequest, AuditStarted, ExecutorRejects,
       StripSignedTx, AuditSssBroadcast, MarkSucceeded, AuditResult, AuditKms,
       GiveUp, MarkDead, AuditFailed, StoreRetry, MarkRetry, AuditRetry, Confirm,
       WaitFails, PollFindsNothing, DatabaseFails, Crash, vars

\* Every step of the workers is a step of the lifecycle or hidden from it.
LEMMA StepRefinement ==
  LossFree /\ QueueInv /\ LossFreeInv /\ [Next]_vars => [Lifecycle!Next]_(Lifecycle!vars)
<1> SUFFICES ASSUME LossFree, QueueInv, LossFreeInv, [Next]_vars
             PROVE  [Lifecycle!Next]_(Lifecycle!vars)
  OBVIOUS
<1> USE DEF Lifecycle!vars, Lifecycle!Next, Lifecycle!Move
<1>0. ASSUME NEW w \in Workers, pc[w] # "idle" PROVE job[w] \in Requests
  BY <1>0 DEF QueueInv, TypeOK, JobHeld
<1>1. ASSUME NEW r \in Requests, Enqueue(r) PROVE Lifecycle!Accept(r)
  BY <1>1 DEF Enqueue, Lifecycle!Accept
<1>2. ASSUME NEW w \in Workers, MarkProcessing(w)
      PROVE  Lifecycle!Start(job[w]) \/ UNCHANGED <<reqStatus, transfers>>
  <2>1. reqStatus[job[w]] \in {"QUEUED", "PROCESSING"}
    BY <1>2 DEF MarkProcessing, LossFreeInv
  <2> QED
    BY <1>0, <1>2, <2>1 DEF MarkProcessing, Lifecycle!Start, QueueInv, TypeOK
<1>3. ASSUME NEW w \in Workers, Broadcast(w) \/ BroadcastLost(w)
      PROVE  Lifecycle!Pay(job[w])
  <2>1. Broadcast(w)
    BY <1>3 DEF BroadcastLost, LossFree
  <2>2. reqStatus[job[w]] = "PROCESSING" /\ transfers[job[w]] = 0
    BY <2>1 DEF Broadcast, LossFreeInv
  <2> QED
    BY <1>0, <2>1, <2>2 DEF Broadcast, Transfer, Lifecycle!Pay, QueueInv, TypeOK
<1>4. ASSUME NEW w \in Workers, SaveResult(w)
      PROVE  Lifecycle!Execute(job[w]) \/ UNCHANGED <<reqStatus, transfers>>
  <2>1. reqStatus[job[w]] = "PROCESSING" /\ transfers[job[w]] = 1
    BY <1>4 DEF SaveResult, LossFreeInv, Sent
  <2> QED
    BY <1>0, <1>4, <2>1 DEF SaveResult, Lifecycle!Execute, QueueInv, TypeOK
<1>5. ASSUME NEW w \in Workers, StoreFailed(w) PROVE Lifecycle!Fail(job[w])
  <2>1. reqStatus[job[w]] = "PROCESSING" /\ transfers[job[w]] = 0
    BY <1>5 DEF StoreFailed, LossFreeInv
  <2> QED
    BY <1>0, <1>5, <2>1 DEF StoreFailed, Lifecycle!Fail
<1>6. ASSUME NEW r \in Requests, RetryDelayElapses(r)
      PROVE  UNCHANGED <<reqStatus, transfers>>
  BY <1>6 DEF RetryDelayElapses
<1>7. ASSUME NEW w \in Workers,
             Poll(w) \/ Receipt(w) \/ PollFindsNothing(w) \/ DatabaseFails(w) \/ Crash(w)
      PROVE  [Lifecycle!Next]_(Lifecycle!vars)
  <2>1. pc[w] # "idle" => job[w] \in Requests
    BY <1>0
  <2>2. CASE MarkProcessing(w) \/ Broadcast(w) \/ BroadcastLost(w)
             \/ SaveResult(w) \/ StoreFailed(w)
    <3>1. job[w] \in Requests
      BY <2>1, <2>2
         DEF MarkProcessing, Broadcast, BroadcastLost, SaveResult, StoreFailed
    <3> QED
      BY <1>2, <1>3, <1>4, <1>5, <2>2, <3>1
  <2>3. CASE UNCHANGED <<reqStatus, transfers>>
    BY <2>3
  <2> QED
    BY <1>7, <2>2, <2>3, HiddenSteps DEF Poll, Receipt
<1> QED
  BY <1>1, <1>6, <1>7 DEF Next, vars

\* Refinement: the queue and its workers implement WithdrawalLifecycle.
THEOREM Refinement == LossFree => (Spec => ImplementsLifecycle)
<1> SUFFICES ASSUME LossFree PROVE Spec => ImplementsLifecycle
  OBVIOUS
<1>1. Init => Lifecycle!Init
  BY DEF Init, Lifecycle!Init
<1>2. IInv /\ LossFreeInv /\ [Next]_vars => [Lifecycle!Next]_(Lifecycle!vars)
  BY StepRefinement DEF IInv
<1> QED
  BY Invariance, LossFreeInvariance, <1>1, <1>2, PTL
     DEF Spec, ImplementsLifecycle, Lifecycle!Spec

-----------------------------------------------------------------------------
(* What is told and stored of an outcome, in the same runs                 *)

\* Who has been told of a failure, or has a succeeded row, has no poll left that
\* could pay or write another status.
OutcomeIsKept ==
    /\ \A r \in Requests : notified[r] = "FAILED" => qStatus[r] \notin Waiting
    /\ \A w \in Workers :
        Owns(w) =>
            /\ notified[job[w]] = "FAILED" => pc[w] \in {"fail", "kill", "auditFailed"}
            /\ qStatus[job[w]] = "SUCCEEDED" => pc[w] \in {"audit", "auditKms"}
            /\ pc[w] = "succeed" => \/ reqStatus[job[w]] = "EXECUTED"
                                    \/ reqStatus[job[w]] = "PROCESSING" /\ external[job[w]]

TruthInv == OutcomeIsKept /\ FailureIsUnpaid /\ SucceededRowMatches

LEMMA InitTruth == Init => TruthInv
BY DEF Init, TruthInv, OutcomeIsKept, FailureIsUnpaid, SucceededRowMatches, Owns

\* Steps that write no status, notice or transfer.
LEMMA QuietTruth ==
  ASSUME LossFree, IInv, LossFreeInv, TruthInv, NEW w \in Workers,
         \/ LoadRequest(w) \/ AuditStarted(w) \/ ExecutorRejects(w) \/ Confirm(w)
         \/ WaitFails(w) \/ StripSignedTx(w) \/ AuditSssBroadcast(w) \/ AuditResult(w)
         \/ AuditKms(w) \/ AuditFailed(w) \/ AuditRetry(w)
         \/ StoreRetry(w) \/ DatabaseFails(w) \/ Crash(w)
  PROVE  TruthInv'
<1> USE DEF LossFree, IInv, QueueInv, TypeOK, JobHeld, TruthInv, OutcomeIsKept, Owns
<1>0. /\ UNCHANGED <<reqStatus, external, qStatus, transfers, notified>>
      /\ \A v \in Workers \ {w} : pc'[v] = pc[v] /\ job'[v] = job[v]
      /\ \/ job'[w] = job[w] /\ pc[w] # "idle"
         \/ pc'[w] = "idle"
  BY DEF LoadRequest, AuditStarted, ExecutorRejects, Confirm, WaitFails, StripSignedTx,
         AuditSssBroadcast, AuditResult, AuditKms, AuditFailed, AuditRetry, StoreRetry,
         DatabaseFails, Crash
<1>1. pc'[w] \notin {"idle", "auditRetry"} =>
        /\ notified[job[w]] = "FAILED" => pc'[w] \in {"fail", "kill", "auditFailed"}
        /\ qStatus[job[w]] = "SUCCEEDED" => pc'[w] \in {"audit", "auditKms"}
        /\ pc'[w] # "succeed"
  <2>1. CASE LoadRequest(w) \/ AuditStarted(w) \/ StoreRetry(w)
    BY <2>1 DEF LoadRequest, AuditStarted, StoreRetry
  <2>2. CASE ExecutorRejects(w) \/ Confirm(w) \/ WaitFails(w)
    BY <2>2 DEF ExecutorRejects, Confirm, WaitFails
  <2>3. CASE StripSignedTx(w) \/ AuditSssBroadcast(w) \/ AuditResult(w)
    BY <2>3 DEF StripSignedTx, AuditSssBroadcast, AuditResult
  <2>4. CASE AuditKms(w) \/ AuditFailed(w) \/ AuditRetry(w) \/ Crash(w) \/ DatabaseFails(w)
    BY <2>4 DEF AuditKms, AuditFailed, AuditRetry, Crash, DatabaseFails
  <2> QED
    BY <2>1, <2>2, <2>3, <2>4
<1>2. OutcomeIsKept'
  BY <1>0, <1>1
<1>3. FailureIsUnpaid' /\ SucceededRowMatches'
  BY <1>0 DEF FailureIsUnpaid, SucceededRowMatches
<1> QED
  BY <1>2, <1>3

\* A result is EXECUTED, or a submission the provider has yet to decide.
LEMMA ResultSaved ==
  ASSUME TypeOK, NEW w \in Workers, job[w] \in Requests, SaveResult(w)
  PROVE  \/ reqStatus'[job[w]] = "EXECUTED"
         \/ reqStatus'[job[w]] = "PROCESSING" /\ external'[job[w]]
<1>1. reqStatus'[job[w]] = IF OnChain(job[w]) THEN "EXECUTED" ELSE "PROCESSING"
  BY DEF SaveResult, TypeOK
<1>2. external'[job[w]] = ~OnChain(job[w])
  BY Zenon DEF SaveResult, TypeOK
<1> QED
  BY <1>1, <1>2

LEMMA WriteTruth ==
  ASSUME LossFree, IInv, LossFreeInv, TruthInv, NEW w \in Workers,
         \/ ReserveNext(w) \/ MarkRunning(w) \/ MarkProcessing(w) \/ Broadcast(w)
         \/ BroadcastLost(w) \/ SaveResult(w) \/ MarkSucceeded(w) \/ GiveUp(w)
         \/ StoreFailed(w) \/ MarkDead(w) \/ MarkRetry(w)
  PROVE  TruthInv'
<1> USE NoJobAssumption DEF LossFree, IInv, QueueInv, TypeOK, JobHeld, TruthInv, OutcomeIsKept,
        FailureIsUnpaid, SucceededRowMatches, Owns
<1>0. pc[w] # "idle" => job[w] \in Requests
  OBVIOUS
<1>1. CASE ReserveNext(w)
  BY <1>1 DEF ReserveNext, Eligible, Waiting, OwnedRowTaken
<1>2. CASE MarkRunning(w)
  BY <1>0, <1>2 DEF MarkRunning, ExclusiveExecution, Waiting
<1>3. CASE MarkProcessing(w)
  BY <1>0, <1>3 DEF MarkProcessing, ExclusiveExecution, FailedRowTaken
<1>4. CASE Broadcast(w) \/ BroadcastLost(w)
  <2>1. Broadcast(w) /\ reqStatus[job[w]] = "PROCESSING" /\ notified[job[w]] # "FAILED"
    BY <1>4 DEF Broadcast, BroadcastLost, LossFreeInv
  <2> QED
    BY <1>0, <2>1 DEF Broadcast, Transfer
<1>5. CASE SaveResult(w)
  <2>1. /\ pc[w] = "save" /\ pc' = [pc EXCEPT ![w] = "succeed"] /\ job[w] \in Requests
        /\ UNCHANGED <<job, qStatus, transfers, notified>>
    BY <1>0, <1>5 DEF SaveResult
  <2>2. \A r \in Requests \ {job[w]} : reqStatus'[r] = reqStatus[r] /\ external'[r] = external[r]
    BY <1>5 DEF SaveResult
  <2>3. \/ reqStatus'[job[w]] = "EXECUTED"
        \/ reqStatus'[job[w]] = "PROCESSING" /\ external'[job[w]]
    BY <2>1, <1>5, ResultSaved
  <2>4. qStatus[job[w]] # "SUCCEEDED" /\ notified[job[w]] # "FAILED"
    BY <2>1
  <2>5. \A v \in Workers : v # w /\ Owns(v) => job[v] # job[w]
    BY <2>1 DEF ExclusiveExecution
  <2>6. OutcomeIsKept'
    BY <2>1, <2>2, <2>3, <2>4, <2>5
  <2>7. FailureIsUnpaid' /\ SucceededRowMatches'
    BY <2>1, <2>2, <2>3, <2>4
  <2> QED
    BY <2>6, <2>7
<1>6. CASE MarkSucceeded(w)
  BY <1>0, <1>6 DEF MarkSucceeded, ExclusiveExecution, Waiting
<1>7. CASE GiveUp(w)
  BY <1>0, <1>7 DEF GiveUp, ExclusiveExecution, OwnedRowTaken, LossFreeInv, Waiting
<1>8. CASE StoreFailed(w)
  BY <1>0, <1>8 DEF StoreFailed, ExclusiveExecution, LossFreeInv
<1>9. CASE MarkDead(w) \/ MarkRetry(w)
  BY <1>0, <1>9 DEF MarkDead, MarkRetry, ExclusiveExecution, Waiting
<1> QED
  BY <1>1, <1>2, <1>3, <1>4, <1>5, <1>6, <1>7, <1>8, <1>9

LEMMA NextTruth ==
  LossFree /\ IInv /\ LossFreeInv /\ TruthInv /\ [Next]_vars => TruthInv'
<1> SUFFICES ASSUME LossFree, IInv, LossFreeInv, TruthInv, [Next]_vars PROVE TruthInv'
  OBVIOUS
<1>1. CASE \E r \in Requests : Enqueue(r) \/ RetryDelayElapses(r)
  BY <1>1 DEF IInv, QueueInv, TypeOK, Enqueue, RetryDelayElapses, TruthInv, OutcomeIsKept,
              FailureIsUnpaid, SucceededRowMatches, Waiting, RowsTogether, OwnedRowTaken,
              JobHeld, Owns
<1>2. CASE \E w \in Workers :
             Poll(w) \/ Receipt(w) \/ DatabaseFails(w) \/ Crash(w)
  BY <1>2, QuietTruth, WriteTruth DEF Poll, Receipt
<1>3. CASE UNCHANGED vars
  BY <1>3 DEF vars, TruthInv, OutcomeIsKept, FailureIsUnpaid, SucceededRowMatches, Owns
<1> QED
  BY <1>1, <1>2, <1>3 DEF Next, PollFindsNothing

LEMMA TruthInvariance == LossFree => (Spec => []TruthInv)
<1> SUFFICES ASSUME LossFree PROVE Spec => []TruthInv
  OBVIOUS
<1>1. IInv /\ LossFreeInv /\ TruthInv /\ [Next]_vars => TruthInv'
  BY NextTruth
<1> QED
  BY Invariance, LossFreeInvariance, InitTruth, <1>1, PTL DEF Spec

\* Whoever is told, or stored as, FAILED has moved no funds: the catch block of
\* the worker gives a request up only when nothing of it is out.
THEOREM FailuresUnpaid == LossFree => (Spec => []FailureIsUnpaid)
<1> SUFFICES ASSUME LossFree PROVE Spec => []FailureIsUnpaid
  OBVIOUS
<1>1. TruthInv => FailureIsUnpaid
  BY DEF TruthInv
<1> QED
  BY TruthInvariance, <1>1, PTL

\* Queue row and request agree about a success, though the worker writes one
\* after the other: it is executed, or settlement knows of its submission.
THEOREM SuccessesMatch == LossFree => (Spec => []SucceededRowMatches)
<1> SUFFICES ASSUME LossFree PROVE Spec => []SucceededRowMatches
  OBVIOUS
<1>1. TruthInv => SucceededRowMatches
  BY DEF TruthInv
<1> QED
  BY TruthInvariance, <1>1, PTL

-----------------------------------------------------------------------------
(* III.  Worker and settlement                                             *)

CInv == QueueInv /\ LossFreeInv /\ SettlementInv

LEMMA InitCInv == SettlementInit => CInv
<1> SUFFICES ASSUME SettlementInit PROVE CInv
  OBVIOUS
<1>1. QueueInv /\ LossFreeInv
  BY InitQueueInv, InitLossFree DEF SettlementInit
<1>2. SettlementTypeOK
  BY DEF SettlementInit, SettlementTypeOK, DfnsTransferStatus
<1>3. SubmittedIsLeftAlone /\ BatchIsSubmitted
  BY DEF SettlementInit, Init, SubmittedIsLeftAlone, BatchIsSubmitted
<1>4. StatusIsDecided /\ ReportsFollowStatus
  BY MaxAttemptsAssumption
     DEF SettlementInit, Init, StatusIsDecided, ReportsFollowStatus, Decides
<1> QED
  BY <1>1, <1>2, <1>3, <1>4 DEF CInv, SettlementInv

-----------------------------------------------------------------------------
(* Settlement leaves what the workers rely on alone                        *)

LEMMA SettlementKeepsQueueInv ==
  ASSUME QueueInv, NEW s \in Settlers, NEW r \in Requests, reqStatus[r] # "NONE",
         StoreOutcome(s, r) \/ ReportOutcome(s, r)
  PROVE  QueueInv'
<1> USE DEF QueueInv, TypeOK
<1>0. SettledStatus(answer[s]) \in {"EXECUTED", "FAILED"}
  BY DEF SettledStatus
<1>1. CASE StoreOutcome(s, r)
  <2> USE <1>1 DEF StoreOutcome
  <2>1. TypeOK' /\ RowsTogether'
    BY <1>0 DEF RowsTogether, RequestStatuses
  <2>2. JobHeld' /\ ExclusiveExecution' /\ OwnedRowTaken' /\ RetryLedger' /\ SeenIsCurrent'
    BY DEF JobHeld, ExclusiveExecution, OwnedRowTaken, RetryLedger, SeenIsCurrent, Owns
  <2>3. TransfersBounded' /\ AttemptUnspent' /\ RetryHasAttemptLeft'
    BY DEF TransfersBounded, AttemptUnspent, RetryHasAttemptLeft
  <2> QED
    BY <2>1, <2>2, <2>3
<1>2. CASE ReportOutcome(s, r)
  <2> USE <1>2 DEF ReportOutcome
  <2>1. TypeOK' /\ RowsTogether'
    BY <1>0 DEF RowsTogether
  <2>2. JobHeld' /\ ExclusiveExecution' /\ OwnedRowTaken' /\ RetryLedger' /\ SeenIsCurrent'
    BY DEF JobHeld, ExclusiveExecution, OwnedRowTaken, RetryLedger, SeenIsCurrent, Owns
  <2>3. TransfersBounded' /\ AttemptUnspent' /\ RetryHasAttemptLeft'
    BY DEF TransfersBounded, AttemptUnspent, RetryHasAttemptLeft
  <2> QED
    BY <2>1, <2>2, <2>3
<1> QED
  BY <1>1, <1>2

LEMMA SettlementKeepsQueue ==
  ASSUME CInv, NEW s \in Settlers, NEW r \in Requests,
         StoreOutcome(s, r) \/ ReportOutcome(s, r)
  PROVE  QueueInv' /\ LossFreeInv'
<1> USE DEF CInv
<1>0. external[r] /\ reqStatus[r] # "NONE"
  BY DEF StoreOutcome, ReportOutcome, Current, SettlementInv, BatchIsSubmitted,
         SubmittedIsLeftAlone
<1>1. QueueInv'
  BY <1>0, SettlementKeepsQueueInv
<1>2. CASE StoreOutcome(s, r)
  <2>1. LossFreeInv'
    BY <1>0, <1>2 DEF StoreOutcome, QueueInv, TypeOK, LossFreeInv, SettlementInv,
                      SubmittedIsLeftAlone, Sent, Waiting, Owns
  <2> QED
    BY <1>1, <2>1
<1>3. CASE ReportOutcome(s, r)
  <2>1. LossFreeInv'
    BY <1>3 DEF ReportOutcome, LossFreeInv
  <2> QED
    BY <1>1, <2>1
<1> QED
  BY <1>1, <1>2, <1>3

LEMMA QueueStep ==
  LossFree /\ CInv /\ [SettlementNext]_allVars => QueueInv' /\ LossFreeInv'
<1> SUFFICES ASSUME LossFree, CInv, [SettlementNext]_allVars
             PROVE  QueueInv' /\ LossFreeInv'
  OBVIOUS
<1>1. ASSUME [Next]_vars PROVE QueueInv' /\ LossFreeInv'
  BY <1>1, NextQueueInv, NextLossFree DEF CInv
<1>2. CASE WorkerStep
  <2>1. ASSUME NEW w \in Workers, MarkProcessing(w) \/ SaveResult(w) PROVE Next
    BY <2>1 DEF Next, Poll
  <2> QED
    BY <1>1, <1>2, <2>1
       DEF WorkerStep, MarkProcessingStamped, SaveSubmission, OtherWorkerStep
<1>3. CASE \E s \in Settlers : Round(s)
  BY <1>1, <1>3, SettlementKeepsQueue
     DEF Round, Handle, StartRound, RoundEnds, GetTransferStatus, StorePending
<1>4. CASE \E r \in Requests, k \in 1 .. MaxAttempts : ProviderMoves(r, k)
  BY <1>1, <1>4 DEF ProviderMoves
<1> QED
  BY <1>1, <1>2, <1>3, <1>4 DEF SettlementNext, allVars

-----------------------------------------------------------------------------
(* Worker steps and SettlementInv                                          *)

\* What a step leaves alone of the requests that are submitted.
HandsOff ==
    /\ \A r \in Requests : external[r] =>
        /\ qStatus'[r] \notin Waiting
        /\ \A w \in Workers : Owns(w)' /\ job'[w] = r => pc'[w] \in {"succeed", "audit"}
    /\ \A r \in Requests :
        notified'[r] = "EXECUTED" /\ ~OnChain(r) => notified[r] = "EXECUTED"
    /\ UNCHANGED <<stored, provider, roundVars, outcomes>>

\* Steps that settlement does not notice.
LEMMA UnnoticedStep ==
  ASSUME CInv, HandsOff, UNCHANGED <<reqStatus, external, transfers>>
  PROVE  SettlementInv'
<1> USE DEF CInv, SettlementInv, HandsOff
<1>1. SettlementTypeOK' /\ SubmittedIsLeftAlone'
  BY DEF SettlementTypeOK, SubmittedIsLeftAlone
<1>2. BatchIsSubmitted' /\ StatusIsDecided' /\ ReportsFollowStatus'
  BY DEF BatchIsSubmitted, StatusIsDecided, ReportsFollowStatus, Current, Decides
<1> QED
  BY <1>1, <1>2

\* Steps that write the status of a request that is not submitted.
LEMMA StatusStep ==
  ASSUME CInv, HandsOff, NEW q \in Requests, ~external[q], NEW status,
         reqStatus' = [reqStatus EXCEPT ![q] = status],
         UNCHANGED <<external, transfers>>,
         ~OnChain(q) => status # "EXECUTED" /\ (transfers[q] = 1 => status = "PROCESSING")
  PROVE  SettlementInv'
<1> USE DEF CInv, SettlementInv, HandsOff, QueueInv, TypeOK
<1>1. SettlementTypeOK' /\ SubmittedIsLeftAlone'
  BY DEF SettlementTypeOK, SubmittedIsLeftAlone
<1>2. BatchIsSubmitted'
  BY DEF BatchIsSubmitted, Current, Decides
<1>3. StatusIsDecided' /\ ReportsFollowStatus'
  BY DEF StatusIsDecided, ReportsFollowStatus, Decides
<1> QED
  BY <1>1, <1>2, <1>3

LEMMA TransferStep ==
  ASSUME LossFree, CInv, NEW w \in Workers, Broadcast(w) \/ BroadcastLost(w), HandsOff
  PROVE  SettlementInv'
<1> USE DEF CInv, SettlementInv, HandsOff, QueueInv, TypeOK, JobHeld
<1>1. /\ Broadcast(w) /\ job[w] \in Requests /\ transfers[job[w]] = 0
      /\ reqStatus[job[w]] = "PROCESSING" /\ ~external[job[w]]
  BY DEF LossFree, Broadcast, BroadcastLost, LossFreeInv, SubmittedIsLeftAlone, Owns
<1>2. transfers' = [transfers EXCEPT ![job[w]] = 1] /\ UNCHANGED <<reqStatus, external>>
  BY <1>1 DEF Broadcast, Transfer
<1>3. SettlementTypeOK' /\ SubmittedIsLeftAlone'
  BY <1>1, <1>2 DEF SettlementTypeOK, SubmittedIsLeftAlone
<1>4. BatchIsSubmitted' /\ StatusIsDecided' /\ ReportsFollowStatus'
  BY <1>1, <1>2 DEF BatchIsSubmitted, StatusIsDecided, ReportsFollowStatus, Current, Decides
<1> QED
  BY <1>3, <1>4

LEMMA SubmissionStep ==
  ASSUME LossFree, CInv, NEW w \in Workers, SaveSubmission(w)
  PROVE  SettlementInv'
<1> USE DEF CInv, SettlementInv, QueueInv, TypeOK
<1>1. /\ job[w] \in Requests /\ transfers[job[w]] = 1 /\ pc[w] = "save"
      /\ reqStatus[job[w]] = "PROCESSING" /\ ~external[job[w]]
  BY DEF SaveSubmission, SaveResult, JobHeld, LossFreeInv, SubmittedIsLeftAlone, Sent, Owns
<1>2. qStatus[job[w]] \notin Waiting
  BY <1>1 DEF OwnedRowTaken, Waiting, Owns
<1>3. /\ pc' = [pc EXCEPT ![w] = "succeed"]
      /\ spc' = spc /\ batch' = batch /\ answer' = answer
      /\ UNCHANGED <<job, qStatus, transfers, provider, outcomes, notified>>
  BY DEF SaveSubmission, SaveResult
<1>4. \A v \in Workers : Owns(v)' /\ job'[v] = job[w] => pc'[v] = "succeed"
  BY <1>1, <1>3 DEF ExclusiveExecution, Owns
<1>5. \A r \in Requests \ {job[w]} :
        /\ reqStatus'[r] = reqStatus[r] /\ external'[r] = external[r]
        /\ stored'[r] = stored[r]
  BY <1>1 DEF SaveSubmission, SaveResult, SettlementTypeOK
<1>6. IF OnChain(job[w])
      THEN /\ reqStatus'[job[w]] = "EXECUTED" /\ external'[job[w]] = FALSE
           /\ stored'[job[w]] = stored[job[w]]
      ELSE /\ reqStatus'[job[w]] = "PROCESSING" /\ external'[job[w]] = TRUE
           /\ stored'[job[w]] = 1
  BY <1>1 DEF SaveSubmission, SaveResult, SettlementTypeOK
<1>7. SettlementTypeOK'
  BY <1>1, <1>3 DEF SettlementTypeOK, SaveSubmission
<1>8. SubmittedIsLeftAlone'
  <2> SUFFICES ASSUME NEW r \in Requests, external'[r]
               PROVE  /\ ~OnChain(r) /\ stored'[r] = 1 /\ transfers'[r] = 1
                      /\ qStatus'[r] \notin Waiting
                      /\ reqStatus'[r] \in {"PROCESSING", "EXECUTED", "FAILED"}
                      /\ \A v \in Workers : Owns(v)' /\ job'[v] = r =>
                            pc'[v] \in {"succeed", "audit"}
    BY DEF SubmittedIsLeftAlone, OnChain, Waiting
  <2>1. CASE r = job[w]
    BY <1>1, <1>2, <1>3, <1>4, <1>6, <2>1
  <2>2. CASE r # job[w]
    BY <1>1, <1>3, <1>5, <2>2 DEF SubmittedIsLeftAlone, Owns
  <2> QED
    BY <2>1, <2>2
<1>9. BatchIsSubmitted'
  <2>1. \A r \in Requests : external[r] => r # job[w]
    BY <1>1
  <2> QED
    BY <1>3, <1>5, <2>1 DEF BatchIsSubmitted, Current, Decides
<1>10. StatusIsDecided'
  <2> SUFFICES ASSUME NEW r \in Requests, ~OnChain(r)
               PROVE  /\ reqStatus'[r] = "EXECUTED" =>
                            external'[r] /\ provider[r][1] = "Confirmed"
                      /\ reqStatus'[r] = "FAILED" /\ external'[r] =>
                            provider[r][1] \in RefusedStatuses
                      /\ transfers[r] = 1 /\ ~external'[r] => reqStatus'[r] = "PROCESSING"
                      /\ transfers[r] = 0 => provider[r][1] = "Pending"
    BY <1>3 DEF StatusIsDecided, Decides, OnChain
  <2>1. CASE r = job[w]
    BY <1>1, <1>6, <2>1 DEF StatusIsDecided
  <2>2. CASE r # job[w]
    BY <1>5, <2>2 DEF StatusIsDecided, Decides
  <2> QED
    BY <2>1, <2>2
<1>11. ReportsFollowStatus'
  <2> SUFFICES ASSUME NEW r \in Requests, ~OnChain(r)
               PROVE  /\ \A verdict \in outcomes[r] :
                            external'[r] /\ reqStatus'[r] = SettledStatus(verdict)
                      /\ notified[r] = "EXECUTED" => external'[r] /\ reqStatus'[r] = "EXECUTED"
    BY <1>3 DEF ReportsFollowStatus, OnChain, SettledStatus
  <2>1. CASE r = job[w]
    BY <1>1, <1>6, <2>1 DEF ReportsFollowStatus
  <2>2. CASE r # job[w]
    BY <1>5, <2>2 DEF ReportsFollowStatus
  <2> QED
    BY <2>1, <2>2
<1> QED
  BY <1>7, <1>8, <1>9, <1>10, <1>11

\* A worker's step takes its hands off a submitted request, unless it is the
\* submission itself.
LEMMA PollHandsOff ==
  ASSUME LossFree, CInv, NEW w \in Workers,
         Poll(w) \/ Receipt(w) \/ PollFindsNothing(w) \/ DatabaseFails(w) \/ Crash(w),
         ~SaveResult(w), UNCHANGED <<stored, provider, roundVars, outcomes>>
  PROVE  HandsOff
<1> USE NoJobAssumption DEF CInv, SettlementInv, QueueInv, TypeOK, JobHeld, HandsOff, Owns,
        Waiting, SubmittedIsLeftAlone
<1>0. pc[w] # "idle" => job[w] \in Requests
  OBVIOUS
<1>1. CASE ReserveNext(w)
  BY <1>1 DEF ReserveNext, Eligible
<1>2. CASE MarkRunning(w) \/ LoadRequest(w) \/ MarkProcessing(w) \/ AuditStarted(w)
  BY <1>0, <1>2 DEF MarkRunning, LoadRequest, MarkProcessing, AuditStarted
<1>3. CASE ExecutorRejects(w) \/ Broadcast(w) \/ BroadcastLost(w)
  BY <1>0, <1>3 DEF ExecutorRejects, Broadcast, BroadcastLost
<1>4. CASE Confirm(w) \/ WaitFails(w) \/ StripSignedTx(w) \/ AuditSssBroadcast(w)
  BY <1>0, <1>4 DEF Confirm, WaitFails, StripSignedTx, AuditSssBroadcast
<1>5. CASE MarkSucceeded(w)
  BY <1>0, <1>5 DEF MarkSucceeded
<1>6. CASE AuditResult(w) \/ AuditKms(w) \/ AuditFailed(w) \/ AuditRetry(w) \/ Crash(w)
  BY <1>0, <1>6 DEF AuditResult, AuditKms, AuditFailed, AuditRetry, Crash, OnChain
<1>7. CASE GiveUp(w) \/ StoreFailed(w) \/ MarkDead(w) \/ StoreRetry(w) \/ MarkRetry(w)
  BY <1>0, <1>7 DEF GiveUp, StoreFailed, MarkDead, StoreRetry, MarkRetry
<1>8. CASE DatabaseFails(w)
  BY <1>8 DEF DatabaseFails, LossFree
<1>9. CASE PollFindsNothing(w)
  BY <1>9 DEF PollFindsNothing, vars
<1> QED
  BY <1>1, <1>2, <1>3, <1>4, <1>5, <1>6, <1>7, <1>8, <1>9 DEF Poll, Receipt

LEMMA WorkerSettlement ==
  ASSUME LossFree, CInv, WorkerStep
  PROVE  SettlementInv'
<1> USE DEF CInv, QueueInv, TypeOK, JobHeld
<1>1. ASSUME NEW w \in Workers, SaveSubmission(w)
      PROVE  SettlementInv'
  BY <1>1, SubmissionStep
<1>2. ASSUME NEW w \in Workers, MarkProcessingStamped(w)
      PROVE  SettlementInv'
  <2>1. HandsOff
    BY <1>2, PollHandsOff DEF MarkProcessingStamped, MarkProcessing, SaveResult, Poll
  <2>2. job[w] \in Requests /\ ~external[job[w]]
    BY <1>2 DEF MarkProcessingStamped, MarkProcessing, SettlementInv, SubmittedIsLeftAlone, Owns
  <2>3. /\ reqStatus' = [reqStatus EXCEPT ![job[w]] = "PROCESSING"]
        /\ UNCHANGED <<external, transfers>>
    BY <1>2 DEF MarkProcessingStamped, MarkProcessing
  <2> QED
    BY <2>1, <2>2, <2>3, StatusStep
<1>3. ASSUME OtherWorkerStep, NEW r \in Requests, Enqueue(r)
      PROVE  SettlementInv'
  <2>1. ~external[r] /\ transfers[r] = 0
    BY <1>3 DEF Enqueue, RowsTogether, LossFreeInv, Waiting, SettlementInv, SubmittedIsLeftAlone
  <2>2. HandsOff
    BY <1>3, <2>1 DEF HandsOff, OtherWorkerStep, Enqueue, SettlementInv,
                      SubmittedIsLeftAlone, Owns
  <2>3. reqStatus' = [reqStatus EXCEPT ![r] = "QUEUED"] /\ UNCHANGED <<external, transfers>>
    BY <1>3 DEF Enqueue
  <2>4. "QUEUED" # "EXECUTED" /\ (transfers[r] = 1 => "QUEUED" = "PROCESSING")
    BY <2>1
  <2> QED
    BY <2>1, <2>2, <2>3, <2>4, StatusStep
<1>4. ASSUME OtherWorkerStep, NEW r \in Requests, RetryDelayElapses(r)
      PROVE  SettlementInv'
  <2>1. HandsOff /\ UNCHANGED <<reqStatus, external, transfers>>
    BY <1>4 DEF HandsOff, OtherWorkerStep, RetryDelayElapses, SettlementInv,
                SubmittedIsLeftAlone, Owns
  <2> QED
    BY <2>1, UnnoticedStep
<1>5. ASSUME OtherWorkerStep, NEW w \in Workers,
             Poll(w) \/ Receipt(w) \/ PollFindsNothing(w) \/ DatabaseFails(w) \/ Crash(w)
      PROVE  SettlementInv'
  <2>1. ~SaveResult(w) /\ ~MarkProcessing(w)
    BY <1>5 DEF OtherWorkerStep, SaveResult, MarkProcessing
  <2>2. HandsOff
    BY <1>5, <2>1, PollHandsOff DEF OtherWorkerStep
  <2>3. CASE Broadcast(w) \/ BroadcastLost(w)
    BY <2>2, <2>3, TransferStep
  <2>4. CASE StoreFailed(w)
    <3>1. /\ job[w] \in Requests /\ ~external[job[w]] /\ transfers[job[w]] = 0
          /\ reqStatus' = [reqStatus EXCEPT ![job[w]] = "FAILED"]
          /\ UNCHANGED <<external, transfers>>
      BY <2>4 DEF StoreFailed, SettlementInv, SubmittedIsLeftAlone, Owns, LossFreeInv
    <3>2. "FAILED" # "EXECUTED" /\ (transfers[job[w]] = 1 => "FAILED" = "PROCESSING")
      BY <3>1
    <3> QED
      BY <2>2, <3>1, <3>2, StatusStep
  <2>5. CASE ~(Broadcast(w) \/ BroadcastLost(w) \/ StoreFailed(w))
    <3>1. UNCHANGED <<reqStatus, external, transfers>>
      BY <1>5, <2>1, <2>5
         DEF Poll, Receipt, PollFindsNothing, DatabaseFails, Crash, ReserveNext, MarkRunning,
             LoadRequest, AuditStarted, ExecutorRejects, StripSignedTx, AuditSssBroadcast,
             MarkSucceeded, AuditResult, AuditKms, GiveUp, MarkDead, AuditFailed,
             StoreRetry, MarkRetry, AuditRetry, Confirm, WaitFails, vars
    <3> QED
      BY <2>2, <3>1, UnnoticedStep
  <2> QED
    BY <2>3, <2>4, <2>5
<1> QED
  BY <1>1, <1>2, <1>3, <1>4, <1>5 DEF WorkerStep, OtherWorkerStep, Next

-----------------------------------------------------------------------------
(* Settlement steps and SettlementInv                                      *)

\* BatchIsSubmitted of one round.
RowsKnown(s) ==
    \A r \in DOMAIN batch[s] :
        /\ r \in Requests /\ external[r] /\ batch[s][r].id = 1
        /\ Current(s, r) /\ spc[s] \in {"store", "report"} => Decides(r, answer[s])
        /\ Current(s, r) /\ spc[s] = "report" =>
                answer[s] # "PENDING" /\ reqStatus[r] = SettledStatus(answer[s])

\* A step of one round, seen by the others.
LEMMA OtherRounds ==
  ASSUME CInv, NEW s \in Settlers, RowsKnown(s)',
         \A t \in Settlers \ {s} :
            /\ batch'[t] = batch[t] /\ spc'[t] = spc[t] /\ answer'[t] = answer[t]
            /\ \A r : Current(t, r) /\ spc[t] = "report" => reqStatus'[r] = reqStatus[r],
         UNCHANGED <<external, provider>>
  PROVE  BatchIsSubmitted'
<1> SUFFICES ASSUME NEW t \in Settlers PROVE RowsKnown(t)'
  BY DEF BatchIsSubmitted, RowsKnown
<1>1. CASE t = s
  BY <1>1
<1>2. CASE t # s
  <2>1. RowsKnown(t)
    BY DEF CInv, SettlementInv, BatchIsSubmitted, RowsKnown
  <2>2. \A r : Current(t, r)' <=> Current(t, r)
    BY <1>2 DEF Current
  <2>3. \A r : Decides(r, answer[t])' <=> Decides(r, answer[t])
    BY <1>2 DEF Decides
  <2> QED
    BY <1>2, <2>1, <2>2, <2>3 DEF RowsKnown, Decides, SettledStatus
<1> QED
  BY <1>1, <1>2

LEMMA RoundStep ==
  ASSUME CInv, NEW s \in Settlers, StartRound(s) \/ RoundEnds(s)
  PROVE  SettlementInv'
<1> USE DEF CInv, SettlementInv
<1>1. CASE StartRound(s)
  <2> USE <1>1 DEF StartRound, vars
  <2>1. PICK B \in SUBSET Due :
          batch' = [batch EXCEPT ![s] =
                      [r \in B |-> [id |-> stored[r], at |-> processingAt[r]]]]
    OBVIOUS
  <2>2. SettlementTypeOK' /\ SubmittedIsLeftAlone'
    BY <2>1 DEF SettlementTypeOK, SubmittedIsLeftAlone, Owns
  <2>3. BatchIsSubmitted'
    <3>1. \A r \in DOMAIN batch'[s] :
            r \in Requests /\ external[r] /\ batch'[s][r].id = 1
      BY <2>1 DEF SettlementTypeOK, SubmittedIsLeftAlone, Due, Awaiting
    <3>2. \A t \in Settlers \ {s} : batch'[t] = batch[t] /\ spc'[t] = spc[t]
      BY <2>1 DEF SettlementTypeOK
    <3>3. spc'[s] = "query"
      BY DEF SettlementTypeOK
    <3> QED
      BY <3>1, <3>2, <3>3, OtherRounds DEF RowsKnown
  <2>4. StatusIsDecided' /\ ReportsFollowStatus'
    BY DEF StatusIsDecided, ReportsFollowStatus, Decides
  <2> QED
    BY <2>2, <2>3, <2>4
<1>2. CASE RoundEnds(s)
  <2> USE <1>2 DEF RoundEnds, vars
  <2>1. SettlementTypeOK' /\ SubmittedIsLeftAlone'
    BY DEF SettlementTypeOK, SubmittedIsLeftAlone, Owns
  <2>2. BatchIsSubmitted'
    BY DEF SettlementTypeOK, BatchIsSubmitted, Current, Decides
  <2>3. StatusIsDecided' /\ ReportsFollowStatus'
    BY DEF StatusIsDecided, ReportsFollowStatus, Decides
  <2> QED
    BY <2>1, <2>2, <2>3
<1> QED
  BY <1>1, <1>2

\* What a round knows of the row it is at.
LEMMA RowInHand ==
  ASSUME CInv, NEW s \in Settlers, NEW r \in Requests, Current(s, r)
  PROVE  /\ external[r] /\ ~OnChain(r) /\ batch[s][r].id = 1 /\ stored[r] = 1
         /\ spc[s] \in {"store", "report"} => Decides(r, answer[s])
         /\ spc[s] = "report" => /\ answer[s] # "PENDING"
                                 /\ reqStatus[r] = SettledStatus(answer[s])
         /\ \A q : Current(s, q) => q = r
  BY DEF CInv, SettlementInv, BatchIsSubmitted, SubmittedIsLeftAlone, Current

LEMMA QueryStep ==
  ASSUME CInv, NEW s \in Settlers, NEW r \in Requests, GetTransferStatus(s, r)
  PROVE  SettlementInv'
<1> USE DEF CInv, SettlementInv, GetTransferStatus, vars
<1>1. /\ batch[s][r].id = 1 /\ \A q : Current(s, q) => q = r
      /\ answer' = [answer EXCEPT ![s] = MapTransferStatus(provider[r][1])]
      /\ spc' = [spc EXCEPT ![s] = "store"]
  BY RowInHand
<1>2. MapTransferStatus(provider[r][1]) \in {"PENDING", "CONFIRMED", "FAILED"}
  BY DEF MapTransferStatus
<1>3. Decides(r, MapTransferStatus(provider[r][1]))
  BY DEF Decides, MapTransferStatus, RefusedStatuses
<1>4. SettlementTypeOK' /\ SubmittedIsLeftAlone'
  BY <1>1, <1>2 DEF SettlementTypeOK, SubmittedIsLeftAlone, Owns
<1>5. BatchIsSubmitted'
  <2>1. \A t \in Settlers \ {s} : answer'[t] = answer[t] /\ spc'[t] = spc[t]
    BY <1>1
  <2>2. answer'[s] = MapTransferStatus(provider[r][1]) /\ spc'[s] = "store"
    BY <1>1 DEF SettlementTypeOK
  <2>3. \A q : Current(s, q)' <=> Current(s, q)
    BY DEF Current
  <2>4. RowsKnown(s)'
    BY <1>1, <1>3, <2>2, <2>3 DEF RowsKnown, BatchIsSubmitted, Decides
  <2> QED
    BY <2>1, <2>4, OtherRounds
<1>6. StatusIsDecided' /\ ReportsFollowStatus'
  BY DEF StatusIsDecided, ReportsFollowStatus, Decides
<1> QED
  BY <1>4, <1>5, <1>6

\* The round goes on with the next row.
LEMMA NextRowStep ==
  ASSUME CInv, NEW s \in Settlers, NEW r \in Requests, NextRow(s, r),
         UNCHANGED <<external, provider, reqStatus>>
  PROVE  BatchIsSubmitted'
<1> USE DEF CInv, SettlementInv, NextRow, SettlementTypeOK
<1>1. /\ \A q \in DOMAIN batch'[s] : q \in DOMAIN batch[s] /\ batch'[s][q] = batch[s][q]
      /\ spc'[s] \in {"idle", "query"}
  OBVIOUS
<1>2. \A t \in Settlers \ {s} :
        batch'[t] = batch[t] /\ answer'[t] = answer[t] /\ spc'[t] = spc[t]
  OBVIOUS
<1>3. RowsKnown(s)'
  BY <1>1 DEF RowsKnown, BatchIsSubmitted
<1> QED
  BY <1>2, <1>3, OtherRounds

LEMMA PendingStep ==
  ASSUME CInv, NEW s \in Settlers, NEW r \in Requests, StorePending(s, r)
  PROVE  SettlementInv'
<1> USE DEF CInv, SettlementInv, StorePending, vars
<1>1. stored' = stored
  BY RowInHand DEF StoreMetadata, SettlementTypeOK
<1>2. SettlementTypeOK' /\ SubmittedIsLeftAlone'
  BY <1>1 DEF SettlementTypeOK, SubmittedIsLeftAlone, Owns, NextRow
<1>3. BatchIsSubmitted'
  BY NextRowStep
<1>4. StatusIsDecided' /\ ReportsFollowStatus'
  BY DEF StatusIsDecided, ReportsFollowStatus, Decides
<1> QED
  BY <1>2, <1>3, <1>4

\* A stored status is the one every settling process would store.
LEMMA VerdictIsOne ==
  ASSUME NEW r, NEW a \in {"CONFIRMED", "FAILED"}, NEW b \in {"CONFIRMED", "FAILED"},
         Decides(r, a), Decides(r, b)
  PROVE  a = b
  BY DEF Decides, RefusedStatuses

LEMMA OutcomeStep ==
  ASSUME CInv, NEW s \in Settlers, NEW r \in Requests, StoreOutcome(s, r)
  PROVE  SettlementInv'
<1> USE DEF CInv, SettlementInv, StoreOutcome, QueueInv, TypeOK
<1> DEFINE status == SettledStatus(answer[s])
<1>1. /\ external[r] /\ ~OnChain(r) /\ Decides(r, answer[s])
      /\ answer[s] \in {"CONFIRMED", "FAILED"} /\ stored' = stored
  BY RowInHand DEF StoreMetadata, SettlementTypeOK
<1>2. reqStatus' = [reqStatus EXCEPT ![r] = status] /\ reqStatus'[r] = status
  OBVIOUS
<1>3. spc' = [spc EXCEPT ![s] = "report"] /\ \A q : Current(s, q) => q = r
  BY RowInHand
<1>4. SettlementTypeOK' /\ SubmittedIsLeftAlone'
  BY <1>1, <1>2 DEF SettlementTypeOK, SubmittedIsLeftAlone, Owns, SettledStatus
<1>5. BatchIsSubmitted'
  <2>1. ASSUME NEW t \in Settlers, NEW q, Current(t, q), spc[t] = "report"
        PROVE  reqStatus'[q] = reqStatus[q]
    <3>1. q \in Requests
      BY <2>1 DEF Current, BatchIsSubmitted
    <3>2. CASE q = r
      <4>1. answer[t] \in {"CONFIRMED", "FAILED"} /\ Decides(r, answer[t])
        BY <2>1, <3>2, RowInHand DEF SettlementTypeOK
      <4>2. answer[t] = answer[s]
        BY <1>1, <4>1, VerdictIsOne
      <4> QED
        BY <1>2, <2>1, <3>2, <4>2, RowInHand
    <3>3. CASE q # r
      BY <1>2, <3>1, <3>3
    <3> QED
      BY <3>2, <3>3
  <2>2. /\ \A q : Current(s, q)' <=> Current(s, q)
        /\ \A q : Decides(q, answer[s])' <=> Decides(q, answer[s])
    BY DEF Current, Decides
  <2>3. RowsKnown(s)'
    BY <1>1, <1>2, <1>3, <2>2 DEF RowsKnown, BatchIsSubmitted, Decides, SettledStatus
  <2>4. \A t \in Settlers \ {s} : spc'[t] = spc[t]
    BY <1>3
  <2> QED
    BY <2>1, <2>3, <2>4, OtherRounds
<1>6. StatusIsDecided'
  BY <1>1, <1>2 DEF StatusIsDecided, Decides, SettledStatus
<1>7. ReportsFollowStatus'
  <2>1. ASSUME NEW verdict \in outcomes[r]
        PROVE  verdict = answer[s]
    BY <1>1, <2>1, VerdictIsOne
       DEF ReportsFollowStatus, StatusIsDecided, SettledStatus, SettlementTypeOK
  <2>2. notified[r] = "EXECUTED" => status = "EXECUTED"
    BY <1>1 DEF ReportsFollowStatus, StatusIsDecided, SettledStatus, Decides, RefusedStatuses
  <2> QED
    BY <1>1, <1>2, <2>1, <2>2 DEF ReportsFollowStatus
<1> QED
  BY <1>4, <1>5, <1>6, <1>7

LEMMA ReportStep ==
  ASSUME CInv, NEW s \in Settlers, NEW r \in Requests, ReportOutcome(s, r)
  PROVE  SettlementInv'
<1> USE DEF CInv, SettlementInv, ReportOutcome, QueueInv, TypeOK
<1>1. /\ external[r] /\ ~OnChain(r) /\ reqStatus[r] = SettledStatus(answer[s])
      /\ answer[s] \in {"CONFIRMED", "FAILED"}
  BY RowInHand DEF SettlementTypeOK
<1>2. SettlementTypeOK' /\ SubmittedIsLeftAlone'
  BY <1>1 DEF SettlementTypeOK, SubmittedIsLeftAlone, Owns, NextRow
<1>3. BatchIsSubmitted'
  BY NextRowStep
<1>4. StatusIsDecided' /\ ReportsFollowStatus'
  BY <1>1 DEF StatusIsDecided, ReportsFollowStatus, Decides, SettlementTypeOK
<1> QED
  BY <1>2, <1>3, <1>4

LEMMA ProviderStep ==
  ASSUME CInv, NEW r \in Requests, NEW k \in 1 .. MaxAttempts, ProviderMoves(r, k)
  PROVE  SettlementInv'
<1> USE DEF CInv, SettlementInv, ProviderMoves, QueueInv, TypeOK, vars
<1>1. k = 1 /\ transfers[r] = 1
  BY DEF LossFreeInv
<1>2. PICK status \in DfnsTransferStatus :
        /\ provider' = [provider EXCEPT ![r][1] = status]
        /\ provider[r][1] \in {"Pending", "Broadcasted"}
  BY <1>1 DEF DfnsTransferStatus
<1>3. 1 \in 1 .. MaxAttempts
  BY <1>1
<1>4. SettlementTypeOK' /\ SubmittedIsLeftAlone'
  BY <1>2, <1>3 DEF SettlementTypeOK, SubmittedIsLeftAlone, Owns
<1>5. \A q \in Requests : \A verdict : q # r /\ Decides(q, verdict) => Decides(q, verdict)'
  BY <1>2 DEF Decides, SettlementTypeOK
<1>6. \A verdict : Decides(r, verdict) => verdict \notin {"CONFIRMED", "FAILED"}
  BY <1>2 DEF Decides, RefusedStatuses
<1>7. \A verdict : Decides(r, verdict) => Decides(r, verdict)'
  BY <1>6 DEF Decides
<1>8. BatchIsSubmitted'
  BY <1>5, <1>7 DEF BatchIsSubmitted, Current
<1>9. StatusIsDecided' /\ ReportsFollowStatus'
  <2>1. \A q \in Requests : q # r => provider'[q] = provider[q]
    BY <1>2 DEF SettlementTypeOK
  <2> QED
    BY <1>1, <1>5, <1>7, <2>1 DEF StatusIsDecided, ReportsFollowStatus
<1> QED
  BY <1>4, <1>8, <1>9

-----------------------------------------------------------------------------
(* The invariant, and what it says of the reports                          *)

LEMMA NextCInv ==
  LossFree /\ CInv /\ [SettlementNext]_allVars => CInv'
<1> SUFFICES ASSUME LossFree, CInv, [SettlementNext]_allVars
             PROVE  SettlementInv'
  BY QueueStep DEF CInv
<1>1. CASE WorkerStep
  BY <1>1, WorkerSettlement
<1>2. CASE \E s \in Settlers : Round(s)
  BY <1>2, RoundStep, QueryStep, PendingStep, OutcomeStep, ReportStep DEF Round, Handle
<1>3. CASE \E r \in Requests, k \in 1 .. MaxAttempts : ProviderMoves(r, k)
  BY <1>3, ProviderStep
<1>4. CASE UNCHANGED allVars
  <2>1. HandsOff /\ UNCHANGED <<reqStatus, external, transfers>>
    BY <1>4 DEF allVars, vars, HandsOff, CInv, SettlementInv, SubmittedIsLeftAlone, Owns
  <2> QED
    BY <2>1, UnnoticedStep
<1> QED
  BY <1>1, <1>2, <1>3, <1>4 DEF SettlementNext

\* SettlementInv holds of every run without lost answers and failed writes:
\* what two settling processes store, log and report agrees with what the
\* provider decided.
THEOREM SettlementInvHolds == LossFree => (SettlementSpec => []SettlementInv)
<1> SUFFICES ASSUME LossFree PROVE SettlementSpec => []SettlementInv
  OBVIOUS
<1>1. SettlementInit => CInv
  BY InitCInv
<1>2. CInv /\ [SettlementNext]_allVars => CInv'
  BY NextCInv
<1>3. CInv => SettlementInv
  BY DEF CInv
<1> QED
  BY <1>1, <1>2, <1>3, PTL DEF SettlementSpec

\* ReportsAgree holds of every such run: the log and the notices of poll
\* never contradict the row, nor each other.
THEOREM ReportsAgreeHolds == LossFree => (SettlementSpec => []ReportsAgree)
<1> SUFFICES ASSUME LossFree PROVE SettlementSpec => []ReportsAgree
  OBVIOUS
<1>1. SettlementInv => ReportsAgree
  BY DEF SettlementInv, ReportsFollowStatus, ReportsAgree, SettledStatus
<1>2. SettlementSpec => []SettlementInv
  BY SettlementInvHolds
<1> QED
  BY <1>1, <1>2, PTL

-----------------------------------------------------------------------------
(* The refinement                                                          *)

\* Paid without counting: a request has one transfer at most.
Settlement(r) == IF provider[r][1] = "Confirmed" THEN 1 ELSE 0
PaidUncounted == [r \in Requests |-> IF OnChain(r) THEN transfers[r] ELSE Settlement(r)]

LEMMA PaidIsUncounted == CInv => Paid = PaidUncounted
<1> SUFFICES ASSUME CInv, NEW r \in Requests, ~OnChain(r)
             PROVE  Cardinality(Confirmed(r)) = Settlement(r)
  BY DEF Paid, PaidUncounted
<1>1. transfers[r] \in {0, 1} /\ (transfers[r] = 0 => provider[r][1] = "Pending")
  BY MaxAttemptsAssumption
     DEF CInv, QueueInv, TypeOK, LossFreeInv, SettlementInv, StatusIsDecided
<1>2. CASE transfers[r] = 1 /\ provider[r][1] = "Confirmed"
  <2>1. Confirmed(r) = {1}
    BY <1>2 DEF Confirmed
  <2> QED
    BY <1>2, <2>1, FS_Singleton DEF Settlement
<1>3. CASE ~(transfers[r] = 1 /\ provider[r][1] = "Confirmed")
  <2>1. Confirmed(r) = {}
    BY <1>1, <1>3 DEF Confirmed
  <2>2. Settlement(r) = 0
    BY <1>1, <1>3 DEF Settlement
  <2> QED
    BY <2>1, <2>2, FS_EmptySet
<1> QED
  BY <1>2, <1>3

\* Steps that neither pay nor confirm.
LEMMA SamePaid == UNCHANGED <<transfers, provider>> => Paid' = Paid
  BY DEF Paid, Confirmed, OnChain

LEMMA WorkerRefinement ==
  ASSUME LossFree, CInv, CInv', WorkerStep
  PROVE  [EndToEnd!Next]_(EndToEnd!vars)
<1> USE DEF EndToEnd!vars, EndToEnd!Next, EndToEnd!Move
<1>0. Paid = PaidUncounted /\ Paid' = PaidUncounted' /\ provider' = provider
  <2>1. provider' = provider
    BY DEF WorkerStep, MarkProcessingStamped, SaveSubmission, OtherWorkerStep
  <2>2. (CInv => Paid = PaidUncounted)'
    BY PaidIsUncounted, PTL
  <2> QED
    BY <2>1, <2>2, PaidIsUncounted
<1>1. ASSUME NEW w \in Workers, pc[w] # "idle" PROVE job[w] \in Requests
  BY <1>1 DEF CInv, QueueInv, TypeOK, JobHeld
<1>2. CASE UNCHANGED <<reqStatus, transfers>>
  BY <1>0, <1>2, SamePaid
<1>3. ASSUME NEW r \in Requests, Enqueue(r) PROVE EndToEnd!Accept(r)
  BY <1>0, <1>3, SamePaid DEF Enqueue, EndToEnd!Accept
<1>4. ASSUME NEW w \in Workers, MarkProcessing(w)
      PROVE  EndToEnd!Start(job[w]) \/ UNCHANGED <<reqStatus, transfers>>
  <2>1. reqStatus[job[w]] \in {"QUEUED", "PROCESSING"} /\ Paid' = Paid
    BY <1>0, <1>4, SamePaid DEF MarkProcessing, CInv, LossFreeInv
  <2> QED
    BY <1>1, <1>4, <2>1 DEF MarkProcessing, EndToEnd!Start, CInv, QueueInv, TypeOK
<1>5. ASSUME NEW w \in Workers, Broadcast(w) \/ BroadcastLost(w)
      PROVE  EndToEnd!Pay(job[w]) \/ UNCHANGED <<reqStatus, Paid>>
  <2>1. /\ Broadcast(w) /\ job[w] \in Requests
        /\ reqStatus[job[w]] = "PROCESSING" /\ transfers[job[w]] = 0
        /\ transfers' = [transfers EXCEPT ![job[w]] = 1] /\ reqStatus' = reqStatus
    BY <1>1, <1>5
       DEF Broadcast, BroadcastLost, Transfer, LossFree, CInv, LossFreeInv, QueueInv, TypeOK
  <2>2. CASE OnChain(job[w])
    <3>1. Paid[job[w]] = 0 /\ Paid' = [Paid EXCEPT ![job[w]] = 1]
      BY <1>0, <2>1, <2>2 DEF PaidUncounted, Settlement, OnChain, CInv, QueueInv, TypeOK
    <3> QED
      BY <2>1, <3>1 DEF EndToEnd!Pay
  <2>3. CASE ~OnChain(job[w])
    <3>1. PaidUncounted' = PaidUncounted
      BY <1>0, <2>1, <2>3 DEF PaidUncounted, Settlement, OnChain, CInv, QueueInv, TypeOK
    <3> QED
      BY <1>0, <2>1, <3>1
  <2> QED
    BY <2>2, <2>3
<1>6. ASSUME NEW w \in Workers, SaveResult(w)
      PROVE  EndToEnd!Execute(job[w]) \/ UNCHANGED <<reqStatus, transfers>>
  <2>1. /\ job[w] \in Requests /\ reqStatus[job[w]] = "PROCESSING"
        /\ transfers[job[w]] = 1 /\ Paid' = Paid
    BY <1>0, <1>1, <1>6, SamePaid DEF SaveResult, CInv, LossFreeInv, Sent
  <2>2. CASE OnChain(job[w])
    BY <1>0, <1>6, <2>1, <2>2 DEF SaveResult, EndToEnd!Execute, PaidUncounted
  <2>3. CASE ~OnChain(job[w])
    BY <1>6, <2>1, <2>3 DEF SaveResult, CInv, QueueInv, TypeOK
  <2> QED
    BY <2>2, <2>3
<1>7. ASSUME NEW w \in Workers, StoreFailed(w) PROVE EndToEnd!Fail(job[w])
  <2>1. /\ job[w] \in Requests /\ reqStatus[job[w]] = "PROCESSING"
        /\ transfers[job[w]] = 0 /\ Paid' = Paid
    BY <1>0, <1>1, <1>7, SamePaid DEF StoreFailed, CInv, LossFreeInv
  <2>2. PaidUncounted[job[w]] = 0
    BY <2>1 DEF PaidUncounted, Settlement, CInv, SettlementInv, StatusIsDecided
  <2> QED
    BY <1>0, <1>7, <2>1, <2>2 DEF StoreFailed, EndToEnd!Fail
<1>8. ASSUME NEW w \in Workers,
             Poll(w) \/ Receipt(w) \/ PollFindsNothing(w) \/ DatabaseFails(w) \/ Crash(w)
      PROVE  [EndToEnd!Next]_(EndToEnd!vars)
  <2>1. pc[w] # "idle" => job[w] \in Requests
    BY <1>1
  <2>2. CASE MarkProcessing(w) \/ Broadcast(w) \/ BroadcastLost(w)
             \/ SaveResult(w) \/ StoreFailed(w)
    <3>1. job[w] \in Requests
      BY <2>1, <2>2
         DEF MarkProcessing, Broadcast, BroadcastLost, SaveResult, StoreFailed
    <3> QED
      BY <1>2, <1>4, <1>5, <1>6, <1>7, <2>2, <3>1
  <2> QED
    BY <1>2, <1>8, <2>2, HiddenSteps DEF Poll, Receipt, CInv
<1>9. ASSUME NEW r \in Requests, RetryDelayElapses(r)
      PROVE  UNCHANGED <<reqStatus, transfers>>
  BY <1>9 DEF RetryDelayElapses
<1>10. ASSUME NEW w \in Workers, MarkProcessing(w) \/ SaveResult(w)
       PROVE  Poll(w)
  BY <1>10 DEF Poll
<1> QED
  BY <1>2, <1>3, <1>8, <1>9, <1>10
     DEF WorkerStep, MarkProcessingStamped, SaveSubmission, OtherWorkerStep, Next

\* The provider's confirmation is the payment, the outcome stored first is
\* the end, and the outcome stored again by another process changes nothing.
LEMMA SettlementRefinement ==
  ASSUME CInv, CInv',
         \/ \E s \in Settlers : Round(s)
         \/ \E r \in Requests, k \in 1 .. MaxAttempts : ProviderMoves(r, k)
  PROVE  [EndToEnd!Next]_(EndToEnd!vars)
<1> USE DEF EndToEnd!vars, EndToEnd!Next, EndToEnd!Move
<1>0. Paid = PaidUncounted /\ Paid' = PaidUncounted'
  <2>1. (CInv => Paid = PaidUncounted)'
    BY PaidIsUncounted, PTL
  <2> QED
    BY <2>1, PaidIsUncounted
<1>1. ASSUME NEW r \in Requests, NEW k \in 1 .. MaxAttempts, ProviderMoves(r, k)
      PROVE  EndToEnd!Pay(r) \/ UNCHANGED <<reqStatus, Paid>>
  <2>1. /\ k = 1 /\ transfers[r] = 1 /\ ~OnChain(r) /\ UNCHANGED <<reqStatus, transfers>>
        /\ provider[r][1] \in {"Pending", "Broadcasted"}
    BY <1>1 DEF ProviderMoves, CInv, LossFreeInv, QueueInv, TypeOK, vars
  <2>2. PICK status : provider' = [provider EXCEPT ![r][1] = status]
    BY <1>1, <2>1 DEF ProviderMoves
  <2>3. /\ provider'[r][1] = status
        /\ \A q \in Requests : q # r => provider'[q] = provider[q]
    BY <2>2, MaxAttemptsAssumption DEF CInv, SettlementInv, SettlementTypeOK
  <2>4. reqStatus[r] = "PROCESSING"
    BY <2>1 DEF CInv, SettlementInv, SubmittedIsLeftAlone, StatusIsDecided, Decides,
                RefusedStatuses
  <2>5. Paid[r] = 0
    BY <1>0, <2>1 DEF PaidUncounted, Settlement
  <2>6. CASE status = "Confirmed"
    <3>1. Paid' = [Paid EXCEPT ![r] = 1]
      BY <1>0, <2>1, <2>3, <2>6 DEF PaidUncounted, Settlement, OnChain
    <3> QED
      BY <2>1, <2>4, <2>5, <3>1 DEF EndToEnd!Pay
  <2>7. CASE status # "Confirmed"
    <3>1. PaidUncounted' = PaidUncounted
      BY <2>1, <2>3, <2>7 DEF PaidUncounted, Settlement, OnChain
    <3> QED
      BY <1>0, <2>1, <3>1
  <2> QED
    BY <2>6, <2>7
<1>2. ASSUME NEW s \in Settlers, NEW r \in Requests, StoreOutcome(s, r)
      PROVE  EndToEnd!Execute(r) \/ EndToEnd!Fail(r) \/ UNCHANGED <<reqStatus, Paid>>
  <2> USE <1>2 DEF StoreOutcome
  <2>1. /\ external[r] /\ ~OnChain(r) /\ Decides(r, answer[s])
        /\ answer[s] \in {"CONFIRMED", "FAILED"} /\ Paid' = Paid
        /\ reqStatus' = [reqStatus EXCEPT ![r] = SettledStatus(answer[s])]
    BY RowInHand, SamePaid DEF CInv, SettlementInv, SettlementTypeOK
  <2>2. CASE reqStatus[r] = "PROCESSING"
    <3>1. Paid[r] = IF answer[s] = "CONFIRMED" THEN 1 ELSE 0
      BY <1>0, <2>1 DEF PaidUncounted, Settlement, Decides, RefusedStatuses
    <3> QED
      BY <2>1, <2>2, <3>1 DEF SettledStatus, EndToEnd!Execute, EndToEnd!Fail
  <2>3. CASE reqStatus[r] # "PROCESSING"
    <3>1. reqStatus[r] = SettledStatus(answer[s])
      BY <2>1, <2>3
         DEF CInv, SettlementInv, SubmittedIsLeftAlone, StatusIsDecided, Decides,
             RefusedStatuses, SettledStatus
    <3> QED
      BY <2>1, <3>1 DEF CInv, QueueInv, TypeOK
  <2> QED
    BY <2>2, <2>3
<1>3. ASSUME NEW s \in Settlers, NEW r \in Requests,
             \/ StartRound(s) \/ RoundEnds(s) \/ GetTransferStatus(s, r)
             \/ StorePending(s, r) \/ ReportOutcome(s, r)
      PROVE  UNCHANGED <<reqStatus, Paid>>
  <2>1. UNCHANGED <<reqStatus, transfers, provider>>
    BY <1>3 DEF StartRound, RoundEnds, GetTransferStatus, StorePending, ReportOutcome, vars
  <2> QED
    BY <2>1, SamePaid
<1>4. ASSUME NEW s \in Settlers, StartRound(s) \/ RoundEnds(s)
      PROVE  UNCHANGED <<reqStatus, Paid>>
  <2>1. UNCHANGED <<reqStatus, transfers, provider>>
    BY <1>4 DEF StartRound, RoundEnds, vars
  <2> QED
    BY <2>1, SamePaid
<1> QED
  BY <1>1, <1>2, <1>3, <1>4 DEF Round, Handle

\* Refinement: queue, workers, provider and settlement together implement
\* WithdrawalLifecycle, where what the provider confirmed is what was paid.
THEOREM SettlementRefines == LossFree => (SettlementSpec => SettlementImplementsLifecycle)
<1> SUFFICES ASSUME LossFree PROVE SettlementSpec => SettlementImplementsLifecycle
  OBVIOUS
<1>1. SettlementInit => EndToEnd!Init
  <2> SUFFICES ASSUME SettlementInit PROVE EndToEnd!Init
    OBVIOUS
  <2>1. Paid = [r \in Requests |-> 0]
    BY InitCInv, PaidIsUncounted, MaxAttemptsAssumption
       DEF PaidUncounted, Settlement, SettlementInit, Init
  <2> QED
    BY <2>1 DEF SettlementInit, Init, EndToEnd!Init
<1>2. SettlementInit => CInv
  BY InitCInv
<1>3. CInv /\ [SettlementNext]_allVars => CInv'
  BY NextCInv
<1>4. CInv /\ CInv' /\ [SettlementNext]_allVars => [EndToEnd!Next]_(EndToEnd!vars)
  <2> SUFFICES ASSUME CInv, CInv', [SettlementNext]_allVars
               PROVE  [EndToEnd!Next]_(EndToEnd!vars)
    OBVIOUS
  <2>1. CASE UNCHANGED allVars
    BY <2>1, SamePaid DEF allVars, vars, EndToEnd!vars
  <2> QED
    BY <2>1, WorkerRefinement, SettlementRefinement DEF SettlementNext
<1> QED
  BY <1>1, <1>2, <1>3, <1>4, PTL
     DEF SettlementSpec, SettlementImplementsLifecycle, EndToEnd!Spec

-----------------------------------------------------------------------------
(* IV.  Whatever fails: what is stored and reported is what the provider   *)
(* said                                                                    *)

\* A submission has a transfer behind it, and the one it names exists.
SubmissionHasTransfer ==
    /\ \A r \in Requests : walletType[r] = "SSS" => transfers[r] <= 1
    /\ \A w \in Workers : pc[w] \in Sent => transfers[job[w]] >= 1
    /\ \A r \in Requests :
        /\ stored[r] <= transfers[r]
        /\ external[r] => ~OnChain(r) /\ stored[r] >= 1

\* The provider has said so of some transfer of the request.
Says(r, verdict) ==
    /\ verdict = "CONFIRMED" => Confirmed(r) # {}
    /\ verdict = "FAILED" => Refused(r) # {}

\* The rows of a round have the transfer it asks for, and the answer stands.
RowsHaveTransfers(s) ==
    \A r \in DOMAIN batch[s] :
        /\ r \in Requests /\ ~OnChain(r) /\ reqStatus[r] # "NONE"
        /\ batch[s][r].id \in 1 .. transfers[r]
        /\ Current(s, r) /\ spc[s] \in {"store", "report"} => Says(r, answer[s])
        /\ Current(s, r) /\ spc[s] = "report" => answer[s] # "PENDING"

BatchHasTransfers == \A s \in Settlers : RowsHaveTransfers(s)

FaultInv ==
    QueueInv /\ SettlementTypeOK /\ SubmissionHasTransfer /\ BatchHasTransfers /\ OutcomesAreTrue

\* What no step takes back, and what only settlement reports.
NothingUndone ==
    \A r \in Requests :
        /\ transfers'[r] \in Nat /\ transfers[r] <= transfers'[r]
        /\ Confirmed(r) \subseteq Confirmed(r)' /\ Refused(r) \subseteq Refused(r)'
        /\ reqStatus[r] # "NONE" => reqStatus'[r] # "NONE"

LEMMA RoundUntouched ==
  ASSUME FaultInv, NothingUndone, NEW s \in Settlers,
         batch'[s] = batch[s], spc'[s] = spc[s], answer'[s] = answer[s]
  PROVE  RowsHaveTransfers(s)'
<1>1. RowsHaveTransfers(s) /\ \A r : Current(s, r)' <=> Current(s, r)
  BY DEF FaultInv, BatchHasTransfers, Current
<1>2. \A r \in Requests : Says(r, answer[s]) => Says(r, answer[s])'
  BY DEF NothingUndone, Says
<1>3. \A q \in Requests :
        transfers[q] \in Nat /\ transfers'[q] \in Nat /\ transfers[q] <= transfers'[q]
  BY MaxAttemptsAssumption DEF FaultInv, QueueInv, TypeOK, NothingUndone
<1> SUFFICES ASSUME NEW r \in DOMAIN batch[s]
             PROVE  /\ r \in Requests /\ ~OnChain(r) /\ reqStatus'[r] # "NONE"
                    /\ batch[s][r].id \in 1 .. transfers'[r]
                    /\ Current(s, r) /\ spc[s] \in {"store", "report"} => Says(r, answer[s])'
                    /\ Current(s, r) /\ spc[s] = "report" => answer[s] # "PENDING"
  BY <1>1 DEF RowsHaveTransfers, OnChain
<1>4. /\ r \in Requests /\ ~OnChain(r) /\ reqStatus'[r] # "NONE"
      /\ batch[s][r].id \in 1 .. transfers[r]
  BY <1>1 DEF RowsHaveTransfers, NothingUndone
<1>5. batch[s][r].id \in 1 .. transfers'[r]
  BY <1>3, <1>4
<1>6. /\ Current(s, r) /\ spc[s] \in {"store", "report"} => Says(r, answer[s])
      /\ Current(s, r) /\ spc[s] = "report" => answer[s] # "PENDING"
  BY <1>1 DEF RowsHaveTransfers
<1> QED
  BY <1>2, <1>4, <1>5, <1>6

-----------------------------------------------------------------------------
(* Steps of the worker                                                     *)

LEMMA WorkerTransfers ==
  ASSUME QueueInv, SubmissionHasTransfer, [Next]_vars
  PROVE  /\ \A r \in Requests : transfers[r] <= transfers'[r]
         /\ \A r \in Requests : walletType[r] = "SSS" => transfers'[r] <= 1
         /\ \A w \in Workers : pc'[w] \in Sent => transfers'[job'[w]] >= 1
<1> USE MaxAttemptsAssumption, NoJobAssumption DEF QueueInv, TypeOK, JobHeld,
        SubmissionHasTransfer, Sent
<1>1. ASSUME NEW w \in Workers, Broadcast(w) \/ BroadcastLost(w)
      PROVE  /\ \A r \in Requests : transfers[r] <= transfers'[r]
             /\ \A r \in Requests : walletType[r] = "SSS" => transfers'[r] <= 1
             /\ \A v \in Workers : pc'[v] \in Sent => transfers'[job'[v]] >= 1
  <2>1. /\ job[w] \in Requests /\ job' = job
        /\ \A v \in Workers \ {w} : pc'[v] = pc[v]
        /\ transfers' = [transfers EXCEPT ![job[w]] =
                            IF walletType[job[w]] = "SSS" THEN 1 ELSE @ + 1]
    BY <1>1 DEF Broadcast, BroadcastLost, Transfer
  <2>2. \A r \in Requests : transfers[r] <= transfers'[r]
    BY <2>1
  <2>3. \A r \in Requests : walletType[r] = "SSS" => transfers'[r] <= 1
    BY <2>1
  <2>4. transfers'[job[w]] >= 1
    BY <2>1
  <2>5. \A v \in Workers : v # w /\ pc'[v] \in Sent => transfers'[job'[v]] >= 1
    BY <2>1, <2>2
  <2> QED
    BY <2>1, <2>2, <2>3, <2>4, <2>5
<1>2. ASSUME NEW w \in Workers, ~(Broadcast(w) \/ BroadcastLost(w)),
             Poll(w) \/ Receipt(w) \/ PollFindsNothing(w) \/ DatabaseFails(w) \/ Crash(w)
      PROVE  /\ UNCHANGED transfers
             /\ \A v \in Workers : pc'[v] \in Sent => transfers[job'[v]] >= 1
  <2>1. CASE ReserveNext(w) \/ MarkRunning(w) \/ LoadRequest(w) \/ MarkProcessing(w)
             \/ AuditStarted(w)
    BY <2>1 DEF ReserveNext, MarkRunning, LoadRequest, MarkProcessing, AuditStarted
  <2>2. CASE ExecutorRejects(w) \/ Confirm(w) \/ WaitFails(w) \/ StripSignedTx(w)
             \/ AuditSssBroadcast(w) \/ SaveResult(w) \/ MarkSucceeded(w)
    BY <2>2 DEF ExecutorRejects, Confirm, WaitFails, StripSignedTx, AuditSssBroadcast,
                SaveResult, MarkSucceeded
  <2>3. CASE AuditResult(w) \/ AuditKms(w) \/ GiveUp(w) \/ StoreFailed(w) \/ MarkDead(w)
             \/ AuditFailed(w) \/ StoreRetry(w) \/ MarkRetry(w) \/ AuditRetry(w)
    BY <2>3 DEF AuditResult, AuditKms, GiveUp, StoreFailed, MarkDead, AuditFailed, StoreRetry,
                MarkRetry, AuditRetry
  <2>4. CASE PollFindsNothing(w) \/ DatabaseFails(w) \/ Crash(w)
    BY <2>4 DEF PollFindsNothing, DatabaseFails, Crash, vars
  <2> QED
    BY <1>2, <2>1, <2>2, <2>3, <2>4 DEF Poll, Receipt
<1>3. CASE (\E r \in Requests : Enqueue(r) \/ RetryDelayElapses(r)) \/ UNCHANGED vars
  BY <1>3 DEF Enqueue, RetryDelayElapses, vars
<1> QED
  BY <1>1, <1>2, <1>3 DEF Next

LEMMA WorkerReports ==
  ASSUME QueueInv, [Next]_vars, NEW r \in Requests
  PROVE  /\ reqStatus[r] # "NONE" => reqStatus'[r] # "NONE"
         /\ ~OnChain(r) /\ reqStatus'[r] = "EXECUTED" => reqStatus[r] = "EXECUTED"
         /\ ~OnChain(r) /\ notified'[r] = "EXECUTED" => notified[r] = "EXECUTED"
<1> USE DEF QueueInv, TypeOK
<1>1. CASE \E q \in Requests : Enqueue(q) \/ RetryDelayElapses(q)
  BY <1>1 DEF Enqueue, RetryDelayElapses
<1>2. ASSUME NEW w \in Workers,
             Poll(w) \/ Receipt(w) \/ PollFindsNothing(w) \/ DatabaseFails(w) \/ Crash(w),
             ~(\/ MarkProcessing(w) \/ SaveResult(w) \/ MarkSucceeded(w) \/ GiveUp(w)
               \/ StoreFailed(w))
      PROVE  UNCHANGED <<reqStatus, notified>>
  BY <1>2 DEF Poll, Receipt, ReserveNext, MarkRunning, LoadRequest, AuditStarted,
       ExecutorRejects, Broadcast, BroadcastLost, Confirm, WaitFails, StripSignedTx,
       AuditSssBroadcast, AuditResult, AuditKms, MarkDead, AuditFailed, StoreRetry, MarkRetry,
       AuditRetry, PollFindsNothing, DatabaseFails, Crash, vars
<1>3. ASSUME NEW w \in Workers, MarkProcessing(w) \/ SaveResult(w) \/ StoreFailed(w)
      PROVE  /\ notified' = notified
             /\ \/ reqStatus'[r] = reqStatus[r]
                \/ reqStatus'[r] \in {"PROCESSING", "FAILED"}
                \/ reqStatus'[r] = "EXECUTED" /\ OnChain(r)
  BY <1>3 DEF MarkProcessing, SaveResult, StoreFailed
<1>4. ASSUME NEW w \in Workers, MarkSucceeded(w) \/ GiveUp(w)
      PROVE  /\ reqStatus' = reqStatus
             /\ \/ notified'[r] = notified[r] \/ notified'[r] = "FAILED"
                \/ notified'[r] = "EXECUTED" /\ OnChain(r)
  BY <1>4 DEF MarkSucceeded, GiveUp
<1>5. CASE UNCHANGED vars
  BY <1>5 DEF vars
<1> QED
  BY <1>1, <1>2, <1>3, <1>4, <1>5 DEF Next

\* Only the result of an execution says that the provider has the request.
LEMMA ExternalKept ==
  ASSUME [Next]_vars, ~\E w \in Workers : SaveResult(w)
  PROVE  external' = external
<1>1. CASE \E r \in Requests : Enqueue(r) \/ RetryDelayElapses(r)
  BY <1>1 DEF Enqueue, RetryDelayElapses
<1>2. ASSUME NEW w \in Workers,
             \/ ReserveNext(w) \/ MarkRunning(w) \/ LoadRequest(w) \/ MarkProcessing(w)
             \/ AuditStarted(w) \/ ExecutorRejects(w) \/ Broadcast(w) \/ BroadcastLost(w)
             \/ Confirm(w) \/ WaitFails(w) \/ StripSignedTx(w)
      PROVE  external' = external
  BY <1>2 DEF ReserveNext, MarkRunning, LoadRequest, MarkProcessing, AuditStarted,
     ExecutorRejects, Broadcast, BroadcastLost, Confirm, WaitFails, StripSignedTx
<1>3. ASSUME NEW w \in Workers,
             \/ AuditSssBroadcast(w) \/ MarkSucceeded(w) \/ AuditResult(w) \/ AuditKms(w)
             \/ GiveUp(w) \/ StoreFailed(w) \/ MarkDead(w) \/ AuditFailed(w)
             \/ StoreRetry(w) \/ MarkRetry(w) \/ AuditRetry(w)
      PROVE  external' = external
  BY <1>3 DEF AuditSssBroadcast, MarkSucceeded, AuditResult, AuditKms, GiveUp, StoreFailed,
     MarkDead, AuditFailed, StoreRetry, MarkRetry, AuditRetry
<1>4. ASSUME NEW w \in Workers, PollFindsNothing(w) \/ DatabaseFails(w) \/ Crash(w)
      PROVE  external' = external
  BY <1>4 DEF PollFindsNothing, DatabaseFails, Crash, vars
<1>5. CASE UNCHANGED vars
  BY <1>5 DEF vars
<1> QED
  BY <1>1, <1>2, <1>3, <1>4, <1>5 DEF Next, Poll, Receipt

LEMMA WorkerFault ==
  ASSUME FaultInv, WorkerStep
  PROVE  FaultInv'
<1> USE DEF FaultInv
<1>1. Next /\ UNCHANGED <<provider, spc, batch, answer, outcomes>>
  <2>1. ASSUME NEW w \in Workers, MarkProcessing(w) \/ SaveResult(w) PROVE Next
    BY <2>1 DEF Next, Poll
  <2> QED
    BY <2>1 DEF WorkerStep, MarkProcessingStamped, SaveSubmission, OtherWorkerStep
<1>2. QueueInv'
  BY <1>1, NextQueueInv
<1>3. NothingUndone
  <2>1. \A r \in Requests : transfers[r] \in Nat /\ transfers'[r] \in Nat
    BY <1>2, MaxAttemptsAssumption DEF QueueInv, TypeOK
  <2> QED
    BY <1>1, <2>1, WorkerTransfers, WorkerReports DEF NothingUndone, Confirmed, Refused
<1>4. BatchHasTransfers'
  BY <1>1, <1>3, RoundUntouched DEF BatchHasTransfers
<1>5. OutcomesAreTrue'
  <2> SUFFICES ASSUME NEW r \in Requests, ~OnChain(r)
               PROVE  /\ (\/ reqStatus'[r] = "EXECUTED" \/ notified'[r] = "EXECUTED"
                           \/ "CONFIRMED" \in outcomes[r]) => Confirmed(r)' # {}
                      /\ "FAILED" \in outcomes[r] => Refused(r)' # {}
    BY <1>1 DEF OutcomesAreTrue, OnChain
  <2> QED
    BY <1>1, <1>3, WorkerReports DEF OutcomesAreTrue, NothingUndone
<1>6. /\ stored' \in [Requests -> Nat]
      /\ \A r \in Requests : /\ stored'[r] <= transfers'[r]
                             /\ external'[r] => ~OnChain(r) /\ stored'[r] >= 1
  <2>1. ASSUME NEW w \in Workers, SaveSubmission(w)
        PROVE  /\ stored' \in [Requests -> Nat]
               /\ \A r \in Requests : /\ stored'[r] <= transfers'[r]
                                      /\ external'[r] => ~OnChain(r) /\ stored'[r] >= 1
    <3>1. /\ job[w] \in Requests /\ transfers' = transfers
          /\ transfers[job[w]] \in Nat /\ transfers[job[w]] >= 1
          /\ external' = [external EXCEPT ![job[w]] = ~OnChain(job[w])]
          /\ stored' = [stored EXCEPT ![job[w]] =
                            IF OnChain(job[w]) THEN @ ELSE transfers[job[w]]]
      BY <2>1, MaxAttemptsAssumption
         DEF SaveSubmission, SaveResult, QueueInv, TypeOK, JobHeld, SubmissionHasTransfer, Sent
    <3>2. \A r \in Requests \ {job[w]} : external'[r] = external[r] /\ stored'[r] = stored[r]
      BY <3>1 DEF SettlementTypeOK, QueueInv, TypeOK
    <3>3. stored'[job[w]] = IF OnChain(job[w]) THEN stored[job[w]] ELSE transfers[job[w]]
      BY <3>1 DEF SettlementTypeOK
    <3>4. external'[job[w]] <=> ~OnChain(job[w])
      BY <3>1, Zenon DEF QueueInv, TypeOK
    <3>5. stored' \in [Requests -> Nat]
      BY <3>1 DEF SettlementTypeOK
    <3> QED
      BY <3>1, <3>2, <3>3, <3>4, <3>5 DEF SubmissionHasTransfer
  <2>2. CASE ~\E w \in Workers : SaveSubmission(w)
    <3>1. stored' = stored /\ ~\E w \in Workers : SaveResult(w)
      <4>1. CASE OtherWorkerStep
        BY <4>1 DEF OtherWorkerStep, SaveResult, QueueInv, TypeOK
      <4>2. ASSUME NEW w \in Workers, MarkProcessingStamped(w)
            PROVE  stored' = stored /\ ~\E v \in Workers : SaveResult(v)
        <5>1. /\ pc[w] = "loaded" /\ pc' = [pc EXCEPT ![w] = "started"] /\ stored' = stored
              /\ pc \in [Workers -> Labels]
          BY <4>2 DEF MarkProcessingStamped, MarkProcessing, QueueInv, TypeOK
        <5> QED
          BY <5>1 DEF SaveResult
      <4> QED
        BY <2>2, <4>1, <4>2 DEF WorkerStep
    <3>2. external' = external
      BY <1>1, <3>1, ExternalKept
    <3>3. \A r \in Requests :
            /\ transfers[r] \in Nat /\ transfers'[r] \in Nat /\ stored[r] \in Nat
            /\ transfers[r] <= transfers'[r]
      BY <1>2, <1>3, MaxAttemptsAssumption DEF QueueInv, TypeOK, NothingUndone, SettlementTypeOK
    <3> QED
      BY <3>1, <3>2, <3>3 DEF SubmissionHasTransfer, SettlementTypeOK
  <2> QED
    BY <2>1, <2>2
<1>7. SubmissionHasTransfer'
  BY <1>1, <1>6, WorkerTransfers DEF SubmissionHasTransfer, OnChain
<1>8. SettlementTypeOK'
  BY <1>1, <1>6 DEF SettlementTypeOK
<1> QED
  BY <1>2, <1>4, <1>5, <1>7, <1>8

-----------------------------------------------------------------------------
(* Steps of settlement and of the provider                                 *)

\* What a round has to show for its step: other rounds and workers see nothing
\* but statuses and reports.
LEMMA RoundFault ==
  ASSUME FaultInv, QueueInv', SettlementTypeOK', NothingUndone, NEW s \in Settlers,
         RowsHaveTransfers(s)',
         \A t \in Settlers \ {s} :
            batch'[t] = batch[t] /\ spc'[t] = spc[t] /\ answer'[t] = answer[t],
         UNCHANGED <<transfers, external, pc, job>>,
         \A r \in Requests : stored'[r] <= transfers[r] /\ (external[r] => stored'[r] >= 1),
         OutcomesAreTrue'
  PROVE  FaultInv'
<1>1. BatchHasTransfers'
  BY RoundUntouched DEF BatchHasTransfers
<1>2. SubmissionHasTransfer'
  BY DEF FaultInv, SubmissionHasTransfer, OnChain
<1> QED
  BY <1>1, <1>2 DEF FaultInv

\* What a round knows of the row it is at.
LEMMA RowAtHand ==
  ASSUME FaultInv, NEW s \in Settlers, NEW r \in Requests, Current(s, r)
  PROVE  /\ ~OnChain(r) /\ reqStatus[r] # "NONE" /\ batch[s][r].id \in 1 .. transfers[r]
         /\ spc[s] \in {"store", "report"} => Says(r, answer[s])
         /\ spc[s] = "report" => answer[s] # "PENDING"
         /\ transfers[r] \in Nat
         /\ \A q : Current(s, q) => q = r
<1>1. r \in DOMAIN batch[s] /\ \A q : Current(s, q) => q = r
  BY DEF Current
<1>2. transfers[r] \in Nat
  BY MaxAttemptsAssumption DEF FaultInv, QueueInv, TypeOK
<1> QED
  BY <1>1, <1>2 DEF FaultInv, BatchHasTransfers, RowsHaveTransfers

\* A round that starts, ends or asks reports nothing.
LEMMA AskingFault ==
  ASSUME FaultInv, NEW s \in Settlers,
         \/ StartRound(s) \/ RoundEnds(s) \/ \E r \in Requests : GetTransferStatus(s, r)
  PROVE  FaultInv'
<1> USE DEF FaultInv
<1>1. UNCHANGED <<vars, metadataVars, provider, outcomes>>
  BY DEF StartRound, RoundEnds, GetTransferStatus
<1>2. QueueInv'
  BY <1>1, NextQueueInv
<1>3. NothingUndone
  BY <1>1, MaxAttemptsAssumption
     DEF vars, NothingUndone, Confirmed, Refused, QueueInv, TypeOK
<1>4. OutcomesAreTrue'
  BY <1>1 DEF vars, OutcomesAreTrue, Confirmed, Refused, OnChain
<1>5. \A r \in Requests : stored'[r] <= transfers[r] /\ (external[r] => stored'[r] >= 1)
  BY <1>1 DEF SubmissionHasTransfer
<1>6. /\ SettlementTypeOK' /\ RowsHaveTransfers(s)'
      /\ \A t \in Settlers \ {s} :
            batch'[t] = batch[t] /\ spc'[t] = spc[t] /\ answer'[t] = answer[t]
  <2>1. CASE StartRound(s)
    <3>1. PICK B \in SUBSET Due :
            batch' = [batch EXCEPT ![s] =
                        [r \in B |-> [id |-> stored[r], at |-> processingAt[r]]]]
      BY <2>1 DEF StartRound
    <3>2. /\ spc' = [spc EXCEPT ![s] = "query"] /\ answer' = answer
      BY <2>1 DEF StartRound
    <3>3. SettlementTypeOK'
      BY <1>1, <3>1, <3>2 DEF SettlementTypeOK
    <3>4. \A r \in DOMAIN batch'[s] :
            /\ r \in Requests /\ ~OnChain(r) /\ reqStatus[r] # "NONE"
            /\ batch'[s][r].id \in 1 .. transfers[r]
      BY <3>1, MaxAttemptsAssumption
         DEF SettlementTypeOK, Due, Awaiting, SubmissionHasTransfer, QueueInv, TypeOK
    <3>5. spc'[s] = "query"
      BY <3>2 DEF SettlementTypeOK
    <3>6. RowsHaveTransfers(s)'
      BY <1>1, <3>4, <3>5 DEF RowsHaveTransfers, OnChain, vars
    <3> QED
      BY <3>1, <3>2, <3>3, <3>6 DEF SettlementTypeOK
  <2>2. CASE RoundEnds(s)
    <3>1. batch'[s] = <<>> /\ SettlementTypeOK'
      BY <1>1, <2>2 DEF RoundEnds, SettlementTypeOK
    <3>2. RowsHaveTransfers(s)'
      BY <3>1 DEF RowsHaveTransfers
    <3> QED
      BY <2>2, <3>1, <3>2 DEF RoundEnds, SettlementTypeOK
  <2>3. ASSUME NEW r \in Requests, GetTransferStatus(s, r)
        PROVE  /\ SettlementTypeOK' /\ RowsHaveTransfers(s)'
               /\ \A t \in Settlers \ {s} :
                    batch'[t] = batch[t] /\ spc'[t] = spc[t] /\ answer'[t] = answer[t]
    <3> DEFINE id == batch[s][r].id
               verdict == MapTransferStatus(provider[r][id])
    <3>1. /\ batch' = batch /\ spc' = [spc EXCEPT ![s] = "store"]
          /\ answer' = [answer EXCEPT ![s] = verdict] /\ Current(s, r)
      BY <2>3 DEF GetTransferStatus
    <3>2. verdict \in {"PENDING", "CONFIRMED", "FAILED"}
      BY DEF MapTransferStatus
    <3>3. SettlementTypeOK'
      BY <1>1, <3>1, <3>2 DEF SettlementTypeOK
    <3>4. id \in 1 .. transfers[r] /\ \A q : Current(s, q) => q = r
      BY <3>1, RowAtHand
    <3>5. Says(r, verdict)
      BY <3>4 DEF Says, MapTransferStatus, Confirmed, Refused, RefusedStatuses
    <3>6. spc'[s] = "store" /\ answer'[s] = verdict /\ \A q : Current(s, q)' <=> Current(s, q)
      BY <3>1 DEF SettlementTypeOK, Current
    <3>7. \A q \in DOMAIN batch[s] :
            /\ q \in Requests /\ ~OnChain(q) /\ reqStatus[q] # "NONE"
            /\ batch[s][q].id \in 1 .. transfers[q]
      BY DEF BatchHasTransfers, RowsHaveTransfers
    <3>8. Says(r, answer[s])'
      BY <1>1, <3>5, <3>6 DEF Says, Confirmed, Refused, vars
    <3>9. RowsHaveTransfers(s)'
      BY <1>1, <3>1, <3>4, <3>6, <3>7, <3>8 DEF RowsHaveTransfers, OnChain, vars
    <3> QED
      BY <3>1, <3>3, <3>9 DEF SettlementTypeOK
  <2> QED
    BY <2>1, <2>2, <2>3
<1> QED
  BY <1>1, <1>2, <1>3, <1>4, <1>5, <1>6, RoundFault DEF vars

\* Storing and reporting.
LEMMA TellingFault ==
  ASSUME FaultInv, NEW s \in Settlers, NEW r \in Requests,
         StorePending(s, r) \/ StoreOutcome(s, r) \/ ReportOutcome(s, r)
  PROVE  FaultInv'
<1> USE DEF FaultInv
<1>1. Current(s, r) /\ UNCHANGED <<transfers, external, pc, job, provider>>
  BY DEF StorePending, StoreOutcome, ReportOutcome, vars
<1>2. QueueInv'
  <2>1. CASE StorePending(s, r)
    BY <2>1, NextQueueInv DEF StorePending
  <2> QED
    BY <1>1, <2>1, SettlementKeepsQueueInv, RowAtHand
<1>3. /\ \A q \in Requests : reqStatus[q] # "NONE" => reqStatus'[q] # "NONE"
      /\ \A q \in Requests : reqStatus'[q] = "EXECUTED" =>
            reqStatus[q] = "EXECUTED" \/ (q = r /\ spc[s] = "store" /\ answer[s] = "CONFIRMED")
  <2>1. CASE StoreOutcome(s, r)
    <3>1. /\ spc[s] = "store" /\ answer[s] \in {"CONFIRMED", "FAILED"}
          /\ reqStatus' = [reqStatus EXCEPT ![r] = SettledStatus(answer[s])]
      BY <2>1 DEF StoreOutcome, SettlementTypeOK
    <3>2. \A q \in Requests \ {r} : reqStatus'[q] = reqStatus[q]
      BY <3>1 DEF QueueInv, TypeOK
    <3>3. reqStatus'[r] = SettledStatus(answer[s])
      BY <3>1 DEF QueueInv, TypeOK
    <3> QED
      BY <3>1, <3>2, <3>3 DEF SettledStatus
  <2>2. CASE StorePending(s, r) \/ ReportOutcome(s, r)
    <3>1. reqStatus' = reqStatus
      BY <2>2 DEF StorePending, ReportOutcome, vars
    <3> QED
      BY <3>1
  <2> QED
    BY <2>1, <2>2
<1>4. /\ \A q \in Requests : notified'[q] = "EXECUTED" =>
            notified[q] = "EXECUTED" \/ (q = r /\ spc[s] = "report" /\ answer[s] = "CONFIRMED")
      /\ \A q \in Requests : \A v \in outcomes'[q] :
            v \in outcomes[q] \/ (q = r /\ spc[s] = "report" /\ v = answer[s])
      /\ outcomes' \in [Requests -> SUBSET {"CONFIRMED", "FAILED"}]
  <2>1. CASE ReportOutcome(s, r)
    <3>1. answer[s] \in {"CONFIRMED", "FAILED"} /\ spc[s] = "report"
      BY <1>1, <2>1, RowAtHand DEF ReportOutcome, SettlementTypeOK
    <3>2. \A q \in Requests \ {r} : notified'[q] = notified[q] /\ outcomes'[q] = outcomes[q]
      BY <2>1 DEF ReportOutcome, QueueInv, TypeOK, SettlementTypeOK
    <3>3. notified'[r] = SettledStatus(answer[s]) /\ outcomes'[r] = outcomes[r] \cup {answer[s]}
      BY <2>1 DEF ReportOutcome, QueueInv, TypeOK, SettlementTypeOK
    <3>4. outcomes' \in [Requests -> SUBSET {"CONFIRMED", "FAILED"}]
      BY <2>1, <3>1 DEF ReportOutcome, SettlementTypeOK
    <3> QED
      BY <3>1, <3>2, <3>3, <3>4 DEF SettledStatus
  <2>2. CASE StorePending(s, r) \/ StoreOutcome(s, r)
    <3>1. notified' = notified /\ outcomes' = outcomes
      BY <2>2 DEF StorePending, StoreOutcome, vars
    <3> QED
      BY <3>1 DEF SettlementTypeOK
  <2> QED
    BY <2>1, <2>2
<1>5. NothingUndone
  BY <1>1, <1>3, MaxAttemptsAssumption
     DEF NothingUndone, Confirmed, Refused, QueueInv, TypeOK
<1>6. OutcomesAreTrue'
  <2>1. spc[s] \in {"store", "report"} => Says(r, answer[s])
    BY <1>1, RowAtHand
  <2>2. \A q \in Requests : Confirmed(q)' = Confirmed(q) /\ Refused(q)' = Refused(q)
    BY <1>1 DEF Confirmed, Refused
  <2> SUFFICES ASSUME NEW q \in Requests, ~OnChain(q)
               PROVE  /\ (\/ reqStatus'[q] = "EXECUTED" \/ notified'[q] = "EXECUTED"
                           \/ "CONFIRMED" \in outcomes'[q]) => Confirmed(q) # {}
                      /\ "FAILED" \in outcomes'[q] => Refused(q) # {}
    BY <2>2 DEF OutcomesAreTrue, OnChain
  <2> QED
    BY <1>3, <1>4, <2>1 DEF OutcomesAreTrue, Says
<1>7. /\ stored' \in [Requests -> Nat]
      /\ \A q \in Requests : stored'[q] <= transfers[q] /\ (external[q] => stored'[q] >= 1)
  <2>1. stored' = stored \/ stored' = [stored EXCEPT ![r] = batch[s][r].id]
    BY DEF StorePending, StoreOutcome, ReportOutcome, StoreMetadata
  <2>2. batch[s][r].id \in 1 .. transfers[r] /\ transfers[r] \in Nat
    BY <1>1, RowAtHand
  <2> QED
    BY <2>1, <2>2 DEF SettlementTypeOK, SubmissionHasTransfer
<1>8. /\ \A t \in Settlers \ {s} :
            batch'[t] = batch[t] /\ spc'[t] = spc[t] /\ answer'[t] = answer[t]
      /\ SettlementTypeOK'
  <2>1. CASE StoreOutcome(s, r)
    BY <1>1, <1>4, <1>7, <2>1 DEF StoreOutcome, SettlementTypeOK
  <2>2. CASE NextRow(s, r)
    BY <1>1, <1>4, <1>7, <2>2 DEF NextRow, SettlementTypeOK
  <2> QED
    BY <2>1, <2>2 DEF StorePending, ReportOutcome
<1>9. RowsHaveTransfers(s)'
  <2>0. \A q \in DOMAIN batch[s] :
            /\ q \in Requests /\ ~OnChain(q) /\ reqStatus'[q] # "NONE"
            /\ batch[s][q].id \in 1 .. transfers[q]
    BY <1>3 DEF BatchHasTransfers, RowsHaveTransfers
  <2>1. CASE StoreOutcome(s, r)
    <3>1. /\ batch' = batch /\ answer' = answer /\ spc'[s] = "report"
          /\ spc[s] = "store" /\ answer[s] # "PENDING"
      BY <2>1 DEF StoreOutcome, SettlementTypeOK
    <3>2. \A q : Current(s, q)' => q = r
      BY <1>1, <3>1, RowAtHand DEF Current
    <3>3. Says(r, answer[s])'
      BY <1>1, <3>1, RowAtHand DEF Says, Confirmed, Refused
    <3> QED
      BY <1>1, <2>0, <3>1, <3>2, <3>3 DEF RowsHaveTransfers, OnChain
  <2>2. CASE NextRow(s, r)
    <3>1. /\ spc'[s] \in {"idle", "query"}
          /\ batch'[s] = [q \in DOMAIN batch[s] \ {r} |-> batch[s][q]]
      BY <2>2 DEF NextRow, SettlementTypeOK
    <3> QED
      BY <1>1, <2>0, <3>1 DEF RowsHaveTransfers, OnChain
  <2> QED
    BY <2>1, <2>2 DEF StorePending, ReportOutcome
<1> QED
  BY <1>1, <1>2, <1>5, <1>6, <1>7, <1>8, <1>9, RoundFault

LEMMA ProviderFault ==
  ASSUME FaultInv, NEW r \in Requests, NEW k \in 1 .. MaxAttempts, ProviderMoves(r, k)
  PROVE  FaultInv'
<1> USE DEF FaultInv
<1>1. UNCHANGED <<vars, metadataVars, spc, batch, answer, outcomes>>
  BY DEF ProviderMoves
<1>2. QueueInv'
  BY <1>1, NextQueueInv
<1>3. PICK status \in {"Broadcasted", "Rejected", "Confirmed", "Failed"} :
        /\ provider' = [provider EXCEPT ![r][k] = status]
        /\ provider[r][k] \in {"Pending", "Broadcasted"}
  BY DEF ProviderMoves
<1>4. \A q \in Requests, j \in 1 .. MaxAttempts :
        provider'[q][j] = provider[q][j] \/ provider[q][j] \in {"Pending", "Broadcasted"}
  BY <1>3 DEF SettlementTypeOK
<1>5. \A q \in Requests : transfers[q] \in 0 .. MaxAttempts /\ transfers'[q] = transfers[q]
  BY <1>1 DEF QueueInv, TypeOK, vars
<1>6. \A q \in Requests : Confirmed(q) \subseteq Confirmed(q)' /\ Refused(q) \subseteq Refused(q)'
  <2> SUFFICES ASSUME NEW q \in Requests, NEW j \in 1 .. transfers[q],
                      provider[q][j] \in {"Confirmed"} \cup RefusedStatuses
               PROVE  provider'[q][j] = provider[q][j]
    BY <1>5 DEF Confirmed, Refused, RefusedStatuses
  <2> QED
    BY <1>4, <1>5, MaxAttemptsAssumption DEF RefusedStatuses
<1>7. NothingUndone
  BY <1>1, <1>5, <1>6, MaxAttemptsAssumption DEF NothingUndone, vars
<1>8. BatchHasTransfers'
  BY <1>1, <1>7, RoundUntouched DEF BatchHasTransfers
<1>9. OutcomesAreTrue'
  <2> SUFFICES ASSUME NEW q \in Requests, ~OnChain(q)
               PROVE  /\ (\/ reqStatus[q] = "EXECUTED" \/ notified[q] = "EXECUTED"
                           \/ "CONFIRMED" \in outcomes[q]) => Confirmed(q)' # {}
                      /\ "FAILED" \in outcomes[q] => Refused(q)' # {}
    BY <1>1 DEF OutcomesAreTrue, OnChain, vars
  <2> QED
    BY <1>6 DEF OutcomesAreTrue
<1>10. SubmissionHasTransfer'
  BY <1>1 DEF SubmissionHasTransfer, OnChain, vars
<1>11. SettlementTypeOK'
  BY <1>1, <1>3 DEF SettlementTypeOK, DfnsTransferStatus
<1> QED
  BY <1>2, <1>8, <1>9, <1>10, <1>11

-----------------------------------------------------------------------------
LEMMA InitFault == SettlementInit => FaultInv
<1> SUFFICES ASSUME SettlementInit PROVE FaultInv
  OBVIOUS
<1>1. QueueInv /\ SettlementTypeOK
  BY InitCInv DEF CInv, SettlementInv
<1>2. SubmissionHasTransfer /\ BatchHasTransfers
  BY DEF SettlementInit, Init, SubmissionHasTransfer, BatchHasTransfers, RowsHaveTransfers, Sent
<1>3. OutcomesAreTrue
  BY DEF SettlementInit, Init, OutcomesAreTrue
<1> QED
  BY <1>1, <1>2, <1>3 DEF FaultInv

LEMMA NextFault == FaultInv /\ [SettlementNext]_allVars => FaultInv'
<1> SUFFICES ASSUME FaultInv, [SettlementNext]_allVars PROVE FaultInv'
  OBVIOUS
<1>1. CASE UNCHANGED allVars
  <2>1. NothingUndone /\ QueueInv'
    BY <1>1, NextQueueInv, MaxAttemptsAssumption
       DEF FaultInv, allVars, vars, NothingUndone, Confirmed, Refused, QueueInv, TypeOK
  <2>2. BatchHasTransfers'
    BY <1>1, <2>1, RoundUntouched DEF allVars, BatchHasTransfers
  <2>3. SettlementTypeOK' /\ SubmissionHasTransfer' /\ OutcomesAreTrue'
    BY <1>1 DEF FaultInv, allVars, vars, SettlementTypeOK, SubmissionHasTransfer,
                OutcomesAreTrue, Confirmed, Refused, OnChain
  <2> QED
    BY <2>1, <2>2, <2>3 DEF FaultInv
<1> QED
  BY <1>1, WorkerFault, AskingFault, TellingFault, ProviderFault
     DEF SettlementNext, Round, Handle

\* The invariant that holds whatever fails: a submission has its transfer, and
\* an answer in hand is what the provider said.
THEOREM FaultInvariance == SettlementSpec => []FaultInv
  BY InitFault, NextFault, PTL DEF SettlementSpec

\* However calls of worker and settlement fail, and however many processes
\* settle: what is stored, logged or told is what the provider said.
THEOREM OutcomesTrue == SettlementSpec => []OutcomesAreTrue
<1>1. FaultInv => OutcomesAreTrue
  BY DEF FaultInv
<1> QED
  BY <1>1, FaultInvariance, PTL

\* A round never asks for, nor writes back, a transfer that does not exist.
THEOREM TransfersTracked == SettlementSpec => []TrackedTransferExists
<1>1. FaultInv => TrackedTransferExists
  BY DEF FaultInv, TrackedTransferExists, SubmissionHasTransfer, BatchHasTransfers,
         RowsHaveTransfers
<1> QED
  BY <1>1, FaultInvariance, PTL
=============================================================================
