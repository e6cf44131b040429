-------------------------- MODULE MultisigApproval --------------------------
(***************************************************************************)
(* The decision on a MULTISIG withdraw request: approveWithdraw and        *)
(* rejectWithdraw of AdminService, and the cron job of                     *)
(* MultisigExpirationScheduler.                                            *)
(*                                                                         *)
(* Every statement of a transaction is a step.  PostgreSQL runs them READ  *)
(* COMMITTED: a read sees the rows committed before it and those of its    *)
(* own transaction, and a conditional update waits for the row and then    *)
(* tests its condition on the committed version.  So the last write and    *)
(* the COMMIT are one step, and a transaction that throws leaves nothing.  *)
(***************************************************************************)
EXTENDS Naturals, Sequences, FiniteSets

CONSTANTS
    Requests,    \* MULTISIG withdraw requests
    Calls,       \* the HTTP calls of admins; also the approval rows they insert
    caller,      \* the admin who makes each call
    target,      \* the request of each call
    Runs,        \* runs of the cron job, of any process, that may overlap
    NoRequest

ASSUME CallsAssumption == IsFiniteSet(Calls) /\ target \in [Calls -> Requests]
ASSUME NoRequestAssumption == NoRequest \notin Requests

VARIABLES
    status,     \* WithdrawRequest.status, up to the hand-over to the queue
    enqueued,   \* its WithdrawalQueue row exists
    expired,    \* expiresAt < now
    approvals,  \* committed AdminApproval rows, named by the call that wrote them
    pc,         \* the statement each call waits for
    runPc,      \* the statement each cron run waits for
    batch,      \* the requests a cron run has found and not yet handled
    current,    \* the request a cron run has just expired
    log,        \* audit events about the end of the approval phase
    notices,    \* statuses emitted to the owner
    crossed,    \* history: pairs of calls whose transactions overlapped
    disturbed   \* history: requests of which a call or a cron run has failed

requestVars == <<status, enqueued>>
runVars == <<runPc, batch, current>>
ghostVars == <<crossed, disturbed>>
vars == <<requestVars, expired, approvals, pc, runVars, log, notices, ghostVars>>

Decisions == {"QUEUED", "REJECTED", "EXPIRED"}
CallLabels == {"new", "find", "create", "count", "record", "queue", "tellRecorded",
               "tellQueued", "auditQueued", "reject", "auditRejected",
               "tellRejected", "done"}
RunLabels == {"idle", "loop", "audit", "tell"}

Active(c) == pc[c] \notin {"new", "done"}

\* The transaction of the call has begun and is not over.
InTransaction(c) == pc[c] \in {"find", "create", "count", "record", "queue", "reject"}

ApprovalsOf(r) == {c \in approvals : target[c] = r}

Goto(c, from, to) == pc[c] = from /\ pc' = [pc EXCEPT ![c] = to]
RunGoto(s, from, to) == runPc[s] = from /\ runPc' = [runPc EXCEPT ![s] = to]
AppendAudit(r, event) == log' = [log EXCEPT ![r] = Append(@, event)]
Emit(r, newStatus) == notices' = [notices EXCEPT ![r] = @ \cup {newStatus}]

\* createMultisigWithdrawRequest has inserted the requests, due in ten minutes.
Init ==
    /\ status = [r \in Requests |-> "PENDING"]
    /\ enqueued = [r \in Requests |-> FALSE]
    /\ expired = [r \in Requests |-> FALSE]
    /\ approvals = {}
    /\ pc = [c \in Calls |-> "new"]
    /\ runPc = [s \in Runs |-> "idle"]
    /\ batch = [s \in Runs |-> {}]
    /\ current = [s \in Runs |-> NoRequest]
    /\ log = [r \in Requests |-> <<>>]
    /\ notices = [r \in Requests |-> {}]
    /\ crossed = {}
    /\ disturbed = {}

\* The ten minutes are over.
Deadline(r) ==
    /\ ~expired[r]
    /\ expired' = [expired EXCEPT ![r] = TRUE]
    /\ UNCHANGED <<requestVars, approvals, pc, runVars, log, notices, ghostVars>>

-----------------------------------------------------------------------------
(* Both handlers read the request first.                                   *)

\* The request is undecided and in time: the call goes on.
Begin(c, first) ==
    /\ status[target[c]] = "PENDING" /\ ~expired[target[c]]
    /\ Goto(c, "new", first)
    /\ crossed' = crossed \cup
           {{c, d} : d \in {e \in Calls : InTransaction(e) /\ target[e] = target[c]}}
    /\ UNCHANGED <<requestVars, expired, approvals, runVars, log, notices, disturbed>>

\* 400: decided, or expired.  EXPIRED is written in the transaction that the
\* exception rolls back, so the request stays as it is.
Refuse(c) ==
    /\ status[target[c]] # "PENDING" \/ expired[target[c]]
    /\ Goto(c, "new", "done")
    /\ UNCHANGED <<requestVars, expired, approvals, runVars, log, notices, ghostVars>>

-----------------------------------------------------------------------------
(* approveWithdraw                                                         *)

BeginApprove(c) == Begin(c, "find")

\* Mutant: an admin may approve again.
FindExistingUnchecked(c) ==
    /\ Goto(c, "find", "create")
    /\ UNCHANGED <<requestVars, expired, approvals, runVars, log, notices, ghostVars>>

\* 400 if this admin has approved before.
FindExisting(c) ==
    /\ Goto(c, "find",
            IF \E d \in ApprovalsOf(target[c]) : caller[d] = caller[c]
            THEN "done" ELSE "create")
    /\ UNCHANGED <<requestVars, expired, approvals, runVars, log, notices, ghostVars>>

\* The row is visible to others only once this transaction commits.
CreateApproval(c) ==
    /\ Goto(c, "create", "count")
    /\ UNCHANGED <<requestVars, expired, approvals, runVars, log, notices, ghostVars>>

\* Mutant: one approval is enough.
CountApprovalsOne(c) ==
    /\ Goto(c, "count",
            IF Cardinality(ApprovalsOf(target[c])) + 1 < 1 THEN "record" ELSE "queue")
    /\ UNCHANGED <<requestVars, expired, approvals, runVars, log, notices, ghostVars>>

\* Mutant: the call's own approval is not counted.
CountApprovalsOfOthers(c) ==
    /\ Goto(c, "count",
            IF Cardinality(ApprovalsOf(target[c])) < 2 THEN "record" ELSE "queue")
    /\ UNCHANGED <<requestVars, expired, approvals, runVars, log, notices, ghostVars>>

\* The committed approvals and the call's own.
CountApprovals(c) ==
    /\ Goto(c, "count",
            IF Cardinality(ApprovalsOf(target[c])) + 1 < 2 THEN "record" ELSE "queue")
    /\ UNCHANGED <<requestVars, expired, approvals, runVars, log, notices, ghostVars>>

CommitRecorded(c) ==
    /\ Goto(c, "record", "tellRecorded")
    /\ approvals' = approvals \cup {c}
    /\ UNCHANGED <<requestVars, expired, runVars, log, notices, ghostVars>>

\* UPDATE ... WHERE status = 'PENDING', queue row, COMMIT.
CommitQueued(c) ==
    /\ Goto(c, "queue", "tellQueued")
    /\ status[target[c]] = "PENDING"
    /\ status' = [status EXCEPT ![target[c]] = "QUEUED"]
    /\ enqueued' = [enqueued EXCEPT ![target[c]] = TRUE]
    /\ approvals' = approvals \cup {c}
    /\ UNCHANGED <<expired, runVars, log, notices, ghostVars>>

\* Mutant: the count of updated rows is not looked at.
CommitUnseenDecision(c) ==
    /\ Goto(c, "queue", "tellQueued")
    /\ status[target[c]] # "PENDING"
    /\ approvals' = approvals \cup {c}
    /\ UNCHANGED <<requestVars, expired, runVars, log, notices, ghostVars>>

\* No row updated: somebody else has decided.  The approval is kept.
CommitAlreadyDecided(c) ==
    /\ Goto(c, "queue", "done")
    /\ status[target[c]] # "PENDING"
    /\ approvals' = approvals \cup {c}
    /\ UNCHANGED <<requestVars, expired, runVars, log, notices, ghostVars>>

TellRecorded(c) ==
    /\ Goto(c, "tellRecorded", "done")
    /\ Emit(target[c], "PENDING")
    /\ UNCHANGED <<requestVars, expired, approvals, runVars, log, ghostVars>>

TellQueued(c) ==
    /\ Goto(c, "tellQueued", "auditQueued")
    /\ Emit(target[c], "QUEUED")
    /\ UNCHANGED <<requestVars, expired, approvals, runVars, log, ghostVars>>

AuditQueued(c) ==
    /\ Goto(c, "auditQueued", "done")
    /\ AppendAudit(target[c], "QUEUED")
    /\ UNCHANGED <<requestVars, expired, approvals, runVars, notices, ghostVars>>

-----------------------------------------------------------------------------
(* rejectWithdraw                                                          *)

BeginReject(c) == Begin(c, "reject")

\* UPDATE ... WHERE status = 'PENDING', COMMIT.
CommitReject(c) ==
    /\ Goto(c, "reject", "auditRejected")
    /\ status[target[c]] = "PENDING"
    /\ status' = [status EXCEPT ![target[c]] = "REJECTED"]
    /\ UNCHANGED <<enqueued, expired, approvals, runVars, log, notices, ghostVars>>

\* 400: no row updated, somebody else has decided.
RejectTooLate(c) ==
    /\ Goto(c, "reject", "done")
    /\ status[target[c]] # "PENDING"
    /\ UNCHANGED <<requestVars, expired, approvals, runVars, log, notices, ghostVars>>

AuditRejected(c) ==
    /\ Goto(c, "auditRejected", "tellRejected")
    /\ AppendAudit(target[c], "REJECTED")
    /\ UNCHANGED <<requestVars, expired, approvals, runVars, notices, ghostVars>>

TellRejected(c) ==
    /\ Goto(c, "tellRejected", "done")
    /\ Emit(target[c], "REJECTED")
    /\ UNCHANGED <<requestVars, expired, approvals, runVars, log, ghostVars>>

\* The append throws, or the process dies after the commit.  A call that fails
\* before leaves nothing and is like one that hangs.
CallFails(c) ==
    /\ pc[c] \in {"tellRecorded", "tellQueued", "auditQueued", "auditRejected", "tellRejected"}
    /\ Goto(c, pc[c], "done")
    /\ disturbed' = disturbed \cup {target[c]}
    /\ UNCHANGED <<requestVars, expired, approvals, runVars, log, notices, crossed>>

-----------------------------------------------------------------------------
(* expirePendingMultisigWithdraws                                          *)

\* Mutant: requests that are still in time are looked up.
OverdueSwapped == {r \in Requests : status[r] = "PENDING" /\ ~expired[r]}

Overdue == {r \in Requests : status[r] = "PENDING" /\ expired[r]}

ExpireFind(s) ==
    /\ Overdue # {}
    /\ RunGoto(s, "idle", "loop")
    /\ batch' = [batch EXCEPT ![s] = Overdue]
    /\ UNCHANGED <<requestVars, expired, approvals, pc, current, log, notices, ghostVars>>

\* No request is overdue: this run does nothing.
ExpireFindsNothing(s) ==
    /\ runPc[s] = "idle"
    /\ Overdue = {}
    /\ UNCHANGED vars

\* Mutant: what was found is expired without looking again.
ExpireNextBlindly(s) ==
    \E r \in batch[s] :
        /\ batch' = [batch EXCEPT ![s] = @ \ {r}]
        /\ RunGoto(s, "loop", "audit")
        /\ status' = [status EXCEPT ![r] = "EXPIRED"]
        /\ current' = [current EXCEPT ![s] = r]
        /\ UNCHANGED <<enqueued, expired, approvals, pc, log, notices, ghostVars>>

\* UPDATE ... WHERE status = 'PENDING'; go on to the next if no row was updated.
ExpireNext(s) ==
    \E r \in batch[s] :
        /\ batch' = [batch EXCEPT ![s] = @ \ {r}]
        /\ IF status[r] = "PENDING"
           THEN /\ RunGoto(s, "loop", "audit")
                /\ status' = [status EXCEPT ![r] = "EXPIRED"]
                /\ current' = [current EXCEPT ![s] = r]
           ELSE RunGoto(s, "loop", "loop") /\ UNCHANGED <<status, current>>
        /\ UNCHANGED <<enqueued, expired, approvals, pc, log, notices, ghostVars>>

ExpireAudit(s) ==
    /\ RunGoto(s, "audit", "tell")
    /\ AppendAudit(current[s], "EXPIRED")
    /\ UNCHANGED <<requestVars, expired, approvals, pc, batch, current, notices, ghostVars>>

ExpireTell(s) ==
    /\ RunGoto(s, "tell", "loop")
    /\ Emit(current[s], "EXPIRED")
    /\ current' = [current EXCEPT ![s] = NoRequest]
    /\ UNCHANGED <<requestVars, expired, approvals, pc, batch, log, ghostVars>>

RunEnds(s) ==
    /\ batch[s] = {}
    /\ RunGoto(s, "loop", "idle")
    /\ UNCHANGED <<requestVars, expired, approvals, pc, batch, current, log, notices, ghostVars>>

\* The append throws, or the process dies before it: the exception leaves the
\* loop, the rest of the batch waits for the next run.
RunFails(s) ==
    /\ RunGoto(s, "audit", "idle")
    /\ batch' = [batch EXCEPT ![s] = {}]
    /\ current' = [current EXCEPT ![s] = NoRequest]
    /\ disturbed' = disturbed \cup {current[s]}
    /\ UNCHANGED <<requestVars, expired, approvals, pc, log, notices, crossed>>

-----------------------------------------------------------------------------
Approve(c) ==
    \/ BeginApprove(c) \/ FindExisting(c) \/ CreateApproval(c) \/ CountApprovals(c)
    \/ CommitRecorded(c) \/ CommitQueued(c) \/ CommitAlreadyDecided(c)
    \/ TellRecorded(c) \/ TellQueued(c) \/ AuditQueued(c)

Reject(c) ==
    \/ BeginReject(c) \/ CommitReject(c) \/ RejectTooLate(c)
    \/ AuditRejected(c) \/ TellRejected(c)

Expire(s) ==
    \/ ExpireFind(s) \/ ExpireNext(s) \/ ExpireAudit(s) \/ ExpireTell(s) \/ RunEnds(s)

Next ==
    \/ \E r \in Requests : Deadline(r)
    \/ \E c \in Calls : Approve(c) \/ Reject(c) \/ Refuse(c) \/ CallFails(c)
    \/ \E s \in Runs : Expire(s) \/ ExpireFindsNothing(s) \/ RunFails(s)

Spec == Init /\ [][Next]_vars

\* Time passes and the job, started every minute, goes on.  Nothing makes an
\* admin act, and a call may hang.
Fairness ==
    /\ \A r \in Requests : WF_vars(Deadline(r))
    /\ \A s \in Runs : WF_vars(Expire(s))

FairSpec == Spec /\ Fairness

-----------------------------------------------------------------------------
(* Properties                                                              *)

TypeOK ==
    /\ status \in [Requests -> {"PENDING"} \cup Decisions]
    /\ enqueued \in [Requests -> BOOLEAN]
    /\ expired \in [Requests -> BOOLEAN]
    /\ approvals \subseteq Calls
    /\ pc \in [Calls -> CallLabels]
    /\ runPc \in [Runs -> RunLabels]
    /\ batch \in [Runs -> SUBSET Requests]
    /\ current \in [Runs -> Requests \cup {NoRequest}]
    /\ log \in [Requests -> Seq(Decisions)]
    /\ notices \in [Requests -> SUBSET ({"PENDING"} \cup Decisions)]
    /\ crossed \subseteq SUBSET Calls
    /\ disturbed \subseteq Requests

\* A request is decided once: approvals, a rejection and the expiry race, and
\* whoever commits first keeps the others from overwriting the decision.
DecisionIsFinal ==
    [][\A r \in Requests : status[r] \in Decisions => status'[r] = status[r]]_vars

\* Calls and cron runs, statement by statement, keep the promises of
\* ApprovalDecision: one decision, a hand-over in one step with the approval
\* that makes it the second, expiry after the deadline only, and a log that
\* tells a decision once it is committed, and once.
Decision == INSTANCE ApprovalDecision WITH
    Approvals <- Calls, about <- target,
    decision <- status, given <- approvals, told <- log,
    due <- {r \in Requests : expired[r]}, queue <- {r \in Requests : enqueued[r]}
ImplementsDecision == Decision!Spec

\* Whatever is in the queue to be paid out was neither rejected nor expired
\* and has two committed approvals.
QueuedIsApproved ==
    \A r \in Requests :
        enqueued[r] => status[r] = "QUEUED" /\ Cardinality(ApprovalsOf(r)) >= 2

\* Nobody is at work on the request.
Quiet(r) ==
    /\ \A c \in Calls : target[c] = r => ~Active(c)
    /\ \A s \in Runs : current[s] # r

\* The audit log and the notices are written outside of the transactions.  The
\* log still tells no end but the one committed, and tells it once; and unless
\* a step failed the decision reaches log and owner, whoever took it.
DecisionReported ==
    \A r \in Requests :
        /\ log[r] \in {<<>>, <<status[r]>>}
        /\ status[r] \in Decisions /\ Quiet(r) /\ r \notin disturbed =>
               log[r] = <<status[r]>> /\ status[r] \in notices[r]

ApprovingAdmins(r) == {caller[c] : c \in ApprovalsOf(r)}

\* What the documents promise: a request that is neither rejected nor expired
\* is handed over exactly when two different admins have approved it.  The code
\* breaks it both ways, with no failure needed: one admin who approves twice at
\* once queues the request alone, and two who approve at once leave it PENDING.
TwoOfTwo ==
    \A r \in Requests :
        status[r] \notin {"REJECTED", "EXPIRED"} =>
            (enqueued[r] <=> Cardinality(ApprovingAdmins(r)) >= 2)

\* How far the first half is kept: two different admins stand behind a queued
\* request unless two transactions of one admin overlapped.  Neither sees the
\* row of the other then, and no unique key is on request and admin.
TwoAdminsUnlessCrossed ==
    \A r \in Requests :
        /\ enqueued[r]
        /\ \A c, d \in ApprovalsOf(r) : {c, d} \in crossed => caller[c] # caller[d]
        => Cardinality(ApprovingAdmins(r)) >= 2

\* And the second half: once two admins have approved a request it does not wait
\* any longer unless their transactions overlapped: each counts its own row only.
DecidedUnlessCrossed ==
    \A r \in Requests :
        (\E c, d \in ApprovalsOf(r) : caller[c] # caller[d] /\ {c, d} \notin crossed)
            => status[r] # "PENDING"

\* Requests that the admins leave alone expire, also when a run of the job stops
\* half way through its batch: time and again none is left without a decision.
EventuallyDecided == []<>(\A r \in Requests : status[r] # "PENDING")
=============================================================================
