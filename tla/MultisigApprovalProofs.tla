----------------------- MODULE MultisigApprovalProofs -----------------------
(***************************************************************************)
(* The decision on a MULTISIG request, for any requests, any finite number *)
(* of admin calls and any number of overlapping runs of the cron job.      *)
(***************************************************************************)
EXTENDS MultisigApproval, FiniteSetTheorems, TLAPS

-----------------------------------------------------------------------------
(* Cardinalities as elements                                               *)

LEMMA ApprovalsFinite ==
    ASSUME TypeOK, NEW r \in Requests
    PROVE  IsFiniteSet(ApprovalsOf(r)) /\ Cardinality(ApprovalsOf(r)) \in Nat
<1>1. ApprovalsOf(r) \subseteq Calls
  BY DEF TypeOK, ApprovalsOf
<1> QED
  BY <1>1, CallsAssumption, FS_Subset, FS_CardinalityType

LEMMA TwoElements ==
    ASSUME NEW S, IsFiniteSet(S), NEW a \in S, NEW b \in S, a # b
    PROVE  Cardinality(S) >= 2
<1>1. IsFiniteSet({a}) /\ Cardinality({a}) = 1
  BY FS_Singleton
<1>2. Cardinality({a} \cup {b}) = 2
  BY <1>1, FS_AddElement
<1>3. {a} \cup {b} \subseteq S
  OBVIOUS
<1> QED
  BY <1>2, <1>3, FS_Subset, FS_CardinalityType

-----------------------------------------------------------------------------
(* Types and the finality of a decision                                    *)

\* A run has a request in hand exactly between its update and its notice.
RunsKnow == \A s \in Runs : runPc[s] \in {"audit", "tell"} <=> current[s] # NoRequest

LEMMA TypeStep ==
    ASSUME TypeOK, RunsKnow, [Next]_vars
    PROVE  TypeOK'
<1> USE CallsAssumption DEF TypeOK, CallLabels, RunLabels, Decisions, Goto, RunGoto, requestVars,
        runVars, ghostVars
<1>1. ASSUME NEW r \in Requests, Deadline(r) PROVE TypeOK'
  BY <1>1 DEF Deadline
<1>2. ASSUME NEW c \in Calls, NEW to \in CallLabels, Goto(c, pc[c], to),
             status' \in [Requests -> {"PENDING"} \cup Decisions],
             enqueued' \in [Requests -> BOOLEAN], approvals' \subseteq Calls,
             log' \in [Requests -> Seq(Decisions)],
             notices' \in [Requests -> SUBSET ({"PENDING"} \cup Decisions)],
             crossed' \subseteq SUBSET Calls, disturbed' \subseteq Requests,
             UNCHANGED <<expired, runVars>>
      PROVE  TypeOK'
  BY <1>2
<1>3. ASSUME NEW c \in Calls, NEW first \in {"find", "reject"}, Begin(c, first) PROVE TypeOK'
  <2>1. ASSUME NEW x \in crossed' PROVE x \subseteq Calls
    <3>1. x \in crossed \/ \E d \in Calls : x = {c, d}
      BY <1>3 DEF Begin
    <3> QED
      BY <3>1
  <2> QED
    BY <1>2, <1>3, <2>1 DEF Begin
<1>4. ASSUME NEW c \in Calls, Refuse(c) \/ CreateApproval(c) PROVE TypeOK'
  BY <1>2, <1>4 DEF Refuse, CreateApproval
<1>5. ASSUME NEW c \in Calls, FindExisting(c) \/ CountApprovals(c) PROVE TypeOK'
  <2>1. PICK to \in CallLabels : Goto(c, pc[c], to)
    BY <1>5 DEF FindExisting, CountApprovals
  <2> QED
    BY <1>2, <1>5, <2>1 DEF FindExisting, CountApprovals
<1>6. ASSUME NEW c \in Calls, CommitRecorded(c) \/ CommitAlreadyDecided(c) PROVE TypeOK'
  <2>1. PICK to \in CallLabels : Goto(c, pc[c], to)
    BY <1>6 DEF CommitRecorded, CommitAlreadyDecided
  <2>2. approvals' \subseteq Calls
    BY <1>6 DEF CommitRecorded, CommitAlreadyDecided
  <2> QED
    BY <1>2, <1>6, <2>1, <2>2 DEF CommitRecorded, CommitAlreadyDecided
<1>7. ASSUME NEW c \in Calls, CommitQueued(c) PROVE TypeOK'
  BY <1>2, <1>7 DEF CommitQueued
<1>8. ASSUME NEW c \in Calls, CommitReject(c) \/ RejectTooLate(c) \/ CallFails(c) PROVE TypeOK'
  <2>1. PICK to \in CallLabels : Goto(c, pc[c], to)
    BY <1>8 DEF CommitReject, RejectTooLate, CallFails
  <2>2. status' \in [Requests -> {"PENDING"} \cup Decisions]
    BY <1>8 DEF CommitReject, RejectTooLate, CallFails
  <2>3. disturbed' \subseteq Requests
    BY <1>8 DEF CommitReject, RejectTooLate, CallFails
  <2> QED
    BY <1>2, <1>8, <2>1, <2>2, <2>3 DEF CommitReject, RejectTooLate, CallFails
<1>9. ASSUME NEW c \in Calls, TellRecorded(c) \/ TellQueued(c) \/ TellRejected(c) PROVE TypeOK'
  <2>1. PICK new \in {"PENDING"} \cup Decisions : Emit(target[c], new)
    BY <1>9 DEF TellRecorded, TellQueued, TellRejected
  <2>2. notices' \in [Requests -> SUBSET ({"PENDING"} \cup Decisions)]
    BY <2>1 DEF Emit
  <2> QED
    BY <1>2, <1>9, <2>2 DEF TellRecorded, TellQueued, TellRejected
<1>17. ASSUME NEW c \in Calls, AuditQueued(c) \/ AuditRejected(c) PROVE TypeOK'
  <2>1. PICK event \in Decisions : AppendAudit(target[c], event)
    BY <1>17 DEF AuditQueued, AuditRejected
  <2>2. log' \in [Requests -> Seq(Decisions)]
    BY <2>1 DEF AppendAudit
  <2> QED
    BY <1>2, <1>17, <2>2 DEF AuditQueued, AuditRejected
<1>10. ASSUME NEW s \in Runs, ExpireFind(s) PROVE TypeOK'
  BY <1>10 DEF ExpireFind, Overdue
<1>11. ASSUME NEW s \in Runs, ExpireNext(s) PROVE TypeOK'
  <2>1. PICK r \in batch[s] :
            /\ batch' = [batch EXCEPT ![s] = @ \ {r}]
            /\ IF status[r] = "PENDING"
               THEN /\ runPc' = [runPc EXCEPT ![s] = "audit"]
                    /\ status' = [status EXCEPT ![r] = "EXPIRED"]
                    /\ current' = [current EXCEPT ![s] = r]
               ELSE runPc' = [runPc EXCEPT ![s] = "loop"] /\ UNCHANGED <<status, current>>
    BY <1>11 DEF ExpireNext
  <2>2. batch' \in [Runs -> SUBSET Requests]
    BY <2>1
  <2>3. r \in Requests
    OBVIOUS
  <2>4. /\ status' \in [Requests -> {"PENDING"} \cup Decisions]
        /\ runPc' \in [Runs -> RunLabels]
        /\ current' \in [Runs -> Requests \cup {NoRequest}]
    <3>1. CASE status[r] = "PENDING"
      <4>1. /\ runPc' = [runPc EXCEPT ![s] = "audit"]
            /\ status' = [status EXCEPT ![r] = "EXPIRED"]
            /\ current' = [current EXCEPT ![s] = r]
        BY <2>1, <3>1
      <4>2. status' \in [Requests -> {"PENDING"} \cup Decisions]
        BY <4>1
      <4>3. current' \in [Runs -> Requests \cup {NoRequest}]
        BY <2>3, <4>1
      <4> QED
        BY <4>1, <4>2, <4>3
    <3>2. CASE status[r] # "PENDING"
      BY <2>1, <3>2
    <3> QED
      BY <3>1, <3>2
  <2> QED
    BY <1>11, <2>2, <2>4 DEF ExpireNext
<1>12. ASSUME NEW s \in Runs, ExpireAudit(s) PROVE TypeOK'
  BY <1>12 DEF RunsKnow, ExpireAudit, AppendAudit
<1>13. ASSUME NEW s \in Runs, ExpireTell(s) PROVE TypeOK'
  BY <1>13 DEF RunsKnow, ExpireTell, Emit
<1>14. ASSUME NEW s \in Runs, RunEnds(s) PROVE TypeOK'
  BY <1>14 DEF RunEnds
<1>15. ASSUME NEW s \in Runs, RunFails(s) PROVE TypeOK'
  BY <1>15 DEF RunsKnow, RunFails
<1>16. CASE UNCHANGED vars
  BY <1>16 DEF vars
<1> QED
  BY <1>1, <1>17, <1>3, <1>4, <1>5, <1>6, <1>7, <1>8, <1>9, <1>10, <1>11, <1>12, <1>13,
     <1>14, <1>15, <1>16
     DEF Next, Approve, Reject, Expire, BeginApprove, BeginReject, ExpireFindsNothing

-----------------------------------------------------------------------------
(* Who writes the status                                                   *)

\* Everybody who decides a request finds it undecided in the same step.
LEMMA StatusStep ==
    ASSUME TypeOK, [Next]_vars, NEW r \in Requests, status'[r] # status[r]
    PROVE  status[r] = "PENDING" /\ status'[r] # "PENDING"
<1> USE DEF TypeOK, requestVars
<1>1. ASSUME NEW c \in Calls, CommitQueued(c) PROVE status[r] = "PENDING" /\ status'[r] # "PENDING"
  BY <1>1, CallsAssumption DEF CommitQueued
<1>2. ASSUME NEW c \in Calls, CommitReject(c) PROVE status[r] = "PENDING" /\ status'[r] # "PENDING"
  BY <1>2, CallsAssumption DEF CommitReject
<1>3. ASSUME NEW s \in Runs, ExpireNext(s) PROVE status[r] = "PENDING" /\ status'[r] # "PENDING"
  BY <1>3 DEF ExpireNext
<1>4. ASSUME NEW c \in Calls,
             \/ \E first \in {"find", "reject"} : Begin(c, first)
             \/ Refuse(c) \/ FindExisting(c) \/ CreateApproval(c) \/ CountApprovals(c)
             \/ CommitRecorded(c) \/ CommitAlreadyDecided(c) \/ TellRecorded(c) \/ TellQueued(c)
             \/ AuditQueued(c) \/ RejectTooLate(c) \/ AuditRejected(c) \/ TellRejected(c)
             \/ CallFails(c)
      PROVE  UNCHANGED status
  BY <1>4 DEF Begin, Refuse, FindExisting, CreateApproval, CountApprovals, CommitRecorded,
     CommitAlreadyDecided, TellRecorded, TellQueued, AuditQueued, RejectTooLate, AuditRejected,
     TellRejected, CallFails
<1>5. ASSUME NEW s \in Runs,
             \/ ExpireFind(s) \/ ExpireAudit(s) \/ ExpireTell(s) \/ RunEnds(s) \/ RunFails(s)
      PROVE  UNCHANGED status
  BY <1>5 DEF ExpireFind, ExpireAudit, ExpireTell, RunEnds, RunFails
<1>6. ASSUME (\E q \in Requests : Deadline(q)) \/ UNCHANGED vars PROVE UNCHANGED status
  BY <1>6 DEF Deadline, vars
<1> QED
  BY <1>1, <1>2, <1>3, <1>4, <1>5, <1>6
     DEF Next, Approve, Reject, Expire, BeginApprove, BeginReject, ExpireFindsNothing

-----------------------------------------------------------------------------
(* Approvals                                                               *)

Early == {"new", "find", "create", "count", "record", "queue", "reject"}

\* An approval row is the last thing a call writes before it commits.
UncommittedIsUnseen == \A c \in Calls : pc[c] \in Early => c \notin approvals

\* A call that is about to queue has counted an approval besides its own.
CountedOther ==
    \A c \in Calls : pc[c] = "queue" => \E d \in Calls : d \in ApprovalsOf(target[c])

\* Transactions about one request that are open at once are known to overlap.
OverlapsNoted ==
    \A c, d \in Calls :
        c # d /\ InTransaction(c) /\ InTransaction(d) /\ target[c] = target[d] => {c, d} \in crossed

\* A call past the check has at most approvals of its admin that it overlapped.
FoundNone ==
    \A c \in Calls : pc[c] \in {"create", "count", "record", "queue"} =>
        \A d \in Calls : d \in ApprovalsOf(target[c]) /\ caller[d] = caller[c] => {c, d} \in crossed

\* A call that counted only itself overlapped all who have approved since.
CountedAlone ==
    \A c \in Calls : pc[c] = "record" =>
        \A d \in Calls : d \in ApprovalsOf(target[c]) => {c, d} \in crossed /\ {d, c} \in crossed

\* QueuedIsApproved and TwoAdminsUnlessCrossed, with their approvals in the place of counts.
QueuedHasTwo ==
    \A r \in Requests : enqueued[r] =>
        status[r] = "QUEUED" /\ \E c, d \in Calls : c # d /\ {c, d} \subseteq ApprovalsOf(r)

TwoAdminsNamed ==
    \A r \in Requests :
        /\ enqueued[r]
        /\ \A c, d \in ApprovalsOf(r) : {c, d} \in crossed => caller[c] # caller[d]
        => \E c, d \in Calls : {c, d} \subseteq ApprovalsOf(r) /\ caller[c] # caller[d]

ApprovalInv ==
    /\ UncommittedIsUnseen /\ CountedOther /\ OverlapsNoted /\ FoundNone /\ CountedAlone
    /\ QueuedHasTwo /\ TwoAdminsNamed /\ DecidedUnlessCrossed

\* A step that leaves approvals and hand-over alone, and no call further than
\* it was on its way to an approval.
LEMMA ApprovalsUntouched ==
    ASSUME TypeOK, ApprovalInv, [Next]_vars,
           UNCHANGED <<approvals, enqueued, crossed>>,
           \A c \in Calls : pc'[c] = pc[c] \/ pc'[c] \notin Early
    PROVE  ApprovalInv'
<1>1. \A r \in Requests : status[r] # "PENDING" => status'[r] = status[r]
  BY StatusStep
<1>2. \A r : ApprovalsOf(r)' = ApprovalsOf(r)
  BY DEF ApprovalsOf
<1>3. UncommittedIsUnseen'
  BY DEF ApprovalInv, UncommittedIsUnseen
<1>4. CountedOther'
  BY <1>2 DEF ApprovalInv, CountedOther, Early
<1>5. OverlapsNoted'
  BY DEF ApprovalInv, OverlapsNoted, InTransaction, Early
<1>6. FoundNone'
  BY <1>2 DEF ApprovalInv, FoundNone, Early
<1>7. CountedAlone'
  BY <1>2 DEF ApprovalInv, CountedAlone, Early
<1>8. QueuedHasTwo'
  BY <1>1, <1>2 DEF ApprovalInv, QueuedHasTwo
<1>9. TwoAdminsNamed'
  BY <1>2 DEF ApprovalInv, TwoAdminsNamed
<1>10. DecidedUnlessCrossed'
  BY <1>1, <1>2 DEF ApprovalInv, DecidedUnlessCrossed
<1> QED
  BY <1>3, <1>4, <1>5, <1>6, <1>7, <1>8, <1>9, <1>10 DEF ApprovalInv

\* Begin: the overlaps with the calls in progress are noted.
LEMMA BeginStep ==
    ASSUME TypeOK, ApprovalInv, NEW c \in Calls, NEW first \in {"find", "reject"}, Begin(c, first)
    PROVE  ApprovalInv'
<1>1. /\ UNCHANGED <<approvals, enqueued, status>>
      /\ pc[c] = "new" /\ pc' = [pc EXCEPT ![c] = first]
  BY DEF Begin, Goto, requestVars
<1>2. /\ crossed \subseteq crossed'
      /\ \A d \in Calls : InTransaction(d) /\ target[d] = target[c] =>
             {c, d} \in crossed' /\ {d, c} \in crossed'
  <2>1. \A d \in Calls : InTransaction(d) /\ target[d] = target[c] => {c, d} \in crossed'
    BY DEF Begin
  <2>2. \A d : {c, d} = {d, c}
    OBVIOUS
  <2> QED
    BY <2>1, <2>2 DEF Begin
<1>3. pc'[c] = first /\ \A d \in Calls \ {c} : pc'[d] = pc[d]
  BY <1>1 DEF TypeOK
<1>4. \A r : ApprovalsOf(r)' = ApprovalsOf(r)
  BY <1>1 DEF ApprovalsOf
<1>5. UncommittedIsUnseen'
  BY <1>1, <1>3 DEF ApprovalInv, UncommittedIsUnseen, Early
<1>6. CountedOther'
  BY <1>3, <1>4 DEF ApprovalInv, CountedOther
<1>7. OverlapsNoted'
  BY <1>2, <1>3 DEF ApprovalInv, OverlapsNoted, InTransaction
<1>8. FoundNone'
  BY <1>2, <1>3, <1>4 DEF ApprovalInv, FoundNone
<1>9. CountedAlone'
  BY <1>2, <1>3, <1>4 DEF ApprovalInv, CountedAlone
<1>10. QueuedHasTwo'
  BY <1>1, <1>4 DEF ApprovalInv, QueuedHasTwo
<1>11. TwoAdminsNamed'
  BY <1>1, <1>2, <1>4 DEF ApprovalInv, TwoAdminsNamed
<1>12. DecidedUnlessCrossed'
  BY <1>1, <1>2, <1>4 DEF ApprovalInv, DecidedUnlessCrossed
<1> QED
  BY <1>5, <1>6, <1>7, <1>8, <1>9, <1>10, <1>11, <1>12 DEF ApprovalInv

\* The statements between the first read and the last write.
LEMMA ReadStep ==
    ASSUME TypeOK, ApprovalInv, NEW c \in Calls,
           FindExisting(c) \/ CreateApproval(c) \/ CountApprovals(c)
    PROVE  ApprovalInv'
<1>1. UNCHANGED <<approvals, enqueued, status, crossed>>
  BY DEF FindExisting, CreateApproval, CountApprovals, requestVars, ghostVars
<1>2. /\ pc[c] \in {"find", "create", "count"}
      /\ pc'[c] \in {"done", "create", "count", "record", "queue"}
      /\ \A d \in Calls \ {c} : pc'[d] = pc[d]
  BY DEF FindExisting, CreateApproval, CountApprovals, Goto, TypeOK
<1>3. \A r : ApprovalsOf(r)' = ApprovalsOf(r)
  BY <1>1 DEF ApprovalsOf
<1>4. target[c] \in Requests
  BY CallsAssumption
<1>5. pc'[c] = "queue" => \E d \in Calls : d \in ApprovalsOf(target[c])
  <2> SUFFICES ASSUME pc'[c] = "queue" PROVE ApprovalsOf(target[c]) # {}
    BY DEF ApprovalsOf, TypeOK
  <2>1. ~(Cardinality(ApprovalsOf(target[c])) + 1 < 2)
    BY DEF FindExisting, CreateApproval, CountApprovals, Goto, TypeOK
  <2> QED
    BY <2>1, FS_EmptySet
<1>6. pc'[c] = "record" => ApprovalsOf(target[c]) = {}
  <2> SUFFICES ASSUME pc'[c] = "record" PROVE ApprovalsOf(target[c]) = {}
    OBVIOUS
  <2>1. Cardinality(ApprovalsOf(target[c])) + 1 < 2
    BY DEF FindExisting, CreateApproval, CountApprovals, Goto, TypeOK
  <2>2. Cardinality(ApprovalsOf(target[c])) = 0
    BY <1>4, <2>1, ApprovalsFinite
  <2> QED
    BY <1>4, <2>2, ApprovalsFinite, FS_EmptySet
<1>7. pc[c] = "find" /\ pc'[c] # "done" => \A d \in ApprovalsOf(target[c]) : caller[d] # caller[c]
  BY DEF FindExisting, CreateApproval, CountApprovals, Goto, TypeOK
<1>8. UncommittedIsUnseen'
  BY <1>1, <1>2 DEF ApprovalInv, UncommittedIsUnseen, Early
<1>9. CountedOther'
  BY <1>2, <1>3, <1>5 DEF ApprovalInv, CountedOther
<1>10. OverlapsNoted'
  BY <1>1, <1>2 DEF ApprovalInv, OverlapsNoted, InTransaction
<1>11. FoundNone'
  BY <1>1, <1>2, <1>3, <1>7 DEF ApprovalInv, FoundNone
<1>12. CountedAlone'
  BY <1>1, <1>2, <1>3, <1>6 DEF ApprovalInv, CountedAlone
<1>13. QueuedHasTwo'
  BY <1>1, <1>3 DEF ApprovalInv, QueuedHasTwo
<1>14. TwoAdminsNamed'
  BY <1>1, <1>3 DEF ApprovalInv, TwoAdminsNamed
<1>15. DecidedUnlessCrossed'
  BY <1>1, <1>3 DEF ApprovalInv, DecidedUnlessCrossed
<1> QED
  BY <1>8, <1>9, <1>10, <1>11, <1>12, <1>13, <1>14, <1>15 DEF ApprovalInv

\* The commit of an approval: whoever has not counted it overlaps it.
LEMMA CommitStep ==
    ASSUME TypeOK, ApprovalInv, [Next]_vars, NEW c \in Calls,
           CommitRecorded(c) \/ CommitQueued(c) \/ CommitAlreadyDecided(c)
    PROVE  ApprovalInv'
<1> DEFINE r == target[c]
<1>1. /\ r \in Requests /\ pc[c] \in {"record", "queue"}
      /\ approvals' = approvals \cup {c}
      /\ UNCHANGED crossed
      /\ pc'[c] \in {"tellRecorded", "tellQueued", "done"}
      /\ \A d \in Calls \ {c} : pc'[d] = pc[d]
  BY CallsAssumption
     DEF CommitRecorded, CommitQueued, CommitAlreadyDecided, Goto, TypeOK, ghostVars
<1>2. \A d : d \in ApprovalsOf(r)' <=> d \in ApprovalsOf(r) \/ d = c
  BY <1>1 DEF ApprovalsOf
<1>3. \A q : q # r => ApprovalsOf(q)' = ApprovalsOf(q)
  BY <1>1 DEF ApprovalsOf
<1>4. InTransaction(c) /\ \A d \in Calls : InTransaction(d)' => InTransaction(d)
  BY <1>1 DEF InTransaction
<1>5. \A q \in Requests : status[q] # "PENDING" => status'[q] = status[q]
  BY StatusStep
<1>6. c \notin ApprovalsOf(r)
  BY <1>1 DEF ApprovalInv, UncommittedIsUnseen, Early, ApprovalsOf
<1>7. UncommittedIsUnseen'
  BY <1>1 DEF ApprovalInv, UncommittedIsUnseen, Early
<1>8. CountedOther'
  BY <1>1, <1>2, <1>3 DEF ApprovalInv, CountedOther
<1>9. OverlapsNoted'
  BY <1>1, <1>4 DEF ApprovalInv, OverlapsNoted
<1>10. \A d \in Calls : d # c /\ InTransaction(d) /\ target[d] = r => {c, d} \in crossed /\ {d, c} \in crossed
  BY <1>4 DEF ApprovalInv, OverlapsNoted
<1>11. FoundNone'
  <2> SUFFICES ASSUME NEW e \in Calls, pc'[e] \in {"create", "count", "record", "queue"},
                      NEW d \in Calls, d \in ApprovalsOf(target[e])', caller[d] = caller[e]
               PROVE  {e, d} \in crossed'
    BY DEF FoundNone
  <2>1. e # c /\ pc[e] = pc'[e] /\ InTransaction(e)
    BY <1>1 DEF InTransaction
  <2>2. CASE d \in ApprovalsOf(target[e])
    BY <1>1, <2>1, <2>2 DEF ApprovalInv, FoundNone
  <2>3. CASE d = c /\ target[e] = r
    BY <1>1, <1>10, <2>1, <2>3
  <2> QED
    BY <1>2, <1>3, <2>2, <2>3
<1>12. CountedAlone'
  <2> SUFFICES ASSUME NEW e \in Calls, pc'[e] = "record",
                      NEW d \in Calls, d \in ApprovalsOf(target[e])'
               PROVE  {e, d} \in crossed' /\ {d, e} \in crossed'
    BY DEF CountedAlone
  <2>1. e # c /\ pc[e] = pc'[e] /\ InTransaction(e)
    BY <1>1 DEF InTransaction
  <2>2. CASE d \in ApprovalsOf(target[e])
    BY <1>1, <2>1, <2>2 DEF ApprovalInv, CountedAlone
  <2>3. CASE d = c /\ target[e] = r
    BY <1>1, <1>10, <2>1, <2>3
  <2> QED
    BY <1>2, <1>3, <2>2, <2>3
<1>13. CASE CommitQueued(c)
  <2>1. PICK d \in Calls : d \in ApprovalsOf(r) /\ d # c
    BY <1>6, <1>13 DEF ApprovalInv, CountedOther, CommitQueued, Goto
  <2>2. /\ status'[r] = "QUEUED"
        /\ \A q \in Requests \ {r} : enqueued'[q] = enqueued[q]
    BY <1>1, <1>13 DEF CommitQueued, TypeOK
  <2>3. QueuedHasTwo'
    <3> SUFFICES ASSUME NEW q \in Requests, enqueued'[q]
                 PROVE  /\ status'[q] = "QUEUED"
                        /\ \E a, b \in Calls : a # b /\ {a, b} \subseteq ApprovalsOf(q)'
      BY DEF QueuedHasTwo
    <3>1. CASE q = r
      <4>1. {c, d} \subseteq ApprovalsOf(r)'
        BY <1>2, <2>1
      <4> QED
        BY <3>1, <4>1, <2>1, <2>2
    <3>2. CASE q # r
      BY <3>2, <1>3, <1>5, <2>2 DEF ApprovalInv, QueuedHasTwo
    <3> QED
      BY <3>1, <3>2
  <2>4. TwoAdminsNamed'
    <3> SUFFICES ASSUME NEW q \in Requests, enqueued'[q],
                        \A a, b \in ApprovalsOf(q)' : {a, b} \in crossed' => caller[a] # caller[b]
                 PROVE  \E a, b \in Calls : {a, b} \subseteq ApprovalsOf(q)' /\ caller[a] # caller[b]
      BY DEF TwoAdminsNamed
    <3>1. CASE q = r
      <4>1. {c, d} \subseteq ApprovalsOf(r)' /\ d \in ApprovalsOf(r)' /\ c \in ApprovalsOf(r)'
        BY <1>2, <2>1
      <4>2. caller[d] = caller[c] => {c, d} \in crossed
        BY <1>13, <2>1 DEF ApprovalInv, FoundNone, CommitQueued, Goto
      <4>3. caller[d] # caller[c]
        BY <3>1, <4>1, <4>2, <1>1
      <4> QED
        BY <3>1, <4>1, <4>3
    <3>2. CASE q # r
      BY <3>2, <1>1, <1>3, <2>2 DEF ApprovalInv, TwoAdminsNamed
    <3> QED
      BY <3>1, <3>2
  <2>5. DecidedUnlessCrossed'
    BY <1>1, <1>3, <1>5, <2>2 DEF ApprovalInv, DecidedUnlessCrossed
  <2> QED
    BY <1>7, <1>8, <1>9, <1>11, <1>12, <2>3, <2>4, <2>5 DEF ApprovalInv
<1>14. CASE CommitRecorded(c) \/ CommitAlreadyDecided(c)
  <2>1. UNCHANGED <<status, enqueued>>
    BY <1>14 DEF CommitRecorded, CommitAlreadyDecided, requestVars
  <2>2. \A q \in Requests : ApprovalsOf(q) \subseteq ApprovalsOf(q)'
    BY <1>2, <1>3
  <2>3. QueuedHasTwo'
    BY <2>1, <2>2 DEF ApprovalInv, QueuedHasTwo
  <2>4. TwoAdminsNamed'
    BY <1>1, <2>1, <2>2 DEF ApprovalInv, TwoAdminsNamed
  <2>5. status[r] = "PENDING" => \A d \in ApprovalsOf(r) : {c, d} \in crossed /\ {d, c} \in crossed
    BY <1>14 DEF CommitRecorded, CommitAlreadyDecided, Goto, ApprovalInv, CountedAlone,
                 ApprovalsOf, TypeOK
  <2>6. DecidedUnlessCrossed'
    <3> SUFFICES ASSUME NEW q \in Requests, status'[q] = "PENDING",
                        NEW a \in ApprovalsOf(q)', NEW b \in ApprovalsOf(q)',
                        caller[a] # caller[b]
                 PROVE  {a, b} \in crossed'
      BY DEF DecidedUnlessCrossed
    <3>1. CASE a \in ApprovalsOf(q) /\ b \in ApprovalsOf(q)
      BY <3>1, <1>1, <2>1 DEF ApprovalInv, DecidedUnlessCrossed
    <3>2. CASE q = r /\ (a = c \/ b = c)
      BY <3>2, <1>1, <1>2, <2>1, <2>5
    <3> QED
      BY <3>1, <3>2, <1>2, <1>3
  <2> QED
    BY <1>7, <1>8, <1>9, <1>11, <1>12, <2>3, <2>4, <2>6 DEF ApprovalInv
<1> QED
  BY <1>13, <1>14

LEMMA ApprovalStep ==
    ASSUME TypeOK, ApprovalInv, [Next]_vars
    PROVE  ApprovalInv'
<1>1. ASSUME NEW c \in Calls,
             \/ Refuse(c) \/ TellRecorded(c) \/ TellQueued(c) \/ AuditQueued(c) \/ CommitReject(c)
             \/ RejectTooLate(c) \/ AuditRejected(c) \/ TellRejected(c) \/ CallFails(c)
      PROVE  ApprovalInv'
  <2>1. UNCHANGED <<approvals, enqueued, crossed>>
    BY <1>1 DEF Refuse, TellRecorded, TellQueued, AuditQueued, CommitReject, RejectTooLate,
       AuditRejected, TellRejected, CallFails, requestVars, ghostVars
  <2>2. PICK to \in CallLabels :
            pc' = [pc EXCEPT ![c] = to] /\ to \notin Early
    BY <1>1 DEF Refuse, TellRecorded, TellQueued, AuditQueued, CommitReject, RejectTooLate,
       AuditRejected, TellRejected, CallFails, Goto, Early, CallLabels
  <2> QED
    BY <2>1, <2>2, ApprovalsUntouched DEF TypeOK
<1>2. ASSUME UNCHANGED <<approvals, enqueued, crossed, pc>> PROVE ApprovalInv'
  BY <1>2, ApprovalsUntouched
<1>3. ASSUME NEW s \in Runs, Expire(s) \/ ExpireFindsNothing(s) \/ RunFails(s) PROVE ApprovalInv'
  BY <1>2, <1>3 DEF Expire, ExpireFind, ExpireNext, ExpireAudit, ExpireTell, RunEnds,
     ExpireFindsNothing, RunFails, requestVars, ghostVars, vars
<1>4. ASSUME (\E r \in Requests : Deadline(r)) \/ UNCHANGED vars PROVE ApprovalInv'
  BY <1>2, <1>4 DEF Deadline, requestVars, ghostVars, vars
<1> QED
  BY <1>1, <1>3, <1>4, BeginStep, ReadStep, CommitStep
     DEF Next, Approve, Reject, BeginApprove, BeginReject

-----------------------------------------------------------------------------
(* Reports                                                                 *)

Reporting == {"tellQueued", "auditQueued", "auditRejected", "tellRejected"}

\* Who took the decision, and is not through with telling it.
CallReports(c, r) == target[c] = r /\ pc[c] \in Reporting
Silent(r) ==
    /\ \A c \in Calls : ~CallReports(c, r)
    /\ \A s \in Runs : current[s] # r

\* A call that reports knows the decision and how far the log has come.
CallsKnow ==
    \A c \in Calls :
        /\ pc[c] \in {"tellQueued", "auditQueued"} => status[target[c]] = "QUEUED"
        /\ pc[c] \in {"auditRejected", "tellRejected"} => status[target[c]] = "REJECTED"
        /\ pc[c] \in {"tellQueued", "auditQueued", "auditRejected"} => log[target[c]] = <<>>
        /\ pc[c] = "tellRejected" => log[target[c]] = <<"REJECTED">>
        /\ pc[c] = "auditQueued" => "QUEUED" \in notices[target[c]]

\* So does a run.
RunsExpired ==
    \A s \in Runs : \A r \in Requests : current[s] = r =>
        /\ status[r] = "EXPIRED"
        /\ log[r] = IF runPc[s] = "audit" THEN <<>> ELSE <<"EXPIRED">>

\* Only one of them reports.
OneReporter ==
    \A r \in Requests :
        /\ \A c, d \in Calls : CallReports(c, r) /\ CallReports(d, r) => c = d
        /\ \A s, t \in Runs : current[s] = r /\ current[t] = r => s = t

\* An undecided request is not told of, a decided one told when all is silent.
SilentIsTold ==
    \A r \in Requests :
        /\ status[r] = "PENDING" => log[r] = <<>>
        /\ log[r] \in {<<>>, <<status[r]>>}
        /\ status[r] # "PENDING" /\ Silent(r) /\ r \notin disturbed =>
               log[r] = <<status[r]>> /\ status[r] \in notices[r]

ReportInv == RunsKnow /\ CallsKnow /\ RunsExpired /\ OneReporter /\ SilentIsTold

\* A step that decides nothing and of nobody who reports.
LEMMA ReportsUntouched ==
    ASSUME TypeOK, ReportInv, UNCHANGED <<status, log>>,
           \A r \in Requests : notices[r] \subseteq notices'[r],
           disturbed \subseteq disturbed',
           \A c \in Calls : pc'[c] = pc[c] \/ (pc'[c] \notin Reporting /\ pc[c] \notin Reporting),
           \A s \in Runs :
               \/ runPc'[s] = runPc[s] /\ current'[s] = current[s]
               \/ /\ {runPc[s], runPc'[s]} \subseteq {"idle", "loop"}
                  /\ current[s] = NoRequest /\ current'[s] = NoRequest
    PROVE  ReportInv'
<1> USE CallsAssumption, NoRequestAssumption DEF ReportInv
<1>1. RunsKnow'
  BY DEF RunsKnow
<1>2. CallsKnow'
  BY DEF CallsKnow, Reporting
<1>3. RunsExpired'
  BY DEF RunsExpired, RunsKnow
<1>4. OneReporter'
  BY DEF OneReporter, CallReports
<1>5. \A r \in Requests : Silent(r)' <=> Silent(r)
  BY DEF Silent, CallReports
<1>6. SilentIsTold'
  BY <1>5 DEF SilentIsTold
<1> QED
  BY <1>1, <1>2, <1>3, <1>4, <1>6

LEMMA PlainCallStep ==
    ASSUME TypeOK, ReportInv, NEW c \in Calls,
           \/ \E first \in {"find", "reject"} : Begin(c, first)
           \/ Refuse(c) \/ FindExisting(c) \/ CreateApproval(c) \/ CountApprovals(c)
           \/ CommitRecorded(c) \/ CommitAlreadyDecided(c) \/ TellRecorded(c) \/ RejectTooLate(c)
    PROVE  ReportInv'
<1>1. UNCHANGED <<status, log, runPc, current, disturbed>>
  BY DEF Begin, Refuse, FindExisting, CreateApproval, CountApprovals, CommitRecorded,
     CommitAlreadyDecided, TellRecorded, RejectTooLate, requestVars, runVars, ghostVars
<1>2. \A r \in Requests : notices[r] \subseteq notices'[r]
  BY CallsAssumption DEF Begin, Refuse, FindExisting, CreateApproval, CountApprovals, CommitRecorded,
     CommitAlreadyDecided, TellRecorded, RejectTooLate, Emit, TypeOK
<1>3. PICK to \in CallLabels :
          pc' = [pc EXCEPT ![c] = to] /\ to \notin Reporting /\ pc[c] \notin Reporting
  BY DEF Begin, Refuse, FindExisting, CreateApproval, CountApprovals, CommitRecorded,
     CommitAlreadyDecided, TellRecorded, RejectTooLate, Goto, Reporting, CallLabels
<1> QED
  BY <1>1, <1>2, <1>3, ReportsUntouched DEF TypeOK

\* A call decides: nobody has reported anything yet.
LEMMA CallDecides ==
    ASSUME TypeOK, ReportInv, NEW c \in Calls, CommitQueued(c) \/ CommitReject(c)
    PROVE  ReportInv'
<1> DEFINE r == target[c]
<1> USE CallsAssumption, NoRequestAssumption DEF ReportInv
<1>1. /\ r \in Requests /\ status[r] = "PENDING" /\ UNCHANGED <<log, notices, runPc, current, disturbed>>
      /\ \/ pc'[c] = "tellQueued" /\ status'[r] = "QUEUED"
         \/ pc'[c] = "auditRejected" /\ status'[r] = "REJECTED"
      /\ \A d \in Calls \ {c} : pc'[d] = pc[d]
      /\ \A q \in Requests \ {r} : status'[q] = status[q]
  BY DEF CommitQueued, CommitReject, Goto, TypeOK, runVars, ghostVars
<1>2. Silent(r) /\ log[r] = <<>>
  BY <1>1 DEF CallsKnow, RunsExpired, SilentIsTold, Silent, CallReports, Reporting
<1>3. RunsKnow'
  BY <1>1 DEF RunsKnow
<1>4. CallsKnow'
  BY <1>1, <1>2 DEF CallsKnow, Silent, CallReports, Reporting
<1>5. RunsExpired'
  BY <1>1, <1>2 DEF RunsExpired, Silent
<1>6. OneReporter'
  BY <1>1, <1>2 DEF OneReporter, Silent, CallReports
<1>7. SilentIsTold'
  <2>1. ~Silent(r)'
    BY <1>1 DEF Silent, CallReports, Reporting
  <2>2. \A q \in Requests \ {r} : Silent(q)' <=> Silent(q)
    BY <1>1 DEF Silent, CallReports
  <2> QED
    BY <1>1, <1>2, <2>1, <2>2 DEF SilentIsTold
<1> QED
  BY <1>3, <1>4, <1>5, <1>6, <1>7

\* A call that reports takes its next step, or its last.
LEMMA CallTells ==
    ASSUME TypeOK, ReportInv, NEW c \in Calls,
           TellQueued(c) \/ AuditQueued(c) \/ AuditRejected(c) \/ TellRejected(c) \/ CallFails(c),
           pc[c] \in Reporting
    PROVE  ReportInv'
<1> DEFINE r == target[c]
<1> USE CallsAssumption, NoRequestAssumption DEF ReportInv
<1>1. /\ r \in Requests /\ UNCHANGED <<status, runPc, current>>
      /\ \A d \in Calls \ {c} : pc'[d] = pc[d]
  BY DEF TellQueued, AuditQueued, AuditRejected, TellRejected, CallFails, Goto, TypeOK,
     requestVars, runVars
<1>2. CallReports(c, r) /\ \A d \in Calls \ {c} : ~CallReports(d, r)
  BY <1>1 DEF CallReports, OneReporter
<1>3. \A s \in Runs : current[s] # r
  BY <1>1 DEF CallsKnow, RunsExpired, Reporting
<1>4. \A q \in Requests \ {r} : log'[q] = log[q] /\ notices'[q] = notices[q]
  BY DEF TellQueued, AuditQueued, AuditRejected, TellRejected, CallFails, Emit, AppendAudit, TypeOK
<1>5. disturbed \subseteq disturbed'
  BY DEF TellQueued, AuditQueued, AuditRejected, TellRejected, CallFails, ghostVars
<1>6. \/ /\ pc[c] = "tellQueued" /\ pc'[c] = "auditQueued"
         /\ log'[r] = log[r] /\ notices'[r] = notices[r] \cup {"QUEUED"}
      \/ /\ pc[c] = "auditQueued" /\ pc'[c] = "done"
         /\ log'[r] = Append(log[r], "QUEUED") /\ notices'[r] = notices[r]
      \/ /\ pc[c] = "auditRejected" /\ pc'[c] = "tellRejected"
         /\ log'[r] = Append(log[r], "REJECTED") /\ notices'[r] = notices[r]
      \/ /\ pc[c] = "tellRejected" /\ pc'[c] = "done"
         /\ log'[r] = log[r] /\ notices'[r] = notices[r] \cup {"REJECTED"}
      \/ pc'[c] = "done" /\ log'[r] = log[r] /\ notices'[r] = notices[r] /\ r \in disturbed'
  <2>1. CASE TellQueued(c)
    BY <1>1, <2>1 DEF TellQueued, Emit, Goto, TypeOK
  <2>2. CASE AuditQueued(c)
    BY <1>1, <2>2 DEF AuditQueued, AppendAudit, Goto, TypeOK
  <2>3. CASE AuditRejected(c)
    BY <1>1, <2>3 DEF AuditRejected, AppendAudit, Goto, TypeOK
  <2>4. CASE TellRejected(c)
    BY <1>1, <2>4 DEF TellRejected, Emit, Goto, TypeOK
  <2>5. CASE CallFails(c)
    BY <1>1, <2>5 DEF CallFails, Goto, TypeOK
  <2> QED
    BY <2>1, <2>2, <2>3, <2>4, <2>5
<1>7. Append(<<>>, "QUEUED") = <<"QUEUED">> /\ Append(<<>>, "REJECTED") = <<"REJECTED">>
  OBVIOUS
<1>8. RunsKnow'
  BY <1>1 DEF RunsKnow
<1>9. CallsKnow'
  <2> SUFFICES ASSUME NEW d \in Calls
               PROVE  /\ pc'[d] \in {"tellQueued", "auditQueued"} => status[target[d]] = "QUEUED"
                      /\ pc'[d] \in {"auditRejected", "tellRejected"} =>
                             status[target[d]] = "REJECTED"
                      /\ pc'[d] \in {"tellQueued", "auditQueued", "auditRejected"} =>
                             log'[target[d]] = <<>>
                      /\ pc'[d] = "tellRejected" => log'[target[d]] = <<"REJECTED">>
                      /\ pc'[d] = "auditQueued" => "QUEUED" \in notices'[target[d]]
    BY <1>1 DEF CallsKnow
  <2>1. CASE d = c
    BY <1>6, <1>7, <2>1 DEF CallsKnow
  <2>2. CASE d # c /\ pc[d] \notin Reporting
    BY <1>1, <2>2 DEF Reporting
  <2>3. CASE d # c /\ pc[d] \in Reporting
    BY <1>1, <1>2, <1>4, <2>3 DEF CallsKnow, CallReports
  <2> QED
    BY <2>1, <2>2, <2>3
<1>10. RunsExpired'
  BY <1>1, <1>3, <1>4 DEF RunsExpired
<1>11. OneReporter'
  BY <1>1, <1>2 DEF OneReporter, CallReports
<1>12. SilentIsTold'
  <2>1. \A q \in Requests \ {r} : Silent(q)' <=> Silent(q)
    BY <1>1 DEF Silent, CallReports
  <2>2. Silent(r)' /\ r \notin disturbed' => log'[r] = <<status[r]>> /\ status[r] \in notices'[r]
    BY <1>1, <1>6, <1>7 DEF CallsKnow, Silent, CallReports, Reporting
  <2>3. status[r] # "PENDING" /\ log'[r] \in {<<>>, <<status[r]>>}
    BY <1>1, <1>6, <1>7 DEF CallsKnow, Reporting
  <2> QED
    BY <1>1, <1>4, <1>5, <2>1, <2>2, <2>3 DEF SilentIsTold
<1> QED
  BY <1>8, <1>9, <1>10, <1>11, <1>12

\* A run finds requests, finds none that is left, or ends.
LEMMA PlainRunStep ==
    ASSUME TypeOK, ReportInv, NEW s \in Runs,
           ExpireFind(s) \/ RunEnds(s) \/ (ExpireNext(s) /\ UNCHANGED status)
    PROVE  ReportInv'
<1>1. /\ UNCHANGED <<log, notices, disturbed, pc>>
      /\ {runPc[s], runPc'[s]} \subseteq {"idle", "loop"}
      /\ UNCHANGED <<status, current>>
      /\ \A t \in Runs \ {s} : runPc'[t] = runPc[t]
  <2>1. CASE ExpireFind(s)
    BY <2>1 DEF ExpireFind, RunGoto, TypeOK, requestVars, ghostVars
  <2>2. CASE RunEnds(s)
    BY <2>2 DEF RunEnds, RunGoto, TypeOK, requestVars, ghostVars
  <2>3. CASE ExpireNext(s) /\ UNCHANGED status
    <3>1. PICK r \in batch[s] :
              IF status[r] = "PENDING"
              THEN status' = [status EXCEPT ![r] = "EXPIRED"]
              ELSE RunGoto(s, "loop", "loop") /\ UNCHANGED <<status, current>>
      BY <2>3 DEF ExpireNext
    <3>2. status[r] # "PENDING"
      BY <2>3, <3>1 DEF TypeOK
    <3> QED
      BY <2>3, <3>1, <3>2 DEF ExpireNext, RunGoto, TypeOK, ghostVars
  <2> QED
    BY <2>1, <2>2, <2>3
<1>2. current[s] = NoRequest
  BY <1>1 DEF ReportInv, RunsKnow
<1> QED
  BY <1>1, <1>2, ReportsUntouched

\* A run decides.
LEMMA RunDecides ==
    ASSUME TypeOK, ReportInv, NEW s \in Runs, ExpireNext(s), ~UNCHANGED status
    PROVE  ReportInv'
<1> USE CallsAssumption, NoRequestAssumption DEF ReportInv
<1>1. PICK r \in Requests :
          /\ status[r] = "PENDING" /\ runPc[s] = "loop"
          /\ status'[r] = "EXPIRED" /\ \A q \in Requests \ {r} : status'[q] = status[q]
          /\ runPc'[s] = "audit" /\ current'[s] = r
          /\ \A t \in Runs \ {s} : runPc'[t] = runPc[t] /\ current'[t] = current[t]
          /\ UNCHANGED <<log, notices, disturbed, pc>>
  BY DEF ExpireNext, RunGoto, TypeOK, ghostVars
<1>2. Silent(r) /\ log[r] = <<>> /\ current[s] = NoRequest
  BY <1>1 DEF CallsKnow, RunsKnow, RunsExpired, SilentIsTold, Silent, CallReports, Reporting
<1>3. RunsKnow'
  BY <1>1 DEF RunsKnow
<1>4. CallsKnow'
  BY <1>1, <1>2 DEF CallsKnow, Silent, CallReports, Reporting
<1>5. RunsExpired'
  BY <1>1, <1>2 DEF RunsExpired, Silent
<1>6. OneReporter'
  BY <1>1, <1>2 DEF OneReporter, Silent, CallReports
<1>7. SilentIsTold'
  <2>1. ~Silent(r)'
    BY <1>1 DEF Silent
  <2>2. \A q \in Requests \ {r} : Silent(q)' <=> Silent(q)
    BY <1>1, <1>2 DEF Silent, CallReports
  <2> QED
    BY <1>1, <1>2, <2>1, <2>2 DEF SilentIsTold
<1> QED
  BY <1>3, <1>4, <1>5, <1>6, <1>7

\* A run appends, emits or fails.
LEMMA RunTells ==
    ASSUME TypeOK, ReportInv, NEW s \in Runs, ExpireAudit(s) \/ ExpireTell(s) \/ RunFails(s)
    PROVE  ReportInv'
<1> DEFINE r == current[s]
<1> USE CallsAssumption, NoRequestAssumption DEF ReportInv
<1>1. runPc[s] \in {"audit", "tell"} /\ r \in Requests
  BY DEF ExpireAudit, ExpireTell, RunFails, RunGoto, RunsKnow, TypeOK
<1>2. /\ UNCHANGED <<status, pc>> /\ disturbed \subseteq disturbed'
      /\ \A t \in Runs \ {s} : runPc'[t] = runPc[t] /\ current'[t] = current[t]
      /\ \A q \in Requests \ {r} : log'[q] = log[q] /\ notices'[q] = notices[q]
  BY <1>1 DEF ExpireAudit, ExpireTell, RunFails, RunGoto, AppendAudit, Emit, TypeOK, requestVars,
     ghostVars
<1>3. \/ /\ runPc[s] = "audit" /\ runPc'[s] = "tell" /\ current'[s] = r
         /\ log'[r] = Append(log[r], "EXPIRED") /\ notices'[r] = notices[r]
      \/ /\ runPc[s] = "tell" /\ runPc'[s] = "loop" /\ current'[s] = NoRequest
         /\ log'[r] = log[r] /\ notices'[r] = notices[r] \cup {"EXPIRED"}
      \/ /\ runPc[s] = "audit" /\ runPc'[s] = "idle" /\ current'[s] = NoRequest
         /\ log'[r] = log[r] /\ notices'[r] = notices[r] /\ r \in disturbed'
  <2>1. CASE ExpireAudit(s)
    BY <1>1, <2>1 DEF ExpireAudit, RunGoto, AppendAudit, TypeOK
  <2>2. CASE ExpireTell(s)
    BY <1>1, <2>2 DEF ExpireTell, RunGoto, Emit, TypeOK
  <2>3. CASE RunFails(s)
    BY <1>1, <2>3 DEF RunFails, RunGoto, TypeOK
  <2> QED
    BY <2>1, <2>2, <2>3
<1>4. /\ status[r] = "EXPIRED"
      /\ log[r] = IF runPc[s] = "audit" THEN <<>> ELSE <<"EXPIRED">>
      /\ \A c \in Calls : ~CallReports(c, r)
      /\ \A t \in Runs \ {s} : current[t] # r
  BY <1>1 DEF RunsExpired, CallsKnow, OneReporter, CallReports, Reporting
<1>5. Append(<<>>, "EXPIRED") = <<"EXPIRED">>
  OBVIOUS
<1>6. RunsKnow'
  BY <1>1, <1>2, <1>3 DEF RunsKnow
<1>7. CallsKnow'
  BY <1>2, <1>4 DEF CallsKnow, CallReports, Reporting
<1>8. RunsExpired'
  BY <1>1, <1>2, <1>3, <1>4, <1>5 DEF RunsExpired
<1>9. OneReporter'
  BY <1>1, <1>2, <1>3, <1>4 DEF OneReporter, CallReports
<1>10. SilentIsTold'
  <2>1. \A q \in Requests \ {r} : Silent(q)' <=> Silent(q)
    BY <1>1, <1>2, <1>3 DEF Silent, CallReports
  <2>2. ASSUME NEW q \in Requests, q # r
        PROVE  /\ status'[q] = "PENDING" => log'[q] = <<>>
               /\ log'[q] \in {<<>>, <<status'[q]>>}
               /\ status'[q] # "PENDING" /\ Silent(q)' /\ q \notin disturbed' =>
                      log'[q] = <<status'[q]>> /\ status'[q] \in notices'[q]
    BY <1>2, <2>1, <2>2 DEF SilentIsTold
  <2>3. ASSUME NEW q \in Requests, q = r
        PROVE  /\ status'[q] # "PENDING"
               /\ log'[q] \in {<<>>, <<status'[q]>>}
    BY <1>2, <1>3, <1>4, <1>5, <2>3
  <2>4. ASSUME NEW q \in Requests, q = r, Silent(q)', q \notin disturbed'
        PROVE  log'[q] = <<status'[q]>> /\ status'[q] \in notices'[q]
    BY <1>2, <1>3, <1>4, <2>4 DEF Silent
  <2> HIDE DEF r
  <2> QED
    BY <2>2, <2>3, <2>4 DEF SilentIsTold
<1> QED
  BY <1>6, <1>7, <1>8, <1>9, <1>10

LEMMA ReportStep ==
    ASSUME TypeOK, ReportInv, [Next]_vars
    PROVE  ReportInv'
<1>1. ASSUME NEW c \in Calls, CallFails(c), pc[c] \notin Reporting PROVE ReportInv'
  <2>1. pc'[c] \notin Reporting /\ \A d \in Calls \ {c} : pc'[d] = pc[d]
    BY <1>1 DEF CallFails, Goto, TypeOK, Reporting
  <2> QED
    BY <1>1, <2>1, ReportsUntouched DEF CallFails, requestVars, runVars
<1>2. ASSUME NEW c \in Calls, TellQueued(c) \/ AuditQueued(c) \/ AuditRejected(c) \/ TellRejected(c)
      PROVE  pc[c] \in Reporting
  BY <1>2 DEF TellQueued, AuditQueued, AuditRejected, TellRejected, Goto, Reporting
<1>3. ASSUME UNCHANGED <<status, log, notices, disturbed, pc, runPc, current>> PROVE ReportInv'
  BY <1>3, ReportsUntouched
<1>4. ASSUME \/ \E r \in Requests : Deadline(r)
             \/ \E s \in Runs : ExpireFindsNothing(s)
             \/ UNCHANGED vars
      PROVE  ReportInv'
  BY <1>3, <1>4 DEF Deadline, ExpireFindsNothing, vars, requestVars, runVars, ghostVars
<1> QED
  BY <1>1, <1>2, <1>4, PlainCallStep, CallDecides, CallTells, PlainRunStep, RunDecides, RunTells
     DEF Next, Approve, Reject, Expire, BeginApprove, BeginReject

-----------------------------------------------------------------------------
(* The refinement                                                          *)

\* What a run has found is past its deadline, however long ago that was.
BatchIsOverdue == \A s \in Runs : \A r \in batch[s] : expired[r]

LEMMA BatchStep ==
    ASSUME TypeOK, BatchIsOverdue, [Next]_vars
    PROVE  BatchIsOverdue'
<1> USE DEF TypeOK, BatchIsOverdue, runVars
<1>1. \A r \in Requests : expired[r] => expired'[r]
  BY DEF Next, Approve, Reject, Expire, Deadline, BeginApprove, BeginReject, Begin, Refuse,
     FindExisting, CreateApproval, CountApprovals, CommitRecorded, CommitQueued,
     CommitAlreadyDecided, TellRecorded, TellQueued, AuditQueued, CommitReject, RejectTooLate,
     AuditRejected, TellRejected, CallFails, ExpireFind, ExpireFindsNothing, ExpireNext,
     ExpireAudit, ExpireTell, RunEnds, RunFails, vars
<1>2. ASSUME NEW s \in Runs, ExpireFind(s) PROVE BatchIsOverdue'
  BY <1>2 DEF ExpireFind, Overdue
<1>3. ASSUME NEW s \in Runs, ExpireNext(s) \/ RunFails(s) PROVE BatchIsOverdue'
  <2>1. CASE ExpireNext(s)
    <3>1. PICK r : batch' = [batch EXCEPT ![s] = batch[s] \ {r}]
      BY <2>1 DEF ExpireNext
    <3>2. \A t \in Runs : batch'[t] \subseteq batch[t]
      BY <3>1
    <3> QED
      BY <1>1, <3>2
  <2>2. CASE RunFails(s)
    <3>1. \A t \in Runs : batch'[t] \subseteq batch[t]
      BY <2>2 DEF RunFails
    <3> QED
      BY <1>1, <3>1
  <2> QED
    BY <1>3, <2>1, <2>2
<1>4. ASSUME UNCHANGED batch PROVE BatchIsOverdue'
  BY <1>1, <1>4
<1>5. ASSUME NEW c \in Calls, Approve(c) \/ Reject(c) \/ Refuse(c) \/ CallFails(c)
      PROVE  UNCHANGED batch
  BY <1>5 DEF Approve, Reject, BeginApprove, BeginReject, Begin, Refuse, FindExisting,
     CreateApproval, CountApprovals, CommitRecorded, CommitQueued, CommitAlreadyDecided,
     TellRecorded, TellQueued, AuditQueued, CommitReject, RejectTooLate, AuditRejected,
     TellRejected, CallFails
<1>6. ASSUME NEW s \in Runs, ExpireAudit(s) \/ ExpireTell(s) \/ RunEnds(s) \/ ExpireFindsNothing(s)
      PROVE  UNCHANGED batch
  BY <1>6 DEF ExpireAudit, ExpireTell, RunEnds, ExpireFindsNothing, vars
<1>7. ASSUME (\E r \in Requests : Deadline(r)) \/ UNCHANGED vars PROVE UNCHANGED batch
  BY <1>7 DEF Deadline, vars
<1> QED
  BY <1>2, <1>3, <1>4, <1>5, <1>6, <1>7 DEF Next, Expire

decisionVars == <<status, enqueued, expired, approvals, log>>

LEMMA HiddenStep ==
    ASSUME UNCHANGED decisionVars
    PROVE  UNCHANGED Decision!vars
BY DEF decisionVars, Decision!vars

\* The appends to the log.
LEMMA AppendTells ==
    ASSUME TypeOK, NEW r \in Requests, status[r] # "PENDING", log[r] = <<>>,
           AppendAudit(r, status[r]), UNCHANGED <<requestVars, expired, approvals>>
    PROVE  Decision!Tell(r)
<1>1. Append(<<>>, status[r]) = <<status[r]>>
  OBVIOUS
<1> QED
  BY <1>1 DEF AppendAudit, Decision!Tell, TypeOK, requestVars

LEMMA DecisionStep ==
    ASSUME TypeOK, ApprovalInv, ReportInv, BatchIsOverdue, [Next]_vars
    PROVE  [Decision!Next]_(Decision!vars)
<1> USE CallsAssumption, NoRequestAssumption DEF Decision!Next, TypeOK
<1>1. ASSUME NEW r \in Requests, Deadline(r) PROVE Decision!Pass(r)
  <2>1. {q \in Requests : expired'[q]} = {q \in Requests : expired[q]} \cup {r}
    BY <1>1 DEF Deadline
  <2> QED
    BY <1>1, <2>1 DEF Deadline, Decision!Pass, requestVars
<1>2. ASSUME NEW c \in Calls, CommitRecorded(c) \/ CommitAlreadyDecided(c) PROVE Decision!Approve(c)
  <2>1. c \notin approvals
    BY <1>2 DEF CommitRecorded, CommitAlreadyDecided, Goto, ApprovalInv, UncommittedIsUnseen, Early
  <2> QED
    BY <1>2, <2>1 DEF CommitRecorded, CommitAlreadyDecided, Decision!Approve, Decision!Give,
       requestVars
<1>3. ASSUME NEW c \in Calls, CommitQueued(c) PROVE Decision!Queue(c)
  <2>1. c \notin approvals /\ \E d \in approvals : target[d] = target[c]
    BY <1>3 DEF CommitQueued, Goto, ApprovalInv, UncommittedIsUnseen, CountedOther, Early,
       ApprovalsOf
  <2>2. {q \in Requests : enqueued'[q]} = {q \in Requests : enqueued[q]} \cup {target[c]}
    BY <1>3 DEF CommitQueued
  <2> QED
    BY <1>3, <2>1, <2>2 DEF CommitQueued, Decision!Queue, Decision!Give, Decision!Decide
<1>4. ASSUME NEW c \in Calls, CommitReject(c) PROVE Decision!Reject(target[c])
  BY <1>4 DEF CommitReject, Decision!Reject, Decision!Decide
<1>5. ASSUME NEW c \in Calls, AuditQueued(c) \/ AuditRejected(c) PROVE Decision!Tell(target[c])
  <2>1. /\ log[target[c]] = <<>> /\ status[target[c]] # "PENDING"
        /\ AppendAudit(target[c], status[target[c]])
    BY <1>5 DEF AuditQueued, AuditRejected, Goto, ReportInv, CallsKnow
  <2> QED
    BY <1>5, <2>1, AppendTells DEF AuditQueued, AuditRejected
<1>6. ASSUME NEW s \in Runs, ExpireNext(s)
      PROVE  (\E r \in Requests : Decision!Expire(r)) \/ UNCHANGED Decision!vars
  <2>1. PICK r \in Requests :
            /\ expired[r]
            /\ IF status[r] = "PENDING" THEN status' = [status EXCEPT ![r] = "EXPIRED"]
               ELSE UNCHANGED status
            /\ UNCHANGED <<enqueued, expired, approvals, log>>
    BY <1>6 DEF ExpireNext, BatchIsOverdue
  <2>2. CASE status[r] = "PENDING"
    BY <2>1, <2>2 DEF Decision!Expire, Decision!Decide
  <2>3. CASE status[r] # "PENDING"
    BY <2>1, <2>3, HiddenStep DEF decisionVars
  <2> QED
    BY <2>2, <2>3
<1>7. ASSUME NEW s \in Runs, ExpireAudit(s) PROVE Decision!Tell(current[s])
  <2>1. /\ current[s] \in Requests /\ log[current[s]] = <<>> /\ status[current[s]] = "EXPIRED"
        /\ AppendAudit(current[s], "EXPIRED")
    BY <1>7 DEF ExpireAudit, RunGoto, ReportInv, RunsKnow, RunsExpired
  <2> QED
    BY <1>7, <2>1, AppendTells DEF ExpireAudit
<1>8. ASSUME NEW c \in Calls,
             \/ \E first \in {"find", "reject"} : Begin(c, first)
             \/ Refuse(c) \/ FindExisting(c) \/ CreateApproval(c) \/ CountApprovals(c)
             \/ TellRecorded(c) \/ TellQueued(c) \/ RejectTooLate(c) \/ TellRejected(c)
             \/ CallFails(c)
      PROVE  UNCHANGED Decision!vars
  BY <1>8, HiddenStep
     DEF decisionVars, Begin, Refuse, FindExisting, CreateApproval, CountApprovals, TellRecorded,
         TellQueued, RejectTooLate, TellRejected, CallFails, requestVars
<1>9. ASSUME NEW s \in Runs, ExpireFind(s) \/ ExpireTell(s) \/ RunEnds(s) \/ RunFails(s)
      PROVE  UNCHANGED Decision!vars
  BY <1>9, HiddenStep DEF decisionVars, ExpireFind, ExpireTell, RunEnds, RunFails, requestVars
<1>10. CASE UNCHANGED vars
  BY <1>10, HiddenStep DEF decisionVars, vars, requestVars
<1>11. \A c \in Calls : target[c] \in Requests
  OBVIOUS
<1>12. \A s \in Runs : ExpireAudit(s) => current[s] \in Requests
  BY DEF ExpireAudit, RunGoto, ReportInv, RunsKnow
<1> QED
  BY <1>1, <1>2, <1>3, <1>4, <1>5, <1>6, <1>7, <1>8, <1>9, <1>10, <1>11, <1>12
     DEF Next, Approve, Reject, Expire, BeginApprove, BeginReject, ExpireFindsNothing

-----------------------------------------------------------------------------
(* The specification                                                       *)

ApprovalPhaseInv == TypeOK /\ ApprovalInv /\ ReportInv

LEMMA PhaseInit == Init => ApprovalPhaseInv
<1> SUFFICES ASSUME Init PROVE ApprovalPhaseInv
  OBVIOUS
<1>1. TypeOK
  BY DEF Init, TypeOK, CallLabels, RunLabels
<1>2. ApprovalInv
  BY DEF Init, ApprovalInv, UncommittedIsUnseen, CountedOther, OverlapsNoted, FoundNone,
     CountedAlone, QueuedHasTwo, TwoAdminsNamed, DecidedUnlessCrossed, ApprovalsOf,
     InTransaction
<1>3. ReportInv
  BY CallsAssumption, NoRequestAssumption
     DEF Init, ReportInv, RunsKnow, CallsKnow, RunsExpired, OneReporter, SilentIsTold, CallReports,
     Reporting
<1> QED
  BY <1>1, <1>2, <1>3 DEF ApprovalPhaseInv

\* The invariant of the approval phase: what calls in progress know of each
\* other's approvals, and who still has a decision to report.
THEOREM PhaseInvariance == Spec => []ApprovalPhaseInv
<1>1. ApprovalPhaseInv /\ [Next]_vars => ApprovalPhaseInv'
  BY TypeStep, ApprovalStep, ReportStep DEF ApprovalPhaseInv, ReportInv
<1> QED
  BY <1>1, PhaseInit, PTL DEF Spec

\* Type correctness of the approval phase.
THEOREM ApprovalTypeCorrect == Spec => []TypeOK
<1>1. ApprovalPhaseInv => TypeOK
  BY DEF ApprovalPhaseInv
<1> QED
  BY <1>1, PhaseInvariance, PTL

\* Approvals, rejections and any number of cron runs decide a request once.
THEOREM DecisionsFinal == Spec => DecisionIsFinal
<1>1. TypeOK /\ [Next]_vars =>
          [\A r \in Requests : status[r] \in Decisions => status'[r] = status[r]]_vars
  BY StatusStep DEF Decisions
<1> QED
  BY <1>1, ApprovalTypeCorrect, PTL DEF Spec, DecisionIsFinal

\* approveWithdraw hands a request to the queue with two approvals only.
THEOREM QueuedApproved == Spec => []QueuedIsApproved
<1>1. ApprovalPhaseInv => QueuedIsApproved
  <2> SUFFICES ASSUME ApprovalPhaseInv, NEW r \in Requests, enqueued[r]
               PROVE  status[r] = "QUEUED" /\ Cardinality(ApprovalsOf(r)) >= 2
    BY DEF QueuedIsApproved
  <2>1. PICK c \in Calls, d \in Calls : c # d /\ {c, d} \subseteq ApprovalsOf(r)
    BY DEF ApprovalPhaseInv, ApprovalInv, QueuedHasTwo
  <2>2. Cardinality(ApprovalsOf(r)) >= 2
    BY <2>1, ApprovalsFinite, TwoElements DEF ApprovalPhaseInv
  <2> QED
    BY <2>2 DEF ApprovalPhaseInv, ApprovalInv, QueuedHasTwo
<1> QED
  BY <1>1, PhaseInvariance, PTL

\* Two admins stand behind a queued withdrawal unless one called twice at once.
THEOREM TwoAdminsApproved == Spec => []TwoAdminsUnlessCrossed
<1>1. ApprovalPhaseInv => TwoAdminsUnlessCrossed
  <2> SUFFICES ASSUME ApprovalPhaseInv, NEW r \in Requests, enqueued[r],
                      \A c, d \in ApprovalsOf(r) : {c, d} \in crossed => caller[c] # caller[d]
               PROVE  Cardinality(ApprovingAdmins(r)) >= 2
    BY DEF TwoAdminsUnlessCrossed
  <2>1. PICK c \in Calls, d \in Calls : {c, d} \subseteq ApprovalsOf(r) /\ caller[c] # caller[d]
    BY DEF ApprovalPhaseInv, ApprovalInv, TwoAdminsNamed
  <2>2. IsFiniteSet(ApprovingAdmins(r))
    <3> DEFINE f == [e \in ApprovalsOf(r) |-> caller[e]]
    <3>1. f \in Surjection(ApprovalsOf(r), ApprovingAdmins(r))
      BY DEF ApprovingAdmins, Surjection
    <3>2. IsFiniteSet(ApprovalsOf(r))
      BY ApprovalsFinite DEF ApprovalPhaseInv
    <3> HIDE DEF f
    <3> QED
      BY <3>1, <3>2, FS_Surjection
  <2>3. caller[c] \in ApprovingAdmins(r) /\ caller[d] \in ApprovingAdmins(r)
    BY <2>1 DEF ApprovingAdmins
  <2> QED
    BY <2>1, <2>2, <2>3, TwoElements
<1> QED
  BY <1>1, PhaseInvariance, PTL

\* Two admins who do not overlap suffice.
THEOREM ApprovalsDecide == Spec => []DecidedUnlessCrossed
<1>1. ApprovalPhaseInv => DecidedUnlessCrossed
  BY DEF ApprovalPhaseInv, ApprovalInv
<1> QED
  BY <1>1, PhaseInvariance, PTL

\* Log and notices of approveWithdraw, rejectWithdraw and the cron job tell the
\* decision that was committed, once, and all of it unless a step failed.
THEOREM DecisionsReported == Spec => []DecisionReported
<1>1. ApprovalPhaseInv => DecisionReported
  <2>1. \A r \in Requests : Quiet(r) => Silent(r)
    BY DEF Quiet, Silent, CallReports, Active, Reporting
  <2> QED
    BY <2>1 DEF ApprovalPhaseInv, ReportInv, SilentIsTold, DecisionReported, Decisions
<1> QED
  BY <1>1, PhaseInvariance, PTL

\* The approval phase implements ApprovalDecision: what races statement by
\* statement looks, from outside, like decisions taken one at a time.
THEOREM DecisionRefinement == Spec => ImplementsDecision
<1>1. Init => Decision!Init
  <2> SUFFICES ASSUME Init PROVE Decision!Init
    OBVIOUS
  <2>1. {r \in Requests : expired[r]} = {} /\ {r \in Requests : enqueued[r]} = {}
    BY DEF Init
  <2> QED
    BY <2>1 DEF Init, Decision!Init
<1>2. Init => BatchIsOverdue
  BY DEF Init, BatchIsOverdue
<1>3. ApprovalPhaseInv /\ BatchIsOverdue /\ [Next]_vars =>
          BatchIsOverdue' /\ [Decision!Next]_(Decision!vars)
  BY BatchStep, DecisionStep DEF ApprovalPhaseInv
<1> QED
  BY <1>1, <1>2, <1>3, PhaseInvariance, PTL DEF Spec, ImplementsDecision, Decision!Spec
=============================================================================
