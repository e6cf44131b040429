----------------------------- MODULE KmsSendLock -----------------------------
(***************************************************************************)
(* Sending from the one KMS wallet: KmsExecutor and                        *)
(* KmsService.sendNativeTransaction under a PostgreSQL advisory lock.      *)
(*                                                                         *)
(* Every API process has one worker, so at most one send, and a pool of    *)
(* database connections.  The lock belongs to a session, that is to a      *)
(* connection: pg_try_advisory_lock grants it again to the session that    *)
(* holds it and counts, pg_advisory_unlock counts down in its own session  *)
(* only, and both run on whichever connection the pool hands out.          *)
(***************************************************************************)
EXTENDS Naturals, FiniteSets

CONSTANTS
    Processes,
    Conns,       \* connections
    pool,        \* the process each connection belongs to
    Faults,      \* the faults that may occur
    CurveOrder,  \* SECP256K1_N
    MaxHeld,     \* bound on the lock count of one session
    MaxNonce     \* bound on the transactions sent

(***************************************************************************)
(* "crash": a process dies and starts anew; its sessions end.              *)
(* "drop":  a pooled connection is closed by server or network.            *)
(* "lost":  the node takes a transaction but its answer does not arrive.   *)
(* "db":    the unlock query throws.                                       *)
(* "kms":   a call to KMS or to the node throws before the broadcast.      *)
(***************************************************************************)
ASSUME PoolAssumption == pool \in [Conns -> Processes]
ASSUME KmsFaultsAssumption == Faults \subseteq {"crash", "drop", "lost", "db", "kms"}
ASSUME CurveAssumption == CurveOrder \in Nat /\ CurveOrder % 2 = 1
ASSUME KmsBoundsAssumption == MaxHeld \in Nat /\ MaxNonce \in Nat

VARIABLES
    pc,       \* the await the send of each process is at
    nonce,    \* the nonce it has read
    sig,      \* the signature KMS made: s and the parity that recovers the key
    signed,   \* the signature put on the transaction: s and yParity
    report,   \* what sendNativeTransaction returned or threw, or "none"
    cause,    \* the exception on its way, or "none"
    held,     \* the lock count of each connection
    chain,    \* transactions of the wallet the node counts, pending included
    astray,   \* an unlock of this process has missed the session with the lock
    bereft    \* during its send a connection with the lock was closed under a send

sendVars == <<pc, nonce, sig, signed, report, cause>>
vars == <<sendVars, held, chain, astray, bereft>>

ConnsOf(p) == {c \in Conns : pool[c] = p}
Labels == {"idle", "balance", "lock", "nonce", "sign", "broadcast", "unlock", "report"}
\* fn() runs, or the unlock that follows it.
InSection(p) == pc[p] \in {"nonce", "sign", "broadcast", "unlock"}
NoSig == [s |-> 0, y |-> 0]

Goto(p, from, to) == pc[p] = from /\ pc' = [pc EXCEPT ![p] = to]

Init ==
    /\ pc = [p \in Processes |-> "idle"]
    /\ nonce = [p \in Processes |-> 0]
    /\ sig = [p \in Processes |-> NoSig]
    /\ signed = [p \in Processes |-> NoSig]
    /\ report = [p \in Processes |-> "none"]
    /\ cause = [p \in Processes |-> "none"]
    /\ held = [c \in Conns |-> 0]
    /\ chain = 0
    /\ astray = [p \in Processes |-> FALSE]
    /\ bereft = [p \in Processes |-> FALSE]

-----------------------------------------------------------------------------
(* KmsExecutor.execute                                                     *)

Execute(p) ==
    /\ Goto(p, "idle", "balance")
    /\ chain < MaxNonce
    /\ report' = [report EXCEPT ![p] = "none"]
    /\ cause' = [cause EXCEPT ![p] = "none"]
    /\ UNCHANGED <<nonce, sig, signed, held, chain, astray, bereft>>

\* The balance suffices, or the executor throws before it sends.
CheckBalance(p) ==
    /\ \/ Goto(p, "balance", "lock") /\ UNCHANGED report
       \/ Goto(p, "balance", "idle") /\ report' = [report EXCEPT ![p] = "KMS_TX_FAILED"]
    /\ UNCHANGED <<nonce, sig, signed, cause, held, chain, astray, bereft>>

-----------------------------------------------------------------------------
(* withKmsSendLock                                                         *)

HeldElsewhere(c) == \E d \in Conns \ {c} : held[d] > 0

\* Mutant: the lock is asked for without looking at the answer.
TryLockUnchecked(p) ==
    \E c \in ConnsOf(p) :
        /\ held[c] < MaxHeld
        /\ held' = [held EXCEPT ![c] = IF HeldElsewhere(c) THEN @ ELSE @ + 1]
        /\ Goto(p, "lock", "nonce")
        /\ UNCHANGED <<nonce, sig, signed, report, cause, chain, astray, bereft>>

\* pg_try_advisory_lock on some connection of the pool: no other session has it.
TryLock(p) ==
    \E c \in ConnsOf(p) :
        /\ held[c] < MaxHeld
        /\ IF HeldElsewhere(c)
           THEN /\ Goto(p, "lock", "report")
                /\ cause' = [cause EXCEPT ![p] = "busy"]
                /\ UNCHANGED <<held, bereft>>
           ELSE /\ Goto(p, "lock", "nonce")
                /\ held' = [held EXCEPT ![c] = @ + 1]
                /\ bereft' = [bereft EXCEPT ![p] = \E q \in Processes : bereft[q]]
                /\ UNCHANGED cause
        /\ UNCHANGED <<nonce, sig, signed, report, chain, astray>>

\* Mutant: the unlock follows fn() instead of standing in a finally block.
UnlockOnSuccess(p) ==
    \E c \in ConnsOf(p) :
        /\ Goto(p, "unlock", "report")
        /\ IF cause[p] = "none"
           THEN /\ held' = [held EXCEPT ![c] = IF @ > 0 THEN @ - 1 ELSE 0]
                /\ astray' = [astray EXCEPT ![p] = @ \/ held[c] = 0]
           ELSE UNCHANGED <<held, astray>>
        /\ bereft' = [bereft EXCEPT ![p] = FALSE]
        /\ UNCHANGED <<nonce, sig, signed, report, cause, chain>>

\* finally: pg_advisory_unlock, on some connection too; its answer is ignored.
Unlock(p) ==
    \E c \in ConnsOf(p) :
        /\ Goto(p, "unlock", "report")
        /\ held' = [held EXCEPT ![c] = IF @ > 0 THEN @ - 1 ELSE 0]
        /\ astray' = [astray EXCEPT ![p] = @ \/ held[c] = 0]
        /\ bereft' = [bereft EXCEPT ![p] = FALSE]
        /\ UNCHANGED <<nonce, sig, signed, report, cause, chain>>

\* The unlock throws: its exception takes the place of result or error.
UnlockFails(p) ==
    /\ "db" \in Faults
    /\ Goto(p, "unlock", "report")
    /\ cause' = [cause EXCEPT ![p] = "other"]
    /\ astray' = [astray EXCEPT ![p] = TRUE]
    /\ bereft' = [bereft EXCEPT ![p] = FALSE]
    /\ UNCHANGED <<nonce, sig, signed, report, held, chain>>

-----------------------------------------------------------------------------
(* sendNativeTransaction, under the lock                                   *)

\* getTransactionCount(from, 'pending')
ReadNonce(p) ==
    /\ Goto(p, "nonce", "sign")
    /\ nonce' = [nonce EXCEPT ![p] = chain]
    /\ UNCHANGED <<sig, signed, report, cause, held, chain, astray, bereft>>

\* Mutant: half of the order rounded up, as if it were even.
NormalizeLowSRounded(s) == IF s > (CurveOrder + 1) \div 2 THEN CurveOrder - s ELSE s

\* The smaller of s and -s modulo the order of the curve.
NormalizeLowS(s) == IF s > CurveOrder \div 2 THEN CurveOrder - s ELSE s

\* Does yParity y recover the KMS key from (r, s), when KMS signed k?
Recovers(k, s, y) == (s = k.s /\ y = k.y) \/ (s = CurveOrder - k.s /\ y = 1 - k.y)

\* Mutant: the parity is looked for with the s that KMS returned.
MatchingYParityBefore(k, s) == {y \in {0, 1} : Recovers(k, k.s, y)}

\* findMatchingYParity tries 0, then 1.
MatchingYParity(k, s) == {y \in {0, 1} : Recovers(k, s, y)}

\* KMS signs the digest; s is made low and the parity found for it.
Sign(p) ==
    /\ Goto(p, "sign", "broadcast")
    /\ \E s \in 1..(CurveOrder - 1), y \in {0, 1} :
          LET k == [s |-> s, y |-> y] IN
          \E z \in MatchingYParity(k, NormalizeLowS(s)) :
              /\ sig' = [sig EXCEPT ![p] = k]
              /\ signed' = [signed EXCEPT ![p] = [s |-> NormalizeLowS(s), y |-> z]]
    /\ UNCHANGED <<nonce, report, cause, held, chain, astray, bereft>>

\* The transaction is dropped from memory with the end of fn().
Finish(p, why) ==
    /\ Goto(p, pc[p], "unlock")
    /\ cause' = [cause EXCEPT ![p] = why]
    /\ sig' = [sig EXCEPT ![p] = NoSig]
    /\ signed' = [signed EXCEPT ![p] = NoSig]
    /\ nonce' = [nonce EXCEPT ![p] = 0]

\* The node takes the next nonce and no other.
Broadcast(p) ==
    /\ pc[p] = "broadcast"
    /\ IF nonce[p] = chain
       THEN chain' = chain + 1 /\ Finish(p, "none")
       ELSE Finish(p, "nonce") /\ UNCHANGED chain
    /\ UNCHANGED <<report, held, astray, bereft>>

\* The answer to the broadcast is lost.
BroadcastLost(p) ==
    /\ "lost" \in Faults
    /\ pc[p] = "broadcast"
    /\ nonce[p] = chain
    /\ chain' = chain + 1
    /\ Finish(p, "other")
    /\ UNCHANGED <<report, held, astray, bereft>>

\* KMS denies the call or its key is disabled, the node rejects the sender or
\* the funds are short, or a call fails otherwise.
SendFails(p) ==
    /\ "kms" \in Faults
    /\ pc[p] \in {"nonce", "sign", "broadcast"}
    /\ \E why \in {"denied", "state", "sender", "funds", "other"} : Finish(p, why)
    /\ UNCHANGED <<report, held, chain, astray, bereft>>

\* The codes the catch block throws with.
ErrorCode(why) ==
    CASE why = "denied" -> "KMS_ACCESS_DENIED"
      [] why = "state" -> "KMS_INVALID_STATE"
      [] why = "sender" -> "KMS_INVALID_SENDER"
      [] why = "funds" -> "KMS_INSUFFICIENT_FUNDS"
      [] why \in {"nonce", "busy"} -> "KMS_NONCE_ERROR"
      [] why = "other" -> "KMS_TX_FAILED"

\* The response, or the exception in its final form.
Report(p) ==
    /\ Goto(p, "report", "idle")
    /\ report' = [report EXCEPT ![p] =
           IF cause[p] = "none" THEN "sent" ELSE ErrorCode(cause[p])]
    /\ UNCHANGED <<nonce, sig, signed, cause, held, chain, astray, bereft>>

-----------------------------------------------------------------------------
(* Faults of processes and connections                                     *)

Crash(p) ==
    /\ "crash" \in Faults
    /\ pc' = [pc EXCEPT ![p] = "idle"]
    /\ nonce' = [nonce EXCEPT ![p] = 0]
    /\ sig' = [sig EXCEPT ![p] = NoSig]
    /\ signed' = [signed EXCEPT ![p] = NoSig]
    /\ report' = [report EXCEPT ![p] = "none"]
    /\ cause' = [cause EXCEPT ![p] = "none"]
    /\ held' = [c \in Conns |-> IF pool[c] = p THEN 0 ELSE held[c]]
    /\ astray' = [astray EXCEPT ![p] = FALSE]
    /\ bereft' = [bereft EXCEPT ![p] = FALSE]
    /\ UNCHANGED chain

\* The pool replaces the connection by one that holds nothing.
Drop(c) ==
    /\ "drop" \in Faults
    /\ held[c] > 0
    /\ held' = [held EXCEPT ![c] = 0]
    /\ bereft' = [p \in Processes |->
                      bereft[p] \/ (InSection(p) /\ InSection(pool[c]))]
    /\ UNCHANGED <<sendVars, chain, astray>>

-----------------------------------------------------------------------------
SendNativeTransaction(p) ==
    \/ TryLock(p) \/ ReadNonce(p) \/ Sign(p) \/ Broadcast(p) \/ BroadcastLost(p)
    \/ SendFails(p) \/ Unlock(p) \/ UnlockFails(p) \/ Report(p)

Next ==
    \/ \E p \in Processes :
          Execute(p) \/ CheckBalance(p) \/ SendNativeTransaction(p) \/ Crash(p)
    \/ \E c \in Conns : Drop(c)

Spec == Init /\ [][Next]_vars

-----------------------------------------------------------------------------
(* Properties                                                              *)

Causes == {"none", "busy", "denied", "state", "sender", "funds", "nonce", "other"}
Codes == {"none", "sent", "KMS_ACCESS_DENIED", "KMS_INVALID_STATE", "KMS_INVALID_SENDER",
          "KMS_INSUFFICIENT_FUNDS", "KMS_NONCE_ERROR", "KMS_TX_FAILED"}
Signature == [s : 0..CurveOrder, y : {0, 1}]

TypeOK ==
    /\ pc \in [Processes -> Labels]
    /\ nonce \in [Processes -> Nat]
    /\ sig \in [Processes -> Signature]
    /\ signed \in [Processes -> Signature]
    /\ report \in [Processes -> Codes]
    /\ cause \in [Processes -> Causes]
    /\ held \in [Conns -> Nat]
    /\ chain \in Nat
    /\ astray \in [Processes -> BOOLEAN]
    /\ bereft \in [Processes -> BOOLEAN]

\* Two processes are between lock and unlock at once only if the connection
\* that held the lock was closed under one of them, whatever connections the
\* pools hand out and however often an unlock misses.
OneSender ==
    \A p, q \in Processes :
        p # q /\ InSection(p) /\ InSection(q) => bereft[p] /\ bereft[q]

\* A send broadcasts with the nonce that is next, though it read it two calls
\* earlier, unless a lock was lost with its connection meanwhile.
NonceIsFresh ==
    \A p \in Processes :
        pc[p] \in {"sign", "broadcast"} /\ ~bereft[p] => nonce[p] = chain

\* What is broadcast carries a canonical signature that recovers the KMS key.
SignatureIsCanonical ==
    \A p \in Processes :
        pc[p] = "broadcast" =>
            /\ 2 * signed[p].s < CurveOrder
            /\ Recovers(sig[p], signed[p].s, signed[p].y)

\* A process that is not sending keeps the lock from the others only if one of
\* its unlocks ran on a connection without the lock, or failed.
IdleHoldsNothing ==
    \A p \in Processes :
        ~InSection(p) /\ ~astray[p] => \A c \in ConnsOf(p) : held[c] = 0
=============================================================================
