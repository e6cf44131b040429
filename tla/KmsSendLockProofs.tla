-------------------------- MODULE KmsSendLockProofs --------------------------
(***************************************************************************)
(* The advisory lock of the KMS sender, for any processes, connections,    *)
(* faults and bounds, and for any curve of odd order.                      *)
(***************************************************************************)
EXTENDS KmsSendLock, TLAPS

\* The lock is one: no two sessions have it.
HeldOnce == \A c, d \in Conns : held[c] > 0 /\ held[d] > 0 => c = d

\* A process between lock and unlock has it, unless it was lost under a send.
SectionHolds ==
    \A p \in Processes :
        InSection(p) /\ ~bereft[p] => \E c \in ConnsOf(p) : held[c] > 0

\* Loss of the lock concerns everybody in the section and nobody else.
LossIsShared ==
    /\ \A p \in Processes : bereft[p] => InSection(p)
    /\ \A p, q \in Processes : InSection(p) /\ InSection(q) /\ bereft[p] => bereft[q]

\* While no unlock has missed, a process holds the lock once and in its section.
UnlockLedger ==
    \A p \in Processes : \A c \in ConnsOf(p) :
        ~astray[p] => held[c] <= 1 /\ (~InSection(p) => held[c] = 0)

LockInv == HeldOnce /\ SectionHolds /\ LossIsShared /\ UnlockLedger

SendInv == TypeOK /\ LockInv /\ NonceIsFresh /\ SignatureIsCanonical

-----------------------------------------------------------------------------
(* Types                                                                   *)

\* Half of an odd order: s and its negative are never equal.
LEMMA LowS ==
    ASSUME NEW s \in 1 .. (CurveOrder - 1)
    PROVE  /\ NormalizeLowS(s) \in 0 .. CurveOrder
           /\ 2 * NormalizeLowS(s) < CurveOrder
BY CurveAssumption DEF NormalizeLowS

LEMMA TypeStep ==
    ASSUME TypeOK, [Next]_vars
    PROVE  TypeOK'
<1> USE DEF TypeOK, Labels, Causes, Codes, Signature, NoSig, Goto, sendVars
<1>1. ASSUME NEW p \in Processes, Execute(p) PROVE TypeOK'
  BY <1>1 DEF Execute
<1>2. ASSUME NEW p \in Processes, CheckBalance(p) PROVE TypeOK'
  BY <1>2 DEF CheckBalance
<1>3. ASSUME NEW p \in Processes, TryLock(p) PROVE TypeOK'
  <2>1. PICK c \in Conns : IF HeldElsewhere(c) THEN UNCHANGED <<held, bereft>>
                            ELSE /\ held' = [held EXCEPT ![c] = @ + 1]
                                 /\ bereft' = [bereft EXCEPT ![p] = \E q \in Processes : bereft[q]]
    BY <1>3 DEF TryLock, ConnsOf
  <2>2. held' \in [Conns -> Nat]
    <3>1. held' = held \/ held' = [held EXCEPT ![c] = @ + 1]
      BY <2>1
    <3> QED
      BY <3>1
  <2>3. bereft' \in [Processes -> BOOLEAN]
    BY <2>1, Zenon
  <2>4. /\ pc' \in [Processes -> Labels] /\ cause' \in [Processes -> Causes]
        /\ UNCHANGED <<nonce, sig, signed, report, chain, astray>>
    BY <1>3 DEF TryLock
  <2> QED
    BY <2>2, <2>3, <2>4
<1>4. ASSUME NEW p \in Processes, ReadNonce(p) PROVE TypeOK'
  BY <1>4 DEF ReadNonce
<1>5. ASSUME NEW p \in Processes, Sign(p) PROVE TypeOK'
  <2>1. PICK s \in 1 .. (CurveOrder - 1), y \in {0, 1} :
            \E z \in MatchingYParity([s |-> s, y |-> y], NormalizeLowS(s)) :
                /\ sig' = [sig EXCEPT ![p] = [s |-> s, y |-> y]]
                /\ signed' = [signed EXCEPT ![p] = [s |-> NormalizeLowS(s), y |-> z]]
    BY <1>5 DEF Sign
  <2>2. s \in 0 .. CurveOrder /\ NormalizeLowS(s) \in 0 .. CurveOrder
    BY LowS, CurveAssumption
  <2>3. PICK z \in {0, 1} : signed' = [signed EXCEPT ![p] = [s |-> NormalizeLowS(s), y |-> z]]
    BY <2>1 DEF MatchingYParity
  <2>4. sig' \in [Processes -> Signature]
    BY <2>1, <2>2
  <2>5. signed' \in [Processes -> Signature]
    BY <2>2, <2>3
  <2> QED
    BY <1>5, <2>4, <2>5 DEF Sign
<1>6. ASSUME NEW p \in Processes, NEW why \in Causes, Finish(p, why),
             UNCHANGED <<report, held, astray, bereft>>, chain' \in {chain, chain + 1}
      PROVE TypeOK'
  BY <1>6, CurveAssumption DEF Finish
<1>7. ASSUME NEW p \in Processes, Broadcast(p) PROVE TypeOK'
  BY <1>6, <1>7 DEF Broadcast
<1>8. ASSUME NEW p \in Processes, BroadcastLost(p) PROVE TypeOK'
  BY <1>6, <1>8 DEF BroadcastLost
<1>9. ASSUME NEW p \in Processes, SendFails(p) PROVE TypeOK'
  BY <1>6, <1>9 DEF SendFails
<1>10. ASSUME NEW p \in Processes, Unlock(p) PROVE TypeOK'
  BY <1>10 DEF Unlock, ConnsOf
<1>11. ASSUME NEW p \in Processes, UnlockFails(p) PROVE TypeOK'
  BY <1>11 DEF UnlockFails
<1>12. ASSUME NEW p \in Processes, Report(p) PROVE TypeOK'
  BY <1>12 DEF Report, ErrorCode
<1>13. ASSUME NEW p \in Processes, Crash(p) PROVE TypeOK'
  BY <1>13, CurveAssumption DEF Crash
<1>14. ASSUME NEW c \in Conns, Drop(c) PROVE TypeOK'
  BY <1>14 DEF Drop, InSection
<1>15. CASE UNCHANGED vars
  BY <1>15 DEF vars
<1> QED
  BY <1>1, <1>2, <1>3, <1>4, <1>5, <1>7, <1>8, <1>9, <1>10, <1>11, <1>12, <1>13, <1>14, <1>15
     DEF Next, SendNativeTransaction

-----------------------------------------------------------------------------
(* The lock                                                                *)

\* A step that keeps everybody where they are with respect to the section.
LEMMA LockUntouched ==
    ASSUME LockInv, UNCHANGED <<held, astray, bereft>>,
           \A p \in Processes : InSection(p)' <=> InSection(p)
    PROVE  LockInv'
<1>1. HeldOnce'
  BY DEF LockInv, HeldOnce
<1>2. SectionHolds'
  BY DEF LockInv, SectionHolds, ConnsOf
<1>3. LossIsShared'
  BY DEF LockInv, LossIsShared
<1>4. UnlockLedger'
  BY DEF LockInv, UnlockLedger, ConnsOf
<1> QED
  BY <1>1, <1>2, <1>3, <1>4 DEF LockInv

LEMMA OneSenderFollows == LockInv => OneSender
BY PoolAssumption DEF LockInv, HeldOnce, SectionHolds, LossIsShared, OneSender, ConnsOf

\* Steps outside of the lock and its release.
LEMMA PlainSteps ==
    ASSUME TypeOK, LockInv, NEW p \in Processes,
           \/ Execute(p) \/ CheckBalance(p) \/ ReadNonce(p) \/ Sign(p) \/ Broadcast(p)
           \/ BroadcastLost(p) \/ SendFails(p) \/ Report(p)
    PROVE  LockInv'
<1>1. UNCHANGED <<held, astray, bereft>>
  BY DEF Execute, CheckBalance, ReadNonce, Sign, Broadcast, BroadcastLost, SendFails, Report
<1>2. PICK to \in Labels :
          /\ pc' = [pc EXCEPT ![p] = to]
          /\ to \in {"nonce", "sign", "broadcast", "unlock"} <=> InSection(p)
  BY DEF Execute, CheckBalance, ReadNonce, Sign, Broadcast, BroadcastLost, SendFails, Report,
         Finish, Goto, InSection, Labels
<1>3. \A q \in Processes : InSection(q)' <=> InSection(q)
  BY <1>2 DEF InSection, TypeOK
<1> QED
  BY <1>1, <1>3, LockUntouched

LEMMA TryLockStep ==
    ASSUME TypeOK, LockInv, NEW p \in Processes, TryLock(p)
    PROVE  LockInv'
<1>1. PICK c \in ConnsOf(p) :
          /\ pc[p] = "lock"
          /\ IF HeldElsewhere(c)
             THEN pc' = [pc EXCEPT ![p] = "report"] /\ UNCHANGED <<held, bereft>>
             ELSE /\ pc' = [pc EXCEPT ![p] = "nonce"]
                  /\ held' = [held EXCEPT ![c] = @ + 1]
                  /\ bereft' = [bereft EXCEPT ![p] = \E q \in Processes : bereft[q]]
          /\ UNCHANGED astray
  BY DEF TryLock, Goto
<1>2. CASE HeldElsewhere(c)
  <2>1. \A q \in Processes : InSection(q)' <=> InSection(q)
    BY <1>1, <1>2 DEF InSection, TypeOK
  <2> QED
    BY <1>1, <1>2, <2>1, LockUntouched
<1>3. CASE ~HeldElsewhere(c)
  <2>1. c \in Conns /\ pool[c] = p
    BY DEF ConnsOf
  <2>2. \A d \in Conns : held[d] \in Nat /\ (d # c => held[d] = 0 /\ held'[d] = 0)
    BY <1>1, <1>3, <2>1 DEF HeldElsewhere, TypeOK
  <2>3. held'[c] = held[c] + 1 /\ held[c] \in Nat
    BY <1>1, <1>3, <2>1 DEF TypeOK
  <2>4. ~InSection(p) /\ InSection(p)' /\ \A q \in Processes \ {p} : InSection(q)' <=> InSection(q)
    BY <1>1, <1>3 DEF InSection, TypeOK
  <2>5. /\ bereft'[p] <=> \E q \in Processes : bereft[q]
        /\ \A q \in Processes \ {p} : bereft'[q] <=> bereft[q]
    BY <1>1, <1>3, Zenon DEF TypeOK
  <2>6. HeldOnce'
    BY <2>2 DEF HeldOnce
  <2>7. SectionHolds'
    <3> SUFFICES ASSUME NEW q \in Processes, InSection(q)', ~bereft'[q]
                 PROVE  \E d \in ConnsOf(q) : held'[d] > 0
      BY DEF SectionHolds, ConnsOf
    <3>1. CASE q = p
      BY <3>1, <2>3 DEF ConnsOf
    <3>2. CASE q # p
      BY <3>2, <2>1, <2>2, <2>4, <2>5 DEF LockInv, SectionHolds, ConnsOf
    <3> QED
      BY <3>1, <3>2
  <2>8. LossIsShared'
    BY <2>4, <2>5, Zenon DEF LockInv, LossIsShared
  <2>9. UnlockLedger'
    BY <1>1, <2>1, <2>2, <2>3, <2>4 DEF LockInv, UnlockLedger, ConnsOf
  <2> QED
    BY <2>6, <2>7, <2>8, <2>9 DEF LockInv
<1> QED
  BY <1>2, <1>3

\* Leaving the section: what is released is at most one's own.
LEMMA LeaveStep ==
    ASSUME TypeOK, LockInv, NEW p \in Processes,
           ~InSection(p)', ~bereft'[p],
           \A q \in Processes \ {p} : /\ InSection(q)' <=> InSection(q)
                                      /\ bereft'[q] = bereft[q]
                                      /\ astray'[q] = astray[q],
           \A d \in Conns : /\ held'[d] \in Nat /\ held'[d] <= held[d]
                            /\ pool[d] # p => held'[d] = held[d]
                            /\ pool[d] = p /\ ~astray'[p] => held'[d] = 0
    PROVE  LockInv'
<1>1. HeldOnce'
  BY DEF LockInv, HeldOnce, TypeOK
<1>2. SectionHolds'
  BY DEF LockInv, SectionHolds, ConnsOf, TypeOK
<1>3. LossIsShared'
  BY DEF LockInv, LossIsShared
<1>4. UnlockLedger'
  BY DEF LockInv, UnlockLedger, ConnsOf, TypeOK
<1> QED
  BY <1>1, <1>2, <1>3, <1>4 DEF LockInv

LEMMA UnlockStep ==
    ASSUME TypeOK, LockInv, NEW p \in Processes, Unlock(p)
    PROVE  LockInv'
<1>1. PICK c \in ConnsOf(p) :
          /\ pc[p] = "unlock" /\ pc' = [pc EXCEPT ![p] = "report"]
          /\ held' = [held EXCEPT ![c] = IF @ > 0 THEN @ - 1 ELSE 0]
          /\ astray' = [astray EXCEPT ![p] = @ \/ held[c] = 0]
          /\ bereft' = [bereft EXCEPT ![p] = FALSE]
  BY DEF Unlock, Goto
<1>2. c \in Conns /\ pool[c] = p
  BY DEF ConnsOf
<1>3. /\ InSection(p) /\ ~InSection(p)'
      /\ \A q \in Processes \ {p} : InSection(q)' <=> InSection(q)
  BY <1>1 DEF InSection, TypeOK
<1>4. ~bereft'[p] /\ \A q \in Processes \ {p} : bereft'[q] = bereft[q]
  BY <1>1, Zenon DEF TypeOK
<1>5. \A q \in Processes \ {p} : astray'[q] = astray[q]
  BY <1>1, Zenon DEF TypeOK
<1>6. ~astray'[p] => ~astray[p] /\ held[c] # 0
  BY <1>1, Zenon DEF TypeOK
<1>7. \A d \in Conns : held'[d] = IF d = c /\ held[c] > 0 THEN held[c] - 1 ELSE held[d]
  BY <1>1, <1>2 DEF TypeOK
<1>8. \A d \in Conns : pool[d] = p /\ ~astray'[p] => held'[d] = 0
  BY <1>2, <1>3, <1>6, <1>7 DEF LockInv, HeldOnce, UnlockLedger, ConnsOf, TypeOK
<1>9. \A d \in Conns : /\ held'[d] \in Nat /\ held'[d] <= held[d]
                       /\ pool[d] # p => held'[d] = held[d]
  BY <1>2, <1>7 DEF TypeOK
<1> QED
  BY <1>3, <1>4, <1>5, <1>8, <1>9, LeaveStep

LEMMA UnlockFailsStep ==
    ASSUME TypeOK, LockInv, NEW p \in Processes, UnlockFails(p)
    PROVE  LockInv'
<1>1. ~InSection(p)' /\ \A q \in Processes \ {p} : InSection(q)' <=> InSection(q)
  BY DEF UnlockFails, Goto, InSection, TypeOK
<1>2. /\ ~bereft'[p] /\ astray'[p]
      /\ \A q \in Processes \ {p} : (bereft'[q] = bereft[q]) /\ (astray'[q] = astray[q])
  BY Zenon DEF UnlockFails, TypeOK
<1>3. \A d \in Conns : held'[d] = held[d] /\ held[d] \in Nat
  BY DEF UnlockFails, TypeOK
<1> QED
  BY <1>1, <1>2, <1>3, LeaveStep

LEMMA CrashStep ==
    ASSUME TypeOK, LockInv, NEW p \in Processes, Crash(p)
    PROVE  LockInv'
<1>1. ~InSection(p)' /\ \A q \in Processes \ {p} : InSection(q)' <=> InSection(q)
  BY DEF Crash, InSection, TypeOK
<1>2. /\ ~bereft'[p]
      /\ \A q \in Processes \ {p} : (bereft'[q] = bereft[q]) /\ (astray'[q] = astray[q])
  BY Zenon DEF Crash, TypeOK
<1>3. \A d \in Conns : held'[d] = (IF pool[d] = p THEN 0 ELSE held[d]) /\ held[d] \in Nat
  BY DEF Crash, TypeOK
<1> QED
  BY <1>1, <1>2, <1>3, LeaveStep

LEMMA DropStep ==
    ASSUME TypeOK, LockInv, NEW c \in Conns, Drop(c)
    PROVE  LockInv'
<1>1. \A d \in Conns : held'[d] = (IF d = c THEN 0 ELSE held[d]) /\ held[d] \in Nat
  BY DEF Drop, TypeOK
<1>2. \A q \in Processes : /\ InSection(q)' <=> InSection(q)
                           /\ astray'[q] <=> astray[q]
  BY DEF Drop, sendVars, InSection
<1>3. \A q \in Processes :
          bereft'[q] <=> bereft[q] \/ (InSection(q) /\ InSection(pool[c]))
  BY Zenon DEF Drop
<1>4. HeldOnce'
  BY <1>1 DEF LockInv, HeldOnce
<1>5. SectionHolds'
  BY <1>1, <1>2, <1>3 DEF LockInv, SectionHolds, ConnsOf
<1>6. LossIsShared'
  BY <1>2, <1>3, PoolAssumption DEF LockInv, LossIsShared
<1>7. UnlockLedger'
  BY <1>1, <1>2 DEF LockInv, UnlockLedger, ConnsOf
<1> QED
  BY <1>4, <1>5, <1>6, <1>7 DEF LockInv

LEMMA LockStep ==
    ASSUME TypeOK, LockInv, [Next]_vars
    PROVE  LockInv'
<1>1. CASE UNCHANGED vars
  BY <1>1, LockUntouched DEF vars, sendVars, InSection
<1> QED
  BY <1>1, PlainSteps, TryLockStep, UnlockStep, UnlockFailsStep, CrashStep, DropStep
     DEF Next, SendNativeTransaction

-----------------------------------------------------------------------------
(* Nonces and signatures                                                   *)

\* A send that counts on is alone in the section, so the count stands still.
LEMMA NonceStep ==
    ASSUME TypeOK, LockInv, NonceIsFresh, [Next]_vars
    PROVE  NonceIsFresh'
<1>1. OneSender
  BY OneSenderFollows
<1> USE DEF TypeOK, NonceIsFresh, Goto
<1>2. ASSUME NEW p \in Processes,
             Execute(p) \/ CheckBalance(p) \/ Sign(p) \/ SendFails(p) \/ Report(p)
      PROVE  NonceIsFresh'
  <2>1. UNCHANGED <<chain, bereft>>
    BY <1>2 DEF Execute, CheckBalance, Sign, SendFails, Report
  <2>2. \A q \in Processes : pc'[q] \in {"sign", "broadcast"} =>
            pc[q] \in {"sign", "broadcast"} /\ nonce'[q] = nonce[q]
    BY <1>2 DEF Execute, CheckBalance, Sign, SendFails, Finish, Report
  <2> QED
    BY <2>1, <2>2
<1>3. ASSUME NEW p \in Processes, TryLock(p) PROVE NonceIsFresh'
  <2>1. PICK b \in {bereft[p], \E q \in Processes : bereft[q]} :
            bereft' = [bereft EXCEPT ![p] = b]
    BY <1>3, Zenon DEF TryLock
  <2>2. \A q \in Processes : pc'[q] \in {"sign", "broadcast"} =>
            q # p /\ pc[q] \in {"sign", "broadcast"} /\ nonce'[q] = nonce[q]
    BY <1>3 DEF TryLock
  <2>3. \A q \in Processes \ {p} : bereft'[q] = bereft[q]
    BY <2>1, Zenon
  <2> QED
    BY <1>3, <2>2, <2>3 DEF TryLock
<1>4. ASSUME NEW p \in Processes, ReadNonce(p) PROVE NonceIsFresh'
  BY <1>4 DEF ReadNonce
<1>5. ASSUME NEW p \in Processes, Broadcast(p) \/ BroadcastLost(p) PROVE NonceIsFresh'
  <2>1. InSection(p) /\ UNCHANGED bereft
    BY <1>5 DEF Broadcast, BroadcastLost, InSection
  <2>2. \A q \in Processes : pc'[q] \in {"sign", "broadcast"} => q # p /\ pc'[q] = pc[q]
    BY <1>5 DEF Broadcast, BroadcastLost, Finish
  <2>3. \A q \in Processes : pc'[q] \in {"sign", "broadcast"} => bereft[q]
    BY <1>1, <2>1, <2>2 DEF OneSender, InSection
  <2> QED
    BY <2>1, <2>3
<1>6. ASSUME NEW p \in Processes, Unlock(p) \/ UnlockFails(p) \/ Crash(p) PROVE NonceIsFresh'
  <2>1. UNCHANGED chain /\ bereft' = [bereft EXCEPT ![p] = FALSE]
    BY <1>6 DEF Unlock, UnlockFails, Crash
  <2>2. \A q \in Processes : pc'[q] \in {"sign", "broadcast"} =>
            q # p /\ pc[q] \in {"sign", "broadcast"} /\ nonce'[q] = nonce[q]
    BY <1>6 DEF Unlock, UnlockFails, Crash
  <2> QED
    BY <2>1, <2>2
<1>7. ASSUME NEW c \in Conns, Drop(c) PROVE NonceIsFresh'
  <2>1. \A q \in Processes : bereft[q] => bereft'[q]
    BY <1>7, Zenon DEF Drop
  <2> QED
    BY <1>7, <2>1 DEF Drop, sendVars
<1>8. CASE UNCHANGED vars
  BY <1>8 DEF vars, sendVars
<1> QED
  BY <1>2, <1>3, <1>4, <1>5, <1>6, <1>7, <1>8 DEF Next, SendNativeTransaction

LEMMA SignatureStep ==
    ASSUME TypeOK, SignatureIsCanonical, [Next]_vars
    PROVE  SignatureIsCanonical'
<1> USE DEF TypeOK, SignatureIsCanonical, Goto
<1>1. ASSUME NEW p \in Processes, Sign(p) PROVE SignatureIsCanonical'
  <2>1. PICK s \in 1 .. (CurveOrder - 1), y \in {0, 1} :
            \E z \in MatchingYParity([s |-> s, y |-> y], NormalizeLowS(s)) :
                /\ sig' = [sig EXCEPT ![p] = [s |-> s, y |-> y]]
                /\ signed' = [signed EXCEPT ![p] = [s |-> NormalizeLowS(s), y |-> z]]
    BY <1>1 DEF Sign
  <2>2. PICK z \in MatchingYParity([s |-> s, y |-> y], NormalizeLowS(s)) :
            /\ sig' = [sig EXCEPT ![p] = [s |-> s, y |-> y]]
            /\ signed' = [signed EXCEPT ![p] = [s |-> NormalizeLowS(s), y |-> z]]
    BY <2>1
  <2>3. Recovers([s |-> s, y |-> y], NormalizeLowS(s), z)
    BY <2>2 DEF MatchingYParity
  <2>4. /\ sig'[p] = [s |-> s, y |-> y] /\ signed'[p] = [s |-> NormalizeLowS(s), y |-> z]
        /\ \A q \in Processes \ {p} : sig'[q] = sig[q] /\ signed'[q] = signed[q]
    BY <2>2
  <2>5. 2 * signed'[p].s < CurveOrder /\ Recovers(sig'[p], signed'[p].s, signed'[p].y)
    BY <2>3, <2>4, LowS
  <2>6. \A q \in Processes \ {p} : pc'[q] = pc[q]
    BY <1>1 DEF Sign
  <2> QED
    BY <2>4, <2>5, <2>6 DEF Recovers
<1>2. ASSUME \A q \in Processes : pc'[q] = "broadcast" =>
                 pc[q] = "broadcast" /\ sig'[q] = sig[q] /\ signed'[q] = signed[q]
      PROVE  SignatureIsCanonical'
  BY <1>2 DEF Recovers
<1>3. ASSUME NEW p \in Processes,
             Execute(p) \/ CheckBalance(p) \/ ReadNonce(p) \/ Report(p)
      PROVE  SignatureIsCanonical'
  BY <1>2, <1>3 DEF Execute, CheckBalance, ReadNonce, Report
<1>4. ASSUME NEW p \in Processes, Broadcast(p) \/ BroadcastLost(p) \/ SendFails(p)
      PROVE  SignatureIsCanonical'
  BY <1>2, <1>4 DEF Broadcast, BroadcastLost, SendFails, Finish
<1>5. ASSUME NEW p \in Processes, TryLock(p) \/ Unlock(p) \/ UnlockFails(p) \/ Crash(p)
      PROVE  SignatureIsCanonical'
  BY <1>2, <1>5 DEF TryLock, Unlock, UnlockFails, Crash
<1>6. ASSUME NEW c \in Conns, Drop(c) PROVE SignatureIsCanonical'
  BY <1>2, <1>6 DEF Drop, sendVars
<1>7. CASE UNCHANGED vars
  BY <1>2, <1>7 DEF vars, sendVars
<1> QED
  BY <1>1, <1>3, <1>4, <1>5, <1>6, <1>7 DEF Next, SendNativeTransaction

-----------------------------------------------------------------------------
(* The specification                                                       *)

LEMMA SendInit == Init => SendInv
<1> SUFFICES ASSUME Init PROVE SendInv
  OBVIOUS
<1>1. TypeOK
  BY CurveAssumption DEF Init, TypeOK, Labels, Causes, Codes, Signature, NoSig
<1>2. LockInv
  BY DEF Init, LockInv, HeldOnce, SectionHolds, LossIsShared, UnlockLedger, InSection, ConnsOf
<1>3. NonceIsFresh /\ SignatureIsCanonical
  BY DEF Init, NonceIsFresh, SignatureIsCanonical
<1> QED
  BY <1>1, <1>2, <1>3 DEF SendInv

\* The invariant of the lock with the types, the nonces and the signatures holds
\* for any processes, pools, faults and bounds.
THEOREM SendInvariance == Spec => []SendInv
<1>1. SendInv /\ [Next]_vars => SendInv'
  BY TypeStep, LockStep, NonceStep, SignatureStep DEF SendInv
<1> QED
  BY <1>1, SendInit, PTL DEF Spec

\* Type correctness of the sender.
THEOREM SendTypeCorrect == Spec => []TypeOK
<1>1. SendInv => TypeOK
  BY DEF SendInv
<1> QED
  BY <1>1, SendInvariance, PTL

\* withKmsSendLock keeps two processes apart, whatever connections lock and
\* unlock run on, unless the session with the lock ends under a send.
THEOREM SendersExclude == Spec => []OneSender
<1>1. SendInv => OneSender
  BY OneSenderFollows DEF SendInv
<1> QED
  BY <1>1, SendInvariance, PTL

\* The nonce of sendNativeTransaction is still the next one when it broadcasts,
\* unless the lock was lost with its connection under the send.
THEOREM NoncesFresh == Spec => []NonceIsFresh
<1>1. SendInv => NonceIsFresh
  BY DEF SendInv
<1> QED
  BY <1>1, SendInvariance, PTL

\* normalizeLowS and findMatchingYParity yield a canonical signature of the KMS
\* key, for every odd order of the curve.
THEOREM SignaturesCanonical == Spec => []SignatureIsCanonical
<1>1. SendInv => SignatureIsCanonical
  BY DEF SendInv
<1> QED
  BY <1>1, SendInvariance, PTL

\* The lock stays behind only with a process whose unlock missed it or failed.
THEOREM IdleReleased == Spec => []IdleHoldsNothing
<1>1. SendInv => IdleHoldsNothing
  BY DEF SendInv, LockInv, UnlockLedger, IdleHoldsNothing
<1> QED
  BY <1>1, SendInvariance, PTL
=============================================================================
