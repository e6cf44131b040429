------------------------ MODULE WithdrawIntakeProofs ------------------------
(***************************************************************************)
(* The intake of withdrawals, for any number of calls, whitelist saves,    *)
(* wallets, keys and bodies.                                               *)
(***************************************************************************)
EXTENDS WithdrawIntake, SequenceTheorems, TLAPS

-----------------------------------------------------------------------------
(* The inductive invariant                                                 *)

\* A call that has read its wallet and was not refused.
Asked == {"lookup", "nonce", "create", "conflict", "logFirst", "logSecond"}

\* What it asks for obeyed the policy it read, or fell into a gap of it.
Cleared(c) ==
    /\ body[c] \in Bodies
    /\ body[c].to # body[c].wallet
    /\ rule[c].max = NoLimit \/ body[c].amount <= rule[c].max
    /\ rule[c].list = {} \/ body[c].to \in rule[c].list \/ rule[c].torn

AskedIsCleared ==
    \A c \in Calls : pc[c] \in Asked \/ c \in rows => Cleared(c)

\* The signed transaction of an SSS request says what the request says.
SignedIsAsked ==
    \A c \in Calls :
        (pc[c] \in Asked \ {"lookup"} \/ c \in rows) /\ TypeOf(c) = "SSS" =>
            body[c].tx.to = body[c].to /\ body[c].tx.amount = body[c].amount

\* The row of a call is there when its events are due, and not before.
RowsAreCreated ==
    \A c \in Calls :
        /\ pc[c] \in {"logFirst", "logSecond"} => c \in rows
        /\ c \in rows => pc[c] \in {"logFirst", "logSecond", "done"}

\* The unique key of the table.
KeyIsUnique == \A c, d \in rows : key[c] = key[d] /\ key[c] # NoKey => c = d

\* A call is answered with a request that is there and has the key of the call.
AnswerHasKey ==
    \A c \in Calls : answer[c] \in Calls => answer[c] \in rows /\ key[answer[c]] = key[c]

\* How far the log of a request is, and whether it is queued.
LogIs(c, events) ==
    /\ c \notin rows \/ pc[c] = "logFirst" => log[c] = <<>>
    /\ pc[c] = "logSecond" => Len(events) = 2 /\ log[c] = <<events[1]>>
    /\ log[c] \in {<<>>, <<events[1]>>, events}
    /\ answer[c] = c => log[c] = events

LogIsUpTo == \A c \in Calls : LogIs(c, Events(TypeOf(c)))

QueuedUnlessMultisig ==
    \A c \in rows : c \in queue <=> TypeOf(c) # "MULTISIG"

\* Answers come last.
UnansweredYet == \A c \in Calls : pc[c] # "done" => answer[c] = None

RequestInv ==
    RowsAreCreated /\ KeyIsUnique /\ AnswerHasKey /\ QueuedUnlessMultisig /\ UnansweredYet

IntakeInv == TypeOK /\ RequestInv /\ AskedIsCleared /\ SignedIsAsked /\ LogIsUpTo

-----------------------------------------------------------------------------
(* What steps leave alone                                                  *)

LEMMA EventsAre ==
    ASSUME NEW t
    PROVE  /\ Events(t) \in Seq({"REQUEST_CREATED", "SSS_SIGNED_TX_VALIDATED", "QUEUED"})
           /\ \/ Len(Events(t)) = 1 /\ Events(t) = <<Events(t)[1]>>
              \/ Len(Events(t)) = 2 /\ Events(t) = <<Events(t)[1], Events(t)[2]>>
<1>1. CASE t = "SSS"
  BY <1>1 DEF Events
<1>2. CASE t = "MULTISIG"
  BY <1>2 DEF Events
<1>3. CASE t # "SSS" /\ t # "MULTISIG"
  <2>1. Events(t) = <<"REQUEST_CREATED", "QUEUED">>
    BY <1>3 DEF Events
  <2> QED
    BY <2>1
<1> QED
  BY <1>1, <1>2, <1>3

\* The steps of a call after it has read its wallet.
Later(c) ==
    \/ Refuse(c) \/ LookupFinds(c) \/ LookupFindsNothing(c) \/ CheckNonce(c)
    \/ IF TypeOf(c) = "MULTISIG" THEN CreateMultisig(c) ELSE CreateWithQueue(c)
    \/ AnswerConflict(c) \/ LogFirst(c) \/ LogSecond(c) \/ CallFails(c)

\* Steps of whitelist, limits and chain.
Elsewhere ==
    \/ \E s \in Saves : UpdateWhitelist(s)
    \/ \E w \in Limited : UpdateLimits(w)
    \/ \E w \in Wallets : ChainAdvances(w)
    \/ UNCHANGED vars

LEMMA StepCases ==
    ASSUME [Next]_vars
    PROVE  (\E c \in Calls : ReadWallet(c) \/ Later(c)) \/ Elsewhere
  BY DEF Next, Withdraw, WithdrawMultisig, WithdrawKms, WithdrawBackendSec, WithdrawPolicyGuard,
     WithdrawMpc, WithdrawSss, Branch, Later, Elsewhere

LEMMA ElsewhereFrame ==
    ASSUME Elsewhere
    PROVE  UNCHANGED <<tableVars, callVars>>
  BY DEF Elsewhere, UpdateWhitelist, SaveBegins, SaveDeletes, SaveCreates, UpdateLimits,
     ChainAdvances, vars, tableVars, callVars

\* A step of a call does nothing to the others, and a later one nothing to what
\* was read.
LEMMA LaterFrame ==
    ASSUME TypeOK, NEW c \in Calls, Later(c)
    PROVE  /\ UNCHANGED <<body, key, rule, policyVars, nonce>>
           /\ pc' = [pc EXCEPT ![c] = pc'[c]]
           /\ answer' = [answer EXCEPT ![c] = answer'[c]]
           /\ log' = [log EXCEPT ![c] = log'[c]]
           /\ \A d \in Calls \ {c} : /\ pc'[d] = pc[d] /\ answer'[d] = answer[d]
                                     /\ log'[d] = log[d]
                                     /\ d \in rows' <=> d \in rows
                                     /\ d \in queue' <=> d \in queue
<1> USE DEF TypeOK, Goto, Answer
<1>1. CASE Refuse(c) \/ LookupFinds(c) \/ LookupFindsNothing(c) \/ CheckNonce(c)
  BY <1>1 DEF Refuse, LookupFinds, LookupFindsNothing, CheckNonce, tableVars
<1>2. CASE CreateWithQueue(c) \/ CreateMultisig(c) \/ AnswerConflict(c)
  BY <1>2 DEF CreateWithQueue, CreateMultisig, AnswerConflict, tableVars
<1>3. CASE LogFirst(c) \/ LogSecond(c) \/ CallFails(c)
  BY <1>3 DEF LogFirst, LogSecond, CallFails, tableVars
<1> QED
  BY <1>1, <1>2, <1>3 DEF Later

\* Where a later step of a call leads to.
LEMMA LaterGoes ==
    ASSUME TypeOK, NEW c \in Calls, Later(c)
    PROVE  \/ /\ pc[c] = "lookup" /\ pc'[c] = FirstStep(body[c])
              /\ UNCHANGED <<rows, queue, log, answer>>
           \/ /\ pc[c] = "nonce" /\ pc'[c] \in {"create", "refuse"}
              /\ UNCHANGED <<rows, queue, log, answer>>
           \/ /\ pc[c] = "create" /\ pc'[c] = "conflict"
              /\ UNCHANGED <<rows, queue, log, answer>>
           \/ /\ pc[c] = "create" /\ pc'[c] = "logFirst" /\ ~KeyConflict(c)
              /\ rows' = rows \cup {c}
              /\ queue' = IF TypeOf(c) = "MULTISIG" THEN queue ELSE queue \cup {c}
              /\ UNCHANGED <<log, answer>>
           \/ /\ pc[c] = "logFirst" /\ pc'[c] = "logSecond" /\ Len(Events(TypeOf(c))) = 2
              /\ log'[c] = Append(log[c], Events(TypeOf(c))[1])
              /\ UNCHANGED <<rows, queue, answer>>
           \/ /\ pc[c] = "logFirst" /\ pc'[c] = "done" /\ Len(Events(TypeOf(c))) = 1
              /\ log'[c] = Append(log[c], Events(TypeOf(c))[1]) /\ answer'[c] = c
              /\ UNCHANGED <<rows, queue>>
           \/ /\ pc[c] = "logSecond" /\ pc'[c] = "done"
              /\ log'[c] = Append(log[c], Events(TypeOf(c))[2]) /\ answer'[c] = c
              /\ UNCHANGED <<rows, queue>>
           \/ /\ pc[c] \in {"lookup", "conflict"} /\ pc'[c] = "done"
              /\ answer'[c] \in WithKey(key[c])
              /\ UNCHANGED <<rows, queue, log>>
           \/ /\ pc'[c] = "done" /\ answer'[c] \in {"refused", "error"}
              /\ UNCHANGED <<rows, queue, log>>
<1> USE DEF TypeOK, Goto, Answer
<1>1. CASE Refuse(c) \/ LookupFinds(c) \/ LookupFindsNothing(c) \/ CheckNonce(c)
  BY <1>1 DEF Refuse, LookupFinds, LookupFindsNothing, CheckNonce, tableVars
<1>2. CASE IF TypeOf(c) = "MULTISIG" THEN CreateMultisig(c) ELSE CreateWithQueue(c)
  BY <1>2 DEF CreateWithQueue, CreateMultisig
<1>3. CASE AnswerConflict(c)
  BY <1>3 DEF AnswerConflict, tableVars
<1>4. CASE LogFirst(c)
  BY <1>4, EventsAre DEF LogFirst
<1>5. CASE LogSecond(c) \/ CallFails(c)
  BY <1>5 DEF LogSecond, CallFails, tableVars
<1> QED
  BY <1>1, <1>2, <1>3, <1>4, <1>5 DEF Later

\* A call starts by reading: nothing was answered or made for it before.
LEMMA ReadFrame ==
    ASSUME TypeOK, NEW c \in Calls, ReadWallet(c)
    PROVE  /\ pc[c] = "new" /\ UNCHANGED <<tableVars, answer, policyVars, nonce>>
           /\ \A d \in Calls \ {c} : /\ pc'[d] = pc[d] /\ body'[d] = body[d]
                                     /\ key'[d] = key[d] /\ rule'[d] = rule[d]
  BY DEF ReadWallet, Goto, TypeOK

LEMMA ReadGoes ==
    ASSUME TypeOK, NEW c \in Calls, ReadWallet(c)
    PROVE  \/ pc'[c] = "refuse"
           \/ /\ pc'[c] \in {"lookup", FirstStep(body'[c])}
              /\ body'[c] \in Bodies
              /\ LET w == body'[c].wallet IN
                    /\ WithinPolicy(body'[c], whitelist[w], limit[w])
                    /\ rule'[c] = [list |-> saved[w], max |-> limit[w],
                                   torn |-> whitelist[w] # saved[w]]
  BY DEF ReadWallet, Goto, TypeOK

LEMMA AppendSecond ==
    ASSUME NEW S, NEW x \in S, NEW y \in S
    PROVE  Append(<<x>>, y) = <<x, y>>
<1> DEFINE s == Append(<<x>>, y)
<1> DEFINE t == <<x, y>>
<1>1. s \in Seq(S) /\ t \in Seq(S) /\ Len(s) = 2 /\ Len(t) = 2
  OBVIOUS
<1>2. s[1] = x /\ s[2] = y /\ t[1] = x /\ t[2] = y
  OBVIOUS
<1>3. \A i \in 1 .. Len(s) : s[i] = t[i]
  BY <1>1, <1>2
<1> HIDE DEF s, t
<1>4. s = t
  BY <1>1, <1>3, SeqEqual
<1> QED
  BY <1>4 DEF s, t

LEMMA FirstOnly ==
    ASSUME NEW S, NEW e \in Seq(S), Len(e) >= 1
    PROVE  SubSeq(e, 1, 1) = <<e[1]>>
<1> DEFINE s == SubSeq(e, 1, 1)
<1> DEFINE t == <<e[1]>>
<1>1. s \in Seq(S) /\ t \in Seq(S) /\ Len(s) = 1 /\ Len(t) = 1
  OBVIOUS
<1>2. s[1] = e[1] /\ t[1] = e[1]
  OBVIOUS
<1>3. \A i \in 1 .. Len(s) : s[i] = t[i]
  BY <1>1, <1>2
<1> HIDE DEF s, t
<1>4. s = t
  BY <1>1, <1>3, SeqEqual
<1> QED
  BY <1>4 DEF s, t

LEMMA AppendIsTyped ==
    ASSUME NEW S, NEW q \in Seq(S), NEW e \in S
    PROVE  Append(q, e) \in Seq(S)
  OBVIOUS

\* A later step appends an event at most, and one that is due.
LEMMA LogGoes ==
    ASSUME TypeOK, LogIsUpTo, NEW c \in Calls, Later(c)
    PROVE  log'[c] \in Seq({"REQUEST_CREATED", "SSS_SIGNED_TX_VALIDATED", "QUEUED"})
<1> DEFINE events == Events(TypeOf(c))
<1>1. Len(events) = 2 => events[2] \in {"REQUEST_CREATED", "SSS_SIGNED_TX_VALIDATED", "QUEUED"}
  BY EventsAre
<1>2. events[1] \in {"REQUEST_CREATED", "SSS_SIGNED_TX_VALIDATED", "QUEUED"}
  BY EventsAre
<1>3. \/ log'[c] = log[c]
      \/ log'[c] = Append(log[c], events[1])
      \/ pc[c] = "logSecond" /\ log'[c] = Append(log[c], events[2])
  BY LaterGoes
<1>4. pc[c] = "logSecond" => Len(events) = 2
  BY DEF LogIsUpTo, LogIs
<1>5. log[c] \in Seq({"REQUEST_CREATED", "SSS_SIGNED_TX_VALIDATED", "QUEUED"})
  BY DEF TypeOK
<1> HIDE DEF events
<1> QED
  BY <1>1, <1>2, <1>3, <1>4, <1>5, AppendIsTyped

LEMMA FirstStepIs ==
    ASSUME NEW b
    PROVE  /\ FirstStep(b) \in {"create", "nonce", "refuse"}
           /\ FirstStep(b) # "refuse" /\ walletType[b.wallet] = "SSS" =>
                  b.tx.to = b.to /\ b.tx.amount = b.amount
  BY DEF FirstStep, SignedAsAsked

-----------------------------------------------------------------------------
(* Types                                                                   *)

Save == [wallet : Wallets \cup {None}, list : SUBSET Addresses,
         at : {"idle", "delete", "create", "done"}]

LEMMA TypeStep ==
    ASSUME TypeOK, LogIsUpTo, [Next]_vars
    PROVE  TypeOK'
<1> USE DEF TypeOK, Goto, Answer, Labels
<1>1. ASSUME NEW c \in Calls, ReadWallet(c) PROVE TypeOK'
  <2>1. PICK b \in Bodies, k \in Keys \cup {NoKey} :
            /\ pc[c] = "new"
            /\ pc' = [pc EXCEPT ![c] =
                   IF /\ owner[b.wallet] = b.user
                      /\ NeedsOtp(b) => b.otp
                      /\ WithinPolicy(b, whitelist[b.wallet], limit[b.wallet])
                   THEN IF k = NoKey THEN FirstStep(b) ELSE "lookup"
                   ELSE "refuse"]
            /\ body' = [body EXCEPT ![c] = b]
            /\ key' = [key EXCEPT ![c] = k]
            /\ rule' = [rule EXCEPT ![c] =
                   [list |-> saved[b.wallet], max |-> limit[b.wallet],
                    torn |-> whitelist[b.wallet] # saved[b.wallet]]]
    BY <1>1 DEF ReadWallet
  <2>2. b.wallet \in Wallets
    BY BodiesAssumption DEF Body
  <2>3. [list |-> saved[b.wallet], max |-> limit[b.wallet],
         torn |-> whitelist[b.wallet] # saved[b.wallet]] \in Rule
    BY <2>2 DEF Rule
  <2>4. pc' \in [Calls -> Labels]
    BY <2>1, FirstStepIs
  <2>5. rule' \in [Calls -> Rule \cup {None}]
    BY <2>1, <2>3
  <2>6. UNCHANGED <<policyVars, tableVars, answer, nonce>>
    BY <1>1 DEF ReadWallet
  <2> QED
    BY <2>1, <2>4, <2>5, <2>6 DEF policyVars, tableVars
<1>2. ASSUME NEW c \in Calls, Later(c) PROVE TypeOK'
  <2>1. pc'[c] \in Labels
    BY <1>2, LaterGoes, FirstStepIs
  <2>2. answer'[c] \in Calls \cup {None, "refused", "error"}
    BY <1>2, LaterGoes DEF WithKey
  <2>3. rows' \subseteq Calls /\ queue' \subseteq rows'
    BY <1>2, LaterGoes
  <2>4. log'[c] \in Seq({"REQUEST_CREATED", "SSS_SIGNED_TX_VALIDATED", "QUEUED"})
    BY <1>2, LaterGoes, LogGoes
  <2>5. /\ pc' \in [Calls -> Labels]
        /\ answer' \in [Calls -> Calls \cup {None, "refused", "error"}]
        /\ log' \in [Calls -> Seq({"REQUEST_CREATED", "SSS_SIGNED_TX_VALIDATED", "QUEUED"})]
    BY <1>2, <2>1, <2>2, <2>4, LaterFrame
  <2> QED
    BY <1>2, <2>3, <2>5, LaterFrame DEF policyVars
<1>3. CASE Elsewhere
  <2>1. CASE \E s \in Saves : SaveBegins(s)
    <3>1. PICK s \in Saves, u \in Users, w \in Wallets, list \in Lists :
              /\ save' = [save EXCEPT ![s] = [wallet |-> w, list |-> Range(list), at |-> "delete"]]
              /\ UNCHANGED <<whitelist, saved, limit, tableVars, callVars, nonce>>
      BY <2>1 DEF SaveBegins
    <3>2. Range(list) \subseteq Addresses
      BY ListsAssumption DEF Range
    <3>3. save' \in [Saves -> Save]
      BY <3>1, <3>2 DEF Save
    <3> QED
      BY <3>1, <3>3 DEF tableVars, callVars, Save
  <2>2. CASE \E s \in Saves : SaveDeletes(s) \/ SaveCreates(s)
    <3>1. PICK s \in Saves : SaveDeletes(s) \/ SaveCreates(s)
      BY <2>2
    <3>2. save' = [save EXCEPT ![s].at = save'[s].at] /\ save'[s].at \in {"create", "done"}
      BY <3>1 DEF SaveDeletes, SaveCreates
    <3>3. save' \in [Saves -> Save]
      BY <3>2 DEF Save
    <3>4. whitelist' \in [Wallets -> SUBSET Addresses]
      <4>1. CASE SaveDeletes(s)
        BY <4>1 DEF SaveDeletes
      <4>2. CASE SaveCreates(s)
        <5>1. save[s].list \subseteq Addresses
          OBVIOUS
        <5> QED
          BY <4>2, <5>1 DEF SaveCreates
      <4> QED
        BY <3>1, <4>1, <4>2
    <3>5. saved' \in [Wallets -> SUBSET Addresses]
      <4>1. CASE SaveDeletes(s)
        BY <4>1 DEF SaveDeletes
      <4>2. CASE SaveCreates(s)
        <5>1. saved' = [saved EXCEPT ![save[s].wallet] = whitelist'[save[s].wallet]]
          BY <4>2 DEF SaveCreates
        <5>2. \A w \in Wallets : whitelist'[w] \in SUBSET Addresses
          BY <3>4
        <5> QED
          BY <5>1, <5>2
      <4> QED
        BY <3>1, <4>1, <4>2
    <3> QED
      BY <3>1, <3>3, <3>4, <3>5 DEF SaveDeletes, SaveCreates, tableVars, callVars, Save
  <2>3. CASE \E w \in Limited : UpdateLimits(w)
    BY <2>3 DEF UpdateLimits, tableVars, callVars
  <2>4. CASE \E w \in Wallets : ChainAdvances(w)
    BY <2>4 DEF ChainAdvances, policyVars, tableVars, callVars
  <2>5. CASE UNCHANGED vars
    BY <2>5 DEF vars, policyVars, tableVars, callVars
  <2> QED
    BY <1>3, <2>1, <2>2, <2>3, <2>4, <2>5 DEF Elsewhere, UpdateWhitelist
<1> QED
  BY <1>1, <1>2, <1>3, StepCases

-----------------------------------------------------------------------------
(* Rows, keys and answers                                                  *)

LEMMA RequestStep ==
    ASSUME TypeOK, RequestInv, [Next]_vars
    PROVE  RequestInv'
<1> USE DEF RequestInv
<1>1. ASSUME NEW c \in Calls, ReadWallet(c) PROVE RequestInv'
  <2>1. c \notin rows /\ pc'[c] \in {"refuse", "lookup", "create", "nonce"}
    BY <1>1, ReadFrame, ReadGoes, FirstStepIs DEF RowsAreCreated
  <2>2. UNCHANGED <<rows, queue, answer>> /\ rows \subseteq Calls
    BY <1>1, ReadFrame DEF tableVars, TypeOK
  <2>3. \A d \in Calls \ {c} : pc'[d] = pc[d] /\ key'[d] = key[d] /\ body'[d] = body[d]
    BY <1>1, ReadFrame
  <2>4. answer[c] \notin Calls
    BY <1>1, ReadFrame, NoneAssumption DEF UnansweredYet
  <2>5. RowsAreCreated'
    BY <2>1, <2>2, <2>3 DEF RowsAreCreated
  <2>6. KeyIsUnique'
    BY <2>1, <2>2, <2>3 DEF KeyIsUnique
  <2>7. AnswerHasKey'
    BY <2>1, <2>2, <2>3, <2>4 DEF AnswerHasKey
  <2>8. QueuedUnlessMultisig'
    BY <2>1, <2>2, <2>3 DEF QueuedUnlessMultisig, TypeOf
  <2>9. UnansweredYet'
    BY <1>1, <2>1, <2>2, <2>3, ReadFrame DEF UnansweredYet
  <2> QED
    BY <2>5, <2>6, <2>7, <2>8, <2>9
<1>2. ASSUME NEW c \in Calls, Later(c) PROVE RequestInv'
  <2>1. /\ UNCHANGED <<key, body>> /\ rows \subseteq rows' /\ rows' \subseteq rows \cup {c}
        /\ rows \subseteq Calls
        /\ \A d \in Calls \ {c} : /\ pc'[d] = pc[d] /\ answer'[d] = answer[d]
                                  /\ d \in rows' <=> d \in rows
                                  /\ d \in queue' <=> d \in queue
    <3>1. rows' = rows \/ rows' = rows \cup {c}
      BY <1>2, LaterGoes
    <3> QED
      BY <1>2, <3>1, LaterFrame DEF TypeOK
  <2>2. c \in rows' \ rows =>
            /\ pc'[c] = "logFirst" /\ ~KeyConflict(c)
            /\ c \in queue' <=> TypeOf(c) # "MULTISIG"
    <3>1. c \notin rows => c \notin queue
      BY DEF TypeOK
    <3> QED
      BY <1>2, <3>1, LaterGoes
  <2>3. c \in rows => UNCHANGED <<rows, queue>>
    BY <1>2, LaterGoes DEF RowsAreCreated
  <2>4. RowsAreCreated'
    <3>1. c \in rows' => pc'[c] \in {"logFirst", "logSecond", "done"}
      BY <1>2, LaterGoes DEF RowsAreCreated
    <3>2. pc'[c] \in {"logFirst", "logSecond"} => c \in rows'
      BY <1>2, LaterGoes, FirstStepIs DEF RowsAreCreated
    <3> QED
      BY <2>1, <3>1, <3>2 DEF RowsAreCreated
  <2>5. KeyIsUnique'
    BY <2>1, <2>2 DEF KeyIsUnique, KeyConflict, WithKey
  <2>6. AnswerHasKey'
    <3>1. \/ answer'[c] = answer[c] \/ answer'[c] \in {"refused", "error"}
          \/ answer'[c] \in WithKey(key[c])
          \/ answer'[c] = c /\ c \in rows
      BY <1>2, LaterGoes DEF RowsAreCreated
    <3>2. answer'[c] \in Calls => answer'[c] \in rows' /\ key[answer'[c]] = key[c]
      BY <2>1, <3>1, NoneAssumption DEF AnswerHasKey, WithKey
    <3> QED
      BY <2>1, <3>2 DEF AnswerHasKey
  <2>7. QueuedUnlessMultisig'
    <3>1. \A d \in Calls : TypeOf(d)' = TypeOf(d)
      BY <2>1 DEF TypeOf
    <3> QED
      BY <2>1, <2>2, <2>3, <3>1 DEF QueuedUnlessMultisig
  <2>8. UnansweredYet'
    BY <1>2, <2>1, LaterGoes, FirstStepIs DEF UnansweredYet
  <2> QED
    BY <2>4, <2>5, <2>6, <2>7, <2>8
<1>3. CASE Elsewhere
  BY <1>3, ElsewhereFrame
     DEF RowsAreCreated, KeyIsUnique, AnswerHasKey, QueuedUnlessMultisig, UnansweredYet, TypeOf,
         tableVars, callVars
<1> QED
  BY <1>1, <1>2, <1>3, StepCases

-----------------------------------------------------------------------------
(* Policy                                                                  *)

LEMMA PolicyStep ==
    ASSUME TypeOK, RowsAreCreated, AskedIsCleared, SignedIsAsked, [Next]_vars
    PROVE  AskedIsCleared' /\ SignedIsAsked'
<1>1. ASSUME NEW c \in Calls, ReadWallet(c) PROVE AskedIsCleared' /\ SignedIsAsked'
  <2>1. c \notin rows /\ UNCHANGED rows
    BY <1>1, ReadFrame DEF RowsAreCreated, tableVars
  <2>2. \A d \in Calls \ {c} : /\ pc'[d] = pc[d] /\ body'[d] = body[d] /\ rule'[d] = rule[d]
    BY <1>1, ReadFrame
  <2>3. pc'[c] \in Asked => Cleared(c)'
    <3>1. SUFFICES ASSUME pc'[c] \in Asked PROVE Cleared(c)'
      OBVIOUS
    <3>2. pc'[c] # "refuse"
      BY <3>1 DEF Asked
    <3> DEFINE w == body'[c].wallet
    <3>3. /\ body'[c] \in Bodies
          /\ WithinPolicy(body'[c], whitelist[w], limit[w])
          /\ rule'[c] = [list |-> saved[w], max |-> limit[w],
                         torn |-> whitelist[w] # saved[w]]
      BY <1>1, <3>2, ReadGoes
    <3>4. rule'[c].list = saved[w] /\ rule'[c].max = limit[w]
          /\ rule'[c].torn = (whitelist[w] # saved[w])
      BY <3>3
    <3> QED
      BY <3>3, <3>4 DEF Cleared, WithinPolicy
  <2>4. pc'[c] \in Asked \ {"lookup"} /\ TypeOf(c)' = "SSS" =>
            body'[c].tx.to = body'[c].to /\ body'[c].tx.amount = body'[c].amount
    BY <1>1, ReadGoes, FirstStepIs DEF Asked, TypeOf
  <2> QED
    BY <2>1, <2>2, <2>3, <2>4 DEF AskedIsCleared, SignedIsAsked, Cleared, TypeOf
<1>2. ASSUME NEW c \in Calls, Later(c) PROVE AskedIsCleared' /\ SignedIsAsked'
  <2>1. /\ UNCHANGED <<body, rule>>
        /\ \A d \in Calls \ {c} : pc'[d] = pc[d] /\ (d \in rows' <=> d \in rows)
    BY <1>2, LaterFrame
  <2>2. pc'[c] \in Asked \/ c \in rows' => pc[c] \in Asked \/ c \in rows
    BY <1>2, LaterGoes DEF Asked
  <2>3. pc'[c] \in Asked \ {"lookup"} \/ c \in rows' =>
            \/ pc[c] \in Asked \ {"lookup"} \/ c \in rows
            \/ FirstStep(body[c]) # "refuse"
    BY <1>2, LaterGoes DEF Asked
  <2>4. \A d \in Calls : (Cleared(d)' <=> Cleared(d)) /\ TypeOf(d)' = TypeOf(d)
    BY <2>1 DEF Cleared, TypeOf
  <2>5. AskedIsCleared'
    BY <2>1, <2>2, <2>4 DEF AskedIsCleared
  <2>6. SignedIsAsked'
    BY <2>1, <2>3, <2>4, FirstStepIs DEF SignedIsAsked, TypeOf
  <2> QED
    BY <2>5, <2>6
<1>3. CASE Elsewhere
  BY <1>3, ElsewhereFrame
     DEF AskedIsCleared, SignedIsAsked, Cleared, TypeOf, tableVars, callVars
<1> QED
  BY <1>1, <1>2, <1>3, StepCases

-----------------------------------------------------------------------------
(* The log                                                                 *)

LEMMA LogOfCall ==
    ASSUME TypeOK, RequestInv, LogIsUpTo, NEW c \in Calls, Later(c)
    PROVE  LogIs(c, Events(TypeOf(c)))'
<1>1. PICK events : events = Events(TypeOf(c))
  OBVIOUS
<1>2. Events(TypeOf(c))' = events
  BY <1>1, LaterFrame DEF TypeOf
<1>3. LogIs(c, events)
  BY <1>1 DEF LogIsUpTo
<1>4. /\ pc[c] # "done" => answer[c] # c
      /\ c \in rows => pc[c] \in {"logFirst", "logSecond", "done"}
      /\ pc[c] \in {"logFirst", "logSecond"} => c \in rows
  BY NoneAssumption DEF RequestInv, RowsAreCreated, UnansweredYet
<1>5. /\ Len(events) = 1 => events = <<events[1]>>
      /\ Len(events) = 2 => events = <<events[1], events[2]>>
      /\ Len(events) = 1 \/ Len(events) = 2
  BY <1>1, EventsAre
<1>6. CASE pc[c] = "logFirst" /\ log'[c] = Append(log[c], events[1])
  <2>1. log[c] = <<>>
    BY <1>3, <1>6 DEF LogIs
  <2>2. log'[c] = <<events[1]>>
    BY <1>6, <2>1
  <2>3. /\ c \in rows'
        /\ \/ pc'[c] = "logSecond" /\ Len(events) = 2 /\ answer'[c] # c
           \/ pc'[c] = "done" /\ Len(events) = 1
    BY <1>1, <1>4, <1>6, <2>1, <2>2, LaterGoes, NoneAssumption
  <2> QED
    BY <1>2, <1>5, <2>2, <2>3 DEF LogIs
<1>7. CASE pc[c] = "logSecond" /\ log'[c] = Append(log[c], events[2])
  <2>1. log[c] = <<events[1]>> /\ Len(events) = 2
    BY <1>3, <1>7 DEF LogIs
  <2>2. log'[c] = <<events[1], events[2]>>
    <3>1. events \in Seq({"REQUEST_CREATED", "SSS_SIGNED_TX_VALIDATED", "QUEUED"})
      BY <1>1, EventsAre
    <3>2. /\ events[1] \in {"REQUEST_CREATED", "SSS_SIGNED_TX_VALIDATED", "QUEUED"}
          /\ events[2] \in {"REQUEST_CREATED", "SSS_SIGNED_TX_VALIDATED", "QUEUED"}
      BY <2>1, <3>1
    <3> QED
      BY <1>7, <2>1, <3>2, AppendSecond
  <2>3. log'[c] = events
    BY <1>5, <2>1, <2>2
  <2>4. pc'[c] = "done" /\ c \in rows'
    BY <1>4, <1>7, LaterGoes
  <2> QED
    BY <1>2, <2>3, <2>4 DEF LogIs
<1>8. CASE log'[c] = log[c]
  <2>1. \/ pc'[c] = "logFirst" /\ c \in rows' /\ c \notin rows /\ answer'[c] = answer[c]
        \/ pc'[c] \notin {"logFirst", "logSecond"} /\ (c \in rows' <=> c \in rows)
           /\ (answer'[c] = answer[c] \/ answer'[c] # c)
    <3>1. pc[c] \in {"logFirst", "logSecond"} => pc'[c] = "done" /\ answer'[c] \in {"refused", "error"}
      BY <1>3, <1>4, <1>8, LaterGoes
    <3>2. c \notin WithKey(key[c]) \/ pc[c] \notin {"lookup", "conflict"}
      BY <1>4 DEF WithKey
    <3> QED
      BY <1>4, <1>8, <3>1, <3>2, LaterGoes, FirstStepIs, NoneAssumption
  <2> QED
    BY <1>2, <1>3, <1>4, <1>8, <2>1 DEF LogIs
<1> QED
  BY <1>1, <1>6, <1>7, <1>8, LaterGoes

LEMMA LogStep ==
    ASSUME TypeOK, RequestInv, LogIsUpTo, [Next]_vars
    PROVE  LogIsUpTo'
<1>1. ASSUME NEW c \in Calls, ReadWallet(c) PROVE LogIsUpTo'
  <2>1. c \notin rows /\ pc'[c] \in {"refuse", "lookup", "create", "nonce"}
    BY <1>1, ReadFrame, ReadGoes, FirstStepIs DEF RequestInv, RowsAreCreated
  <2>2. UNCHANGED <<rows, log, answer>> /\ answer[c] # c
    BY <1>1, ReadFrame, NoneAssumption DEF RequestInv, UnansweredYet, tableVars
  <2>3. \A d \in Calls \ {c} : pc'[d] = pc[d] /\ TypeOf(d)' = TypeOf(d)
    BY <1>1, ReadFrame DEF TypeOf
  <2>4. LogIs(c, Events(TypeOf(c)))'
    BY <2>1, <2>2 DEF LogIsUpTo, LogIs
  <2>5. \A d \in Calls \ {c} : LogIs(d, Events(TypeOf(d)))'
    BY <2>2, <2>3 DEF LogIsUpTo, LogIs
  <2> QED
    BY <2>4, <2>5 DEF LogIsUpTo
<1>2. ASSUME NEW c \in Calls, Later(c) PROVE LogIsUpTo'
  <2>1. LogIs(c, Events(TypeOf(c)))'
    BY <1>2, LogOfCall
  <2>2. ASSUME NEW d \in Calls \ {c} PROVE LogIs(d, Events(TypeOf(d)))'
    <3>1. /\ TypeOf(d)' = TypeOf(d) /\ pc'[d] = pc[d] /\ answer'[d] = answer[d]
          /\ log'[d] = log[d] /\ (d \in rows' <=> d \in rows)
      BY <1>2, LaterFrame DEF TypeOf
    <3>2. LogIs(d, Events(TypeOf(d)))
      BY DEF LogIsUpTo
    <3> QED
      BY <3>1, <3>2 DEF LogIs
  <2> QED
    BY <2>1, <2>2 DEF LogIsUpTo
<1>3. CASE Elsewhere
  BY <1>3, ElsewhereFrame DEF LogIsUpTo, LogIs, TypeOf, tableVars, callVars
<1> QED
  BY <1>1, <1>2, <1>3, StepCases

-----------------------------------------------------------------------------
(* The refinement of KeyedSubmission                                       *)

\* A call that looks for a key has one.
KeyIsSought == \A c \in Calls : pc[c] \in {"lookup", "conflict"} => key[c] # NoKey

LEMMA ReadStarts ==
    ASSUME TypeOK, NEW c \in Calls, ReadWallet(c)
    PROVE  /\ pc[c] = "new" /\ pc'[c] # "new"
           /\ pc'[c] \in {"lookup", "conflict"} => key'[c] # NoKey
<1>1. PICK b \in Bodies, k \in Keys \cup {NoKey} :
          /\ pc[c] = "new" /\ key' = [key EXCEPT ![c] = k]
          /\ \/ pc' = [pc EXCEPT ![c] = "refuse"]
             \/ k = NoKey /\ pc' = [pc EXCEPT ![c] = FirstStep(b)]
             \/ k # NoKey /\ pc' = [pc EXCEPT ![c] = "lookup"]
  BY DEF ReadWallet, Goto
<1>2. FirstStep(b) \in {"create", "nonce", "refuse"}
  BY FirstStepIs
<1> QED
  BY <1>1, <1>2 DEF TypeOK

LEMMA SoughtStep ==
    ASSUME TypeOK, KeyIsSought, [Next]_vars
    PROVE  KeyIsSought'
<1> USE DEF KeyIsSought
<1>1. ASSUME NEW c \in Calls, ReadWallet(c) PROVE KeyIsSought'
  <2>1. pc'[c] \in {"lookup", "conflict"} => key'[c] # NoKey
    BY <1>1, ReadStarts
  <2> QED
    BY <1>1, <2>1, ReadFrame
<1>2. ASSUME NEW c \in Calls, Later(c) PROVE KeyIsSought'
  <2>1. CASE pc'[c] = "conflict"
    <3>1. KeyConflict(c)
      <4> USE DEF Answer, Goto, TypeOK
      <4>1. CASE Refuse(c) \/ LookupFinds(c) \/ LookupFindsNothing(c) \/ CheckNonce(c)
        BY <2>1, <4>1, FirstStepIs DEF Refuse, LookupFinds, LookupFindsNothing, CheckNonce
      <4>2. CASE CreateMultisig(c) \/ CreateWithQueue(c)
        BY <2>1, <4>2 DEF CreateMultisig, CreateWithQueue
      <4>3. CASE AnswerConflict(c) \/ LogFirst(c) \/ LogSecond(c) \/ CallFails(c)
        BY <2>1, <4>3 DEF AnswerConflict, LogFirst, LogSecond, CallFails
      <4> QED
        BY <1>2, <4>1, <4>2, <4>3 DEF Later
    <3> QED
      BY <1>2, <3>1, LaterFrame DEF KeyConflict
  <2>2. CASE pc'[c] # "conflict"
    <3>1. pc'[c] # "lookup"
      BY <1>2, LaterGoes, FirstStepIs
    <3> QED
      BY <1>2, <2>2, <3>1, LaterFrame
  <2> QED
    BY <2>1, <2>2
<1>3. CASE Elsewhere
  BY <1>3, ElsewhereFrame DEF callVars
<1> QED
  BY <1>1, <1>2, <1>3, StepCases

\* QUEUED is among the events of the types that are queued at once.
LEMMA QueuedIsPlanned ==
    ASSUME NEW t
    PROVE  "QUEUED" \in Range(Events(t)) <=> t # "MULTISIG"
<1>1. CASE t = "SSS"
  <2>1. Events(t) = <<"SSS_SIGNED_TX_VALIDATED", "QUEUED">>
    BY <1>1 DEF Events
  <2>2. 2 \in DOMAIN Events(t) /\ Events(t)[2] = "QUEUED"
    BY <2>1
  <2> QED
    BY <1>1, <2>2 DEF Range
<1>2. CASE t = "MULTISIG"
  <2>1. Events(t) = <<"REQUEST_CREATED">>
    BY <1>2 DEF Events
  <2>2. \A i \in DOMAIN Events(t) : Events(t)[i] = "REQUEST_CREATED"
    BY <2>1
  <2> QED
    BY <1>2, <2>2 DEF Range
<1>3. CASE t # "SSS" /\ t # "MULTISIG"
  <2>1. Events(t) = <<"REQUEST_CREATED", "QUEUED">>
    BY <1>3 DEF Events
  <2>2. 2 \in DOMAIN Events(t) /\ Events(t)[2] = "QUEUED"
    BY <2>1
  <2> QED
    BY <1>3, <2>2 DEF Range
<1> QED
  BY <1>1, <1>2, <1>3

\* What the mapping shows of calls, and what of their requests.
comeIn == {c \in Calls : Started(c)}
planned == [c \in Calls |-> IF Started(c) THEN Events(TypeOf(c)) ELSE <<>>]
shownVars == <<comeIn, key, planned, tableVars, answer>>

LEMMA ShownVars == (shownVars' = shownVars) => UNCHANGED Submission!vars
  BY DEF shownVars, comeIn, planned, tableVars, Submission!vars

LEMMA LaterShows ==
    ASSUME TypeOK, NEW c \in Calls, Later(c)
    PROVE  Started(c) /\ UNCHANGED <<comeIn, key, planned>>
<1>1. pc[c] # "new" /\ pc'[c] # "new"
  <2> USE DEF Answer, Goto, TypeOK
  <2>1. CASE Refuse(c) \/ LookupFinds(c) \/ CheckNonce(c)
    BY <2>1 DEF Refuse, LookupFinds, CheckNonce
  <2>2. CASE LookupFindsNothing(c)
    BY <2>2, FirstStepIs DEF LookupFindsNothing
  <2>3. CASE CreateMultisig(c) \/ CreateWithQueue(c) \/ AnswerConflict(c)
    BY <2>3 DEF CreateMultisig, CreateWithQueue, AnswerConflict
  <2>4. CASE LogFirst(c) \/ LogSecond(c) \/ CallFails(c)
    BY <2>4 DEF LogFirst, LogSecond, CallFails, InProgress
  <2> QED
    BY <2>1, <2>2, <2>3, <2>4 DEF Later
<1>2. \A d \in Calls : Started(d)' <=> Started(d)
  BY <1>1, LaterFrame DEF Started
<1>3. UNCHANGED <<body, key>>
  BY LaterFrame
<1>4. comeIn' = comeIn
  BY <1>2 DEF comeIn
<1>5. planned' = planned
  BY <1>2, <1>3 DEF planned, TypeOf
<1> QED
  BY <1>1, <1>3, <1>4, <1>5 DEF Started

\* Reading the wallet is where a call comes in.
LEMMA ReadAsks ==
    ASSUME TypeOK, RequestInv, NEW c \in Calls, ReadWallet(c)
    PROVE  Submission!Ask(c)
<1>1. PICK b \in Bodies, k \in Keys \cup {NoKey} :
          body' = [body EXCEPT ![c] = b] /\ key' = [key EXCEPT ![c] = k]
  BY DEF ReadWallet
<1>2. /\ pc[c] = "new" /\ pc'[c] # "new"
      /\ UNCHANGED <<rows, queue, log, answer>>
      /\ \A d \in Calls \ {c} : pc'[d] = pc[d] /\ body'[d] = body[d]
  BY ReadFrame, ReadStarts DEF tableVars
<1>3. body'[c] = b /\ walletType[b.wallet] \in WalletTypes
  BY <1>1, BodiesAssumption, WalletsAssumption DEF TypeOK, Body
<1>4. TypeOf(c)' \in WalletTypes
  BY <1>3 DEF TypeOf
<1>5. c \notin comeIn /\ comeIn' = comeIn \cup {c}
  BY <1>2 DEF comeIn, Started
<1>6. planned' = [planned EXCEPT ![c] = Events(TypeOf(c)')]
  <2>1. \A d \in Calls \ {c} : Started(d)' = Started(d) /\ TypeOf(d)' = TypeOf(d)
    BY <1>2 DEF Started, TypeOf
  <2>2. Started(c)'
    BY <1>2 DEF Started
  <2> QED
    BY <2>1, <2>2 DEF planned
<1> QED
  BY <1>1, <1>2, <1>4, <1>5, <1>6 DEF Submission!Ask, comeIn, planned

\* The insert that wins is the submission; the one that conflicts shows nothing.
LEMMA CreateSubmits ==
    ASSUME IntakeInv, NEW c \in Calls,
           IF TypeOf(c) = "MULTISIG" THEN CreateMultisig(c) ELSE CreateWithQueue(c)
    PROVE  Submission!Submit(c) \/ UNCHANGED Submission!vars
<1> USE DEF IntakeInv, TypeOK
<1>1. Started(c) /\ UNCHANGED <<comeIn, key, planned>>
  BY LaterShows DEF Later
<1>2. /\ pc[c] = "create" /\ UNCHANGED <<log, answer>>
      /\ rows' = IF KeyConflict(c) THEN rows ELSE rows \cup {c}
      /\ queue' = IF KeyConflict(c) \/ TypeOf(c) = "MULTISIG" THEN queue ELSE queue \cup {c}
  BY DEF CreateMultisig, CreateWithQueue, Goto
<1>3. CASE KeyConflict(c)
  <2>1. UNCHANGED <<rows, queue>>
    BY <1>2, <1>3
  <2> QED
    BY <1>1, <1>2, <2>1, ShownVars DEF shownVars, tableVars
<1>4. CASE ~KeyConflict(c)
  <2>1. c \notin rows /\ answer[c] = None
    BY <1>2 DEF RequestInv, RowsAreCreated, UnansweredYet
  <2>2. \A r \in rows : ~Submission!SameKey(c, r)
    BY <1>4 DEF KeyConflict, WithKey, Submission!SameKey
  <2>3. planned[c] = Events(TypeOf(c))
    BY <1>1 DEF planned
  <2>4. queue' = IF "QUEUED" \in Range(planned[c]) THEN queue \cup {c} ELSE queue
    BY <1>2, <1>4, <2>3, QueuedIsPlanned
  <2>5. Submission!Pending(c)
    BY <1>1, <2>1 DEF Submission!Pending
  <2>6. rows' = rows \cup {c}
    BY <1>2, <1>4
  <2> QED
    BY <1>1, <1>2, <2>2, <2>4, <2>5, <2>6
       DEF Submission!Submit, Submission!Range, Range, comeIn, planned
<1> QED
  BY <1>3, <1>4

LEMMA ElementsOfTwo ==
    ASSUME NEW S, NEW e \in Seq(S), Len(e) = 2
    PROVE  {e[1], e[2]} \subseteq S
  OBVIOUS

\* The appends tell the planned events, and the last one comes with the answer.
LEMMA LogTells ==
    ASSUME IntakeInv, NEW c \in Calls, LogFirst(c) \/ LogSecond(c)
    PROVE  Submission!Tell(c)
<1> DEFINE events == Events(TypeOf(c))
<1> DEFINE done == answer' = [answer EXCEPT ![c] = c]
<1> USE DEF IntakeInv
<1>1. Started(c) /\ UNCHANGED <<comeIn, key, planned>>
  BY LaterShows DEF Later
<1>2. planned[c] = events
  BY <1>1 DEF planned
<1>3. c \in rows /\ answer[c] = None
  BY DEF RequestInv, RowsAreCreated, UnansweredYet, LogFirst, LogSecond, Goto, Answer
<1>4. UNCHANGED <<rows, queue>> /\ log \in [Calls -> Seq({"REQUEST_CREATED", "SSS_SIGNED_TX_VALIDATED", "QUEUED"})]
  BY DEF LogFirst, LogSecond, TypeOK
<1>5. /\ events \in Seq({"REQUEST_CREATED", "SSS_SIGNED_TX_VALIDATED", "QUEUED"})
      /\ \/ Len(events) = 1 /\ events = <<events[1]>>
         \/ Len(events) = 2 /\ events = <<events[1], events[2]>>
  BY EventsAre
<1>6. LogIs(c, events)
  BY DEF LogIsUpTo
<1>7. /\ Len(log[c]) < Len(events)
      /\ log' = [log EXCEPT ![c] = Append(log[c], events[Len(log[c]) + 1])]
      /\ IF log'[c] = events THEN done ELSE UNCHANGED answer
  <2>1. CASE LogFirst(c)
    <3>1. /\ log[c] = <<>> /\ log' = [log EXCEPT ![c] = Append(log[c], events[1])]
          /\ IF Len(events) = 1 THEN done ELSE UNCHANGED answer
      BY <1>6, <2>1 DEF LogFirst, LogIs, Goto, Answer
    <3>2. log'[c] = <<events[1]>>
      BY <1>4, <3>1
    <3> HIDE DEF events, done
    <3>3. log'[c] = events <=> Len(events) = 1
      BY <1>5, <3>2
    <3> QED
      BY <1>5, <3>1, <3>3
  <2>2. CASE LogSecond(c)
    <3>1. /\ log[c] = <<events[1]>> /\ Len(events) = 2 /\ done
          /\ log' = [log EXCEPT ![c] = Append(log[c], events[2])]
      BY <1>6, <2>2 DEF LogSecond, LogIs, Goto, Answer
    <3>2. log'[c] = <<events[1], events[2]>>
      <4> HIDE DEF events, done
      <4>1. {events[1], events[2]} \subseteq {"REQUEST_CREATED", "SSS_SIGNED_TX_VALIDATED", "QUEUED"}
        BY <1>5, <3>1, ElementsOfTwo
      <4> QED
        BY <1>4, <3>1, <4>1, AppendSecond
    <3> HIDE DEF events, done
    <3> QED
      BY <1>5, <3>1, <3>2
  <2> QED
    BY <2>1, <2>2
<1> HIDE DEF events
<1> QED
  BY <1>1, <1>2, <1>3, <1>4, <1>7 DEF Submission!Tell, comeIn, planned

\* A call that ends without a request of its own.
LEMMA ReplyShows ==
    ASSUME NEW c \in Calls, NEW reply,
           answer' = [answer EXCEPT ![c] = reply], UNCHANGED <<comeIn, key, planned, tableVars>>
    PROVE  Submission!Reply(c, reply)
  BY DEF Submission!Reply, comeIn, planned, tableVars

LEMMA RepeatedIsAnswered ==
    ASSUME IntakeInv, KeyIsSought, NEW c \in Calls, LookupFinds(c) \/ AnswerConflict(c)
    PROVE  Submission!Repeat(c)
<1>1. Started(c) /\ UNCHANGED <<comeIn, key, planned>>
  BY LaterShows DEF Later, IntakeInv
<1>2. PICK r \in WithKey(key[c]) : answer' = [answer EXCEPT ![c] = r]
  BY DEF LookupFinds, AnswerConflict, Answer
<1>3. pc[c] \in {"lookup", "conflict"} /\ UNCHANGED tableVars
  BY DEF LookupFinds, AnswerConflict, Answer, Goto
<1>4. c \notin rows /\ answer[c] = None
  BY <1>3 DEF IntakeInv, RequestInv, RowsAreCreated, UnansweredYet
<1>5. r \in rows /\ Submission!SameKey(c, r)
  BY <1>3 DEF WithKey, KeyIsSought, Submission!SameKey
<1>6. Submission!Reply(c, r)
  BY <1>1, <1>2, <1>3, ReplyShows
<1>7. Submission!Pending(c)
  BY <1>1, <1>4 DEF Submission!Pending
<1> QED
  BY <1>5, <1>6, <1>7 DEF Submission!Repeat

LEMMA RefusedIsUnmade ==
    ASSUME IntakeInv, NEW c \in Calls, Refuse(c)
    PROVE  Submission!Refuse(c)
<1>1. Started(c) /\ UNCHANGED <<comeIn, key, planned>>
  BY LaterShows DEF Later, IntakeInv
<1>2. /\ pc[c] = "refuse" /\ UNCHANGED tableVars
      /\ answer' = [answer EXCEPT ![c] = "refused"]
  BY DEF Refuse, Answer, Goto
<1>3. c \notin rows /\ answer[c] = None
  BY <1>2 DEF IntakeInv, RequestInv, RowsAreCreated, UnansweredYet
<1>4. Submission!Reply(c, "refused")
  BY <1>1, <1>2, ReplyShows
<1> QED
  BY <1>1, <1>3, <1>4 DEF Submission!Refuse, Submission!Pending

LEMMA FailureIsAnswered ==
    ASSUME IntakeInv, NEW c \in Calls, CallFails(c)
    PROVE  Submission!Fail(c)
<1>1. Started(c) /\ UNCHANGED <<comeIn, key, planned>>
  BY LaterShows DEF Later, IntakeInv
<1>2. answer' = [answer EXCEPT ![c] = "error"] /\ UNCHANGED tableVars
  BY DEF CallFails, Answer
<1>3. answer[c] = None
  BY DEF CallFails, InProgress, IntakeInv, RequestInv, UnansweredYet
<1>4. Submission!Reply(c, "error")
  BY <1>1, <1>2, ReplyShows
<1> QED
  BY <1>1, <1>3, <1>4 DEF Submission!Fail

LEMMA SubmissionStep ==
    ASSUME IntakeInv, KeyIsSought, [Next]_vars
    PROVE  [Submission!Next]_(Submission!vars)
<1>1. ASSUME NEW c \in Calls, ReadWallet(c) PROVE Submission!Next
  BY <1>1, ReadAsks DEF IntakeInv, Submission!Next
<1>2. ASSUME NEW c \in Calls, Later(c) PROVE [Submission!Next]_(Submission!vars)
  <2>1. CASE IF TypeOf(c) = "MULTISIG" THEN CreateMultisig(c) ELSE CreateWithQueue(c)
    BY <2>1, CreateSubmits DEF Submission!Next
  <2>2. CASE LogFirst(c) \/ LogSecond(c)
    BY <2>2, LogTells DEF Submission!Next
  <2>3. CASE LookupFinds(c) \/ AnswerConflict(c)
    BY <2>3, RepeatedIsAnswered DEF Submission!Next
  <2>4. CASE Refuse(c) \/ CallFails(c)
    BY <2>4, RefusedIsUnmade, FailureIsAnswered DEF Submission!Next
  <2>5. CASE LookupFindsNothing(c) \/ CheckNonce(c)
    <3>1. UNCHANGED <<comeIn, key, planned>>
      BY <2>5, LaterShows DEF Later, IntakeInv
    <3>2. UNCHANGED <<tableVars, answer>>
      BY <2>5 DEF LookupFindsNothing, CheckNonce
    <3> QED
      BY <3>1, <3>2, ShownVars DEF shownVars
  <2> QED
    BY <1>2, <2>1, <2>2, <2>3, <2>4, <2>5 DEF Later
<1>3. CASE Elsewhere
  <2>1. UNCHANGED <<tableVars, callVars>>
    BY <1>3, ElsewhereFrame
  <2>2. UNCHANGED <<comeIn, planned>>
    BY <2>1 DEF callVars, comeIn, planned, Started, TypeOf
  <2> QED
    BY <2>1, <2>2, ShownVars DEF shownVars, callVars
<1> QED
  BY <1>1, <1>2, <1>3, StepCases

-----------------------------------------------------------------------------
(* The specification                                                       *)

LEMMA IntakeInit == Init => IntakeInv
<1> SUFFICES ASSUME Init PROVE IntakeInv
  OBVIOUS
<1> USE NoneAssumption, AmountsAssumption
<1>1. TypeOK
  BY DEF Init, TypeOK, Labels, Idle
<1>2. RequestInv
  BY DEF Init, RequestInv, RowsAreCreated, KeyIsUnique, AnswerHasKey, QueuedUnlessMultisig,
     UnansweredYet
<1>3. AskedIsCleared /\ SignedIsAsked
  BY DEF Init, AskedIsCleared, SignedIsAsked, Asked
<1>4. LogIsUpTo
  BY DEF Init, LogIsUpTo, LogIs
<1> QED
  BY <1>1, <1>2, <1>3, <1>4 DEF IntakeInv

\* The invariant of the intake: what a call still has to do knows of rows, keys
\* and log, and what it may do was cleared by the policy it has read.
THEOREM IntakeInvariance == Spec => []IntakeInv
<1>1. IntakeInv /\ [Next]_vars => IntakeInv'
  BY TypeStep, RequestStep, PolicyStep, LogStep DEF IntakeInv, RequestInv
<1> QED
  BY <1>1, IntakeInit, PTL DEF Spec

\* Type correctness of the intake.
THEOREM IntakeTypeCorrect == Spec => []TypeOK
<1>1. IntakeInv => TypeOK
  BY DEF IntakeInv
<1> QED
  BY <1>1, IntakeInvariance, PTL

\* WalletService.withdraw answers all calls with one idempotency key with one
\* request, between lookup, insert and the lookup after P2002.
THEOREM KeysIdentify == Spec => []SameKeyOneRequest
<1>1. IntakeInv => SameKeyOneRequest
  BY DEF IntakeInv, RequestInv, AnswerHasKey, KeyIsUnique, SameKeyOneRequest
<1> QED
  BY <1>1, IntakeInvariance, PTL

\* A request pays what the policy that validateWithdrawPolicy saw allows.
THEOREM PolicyIsKept == Spec => []PolicyKept
<1>1. IntakeInv => PolicyKept
  <2> SUFFICES ASSUME IntakeInv, NEW r \in rows
               PROVE  /\ Paid(r).to # body[r].wallet
                      /\ rule[r].max = NoLimit \/ Paid(r).amount <= rule[r].max
                      /\ rule[r].list = {} \/ Paid(r).to \in rule[r].list \/ rule[r].torn
    BY DEF PolicyKept
  <2>1. r \in Calls
    BY DEF IntakeInv, TypeOK
  <2>2. Paid(r).to = body[r].to /\ Paid(r).amount = body[r].amount
    BY <2>1 DEF IntakeInv, SignedIsAsked, Paid
  <2> QED
    BY <2>1, <2>2 DEF IntakeInv, AskedIsCleared, Cleared
<1> QED
  BY <1>1, IntakeInvariance, PTL

\* The events of the six branches of withdraw come in order, all of them before
\* the answer, and the request is queued unless it is MULTISIG.
THEOREM IntakeIsLogged == Spec => []IntakeLogged
<1>1. IntakeInv => IntakeLogged
  <2> SUFFICES ASSUME IntakeInv, NEW r \in rows
               PROVE  /\ log[r] = SubSeq(Events(TypeOf(r)), 1, Len(log[r]))
                      /\ answer[r] = r => log[r] = Events(TypeOf(r))
                      /\ r \in queue <=> TypeOf(r) # "MULTISIG"
    BY DEF IntakeLogged
  <2> DEFINE events == Events(TypeOf(r))
  <2>1. r \in Calls /\ LogIs(r, events)
    BY DEF IntakeInv, TypeOK, LogIsUpTo
  <2>2. events \in Seq({"REQUEST_CREATED", "SSS_SIGNED_TX_VALIDATED", "QUEUED"})
        /\ Len(events) \in {1, 2}
    BY EventsAre
  <2> HIDE DEF events
  <2>3. log[r] \in {<<>>, <<events[1]>>, events}
    BY <2>1 DEF LogIs
  <2>4. /\ SubSeq(events, 1, 0) = <<>>
        /\ SubSeq(events, 1, 1) = <<events[1]>>
        /\ SubSeq(events, 1, Len(events)) = events
    BY <2>2, FirstOnly
  <2>5. log[r] = SubSeq(events, 1, Len(log[r]))
    BY <2>3, <2>4
  <2>6. r \in queue <=> TypeOf(r) # "MULTISIG"
    BY DEF IntakeInv, RequestInv, QueuedUnlessMultisig
  <2> QED
    BY <2>1, <2>5, <2>6 DEF LogIs, events
<1> QED
  BY <1>1, IntakeInvariance, PTL

\* The intake implements KeyedSubmission: lookups, conflicts and appends of calls
\* that race look like submissions made one at a time.
THEOREM SubmissionRefinement == Spec => ImplementsSubmission
<1>1. Init => Submission!Init
  <2> SUFFICES ASSUME Init PROVE Submission!Init
    OBVIOUS
  <2>1. {c \in Calls : Started(c)} = {}
        /\ [c \in Calls |-> IF Started(c) THEN Events(TypeOf(c)) ELSE <<>>] = [c \in Calls |-> <<>>]
    BY DEF Init, Started
  <2> QED
    BY <2>1 DEF Init, Submission!Init
<1>2. Init => KeyIsSought
  BY DEF Init, KeyIsSought
<1>3. IntakeInv /\ KeyIsSought /\ [Next]_vars =>
          KeyIsSought' /\ [Submission!Next]_(Submission!vars)
  BY SoughtStep, SubmissionStep DEF IntakeInv
<1> QED
  BY <1>1, <1>2, <1>3, IntakeInvariance, PTL DEF Spec, ImplementsSubmission, Submission!Spec
=============================================================================
