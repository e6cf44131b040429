--------------------------- MODULE WithdrawIntake ---------------------------
(***************************************************************************)
(* POST /wallets/:id/withdraw up to its answer: WalletService.withdraw with *)
(* the policy engine, the idempotency key and the first audit events, while *)
(* the owner changes the whitelist and the limit of the wallet.             *)
(*                                                                         *)
(* A step ends at an await.  What is computed from a read before the next  *)
(* await is part of the reading step; the transaction of                   *)
(* createWithdrawRequestAndEnqueue is one step.  A request row is named by *)
(* the call that inserted it.                                              *)
(***************************************************************************)
EXTENDS Naturals, Sequences, FiniteSets, Functions

CONSTANTS
    Calls,       \* HTTP calls of withdraw
    Saves,       \* HTTP calls of updateWhitelist
    Wallets,     \* wallets, each named by its address
    Users,
    walletType,  \* Wallet.walletType
    owner,       \* Wallet.userId
    Keys,        \* values of the Idempotency-Key header
    NoKey,       \* no header, or blanks only
    Addresses,   \* recipients, wallets among them
    Bodies,      \* who calls, for which wallet, and the WithdrawDto
    Lists,       \* bodies of updateWhitelist
    Limits,      \* values of singleTxLimit
    NoLimit,     \* no WalletLimit row
    Limited,     \* bound: the wallets whose owner sets a limit
    OtpAmount,   \* OTP_REQUIRED_AMOUNT_WEI
    NoTx,        \* dto.signedTx is absent, not a transaction or not signed
    MaxNonce,    \* bound on the transactions the chain counts for a wallet
    None

WalletTypes == {"KMS", "BACKEND_SEC", "POLICY_GUARD", "MPC", "SSS", "MULTISIG"}

\* What the server reads out of dto.signedTx.
SignedTx == [signer : Wallets, to : Addresses, amount : Nat, sepolia : BOOLEAN, nonce : Nat]

\* WithdrawDto with the caller and the path; otp: a valid code is sent along.
Body == [user : Users, wallet : Wallets, to : Addresses, amount : Nat,
         otp : BOOLEAN, tx : SignedTx \cup {NoTx}]

ASSUME WalletsAssumption ==
    /\ Wallets \subseteq Addresses
    /\ walletType \in [Wallets -> WalletTypes]
    /\ owner \in [Wallets -> Users]
    /\ Limited \subseteq Wallets
ASSUME BodiesAssumption == Bodies \subseteq Body
ASSUME ListsAssumption == Lists \subseteq Seq(Addresses)
ASSUME KeysAssumption == NoKey \notin Keys
ASSUME AmountsAssumption ==
    Limits \subseteq Nat /\ NoLimit \notin Nat /\ OtpAmount \in Nat /\ MaxNonce \in Nat
ASSUME NoneAssumption ==
    None \notin Calls /\ None \notin Bodies /\ "refused" \notin Calls /\ "error" \notin Calls

VARIABLES
    whitelist,  \* Whitelist rows of each wallet
    saved,      \* the whitelist as the last finished save left it
    limit,      \* WalletLimit.singleTxLimit
    rows,       \* WithdrawRequest rows
    queue,      \* WithdrawalQueue rows, named by their request
    log,        \* audit events of each request
    body,       \* what each call asks for
    key,        \* its trimmed idempotency key
    pc,         \* the await each call is at
    answer,     \* the request it was answered with, or why it was not
    rule,       \* the policy in force when it read the wallet
    save,       \* the whitelist call: its wallet, its list and the await it is at
    nonce       \* transactions of each wallet the chain counts, pending ones included

policyVars == <<whitelist, saved, limit, save>>
tableVars == <<rows, queue, log>>
callVars == <<body, key, pc, answer, rule>>
vars == <<policyVars, tableVars, callVars, nonce>>

Started(c) == pc[c] # "new"
InProgress(c) == pc[c] \notin {"new", "done"}
Idle == [wallet |-> None, list |-> {}, at |-> "idle"]

Goto(c, from, to) == pc[c] = from /\ pc' = [pc EXCEPT ![c] = to]
Answer(c, from, reply) ==
    Goto(c, from, "done") /\ answer' = [answer EXCEPT ![c] = reply]

Init ==
    /\ whitelist = [w \in Wallets |-> {}]
    /\ saved = whitelist
    /\ limit = [w \in Wallets |-> NoLimit]
    /\ rows = {}
    /\ queue = {}
    /\ log = [c \in Calls |-> <<>>]
    /\ body = [c \in Calls |-> None]
    /\ key = [c \in Calls |-> NoKey]
    /\ pc = [c \in Calls |-> "new"]
    /\ answer = [c \in Calls |-> None]
    /\ rule = [c \in Calls |-> None]
    /\ save = [s \in Saves |-> Idle]
    /\ nonce = [w \in Wallets |-> 0]

-----------------------------------------------------------------------------
(* The checks on the wallet as it was read                                 *)

NeedsOtp(b) == b.amount >= OtpAmount

\* Mutant: limits are left to the chain.
WithinPolicyUnlimited(b, list, max) ==
    /\ b.to # b.wallet
    /\ list = {} \/ b.to \in list

\* validateWithdrawPolicy: no transfer to itself, only to the whitelist
\* unless that is empty, and no more than the limit of one transfer.
WithinPolicy(b, list, max) ==
    /\ b.to # b.wallet
    /\ list = {} \/ b.to \in list
    /\ max = NoLimit \/ b.amount <= max

\* The signed transaction does what the request says.
SignedAsAsked(b) ==
    /\ b.tx # NoTx
    /\ b.tx.signer = b.wallet
    /\ b.tx.to = b.to
    /\ b.tx.amount = b.amount
    /\ b.tx.sepolia

\* What the call waits for once it knows that its key is new.
FirstStep(b) ==
    IF walletType[b.wallet] # "SSS" THEN "create"
    ELSE IF SignedAsAsked(b) THEN "nonce" ELSE "refuse"

\* The wallet is read with limit and whitelist; 404, 403, 400, or go on.
ReadWallet(c) ==
    \E b \in Bodies, k \in Keys \cup {NoKey} :
        /\ Goto(c, "new",
                IF /\ owner[b.wallet] = b.user
                   /\ NeedsOtp(b) => b.otp
                   /\ WithinPolicy(b, whitelist[b.wallet], limit[b.wallet])
                THEN IF k = NoKey THEN FirstStep(b) ELSE "lookup"
                ELSE "refuse")
        /\ body' = [body EXCEPT ![c] = b]
        /\ key' = [key EXCEPT ![c] = k]
        /\ rule' = [rule EXCEPT ![c] =
               [list |-> saved[b.wallet], max |-> limit[b.wallet],
                torn |-> whitelist[b.wallet] # saved[b.wallet]]]
        /\ UNCHANGED <<policyVars, tableVars, answer, nonce>>

\* 400, 403 or 404.
Refuse(c) ==
    /\ Answer(c, "refuse", "refused")
    /\ UNCHANGED <<policyVars, tableVars, body, key, rule, nonce>>

\* Requests with this key, of any wallet.
WithKey(k) == {r \in rows : key[r] = k}

\* The earlier request of this wallet is the answer to a repeated key.
LookupFinds(c) ==
    /\ pc[c] = "lookup"
    /\ \E r \in WithKey(key[c]) :
          body[r].wallet = body[c].wallet /\ Answer(c, "lookup", r)
    /\ UNCHANGED <<policyVars, tableVars, body, key, rule, nonce>>

LookupFindsNothing(c) ==
    /\ pc[c] = "lookup"
    /\ \A r \in WithKey(key[c]) : body[r].wallet # body[c].wallet
    /\ Goto(c, "lookup", FirstStep(body[c]))
    /\ UNCHANGED <<policyVars, tableVars, body, key, answer, rule, nonce>>

\* An SSS transaction must carry the next nonce of the wallet.
CheckNonce(c) ==
    /\ Goto(c, "nonce",
            IF body[c].tx.nonce = nonce[body[c].wallet] THEN "create" ELSE "refuse")
    /\ UNCHANGED <<policyVars, tableVars, body, key, answer, rule, nonce>>

-----------------------------------------------------------------------------
(* The rows                                                                *)

\* Mutant: the key is unique per wallet only.
KeyConflictPerWallet(c) ==
    key[c] # NoKey /\ \E r \in WithKey(key[c]) : body[r].wallet = body[c].wallet

\* idempotencyKey is unique over all wallets (P2002).
KeyConflict(c) == key[c] # NoKey /\ WithKey(key[c]) # {}

\* createWithdrawRequestAndEnqueue: both rows or none.
CreateWithQueue(c) ==
    /\ Goto(c, "create", IF KeyConflict(c) THEN "conflict" ELSE "logFirst")
    /\ rows' = IF KeyConflict(c) THEN rows ELSE rows \cup {c}
    /\ queue' = IF KeyConflict(c) THEN queue ELSE queue \cup {c}
    /\ UNCHANGED <<policyVars, log, body, key, answer, rule, nonce>>

\* createMultisigWithdrawRequest: PENDING, without a queue row.
CreateMultisig(c) ==
    /\ Goto(c, "create", IF KeyConflict(c) THEN "conflict" ELSE "logFirst")
    /\ rows' = IF KeyConflict(c) THEN rows ELSE rows \cup {c}
    /\ UNCHANGED <<policyVars, queue, log, body, key, answer, rule, nonce>>

\* Mutant: the repeated call is answered as if it had made the request.
AnswerConflictAsNew(c) ==
    /\ Answer(c, "conflict", c)
    /\ UNCHANGED <<policyVars, tableVars, body, key, rule, nonce>>

\* After the conflict the request is looked up by its key alone.
AnswerConflict(c) ==
    \E r \in WithKey(key[c]) :
        /\ Answer(c, "conflict", r)
        /\ UNCHANGED <<policyVars, tableVars, body, key, rule, nonce>>

\* The events of the branches of the switch, in the order of their appends.
Events(type) ==
    CASE type = "SSS" -> <<"SSS_SIGNED_TX_VALIDATED", "QUEUED">>
      [] type = "MULTISIG" -> <<"REQUEST_CREATED">>
      [] OTHER -> <<"REQUEST_CREATED", "QUEUED">>

TypeOf(c) == walletType[body[c].wallet]

\* The first append of the branch; it ends the MULTISIG branch.
LogFirst(c) ==
    LET events == Events(TypeOf(c)) IN
    /\ IF Len(events) = 1
       THEN Answer(c, "logFirst", c)
       ELSE Goto(c, "logFirst", "logSecond") /\ UNCHANGED answer
    /\ log' = [log EXCEPT ![c] = Append(@, events[1])]
    /\ UNCHANGED <<policyVars, rows, queue, body, key, rule, nonce>>

LogSecond(c) ==
    /\ Answer(c, "logSecond", c)
    /\ log' = [log EXCEPT ![c] = Append(@, Events(TypeOf(c))[2])]
    /\ UNCHANGED <<policyVars, rows, queue, body, key, rule, nonce>>

\* One branch of the switch: its rows, its events, its answer.
Branch(c, type) ==
    /\ pc[c] \in {"create", "conflict", "logFirst", "logSecond"}
    /\ TypeOf(c) = type
    /\ \/ IF type = "MULTISIG" THEN CreateMultisig(c) ELSE CreateWithQueue(c)
       \/ AnswerConflict(c)
       \/ LogFirst(c)
       \/ LogSecond(c)

WithdrawMultisig(c) == Branch(c, "MULTISIG")
WithdrawKms(c) == Branch(c, "KMS")
WithdrawBackendSec(c) == Branch(c, "BACKEND_SEC")
WithdrawPolicyGuard(c) == Branch(c, "POLICY_GUARD")
WithdrawMpc(c) == Branch(c, "MPC")
WithdrawSss(c) == CheckNonce(c) \/ Branch(c, "SSS")

\* A statement throws or the process dies: what is committed stays.
CallFails(c) ==
    /\ InProgress(c)
    /\ Answer(c, pc[c], "error")
    /\ UNCHANGED <<policyVars, tableVars, body, key, rule, nonce>>

-----------------------------------------------------------------------------
(* Meanwhile                                                               *)

\* The owner saves a list; only BACKEND_SEC wallets have one, without repeats.
SaveBegins(s) ==
    \E u \in Users, w \in Wallets, list \in Lists :
        /\ save[s] = Idle
        /\ owner[w] = u
        /\ walletType[w] = "BACKEND_SEC"
        /\ IsInjective(list)
        /\ save' = [save EXCEPT ![s] = [wallet |-> w, list |-> Range(list), at |-> "delete"]]
        /\ UNCHANGED <<whitelist, saved, limit, tableVars, callVars, nonce>>

SaveDeletes(s) ==
    /\ save[s].at = "delete"
    /\ whitelist' = [whitelist EXCEPT ![save[s].wallet] = {}]
    /\ save' = [save EXCEPT ![s].at = "create"]
    /\ UNCHANGED <<saved, limit, tableVars, callVars, nonce>>

\* Another save may have filled the table since: skipDuplicates adds to it.
SaveCreates(s) ==
    /\ save[s].at = "create"
    /\ whitelist' = [whitelist EXCEPT ![save[s].wallet] = @ \cup save[s].list]
    /\ saved' = [saved EXCEPT ![save[s].wallet] = whitelist'[save[s].wallet]]
    /\ save' = [save EXCEPT ![s].at = "done"]
    /\ UNCHANGED <<limit, tableVars, callVars, nonce>>

UpdateLimits(w) ==
    \E l \in Limits :
        /\ limit' = [limit EXCEPT ![w] = l]
        /\ UNCHANGED <<whitelist, saved, save, tableVars, callVars, nonce>>

\* A transaction of an SSS wallet is broadcast; no other nonce is looked at.
ChainAdvances(w) ==
    /\ walletType[w] = "SSS"
    /\ nonce[w] < MaxNonce
    /\ nonce' = [nonce EXCEPT ![w] = @ + 1]
    /\ UNCHANGED <<policyVars, tableVars, callVars>>

-----------------------------------------------------------------------------
Withdraw(c) ==
    \/ ReadWallet(c) \/ Refuse(c) \/ LookupFinds(c) \/ LookupFindsNothing(c)
    \/ WithdrawMultisig(c) \/ WithdrawKms(c) \/ WithdrawBackendSec(c)
    \/ WithdrawPolicyGuard(c) \/ WithdrawMpc(c) \/ WithdrawSss(c)

UpdateWhitelist(s) == SaveBegins(s) \/ SaveDeletes(s) \/ SaveCreates(s)

Next ==
    \/ \E c \in Calls : Withdraw(c) \/ CallFails(c)
    \/ \E s \in Saves : UpdateWhitelist(s)
    \/ \E w \in Limited : UpdateLimits(w)
    \/ \E w \in Wallets : ChainAdvances(w)

Spec == Init /\ [][Next]_vars

-----------------------------------------------------------------------------
(* Properties                                                              *)

Labels == {"new", "refuse", "lookup", "nonce", "create", "conflict", "logFirst",
           "logSecond", "done"}
Rule == [list : SUBSET Addresses, max : Limits \cup {NoLimit}, torn : BOOLEAN]

TypeOK ==
    /\ whitelist \in [Wallets -> SUBSET Addresses]
    /\ saved \in [Wallets -> SUBSET Addresses]
    /\ limit \in [Wallets -> Limits \cup {NoLimit}]
    /\ rows \subseteq Calls
    /\ queue \subseteq rows
    /\ log \in [Calls -> Seq({"REQUEST_CREATED", "SSS_SIGNED_TX_VALIDATED", "QUEUED"})]
    /\ body \in [Calls -> Bodies \cup {None}]
    /\ key \in [Calls -> Keys \cup {NoKey}]
    /\ pc \in [Calls -> Labels]
    /\ answer \in [Calls -> Calls \cup {None, "refused", "error"}]
    /\ rule \in [Calls -> Rule \cup {None}]
    /\ save \in [Saves -> [wallet : Wallets \cup {None}, list : SUBSET Addresses,
                           at : {"idle", "delete", "create", "done"}]]
    /\ nonce \in [Wallets -> Nat]

\* However the lookup of one call and the insert of another interleave, calls
\* with one idempotency key are all answered with one and the same request.
SameKeyOneRequest ==
    \A c, d \in Calls :
        /\ key[c] # NoKey /\ key[c] = key[d]
        /\ answer[c] \in Calls /\ answer[d] \in Calls
        => answer[c] = answer[d] /\ answer[c] \in rows

\* What the worker will send: the signed transaction, or a transfer it builds.
Paid(r) ==
    IF TypeOf(r) = "SSS" THEN [to |-> body[r].tx.to, amount |-> body[r].tx.amount]
    ELSE [to |-> body[r].to, amount |-> body[r].amount]

\* What a request will pay obeys the whitelist last saved and the limit as they
\* were when its call read the wallet, however late it is inserted -- unless
\* the read fell between the DELETE and the INSERT of a save, which no
\* transaction holds together and which leave no whitelist to obey meanwhile.
PolicyKept ==
    \A r \in rows :
        /\ Paid(r).to # body[r].wallet
        /\ rule[r].max = NoLimit \/ Paid(r).amount <= rule[r].max
        /\ rule[r].list = {} \/ Paid(r).to \in rule[r].list \/ rule[r].torn

\* The calls together keep the promises of KeyedSubmission: request and queue row
\* come in one step, one request per key, whichever call wins; an answer names the
\* caller's own request, once the log tells all of it, or the one with its key; and
\* a call that is refused has left no rows.
Submission == INSTANCE KeyedSubmission WITH
    asked <- {c \in Calls : Started(c)},
    plan <- [c \in Calls |-> IF Started(c) THEN Events(TypeOf(c)) ELSE <<>>],
    Plans <- {Events(t) : t \in WalletTypes}
ImplementsSubmission == Submission!Spec

\* The log of a request tells its intake in order and to the end, unless the
\* call failed; a request is in the queue at once or waits for approvals.
IntakeLogged ==
    \A r \in rows :
        /\ log[r] = SubSeq(Events(TypeOf(r)), 1, Len(log[r]))
        /\ answer[r] = r => log[r] = Events(TypeOf(r))
        /\ r \in queue <=> TypeOf(r) # "MULTISIG"
=============================================================================
