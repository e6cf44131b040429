# Verification of the custody wallet

TLA+ modules that model the custody security wallet demo (`src/`), the TLC
configurations that check them on small instances, and proofs that the TLA+
proof system checks for every value of the constants. Paths below are relative
to `src/`; `api/` stands for `apps/api/src/`.

Contents: [1 the system](#1-the-system) · [2 modules](#2-modules) ·
[3 runs](#3-runs) · [4 proofs](#4-proofs) · [5 findings](#5-findings) ·
[6 plan](#6-plan) · [7 limits](#7-what-is-not-modelled)

## 1 The system

A NestJS API over PostgreSQL (Prisma) keeps users, wallets of six types and
withdraw requests; any number of API processes may run against one database.
A React client talks to it over HTTP and a WebSocket; transfers go to an
Ethereum test network directly, through AWS KMS, or through the DFNS provider.

| part | state | operations | what makes it hard | what makes it correct |
|---|---|---|---|---|
| queue (`api/wallet/queue.service.ts`) | `WithdrawalQueue` rows: status, attemptCount, availableAt | reserveNext, markRunning, markSucceeded, markRetry, markDead | several processes reserve at once; a process dies holding a row | one owner per job; no job lost |
| worker (`api/wallet/withdrawal-worker.service.ts`) | `isProcessing`, the request it read | poll every 5 s: some twelve awaited calls in a row, a catch block with three more | every call may throw; no transaction spans two of them | bounded attempts, no payment after FAILED, success backed by a transfer |
| executors (`api/wallet/executors/`) | none; the chain and the provider | execute: check, send, wait | the answer about a transfer can be lost after the transfer went out | at most one transfer per request |
| multisig approval (`api/admin/admin.service.ts`) | request status, `AdminApproval` rows | approve, reject: one transaction each, then audit and notice | READ COMMITTED transactions of two admins overlap | two admins; one decision |
| multisig expiry (`api/wallet/multisig-expiration.scheduler.ts`) | none | cron job, a loop over what it found | races with admins and with its own next run; stops at the first error | every request is decided |
| MPC settlement (`api/wallet/mpc-settlement.service.ts`, `mpc.service.ts`) | request status, metadata | poll every 10 s, up to ten requests | works on a stale batch; the worker may retry meanwhile | provider's outcome and status agree |
| intake (`api/wallet/wallet.service.ts`, `policy-engine.service.ts`) | requests, limits, whitelist | withdraw, updateLimits, updateWhitelist | idempotency key races; delete-then-create of the whitelist | one request per key; policy applied |
| KMS sender (`api/wallet/kms.service.ts`) | session advisory lock, chain nonce | sendNativeTransaction | the lock belongs to a pooled connection | one nonce per transaction |
| provisioning (`api/wallet/wallet-provision.service.ts`, `signer.service.ts`) | wallet rows, deployed vaults | create one wallet per type, resolve a signer | deploy, then insert | one wallet per user and type; its own key signs |
| accounts (`api/auth/`) | users, tokens | register, verify, login, change password, clean-up cron | clean-up races with verification | only active users act |
| audit log, gateway | append-only log; rooms per user | append, emit | appended outside of the transaction it tells about | the log matches the rows |
| contracts (`contracts/contracts/`) | owner, operator, guard, balance | withdraw, setters | deployed before there is a row | no vault is lost silently |
| SSS shards (`apps/web/src/lib/sss/`, two dialogs) | shards in the browser | split, parse, combine, restore | stale React state between awaited files | the registered wallet is backed up; no other key is restored |
| clean-up script (`apps/api/scripts/`) | all tables | delete wallets of other users | decides on an inventory, deletes later, beside a serving API | nothing of a kept wallet is deleted |
| web client (`apps/web/src/`) | one socket per page, notifications in localStorage, a card's copy of the history | login, logout, notices, refreshes | answers and notices out of order; the socket outlives logins | the card ends up right; notices of one room only |

How they interact: intake inserts a request and its queue row in one
transaction (MULTISIG requests wait for two admins first); workers take rows
from the queue, call an executor and write the outcome to the request, to the
row and to the log, one statement after the other; for MPC they hand over to
settlement through the request's metadata; every part emits notices to the owner.

## 2 Modules

| module | models | lines of code it stands for |
|---|---|---|
| `WithdrawalLifecycle` | abstract: what executing a withdrawal promises | – |
| `KeyedSubmission` | abstract: what the intake promises its callers | – |
| `ApprovalDecision` | abstract: what deciding on a MULTISIG request promises | – |
| `WithdrawalWorker` | queue, worker, router and executors | `withdrawal-worker.service.ts`, `queue.service.ts`, `executors/` |
| `MpcSettlement` | settlement and the provider, composed with `WithdrawalWorker` | `mpc-settlement.service.ts`, `mpc.service.ts` |
| `MultisigApproval` | admins and the expiry job | `admin.service.ts`, `multisig-expiration.scheduler.ts` |
| `WithdrawIntake` | withdraw up to its answer, whitelist, limits | `wallet.service.ts`, `policy-engine.service.ts`, `withdraw.dto.ts` |
| `KmsSendLock` | the KMS executor, nonces and signatures under the advisory lock | `kms.service.ts`, `executors/Kms.executor.ts` |
| `WalletProvisioning` | wallets of four types, the deployment of vaults, the signer | `wallet-provision.service.ts`, `signer.service.ts`, `wallet-key-encryption.ts` |
| `WalletCleanup` | the clean-up script beside a serving API; on top of `WalletProvisioning` | `scripts/cleanup-non-test-wallets.ts`, `settings.service.ts` |
| `Accounts` | registration, verification, login, password, the clean-up job, the shared cookie | `api/auth/`, `web/src/api/axios.ts`, `SettingsPage.tsx` |
| `SssShards` | both SSS dialogs and reconstruction | `SssCreateModal.tsx`, `SssRestoreModal.tsx`, `lib/sss/`, `WalletCard.tsx` |
| `ClientView` | gateway, socket, notifications, the history on a card | `withdraw.gateway.ts`, `socket.ts`, `AppShell.tsx`, `WalletCard.tsx` |
| `WithdrawalProofs`, `KmsSendLockProofs`, `MultisigApprovalProofs`, `WithdrawIntakeProofs`, `AccountsProofs`, `SssShardsProofs`, `WalletCleanupProofs`, `ClientViewProofs` | theorems, section 4; `WithdrawalProofs` is about worker and settlement | – |
| `MC...` | instances for TLC; `MCWorkerLifecycle` adds a history variable | – |

`PROJECT.json` maps every definition to its lines. A definition whose comment starts
with "Mutant:" stands before the one it varies: a plausible mistake, which shows
that some property would notice. Mutants take no part in the specifications.
A step is a stretch of code between two awaits unless a section says otherwise.

### 2.1 WithdrawalWorker

A row of `WithdrawRequest` and its row of `WithdrawalQueue` (unique per request)
are functions of the request: `reqStatus`, `retryCount`, `signedTx`, `external`
and `qStatus`, `attemptCount`, `due`, `createdAt`. A poll is a program counter
`pc[w]`: each label is the awaited call the poll waits for, each action that
call and everything the code does up to the next `await`. Where an exception
goes is a property of the label: `InsideTry` labels lead to the catch block,
all others end the poll (`finally`), leaving the rows as they are.

The world outside is `transfers` (how many transfers of a request reached the
chain or the provider), `audit` (events in the log) and `notified` (last status
the worker emitted). A client-signed SSS transaction has a fixed nonce and
counts at most once; every other executor makes a new transfer on each call.

`Faults` names what may go wrong: an executor refuses before the transfer
(`reject`), throws after it (`lost`), a database call throws (`db`), a process
dies and is started again (`crash`). A poll's own steps cannot be reordered;
those of two processes interleave freely, which is finer than one Node event
loop and right for several.

Abstractions: `reserveNext` takes the oldest eligible row (a row locked by a
reservation in progress is one that just stops being eligible);
a receipt of a reverted transaction counts as `reject`; the delay of a retry is
the Boolean `due`; `maxAttempts` of the row is never read by the code, the
literal 3 is `MaxAttempts`. A notice is emitted in the same step as the write before it.
Two awaits are joined where nobody can come between: `markRetry` reads `attemptCount`
and writes it plus one, and `reserveNext` reads the row again that its UPDATE has just
reserved. Only the poll that owns a job writes its row, which `ExclusiveExecution` shows,
and a second read that throws is one more `DatabaseFails` at the next label.

### 2.2 MultisigApproval

Each HTTP call of an admin is one element of `Calls` with its admin
`caller[c]`, and also names the `AdminApproval` row it may insert. Statements of
a transaction are steps; its inserts become visible to others when it commits
(`approvals`). The conditional update waits for the row lock and re-checks its
condition on the committed row, and nothing but the queue insert follows it,
so update and COMMIT are one step (`CommitQueued`, `CommitReject`). A refused
call changes nothing: the EXPIRED it writes is rolled back by the exception it
throws. Every call and every run may fail at each statement. `Runs` are runs of
the cron job, in one process or several, that may overlap. `Init` is the state
after `createMultisigWithdrawRequest`; `enqueued` is the hand-over: `Enqueue` of
`WithdrawalWorker` for a MULTISIG request is `CommitQueued` here. Two history
variables say what the properties must except: `crossed` holds the pairs of
calls whose transactions overlapped (`InTransaction`: from the first statement to the
COMMIT; the notices and appends after it do not count), `disturbed` the requests of
which a call or a run has failed. No guard reads them.

`ApprovalDecision` is the same without transactions, runs and failures. A committed
approval there is one step whatever the call has read before, `Queue` needs another
approval given earlier, and `Tell` may happen once, at any time after the decision.
The mapping shows committed rows (`status`, `approvals`, `enqueued`), deadlines and
log, and hides what calls and runs have in hand.

### 2.3 MpcSettlement

Extends `WithdrawalWorker`, so that both run over the same rows. `external[r]`
of the worker is `metadata.externalProvider`; `stored[r]` is
`metadata.externalRequestId`, as the number of the transfer among the request's
(0: none), and `provider[r][k]` is what the provider says of transfer `k`.
`MarkProcessingStamped` and `SaveSubmission` are the worker's two writes of
columns settlement reads, every other worker step is `OtherWorkerStep`.

A settlement round of process `s` is again a program counter: `StartRound` is
the `findMany` (the oldest rows, `BatchSize` at most, copied into `batch[s]` as
they were read), `GetTransferStatus` the provider call, `StorePending` and
`StoreOutcome` the update of the row, `ReportOutcome` the append and the notice.
All updates write the metadata column back whole, with the identifier that was
read, and none has a condition on the status it replaces. Rows are handled in
the order of `processingAt`. `RoundEnds` is a call that throws, or a process
that dies: both drop the rest of the batch and let the next tick poll again.

Abstractions: of the provider's statuses that the code treats alike, Pending
stands for AwaitingApproval and Rejected for Cancelled. `processingAt` is the
order of the updates, not a clock. A round over an empty batch is left out. The
test for a missing `externalRequestId` never fires, because provider and
identifier are written together. `ReportOutcome` joins the append and the emission that
follows it: an append that throws is `RoundEnds`, and a process that dies between the two
loses a notice, which `ReportsAgree` allows for anyhow.

### 2.4 WithdrawIntake

One call of `withdraw` runs through `new` (the wallet is read, with its policy;
ownership, whitelist, own address, limit, one-time code and the checks of a
signed transaction follow without an await), `lookup` of the idempotency key,
`nonce` (SSS asks the chain), `create` (the transaction that inserts request and
queue row, or hits the unique key), `conflict` (P2002: look the key up again) and
one label per audit event. `key` may be missing, `answer` is what the caller
gets. `rule[c]` remembers the policy that was read, `torn` in it whether a
whitelist save stood between its DELETE and its INSERT at that moment:
`updateWhitelist` is three labels, because the code has no transaction there.
Two saves may overlap. `updateLimits` is one upsert.

Amounts are small numbers. One-time codes are valid or not. A wallet named by
its address and one owner for all are enough: checks compare addresses and
owners only. `ReadWallet` takes wallet, limit and whitelist from one moment; Prisma's
`include` may ask for them in SELECTs of their own, so a policy may also be mixed from
two moments. `PolicyKept` is about the policy a call has read, whenever that was.

`KeyedSubmission` has neither policies nor lookups: a call comes in, its request
is made in one step unless there is one with its key, told event by event, and
the call is answered. The list of events of the wallet's type is the call's `plan`,
and QUEUED in it means that the queue row comes with the request. The mapping hides
where a call is (`pc`), what it asks for and the policy.

### 2.5 KmsSendLock

A send of process `p` is `balance`, `lock`, `nonce`, `sign`, `broadcast`,
`unlock`, `report`. Lock and unlock each run on *some* connection of the
process's pool, because Prisma's `$queryRaw` outside of a transaction promises no
more; PostgreSQL counts grants per session (`held`). `Faults` names crashes,
dropped connections, lost answers, a failing unlock, failing calls to KMS.
`CurveOrder` is any odd number: `normalizeLowS` and `findMatchingYParity` do their
arithmetic on it, and TLC uses 5. History: `astray` says that an unlock of the
process missed its session or failed, `bereft` that a connection with the lock
was closed under a send in progress.

### 2.6 WalletProvisioning, WalletCleanup

Two modules, the second extending the first, because the script and the API work on
the same rows. `WalletProvisioning` names a wallet row, its address and its vault by
the call that makes them: find, (deploy the vault,) create, with the unique key on user
and type. Of a vault only its being mined is modelled; no property depends on what its
functions do. `Reconfigure` lets the server come up with another master key or shared
signer. A private key is named by the address ethers derives from it, an encrypted
column by the master key that opens it and by what it then holds: a key, of this wallet
or another, or text that is none. `SignerFor` is `getWalletSigner`, branch by branch: the
key it returns, which it compares with `Wallet.address` both on the encrypted and on the
legacy path, or one of the six error codes. `WalletCleanup` is the script with
`--execute`, query by query: inventory, target selection, preferences, verdict, the
recheck of owners and requests before and inside its READ COMMITTED transaction, updates,
counts, deletes with the test of their number, the check afterwards; meanwhile users
withdraw, provision and choose a default wallet (check of the owner, then the upsert, in
two steps). Emails do not change, so the owner checks never abort; they are there
because the code makes them.

### 2.7 Accounts

A `User` row is named by the register call that makes it. A tab's request is a
step per await with the token it was sent with; the cookie `jar` belongs to the
browser, so one tab's login, logout or late 401 changes what the other one sends.
`overtaken` remembers changes of a password that another one of the same account
overtook between comparing and updating.

### 2.8 SssShards

What a share *is* (a point of some wallet's polynomial) and what its document
*says* (index, address) are two things: legacy lines are numbered by the dialog.
`Combine` of enough different points of one polynomial is its key, of anything else
no wallet's. Handlers run one at a time; the answer to a registration and the text
of a file come later, when the dialog may have been closed or opened again,
since both stay mounted. `Confirm` assumes a user who ticks "I have saved the shards"
only after saving them; the code cannot know.

### 2.9 ClientView

One tab, several users one after the other. `link`, `room` and `wire` are the
socket and the notices under way to it; the handshake may refuse a cookie that names a
user as well, for an expired token, an inactive user or a lookup that fails; an answer to a history query is a value in
`answers`, and answers arrive in any order: the card keeps no count of its queries
and shows whatever comes last. `Moves` are the changes of
status the rest of the system makes.

## 3 Runs

| run | instance | states | what it shows |
|---|---|---|---|
| `worker_safety` | KMS + SSS request, 2 processes, 2 attempts, all faults, fair | 477,539 | one owner per job; one transfer per attempt, at most `MaxAttempts`; a client-signed transaction is kept until it is out; FAILED is final; a poll lets its process poll again wherever it threw |
| `worker_lifecycle` | BACKEND_SEC + MPC, 2 processes, 3 attempts, refusals and crashes, fair | 110,827 | implements `WithdrawalLifecycle`; no double payment; a FAILED request is unpaid; a SUCCEEDED row has an executed or submitted request; every request is settled for good unless its process died with it |
| `worker_double_transfer` | one request, lost answers | – | violated: section 5 |
| `mpc_settlement` | 2 MPC requests, 1 worker, 2 settling processes, 1 attempt, batch of 1, refusals and crashes, rounds cut short, fair | 74,195 | worker and settlement implement `WithdrawalLifecycle`; log and notices agree with the rows, and both with what the provider said; every submitted request becomes final |
| `multisig_races` | 2 requests, 2 admins, 3 calls (one admin twice) about the first, 1 cron run at a time, fair | 293,772 | implements `ApprovalDecision`: decided once, handed over with its second approval; never queued without two approvals; only overlapping transactions let one admin count twice or two not at all; log and notices tell the decision; always decided |
| `multisig_two_of_two` | the same, without fairness | – | violated: section 5 |
| `withdraw_intake` | 2 withdrawals with 12 bodies over a wallet of each type, 2 whitelist saves, 1 limit, 1 key or none | 873,362 | implements `KeyedSubmission`: request and queue row in one step, one request per key, answers that name it, nothing left of a refused call, the log in order; the policy read is kept to |
| `kms_send_lock` | 2 processes with 2 connections each, all faults, 2 transactions, order 5 | 50,000 | the lock keeps senders apart and nonces fresh unless it is lost with its connection; canonical signatures; what keeps a lock held by an idle process |
| `wallet_cleanup` | 2 users (one protected), 3 older wallets, 2 provisioning calls, 2 master keys, 2 shared signers, 1 choice of a default wallet | 1.17 M | the script spares what it must; stray vaults were reported; a dangling default wallet is a fresh choice; the key that signs is the wallet's or there is none, and an API-made wallet has one |
| `accounts` | 2 registrations, 2 emails, 3 passwords, 2 tabs, fair | 1.39 M | sessions belong to active accounts; a password is replaced by who proved it; pending accounts end |
| `sss_shards` | 2 wallets, threshold 2 of 3, lists of 3, 2 lines or files at once | 633,671 | the registered wallet is backed up; only its key is restored |
| `client_view` | 2 users of one browser, 3 statuses, 1 stored notice, 2 mounts, fair | 157,329 | what gets into the stored list is of the socket's room at that moment, over drops, reconnects and logins; a card with auto refresh ends up right |

Bounds. Two requests and two processes give every pairwise race on the queue: a
third process could only repeat what a second does, since a row has one owner. KMS
and SSS are the types with steps of their own (second audit event; strip and
audit, fixed nonce), MPC the one that ends at the provider; BACKEND_SEC stands
for MULTISIG and POLICY_GUARD, which take the same steps. `MaxAttempts = 3` is
the code's; `worker_safety` grants 2, with which first attempt, retry and
giving up all occur. `mpc_settlement` grants 1, because a retry before the
submission changes nothing settlement could see, and one after it needs a fault
that this run excludes (`OutcomesTrue` in section 4 is about every fault and any
number of attempts). A batch of one with two
requests stands for a full batch of ten that leaves due rows behind.

`multisig_races` has a third call so that one admin can call twice and still be
overlapped by the other. It starts one cron run at a time; two overlapping runs
give 1.73 million states and no violation either, and the proofs of section 4 are
for any number of them. Two withdrawals and two saves are what the races of the
intake need: a key is looked up by one while the other inserts, a wallet is read
between the DELETE and INSERT of a save that overlaps another. In
`kms_send_lock` two connections per process are the least that let an unlock miss
the lock; `MaxHeld = 2` lets a session take it twice, `MaxNonce = 2` lets each
process send, and order 5 has a low, a high and both values next to the half (the
proof is for every odd order). `wallet_cleanup` has a protected user, one who is
busy while the script runs, one wallet on the shared signer, one whose column decrypts to
the key of another address and one whose column holds no key. In `accounts` three passwords are the old one and two to race for.
`sss_shards` needs two wallets, as shards of both may meet in a list, and one
share more than the threshold. In `client_view` two changes of status are enough
for an older answer to overtake a younger one, two mounts for a login after another
user's.

Calls, saves, transactions, choices and mounts are bounded, so these runs really
stop when they are used up: the six runs from `withdraw_intake` down but no
others say `CHECK_DEADLOCK FALSE`. In the worker the tick that finds no job, and
in the cron job the run that finds no request, are steps, so there no reachable
state is a deadlock. Symmetry (processes of the KMS sender, calls, saves, wallets) is
used in runs without liveness only.

Fairness. `WF(Poll(w))`: the timer ticks and an awaited call returns or throws.
`WF(Receipt(w))`: a broadcast transaction is mined or `tx.wait` throws; the
code sets no timeout, so this is an assumption about the chain, and without it
the worker's process waits for ever. `WF(RetryDelayElapses(r))`, `WF(Deadline(r))`,
`WF(TenMinutesPass(r))`: time passes. `WF(Round(s))`: settlement's timer ticks and
its calls return or throw. `WF(ProviderMoves)`: the provider decides every transfer;
ten that never leave Pending would keep all later ones waiting, since the oldest
come first. `SF(GetTransferStatus)` and `SF(StoreOutcome)`, per request and over all
processes: each call may throw again and again, but not every time. Nothing is
assumed of the workers there. `WF(Expire(s))`, `WF(CleanupExpiredPendingUsers)`:
the cron jobs start every minute and go on. `WF(AutoRefresh)`: the card's interval
ticks every 20 s; `SF(Answered(s))`: its queries fail now and then, not every time.
No fairness is assumed of faults, users or admins.

The properties that hold under every fault are those of `worker_safety`,
`multisig_races` and the component runs below it, and `OutcomesAreTrue` (section 4). What
needs assumptions says so: the refinement, `AtMostOneTransfer`, `FailureIsUnpaid`,
`SucceededRowMatches` and `ReportsAgree` need that no answer is
lost and no write fails (`worker_lifecycle`, `mpc_settlement`).
`EventuallySettled` excepts the requests in `died`, whose process died with them;
`TwoAdminsUnlessCrossed` and `DecidedUnlessCrossed` except calls in `crossed`, which is why
`TwoOfTwo`, without the exception, is checked to be violated; `PolicyKept` a policy
read `torn`; `OneSender` and `NonceIsFresh` a `bereft` sender; `CleanupSpares`
requests submitted `late`; `ChangeReplacesProven` changes `overtaken`. Each exception
names a history that really leads there, and without it TLC finds the violation.

## 4 Proofs

Every theorem holds for any sets of requests, processes, calls and connections,
any wallet types, limits of attempts and faults, from the named assumptions on the
constants; unless said otherwise `TypeOK` of the module is proved too, and is no run's
property.

* `WithdrawalProofs`, part I, proves `Spec => []IInv`. `IInv` is `QueueInv`, which
  holds whoever else writes the status of a request, and `FailedRowTaken`,
  which only holds while the workers are the only ones to do so. None of the safety
  properties is inductive alone: exclusion needs that an owned row is not
  eligible (`OwnedRowTaken`), the ledgers need that the count read is still the
  stored one (`SeenIsCurrent`, the heart of the argument: nobody else writes
  the count while a poll owns the job), the bound on transfers needs that the
  current attempt is unspent before the executor runs (`AttemptUnspent`), and
  FAILED is final because a failed request's row is never eligible
  (`FailedRowTaken`). Theorems `TypeCorrect`, `Exclusion`, `LedgersAgree`,
  `BoundedTransfers`, `FailureIsFinal` read the properties off.
* Part II of it adds what a poll knows of its outcome
  (`OutcomeKnown`) and proves `StrongInvariance`, `SuccessHasTransfer`,
  `SignedTransactionSafe`, `DeadJobsFailed`. Under
  `LossFree == Faults \subseteq {"reject", "crash"}` it proves `PaidOnce` and
  `Refinement`: every step is a step of `WithdrawalLifecycle` or leaves its
  variables alone, with `reqStatus` for `status` and `transfers` for `paid`.
  `FailuresUnpaid` and `SuccessesMatch` need one invariant more (`OutcomeIsKept`):
  who has been told of a failure, or has a succeeded row, has no poll left that could
  pay or store another status.
* Part III proves, under `LossFree` again, for any number of
  settling processes, any batch size and rounds cut short anywhere, that
  `QueueInv /\ LossFreeInv /\ SettlementInv` is inductive for the composition.
  Settlement keeps the workers' part because a submitted request is out of
  their hands (`SubmittedIsLeftAlone`); two processes that settle the same
  request write the same because the provider decides once (`StatusIsDecided`,
  `VerdictIsOne`); a stale batch does no harm because what was read of a
  submitted row cannot change any more (`BatchIsSubmitted`). From it follow
  `SettlementInvHolds`, `ReportsAgreeHolds` and `SettlementRefines`: the
  composition implements `WithdrawalLifecycle`, with the transfers the
  provider confirmed as what was paid (`PaidIsUncounted` turns the count of a set
  into a choice, since there is one transfer at most). The steps that do not
  touch settlement are those of the worker's own proof, cited by name.
  Part IV is about runs in which anything may fail. Nothing of `LossFreeInv` is
  left there, a request may have several transfers and its status may go back;
  `FaultInv` keeps what remains: a submission has a transfer behind it
  (`SubmissionHasTransfer`), the answer a round holds is what the provider said of one
  of them (`BatchHasTransfers`), and no step takes back a transfer or the provider's
  word (`NothingUndone`). Theorems `FaultInvariance`, `OutcomesTrue`, `TransfersTracked`
  (which no run checks: that an identifier names a transfer says nothing of which).
* `MultisigApprovalProofs` has two invariants over `TypeOK`. `ApprovalInv` is what
  calls in progress know of each other: a row not yet committed is nobody's
  (`UncommittedIsUnseen`); what `find` and `count` saw fixes, with `crossed`, who
  else has approved (`FoundNone`, `CountedAlone`, `CountedOther`,
  `OverlapsNoted`); so behind a queued request stand two calls
  (`QueuedHasTwo`), of two admins unless two transactions of one overlapped (`TwoAdminsNamed`).
  `ReportInv` is who still has a decision to tell: calls and runs know what was
  committed (`CallsKnow`, `RunsKnow`, `RunsExpired`), at most one of them tells it
  (`OneReporter`), and when none is left it has been told (`SilentIsTold`). Theorems
  `PhaseInvariance`, `ApprovalTypeCorrect`, `DecisionsFinal`, `QueuedApproved`,
  `TwoAdminsApproved`, `ApprovalsDecide`, `DecisionsReported`: every safety property
  of the module, for any number of calls and of overlapping cron runs.
  `DecisionRefinement` reads a step of `ApprovalDecision`, or none, off every step.
  What is hard is what the abstract steps ask for: the approval besides the deciding
  one comes from `CountedOther`, the silence of the log before `Tell` from
  `CallsKnow` and `RunsKnow`, and that only overdue requests expire needs a further
  invariant, since a run works off a list it read earlier (`BatchIsOverdue`).
* `KmsSendLockProofs`. That two processes exclude each other does not follow from
  the lock alone, since a process may release it in vain, or hold it several times:
  the invariant is a ledger. No two sessions have the lock (`HeldOnce`); a process
  between lock and unlock has it unless it is `bereft` (`SectionHolds`); a loss concerns
  everybody in the section and nobody else (`LossIsShared`); and while no unlock has
  missed, a process holds it once, and in its section only (`UnlockLedger`). Theorems
  `SendInvariance`, `SendTypeCorrect`, `SendersExclude`, `NoncesFresh`,
  `SignaturesCanonical`, `IdleReleased`: every property of the module, for any number
  of connections and any odd order of the curve.
* `WithdrawIntakeProofs`. A call that goes on was not refused, whatever has become
  of wallet and policy since (`AskedIsCleared`, `SignedIsAsked`); rows have different
  keys, and an answer names a row with the caller's key, in whichever order lookups,
  inserts and conflicts come (`KeyIsUnique`, `AnswerHasKey`); log and queue are where
  the call is (`LogIsUpTo`, `QueuedUnlessMultisig`). Theorems `IntakeInvariance`,
  `IntakeTypeCorrect`, `KeysIdentify`, `PolicyIsKept`, `IntakeIsLogged`: every property of
  the module, for any number of calls and overlapping saves. `SubmissionRefinement`
  maps reading the wallet to coming in, the insert that wins to the submission and the
  one that conflicts to nothing; to show that an answer to a repeated key is a repeat
  it needs that only calls with a key look for one (`KeyIsSought`).
* `AccountsProofs`. A request past the guard has a user, and no step takes the
  account away from it (`RowsAreCreated`, `GuardPassed`); a change of password that is
  about to write was proved, or is `overtaken` (`ChangeIsProven`). Theorems
  `AccountInvariance`, `AccountsTypeCorrect`, `SessionsAreOfActiveUsers`,
  `ChangesAreProven`: every safety property of the module.
* `SssShardsProofs`. A tick in the dialog is about the wallet it shows
  (`TickIsForShown`), so only saved shards are ever sent (`PostIsBackedUp`), however
  late the answers are. That the right key comes out needs no more than the code
  of the reconstruction, for any threshold and any list. Theorems `ShardInvariance`,
  `RegisteredBackedUp`, `OnlyTheWalletsKey`: every property of the
  module. (`TypeOK` is not proved here: the size of a bag is a recursive sum.)
* `WalletCleanupProofs` covers the two modules that share wallet rows at once:
  `CleanupInv` joins what provisioning calls know (`CallsAgree`, `KeysSealed`: the key
  is sealed before the row exists), what the script knows (`TargetsAgree`: its
  targets are unprotected, still there, and their requests in flight either counted
  or `late`) and what users know (`DefaultsOwned`: a default wallet, stored or about
  to be, is the user's own). That a dangling default is a fresh one needs to know
  where the preference stood in every phase (`DefaultsListed`): in the list the
  script works off, then among the rows its transaction holds, or younger than the
  list; and that no row is held outside of the transaction, without which `WriteDefault`
  would be thought to wait for a lock nobody has. Theorems `CleanupInvariance`, `CleanupTypeCorrect`,
  `SignersOwn`, `StrayVaultsReported`, `DanglingDefaultsFresh`, `CleanupSparesOthers`: every
  property of the modules. Of the constants they need that ids of wallets are no
  accounts of the chain, and that neither is an error code of the signer
  (`ProvisioningAssumption`): three kinds of value that TLA+ leaves untyped.
* `ClientViewProofs`. What is under way to a socket is for the user of its handshake,
  and there is nothing under way unless it has joined (`WireIsRooms`), in whichever order
  logouts, reconnects and late notices come. Theorems `ViewInvariance`, `ViewTypeCorrect`,
  `RoomsKept`, `StoredAreRooms`: every safety property of the module.

Every invariant and action property that a passing run checks is now a theorem.
Only model-checked are the liveness properties (`WorkerReleased`, `EventuallySettled`,
`EventuallyFinal`, `EventuallyDecided`, `PendingEnds`, `CardCatchesUp`): fairness speaks
of ENABLED, which is out of the prover's reach.

## 5 Findings

`worker_double_transfer`: a retry after a lost answer pays again. The catch block
cannot tell failures before the transfer from failures after it
(`withdrawal-worker.service.ts:244`). `apps/api/README.md:404` promises that no job is
processed in duplicate, which its reservation does ensure for two workers; :487 says of
requests sent again with one idempotency key that duplicate transfers are prevented: such
a request gets the existing one back, but the key does not keep that one from being paid
twice.

`multisig_two_of_two`: approval is not 2-of-2 when transactions overlap
(`admin.service.ts:87`), though nothing fails. One admin who sends two approvals at once
passes the lookup twice, is counted twice and queues the withdrawal alone: the trace of
the run. Two admins who approve at once count one approval each; the request stays
PENDING although both have approved, and neither may approve again: this is what
`DecidedUnlessCrossed` excepts, and TLC finds it when the exception is dropped.
`README.md:21`, `:36` and `:127` say "2-of-2", `apps/api/README.md:331` that a request
two admins approve is queued, and `WalletCard.tsx:67` tells the user both.

What else the models brought up is stated as an exception inside a property or left
to the reader. Some of it contradicts a document too, and is said so here rather than
by a run: the socket that stays in the former user's room, against
`apps/api/README.md:670`; settlement that no longer follows an earlier transfer, against
`apps/api/README.md:357`; and the withdrawal that meets no whitelist, against
`WalletCard.tsx:65`.

Worker. A database failure after the EXECUTED write sends an executed request back
to PROCESSING and through the executor again (hence the condition on faults of the
refinement). A job whose process dies, or whose database call throws outside of the
inner try, stays RESERVED or RUNNING for ever (`Orphaned`). The owner is told FAILED
before the row says so. Status and audit event are not written together: a crash
in between leaves an EXECUTED request without TX_CONFIRMED or MPC_CONFIRMED.

Settlement looks at PROCESSING rows only: of an MPC request that the
worker retried or gave up after a failed write, an earlier transfer is no
longer followed (api/README.md:357 says Confirmed is always synchronised).
With two settling processes a final row may carry an older `externalStatus`.

Approval. The EXPIRED written by approve and reject is always rolled
back; an approval that commits after the decision is kept; the reply to it is
"already queued" even if the request was rejected.

Intake. The lookup after P2002 is by key alone, so a key another wallet or user has
used answers with their request. A withdrawal between the DELETE and the INSERT of a
whitelist save meets no whitelist (`WalletCard.tsx:65` tells the user that only listed
addresses are allowed); overlapping saves leave the union of both lists.
`dailyLimit` is stored and never read. The client makes a fresh key for each call, so
the key guards against repeated deliveries only. Two SSS requests may carry the same
nonce; 0 wei is accepted.

KMS. An unlock that runs on another pooled connection leaves the lock with an idle
process (`astray`); the others get KMS_NONCE_ERROR until an unlock happens to run on
that connection or the session ends.

Clean-up. A default wallet chosen while the script works may dangle
(`DanglingDefaultIsFresh`), and the settings page, which sends all preferences
together, is then answered 404 on every save. A request submitted after the count
and before the delete is deleted with its wallet (`late`).

Accounts. A wrong current password is a 401, and the interceptor of `axios.ts` takes
it for an ended session and logs out; the late 401 of one tab clears the cookie
another tab has just obtained. A change of password revokes no token. Of two
overlapping changes, both answered ok, one is lost (`overtaken`). The client asks
for four characters where the server asks for eight; RegisterPage says ten
minutes, the job may take eleven.

SSS. Pasted legacy lines are numbered 1, 3, 5, so a fourth one fails, and two lines
followed by one collide. Files read late fill the list of a dialog already
closed. The late answer to a registration clears the shards of the wallet generated
next in the dialog and shows "done".

Client. The socket connects when its module loads, before the login; the server
disconnects a handshake without a cookie and socket.io does not try again, so
notices arrive only after a reload. After a logout and a login of somebody else it
stays in the former user's room: his notices reach the next user's page and are stored
there, while `apps/api/README.md:670` says of the rooms that they keep other users'
withdrawals from being exposed. Each notice does go to its user's room only
(`StoredIsRooms`); whose browser sits in the room is what the page does not tell the
server. Stored notifications survive the logout.

## 6 Plan

Done: the modules of section 2, all of them part of a passing run, and the proofs of section 4.
Left, in order:

1. The hand-over between `MultisigApproval` and `WithdrawalWorker` as one composed
   specification (`CommitQueued` is `Enqueue`), with the promise of both abstract
   specifications joined: what is paid was approved by two.
2. An abstract specification of the KMS sender (nonces are consumed one by one) and its
   refinement while no lock is lost with its connection.

## 7 What is not modelled

Key generation, the encryption itself (a column opens under its master key and under no
other), the arithmetic of signatures other than low s and
parity, of shares, fees and balances other than "the executor refuses"; texts,
listings, dashboards and layout. In the worker: the branch for a missing request
(the queue row is deleted with its request, by foreign key) and the one for an
unsupported wallet type (the enum has exactly the six supported types). In
`WithdrawalWorker` alone "FAILED is final" speaks of the worker's writes; with
settlement it needs `LossFree` (`SettlementImplementsLifecycle`). Clocks of
different hosts are taken to agree on whether a deadline has passed.

The preferences other than the default wallet are independent columns of one upsert,
and system status only reads: no property tells them apart. `PolicyGuard.sol` is an
earlier vault that the API does not deploy, and the functions of `PolicyVault` and its
guard after the deployment are left out: each is one transaction under an owner or
operator check, and no part of the API relies on more than its answer. The DFNS key utility, the seeds and the
chain beyond nonces and receipts are outside. Rendering and forms of the web client
are left out, and so is whatever several tabs do beyond sharing a cookie.
