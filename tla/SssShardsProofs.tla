--------------------------- MODULE SssShardsProofs ---------------------------
(***************************************************************************)
(* The SSS wallet in the browser, for any number of wallets and shards, any *)
(* threshold and any length of the list.                                   *)
(***************************************************************************)
EXTENDS SssShards, TLAPS

-----------------------------------------------------------------------------
(* The inductive invariant                                                 *)

\* A tick is about the wallet that is shown: none is left over from before.
TickIsForShown ==
    /\ confirmed => shown \in saved
    /\ step = "intro" => ~confirmed

\* No registration was ever sent of a wallet that is not saved.
PostIsBackedUp == \A w \in Wallets : post[w] # "none" => w \in saved

\* What is needed of the types.
PostHasStates == post \in [Wallets -> {"none", "sent", "ok", "failed", "refresh"}]

ShardInv ==
    PostHasStates /\ TickIsForShown /\ PostIsBackedUp /\ RegisteredIsBackedUp /\ KeyIsTheWallets

-----------------------------------------------------------------------------
(* Reconstruction                                                          *)

\* Nothing but the key of the expected wallet is ever returned.
LEMMA OnlyTheExpected ==
    ASSUME NEW documents, NEW expected, ReconstructPrivateKey(documents, expected) # None
    PROVE  ReconstructPrivateKey(documents, expected) = expected
BY DEF ReconstructPrivateKey

-----------------------------------------------------------------------------
(* Steps                                                                   *)

LEMMA CreateStep ==
    ASSUME ShardInv,
           OpenCreate \/ Generate \/ SaveShards \/ Turn \/ Confirm \/ Register \/ CloseCreate
    PROVE  ShardInv'
<1> USE DEF ShardInv, PostHasStates, TickIsForShown, PostIsBackedUp, RegisteredIsBackedUp, KeyIsTheWallets,
            restoreVars
<1>1. CASE OpenCreate
  BY <1>1 DEF OpenCreate
<1>2. CASE Generate
  BY <1>2 DEF Generate
<1>3. CASE SaveShards
  BY <1>3 DEF SaveShards
<1>4. CASE Turn
  BY <1>4 DEF Turn
<1>5. CASE Confirm
  BY <1>5 DEF Confirm
<1>6. CASE Register
  <2>1. \A w \in Wallets : post'[w] # "none" => w = shown \/ post[w] # "none"
    BY <1>6 DEF Register
  <2> QED
    BY <1>6, <2>1 DEF Register
<1>7. CASE CloseCreate
  BY <1>7 DEF CloseCreate
<1> QED
  BY <1>1, <1>2, <1>3, <1>4, <1>5, <1>6, <1>7

\* The server and its answers, which may come when the dialog shows another wallet.
LEMMA PostStep ==
    ASSUME ShardInv, NEW w \in Wallets, ServerRegisters(w) \/ Registered(w) \/ RegisterEnds(w)
    PROVE  ShardInv'
<1> USE DEF ShardInv, PostHasStates, TickIsForShown, PostIsBackedUp, RegisteredIsBackedUp, KeyIsTheWallets,
            restoreVars, createVars
<1>1. w \in saved
  BY DEF ServerRegisters, Registered, RegisterEnds
<1>2. \A v \in Wallets \ {w} : post'[v] = post[v]
  BY DEF ServerRegisters, Registered, RegisterEnds
<1>3. CASE ServerRegisters(w)
  <2>1. (row' = w /\ row = None) \/ row' = row
    BY <1>3 DEF ServerRegisters
  <2> QED
    BY <1>1, <1>2, <1>3, <2>1 DEF ServerRegisters
<1>4. CASE Registered(w)
  BY <1>1, <1>2, <1>4 DEF Registered
<1>5. CASE RegisterEnds(w)
  BY <1>1, <1>2, <1>5 DEF RegisterEnds
<1> QED
  BY <1>3, <1>4, <1>5

LEMMA RestoreStep ==
    ASSUME ShardInv,
           \/ FetchWallets \/ OpenRestore \/ CloseRestore \/ SelectFiles \/ ReadFile
           \/ PasteAdd \/ LegacyHexAdd \/ RemoveShard \/ ClearShards \/ Restore \/ SignWithdraw
    PROVE  ShardInv'
<1>1. UNCHANGED <<row, createVars, post>>
  BY DEF FetchWallets, OpenRestore, CloseRestore, SelectFiles, ReadFile, PasteAdd, LegacyHexAdd,
         RemoveShard, ClearShards, Restore, SignWithdraw, createVars
<1>2. key' \in {key, None, row}
  BY OnlyTheExpected
     DEF FetchWallets, OpenRestore, CloseRestore, SelectFiles, ReadFile, PasteAdd, LegacyHexAdd,
         RemoveShard, ClearShards, Restore, SignWithdraw, restoreVars
<1> QED
  BY <1>1, <1>2 DEF ShardInv, PostHasStates, TickIsForShown, PostIsBackedUp, RegisteredIsBackedUp,
                    KeyIsTheWallets, createVars

-----------------------------------------------------------------------------
(* Theorems                                                                *)

\* The invariant of both dialogs: a tick and a registration are about saved shards.
THEOREM ShardInvariance == Spec => []ShardInv
<1>1. Init => ShardInv
  BY DEF Init, ShardInv, PostHasStates, TickIsForShown, PostIsBackedUp, RegisteredIsBackedUp, KeyIsTheWallets
<1>2. ShardInv /\ [Next]_vars => ShardInv'
  <2>1. ASSUME ShardInv, UNCHANGED vars PROVE ShardInv'
    BY <2>1 DEF vars, createVars, restoreVars, ShardInv, PostHasStates, TickIsForShown, PostIsBackedUp,
                RegisteredIsBackedUp, KeyIsTheWallets
  <2> QED
    BY <2>1, CreateStep, PostStep, RestoreStep DEF Next
<1> QED
  BY <1>1, <1>2, PTL DEF Spec

\* registerSssWallet only ever stores an address whose shards the user has saved,
\* whenever the dialog was closed and however late its answers come.
THEOREM RegisteredBackedUp == Spec => []RegisteredIsBackedUp
<1>1. ShardInv => RegisteredIsBackedUp
  BY DEF ShardInv
<1> QED
  BY <1>1, ShardInvariance, PTL

\* reconstructPrivateKeyFromShards hands no other key to WalletCard than that of
\* the registered wallet, whatever shards the restore dialog has gathered.
THEOREM OnlyTheWalletsKey == Spec => []KeyIsTheWallets
<1>1. ShardInv => KeyIsTheWallets
  BY DEF ShardInv
<1> QED
  BY <1>1, ShardInvariance, PTL
=============================================================================
