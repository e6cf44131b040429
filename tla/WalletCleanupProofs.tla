------------------------- MODULE WalletCleanupProofs -------------------------
(***************************************************************************)
(* The clean-up script beside a serving API, for any wallets, users and    *)
(* provisioning calls, any keys of the server and any choice of who is     *)
(* protected.                                                              *)
(*                                                                         *)
(* CleanupInv joins what three parts rely on.  The provisioning calls: a   *)
(* row has its key and its vault before it is committed.  The script: what *)
(* it is about to delete is unprotected and known to its last count.  The  *)
(* users: a default wallet is the user's own, and one that is a target is  *)
(* either in the list the script works off or younger than that list.      *)
(***************************************************************************)
EXTENDS WalletCleanup, FiniteSetTheorems, TLAPS

\* Which calls have a row, a vault and an answer.
CallsAgree ==
    \A c \in Calls :
        /\ pc[c] = "done" <=> outcome[c] # "none"
        /\ c \in rows => outcome[c] = "created"
        /\ outcome[c] = "created" => c \in rows \cup committed
        /\ c \in vaults => pc[c] \in {"create", "done"}

\* An encrypted column with the key of this call's address.
OwnKey(c) == [master : Masters, key : {c}]

\* A custodial wallet has its own key, encrypted, before it has its row.
KeysSealed ==
    \A c \in Calls :
        /\ pc[c] \in {"deploy", "create"} \/ outcome[c] = "created"
        /\ type[c] \in LocallySigned
        => sealed[c] \in OwnKey(c)

WalletInv == ProvisioningTypeOK /\ IsFiniteSet(rows) /\ CallsAgree /\ KeysSealed

BeforeDelete == at \notin {"post", "over"}

\* What is to be deleted is there, is nobody's the script protects and, from
\* the count on, has no request that the count has missed.
TargetsAgree ==
    /\ \A w \in targets : Unprotected(w)
    /\ BeforeDelete => targets \subseteq rows /\ committed = {}
    /\ at = "delete" => InFlight \subseteq late

\* A default wallet, chosen or being chosen, is its user's own and there until
\* the script deletes wallets.
DefaultsOwned ==
    \A u \in Users :
        /\ default[u] # Nobody => user[default[u]] = u
        /\ choosing[u] # Nobody => user[choosing[u]] = u
        /\ BeforeDelete => {default[u], choosing[u]} \subseteq rows \cup {Nobody}

\* The preferences that point at a target are listed, then held, or fresh; the
\* transaction is open for as long as rows are held.
DefaultsListed ==
    /\ at \notin {"count", "delete"} => held = {}
    /\ \A u \in Users : default[u] \in targets =>
           /\ at \in {"verdict", "recheck", "null", "update"} => u \in prefs \cup fresh
           /\ at \in {"count", "delete"} => u \in held \cup fresh

CleanupInv ==
    /\ TypeOK /\ WalletInv
    /\ TargetsAgree /\ DefaultsOwned /\ DefaultsListed /\ DanglingDefaultIsFresh

-----------------------------------------------------------------------------
(* Provisioning                                                            *)

\* How seeds, calls and users are told apart.
LEMMA Names ==
    /\ Calls \cap Seeds = {} /\ Nobody \notin WalletIds
    /\ seedType \in [Seeds -> ProvisionableTypes \cup {"KMS", "MPC"}]
    /\ seedSealed \in [Seeds -> Sealed \cup {Nobody}]
    /\ IsFiniteSet(Seeds)
BY ProvisioningAssumption

LEMMA InitWallets == ProvisioningInit /\ committed = {} => WalletInv
<1> USE Names DEF ProvisioningInit, WalletInv
<1>1. ProvisioningInit => ProvisioningTypeOK
  <2> SUFFICES ASSUME ProvisioningInit PROVE ProvisioningTypeOK
    OBVIOUS
  <2>1. type \in [WalletIds -> ProvisionableTypes \cup {"KMS", "MPC", "none"}]
    BY DEF WalletIds
  <2>2. sealed \in [WalletIds -> Sealed \cup {Nobody}]
    BY DEF WalletIds
  <2> QED
    BY <2>1, <2>2 DEF ProvisioningTypeOK, WalletIds
<1>2. ProvisioningInit => CallsAgree /\ KeysSealed
  BY DEF CallsAgree, KeysSealed
<1> QED
  BY <1>1, <1>2

LEMMA ProvisioningTypeStep ==
    ASSUME ProvisioningTypeOK, IsFiniteSet(rows), ProvisioningNext
    PROVE  ProvisioningTypeOK' /\ IsFiniteSet(rows)' /\ rows \subseteq rows'
<1> USE Names DEF ProvisioningTypeOK
<1> DEFINE Types == ProvisioningTypeOK' /\ IsFiniteSet(rows)' /\ rows \subseteq rows'
<1>1. ASSUME NEW c \in Calls, NEW t \in ProvisionableTypes, Begin(c, t) PROVE Types
  BY <1>1 DEF Begin, Goto, WalletIds
<1>2. ASSUME NEW c \in Calls, BadAddress(c) \/ FindsExisting(c) \/ CreateFails(c) PROVE Types
  BY <1>2 DEF BadAddress, FindsExisting, CreateFails, Reply, Goto
<1>3. ASSUME NEW c \in Calls, FindsNone(c) PROVE Types
  <2>1. [master |-> env.master, key |-> c] \in Sealed
    BY DEF Sealed, Addresses, WalletIds
  <2> QED
    BY <1>3, <2>1 DEF FindsNone, Goto
<1>4. ASSUME NEW c \in Calls, Deploy(c) \/ DeployFails(c) PROVE Types
  BY <1>4 DEF Deploy, DeployFails, Reply, Goto
<1>5. ASSUME NEW c \in Calls, CreateRow(c) PROVE Types
  <2>1. IsFiniteSet(rows \cup {c})
    BY FS_AddElement
  <2>2. rows' = rows \/ rows' = rows \cup {c}
    BY <1>5 DEF CreateRow
  <2>3. IsFiniteSet(rows') /\ rows \subseteq rows' /\ rows' \subseteq WalletIds
    BY <2>1, <2>2 DEF WalletIds
  <2>4. UNCHANGED <<vaults, type, sealed, env>>
    BY <1>5 DEF CreateRow
  <2>5. /\ pc' \in [Calls -> {"new", "find", "deploy", "create", "done"}]
        /\ outcome' \in [Calls -> {"none", "created", "conflict", "failed"}]
    BY <1>5 DEF CreateRow, Reply, Goto
  <2> QED
    BY <2>3, <2>4, <2>5
<1>6. CASE Reconfigure
  BY <1>6 DEF Reconfigure, provisionVars
<1> QED
  BY <1>1, <1>2, <1>3, <1>4, <1>5, <1>6
     DEF ProvisioningNext, Provision, CreateBackendSecWallet, CreateMultisigWallet,
         RegisterSssWallet, CreatePolicyGuardWallet, ProvisionableTypes

LEMMA ProvisioningStep ==
    ASSUME WalletInv, ProvisioningNext, UNCHANGED committed
    PROVE  WalletInv'
<1> USE Names DEF WalletInv, ProvisioningTypeOK
<1>1. ASSUME NEW c \in Calls, NEW t \in ProvisionableTypes, Begin(c, t)
      PROVE  CallsAgree' /\ KeysSealed'
  BY <1>1 DEF Begin, Goto, CallsAgree, KeysSealed, WalletIds
<1>2. ASSUME NEW c \in Calls, BadAddress(c) \/ FindsExisting(c) \/ CreateFails(c)
      PROVE  CallsAgree' /\ KeysSealed'
  BY <1>2 DEF BadAddress, FindsExisting, CreateFails, Reply, Goto, CallsAgree, KeysSealed
<1>3. ASSUME NEW c \in Calls, FindsNone(c) PROVE CallsAgree' /\ KeysSealed'
  <2>1. [master |-> env.master, key |-> c] \in OwnKey(c)
    BY DEF OwnKey
  <2> QED
    BY <1>3, <2>1 DEF FindsNone, Goto, CallsAgree, KeysSealed, WalletIds
<1>4. ASSUME NEW c \in Calls, Deploy(c) \/ DeployFails(c) PROVE CallsAgree' /\ KeysSealed'
  BY <1>4 DEF Deploy, DeployFails, Reply, Goto, CallsAgree, KeysSealed
<1>5. ASSUME NEW c \in Calls, CreateRow(c) PROVE CallsAgree' /\ KeysSealed'
  BY <1>5 DEF CreateRow, Reply, Goto, CallsAgree, KeysSealed
<1>6. CASE Reconfigure
  BY <1>6 DEF Reconfigure, provisionVars, CallsAgree, KeysSealed
<1> QED
  BY <1>1, <1>2, <1>3, <1>4, <1>5, <1>6, ProvisioningTypeStep
     DEF ProvisioningNext, Provision, CreateBackendSecWallet, CreateMultisigWallet,
         RegisterSssWallet, CreatePolicyGuardWallet, ProvisionableTypes

-----------------------------------------------------------------------------
(* The users and the script                                                *)

LEMMA InitCleanup == Init => CleanupInv
<1> SUFFICES ASSUME Init PROVE CleanupInv
  OBVIOUS
<1> USE Names, CleanupAssumption DEF Init
<1>1. WalletInv
  BY InitWallets
<1>2. TypeOK
  BY <1>1 DEF TypeOK, WalletInv, WalletIds
<1>3. TargetsAgree
  BY DEF TargetsAgree
<1>4. DefaultsOwned /\ DefaultsListed /\ DanglingDefaultIsFresh
  BY DEF DefaultsOwned, DefaultsListed, DanglingDefaultIsFresh, ProvisioningInit
<1> QED
  BY <1>1, <1>2, <1>3, <1>4 DEF CleanupInv

\* The API provisions wallets while the script is at work.
LEMMA ServerStep ==
    ASSUME CleanupInv, ProvisioningNext,
           UNCHANGED <<active, prefVars, scriptVars, late, fresh>>
    PROVE  CleanupInv'
<1> USE DEF CleanupInv, prefVars, scriptVars
<1>1. WalletInv' /\ rows \subseteq rows'
  BY ProvisioningStep, ProvisioningTypeStep DEF WalletInv
<1>2. TypeOK'
  BY <1>1 DEF TypeOK, WalletInv
<1>3. TargetsAgree'
  BY <1>1 DEF TargetsAgree, Unprotected, BeforeDelete, InFlight
<1>4. DefaultsOwned' /\ DefaultsListed' /\ DanglingDefaultIsFresh'
  BY <1>1 DEF DefaultsOwned, DefaultsListed, DanglingDefaultIsFresh, BeforeDelete
<1> QED
  BY <1>1, <1>2, <1>3, <1>4

\* Nothing of the wallets changes.
LEMMA WalletsUntouched ==
    ASSUME WalletInv, UNCHANGED <<walletVars, committed>>
    PROVE  WalletInv'
BY DEF WalletInv, walletVars, provisionVars, ProvisioningTypeOK, CallsAgree, KeysSealed

LEMMA UserStep ==
    ASSUME CleanupInv,
           \/ \E w \in WalletIds : Submit(w) \/ Settle(w)
           \/ \E u \in Busy : CheckDefault(u) \/ WriteDefault(u)
    PROVE  CleanupInv'
<1> USE CleanupAssumption DEF CleanupInv, scriptVars, prefVars
<1>1. WalletInv' /\ UNCHANGED <<rows, scriptVars>>
  BY WalletsUntouched DEF Submit, Settle, CheckDefault, WriteDefault, walletVars
<1>2. ASSUME NEW w \in WalletIds, Submit(w) \/ Settle(w) PROVE CleanupInv'
  <2>1. TypeOK'
    BY <1>1, <1>2 DEF Submit, Settle, TypeOK, WalletInv
  <2>2. TargetsAgree'
    BY <1>1, <1>2 DEF Submit, Settle, TargetsAgree, Unprotected, BeforeDelete, InFlight
  <2>3. DefaultsOwned' /\ DefaultsListed' /\ DanglingDefaultIsFresh'
    BY <1>1, <1>2 DEF Submit, Settle, DefaultsOwned, DefaultsListed, DanglingDefaultIsFresh,
                      BeforeDelete
  <2> QED
    BY <1>1, <2>1, <2>2, <2>3
<1>3. ASSUME NEW u \in Busy, CheckDefault(u) PROVE CleanupInv'
  <2>1. PICK w \in rows : user[w] = u /\ choosing' = [choosing EXCEPT ![u] = w]
    BY <1>3 DEF CheckDefault
  <2>2. u \in Users /\ w \in WalletIds /\ UNCHANGED <<active, default, late, fresh>>
    BY <1>3 DEF CheckDefault, TypeOK, ProvisioningTypeOK
  <2>3. TypeOK'
    <3>1. choices' \in [Users -> 0 .. MaxChoices]
      BY <1>3, <2>2 DEF CheckDefault, TypeOK
    <3> QED
      BY <1>1, <2>1, <2>2, <3>1 DEF TypeOK, WalletInv
  <2>4. TargetsAgree'
    BY <1>1, <2>2 DEF TargetsAgree, Unprotected, BeforeDelete, InFlight
  <2>5. DefaultsOwned' /\ DefaultsListed' /\ DanglingDefaultIsFresh'
    BY <1>1, <2>1, <2>2
       DEF DefaultsOwned, DefaultsListed, DanglingDefaultIsFresh, BeforeDelete, TypeOK
  <2> QED
    BY <1>1, <2>3, <2>4, <2>5
<1>4. ASSUME NEW u \in Busy, WriteDefault(u) PROVE CleanupInv'
  <2>1. /\ u \in Users /\ UNCHANGED <<active, choices, late>>
        /\ choosing[u] # Nobody /\ u \notin held
        /\ default' = [default EXCEPT ![u] = choosing[u]]
        /\ choosing' = [choosing EXCEPT ![u] = Nobody]
        /\ fresh' = IF at \in {"start", "targets", "prefs"} THEN fresh ELSE fresh \cup {u}
    BY <1>4 DEF WriteDefault
  <2>2. TypeOK'
    BY <1>1, <2>1 DEF TypeOK, WalletInv
  <2>3. TargetsAgree'
    BY <1>1, <2>1 DEF TargetsAgree, Unprotected, BeforeDelete, InFlight
  <2>4. DefaultsOwned'
    BY <1>1, <2>1 DEF DefaultsOwned, BeforeDelete, TypeOK
  <2>5. DefaultsListed'
    BY <1>1, <2>1 DEF DefaultsListed, TypeOK
  <2>6. DanglingDefaultIsFresh'
    BY <1>1, <2>1 DEF DefaultsOwned, DanglingDefaultIsFresh, BeforeDelete, TypeOK
  <2> QED
    BY <1>1, <2>2, <2>3, <2>4, <2>5, <2>6
<1> QED
  BY <1>2, <1>3, <1>4

\* The queries that only look, and the rollback.
LEMMA LookingStep ==
    ASSUME CleanupInv,
           \/ CountProtected \/ ListTargets \/ ListPrefs \/ Verdict \/ Recheck \/ RecheckPrefs
           \/ NullPrefs \/ CountInTx \/ PostCheck \/ ScriptFails
    PROVE  CleanupInv'
<1> USE DEF CleanupInv, prefVars, Step, Abort
<1>1. WalletInv' /\ UNCHANGED <<rows, active, default, choosing, choices, committed, late, fresh>>
  BY WalletsUntouched DEF CountProtected, ListTargets, ListPrefs, Verdict, Recheck, RecheckPrefs,
     NullPrefs, CountInTx, PostCheck, ScriptFails, walletVars
<1>2. CASE CountProtected
  <2>1. Cardinality(ProtectedWallets) \in Nat
    BY FS_Subset, FS_CardinalityType DEF ProtectedWallets, WalletInv
  <2>2. TypeOK'
    BY <1>1, <1>2, <2>1 DEF CountProtected, TypeOK, WalletInv
  <2>3. TargetsAgree'
    BY <1>1, <1>2 DEF CountProtected, TargetsAgree, Unprotected, BeforeDelete
  <2>4. DefaultsOwned' /\ DefaultsListed' /\ DanglingDefaultIsFresh'
    BY <1>1, <1>2 DEF CountProtected, DefaultsOwned, DefaultsListed, DanglingDefaultIsFresh,
                      BeforeDelete
  <2> QED
    BY <1>1, <2>2, <2>3, <2>4
<1>3. CASE ListTargets
  <2>1. TypeOK'
    BY <1>1, <1>3 DEF ListTargets, TypeOK, WalletInv, ProvisioningTypeOK
  <2>2. TargetsAgree'
    BY <1>1, <1>3 DEF ListTargets, TargetsAgree, Unprotected, BeforeDelete
  <2>3. DefaultsOwned' /\ DefaultsListed' /\ DanglingDefaultIsFresh'
    BY <1>1, <1>3 DEF ListTargets, DefaultsOwned, DefaultsListed, DanglingDefaultIsFresh,
                      BeforeDelete
  <2> QED
    BY <1>1, <2>1, <2>2, <2>3
<1>4. CASE ListPrefs
  <2>1. held = {}
    BY <1>4 DEF ListPrefs, DefaultsListed
  <2>2. TypeOK'
    BY <1>1, <1>4, <2>1 DEF ListPrefs, TypeOK, WalletInv
  <2>3. TargetsAgree'
    BY <1>1, <1>4 DEF ListPrefs, TargetsAgree, Unprotected, BeforeDelete
  <2>4. DefaultsOwned' /\ DanglingDefaultIsFresh'
    BY <1>1, <1>4 DEF ListPrefs, DefaultsOwned, DanglingDefaultIsFresh, BeforeDelete
  <2>5. DefaultsListed'
    BY <1>1, <1>4, Names
       DEF ListPrefs, DefaultsListed, DefaultsOwned, TargetsAgree, Unprotected, TypeOK
  <2> QED
    BY <1>1, <2>2, <2>3, <2>4, <2>5
<1>5. CASE Verdict \/ Recheck \/ RecheckPrefs \/ CountInTx \/ PostCheck \/ ScriptFails
  <2>1. UNCHANGED <<targets, prefs, kept>> /\ (at' = "over" \/ held' = held)
    BY <1>5 DEF Verdict, Recheck, RecheckPrefs, CountInTx, PostCheck, ScriptFails
  <2>2. TypeOK'
    BY <1>1, <1>5, <2>1 DEF Verdict, Recheck, RecheckPrefs, CountInTx, PostCheck, ScriptFails,
       TypeOK, WalletInv
  <2>3. BeforeDelete' => BeforeDelete
    BY <1>5 DEF Verdict, Recheck, RecheckPrefs, CountInTx, PostCheck, ScriptFails, BeforeDelete
  <2>4. TargetsAgree'
    BY <1>1, <1>5, <2>1, <2>3 DEF Verdict, Recheck, RecheckPrefs, CountInTx, PostCheck,
       ScriptFails, TargetsAgree, Unprotected, InFlight
  <2>5. DefaultsOwned' /\ DanglingDefaultIsFresh'
    BY <1>1, <2>1, <2>3 DEF DefaultsOwned, DanglingDefaultIsFresh
  <2>6. DefaultsListed'
    BY <1>1, <1>5, <2>1 DEF Verdict, Recheck, RecheckPrefs, CountInTx, PostCheck, ScriptFails,
       DefaultsListed
  <2> QED
    BY <1>1, <2>2, <2>4, <2>5, <2>6
<1>6. CASE NullPrefs
  <2>1. TypeOK'
    BY <1>1, <1>6 DEF NullPrefs, TypeOK, WalletInv
  <2>2. TargetsAgree'
    BY <1>1, <1>6 DEF NullPrefs, TargetsAgree, Unprotected, BeforeDelete
  <2>3. DefaultsOwned' /\ DanglingDefaultIsFresh'
    BY <1>1, <1>6 DEF NullPrefs, DefaultsOwned, DanglingDefaultIsFresh, BeforeDelete
  <2>4. DefaultsListed'
    BY <1>1, <1>6 DEF NullPrefs, DefaultsListed
  <2> QED
    BY <1>1, <2>1, <2>2, <2>3, <2>4
<1> QED
  BY <1>2, <1>3, <1>4, <1>5, <1>6

\* The transaction never deletes fewer wallets than it was to: the branch of the
\* count is not taken.
LEMMA NothingMissing ==
    ASSUME TargetsAgree, at = "delete"
    PROVE  Cardinality({w \in targets \cap rows : Unprotected(w)}) = Cardinality(targets)
<1>1. {w \in targets \cap rows : Unprotected(w)} = targets
  BY DEF TargetsAgree, BeforeDelete
<1> QED
  BY <1>1

\* The deletion and its commit.
LEMMA DeletingStep ==
    ASSUME CleanupInv, DeleteAndCommit
    PROVE  CleanupInv'
<1> USE DEF CleanupInv
<1>1. /\ rows' = rows \ targets /\ committed' = targets /\ active' = active \ targets
      /\ default' = [u \in Users |-> IF u \in held THEN Nobody ELSE default[u]]
      /\ UNCHANGED <<type, sealed, vaults, pc, outcome, env, choosing, choices, targets, prefs,
                     kept, exit, late, fresh>>
      /\ at = "delete" /\ at' = "post" /\ held' = {} /\ committed = {}
  BY NothingMissing DEF DeleteAndCommit, Step, provisionVars, TargetsAgree, BeforeDelete
<1>2. WalletInv'
  <2>1. ProvisioningTypeOK'
    BY <1>1 DEF WalletInv, ProvisioningTypeOK
  <2>2. IsFiniteSet(rows')
    BY <1>1, FS_Subset DEF WalletInv
  <2>3. CallsAgree' /\ KeysSealed'
    BY <1>1 DEF WalletInv, CallsAgree, KeysSealed
  <2> QED
    BY <2>1, <2>2, <2>3 DEF WalletInv
<1>3. TypeOK'
  BY <1>1, <1>2 DEF TypeOK, WalletInv
<1>4. TargetsAgree'
  BY <1>1 DEF TargetsAgree, Unprotected, BeforeDelete
<1>5. DefaultsOwned'
  BY <1>1 DEF DefaultsOwned, BeforeDelete
<1>6. DefaultsListed'
  BY <1>1 DEF DefaultsListed
<1>7. DanglingDefaultIsFresh'
  BY <1>1 DEF DanglingDefaultIsFresh, DefaultsListed
<1> QED
  BY <1>2, <1>3, <1>4, <1>5, <1>6, <1>7

LEMMA CleanupStep ==
    ASSUME CleanupInv, [Next]_vars
    PROVE  CleanupInv'
<1>1. CASE UNCHANGED vars
  BY <1>1 DEF vars, provisionVars, prefVars, scriptVars, CleanupInv, TypeOK, WalletInv,
     ProvisioningTypeOK, CallsAgree, KeysSealed, TargetsAgree, Unprotected, BeforeDelete,
     InFlight, DefaultsOwned, DefaultsListed, DanglingDefaultIsFresh
<1> QED
  BY <1>1, ServerStep, UserStep, LookingStep, DeletingStep DEF Next, Script
-----------------------------------------------------------------------------
(* The specification                                                       *)

\* What calls, wallets, preferences and the script know of each other.
THEOREM CleanupInvariance == Spec => []CleanupInv
BY InitCleanup, CleanupStep, PTL DEF Spec

\* Type correctness of provisioning, of the users and of the script.
THEOREM CleanupTypeCorrect == Spec => []TypeOK
<1>1. CleanupInv => TypeOK
  BY DEF CleanupInv
<1> QED
  BY <1>1, CleanupInvariance, PTL

\* getWalletSigner returns the key of the wallet's address or an error, and the
\* own key of a wallet the API made whenever the encryption key is that of then.
THEOREM SignersOwn == Spec => []SignerOwnsWallet
<1>1. CleanupInv => SignerOwnsWallet
  <2> SUFFICES ASSUME CleanupInv, NEW w \in WalletIds
               PROVE  /\ SignerFor(w) \in SignerErrors \/ (w \in rows /\ SignerFor(w) = AddressOf(w))
                      /\ w \in rows \cap Calls /\ type[w] \in LocallySigned =>
                             /\ sealed[w] # Nobody
                             /\ env.master = sealed[w].master => SignerFor(w) = w
    BY DEF SignerOwnsWallet
  <2> USE ProvisioningAssumption
  <2>1. SignerFor(w) \in SignerErrors \/ (w \in rows /\ SignerFor(w) = AddressOf(w))
    BY DEF SignerFor, SignerFromEncryptedKey, LegacySharedSigner, SignerErrors
  <2>2. ASSUME w \in rows \cap Calls, type[w] \in LocallySigned
        PROVE  sealed[w] \in OwnKey(w)
    BY <2>2 DEF CleanupInv, WalletInv, CallsAgree, KeysSealed
  <2>3. ASSUME w \in rows \cap Calls, type[w] \in LocallySigned PROVE sealed[w] # Nobody
    BY <2>2, <2>3 DEF OwnKey, Sealed, Addresses
  <2>4. ASSUME w \in rows \cap Calls, type[w] \in LocallySigned, env.master = sealed[w].master
        PROVE  SignerFor(w) = w
    <3>1. AddressOf(w) = w
      BY <2>4 DEF AddressOf
    <3>2. sealed[w].key = w /\ w \in Addresses
      BY <2>2, <2>4 DEF OwnKey, Addresses
    <3>3. SignerFromEncryptedKey(w) = w
      BY <2>4, <3>1, <3>2 DEF SignerFromEncryptedKey
    <3> QED
      BY <2>3, <2>4, <3>3 DEF SignerFor
  <2> QED
    BY <2>1, <2>3, <2>4
<1> QED
  BY <1>1, CleanupInvariance, PTL

\* A vault without a wallet row is one its caller was told of, or is still to
\* get its row, or has lost it to the script.
THEOREM StrayVaultsReported == Spec => []StrayVaultsAreReported
<1>1. CleanupInv => StrayVaultsAreReported
  <2> SUFFICES ASSUME CleanupInv, NEW v \in vaults, v \notin rows
               PROVE  \/ pc[v] = "create"
                      \/ outcome[v] \in {"conflict", "failed"}
                      \/ v \in committed
    BY DEF StrayVaultsAreReported
  <2> QED
    BY ProvisioningAssumption DEF CleanupInv, WalletInv, CallsAgree, ProvisioningTypeOK
<1> QED
  BY <1>1, CleanupInvariance, PTL

\* The script leaves no default wallet dangling that was not chosen meanwhile.
THEOREM DanglingDefaultsFresh == Spec => []DanglingDefaultIsFresh
<1>1. CleanupInv => DanglingDefaultIsFresh
  BY DEF CleanupInv
<1> QED
  BY <1>1, CleanupInvariance, PTL

\* The deletion spares protected users, and requests the last count could see.
THEOREM CleanupSparesOthers == Spec => CleanupSpares
<1> DEFINE Spares ==
        \A w \in rows \ rows' : Unprotected(w) /\ w \in targets /\ (w \in active => w \in late)
<1>1. CleanupInv /\ [Next]_vars => [Spares]_vars
  <2> SUFFICES ASSUME CleanupInv, Next PROVE Spares
    OBVIOUS
  <2>1. CASE DeleteAndCommit
    BY <2>1 DEF DeleteAndCommit, Step, CleanupInv, TargetsAgree, InFlight
  <2>2. CASE ProvisioningNext
    BY <2>2, ProvisioningTypeStep DEF CleanupInv, WalletInv
  <2>3. CASE \/ \E w \in WalletIds : Submit(w) \/ Settle(w)
             \/ \E u \in Busy : CheckDefault(u) \/ WriteDefault(u)
    BY <2>3 DEF Submit, Settle, CheckDefault, WriteDefault, walletVars
  <2>4. CASE \/ CountProtected \/ ListTargets \/ ListPrefs \/ Verdict \/ Recheck \/ RecheckPrefs
             \/ NullPrefs \/ CountInTx \/ PostCheck \/ ScriptFails
    BY <2>4 DEF CountProtected, ListTargets, ListPrefs, Verdict, Recheck, RecheckPrefs,
       NullPrefs, CountInTx, PostCheck, ScriptFails, walletVars
  <2> QED
    BY <2>1, <2>2, <2>3, <2>4 DEF Next, Script
<1> QED
  BY <1>1, CleanupInvariance, PTL DEF Spec, CleanupSpares
=============================================================================
