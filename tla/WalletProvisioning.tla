------------------------- MODULE WalletProvisioning -------------------------
(***************************************************************************)
(* How wallets come to be: createBackendSecWallet, createMultisigWallet,   *)
(* createPolicyGuardWallet and registerSssWallet, called concurrently by   *)
(* the same users, and which key SignerService signs with afterwards.      *)
(*                                                                         *)
(* A wallet row, its address and its vault are named by the call that made *)
(* them; rows that were there before are seeds.  A private key is named by *)
(* the address that ethers derives from it.                                *)
(***************************************************************************)
EXTENDS Naturals, FiniteSets

CONSTANTS
    Users,
    Calls,         \* provisioning calls
    Seeds,         \* wallet rows from before
    user,          \* userId of each row, the caller of each call
    seedType,
    seedAddress,   \* an account of their own, or once the shared signer
    seedSealed,    \* what their encryptedPrivateKey holds
    Accounts,      \* addresses of the shared signer
    Masters,       \* values of WALLET_ENCRYPTION_KEY
    Nobody

ProvisionableTypes == {"BACKEND_SEC", "MULTISIG", "POLICY_GUARD", "SSS"}
LocallySigned == {"BACKEND_SEC", "MULTISIG"}
WalletIds == Calls \cup Seeds
Addresses == WalletIds \cup Accounts

\* An encrypted column: the master key that opens it, and the private key in it
\* or text that is none.
Sealed == [master : Masters, key : Addresses \cup {"not a key"}]

SignerErrors == {"WALLET_NOT_FOUND", "WALLET_SIGNER_UNSUPPORTED_TYPE",
                 "WALLET_ENCRYPTED_KEY_MISSING", "WALLET_KEY_DECRYPTION_FAILED",
                 "WALLET_PRIVATE_KEY_INVALID", "WALLET_SIGNER_ADDRESS_MISMATCH"}

ASSUME ProvisioningAssumption ==
    /\ Calls \cap Seeds = {}
    /\ WalletIds \cap Accounts = {}
    /\ user \in [WalletIds -> Users]
    /\ seedType \in [Seeds -> ProvisionableTypes \cup {"KMS", "MPC"}]
    /\ seedAddress \in [Seeds -> Seeds \cup Accounts]
    /\ seedSealed \in [Seeds -> Sealed \cup {Nobody}]
    /\ Nobody \notin Users \cup Sealed \cup WalletIds
    /\ (SignerErrors \cup {"not a key"}) \cap Addresses = {}
    /\ IsFiniteSet(Seeds)

VARIABLES
    rows,       \* Wallet rows
    type,       \* walletType of each row or call
    sealed,     \* its encryptedPrivateKey
    vaults,     \* calls whose PolicyVault is mined
    pc,         \* the await each call is at
    outcome,    \* what each call was answered
    env         \* the master key and the shared signer the server runs with

provisionVars == <<type, sealed, vaults, pc, outcome>>

ProvisioningInit ==
    /\ rows = Seeds
    /\ type = [w \in WalletIds |-> IF w \in Seeds THEN seedType[w] ELSE "none"]
    /\ sealed = [w \in WalletIds |-> IF w \in Seeds THEN seedSealed[w] ELSE Nobody]
    /\ vaults = {}
    /\ pc = [c \in Calls |-> "new"]
    /\ outcome = [c \in Calls |-> "none"]
    /\ env \in [master : Masters, shared : Accounts]

AddressOf(w) == IF w \in Seeds THEN seedAddress[w] ELSE w

Goto(c, from, to) == pc[c] = from /\ pc' = [pc EXCEPT ![c] = to]
Reply(c, from, what) == Goto(c, from, "done") /\ outcome' = [outcome EXCEPT ![c] = what]

\* The row of this user and type, of which there is at most one.
Taken(c) == \E w \in rows : user[w] = user[c] /\ type[w] = type[c]

-----------------------------------------------------------------------------
Begin(c, t) ==
    /\ Goto(c, "new", "find")
    /\ type' = [type EXCEPT ![c] = t]
    /\ UNCHANGED <<vaults, rows, sealed, outcome, env>>

CreateBackendSecWallet(c) == Begin(c, "BACKEND_SEC")
CreateMultisigWallet(c) == Begin(c, "MULTISIG")
RegisterSssWallet(c) == Begin(c, "SSS")
CreatePolicyGuardWallet(c) == Begin(c, "POLICY_GUARD")

\* 400: not an address; only the browser's SSS address comes from outside.
BadAddress(c) ==
    /\ pc[c] = "new"
    /\ Reply(c, "new", "failed")
    /\ UNCHANGED <<vaults, rows, type, sealed, env>>

\* 409, before anything is made.
FindsExisting(c) ==
    /\ Taken(c)
    /\ Reply(c, "find", "conflict")
    /\ UNCHANGED <<vaults, rows, type, sealed, env>>

\* A custodial wallet gets its random key, encrypted at once; an SSS wallet
\* has its key elsewhere; a POLICY_GUARD wallet is a contract to be deployed.
FindsNone(c) ==
    /\ ~Taken(c)
    /\ Goto(c, "find", IF type[c] = "POLICY_GUARD" THEN "deploy" ELSE "create")
    /\ sealed' = [sealed EXCEPT ![c] = IF type[c] \in LocallySigned
                                       THEN [master |-> env.master, key |-> c]
                                       ELSE Nobody]
    /\ UNCHANGED <<vaults, rows, type, outcome, env>>

\* The vault is mined.
Deploy(c) ==
    /\ Goto(c, "deploy", "create")
    /\ vaults' = vaults \cup {c}
    /\ UNCHANGED <<rows, type, sealed, outcome, env>>

\* 500: the deployment fails, or is mined although the wait for it fails.
DeployFails(c) ==
    /\ Reply(c, "deploy", "failed")
    /\ vaults' \in {vaults, vaults \cup {c}}
    /\ UNCHANGED <<rows, type, sealed, env>>

\* Mutant: whoever comes second takes the wallet over.
CreateRowReplacing(c) ==
    /\ Reply(c, "create", "created")
    /\ rows' = {w \in rows : user[w] # user[c] \/ type[w] # type[c]} \cup {c}
    /\ UNCHANGED <<vaults, type, sealed, env>>

\* INSERT; the unique key of user and type answers a second one (P2002).
CreateRow(c) ==
    /\ IF Taken(c)
       THEN Reply(c, "create", "conflict") /\ UNCHANGED rows
       ELSE Reply(c, "create", "created") /\ rows' = rows \cup {c}
    /\ UNCHANGED <<vaults, type, sealed, env>>

\* 500: the database throws, a key cannot be encrypted, the process dies; 400:
\* POLICY_GUARD_ADDRESS is not set.
CreateFails(c) ==
    /\ pc[c] \in {"find", "create"}
    /\ Reply(c, pc[c], "failed")
    /\ UNCHANGED <<vaults, rows, type, sealed, env>>

\* The server is restarted with another encryption key or signer key.
Reconfigure ==
    /\ env' \in [master : Masters, shared : Accounts]
    /\ UNCHANGED <<rows, provisionVars>>

-----------------------------------------------------------------------------
(* getWalletSigner: the address of the key it returns, or its error        *)

LegacySharedSigner(w) ==
    IF AddressOf(w) = env.shared THEN env.shared ELSE "WALLET_ENCRYPTED_KEY_MISSING"

\* Mutant: the decrypted key is taken for the wallet's.
SignerFromEncryptedKeyTrusting(w) ==
    CASE sealed[w].master # env.master -> "WALLET_KEY_DECRYPTION_FAILED"
      [] sealed[w].master = env.master /\ sealed[w].key \notin Addresses ->
            "WALLET_PRIVATE_KEY_INVALID"
      [] OTHER -> sealed[w].key

\* AES-GCM tells the wrong master key; what the right one opens need not be a
\* private key, nor that of Wallet.address.
SignerFromEncryptedKey(w) ==
    CASE sealed[w].master # env.master -> "WALLET_KEY_DECRYPTION_FAILED"
      [] sealed[w].master = env.master /\ sealed[w].key \notin Addresses ->
            "WALLET_PRIVATE_KEY_INVALID"
      [] OTHER ->
            IF sealed[w].key = AddressOf(w) THEN sealed[w].key ELSE "WALLET_SIGNER_ADDRESS_MISMATCH"

SignerFor(w) ==
    CASE w \notin rows -> "WALLET_NOT_FOUND"
      [] w \in rows /\ type[w] \notin LocallySigned -> "WALLET_SIGNER_UNSUPPORTED_TYPE"
      [] w \in rows /\ type[w] \in LocallySigned /\ sealed[w] # Nobody -> SignerFromEncryptedKey(w)
      [] OTHER -> LegacySharedSigner(w)

-----------------------------------------------------------------------------
Provision(c) ==
    \/ CreateBackendSecWallet(c) \/ CreateMultisigWallet(c) \/ RegisterSssWallet(c)
    \/ CreatePolicyGuardWallet(c) \/ BadAddress(c) \/ FindsExisting(c) \/ FindsNone(c)
    \/ Deploy(c) \/ DeployFails(c) \/ CreateRow(c) \/ CreateFails(c)

ProvisioningNext ==
    \/ \E c \in Calls : Provision(c)
    \/ Reconfigure

-----------------------------------------------------------------------------
(* Properties                                                              *)

ProvisioningTypeOK ==
    /\ vaults \subseteq Calls
    /\ rows \subseteq WalletIds
    /\ type \in [WalletIds -> ProvisionableTypes \cup {"KMS", "MPC", "none"}]
    /\ sealed \in [WalletIds -> Sealed \cup {Nobody}]
    /\ pc \in [Calls -> {"new", "find", "deploy", "create", "done"}]
    /\ outcome \in [Calls -> {"none", "created", "conflict", "failed"}]
    /\ env \in [master : Masters, shared : Accounts]

\* A withdrawal is never signed with the key of another address than the
\* wallet's, whatever keys the server was restarted with since the wallet was
\* made and whatever its row was given to decrypt; and a custodial wallet the API
\* has made can be signed for whenever the server runs with the encryption key
\* of the moment its key was encrypted.
SignerOwnsWallet ==
    \A w \in WalletIds :
        /\ SignerFor(w) \in SignerErrors \/ (w \in rows /\ SignerFor(w) = AddressOf(w))
        /\ w \in rows \cap Calls /\ type[w] \in LocallySigned =>
               sealed[w] # Nobody /\ (env.master = sealed[w].master => SignerFor(w) = w)
=============================================================================
