---------------------------- MODULE WalletCleanup ----------------------------
(***************************************************************************)
(* The script cleanup-non-test-wallets.ts, run with --execute while the    *)
(* API serves: users provision wallets, submit withdrawals and choose a    *)
(* default wallet meanwhile.                                               *)
(*                                                                         *)
(* A step is a query of the script, or some that follow each other and ask *)
(* for the same rows.  Its transaction runs READ COMMITTED: it sees what   *)
(* others commit between its statements, and holds the preference rows it  *)
(* has updated until it ends.  The last statement and the COMMIT are one   *)
(* step.                                                                   *)
(***************************************************************************)
EXTENDS WalletProvisioning

CONSTANTS
    Protected,   \* users with an email of PROTECTED_EMAILS
    Busy,        \* users who withdraw and choose a default wallet meanwhile
    MaxChoices   \* bound on the default wallets a user chooses

ASSUME CleanupAssumption == Protected \subseteq Users /\ Busy \subseteq Users /\ MaxChoices \in Nat

VARIABLES
    active,      \* wallets with a request or a queue row in flight
    default,     \* UserPreference.defaultWalletId
    choosing,    \* a default wallet whose owner was checked and that is not written
    at,          \* the query the script is at
    targets,     \* targetIds
    prefs,       \* users whose preference is to be set to null
    held,        \* preference rows the open transaction has updated
    kept,        \* protectedWalletCountBefore
    exit,        \* process.exitCode
    committed,   \* the wallets the transaction has deleted
    late,        \* requests were submitted after the last look at them
    choices,     \* how often each user has chosen one
    fresh        \* users who chose one after the preferences were listed

prefVars == <<default, choosing, choices>>
scriptVars == <<at, targets, prefs, held, kept, exit, committed>>
vars == <<rows, provisionVars, env, active, prefVars, scriptVars, late, fresh>>

walletVars == <<rows, provisionVars, env>>

Init ==
    /\ ProvisioningInit
    /\ active = {}
    \* Some have a default wallet already.
    /\ default \in [Users -> Seeds \cup {Nobody}]
    /\ \A u \in Users : default[u] \in Seeds => u \in Busy /\ user[default[u]] = u
    /\ choosing = [u \in Users |-> Nobody]
    /\ choices = [u \in Users |-> 0]
    /\ at = "start"
    /\ targets = {}
    /\ prefs = {}
    /\ held = {}
    /\ kept = 0
    /\ exit = "none"
    /\ committed = {}
    /\ late = {}
    /\ fresh = {}

Unprotected(w) == user[w] \notin Protected
ProtectedWallets == {w \in rows : ~Unprotected(w)}
\* assertOwnerNotProtected of every target, and all of them are there.
TargetsIntact == targets \subseteq rows /\ \A w \in targets : Unprotected(w)
\* Targets with requests that a worker or an admin may still act on.
InFlight == targets \cap active

-----------------------------------------------------------------------------
(* The users of the API                                                    *)

Submit(w) ==
    /\ w \in rows
    /\ active' = active \cup {w}
    /\ late' = IF at = "delete" THEN late \cup {w} ELSE late
    /\ UNCHANGED <<walletVars, prefVars, scriptVars, fresh>>

Settle(w) ==
    /\ w \in active
    /\ active' = active \ {w}
    /\ UNCHANGED <<walletVars, prefVars, scriptVars, late, fresh>>

\* updatePreferences: the wallet must be there and the user's own; then
\* the preference is written, once no transaction holds its row.
CheckDefault(u) ==
    \E w \in rows :
        /\ choosing[u] = Nobody /\ choices[u] < MaxChoices
        /\ user[w] = u
        /\ choosing' = [choosing EXCEPT ![u] = w]
        /\ choices' = [choices EXCEPT ![u] = @ + 1]
        /\ UNCHANGED <<walletVars, active, default, scriptVars, late, fresh>>

WriteDefault(u) ==
    /\ choosing[u] # Nobody
    /\ u \notin held
    /\ default' = [default EXCEPT ![u] = choosing[u]]
    /\ choosing' = [choosing EXCEPT ![u] = Nobody]
    /\ UNCHANGED choices
    /\ fresh' = IF at \in {"start", "targets", "prefs"} THEN fresh ELSE fresh \cup {u}
    /\ UNCHANGED <<walletVars, active, scriptVars, late>>

-----------------------------------------------------------------------------
(* collectInventory and the verdict                                        *)

Step(from, to) == at = from /\ at' = to
\* The script throws: an open transaction is rolled back.
Abort(from) == Step(from, "over") /\ exit' = "1" /\ held' = {}

CountProtected ==
    /\ Step("start", "targets")
    /\ kept' = Cardinality(ProtectedWallets)
    /\ UNCHANGED <<walletVars, active, prefVars, targets, prefs, held, exit,
                   committed, late, fresh>>

ListTargets ==
    /\ Step("targets", "prefs")
    /\ targets' = {w \in rows : Unprotected(w)}
    /\ UNCHANGED <<walletVars, active, prefVars, prefs, held, kept, exit,
                   committed, late, fresh>>

ListPrefs ==
    /\ Step("prefs", "verdict")
    /\ prefs' = {u \in Users \ Protected : default[u] \in targets}
    /\ UNCHANGED <<walletVars, active, prefVars, targets, held, kept, exit,
                   committed, late, fresh>>

\* BLOCKED: ACTIVE REQUESTS FOUND, nothing to delete, or SAFE TO EXECUTE.
Verdict ==
    /\ at = "verdict"
    /\ \/ InFlight # {} /\ Abort("verdict")
       \/ InFlight = {} /\ targets = {} /\ Step("verdict", "over") /\ exit' = "0"
          /\ UNCHANGED held
       \/ InFlight = {} /\ targets # {} /\ Step("verdict", "recheck")
          /\ UNCHANGED <<exit, held>>
    /\ UNCHANGED <<walletVars, active, prefVars, targets, prefs, kept, committed,
                   late, fresh>>

-----------------------------------------------------------------------------
(* executeCleanup                                                          *)

\* The targets and their requests are looked at again, before the transaction.
Recheck ==
    /\ at = "recheck"
    /\ IF TargetsIntact /\ InFlight = {}
       THEN Step("recheck", "null") /\ UNCHANGED <<exit, held>>
       ELSE Abort("recheck")
    /\ UNCHANGED <<walletVars, active, prefVars, targets, prefs, kept, committed,
                   late, fresh>>

\* Abort if a listed preference points elsewhere by now.
RecheckPrefs ==
    /\ at = "null"
    /\ IF \A u \in prefs : default[u] \in targets
       THEN Step("null", "update") /\ UNCHANGED <<exit, held>>
       ELSE Abort("null")
    /\ UNCHANGED <<walletVars, active, prefVars, targets, prefs, kept, committed,
                   late, fresh>>

\* Set to null those that point at a target still.
NullPrefs ==
    /\ Step("update", "count")
    /\ held' = {u \in prefs : default[u] \in targets}
    /\ UNCHANGED <<walletVars, active, prefVars, targets, prefs, kept, exit, committed,
                   late, fresh>>

\* Mutant: the transaction relies on the requests looked for before it.
CountInTxStale ==
    /\ at = "count"
    /\ IF TargetsIntact
       THEN Step("count", "delete") /\ UNCHANGED <<exit, held>>
       ELSE Abort("count")
    /\ UNCHANGED <<walletVars, active, prefVars, targets, prefs, kept, committed,
                   late, fresh>>

\* Wallets and in-flight work are counted once more, in the transaction.
CountInTx ==
    /\ at = "count"
    /\ IF TargetsIntact /\ InFlight = {}
       THEN Step("count", "delete") /\ UNCHANGED <<exit, held>>
       ELSE Abort("count")
    /\ UNCHANGED <<walletVars, active, prefVars, targets, prefs, kept, committed,
                   late, fresh>>

\* Mutant: what refers to the wallets is left as it is.
DeleteAndCommitRowsOnly ==
    /\ Step("delete", "post")
    /\ rows' = rows \ targets
    /\ committed' = targets
    /\ held' = {}
    /\ UNCHANGED <<provisionVars, env, active, prefVars, targets, prefs, kept, exit,
                   late, fresh>>

\* DELETE of the targets whose owner is not protected, with all that hangs on
\* them, and COMMIT: unless fewer were deleted than are to be.
DeleteAndCommit ==
    /\ at = "delete"
    /\ IF Cardinality({w \in targets \cap rows : Unprotected(w)}) = Cardinality(targets)
       THEN /\ Step("delete", "post")
            /\ rows' = rows \ targets
            /\ committed' = targets
            /\ active' = active \ targets
            /\ default' = [u \in Users |-> IF u \in held THEN Nobody ELSE default[u]]
            /\ held' = {}
            /\ UNCHANGED exit
       ELSE Abort("delete") /\ UNCHANGED <<rows, committed, active, default>>
    /\ UNCHANGED <<provisionVars, env, choosing, choices, targets, prefs, kept, late, fresh>>

\* The checks after the commit; the deletion stands whatever they find.
PostCheck ==
    /\ Step("post", "over")
    /\ exit' = IF /\ Cardinality(ProtectedWallets) = kept
                  /\ targets \cap rows = {}
                  /\ \A u \in prefs : default[u] = Nobody
               THEN "0" ELSE "1"
    /\ UNCHANGED <<walletVars, active, prefVars, targets, prefs, held, kept,
                   committed, late, fresh>>

\* A query throws or the script is stopped.
ScriptFails ==
    /\ at \notin {"start", "over"}
    /\ Abort(at)
    /\ UNCHANGED <<walletVars, active, prefVars, targets, prefs, kept, committed,
                   late, fresh>>

-----------------------------------------------------------------------------
Script ==
    \/ CountProtected \/ ListTargets \/ ListPrefs \/ Verdict \/ Recheck
    \/ RecheckPrefs \/ NullPrefs \/ CountInTx \/ DeleteAndCommit \/ PostCheck \/ ScriptFails

Next ==
    \/ ProvisioningNext
       /\ UNCHANGED <<active, prefVars, scriptVars, late, fresh>>
    \/ \E w \in WalletIds : (user[w] \in Busy /\ Submit(w)) \/ Settle(w)
    \/ \E u \in Busy : CheckDefault(u) \/ WriteDefault(u)
    \/ Script

Spec == Init /\ [][Next]_vars

-----------------------------------------------------------------------------
(* Properties                                                              *)

TypeOK ==
    /\ ProvisioningTypeOK
    /\ active \subseteq rows
    /\ default \in [Users -> WalletIds \cup {Nobody}]
    /\ choosing \in [Users -> WalletIds \cup {Nobody}]
    /\ choices \in [Users -> 0 .. MaxChoices]
    /\ at \in {"start", "targets", "prefs", "verdict", "recheck", "null", "update", "count",
               "delete", "post", "over"}
    /\ targets \subseteq WalletIds
    /\ prefs \subseteq Users /\ held \subseteq prefs
    /\ kept \in Nat
    /\ exit \in {"none", "0", "1"}
    /\ committed \subseteq WalletIds
    /\ late \subseteq WalletIds /\ fresh \subseteq Users

\* No step removes a wallet of a protected user, nor a withdrawal in flight --
\* but for one submitted after the transaction counted them and before it
\* deleted, which READ COMMITTED neither shows nor stops.
CleanupSpares ==
    [][\A w \in rows \ rows' :
           Unprotected(w) /\ w \in targets /\ (w \in active => w \in late)]_vars

\* A default wallet that is no more was chosen while the script was at work:
\* nothing ties the preference to the wallet, and the user's check came first.
DanglingDefaultIsFresh ==
    \A u \in Users : default[u] \notin rows \cup {Nobody} => u \in fresh

\* A vault without a wallet row belongs to a call that was told so -- it lost
\* to another call of its user or failed --, is still to get its row, or lost
\* it to the script, which leaves the contract and its balance behind.
StrayVaultsAreReported ==
    \A v \in vaults \ rows :
        pc[v] = "create" \/ outcome[v] \in {"conflict", "failed"} \/ v \in committed
=============================================================================
