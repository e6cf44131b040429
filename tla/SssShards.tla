------------------------------ MODULE SssShards ------------------------------
(***************************************************************************)
(* The SSS wallet in the browser: SssCreateModal makes a key, splits it    *)
(* into shards and registers its address; SssRestoreModal gathers shards   *)
(* and puts the key together for the signature of WalletCard.              *)
(*                                                                         *)
(* A wallet stands for its key and its address.  The handlers of a dialog  *)
(* run one at a time, but an answer of the server or the text of a file    *)
(* arrives later, when the dialog may be closed or opened again: both stay *)
(* mounted.                                                                *)
(***************************************************************************)
EXTENDS Naturals, Sequences, FiniteSets, Bags

CONSTANTS
    Wallets,
    Threshold,   \* SSS_THRESHOLD
    Total,       \* SSS_TOTAL
    MaxLines,    \* bound on the files or lines added at once
    MaxList,     \* bound on the shards in the list
    None

ASSUME SssAssumption ==
    /\ Threshold \in Nat /\ Total \in Nat /\ 0 < Threshold /\ Threshold <= Total
    /\ MaxLines \in Nat /\ MaxList \in Nat
    /\ None \notin Wallets

VARIABLES
    row,         \* address of the registered SSS wallet
    listed,      \* the page shows that wallet, and no card to create one
    saved,       \* wallets whose shards the user has saved
    made,        \* wallets that were generated
    createOpen, step, shown, held, confirmed,   \* SssCreateModal
    registering,
    post,        \* the registration of each address that is under way
    restoreOpen, list,                          \* SssRestoreModal
    reading,     \* files still to be read, of a selection
    key          \* sssPrivateKey of WalletCard

createVars == <<made, saved, createOpen, step, shown, held, confirmed, registering>>
restoreVars == <<restoreOpen, list, reading, key>>
vars == <<row, listed, createVars, post, restoreVars>>

Init ==
    /\ row = None
    /\ listed = FALSE
    /\ saved = {}
    /\ made = {}
    /\ createOpen = FALSE
    /\ step = "intro"
    /\ shown = None
    /\ held = FALSE
    /\ confirmed = FALSE
    /\ registering = FALSE
    /\ post = [w \in Wallets |-> "none"]
    /\ restoreOpen = FALSE
    /\ list = EmptyBag
    /\ reading = <<>>
    /\ key = None

-----------------------------------------------------------------------------
(* Shards.  What a share really is -- a point of one wallet's polynomial -- *)
(* and what its document says of it are two things.                        *)

Share == [of : Wallets, x : 1 .. Total]
Document == [index : 1 .. Total, address : Wallets, share : Share]

\* generateSssWalletAndShards
ShardsOf(w) ==
    {[index |-> i, address |-> w, share |-> [of |-> w, x |-> i]] : i \in 1 .. Total}

\* sss.combine: enough different points of one polynomial give its key, any
\* others some bytes or an error.
Combine(documents) ==
    LET shares == {d.share : d \in documents}
        owners == {s.of : s \in shares}
    IN  IF /\ Cardinality(owners) = 1
           /\ Cardinality(shares) = Cardinality(documents)
           /\ Cardinality(shares) >= Threshold
        THEN CHOOSE w \in owners : TRUE
        ELSE "garbage"

OneEach(documents) ==
    /\ BagCardinality(documents) = Cardinality(BagToSet(documents))
    /\ \A c, d \in BagToSet(documents) : c.index = d.index => c = d

\* Mutant: the address the documents bear is believed.
ReconstructBelieving(documents, expected) ==
    LET docs == BagToSet(documents) IN
    IF /\ BagCardinality(documents) >= Threshold
       /\ OneEach(documents)
       /\ \A d \in docs : d.address = expected
    THEN Combine(docs)
    ELSE None

\* reconstructPrivateKeyFromShards: None if it throws.
ReconstructPrivateKey(documents, expected) ==
    LET docs == BagToSet(documents) IN
    IF /\ BagCardinality(documents) >= Threshold
       /\ OneEach(documents)
       /\ \A d \in docs : d.address = expected
       /\ Combine(docs) = expected
    THEN Combine(docs)
    ELSE None

-----------------------------------------------------------------------------
(* SssCreateModal                                                          *)

OpenCreate ==
    /\ ~createOpen /\ ~listed
    /\ createOpen' = TRUE
    /\ UNCHANGED <<row, listed, made, saved, step, shown, held, confirmed, registering, post,
                   restoreVars>>

Generate ==
    \E w \in Wallets \ made :
        /\ createOpen /\ step = "intro"
        /\ made' = made \cup {w}
        /\ shown' = w
        /\ held' = TRUE
        /\ step' = "backup"
        /\ UNCHANGED <<row, listed, saved, createOpen, confirmed, registering, post, restoreVars>>

\* downloadShardFile or handleCopyShard, for every shard that is shown.
SaveShards ==
    /\ createOpen /\ step = "backup" /\ held
    /\ saved' = saved \cup {shown}
    /\ UNCHANGED <<row, listed, made, createOpen, step, shown, held, confirmed, registering, post,
                   restoreVars>>

\* The buttons between "backup" and "confirm".
Turn ==
    /\ createOpen
    /\ \/ step = "backup" /\ step' = "confirm"
       \/ step = "confirm" /\ ~registering /\ step' = "backup"
    /\ UNCHANGED <<row, listed, made, saved, createOpen, shown, held, confirmed, registering, post,
                   restoreVars>>

\* Nobody ticks the box without having saved the shards.
Confirm ==
    /\ createOpen /\ step = "confirm" /\ ~registering
    /\ shown \in saved
    /\ confirmed' = ~confirmed
    /\ UNCHANGED <<row, listed, made, saved, createOpen, step, shown, held, registering, post,
                   restoreVars>>

Register ==
    /\ createOpen /\ step = "confirm" /\ ~registering
    /\ confirmed /\ shown # None
    /\ post[shown] = "none"
    /\ post' = [post EXCEPT ![shown] = "sent"]
    /\ registering' = TRUE
    /\ step' = "registering"
    /\ UNCHANGED <<row, listed, made, saved, createOpen, shown, held, confirmed, restoreVars>>

\* registerSssWallet: one SSS wallet per user, or 409; the answer may get lost.
ServerRegisters(w) ==
    /\ post[w] = "sent"
    /\ \/ row = None /\ row' = w /\ \E answer \in {"ok", "failed"} :
              post' = [post EXCEPT ![w] = answer]
       \/ post' = [post EXCEPT ![w] = "failed"] /\ UNCHANGED row
    /\ UNCHANGED <<listed, createVars, restoreVars>>

\* Whatever the dialog shows by now, its shards are cleared.
Registered(w) ==
    /\ post[w] = "ok"
    /\ post' = [post EXCEPT ![w] = "refresh"]
    /\ held' = FALSE
    /\ UNCHANGED <<row, listed, made, saved, createOpen, step, shown, confirmed, registering,
                   restoreVars>>

\* The list of wallets is fetched again; or that, or the registration, failed.
RegisterEnds(w) ==
    /\ post[w] \in {"refresh", "failed"}
    /\ \/ post[w] = "refresh" /\ step' = "done" /\ listed' = TRUE
       \/ step' = "confirm" /\ UNCHANGED listed
    /\ post' = [post EXCEPT ![w] = "none"]
    /\ registering' = FALSE
    /\ UNCHANGED <<row, made, saved, createOpen, shown, held, confirmed, restoreVars>>

\* WalletsPage fetches its wallets.
FetchWallets ==
    /\ row # None /\ ~listed
    /\ listed' = TRUE
    /\ UNCHANGED <<row, createVars, post, restoreVars>>

\* Mutant: the tick is not reset.
CloseCreateKeepingTick ==
    /\ createOpen
    /\ createOpen' = FALSE
    /\ step' = "intro" /\ shown' = None /\ held' = FALSE
    /\ registering' = FALSE
    /\ UNCHANGED <<row, listed, made, saved, confirmed, post, restoreVars>>

CloseCreate ==
    /\ createOpen
    /\ createOpen' = FALSE
    /\ step' = "intro" /\ shown' = None /\ held' = FALSE
    /\ confirmed' = FALSE /\ registering' = FALSE
    /\ UNCHANGED <<row, listed, made, saved, post, restoreVars>>

-----------------------------------------------------------------------------
(* SssRestoreModal                                                         *)

\* addShard
MayAdd(d) ==
    /\ \A c \in BagToSet(list) : c.index # d.index
    /\ \A c \in BagToSet(list) :
          (\A b \in BagToSet(list) : c.index <= b.index) => c.address = d.address

Files == UNION {ShardsOf(w) : w \in saved}
UpTo(set) == UNION {[1 .. n -> set] : n \in 1 .. MaxLines}

\* The dialog has its inputs until the key is restored, then only a way out.
Gathering == restoreOpen /\ key = None

OpenRestore ==
    /\ listed /\ ~restoreOpen /\ ~createOpen /\ key = None
    /\ restoreOpen' = TRUE
    /\ UNCHANGED <<row, listed, createVars, post, list, reading, key>>

\* Closing empties the list; files that are being read are not called off.
CloseRestore ==
    /\ restoreOpen
    /\ restoreOpen' = FALSE
    /\ list' = EmptyBag
    /\ UNCHANGED <<row, listed, createVars, post, reading, key>>

\* Every file is compared with the list of the rendering they were selected
\* in, not with one another.  The files from one that may not be added on are as
\* good as not selected.
SelectFiles ==
    /\ Gathering /\ reading = <<>>
    /\ \E files \in UpTo(Files) :
        /\ \A i \in DOMAIN files : MayAdd(files[i])
        /\ reading' = files
    /\ UNCHANGED <<row, listed, createVars, post, restoreOpen, list, key>>

\* A file has been read, and goes to the latest list; or it is no shard.
ReadFile ==
    /\ reading # <<>> /\ BagCardinality(list) < MaxList
    /\ \/ list' = list (+) SetToBag({Head(reading)}) /\ reading' = Tail(reading)
       \/ reading' = <<>> /\ UNCHANGED list
    /\ UNCHANGED <<row, listed, createVars, post, restoreOpen, key>>

PasteAdd ==
    /\ Gathering /\ BagCardinality(list) < MaxList
    /\ \E d \in Files : MayAdd(d) /\ list' = list (+) SetToBag({d})
    /\ UNCHANGED <<row, listed, createVars, post, restoreOpen, reading, key>>

\* A line gets the index next.length + i + 1, where i counts the lines from 0 and
\* next has grown with each line before: the indexes go up in steps of two.
LegacyIndex(i) == BagCardinality(list) + 2 * i - 1

\* Hex lines, numbered by their place and given the registered address.
LegacyHexAdd ==
    \E lines \in UpTo({d.share : d \in Files}) :
        LET new == {[index |-> LegacyIndex(i), address |-> row, share |-> lines[i]] :
                        i \in DOMAIN lines}
        IN  /\ Gathering /\ BagCardinality(list) + Len(lines) <= MaxList
            /\ \A d \in new : d.index <= Total /\ \A c \in BagToSet(list) : c.index # d.index
            /\ list' = list (+) SetToBag(new)
            /\ UNCHANGED <<row, listed, createVars, post, restoreOpen, reading, key>>

RemoveShard ==
    /\ Gathering
    /\ \E i \in {d.index : d \in BagToSet(list)} :
          list' = [d \in {c \in BagToSet(list) : c.index # i} |-> list[d]]
    /\ UNCHANGED <<row, listed, createVars, post, restoreOpen, reading, key>>

ClearShards ==
    /\ Gathering
    /\ list' = EmptyBag
    /\ UNCHANGED <<row, listed, createVars, post, restoreOpen, reading, key>>

Restore ==
    /\ Gathering
    /\ ReconstructPrivateKey(list, row) # None
    /\ key' = ReconstructPrivateKey(list, row)
    /\ list' = EmptyBag
    /\ UNCHANGED <<row, listed, createVars, post, restoreOpen, reading>>

\* handleWithdraw of WalletCard: the key goes when the request it signed was
\* accepted, or if its address is not the wallet's; also with the card, and
\* when the user ends the session.
SignWithdraw ==
    /\ key # None /\ ~restoreOpen
    /\ key' = None
    /\ UNCHANGED <<row, listed, createVars, post, restoreOpen, list, reading>>

-----------------------------------------------------------------------------
Next ==
    \/ OpenCreate \/ Generate \/ SaveShards \/ Turn \/ Confirm \/ Register \/ CloseCreate
    \/ FetchWallets
    \/ \E w \in Wallets : ServerRegisters(w) \/ Registered(w) \/ RegisterEnds(w)
    \/ OpenRestore \/ CloseRestore \/ SelectFiles \/ ReadFile \/ PasteAdd \/ LegacyHexAdd
    \/ RemoveShard \/ ClearShards \/ Restore \/ SignWithdraw

Spec == Init /\ [][Next]_vars

-----------------------------------------------------------------------------
(* Properties                                                              *)

TypeOK ==
    /\ row \in Wallets \cup {None}
    /\ listed \in BOOLEAN
    /\ saved \subseteq made /\ made \subseteq Wallets
    /\ createOpen \in BOOLEAN /\ held \in BOOLEAN
    /\ confirmed \in BOOLEAN /\ registering \in BOOLEAN
    /\ step \in {"intro", "backup", "confirm", "registering", "done"}
    /\ shown \in Wallets \cup {None}
    /\ post \in [Wallets -> {"none", "sent", "ok", "failed", "refresh"}]
    /\ restoreOpen \in BOOLEAN
    /\ BagToSet(list) \subseteq Document
    /\ \A i \in DOMAIN reading : reading[i] \in Document
    /\ key \in Wallets \cup {None, "garbage"}

\* The address the server knows is one whose shards the user has saved, however
\* late an answer comes and however often the dialog was closed over it: the
\* server cannot replace an SSS wallet, nor anyone its lost shards.
RegisteredIsBackedUp == row # None => row \in saved

\* Shards of several wallets, lines of hex that are numbered wrongly or twice
\* the same, files that arrive after the dialog was closed: the key that signs
\* is never another one than the registered wallet's.
KeyIsTheWallets == key # None => key = row
=============================================================================
