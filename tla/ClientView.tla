----------------------------- MODULE ClientView -----------------------------
(***************************************************************************)
(* What a browser shows of withdrawals: WithdrawGateway and the socket of  *)
(* the page, the notifications of AppShell, and WalletCard, which asks the *)
(* API for the history on its own every 20 seconds and at every notice.    *)
(*                                                                         *)
(* Each user has one wallet with one request, whose status the rest of the *)
(* system moves on.  One tab is followed; a login or a logout in it does   *)
(* not reload the page, so its socket lives on.                            *)
(***************************************************************************)
EXTENDS Naturals, Sequences, SequencesExt

CONSTANTS
    Users,
    Visitors,    \* the users of this browser
    Moves,       \* pairs of a status and one that may follow it
    MaxItems,    \* MAX_ITEMS of the stored notifications
    MaxMounts,   \* bound on logins and reloads
    Nobody

ASSUME ClientAssumption ==
    /\ Visitors \subseteq Users /\ Nobody \notin Users
    /\ MaxItems \in Nat /\ MaxMounts \in Nat

VARIABLES
    status,      \* of each user's request
    unsent,      \* notices of changes that are committed and not emitted
    cookie,      \* the user the accessToken of the browser names
    page,        \* the user AppShell and WalletCard are mounted for
    link,        \* the socket: "down", "handshake", "joined", or "closed" for good
    room,        \* the user its handshake named, and whose room it joined
    wire,        \* notices under way to it, in order
    stored,      \* notifications in localStorage, newest first
    shown,       \* the status the card shows
    answers,     \* answers of the API that are under way to the card
    auto,        \* autoRefreshEnabled of the card
    mounts       \* logins and reloads so far

serverVars == <<status, unsent>>
socketVars == <<link, room, wire>>
cardVars == <<shown, answers, auto>>
vars == <<serverVars, cookie, page, socketVars, stored, cardVars, mounts>>

Statuses == {"PENDING"} \cup {m[1] : m \in Moves} \cup {m[2] : m \in Moves}
Notice == [user : Users, status : Statuses]

Init ==
    /\ status = [u \in Users |-> "PENDING"]
    /\ unsent = {}
    /\ cookie = Nobody /\ page = Nobody
    /\ link = "handshake" /\ room = Nobody /\ wire = <<>>
    /\ stored = <<>>
    /\ shown = "nothing" /\ answers = {} /\ auto = TRUE
    /\ mounts = 0

-----------------------------------------------------------------------------
(* The server                                                              *)

\* Any of the processes commits a change of status; it emits afterwards.
StatusMoves(u) ==
    \E m \in Moves :
        /\ m[1] = status[u]
        /\ status' = [status EXCEPT ![u] = m[2]]
        /\ unsent' = unsent \cup {[user |-> u, status |-> m[2]]}
        /\ UNCHANGED <<cookie, page, socketVars, stored, cardVars, mounts>>

\* emitWithdrawUpdated, in whatever order the processes get to it; nothing is
\* kept for a socket that is not in the room.
EmitWithdrawUpdated(n) ==
    /\ n \in unsent
    /\ unsent' = unsent \ {n}
    /\ wire' = IF link = "joined" /\ room = n.user THEN Append(wire, n) ELSE wire
    /\ UNCHANGED <<status, cookie, page, link, room, stored, cardVars, mounts>>

\* The process dies between the commit and the notice.
EmitLost(n) ==
    /\ n \in unsent
    /\ unsent' = unsent \ {n}
    /\ UNCHANGED <<status, cookie, page, socketVars, stored, cardVars, mounts>>

\* handleConnection: the cookie of the handshake decides.  Whoever has none is
\* disconnected, and so is anyone whose token has expired, whose user is not
\* ACTIVE or cannot be looked up; then socket.io does not try again.
HandleConnection ==
    /\ link = "handshake"
    /\ link' \in (IF room = Nobody THEN {"closed"} ELSE {"joined", "closed"})
    /\ UNCHANGED <<serverVars, cookie, page, room, wire, stored, cardVars, mounts>>

\* Mutant: what was under way is kept for the next connection.
ConnectionDropsBuffered ==
    /\ link \in {"handshake", "joined"}
    /\ link' = "down" /\ room' = Nobody
    /\ UNCHANGED <<serverVars, cookie, page, wire, stored, cardVars, mounts>>

\* The connection is lost, with what was under way, or gets made again with
\* the cookie of that moment.
ConnectionDrops ==
    /\ link \in {"handshake", "joined"}
    /\ link' = "down" /\ room' = Nobody /\ wire' = <<>>
    /\ UNCHANGED <<serverVars, cookie, page, stored, cardVars, mounts>>

Reconnect ==
    /\ link = "down"
    /\ link' = "handshake" /\ room' = cookie
    /\ UNCHANGED <<serverVars, cookie, page, wire, stored, cardVars, mounts>>

-----------------------------------------------------------------------------
(* Pages.  A mounted card asks for the history at once.                    *)

Mount(u) ==
    /\ page' = u
    /\ shown' = "nothing"
    /\ answers' = IF u = Nobody THEN {} ELSE {status[u]}
    /\ auto' = TRUE
    /\ UNCHANGED <<serverVars, stored>>

Login(u) ==
    /\ page = Nobody
    /\ mounts < MaxMounts /\ mounts' = mounts + 1
    /\ cookie' = u
    /\ Mount(u)
    /\ UNCHANGED socketVars

\* handleLogout: the page goes even if the server does not clear the cookie, and
\* what localStorage holds stays.
Logout ==
    /\ page # Nobody
    /\ cookie' \in {Nobody, cookie}
    /\ Mount(Nobody)
    /\ UNCHANGED <<socketVars, mounts>>

Reload ==
    /\ mounts < MaxMounts /\ mounts' = mounts + 1
    /\ link' = "handshake" /\ room' = cookie /\ wire' = <<>>
    /\ Mount(cookie)
    /\ UNCHANGED cookie

-----------------------------------------------------------------------------
(* withdraw.updated in the page                                            *)

\* addStoredNotification
Push(n) == SubSeq(<<n>> \o stored, 1, IF Len(stored) < MaxItems THEN Len(stored) + 1 ELSE MaxItems)

\* AppShell adds a notification unless that is turned off for it; the card of
\* its wallet fetches the history.  Nobody listens on the login page.
HandleWithdrawUpdated ==
    /\ wire # <<>>
    /\ wire' = Tail(wire)
    /\ IF page = Nobody
       THEN UNCHANGED <<stored, answers>>
       ELSE /\ stored' \in {Push(Head(wire)), stored}
            /\ answers' = IF Head(wire).user = page
                          THEN answers \cup {status[page]} ELSE answers
    /\ UNCHANGED <<serverVars, cookie, page, link, room, shown, auto, mounts>>

ClearNotifications ==
    /\ page # Nobody
    /\ stored' = <<>>
    /\ UNCHANGED <<serverVars, cookie, page, socketVars, cardVars, mounts>>

-----------------------------------------------------------------------------
(* WalletCard                                                              *)

\* Mutant: the interval ends with the first answer.
RefreshOnce ==
    /\ page # Nobody /\ auto /\ shown = "nothing"
    /\ answers' = answers \cup {status[page]}
    /\ UNCHANGED <<serverVars, cookie, page, socketVars, stored, shown, auto, mounts>>

\* The interval of 20 seconds: handleLoadWithdraws.
AutoRefresh ==
    /\ page # Nobody /\ auto
    /\ answers' = answers \cup {status[page]}
    /\ UNCHANGED <<serverVars, cookie, page, socketVars, stored, shown, auto, mounts>>

\* An answer is shown when it arrives, the answers of later calls or not.
Answered(s) ==
    /\ s \in answers
    /\ answers' = answers \ {s}
    /\ shown' = s
    /\ UNCHANGED <<serverVars, cookie, page, socketVars, stored, auto, mounts>>

AnswerLost(s) ==
    /\ s \in answers
    /\ answers' = answers \ {s}
    /\ UNCHANGED <<serverVars, cookie, page, socketVars, stored, shown, auto, mounts>>

\* The preference arrives after the card was mounted with the default.
PreferencesArrive ==
    /\ page # Nobody /\ auto
    /\ auto' = FALSE
    /\ UNCHANGED <<serverVars, cookie, page, socketVars, stored, shown, answers, mounts>>

-----------------------------------------------------------------------------
Next ==
    \/ \E u \in Users : StatusMoves(u)
    \/ \E n \in unsent : EmitWithdrawUpdated(n) \/ EmitLost(n)
    \/ HandleConnection \/ ConnectionDrops \/ Reconnect
    \/ \E u \in Visitors : Login(u)
    \/ Logout \/ Reload
    \/ HandleWithdrawUpdated \/ ClearNotifications
    \/ AutoRefresh \/ PreferencesArrive
    \/ \E s \in answers : Answered(s) \/ AnswerLost(s)

\* The interval keeps firing, and not every answer is lost.  Neither the socket
\* nor the server's notices are relied upon.
Fairness ==
    /\ WF_vars(AutoRefresh)
    /\ \A s \in Statuses : SF_vars(Answered(s))

Spec == Init /\ [][Next]_vars
FairSpec == Spec /\ Fairness

-----------------------------------------------------------------------------
(* Properties                                                              *)

TypeOK ==
    /\ status \in [Users -> Statuses]
    /\ unsent \subseteq Notice
    /\ cookie \in Visitors \cup {Nobody} /\ page \in Visitors \cup {Nobody}
    /\ link \in {"down", "handshake", "joined", "closed"}
    /\ room \in Visitors \cup {Nobody}
    /\ wire \in Seq(Notice)
    /\ stored \in Seq(Notice) /\ Len(stored) <= MaxItems
    /\ shown \in Statuses \cup {"nothing"} /\ answers \subseteq Statuses
    /\ auto \in BOOLEAN
    /\ mounts \in 0 .. MaxMounts

\* A notification that enters localStorage is of the user whose room the socket
\* is in at that moment: no other room's notices are emitted to it, and one that
\* was under way when the connection broke does not turn up in the session of
\* the user whose cookie the next handshake bears.
StoredIsRooms ==
    [][\A n \in Range(stored') \ Range(stored) : link = "joined" /\ n.user = room]_vars

\* A card with auto refresh ends up with the status the row has and keeps it,
\* though notices are lost, come in the wrong order or not at all, and though
\* an older answer may arrive after a newer one.
CardCatchesUp ==
    \A u \in Visitors :
        <>[](page = u /\ auto) => <>[](shown = status[u])
=============================================================================
