------------------------------ MODULE Accounts ------------------------------
(***************************************************************************)
(* Accounts and sessions: registration, the link that verifies an address, *)
(* the minutely job that deletes unverified accounts, login, the session   *)
(* cookie that the tabs of one browser share, and the change of password.  *)
(*                                                                         *)
(* A User row is named by the register call that made it.  A link works    *)
(* for a day, a token for JWT_EXPIRES_IN: an expired link changes nothing, *)
(* and a token may be refused as expired whenever it is looked at.         *)
(***************************************************************************)
EXTENDS Naturals

CONSTANTS
    Rows,        \* register calls
    Emails,
    Passwords,
    Tabs,        \* tabs of the browser
    Nothing

ASSUME AccountsAssumption == Nothing \notin Rows \cup Emails \cup Passwords

VARIABLES
    status,     \* "none" before the row is there, "deleted" after
    email,
    password,   \* what passwordHash is the hash of
    old,        \* rows created over ten minutes ago
    rpc,        \* the await each register call is at
    jar,        \* the row the browser's accessToken names, or Nothing
    at,         \* the step each tab's request is at
    token,      \* the row its access token names
    typed,      \* the current password sent with it
    wanted,     \* the new password sent with it
    overtaken   \* tabs whose change was overtaken by another one

userVars == <<status, email, password, old, rpc>>
tabVars == <<at, token, typed, wanted>>
vars == <<userVars, jar, tabVars, overtaken>>

Init ==
    /\ status = [r \in Rows |-> "none"]
    /\ email = [r \in Rows |-> Nothing]
    /\ password = [r \in Rows |-> Nothing]
    /\ old = {}
    /\ rpc = [r \in Rows |-> "find"]
    /\ jar = Nothing
    /\ at = [t \in Tabs |-> "idle"]
    /\ token = [t \in Tabs |-> Nothing]
    /\ typed = [t \in Tabs |-> Nothing]
    /\ wanted = [t \in Tabs |-> Nothing]
    /\ overtaken = {}

Existing == {r \in Rows : status[r] \in {"PENDING", "ACTIVE"}}
InUse(e) == \E r \in Existing : email[r] = e

-----------------------------------------------------------------------------
(* AuthService: registration, verification, the cron job                   *)

\* 400 if the email is in use, else the password is hashed.
RegisterFinds(r) ==
    /\ rpc[r] = "find"
    /\ \E e \in Emails, p \in Passwords :
        \/ /\ InUse(e)
           /\ rpc' = [rpc EXCEPT ![r] = "refused"]
           /\ UNCHANGED <<email, password>>
        \/ /\ ~InUse(e)
           /\ rpc' = [rpc EXCEPT ![r] = "create"]
           /\ email' = [email EXCEPT ![r] = e]
           /\ password' = [password EXCEPT ![r] = p]
    /\ UNCHANGED <<status, old, jar, tabVars, overtaken>>

\* Mutant: the email has no unique key.
RegisterCreatesAnyway(r) ==
    /\ rpc[r] = "create"
    /\ status' = [status EXCEPT ![r] = "PENDING"]
    /\ rpc' = [rpc EXCEPT ![r] = "created"]
    /\ UNCHANGED <<email, password, old, jar, tabVars, overtaken>>

\* INSERT; a call for the same email that came first makes it fail (500).
RegisterCreates(r) ==
    /\ rpc[r] = "create"
    /\ IF InUse(email[r])
       THEN rpc' = [rpc EXCEPT ![r] = "refused"] /\ UNCHANGED status
       ELSE rpc' = [rpc EXCEPT ![r] = "created"]
            /\ status' = [status EXCEPT ![r] = "PENDING"]
    /\ UNCHANGED <<email, password, old, jar, tabVars, overtaken>>

\* The link names the row, not the email; without the row the update throws.
VerifyEmail(r) ==
    /\ rpc[r] = "created" /\ r \in Existing
    /\ status' = [status EXCEPT ![r] = "ACTIVE"]
    /\ UNCHANGED <<email, password, old, rpc, jar, tabVars, overtaken>>

TenMinutesPass(r) ==
    /\ status[r] = "PENDING"
    /\ old' = old \cup {r}
    /\ UNCHANGED <<status, email, password, rpc, jar, tabVars, overtaken>>

\* Mutant: the status is left out of the condition.
CleanupExpiredUsers ==
    /\ status' = [r \in Rows |-> IF r \in Existing /\ r \in old THEN "deleted" ELSE status[r]]
    /\ UNCHANGED <<email, password, old, rpc, jar, tabVars, overtaken>>

\* Mutant: gt for lt.
CleanupRecentPendingUsers ==
    /\ status' = [r \in Rows |->
           IF status[r] = "PENDING" /\ r \notin old THEN "deleted" ELSE status[r]]
    /\ UNCHANGED <<email, password, old, rpc, jar, tabVars, overtaken>>

CleanupExpiredPendingUsers ==
    /\ status' = [r \in Rows |->
           IF status[r] = "PENDING" /\ r \in old THEN "deleted" ELSE status[r]]
    /\ UNCHANGED <<email, password, old, rpc, jar, tabVars, overtaken>>

-----------------------------------------------------------------------------
(* Login and logout                                                        *)

Goto(t, from, to) == at[t] = from /\ at' = [at EXCEPT ![t] = to]
\* The request is over and the tab at the given step.
Over(t, to) ==
    /\ at' = [at EXCEPT ![t] = to]
    /\ token' = [token EXCEPT ![t] = Nothing]
    /\ typed' = [typed EXCEPT ![t] = Nothing]
    /\ wanted' = [wanted EXCEPT ![t] = Nothing]
    /\ overtaken' = overtaken \ {t}

\* The row is read once and its status and password judged; a 401 from this
\* endpoint leaves the tab as it is.
Login(t) ==
    \E e \in Emails, p \in Passwords, r \in Existing :
        /\ email[r] = e /\ status[r] = "ACTIVE" /\ password[r] = p
        /\ Goto(t, "idle", "granted")
        /\ token' = [token EXCEPT ![t] = r]
        /\ UNCHANGED <<userVars, jar, typed, wanted, overtaken>>

\* The answer arrives with its Set-Cookie.
LoggedIn(t) ==
    /\ at[t] = "granted"
    /\ jar' = token[t]
    /\ Over(t, "idle")
    /\ UNCHANGED userVars

\* The server clears the cookie; the page goes to /login even if that failed.
Logout(t) ==
    /\ at[t] = "idle"
    /\ jar' = Nothing
    /\ UNCHANGED <<userVars, tabVars, overtaken>>

\* maxAge of the cookie.
CookieExpires ==
    /\ jar' = Nothing
    /\ UNCHANGED <<userVars, tabVars, overtaken>>

-----------------------------------------------------------------------------
(* Requests of a session                                                   *)

\* getMe of ProtectedRoute, or any other call; it carries the cookie there is.
GetMe(t) ==
    /\ Goto(t, "idle", "me")
    /\ token' = [token EXCEPT ![t] = jar]
    /\ UNCHANGED <<userVars, jar, typed, wanted, overtaken>>

\* The form of SettingsPage, which refuses a new password that is the old one.
ChangePassword(t) ==
    \E p, q \in Passwords :
        /\ p # q
        /\ Goto(t, "idle", "password")
        /\ token' = [token EXCEPT ![t] = jar]
        /\ typed' = [typed EXCEPT ![t] = p]
        /\ wanted' = [wanted EXCEPT ![t] = q]
        /\ UNCHANGED <<userVars, jar, overtaken>>

\* JwtStrategy.validate: the user is looked up and has to be ACTIVE.
Validate(t) ==
    /\ at[t] \in {"me", "password"}
    /\ \/ token[t] # Nothing /\ status[token[t]] = "ACTIVE"
          /\ IF at[t] = "me"
             THEN Over(t, "idle")
             ELSE Goto(t, "password", "compare") /\ UNCHANGED <<token, typed, wanted, overtaken>>
       \/ Over(t, "denied")
    /\ UNCHANGED <<userVars, jar>>

\* Mutant: the current password is not asked for.
CompareNothing(t) ==
    /\ Goto(t, "compare", "update")
    /\ UNCHANGED <<userVars, jar, token, typed, wanted, overtaken>>

\* A wrong current password is answered with 401, like a session that is over.
Compare(t) ==
    /\ at[t] = "compare"
    /\ IF typed[t] = password[token[t]]
       THEN Goto(t, "compare", "update") /\ UNCHANGED <<token, typed, wanted, overtaken>>
       ELSE Over(t, "denied")
    /\ UNCHANGED <<userVars, jar>>

\* The row is updated by its id, whatever its password is by now.
UpdatePassword(t) ==
    LET r == token[t] IN
    /\ at[t] = "update"
    /\ password' = [password EXCEPT ![r] = wanted[t]]
    /\ at' = [at EXCEPT ![t] = "idle"]
    /\ token' = [token EXCEPT ![t] = Nothing]
    /\ typed' = [typed EXCEPT ![t] = Nothing]
    /\ wanted' = [wanted EXCEPT ![t] = Nothing]
    /\ overtaken' = {u \in Tabs \ {t} : u \in overtaken \/ (at[u] = "update" /\ token[u] = r)}
    /\ UNCHANGED <<status, email, old, rpc, jar>>

\* A new password that is too short, a network failure, a crash.
RequestFails(t) ==
    /\ at[t] \notin {"idle", "denied"}
    /\ Over(t, "idle")
    /\ UNCHANGED <<userVars, jar>>

\* The interceptor on a 401: POST /auth/logout, whose failure is ignored, then
\* the page is reloaded at /login.  The cookie that is cleared is the one the
\* browser holds by now.
Expelled(t) ==
    /\ at[t] = "denied"
    /\ jar' = Nothing \/ UNCHANGED jar
    /\ Over(t, "idle")
    /\ UNCHANGED userVars

-----------------------------------------------------------------------------
Next ==
    \/ \E r \in Rows :
          \/ RegisterFinds(r) \/ RegisterCreates(r) \/ VerifyEmail(r) \/ TenMinutesPass(r)
    \/ CleanupExpiredPendingUsers
    \/ CookieExpires
    \/ \E t \in Tabs :
          \/ Login(t) \/ LoggedIn(t) \/ Logout(t)
          \/ GetMe(t) \/ ChangePassword(t) \/ Validate(t) \/ Compare(t)
          \/ UpdatePassword(t) \/ RequestFails(t) \/ Expelled(t)

\* The cron job runs every minute and time passes; nobody has to do anything.
Fairness ==
    /\ WF_vars(CleanupExpiredPendingUsers)
    /\ \A r \in Rows : WF_vars(TenMinutesPass(r))

Spec == Init /\ [][Next]_vars
FairSpec == Spec /\ Fairness

-----------------------------------------------------------------------------
(* Properties                                                              *)

TypeOK ==
    /\ status \in [Rows -> {"none", "PENDING", "ACTIVE", "deleted"}]
    /\ email \in [Rows -> Emails \cup {Nothing}]
    /\ password \in [Rows -> Passwords \cup {Nothing}]
    /\ old \subseteq Rows
    /\ rpc \in [Rows -> {"find", "create", "created", "refused"}]
    /\ jar \in Rows \cup {Nothing}
    /\ at \in [Tabs -> {"idle", "granted", "me", "password", "compare", "update", "denied"}]
    /\ token \in [Tabs -> Rows \cup {Nothing}]
    /\ typed \in [Tabs -> Passwords \cup {Nothing}]
    /\ wanted \in [Tabs -> Passwords \cup {Nothing}]
    /\ overtaken \subseteq Tabs

\* Every session, in the jar or under way, is of an account that is verified
\* and still there, and an email belongs to one account: no job, no second
\* registration and no late link takes a session's account from under it.
SessionUserIsActive ==
    /\ \A r \in {jar} \cup {token[t] : t \in Tabs} : r # Nothing => status[r] = "ACTIVE"
    /\ \A r, s \in Existing : email[r] = email[s] => r = s

\* A password is replaced only by someone who proved to know it, but for the
\* change that another one of the same account overtook: it was proved against
\* the password before that, and both are answered ok.
ChangeReplacesProven ==
    [][\A r \in Existing : password'[r] # password[r] =>
           \E t \in Tabs :
               /\ at[t] = "update" /\ token[t] = r
               /\ typed[t] = password[r] \/ t \in overtaken]_vars

\* An address registered by mistake becomes free again without anyone's doing.
PendingEnds == \A r \in Rows : status[r] = "PENDING" ~> status[r] # "PENDING"
=============================================================================
