--------------------------- MODULE AccountsProofs ---------------------------
(***************************************************************************)
(* Accounts and sessions, for any number of registrations, tabs, addresses *)
(* and passwords.                                                          *)
(***************************************************************************)
EXTENDS Accounts, TLAPS

-----------------------------------------------------------------------------
(* The inductive invariant                                                 *)

\* A row is there once its register call has created it.
RowsAreCreated == \A r \in Rows : status[r] # "none" <=> rpc[r] = "created"

\* A request past the guard has a user.
GuardPassed == \A t \in Tabs : at[t] \in {"granted", "compare", "update"} => token[t] # Nothing

\* A change about to be written was proved, unless another one came between.
ChangeIsProven ==
    \A t \in Tabs :
        at[t] = "update" => typed[t] = password[token[t]] \/ t \in overtaken

AccountInv ==
    TypeOK /\ RowsAreCreated /\ SessionUserIsActive /\ GuardPassed /\ ChangeIsProven

-----------------------------------------------------------------------------
(* Steps of the users' table                                               *)

LEMMA RegistrationStep ==
    ASSUME AccountInv, NEW r \in Rows, RegisterFinds(r)
    PROVE  AccountInv'
<1> USE AccountsAssumption DEF AccountInv
<1>1. UNCHANGED <<status, old, jar, tabVars, overtaken>> /\ rpc[r] = "find" /\ status[r] = "none"
  BY DEF RegisterFinds, TypeOK, RowsAreCreated
<1>2. /\ rpc' \in [Rows -> {"find", "create", "created", "refused"}] /\ rpc'[r] # "created"
      /\ email' \in [Rows -> Emails \cup {Nothing}]
      /\ password' \in [Rows -> Passwords \cup {Nothing}]
      /\ \A s \in Rows \ {r} : rpc'[s] = rpc[s] /\ email'[s] = email[s] /\ password'[s] = password[s]
  BY DEF RegisterFinds, TypeOK
<1>3. \A t \in Tabs : token[t] # r
  BY <1>1 DEF SessionUserIsActive, TypeOK
<1>4. TypeOK'
  BY <1>1, <1>2 DEF TypeOK, tabVars
<1>5. RowsAreCreated'
  BY <1>1, <1>2 DEF RowsAreCreated
<1>6. SessionUserIsActive'
  BY <1>1, <1>2 DEF SessionUserIsActive, Existing, tabVars
<1>7. GuardPassed' /\ ChangeIsProven'
  BY <1>1, <1>2, <1>3 DEF GuardPassed, ChangeIsProven, tabVars, TypeOK
<1> QED
  BY <1>4, <1>5, <1>6, <1>7

\* Whatever a step does to the status of rows, sessions keep theirs.
LEMMA StatusStep ==
    ASSUME AccountInv, UNCHANGED <<email, password, jar, tabVars, overtaken>>,
           status' \in [Rows -> {"none", "PENDING", "ACTIVE", "deleted"}],
           rpc' \in [Rows -> {"find", "create", "created", "refused"}],
           old' \subseteq Rows,
           \A r \in Rows : status'[r] # "none" <=> rpc'[r] = "created",
           \A r \in Rows : status[r] = "ACTIVE" => status'[r] = "ACTIVE",
           \A r \in Rows : r \in Existing' \ Existing => ~InUse(email[r]) /\ Existing' = Existing \cup {r}
    PROVE  AccountInv'
<1> USE AccountsAssumption DEF AccountInv
<1>1. TypeOK' /\ RowsAreCreated'
  BY DEF TypeOK, RowsAreCreated, tabVars
<1>2. \A r \in {jar} \cup {token[t] : t \in Tabs} : r # Nothing => status'[r] = "ACTIVE"
  BY DEF SessionUserIsActive, TypeOK
<1>3. \A r, s \in Existing' : email[r] = email[s] => r = s
  BY DEF SessionUserIsActive, InUse, Existing
<1>4. SessionUserIsActive'
  BY <1>2, <1>3 DEF SessionUserIsActive, tabVars, Existing
<1>5. GuardPassed' /\ ChangeIsProven'
  BY DEF GuardPassed, ChangeIsProven, tabVars
<1> QED
  BY <1>1, <1>4, <1>5

LEMMA UsersStep ==
    ASSUME AccountInv,
           \/ \E r \in Rows : RegisterCreates(r) \/ VerifyEmail(r) \/ TenMinutesPass(r)
           \/ CleanupExpiredPendingUsers
    PROVE  AccountInv'
<1> USE DEF AccountInv
<1>1. ASSUME NEW r \in Rows, RegisterCreates(r) PROVE AccountInv'
  <2>1. UNCHANGED <<email, password, old, jar, tabVars, overtaken>> /\ rpc[r] = "create"
        /\ status[r] = "none"
    BY <1>1 DEF RegisterCreates, RowsAreCreated
  <2>2. CASE InUse(email[r])
    BY <1>1, <2>1, <2>2, StatusStep DEF RegisterCreates, TypeOK, RowsAreCreated, Existing
  <2>3. CASE ~InUse(email[r])
    <3>1. /\ status' = [status EXCEPT ![r] = "PENDING"] /\ rpc' = [rpc EXCEPT ![r] = "created"]
      BY <1>1, <2>3 DEF RegisterCreates
    <3>2. Existing' = Existing \cup {r}
      BY <3>1 DEF Existing, TypeOK
    <3>3. \A s \in Rows : status'[s] # "none" <=> rpc'[s] = "created"
      BY <3>1 DEF TypeOK, RowsAreCreated
    <3>4. \A s \in Rows : status[s] = "ACTIVE" => status'[s] = "ACTIVE"
      BY <2>1, <3>1 DEF TypeOK
    <3>5. /\ status' \in [Rows -> {"none", "PENDING", "ACTIVE", "deleted"}]
          /\ rpc' \in [Rows -> {"find", "create", "created", "refused"}]
          /\ old' \subseteq Rows
      BY <2>1, <3>1 DEF TypeOK
    <3> QED
      BY <2>1, <2>3, <3>2, <3>3, <3>4, <3>5, StatusStep
  <2> QED
    BY <2>2, <2>3
<1>2. ASSUME NEW r \in Rows, VerifyEmail(r) PROVE AccountInv'
  BY <1>2, StatusStep DEF VerifyEmail, TypeOK, RowsAreCreated, Existing
<1>3. ASSUME NEW r \in Rows, TenMinutesPass(r) PROVE AccountInv'
  BY <1>3, StatusStep DEF TenMinutesPass, TypeOK, RowsAreCreated, Existing
<1>4. CASE CleanupExpiredPendingUsers
  <2>1. status' = [r \in Rows |-> IF status[r] = "PENDING" /\ r \in old THEN "deleted" ELSE status[r]]
        /\ UNCHANGED <<email, password, old, rpc, jar, tabVars, overtaken>>
    BY <1>4 DEF CleanupExpiredPendingUsers
  <2>2. Existing' \subseteq Existing
    BY <2>1 DEF Existing, TypeOK
  <2> QED
    BY <2>1, <2>2, StatusStep DEF TypeOK, RowsAreCreated
<1> QED
  BY <1>1, <1>2, <1>3, <1>4

-----------------------------------------------------------------------------
(* Steps of the browser                                                    *)

\* A step of the browser other than a change of password keeps the invariant if
\* it sends what it may send.
LEMMA BrowserStep ==
    ASSUME AccountInv, UNCHANGED userVars, TypeOK', jar' \in {jar, Nothing} \cup {token[t] : t \in Tabs},
           \A t \in Tabs : token'[t] \in {token[t], jar, Nothing} \/ status[token'[t]] = "ACTIVE",
           \A t \in Tabs : at'[t] \in {"granted", "compare", "update"} => token'[t] # Nothing,
           \A t \in Tabs : at'[t] = "update" =>
                               typed'[t] = password[token'[t]] \/ t \in overtaken'
    PROVE  AccountInv'
<1> USE DEF AccountInv
<1>1. RowsAreCreated'
  BY DEF RowsAreCreated, userVars
<1>2. SessionUserIsActive'
  BY DEF SessionUserIsActive, userVars, Existing
<1>3. GuardPassed' /\ ChangeIsProven'
  BY DEF GuardPassed, ChangeIsProven, userVars
<1> QED
  BY <1>1, <1>2, <1>3

\* A request that ends leaves no trace in its tab.
LEMMA OverStep ==
    ASSUME AccountInv, NEW t \in Tabs, NEW to \in {"idle", "denied"}, Over(t, to),
           UNCHANGED userVars, jar' \in {jar, Nothing, token[t]}
    PROVE  AccountInv'
<1> USE DEF AccountInv
<1>1. /\ at' \in [Tabs -> {"idle", "granted", "me", "password", "compare", "update", "denied"}]
      /\ token' \in [Tabs -> Rows \cup {Nothing}]
      /\ typed' \in [Tabs -> Passwords \cup {Nothing}]
      /\ wanted' \in [Tabs -> Passwords \cup {Nothing}]
      /\ overtaken' \subseteq Tabs
  BY DEF Over, TypeOK
<1>2. /\ at'[t] = to /\ token'[t] = Nothing
      /\ \A u \in Tabs \ {t} : /\ at'[u] = at[u] /\ token'[u] = token[u] /\ typed'[u] = typed[u]
                               /\ u \in overtaken' <=> u \in overtaken
  BY DEF Over, TypeOK
<1>3. TypeOK'
  BY <1>1 DEF TypeOK, userVars
<1> QED
  BY <1>2, <1>3, BrowserStep DEF GuardPassed, ChangeIsProven

LEMMA TabStep ==
    ASSUME AccountInv, NEW t \in Tabs,
           \/ Login(t) \/ LoggedIn(t) \/ Logout(t)
           \/ GetMe(t) \/ ChangePassword(t) \/ Validate(t) \/ Compare(t)
           \/ RequestFails(t) \/ Expelled(t)
    PROVE  AccountInv'
<1> USE AccountsAssumption DEF AccountInv
<1>1. CASE Login(t)
  <2>1. PICK r \in Existing : /\ status[r] = "ACTIVE"
                              /\ at' = [at EXCEPT ![t] = "granted"]
                              /\ token' = [token EXCEPT ![t] = r]
                              /\ UNCHANGED <<userVars, jar, typed, wanted, overtaken>>
    BY <1>1 DEF Login, Goto
  <2>2. TypeOK'
    BY <2>1 DEF TypeOK, userVars, Existing
  <2> QED
    BY <2>1, <2>2, BrowserStep DEF GuardPassed, ChangeIsProven, TypeOK, Existing
<1>2. CASE LoggedIn(t)
  BY <1>2, OverStep DEF LoggedIn
<1>3. CASE Logout(t)
  <2>1. TypeOK'
    BY <1>3 DEF Logout, TypeOK, userVars, tabVars
  <2> QED
    BY <1>3, <2>1, BrowserStep DEF Logout, GuardPassed, ChangeIsProven, userVars, tabVars
<1>4. CASE GetMe(t)
  <2>1. /\ at' = [at EXCEPT ![t] = "me"] /\ token' = [token EXCEPT ![t] = jar]
        /\ UNCHANGED <<userVars, jar, typed, wanted, overtaken>>
    BY <1>4 DEF GetMe, Goto
  <2>2. TypeOK'
    BY <2>1 DEF TypeOK, userVars
  <2> QED
    BY <2>1, <2>2, BrowserStep DEF GuardPassed, ChangeIsProven, TypeOK
<1>5. CASE ChangePassword(t)
  <2>1. PICK p \in Passwords, q \in Passwords :
            /\ at' = [at EXCEPT ![t] = "password"] /\ token' = [token EXCEPT ![t] = jar]
            /\ typed' = [typed EXCEPT ![t] = p] /\ wanted' = [wanted EXCEPT ![t] = q]
            /\ UNCHANGED <<userVars, jar, overtaken>>
    BY <1>5 DEF ChangePassword, Goto
  <2>2. TypeOK'
    BY <2>1 DEF TypeOK, userVars
  <2> QED
    BY <2>1, <2>2, BrowserStep DEF GuardPassed, ChangeIsProven, TypeOK
<1>6. CASE Validate(t)
  <2>1. CASE \E to \in {"idle", "denied"} : Over(t, to)
    BY <1>6, <2>1, OverStep DEF Validate
  <2>2. CASE /\ token[t] # Nothing /\ at' = [at EXCEPT ![t] = "compare"]
             /\ UNCHANGED <<token, typed, wanted, overtaken>>
    <3>1. UNCHANGED <<userVars, jar>>
      BY <1>6 DEF Validate
    <3>2. TypeOK'
      BY <2>2, <3>1 DEF TypeOK, userVars
    <3> QED
      BY <2>2, <3>1, <3>2, BrowserStep DEF GuardPassed, ChangeIsProven, TypeOK, userVars
  <2> QED
    BY <1>6, <2>1, <2>2 DEF Validate, Goto
<1>7. CASE Compare(t)
  <2>1. CASE Over(t, "denied")
    BY <1>7, <2>1, OverStep DEF Compare
  <2>2. CASE /\ typed[t] = password[token[t]]
             /\ at[t] = "compare" /\ at' = [at EXCEPT ![t] = "update"]
             /\ UNCHANGED <<token, typed, wanted, overtaken>>
    <3>1. UNCHANGED <<userVars, jar>>
      BY <1>7 DEF Compare
    <3>2. TypeOK'
      BY <2>2, <3>1 DEF TypeOK, userVars
    <3> QED
      BY <2>2, <3>1, <3>2, BrowserStep DEF GuardPassed, ChangeIsProven, TypeOK, userVars
  <2> QED
    BY <1>7, <2>1, <2>2 DEF Compare, Goto
<1>8. CASE RequestFails(t)
  BY <1>8, OverStep DEF RequestFails
<1>9. CASE Expelled(t)
  BY <1>9, OverStep DEF Expelled
<1> QED
  BY <1>1, <1>2, <1>3, <1>4, <1>5, <1>6, <1>7, <1>8, <1>9

\* What a change writes: all others of the account that are proved are overtaken.
LEMMA ChangeStep ==
    ASSUME AccountInv, NEW t \in Tabs, UpdatePassword(t)
    PROVE  AccountInv'
<1> USE AccountsAssumption DEF AccountInv
<1> DEFINE r == token[t]
<1>1. r \in Rows
  BY DEF UpdatePassword, GuardPassed, TypeOK
<1>2. /\ password' = [password EXCEPT ![r] = wanted[t]]
      /\ at' = [at EXCEPT ![t] = "idle"]
      /\ token' = [token EXCEPT ![t] = Nothing]
      /\ typed' = [typed EXCEPT ![t] = Nothing]
      /\ wanted' = [wanted EXCEPT ![t] = Nothing]
      /\ overtaken' = {u \in Tabs \ {t} : u \in overtaken \/ (at[u] = "update" /\ token[u] = r)}
      /\ UNCHANGED <<status, email, old, rpc, jar>>
  BY DEF UpdatePassword
<1>3. TypeOK'
  BY <1>1, <1>2 DEF TypeOK
<1>4. RowsAreCreated'
  BY <1>2 DEF RowsAreCreated
<1>5. SessionUserIsActive'
  BY <1>2 DEF SessionUserIsActive, TypeOK, Existing
<1>6. \A u \in Tabs \ {t} : at'[u] = at[u] /\ token'[u] = token[u] /\ typed'[u] = typed[u]
  BY <1>2 DEF TypeOK
<1>7. at'[t] = "idle"
  BY <1>2 DEF TypeOK
<1>8. GuardPassed'
  BY <1>6, <1>7 DEF GuardPassed
<1>9. ChangeIsProven'
  <2> SUFFICES ASSUME NEW u \in Tabs, at'[u] = "update"
               PROVE  typed'[u] = password'[token'[u]] \/ u \in overtaken'
    BY DEF ChangeIsProven
  <2>1. u # t /\ at[u] = "update"
    BY <1>6, <1>7
  <2>2. CASE token[u] = r
    BY <1>2, <2>1, <2>2
  <2>3. CASE token[u] # r
    <3>1. password'[token[u]] = password[token[u]]
      BY <1>2, <2>1, <2>3 DEF GuardPassed, TypeOK
    <3>2. u \in overtaken => u \in overtaken'
      BY <1>2, <2>1
    <3> QED
      BY <1>6, <2>1, <3>1, <3>2 DEF ChangeIsProven
  <2> QED
    BY <2>2, <2>3
<1> QED
  BY <1>3, <1>4, <1>5, <1>8, <1>9

-----------------------------------------------------------------------------
(* The specification                                                       *)

LEMMA AccountInit == Init => AccountInv
  BY AccountsAssumption
     DEF Init, AccountInv, TypeOK, RowsAreCreated, SessionUserIsActive, GuardPassed,
         ChangeIsProven, Existing

LEMMA AccountStep ==
    ASSUME AccountInv, [Next]_vars
    PROVE  AccountInv'
<1>1. CASE CookieExpires
  <2>1. TypeOK'
    BY <1>1 DEF CookieExpires, AccountInv, TypeOK, userVars, tabVars
  <2> QED
    BY <1>1, <2>1, BrowserStep
       DEF CookieExpires, AccountInv, GuardPassed, ChangeIsProven, userVars, tabVars
<1>2. CASE UNCHANGED vars
  BY <1>2 DEF vars, userVars, tabVars, AccountInv, TypeOK, RowsAreCreated, SessionUserIsActive,
              GuardPassed, ChangeIsProven, Existing
<1> QED
  BY <1>1, <1>2, RegistrationStep, UsersStep, TabStep, ChangeStep DEF Next

\* The invariant of accounts: what a request past the guard knows of its user.
THEOREM AccountInvariance == Spec => []AccountInv
<1>1. AccountInv /\ [Next]_vars => AccountInv'
  BY AccountStep
<1> QED
  BY <1>1, AccountInit, PTL DEF Spec

\* Type correctness of accounts and sessions.
THEOREM AccountsTypeCorrect == Spec => []TypeOK
<1>1. AccountInv => TypeOK
  BY DEF AccountInv
<1> QED
  BY <1>1, AccountInvariance, PTL

\* No cron job, second registration or late link takes a session's account away,
\* and an email has one account, though register looks for it before it inserts.
THEOREM SessionsAreOfActiveUsers == Spec => []SessionUserIsActive
<1>1. AccountInv => SessionUserIsActive
  BY DEF AccountInv
<1> QED
  BY <1>1, AccountInvariance, PTL

\* changePassword replaces a password that was proved, or one that another
\* change of the account has put in its place since the proof.
THEOREM ChangesAreProven == Spec => ChangeReplacesProven
<1>1. AccountInv /\ [Next]_vars =>
          [\A r \in Existing : password'[r] # password[r] =>
               \E t \in Tabs :
                   /\ at[t] = "update" /\ token[t] = r
                   /\ typed[t] = password[r] \/ t \in overtaken]_vars
  <2> SUFFICES ASSUME AccountInv, Next, NEW r \in Existing, password'[r] # password[r]
               PROVE  \E t \in Tabs : /\ at[t] = "update" /\ token[t] = r
                                      /\ typed[t] = password[r] \/ t \in overtaken
    OBVIOUS
  <2>1. ASSUME NEW s \in Rows, RegisterFinds(s) PROVE FALSE
    <3>1. password'[r] = password[r] \/ r = s
      BY <2>1 DEF RegisterFinds, AccountInv, TypeOK, Existing
    <3>2. status[s] = "none"
      BY <2>1 DEF RegisterFinds, AccountInv, TypeOK, RowsAreCreated
    <3> QED
      BY <3>1, <3>2 DEF Existing
  <2>2. PICK t \in Tabs : UpdatePassword(t)
    <3>1. \/ UNCHANGED password
          \/ \E t \in Tabs : UpdatePassword(t)
          \/ \E s \in Rows : RegisterFinds(s)
      BY DEF Next, RegisterCreates, VerifyEmail, TenMinutesPass, CleanupExpiredPendingUsers,
         CookieExpires, Login, LoggedIn, Logout, GetMe, ChangePassword, Validate, Compare,
         RequestFails, Expelled, userVars
    <3> QED
      BY <2>1, <3>1
  <2>3. at[t] = "update" /\ token[t] = r
    BY <2>2 DEF UpdatePassword, AccountInv, TypeOK, Existing
  <2> QED
    BY <2>3 DEF AccountInv, ChangeIsProven
<1> QED
  BY <1>1, AccountInvariance, PTL DEF Spec, ChangeReplacesProven
=============================================================================
