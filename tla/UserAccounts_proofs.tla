--------------------------- MODULE UserAccounts_proofs ---------------------------
(***************************************************************************)
(* Theorems about UserAccounts.                                             *)
(***************************************************************************)
EXTENDS UserAccounts, TLAPS

\* The rows that requests hold are of the right type: what a statement writes.
Operations == Updating \cup Inserting \cup {"refresh", "none"}
RequestRow == [op : Operations, name : Names, password : Passwords, disabled : BOOLEAN]

LEMMA AccountInitTypeOK == AccountInit => AccountTypeOK
BY AccountsAssumption DEF AccountInit, AccountTypeOK, NoRequest, Updating, Inserting, Exists

\* A lookup that leads on to an operation keeps the type invariant, if it has found the
\* row it is going to update.
LEMMA ProceedKeepsType ==
  ASSUME AccountTypeOK, NEW q \in Requests, NEW op \in Updating \cup Inserting \cup {"refresh"},
         NEW n \in Names, NEW p \in Passwords, NEW d \in BOOLEAN,
         Proceed(q, op, [name |-> n, password |-> p, disabled |-> d]),
         op \in Updating \cup {"refresh"} => Exists(n),
         op \in Inserting => ~d
  PROVE  AccountTypeOK'
<1>1. request' = [request EXCEPT ![q] =
                    [op |-> op, name |-> n, password |-> p, disabled |-> d]]
  BY DEF Proceed
<1>2. /\ request' \in [Requests -> RequestRow]
      /\ request'[q] = [op |-> op, name |-> n, password |-> p, disabled |-> d]
      /\ \A r \in Requests \ {q} : request'[r] = request[r]
  BY <1>1 DEF AccountTypeOK, RequestRow, Operations
<1> QED BY <1>2 DEF AccountTypeOK, RequestRow, Operations, Proceed, Exists

\* A row that is found has the type of a row.
LEMMA RowType ==
  ASSUME AccountTypeOK, NEW n \in Names, Exists(n)
  PROVE  /\ password[n] \in Passwords
         /\ \E d \in BOOLEAN :
              /\ d <=> n \in disabled
              /\ Row(n) = [name |-> n, password |-> password[n], disabled |-> d]
              /\ \A p \in Passwords : [Row(n) EXCEPT !.password = p]
                                    = [name |-> n, password |-> p, disabled |-> d]
         /\ \A d \in BOOLEAN : [Row(n) EXCEPT !.disabled = d]
                              = [name |-> n, password |-> password[n], disabled |-> d]
<1>1. password[n] \in Passwords
  BY DEF AccountTypeOK, Exists
<1>2. PICK d \in BOOLEAN : d <=> n \in disabled
  <2>1. CASE n \in disabled
    BY <2>1
  <2>2. CASE n \notin disabled
    BY <2>2
  <2> QED BY <2>1, <2>2
<1>3. Row(n) = [name |-> n, password |-> password[n], disabled |-> d]
  BY <1>2 DEF Row
<1> QED BY <1>1, <1>2, <1>3

\* Each lookup goes on with a row of the right type.
LEMMA FindKeepsType ==
  ASSUME AccountTypeOK, NEW q \in Requests, Find(q)
  PROVE  AccountTypeOK'
<1> USE DEF Updating, Inserting
<1>1. ASSUME NEW n \in Names, NEW p \in Passwords, FindForLogin(q, n, p)
      PROVE  AccountTypeOK'
  <2>1. Exists(n) /\ Proceed(q, "login", Row(n))
    BY <1>1 DEF FindForLogin
  <2> QED BY <2>1, RowType, ProceedKeepsType
<1>2. ASSUME NEW n \in Names, NEW p \in Passwords, FindForPassword(q, n, p)
      PROVE  AccountTypeOK'
  <2>1. Exists(n) /\ Proceed(q, "changePassword", [Row(n) EXCEPT !.password = p])
    BY <1>2 DEF FindForPassword
  <2> QED BY <2>1, RowType, ProceedKeepsType
<1>3. ASSUME NEW n \in Names, NEW p \in Passwords, FindForCreate(q, n, p)
      PROVE  AccountTypeOK'
  BY <1>3, ProceedKeepsType, AccountsAssumption DEF FindForCreate
<1>4. ASSUME NEW n \in Names, FindForRefresh(q, n)
      PROVE  AccountTypeOK'
  <2>1. Exists(n) /\ Proceed(q, "refresh", Row(n))
    BY <1>4 DEF FindForRefresh, Active
  <2> QED BY <2>1, RowType, ProceedKeepsType
<1>5. ASSUME NEW n \in Names, FindForDisable(q, n)
      PROVE  AccountTypeOK'
  <2>1. Exists(n) /\ Proceed(q, "disableUser", [Row(n) EXCEPT !.disabled = TRUE])
    BY <1>5 DEF FindForDisable, Active
  <2>2. /\ password[n] \in Passwords
        /\ Proceed(q, "disableUser",
                   [name |-> n, password |-> password[n], disabled |-> TRUE])
    BY <2>1, RowType
  <2>3. "disableUser" \in Updating /\ "disableUser" \notin Inserting
    OBVIOUS
  <2> HIDE DEF Updating, Inserting
  <2> QED BY <2>1, <2>2, <2>3, ProceedKeepsType
<1>6. ASSUME NEW n \in Names, FindForEnable(q, n)
      PROVE  AccountTypeOK'
  <2>1. Exists(n) /\ Proceed(q, "enableUser", [Row(n) EXCEPT !.disabled = FALSE])
    BY <1>6 DEF FindForEnable, AccountTypeOK
  <2>2. /\ password[n] \in Passwords
        /\ Proceed(q, "enableUser",
                   [name |-> n, password |-> password[n], disabled |-> FALSE])
    BY <2>1, RowType
  <2> QED BY <2>1, <2>2, ProceedKeepsType
<1>7. ASSUME FindForBootstrap(q) PROVE AccountTypeOK'
  BY <1>7, ProceedKeepsType, AccountsAssumption DEF FindForBootstrap
<1> QED BY <1>1, <1>2, <1>3, <1>4, <1>5, <1>6, <1>7 DEF Find

\* What a request that ends does to the request slots.
LEMMA FinishShape ==
  ASSUME AccountTypeOK, NEW q \in Requests, Finish(q)
  PROVE  /\ request' \in [Requests -> RequestRow]
         /\ request'[q].op = "none"
         /\ \A r \in Requests \ {q} : request'[r] = request[r]
BY AccountsAssumption
DEF Finish, NoRequest, AccountTypeOK, RequestRow, Operations, Updating, Inserting

\* What the table looks like when a request has written row n.
LEMMA WriteShape ==
  ASSUME AccountTypeOK, NEW q \in Requests, WriteRow(q),
         NEW n \in Names, n = request[q].name
  PROVE  /\ password' \in [Names -> Passwords \cup {NoRow}]
         /\ password'[n] = request[q].password /\ password'[n] # NoRow
         /\ \A m \in Names \ {n} : password'[m] = password[m]
         /\ \A m \in Names : password[m] # NoRow => password'[m] # NoRow
         /\ disabled' = IF request[q].disabled THEN disabled \cup {n} ELSE disabled \ {n}
         /\ disabled' \subseteq {m \in Names : password'[m] # NoRow}
<1>1. request[q].password \in Passwords
  BY DEF AccountTypeOK
<1>2. /\ password' \in [Names -> Passwords \cup {NoRow}]
      /\ password'[n] = request[q].password
      /\ \A m \in Names \ {n} : password'[m] = password[m]
  BY <1>1 DEF WriteRow, AccountTypeOK
<1>3. password'[n] # NoRow /\ \A m \in Names : password[m] # NoRow => password'[m] # NoRow
  BY <1>1, <1>2, AccountsAssumption
<1>4. disabled' = IF request[q].disabled THEN disabled \cup {n} ELSE disabled \ {n}
  BY DEF WriteRow
<1>5. disabled' \subseteq {m \in Names : password'[m] # NoRow}
  BY <1>3, <1>4 DEF AccountTypeOK, Exists
<1> QED BY <1>2, <1>3, <1>4, <1>5

\* A request that ends keeps the type invariant if no row goes away and tokens are of
\* users that have a row.
LEMMA FinishKeepsType ==
  ASSUME AccountTypeOK, NEW q \in Requests, Finish(q),
         password' \in [Names -> Passwords \cup {NoRow}],
         \A m \in Names : password[m] # NoRow => password'[m] # NoRow,
         disabled' \subseteq {m \in Names : password'[m] # NoRow},
         access' \subseteq {m \in Names : password'[m] # NoRow},
         refresh' \subseteq {m \in Names : password'[m] # NoRow}
  PROVE  AccountTypeOK'
<1>1. /\ request' \in [Requests -> RequestRow]
      /\ request'[q].op = "none"
      /\ \A r \in Requests \ {q} : request'[r] = request[r]
  BY FinishShape
<1>2. ASSUME NEW r \in Requests
      PROVE  /\ request'[r].op \in Updating \cup {"refresh"}
                => password'[request'[r].name] # NoRow
             /\ request'[r].op \in Inserting => ~request'[r].disabled
  <2>1. CASE r = q
    BY <1>1, <2>1 DEF Updating, Inserting
  <2>2. CASE r # q
    <3>1. request'[r] = request[r] /\ request[r].name \in Names
      BY <1>1, <2>2 DEF AccountTypeOK
    <3> QED BY <3>1 DEF AccountTypeOK, Exists
  <2> QED BY <2>1, <2>2
<1> QED BY <1>1, <1>2 DEF AccountTypeOK, RequestRow, Operations, Exists

LEMMA CompleteKeepsType ==
  ASSUME AccountTypeOK, NEW q \in Requests, Complete(q)
  PROVE  AccountTypeOK'
<1>1. PICK n \in Names : n = request[q].name
  BY DEF AccountTypeOK
\* The tokens of users that have a row, and of n, are of users that have a row.
<1>2. ASSUME access' \in {access, access \cup {n}}, refresh' \in {refresh, refresh \cup {n}},
             password'[n] # NoRow, \A m \in Names : password[m] # NoRow => password'[m] # NoRow
      PROVE  /\ access' \subseteq {m \in Names : password'[m] # NoRow}
             /\ refresh' \subseteq {m \in Names : password'[m] # NoRow}
  BY <1>2 DEF AccountTypeOK, Exists
<1>3. CASE UpdateForLogin(q)
  <2>1. Finish(q) /\ WriteRow(q) /\ access' = access \cup {n} /\ refresh' = refresh \cup {n}
    BY <1>1, <1>3 DEF UpdateForLogin, IssueTokens
  <2> QED BY <1>1, <1>2, <2>1, WriteShape, FinishKeepsType
<1>4. CASE UpdateUser(q)
  <2>1. Finish(q) /\ WriteRow(q) /\ access' = access /\ refresh' = refresh
    BY <1>4 DEF UpdateUser
  <2> QED BY <1>1, <1>2, <2>1, WriteShape, FinishKeepsType
<1>5. CASE AnswerRefresh(q)
  <2>1. /\ Finish(q) /\ password' = password /\ disabled' = disabled
        /\ access' = access \cup {n} /\ refresh' = refresh \cup {n}
    BY <1>1, <1>5 DEF AnswerRefresh, IssueTokens
  <2>2. password[n] # NoRow
    BY <1>1, <1>5 DEF AnswerRefresh, AccountTypeOK, Exists
  <2>3. /\ password' \in [Names -> Passwords \cup {NoRow}]
        /\ disabled' \subseteq {m \in Names : password'[m] # NoRow}
    BY <2>1 DEF AccountTypeOK, Exists
  <2> QED BY <1>2, <2>1, <2>2, <2>3, FinishKeepsType
<1>6. CASE InsertUser(q)
  <2>1. CASE UNCHANGED <<password, disabled>>
    <3>1. Finish(q) /\ access' = access /\ refresh' = refresh
      BY <1>6 DEF InsertUser
    <3> QED BY <2>1, <3>1, FinishKeepsType DEF AccountTypeOK, Exists
  <2>2. CASE WriteRow(q)
    <3>1. Finish(q) /\ access' = access /\ refresh' = refresh
      BY <1>6 DEF InsertUser
    <3> QED BY <1>1, <1>2, <2>2, <3>1, WriteShape, FinishKeepsType
  <2> QED BY <1>6, <2>1, <2>2 DEF InsertUser
<1>7. CASE Abort(q)
  BY <1>7, FinishKeepsType DEF Abort, AccountTypeOK, Exists
<1> QED BY <1>3, <1>4, <1>5, <1>6, <1>7 DEF Complete

\* The type invariant is inductive.
LEMMA AccountNextTypeOK == AccountTypeOK /\ [AccountNext]_accountVars => AccountTypeOK'
<1> SUFFICES ASSUME AccountTypeOK, [AccountNext]_accountVars PROVE AccountTypeOK'
  OBVIOUS
<1>1. ASSUME NEW n \in Names, ExpireAccess(n) \/ ExpireRefresh(n) PROVE AccountTypeOK'
  BY <1>1 DEF ExpireAccess, ExpireRefresh, AccountTypeOK, Exists
<1>2. CASE UNCHANGED accountVars
  BY <1>2 DEF accountVars, AccountTypeOK, Exists
<1> QED BY <1>1, <1>2, FindKeepsType, CompleteKeepsType DEF AccountNext

\* The variables have their types: a token, a disabled_at and a row that a request is
\* going to write back belong to a user that has a row.
THEOREM TypeCorrect == AccountSpec => []AccountTypeOK
BY AccountInitTypeOK, AccountNextTypeOK, PTL DEF AccountSpec

-----------------------------------------------------------------------------
\* What a lookup leads to: a row with some of the columns that were read, or a new one.
LEMMA FindShape ==
  ASSUME AccountTypeOK, NEW q \in Requests, Find(q)
  PROVE  /\ UNCHANGED <<password, disabled, access, refresh>>
         /\ request[q].op = "none"
         /\ \E op \in Operations \ {"none"}, n \in Names, p \in Passwords, d \in BOOLEAN :
              /\ request' = [request EXCEPT ![q] =
                               [op |-> op, name |-> n, password |-> p, disabled |-> d]]
              /\ op \in Inserting => ~d /\ ~Exists(n)
              /\ op \notin Inserting => Exists(n)
              /\ op \in {"login", "changePassword"} => (d <=> n \in disabled)
              /\ op \in {"login", "disableUser", "enableUser"} => p = password[n]
              /\ op \in {"login", "disableUser"} => n \notin disabled
              /\ op = "refresh" => n \in refresh
<1> USE DEF Updating, Inserting, Operations
<1> DEFINE Goal(op, n, p, d) ==
      /\ request' = [request EXCEPT ![q] =
                       [op |-> op, name |-> n, password |-> p, disabled |-> d]]
      /\ op \in Inserting => ~d /\ ~Exists(n)
      /\ op \notin Inserting => Exists(n)
      /\ op \in {"login", "changePassword"} => (d <=> n \in disabled)
      /\ op \in {"login", "disableUser", "enableUser"} => p = password[n]
      /\ op \in {"login", "disableUser"} => n \notin disabled
      /\ op = "refresh" => n \in refresh
<1>1. ASSUME NEW op, NEW row, Proceed(q, op, row)
      PROVE  /\ UNCHANGED <<password, disabled, access, refresh>>
             /\ request[q].op = "none"
             /\ request' = [request EXCEPT ![q] =
                  [op |-> op, name |-> row.name, password |-> row.password,
                   disabled |-> row.disabled]]
  BY <1>1 DEF Proceed
<1>2. ASSUME NEW n \in Names, Exists(n)
      PROVE  /\ password[n] \in Passwords
             /\ Row(n).name = n /\ Row(n).password = password[n]
             /\ Row(n).disabled \in BOOLEAN /\ (Row(n).disabled <=> n \in disabled)
  <2>1. PICK d \in BOOLEAN :
          /\ d <=> n \in disabled
          /\ Row(n) = [name |-> n, password |-> password[n], disabled |-> d]
    BY <1>2, RowType
  <2>2. Row(n).name = n /\ Row(n).password = password[n] /\ Row(n).disabled = d
    BY <2>1
  <2> QED BY <1>2, <2>1, <2>2, RowType
<1>3. ASSUME NEW n \in Names, NEW p \in Passwords, FindForLogin(q, n, p)
      PROVE  \E op \in Operations \ {"none"}, m \in Names, w \in Passwords, d \in BOOLEAN :
               Goal(op, m, w, d)
  <2>1. Goal("login", n, password[n], Row(n).disabled)
    BY <1>1, <1>2, <1>3 DEF FindForLogin
  <2> QED BY <1>2, <1>3, <2>1 DEF FindForLogin
<1>4. ASSUME NEW n \in Names, NEW p \in Passwords, FindForPassword(q, n, p)
      PROVE  \E op \in Operations \ {"none"}, m \in Names, w \in Passwords, d \in BOOLEAN :
               Goal(op, m, w, d)
  <2>1. PICK d \in BOOLEAN : /\ d <=> n \in disabled
                             /\ [Row(n) EXCEPT !.password = p]
                                = [name |-> n, password |-> p, disabled |-> d]
    BY <1>4, RowType DEF FindForPassword
  <2>2. Goal("changePassword", n, p, d)
    BY <1>1, <1>4, <2>1 DEF FindForPassword
  <2> QED BY <2>2
<1>5. ASSUME NEW n \in Names, NEW p \in Passwords, FindForCreate(q, n, p)
      PROVE  \E op \in Operations \ {"none"}, m \in Names, w \in Passwords, d \in BOOLEAN :
               Goal(op, m, w, d)
  <2>1. Goal("createUser", Lower[n], p, FALSE) /\ Lower[n] \in Names
    BY <1>1, <1>5, AccountsAssumption DEF FindForCreate
  <2> QED BY <2>1
<1>6. ASSUME NEW n \in Names, FindForRefresh(q, n)
      PROVE  \E op \in Operations \ {"none"}, m \in Names, w \in Passwords, d \in BOOLEAN :
               Goal(op, m, w, d)
  <2>1. Exists(n)
    BY <1>6 DEF FindForRefresh, Active
  <2>2. Goal("refresh", n, password[n], Row(n).disabled)
    BY <1>1, <1>2, <1>6, <2>1 DEF FindForRefresh
  <2> QED BY <1>2, <2>1, <2>2
<1>7. ASSUME NEW n \in Names, FindForDisable(q, n)
      PROVE  \E op \in Operations \ {"none"}, m \in Names, w \in Passwords, d \in BOOLEAN :
               Goal(op, m, w, d)
  <2>1. Exists(n) /\ n \notin disabled
    BY <1>7 DEF FindForDisable, Active
  <2>2. [Row(n) EXCEPT !.disabled = TRUE]
        = [name |-> n, password |-> password[n], disabled |-> TRUE]
    BY <2>1, RowType
  <2>3. Goal("disableUser", n, password[n], TRUE)
    BY <1>1, <1>7, <2>1, <2>2 DEF FindForDisable
  <2> QED BY <1>2, <2>1, <2>3
<1>8. ASSUME NEW n \in Names, FindForEnable(q, n)
      PROVE  \E op \in Operations \ {"none"}, m \in Names, w \in Passwords, d \in BOOLEAN :
               Goal(op, m, w, d)
  <2>1. Exists(n)
    BY <1>8 DEF FindForEnable, AccountTypeOK
  <2>2. [Row(n) EXCEPT !.disabled = FALSE]
        = [name |-> n, password |-> password[n], disabled |-> FALSE]
    BY <2>1, RowType
  <2>3. Goal("enableUser", n, password[n], FALSE)
    BY <1>1, <1>8, <2>1, <2>2 DEF FindForEnable
  <2> QED BY <1>2, <2>1, <2>3
<1>9. ASSUME FindForBootstrap(q)
      PROVE  \E op \in Operations \ {"none"}, m \in Names, w \in Passwords, d \in BOOLEAN :
               Goal(op, m, w, d)
  <2>1. Goal("bootstrap", InitialName, InitialPassword, FALSE)
    BY <1>1, <1>9, AccountsAssumption DEF FindForBootstrap
  <2> QED BY <2>1, AccountsAssumption
<1>10. /\ UNCHANGED <<password, disabled, access, refresh>>
       /\ request[q].op = "none"
  BY <1>1 DEF Find, FindForLogin, FindForPassword, FindForCreate, FindForRefresh,
              FindForDisable, FindForEnable, FindForBootstrap
<1> HIDE DEF Updating, Inserting, Operations
<1> QED BY <1>3, <1>4, <1>5, <1>6, <1>7, <1>8, <1>9, <1>10 DEF Find

\* How a request ends: without a write, or with the write it was going to do.
LEMMA CompleteShape ==
  ASSUME AccountTypeOK, NEW q \in Requests, Complete(q)
  PROVE  /\ Finish(q)
         /\ \/ UNCHANGED <<password, disabled>>
            \/ /\ WriteRow(q)
               /\ request[q].op \in Updating \cup Inserting
               /\ request[q].op \in Inserting <=> ~Exists(request[q].name)
<1>1. request[q].op \in Updating => request[q].op \notin Inserting /\ Exists(request[q].name)
  BY DEF AccountTypeOK, Updating, Inserting
<1>2. CASE UpdateForLogin(q) \/ UpdateUser(q)
  BY <1>1, <1>2 DEF UpdateForLogin, UpdateUser, Updating
<1>3. CASE AnswerRefresh(q) \/ Abort(q)
  BY <1>3 DEF AnswerRefresh, Abort
<1>4. CASE InsertUser(q)
  BY <1>4 DEF InsertUser
<1> QED BY <1>2, <1>3, <1>4 DEF Complete

-----------------------------------------------------------------------------
\* The inductive invariant: a login writes a row back that was not disabled when it was
\* read.  A lockout would not survive a login that had read a disabled row.
LoginsReadEnabled ==
  \A q \in Requests : request[q].op = "login" => ~request[q].disabled

AccountInv == AccountTypeOK /\ LoginsReadEnabled

LEMMA AccountInitInv == AccountInit => AccountInv
BY AccountInitTypeOK DEF AccountInit, AccountInv, LoginsReadEnabled, NoRequest

LEMMA AccountNextInv == AccountInv /\ [AccountNext]_accountVars => AccountInv'
<1> SUFFICES ASSUME AccountInv, [AccountNext]_accountVars PROVE LoginsReadEnabled'
  BY AccountNextTypeOK DEF AccountInv
<1> USE DEF AccountInv, LoginsReadEnabled
<1>1. ASSUME NEW q \in Requests, Find(q) PROVE LoginsReadEnabled'
  <2>1. PICK op \in Operations, n \in Names, p \in Passwords, d \in BOOLEAN :
          /\ request' = [request EXCEPT ![q] =
                           [op |-> op, name |-> n, password |-> p, disabled |-> d]]
          /\ op = "login" => ~d
    BY <1>1, FindShape
  <2>2. /\ request'[q] = [op |-> op, name |-> n, password |-> p, disabled |-> d]
        /\ \A r \in Requests \ {q} : request'[r] = request[r]
    BY <2>1 DEF AccountTypeOK
  <2> QED BY <2>1, <2>2
<1>2. ASSUME NEW q \in Requests, Complete(q) PROVE LoginsReadEnabled'
  BY <1>2, CompleteShape, FinishShape
<1>3. ASSUME NEW n \in Names, ExpireAccess(n) \/ ExpireRefresh(n) PROVE LoginsReadEnabled'
  BY <1>3 DEF ExpireAccess, ExpireRefresh
<1>4. CASE UNCHANGED accountVars
  BY <1>4 DEF accountVars
<1> QED BY <1>1, <1>2, <1>3, <1>4 DEF AccountNext

\* One step of LockoutHolds.
LEMMA LockoutStep ==
  ASSUME AccountInv, [AccountNext]_accountVars, NEW n \in Names, LockedOut(n),
         \A q \in Requests : ~ /\ request[q].op = "enableUser" /\ request[q].name = n
                               /\ request'[q].op = "none"
  PROVE  LockedOut(n)'
<1>1. ASSUME NEW q \in Requests, Find(q) PROVE LockedOut(n)'
  <2>1. PICK op \in Operations \ {"none"}, m \in Names, p \in Passwords, d \in BOOLEAN :
          /\ UNCHANGED <<password, disabled, access, refresh>>
          /\ request' = [request EXCEPT ![q] =
                           [op |-> op, name |-> m, password |-> p, disabled |-> d]]
          /\ op \in {"login", "changePassword"} => (d <=> m \in disabled)
          /\ op \in {"login", "disableUser"} => m \notin disabled
          /\ op = "refresh" => m \in refresh
    BY <1>1, FindShape DEF AccountInv
  <2>2. /\ request'[q] = [op |-> op, name |-> m, password |-> p, disabled |-> d]
        /\ \A r \in Requests \ {q} : request'[r] = request[r]
    BY <2>1 DEF AccountInv, AccountTypeOK
  <2>3. m = n /\ op \in (Updating \cup {"refresh"}) \ {"enableUser"} => op # "refresh" /\ d
    BY <2>1 DEF LockedOut, Updating
  <2> QED BY <2>1, <2>2, <2>3 DEF LockedOut
<1>2. ASSUME NEW q \in Requests, Complete(q) PROVE LockedOut(n)'
  <2>1. /\ request'[q].op = "none"
        /\ \A r \in Requests \ {q} : request'[r] = request[r]
    BY <1>2, CompleteShape, FinishShape DEF AccountInv
  <2>2. ASSUME request[q].name = n, request[q].op \in Updating
        PROVE  request[q].disabled /\ request[q].op # "login"
    <3>1. request[q].op # "enableUser"
      BY <2>1, <2>2
    <3>2. request[q].disabled
      BY <2>2, <3>1 DEF LockedOut
    <3> QED BY <3>2 DEF AccountInv, LoginsReadEnabled
  <2>3. n \in disabled'
    <3>1. CASE UNCHANGED <<password, disabled>>
      BY <3>1 DEF LockedOut
    <3>2. CASE WriteRow(q) /\ request[q].name # n
      BY <3>2 DEF LockedOut, WriteRow
    <3>3. CASE /\ WriteRow(q) /\ request[q].name = n
               /\ request[q].op \in Updating \cup Inserting
               /\ request[q].op \in Inserting <=> ~Exists(n)
      <4>1. Exists(n)
        BY DEF LockedOut, AccountInv, AccountTypeOK
      <4>2. request[q].op \in Updating
        BY <3>3, <4>1
      <4>3. request[q].disabled
        BY <2>2, <3>3, <4>2
      <4> QED BY <3>3, <4>3 DEF WriteRow
    <3> QED BY <1>2, <3>1, <3>2, <3>3, CompleteShape DEF AccountInv
  <2>4. n \notin access' \cup refresh'
    <3>1. CASE UpdateForLogin(q)
      <4>1. request[q].op = "login" /\ "login" \in Updating
        BY <3>1 DEF UpdateForLogin, Updating
      <4>2. request[q].name # n
        BY <2>2, <4>1
      <4> QED BY <3>1, <4>2 DEF UpdateForLogin, IssueTokens, LockedOut
    <3>2. CASE AnswerRefresh(q)
      <4>1. request[q].op = "refresh" /\ "refresh" # "enableUser"
        BY <3>2 DEF AnswerRefresh
      <4>2. request[q].name # n
        BY <4>1 DEF LockedOut
      <4> QED BY <3>2, <4>2 DEF AnswerRefresh, IssueTokens, LockedOut
    <3>3. CASE UpdateUser(q) \/ InsertUser(q) \/ Abort(q)
      BY <3>3 DEF UpdateUser, InsertUser, Abort, LockedOut
    <3> QED BY <1>2, <3>1, <3>2, <3>3 DEF Complete
  <2>5. "none" \notin (Updating \cup {"refresh"})
    BY DEF Updating
  <2> QED BY <2>1, <2>3, <2>4, <2>5 DEF LockedOut
<1>3. ASSUME NEW m \in Names, ExpireAccess(m) \/ ExpireRefresh(m) PROVE LockedOut(n)'
  BY <1>3 DEF ExpireAccess, ExpireRefresh, LockedOut
<1>4. CASE UNCHANGED accountVars
  BY <1>4 DEF accountVars, LockedOut
<1> QED BY <1>1, <1>2, <1>3, <1>4 DEF AccountNext

\* Someone who is locked out gets back in by being enabled and in no other way.
THEOREM LockoutsHold == AccountSpec => LockoutHolds
<1>1. AccountInv /\ [AccountNext]_accountVars
      => [\A n \in Names : LockedOut(n) /\ ~LockedOut(n)'
            => \E q \in Requests : request[q].op = "enableUser" /\ request[q].name = n
                                   /\ request'[q].op = "none"]_accountVars
  BY LockoutStep
<1>2. AccountSpec => []AccountInv
  BY AccountInitInv, AccountNextInv, PTL DEF AccountSpec
<1> QED BY <1>1, <1>2, PTL DEF AccountSpec, LockoutHolds

-----------------------------------------------------------------------------
\* The refinement of RowColumn.  A request that does not go on with a write, or ends, has
\* nothing to write; one whose statement is next writes the column's value into its row.
LEMMA NothingToWrite ==
  ASSUME NEW r, r.op \notin Updating \cup Inserting, NEW choosers, NEW v
  PROVE  WriteOf(r, choosers, v) = NoRow
BY DEF WriteOf

LEMMA SomethingToWrite ==
  ASSUME NEW r, NEW op \in Updating \cup Inserting, NEW n \in Names, r.op = op, r.name = n,
         NEW choosers, NEW v \in Passwords \cup BOOLEAN
  PROVE  /\ WriteOf(r, choosers, v) # NoRow
         /\ WriteOf(r, choosers, v).row = n
         /\ WriteOf(r, choosers, v).value = v
         /\ WriteOf(r, choosers, v).kind = "insert" <=> op \in Inserting
         /\ op \in Inserting
            => WriteOf(r, choosers, v) = [kind |-> "insert", row |-> n, value |-> v]
         /\ op \in Updating \cap choosers
            => WriteOf(r, choosers, v) = [kind |-> "choose", row |-> n, value |-> v]
         /\ op \in Updating \ choosers
            => WriteOf(r, choosers, v) = [kind |-> "restore", row |-> n, value |-> v]
<1> DEFINE kind == IF op \in Inserting THEN "insert"
                   ELSE IF op \in choosers THEN "choose" ELSE "restore"
<1>1. WriteOf(r, choosers, v) = [kind |-> kind, row |-> n, value |-> v]
  BY DEF WriteOf
<1>2. kind \in {"insert", "choose", "restore"} /\ (kind = "insert" <=> op \in Inserting)
  OBVIOUS
<1>3. op \in Updating => op \notin Inserting
  BY DEF Updating, Inserting
<1> HIDE DEF kind
<1>4. [kind |-> kind, row |-> n, value |-> v]
      \in [kind : {"insert", "restore", "choose"}, row : Names, value : Passwords \cup BOOLEAN]
  BY <1>2
<1>5. WriteOf(r, choosers, v) # NoRow
  BY <1>1, <1>4, AccountsAssumption
<1> QED BY <1>1, <1>2, <1>3, <1>5 DEF kind

LEMMA PasswordHashInit == AccountInit => PasswordHash!ColumnInit
<1> SUFFICES ASSUME AccountInit PROVE PasswordHash!ColumnInit
  OBVIOUS
<1>1. NoRequest.op \notin Updating \cup Inserting
  BY DEF NoRequest, Updating, Inserting
<1> QED BY <1>1, NothingToWrite DEF AccountInit, PasswordHash!ColumnInit

\* Every step is a step of the column password_hash, or does not touch it.
LEMMA PasswordHashStep ==
  AccountTypeOK /\ [AccountNext]_accountVars
  => [PasswordHash!ColumnNext]_(PasswordHash!columnVars)
<1> SUFFICES ASSUME AccountTypeOK, [AccountNext]_accountVars
             PROVE  [PasswordHash!ColumnNext]_(PasswordHash!columnVars)
  OBVIOUS
<1> DEFINE choosers == {"changePassword"}
           P == [q \in Requests |-> WriteOf(request[q], choosers, request[q].password)]
<1>1. ASSUME NEW q \in Requests, NEW r, request' = [request EXCEPT ![q] = r]
      PROVE  P' = [P EXCEPT ![q] = WriteOf(r, choosers, r.password)]
  <2>1. request'[q] = r /\ \A s \in Requests \ {q} : request'[s] = request[s]
    BY <1>1 DEF AccountTypeOK
  <2>2. \A s \in Requests :
          WriteOf(request'[s], choosers, request'[s].password)
          = IF s = q THEN WriteOf(r, choosers, r.password)
            ELSE WriteOf(request[s], choosers, request[s].password)
    BY <2>1
  <2> QED BY <2>2
<1>2. \A q \in Requests : P[q] = WriteOf(request[q], choosers, request[q].password)
  OBVIOUS
<1>3. ASSUME NEW q \in Requests,
             \/ \E n \in Names : \/ PasswordHash!Read(q, n) \/ PasswordHash!Choose(q, n)
                                 \/ PasswordHash!Miss(q, n)
             \/ PasswordHash!Commit(q)
             \/ PasswordHash!Drop(q)
      PROVE  PasswordHash!ColumnNext
  BY <1>3 DEF PasswordHash!ColumnNext
<1>4. ASSUME NEW q \in Requests, Find(q)
      PROVE  [PasswordHash!ColumnNext]_(PasswordHash!columnVars)
  <2>1. PICK op \in Operations \ {"none"}, n \in Names, p \in Passwords, d \in BOOLEAN :
          /\ password' = password
          /\ request[q].op = "none"
          /\ request' = [request EXCEPT ![q] =
                           [op |-> op, name |-> n, password |-> p, disabled |-> d]]
          /\ op \in Inserting => ~Exists(n)
          /\ op \notin Inserting => Exists(n)
          /\ op \in {"login", "disableUser", "enableUser"} => p = password[n]
    BY <1>4, FindShape
  <2> DEFINE r == [op |-> op, name |-> n, password |-> p, disabled |-> d]
  <2>2. r.op = op /\ r.name = n /\ r.password = p
    OBVIOUS
  <2>3. P' = [P EXCEPT ![q] = WriteOf(r, choosers, p)]
    BY <1>1, <2>1, <2>2
  <2>4. P[q] = NoRow
    BY <1>2, <2>1, NothingToWrite DEF Updating, Inserting
  <2> HIDE DEF r, P
  <2>5. CASE op \in Inserting
    <3>1. WriteOf(r, choosers, p) = [kind |-> "insert", row |-> n, value |-> p]
      BY <2>2, <2>5, SomethingToWrite
    <3>2. PasswordHash!Miss(q, n)
      BY <2>1, <2>3, <2>4, <2>5, <3>1 DEF P, PasswordHash!Miss, PasswordHash!Prepare, Exists
    <3> QED BY <1>3, <3>2
  <2>6. CASE op = "changePassword"
    <3>1. op \in Updating \cap choosers /\ op \notin Inserting
      BY <2>6 DEF Updating, Inserting
    <3>2. WriteOf(r, choosers, p) = [kind |-> "choose", row |-> n, value |-> p]
      BY <2>2, <3>1, SomethingToWrite
    <3>3. PasswordHash!Choose(q, n)
      BY <2>1, <2>3, <2>4, <3>1, <3>2
      DEF P, PasswordHash!Choose, PasswordHash!Prepare, Exists
    <3> QED BY <1>3, <3>3
  <2>7. CASE op \in {"login", "disableUser", "enableUser"}
    <3>1. op \in Updating \ choosers /\ op \notin Inserting
      BY <2>7 DEF Updating, Inserting
    <3>2. WriteOf(r, choosers, p) = [kind |-> "restore", row |-> n, value |-> p]
      BY <2>2, <3>1, SomethingToWrite
    <3>3. PasswordHash!Read(q, n)
      BY <2>1, <2>3, <2>4, <2>7, <3>1, <3>2
      DEF P, PasswordHash!Read, PasswordHash!Prepare, Exists
    <3> QED BY <1>3, <3>3
  <2>8. CASE op = "refresh"
    <3>1. WriteOf(r, choosers, p) = NoRow
      BY <2>2, <2>8, NothingToWrite DEF Updating, Inserting
    <3>2. P' = P
      BY <2>3, <2>4, <3>1 DEF P
    <3> QED BY <2>1, <3>2 DEF P, PasswordHash!columnVars
  <2> QED BY <2>5, <2>6, <2>7, <2>8 DEF Operations, Updating, Inserting
<1>5. ASSUME NEW q \in Requests, Complete(q)
      PROVE  [PasswordHash!ColumnNext]_(PasswordHash!columnVars)
  <2>1. P' = [P EXCEPT ![q] = NoRow]
    <3>1. request' = [request EXCEPT ![q] = NoRequest]
      BY <1>5, CompleteShape DEF Finish
    <3>2. NoRequest.op \notin Updating \cup Inserting
      BY DEF NoRequest, Updating, Inserting
    <3>3. WriteOf(NoRequest, choosers, NoRequest.password) = NoRow
      BY <3>2, NothingToWrite
    <3> QED BY <1>1, <3>1, <3>3
  <2> HIDE DEF P
  <2>2. CASE password' = password
    <3>1. CASE P[q] = NoRow
      <4>1. P' = P
        BY <2>1, <3>1 DEF P
      <4> QED BY <2>2, <4>1 DEF P, PasswordHash!columnVars
    <3>2. CASE P[q] # NoRow
      <4>1. PasswordHash!Drop(q)
        BY <2>1, <2>2, <3>2 DEF P, PasswordHash!Drop
      <4> QED BY <1>3, <4>1
    <3> QED BY <3>1, <3>2
  <2>3. CASE /\ WriteRow(q)
             /\ request[q].op \in Updating \cup Inserting
             /\ request[q].op \in Inserting <=> ~Exists(request[q].name)
    <3>1. request[q].name \in Names /\ request[q].password \in Passwords
      BY DEF AccountTypeOK
    <3>2. /\ P[q] # NoRow
          /\ P[q].row = request[q].name
          /\ P[q].value = request[q].password
          /\ P[q].kind = "insert" <=> request[q].op \in Inserting
      BY <1>2, <2>3, <3>1, SomethingToWrite
    <3>3. PasswordHash!Commit(q)
      BY <2>1, <2>3, <3>2 DEF P, PasswordHash!Commit, WriteRow, Exists
    <3> QED BY <1>3, <3>3
  <2> QED BY <1>5, <2>2, <2>3, CompleteShape
<1>6. ASSUME NEW n \in Names, ExpireAccess(n) \/ ExpireRefresh(n)
      PROVE  [PasswordHash!ColumnNext]_(PasswordHash!columnVars)
  BY <1>6 DEF ExpireAccess, ExpireRefresh, PasswordHash!columnVars
<1>7. CASE UNCHANGED accountVars
  BY <1>7 DEF accountVars, PasswordHash!columnVars
<1> QED BY <1>4, <1>5, <1>6, <1>7 DEF AccountNext

\* The column disabled_at, as DisabledAt has it.
DisabledColumn == [n \in Names |-> IF Exists(n) THEN n \in disabled ELSE NoRow]

LEMMA DisabledColumnAt ==
  ASSUME NEW n \in Names
  PROVE  /\ DisabledColumn[n] = NoRow <=> ~Exists(n)
         /\ \A d \in BOOLEAN : Exists(n) /\ (d <=> n \in disabled) => DisabledColumn[n] = d
<1>1. CASE ~Exists(n)
  BY <1>1 DEF DisabledColumn
<1>2. CASE Exists(n) /\ n \in disabled
  <2>1. DisabledColumn[n] = TRUE
    BY <1>2 DEF DisabledColumn
  <2> QED BY <1>2, <2>1, AccountsAssumption
<1>3. CASE Exists(n) /\ n \notin disabled
  <2>1. DisabledColumn[n] = FALSE
    <3>1. DisabledColumn[n] = (n \in disabled)
      BY <1>3 DEF DisabledColumn
    <3>2. (n \in disabled) = FALSE
      BY <1>3
    <3> QED BY <3>1, <3>2
  <2> QED BY <1>3, <2>1, AccountsAssumption
<1> QED BY <1>1, <1>2, <1>3

\* A row that is written gets the disabled_at the request holds.
LEMMA DisabledColumnWritten ==
  ASSUME AccountTypeOK, NEW q \in Requests, WriteRow(q)
  PROVE  DisabledColumn'
         = [DisabledColumn EXCEPT ![request[q].name] = request[q].disabled]
<1>1. PICK n \in Names, d \in BOOLEAN : n = request[q].name /\ d = request[q].disabled
  BY DEF AccountTypeOK
<1>2. /\ password'[n] # NoRow
      /\ \A m \in Names \ {n} : password'[m] = password[m]
      /\ disabled' = IF d THEN disabled \cup {n} ELSE disabled \ {n}
  BY <1>1, WriteShape
<1>3. DisabledColumn'[n] = d
  <2>1. DisabledColumn'[n] = (n \in disabled')
    BY <1>2 DEF DisabledColumn, Exists
  <2>2. CASE d
    BY <1>2, <2>1, <2>2
  <2>3. CASE ~d
    BY <1>2, <2>1, <2>3
  <2> QED BY <2>2, <2>3
<1>4. ASSUME NEW m \in Names \ {n}
      PROVE  DisabledColumn'[m] = DisabledColumn[m]
  <2>1. password'[m] = password[m] /\ (m \in disabled' <=> m \in disabled)
    BY <1>2
  <2> QED BY <2>1 DEF DisabledColumn, Exists
<1>5. /\ DisabledColumn = [m \in Names |-> DisabledColumn[m]]
      /\ DisabledColumn' = [m \in Names |-> DisabledColumn'[m]]
  BY DEF DisabledColumn
<1>6. DisabledColumn' = [DisabledColumn EXCEPT ![n] = d]
  BY <1>3, <1>4, <1>5
<1> QED BY <1>1, <1>6

LEMMA DisabledAtInit == AccountInit => DisabledAt!ColumnInit
<1> SUFFICES ASSUME AccountInit PROVE DisabledAt!ColumnInit
  OBVIOUS
<1>1. NoRequest.op \notin Updating \cup Inserting
  BY DEF NoRequest, Updating, Inserting
<1> QED BY <1>1, NothingToWrite DEF AccountInit, DisabledAt!ColumnInit, Exists

\* Every step is a step of the column disabled_at, or does not touch it.
LEMMA DisabledAtStep ==
  AccountTypeOK /\ [AccountNext]_accountVars
  => [DisabledAt!ColumnNext]_(DisabledAt!columnVars)
<1> SUFFICES ASSUME AccountTypeOK, [AccountNext]_accountVars
             PROVE  [DisabledAt!ColumnNext]_(DisabledAt!columnVars)
  OBVIOUS
<1> DEFINE choosers == {"disableUser", "enableUser"}
           P == [q \in Requests |-> WriteOf(request[q], choosers, request[q].disabled)]
<1>1. ASSUME NEW q \in Requests, NEW r, request' = [request EXCEPT ![q] = r]
      PROVE  P' = [P EXCEPT ![q] = WriteOf(r, choosers, r.disabled)]
  <2>1. request'[q] = r /\ \A s \in Requests \ {q} : request'[s] = request[s]
    BY <1>1 DEF AccountTypeOK
  <2>2. \A s \in Requests :
          WriteOf(request'[s], choosers, request'[s].disabled)
          = IF s = q THEN WriteOf(r, choosers, r.disabled)
            ELSE WriteOf(request[s], choosers, request[s].disabled)
    BY <2>1
  <2> QED BY <2>2
<1>2. \A q \in Requests : P[q] = WriteOf(request[q], choosers, request[q].disabled)
  OBVIOUS
<1>3. ASSUME NEW q \in Requests,
             \/ \E n \in Names : \/ DisabledAt!Read(q, n) \/ DisabledAt!Choose(q, n)
                                 \/ DisabledAt!Miss(q, n)
             \/ DisabledAt!Commit(q)
             \/ DisabledAt!Drop(q)
      PROVE  DisabledAt!ColumnNext
  BY <1>3 DEF DisabledAt!ColumnNext
\* What the actions of DisabledAt say, in terms of DisabledColumn and P.
<1>4. ASSUME NEW q \in Requests, NEW n \in Names, NEW d \in BOOLEAN, P[q] = NoRow,
             DisabledColumn' = DisabledColumn
      PROVE  /\ /\ DisabledColumn[n] = d /\ DisabledColumn[n] # NoRow
                /\ P' = [P EXCEPT ![q] = [kind |-> "restore", row |-> n, value |-> d]]
                => DisabledAt!Read(q, n)
             /\ /\ DisabledColumn[n] # NoRow
                /\ P' = [P EXCEPT ![q] = [kind |-> "choose", row |-> n, value |-> d]]
                => DisabledAt!Choose(q, n)
             /\ /\ DisabledColumn[n] = NoRow /\ d = FALSE
                /\ P' = [P EXCEPT ![q] = [kind |-> "insert", row |-> n, value |-> d]]
                => DisabledAt!Miss(q, n)
  BY <1>4
  DEF DisabledColumn, DisabledAt!Read, DisabledAt!Choose, DisabledAt!Miss, DisabledAt!Prepare
<1>5. ASSUME NEW q \in Requests, P[q] # NoRow, P' = [P EXCEPT ![q] = NoRow]
      PROVE  /\ DisabledColumn' = DisabledColumn => DisabledAt!Drop(q)
             /\ /\ P[q].kind = "insert" <=> DisabledColumn[P[q].row] = NoRow
                /\ DisabledColumn' = [DisabledColumn EXCEPT ![P[q].row] = P[q].value]
                => DisabledAt!Commit(q)
  BY <1>5 DEF DisabledColumn, DisabledAt!Drop, DisabledAt!Commit
<1>6. ASSUME P' = P, DisabledColumn' = DisabledColumn
      PROVE  UNCHANGED DisabledAt!columnVars
  BY <1>6 DEF DisabledColumn, DisabledAt!columnVars
<1>7. ASSUME UNCHANGED <<password, disabled>>
      PROVE  DisabledColumn' = DisabledColumn
  BY <1>7 DEF DisabledColumn, Exists
<1> HIDE DEF P
<1>8. ASSUME NEW q \in Requests, Find(q)
      PROVE  [DisabledAt!ColumnNext]_(DisabledAt!columnVars)
  <2>1. PICK op \in Operations \ {"none"}, n \in Names, p \in Passwords, d \in BOOLEAN :
          /\ UNCHANGED <<password, disabled>>
          /\ request[q].op = "none"
          /\ request' = [request EXCEPT ![q] =
                           [op |-> op, name |-> n, password |-> p, disabled |-> d]]
          /\ op \in Inserting => ~d /\ ~Exists(n)
          /\ op \notin Inserting => Exists(n)
          /\ op \in {"login", "changePassword"} => (d <=> n \in disabled)
    BY <1>8, FindShape
  <2> DEFINE r == [op |-> op, name |-> n, password |-> p, disabled |-> d]
  <2>2. r.op = op /\ r.name = n /\ r.disabled = d
    OBVIOUS
  <2>3. P' = [P EXCEPT ![q] = WriteOf(r, choosers, d)]
    BY <1>1, <2>1, <2>2
  <2>4. P[q] = NoRow
    BY <1>2, <2>1, NothingToWrite DEF Updating, Inserting
  <2>5. DisabledColumn' = DisabledColumn
    BY <1>7, <2>1
  <2> HIDE DEF r
  <2>6. CASE op \in Inserting
    <3>1. WriteOf(r, choosers, d) = [kind |-> "insert", row |-> n, value |-> d]
      BY <2>2, <2>6, SomethingToWrite
    <3>2. DisabledColumn[n] = NoRow /\ d = FALSE
      BY <2>1, <2>6, DisabledColumnAt
    <3>3. DisabledAt!Miss(q, n)
      BY <1>4, <2>3, <2>4, <2>5, <3>1, <3>2
    <3> QED BY <1>3, <3>3
  <2>7. CASE op \in choosers
    <3>1. op \in Updating \cap choosers /\ op \notin Inserting
      BY <2>7 DEF Updating, Inserting
    <3>2. WriteOf(r, choosers, d) = [kind |-> "choose", row |-> n, value |-> d]
      BY <2>2, <3>1, SomethingToWrite
    <3>3. DisabledColumn[n] # NoRow
      BY <2>1, <3>1, DisabledColumnAt
    <3>4. DisabledAt!Choose(q, n)
      BY <1>4, <2>3, <2>4, <2>5, <3>2, <3>3
    <3> QED BY <1>3, <3>4
  <2>8. CASE op \in {"login", "changePassword"}
    <3>1. op \in Updating \ choosers /\ op \notin Inserting
      BY <2>8 DEF Updating, Inserting
    <3>2. WriteOf(r, choosers, d) = [kind |-> "restore", row |-> n, value |-> d]
      BY <2>2, <3>1, SomethingToWrite
    <3>3. DisabledColumn[n] = d /\ DisabledColumn[n] # NoRow
      BY <2>1, <2>8, <3>1, DisabledColumnAt
    <3>4. DisabledAt!Read(q, n)
      BY <1>4, <2>3, <2>4, <2>5, <3>2, <3>3
    <3> QED BY <1>3, <3>4
  <2>9. CASE op = "refresh"
    <3>1. WriteOf(r, choosers, d) = NoRow
      BY <2>2, <2>9, NothingToWrite DEF Updating, Inserting
    <3>2. P' = P
      BY <2>3, <2>4, <3>1 DEF P
    <3> QED BY <1>6, <2>5, <3>2
  <2> QED BY <2>6, <2>7, <2>8, <2>9 DEF Operations, Updating, Inserting
<1>9. ASSUME NEW q \in Requests, Complete(q)
      PROVE  [DisabledAt!ColumnNext]_(DisabledAt!columnVars)
  <2>1. P' = [P EXCEPT ![q] = NoRow]
    <3>1. request' = [request EXCEPT ![q] = NoRequest]
      BY <1>9, CompleteShape DEF Finish
    <3>2. NoRequest.op \notin Updating \cup Inserting
      BY DEF NoRequest, Updating, Inserting
    <3>3. WriteOf(NoRequest, choosers, NoRequest.disabled) = NoRow
      BY <3>2, NothingToWrite
    <3> QED BY <1>1, <3>1, <3>3
  <2>2. CASE UNCHANGED <<password, disabled>>
    <3>1. CASE P[q] = NoRow
      <4>1. P' = P
        BY <2>1, <3>1 DEF P
      <4> QED BY <1>6, <1>7, <2>2, <4>1
    <3>2. CASE P[q] # NoRow
      BY <1>3, <1>5, <1>7, <2>1, <2>2, <3>2
    <3> QED BY <3>1, <3>2
  <2>3. CASE /\ WriteRow(q)
             /\ request[q].op \in Updating \cup Inserting
             /\ request[q].op \in Inserting <=> ~Exists(request[q].name)
    <3>1. request[q].name \in Names /\ request[q].disabled \in BOOLEAN
      BY DEF AccountTypeOK
    <3>2. /\ P[q] # NoRow
          /\ P[q].row = request[q].name
          /\ P[q].value = request[q].disabled
          /\ P[q].kind = "insert" <=> request[q].op \in Inserting
      BY <1>2, <2>3, <3>1, SomethingToWrite
    <3>3. P[q].kind = "insert" <=> DisabledColumn[P[q].row] = NoRow
      BY <2>3, <3>1, <3>2, DisabledColumnAt
    <3>4. DisabledColumn' = [DisabledColumn EXCEPT ![P[q].row] = P[q].value]
      BY <2>3, <3>2, DisabledColumnWritten
    <3>5. DisabledAt!Commit(q)
      BY <1>5, <2>1, <3>2, <3>3, <3>4
    <3> QED BY <1>3, <3>5
  <2> QED BY <1>9, <2>2, <2>3, CompleteShape
<1>10. ASSUME NEW n \in Names, ExpireAccess(n) \/ ExpireRefresh(n)
       PROVE  [DisabledAt!ColumnNext]_(DisabledAt!columnVars)
  BY <1>6, <1>7, <1>10 DEF ExpireAccess, ExpireRefresh, P
<1>11. CASE UNCHANGED accountVars
  BY <1>6, <1>7, <1>11 DEF accountVars, P
<1> QED BY <1>8, <1>9, <1>10, <1>11 DEF AccountNext

\* password_hash and disabled_at change only as RowColumn says: by an operation on them,
\* by the insert of a row, or by a request that restores what it read.
THEOREM ColumnsRefined == AccountSpec => AccountColumns
<1>1. AccountInit => DisabledAt!ColumnInit /\ PasswordHash!ColumnInit
  BY DisabledAtInit, PasswordHashInit
<1>2. AccountTypeOK /\ [AccountNext]_accountVars
      => /\ [DisabledAt!ColumnNext]_(DisabledAt!columnVars)
         /\ [PasswordHash!ColumnNext]_(PasswordHash!columnVars)
  BY DisabledAtStep, PasswordHashStep
<1> QED BY <1>1, <1>2, TypeCorrect, PTL
        DEF AccountSpec, AccountColumns, DisabledAt!ColumnSpec, PasswordHash!ColumnSpec
-----------------------------------------------------------------------------
(***************************************************************************)
(* Names.                                                                   *)
(***************************************************************************)

\* The rows there are, and those that requests are about to insert, have normalised
\* names, unless they come from the configuration.
NamesInv ==
  /\ \A n \in Names : Exists(n) => Lower[n] = n \/ n = InitialName
  /\ \A q \in Requests : request[q].op \in Inserting =>
       Lower[request[q].name] = request[q].name \/ request[q].name = InitialName

\* Every step keeps NamesInv.
LEMMA NamesStep == AccountTypeOK /\ NamesInv /\ [AccountNext]_accountVars => NamesInv'
<1> SUFFICES ASSUME AccountTypeOK, NamesInv, [AccountNext]_accountVars PROVE NamesInv'
  OBVIOUS
<1> USE AccountsAssumption DEF AccountTypeOK, NamesInv, Exists, Updating, Inserting
<1>1. ASSUME NEW q \in Requests, NEW op, NEW row, Proceed(q, op, row),
             op \in Inserting => Lower[row.name] = row.name \/ row.name = InitialName
      PROVE  NamesInv'
  BY <1>1 DEF Proceed
<1>2. ASSUME NEW q \in Requests, Find(q) PROVE NamesInv'
  <2>1. ASSUME NEW n \in Names, NEW p \in Passwords,
               FindForLogin(q, n, p) \/ FindForPassword(q, n, p)
        PROVE  NamesInv'
    BY <1>1, <2>1 DEF FindForLogin, FindForPassword
  <2>2. ASSUME NEW n \in Names, NEW p \in Passwords, FindForCreate(q, n, p) PROVE NamesInv'
    BY <1>1, <2>2 DEF FindForCreate
  <2>3. ASSUME NEW n \in Names,
               FindForRefresh(q, n) \/ FindForDisable(q, n) \/ FindForEnable(q, n)
        PROVE  NamesInv'
    BY <1>1, <2>3 DEF FindForRefresh, FindForDisable, FindForEnable
  <2>4. ASSUME FindForBootstrap(q) PROVE NamesInv'
    BY <1>1, <2>4 DEF FindForBootstrap
  <2> QED BY <1>2, <2>1, <2>2, <2>3, <2>4 DEF Find
<1>3. ASSUME NEW q \in Requests, Complete(q) PROVE NamesInv'
  <2>1. ASSUME WriteRow(q), Finish(q),
               request[q].op \in Updating \/ request[q].op \in Inserting
        PROVE  NamesInv'
    BY <2>1 DEF WriteRow, Finish, NoRequest
  <2>2. ASSUME UNCHANGED password, Finish(q) PROVE NamesInv'
    BY <2>2 DEF Finish, NoRequest
  <2> QED
    BY <1>3, <2>1, <2>2 DEF Complete, UpdateForLogin, UpdateUser, AnswerRefresh, InsertUser, Abort
<1>4. ASSUME UNCHANGED <<password, request>> PROVE NamesInv'
  BY <1>4
<1> QED BY <1>2, <1>3, <1>4 DEF AccountNext, ExpireAccess, ExpireRefresh, accountVars

\* No two accounts differ in case only, but for the one that the configuration names:
\* CreateUser normalises the name it is given, the bootstrap takes the configured one as it
\* is, and no other request makes one up.
THEOREM NamesNormalised ==
  AccountSpec => [](\A n \in Names : Exists(n) => Lower[n] = n \/ n = InitialName)
<1>1. AccountInit => NamesInv
  BY DEF AccountInit, NamesInv, Exists, NoRequest, Inserting
<1>2. NamesInv => \A n \in Names : Exists(n) => Lower[n] = n \/ n = InitialName
  BY DEF NamesInv
<1> QED BY <1>1, <1>2, NamesStep, TypeCorrect, PTL DEF AccountSpec
===============================================================================
