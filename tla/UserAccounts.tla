----------------------------- MODULE UserAccounts -----------------------------
(***************************************************************************)
(* The admin API's accounts: bootstrap, login, token refresh, and the       *)
(* administration of users.  Each request reads a row of "users" and, some  *)
(* statements later, inserts a row or writes the whole row back, so         *)
(* requests overlap between the two.  A request that is refused changes     *)
(* nothing and is left out, as are the reads (me, users, logout).           *)
(*                                                                         *)
(* A row is known by its username, which is unique and never changes.       *)
(* Tokens are JWTs, not rows: nothing but time ends one.                    *)
(***************************************************************************)
CONSTANTS
  Names,            \* usernames as they can be typed
  Lower,            \* strings.ToLower(strings.TrimSpace(.)) on Names
  Passwords,        \* passwords that meet the policy
  InitialName,      \* INITIAL_ADMIN_USERNAME
  InitialPassword,  \* INITIAL_ADMIN_PASSWORD
  Requests,         \* request slots, the start of a server included
  NoRow

ASSUME AccountsAssumption ==
  /\ Lower \in [Names -> Names]
  /\ \A n \in Names : Lower[Lower[n]] = Lower[n]
  /\ InitialName \in Names
  /\ InitialPassword \in Passwords
  /\ NoRow \notin Passwords
  /\ NoRow \notin BOOLEAN
  /\ NoRow \notin [kind : {"insert", "restore", "choose"}, row : Names,
                   value : Passwords \cup BOOLEAN]

VARIABLES
  password,  \* [Names -> what password_hash is the hash of], NoRow without a row
  disabled,  \* names of the rows whose disabled_at is set
  access,    \* names that have an access token which has not expired
  refresh,   \* names that have a refresh token which has not expired
  request    \* [Requests -> the operation and the row it is going to write]

accountVars == <<password, disabled, access, refresh, request>>

Updating == {"login", "changePassword", "disableUser", "enableUser"}
Inserting == {"createUser", "bootstrap"}

Exists(n) == password[n] # NoRow
Row(n) == [name |-> n, password |-> password[n], disabled |-> n \in disabled]

NoRequest == [op |-> "none", name |-> InitialName, password |-> InitialPassword,
              disabled |-> FALSE]

AccountTypeOK ==
  /\ password \in [Names -> Passwords \cup {NoRow}]
  /\ disabled \subseteq {n \in Names : Exists(n)}
  /\ access \subseteq {n \in Names : Exists(n)}
  /\ refresh \subseteq {n \in Names : Exists(n)}
  /\ request \in [Requests -> [op : Updating \cup Inserting \cup {"refresh", "none"},
                               name : Names, password : Passwords, disabled : BOOLEAN]]
  /\ \A q \in Requests :
       /\ request[q].op \in Updating \cup {"refresh"} => Exists(request[q].name)
       /\ request[q].op \in Inserting => ~request[q].disabled

AccountInit ==
  /\ password = [n \in Names |-> NoRow]
  /\ disabled = {}
  /\ access = {}
  /\ refresh = {}
  /\ request = [q \in Requests |-> NoRequest]

-----------------------------------------------------------------------------
\* The first statements of a request: it goes on to op with this row.
Proceed(q, op, row) ==
  /\ request[q].op = "none"
  /\ request' = [request EXCEPT ![q] =
       [op |-> op, name |-> row.name, password |-> row.password, disabled |-> row.disabled]]
  /\ UNCHANGED <<password, disabled, access, refresh>>

\* The routes of rest.WithJwt: a valid access token is all that is asked for.
Authorized == access # {}

\* Login compares disabled_at and the password with the row it has read.  The mutant
\* forgets disabled_at.
FindForLogin_AnyUser(q, n, p) ==
  /\ Exists(n)
  /\ p = password[n]
  /\ Proceed(q, "login", Row(n))
FindForLogin(q, n, p) ==
  /\ Exists(n)
  /\ n \notin disabled
  /\ p = password[n]
  /\ Proceed(q, "login", Row(n))

\* validateActiveUser of the row found.  One mutant trusts the refresh token, the other
\* goes on with a row that was not found.
Active_Always(n) == Exists(n)
Active_Unfound(n) == n \notin disabled
Active(n) == Exists(n) /\ n \notin disabled

FindForRefresh(q, n) ==
  /\ n \in refresh
  /\ Active(n)
  /\ Proceed(q, "refresh", Row(n))

\* ChangePassword, of any user.  The mutant builds the row it writes from the request,
\* and so clears disabled_at.
FindForPassword_Afresh(q, n, p) ==
  /\ Authorized
  /\ Exists(n)
  /\ Proceed(q, "changePassword", [name |-> n, password |-> p, disabled |-> FALSE])
FindForPassword(q, n, p) ==
  /\ Authorized
  /\ Exists(n)
  /\ Proceed(q, "changePassword", [Row(n) EXCEPT !.password = p])

\* A user who is disabled already, or enabled already, is not written again.
FindForDisable(q, n) ==
  /\ Authorized
  /\ Active(n)
  /\ Proceed(q, "disableUser", [Row(n) EXCEPT !.disabled = TRUE])

FindForEnable(q, n) ==
  /\ Authorized
  /\ n \in disabled
  /\ Proceed(q, "enableUser", [Row(n) EXCEPT !.disabled = FALSE])

\* CreateUser looks the normalised name up.
FindForCreate(q, n, p) ==
  /\ Authorized
  /\ ~Exists(Lower[n])
  /\ Proceed(q, "createUser", [name |-> Lower[n], password |-> p, disabled |-> FALSE])

\* A server starts: BootstrapInitialAdmin finds no user at all.
FindForBootstrap(q) ==
  /\ \A n \in Names : ~Exists(n)
  /\ Proceed(q, "bootstrap",
             [name |-> InitialName, password |-> InitialPassword, disabled |-> FALSE])

-----------------------------------------------------------------------------
Finish(q) == request' = [request EXCEPT ![q] = NoRequest]

\* update users set every column where id = $1
WriteRow(q) ==
  /\ password' = [password EXCEPT ![request[q].name] = request[q].password]
  /\ disabled' = IF request[q].disabled THEN disabled \cup {request[q].name}
                                        ELSE disabled \ {request[q].name}

\* newAccessToken and newRefreshToken
IssueTokens(n) ==
  /\ access' = access \cup {n}
  /\ refresh' = refresh \cup {n}

\* Login writes the row back with last_login_at, and answers with new tokens.
UpdateForLogin(q) ==
  /\ request[q].op = "login"
  /\ WriteRow(q)
  /\ IssueTokens(request[q].name)
  /\ Finish(q)

UpdateUser(q) ==
  /\ request[q].op \in Updating \ {"login"}
  /\ WriteRow(q)
  /\ Finish(q)
  /\ UNCHANGED <<access, refresh>>

AnswerRefresh(q) ==
  /\ request[q].op = "refresh"
  /\ IssueTokens(request[q].name)
  /\ Finish(q)
  /\ UNCHANGED <<password, disabled>>

\* insert into users: the unique constraint on username refuses a second row, and the
\* request ends with an error.  In the mutant the last insert wins.
InsertUser_Upsert(q) ==
  /\ request[q].op \in Inserting
  /\ WriteRow(q)
  /\ Finish(q)
  /\ UNCHANGED <<access, refresh>>
InsertUser(q) ==
  /\ request[q].op \in Inserting
  /\ IF Exists(request[q].name) THEN UNCHANGED <<password, disabled>> ELSE WriteRow(q)
  /\ Finish(q)
  /\ UNCHANGED <<access, refresh>>

\* A statement fails, or the server stops.
Abort(q) ==
  /\ request[q].op # "none"
  /\ Finish(q)
  /\ UNCHANGED <<password, disabled, access, refresh>>

\* Time passes: the last access token, or refresh token, of n expires.
ExpireAccess(n) ==
  /\ n \in access
  /\ access' = access \ {n}
  /\ UNCHANGED <<password, disabled, refresh, request>>

ExpireRefresh(n) ==
  /\ n \in refresh
  /\ refresh' = refresh \ {n}
  /\ UNCHANGED <<password, disabled, access, request>>

-----------------------------------------------------------------------------
Find(q) ==
  \/ \E n \in Names, p \in Passwords :
       FindForLogin(q, n, p) \/ FindForPassword(q, n, p) \/ FindForCreate(q, n, p)
  \/ \E n \in Names : FindForRefresh(q, n) \/ FindForDisable(q, n) \/ FindForEnable(q, n)
  \/ FindForBootstrap(q)

Complete(q) ==
  UpdateForLogin(q) \/ UpdateUser(q) \/ AnswerRefresh(q) \/ InsertUser(q) \/ Abort(q)

AccountNext ==
  \/ \E q \in Requests : Find(q) \/ Complete(q)
  \/ \E n \in Names : ExpireAccess(n) \/ ExpireRefresh(n)

AccountSpec == AccountInit /\ [][AccountNext]_accountVars

\* A request that has begun ends, and a token expires at its time.
AccountFairness ==
  /\ \A q \in Requests : WF_accountVars(Complete(q))
  /\ \A n \in Names : WF_accountVars(ExpireAccess(n)) /\ WF_accountVars(ExpireRefresh(n))

FairAccountSpec == AccountSpec /\ AccountFairness

-----------------------------------------------------------------------------
\* What a request is going to do to a column, into which it writes v: one whose operation
\* is on this column chooses the value, every other one restores what it read.
WriteOf(r, choosers, v) ==
  IF r.op \in Updating \cup Inserting
  THEN [kind |-> IF r.op \in Inserting THEN "insert"
                 ELSE IF r.op \in choosers THEN "choose" ELSE "restore",
        row |-> r.name,
        value |-> v]
  ELSE NoRow

DisabledAt == INSTANCE RowColumn WITH
  Rows <- Names, Absent <- NoRow, Fresh <- {FALSE}, Chosen <- BOOLEAN, NoWrite <- NoRow,
  value <- [n \in Names |-> IF Exists(n) THEN n \in disabled ELSE NoRow],
  pending <- [q \in Requests |->
                WriteOf(request[q], {"disableUser", "enableUser"}, request[q].disabled)]

PasswordHash == INSTANCE RowColumn WITH
  Rows <- Names, Absent <- NoRow, Fresh <- Passwords, Chosen <- Passwords,
  NoWrite <- NoRow, value <- password,
  pending <- [q \in Requests |->
                WriteOf(request[q], {"changePassword"}, request[q].password)]

\* disabled_at changes only by a request that disables or enables the user, and
\* password_hash by one that changes the password, or else by a request that read the
\* row earlier and restores what it read.  No other request makes a column up, and
\* neither a late bootstrap nor an overlapping create touches an account that exists.
AccountColumns == DisabledAt!ColumnSpec /\ PasswordHash!ColumnSpec

\* n is disabled, has no token, and no request under way can give either back, save
\* one that enables n.
LockedOut(n) ==
  /\ n \in disabled
  /\ n \notin access \cup refresh
  /\ \A q \in Requests :
       request[q].name = n /\ request[q].op \in (Updating \cup {"refresh"}) \ {"enableUser"}
       => request[q].op # "refresh" /\ request[q].disabled

\* Someone who is locked out gets back in by being enabled and in no other way: not by
\* a login, not with a refresh token, not by a change of the password.
LockoutHolds ==
  [][\A n \in Names : LockedOut(n) /\ ~LockedOut(n)'
       => \E q \in Requests : request[q].op = "enableUser" /\ request[q].name = n
                              /\ request'[q].op = "none"]_accountVars

\* Disabling works in the end: who stays disabled is locked out for good, when the
\* requests under way have ended and the tokens have expired.
DisabledUsersRunOut ==
  \A n \in Names : <>[](n \in disabled) => <>[]LockedOut(n)
===============================================================================
