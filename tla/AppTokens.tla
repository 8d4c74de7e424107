------------------------------ MODULE AppTokens ------------------------------
(***************************************************************************)
(* Apps and their API tokens, and the middleware that lets a token into the *)
(* upload endpoints of its app.  Requests of the admin API and uploads of   *)
(* CI overlap: each reads rows of "apps" and "api_tokens" and writes a      *)
(* whole row back later.  A refused request changes nothing and is left     *)
(* out, as are the listings.                                                *)
(*                                                                         *)
(* An app is known by its slug, which is unique and immutable, and which a  *)
(* deleted app keeps.  The name of an app and last_used_at of a token are   *)
(* left out: their writers matter here for what else they write.           *)
(***************************************************************************)
CONSTANTS Apps, Tokens, AppOf, Requests, None

ASSUME AppsAssumption ==
  /\ AppOf \in [Tokens -> Apps]
  /\ None \notin Apps \cup Tokens \cup BOOLEAN
  /\ None \notin [kind : {"insert", "restore", "choose"}, row : Apps \cup Tokens,
                  value : BOOLEAN]

VARIABLES
  deletedAt,  \* [Apps -> deleted_at is set], None for a slug without a row
  revokedAt,  \* [Tokens -> revoked_at is set], None for a token not created
  expired,    \* tokens whose expires_at has passed
  at,         \* [Requests -> the statement the request executes next]
  app,        \* [Requests -> the app the request is about]
  token       \* [Requests -> the token it is about, or None]

appVars == <<deletedAt, revokedAt, expired, at, app, token>>

\* Where an admin request can be after it has found the app, and an upload after it
\* has found the token.
AdminStatements == {"insertApp", "updateApp", "deleteApp", "insertToken", "findToken",
                    "revokeToken"}
UploadStatements == {"findTokenApp", "touchToken", "findAppAgain", "upload"}
\* A request there holds a token it has found neither revoked nor expired.
HoldsToken == {"revokeToken"} \cup UploadStatements

AppTypeOK ==
  /\ deletedAt \in [Apps -> BOOLEAN \cup {None}]
  /\ revokedAt \in [Tokens -> BOOLEAN \cup {None}]
  /\ expired \subseteq {t \in Tokens : revokedAt[t] # None}
  /\ at \in [Requests -> AdminStatements \cup UploadStatements \cup {"idle"}]
  /\ app \in [Requests -> Apps \cup {None}]
  /\ token \in [Requests -> Tokens \cup {None}]
  /\ \A t \in Tokens : revokedAt[t] # None => deletedAt[AppOf[t]] # None
  /\ \A q \in Requests :
       /\ at[q] # "idle" => app[q] # None
       /\ at[q] \in {"findToken", "insertToken"} \cup HoldsToken => token[q] # None
       /\ at[q] \in {"updateApp", "deleteApp", "insertToken", "touchToken"}
          => deletedAt[app[q]] # None
       /\ at[q] = "insertToken"
          => AppOf[token[q]] = app[q] /\ revokedAt[token[q]] = None
       /\ at[q] \in HoldsToken
          => /\ revokedAt[token[q]] # None
             /\ at[q] # "findTokenApp" => AppOf[token[q]] = app[q]

AppInit ==
  /\ deletedAt = [a \in Apps |-> None]
  /\ revokedAt = [t \in Tokens |-> None]
  /\ expired = {}
  /\ at = [q \in Requests |-> "idle"]
  /\ app = [q \in Requests |-> None]
  /\ token = [q \in Requests |-> None]

Goto(q, statement) == at' = [at EXCEPT ![q] = statement]

\* A request begins, and goes on to its next statement about app a and token t.
Begin(q, statement, a, t) ==
  /\ at[q] = "idle"
  /\ Goto(q, statement)
  /\ app' = [app EXCEPT ![q] = a]
  /\ token' = [token EXCEPT ![q] = t]
  /\ UNCHANGED <<deletedAt, revokedAt, expired>>

End(q) ==
  /\ Goto(q, "idle")
  /\ app' = [app EXCEPT ![q] = None]
  /\ token' = [token EXCEPT ![q] = None]

-----------------------------------------------------------------------------
\* findActiveApp; the mutant finds deleted apps too.
ActiveApp_AnyRow(a) == deletedAt[a] # None
ActiveApp(a) == deletedAt[a] = FALSE

\* CreateApp: no row has the slug, deleted or not.
FindSlug(q, a) == deletedAt[a] = None /\ Begin(q, "insertApp", a, None)

\* insert into apps, under the unique constraint on app_slug.  In the mutant the last
\* insert wins.
InsertApp_Upsert(q) ==
  /\ at[q] = "insertApp"
  /\ deletedAt' = [deletedAt EXCEPT ![app[q]] = FALSE]
  /\ End(q)
  /\ UNCHANGED <<revokedAt, expired>>
InsertApp(q) ==
  /\ at[q] = "insertApp"
  /\ deletedAt' = IF deletedAt[app[q]] = None THEN [deletedAt EXCEPT ![app[q]] = FALSE]
                                                ELSE deletedAt
  /\ End(q)
  /\ UNCHANGED <<revokedAt, expired>>

\* UpdateApp and DeleteApp find the active app and write its row back: the one with the
\* deleted_at it has read, that is null, the other with the time.
FindAppToUpdate(q, a) == ActiveApp(a) /\ Begin(q, "updateApp", a, None)
FindAppToDelete(q, a) == ActiveApp(a) /\ Begin(q, "deleteApp", a, None)

UpdateApp(q) ==
  /\ at[q] = "updateApp"
  /\ deletedAt' = [deletedAt EXCEPT ![app[q]] = FALSE]
  /\ End(q)
  /\ UNCHANGED <<revokedAt, expired>>

DeleteApp(q) ==
  /\ at[q] = "deleteApp"
  /\ deletedAt' = [deletedAt EXCEPT ![app[q]] = TRUE]
  /\ End(q)
  /\ UNCHANGED <<revokedAt, expired>>

\* CreateApiToken finds the active app, makes a token and inserts it: t is fresh.
FindAppForToken(q, a, t) ==
  /\ ActiveApp(a)
  /\ AppOf[t] = a
  /\ revokedAt[t] = None
  /\ \A r \in Requests : at[r] = "insertToken" => token[r] # t
  /\ Begin(q, "insertToken", a, t)

InsertToken(q) ==
  /\ at[q] = "insertToken"
  /\ revokedAt' = [revokedAt EXCEPT ![token[q]] = FALSE]
  /\ End(q)
  /\ UNCHANGED <<deletedAt, expired>>

\* RevokeApiToken finds the active app, then the token, and writes the token's row
\* unless it is revoked already.  The mutant revokes the token of any app.
FindAppToRevoke(q, a, t) == ActiveApp(a) /\ Begin(q, "findToken", a, t)

FindTokenToRevoke_AnyApp(q) ==
  /\ at[q] = "findToken"
  /\ revokedAt[token[q]] = FALSE
  /\ Goto(q, "revokeToken")
  /\ UNCHANGED <<deletedAt, revokedAt, expired, app, token>>
FindTokenToRevoke(q) ==
  /\ at[q] = "findToken"
  /\ revokedAt[token[q]] = FALSE
  /\ AppOf[token[q]] = app[q]
  /\ Goto(q, "revokeToken")
  /\ UNCHANGED <<deletedAt, revokedAt, expired, app, token>>

RevokeToken(q) ==
  /\ at[q] = "revokeToken"
  /\ revokedAt' = [revokedAt EXCEPT ![token[q]] = TRUE]
  /\ End(q)
  /\ UNCHANGED <<deletedAt, expired>>

-----------------------------------------------------------------------------
\* validate: the token is found by its hash.  The mutant forgets that it may have
\* expired.
Valid_Unrevoked(t) == revokedAt[t] = FALSE
Valid(t) == revokedAt[t] = FALSE /\ t \notin expired

FindToken(q, a, t) == Valid(t) /\ Begin(q, "findTokenApp", a, t)

\* authorize: the path names the token's own app, which is active.
Authorize(q) ==
  /\ at[q] = "findTokenApp"
  /\ ActiveApp(app[q])
  /\ AppOf[token[q]] = app[q]
  /\ Goto(q, "touchToken")
  /\ UNCHANGED <<deletedAt, revokedAt, expired, app, token>>

\* The row that was found is written back with last_used_at; a failure is only logged.
TouchToken(q) ==
  /\ at[q] = "touchToken"
  /\ revokedAt' \in {revokedAt, [revokedAt EXCEPT ![token[q]] = FALSE]}
  /\ Goto(q, "findAppAgain")
  /\ UNCHANGED <<deletedAt, expired, app, token>>

\* PlanUpload and FinalizeUpload find the active app again, and only then go to work.
\* The mutant writes last_used_at once more.
BeginUpload_TouchesAgain(q) ==
  /\ at[q] = "findAppAgain"
  /\ ActiveApp(app[q])
  /\ revokedAt' = [revokedAt EXCEPT ![token[q]] = FALSE]
  /\ Goto(q, "upload")
  /\ UNCHANGED <<deletedAt, expired, app, token>>
BeginUpload(q) ==
  /\ at[q] = "findAppAgain"
  /\ ActiveApp(app[q])
  /\ Goto(q, "upload")
  /\ UNCHANGED <<deletedAt, revokedAt, expired, app, token>>

FinishUpload(q) ==
  /\ at[q] = "upload"
  /\ End(q)
  /\ UNCHANGED <<deletedAt, revokedAt, expired>>

\* The request is refused by what it finds, a statement fails, or the server stops.
Abort(q) ==
  /\ at[q] # "idle"
  /\ End(q)
  /\ UNCHANGED <<deletedAt, revokedAt, expired>>

\* expires_at of the token passes.
Expire(t) ==
  /\ revokedAt[t] # None
  /\ t \notin expired
  /\ expired' = expired \cup {t}
  /\ UNCHANGED <<deletedAt, revokedAt, at, app, token>>

Start(q) ==
  \/ \E a \in Apps :
       FindSlug(q, a) \/ FindAppToUpdate(q, a) \/ FindAppToDelete(q, a)
  \/ \E a \in Apps, t \in Tokens :
       FindAppForToken(q, a, t) \/ FindAppToRevoke(q, a, t) \/ FindToken(q, a, t)

Advance(q) ==
  \/ InsertApp(q) \/ UpdateApp(q) \/ DeleteApp(q)
  \/ InsertToken(q) \/ FindTokenToRevoke(q) \/ RevokeToken(q)
  \/ Authorize(q) \/ TouchToken(q) \/ BeginUpload(q) \/ FinishUpload(q)
  \/ Abort(q)

AppNext ==
  \/ \E q \in Requests : Start(q) \/ Advance(q)
  \/ \E t \in Tokens : Expire(t)

AppSpec == AppInit /\ [][AppNext]_appVars

-----------------------------------------------------------------------------
\* What a request that is at this statement is going to write to the row of its app, and
\* to the row of its token.
WriteToApp(statement, a) ==
  CASE statement = "insertApp" -> [kind |-> "insert", row |-> a, value |-> FALSE]
    [] statement = "updateApp" -> [kind |-> "restore", row |-> a, value |-> FALSE]
    [] statement = "deleteApp" -> [kind |-> "choose", row |-> a, value |-> TRUE]
    [] OTHER -> None

WriteToToken(statement, t) ==
  CASE statement = "insertToken" -> [kind |-> "insert", row |-> t, value |-> FALSE]
    [] statement = "revokeToken" -> [kind |-> "choose", row |-> t, value |-> TRUE]
    [] statement \in {"findTokenApp", "touchToken"} ->
         [kind |-> "restore", row |-> t, value |-> FALSE]
    [] OTHER -> None

DeletedAt == INSTANCE RowColumn WITH
  Rows <- Apps, Absent <- None, Fresh <- {FALSE}, Chosen <- {TRUE}, NoWrite <- None,
  value <- deletedAt,
  pending <- [q \in Requests |-> WriteToApp(at[q], app[q])]

RevokedAt == INSTANCE RowColumn WITH
  Rows <- Tokens, Absent <- None, Fresh <- {FALSE}, Chosen <- {TRUE}, NoWrite <- None,
  value <- revokedAt,
  pending <- [q \in Requests |-> WriteToToken(at[q], token[q])]

\* Only a delete sets deleted_at, and only an UpdateApp that had found the app before
\* clears it: a slug is never inserted a second time.  Only a revocation sets
\* revoked_at, and only an upload that had found the token valid before, and writes
\* last_used_at, clears it.
AppColumns == DeletedAt!ColumnSpec /\ RevokedAt!ColumnSpec

\* A token that is revoked or has expired is never let in again, once no upload that
\* found it valid is under way: the revocation can no longer be undone.
CutOff(t) ==
  /\ revokedAt[t] = TRUE \/ t \in expired
  /\ \A q \in Requests : token[q] = t => at[q] \notin UploadStatements

RevocationHolds == [][\A t \in Tokens : CutOff(t) => CutOff(t)']_appVars

\* A deleted app stays deleted, gets no token and takes no upload, once no request that
\* found it active is under way.
Gone(a) ==
  /\ deletedAt[a] = TRUE
  /\ \A q \in Requests :
       app[q] = a => at[q] \notin {"updateApp", "insertToken", "touchToken", "findAppAgain",
                                  "upload"}

DeletionHolds == [][\A a \in Apps : Gone(a) => Gone(a)']_appVars
===============================================================================
