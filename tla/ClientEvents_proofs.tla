--------------------------- MODULE ClientEvents_proofs ---------------------------
(***************************************************************************)
(* Theorems about ClientEvents and the admin requests it is composed with   *)
(* (AppTokens): event rows, and the lives of apps and tokens, under any     *)
(* interleaving of deliveries, uploads and admin requests.                  *)
(*                                                                         *)
(* The lemmas about AppTokens come first.  They are stated for single       *)
(* steps, since the composed specification contains the actions of that one. *)
(***************************************************************************)
EXTENDS ClientEvents, FiniteSetTheorems, TLAPS

-----------------------------------------------------------------------------
(***************************************************************************)
(* Apps and tokens.                                                         *)
(***************************************************************************)

\* A fresh token is made for one request: no two are about to insert the same one.
FreshTokens ==
  \A q, r \in Requests :
    at[q] = "insertToken" /\ at[r] = "insertToken" /\ token[q] = token[r] => q = r

\* The inductive invariant: AppTypeOK says of a token that is about to be inserted that
\* it has no row yet, which another insert of it would break.
AppInv == AppTypeOK /\ FreshTokens

\* The invariant holds initially.
LEMMA AppInitInv == AppInit => AppInv
BY AppsAssumption
DEF AppInit, AppInv, FreshTokens, AppTypeOK, AdminStatements, UploadStatements, HoldsToken

\* A request that ends keeps the invariant if what it wrote has the right type, removes
\* no row, and adds no row of a token without an app or that another request is making.
LEMMA EndKeepsInv ==
  ASSUME AppInv, NEW q \in Requests, End(q),
         deletedAt' \in [Apps -> BOOLEAN \cup {None}],
         revokedAt' \in [Tokens -> BOOLEAN \cup {None}],
         expired' = expired,
         \A a \in Apps : deletedAt[a] # None => deletedAt'[a] # None,
         \A t \in Tokens : revokedAt[t] # None => revokedAt'[t] # None,
         \A t \in Tokens : revokedAt'[t] # None => deletedAt'[AppOf[t]] # None,
         \A r \in Requests \ {q} : at[r] = "insertToken" => revokedAt'[token[r]] = None
  PROVE  AppInv'
<1> USE AppsAssumption
    DEF AppInv, FreshTokens, AppTypeOK, AdminStatements, UploadStatements, HoldsToken
<1>1. /\ at' \in [Requests -> AdminStatements \cup UploadStatements \cup {"idle"}]
      /\ app' \in [Requests -> Apps \cup {None}]
      /\ token' \in [Requests -> Tokens \cup {None}]
      /\ at'[q] = "idle"
      /\ \A r \in Requests \ {q} : at'[r] = at[r] /\ app'[r] = app[r] /\ token'[r] = token[r]
  BY DEF End, Goto
<1>2. FreshTokens'
  BY <1>1
<1>3. expired' \subseteq {t \in Tokens : revokedAt'[t] # None}
  OBVIOUS
<1>4. ASSUME NEW r \in Requests \ {q}
      PROVE  /\ at'[r] # "idle" => app'[r] # None
             /\ at'[r] \in {"findToken", "insertToken"} \cup HoldsToken => token'[r] # None
             /\ at'[r] \in {"updateApp", "deleteApp", "insertToken", "touchToken"}
                => deletedAt'[app'[r]] # None
             /\ at'[r] = "insertToken"
                => AppOf[token'[r]] = app'[r] /\ revokedAt'[token'[r]] = None
             /\ at'[r] \in HoldsToken
                => /\ revokedAt'[token'[r]] # None
                   /\ at'[r] # "findTokenApp" => AppOf[token'[r]] = app'[r]
  <2>1. at'[r] = at[r] /\ app'[r] = app[r] /\ token'[r] = token[r]
    BY <1>1
  <2>2. at[r] \in {"updateApp", "deleteApp", "insertToken", "touchToken"}
        => app[r] \in Apps /\ deletedAt[app[r]] # None
    OBVIOUS
  <2>3. at[r] \in HoldsToken => token[r] \in Tokens /\ revokedAt[token[r]] # None
    OBVIOUS
  <2> QED BY <2>1, <2>2, <2>3
<1> QED BY <1>1, <1>2, <1>3, <1>4

\* Every statement of a request keeps it, and so does the passing of time.
LEMMA AppNextInv == AppInv /\ [AppNext]_appVars => AppInv'
<1> SUFFICES ASSUME AppInv, [AppNext]_appVars PROVE AppInv'
  OBVIOUS
<1> USE AppsAssumption
    DEF AppInv, FreshTokens, AppTypeOK, AdminStatements, UploadStatements, HoldsToken
<1>1. ASSUME NEW q \in Requests, NEW a \in Apps,
             FindSlug(q, a) \/ FindAppToUpdate(q, a) \/ FindAppToDelete(q, a)
      PROVE  AppInv'
  <2>1. CASE FindSlug(q, a)
    BY <2>1 DEF FindSlug, Begin, Goto
  <2>2. CASE FindAppToUpdate(q, a)
    BY <2>2 DEF FindAppToUpdate, ActiveApp, Begin, Goto
  <2>3. CASE FindAppToDelete(q, a)
    BY <2>3 DEF FindAppToDelete, ActiveApp, Begin, Goto
  <2> QED BY <1>1, <2>1, <2>2, <2>3
<1>2. ASSUME NEW q \in Requests, NEW a \in Apps, NEW t \in Tokens,
             FindAppForToken(q, a, t) \/ FindAppToRevoke(q, a, t) \/ FindToken(q, a, t)
      PROVE  AppInv'
  <2>1. CASE FindAppForToken(q, a, t)
    BY <2>1 DEF FindAppForToken, ActiveApp, Begin, Goto
  <2>2. CASE FindAppToRevoke(q, a, t)
    BY <2>2 DEF FindAppToRevoke, ActiveApp, Begin, Goto
  <2>3. CASE FindToken(q, a, t)
    BY <2>3 DEF FindToken, Valid, Begin, Goto
  <2> QED BY <1>2, <2>1, <2>2, <2>3
<1>3. ASSUME NEW q \in Requests, Advance(q) PROVE AppInv'
  <2>1. CASE InsertApp(q) \/ UpdateApp(q) \/ DeleteApp(q)
    <3>1. /\ End(q) /\ revokedAt' = revokedAt /\ expired' = expired
          /\ deletedAt' \in [Apps -> BOOLEAN \cup {None}]
          /\ \A a \in Apps : deletedAt[a] # None => deletedAt'[a] # None
      BY <2>1 DEF InsertApp, UpdateApp, DeleteApp
    <3>2. \A t \in Tokens : revokedAt'[t] # None => deletedAt'[AppOf[t]] # None
      BY <3>1
    <3> QED BY <3>1, <3>2, EndKeepsInv
  <2>2. CASE InsertToken(q)
    <3>1. /\ token[q] \in Tokens
          /\ deletedAt[AppOf[token[q]]] # None
          /\ \A r \in Requests : at[r] = "insertToken" /\ token[r] = token[q] => r = q
      BY <2>2 DEF InsertToken
    <3>2. /\ End(q) /\ deletedAt' = deletedAt /\ expired' = expired
          /\ revokedAt' \in [Tokens -> BOOLEAN \cup {None}]
          /\ revokedAt' = [revokedAt EXCEPT ![token[q]] = FALSE]
      BY <2>2, <3>1 DEF InsertToken
    <3>3. ASSUME NEW r \in Requests \ {q}, at[r] = "insertToken"
          PROVE  revokedAt'[token[r]] = None
      <4>1. token[r] \in Tokens /\ token[r] # token[q] /\ revokedAt[token[r]] = None
        BY <3>1, <3>3
      <4> QED BY <4>1, <3>2
    <3>4. \A t \in Tokens : revokedAt[t] # None => revokedAt'[t] # None
      BY <3>1, <3>2
    <3>5. ASSUME NEW t \in Tokens, revokedAt'[t] # None
          PROVE  deletedAt'[AppOf[t]] # None
      <4>1. CASE t = token[q]
        BY <4>1, <3>1, <3>2
      <4>2. CASE t # token[q]
        <5>1. revokedAt'[t] = revokedAt[t]
          BY <4>2, <3>2
        <5> QED BY <5>1, <3>2, <3>5
      <4> QED BY <4>1, <4>2
    <3> QED BY <3>2, <3>3, <3>4, <3>5, EndKeepsInv
  <2>3. CASE FindTokenToRevoke(q)
    BY <2>3 DEF FindTokenToRevoke, Goto
  <2>4. CASE RevokeToken(q)
    <3>1. token[q] \in Tokens /\ revokedAt[token[q]] # None
      BY <2>4 DEF RevokeToken
    <3>2. /\ End(q) /\ deletedAt' = deletedAt /\ expired' = expired
          /\ revokedAt' \in [Tokens -> BOOLEAN \cup {None}]
          /\ \A t \in Tokens : revokedAt'[t] = None <=> revokedAt[t] = None
      BY <2>4, <3>1 DEF RevokeToken
    <3>3. \A r \in Requests \ {q} : at[r] = "insertToken" => revokedAt'[token[r]] = None
      BY <3>2
    <3> QED BY <3>2, <3>3, EndKeepsInv
  <2>5. CASE Authorize(q)
    BY <2>5 DEF Authorize, ActiveApp, Goto
  <2>6. CASE TouchToken(q)
    <3>1. token[q] \in Tokens /\ revokedAt[token[q]] # None
      BY <2>6 DEF TouchToken
    <3>2. /\ revokedAt' \in [Tokens -> BOOLEAN \cup {None}]
          /\ \A t \in Tokens : revokedAt'[t] = None <=> revokedAt[t] = None
      BY <2>6, <3>1 DEF TouchToken
    <3> QED BY <2>6, <3>2 DEF TouchToken, Goto
  <2>7. CASE BeginUpload(q) \/ FinishUpload(q) \/ Abort(q)
    BY <2>7 DEF BeginUpload, FinishUpload, Abort, End, Goto
  <2> QED BY <1>3, <2>1, <2>2, <2>3, <2>4, <2>5, <2>6, <2>7 DEF Advance
<1>4. ASSUME NEW t \in Tokens, Expire(t) PROVE AppInv'
  BY <1>4 DEF Expire
<1>5. CASE UNCHANGED appVars
  BY <1>5 DEF appVars
<1> QED BY <1>1, <1>2, <1>3, <1>4, <1>5 DEF AppNext, Start

-----------------------------------------------------------------------------
\* One step of RevocationHolds: only a request that holds a token it has found valid
\* writes null into revoked_at, and a token that is cut off is not found valid.
LEMMA CutOffStays ==
  AppTypeOK /\ [AppNext]_appVars => \A t \in Tokens : CutOff(t) => CutOff(t)'
<1> SUFFICES ASSUME AppTypeOK, [AppNext]_appVars, NEW t \in Tokens, CutOff(t)
             PROVE  CutOff(t)'
  OBVIOUS
<1> USE AppsAssumption DEF AppTypeOK, AdminStatements, UploadStatements, HoldsToken, CutOff
<1>1. ASSUME NEW q \in Requests, NEW a \in Apps,
             FindSlug(q, a) \/ FindAppToUpdate(q, a) \/ FindAppToDelete(q, a)
      PROVE  CutOff(t)'
  BY <1>1 DEF FindSlug, FindAppToUpdate, FindAppToDelete, ActiveApp, Begin, Goto
<1>2. ASSUME NEW q \in Requests, NEW a \in Apps, NEW u \in Tokens,
             FindAppForToken(q, a, u) \/ FindAppToRevoke(q, a, u) \/ FindToken(q, a, u)
      PROVE  CutOff(t)'
  <2>1. CASE FindAppForToken(q, a, u) \/ FindAppToRevoke(q, a, u)
    BY <2>1 DEF FindAppForToken, FindAppToRevoke, ActiveApp, Begin, Goto
  <2>2. CASE FindToken(q, a, u)
    <3>1. u # t
      BY <2>2 DEF FindToken, Valid
    <3> QED BY <2>2, <3>1 DEF FindToken, Begin, Goto
  <2> QED BY <1>2, <2>1, <2>2
<1>3. ASSUME NEW q \in Requests, Advance(q) PROVE CutOff(t)'
  <2>1. CASE InsertApp(q) \/ UpdateApp(q) \/ DeleteApp(q) \/ FinishUpload(q) \/ Abort(q)
    BY <2>1 DEF InsertApp, UpdateApp, DeleteApp, FinishUpload, Abort, End, Goto
  <2>2. CASE InsertToken(q)
    <3>1. at[q] = "insertToken" /\ revokedAt[token[q]] = None /\ None # TRUE
      BY <2>2 DEF InsertToken
    <3>2. token[q] \in Tokens
      BY <3>1
    <3>3. token[q] # t
      BY <3>1, <3>2
    <3> QED BY <2>2, <3>2, <3>3 DEF InsertToken, End, Goto
  <2>3. CASE RevokeToken(q)
    BY <2>3 DEF RevokeToken, End, Goto
  <2>4. CASE FindTokenToRevoke(q) \/ Authorize(q) \/ BeginUpload(q)
    BY <2>4 DEF FindTokenToRevoke, Authorize, BeginUpload, Goto
  <2>5. CASE TouchToken(q)
    <3>1. token[q] \in Tokens /\ token[q] # t
      BY <2>5 DEF TouchToken
    <3> QED BY <2>5, <3>1 DEF TouchToken, Goto
  <2> QED BY <1>3, <2>1, <2>2, <2>3, <2>4, <2>5 DEF Advance
<1>4. ASSUME NEW u \in Tokens, Expire(u) PROVE CutOff(t)'
  BY <1>4 DEF Expire
<1>5. CASE UNCHANGED appVars
  BY <1>5 DEF appVars
<1> QED BY <1>1, <1>2, <1>3, <1>4, <1>5 DEF AppNext, Start

\* One step of DeletionHolds: the statements that need the app active are reached only
\* from a lookup that finds it active.
LEMMA GoneStays ==
  AppTypeOK /\ [AppNext]_appVars => \A a \in Apps : Gone(a) => Gone(a)'
<1> SUFFICES ASSUME AppTypeOK, [AppNext]_appVars, NEW a \in Apps, Gone(a)
             PROVE  Gone(a)'
  OBVIOUS
<1> USE AppsAssumption DEF AppTypeOK, AdminStatements, UploadStatements, HoldsToken, Gone
<1>1. ASSUME NEW q \in Requests, NEW b \in Apps,
             FindSlug(q, b) \/ FindAppToUpdate(q, b) \/ FindAppToDelete(q, b)
      PROVE  Gone(a)'
  BY <1>1 DEF FindSlug, FindAppToUpdate, FindAppToDelete, ActiveApp, Begin, Goto
<1>2. ASSUME NEW q \in Requests, NEW b \in Apps, NEW t \in Tokens,
             FindAppForToken(q, b, t) \/ FindAppToRevoke(q, b, t) \/ FindToken(q, b, t)
      PROVE  Gone(a)'
  BY <1>2 DEF FindAppForToken, FindAppToRevoke, FindToken, ActiveApp, Begin, Goto
<1>3. ASSUME NEW q \in Requests, Advance(q) PROVE Gone(a)'
  <2>1. CASE InsertApp(q)
    BY <2>1 DEF InsertApp, End, Goto
  <2>2. CASE UpdateApp(q)
    <3>1. app[q] \in Apps /\ app[q] # a
      BY <2>2 DEF UpdateApp
    <3> QED BY <2>2, <3>1 DEF UpdateApp, End, Goto
  <2>3. CASE DeleteApp(q)
    BY <2>3 DEF DeleteApp, End, Goto
  <2>4. CASE InsertToken(q) \/ RevokeToken(q) \/ FinishUpload(q) \/ Abort(q)
    BY <2>4 DEF InsertToken, RevokeToken, FinishUpload, Abort, End, Goto
  <2>5. CASE FindTokenToRevoke(q) \/ TouchToken(q)
    BY <2>5 DEF FindTokenToRevoke, TouchToken, Goto
  <2>6. CASE Authorize(q) \/ BeginUpload(q)
    BY <2>6 DEF Authorize, BeginUpload, ActiveApp, Goto
  <2> QED BY <1>3, <2>1, <2>2, <2>3, <2>4, <2>5, <2>6 DEF Advance
<1>4. ASSUME NEW t \in Tokens, Expire(t) PROVE Gone(a)'
  BY <1>4 DEF Expire
<1>5. CASE UNCHANGED appVars
  BY <1>5 DEF appVars
<1> QED BY <1>1, <1>2, <1>3, <1>4, <1>5 DEF AppNext, Start

-----------------------------------------------------------------------------
\* The refinement of RowColumn: a step of one request changes what that request is
\* going to write, and nothing else.
LEMMA PendingOnAppStep ==
  ASSUME AppTypeOK, NEW q \in Requests, NEW s, NEW a,
         at' = [at EXCEPT ![q] = s], app' = [app EXCEPT ![q] = a]
  PROVE  [r \in Requests |-> WriteToApp(at[r], app[r])]'
         = [[r \in Requests |-> WriteToApp(at[r], app[r])] EXCEPT ![q] = WriteToApp(s, a)]
<1>1. at'[q] = s /\ app'[q] = a
  BY DEF AppTypeOK
<1>2. \A r \in Requests \ {q} : at'[r] = at[r] /\ app'[r] = app[r]
  BY DEF AppTypeOK
<1>3. \A r \in Requests :
        WriteToApp(at'[r], app'[r])
        = IF r = q THEN WriteToApp(s, a) ELSE WriteToApp(at[r], app[r])
  BY <1>1, <1>2
<1> QED BY <1>3

LEMMA DeletedAtInit == AppInit => DeletedAt!ColumnInit
BY DEF AppInit, DeletedAt!ColumnInit, WriteToApp

\* Every step is a step of the column deleted_at, or does not touch it.
LEMMA DeletedAtStep ==
  AppInv /\ [AppNext]_appVars => [DeletedAt!ColumnNext]_(DeletedAt!columnVars)
<1> SUFFICES ASSUME AppInv, [AppNext]_appVars
             PROVE  [DeletedAt!ColumnNext]_(DeletedAt!columnVars)
  OBVIOUS
<1> DEFINE P == [r \in Requests |-> WriteToApp(at[r], app[r])]
<1>1. ASSUME NEW q \in Requests, NEW s, NEW a \in Apps, NEW t, Begin(q, s, a, t),
             \/ s = "insertApp" /\ deletedAt[a] = None
             \/ s \in {"updateApp", "deleteApp"} /\ ActiveApp(a)
             \/ s \in {"insertToken", "findToken", "findTokenApp"}
      PROVE  [DeletedAt!ColumnNext]_(DeletedAt!columnVars)
  <2>1. P' = [P EXCEPT ![q] = WriteToApp(s, a)]
    BY <1>1, PendingOnAppStep DEF AppInv, Begin, Goto
  <2>2. P[q] = None /\ deletedAt' = deletedAt
    BY <1>1 DEF Begin, WriteToApp
  <2>3. CASE s = "insertApp"
    <3>1. WriteToApp(s, a) = [kind |-> "insert", row |-> a, value |-> FALSE]
      BY <2>3 DEF WriteToApp
    <3>2. DeletedAt!Miss(q, a)
      BY <1>1, <2>1, <2>2, <2>3, <3>1 DEF DeletedAt!Miss, DeletedAt!Prepare
    <3> QED BY <1>1, <3>2 DEF DeletedAt!ColumnNext
  <2>4. CASE s = "updateApp"
    <3>1. WriteToApp(s, a) = [kind |-> "restore", row |-> a, value |-> FALSE]
      BY <2>4 DEF WriteToApp
    <3>2. deletedAt[a] = FALSE /\ deletedAt[a] # None
      BY <1>1, <2>4, AppsAssumption DEF ActiveApp
    <3>3. DeletedAt!Read(q, a)
      BY <2>1, <2>2, <3>1, <3>2 DEF DeletedAt!Read, DeletedAt!Prepare
    <3> QED BY <1>1, <3>3 DEF DeletedAt!ColumnNext
  <2>5. CASE s = "deleteApp"
    <3>1. WriteToApp(s, a) = [kind |-> "choose", row |-> a, value |-> TRUE]
      BY <2>5 DEF WriteToApp
    <3>2. deletedAt[a] # None
      BY <1>1, <2>5, AppsAssumption DEF ActiveApp
    <3>3. DeletedAt!Choose(q, a)
      BY <2>1, <2>2, <3>1, <3>2 DEF DeletedAt!Choose, DeletedAt!Prepare
    <3> QED BY <1>1, <3>3 DEF DeletedAt!ColumnNext
  <2>6. CASE s \in {"insertToken", "findToken", "findTokenApp"}
    <3>1. P' = P
      BY <2>1, <2>2, <2>6 DEF WriteToApp
    <3> QED BY <2>2, <3>1 DEF DeletedAt!columnVars
  <2> QED BY <1>1, <2>3, <2>4, <2>5, <2>6
<1>2. ASSUME NEW q \in Requests, End(q),
             \/ deletedAt' = deletedAt
             \/ /\ at[q] \in {"insertApp", "updateApp"}
                /\ at[q] = "insertApp" <=> deletedAt[app[q]] = None
                /\ deletedAt' = [deletedAt EXCEPT ![app[q]] = FALSE]
             \/ at[q] = "deleteApp" /\ deletedAt' = [deletedAt EXCEPT ![app[q]] = TRUE]
      PROVE  [DeletedAt!ColumnNext]_(DeletedAt!columnVars)
  <2>1. P' = [P EXCEPT ![q] = None]
    <3>1. WriteToApp("idle", None) = None
      BY DEF WriteToApp
    <3>2. /\ AppTypeOK
          /\ at' = [at EXCEPT ![q] = "idle"]
          /\ app' = [app EXCEPT ![q] = None]
      BY <1>2 DEF AppInv, End, Goto
    <3>3. P' = [P EXCEPT ![q] = WriteToApp("idle", None)]
      BY <3>2, PendingOnAppStep
    <3> QED BY <3>1, <3>3
  <2>2. CASE deletedAt' = deletedAt
    <3>1. CASE P[q] = None
      BY <2>1, <2>2, <3>1 DEF DeletedAt!columnVars
    <3>2. CASE P[q] # None
      BY <2>1, <2>2, <3>2 DEF DeletedAt!ColumnNext, DeletedAt!Drop
    <3> QED BY <3>1, <3>2
  <2>3. CASE deletedAt' # deletedAt
    <3>1. app[q] \in Apps
      BY <1>2, <2>3 DEF AppInv, AppTypeOK
    <3>2. P[q] \in [kind : {"insert", "restore", "choose"}, row : Apps \cup Tokens,
                    value : BOOLEAN]
      BY <1>2, <2>3, <3>1 DEF WriteToApp
    <3>3. P[q] # None
      BY <3>2, AppsAssumption
    <3>4. /\ P[q].kind = "insert" <=> deletedAt[P[q].row] = None
          /\ deletedAt' = [deletedAt EXCEPT ![P[q].row] = P[q].value]
      <4>1. CASE at[q] = "insertApp"
        <5>1. P[q] = [kind |-> "insert", row |-> app[q], value |-> FALSE]
          BY <4>1 DEF WriteToApp
        <5>2. P[q].kind = "insert" /\ P[q].row = app[q] /\ P[q].value = FALSE
          BY <5>1
        <5>3. deletedAt' = [deletedAt EXCEPT ![app[q]] = FALSE] /\ deletedAt[app[q]] = None
          BY <1>2, <2>3, <4>1
        <5> QED BY <5>2, <5>3
      <4>2. CASE at[q] = "updateApp"
        <5>1. P[q] = [kind |-> "restore", row |-> app[q], value |-> FALSE]
          BY <4>2 DEF WriteToApp
        <5>2. P[q].kind = "restore" /\ P[q].row = app[q] /\ P[q].value = FALSE
          BY <5>1
        <5>3. deletedAt' = [deletedAt EXCEPT ![app[q]] = FALSE] /\ deletedAt[app[q]] # None
          BY <1>2, <2>3, <4>2
        <5> QED BY <5>2, <5>3
      <4>3. CASE at[q] = "deleteApp"
        <5>1. P[q] = [kind |-> "choose", row |-> app[q], value |-> TRUE]
          BY <4>3 DEF WriteToApp
        <5>2. P[q].kind = "choose" /\ P[q].row = app[q] /\ P[q].value = TRUE
          BY <5>1
        <5>3. deletedAt[app[q]] # None
          BY <4>3 DEF AppInv, AppTypeOK
        <5>4. deletedAt' = [deletedAt EXCEPT ![app[q]] = TRUE]
          BY <1>2, <2>3, <4>3
        <5> QED BY <5>2, <5>3, <5>4
      <4> QED BY <1>2, <2>3, <4>1, <4>2, <4>3
    <3>5. DeletedAt!Commit(q)
      BY <2>1, <3>3, <3>4 DEF DeletedAt!Commit
    <3> QED BY <3>5 DEF DeletedAt!ColumnNext
  <2> QED BY <2>2, <2>3
<1>3. ASSUME NEW q \in Requests, NEW s, Goto(q, s), app' = app, deletedAt' = deletedAt,
             at[q] \in {"findToken"} \cup UploadStatements,
             s \in {"revokeToken"} \cup UploadStatements
      PROVE  [DeletedAt!ColumnNext]_(DeletedAt!columnVars)
  <2>1. app' = [app EXCEPT ![q] = app[q]]
    BY <1>3 DEF AppInv, AppTypeOK
  <2>2. P' = [P EXCEPT ![q] = WriteToApp(s, app[q])]
    <3>1. AppTypeOK /\ at' = [at EXCEPT ![q] = s]
      BY <1>3 DEF AppInv, Goto
    <3> QED BY <2>1, <3>1, PendingOnAppStep
  <2>3. P[q] = None /\ WriteToApp(s, app[q]) = None
    BY <1>3 DEF WriteToApp, UploadStatements
  <2> QED BY <1>3, <2>2, <2>3 DEF DeletedAt!columnVars
<1>4. ASSUME NEW q \in Requests, Start(q)
      PROVE  [DeletedAt!ColumnNext]_(DeletedAt!columnVars)
  BY <1>1, <1>4
  DEF Start, FindSlug, FindAppToUpdate, FindAppToDelete, FindAppForToken, FindAppToRevoke,
      FindToken
<1>5. ASSUME NEW q \in Requests, Advance(q)
      PROVE  [DeletedAt!ColumnNext]_(DeletedAt!columnVars)
  <2>1. CASE InsertApp(q)
    BY <1>2, <2>1 DEF InsertApp
  <2>2. CASE UpdateApp(q)
    <3>1. deletedAt[app[q]] # None
      BY <2>2 DEF UpdateApp, AppInv, AppTypeOK
    <3> QED BY <1>2, <2>2, <3>1 DEF UpdateApp
  <2>3. CASE DeleteApp(q)
    BY <1>2, <2>3 DEF DeleteApp
  <2>4. CASE InsertToken(q) \/ RevokeToken(q) \/ FinishUpload(q) \/ Abort(q)
    BY <1>2, <2>4 DEF InsertToken, RevokeToken, FinishUpload, Abort
  <2>5. CASE FindTokenToRevoke(q) \/ Authorize(q) \/ TouchToken(q) \/ BeginUpload(q)
    BY <1>3, <2>5
    DEF FindTokenToRevoke, Authorize, TouchToken, BeginUpload, UploadStatements
  <2> QED BY <1>5, <2>1, <2>2, <2>3, <2>4, <2>5 DEF Advance
<1>6. ASSUME NEW t \in Tokens, Expire(t)
      PROVE  [DeletedAt!ColumnNext]_(DeletedAt!columnVars)
  BY <1>6 DEF Expire, DeletedAt!columnVars
<1>7. CASE UNCHANGED appVars
  BY <1>7 DEF appVars, DeletedAt!columnVars
<1> QED BY <1>4, <1>5, <1>6, <1>7 DEF AppNext

-----------------------------------------------------------------------------
\* The same for the rows of tokens.
LEMMA PendingOnTokenStep ==
  ASSUME AppTypeOK, NEW q \in Requests, NEW s, NEW t,
         at' = [at EXCEPT ![q] = s], token' = [token EXCEPT ![q] = t]
  PROVE  [r \in Requests |-> WriteToToken(at[r], token[r])]'
         = [[r \in Requests |-> WriteToToken(at[r], token[r])]
              EXCEPT ![q] = WriteToToken(s, t)]
<1>1. at'[q] = s /\ token'[q] = t
  BY DEF AppTypeOK
<1>2. \A r \in Requests \ {q} : at'[r] = at[r] /\ token'[r] = token[r]
  BY DEF AppTypeOK
<1>3. \A r \in Requests :
        WriteToToken(at'[r], token'[r])
        = IF r = q THEN WriteToToken(s, t) ELSE WriteToToken(at[r], token[r])
  BY <1>1, <1>2
<1> QED BY <1>3

LEMMA RevokedAtInit == AppInit => RevokedAt!ColumnInit
BY DEF AppInit, RevokedAt!ColumnInit, WriteToToken

\* Every step is a step of the column revoked_at, or does not touch it.
LEMMA RevokedAtStep ==
  AppInv /\ [AppNext]_appVars => [RevokedAt!ColumnNext]_(RevokedAt!columnVars)
<1> SUFFICES ASSUME AppInv, [AppNext]_appVars
             PROVE  [RevokedAt!ColumnNext]_(RevokedAt!columnVars)
  OBVIOUS
<1> DEFINE P == [r \in Requests |-> WriteToToken(at[r], token[r])]
<1>0. ASSUME NEW q \in Requests, NEW s, NEW t,
             at' = [at EXCEPT ![q] = s], token' = [token EXCEPT ![q] = t]
      PROVE  P' = [P EXCEPT ![q] = WriteToToken(s, t)]
  BY <1>0, PendingOnTokenStep DEF AppInv
<1> HIDE DEF P
\* A request goes on to statement s about token t, without writing.
<1>1. ASSUME NEW q \in Requests, NEW s, NEW t, revokedAt' = revokedAt,
             at' = [at EXCEPT ![q] = s], token' = [token EXCEPT ![q] = t],
             P[q] = None, WriteToToken(s, t) = None
      PROVE  [RevokedAt!ColumnNext]_(RevokedAt!columnVars)
  <2>1. P' = [P EXCEPT ![q] = WriteToToken(s, t)]
    BY <1>0, <1>1
  <2> QED BY <1>1, <2>1 DEF P, RevokedAt!columnVars
\* It ends, or goes on, without writing what it was going to write.
<1>2. ASSUME NEW q \in Requests, NEW s, NEW t, revokedAt' = revokedAt,
             at' = [at EXCEPT ![q] = s], token' = [token EXCEPT ![q] = t],
             WriteToToken(s, t) = None
      PROVE  [RevokedAt!ColumnNext]_(RevokedAt!columnVars)
  <2>1. P' = [P EXCEPT ![q] = None]
    BY <1>0, <1>2
  <2>2. CASE P[q] # None
    BY <1>2, <2>1, <2>2 DEF P, RevokedAt!ColumnNext, RevokedAt!Drop
  <2> QED BY <1>1, <1>2, <2>2
\* It writes.
<1>3. ASSUME NEW q \in Requests, NEW s, NEW t, NEW kind \in {"insert", "restore", "choose"},
             NEW v \in BOOLEAN,
             at' = [at EXCEPT ![q] = s], token' = [token EXCEPT ![q] = t],
             WriteToToken(s, t) = None, token[q] \in Tokens,
             P[q] = [kind |-> kind, row |-> token[q], value |-> v],
             kind = "insert" <=> revokedAt[token[q]] = None,
             revokedAt' = [revokedAt EXCEPT ![token[q]] = v]
      PROVE  [RevokedAt!ColumnNext]_(RevokedAt!columnVars)
  <2>1. P' = [P EXCEPT ![q] = None]
    <3>1. at' = [at EXCEPT ![q] = s] /\ token' = [token EXCEPT ![q] = t]
      BY <1>3
    <3>2. P' = [P EXCEPT ![q] = WriteToToken(s, t)]
      BY <1>0, <3>1
    <3> QED BY <1>3, <3>2
  <2>2. P[q] \in [kind : {"insert", "restore", "choose"}, row : Apps \cup Tokens,
                  value : BOOLEAN]
    BY <1>3
  <2>3. P[q] # None
    BY <2>2, AppsAssumption
  <2>4. P[q].kind = kind /\ P[q].row = token[q] /\ P[q].value = v
    BY <1>3
  <2>5. RevokedAt!Commit(q)
    BY <1>3, <2>1, <2>3, <2>4 DEF P, RevokedAt!Commit
  <2> QED BY <2>5 DEF RevokedAt!ColumnNext
\* It has read the row of token t, or found that there is none.
<1>4. ASSUME NEW q \in Requests, NEW s, NEW t \in Tokens, revokedAt' = revokedAt,
             at' = [at EXCEPT ![q] = s], token' = [token EXCEPT ![q] = t], P[q] = None,
             \/ s = "insertToken" /\ revokedAt[t] = None
             \/ s = "revokeToken" /\ revokedAt[t] # None
             \/ s = "findTokenApp" /\ revokedAt[t] = FALSE
      PROVE  [RevokedAt!ColumnNext]_(RevokedAt!columnVars)
  <2>1. P' = [P EXCEPT ![q] = WriteToToken(s, t)]
    BY <1>0, <1>4
  <2>2. CASE s = "insertToken"
    <3>1. WriteToToken(s, t) = [kind |-> "insert", row |-> t, value |-> FALSE]
      BY <2>2 DEF WriteToToken
    <3>2. RevokedAt!Miss(q, t)
      BY <1>4, <2>1, <2>2, <3>1 DEF P, RevokedAt!Miss, RevokedAt!Prepare
    <3> QED BY <3>2 DEF RevokedAt!ColumnNext
  <2>3. CASE s = "revokeToken"
    <3>1. WriteToToken(s, t) = [kind |-> "choose", row |-> t, value |-> TRUE]
      BY <2>3 DEF WriteToToken
    <3>2. RevokedAt!Choose(q, t)
      BY <1>4, <2>1, <2>3, <3>1 DEF P, RevokedAt!Choose, RevokedAt!Prepare
    <3> QED BY <3>2 DEF RevokedAt!ColumnNext
  <2>4. CASE s = "findTokenApp"
    <3>1. WriteToToken(s, t) = [kind |-> "restore", row |-> t, value |-> FALSE]
      BY <2>4 DEF WriteToToken
    <3>2. revokedAt[t] = FALSE /\ revokedAt[t] # None
      BY <1>4, <2>4, AppsAssumption
    <3>3. RevokedAt!Read(q, t)
      BY <1>4, <2>1, <3>1, <3>2 DEF P, RevokedAt!Read, RevokedAt!Prepare
    <3> QED BY <3>3 DEF RevokedAt!ColumnNext
  <2> QED BY <1>4, <2>2, <2>3, <2>4
<1>5. ASSUME NEW q \in Requests, Start(q)
      PROVE  [RevokedAt!ColumnNext]_(RevokedAt!columnVars)
  <2>1. ASSUME NEW s, NEW a, NEW t, Begin(q, s, a, t)
        PROVE  /\ revokedAt' = revokedAt
               /\ at' = [at EXCEPT ![q] = s]
               /\ token' = [token EXCEPT ![q] = t]
               /\ P[q] = None
    BY <2>1 DEF P, Begin, Goto, WriteToToken
  <2>2. ASSUME NEW a, NEW t, NEW s \in {"insertApp", "updateApp", "deleteApp", "findToken"},
               Begin(q, s, a, t)
        PROVE  [RevokedAt!ColumnNext]_(RevokedAt!columnVars)
    <3>1. WriteToToken(s, t) = None
      BY DEF WriteToToken
    <3> QED BY <1>1, <2>1, <2>2, <3>1
  <2>3. ASSUME NEW a \in Apps,
               FindSlug(q, a) \/ FindAppToUpdate(q, a) \/ FindAppToDelete(q, a)
        PROVE  [RevokedAt!ColumnNext]_(RevokedAt!columnVars)
    BY <2>2, <2>3 DEF FindSlug, FindAppToUpdate, FindAppToDelete
  <2>4. ASSUME NEW a \in Apps, NEW t \in Tokens, FindAppToRevoke(q, a, t)
        PROVE  [RevokedAt!ColumnNext]_(RevokedAt!columnVars)
    BY <2>2, <2>4 DEF FindAppToRevoke
  <2>5. ASSUME NEW a \in Apps, NEW t \in Tokens, FindAppForToken(q, a, t)
        PROVE  [RevokedAt!ColumnNext]_(RevokedAt!columnVars)
    <3>1. Begin(q, "insertToken", a, t) /\ revokedAt[t] = None
      BY <2>5 DEF FindAppForToken
    <3> QED BY <1>4, <2>1, <3>1
  <2>6. ASSUME NEW a \in Apps, NEW t \in Tokens, FindToken(q, a, t)
        PROVE  [RevokedAt!ColumnNext]_(RevokedAt!columnVars)
    <3>1. Begin(q, "findTokenApp", a, t) /\ revokedAt[t] = FALSE
      BY <2>6 DEF FindToken, Valid
    <3> QED BY <1>4, <2>1, <3>1
  <2> QED BY <1>5, <2>3, <2>4, <2>5, <2>6 DEF Start
<1>6. ASSUME NEW q \in Requests, Advance(q)
      PROVE  [RevokedAt!ColumnNext]_(RevokedAt!columnVars)
  <2>1. ASSUME End(q)
        PROVE  /\ at' = [at EXCEPT ![q] = "idle"]
               /\ token' = [token EXCEPT ![q] = None]
               /\ WriteToToken("idle", None) = None
    BY <2>1 DEF End, Goto, WriteToToken
  <2>2. CASE InsertApp(q) \/ UpdateApp(q) \/ DeleteApp(q) \/ FinishUpload(q) \/ Abort(q)
    BY <1>2, <2>1, <2>2 DEF InsertApp, UpdateApp, DeleteApp, FinishUpload, Abort
  <2>3. CASE InsertToken(q)
    <3>1. token[q] \in Tokens /\ revokedAt[token[q]] = None
      BY <2>3 DEF InsertToken, AppInv, AppTypeOK
    <3>2. P[q] = [kind |-> "insert", row |-> token[q], value |-> FALSE]
      BY <2>3 DEF P, InsertToken, WriteToToken
    <3>3. End(q) /\ revokedAt' = [revokedAt EXCEPT ![token[q]] = FALSE]
      BY <2>3 DEF InsertToken
    <3> QED BY <1>3, <2>1, <3>1, <3>2, <3>3
  <2>4. CASE RevokeToken(q)
    <3>1. token[q] \in Tokens /\ revokedAt[token[q]] # None
      BY <2>4 DEF RevokeToken, AppInv, AppTypeOK, HoldsToken
    <3>2. P[q] = [kind |-> "choose", row |-> token[q], value |-> TRUE]
      BY <2>4 DEF P, RevokeToken, WriteToToken
    <3>3. End(q) /\ revokedAt' = [revokedAt EXCEPT ![token[q]] = TRUE]
      BY <2>4 DEF RevokeToken
    <3> QED BY <1>3, <2>1, <3>1, <3>2, <3>3
  <2>5. ASSUME token' = token
        PROVE  token' = [token EXCEPT ![q] = token[q]]
    BY <2>5 DEF AppInv, AppTypeOK
  <2>6. CASE FindTokenToRevoke(q)
    <3>1. token[q] \in Tokens /\ revokedAt[token[q]] # None /\ P[q] = None
      BY <2>6, AppsAssumption
      DEF FindTokenToRevoke, AppInv, AppTypeOK, HoldsToken, P, WriteToToken
    <3> QED BY <1>4, <2>5, <2>6, <3>1 DEF FindTokenToRevoke, Goto
  <2>7. CASE Authorize(q)
    <3>1. at' = [at EXCEPT ![q] = "touchToken"] /\ token' = [token EXCEPT ![q] = token[q]]
      BY <2>5, <2>7 DEF Authorize, Goto
    <3>2. P' = [P EXCEPT ![q] = WriteToToken("touchToken", token[q])]
      BY <1>0, <3>1
    <3>3. P[q] = WriteToToken("touchToken", token[q])
      BY <2>7 DEF P, Authorize, WriteToToken
    <3>4. P' = P
      BY <3>2, <3>3 DEF P
    <3> QED BY <2>7, <3>4 DEF P, Authorize, RevokedAt!columnVars
  <2>8. CASE TouchToken(q)
    <3>1. /\ at' = [at EXCEPT ![q] = "findAppAgain"]
          /\ token' = [token EXCEPT ![q] = token[q]]
          /\ WriteToToken("findAppAgain", token[q]) = None
      BY <2>5, <2>8 DEF TouchToken, Goto, WriteToToken
    <3>2. token[q] \in Tokens /\ revokedAt[token[q]] # None
      BY <2>8 DEF TouchToken, AppInv, AppTypeOK, HoldsToken, UploadStatements
    <3>3. P[q] = [kind |-> "restore", row |-> token[q], value |-> FALSE]
      BY <2>8 DEF P, TouchToken, WriteToToken
    <3>4. CASE revokedAt' = revokedAt
      BY <1>2, <3>1, <3>4
    <3>5. CASE revokedAt' = [revokedAt EXCEPT ![token[q]] = FALSE]
      BY <1>3, <3>1, <3>2, <3>3, <3>5
    <3> QED BY <2>8, <3>4, <3>5 DEF TouchToken
  <2>9. CASE BeginUpload(q)
    <3>1. P[q] = None /\ WriteToToken("upload", token[q]) = None
      BY <2>9 DEF P, BeginUpload, WriteToToken
    <3> QED BY <1>1, <2>5, <2>9, <3>1 DEF BeginUpload, Goto
  <2> QED BY <1>6, <2>2, <2>3, <2>4, <2>6, <2>7, <2>8, <2>9 DEF Advance
<1>7. ASSUME NEW t \in Tokens, Expire(t)
      PROVE  [RevokedAt!ColumnNext]_(RevokedAt!columnVars)
  BY <1>7 DEF Expire, RevokedAt!columnVars
<1>8. CASE UNCHANGED appVars
  BY <1>8 DEF appVars, RevokedAt!columnVars
<1> QED BY <1>5, <1>6, <1>7, <1>8 DEF AppNext

-----------------------------------------------------------------------------
(***************************************************************************)
(* Deliveries and statistics.                                               *)
(***************************************************************************)

\* An event has at most one row; it has one when an answer is on its way, and when the
\* device has been told.
RowsFit ==
  /\ \A e \in Events : rows[e] \in 0..1
  /\ \A e \in answered : rows[e] = 1

\* The inductive invariant: CountedOnce would not survive Acknowledge without the part of
\* EventTypeOK that says that an answer is sent only when the row is there.
EventInv == AppInv /\ EventTypeOK /\ RowsFit

LEMMA EventInitInv == EventInit => EventInv
BY AppInitInv, EventsAssumption DEF EventInit, EventInv, EventTypeOK, RowsFit, AppInv

\* Deliveries do not touch the tables of apps and tokens, nor admin requests the events.
LEMMA EventNextInv == EventInv /\ [TrafficNext]_trafficVars => EventInv'
<1> SUFFICES ASSUME EventInv, [TrafficNext]_trafficVars PROVE EventInv'
  OBVIOUS
<1>1. AppInv'
  <2>1. [AppNext]_appVars
    BY DEF TrafficNext, DeliveryStep, FindApp, InsertEvent, Acknowledge, LoseEvent, trafficVars
  <2> QED BY <2>1, AppNextInv DEF EventInv
<1> USE EventsAssumption DEF EventInv, EventTypeOK, RowsFit
<1>2. ASSUME NEW k \in Attempts, FindApp(k) PROVE EventInv'
  BY <1>1, <1>2 DEF FindApp, AppInv
<1>3. ASSUME NEW k \in Attempts, InsertEvent(k) PROVE EventInv'
  <2>1. EventOf[k] \in Events /\ rows[EventOf[k]] \in 0..1
    OBVIOUS
  <2>2. /\ rows' = [rows EXCEPT ![EventOf[k]] = 1]
        /\ delivery' = [delivery EXCEPT ![k] = "answer"]
        /\ answered' = answered /\ lost' = lost
    <3>1. (IF rows[EventOf[k]] = 0 THEN 1 ELSE rows[EventOf[k]]) = 1
      BY <2>1
    <3> QED BY <1>3, <3>1 DEF InsertEvent
  <2> QED BY <1>1, <2>1, <2>2 DEF AppInv
<1>4. ASSUME NEW k \in Attempts, Acknowledge(k) PROVE EventInv'
  <2>1. EventOf[k] \in Events /\ rows[EventOf[k]] = 1
    BY <1>4 DEF Acknowledge
  <2> QED BY <1>1, <1>4, <2>1 DEF Acknowledge, AppInv
<1>5. ASSUME NEW k \in Attempts, LoseEvent(k) PROVE EventInv'
  BY <1>1, <1>5 DEF LoseEvent, AppInv
<1>6. CASE UNCHANGED eventVars
  BY <1>1, <1>6 DEF eventVars, AppInv
<1> QED BY <1>2, <1>3, <1>4, <1>5, <1>6 DEF TrafficNext, DeliveryStep, trafficVars

LEMMA TrafficInv == TrafficSpec => []EventInv
BY EventInitInv, EventNextInv, PTL DEF TrafficSpec

\* The tables of apps and tokens change by admin requests and uploads only.
LEMMA AppStep == [TrafficNext]_trafficVars => [AppNext]_appVars
BY DEF TrafficNext, DeliveryStep, FindApp, InsertEvent, Acknowledge, LoseEvent, trafficVars

-----------------------------------------------------------------------------
\* The variables of the composition have their types: in particular no token exists
\* without its app, and no row is missing where an answer is on its way.
THEOREM TypeCorrect == TrafficSpec => []EventTypeOK
<1>1. EventInv => EventTypeOK
  BY DEF EventInv
<1> QED BY <1>1, TrafficInv, PTL

\* However often an event is sent, it is counted once, and it is counted when its device
\* has been told so.
THEOREM EventsCountedOnce == TrafficSpec => []CountedOnce
<1>1. EventInv => CountedOnce
  BY DEF EventInv, RowsFit, CountedOnce
<1> QED BY <1>1, TrafficInv, PTL

\* The row of an event is about the manifest its device reports, whichever field the
\* client has.
LEMMA RowsAboutReported == \A e \in Events : ManifestUuid(e) = Reported[e]
BY EventsAssumption DEF ManifestUuid

\* The devices that the statistics count, beside those that report a success.
LEMMA CountedDevices ==
  ASSUME EventInv, NEW m \in Manifests
  PROVE  LET counted == {DeviceOf[e] : e \in SuccessRows(m)}
         IN  /\ ReportersAmong(m, answered) \subseteq counted
             /\ counted \subseteq ReportersAmong(m, Events)
             /\ ReportersAmong(m, Events) \subseteq Devices
<1>1. ASSUME NEW e \in answered \cap Succeeded, Reported[e] = m
      PROVE  e \in SuccessRows(m)
  <2>1. e \in Events /\ rows[e] = 1
    BY DEF EventInv, EventTypeOK, RowsFit
  <2> QED BY <1>1, <2>1, RowsAboutReported DEF SuccessRows, ListByUpdate
<1>2. ASSUME NEW e \in SuccessRows(m)
      PROVE  e \in Events \cap Succeeded /\ Reported[e] = m
  BY RowsAboutReported DEF SuccessRows, ListByUpdate
<1>3. \A e \in Events : DeviceOf[e] \in Devices
  BY EventsAssumption
<1> QED BY <1>1, <1>2, <1>3 DEF ReportersAmong

\* The statistics of an update count devices: none twice, none that has reported nothing,
\* and all that have been told that their success was taken.
THEOREM DevicesCounted == TrafficSpec => []StatsCountDevices
<1>1. EventInv => StatsCountDevices
  <2> SUFFICES ASSUME EventInv, NEW m \in Manifests
               PROVE  /\ Cardinality(ReportersAmong(m, answered)) <= SucceededDevices(m)
                      /\ SucceededDevices(m) <= Cardinality(ReportersAmong(m, Events))
    BY DEF StatsCountDevices
  <2> DEFINE counted == {DeviceOf[e] : e \in SuccessRows(m)}
  <2>1. /\ ReportersAmong(m, answered) \subseteq counted
        /\ counted \subseteq ReportersAmong(m, Events)
        /\ ReportersAmong(m, Events) \subseteq Devices
    BY CountedDevices
  <2>2. SucceededDevices(m) = Cardinality(counted)
    BY DEF SucceededDevices
  <2> HIDE DEF counted
  <2>3. IsFiniteSet(ReportersAmong(m, Events))
    BY <2>1, FS_Subset, EventsAssumption
  <2>4. IsFiniteSet(counted) /\ Cardinality(counted) <= Cardinality(ReportersAmong(m, Events))
    BY <2>1, <2>3, FS_Subset
  <2>5. Cardinality(ReportersAmong(m, answered)) <= Cardinality(counted)
    BY <2>1, <2>4, FS_Subset
  <2> QED BY <2>2, <2>4, <2>5
<1> QED BY <1>1, TrafficInv, PTL

\* The counts of an update never go down: not when events are sent again, and not when
\* the app is deleted under them.
THEOREM CountsNeverFall ==
  TrafficSpec => [][\A m \in Manifests : SucceededDevices(m)' >= SucceededDevices(m)]_trafficVars
<1>1. ASSUME EventInv, [TrafficNext]_trafficVars, NEW m \in Manifests
      PROVE  SucceededDevices(m)' >= SucceededDevices(m)
  <2> DEFINE counted == {DeviceOf[e] : e \in SuccessRows(m)}
             countedAfter == {DeviceOf[e] : e \in SuccessRows(m)'}
  <2>1. \A e \in Events : rows[e] > 0 => rows'[e] > 0
    <3>1. ASSUME NEW k \in Attempts, InsertEvent(k)
          PROVE  \A e \in Events : rows[e] > 0 => rows'[e] > 0
      BY <1>1, <3>1 DEF InsertEvent, EventInv, EventTypeOK
    <3> QED
      BY <1>1, <3>1
      DEF TrafficNext, DeliveryStep, FindApp, Acknowledge, LoseEvent, trafficVars, eventVars
  <2>2. SuccessRows(m) \subseteq SuccessRows(m)' /\ SuccessRows(m)' \subseteq Events
    BY <2>1 DEF SuccessRows, ListByUpdate, ManifestUuid
  <2>3. counted \subseteq countedAfter /\ countedAfter \subseteq Devices
    BY <2>2, EventsAssumption
  <2>4. SucceededDevices(m) = Cardinality(counted)
        /\ SucceededDevices(m)' = Cardinality(countedAfter)
    BY DEF SucceededDevices
  <2> HIDE DEF counted, countedAfter
  <2>5. IsFiniteSet(countedAfter)
    BY <2>3, FS_Subset, EventsAssumption
  <2>6. /\ Cardinality(counted) <= Cardinality(countedAfter)
        /\ Cardinality(counted) \in Nat /\ Cardinality(countedAfter) \in Nat
    BY <2>3, <2>5, FS_Subset, FS_CardinalityType
  <2> QED BY <2>4, <2>6
<1>2. EventInv /\ [TrafficNext]_trafficVars
      => [\A m \in Manifests : SucceededDevices(m)' >= SucceededDevices(m)]_trafficVars
  BY <1>1
<1> QED BY <1>2, TrafficInv, PTL DEF TrafficSpec

\* deleted_at and revoked_at change only as RowColumn says: by an operation on them, or
\* by a request that restores what it read.
THEOREM ColumnsRefined == TrafficSpec => AppColumns
<1>1. EventInit => DeletedAt!ColumnInit /\ RevokedAt!ColumnInit
  BY DeletedAtInit, RevokedAtInit DEF EventInit
<1>2. EventInv /\ [TrafficNext]_trafficVars
      => /\ [DeletedAt!ColumnNext]_(DeletedAt!columnVars)
         /\ [RevokedAt!ColumnNext]_(RevokedAt!columnVars)
  BY AppStep, DeletedAtStep, RevokedAtStep DEF EventInv
<1> QED BY <1>1, <1>2, TrafficInv, PTL
        DEF TrafficSpec, AppColumns, DeletedAt!ColumnSpec, RevokedAt!ColumnSpec

\* A revoked or expired token that no upload holds any more is never let in again.
THEOREM RevocationsHold == TrafficSpec => RevocationHolds
<1>1. EventInv /\ [TrafficNext]_trafficVars
      => [\A t \in Tokens : CutOff(t) => CutOff(t)']_appVars
  BY AppStep, CutOffStays DEF EventInv, AppInv
<1> QED BY <1>1, TrafficInv, PTL DEF TrafficSpec, RevocationHolds

\* A deleted app that no request has found active before stays deleted.
THEOREM DeletionsHold == TrafficSpec => DeletionHolds
<1>1. EventInv /\ [TrafficNext]_trafficVars
      => [\A a \in Apps : Gone(a) => Gone(a)']_appVars
  BY AppStep, GoneStays DEF EventInv, AppInv
<1> QED BY <1>1, TrafficInv, PTL DEF TrafficSpec, DeletionHolds
===============================================================================
