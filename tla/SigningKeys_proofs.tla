-------------------------- MODULE SigningKeys_proofs --------------------------
(***************************************************************************)
(* Proofs about SigningKeys, for every set of key ids and any number of     *)
(* requests in flight.                                                      *)
(***************************************************************************)
EXTENDS SigningKeys, TLAPS

\* The steps of the system, one disjunct for each action.
LEMMA NextCases ==
  ASSUME [Next]_vars
  PROVE  \/ \E r \in Requests, k \in KeyIds : BeginCreate(r, k)
         \/ \E r \in Requests, k \in KeyIds : BeginDelete(r, k)
         \/ \E r \in Requests, k \in KeyIds, enable \in BOOLEAN : BeginPatch(r, k, enable)
         \/ \E r \in Requests : RecycleRead(r)
         \/ \E r \in Requests : RecycleDelete(r)
         \/ \E r \in Requests : InsertKey(r)
         \/ \E r \in Requests : ListKeys(r)
         \/ \E r \in Requests : UpdateKey(r)
         \/ \E r \in Requests : DeleteKey(r)
         \/ \E r \in Requests : Abort(r)
         \/ UNCHANGED vars
  BY DEF Next

-----------------------------------------------------------------------------
(***************************************************************************)
(* Type correctness.                                                        *)
(***************************************************************************)

\* One statement of any request keeps the types.
LEMMA TypeStep == TypeOK /\ [Next]_vars => TypeOK'
<1> SUFFICES ASSUME TypeOK, [Next]_vars PROVE TypeOK'
  OBVIOUS
<1> USE KeysAssumption DEF TypeOK, Locations, table, requestVars, history
<1>1. ASSUME NEW r \in Requests, NEW k \in KeyIds, BeginCreate(r, k) PROVE TypeOK'
  BY <1>1 DEF BeginCreate, Begin
<1>2. ASSUME NEW r \in Requests, NEW k \in KeyIds, BeginDelete(r, k) PROVE TypeOK'
  BY <1>2 DEF BeginDelete, FindOneByAppIdKeyId, Begin, RowIds
<1>3. ASSUME NEW r \in Requests, NEW k \in KeyIds, NEW enable \in BOOLEAN,
             BeginPatch(r, k, enable) PROVE TypeOK'
  BY <1>3 DEF BeginPatch, FindOneByAppIdKeyId, Begin
<1>4. ASSUME NEW r \in Requests, RecycleRead(r) PROVE TypeOK'
  <2>1. row[key[r]] \in 0..inserted /\ key[r] \in KeyIds
    BY <1>4 DEF RecycleRead, FindOneByAppIdKeyId
  <2>2. CASE row[key[r]] \notin enabled /\ row[key[r]] = 0
    BY <1>4, <2>1, <2>2 DEF RecycleRead, FindOneByAppIdKeyId, RowIds
  <2>3. CASE row[key[r]] \in enabled
    <3>1. UNCHANGED table /\ UNCHANGED history /\ Answer(r)
      BY <1>4, <2>3 DEF RecycleRead, FindOneByAppIdKeyId, RowIds
    <3>2. want' \in [Requests -> BOOLEAN] /\ \A q \in Requests : pc'[q] = "list" => want'[q]
      BY <3>1 DEF Answer
    <3>3. QED
      BY <3>1, <3>2 DEF Answer
  <2>4. CASE row[key[r]] \in RowIds \ enabled
    BY <1>4, <2>1, <2>4 DEF RecycleRead, FindOneByAppIdKeyId, RowIds
  <2>5. QED
    BY <1>4, <2>2, <2>3, <2>4 DEF RecycleRead, FindOneByAppIdKeyId
<1>5. ASSUME NEW r \in Requests, RecycleDelete(r) PROVE TypeOK'
  BY <1>5 DEF RecycleDelete, RemoveRow
<1>6. ASSUME NEW r \in Requests, InsertKey(r) PROVE TypeOK'
  BY <1>6 DEF InsertKey, Answer
<1>7. ASSUME NEW r \in Requests, ListKeys(r) PROVE TypeOK'
  <2>1. CASE OthersEnabled(r)
    <3>1. UNCHANGED table /\ UNCHANGED history /\ Answer(r)
      BY <1>7, <2>1 DEF ListKeys
    <3>2. want' \in [Requests -> BOOLEAN] /\ \A q \in Requests : pc'[q] = "list" => want'[q]
      BY <3>1 DEF Answer
    <3>3. QED
      BY <3>1, <3>2 DEF Answer
  <2>2. CASE ~OthersEnabled(r)
    BY <1>7, <2>2 DEF ListKeys
  <2>3. QED
    BY <2>1, <2>2
<1>8. ASSUME NEW r \in Requests, UpdateKey(r) PROVE TypeOK'
  BY <1>8 DEF UpdateKey, Answer, RowsAffected, RowIds
<1>9. ASSUME NEW r \in Requests, DeleteKey(r) PROVE TypeOK'
  BY <1>9 DEF DeleteKey, RemoveRow, Answer
<1>10. ASSUME NEW r \in Requests, Abort(r) PROVE TypeOK'
  BY <1>10 DEF Abort, Answer
<1>11. CASE UNCHANGED vars
  BY <1>11 DEF vars
<1>12. QED
  BY NextCases, <1>1, <1>2, <1>3, <1>4, <1>5, <1>6, <1>7, <1>8, <1>9, <1>10, <1>11

\* Two key rows never share a key id or an id, an enabled id is the id of a row, and
\* a request keeps no locals after its answer.
THEOREM TypeCorrect == Spec => []TypeOK
<1>1. Init => TypeOK
  <2> SUFFICES ASSUME Init PROVE TypeOK
    OBVIOUS
  <2>1. /\ inserted \in Nat
        /\ row \in [KeyIds -> 0..inserted]
        /\ \A j, k \in KeyIds : row[j] = row[k] /\ row[j] # 0 => j = k
        /\ enabled \subseteq {row[k] : k \in KeyIds} \ {0}
    BY DEF Init
  <2>2. pc \in [Requests -> Locations] /\ key \in [Requests -> KeyIds \cup {NoKey}]
    BY DEF Init, Locations
  <2>3. target \in [Requests -> 0..inserted] /\ want \in [Requests -> BOOLEAN]
    BY DEF Init
  <2>4. QED
    BY <2>1, <2>2, <2>3 DEF Init, TypeOK
<1>2. QED
  BY <1>1, TypeStep, PTL DEF Spec

-----------------------------------------------------------------------------
(***************************************************************************)
(* Requests touch only the row they read.                                   *)
(***************************************************************************)

\* However requests overlap and key ids are recycled, a row is removed or switched
\* only by a request that read that very row.
THEOREM OnlyReadRows == Spec => OnlyReadRowsChange
<1> DEFINE Touched == \A i \in RowIds :
                        (i \notin RowIds' \/ (i \in enabled) # (i \in enabled'))
                        => \E r \in Requests : target[r] = i
<1>1. TypeOK /\ [Next]_vars => [Touched]_vars
  <2> SUFFICES ASSUME TypeOK, [Next]_vars, NEW i \in RowIds,
                      i \notin RowIds' \/ (i \in enabled) # (i \in enabled')
               PROVE  \E r \in Requests : target[r] = i
    OBVIOUS
  <2> USE DEF TypeOK, RowIds, table
  <2>1. CASE UNCHANGED table
    BY <2>1
  <2>2. ASSUME NEW r \in Requests, RemoveRow(r) PROVE target[r] = i
    BY <2>2 DEF RemoveRow
  <2>3. ASSUME NEW r \in Requests, InsertKey(r) PROVE UNCHANGED table
    <3>1. CASE row[key[r]] = 0 /\ key[r] \in KeyIds
      <4>1. i \in RowIds'
        BY <2>3, <3>1 DEF InsertKey
      <4>2. i \in enabled <=> i \in enabled'
        BY <2>3, <3>1 DEF InsertKey
      <4>3. QED
        BY <4>1, <4>2
    <3>2. QED
      BY <2>3, <3>1, KeysAssumption DEF InsertKey
  <2>4. ASSUME NEW r \in Requests, UpdateKey(r) PROVE target[r] = i
    BY <2>4 DEF UpdateKey, RowsAffected
  <2>5. QED
    BY NextCases, <2>1, <2>2, <2>3, <2>4
    DEF BeginCreate, BeginDelete, BeginPatch, RecycleRead, FindOneByAppIdKeyId,
        RecycleDelete, ListKeys, DeleteKey, Abort, vars
<1>2. QED
  BY <1>1, TypeCorrect, PTL DEF Spec, OnlyReadRowsChange

-----------------------------------------------------------------------------
(***************************************************************************)
(* One enabled key.                                                         *)
(***************************************************************************)

\* Without an overlap one request at most is between its check and its act, and one
\* about to enable a key has found no other enabled.
OneActivates ==
  overlapped \/ /\ \A r, q \in Activating : r = q
                /\ \A r \in Requests : (pc[r] = "update" /\ want[r]) => enabled \subseteq {target[r]}

\* Unless in addition an older key was enabled again, one about to insert a key still
\* finds none enabled: the newest row, disabled, stands for all.
NoneWhileCreating ==
  \/ reEnabled
  \/ overlapped
  \/ /\ enabled \subseteq Newest
     /\ \A r \in Requests : pc[r] \in {"recycle", "recycleDelete", "insert"} => enabled = {}

\* One statement of any request keeps OneActivates.
LEMMA OneActivatesStep == TypeOK /\ OneActivates /\ [Next]_vars => OneActivates'
<1> SUFFICES ASSUME TypeOK, OneActivates, [Next]_vars, ~overlapped' PROVE OneActivates'
  BY DEF OneActivates
<1> USE DEF TypeOK, Locations, OneActivates, Activating, table, requestVars, history
<1>1. ASSUME NEW r \in Requests, NEW k \in KeyIds, BeginCreate(r, k) PROVE OneActivates'
  <2>1. Activating = {}
    BY <1>1 DEF BeginCreate
  <2>2. Activating' \subseteq {r}
    BY <1>1, <2>1 DEF BeginCreate, Begin
  <2>3. \A q \in Requests : ~(pc'[q] = "update" /\ want'[q])
    BY <1>1, <2>1 DEF BeginCreate, Begin
  <2>4. QED
    BY <2>2, <2>3
<1>2. ASSUME NEW r \in Requests, NEW k \in KeyIds, BeginDelete(r, k) PROVE OneActivates'
  BY <1>2 DEF BeginDelete, FindOneByAppIdKeyId, Begin
<1>3. ASSUME NEW r \in Requests, NEW k \in KeyIds, NEW enable \in BOOLEAN,
             BeginPatch(r, k, enable) PROVE OneActivates'
  BY <1>3 DEF BeginPatch, FindOneByAppIdKeyId, Begin
<1>4. ASSUME NEW r \in Requests, RecycleRead(r) PROVE OneActivates'
  BY <1>4 DEF RecycleRead, FindOneByAppIdKeyId, Answer
<1>5. ASSUME NEW r \in Requests, RecycleDelete(r) PROVE OneActivates'
  BY <1>5 DEF RecycleDelete, RemoveRow
<1>6. ASSUME NEW r \in Requests, InsertKey(r) PROVE OneActivates'
  BY <1>6 DEF InsertKey, Answer
<1>7. ASSUME NEW r \in Requests, ListKeys(r) PROVE OneActivates'
  BY <1>7 DEF ListKeys, OthersEnabled, RowIds, ListByAppId, Answer
<1>8. ASSUME NEW r \in Requests, UpdateKey(r) PROVE OneActivates'
  BY <1>8 DEF UpdateKey, Answer, RowsAffected
<1>9. ASSUME NEW r \in Requests, DeleteKey(r) PROVE OneActivates'
  BY <1>9 DEF DeleteKey, RemoveRow, Answer
<1>10. ASSUME NEW r \in Requests, Abort(r) PROVE OneActivates'
  BY <1>10 DEF Abort, Answer
<1>11. CASE UNCHANGED vars
  BY <1>11 DEF vars
<1>12. QED
  BY NextCases, <1>1, <1>2, <1>3, <1>4, <1>5, <1>6, <1>7, <1>8, <1>9, <1>10, <1>11

\* One statement of any request keeps NoneWhileCreating.
LEMMA NoneWhileCreatingStep ==
  TypeOK /\ OneActivates /\ NoneWhileCreating /\ [Next]_vars => NoneWhileCreating'
<1> SUFFICES ASSUME TypeOK, OneActivates, NoneWhileCreating, [Next]_vars,
                    ~overlapped', ~reEnabled'
             PROVE  NoneWhileCreating'
  BY DEF NoneWhileCreating
<1> USE DEF TypeOK, Locations, NoneWhileCreating, table, requestVars, history
<1>1. ASSUME NEW r \in Requests, NEW k \in KeyIds, BeginCreate(r, k) PROVE NoneWhileCreating'
  BY <1>1 DEF BeginCreate, Begin, NoEnabledSigningKey, Newest, RowIds
<1>2. ASSUME NEW r \in Requests, NEW k \in KeyIds, BeginDelete(r, k) PROVE NoneWhileCreating'
  BY <1>2 DEF BeginDelete, FindOneByAppIdKeyId, Begin, Newest, RowIds
<1>3. ASSUME NEW r \in Requests, NEW k \in KeyIds, NEW enable \in BOOLEAN,
             BeginPatch(r, k, enable) PROVE NoneWhileCreating'
  BY <1>3 DEF BeginPatch, FindOneByAppIdKeyId, Begin, Newest, RowIds
<1>4. ASSUME NEW r \in Requests, RecycleRead(r) PROVE NoneWhileCreating'
  BY <1>4 DEF RecycleRead, FindOneByAppIdKeyId, Answer, Newest, RowIds
<1>5. ASSUME NEW r \in Requests, RemoveRow(r)
      PROVE  enabled \subseteq Newest => enabled' \subseteq Newest'
  BY <1>5 DEF RemoveRow, Newest, RowIds
<1>6. ASSUME NEW r \in Requests, RecycleDelete(r) PROVE NoneWhileCreating'
  BY <1>5, <1>6 DEF RecycleDelete, RemoveRow
<1>7. ASSUME NEW r \in Requests, InsertKey(r) PROVE NoneWhileCreating'
  <2>1. CASE row[key[r]] = 0
    <3>1. enabled = {}
      BY <1>7 DEF InsertKey
    <3>2. enabled' = {inserted + 1}
      BY <1>7, <2>1, <3>1 DEF InsertKey
    <3>3. key[r] \in KeyIds
      BY <1>7, KeysAssumption DEF InsertKey
    <3>4. inserted + 1 \in RowIds' /\ \A j \in RowIds' : j <= inserted + 1
      BY <1>7, <2>1, <3>3 DEF InsertKey, RowIds
    <3>5. \A q \in Requests : pc'[q] \notin {"recycle", "recycleDelete", "insert"}
      BY <1>7 DEF InsertKey, Answer, OneActivates, Activating
    <3>6. QED
      BY <3>2, <3>4, <3>5 DEF Newest
  <2>2. CASE row[key[r]] # 0
    BY <1>7, <2>2 DEF InsertKey, Answer, Newest, RowIds
  <2>3. QED
    BY <2>1, <2>2
<1>8. ASSUME NEW r \in Requests, ListKeys(r) PROVE NoneWhileCreating'
  BY <1>8 DEF ListKeys, Answer, Newest, RowIds
<1>9. ASSUME NEW r \in Requests, UpdateKey(r) PROVE NoneWhileCreating'
  <2>1. Newest' = Newest
    BY <1>9 DEF UpdateKey, Newest, RowIds
  <2>2. enabled' \subseteq Newest
    BY <1>9 DEF UpdateKey
  <2>3. ASSUME NEW q \in Requests, pc'[q] \in {"recycle", "recycleDelete", "insert"}
        PROVE  enabled' = {}
    <3>1. q # r /\ pc[q] = pc'[q]
      BY <1>9, <2>3 DEF UpdateKey, Answer
    <3>2. enabled = {}
      BY <1>9, <2>3, <3>1 DEF UpdateKey
    <3>3. ~want[r]
      BY <1>9, <2>3, <3>1 DEF UpdateKey, OneActivates, Activating
    <3>4. QED
      BY <1>9, <3>2, <3>3 DEF UpdateKey
  <2>4. QED
    BY <2>1, <2>2, <2>3
<1>10. ASSUME NEW r \in Requests, DeleteKey(r) PROVE NoneWhileCreating'
  BY <1>5, <1>10 DEF DeleteKey, RemoveRow, Answer
<1>11. ASSUME NEW r \in Requests, Abort(r) PROVE NoneWhileCreating'
  BY <1>11 DEF Abort, Answer, Newest, RowIds
<1>12. CASE UNCHANGED vars
  BY <1>12 DEF vars, Newest, RowIds
<1>13. QED
  BY NextCases, <1>1, <1>2, <1>3, <1>4, <1>6, <1>7, <1>8, <1>9, <1>10, <1>11, <1>12

\* Without overlapping activations and without an older key enabled again, the newest
\* key is the only one that can be enabled.
THEOREM OnlyNewest == Spec => []OnlyNewestEnabled
<1>1. Init => OneActivates /\ NoneWhileCreating
  BY DEF Init, OneActivates, NoneWhileCreating, Activating, Newest, RowIds
<1>2. NoneWhileCreating => OnlyNewestEnabled
  BY DEF NoneWhileCreating, OnlyNewestEnabled
<1>3. QED
  BY <1>1, <1>2, TypeCorrect, OneActivatesStep, NoneWhileCreatingStep, PTL DEF Spec

\* What is left of "a single active key": it holds as long as no older key has been
\* enabled again and no two requests that activate a key have overlapped.
THEOREM SingleKeyOtherwise == Spec => [](reEnabled \/ overlapped \/ SingleActiveKey)
<1>1. TypeOK /\ OnlyNewestEnabled => reEnabled \/ overlapped \/ SingleActiveKey
  <2> SUFFICES ASSUME TypeOK, enabled \subseteq Newest, NEW i \in enabled, NEW j \in enabled
               PROVE  i = j
    BY DEF OnlyNewestEnabled, SingleActiveKey
  <2>1. ASSUME NEW id \in RowIds PROVE id \in Nat
    <3>1. PICK k \in KeyIds : id = row[k]
      BY DEF RowIds
    <3>2. row[k] \in 0..inserted /\ inserted \in Nat
      BY DEF TypeOK
    <3> QED BY <3>1, <3>2
  <2>2. i \in RowIds /\ j \in RowIds /\ i <= j /\ j <= i
    BY DEF Newest
  <2> QED BY <2>1, <2>2
<1> QED BY <1>1, OnlyNewest, TypeCorrect, PTL

\* Without overlapping activations, the key a patch enables is the only enabled one.
THEOREM EnableLeavesOne == Spec => EnableLeavesOneKey
<1> DEFINE Alone == \A r \in Requests :
                      (/\ pc[r] = "update" /\ want[r] /\ pc'[r] = "idle"
                       /\ target[r] \in enabled')
                      => overlapped \/ enabled' = {target[r]}
<1>1. Init => OneActivates
  BY DEF Init, OneActivates, Activating
<1>2. TypeOK /\ OneActivates /\ [Next]_vars => [Alone]_vars
  <2> SUFFICES ASSUME TypeOK, OneActivates, [Next]_vars, ~overlapped, NEW r \in Requests,
                      pc[r] = "update", want[r], pc'[r] = "idle", target[r] \in enabled'
               PROVE  enabled' = {target[r]}
    OBVIOUS
  <2>1. enabled \subseteq {target[r]}
    BY DEF OneActivates
  <2>2. UpdateKey(r) \/ Abort(r)
    BY NextCases
    DEF TypeOK, BeginCreate, BeginDelete, BeginPatch, Begin, RecycleRead,
        FindOneByAppIdKeyId, RecycleDelete, InsertKey, ListKeys, UpdateKey, DeleteKey,
        Abort, Answer, vars, requestVars
  <2>3. QED
    BY <2>1, <2>2 DEF UpdateKey, Abort, RowsAffected, table
<1>3. QED
  BY <1>1, <1>2, TypeCorrect, OneActivatesStep, PTL DEF Spec, EnableLeavesOneKey
===============================================================================
