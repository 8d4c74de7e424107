----------------------------- MODULE AssetReclaim_proofs ----------------------
(***************************************************************************)
(* Proofs about AssetReclaim, for every set of assets, updates, manifests,  *)
(* CLI runs and rollback requests.                                          *)
(***************************************************************************)
EXTENDS AssetReclaim, TLAPS

\* The steps of the system, one disjunct for each action.
LEMMA NextCases ==
  ASSUME TypeOK, [Next]_vars
  PROVE  \/ \E p \in Publishers, m \in Manifests : PlanUpload(p, m)
         \/ \E p \in Publishers, a \in Assets : Upload(p, a)
         \/ \E p \in Publishers, a \in Assets : UpsertAsset(p, a)
         \/ \E p \in Publishers : VerifyAssetsUploaded(p)
         \/ \E p \in Publishers : LookupManifest(p)
         \/ \E p \in Procs, u \in Updates, m \in Manifests \cup {FreshUuid} :
              InsertWithAssets(p, u, m)
         \/ \E p \in Publishers : FinalizeRejected(p)
         \/ \E p \in Rollbacks, u \in Updates : RollbackRead(p, u)
         \/ \E p \in Procs : Abort(p)
         \/ \E u \in Updates : PublishUpdate(u)
         \/ \E D \in SUBSET Updates : DeleteUpdates(D)
         \/ GcFindOrphans
         \/ \E a \in Assets : GcDeleteObject(a)
         \/ \E a \in Assets : GcObjectFails(a)
         \/ \E a \in Assets : GcDeleteRow(a)
         \/ GcEnds
         \/ UNCHANGED vars
<1>1. \A p \in Publishers, u \in Updates : FinalizeInsert(p, u) => want[p] \in Manifests
  BY DEF FinalizeInsert, InsertWithAssets, TypeOK
<1>2. QED
  BY <1>1
  DEF Next, PublisherNext, RollbackNext, GcNext, FinalizeInsert, RollbackInsert, Procs,
      computeFinalizeManifestUuid, computeManifestUuid

-----------------------------------------------------------------------------
(***************************************************************************)
(* Type correctness.                                                        *)
(***************************************************************************)

\* One step of any party keeps the types.
LEMMA TypeStep == TypeOK /\ [Next]_vars => TypeOK'
<1> SUFFICES ASSUME TypeOK, [Next]_vars PROVE TypeOK'
  OBVIOUS
<1> USE ReclaimAssumption
    DEF TypeOK, RowTypeOK, Statuses, Locations, Procs, rowVars, requestVars, gcVars
<1>1. ASSUME NEW p \in Publishers, NEW m \in Manifests, PlanUpload(p, m) PROVE TypeOK'
  BY <1>1 DEF PlanUpload, FindOneByAppIdSha256
<1>2. ASSUME NEW p \in Publishers, NEW a \in Assets, Upload(p, a) PROVE TypeOK'
  BY <1>2 DEF Upload, Put
<1>3. ASSUME NEW p \in Publishers, NEW a \in Assets, UpsertAsset(p, a) PROVE TypeOK'
  BY <1>3 DEF UpsertAsset, InsertIgnoreConflict
<1>4. ASSUME NEW p \in Publishers, VerifyAssetsUploaded(p) PROVE TypeOK'
  BY <1>4 DEF VerifyAssetsUploaded, Uploaded, Head, Leave
<1>5. ASSUME NEW p \in Publishers, LookupManifest(p) PROVE TypeOK'
  BY <1>5 DEF LookupManifest, Leave
<1>6. ASSUME NEW p \in Procs, NEW u \in Updates, NEW m \in Manifests \cup {FreshUuid},
             InsertWithAssets(p, u, m) PROVE TypeOK'
  BY <1>6 DEF InsertWithAssets, Leave, InsertDraft
<1>7. ASSUME NEW p \in Publishers, FinalizeRejected(p) PROVE TypeOK'
  BY <1>7 DEF FinalizeRejected, Leave
<1>8. ASSUME NEW p \in Rollbacks, NEW u \in Updates, RollbackRead(p, u) PROVE TypeOK'
  BY <1>8 DEF RollbackRead, FindAllByUpdateId, FindAllByIds
<1>9. ASSUME NEW p \in Procs, Abort(p) PROVE TypeOK'
  BY <1>9 DEF Abort, Leave
<1>10. ASSUME NEW u \in Updates, PublishUpdate(u) PROVE TypeOK'
  BY <1>10 DEF PublishUpdate, StampPublished
<1>11. ASSUME NEW D \in SUBSET Updates, DeleteUpdates(D) PROVE TypeOK'
  BY <1>11 DEF DeleteUpdates, SoftDelete, Live
<1>12. ASSUME GcFindOrphans PROVE TypeOK'
  BY <1>12 DEF GcFindOrphans, Orphans
<1>13. ASSUME NEW a \in Assets, GcDeleteObject(a) PROVE TypeOK'
  BY <1>13 DEF GcDeleteObject, Delete
<1>14. ASSUME NEW a \in Assets, GcObjectFails(a) PROVE TypeOK'
  BY <1>14 DEF GcObjectFails
<1>15. ASSUME NEW a \in Assets, GcDeleteRow(a) PROVE TypeOK'
  BY <1>15 DEF GcDeleteRow
<1>16. ASSUME GcEnds PROVE TypeOK'
  BY <1>16 DEF GcEnds
<1>17. CASE UNCHANGED vars
  BY <1>17 DEF vars, rowVars, requestVars, gcVars
<1>18. QED
  BY NextCases,
     <1>1, <1>2, <1>3, <1>4, <1>5, <1>6, <1>7, <1>8, <1>9,
     <1>10, <1>11, <1>12, <1>13, <1>14, <1>15, <1>16, <1>17

\* No interleaving of finalize, rollback, delete and gc leaves a half-written row,
\* a request that kept locals after its answer, or a gc run between two places.
THEOREM TypeCorrect == Spec => []TypeOK
<1>1. Init => TypeOK
  BY ReclaimAssumption DEF Init, RowInit, TypeOK, RowTypeOK, Statuses, Locations, Procs
<1>2. QED
  BY <1>1, TypeStep, PTL DEF Spec

-----------------------------------------------------------------------------
(***************************************************************************)
(* Live updates keep their objects.                                         *)
(***************************************************************************)

\* The list of orphans gc works from holds no asset of a live update, and what a
\* request has checked is still stored, except where history says otherwise.
Stored ==
  /\ \A u \in Updates : Live(u) /\ u \notin exposed =>
       assets[u] \subseteq objects /\ assets[u] \cap gcTodo = {}
  /\ \A p \in Procs : pc[p] \in {"upsert", "insert"} =>
       need[p] \subseteq objects \cup swept[p]

\* Every step of the CLI, of a rollback, of publish and delete, and of gc keeps Stored.
LEMMA StoredStep == TypeOK /\ Stored /\ [Next]_vars => Stored'
<1> SUFFICES ASSUME TypeOK, Stored, [Next]_vars PROVE Stored'
  OBVIOUS
<1> USE DEF Stored, TypeOK, RowTypeOK, Live, rowVars, requestVars, gcVars, Procs
<1>1. ASSUME NEW p \in Publishers, NEW m \in Manifests, PlanUpload(p, m) PROVE Stored'
  BY <1>1 DEF PlanUpload, FindOneByAppIdSha256
<1>2. ASSUME NEW p \in Publishers, NEW a \in Assets, Upload(p, a) PROVE Stored'
  BY <1>2 DEF Upload, Put
<1>3. ASSUME NEW p \in Publishers, NEW a \in Assets, UpsertAsset(p, a) PROVE Stored'
  BY <1>3 DEF UpsertAsset, InsertIgnoreConflict
<1>4. ASSUME NEW p \in Publishers, VerifyAssetsUploaded(p) PROVE Stored'
  BY <1>4 DEF VerifyAssetsUploaded, Uploaded, Head, Leave
<1>5. ASSUME NEW p \in Publishers, LookupManifest(p) PROVE Stored'
  BY <1>5 DEF LookupManifest, Leave
<1>6. ASSUME NEW p \in Procs, NEW u \in Updates, NEW m \in Manifests \cup {FreshUuid},
             InsertWithAssets(p, u, m) PROVE Stored'
  BY <1>6 DEF InsertWithAssets, Leave, InsertDraft
<1>7. ASSUME NEW p \in Publishers, FinalizeRejected(p) PROVE Stored'
  BY <1>7 DEF FinalizeRejected, Leave
<1>8. ASSUME NEW p \in Rollbacks, NEW u \in Updates, RollbackRead(p, u) PROVE Stored'
  BY <1>8 DEF RollbackRead, FindAllByUpdateId, FindAllByIds
<1>9. ASSUME NEW p \in Procs, Abort(p) PROVE Stored'
  BY <1>9 DEF Abort, Leave
<1>10. ASSUME NEW u \in Updates, PublishUpdate(u) PROVE Stored'
  BY <1>10 DEF PublishUpdate, StampPublished
<1>11. ASSUME NEW D \in SUBSET Updates, DeleteUpdates(D) PROVE Stored'
  BY <1>11 DEF DeleteUpdates, SoftDelete
<1>12. ASSUME GcFindOrphans PROVE Stored'
  BY <1>12 DEF GcFindOrphans, Orphans
<1>13. ASSUME NEW a \in Assets, GcDeleteObject(a) PROVE Stored'
  BY <1>13 DEF GcDeleteObject, Delete
<1>14. ASSUME NEW a \in Assets, GcObjectFails(a) PROVE Stored'
  BY <1>14 DEF GcObjectFails
<1>15. ASSUME NEW a \in Assets, GcDeleteRow(a) PROVE Stored'
  BY <1>15 DEF GcDeleteRow
<1>16. ASSUME GcEnds PROVE Stored'
  BY <1>16 DEF GcEnds
<1>17. CASE UNCHANGED vars
  BY <1>17 DEF vars, rowVars, requestVars, gcVars
<1>18. QED
  BY NextCases,
     <1>1, <1>2, <1>3, <1>4, <1>5, <1>6, <1>7, <1>8, <1>9,
     <1>10, <1>11, <1>12, <1>13, <1>14, <1>15, <1>16, <1>17

\* Whatever runs of the CLI, rollbacks, deletes and gc overlap, crash or are run
\* again, a live update has all its objects, unless it was inserted while gc was
\* taking one of its assets.
THEOREM ObjectsKept == Spec => []LiveUpdatesKeepObjects
<1>1. Init => Stored
  BY DEF Init, RowInit, Stored, Live
<1>2. Stored => LiveUpdatesKeepObjects
  BY DEF Stored, LiveUpdatesKeepObjects
<1>3. QED
  BY <1>1, <1>2, StoredStep, TypeCorrect, PTL DEF Spec

-----------------------------------------------------------------------------
(***************************************************************************)
(* Foreign keys.                                                            *)
(***************************************************************************)

\* Row ids held by updates and requests are ids of existing rows; what a rollback
\* copies is held in place by its source, deleted or not.
ForeignKeys ==
  /\ \A u \in Updates : Exists(u) => assets[u] \subseteq rows
  /\ \A p \in Procs : refs[p] \subseteq rows
  /\ \A p \in Rollbacks : pc[p] = "insert" =>
       need[p] \subseteq refs[p] /\ \A a \in need[p] : Pinned(a)

\* Every step keeps ForeignKeys: the one that could break it is the deletion of a row.
LEMMA ForeignKeysStep == TypeOK /\ ForeignKeys /\ [Next]_vars => ForeignKeys'
<1> SUFFICES ASSUME TypeOK, ForeignKeys, [Next]_vars PROVE ForeignKeys'
  OBVIOUS
<1> USE ReclaimAssumption
    DEF ForeignKeys, TypeOK, RowTypeOK, Exists, Pinned, rowVars, requestVars, gcVars, Procs
<1>1. ASSUME NEW p \in Publishers, NEW m \in Manifests, PlanUpload(p, m) PROVE ForeignKeys'
  BY <1>1 DEF PlanUpload, FindOneByAppIdSha256
<1>2. ASSUME NEW p \in Publishers, NEW a \in Assets, Upload(p, a) PROVE ForeignKeys'
  BY <1>2 DEF Upload, Put
<1>3. ASSUME NEW p \in Publishers, NEW a \in Assets, UpsertAsset(p, a) PROVE ForeignKeys'
  BY <1>3 DEF UpsertAsset, InsertIgnoreConflict
<1>4. ASSUME NEW p \in Publishers, VerifyAssetsUploaded(p) PROVE ForeignKeys'
  BY <1>4 DEF VerifyAssetsUploaded, Uploaded, Head, Leave
<1>5. ASSUME NEW p \in Publishers, LookupManifest(p) PROVE ForeignKeys'
  BY <1>5 DEF LookupManifest, Leave
<1>6. ASSUME NEW p \in Procs, NEW u \in Updates, NEW m \in Manifests \cup {FreshUuid},
             InsertWithAssets(p, u, m) PROVE ForeignKeys'
  <2>1. need[p] \subseteq rows /\ ~Exists(u)
    BY <1>6 DEF InsertWithAssets, ForeignKeysHold, InsertDraft
  <2>2. \A v \in Updates : Exists(v)' => assets'[v] \subseteq rows'
    BY <1>6, <2>1 DEF InsertWithAssets, InsertDraft
  <2>3. \A a \in Assets : Pinned(a) => Pinned(a)'
    BY <1>6, <2>1 DEF InsertWithAssets, InsertDraft
  <2>4. \A q \in Procs : refs'[q] \subseteq rows'
    BY <1>6 DEF InsertWithAssets, Leave
  <2>5. \A q \in Rollbacks : pc'[q] = "insert" =>
          pc[q] = "insert" /\ need'[q] = need[q] /\ refs'[q] = refs[q]
    BY <1>6 DEF InsertWithAssets, Leave
  <2>6. QED
    BY <2>2, <2>3, <2>4, <2>5
<1>7. ASSUME NEW p \in Publishers, FinalizeRejected(p) PROVE ForeignKeys'
  BY <1>7 DEF FinalizeRejected, Leave
<1>8. ASSUME NEW p \in Rollbacks, NEW u \in Updates, RollbackRead(p, u) PROVE ForeignKeys'
  BY <1>8 DEF RollbackRead, FindAllByUpdateId, FindAllByIds, Live
<1>9. ASSUME NEW p \in Procs, Abort(p) PROVE ForeignKeys'
  BY <1>9 DEF Abort, Leave
<1>10. ASSUME NEW u \in Updates, PublishUpdate(u) PROVE ForeignKeys'
  BY <1>10 DEF PublishUpdate, StampPublished
<1>11. ASSUME NEW D \in SUBSET Updates, DeleteUpdates(D) PROVE ForeignKeys'
  BY <1>11 DEF DeleteUpdates, SoftDelete
<1>12. ASSUME GcFindOrphans PROVE ForeignKeys'
  BY <1>12 DEF GcFindOrphans, Orphans
<1>13. ASSUME NEW a \in Assets, GcDeleteObject(a) PROVE ForeignKeys'
  BY <1>13 DEF GcDeleteObject, Delete
<1>14. ASSUME NEW a \in Assets, GcObjectFails(a) PROVE ForeignKeys'
  BY <1>14 DEF GcObjectFails
<1>15. ASSUME NEW a \in Assets, GcDeleteRow(a) PROVE ForeignKeys'
  BY <1>15 DEF GcDeleteRow
<1>16. ASSUME GcEnds PROVE ForeignKeys'
  BY <1>16 DEF GcEnds
<1>17. CASE UNCHANGED vars
  BY <1>17 DEF vars, rowVars, requestVars, gcVars
<1>18. QED
  BY NextCases,
     <1>1, <1>2, <1>3, <1>4, <1>5, <1>6, <1>7, <1>8, <1>9,
     <1>10, <1>11, <1>12, <1>13, <1>14, <1>15, <1>16, <1>17

\* gc never removes the row of an asset an update, live or deleted, references, and
\* a rollback never fails on a foreign key, even when its source is deleted and
\* collected between its read and its insert.
THEOREM RowsExist == Spec => []ReferencedRowsExist
<1>1. Init => ForeignKeys
  BY DEF Init, RowInit, ForeignKeys, Exists, Procs
<1>2. ForeignKeys => ReferencedRowsExist
  BY DEF ForeignKeys, ReferencedRowsExist, Procs
<1>3. QED
  BY <1>1, <1>2, ForeignKeysStep, TypeCorrect, PTL DEF Spec

-----------------------------------------------------------------------------
(***************************************************************************)
(* One update per manifest.                                                 *)
(***************************************************************************)

\* Every step keeps one update per manifest: the one that could break it is the insert.
LEMMA OneUpdateStep == TypeOK /\ OneUpdatePerManifest /\ [Next]_vars => OneUpdatePerManifest'
<1> SUFFICES ASSUME TypeOK, OneUpdatePerManifest, [Next]_vars PROVE OneUpdatePerManifest'
  OBVIOUS
<1> USE ReclaimAssumption DEF OneUpdatePerManifest, TypeOK, RowTypeOK, Statuses, Exists, rowVars
<1>1. ASSUME NEW p \in Publishers, NEW m \in Manifests, PlanUpload(p, m) PROVE OneUpdatePerManifest'
  BY <1>1 DEF PlanUpload, FindOneByAppIdSha256
<1>2. ASSUME NEW p \in Publishers, NEW a \in Assets, Upload(p, a) PROVE OneUpdatePerManifest'
  BY <1>2 DEF Upload, Put
<1>3. ASSUME NEW p \in Publishers, NEW a \in Assets, UpsertAsset(p, a) PROVE OneUpdatePerManifest'
  BY <1>3 DEF UpsertAsset, InsertIgnoreConflict
<1>4. ASSUME NEW p \in Publishers, VerifyAssetsUploaded(p) PROVE OneUpdatePerManifest'
  BY <1>4 DEF VerifyAssetsUploaded, Uploaded, Head, Leave
<1>5. ASSUME NEW p \in Publishers, LookupManifest(p) PROVE OneUpdatePerManifest'
  BY <1>5 DEF LookupManifest, Leave
<1>6. ASSUME NEW p \in Procs, NEW u \in Updates, NEW m \in Manifests \cup {FreshUuid},
             InsertWithAssets(p, u, m) PROVE OneUpdatePerManifest'
  BY <1>6 DEF InsertWithAssets, Leave, InsertDraft, UuidIsFree, ManifestTaken
<1>7. ASSUME NEW p \in Publishers, FinalizeRejected(p) PROVE OneUpdatePerManifest'
  BY <1>7 DEF FinalizeRejected, Leave
<1>8. ASSUME NEW p \in Rollbacks, NEW u \in Updates, RollbackRead(p, u) PROVE OneUpdatePerManifest'
  BY <1>8 DEF RollbackRead, FindAllByUpdateId, FindAllByIds
<1>9. ASSUME NEW p \in Procs, Abort(p) PROVE OneUpdatePerManifest'
  BY <1>9 DEF Abort, Leave
<1>10. ASSUME NEW u \in Updates, PublishUpdate(u) PROVE OneUpdatePerManifest'
  BY <1>10 DEF PublishUpdate, StampPublished
<1>11. ASSUME NEW D \in SUBSET Updates, DeleteUpdates(D) PROVE OneUpdatePerManifest'
  BY <1>11 DEF DeleteUpdates, SoftDelete
<1>12. ASSUME GcFindOrphans PROVE OneUpdatePerManifest'
  BY <1>12 DEF GcFindOrphans, Orphans
<1>13. ASSUME NEW a \in Assets, GcDeleteObject(a) PROVE OneUpdatePerManifest'
  BY <1>13 DEF GcDeleteObject, Delete
<1>14. ASSUME NEW a \in Assets, GcObjectFails(a) PROVE OneUpdatePerManifest'
  BY <1>14 DEF GcObjectFails
<1>15. ASSUME NEW a \in Assets, GcDeleteRow(a) PROVE OneUpdatePerManifest'
  BY <1>15 DEF GcDeleteRow
<1>16. ASSUME GcEnds PROVE OneUpdatePerManifest'
  BY <1>16 DEF GcEnds
<1>17. CASE UNCHANGED vars
  BY <1>17 DEF vars, rowVars, requestVars, gcVars
<1>18. QED
  BY NextCases,
     <1>1, <1>2, <1>3, <1>4, <1>5, <1>6, <1>7, <1>8, <1>9,
     <1>10, <1>11, <1>12, <1>13, <1>14, <1>15, <1>16, <1>17

\* Finalize is idempotent per manifest: retries and concurrent runs leave one row.
THEOREM OneUpdate == Spec => []OneUpdatePerManifest
<1>1. Init => OneUpdatePerManifest
  BY DEF Init, RowInit, OneUpdatePerManifest, Exists
<1>2. QED
  BY <1>1, OneUpdateStep, TypeCorrect, PTL DEF Spec
-----------------------------------------------------------------------------
(***************************************************************************)
(* The rows.                                                                *)
(***************************************************************************)

\* Finalize, rollback and asset-gc do to the rows what the updates table promises: gc
\* touches none, and a finalize or a rollback inserts one draft or nothing.
THEOREM RowsRefined == Spec => RowSpec
<1>1. Init => RowInit
  BY DEF Init
<1>2. [Next]_vars => [RowNext]_rowVars
  <2> SUFFICES ASSUME [Next]_vars PROVE [RowNext]_rowVars
    OBVIOUS
  <2>1. ASSUME NEW p \in Publishers, PublisherNext(p) PROVE [RowNext]_rowVars
    BY <2>1 DEF PublisherNext, PlanUpload, Upload, UpsertAsset, VerifyAssetsUploaded,
                LookupManifest, FinalizeInsert, InsertWithAssets, FinalizeRejected, RowNext
  <2>2. ASSUME NEW p \in Rollbacks, RollbackNext(p) PROVE [RowNext]_rowVars
    BY <2>2 DEF RollbackNext, RollbackRead, RollbackInsert, InsertWithAssets, RowNext
  <2>3. ASSUME NEW p \in Procs, Abort(p) PROVE UNCHANGED rowVars
    BY <2>3 DEF Abort
  <2>4. ASSUME NEW u \in Updates, PublishUpdate(u) PROVE RowNext
    BY <2>4 DEF PublishUpdate, RowNext
  <2>5. ASSUME NEW D \in SUBSET Updates, DeleteUpdates(D) PROVE RowNext
    BY <2>5 DEF DeleteUpdates, RowNext
  <2>6. ASSUME GcNext PROVE UNCHANGED rowVars
    BY <2>6 DEF GcNext, GcFindOrphans, GcDeleteObject, GcObjectFails, GcDeleteRow, GcEnds
  <2>7. UNCHANGED vars => UNCHANGED rowVars
    BY DEF vars
  <2> QED BY <2>1, <2>2, <2>3, <2>4, <2>5, <2>6, <2>7 DEF Next
<1> QED BY <1>1, <1>2, PTL DEF Spec, RowSpec
===============================================================================
