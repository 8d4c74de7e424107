----------------------------- MODULE AssetReclaim -----------------------------
(***************************************************************************)
(* The assets of one app: the assets table, the objects in the bucket, the  *)
(* updates that reference them, and the three parties that touch them       *)
(* concurrently: the publish CLI with its plan and finalize requests, the   *)
(* rollback request, and the asset-gc job.  Nothing spans the database and  *)
(* the bucket, and finalize is several statements; one action is one SQL    *)
(* statement, one transaction or one call to the bucket.                    *)
(*                                                                         *)
(* An asset stands for a content hash, and so for its storage key: the      *)
(* assets table has at most one row per hash.  A row id lives exactly as    *)
(* long as its row, so a request's knowledge of a row id is a member of     *)
(* refs[p] that disappears when the row is deleted.                         *)
(***************************************************************************)
EXTENDS UpdateRows

CONSTANTS
  Assets,       \* content hashes
  Manifests,    \* manifests the CLI may publish, named by their manifest_uuid
  Content,      \* [Manifests -> the assets of the manifest]
  Publishers,   \* CLI runs that may overlap
  Rollbacks,    \* rollback requests that may overlap
  NoManifest,   \* the manifest_uuid of an unused row, or of an idle CLI
  FreshUuid     \* the manifest_uuid of a rollback: createdAt makes it unique

ASSUME ReclaimAssumption ==
  /\ Content \in [Manifests -> SUBSET Assets]
  /\ \A m \in Manifests : Content[m] # {}
  /\ NoManifest \notin Manifests
  /\ FreshUuid \notin Manifests
  /\ FreshUuid # NoManifest
  /\ Publishers \cap Rollbacks = {}

VARIABLES
  manifest,   \* [Updates -> manifest_uuid column]
  assets,     \* [Updates -> assets of its update_assets rows, the launch asset included]
  rows,       \* the assets that have a row in the assets table
  objects,    \* the assets whose object is in the bucket, with the right size
  pc,         \* [Procs -> next statement or call]
  want,       \* [Procs -> the manifest a CLI publishes]
  need,       \* [Procs -> assets of the update being created]
  todo,       \* [Procs -> assets the current loop has not handled yet]
  refs,       \* [Procs -> assets whose current row id the request holds]
  gcPc,       \* what asset-gc does next: "idle", "object" or "row"
  gcTodo,     \* orphans of this run not handled yet
  gcAsset,    \* {a} when a's object is deleted and its row is next, else {}
  swept,      \* history: [Procs -> its assets gc deleted while it runs, not uploaded again]
  exposed     \* history: updates inserted while gc was taking their assets

Procs == Publishers \cup Rollbacks

requestVars == <<pc, want, need, todo, refs>>
gcVars == <<gcPc, gcTodo, gcAsset>>
vars == <<rowVars, manifest, assets, rows, objects, requestVars, gcVars, swept, exposed>>

Locations == {"idle", "upload", "upsert", "insert"}

TypeOK ==
  /\ RowTypeOK
  /\ manifest \in [Updates -> Manifests \cup {NoManifest, FreshUuid}]
  /\ assets \in [Updates -> SUBSET Assets]
  /\ rows \subseteq Assets
  /\ objects \subseteq Assets
  /\ pc \in [Procs -> Locations]
  /\ want \in [Procs -> Manifests \cup {NoManifest}]
  /\ need \in [Procs -> SUBSET Assets]
  /\ todo \in [Procs -> SUBSET Assets]
  /\ refs \in [Procs -> SUBSET Assets]
  /\ \A u \in Updates : (manifest[u] = NoManifest) <=> (status[u] = "none")
  /\ \A p \in Procs : pc[p] = "idle" => need[p] = {} /\ todo[p] = {} /\ refs[p] = {}
  /\ \A p \in Publishers : pc[p] # "idle" => want[p] \in Manifests
  /\ gcPc \in {"idle", "object", "row"}
  /\ (gcAsset = {}) <=> (gcPc # "row")
  /\ gcTodo \subseteq Assets
  /\ gcAsset \subseteq Assets
  /\ swept \in [Procs -> SUBSET Assets]
  /\ exposed \subseteq Updates

Exists(u) == status[u] # "none"

\* The statements on the assets table and update_assets, and the calls to the bucket.
FindOneByAppIdSha256(a) == a \in rows
FindAllByIds(A) == A \cap rows
FindAllByUpdateId(u) == assets[u]
InsertIgnoreConflict(a) == rows' = rows \cup {a}

Head(a) == a \in objects
Put(a) == objects' = objects \cup {a}
Delete(a) == objects' = objects \ {a}

\* The manifest_uuid is a hash of the manifest.  Finalize leaves createdAt out of it,
\* rollback does not.
computeFinalizeManifestUuid(m) == m
computeManifestUuid == FreshUuid

\* FindOneByAppIdManifestUuid and UNIQUE (app_id, manifest_uuid): deleted rows count.
ManifestTaken(m) == \E u \in Updates : Exists(u) /\ manifest[u] = m

\* The foreign keys of updates and update_assets: deleted updates still hold them.
\* The mutant reads them as if soft deletion released the row.
Pinned_LiveOnly(a) == \E u \in Updates : Live(u) /\ a \in assets[u]
Pinned(a) == \E u \in Updates : Exists(u) /\ a \in assets[u]

\* FindOrphans.  Mutants: drafts do not count as references; a row whose object an
\* interrupted run has deleted is not listed again.
Orphans_DraftsIgnored ==
  {a \in rows : \A u \in Updates : Live(u) /\ status[u] = "published" => a \notin assets[u]}
Orphans_StoredOnly ==
  {a \in rows \cap objects : \A u \in Updates : Live(u) => a \notin assets[u]}
Orphans == {a \in rows : \A u \in Updates : Live(u) => a \notin assets[u]}

-----------------------------------------------------------------------------
Init ==
  /\ RowInit
  /\ manifest = [u \in Updates |-> NoManifest]
  /\ assets = [u \in Updates |-> {}]
  /\ rows = {}
  /\ objects = {}
  /\ pc = [p \in Procs |-> "idle"]
  /\ want = [p \in Procs |-> NoManifest]
  /\ need = [p \in Procs |-> {}]
  /\ todo = [p \in Procs |-> {}]
  /\ refs = [p \in Procs |-> {}]
  /\ gcPc = "idle"
  /\ gcTodo = {}
  /\ gcAsset = {}
  /\ swept = [p \in Procs |-> {}]
  /\ exposed = {}

\* The request is over, answered or not: its local variables are gone.
Leave(p) ==
  /\ pc' = [pc EXCEPT ![p] = "idle"]
  /\ want' = [want EXCEPT ![p] = NoManifest]
  /\ need' = [need EXCEPT ![p] = {}]
  /\ todo' = [todo EXCEPT ![p] = {}]
  /\ refs' = [refs EXCEPT ![p] = {}]
  /\ swept' = [swept EXCEPT ![p] = {}]

\* The CLI starts (or is run again) and asks for a plan: an asset with a row is
\* reused, any other is to be uploaded.
PlanUpload(p, m) ==
  /\ pc[p] = "idle"
  /\ pc' = [pc EXCEPT ![p] = "upload"]
  /\ want' = [want EXCEPT ![p] = m]
  /\ need' = [need EXCEPT ![p] = Content[m]]
  /\ todo' = [todo EXCEPT ![p] = {a \in Content[m] : ~FindOneByAppIdSha256(a)}]
  /\ UNCHANGED <<rowVars, manifest, assets, rows, objects, refs, gcVars, swept, exposed>>

\* One presigned PUT of the CLI's upload pool.
Upload(p, a) ==
  /\ pc[p] = "upload"
  /\ a \in todo[p]
  /\ Put(a)
  /\ todo' = [todo EXCEPT ![p] = @ \ {a}]
  /\ swept' = [q \in Procs |-> swept[q] \ {a}]
  /\ UNCHANGED <<rowVars, manifest, assets, rows, pc, want, need, refs, gcVars, exposed>>

\* Every HEAD succeeds with the declared size.  The mutant trusts the plan.
Uploaded_TrustPlan(p) == todo[p] = {}
Uploaded(p) == \A a \in need[p] : Head(a)

\* Finalize HEADs every object; a missing one is a 400 and the CLI gives up.
VerifyAssetsUploaded(p) ==
  /\ pc[p] = "upload"
  /\ todo[p] = {}
  /\ IF Uploaded(p)
     THEN /\ pc' = [pc EXCEPT ![p] = "upsert"]
          /\ todo' = [todo EXCEPT ![p] = need[p]]
          /\ UNCHANGED <<want, need, refs, swept>>
     ELSE Leave(p)
  /\ UNCHANGED <<rowVars, manifest, assets, rows, objects, gcVars, exposed>>

\* One turn of upsertAssets: insert or ignore, then read the row's id.
UpsertAsset(p, a) ==
  /\ pc[p] = "upsert"
  /\ a \in todo[p]
  /\ InsertIgnoreConflict(a)
  /\ refs' = [refs EXCEPT ![p] = @ \cup {a}]
  /\ todo' = [todo EXCEPT ![p] = @ \ {a}]
  /\ UNCHANGED <<rowVars, manifest, assets, objects, pc, want, need, gcVars, swept, exposed>>

\* Finalize looks the manifest up before it inserts: a row is a 409.
LookupManifest(p) ==
  /\ pc[p] = "upsert"
  /\ todo[p] = {}
  /\ IF ManifestTaken(computeFinalizeManifestUuid(want[p]))
     THEN Leave(p)
     ELSE /\ pc' = [pc EXCEPT ![p] = "insert"]
          /\ UNCHANGED <<want, need, todo, refs, swept>>
  /\ UNCHANGED <<rowVars, manifest, assets, rows, objects, gcVars, exposed>>

\* The asset row ids the transaction writes still exist.
ForeignKeysHold(p) == need[p] \subseteq refs[p]

\* UNIQUE (app_id, manifest_uuid), tested when the row is inserted.  The mutant
\* relies on the lookup finalize made before.
UuidIsFree_LookupOnly(m) == m = FreshUuid \/ m \in Manifests
UuidIsFree(m) == m = FreshUuid \/ ~ManifestTaken(m)

\* InsertWithAssets commits u with manifest_uuid m.
InsertWithAssets(p, u, m) ==
  /\ pc[p] = "insert"
  /\ ForeignKeysHold(p)
  /\ UuidIsFree(m)
  /\ InsertDraft(u)
  /\ manifest' = [manifest EXCEPT ![u] = m]
  /\ assets' = [assets EXCEPT ![u] = need[p]]
  /\ exposed' = IF swept[p] = {} /\ need[p] \cap gcTodo = {}
                THEN exposed ELSE exposed \cup {u}
  /\ Leave(p)
  /\ UNCHANGED <<rows, objects, gcVars>>

FinalizeInsert(p, u) == InsertWithAssets(p, u, computeFinalizeManifestUuid(want[p]))

\* InsertWithAssets fails on a constraint and finalize answers 409 or 500.
FinalizeRejected(p) ==
  /\ pc[p] = "insert"
  /\ ~ForeignKeysHold(p) \/ ~UuidIsFree(computeFinalizeManifestUuid(want[p]))
  /\ Leave(p)
  /\ UNCHANGED <<rowVars, manifest, assets, rows, objects, gcVars, exposed>>

\* Rollback reads the source update and the rows of its assets.
RollbackRead(p, u) ==
  /\ pc[p] = "idle"
  /\ Live(u)
  /\ pc' = [pc EXCEPT ![p] = "insert"]
  /\ need' = [need EXCEPT ![p] = FindAllByUpdateId(u)]
  /\ refs' = [refs EXCEPT ![p] = FindAllByIds(FindAllByUpdateId(u))]
  /\ swept' = [swept EXCEPT ![p] = IF u \in exposed THEN assets[u] ELSE {}]
  /\ UNCHANGED <<rowVars, manifest, assets, rows, objects, want, todo, gcVars, exposed>>

\* Rollback inserts the copy: same assets, a manifest_uuid of its own.
\* The mutant forgets to compute it.
RollbackInsert_NoUuid(p, u) == InsertWithAssets(p, u, want[p])
RollbackInsert(p, u) == InsertWithAssets(p, u, computeManifestUuid)

\* The CLI or the server crashes, or a call fails: what was written stays.
Abort(p) ==
  /\ pc[p] # "idle"
  /\ Leave(p)
  /\ UNCHANGED <<rowVars, manifest, assets, rows, objects, gcVars, exposed>>

\* Publish, delete and cleanup change the rows as UpdateRows allows; how they
\* choose the rows is the subject of UpdateStreams.
PublishUpdate(u) ==
  /\ StampPublished(u)
  /\ UNCHANGED <<manifest, assets, rows, objects, requestVars, gcVars, swept, exposed>>

DeleteUpdates(D) ==
  /\ SoftDelete(D)
  /\ UNCHANGED <<manifest, assets, rows, objects, requestVars, gcVars, swept, exposed>>

-----------------------------------------------------------------------------
\* asset-gc, started by cron, lists the orphans.
GcFindOrphans ==
  /\ gcPc = "idle"
  /\ Orphans # {}
  /\ gcPc' = "object"
  /\ gcTodo' = Orphans
  /\ UNCHANGED <<rowVars, manifest, assets, rows, objects, requestVars, gcAsset, swept, exposed>>

\* store.Delete succeeds.
GcDeleteObject(a) ==
  /\ gcPc = "object"
  /\ a \in gcTodo
  /\ Delete(a)
  /\ gcTodo' = gcTodo \ {a}
  /\ gcAsset' = {a}
  /\ gcPc' = "row"
  /\ swept' = [p \in Procs |-> swept[p] \cup ({a} \cap need[p])]
  /\ UNCHANGED <<rowVars, manifest, assets, rows, requestVars, exposed>>

\* store.Delete fails: the asset is left for the next run.
GcObjectFails(a) ==
  /\ gcPc = "object"
  /\ a \in gcTodo
  /\ gcTodo' = gcTodo \ {a}
  /\ UNCHANGED <<rowVars, manifest, assets, rows, objects, requestVars, gcPc, gcAsset,
                 swept, exposed>>

\* assets.Delete: no effect but a logged failure while a foreign key holds the row.
GcDeleteRow(a) ==
  /\ gcPc = "row"
  /\ a \in gcAsset
  /\ IF Pinned(a)
     THEN UNCHANGED <<rows, refs>>
     ELSE /\ rows' = rows \ {a}
          /\ refs' = [p \in Procs |-> refs[p] \ {a}]
  /\ gcAsset' = {}
  /\ gcPc' = "object"
  /\ UNCHANGED <<rowVars, manifest, assets, objects, pc, want, need, todo, gcTodo, swept, exposed>>

\* The run is over: the list is done, the 10 minute deadline passed, or it crashed.
GcEnds ==
  /\ gcPc # "idle"
  /\ gcPc' = "idle"
  /\ gcTodo' = {}
  /\ gcAsset' = {}
  /\ UNCHANGED <<rowVars, manifest, assets, rows, objects, requestVars, swept, exposed>>

-----------------------------------------------------------------------------
PublisherNext(p) ==
  \/ \E m \in Manifests : PlanUpload(p, m)
  \/ \E a \in Assets : Upload(p, a) \/ UpsertAsset(p, a)
  \/ VerifyAssetsUploaded(p)
  \/ LookupManifest(p)
  \/ \E u \in Updates : FinalizeInsert(p, u)
  \/ FinalizeRejected(p)

RollbackNext(p) == \E u \in Updates : RollbackRead(p, u) \/ RollbackInsert(p, u)

GcNext ==
  \/ GcFindOrphans
  \/ \E a \in Assets : GcDeleteObject(a) \/ GcObjectFails(a) \/ GcDeleteRow(a)
  \/ GcEnds

Next ==
  \/ \E p \in Publishers : PublisherNext(p)
  \/ \E p \in Rollbacks : RollbackNext(p)
  \/ \E p \in Procs : Abort(p)
  \/ \E u \in Updates : PublishUpdate(u)
  \/ \E D \in SUBSET Updates : DeleteUpdates(D)
  \/ GcNext

Spec == Init /\ [][Next]_vars

\* cron starts the job again and again; no call to the bucket or the database
\* fails every time, and no asset is cut off by the deadline on every run.
GcFairness ==
  /\ WF_vars(GcFindOrphans)
  /\ WF_vars(GcEnds)
  /\ \A a \in Assets : SF_vars(GcDeleteObject(a)) /\ SF_vars(GcDeleteRow(a))

FairSpec == Spec /\ GcFairness

-----------------------------------------------------------------------------
\* Whatever overlaps, a live update has all its objects in the bucket, unless it
\* was inserted while gc was taking one of its assets: the HEAD check before, the
\* orphan test after and the order of gc's two deletions leave no other hole.
LiveUpdatesKeepObjects ==
  \A u \in Updates : (Live(u) /\ u \notin exposed) => assets[u] \subseteq objects

\* Every row id a committed update or a request about to insert one holds is
\* still in the table: gc never deletes the row of an asset in use, and rollback
\* never fails on a foreign key.
ReferencedRowsExist ==
  /\ \A u \in Updates : Exists(u) => assets[u] \subseteq rows
  /\ \A p \in Rollbacks : pc[p] = "insert" => need[p] \subseteq refs[p] /\ refs[p] \subseteq rows

\* Finalizing the same manifest again and again, concurrently or after a lost
\* answer, leaves at most one update row for it.
OneUpdatePerManifest ==
  \A u, v \in Updates :
    (Exists(u) /\ Exists(v) /\ manifest[u] = manifest[v] /\ manifest[u] # FreshUuid) => u = v

\* An assets row nobody ever committed a reference to does not stay for ever:
\* whatever crashed where, a later run of gc removes it or an update takes it.
UnusedRowsReclaimed ==
  \A a \in Assets : (a \in rows /\ ~Pinned(a)) ~> (a \notin rows \/ Pinned(a))

\* What the header of asset-gc says: the rows of the assets no non-deleted update
\* references are removed, in this run or, after a failure, in a later one.
OrphanRowsReclaimed ==
  \A a \in Assets : (a \in Orphans) ~> (a \notin Orphans)
===============================================================================
