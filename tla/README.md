# Expo OTA: TLA+ models, model checks and proofs

Expo OTA is a self-hosted update server for Expo apps: a Go server with an admin API and
the Expo Updates protocol, a garbage collection job, a publish CLI (TypeScript) and a
Vue dashboard, over PostgreSQL and an object storage bucket. This directory holds TLA+
modules that model the parts of it whose correctness depends on order, overlap and
failure, the TLC configurations that check them and the TLAPS proofs about them.
`PROJECT.json` lists the runs, the mutants, the lines of the code each definition stands
for, the hazards, the findings and the theorems.

Every handler of the server is a sequence of SQL statements, most of them outside a
transaction, so the unit of atomicity of the models is **one SQL statement (or explicit
transaction), or one bucket call**. In the dashboard it is one JavaScript callback: the
code between two awaits.

## 1. Inventory

Paths are relative to `src/`.

### Update rows and published streams

`server/db/models/updatesmodel.go`, `server/api/admin/internal/logic/admin/`:
`publishupdatelogic.go`, `deleteupdatelogic.go`, `cleanupupdateslogic.go`,
`finalizeuploadlogic.go`, `rollbackupdatelogic.go`.

* State: the `updates` table; per row `status` (pending, published), `published_at`,
  `deleted_at`. A stream is an (app, runtime version, platform) triple; its current update
  is its newest published, non-deleted row.
* Operations: insert a draft (finalize, rollback), publish, delete one, clean up beyond
  the newest N.
* Hard: handlers read a row, decide, and write in a later statement that checks only part
  of what was read; `now()` is fixed when a statement starts and not when it commits;
  ranks are counted in one statement and used in another.
* Correct when: an update is published once and keeps its time; a stream never loses its
  current update nor goes back to an older one; overlapping deletes do not add up to
  removing a recent update.

### Upload, rollback and asset garbage collection

`planuploadlogic.go`, `finalizeuploadlogic.go`, `rollbackupdatelogic.go` (as above),
`server/db/models/assetsmodel.go`, `server/cmd/asset-gc/main.go`,
`server/internal/storage/cos.go`, `cli/publish.ts`.

* State: objects in the bucket, `assets` rows, `update_assets` references, `updates` rows.
* Operations: plan (which assets must be uploaded), PUT to a presigned URL, finalize
  (HEAD every object, upsert the assets, look the manifest up, insert the update and its
  references), rollback (read an update and its assets, insert a copy), gc (list the
  orphans, then delete object and row one by one).
* Interactions: the CLI drives plan, PUT and finalize; gc runs from cron, with no lock
  shared with any of them; the bucket and the database have no common transaction.
* Hard: gc acts for up to ten minutes on one listing; a crash between object and row; a
  finalize retried, or run twice at once; a source update deleted during its rollback.
* Correct when: a live update's objects stay; rows in use are never deleted; one manifest
  makes one update; garbage is reclaimed in the end.

### Signing keys

`generatesigningkeylogic.go`, `importsigningkeylogic.go`, `patchsigningkeylogic.go`,
`deletesigningkeylogic.go`, `signingsupport.go`,
`server/db/models/codesigningkeysmodel.go`.

* State: `code_signing_keys` rows: key id, creation order, `disabled_at`.
* Operations: generate, import, enable, disable, delete; a disabled key's key id can be
  recycled by a new key.
* Hard: the "at most one enabled key" rule is a read before a write; a key id may name
  another row by the time a pending request writes.
* Correct when: no two keys are enabled, and a request changes only the row it read.

### Manifest endpoint and devices

`server/api/protocol/internal/logic/protocol/manifestlogic.go` and its neighbours.

* State: `runtime_versions`, `manifest_requests`; reads `updates` and
  `code_signing_keys`.
* Operations: find or create the runtime version, choose the update, sign, record, render
  the answer as multipart or JSON.
* Hard: the answer is computed from several statements while admins publish, delete and
  switch the key; concurrent first requests for a runtime version; answers lost on their way.
* Correct when: a device moves forward only, is refused only for a reason, gets an answer it
  can read and trust, and comes to run the current update.

### Apps, API tokens and client events

`createapplogic.go`, `updateapplogic.go`, `deleteapplogic.go`, `createapitokenlogic.go`,
`revokeapitokenlogic.go`, `server/api/admin/internal/middleware/apitokenauthmiddleware.go`,
`server/api/protocol/internal/logic/protocol/eventslogic.go`,
`server/db/models/clienteventsmodel.go`, `updatestats.go`.

* State: `apps.deleted_at`, `api_tokens.revoked_at` and `expires_at`, `client_events` rows.
* Operations: create, rename and soft-delete an app; create, revoke and use a token (the
  middleware stamps `last_used_at`); take an event; count devices.
* Interactions: a token lets CI into the upload endpoints of its own app, which then look
  the app up again; devices report to apps that may be deleted meanwhile.
* Hard: the generated `Update` statements write **every** column, so a handler that wants to
  change one column writes back what it read of the others, and undoes what happened to
  them in between; events are delivered at least once, also twice at the same time.
* Correct when: a revocation and a deletion hold; a column changes only as chosen or as
  read; an event counts once; the statistics count devices and not reports.

### Users and sessions of the admin API

`loginlogic.go`, `refreshlogic.go`, `createuserlogic.go`, `changepasswordlogic.go`,
`disableuserlogic.go`, `enableuserlogic.go`, `bootstrapsupport.go`, `authsupport.go`.

* State: `users.password_hash` and `disabled_at`; access and refresh tokens are JWTs that
  nothing but time ends.
* Operations: bootstrap of the first administrator, create, login, refresh, change of a
  password, disable, enable.
* Hard: the same whole-row writes; a refresh token renews itself; a bootstrap of one server
  beside a request to another.
* Correct when: a user who is disabled runs out of tokens and comes back only by being
  enabled; no account is overwritten by an insert.

### Dashboard page of one update

`dashboard/src/views/apps/UpdateDetailView.vue`, `dashboard/src/router/guards.ts`.

* State: the update shown, skeleton, poll timer, the scope and request generations that
  guard late answers; the router's page and the push under way.
* Operations: load, poll every five seconds, publish, republish (rollback), delete,
  switch to another update, leave.
* Interactions: a push waits for the router's guard, which looks the app up and may refuse
  it, redirect it or be overtaken by a click of the user.
* Hard: the component is reused across routes; answers return out of order, after a
  switch, after an unmount; what makes a load fail also makes the push fail that should
  leave the page.
* Correct when: the page shows, polls and acts on the update its route names. A failed load
  breaks this (finding 5), and a publish outlives the page (finding 4).

### Dashboard list of updates

`dashboard/src/views/apps/UpdatesListView.vue`, `listupdateslogic.go`.

* State: the filter, the rows shown, the cursor, two busy flags; the table behind them.
* Operations: load (on mount, on a change of the filter, after an action), load more.
* Hard: rows appear, change status and disappear between two pages; no call knows whether
  it is still wanted when its answer comes.
* Correct when: a page boundary neither skips nor repeats a row; the page does not stay busy.

### Other components

| Component | State and operations | Why it is not modelled |
|---|---|---|
| Dashboard session (`api/client.ts`, `stores/auth.ts`) | tokens in one browser tab, one shared refresh, a retry after a 401 | not yet: the plan's next module; the server's side of it is `UserAccounts` |
| Audit log | append only, best effort, read by no handler | nothing depends on it |
| Forms and other views | rendering over the admin API | no state of their own beyond one call |
| Generated handlers, models and types | routing, decoding, one-statement wrappers, test mocks | the statements that matter are steps of the modules |
| Process startup, health, system statistics | configuration, wiring, read-only probes | pure I/O |

## 2. Modules

| Module | Models | Composition |
|---|---|---|
| `UpdateRows` | abstract specification: what the `updates` table promises | |
| `UpdateStreams` | publish, delete, cleanup as interleaved requests | implements `UpdateRows!RowSpec` |
| `AssetReclaim` | plan, upload, finalize, rollback, gc | takes its row steps from `UpdateRows` |
| `SigningKeys` | the key requests | |
| `ManifestAnswer` | pure operators: content negotiation, the multipart and JSON answers, signatures | used by `DeviceUpdates` |
| `DeviceUpdates` | manifest endpoint and devices | extends `UpdateStreams`: its admin steps run under the devices |
| `RowColumn` | abstract specification: one column of a table whose rows are written whole | |
| `UserAccounts` | users, login, refresh, bootstrap | implements `RowColumn` for `disabled_at` and `password_hash` |
| `AppTokens` | apps, API tokens, the token middleware | implements `RowColumn` for `deleted_at` and `revoked_at` |
| `ClientEvents` | the events endpoint and the statistics | extends `AppTokens`: events arrive while apps are deleted |
| `UpdateDetailPage` | the dashboard page of one update with its server | |
| `UpdatesListPage` | the dashboard list with the paged listing | takes its row steps from `UpdateRows` |
| `*_proofs` | theorems about the module of that name | `ClientEvents_proofs` also holds the lemmas about `AppTokens` |
| `MC*` | model values, symmetry sets and constant functions for TLC | |

### UpdateRows and UpdateStreams

`status`, `publishedAt` and `deleted` are the columns, `clock` the database clock. `pc`,
`target`, `seen` and `stamp` are the local variables of the requests in flight: which
statement comes next, the row, the status it was read with, and the `now()` of its publish
statement. `BeginPublish` starts the statement (fixing the time) and `CommitPublish` makes
it take effect, so that two publishes can commit against their time order. `BeginDelete`
reads the row, `CheckRank` counts, `SoftDelete` writes. `CleanupUpdates` is one statement.
`raced` is history: the published rows taken by a delete that had read `pending`, which is
how the properties name the one race the code does lose (finding 1).

`UpdateRows` says what other parts may rely on: a row is inserted once, published at most
once, deleted from either state and for ever. `ImplementsUpdateRows` shows that the
interleaved requests keep it (checked by TLC and proved).

### AssetReclaim

`objects` and `rows` are the bucket and the `assets` table, `assets` the `update_assets` rows
of each update; `status` and `deleted` come from `UpdateRows`. `pc`, `want`, `need`, `todo`
and `refs` are the local variables of the publishers and rollbacks, `gcPc`, `gcTodo` and
`gcAsset` those of gc. `swept` and `exposed` are history: what gc took from under a request,
and the updates inserted while it did. Publishers are runs of the CLI together with
the finalize handler they call, rollbacks are handlers, `gc` is the job. An asset is its content hash: the key of its object is computed from it.

`AssetReclaim` takes publish and delete from `UpdateRows` rather than from `UpdateStreams`:
the detailed requests are proved to implement those steps, and when an update may be
published or deleted does not matter to its assets. A listing, the reading of all the rows
a plan asks for and the HEAD loop are one action each; `upsertAssets`' insert and its read
back are merged. gc runs never overlap: the job has a ten-minute deadline and a daily
schedule. A PUT that outlives its CLI can only add objects.

### SigningKeys

The rows of one app with their key ids, and one slot of local variables per request. Row
ids are creation order. Requests that are rejected after at most one read and before
any write are stutters. Key material is left out.

### DeviceUpdates

Extends `UpdateStreams` with the manifest requests. `at` is the statement a device's
request executes next, `running` the update the device runs, `offered` the one it is being
served. The device is external: one request at a time, reports what it runs, runs what it
is served; an answer may be lost (`Lose`) and a statement may fail (`Fail`), both bounded
by `MaxFailures`. The app's newest key is `signing`. The insert of a runtime version that
loses its race and the second lookup are one action, for version rows are never removed.
The recording of the request is part of its answer, and may fail without failing the
request. `AcceptOf` is the set of media types a device's Accept header names, and `answer` what
the endpoint has rendered for it with `ManifestAnswer`: status, content type, parts, and which
parts are signed. A request whose headers are malformed is refused before it reads anything
and is left out; the uuid comparison that spares a device what it
already runs is equality of updates, since a manifest has one update
(`OneUpdatePerManifest`, checked and proved in `AssetReclaim`).

### UpdateDetailPage

`scopeGeneration` and `statsRequestId` are the page's own counters, `loads` and `polls` the
calls not yet returned with what the server has answered, `act` the button's handler in
progress, and `goal` the page a `router.push` of the code is on its way to. The statistics
stand for all live data: client events are fetched, guarded and shown together with them. An
aborted call may still return its answer, so the models rest on the guards and not on the
abort.

A push (`LoadFails`, `ActReturns`) ends in one of three ways. It arrives, where it was sent
or where the guard redirects it (`Arrive`). It is refused, because looking the app up has
failed with anything but a 404, and the router stays (`NavigationFails`). Or it is cancelled
by a newer navigation: the user's (`Navigate`), or that of a load that fails meanwhile; the
handler that awaited it then goes on when its guard has returned (`CancelledPushSettles`).
The user may navigate anywhere at any time; of such a navigation the model keeps what it
does: it cancels a push, and arrives or does not.

`failed` is history: the page's last load has failed. The page then shows an older update or
none, for as long as the push takes or, when it is refused, until the user leaves; the
properties are about what the page shows otherwise, and finding 5 about this case. After an
unmount a publish that was awaited still reloads, and may set the timer again: `abandoned` is
the history that names this case (finding 4).

### RowColumn, UserAccounts and AppTokens

The models goctl generates have one `Update` statement per table, which sets every column
where `id = $1`. `RowColumn` is what such a table promises of one column: a request that has
read a row *restores* the column's value as read, *chooses* a value, or *inserts* the row
(refused by the unique constraint if it is there by then), whichever is pending when its
statement takes effect. That a restore may undo a later choice is part of the promise, because it
is what the code does (findings 8 and 9); that nothing else happens to the column is what
`AccountColumns` and `AppColumns` check. The refinement maps `pending` to what each request is about
to write (`WriteOf`, `WriteToApp`, `WriteToToken`).

In `UserAccounts` a row is known by its username, `request` holds the operation in flight and
the row it is going to write, `access` and `refresh` who holds an unexpired token. One name
stands for one account in both spellings a user can type: `Lower` is the server's
normalisation, applied by `CreateUser` and by nobody else. Any holder of an access token may call the
administration: there are no roles.

In `AppTokens` `at`, `app` and `token` are the local variables of a request: its next
statement and what it is about. The upload endpoints are followed through the
middleware (`FindToken`, `Authorize`, `TouchToken`) to the handler's own lookup of the app
(`BeginUpload`). A row that is written back by `UpdateApp` or `TouchToken` was found with the
column null, since a deleted app or a revoked token is refused: so the write clears it.
`CutOff` and `Gone` say of a token, and of an app, that no request under way can undo its
revocation or deletion; `RevocationHolds` and `DeletionHolds` say that this is for ever.

### ClientEvents

`rows` counts the `client_events` rows of an event id, `delivery` is where each attempt to
deliver it stands. The device is external: it sends an event until it is answered, also while
another attempt is under way. `Reported` is the manifest it means; the assumption on
`SentManifest` and `SentUpdate` is what `docs/IMPLEMENTATION.md:509` asks of clients, that it
is in `manifestUuid`, or in `updateId` when that field is empty.

### UpdatesListPage

`call` holds each listing in flight and, once the server has read the table, its answer. A row
may appear anywhere in the order of ids, for its id is made before it is inserted. `mixed` is
history: calls have overlapped since the list was last reset. While they do, an answer for
another filter may replace the list; the properties are about the list otherwise. `steady` is
the set of rows that were there at the reset and have matched the filter since: a row leaves
it by being deleted or, under the filter for drafts, by being published. A page is
`Largest` of the rows that match below the cursor: `order by id desc limit`.

## 3. Runs

Bounds are the constants named in each `.cfg`; each is a guard in the module.

| Run | Result | What it shows | Bounds, and why they are enough |
|---|---|---|---|
| `streams` | pass | The newest update stays live, recent ones survive overlapping deletes, streams only advance, publish times are final, and the rows keep `UpdateRows!RowSpec` | 2 requests, 4 updates of one stream and 1 of another, `MinRank` 2: two deletes that both passed their rank check over a third and a fourth row, with cleanup in between, and a row of another stream that a wrong partition would count. Symmetric in the first four updates, in the requests; the stream map tells the fifth apart |
| `streams_late_delete` | violation | Finding 1 | `MinRank` 3, the code's value |
| `reclaim` | pass | No row in use is lost, one manifest makes one update, and a live update keeps its objects unless gc was taking them when it was inserted | 1 manifest of 2 assets, 2 publishers and a rollback, 2 updates: enough for a finalize that races another and for gc between any two of its steps. Symmetric in updates and publishers |
| `gc_live` | pass | Under gc's fairness every row that no update ever referenced is reclaimed or taken; live updates keep their objects | 2 manifests that share an asset, so that gc takes one asset of an update and not the other; 1 publisher and 1 rollback, no symmetry |
| `gc_orphan_rows` | violation | Finding 2 | 1 publisher |
| `keys_overlap` | pass | Which overlaps and sequences the key checks do exclude; a request changes only the row it read although key ids are recycled | 3 key ids, 4 rows, so that at least one key id is recycled |
| `keys_single` | violation | Finding 3 | one request at a time |
| `devices` | pass | Devices move forward only, no request is refused or left unrecorded for losing a race, answers are readable and signed as expected, and every device comes to run the final update | 2 devices on one stream, one that wants signed multipart answers and one that reads unsigned JSON; 2 admin requests, so that 2 updates are published out of order (with one request no device could be taken back at all); 1 key change, a key that appears between choice and signature; 1 failure: a device holding the answer of an update while the other is published or deleted. A key that goes is left to the theorems, which hold for any changes of the key. No symmetry, because of the liveness property |
| `accounts` | pass | `disabled_at` and `password_hash` change only as `RowColumn` says, someone locked out comes back only by being enabled, and disabling ends in a lockout | 2 requests, which is one race; 2 spellings of one name, so that a bootstrap and a create meet, or pass each other; 2 passwords, so that a restored one can be told from the new |
| `app_traffic` | pass | An event is one row, statistics count devices, `deleted_at` and `revoked_at` change only as `RowColumn` says, and revocations and deletions hold | 2 requests, 2 apps, so that a token may be asked for under another app; 1 token, 2 events of one device about one manifest (a client with the new field and an old one), 3 attempts, two of them to deliver the same event, and 1 loss |
| `updates_list` | pass | Without overlapping calls no row is skipped or shown twice, and the busy flags go away | 3 rows, pages of one row, so that every row is a page boundary; 2 calls, so that they may overlap; no filter, drafts or published rows |
| `detail_page` | pass | Unless its last load has failed, the page shows and polls the update of its route; whatever failed, it polls no other than it shows; numbers never go back, the skeleton gives way | 2 updates, 3 scopes, 2 polls, 1 change of the data: a load of each update and a late one from before the switch, with two polls to confuse; pushes arrive, fail or are cancelled without a bound |

Liveness is never checked under symmetry. Deadlock is checked in every run but `accounts` and
`app_traffic`: there the system may stop, when the only administrator is disabled and no token
is left, or when all apps are deleted and all tokens have expired.

### Findings

1. **A delete that read `pending` removes the current update** (`streams_late_delete`).
   `DeleteUpdate` checks the rank only if the row it read was published, and `SoftDelete`
   looks at `deleted_at` alone. A publish in between makes the draft current and the delete
   then removes it, against `deleteupdatelogic.go:17`. Devices on that stream can be taken
   back; every other property of the streams is stated, and holds, up to this race.
2. **Rows of deleted updates' assets are never reclaimed** (`gc_orphan_rows`).
   `update_assets` keeps its foreign key for soft-deleted updates, so gc deletes the object,
   fails on the row and lists it again for ever. The row that is left makes later plans
   answer "reuse" for an object that is gone, and finalize then refuses that content.
3. **Two enabled keys from sequential requests** (`keys_single`).
   `ensureNoEnabledSigningKey` looks at the newest row only: create, disable, create,
   disable, enable the older, create.

The following were met while the modules were written. Their steps are in the modules, and
the properties are stated so that they name them; no run is spent on each alone.

4. **A page that was left goes on polling**. A publish that is answered after the page was
   left loads the update again in a new scope, and with it sets the timer of the unmounted
   component (`UpdateDetailView.vue:143`), which nothing stops any more;
   `docs/DASHBOARD.md:436` says that an unmount cancels the requests and stops the polling.
   `abandoned` in `PollsWhatIsShown`, whose third conjunct TLC refutes without it.
5. **After a failed load the buttons act on another update than the one shown**.
   `loadInitial` pushes the list of updates and takes the skeleton away at once (`UpdateDetailView.vue:91`). When the load of the update just switched to fails,
   the page shows the one before, and its buttons send the id of the route, against the
   dialog's "from this update" (`UpdateDetailView.vue:412`). This lasts until the list
   appears; if the guard's lookup of the app fails as well (`router/guards.ts:37`), the list
   does not appear at all. `failed` in `ShownIsCurrent`.
6. **gc can delete an object that a live update references** (`asset-gc/main.go:49`): the
   update was inserted after gc had listed the asset. `exposed` in `LiveUpdatesKeepObjects`.
7. **A refused manifest request is not recorded** (`manifestlogic.go:101`), against the comment
   at `manifestlogic.go:47`. The second alternative of `RefusedForAReason`.
8. **A revocation can be undone** (`apitokenauthmiddleware.go:92`): an upload that found the
   token valid writes its whole row back to stamp `last_used_at`.
9. **A deletion, or a disabling, can be undone** (`updateapplogic.go:43`, and login and change of
   password for `disabled_at`) in the same way.
10. **A new password ends no session** (`changepasswordlogic.go:49`), against
    `docs/IMPLEMENTATION.md:1513`.
11. **Names are normalised by `CreateUser` only** (`loginlogic.go:33`), while the dashboard's
    login form lowers them "as the server does" (`docs/DASHBOARD.md:171`): a first
    administrator configured with a capital cannot use it.
12. **Delete and cleanup collect no assets** (`cleanupupdateslogic.go:48`), against
    `docs/IMPLEMENTATION.md:1515`; only the job does.

### Fairness

* `AssetReclaim!FairSpec`: weak fairness of the listing and of the end of a run, since cron
  starts the job again and again; strong fairness of the two deletions of each asset, since
  a call that fails or is cut off by the deadline in one run is tried again in the next, and
  none fails for ever. Nothing is assumed of publishers and rollbacks.
* `DeviceUpdates!FairDeviceSpec`: weak fairness of each device's next step, `Ask` included:
  apps check for updates at every start, a handler in flight executes its next statement,
  and an answer that is not lost is taken. Nothing is assumed of the admin requests.
  `DevicesConverge` asks for the final update and a usable key to be there from some time
  on; finitely many failures and losses come before that.
* `UserAccounts!FairAccountSpec`: weak fairness of the end of each request, which every handler
  reaches, by success or failure, and of the expiry of each name's tokens: a token that is not
  renewed expires at its time. A user who goes on refreshing keeps interrupting the expiry, and
  this is the interesting case: disabling has to stop it. Nothing is assumed of who asks what.
* `UpdatesListPage!FairListSpec`: weak fairness of each call's progress: it is answered or fails.
* `UpdateDetailPage!FairSpec`: weak fairness of the steps of loads: a request is answered
  or fails in the end. Nothing is assumed of polls, buttons or the user.

## 4. Proofs

`tlapm` checks every theorem for all values of the constants; TLC checked each formula,
the inductive invariants included, first.

**UpdateStreams_proofs** rests on `StreamsAssumption` (finitely many updates, each in a
stream; `MinRank` and `MaxKeep` positive).

* `TypeCorrect`, and `Invariance`: `Spec => []IInv`, where
  `IInv == TypeOK /\ StampsDiffer /\ ReadsConsistent /\ DeleteKeepsMinRank /\ NewestStaysLive`.
  Neither safety property is inductive alone. `StampsDiffer` (publish times, written or
  about to be, differ, because the clock passes each stamp) is what makes "newest" unique.
  `ReadsConsistent` says that what a delete read as published is still published.
  `DeleteKeepsMinRank` counts *kept* rows rather than live ones; when another delete takes
  one of them, that row has itself `MinRank` newer ones, so the count does not fall
  (`DeleteKeepsMinRankStep`, with the counting lemmas `CountMonotone` and
  `RankLeavesMinRank`). `NewestStaysLive` follows: the newest has nobody newer.
* `NewestKept`, `MinRankKept`: the two invariants. `PublishedAtFinal`: the action property.
* `CurrentAdvances`: `CurrentOnlyAdvances`, through `HasNewest` (a stream that has published has
  a newest update: every step keeps this, a late publish included) and the lemma that the newest live row is what
  `FindLatestPublished` returns.
* `CleanupKeepsNewest`: one cleanup leaves every stream exactly its newest `keepLatestN` live
  published updates. By `StampsDiffer` the ranks of a stream's rows number them from 1 without
  a gap (`RanksNumberTheStream`), so the rows of rank at most k are k in number.
* `StreamServesHead`: `FindLatestPublished` finds one update in a stream that has a live
  published row, none otherwise, and it is the newest ever published unless a delete raced.
* `Refinement`: `Spec => ImplementsUpdateRows`.

**AssetReclaim_proofs**: `TypeCorrect`, `ObjectsKept`, `RowsExist` and `OneUpdate`. The
strengthening adds where each publisher and gc stand: what a publisher has verified is
stored unless gc was taking it (`Stored`), and a row that is referenced, or that a rollback
is going to reference, exists (`ForeignKeys`: gc's row delete fails on a reference and no
reference is ever removed). `RowsRefined`: the finalizes, rollbacks, publishes and deletes of
this module implement `UpdateRows!RowSpec` too.

**SigningKeys_proofs**: `TypeCorrect`, `OnlyReadRows`, `OnlyNewest`, `EnableLeavesOne`. The
strengthening says that without overlapping activations at most one request is past its
check (`OneActivates`) and that no key is enabled while one creates (`NoneWhileCreating`).
`SingleKeyOtherwise` is what is left of the invariant that finding 3 refutes: an older key
enabled again and overlapping activations are the only ways to two enabled keys.

**DeviceUpdates_proofs** extends the proofs of `UpdateStreams`: a step of the composition is a
step of `UpdateStreams` or leaves its rows alone (`RowsStep`), so `IInv` and `HasNewest` hold
under the devices (`RowsInvariance`), and the composition implements `UpdateStreams` and with it
`UpdateRows` (`StreamsUnderDevices`). `DeviceTypeCorrect` and `Refused` are direct.
`AnswersAlwaysFit` follows `Serve` through the rendering operators
(`NegotiatedIsAcceptable`: whatever is chosen for a header that names a known type, the client accepts).
`DevicesAdvance` needs `DeviceInv`: what a device runs and what it is being served was
published in its stream, the second is no older than the first and, once answered, another
update (`RunsItsStream`). The step that counts is `FindUpdate`, where `CurrentIsNewestEver` says that the
current update of a stream without a racing delete is the newest it ever published; by
`StampsDiffer` two different updates never have the same time, hence "newer".

**UpdateDetailPage_proofs**: `TypeCorrect`, `ShownCurrent`, `PollsShown`, `LiveAdvances`. The
invariant says that the current scope has at most one load, of the page the route is on,
behind the skeleton (`CurrentLoads`), so that a load that is shown or fails is about the
route; that a publish returning after the page was left was being awaited then
(`AwaitedPublish`); that the polls of the current scope are about the update shown
(`CurrentPolls`) and the newest was answered after the numbers shown (`NewestPoll`). For the
last, a load that finds a draft must not follow a poll of its scope (`DraftsAreNotPolled`):
what was polled is published, and no update is ever unpublished (`PublishedShown`). The
three ways a push can end touch none of this: refused and cancelled pushes leave the page
as it is.

**ClientEvents_proofs**, which also holds the lemmas about `AppTokens`: `TypeCorrect`, `EventsCountedOnce`,
`DevicesCounted`, `ColumnsRefined`, `RevocationsHold`, `DeletionsHold`. The invariant of the
admin side is `AppInv == AppTypeOK /\ FreshTokens`: a token about to be inserted has no row yet,
which another insert of it would break were tokens not fresh. `AppTypeOK` carries what the
column refinement needs, that a request that will write a row back holds one that exists.
`EventInv` adds that a row is there when an answer is on its way (`RowsFit`); `CountedOnce` would not
survive `Acknowledge` without it. `DevicesCounted` compares the counted devices with those
acknowledged and those reporting, by inclusion of finite sets (`CountedDevices`); it rests on the
assumption about clients in `EventsAssumption`. `CutOffStays` and `GoneStays` go through
the statements one by one: only a request already past its check can write the row back. Each step of
the composition is a step of `AppTokens` or leaves its tables alone (`AppStep`). `CountsNeverFall`: no step takes a
counted device away.

**UserAccounts_proofs**: `TypeCorrect`, `LockoutsHold`, `ColumnsRefined`. `LockoutHolds` needs
`LoginsReadEnabled` (a login in flight has read an enabled row), or a login could write the user
back enabled and issue tokens without having been counted as a way out. The refinement maps each find
to a read, a choice or a miss of each column, and each write to a commit; a refused insert or a
failed statement drops (`PasswordHashStep`, `DisabledAtStep`). `NamesNormalised`: every account
but the configured one has a normalised name, because every request that inserts another holds
one (`NamesInv`).

**UpdatesListPage_proofs** rests on `ListAssumption` (finitely many rows, with ids that are
numbers; a page has at least one row). `TypeCorrect`, `InOrderAlways`, `NothingLost`
and `PagingGoesDown` (an answer that keeps "Load more" moves its cursor strictly down).

* What a page is comes first. The places of a finite set's members, counted from the largest,
  are a bijection with 1 to its size (`PlacesAreABijection`); so `Largest` is in order, has at
  most `Limit` rows, and leaves out no row above its last (`LargestProperties`), and so does a
  `Page` (`PageProperties`).
* Neither `ListInOrder` nor `NothingSkipped` is inductive: an answer under way may still break
  them. `ListInv` adds, as long as no calls have overlapped, that there is one call (`OneCall`),
  that the cursor is the last row shown (`Boundary`), that what is steady matches the filter
  (`SteadyMatches`), and that the call belongs to the list as it is (`CallsFit`): it asks for
  the rows below the cursor, and its answer, once there, lies below the cursor and contains
  every steady row down to its own end (`AnswerFits`).
* `ListStep` is where the server reads the table and `CallsFit` follows from `PageProperties`;
  `ReceiveStep` is where the answer joins the list, by lemmas about appending a lower sequence
  (`ConcatInOrder`, `LastOfConcat`, `ContainsConcat`). A row that is inserted or changed
  meanwhile can only leave `steady` (`RowsStep`).

Model-checked only: liveness (`UnusedRowsReclaimed`, `DevicesConverge`, `DisabledUsersRunOut`,
`LoadingEnds`, `LoadingListEnds`), which is out of the prover's reach. Every safety property of
the passing runs is a theorem.

## 5. Assumptions and limits

* `UpdateStreams`, `AssetReclaim`, `SigningKeys` and `DeviceUpdates` are about one app that stays
  active; what a deletion does to requests under way is the subject of `AppTokens` and
  `ClientEvents`. Validation that refuses a request before it touches state is left out.
* `published_at` values differ: PostgreSQL has microseconds and the model gives every
  statement its own tick. Ties leave the order to the database and are listed as a hazard.
* Rollbacks compute a new manifest uuid from the millisecond; two of one update in the same
  millisecond collide on the unique constraint and one fails, which changes nothing.
* In `DeviceUpdates`, finalize's creation of a runtime version is atomic; losing that race
  answers 500 and changes nothing.
* Polls slower than five seconds always abort each other; nothing in the code promises
  otherwise, and real time is not modelled.
* Names of apps, `last_used_at`, `last_login_at` and descriptions are left out: their writers
  are modelled for what else they write.
* The constraints and foreign keys the handlers rely on are in the models; running the
  migrations is not.

### Not modelled

Of the Go code that is written by hand the models stand for the handlers that change state,
the queries they rest on, and both jobs' loops. Nearly half of the Go lines hold no behaviour
of their own: `*_mock.go` are generated test doubles, `types.go` the request and response
records, the handlers and `*_gen.go` decode a request or wrap one SQL statement, and
those that a model needs are mapped. What else is left out:

* **Dashboard session** (`api/client.ts`, `stores/auth.ts`): the shared refresh, the retry after a
  401, login and logout between awaits. It is state of one browser tab, rebuilt by signing
  in, and touches the server only through operations of `UserAccounts`; it is a module of
  its own, still to be written.
* **Audit log**: written after the fact, best effort, never read by a handler.
* **Listing filters and marks**: the filter by runtime version, the counts over
  `manifest_requests`, and the mark of the newest published row (`utils/updates.ts`), which would need
  a clock of seconds beside that of the rows.
* **Cryptography and formatting**: bcrypt, JWT encoding, key encryption, RSA signatures, the
  JSON of manifests, presigned URLs.
* **Startup, configuration, health probes, other views**: wiring and rendering.

## 6. Plan

Done: 1 `UpdateRows` and `UpdateStreams`; 2 `AssetReclaim`; 3 `SigningKeys`; 4 `DeviceUpdates`
with `ManifestAnswer`; 5 `UpdateDetailPage`; 6 `RowColumn`, `UserAccounts`, `AppTokens`;
7 `ClientEvents`; 8 `UpdatesListPage`. All with proofs.

What a continuation would take up:

1. `DashboardSession`. Properties: after a logout with no call under way the tab stays signed out; every
   waiting request returns, in spite of the retry. Bounds: 2 requests, 2 sessions.
2. Lost updates of the key table: a key deleted after it was enabled again.
3. Ties of `published_at` at the resolution of the columns and of the dashboard.
4. Proofs about `RowColumn` itself (a row once inserted is never `Absent` again), to be inherited by
   the four columns through the refinements.
