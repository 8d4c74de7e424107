---------------------------- MODULE UpdateStreams ----------------------------
(***************************************************************************)
(* The published streams of one app.  A stream is an (app, runtime version, *)
(* platform) triple; the update a device is offered, the current one, is    *)
(* the published, non-deleted row with the largest published_at.            *)
(*                                                                         *)
(* Publish and delete are HTTP requests that read a row and write it in a   *)
(* later statement, with other requests in between; one action is one SQL   *)
(* statement.  Cleanup is a single statement.  published_at is the now() of *)
(* the publish statement, fixed when the statement starts, so that publish  *)
(* statements may take effect out of timestamp order.                       *)
(***************************************************************************)
EXTENDS Naturals, FiniteSets

CONSTANTS
  Updates,     \* ids of update rows
  Streams,     \* (runtime version, platform) pairs of the app
  StreamOf,    \* the stream an update row belongs to, fixed at insert
  Requests,    \* publish and delete requests that may be in flight together
  NoUpdate,    \* the target of a request slot that is not in use
  MinRank,     \* minPublishedRankForDelete
  MaxKeep,     \* bound: largest keepLatestN passed to cleanup
  MaxTime      \* bound: number of publish statements ever started

ASSUME StreamsAssumption ==
  /\ IsFiniteSet(Updates)
  /\ NoUpdate \notin Updates
  /\ StreamOf \in [Updates -> Streams]
  /\ MinRank \in Nat \ {0}
  /\ MaxKeep \in Nat \ {0}
  /\ MaxTime \in Nat

VARIABLES
  status,       \* [Updates -> status column], "none" before the insert
  publishedAt,  \* [Updates -> published_at], 0 for null
  deleted,      \* the rows whose deleted_at is set
  clock,        \* the database clock, at the last publish statement started
  pc,           \* [Requests -> statement the request executes next]
  target,       \* [Requests -> update the request is about]
  seen,         \* [Requests -> status findAppUpdate returned]
  stamp,        \* [Requests -> now() of the request's publish statement]
  raced         \* history: published rows removed by a delete that read 'pending'

rows == <<status, publishedAt, deleted>>
vars == <<status, publishedAt, deleted, clock, pc, target, seen, stamp, raced>>

Locations == {"idle", "publish", "rank", "softDelete"}

TypeOK ==
  /\ status \in [Updates -> {"none", "pending", "published"}]
  /\ publishedAt \in [Updates -> Nat]
  /\ deleted \subseteq Updates
  /\ clock \in Nat
  /\ pc \in [Requests -> Locations]
  /\ target \in [Requests -> Updates \cup {NoUpdate}]
  /\ \A r \in Requests : (target[r] = NoUpdate) <=> (pc[r] = "idle")
  /\ seen \in [Requests -> {"none", "pending", "published"}]
  /\ stamp \in [Requests -> Nat]
  /\ \A r \in Requests : (stamp[r] = 0) <=> (pc[r] # "publish")
  /\ raced \subseteq deleted
  /\ \A u \in Updates : (publishedAt[u] = 0) <=> (status[u] # "published")

Live(u) == status[u] # "none" /\ u \notin deleted
Published(u) == status[u] = "published"

\* Mutant of SameStream: rows are ranked across the streams of the app.
SameStream_WholeApp(u, v) == {u, v} \subseteq Updates
SameStream(u, v) == StreamOf[u] = StreamOf[v]

\* The published, non-deleted updates of u's stream that are at least as new as
\* u: PublishedRank counts them, and so does the row number cleanup computes.
AtLeastAsNew(u) ==
  {v \in Updates : /\ Published(v)
                   /\ v \notin deleted
                   /\ SameStream(u, v)
                   /\ publishedAt[v] >= publishedAt[u]}

\* Mutant of PublishedRank: the comparison of published_at is the wrong way round.
PublishedRank_Ascending(u) ==
  Cardinality({v \in Updates : /\ Published(v)
                               /\ v \notin deleted
                               /\ SameStream(u, v)
                               /\ publishedAt[v] <= publishedAt[u]})
PublishedRank(u) == Cardinality(AtLeastAsNew(u))

\* FindLatestPublished: the empty set stands for ErrNotFound.  Its mutant sorts the
\* rows the wrong way round.
FindLatestPublished_Oldest(s) ==
  {u \in Updates : /\ StreamOf[u] = s
                   /\ Published(u)
                   /\ u \notin deleted
                   /\ \A v \in Updates :
                        (StreamOf[v] = s /\ Published(v) /\ v \notin deleted)
                        => publishedAt[u] <= publishedAt[v]}
FindLatestPublished(s) ==
  {u \in Updates : /\ StreamOf[u] = s
                   /\ Published(u)
                   /\ u \notin deleted
                   /\ \A v \in AtLeastAsNew(u) : v = u}

-----------------------------------------------------------------------------
Init ==
  /\ status = [u \in Updates |-> "none"]
  /\ publishedAt = [u \in Updates |-> 0]
  /\ deleted = {}
  /\ clock = 0
  /\ pc = [r \in Requests |-> "idle"]
  /\ target = [r \in Requests |-> NoUpdate]
  /\ seen = [r \in Requests |-> "none"]
  /\ stamp = [r \in Requests |-> 0]
  /\ raced = {}

\* The status finalize and rollback give a new row; its mutant publishes at once.
DraftStatus_AutoPublish == "published"
DraftStatus == "pending"

\* Finalize or rollback commits a new row.
InsertWithAssets(u) ==
  /\ status[u] = "none"
  /\ status' = [status EXCEPT ![u] = DraftStatus]
  /\ UNCHANGED <<publishedAt, deleted, clock, pc, target, seen, stamp, raced>>

\* findAppUpdate finds the row and its publish statement starts: now() is fixed.
\* Nothing about the row's status is looked at here.
BeginPublish(r, u) ==
  /\ pc[r] = "idle"
  /\ Live(u)
  /\ clock < MaxTime
  /\ clock' = clock + 1
  /\ stamp' = [stamp EXCEPT ![r] = clock + 1]
  /\ target' = [target EXCEPT ![r] = u]
  /\ pc' = [pc EXCEPT ![r] = "publish"]
  /\ UNCHANGED <<rows, seen, raced>>

\* The handler returns and its local variables are gone.
Answer(r) ==
  /\ pc' = [pc EXCEPT ![r] = "idle"]
  /\ target' = [target EXCEPT ![r] = NoUpdate]
  /\ seen' = [seen EXCEPT ![r] = "none"]
  /\ stamp' = [stamp EXCEPT ![r] = 0]

\* The where clause of the publish statement; its mutants drop one condition each.
Publishable_AnyStatus(u) == u \notin deleted
Publishable_EvenDeleted(u) == status[u] = "pending"
Publishable(u) == status[u] = "pending" /\ u \notin deleted

\* The publish statement takes effect, or affects no row and the request is
\* answered 409.
CommitPublish(r) ==
  /\ pc[r] = "publish"
  /\ IF Publishable(target[r])
     THEN /\ status' = [status EXCEPT ![target[r]] = "published"]
          /\ publishedAt' = [publishedAt EXCEPT ![target[r]] = stamp[r]]
     ELSE UNCHANGED <<status, publishedAt>>
  /\ Answer(r)
  /\ UNCHANGED <<deleted, clock, raced>>

\* DeleteUpdate reads the row: a pending draft goes straight to the soft delete.
BeginDelete(r, u) ==
  /\ pc[r] = "idle"
  /\ Live(u)
  /\ target' = [target EXCEPT ![r] = u]
  /\ seen' = [seen EXCEPT ![r] = status[u]]
  /\ pc' = [pc EXCEPT ![r] = IF status[u] = "published" THEN "rank" ELSE "softDelete"]
  /\ UNCHANGED <<rows, clock, stamp, raced>>

\* errUpdateTooRecent; its mutant lets the update at the limit go.
TooRecent_AtLimit(u) == PublishedRank(u) < MinRank
TooRecent(u) == PublishedRank(u) <= MinRank

\* DeleteUpdate asks for the rank and answers 400 when the update is too recent.
CheckRank(r) ==
  /\ pc[r] = "rank"
  /\ IF TooRecent(target[r])
     THEN Answer(r)
     ELSE /\ pc' = [pc EXCEPT ![r] = "softDelete"]
          /\ UNCHANGED <<target, seen, stamp>>
  /\ UNCHANGED <<rows, clock, raced>>

\* SoftDelete looks at deleted_at only, never again at the status.
SoftDelete(r) ==
  /\ pc[r] = "softDelete"
  /\ deleted' = deleted \cup {target[r]}
  /\ raced' = IF Published(target[r]) /\ seen[r] = "pending" /\ target[r] \notin deleted
              THEN raced \cup {target[r]}
              ELSE raced
  /\ Answer(r)
  /\ UNCHANGED <<status, publishedAt, clock>>

\* One statement ranks the rows of all the streams of the app and deletes.
SoftDeleteBeyondRank(keepLatestN) ==
  deleted' = deleted \cup
    {u \in Updates : Published(u) /\ u \notin deleted /\ PublishedRank(u) > keepLatestN}

CleanupUpdates(keepLatestN) ==
  /\ SoftDeleteBeyondRank(keepLatestN)
  /\ UNCHANGED <<status, publishedAt, clock, pc, target, seen, stamp, raced>>

Next ==
  \/ \E u \in Updates : InsertWithAssets(u)
  \/ \E r \in Requests, u \in Updates : BeginPublish(r, u) \/ BeginDelete(r, u)
  \/ \E r \in Requests : CommitPublish(r) \/ CheckRank(r) \/ SoftDelete(r)
  \/ \E k \in 1..MaxKeep : CleanupUpdates(k)

Spec == Init /\ [][Next]_vars

-----------------------------------------------------------------------------
\* Published in s, deleted or not.
EverPublished(s) == {u \in Updates : StreamOf[u] = s /\ Published(u)}

\* The published updates strictly newer than u that still count: live ones, and
\* those a racing delete took.
NewerKept(u) ==
  {v \in Updates : /\ Published(v)
                   /\ (v \notin deleted \/ v \in raced)
                   /\ SameStream(u, v)
                   /\ publishedAt[v] > publishedAt[u]}

\* The newest update a stream ever published stays live, so the stream is never
\* emptied and never falls back to an older update: not by cleanup, whatever
\* keepLatestN, and not by any interleaving of deletes that read the row as
\* published.  Only a delete that read it as pending can take it (raced).
NewestStaysLive ==
  \A u \in Updates :
    (/\ Published(u)
     /\ \A v \in EverPublished(StreamOf[u]) : publishedAt[v] <= publishedAt[u])
    => (u \notin deleted \/ u \in raced)

\* The rank DeleteUpdate read may be stale when its soft delete runs, and still a
\* published update it removes has MinRank newer ones kept in its stream:
\* overlapping deletes and cleanups cannot add up to removing a recent update.
DeleteKeepsMinRank ==
  \A r \in Requests :
    (pc[r] = "softDelete" /\ seen[r] = "published" /\ target[r] \notin deleted)
    => Cardinality(NewerKept(target[r])) >= MinRank

\* published_at of the update FindLatestPublished returns for s, 0 for none.
CurrentAt(s) ==
  IF FindLatestPublished(s) = {} THEN 0
  ELSE publishedAt[CHOOSE u \in FindLatestPublished(s) : TRUE]

\* What devices of a stream are offered only moves forward in published_at: late
\* publish commits, deletes and cleanups never bring an older update back or empty
\* the stream, as long as no delete that read 'pending' has taken a published row
\* of it (after which a rank read earlier may no longer protect the head).
CurrentOnlyAdvances ==
  [][\A s \in Streams :
       CurrentAt(s)' >= CurrentAt(s) \/ \E u \in raced' : StreamOf[u] = s]_vars

\* A second publish of the same update, however the two overlap, never restamps
\* published_at and so never moves an old update to the head of its stream.
PublishedAtIsFinal ==
  [][\A u \in Updates : Published(u) =>
       Published(u)' /\ publishedAt'[u] = publishedAt[u]]_vars

\* The interleaved requests implement the promise of the updates table.
Rows == INSTANCE UpdateRows WITH Updates <- Updates, status <- status, deleted <- deleted
ImplementsUpdateRows == Rows!RowSpec

\* What the comment on minPublishedRankForDelete says: a delete request removes a
\* published update only when it lags MinRank versions behind in its stream.  The
\* step is a request's soft delete, which alone moves a request out of it.
DeletedPublishedLagsBehind ==
  [][\A r \in Requests :
       (/\ pc[r] = "softDelete" /\ pc'[r] = "idle"
        /\ Published(target[r]) /\ target[r] \notin deleted)
       => Cardinality(AtLeastAsNew(target[r])) > MinRank]_vars
=============================================================================
