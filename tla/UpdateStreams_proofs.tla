------------------------- MODULE UpdateStreams_proofs -------------------------
(***************************************************************************)
(* Proofs about UpdateStreams, for every set of updates, streams and        *)
(* requests and every value of the bounds.                                  *)
(***************************************************************************)
EXTENDS UpdateStreams, FiniteSetTheorems, TLAPS

-----------------------------------------------------------------------------
(***************************************************************************)
(* Type correctness.                                                        *)
(***************************************************************************)

\* One step of any request keeps the types.
LEMMA TypeStep == TypeOK /\ [Next]_vars => TypeOK'
<1> SUFFICES ASSUME TypeOK, [Next]_vars PROVE TypeOK'
  OBVIOUS
<1> USE StreamsAssumption DEF TypeOK, Locations, rows
<1>1. ASSUME NEW u \in Updates, InsertWithAssets(u) PROVE TypeOK'
  BY <1>1 DEF InsertWithAssets, DraftStatus
<1>2. ASSUME NEW r \in Requests, NEW u \in Updates, BeginPublish(r, u) PROVE TypeOK'
  BY <1>2 DEF BeginPublish
<1>3. ASSUME NEW r \in Requests, NEW u \in Updates, BeginDelete(r, u) PROVE TypeOK'
  BY <1>3 DEF BeginDelete, Live
<1>4. ASSUME NEW r \in Requests, CommitPublish(r) PROVE TypeOK'
  BY <1>4 DEF CommitPublish, Publishable, Answer
<1>5. ASSUME NEW r \in Requests, CheckRank(r) PROVE TypeOK'
  BY <1>5 DEF CheckRank, Answer
<1>6. ASSUME NEW r \in Requests, SoftDelete(r) PROVE TypeOK'
  BY <1>6 DEF SoftDelete, Answer
<1>7. ASSUME NEW k \in 1..MaxKeep, CleanupUpdates(k) PROVE TypeOK'
  BY <1>7 DEF CleanupUpdates, SoftDeleteBeyondRank
<1>8. CASE UNCHANGED vars
  BY <1>8 DEF vars
<1>9. QED
  BY <1>1, <1>2, <1>3, <1>4, <1>5, <1>6, <1>7, <1>8 DEF Next

\* The types of the variables and the CHECK constraint that ties status to
\* published_at hold whatever requests overlap: no interleaving of publish and
\* delete statements commits a published row without its published_at.
THEOREM TypeCorrect == Spec => []TypeOK
<1>1. Init => TypeOK
  BY StreamsAssumption DEF Init, TypeOK, Locations
<1>2. QED
  BY <1>1, TypeStep, PTL DEF Spec

-----------------------------------------------------------------------------
(***************************************************************************)
(* The inductive invariant behind NewestStaysLive and DeleteKeepsMinRank.   *)
(***************************************************************************)

\* published_at values are pairwise different, and so are the now() values that
\* publish statements in flight will write.
StampsDiffer ==
  /\ \A u \in Updates : publishedAt[u] <= clock
  /\ \A r \in Requests : stamp[r] <= clock
  /\ \A u, v \in Updates :
       Published(u) /\ Published(v) /\ publishedAt[u] = publishedAt[v] => u = v
  /\ \A r, q \in Requests :
       pc[r] = "publish" /\ pc[q] = "publish" /\ stamp[r] = stamp[q] => r = q
  /\ \A r \in Requests, u \in Updates :
       pc[r] = "publish" /\ Published(u) => stamp[r] # publishedAt[u]

\* What a delete request read is still true of a published row, and it has read
\* something by the time it writes.
ReadsConsistent ==
  /\ \A r \in Requests :
       /\ pc[r] = "rank" => seen[r] = "published"
       /\ pc[r] = "softDelete" => seen[r] \in {"pending", "published"}
       /\ pc[r] = "softDelete" => status[target[r]] # "none"
       /\ seen[r] = "published" => pc[r] \in {"rank", "softDelete"} /\ Published(target[r])
  /\ \A u \in raced : Published(u)

IInv ==
  /\ TypeOK
  /\ StampsDiffer
  /\ ReadsConsistent
  /\ DeleteKeepsMinRank
  /\ NewestStaysLive

\* Every step keeps StampsDiffer: only a publish that starts takes a stamp, and the
\* clock has moved past every stamp taken before.
LEMMA StampsDifferStep ==
  TypeOK /\ StampsDiffer /\ [Next]_vars => StampsDiffer'
<1> SUFFICES ASSUME TypeOK, StampsDiffer, [Next]_vars PROVE StampsDiffer'
  OBVIOUS
<1> USE StreamsAssumption DEF TypeOK, StampsDiffer, Published, Locations, rows
<1>1. ASSUME NEW u \in Updates, InsertWithAssets(u) PROVE StampsDiffer'
  BY <1>1 DEF InsertWithAssets, DraftStatus
<1>2. ASSUME NEW r \in Requests, NEW u \in Updates, BeginPublish(r, u) PROVE StampsDiffer'
  BY <1>2 DEF BeginPublish
<1>3. ASSUME NEW r \in Requests, NEW u \in Updates, BeginDelete(r, u) PROVE StampsDiffer'
  BY <1>3 DEF BeginDelete, Live
<1>4. ASSUME NEW r \in Requests, CommitPublish(r) PROVE StampsDiffer'
  BY <1>4 DEF CommitPublish, Publishable, Answer
<1>5. ASSUME NEW r \in Requests, CheckRank(r) PROVE StampsDiffer'
  BY <1>5 DEF CheckRank, Answer
<1>6. ASSUME NEW r \in Requests, SoftDelete(r) PROVE StampsDiffer'
  BY <1>6 DEF SoftDelete, Answer
<1>7. ASSUME NEW k \in 1..MaxKeep, CleanupUpdates(k) PROVE StampsDiffer'
  BY <1>7 DEF CleanupUpdates, SoftDeleteBeyondRank
<1>8. CASE UNCHANGED vars
  BY <1>8 DEF vars
<1>9. QED
  BY <1>1, <1>2, <1>3, <1>4, <1>5, <1>6, <1>7, <1>8 DEF Next

\* Every step keeps ReadsConsistent: a published row never becomes a draft again.
LEMMA ReadsConsistentStep ==
  TypeOK /\ ReadsConsistent /\ [Next]_vars => ReadsConsistent'
<1> SUFFICES ASSUME TypeOK, ReadsConsistent, [Next]_vars PROVE ReadsConsistent'
  OBVIOUS
<1> USE StreamsAssumption DEF TypeOK, ReadsConsistent, Published, Locations, rows
<1>1. ASSUME NEW u \in Updates, InsertWithAssets(u) PROVE ReadsConsistent'
  BY <1>1 DEF InsertWithAssets, DraftStatus
<1>2. ASSUME NEW r \in Requests, NEW u \in Updates, BeginPublish(r, u) PROVE ReadsConsistent'
  BY <1>2 DEF BeginPublish
<1>3. ASSUME NEW r \in Requests, NEW u \in Updates, BeginDelete(r, u) PROVE ReadsConsistent'
  BY <1>3 DEF BeginDelete, Live
<1>4. ASSUME NEW r \in Requests, CommitPublish(r) PROVE ReadsConsistent'
  BY <1>4 DEF CommitPublish, Publishable, Answer
<1>5. ASSUME NEW r \in Requests, CheckRank(r) PROVE ReadsConsistent'
  BY <1>5 DEF CheckRank, Answer
<1>6. ASSUME NEW r \in Requests, SoftDelete(r) PROVE ReadsConsistent'
  BY <1>6 DEF SoftDelete, Answer
<1>7. ASSUME NEW k \in 1..MaxKeep, CleanupUpdates(k) PROVE ReadsConsistent'
  BY <1>7 DEF CleanupUpdates, SoftDeleteBeyondRank
<1>8. CASE UNCHANGED vars
  BY <1>8 DEF vars
<1>9. QED
  BY <1>1, <1>2, <1>3, <1>4, <1>5, <1>6, <1>7, <1>8 DEF Next

\* Counting: a set of updates is finite, and a larger one has no fewer elements.
LEMMA CountMonotone ==
  ASSUME NEW S \in SUBSET Updates, NEW T \in SUBSET S
  PROVE  /\ Cardinality(S) \in Nat
         /\ Cardinality(T) \in Nat
         /\ Cardinality(T) <= Cardinality(S)
<1>1. IsFiniteSet(S) /\ IsFiniteSet(T)
  BY FS_Subset, StreamsAssumption
<1>2. QED
  BY <1>1, FS_Subset, FS_CardinalityType

\* An update a rank check lets through has MinRank newer live ones.
LEMMA RankLeavesMinRank ==
  ASSUME TypeOK, StampsDiffer, NEW u \in Updates, Published(u), ~TooRecent(u)
  PROVE  Cardinality(NewerKept(u)) >= MinRank
<1> DEFINE Others == AtLeastAsNew(u) \ {u}
<1>1. AtLeastAsNew(u) \in SUBSET Updates /\ NewerKept(u) \in SUBSET Updates
  BY DEF AtLeastAsNew, NewerKept
<1>2. Others \subseteq NewerKept(u)
  BY DEF AtLeastAsNew, NewerKept, StampsDiffer, TypeOK
<1>3. IsFiniteSet(AtLeastAsNew(u))
  BY <1>1, FS_Subset, StreamsAssumption
<1>4. Cardinality(Others) >= Cardinality(AtLeastAsNew(u)) - 1
  <2>1. Cardinality(AtLeastAsNew(u)) \in Nat
    BY <1>3, FS_CardinalityType
  <2>2. Cardinality(Others) = IF u \in AtLeastAsNew(u) THEN Cardinality(AtLeastAsNew(u)) - 1
                              ELSE Cardinality(AtLeastAsNew(u))
    BY <1>3, FS_RemoveElement
  <2>3. QED
    BY <2>1, <2>2
<1>5. Cardinality(AtLeastAsNew(u)) > MinRank
  BY <1>3, FS_CardinalityType, StreamsAssumption DEF TooRecent, PublishedRank
<1>6. Cardinality(Others) <= Cardinality(NewerKept(u))
  BY <1>1, <1>2, CountMonotone
<1>7. QED
  BY <1>1, <1>3, <1>4, <1>5, <1>6, CountMonotone, FS_CardinalityType, StreamsAssumption

\* A step that takes nothing out of what is kept above the target of a delete
\* request, and admits no delete request, keeps DeleteKeepsMinRank.
LEMMA KeepsMinRank ==
  ASSUME DeleteKeepsMinRank, NEW q \in Requests, NEW u \in Updates,
         pc[q] = "softDelete", seen[q] = "published", target[q] = u, u \notin deleted,
         NewerKept(u) \subseteq NewerKept(u)'
  PROVE  Cardinality(NewerKept(u)') >= MinRank
<1>1. NewerKept(u)' \in SUBSET Updates
  BY DEF NewerKept
<1>2. Cardinality(NewerKept(u)) >= MinRank
  BY DEF DeleteKeepsMinRank
<1>3. QED
  BY <1>1, <1>2, CountMonotone, StreamsAssumption

\* Every step keeps DeleteKeepsMinRank: a newer update that another request or a
\* cleanup removes is itself one with newer ones, so the count over the kept ones
\* does not fall below MinRank.
LEMMA DeleteKeepsMinRankStep ==
  IInv /\ [Next]_vars => DeleteKeepsMinRank'
<1> SUFFICES ASSUME IInv, [Next]_vars PROVE DeleteKeepsMinRank'
  OBVIOUS
<1> SUFFICES ASSUME NEW q \in Requests, NEW w \in Updates, target'[q] = w,
                    pc'[q] = "softDelete", seen'[q] = "published", w \notin deleted'
             PROVE  Cardinality(NewerKept(w)') >= MinRank
  <2>1. TypeOK'
    BY TypeStep DEF IInv
  <2>2. \A q \in Requests : pc'[q] = "softDelete" => target'[q] \in Updates
    BY <2>1 DEF TypeOK
  <2>3. QED
    BY <2>2 DEF DeleteKeepsMinRank, NewerKept, Published, SameStream
<1> USE StreamsAssumption DEF IInv
<1>1. ASSUME NEW u \in Updates, InsertWithAssets(u)
      PROVE  Cardinality(NewerKept(w)') >= MinRank
  <2>1. NewerKept(w) \subseteq NewerKept(w)'
    BY <1>1 DEF InsertWithAssets, NewerKept, Published, SameStream, TypeOK
  <2>2. QED
    BY <1>1, <2>1, KeepsMinRank DEF InsertWithAssets
<1>2. ASSUME NEW r \in Requests, NEW u \in Updates, BeginPublish(r, u)
      PROVE  Cardinality(NewerKept(w)') >= MinRank
  <2>1. q # r
    BY <1>2 DEF BeginPublish, TypeOK
  <2>2. NewerKept(w) \subseteq NewerKept(w)'
    BY <1>2 DEF BeginPublish, NewerKept, Published, SameStream, rows
  <2>3. QED
    BY <1>2, <2>1, <2>2, KeepsMinRank DEF BeginPublish, TypeOK, rows
<1>3. ASSUME NEW r \in Requests, NEW u \in Updates, BeginDelete(r, u)
      PROVE  Cardinality(NewerKept(w)') >= MinRank
  <2>1. q # r
    BY <1>3 DEF BeginDelete, TypeOK
  <2>2. NewerKept(w) \subseteq NewerKept(w)'
    BY <1>3 DEF BeginDelete, NewerKept, Published, SameStream, rows
  <2>3. QED
    BY <1>3, <2>1, <2>2, KeepsMinRank DEF BeginDelete, TypeOK, rows
<1>4. ASSUME NEW r \in Requests, CommitPublish(r)
      PROVE  Cardinality(NewerKept(w)') >= MinRank
  <2>1. q # r
    BY <1>4 DEF CommitPublish, Answer, TypeOK
  <2>2. target[q] = w /\ pc[q] = "softDelete" /\ seen[q] = "published"
    BY <1>4, <2>1 DEF CommitPublish, Answer, TypeOK
  <2>3. Published(w) /\ w \in Updates
    BY <2>2 DEF ReadsConsistent, TypeOK
  <2>4. NewerKept(w) \subseteq NewerKept(w)'
    BY <1>4, <2>3 DEF CommitPublish, Publishable, NewerKept, Published, SameStream, TypeOK
  <2>5. QED
    BY <1>4, <2>2, <2>4, KeepsMinRank DEF CommitPublish
<1>5. ASSUME NEW r \in Requests, CheckRank(r)
      PROVE  Cardinality(NewerKept(w)') >= MinRank
  <2>1. NewerKept(w)' = NewerKept(w)
    BY <1>5 DEF CheckRank, rows, NewerKept, Published, SameStream
  <2>2. CASE q = r
    <3>1. ~TooRecent(w) /\ target[q] = w
      BY <1>5, <2>2 DEF CheckRank, Answer, TypeOK
    <3>2. Published(w)
      BY <1>5, <2>2, <3>1 DEF CheckRank, ReadsConsistent
    <3>3. QED
      BY <2>1, <3>1, <3>2, RankLeavesMinRank
  <2>3. CASE q # r
    BY <1>5, <2>1, <2>3, KeepsMinRank DEF CheckRank, Answer, TypeOK, rows
  <2>4. QED
    BY <2>2, <2>3
<1>6. ASSUME NEW r \in Requests, SoftDelete(r)
      PROVE  Cardinality(NewerKept(w)') >= MinRank
  <2> DEFINE t == target[r]
  <2>1. q # r
    BY <1>6 DEF SoftDelete, Answer, TypeOK
  <2>2. /\ target[q] = w /\ pc[q] = "softDelete" /\ seen[q] = "published"
        /\ w \notin deleted
    BY <1>6, <2>1 DEF SoftDelete, Answer, TypeOK
  <2>3. t \in Updates
    BY <1>6 DEF SoftDelete, TypeOK
  <2>4. CASE Published(t) /\ t \notin deleted /\ seen[r] = "published" /\ t \in NewerKept(w)
    <3>1. Cardinality(NewerKept(t)) >= MinRank
      BY <1>6, <2>4 DEF SoftDelete, DeleteKeepsMinRank
    <3>2. NewerKept(t) \subseteq NewerKept(w)'
      BY <1>6, <2>2, <2>3, <2>4 DEF SoftDelete, NewerKept, Published, SameStream, TypeOK
    <3>3. NewerKept(w)' \in SUBSET Updates
      BY DEF NewerKept
    <3>4. QED
      BY <2>2, <3>1, <3>2, <3>3, CountMonotone
  <2>5. CASE ~(Published(t) /\ t \notin deleted /\ seen[r] = "published" /\ t \in NewerKept(w))
    <3>1. NewerKept(w) \subseteq NewerKept(w)'
      BY <1>6, <2>2, <2>3, <2>5
      DEF SoftDelete, NewerKept, Published, SameStream, TypeOK, ReadsConsistent
    <3>2. QED
      BY <2>2, <3>1, KeepsMinRank
  <2>6. QED
    BY <2>4, <2>5
<1>7. ASSUME NEW k \in 1..MaxKeep, CleanupUpdates(k)
      PROVE  Cardinality(NewerKept(w)') >= MinRank
  <2>1. /\ target[q] = w /\ pc[q] = "softDelete" /\ seen[q] = "published"
        /\ w \notin deleted
    BY <1>7 DEF CleanupUpdates, SoftDeleteBeyondRank, TypeOK
  <2>2. Published(w) /\ w \in Updates
    BY <2>1 DEF ReadsConsistent, TypeOK
  <2>3. PublishedRank(w) <= k
    <3>1. PublishedRank(w) \in Nat
      BY CountMonotone DEF PublishedRank, AtLeastAsNew
    <3>2. QED
      BY <1>7, <2>1, <2>2, <3>1 DEF CleanupUpdates, SoftDeleteBeyondRank
  <2>4. ASSUME NEW v \in NewerKept(w) PROVE v \in NewerKept(w)'
    <3>1. AtLeastAsNew(v) \in SUBSET AtLeastAsNew(w)
      BY <2>2 DEF AtLeastAsNew, NewerKept, SameStream, TypeOK
    <3>2. AtLeastAsNew(w) \in SUBSET Updates
      BY DEF AtLeastAsNew
    <3>3. /\ PublishedRank(v) \in Nat /\ PublishedRank(w) \in Nat
          /\ PublishedRank(v) <= PublishedRank(w)
      BY <3>1, <3>2, CountMonotone DEF PublishedRank
    <3>4. ~(PublishedRank(v) > k)
      BY <2>3, <3>3
    <3>5. QED
      BY <1>7, <3>4 DEF CleanupUpdates, SoftDeleteBeyondRank, NewerKept, Published, SameStream
  <2>5. QED
    BY <2>1, <2>4, KeepsMinRank
<1>8. CASE UNCHANGED vars
  <2>1. NewerKept(w)' = NewerKept(w)
    BY <1>8 DEF vars, NewerKept, Published, SameStream
  <2>2. QED
    BY <1>8, <2>1, KeepsMinRank DEF vars
<1>9. QED
  BY <1>1, <1>2, <1>3, <1>4, <1>5, <1>6, <1>7, <1>8 DEF Next

\* Every step keeps NewestStaysLive: the newest update has nobody newer, so neither a
\* rank check nor a row number lets it through.
LEMMA NewestStaysLiveStep ==
  IInv /\ [Next]_vars => NewestStaysLive'
<1> SUFFICES ASSUME IInv, [Next]_vars PROVE NewestStaysLive'
  OBVIOUS
<1> SUFFICES ASSUME NEW w \in Updates, Published(w)',
                    \A v \in Updates : StreamOf[v] = StreamOf[w] /\ Published(v)'
                      => publishedAt'[v] <= publishedAt'[w],
                    w \in deleted'
             PROVE  w \in raced'
  BY DEF NewestStaysLive, EverPublished, Published
<1> USE StreamsAssumption DEF IInv
<1> DEFINE WasNewest == /\ Published(w)
                        /\ \A v \in Updates : StreamOf[v] = StreamOf[w] /\ Published(v)
                             => publishedAt[v] <= publishedAt[w]
<1>1. WasNewest => w \notin deleted \/ w \in raced
  BY DEF NewestStaysLive, EverPublished
<1>2. ASSUME WasNewest, w \in deleted, raced \subseteq raced' PROVE w \in raced'
  BY <1>1, <1>2
<1>3. ASSUME NEW u \in Updates, InsertWithAssets(u) PROVE w \in raced'
  BY <1>2, <1>3 DEF InsertWithAssets, DraftStatus, Published, TypeOK
<1>4. ASSUME NEW r \in Requests, NEW u \in Updates, BeginPublish(r, u) PROVE w \in raced'
  BY <1>2, <1>4 DEF BeginPublish, rows, Published
<1>5. ASSUME NEW r \in Requests, NEW u \in Updates, BeginDelete(r, u) PROVE w \in raced'
  BY <1>2, <1>5 DEF BeginDelete, rows, Published
<1>6. ASSUME NEW r \in Requests, CommitPublish(r) PROVE w \in raced'
  <2>1. \A v \in Updates : Published(v) => Published(v)' /\ publishedAt'[v] = publishedAt[v]
    BY <1>6 DEF CommitPublish, Publishable, Published, TypeOK
  <2>2. w \in deleted /\ Published(w) /\ raced' = raced
    BY <1>6 DEF CommitPublish, Publishable, Published, TypeOK
  <2>3. QED
    BY <1>2, <2>1, <2>2 DEF TypeOK
<1>7. ASSUME NEW r \in Requests, CheckRank(r) PROVE w \in raced'
  BY <1>2, <1>7 DEF CheckRank, rows, Published
<1>8. ASSUME NEW r \in Requests, SoftDelete(r) PROVE w \in raced'
  <2>1. WasNewest /\ raced \subseteq raced'
    BY <1>8 DEF SoftDelete, Published
  <2>2. CASE w \in deleted
    BY <1>2, <2>1, <2>2
  <2>3. CASE w \notin deleted /\ seen[r] = "pending"
    BY <1>8, <2>1, <2>3 DEF SoftDelete
  <2>4. CASE w \notin deleted /\ seen[r] # "pending"
    <3>1. target[r] = w /\ seen[r] = "published"
      BY <1>8, <2>4 DEF SoftDelete, ReadsConsistent
    <3>2. NewerKept(w) = {}
      BY <2>1 DEF NewerKept, SameStream, TypeOK
    <3>3. Cardinality(NewerKept(w)) >= MinRank
      BY <1>8, <2>4, <3>1 DEF SoftDelete, DeleteKeepsMinRank
    <3>4. QED
      BY <3>2, <3>3, FS_EmptySet
  <2>5. QED
    BY <2>2, <2>3, <2>4
<1>9. ASSUME NEW k \in 1..MaxKeep, CleanupUpdates(k) PROVE w \in raced'
  <2>1. WasNewest /\ raced \subseteq raced'
    BY <1>9 DEF CleanupUpdates, SoftDeleteBeyondRank, Published
  <2>2. CASE w \in deleted
    BY <1>2, <2>1, <2>2
  <2>3. CASE w \notin deleted
    <3>1. PublishedRank(w) > k
      BY <1>9, <2>3 DEF CleanupUpdates, SoftDeleteBeyondRank
    <3>2. AtLeastAsNew(w) \in SUBSET {w}
      BY <2>1 DEF AtLeastAsNew, SameStream, TypeOK, StampsDiffer
    <3>3. PublishedRank(w) \in Nat /\ PublishedRank(w) <= 1
      <4>1. Cardinality({w}) = 1 /\ {w} \in SUBSET Updates
        BY FS_Singleton
      <4>2. QED
        BY <3>2, <4>1, CountMonotone DEF PublishedRank
    <3>4. QED
      BY <3>1, <3>3
  <2>4. QED
    BY <2>2, <2>3
<1>10. CASE UNCHANGED vars
  BY <1>2, <1>10 DEF vars, Published
<1>11. QED
  BY <1>3, <1>4, <1>5, <1>6, <1>7, <1>8, <1>9, <1>10 DEF Next

\* The invariant holds initially and is kept by every step.
THEOREM Invariance == Spec => []IInv
<1>1. Init => IInv
  BY StreamsAssumption
  DEF Init, IInv, TypeOK, Locations, StampsDiffer, ReadsConsistent, Published,
      DeleteKeepsMinRank, NewestStaysLive, EverPublished
<1>2. IInv /\ [Next]_vars => IInv'
  BY TypeStep, StampsDifferStep, ReadsConsistentStep, DeleteKeepsMinRankStep,
     NewestStaysLiveStep DEF IInv
<1>3. QED
  BY <1>1, <1>2, PTL DEF Spec

\* No interleaving of publish, delete and cleanup requests empties a stream or
\* takes it back to an older update, except a delete that read the newest update
\* as a draft.
THEOREM NewestKept == Spec => []NewestStaysLive
<1>1. IInv => NewestStaysLive
  BY DEF IInv
<1>2. QED
  BY <1>1, Invariance, PTL

\* The rank a delete request read protects the MinRank newest updates even when it
\* is stale by the time the row is deleted.
THEOREM MinRankKept == Spec => []DeleteKeepsMinRank
<1>1. IInv => DeleteKeepsMinRank
  BY DEF IInv
<1>2. QED
  BY <1>1, Invariance, PTL

-----------------------------------------------------------------------------
(***************************************************************************)
(* Steps: what publish, delete and cleanup may never do to a stream.        *)
(***************************************************************************)

\* What a published row keeps for ever, in any step: its status and published_at.
LEMMA PublishedAtStep ==
  TypeOK /\ [Next]_vars =>
    \A u \in Updates : Published(u) => Published(u)' /\ publishedAt'[u] = publishedAt[u]
<1> DEFINE Final == \A u \in Updates : Published(u) =>
                      Published(u)' /\ publishedAt'[u] = publishedAt[u]
<1> SUFFICES ASSUME TypeOK, [Next]_vars PROVE Final
  OBVIOUS
<1> USE DEF Published
<1>1. ASSUME NEW u \in Updates, InsertWithAssets(u) PROVE Final
  BY <1>1 DEF InsertWithAssets, TypeOK
<1>2. ASSUME NEW r \in Requests, CommitPublish(r) PROVE Final
  BY <1>2 DEF CommitPublish, Publishable, TypeOK
<1>3. ASSUME UNCHANGED <<status, publishedAt>> PROVE Final
  BY <1>3
<1>4. QED
  BY <1>1, <1>2, <1>3
  DEF Next, vars, rows, BeginPublish, BeginDelete, CheckRank, SoftDelete, CleanupUpdates,
      SoftDeleteBeyondRank

\* Overlapping publishes of one update never restamp its published_at.
THEOREM PublishedAtFinal == Spec => PublishedAtIsFinal
<1>1. QED
  BY PublishedAtStep, TypeCorrect, PTL DEF Spec, PublishedAtIsFinal, vars

\* Every stream that has published has a newest published update.
HasNewest ==
  \A u \in Updates : Published(u) =>
    \E n \in Updates :
      /\ StreamOf[n] = StreamOf[u]
      /\ Published(n)
      /\ \A v \in Updates : StreamOf[v] = StreamOf[u] /\ Published(v)
                             => publishedAt[v] <= publishedAt[n]

\* Every step keeps HasNewest: a publish that commits late may not be the newest.
LEMMA HasNewestStep == TypeOK /\ HasNewest /\ [Next]_vars => HasNewest'
<1> SUFFICES ASSUME TypeOK, HasNewest, [Next]_vars PROVE HasNewest'
  OBVIOUS
<1>1. ASSUME NEW t \in Updates, InsertWithAssets(t) PROVE HasNewest'
  <2>1. \A v \in Updates : Published(v)' <=> Published(v)
    BY <1>1 DEF InsertWithAssets, DraftStatus, Published, TypeOK
  <2>2. QED
    BY <1>1, <2>1 DEF InsertWithAssets, HasNewest
<1>2. ASSUME NEW r \in Requests, CommitPublish(r) PROVE HasNewest'
  <2> DEFINE t == target[r]
  <2>1. CASE ~Publishable(t)
    BY <1>2, <2>1 DEF CommitPublish, HasNewest, Published
  <2>2. CASE Publishable(t)
    <3>1. t \in Updates /\ stamp[r] \in Nat
      BY <1>2 DEF CommitPublish, TypeOK
    <3>2. \A v \in Updates : Published(v)' <=> Published(v) \/ v = t
      BY <1>2, <2>2, <3>1 DEF CommitPublish, Published, TypeOK
    <3>3. \A v \in Updates : publishedAt'[v] = IF v = t THEN stamp[r] ELSE publishedAt[v]
      BY <1>2, <2>2, <3>1 DEF CommitPublish, TypeOK
    <3>4. ~Published(t)
      BY <2>2 DEF Publishable, Published
    <3>5. SUFFICES ASSUME NEW u \in Updates, Published(u)'
                   PROVE  \E n \in Updates :
                            /\ StreamOf[n] = StreamOf[u]
                            /\ Published(n)'
                            /\ \A v \in Updates : StreamOf[v] = StreamOf[u] /\ Published(v)'
                                                   => publishedAt'[v] <= publishedAt'[n]
      BY DEF HasNewest, Published
    <3>6. CASE \A v \in Updates : StreamOf[v] = StreamOf[u] => ~Published(v)
      <4>1. u = t
        BY <3>2, <3>5, <3>6
      <4>2. \A v \in Updates : StreamOf[v] = StreamOf[u] /\ Published(v)' => v = t
        BY <3>2, <3>6
      <4>3. publishedAt'[t] <= publishedAt'[t]
        BY <3>1, <3>3
      <4>4. QED
        BY <3>5, <4>1, <4>2, <4>3
    <3>7. CASE \E v \in Updates : StreamOf[v] = StreamOf[u] /\ Published(v)
      <4>1. PICK n \in Updates :
              /\ StreamOf[n] = StreamOf[u]
              /\ Published(n)
              /\ \A v \in Updates : StreamOf[v] = StreamOf[u] /\ Published(v)
                                     => publishedAt[v] <= publishedAt[n]
        BY <3>7 DEF HasNewest
      <4>2. publishedAt[n] \in Nat /\ n # t
        BY <3>4, <4>1 DEF TypeOK
      <4>3. CASE StreamOf[t] = StreamOf[u] /\ stamp[r] > publishedAt[n]
        <5>1. \A v \in Updates : StreamOf[v] = StreamOf[u] /\ Published(v)'
                                   => publishedAt'[v] <= publishedAt'[t]
          BY <3>1, <3>2, <3>3, <4>1, <4>2, <4>3 DEF TypeOK
        <5>2. QED
          BY <3>1, <3>2, <4>3, <5>1
      <4>4. CASE ~(StreamOf[t] = StreamOf[u] /\ stamp[r] > publishedAt[n])
        <5>1. \A v \in Updates : StreamOf[v] = StreamOf[u] /\ Published(v)'
                                   => publishedAt'[v] <= publishedAt'[n]
          BY <3>1, <3>2, <3>3, <4>1, <4>2, <4>4
        <5>2. QED
          BY <3>2, <4>1, <5>1
      <4>5. QED
        BY <4>3, <4>4
    <3>8. QED
      BY <3>6, <3>7
  <2>3. QED
    BY <2>1, <2>2
<1>3. ASSUME UNCHANGED <<status, publishedAt>> PROVE HasNewest'
  BY <1>3 DEF HasNewest, Published
<1>4. QED
  BY <1>1, <1>2, <1>3
  DEF Next, vars, rows, BeginPublish, BeginDelete, CheckRank, SoftDelete, CleanupUpdates,
      SoftDeleteBeyondRank

\* A stream that has published has a newest published update.
LEMMA NewestExists == Spec => []HasNewest
<1>1. Init => HasNewest
  BY DEF Init, HasNewest, Published
<1>2. QED
  BY <1>1, HasNewestStep, TypeCorrect, PTL DEF Spec

\* FindLatestPublished returns the newest published update of a stream when that
\* update is live.
CurrentIsNewest ==
  \A n \in Updates :
    (/\ Published(n)
     /\ n \notin deleted
     /\ \A v \in Updates : StreamOf[v] = StreamOf[n] /\ Published(v)
                            => publishedAt[v] <= publishedAt[n])
    => CurrentAt(StreamOf[n]) = publishedAt[n]

\* When the newest update is live FindLatestPublished returns it and no other.
LEMMA CurrentFound == TypeOK /\ StampsDiffer => CurrentIsNewest
<1> SUFFICES ASSUME TypeOK, StampsDiffer, NEW n \in Updates, Published(n), n \notin deleted,
                    \A v \in Updates : StreamOf[v] = StreamOf[n] /\ Published(v)
                                       => publishedAt[v] <= publishedAt[n]
             PROVE  CurrentAt(StreamOf[n]) = publishedAt[n]
  BY DEF CurrentIsNewest
<1>1. n \in FindLatestPublished(StreamOf[n])
  BY DEF FindLatestPublished, AtLeastAsNew, SameStream, StampsDiffer, TypeOK
<1>2. \A x \in FindLatestPublished(StreamOf[n]) : x = n
  BY DEF FindLatestPublished, AtLeastAsNew, SameStream, TypeOK
<1>3. QED
  BY <1>1, <1>2 DEF CurrentAt

\* As long as no racing delete has hit a stream, the published_at of what its
\* devices are offered never decreases.
THEOREM CurrentAdvances == Spec => CurrentOnlyAdvances
<1> DEFINE Advances == \A s \in Streams :
                         CurrentAt(s)' >= CurrentAt(s) \/ \E u \in raced' : StreamOf[u] = s
           Final == \A u \in Updates : Published(u) =>
                      Published(u)' /\ publishedAt'[u] = publishedAt[u]
<1>1. IInv /\ IInv' /\ HasNewest' /\ CurrentIsNewest' /\ Final => Advances
  <2> SUFFICES ASSUME IInv, IInv', HasNewest', CurrentIsNewest', Final,
                      NEW s \in Streams, \A u \in raced' : StreamOf[u] # s
               PROVE  CurrentAt(s)' >= CurrentAt(s)
    OBVIOUS
  <2>1. PICK c \in Updates \cup {NoUpdate} :
          IF FindLatestPublished(s) = {} THEN CurrentAt(s) = 0
          ELSE c \in FindLatestPublished(s) /\ CurrentAt(s) = publishedAt[c]
    BY DEF CurrentAt, FindLatestPublished
  <2>2. CurrentAt(s)' \in Nat
    BY DEF CurrentAt, FindLatestPublished, IInv, TypeOK
  <2>3. CASE FindLatestPublished(s) = {}
    BY <2>1, <2>2, <2>3
  <2>4. CASE FindLatestPublished(s) # {}
    <3>1. c \in Updates /\ Published(c) /\ StreamOf[c] = s /\ CurrentAt(s) = publishedAt[c]
      BY <2>1, <2>4 DEF FindLatestPublished
    <3>2. Published(c)' /\ publishedAt'[c] = publishedAt[c]
      BY <3>1
    <3>3. PICK n \in Updates :
            /\ StreamOf[n] = s
            /\ Published(n)'
            /\ \A v \in Updates : StreamOf[v] = s /\ Published(v)'
                                   => publishedAt'[v] <= publishedAt'[n]
      BY <3>1, <3>2 DEF HasNewest, Published
    <3>4. n \notin deleted'
      BY <3>3 DEF IInv, NewestStaysLive, EverPublished, Published
    <3>5. CurrentAt(s)' = publishedAt'[n]
      BY <3>3, <3>4 DEF CurrentIsNewest, Published
    <3>6. QED
      BY <3>1, <3>2, <3>3, <3>5 DEF IInv, TypeOK
  <2>5. QED
    BY <2>3, <2>4
<1>2. IInv => CurrentIsNewest
  BY CurrentFound DEF IInv
<1>3. QED
  BY <1>1, <1>2, Invariance, NewestExists, PublishedAtFinal, PTL
  DEF Spec, CurrentOnlyAdvances, PublishedAtIsFinal

-----------------------------------------------------------------------------
(***************************************************************************)
(* What one cleanup leaves.                                                 *)
(***************************************************************************)

\* The published updates of s that are not deleted.
LivePublished(s) == {u \in Updates : StreamOf[u] = s /\ Published(u) /\ u \notin deleted}

\* Ranks number the live published updates of a stream, the newest having rank 1: the
\* row_number() of the cleanup statement.
LEMMA RanksNumberTheStream ==
  ASSUME TypeOK, StampsDiffer, NEW s \in Streams
  PROVE  LET L == LivePublished(s)
         IN  /\ IsFiniteSet(L) /\ Cardinality(L) \in Nat
             /\ \A u \in L : PublishedRank(u) \in 1..Cardinality(L)
             /\ \A u, v \in L : publishedAt[u] > publishedAt[v]
                                => PublishedRank(u) < PublishedRank(v)
             /\ \A i \in 1..Cardinality(L) : \E u \in L : PublishedRank(u) = i
<1> DEFINE L == LivePublished(s)
           Ranks == 1..Cardinality(L)
<1>1. L \in SUBSET Updates /\ IsFiniteSet(L) /\ Cardinality(L) \in Nat
  <2>1. L \in SUBSET Updates
    BY DEF LivePublished
  <2> QED BY <2>1, CountMonotone, FS_Subset, StreamsAssumption
<1>2. \A u \in L : AtLeastAsNew(u) = {v \in L : publishedAt[v] >= publishedAt[u]}
  BY DEF LivePublished, AtLeastAsNew, SameStream
<1>3. /\ \A u \in L : publishedAt[u] \in Nat
      /\ \A u, v \in L : publishedAt[u] = publishedAt[v] => u = v
  BY DEF LivePublished, TypeOK, StampsDiffer
<1> HIDE DEF L
<1>4. \A u \in L : PublishedRank(u) \in Ranks
  <2> SUFFICES ASSUME NEW u \in L PROVE PublishedRank(u) \in Ranks
    OBVIOUS
  <2>1. AtLeastAsNew(u) \in SUBSET L /\ u \in AtLeastAsNew(u)
    BY <1>2, <1>3
  <2>2. IsFiniteSet(AtLeastAsNew(u)) /\ PublishedRank(u) \in Nat
        /\ PublishedRank(u) <= Cardinality(L)
    BY <1>1, <2>1, FS_Subset, FS_CardinalityType DEF PublishedRank
  <2>3. PublishedRank(u) # 0
    BY <2>1, <2>2, FS_EmptySet DEF PublishedRank
  <2> QED BY <1>1, <2>2, <2>3
<1>5. ASSUME NEW u \in L, NEW v \in L, publishedAt[u] > publishedAt[v]
      PROVE  PublishedRank(u) < PublishedRank(v)
  <2>1. AtLeastAsNew(u) \in SUBSET AtLeastAsNew(v) /\ v \in AtLeastAsNew(v)
    BY <1>2, <1>3, <1>5
  <2>2. v \notin AtLeastAsNew(u)
    BY <1>2, <1>3, <1>5
  <2>3. AtLeastAsNew(v) \in SUBSET Updates
    BY <1>1, <1>2
  <2>4. IsFiniteSet(AtLeastAsNew(v))
    BY <2>3, FS_Subset, StreamsAssumption
  <2>5. PublishedRank(u) <= PublishedRank(v) /\ PublishedRank(u) # PublishedRank(v)
    BY <2>1, <2>2, <2>4, FS_Subset DEF PublishedRank
  <2> QED BY <1>4, <2>5
<1>6. \A i \in Ranks : \E u \in L : PublishedRank(u) = i
  <2> DEFINE rank == [u \in L |-> PublishedRank(u)]
  <2>1. rank \in Injection(L, Ranks)
    <3>1. rank \in [L -> Ranks]
      BY <1>4
    <3>2. ASSUME NEW u \in L, NEW v \in L, rank[u] = rank[v] PROVE u = v
      <4>1. ~(publishedAt[u] > publishedAt[v]) /\ ~(publishedAt[v] > publishedAt[u])
        BY <1>4, <1>5, <3>2
      <4> QED BY <1>3, <4>1
    <3> QED BY <3>1, <3>2 DEF Injection, IsInjective
  <2>2. IsFiniteSet(Ranks) /\ Cardinality(Ranks) = Cardinality(L)
    BY <1>1, FS_Interval
  <2>3. rank \in Surjection(L, Ranks)
    <3> HIDE DEF rank, Ranks
    <3> QED BY <2>1, <2>2, FS_Injection
  <2> QED BY <2>3 DEF Surjection
<1> QED BY <1>1, <1>4, <1>5, <1>6 DEF L

\* Cleanup leaves the keepLatestN newest published updates of every stream, or all of
\* them if there are no more.
CleanupIsExact ==
  \A k \in 1..MaxKeep : CleanupUpdates(k) =>
    \A s \in Streams :
      /\ LivePublished(s)' \subseteq LivePublished(s)
      /\ Cardinality(LivePublished(s)') =
           IF Cardinality(LivePublished(s)) < k THEN Cardinality(LivePublished(s)) ELSE k
      /\ \A u \in LivePublished(s)', v \in LivePublished(s) \ LivePublished(s)' :
           publishedAt[u] > publishedAt[v]

LEMMA CleanupStep == TypeOK /\ StampsDiffer => CleanupIsExact
<1> SUFFICES ASSUME TypeOK, StampsDiffer, NEW k \in 1..MaxKeep, CleanupUpdates(k),
                    NEW s \in Streams
             PROVE  /\ LivePublished(s)' \subseteq LivePublished(s)
                    /\ Cardinality(LivePublished(s)') =
                         IF Cardinality(LivePublished(s)) < k
                         THEN Cardinality(LivePublished(s)) ELSE k
                    /\ \A u \in LivePublished(s)', v \in LivePublished(s) \ LivePublished(s)' :
                         publishedAt[u] > publishedAt[v]
  BY DEF CleanupIsExact
<1> DEFINE L == LivePublished(s)
           n == IF Cardinality(L) < k THEN Cardinality(L) ELSE k
           K == {u \in L : PublishedRank(u) <= k}
<1>0. k \in Nat
  BY StreamsAssumption
<1>1. LivePublished(s)' = K
  <2>1. UNCHANGED <<status, publishedAt>>
    BY DEF CleanupUpdates
  <2>2. \A u \in L : PublishedRank(u) \in Nat
    BY RanksNumberTheStream
  <2>3. \A u \in Updates : u \in deleted' <=>
          u \in deleted \/ (Published(u) /\ u \notin deleted /\ PublishedRank(u) > k)
    BY DEF CleanupUpdates, SoftDeleteBeyondRank, TypeOK
  <2> QED BY <1>0, <2>1, <2>2, <2>3 DEF LivePublished, Published
<1>2. /\ IsFiniteSet(L) /\ Cardinality(L) \in Nat
      /\ \A u \in L : PublishedRank(u) \in 1..Cardinality(L)
      /\ \A u, v \in L : publishedAt[u] > publishedAt[v] => PublishedRank(u) < PublishedRank(v)
      /\ \A i \in 1..Cardinality(L) : \E u \in L : PublishedRank(u) = i
  BY RanksNumberTheStream
<1>3. /\ \A u \in L : publishedAt[u] \in Nat
      /\ \A u, v \in L : publishedAt[u] = publishedAt[v] => u = v
  BY DEF LivePublished, TypeOK, StampsDiffer
<1> HIDE DEF L
<1>4. K \subseteq L /\ IsFiniteSet(K) /\ n \in Nat
  BY <1>0, <1>2, FS_Subset
<1>5. Cardinality(K) = n
  <2> DEFINE rank == [u \in K |-> PublishedRank(u)]
  <2>1. rank \in [K -> 1..n]
    BY <1>0, <1>2
  <2>2. ASSUME NEW u \in K, NEW v \in K, rank[u] = rank[v] PROVE u = v
    <3>1. ~(publishedAt[u] > publishedAt[v]) /\ ~(publishedAt[v] > publishedAt[u])
      BY <1>2, <2>2
    <3> QED BY <1>3, <3>1
  <2>3. ASSUME NEW i \in 1..n PROVE \E u \in K : rank[u] = i
    <3>1. i \in 1..Cardinality(L) /\ i <= k
      BY <1>0, <1>2
    <3>2. PICK u \in L : PublishedRank(u) = i
      BY <1>2, <3>1
    <3> QED BY <3>1, <3>2
  <2> HIDE DEF n, K, rank
  <2>4. rank \in Bijection(K, 1..n)
    BY <2>1, <2>2, <2>3 DEF Bijection, Injection, IsInjective, Surjection
  <2>5. Cardinality(1..n) = Cardinality(K)
    BY <1>4, <2>4, FS_Bijection DEF ExistsBijection
  <2> QED BY <1>4, <2>5, FS_Interval
<1>6. ASSUME NEW u \in K, NEW v \in L \ K PROVE publishedAt[u] > publishedAt[v]
  <2>1. PublishedRank(u) < PublishedRank(v)
    BY <1>0, <1>2
  <2>2. ~(publishedAt[v] > publishedAt[u]) /\ publishedAt[u] # publishedAt[v]
    BY <1>2, <1>3, <2>1
  <2> QED BY <1>3, <2>2
<1> QED BY <1>1, <1>4, <1>5, <1>6 DEF L

\* Whatever requests are under way, one cleanup leaves every stream exactly its
\* keepLatestN newest published updates.
THEOREM CleanupKeepsNewest == Spec => [][CleanupIsExact]_vars
<1>1. IInv => TypeOK /\ StampsDiffer
  BY DEF IInv
<1> QED BY <1>1, CleanupStep, Invariance, PTL

\* What a stream is offered: one live published update as long as there is any, and
\* unless a delete has raced, the newest one ever published.
HeadIsServed ==
  \A s \in Streams :
    /\ \A c, d \in FindLatestPublished(s) : c = d
    /\ FindLatestPublished(s) = {} <=> LivePublished(s) = {}
    /\ (\A u \in raced : StreamOf[u] # s) =>
         \A v \in EverPublished(s) :
           \E c \in FindLatestPublished(s) : publishedAt[v] <= publishedAt[c]

LEMMA HeadFound == IInv /\ HasNewest => HeadIsServed
<1> SUFFICES ASSUME IInv, HasNewest, NEW s \in Streams
             PROVE  /\ \A c, d \in FindLatestPublished(s) : c = d
                    /\ FindLatestPublished(s) = {} <=> LivePublished(s) = {}
                    /\ (\A u \in raced : StreamOf[u] # s) =>
                         \A v \in EverPublished(s) :
                           \E c \in FindLatestPublished(s) : publishedAt[v] <= publishedAt[c]
  BY DEF HeadIsServed
<1> USE DEF IInv
<1>1. ASSUME NEW c \in FindLatestPublished(s), NEW d \in FindLatestPublished(s) PROVE c = d
  <2>1. /\ c \in Updates /\ d \in Updates
        /\ c \in AtLeastAsNew(d) \/ d \in AtLeastAsNew(c)
    BY DEF FindLatestPublished, AtLeastAsNew, SameStream, TypeOK
  <2> QED BY <2>1 DEF FindLatestPublished
<1>2. FindLatestPublished(s) \subseteq LivePublished(s)
  BY DEF FindLatestPublished, LivePublished
<1>3. ASSUME LivePublished(s) # {} PROVE FindLatestPublished(s) # {}
  <2>1. /\ IsFiniteSet(LivePublished(s)) /\ Cardinality(LivePublished(s)) \in Nat
        /\ \A u, v \in LivePublished(s) :
             publishedAt[u] > publishedAt[v] => PublishedRank(u) < PublishedRank(v)
        /\ \A u \in LivePublished(s) : PublishedRank(u) \in 1..Cardinality(LivePublished(s))
        /\ \A i \in 1..Cardinality(LivePublished(s)) :
             \E u \in LivePublished(s) : PublishedRank(u) = i
    BY RanksNumberTheStream
  <2>2. Cardinality(LivePublished(s)) # 0
    BY <1>3, <2>1, FS_EmptySet
  <2>3. PICK u \in LivePublished(s) : PublishedRank(u) = 1
    BY <2>1, <2>2
  <2>4. ASSUME NEW v \in AtLeastAsNew(u) PROVE v = u
    <3>1. v \in LivePublished(s) /\ publishedAt[v] >= publishedAt[u]
      BY DEF AtLeastAsNew, LivePublished, SameStream
    <3>2. ~(publishedAt[v] > publishedAt[u])
      BY <2>1, <2>3, <3>1
    <3>3. /\ u \in Updates /\ v \in Updates /\ Published(u) /\ Published(v)
          /\ publishedAt[u] = publishedAt[v]
      BY <3>1, <3>2 DEF LivePublished, TypeOK
    <3> QED BY <3>3 DEF StampsDiffer
  <2>5. u \in FindLatestPublished(s)
    BY <2>4 DEF FindLatestPublished, LivePublished
  <2> QED BY <2>5
<1>4. ASSUME \A u \in raced : StreamOf[u] # s, NEW v \in EverPublished(s)
      PROVE  \E c \in FindLatestPublished(s) : publishedAt[v] <= publishedAt[c]
  <2>1. PICK n \in Updates :
          /\ StreamOf[n] = s
          /\ Published(n)
          /\ \A w \in Updates : StreamOf[w] = s /\ Published(w)
                                 => publishedAt[w] <= publishedAt[n]
    BY DEF HasNewest, EverPublished
  <2>2. n \notin deleted
    BY <1>4, <2>1 DEF NewestStaysLive, EverPublished
  <2>3. n \in FindLatestPublished(s)
    BY <2>1, <2>2 DEF FindLatestPublished, AtLeastAsNew, SameStream, StampsDiffer, TypeOK
  <2> QED BY <2>1, <2>3 DEF EverPublished
<1> QED BY <1>1, <1>2, <1>3, <1>4

\* A stream is never ambiguous and never served less than it has: one live published
\* update at most is current, there is one whenever any is left, and where no delete has
\* raced it is the newest the stream ever published.
THEOREM StreamServesHead == Spec => []HeadIsServed
  BY HeadFound, Invariance, NewestExists, PTL

-----------------------------------------------------------------------------
(***************************************************************************)
(* Refinement.                                                              *)
(***************************************************************************)

\* Publish, delete and cleanup, cut into their statements and interleaved in any
\* way, only ever do to a row what the updates table promises: one insert, at
\* most one publish of a live draft, one deletion.
THEOREM Refinement == Spec => ImplementsUpdateRows
<1>1. Init => Rows!RowInit
  BY DEF Init, Rows!RowInit
<1>2. IInv /\ [Next]_vars => [Rows!RowNext]_(Rows!rowVars)
  <2> SUFFICES ASSUME IInv, [Next]_vars PROVE [Rows!RowNext]_(Rows!rowVars)
    OBVIOUS
  <2> USE DEF Rows!RowNext, Rows!rowVars, Rows!InsertDraft, Rows!StampPublished,
              Rows!SoftDelete, Rows!Live, IInv, TypeOK
  <2>1. ASSUME NEW u \in Updates, InsertWithAssets(u) PROVE Rows!RowNext
    BY <2>1 DEF InsertWithAssets, DraftStatus
  <2>2. ASSUME NEW r \in Requests, CommitPublish(r) PROVE [Rows!RowNext]_(Rows!rowVars)
    <3>1. target[r] \in Updates
      BY <2>2 DEF CommitPublish
    <3>2. QED
      BY <2>2, <3>1 DEF CommitPublish, Publishable
  <2>3. ASSUME NEW r \in Requests, SoftDelete(r) PROVE [Rows!RowNext]_(Rows!rowVars)
    <3>1. target[r] \in Updates /\ status[target[r]] # "none"
      BY <2>3 DEF SoftDelete, ReadsConsistent, Published
    <3>2. CASE target[r] \in deleted
      BY <2>3, <3>1, <3>2 DEF SoftDelete
    <3>3. CASE target[r] \notin deleted
      <4> DEFINE D == {target[r]}
      <4>1. D \in SUBSET Updates
        BY <3>1
      <4>2. Rows!SoftDelete(D)
        BY <2>3, <3>1, <3>3 DEF SoftDelete
      <4> HIDE DEF D
      <4>3. QED
        BY <4>1, <4>2
    <3>4. QED
      BY <3>2, <3>3
  <2>4. ASSUME NEW k \in 1..MaxKeep, CleanupUpdates(k) PROVE Rows!RowNext
    <3> DEFINE D == {u \in Updates : /\ Published(u)
                                     /\ u \notin deleted
                                     /\ PublishedRank(u) > k}
    <3>1. Rows!SoftDelete(D)
      BY <2>4 DEF CleanupUpdates, SoftDeleteBeyondRank, Published
    <3>2. QED
      BY <3>1
  <2>5. ASSUME UNCHANGED <<status, deleted>> PROVE [Rows!RowNext]_(Rows!rowVars)
    BY <2>5
  <2>6. QED
    BY <2>1, <2>2, <2>3, <2>4, <2>5
    DEF Next, vars, rows, BeginPublish, BeginDelete, CheckRank
<1>3. QED
  BY <1>1, <1>2, Invariance, PTL DEF Spec, ImplementsUpdateRows, Rows!RowSpec

===============================================================================
