------------------------ MODULE UpdatesListPage_proofs ------------------------
(***************************************************************************)
(* Theorems about UpdatesListPage, for every finite set of rows, every page  *)
(* size and any number of overlapping calls.                                *)
(***************************************************************************)
EXTENDS UpdatesListPage, FiniteSetTheorems, SequenceTheorems, TLAPS

-----------------------------------------------------------------------------
(***************************************************************************)
(* What a page is.                                                          *)
(***************************************************************************)

\* The place of u in S, the largest member having place 1.
Place(S, u) == Cardinality({v \in S : v >= u})

\* Members of a finite set have places 1 to its cardinality, the larger the earlier, and
\* every place is taken: the database sorts.
LEMMA PlacesAreABijection ==
  ASSUME NEW S \in SUBSET Nat, IsFiniteSet(S)
  PROVE  /\ Cardinality(S) \in Nat
         /\ \A u \in S : Place(S, u) \in 1..Cardinality(S)
         /\ \A u, v \in S : u > v => Place(S, u) < Place(S, v)
         /\ \A i \in 1..Cardinality(S) : \E u \in S : Place(S, u) = i
<1> DEFINE Above(u) == {v \in S : v >= u}
<1>1. Cardinality(S) \in Nat
  BY FS_CardinalityType
<1>2. \A u \in S : Place(S, u) \in 1..Cardinality(S)
  <2> SUFFICES ASSUME NEW u \in S PROVE Place(S, u) \in 1..Cardinality(S)
    OBVIOUS
  <2>1. Above(u) \in SUBSET S /\ u \in Above(u)
    OBVIOUS
  <2>2. /\ IsFiniteSet(Above(u))
        /\ Cardinality(Above(u)) \in Nat
        /\ Cardinality(Above(u)) <= Cardinality(S)
    BY <2>1, FS_Subset, FS_CardinalityType
  <2>3. Cardinality(Above(u)) # 0
    BY <2>1, <2>2, FS_EmptySet
  <2> QED BY <1>1, <2>2, <2>3 DEF Place
<1>3. \A u, v \in S : u > v => Place(S, u) < Place(S, v)
  <2> SUFFICES ASSUME NEW u \in S, NEW v \in S, u > v PROVE Place(S, u) < Place(S, v)
    OBVIOUS
  <2>1. Above(u) \in SUBSET Above(v) /\ v \in Above(v) /\ v \notin Above(u)
    <3>1. \A w \in S : w \in Nat
      OBVIOUS
    <3>2. \A w \in S : w >= u => w >= v
      BY <3>1
    <3>3. v >= v /\ ~(v >= u)
      BY <3>1
    <3> QED BY <3>2, <3>3
  <2>2. IsFiniteSet(Above(v))
    <3>1. Above(v) \in SUBSET S
      OBVIOUS
    <3> QED BY <3>1, FS_Subset
  <2>3. /\ Cardinality(Above(u)) <= Cardinality(Above(v))
        /\ Cardinality(Above(u)) = Cardinality(Above(v)) => Above(u) = Above(v)
    BY <2>1, <2>2, FS_Subset
  <2>4. Place(S, u) # Place(S, v)
    BY <2>1, <2>3 DEF Place
  <2> QED BY <1>2, <2>3, <2>4 DEF Place
<1>4. \A i \in 1..Cardinality(S) : \E u \in S : Place(S, u) = i
  <2> DEFINE place == [u \in S |-> Place(S, u)]
             Places == 1..Cardinality(S)
  <2>1. place \in Injection(S, Places)
    <3>1. place \in [S -> Places]
      BY <1>2
    <3>2. ASSUME NEW u \in S, NEW v \in S, place[u] = place[v] PROVE u = v
      BY <1>2, <1>3, <3>2
    <3> QED BY <3>1, <3>2 DEF Injection, IsInjective
  <2>2. IsFiniteSet(Places) /\ Cardinality(Places) = Cardinality(S)
    BY <1>1, FS_Interval
  <2>3. place \in Surjection(S, Places)
    <3> HIDE DEF place, Places
    <3> QED BY <2>1, <2>2, FS_Injection
  <2> QED BY <2>3 DEF Surjection
<1> QED BY <1>1, <1>2, <1>3, <1>4

\* A sorted excerpt: the n largest members of S or all of them, none below the last one
\* left out.
LEMMA LargestProperties ==
  ASSUME NEW S \in SUBSET Nat, IsFiniteSet(S), NEW n \in Nat
  PROVE  /\ Largest(S, n) \in Seq(S)
         /\ Len(Largest(S, n)) <= n
         /\ InOrder(Largest(S, n))
         /\ \A u \in S :
              \/ Contains(Largest(S, n), u)
              \/ Len(Largest(S, n)) = n /\ (n > 0 => u < Largest(S, n)[n])
<1> DEFINE size == IF Cardinality(S) < n THEN Cardinality(S) ELSE n
           at(i) == CHOOSE u \in S : Place(S, u) = i
           page == [i \in 1..size |-> at(i)]
<1>1. page = Largest(S, n)
  BY DEF Largest, Place
<1>2. size \in Nat /\ size <= n /\ size <= Cardinality(S) /\ Cardinality(S) \in Nat
  BY PlacesAreABijection
<1>3. \A i \in 1..size : at(i) \in S /\ Place(S, at(i)) = i
  <2> SUFFICES ASSUME NEW i \in 1..size PROVE at(i) \in S /\ Place(S, at(i)) = i
    OBVIOUS
  <2>1. \E u \in S : Place(S, u) = i
    <3>1. i \in 1..Cardinality(S)
      BY <1>2
    <3> QED BY <3>1, PlacesAreABijection
  <2> QED BY <2>1
<1> HIDE DEF size, at
<1>4. page \in Seq(S) /\ Len(page) = size /\ DOMAIN page = 1..size
  <2>1. page \in [1..size -> S]
    BY <1>3
  <2> QED BY <1>2, <2>1
<1>5. InOrder(page)
  <2> SUFFICES ASSUME NEW i \in 1..size, NEW j \in 1..size, i < j PROVE at(i) > at(j)
    BY <1>4 DEF InOrder
  <2>1. at(i) \in Nat /\ at(j) \in Nat /\ at(i) \in S /\ at(j) \in S
    BY <1>3
  <2>2. CASE at(j) > at(i)
    <3>1. Place(S, at(j)) < Place(S, at(i))
      BY <2>1, <2>2, PlacesAreABijection
    <3> QED BY <1>2, <1>3, <3>1
  <2>3. CASE at(j) = at(i)
    BY <1>3, <2>3
  <2> QED BY <2>1, <2>2, <2>3
<1>6. ASSUME NEW u \in S, ~Contains(page, u)
      PROVE  size = n /\ (n > 0 => u < page[n])
  <2> DEFINE k == Place(S, u)
  <2>1. k \in 1..Cardinality(S) /\ u \in Nat
    BY PlacesAreABijection
  <2>2. \A i \in 1..size : at(i) # u
    BY <1>4, <1>6 DEF Contains
  <2>3. k \notin 1..size
    <3> SUFFICES ASSUME k \in 1..size PROVE FALSE
      OBVIOUS
    <3>1. at(k) \in S /\ at(k) \in Nat /\ Place(S, at(k)) = k /\ at(k) # u
      BY <1>3, <2>2
    <3>2. at(k) > u \/ u > at(k)
      BY <2>1, <3>1
    <3>3. Place(S, at(k)) < k \/ k < Place(S, at(k))
      BY <3>1, <3>2, PlacesAreABijection
    <3> QED BY <2>1, <3>1, <3>3
  <2>4. size = n /\ k > n
    BY <1>2, <2>1, <2>3 DEF size
  <2>5. ASSUME n > 0 PROVE u < at(n)
    <3>0. n \in 1..size
      BY <2>4, <2>5
    <3>1. at(n) \in S /\ at(n) \in Nat /\ Place(S, at(n)) = n /\ at(n) # u
      BY <1>3, <2>2, <3>0
    <3>2. CASE u > at(n)
      <4>1. k < n
        BY <3>1, <3>2, PlacesAreABijection
      <4> QED BY <2>1, <2>4, <4>1
    <3> QED BY <2>1, <3>1, <3>2
  <2> QED BY <2>4, <2>5
<1> QED BY <1>1, <1>2, <1>4, <1>5, <1>6

\* What the server answers: rows that match below the cursor, in order, at most Limit of
\* them; when it names a next cursor, that is the last row, and otherwise none is left.
LEMMA PageProperties ==
  ASSUME NEW f, NEW cursor \in Updates \cup {NoCursor}
  PROVE  LET ids == Page(f, cursor)
             next == NextCursor(ids)
         IN  /\ ids \in Seq(Updates) /\ InOrder(ids) /\ Len(ids) <= Limit
             /\ \A i \in DOMAIN ids : cursor = NoCursor \/ ids[i] < cursor
             /\ next \in Updates \cup {NoCursor}
             /\ next # NoCursor => ids # <<>> /\ Last(ids) = next
             /\ \A u \in Matching(f) :
                  /\ cursor = NoCursor \/ u < cursor
                  /\ next = NoCursor \/ u >= next
                  => Contains(ids, u)
<1> DEFINE below == {u \in Matching(f) : cursor = NoCursor \/ u < cursor}
           ids == Page(f, cursor)
           next == NextCursor(ids)
<1>1. below \in SUBSET Updates /\ below \in SUBSET Nat /\ IsFiniteSet(below)
  <2>1. below \in SUBSET Updates
    BY DEF Matching
  <2> QED BY <2>1, ListAssumption, FS_Subset
<1>2. ids = Largest(below, Limit)
  BY DEF Page
<1> HIDE DEF below
<1>3. /\ ids \in Seq(below) /\ InOrder(ids) /\ Len(ids) <= Limit
      /\ \A u \in below :
           \/ Contains(ids, u)
           \/ Len(ids) = Limit /\ (Limit > 0 => u < ids[Limit])
  BY <1>1, <1>2, ListAssumption, LargestProperties
<1> HIDE DEF ids
<1>4. Len(ids) \in Nat /\ DOMAIN ids = 1..Len(ids) /\ ids \in [1..Len(ids) -> below]
  BY <1>3, LenProperties
<1>5. /\ ids \in Seq(Updates)
      /\ \A i \in DOMAIN ids : ids[i] \in below /\ ids[i] \in Updates
  <2>1. ids \in [1..Len(ids) -> Updates]
    BY <1>1, <1>4
  <2> QED BY <1>1, <1>4, <2>1
<1>6. CASE Len(ids) = Limit
  <2>1. Limit \in DOMAIN ids /\ ids # <<>> /\ Last(ids) = ids[Limit] /\ Limit > 0
    BY <1>4, <1>6, ListAssumption DEF Last
  <2>2. next = ids[Limit] /\ next \in Updates /\ next \in Nat
    BY <1>5, <1>6, <2>1, ListAssumption DEF NextCursor
  <2>3. ASSUME NEW u \in below, u >= next PROVE Contains(ids, u)
    <3>1. u \in Nat
      BY <1>1
    <3> QED BY <1>3, <2>1, <2>2, <2>3, <3>1
  <2>4. next # NoCursor
    BY <2>2, ListAssumption
  <2> HIDE DEF next
  <2> QED BY <1>3, <1>4, <1>5, <2>1, <2>2, <2>3, <2>4 DEF below, ids, next
<1>7. CASE Len(ids) # Limit
  <2>1. next = NoCursor
    BY <1>7 DEF NextCursor
  <2>2. \A u \in below : Contains(ids, u)
    BY <1>3, <1>7
  <2> HIDE DEF next
  <2> QED BY <1>3, <1>4, <1>5, <2>1, <2>2 DEF below, ids, next
<1> QED BY <1>6, <1>7

-----------------------------------------------------------------------------
(***************************************************************************)
(* Type correctness.                                                        *)
(***************************************************************************)

\* The steps, one by one: a callback of the page, the server, or a step of the rows.
LEMMA ListNextCases ==
  ASSUME [ListNext]_listVars
  PROVE  \/ \E c \in Calls :
              \/ \E f \in Filters : Load(c, f)
              \/ LoadMore(c) \/ List(c) \/ Receive(c) \/ FailLoad(c)
         \/ RowStep
         \/ UNCHANGED listVars
  BY DEF ListNext

\* The promise of the updates table keeps the types of its columns.
LEMMA RowTypeStep == RowTypeOK /\ [RowNext]_rowVars => RowTypeOK'
<1> SUFFICES ASSUME RowTypeOK, [RowNext]_rowVars PROVE RowTypeOK'
  OBVIOUS
<1> USE DEF RowTypeOK, Statuses
<1>1. ASSUME NEW u \in Updates, InsertDraft(u) \/ StampPublished(u) PROVE RowTypeOK'
  BY <1>1 DEF InsertDraft, StampPublished
<1>2. ASSUME NEW D \in SUBSET Updates, SoftDelete(D) PROVE RowTypeOK'
  BY <1>2 DEF SoftDelete, Live
<1>3. CASE UNCHANGED rowVars
  BY <1>3 DEF rowVars
<1> QED BY <1>1, <1>2, <1>3 DEF RowNext

\* A call that is sent, answered or over has a call's type.
LEMMA NoCallType == NoCall \in CallTypes /\ InOrder(NoCall.ids) /\ Len(NoCall.ids) <= Limit
<1>1. <<>> \in Seq(Updates) /\ Len(<<>>) = 0 /\ DOMAIN <<>> = {}
  OBVIOUS
<1> QED BY <1>1, ListAssumption DEF NoCall, CallTypes, Filters, InOrder

LEMMA SendType ==
  ASSUME ListTypeOK, NEW c \in Calls, NEW reset \in BOOLEAN, NEW f \in Filters,
         NEW cursor \in Updates \cup {NoCursor}, Send(c, reset, f, cursor)
  PROVE  /\ call' \in [Calls -> CallTypes]
         /\ \A d \in Calls : InOrder(call'[d].ids) /\ Len(call'[d].ids) <= Limit
         /\ call'[c].at = "sent" /\ call'[c].reset = reset /\ call'[c].filter = f
         /\ call'[c].cursor = cursor
<1> DEFINE sent == [NoCall EXCEPT !.at = "sent", !.reset = reset, !.filter = f,
                                  !.cursor = cursor]
<1>1. /\ sent \in CallTypes
      /\ sent.at = "sent" /\ sent.reset = reset /\ sent.filter = f /\ sent.cursor = cursor
      /\ InOrder(sent.ids) /\ Len(sent.ids) <= Limit
  BY NoCallType DEF CallTypes, NoCall
<1>2. call' = [call EXCEPT ![c] = sent]
  BY DEF Send
<1> QED BY <1>1, <1>2 DEF ListTypeOK

\* The server's answer, as List leaves it.
LEMMA ListAnswer ==
  ASSUME ListTypeOK, NEW c \in Calls, List(c)
  PROVE  /\ call' = [call EXCEPT ![c] = call'[c]]
         /\ call'[c] \in CallTypes
         /\ call'[c].at = "answered" /\ call'[c].reset = call[c].reset
         /\ call'[c].ids = Page(call[c].filter, call[c].cursor)
         /\ call'[c].next = NextCursor(call'[c].ids)
         /\ InOrder(call'[c].ids) /\ Len(call'[c].ids) <= Limit
<1> DEFINE ids == Page(call[c].filter, call[c].cursor)
           next == NextCursor(ids)
           answer == [NoCall EXCEPT !.at = "answered", !.reset = call[c].reset,
                                    !.ids = ids, !.next = next]
<1>1. call[c] \in CallTypes
  BY DEF ListTypeOK
<1>2. call[c].cursor \in Updates \cup {NoCursor} /\ call[c].reset \in BOOLEAN
  BY <1>1 DEF CallTypes
<1>3. /\ ids \in Seq(Updates) /\ InOrder(ids) /\ Len(ids) <= Limit
      /\ next \in Updates \cup {NoCursor}
  BY <1>2, PageProperties
<1>4. call' = [call EXCEPT ![c] = answer]
  BY DEF List
<1> HIDE DEF ids, next
<1>5. /\ answer \in CallTypes
      /\ answer.at = "answered" /\ answer.reset = call[c].reset
      /\ answer.ids = ids /\ answer.next = next
  BY <1>2, <1>3, NoCallType DEF CallTypes, NoCall
<1> HIDE DEF answer
<1>6. call'[c] = answer
  BY <1>4 DEF ListTypeOK
<1> QED BY <1>3, <1>4, <1>5, <1>6 DEF ids, next

\* Every step keeps the types.
LEMMA ListTypeStep == ListTypeOK /\ [ListNext]_listVars => ListTypeOK'
<1> SUFFICES ASSUME ListTypeOK, [ListNext]_listVars PROVE ListTypeOK'
  OBVIOUS
<1> USE ListAssumption
<1>0. \A f : Matching(f) \subseteq Updates
  BY DEF Matching
<1>1. ASSUME NEW c \in Calls, NEW f \in Filters, Load(c, f) PROVE ListTypeOK'
  <2>1. /\ call' \in [Calls -> CallTypes]
        /\ \A d \in Calls : InOrder(call'[d].ids) /\ Len(call'[d].ids) <= Limit
    BY <1>1, SendType DEF Load
  <2>2. mixed' \in BOOLEAN /\ steady' \subseteq Updates
    BY <1>0, <1>1 DEF Load, Quiet
  <2> QED BY <1>1, <2>1, <2>2 DEF Load, ListTypeOK, rowVars, RowTypeOK
<1>2. ASSUME NEW c \in Calls, LoadMore(c) PROVE ListTypeOK'
  <2>1. /\ call' \in [Calls -> CallTypes]
        /\ \A d \in Calls : InOrder(call'[d].ids) /\ Len(call'[d].ids) <= Limit
    BY <1>2, SendType DEF LoadMore, ListTypeOK
  <2>2. mixed' \in BOOLEAN /\ steady' \subseteq Updates
    BY <1>2 DEF LoadMore, ListTypeOK, Quiet
  <2> QED BY <1>2, <2>1, <2>2 DEF LoadMore, ListTypeOK, rowVars, RowTypeOK
<1>3. ASSUME NEW c \in Calls, List(c) PROVE ListTypeOK'
  <2>1. /\ call' \in [Calls -> CallTypes]
        /\ \A d \in Calls : InOrder(call'[d].ids) /\ Len(call'[d].ids) <= Limit
    BY <1>3, ListAnswer DEF ListTypeOK
  <2> QED BY <1>3, <2>1 DEF List, ListTypeOK, rowVars, RowTypeOK
<1>4. ASSUME NEW c \in Calls, Receive(c) \/ FailLoad(c) PROVE ListTypeOK'
  <2>1. call' = [call EXCEPT ![c] = NoCall]
    BY <1>4 DEF Receive, FailLoad, Ended
  <2>2. /\ call' \in [Calls -> CallTypes]
        /\ \A d \in Calls : InOrder(call'[d].ids) /\ Len(call'[d].ids) <= Limit
    BY <2>1, NoCallType DEF ListTypeOK
  <2>3. call[c].ids \in Seq(Updates) /\ call[c].next \in Updates \cup {NoCursor}
    BY DEF ListTypeOK, CallTypes
  <2>4. items' \in Seq(Updates) /\ nextCursor' \in Updates \cup {NoCursor}
    <3>1. items \in Seq(Updates) /\ items \o call[c].ids \in Seq(Updates)
      BY <2>3 DEF ListTypeOK
    <3>2. CASE Receive(c)
      BY <2>3, <3>1, <3>2 DEF Receive
    <3>3. CASE FailLoad(c)
      BY <3>1, <3>3 DEF FailLoad, ListTypeOK
    <3> QED BY <1>4, <3>2, <3>3
  <2> QED
    BY <1>4, <2>2, <2>4 DEF Receive, FailLoad, Ended, ListTypeOK, rowVars, RowTypeOK
<1>5. ASSUME RowStep PROVE ListTypeOK'
  BY <1>5, RowTypeStep DEF RowStep, ListTypeOK
<1>6. ASSUME UNCHANGED listVars PROVE ListTypeOK'
  BY <1>6 DEF listVars, pageVars, rowVars, ListTypeOK, RowTypeOK
<1> QED BY <1>1, <1>2, <1>3, <1>4, <1>5, <1>6, ListNextCases

\* The page as it is mounted has them.
LEMMA ListTypeInit == ListInit => ListTypeOK
<1> SUFFICES ASSUME ListInit PROVE ListTypeOK
  OBVIOUS
<1>1. <<>> \in Seq(Updates)
  OBVIOUS
<1>2. /\ call \in [Calls -> CallTypes]
      /\ \A c \in Calls : InOrder(call[c].ids) /\ Len(call[c].ids) <= Limit
  BY NoCallType DEF ListInit
<1> QED BY <1>1, <1>2 DEF ListInit, RowInit, ListTypeOK, RowTypeOK, Statuses, Filters

\* Whatever calls overlap, the page holds rows of the table and no answer is longer than
\* a page or out of order.
THEOREM TypeCorrect == ListSpec => []ListTypeOK
  BY ListTypeInit, ListTypeStep, PTL DEF ListSpec

-----------------------------------------------------------------------------
(***************************************************************************)
(* Appending pages.                                                         *)
(***************************************************************************)

\* A sequence holds what either of its two parts holds.
LEMMA ContainsConcat ==
  ASSUME NEW s \in Seq(Updates), NEW t \in Seq(Updates), NEW u,
         Contains(s, u) \/ Contains(t, u)
  PROVE  Contains(s \o t, u)
<1>1. /\ Len(s) \in Nat /\ Len(t) \in Nat /\ Len(s \o t) = Len(s) + Len(t)
      /\ \A i \in 1..Len(s) + Len(t) : (s \o t)[i] = IF i <= Len(s) THEN s[i] ELSE t[i - Len(s)]
  BY ConcatProperties, LenProperties
<1>2. ASSUME NEW i \in 1..Len(s), s[i] = u PROVE Contains(s \o t, u)
  <2>1. i \in 1..Len(s) + Len(t) /\ (s \o t)[i] = u
    BY <1>1, <1>2
  <2> QED BY <1>1, <2>1 DEF Contains
<1>3. ASSUME NEW i \in 1..Len(t), t[i] = u PROVE Contains(s \o t, u)
  <2>1. i + Len(s) \in 1..Len(s) + Len(t) /\ (s \o t)[i + Len(s)] = u
    BY <1>1, <1>3
  <2> QED BY <1>1, <2>1 DEF Contains
<1> QED BY <1>2, <1>3 DEF Contains

\* Two pages, the second wholly below the first, are in order together.
LEMMA ConcatInOrder ==
  ASSUME NEW s \in Seq(Updates), NEW t \in Seq(Updates), InOrder(s), InOrder(t),
         \A i \in DOMAIN s, j \in DOMAIN t : s[i] > t[j]
  PROVE  InOrder(s \o t)
<1>1. /\ Len(s) \in Nat /\ Len(t) \in Nat /\ Len(s \o t) = Len(s) + Len(t)
      /\ s \o t \in Seq(Updates)
      /\ DOMAIN s = 1..Len(s) /\ DOMAIN t = 1..Len(t)
      /\ \A i \in 1..Len(s) + Len(t) : (s \o t)[i] = IF i <= Len(s) THEN s[i] ELSE t[i - Len(s)]
  BY ConcatProperties, LenProperties
<1>2. DOMAIN (s \o t) = 1..Len(s) + Len(t)
  BY <1>1, LenProperties
<1> SUFFICES ASSUME NEW i \in 1..Len(s) + Len(t), NEW j \in 1..Len(s) + Len(t), i < j
             PROVE  (s \o t)[i] > (s \o t)[j]
  BY <1>2 DEF InOrder
<1>3. CASE j <= Len(s)
  BY <1>1, <1>3 DEF InOrder
<1>4. CASE i <= Len(s) /\ j > Len(s)
  <2>1. i \in DOMAIN s /\ j - Len(s) \in DOMAIN t
    BY <1>1, <1>4
  <2> QED BY <1>1, <1>4, <2>1
<1>5. CASE i > Len(s)
  <2>1. i - Len(s) \in DOMAIN t /\ j - Len(s) \in DOMAIN t /\ i - Len(s) < j - Len(s)
    BY <1>1, <1>5
  <2>2. t[i - Len(s)] > t[j - Len(s)]
    BY <2>1 DEF InOrder
  <2> QED BY <1>1, <1>5, <2>2
<1> QED BY <1>1, <1>3, <1>4, <1>5

\* The last member of an ordered sequence is its smallest.
LEMMA LastIsSmallest ==
  ASSUME NEW s \in Seq(Updates), InOrder(s), s # <<>>
  PROVE  /\ Last(s) \in Updates
         /\ \A i \in DOMAIN s : s[i] >= Last(s)
<1>1. Len(s) \in Nat /\ DOMAIN s = 1..Len(s) /\ s \in [1..Len(s) -> Updates] /\ Len(s) > 0
  BY EmptySeq, LenProperties
<1>2. Len(s) \in DOMAIN s
  BY <1>1
<1>3. \A i \in DOMAIN s : s[i] \in Updates /\ s[i] \in Nat
  BY <1>1, ListAssumption
<1>4. ASSUME NEW i \in DOMAIN s PROVE s[i] >= s[Len(s)]
  <2>1. i = Len(s) \/ i < Len(s)
    BY <1>1
  <2>2. CASE i < Len(s)
    BY <1>2, <1>3, <2>2 DEF InOrder
  <2>3. CASE i = Len(s)
    BY <1>2, <1>3, <2>3
  <2> QED BY <2>1, <2>2, <2>3
<1> QED BY <1>2, <1>3, <1>4 DEF Last

\* What is appended is what comes last.
LEMMA LastOfConcat ==
  ASSUME NEW s \in Seq(Updates), NEW t \in Seq(Updates), t # <<>>
  PROVE  s \o t # <<>> /\ Last(s \o t) = Last(t)
<1>1. /\ Len(s) \in Nat /\ Len(t) \in Nat /\ Len(t) > 0 /\ Len(s \o t) = Len(s) + Len(t)
      /\ \A i \in 1..Len(s) + Len(t) : (s \o t)[i] = IF i <= Len(s) THEN s[i] ELSE t[i - Len(s)]
  BY ConcatProperties, LenProperties, EmptySeq
<1>2. (s \o t)[Len(s) + Len(t)] = t[Len(t)]
  BY <1>1
<1> QED BY <1>1, <1>2 DEF Last

-----------------------------------------------------------------------------
(***************************************************************************)
(* What holds of the list as long as no two calls have overlapped.          *)
(***************************************************************************)

\* One call is under way.
OneCall ==
  ~mixed => \A c, d \in Calls : call[c].at # "idle" /\ call[d].at # "idle" => c = d

\* What has matched the filter matches it.
SteadyMatches == steady \subseteq Matching(filter)

\* The list is in order, and "Load more" goes on below its last row.
Boundary ==
  ~mixed => /\ InOrder(items)
            /\ nextCursor # NoCursor => items # <<>> /\ Last(items) = nextCursor

\* An answer goes on where the list ends and skips nothing steady down to its own end.
AnswerFits(a) ==
  /\ a.next # NoCursor => a.ids # <<>> /\ Last(a.ids) = a.next
  /\ \A i \in DOMAIN a.ids : nextCursor = NoCursor \/ a.ids[i] < nextCursor
  /\ \A u \in steady :
       /\ nextCursor = NoCursor \/ u < nextCursor
       /\ a.next = NoCursor \/ u >= a.next
       => Contains(a.ids, u)

\* A call under way belongs to the list as it is: it asks for the rows below the cursor
\* under the filter, of an empty list or of one that goes on.
CallFits(k) ==
  /\ IF k.reset THEN items = <<>> /\ nextCursor = NoCursor ELSE nextCursor # NoCursor
  /\ k.at = "sent" => k.cursor = nextCursor /\ k.filter = filter
  /\ k.at = "answered" => AnswerFits(k)
CallsFit == ~mixed => \A c \in Calls : call[c].at # "idle" => CallFits(call[c])

ListInv ==
  /\ ListTypeOK
  /\ OneCall
  /\ SteadyMatches
  /\ Boundary
  /\ CallsFit
  /\ NothingSkipped

\* The list is reset.
LEMMA LoadStep ==
  ASSUME ListInv, NEW c \in Calls, NEW f \in Filters, Load(c, f)
  PROVE  ListInv'
<1>0. ListTypeOK'
  BY ListTypeStep DEF ListInv, ListNext
<1>1. /\ call'[c].at = "sent" /\ call'[c].reset = TRUE /\ call'[c].filter = f
      /\ call'[c].cursor = NoCursor
      /\ \A d \in Calls : d # c => call'[d] = call[d]
  <2>1. ListTypeOK /\ Send(c, TRUE, f, NoCursor)
    BY DEF ListInv, Load
  <2>2. \A d \in Calls : d # c => call'[d] = call[d]
    BY <2>1 DEF Send, ListTypeOK
  <2> QED BY <2>1, <2>2, SendType
<1>2. /\ items' = <<>> /\ nextCursor' = NoCursor /\ filter' = f
      /\ UNCHANGED rowVars
      /\ mixed' = ~Quiet /\ steady' = IF Quiet THEN Matching(f) ELSE {}
  BY DEF Load
<1>3. OneCall'
  BY <1>1, <1>2 DEF OneCall, Quiet
<1>4. SteadyMatches'
  BY <1>2 DEF SteadyMatches, Matching, Live, rowVars
<1>5. Boundary'
  BY <1>2 DEF Boundary, InOrder
<1>6. CallsFit'
  BY <1>1, <1>2 DEF CallsFit, CallFits, Quiet
<1>7. NothingSkipped'
  BY <1>2 DEF NothingSkipped
<1> QED BY <1>0, <1>3, <1>4, <1>5, <1>6, <1>7 DEF ListInv

\* The next page is asked for.
LEMMA LoadMoreStep ==
  ASSUME ListInv, NEW c \in Calls, LoadMore(c)
  PROVE  ListInv'
<1>0. ListTypeOK'
  BY ListTypeStep DEF ListInv, ListNext
<1>1. /\ call'[c].at = "sent" /\ call'[c].reset = FALSE /\ call'[c].filter = filter
      /\ call'[c].cursor = nextCursor
      /\ \A d \in Calls : d # c => call'[d] = call[d]
  <2>1. ListTypeOK /\ Send(c, FALSE, filter, nextCursor)
    BY DEF ListInv, LoadMore
  <2>2. \A d \in Calls : d # c => call'[d] = call[d]
    BY <2>1 DEF Send, ListTypeOK
  <2>3. filter \in Filters /\ nextCursor \in Updates \cup {NoCursor}
    BY DEF ListInv, ListTypeOK
  <2> QED BY <2>1, <2>2, <2>3, SendType
<1>2. /\ UNCHANGED <<rowVars, filter, items, nextCursor>> /\ nextCursor # NoCursor
      /\ mixed' = (mixed \/ ~Quiet) /\ steady' = IF Quiet THEN steady ELSE {}
  BY DEF LoadMore
<1>3. OneCall'
  BY <1>1, <1>2 DEF OneCall, Quiet
<1>4. SteadyMatches'
  BY <1>2 DEF ListInv, SteadyMatches, Matching, Live, rowVars
<1>5. Boundary'
  BY <1>2 DEF ListInv, Boundary, InOrder
<1>6. CallsFit'
  BY <1>1, <1>2 DEF CallsFit, CallFits, Quiet
<1>7. NothingSkipped'
  BY <1>2 DEF ListInv, NothingSkipped, Quiet
<1> QED BY <1>0, <1>3, <1>4, <1>5, <1>6, <1>7 DEF ListInv

\* The server answers.
LEMMA ListStep ==
  ASSUME ListInv, NEW c \in Calls, List(c)
  PROVE  ListInv'
<1>0. ListTypeOK'
  BY ListTypeStep DEF ListInv, ListNext
<1>1. /\ UNCHANGED <<rowVars, filter, items, nextCursor, mixed, steady>>
      /\ call[c].at = "sent"
  BY DEF List
<1>2. /\ call' = [call EXCEPT ![c] = call'[c]]
      /\ call'[c].at = "answered" /\ call'[c].reset = call[c].reset
      /\ call'[c].ids = Page(call[c].filter, call[c].cursor)
      /\ call'[c].next = NextCursor(call'[c].ids)
      /\ call[c].cursor \in Updates \cup {NoCursor}
      /\ \A d \in Calls : d # c => call'[d] = call[d]
  <2>1. ListTypeOK
    BY DEF ListInv
  <2>2. call[c].cursor \in Updates \cup {NoCursor}
    BY <2>1 DEF ListTypeOK, CallTypes
  <2>3. call' = [call EXCEPT ![c] = call'[c]]
    BY <2>1, ListAnswer
  <2>4. \A d \in Calls : d # c => call'[d] = call[d]
    BY <2>1, <2>3 DEF ListTypeOK
  <2> QED BY <2>1, <2>2, <2>3, <2>4, ListAnswer
<1>3. OneCall'
  BY <1>1, <1>2 DEF ListInv, OneCall
<1>4. SteadyMatches' /\ Boundary' /\ NothingSkipped'
  BY <1>1 DEF ListInv, SteadyMatches, Matching, Live, rowVars, Boundary, InOrder,
              NothingSkipped
<1>5. CallsFit'
  <2> SUFFICES ASSUME ~mixed PROVE \A d \in Calls : call'[d].at # "idle" => CallFits(call[d])'
    BY <1>1 DEF CallsFit
  <2>1. /\ CallFits(call[c]) /\ call[c].cursor = nextCursor /\ call[c].filter = filter
        /\ \A d \in Calls : d # c => call[d].at = "idle"
    BY <1>1 DEF ListInv, CallsFit, CallFits, OneCall
  <2> DEFINE ids == Page(filter, nextCursor)
             next == NextCursor(ids)
  <2>2. /\ next # NoCursor => ids # <<>> /\ Last(ids) = next
        /\ \A i \in DOMAIN ids : nextCursor = NoCursor \/ ids[i] < nextCursor
        /\ \A u \in Matching(filter) :
             /\ nextCursor = NoCursor \/ u < nextCursor
             /\ next = NoCursor \/ u >= next
             => Contains(ids, u)
    BY <1>2, <2>1, PageProperties
  <2>3. call'[c].ids = ids /\ call'[c].next = next
    BY <1>2, <2>1
  <2> HIDE DEF ids, next
  <2>4. AnswerFits(call'[c])
    BY <2>2, <2>3 DEF AnswerFits, ListInv, SteadyMatches
  <2>5. CallFits(call'[c])
    BY <1>2, <2>1, <2>4 DEF CallFits
  <2>6. CallFits(call[c])'
    BY <1>1, <2>5 DEF CallFits, AnswerFits
  <2> QED BY <1>2, <2>1, <2>6
<1> QED BY <1>0, <1>3, <1>4, <1>5 DEF ListInv

\* The page takes an answer: what is appended lies wholly below what is shown, and
\* between the two lies no row that is steady.
LEMMA ReceiveStep ==
  ASSUME ListInv, NEW c \in Calls, Receive(c)
  PROVE  ListInv'
<1>0. ListTypeOK'
  BY ListTypeStep DEF ListInv, ListNext
<1> DEFINE ids == call[c].ids
           next == call[c].next
<1>1. /\ UNCHANGED <<rowVars, filter, mixed, steady>>
      /\ call[c].at = "answered" /\ nextCursor' = next
      /\ items' = IF call[c].reset THEN ids ELSE items \o ids
      /\ call' = [call EXCEPT ![c] = NoCall]
  BY DEF Receive, Ended
<1>2. /\ call'[c].at = "idle"
      /\ \A d \in Calls : d # c => call'[d] = call[d]
  BY <1>1 DEF ListInv, ListTypeOK, NoCall
<1>3. OneCall'
  BY <1>1, <1>2 DEF ListInv, OneCall
<1>4. SteadyMatches'
  BY <1>1 DEF ListInv, SteadyMatches, Matching, Live, rowVars
<1>5. CallsFit'
  BY <1>1, <1>2 DEF ListInv, CallsFit, OneCall
<1>6. Boundary' /\ NothingSkipped'
  <2> SUFFICES ASSUME ~mixed PROVE Boundary' /\ NothingSkipped'
    BY <1>1 DEF Boundary, NothingSkipped
  <2>1. CallFits(call[c]) /\ AnswerFits(call[c])
    BY <1>1 DEF ListInv, CallsFit, CallFits
  <2>2. /\ ids \in Seq(Updates) /\ items \in Seq(Updates) /\ InOrder(ids)
        /\ next \in Updates \cup {NoCursor}
    BY DEF ListInv, ListTypeOK, CallTypes
  <2>3. CASE call[c].reset
    <3>1. items' = ids /\ nextCursor = NoCursor
      BY <1>1, <2>1, <2>3 DEF CallFits
    <3>2. Boundary'
      BY <1>1, <2>1, <2>2, <3>1 DEF Boundary, InOrder, AnswerFits
    <3>3. NothingSkipped'
      BY <1>1, <2>1, <3>1 DEF NothingSkipped, AnswerFits
    <3> QED BY <3>2, <3>3
  <2>4. CASE ~call[c].reset
    <3>1. items' = items \o ids /\ nextCursor # NoCursor
      BY <1>1, <2>1, <2>4 DEF CallFits
    <3>2. /\ InOrder(items) /\ items # <<>> /\ Last(items) = nextCursor
          /\ nextCursor \in Updates
      BY <3>1 DEF ListInv, Boundary, ListTypeOK
    <3>3. InOrder(items \o ids)
      <4>1. \A i \in DOMAIN items : items[i] >= nextCursor /\ items[i] \in Nat
        <5>1. \A i \in DOMAIN items : items[i] \in Updates
          BY <2>2, LenProperties
        <5> QED BY <2>2, <3>2, <5>1, LastIsSmallest, ListAssumption
      <4>2. \A j \in DOMAIN ids : ids[j] < nextCursor /\ ids[j] \in Nat
        <5>1. \A j \in DOMAIN ids : ids[j] \in Updates
          BY <2>2, LenProperties
        <5> QED BY <2>1, <3>1, <5>1, ListAssumption DEF AnswerFits
      <4>3. \A i \in DOMAIN items, j \in DOMAIN ids : items[i] > ids[j]
        BY <3>2, <4>1, <4>2, ListAssumption
      <4> QED BY <2>2, <3>2, <4>3, ConcatInOrder
    <3>4. next # NoCursor => items \o ids # <<>> /\ Last(items \o ids) = next
      BY <2>1, <2>2, LastOfConcat DEF AnswerFits
    <3>5. Boundary'
      BY <1>1, <3>1, <3>3, <3>4 DEF Boundary, InOrder
    <3>6. ASSUME NEW u \in steady, next = NoCursor \/ u >= next
          PROVE  Contains(items \o ids, u)
      <4>1. CASE u < nextCursor
        <5>1. Contains(ids, u)
          BY <2>1, <3>6, <4>1 DEF AnswerFits
        <5> QED BY <2>2, <5>1, ContainsConcat
      <4>2. CASE u >= nextCursor
        <5>1. Contains(items, u)
          BY <3>2, <4>2 DEF ListInv, NothingSkipped
        <5> QED BY <2>2, <5>1, ContainsConcat
      <4>3. u \in Nat
        BY ListAssumption DEF ListInv, ListTypeOK
      <4> QED BY <3>2, <4>1, <4>2, <4>3, ListAssumption
    <3>7. NothingSkipped'
      BY <1>1, <3>1, <3>6 DEF NothingSkipped
    <3> QED BY <3>5, <3>7
  <2> QED BY <2>3, <2>4
<1> QED BY <1>0, <1>3, <1>4, <1>5, <1>6 DEF ListInv

\* A call fails: the list stays as it is.
LEMMA FailLoadStep ==
  ASSUME ListInv, NEW c \in Calls, FailLoad(c)
  PROVE  ListInv'
<1>0. ListTypeOK'
  BY ListTypeStep DEF ListInv, ListNext
<1>1. /\ UNCHANGED <<rowVars, filter, items, nextCursor, mixed, steady>>
      /\ call[c].at # "idle"
      /\ call' = [call EXCEPT ![c] = NoCall]
  BY DEF FailLoad, Ended
<1>2. /\ call'[c].at = "idle"
      /\ \A d \in Calls : d # c => call'[d] = call[d]
  BY <1>1 DEF ListInv, ListTypeOK, NoCall
<1>3. OneCall' /\ CallsFit'
  BY <1>1, <1>2 DEF ListInv, OneCall, CallsFit
<1>4. SteadyMatches' /\ Boundary' /\ NothingSkipped'
  BY <1>1 DEF ListInv, SteadyMatches, Matching, Live, rowVars, Boundary, InOrder,
              NothingSkipped
<1> QED BY <1>0, <1>3, <1>4 DEF ListInv

\* A row that comes, changes or goes costs at most a row its steadiness.
LEMMA RowsStep ==
  ASSUME ListInv, RowStep
  PROVE  ListInv'
<1>0. ListTypeOK'
  BY ListTypeStep DEF ListInv, ListNext
<1>1. UNCHANGED <<filter, items, nextCursor, call, mixed>> /\ steady' \subseteq steady
  BY DEF RowStep
<1>2. \A u \in Updates : status[u] # "none" => status'[u] # "none"
  <2>1. RowTypeOK /\ RowNext
    BY DEF ListInv, ListTypeOK, RowStep
  <2>2. ASSUME NEW u \in Updates, InsertDraft(u) \/ StampPublished(u)
        PROVE  \A v \in Updates : status[v] # "none" => status'[v] # "none"
    BY <2>1, <2>2 DEF InsertDraft, StampPublished, RowTypeOK
  <2>3. ASSUME NEW D \in SUBSET Updates, SoftDelete(D) PROVE status' = status
    BY <2>3 DEF SoftDelete
  <2> QED BY <2>1, <2>2, <2>3 DEF RowNext
<1>3. SteadyMatches'
  <2> SUFFICES ASSUME NEW u \in steady'
               PROVE  u \in Updates /\ Live(u)' /\ filter \in {"any", status'[u]}
    BY <1>1 DEF SteadyMatches, Matching
  <2>1. u \in steady /\ u \in Updates /\ u \notin deleted' /\ filter \in {"any", status'[u]}
    BY DEF RowStep
  <2>2. status[u] # "none"
    BY <2>1 DEF ListInv, SteadyMatches, Matching, Live
  <2> QED BY <1>2, <2>1, <2>2 DEF Live
<1>4. OneCall' /\ Boundary'
  BY <1>1 DEF ListInv, OneCall, Boundary, InOrder
<1>5. CallsFit'
  <2> SUFFICES ASSUME ~mixed, NEW c \in Calls, call[c].at # "idle" PROVE CallFits(call[c])'
    BY <1>1 DEF CallsFit
  <2>1. CallFits(call[c])
    BY DEF ListInv, CallsFit
  <2>2. AnswerFits(call[c]) => AnswerFits(call[c])'
    BY <1>1 DEF AnswerFits
  <2> QED BY <1>1, <2>1, <2>2 DEF CallFits
<1>6. NothingSkipped'
  BY <1>1 DEF ListInv, NothingSkipped
<1> QED BY <1>0, <1>3, <1>4, <1>5, <1>6 DEF ListInv

\* Every step keeps the invariant.
LEMMA ListInvStep == ListInv /\ [ListNext]_listVars => ListInv'
<1> SUFFICES ASSUME ListInv, [ListNext]_listVars PROVE ListInv'
  OBVIOUS
<1>1. ASSUME UNCHANGED listVars PROVE ListInv'
  <2>1. ListTypeOK'
    BY ListTypeStep DEF ListInv
  <2>2. UNCHANGED <<status, deleted, filter, items, nextCursor, call, mixed, steady>>
    BY <1>1 DEF listVars, pageVars, rowVars
  <2>3. OneCall' /\ SteadyMatches' /\ Boundary' /\ NothingSkipped'
    BY <2>2 DEF ListInv, OneCall, SteadyMatches, Matching, Live, Boundary, InOrder,
                NothingSkipped
  <2>4. CallsFit'
    BY <2>2 DEF ListInv, CallsFit, CallFits, AnswerFits
  <2> QED BY <2>1, <2>3, <2>4 DEF ListInv
<1> QED BY <1>1, LoadStep, LoadMoreStep, ListStep, ReceiveStep, FailLoadStep, RowsStep,
           ListNextCases

\* The page as it is mounted.
LEMMA ListInvInit == ListInit => ListInv
<1> SUFFICES ASSUME ListInit PROVE ListInv
  OBVIOUS
<1>1. ListTypeOK
  BY ListTypeInit
<1>2. \A c \in Calls : call[c].at = "idle"
  BY DEF ListInit, NoCall
<1> QED
  BY <1>1, <1>2 DEF ListInit, ListInv, OneCall, SteadyMatches, Boundary, InOrder, CallsFit,
                    NothingSkipped

\* The invariant behind the theorems.
THEOREM ListInvariant == ListSpec => []ListInv
  BY ListInvInit, ListInvStep, PTL DEF ListSpec

\* Unless calls have overlapped, no row is shown twice and the newest come first,
\* however rows come and go between the pages.
THEOREM InOrderAlways == ListSpec => []ListInOrder
<1>1. ListInv => ListInOrder
  BY DEF ListInv, Boundary, ListInOrder
<1> QED BY <1>1, ListInvariant, PTL

\* Unless calls have overlapped, no page boundary costs a row.
THEOREM NothingLost == ListSpec => []NothingSkipped
<1>1. ListInv => NothingSkipped
  BY DEF ListInv
<1> QED BY <1>1, ListInvariant, PTL

\* A page that is appended moves "Load more" strictly down or is the last one.
MoreGoesDown ==
  \A c \in Calls :
    ~mixed /\ ~call[c].reset /\ Receive(c) => nextCursor' = NoCursor \/ nextCursor' < nextCursor

\* Unless calls have overlapped, "Load more" ends, for its cursor never stays or goes up,
\* whatever rows are inserted meanwhile.
THEOREM PagingGoesDown == ListSpec => [][MoreGoesDown]_listVars
<1>1. ASSUME ListInv, NEW c \in Calls, ~mixed, ~call[c].reset, Receive(c),
             nextCursor' # NoCursor
      PROVE  nextCursor' < nextCursor
  <2> DEFINE ids == call[c].ids
  <2>1. nextCursor' = call[c].next /\ call[c].at = "answered"
    BY <1>1 DEF Receive
  <2>2. CallFits(call[c]) /\ AnswerFits(call[c]) /\ nextCursor # NoCursor
    BY <1>1, <2>1 DEF ListInv, CallsFit, CallFits
  <2>3. ids \in Seq(Updates) /\ ids # <<>> /\ Last(ids) = nextCursor'
    BY <1>1, <2>1, <2>2 DEF ListInv, ListTypeOK, CallTypes, AnswerFits
  <2>4. Len(ids) \in DOMAIN ids
    BY <2>3, EmptySeq, LenProperties
  <2> QED BY <2>2, <2>3, <2>4 DEF AnswerFits, Last
<1>2. ListInv /\ [ListNext]_listVars => [MoreGoesDown]_listVars
  BY <1>1 DEF MoreGoesDown
<1> QED BY <1>2, ListInvariant, PTL DEF ListSpec

===============================================================================
