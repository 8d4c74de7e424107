---------------------------- MODULE UpdatesListPage ----------------------------
(***************************************************************************)
(* The dashboard's list of updates (UpdatesListView.vue) over the paged     *)
(* listing of the admin API, while rows are inserted, published and deleted *)
(* (UpdateRows).  A page ends at its last id, and the next one goes on      *)
(* below: ids are uuidv7, so the newest come first, but a row can appear    *)
(* anywhere, since its id is made before it is inserted.                    *)
(*                                                                         *)
(* The page loads on mount, on a change of the filter, after each action on *)
(* a row, and on "Load more".  The server reads the table at some time      *)
(* between the call and the answer; nothing keeps a call from overlapping   *)
(* another, or ties an answer to the call the page is waiting for.          *)
(***************************************************************************)
EXTENDS UpdateRows, Naturals, SequencesExt

CONSTANTS
  Limit,     \* rows of a page
  Calls,     \* bound: calls of the listing under way at once
  NoCursor

ASSUME ListAssumption ==
  /\ Updates \subseteq Nat
  /\ IsFiniteSet(Updates)
  /\ Limit \in Nat \ {0}
  /\ NoCursor \notin Nat

VARIABLES
  filter,       \* status the list is restricted to, "any" for no restriction
  items,        \* ids of the rows shown, in order
  nextCursor,   \* where "Load more" goes on, NoCursor when the button is not shown
  loading,      \* the skeleton is shown
  loadingMore,  \* the button is busy
  call,         \* [Calls -> a call of the listing and, when it is there, its answer]
  mixed,        \* history: two calls have overlapped since the list was last reset
  steady        \* history: rows that match the filter since then, unless calls overlapped

pageVars == <<filter, items, nextCursor, loading, loadingMore, call, mixed, steady>>
listVars == <<rowVars, pageVars>>

Filters == {"any", "pending", "published"}

NoCall == [at |-> "idle", reset |-> FALSE, filter |-> "any", cursor |-> NoCursor,
           ids |-> <<>>, next |-> NoCursor]

CallTypes == [at : {"idle", "sent", "answered"}, reset : BOOLEAN, filter : Filters,
              cursor : Updates \cup {NoCursor},
              ids : Seq(Updates), next : Updates \cup {NoCursor}]

Matching(f) == {u \in Updates : Live(u) /\ f \in {"any", status[u]}}

InOrder(ids) == \A i, j \in DOMAIN ids : i < j => ids[i] > ids[j]

ListTypeOK ==
  /\ RowTypeOK
  /\ filter \in Filters
  /\ items \in Seq(Updates)
  /\ nextCursor \in Updates \cup {NoCursor}
  /\ loading \in BOOLEAN
  /\ loadingMore \in BOOLEAN
  /\ mixed \in BOOLEAN
  /\ steady \subseteq Updates
  /\ call \in [Calls -> CallTypes]
  /\ \A c \in Calls : InOrder(call[c].ids) /\ Len(call[c].ids) <= Limit

ListInit ==
  /\ RowInit
  /\ filter = "any"
  /\ items = <<>>
  /\ nextCursor = NoCursor
  /\ loading = TRUE
  /\ loadingMore = FALSE
  /\ call = [c \in Calls |-> NoCall]
  /\ mixed = FALSE
  /\ steady = {}

-----------------------------------------------------------------------------
Quiet == \A c \in Calls : call[c].at = "idle"

Send(c, reset, f, cursor) ==
  /\ call[c] = NoCall
  /\ call' = [call EXCEPT ![c] =
       [NoCall EXCEPT !.at = "sent", !.reset = reset, !.filter = f, !.cursor = cursor]]

\* load(true), with the filter as it is now: when the page is mounted, when the filter
\* changes, and when a publish or a cleanup has succeeded.
Load(c, f) ==
  /\ filter' = f
  /\ loading' = TRUE
  /\ items' = <<>>
  /\ nextCursor' = NoCursor
  /\ Send(c, TRUE, f, NoCursor)
  /\ mixed' = ~Quiet
  /\ steady' = IF Quiet THEN Matching(f) ELSE {}
  /\ UNCHANGED <<rowVars, loadingMore>>

\* load(false): the button is there when there is a cursor, and disabled when it is busy.
LoadMore(c) ==
  /\ nextCursor # NoCursor
  /\ ~loadingMore
  /\ loadingMore' = TRUE
  /\ Send(c, FALSE, filter, nextCursor)
  /\ mixed' = (mixed \/ ~Quiet)
  /\ steady' = IF Quiet THEN steady ELSE {}
  /\ UNCHANGED <<rowVars, filter, items, nextCursor, loading>>

\* The n largest members of S, the largest first: order by id desc limit n.
Largest(S, n) ==
  [i \in 1..(IF Cardinality(S) < n THEN Cardinality(S) ELSE n) |->
     CHOOSE u \in S : Cardinality({v \in S : v >= u}) = i]

\* FindManyByAppId: the first Limit live rows that match, below the cursor.  One mutant
\* includes the cursor's own row, the other forgets the limit.
Page_Inclusive(f, cursor) ==
  Largest({u \in Matching(f) : cursor = NoCursor \/ u <= cursor}, Limit)
Page_Unlimited(f, cursor) ==
  Largest({u \in Matching(f) : cursor = NoCursor \/ u < cursor}, Cardinality(Updates))
Page(f, cursor) ==
  Largest({u \in Matching(f) : cursor = NoCursor \/ u < cursor}, Limit)

\* ListUpdates: a full page may have a successor, at its last row.  The mutant goes on
\* below the next row.
NextCursor_Beyond(ids) == IF Len(ids) = Limit /\ Last(ids) > 1 THEN Last(ids) - 1 ELSE NoCursor
NextCursor(ids) == IF Len(ids) = Limit THEN Last(ids) ELSE NoCursor

\* The server reads the table.
List(c) ==
  /\ call[c].at = "sent"
  /\ LET ids == Page(call[c].filter, call[c].cursor)
     IN  call' = [call EXCEPT ![c] = [NoCall EXCEPT !.at = "answered", !.reset = call[c].reset,
                                                    !.ids = ids, !.next = NextCursor(ids)]]
  /\ UNCHANGED <<rowVars, filter, items, nextCursor, loading, loadingMore, mixed, steady>>

\* finally: both flags, whichever call it was.  The mutant forgets the flags when the
\* call fails.
Ended(c) ==
  /\ loading' = FALSE
  /\ loadingMore' = FALSE
  /\ call' = [call EXCEPT ![c] = NoCall]
  /\ UNCHANGED <<rowVars, filter, mixed, steady>>

\* The answer replaces the list or is appended to it, whatever the page shows by now.
Receive(c) ==
  /\ call[c].at = "answered"
  /\ items' = IF call[c].reset THEN call[c].ids ELSE items \o call[c].ids
  /\ nextCursor' = call[c].next
  /\ Ended(c)

FailLoad_Busy(c) ==
  /\ call[c].at # "idle"
  /\ call' = [call EXCEPT ![c] = NoCall]
  /\ UNCHANGED <<rowVars, filter, items, nextCursor, loading, loadingMore, mixed, steady>>
FailLoad(c) ==
  /\ call[c].at # "idle"
  /\ UNCHANGED <<items, nextCursor>>
  /\ Ended(c)

\* A row is inserted, published or deleted, by this page or by anything else.
RowStep ==
  /\ RowNext
  /\ steady' = steady \cap {u \in Updates : u \notin deleted' /\ filter \in {"any", status'[u]}}
  /\ UNCHANGED <<filter, items, nextCursor, loading, loadingMore, call, mixed>>

ListNext ==
  \/ \E c \in Calls :
       \/ \E f \in Filters : Load(c, f)
       \/ LoadMore(c) \/ List(c) \/ Receive(c) \/ FailLoad(c)
  \/ RowStep

ListSpec == ListInit /\ [][ListNext]_listVars

\* A call that is sent is answered or fails.
ListFairness == \A c \in Calls : WF_listVars(List(c) \/ Receive(c) \/ FailLoad(c))
FairListSpec == ListSpec /\ ListFairness

-----------------------------------------------------------------------------
\* Unless calls have overlapped, the list shows no row twice and the newest first,
\* whatever rows come and go between its pages.
ListInOrder == ~mixed => InOrder(items)

\* Unless calls have overlapped, no page boundary costs a row: every row that was there
\* when the list was reset and has matched the filter since is shown, down to where
\* "Load more" goes on.
NothingSkipped ==
  (~mixed /\ items # <<>>)
  => \A u \in steady : (nextCursor = NoCursor \/ u >= nextCursor) => Contains(items, u)

\* The skeleton and the busy button go away.
LoadingListEnds == ((loading /\ ~Quiet) \/ loadingMore) ~> ~(loading \/ loadingMore)
===============================================================================
