------------------------------ MODULE UpdateRows ------------------------------
(***************************************************************************)
(* What the "updates" table promises everything built on it, whatever the   *)
(* order in which the admin API's statements reach the database.  A row is  *)
(* inserted once, as a pending draft; it is published at most once; it is   *)
(* soft-deleted from either state, and deletion is final.                   *)
(*                                                                         *)
(* UpdateStreams, where publish, delete and cleanup run as interleaved      *)
(* requests, is shown to implement RowSpec; AssetReclaim takes its row      *)
(* steps from here.                                                         *)
(***************************************************************************)
CONSTANT Updates                    \* ids of update rows, used or not yet used

VARIABLES status, deleted

rowVars == <<status, deleted>>

Statuses == {"none", "pending", "published"}

RowTypeOK ==
  /\ status \in [Updates -> Statuses]
  /\ deleted \subseteq {u \in Updates : status[u] # "none"}

\* A row that exists and whose deleted_at is null.
Live(u) == status[u] # "none" /\ u \notin deleted

RowInit ==
  /\ status = [u \in Updates |-> "none"]
  /\ deleted = {}

\* The insert of a draft: the status column is always 'pending' on insert.
InsertDraft(u) ==
  /\ status[u] = "none"
  /\ status' = [status EXCEPT ![u] = "pending"]
  /\ UNCHANGED deleted

\* update ... set status = 'published' where status = 'pending' and deleted_at is null
StampPublished(u) ==
  /\ status[u] = "pending"
  /\ u \notin deleted
  /\ status' = [status EXCEPT ![u] = "published"]
  /\ UNCHANGED deleted

\* update ... set deleted_at = now() where id in D and deleted_at is null
SoftDelete(D) ==
  /\ \A u \in D : Live(u)
  /\ deleted' = deleted \cup D
  /\ UNCHANGED status

RowNext ==
  \/ \E u \in Updates : InsertDraft(u) \/ StampPublished(u)
  \/ \E D \in SUBSET Updates : SoftDelete(D)

RowSpec == RowInit /\ [][RowNext]_rowVars
===============================================================================
