------------------------------ MODULE RowColumn ------------------------------
(***************************************************************************)
(* What the generated models' statements promise of one column of a table   *)
(* whose rows are inserted once, never removed, and always written whole:   *)
(* a handler reads a row, changes some of its columns and writes all of     *)
(* them back.  A write therefore puts into the column the value its request *)
(* read, unless the request is one that chooses this column's value; what   *)
(* happened to the column in between is undone.                             *)
(*                                                                         *)
(* UserAccounts and AppTokens are shown to implement ColumnSpec for the     *)
(* columns password_hash, disabled_at, deleted_at and revoked_at.           *)
(***************************************************************************)
CONSTANTS
  Rows,      \* ids of rows, inserted or not yet
  Absent,    \* the column of a row that is not in the table
  Fresh,     \* values a row can be inserted with
  Chosen,    \* values an operation on this column can choose
  Requests,
  NoWrite

VARIABLES
  value,     \* the column: [Rows -> values, or Absent]
  pending    \* what each request is going to write, NoWrite for nothing

columnVars == <<value, pending>>

ColumnInit ==
  /\ value = [r \in Rows |-> Absent]
  /\ pending = [q \in Requests |-> NoWrite]

Prepare(q, kind, r, v) ==
  /\ pending[q] = NoWrite
  /\ pending' = [pending EXCEPT ![q] = [kind |-> kind, row |-> r, value |-> v]]
  /\ UNCHANGED value

\* The request writes another column: this one keeps the value that was read.
Read(q, r) == value[r] # Absent /\ Prepare(q, "restore", r, value[r])

\* The request has read the row in order to change this column.
Choose(q, r) == value[r] # Absent /\ \E v \in Chosen : Prepare(q, "choose", r, v)

\* The request has found that there is no such row and is going to insert it.
Miss(q, r) == value[r] = Absent /\ \E v \in Fresh : Prepare(q, "insert", r, v)

\* The statement takes effect; a unique constraint refuses a second insert.
Commit(q) ==
  /\ pending[q] # NoWrite
  /\ pending[q].kind = "insert" <=> value[pending[q].row] = Absent
  /\ value' = [value EXCEPT ![pending[q].row] = pending[q].value]
  /\ pending' = [pending EXCEPT ![q] = NoWrite]

\* The statement is refused or fails, or the request ends before it.
Drop(q) ==
  /\ pending[q] # NoWrite
  /\ pending' = [pending EXCEPT ![q] = NoWrite]
  /\ UNCHANGED value

ColumnNext ==
  \E q \in Requests :
    \/ \E r \in Rows : Read(q, r) \/ Choose(q, r) \/ Miss(q, r)
    \/ Commit(q)
    \/ Drop(q)

ColumnSpec == ColumnInit /\ [][ColumnNext]_columnVars

===============================================================================
