------------------------------ MODULE SigningKeys ------------------------------
(***************************************************************************)
(* The code signing keys of one app: the admin requests that generate or    *)
(* import a key, enable or disable one, or delete one, and the key the      *)
(* manifest endpoint signs with.                                            *)
(*                                                                         *)
(* Every admin request checks with one or more reads and acts in a later    *)
(* statement, with no transaction around them; one action is one SQL        *)
(* statement.  A row's id is unique to it, and created_at orders the rows   *)
(* as they were inserted, so one number stands for both.  disabled_at is    *)
(* set and cleared together with enabled and is not modelled on its own.    *)
(* A request answered without having written anything is no step at all     *)
(* unless it had already read something.                                    *)
(***************************************************************************)
EXTENDS Naturals

CONSTANTS
  KeyIds,     \* key ids an admin may use, unique among the app's rows
  Requests,   \* admin requests that may be in flight together
  NoKey,      \* the key id of a request slot that is not in use
  MaxRows     \* bound: number of rows ever inserted

ASSUME KeysAssumption ==
  /\ NoKey \notin KeyIds
  /\ MaxRows \in Nat

VARIABLES
  row,        \* [KeyIds -> id and age of the key's row], 0 when it has none
  enabled,    \* ids of the rows whose enabled column is true
  inserted,   \* number of rows ever inserted
  pc,         \* [Requests -> statement the request executes next]
  key,        \* [Requests -> key id the request is about]
  target,     \* [Requests -> id of the row the request found], 0 for none
  want,       \* [Requests -> the enabled value a patch asks for]
  reEnabled,  \* history: a key that was not the newest has been enabled again
  overlapped  \* history: a request started to activate a key while another was

table == <<row, enabled, inserted>>
requestVars == <<pc, key, target, want>>
history == <<reEnabled, overlapped>>
vars == <<table, requestVars, history>>

Locations == {"idle", "recycle", "recycleDelete", "insert", "list", "update", "delete"}

TypeOK ==
  /\ inserted \in Nat
  /\ row \in [KeyIds -> 0..inserted]
  /\ \A j, k \in KeyIds : row[j] = row[k] /\ row[j] # 0 => j = k
  /\ enabled \subseteq {row[k] : k \in KeyIds} \ {0}
  /\ pc \in [Requests -> Locations]
  /\ key \in [Requests -> KeyIds \cup {NoKey}]
  /\ target \in [Requests -> 0..inserted]
  /\ want \in [Requests -> BOOLEAN]
  /\ \A r \in Requests : (key[r] = NoKey) <=> (pc[r] = "idle")
  /\ \A r \in Requests : (target[r] = 0) <=> (pc[r] \in {"idle", "recycle", "insert"})
  /\ \A r \in Requests : pc[r] = "list" => want[r]
  /\ reEnabled \in BOOLEAN
  /\ overlapped \in BOOLEAN

RowIds == {row[k] : k \in KeyIds} \ {0}

\* The row with this key id, 0 if there is none; and all the rows.
FindOneByAppIdKeyId(k) == row[k]
ListByAppId == RowIds

\* FindOneByAppId: the newest row, if any.
Newest == {i \in RowIds : \A j \in RowIds : j <= i}

\* Requests whose check has passed and whose insert or enable is still to come.
Activating == {r \in Requests : \/ pc[r] \in {"recycle", "recycleDelete", "insert", "list"}
                                \/ pc[r] = "update" /\ want[r]}

-----------------------------------------------------------------------------
Init ==
  /\ row = [k \in KeyIds |-> 0]
  /\ enabled = {}
  /\ inserted = 0
  /\ pc = [r \in Requests |-> "idle"]
  /\ key = [r \in Requests |-> NoKey]
  /\ target = [r \in Requests |-> 0]
  /\ want = [r \in Requests |-> FALSE]
  /\ reEnabled = FALSE
  /\ overlapped = FALSE

Begin(r, k, location, id) ==
  /\ pc[r] = "idle"
  /\ pc' = [pc EXCEPT ![r] = location]
  /\ key' = [key EXCEPT ![r] = k]
  /\ target' = [target EXCEPT ![r] = id]

Answer(r) ==
  /\ pc' = [pc EXCEPT ![r] = "idle"]
  /\ key' = [key EXCEPT ![r] = NoKey]
  /\ target' = [target EXCEPT ![r] = 0]
  /\ want' = [want EXCEPT ![r] = FALSE]

\* ensureNoEnabledSigningKey looks at the newest row only.  The mutant compares the
\* wrong way and looks at the first row instead.
NoEnabledSigningKey_Oldest == \A i \in enabled : \E j \in RowIds : j < i
NoEnabledSigningKey == Newest \cap enabled = {}

\* Generate or import starts: 409 unless the newest key is disabled.
BeginCreate(r, k) ==
  /\ NoEnabledSigningKey
  /\ Begin(r, k, "recycle", 0)
  /\ overlapped' = (overlapped \/ Activating # {})
  /\ UNCHANGED <<table, want, reEnabled>>

\* recycleDisabledSigningKeyKeyID reads the row with the same key id.
RecycleRead(r) ==
  /\ pc[r] = "recycle"
  /\ \/ /\ FindOneByAppIdKeyId(key[r]) = 0
        /\ pc' = [pc EXCEPT ![r] = "insert"]
        /\ UNCHANGED <<key, target, want>>
     \/ /\ FindOneByAppIdKeyId(key[r]) \in enabled
        /\ Answer(r)
     \/ /\ FindOneByAppIdKeyId(key[r]) \in RowIds \ enabled
        /\ pc' = [pc EXCEPT ![r] = "recycleDelete"]
        /\ target' = [target EXCEPT ![r] = FindOneByAppIdKeyId(key[r])]
        /\ UNCHANGED <<key, want>>
  /\ UNCHANGED <<table, history>>

\* delete from code_signing_keys where id = i, whatever its row says by now.  The
\* mutant deletes by key id.
RemoveRow_ByKeyId(r) ==
  /\ row' = [row EXCEPT ![key[r]] = 0]
  /\ enabled' = enabled \ {row[key[r]]}
  /\ UNCHANGED inserted
RemoveRow(r) ==
  /\ row' = [k \in KeyIds |-> IF row[k] = target[r] THEN 0 ELSE row[k]]
  /\ enabled' = enabled \ {target[r]}
  /\ UNCHANGED inserted

\* recycleDisabledSigningKeyKeyID deletes the row it read.
RecycleDelete(r) ==
  /\ pc[r] = "recycleDelete"
  /\ RemoveRow(r)
  /\ pc' = [pc EXCEPT ![r] = "insert"]
  /\ target' = [target EXCEPT ![r] = 0]
  /\ UNCHANGED <<key, want, history>>

\* The new key is inserted enabled; UNIQUE (app_id, key_id) may refuse it.
InsertKey(r) ==
  /\ pc[r] = "insert"
  /\ IF row[key[r]] = 0
     THEN /\ inserted < MaxRows
          /\ inserted' = inserted + 1
          /\ row' = [row EXCEPT ![key[r]] = inserted + 1]
          /\ enabled' = enabled \cup {inserted + 1}
     ELSE UNCHANGED table
  /\ Answer(r)
  /\ UNCHANGED history

\* A patch that changes nothing is answered at once; a disable goes straight to the
\* update, an enable has the other keys to check first.
BeginPatch(r, k, enable) ==
  /\ FindOneByAppIdKeyId(k) # 0
  /\ (FindOneByAppIdKeyId(k) \in enabled) # enable
  /\ Begin(r, k, IF enable THEN "list" ELSE "update", FindOneByAppIdKeyId(k))
  /\ want' = [want EXCEPT ![r] = enable]
  /\ overlapped' = (overlapped \/ (enable /\ Activating # {}))
  /\ UNCHANGED <<table, reEnabled>>

\* Mutant: the patch looks at its own row only.
OthersEnabled_Own(r) == enabled \cap {target[r]} # {}
OthersEnabled(r) == (ListByAppId \cap enabled) \ {target[r]} # {}

\* The patch lists the app's keys: 409 when another one is enabled.
ListKeys(r) ==
  /\ pc[r] = "list"
  /\ IF OthersEnabled(r)
     THEN Answer(r)
     ELSE /\ pc' = [pc EXCEPT ![r] = "update"]
          /\ UNCHANGED <<key, target, want>>
  /\ UNCHANGED <<table, history>>

\* update code_signing_keys ... where id = i affects no row when it is gone.  The
\* mutant writes the row back even then.
RowsAffected_Upsert(r) == {target[r]}
RowsAffected(r) == {target[r]} \cap RowIds

\* The patch writes the row it read back, with the new enabled value.
UpdateKey(r) ==
  /\ pc[r] = "update"
  /\ enabled' = IF want[r] THEN enabled \cup RowsAffected(r) ELSE enabled \ RowsAffected(r)
  /\ reEnabled' = (reEnabled \/ (want[r] /\ ~(RowsAffected(r) \subseteq Newest)))
  /\ Answer(r)
  /\ UNCHANGED <<row, inserted, overlapped>>

\* DeleteSigningKey reads the row: 400 while it is enabled.
BeginDelete(r, k) ==
  /\ FindOneByAppIdKeyId(k) \in RowIds \ enabled
  /\ Begin(r, k, "delete", FindOneByAppIdKeyId(k))
  /\ UNCHANGED <<table, want, history>>

DeleteKey(r) ==
  /\ pc[r] = "delete"
  /\ RemoveRow(r)
  /\ Answer(r)
  /\ UNCHANGED history

\* A statement fails, the server stops, or an import turns out to hold no valid key
\* pair, which is looked at only when the recycled row is already deleted.
Abort(r) ==
  /\ pc[r] # "idle"
  /\ Answer(r)
  /\ UNCHANGED <<table, history>>

Next ==
  \/ \E r \in Requests, k \in KeyIds :
       \/ BeginCreate(r, k)
       \/ BeginDelete(r, k)
       \/ \E enable \in BOOLEAN : BeginPatch(r, k, enable)
  \/ \E r \in Requests :
       \/ RecycleRead(r) \/ RecycleDelete(r) \/ InsertKey(r)
       \/ ListKeys(r) \/ UpdateKey(r)
       \/ DeleteKey(r)
       \/ Abort(r)

Spec == Init /\ [][Next]_vars

-----------------------------------------------------------------------------
\* As long as no older key has been enabled again and no two requests that activate
\* a key have overlapped between check and act, only the newest key is enabled: one
\* key at most, and the one the manifest endpoint looks at.
OnlyNewestEnabled == reEnabled \/ overlapped \/ enabled \subseteq Newest

\* Unless such requests have overlapped, a key that a patch enables is the only
\* enabled one from then on, whatever older keys were enabled before.
EnableLeavesOneKey ==
  [][\A r \in Requests :
       (/\ pc[r] = "update" /\ want[r] /\ pc'[r] = "idle"
        /\ target[r] \in enabled')
       => overlapped \/ enabled' = {target[r]}]_vars

\* A request removes or switches only the row it read: never a key created later
\* under the same key id, however long its answer took and whoever recycled the id.
OnlyReadRowsChange ==
  [][\A i \in RowIds :
       (i \notin RowIds' \/ (i \in enabled) # (i \in enabled'))
       => \E r \in Requests : target[r] = i]_vars

\* What the comment on ensureNoEnabledSigningKey says: a single active key.
SingleActiveKey == \A i, j \in enabled : i = j
================================================================================
