------------------------------ MODULE TaskTable ------------------------------
(***************************************************************************)
(* The abstract specification of the local task store: what a caller of    *)
(* components/task may rely on, with no lock, no SQL and no processes that *)
(* read before they write.  A call is invoked, takes effect once and       *)
(* atomically on the table of rows, and returns; it may also fail without  *)
(* effect, and its process may be killed at any time.                      *)
(*                                                                         *)
(* TaskStore.tla is the store as it is written, and implements this one.   *)
(***************************************************************************)

CONSTANTS
  Procs,    \* dreamina processes that open the same tasks.db
  Ids,      \* submit_id values
  Fields,   \* columns of aigc_task that a call can set
  Vals,     \* values of those columns
  Keep,     \* "this field is not part of the update"
  NoRow     \* "no row has this submit_id"

ASSUME KeepAssumption == Keep \notin Vals
ASSUME NoRowAssumption == NoRow \notin [Fields -> Vals]

VARIABLES
  table,    \* submit_id -> row, or NoRow
  op,       \* process -> the call it is in, or the idle one
  out       \* process -> the answer of that call, or the pending one

vars == <<table, op, out>>

Row == [Fields -> Vals]
Patch == [Fields -> Vals \cup {Keep}]
Table == [Ids -> Row \cup {NoRow}]

(***************************************************************************)
(* Calls and answers.                                                      *)
(***************************************************************************)
Idle == [kind |-> "idle"]
Calls ==
  [kind : {"create"}, id : Ids, row : Row]
    \cup [kind : {"update"}, id : Ids, patch : Patch]
    \cup [kind : {"rename"}, id : Ids, new : Ids]
    \cup [kind : {"get"}, id : Ids]
    \cup [kind : {"list"}]

Nothing == [i \in Ids |-> NoRow]
Pending == [code |-> "pending", rows |-> Nothing]
Answer(code) == [code |-> code, rows |-> Nothing]
Answers ==
  [code : {"pending", "ok", "not_found", "exists", "error"}, rows : Table]

Overlay_ClearsTheRest(row, patch) ==
  [f \in Fields |-> patch[f]]

(* A row overlaid with the fields an update names.                         *)
Overlay(row, patch) ==
  [f \in Fields |-> IF patch[f] = Keep THEN row[f] ELSE patch[f]]

(* The rows a read returns: those with an id in ids.                       *)
Select(tab, ids) == [i \in Ids |-> IF i \in ids THEN tab[i] ELSE NoRow]

(* What the table holds after call c took effect on tab.                   *)
After(tab, c) ==
  CASE c.kind = "create" /\ tab[c.id] = NoRow ->
         [tab EXCEPT ![c.id] = c.row]
    [] c.kind = "update" /\ tab[c.id] # NoRow ->
         [tab EXCEPT ![c.id] = Overlay(@, c.patch)]
    [] c.kind = "rename" /\ c.id # c.new /\ tab[c.new] = NoRow
                         /\ tab[c.id] # NoRow ->
         [tab EXCEPT ![c.new] = tab[c.id], ![c.id] = NoRow]
    [] OTHER -> tab

(* What call c answers when it takes effect on tab.                        *)
Outcome(tab, c) ==
  CASE c.kind = "create" ->
         Answer(IF tab[c.id] = NoRow THEN "ok" ELSE "exists")
    [] c.kind = "update" ->
         Answer(IF tab[c.id] = NoRow THEN "not_found" ELSE "ok")
    [] c.kind = "rename" ->
         Answer(IF c.id = c.new THEN "ok"
                ELSE IF tab[c.new] # NoRow THEN "exists"
                ELSE IF tab[c.id] = NoRow THEN "not_found" ELSE "ok")
    [] c.kind = "get" ->
         IF tab[c.id] = NoRow THEN Answer("not_found")
         ELSE [code |-> "ok", rows |-> Select(tab, {c.id})]
    [] OTHER -> [code |-> "ok", rows |-> tab]

-----------------------------------------------------------------------------
Init ==
  /\ table = Nothing
  /\ op = [p \in Procs |-> Idle]
  /\ out = [p \in Procs |-> Pending]

Invoke(p) ==
  /\ op[p] = Idle
  /\ \E c \in Calls : op' = [op EXCEPT ![p] = c]
  /\ UNCHANGED <<table, out>>

TakeEffect(p) ==
  /\ op[p] # Idle
  /\ out[p] = Pending
  /\ table' = After(table, op[p])
  /\ out' = [out EXCEPT ![p] = Outcome(table, op[p])]
  /\ UNCHANGED op

Fail(p) ==
  /\ op[p] # Idle
  /\ out[p] = Pending
  /\ out' = [out EXCEPT ![p] = Answer("error")]
  /\ UNCHANGED <<table, op>>

(* The call returns, or its process is killed: either way it is over.      *)
Leave(p) ==
  /\ op[p] # Idle
  /\ op' = [op EXCEPT ![p] = Idle]
  /\ out' = [out EXCEPT ![p] = Pending]
  /\ UNCHANGED table

Next == \E p \in Procs : Invoke(p) \/ TakeEffect(p) \/ Fail(p) \/ Leave(p)

Spec == Init /\ [][Next]_vars
=============================================================================
