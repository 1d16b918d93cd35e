--------------------------- MODULE StoreMigration ---------------------------
(***************************************************************************)
(* NewStore of components/task, which every command calls first: under the *)
(* file lock it collects the records of the JSON stores, makes tasks.db a  *)
(* SQLite file and imports what it collected.  Several processes do it,    *)
(* again and again, and use the store in between; they fail and are killed *)
(* at any step.  The lock is the flock of the Unix build, and a killed     *)
(* process takes its sqlite3 child along; TaskStore is about the others.   *)
(*                                                                         *)
(* A row is reduced to its version: 0 is no row, and an update makes it    *)
(* newer.                                                                  *)
(***************************************************************************)
EXTENDS Integers

CONSTANTS
  Procs,       \* processes
  Ids,         \* submit_ids
  MaxVersion   \* bound of the versions of a row

ASSUME VersionAssumption == MaxVersion \in Nat \ {0}

Rows == [Ids -> 0 .. MaxVersion]
Empty == [i \in Ids |-> 0]

VARIABLES
  form,      \* what tasks.db is
  rows,      \* the rows in it, Empty when it holds none
  json,      \* the rows of tasks.json
  recovered, \* the rows of tasks.recovered.json
  holder,    \* the processes that hold the lock
  pc,        \* where each process is
  records,   \* what each process has collected
  legacy,    \* history: all rows there were to migrate
  own        \* history: a JSON tasks.db is there or imported ("safe"), removed
             \* and not imported yet, or lost, for its remover has ended

files == <<form, rows>>
sources == <<json, recovered, legacy>>
vars == <<files, sources, holder, pc, records, own>>

(* Of two stores the first one's row wins.  (collectLegacyMigrationRecords)*)
Over(first, second) ==
  [i \in Ids |-> IF first[i] # 0 THEN first[i] ELSE second[i]]

(* "none" is a missing or empty file; "bad_json" begins like JSON and is   *)
(* none; "broken" is neither JSON nor a database.                          *)
Forms == {"none", "json", "bad_json", "broken", "sqlite"}

Init ==
  /\ form \in Forms
  /\ rows \in IF form \in {"json", "sqlite"} THEN Rows ELSE {Empty}
  /\ json \in Rows /\ recovered \in Rows
  /\ holder = {}
  /\ pc = [p \in Procs |-> "idle"]
  /\ records = [p \in Procs |-> Empty]
  /\ legacy = Over(rows, Over(json, recovered))
  /\ own = "safe"

-----------------------------------------------------------------------------
Goto(p, l) == pc' = [pc EXCEPT ![p] = l]

(* lockFile waits for the flock.                                           *)
AcquireLock(p) ==
  /\ pc[p] = "idle" /\ holder = {}
  /\ holder' = {p}
  /\ Goto(p, "collect")
  /\ UNCHANGED <<files, sources, records, own>>

Collected_WithoutOwnFile == Over(json, recovered)

Collected_LastWins ==
  IF form = "json" THEN Over(recovered, Over(json, rows))
  ELSE Over(recovered, json)

Collected ==
  IF form = "json" THEN Over(rows, Over(json, recovered))
  ELSE Over(json, recovered)

(* collectLegacyMigrationRecords; JSON that cannot be parsed is an error.  *)
Collect(p) ==
  /\ pc[p] = "collect" /\ form # "bad_json"
  /\ records' = [records EXCEPT ![p] = Collected]
  /\ Goto(p, "remove_json")
  /\ UNCHANGED <<files, sources, holder, own>>

Remove ==
  /\ form' = "none" /\ rows' = Empty
  /\ own' = IF form = "json" THEN "removed" ELSE own

(* The file is removed when it looks like JSON, and kept when it does not  *)
(* or cannot be read.                                                      *)
RemoveJSON(p) ==
  /\ pc[p] = "remove_json"
  /\ \/ form \in {"none", "json", "bad_json"} /\ Remove
     \/ UNCHANGED <<files, own>>
  /\ Goto(p, "ensure")
  /\ UNCHANGED <<sources, holder, records>>

(* ensureSQLiteTaskStore creates the file and the table where there are    *)
(* none.  On "file is not a database", once, the file is removed first.    *)
Ensure(p) ==
  /\ pc[p] \in {"ensure", "retry"}
  /\ \/ form \in {"none", "sqlite"} /\ form' = "sqlite" /\ Goto(p, "migrate")
     \/ /\ form \notin {"none", "sqlite"} /\ pc[p] = "ensure"
        /\ Goto(p, "remove_broken") /\ UNCHANGED form
  /\ UNCHANGED <<rows, sources, holder, records, own>>

RemoveBroken(p) ==
  /\ pc[p] = "remove_broken"
  /\ Remove
  /\ Goto(p, "retry")
  /\ UNCHANGED <<sources, holder, records>>

Imported_Replaces(p) == Over(records[p], rows)

(* One transaction of INSERT OR IGNORE statements.                         *)
Imported(p) == Over(rows, records[p])

Migrate(p) ==
  /\ pc[p] = "migrate"
  /\ rows' = Imported(p)
  /\ records' = [records EXCEPT ![p] = Empty]
  /\ holder' = holder \ {p}
  /\ own' = IF own = "removed" THEN "safe" ELSE own
  /\ Goto(p, "open")
  /\ UNCHANGED <<form, sources>>

(* A CreateTask, under an id that is no legacy task's, or an UpdateTask of *)
(* the command, which are atomic (TaskTable).                              *)
WriteTask(p, i) ==
  /\ pc[p] = "open" /\ holder = {} /\ form = "sqlite"
  /\ rows[i] < MaxVersion
  /\ rows[i] = 0 => legacy[i] = 0
  /\ rows' = [rows EXCEPT ![i] = @ + 1]
  /\ UNCHANGED <<form, sources, holder, pc, records, own>>

End_KeepsLock(p) ==
  /\ pc[p] # "idle"
  /\ records' = [records EXCEPT ![p] = Empty]
  /\ Goto(p, "idle")
  /\ own' = IF own = "removed" /\ p \in holder THEN "lost" ELSE own
  /\ UNCHANGED <<files, sources, holder>>

(* Any step fails (no sqlite3, a full disk, an unreadable file), the       *)
(* process is killed, or the command is over: the lock is free.            *)
End(p) ==
  /\ pc[p] # "idle"
  /\ holder' = holder \ {p}
  /\ records' = [records EXCEPT ![p] = Empty]
  /\ Goto(p, "idle")
  /\ own' = IF own = "removed" /\ p \in holder THEN "lost" ELSE own
  /\ UNCHANGED <<files, sources>>

Step(p) ==
  \/ AcquireLock(p) \/ Collect(p) \/ RemoveJSON(p)
  \/ Ensure(p) \/ RemoveBroken(p) \/ Migrate(p)
  \/ End(p) \/ \E i \in Ids : WriteTask(p, i)

Next == \E p \in Procs : Step(p)

Spec == Init /\ [][Next]_vars

-----------------------------------------------------------------------------
Inside == {"collect", "remove_json", "ensure", "remove_broken", "retry",
           "migrate"}

TypeOK ==
  /\ form \in Forms
  /\ rows \in Rows
  /\ json \in Rows /\ recovered \in Rows /\ legacy \in Rows
  /\ pc \in [Procs -> Inside \cup {"idle", "open"}]
  /\ holder = {p \in Procs : pc[p] \in Inside}
  /\ records \in [Procs -> Rows]
  /\ own \in {"safe", "removed", "lost"}

(* A task of a legacy store is lost only by a process that fails or is     *)
(* killed between removing a JSON tasks.db and the import: until then it   *)
(* is in a file or in the hands of the process that holds the lock.        *)
(* (NewStore)                                                              *)
LostOnlyWhenCut ==
  own # "lost" => \A i \in Ids : legacy[i] # 0 =>
    \/ rows[i] # 0 \/ json[i] # 0 \/ recovered[i] # 0
    \/ \E p \in holder : records[p][i] # 0

(* A command that gets its store finds every task of the JSON files in it, *)
(* and unless the migration was cut every legacy task, in the version of   *)
(* the first store that has it or a newer one.  (NewStore)                 *)
OpenStoreIsComplete ==
  (\E p \in Procs : pc[p] = "open") =>
    /\ form = "sqlite"
    /\ \A i \in Ids : Over(json, recovered)[i] # 0 => rows[i] # 0
    /\ own # "lost" => \A i \in Ids : rows[i] >= legacy[i]

(* A database is never removed, and importing the same JSON files again    *)
(* for every command never takes back what a command has written.          *)
(* (migrateTaskRecordsToSQLite)                                            *)
DatabaseOnlyGrows ==
  [][form = "sqlite" =>
       form' = "sqlite" /\ \A i \in Ids : rows'[i] >= rows[i]]_vars
=============================================================================
