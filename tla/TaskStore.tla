------------------------------ MODULE TaskStore ------------------------------
(***************************************************************************)
(* The local task store of components/task as several dreamina processes   *)
(* run it against one tasks.db.                                            *)
(*                                                                         *)
(* Every call takes the file lock (withFileLock), runs one to three        *)
(* sqlite3 child processes, each of them one atomic SQL statement, and     *)
(* releases the lock when it returns (the deferred Close).  UpdateTask and *)
(* RenameTaskSubmitID are several statements: they read, decide in Go and  *)
(* write the answer back, so that they are correct only while the lock     *)
(* keeps every other process out.                                          *)
(*                                                                         *)
(* Exclusive is what lockFile gives: TRUE is filelock_unix.go (flock       *)
(* LOCK_EX), FALSE is filelock_windows.go (a lock file and no exclusion).  *)
(* MaxOrphans bounds the sqlite3 children that killed processes leave      *)
(* running: the lock is the parent's (Go opens files close-on-exec), so    *)
(* that the child's statement can run after the lock is free.  It is 0     *)
(* where the kill takes the whole process group along, as Ctrl-C does.     *)
(***************************************************************************)
EXTENDS Integers, FiniteSets, TaskTable

CONSTANTS Exclusive, MaxOrphans

ASSUME EnvironmentAssumption == Exclusive \in BOOLEAN /\ MaxOrphans \in Nat

VARIABLES
  lock,     \* the processes that hold tasks.db.lock
  pc,       \* where each process is in its call
  mem,      \* the row each process read and has not written back yet
  orphans   \* statements of sqlite3 children whose parent was killed

storeVars == <<table, op, out, lock, pc, mem, orphans>>

PCs == {"idle", "lock", "insert", "read", "write", "check_new", "check_old",
        "move", "select", "return"}

(* The steps of a call between taking the lock and returning.              *)
Locked == {"insert", "read", "write", "check_new", "check_old", "move",
           "select"}

(***************************************************************************)
(* SQL statements that change the table, as sqlite3 executes them: INSERT  *)
(* fails on a duplicate primary key, UPDATE ... WHERE submit_id = x changes*)
(* no row and succeeds when there is none.                                 *)
(***************************************************************************)
Statement ==
  [sql : {"insert", "write"}, id : Ids, row : Row]
    \cup [sql : {"move"}, id : Ids, new : Ids]

InsertSQL(id, row) == [sql |-> "insert", id |-> id, row |-> row]
WriteSQL(id, row) == [sql |-> "write", id |-> id, row |-> row]
MoveSQL(id, new) == [sql |-> "move", id |-> id, new |-> new]

UniqueFails_AsOrReplace(s) == FALSE

UniqueFails(s) ==
  \/ s.sql = "insert" /\ table[s.id] # NoRow
  \/ s.sql = "move" /\ table[s.id] # NoRow /\ table[s.new] # NoRow

Executed(s) ==
  IF UniqueFails(s) \/ (s.sql # "insert" /\ table[s.id] = NoRow) THEN table
  ELSE IF s.sql = "move"
         THEN [table EXCEPT ![s.new] = table[s.id], ![s.id] = NoRow]
         ELSE [table EXCEPT ![s.id] = s.row]

(* The statement that process p is about to run, or is running.            *)
StatementOf(p) ==
  CASE pc[p] = "insert" -> InsertSQL(op[p].id, op[p].row)
    [] pc[p] = "write" -> WriteSQL(op[p].id, mem[p])
    [] pc[p] = "move" -> MoveSQL(op[p].id, op[p].new)

-----------------------------------------------------------------------------
StoreInit ==
  /\ Init
  /\ lock = {}
  /\ pc = [p \in Procs |-> "idle"]
  /\ mem = [p \in Procs |-> NoRow]
  /\ orphans = {}

Goto(p, l) == pc' = [pc EXCEPT ![p] = l]

Finish(p, answer) ==
  /\ out' = [out EXCEPT ![p] = answer]
  /\ Goto(p, "return")

(* A caller enters the store.  RenameTaskSubmitID to the same submit_id    *)
(* returns before it takes the lock.                                       *)
Begin(p) ==
  /\ pc[p] = "idle"
  /\ \E c \in Calls :
       /\ op' = [op EXCEPT ![p] = c]
       /\ Goto(p, "lock")
  /\ UNCHANGED <<table, out, lock, mem, orphans>>

RenameToItself(p) ==
  /\ pc[p] = "lock"
  /\ op[p].kind = "rename" /\ op[p].id = op[p].new
  /\ Finish(p, Answer("ok"))
  /\ UNCHANGED <<table, op, lock, mem, orphans>>

FirstStep(c) ==
  CASE c.kind = "create" -> "insert"
    [] c.kind = "update" -> "read"
    [] c.kind = "rename" -> "check_new"
    [] OTHER -> "select"

AcquireLock_NoExclusion(p) ==
  /\ pc[p] = "lock"
  /\ op[p].kind = "rename" => op[p].id # op[p].new
  /\ lock' = lock \cup {p}
  /\ Goto(p, FirstStep(op[p]))
  /\ UNCHANGED <<table, op, out, mem, orphans>>

(* withFileLock: lockFile blocks in flock until no process holds the lock; *)
(* the Windows build only opens the file.                                  *)
AcquireLock(p) ==
  /\ pc[p] = "lock"
  /\ op[p].kind = "rename" => op[p].id # op[p].new
  /\ Exclusive => lock = {}
  /\ lock' = lock \cup {p}
  /\ Goto(p, FirstStep(op[p]))
  /\ UNCHANGED <<table, op, out, mem, orphans>>

(* createTaskSQLite: one INSERT.                                           *)
CreateInsert(p) ==
  /\ pc[p] = "insert"
  /\ table' = Executed(StatementOf(p))
  /\ Finish(p, Answer(IF UniqueFails(StatementOf(p)) THEN "exists" ELSE "ok"))
  /\ UNCHANGED <<op, lock, mem, orphans>>

(* updateTaskSQLite: read the row, overlay the fields of the update in Go, *)
(* write the whole row back.                                               *)
UpdateRead(p) ==
  /\ pc[p] = "read"
  /\ IF table[op[p].id] = NoRow
       THEN Finish(p, Answer("not_found")) /\ UNCHANGED mem
       ELSE /\ mem' = [mem EXCEPT ![p] =
                         Overlay(table[op[p].id], op[p].patch)]
            /\ Goto(p, "write")
            /\ UNCHANGED out
  /\ UNCHANGED <<table, op, lock, orphans>>

UpdateWrite_WrongRow(p) ==
  /\ pc[p] = "write"
  /\ \E i \in Ids : table' = Executed(WriteSQL(i, mem[p]))
  /\ Finish(p, Answer("ok"))
  /\ mem' = [mem EXCEPT ![p] = NoRow]
  /\ UNCHANGED <<op, lock, orphans>>

UpdateWrite(p) ==
  /\ pc[p] = "write"
  /\ table' = Executed(StatementOf(p))
  /\ Finish(p, Answer("ok"))
  /\ mem' = [mem EXCEPT ![p] = NoRow]
  /\ UNCHANGED <<op, lock, orphans>>

(* renameTaskSubmitIDSQLite: the new submit_id must be free, the old one   *)
(* must exist, then one UPDATE of the primary key.                         *)
RenameCheckNew_Skipped(p) ==
  /\ pc[p] = "check_new"
  /\ Goto(p, "check_old")
  /\ UNCHANGED <<table, op, out, lock, mem, orphans>>

RenameCheckNew(p) ==
  /\ pc[p] = "check_new"
  /\ IF table[op[p].new] # NoRow
       THEN Finish(p, Answer("exists"))
       ELSE Goto(p, "check_old") /\ UNCHANGED out
  /\ UNCHANGED <<table, op, lock, mem, orphans>>

RenameCheckOld(p) ==
  /\ pc[p] = "check_old"
  /\ IF table[op[p].id] = NoRow
       THEN Finish(p, Answer("not_found"))
       ELSE Goto(p, "move") /\ UNCHANGED out
  /\ UNCHANGED <<table, op, lock, mem, orphans>>

RenameMove(p) ==
  /\ pc[p] = "move"
  /\ table' = Executed(StatementOf(p))
  /\ Finish(p, Answer(IF UniqueFails(StatementOf(p)) THEN "error" ELSE "ok"))
  /\ UNCHANGED <<op, lock, mem, orphans>>

(* GetTask and ListTasks: one SELECT.                                      *)
SelectRows(p) ==
  /\ pc[p] = "select"
  /\ IF op[p].kind = "list"
       THEN Finish(p, [code |-> "ok", rows |-> table])
       ELSE Finish(p, IF table[op[p].id] = NoRow THEN Answer("not_found")
                      ELSE [code |-> "ok", rows |-> Select(table, {op[p].id})])
  /\ UNCHANGED <<table, op, lock, mem, orphans>>

(* lockFile fails to open the file, or a sqlite3 child fails (a missing    *)
(* binary, a locked or full database): the call returns that error and the *)
(* deferred Close still runs.                                              *)
CallFails_KeepsLock(p) ==
  /\ pc[p] \in Locked \cup {"lock"}
  /\ out' = [out EXCEPT ![p] = Pending]
  /\ op' = [op EXCEPT ![p] = Idle]
  /\ Goto(p, "idle")
  /\ mem' = [mem EXCEPT ![p] = NoRow]
  /\ UNCHANGED <<table, lock, orphans>>

CallFails(p) ==
  /\ pc[p] \in Locked \cup {"lock"}
  /\ ~ (op[p].kind = "rename" /\ op[p].id = op[p].new)
  /\ Finish(p, Answer("error"))
  /\ mem' = [mem EXCEPT ![p] = NoRow]
  /\ UNCHANGED <<table, op, lock, orphans>>

(* lock.Close(), then the answer goes to the caller.                       *)
Return(p) ==
  /\ pc[p] = "return"
  /\ lock' = lock \ {p}
  /\ op' = [op EXCEPT ![p] = Idle]
  /\ out' = [out EXCEPT ![p] = Pending]
  /\ Goto(p, "idle")
  /\ UNCHANGED <<table, mem, orphans>>

(* The process is killed: the kernel drops its flock at once, and the      *)
(* statement its sqlite3 child was given may still run.                    *)
Crash(p) ==
  /\ pc[p] # "idle"
  /\ lock' = lock \ {p}
  /\ op' = [op EXCEPT ![p] = Idle]
  /\ out' = [out EXCEPT ![p] = Pending]
  /\ mem' = [mem EXCEPT ![p] = NoRow]
  /\ Goto(p, "idle")
  /\ \/ UNCHANGED orphans
     \/ /\ Cardinality(orphans) < MaxOrphans
        /\ pc[p] \in {"insert", "write", "move"}
        /\ orphans' = orphans \cup {StatementOf(p)}
  /\ UNCHANGED table

OrphanRuns(s) ==
  /\ table' = Executed(s)
  /\ orphans' = orphans \ {s}
  /\ UNCHANGED <<op, out, lock, pc, mem>>

-----------------------------------------------------------------------------
HolderStep(p) ==
  \/ CreateInsert(p)
  \/ UpdateRead(p) \/ UpdateWrite(p)
  \/ RenameCheckNew(p) \/ RenameCheckOld(p) \/ RenameMove(p)
  \/ SelectRows(p)
  \/ Return(p)

StoreNext ==
  \/ \E p \in Procs : \/ Begin(p) \/ RenameToItself(p) \/ AcquireLock(p)
                      \/ HolderStep(p)
                      \/ CallFails(p) \/ Crash(p)
  \/ \E s \in orphans : OrphanRuns(s)

(* Nothing in the store waits once it holds the lock, so that a running    *)
(* process takes its next step.  Taking the lock is not assumed fair.      *)
StoreFairness == \A p \in Procs : WF_storeVars(HolderStep(p))

StoreSpec == StoreInit /\ [][StoreNext]_storeVars /\ StoreFairness

-----------------------------------------------------------------------------
TypeOK ==
  /\ table \in Table
  /\ op \in [Procs -> Calls \cup {Idle}]
  /\ out \in [Procs -> Answers]
  /\ lock \subseteq Procs
  /\ pc \in [Procs -> PCs]
  /\ mem \in [Procs -> Row \cup {NoRow}]
  /\ orphans \subseteq Statement

(* What a process decided from an earlier statement still holds when it    *)
(* writes: the row UpdateTask read is the row it replaces, up to the       *)
(* update's own fields, and RenameTaskSubmitID's two checks are still true *)
(* when it moves the row.  (updateTaskSQLite, renameTaskSubmitIDSQLite)    *)
DecisionsHold ==
  \A p \in Procs :
    /\ pc[p] = "write" =>
         /\ table[op[p].id] # NoRow
         /\ mem[p] = Overlay(table[op[p].id], op[p].patch)
    /\ pc[p] \in {"check_old", "move"} => table[op[p].new] = NoRow
    /\ pc[p] = "move" => table[op[p].id] # NoRow

(* The store implements the table: each call takes effect once, atomically *)
(* or not at all, whatever other processes do and wherever they are killed.*)
TableSpec == Spec

(* An update changes the fields the caller passed and no other: in no row  *)
(* may a column change that the update does not name.  (TASK_STORE.md and  *)
(* the comment in UpdateTask)                                              *)
UpdateTouchesOnlyItsFields ==
  [][\A p \in Procs :
       UpdateWrite(p) =>
         \A i \in Ids, f \in Fields :
           table[i] # NoRow /\ table'[i] # NoRow /\ table'[i][f] # table[i][f]
             => i = op[p].id /\ table'[i][f] = op[p].patch[f]]_storeVars

(* A row once created is never lost: no interleaving of calls, with or     *)
(* without the lock, with killed processes and the statements they leave   *)
(* behind, makes two rows one or deletes a row.                            *)
Rows == {i \in Ids : table[i] # NoRow}
RowsNeverLost == [][Cardinality(Rows') >= Cardinality(Rows)]_storeVars

(* Whoever holds the lock gives it back: no error path keeps the others    *)
(* waiting.  (the deferred Close in withFileLock)                          *)
LockIsReleased == \A p \in Procs : p \in lock ~> p \notin lock
=============================================================================
