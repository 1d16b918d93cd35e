-------------------------- MODULE TaskStore_proofs --------------------------
(***************************************************************************)
(* Proofs about TaskStore, for any number of processes, ids, columns and   *)
(* values.  What the lock is needed for is proved where it is given (a     *)
(* build with flock, killed processes that take their child along); that   *)
(* no row is lost is proved without it.                                    *)
(***************************************************************************)
EXTENDS TaskStore, FiniteSetTheorems, TLAPS

(***************************************************************************)
(* The parts of the inductive invariant.                                   *)
(***************************************************************************)

(* The step a process is at belongs to the call it is in.                  *)
CallOfStep ==
  \A p \in Procs :
    /\ pc[p] = "idle" <=> op[p] = Idle
    /\ pc[p] = "insert" => op[p].kind = "create"
    /\ pc[p] \in {"read", "write"} => op[p].kind = "update"
    /\ pc[p] \in {"check_new", "check_old", "move"} =>
         op[p].kind = "rename" /\ op[p].id # op[p].new
    /\ pc[p] = "select" => op[p].kind \in {"get", "list"}
    /\ pc[p] = "write" => mem[p] # NoRow

(* A call has no answer before it returns.                                 *)
AnswerComesLast ==
  \A p \in Procs : pc[p] # "return" => out[p] = Pending

(* The steps between taking the lock and returning are the holder's, and   *)
(* there is one holder.                                                    *)
OneHolder ==
  /\ \A p \in Procs : pc[p] \in Locked => p \in lock
  /\ \A p, q \in lock : p = q

TypeInv == TypeOK /\ CallOfStep

LockedBuild == Exclusive = TRUE /\ MaxOrphans = 0

IInv ==
  /\ TypeInv
  /\ AnswerComesLast
  /\ OneHolder
  /\ orphans = {}
  /\ DecisionsHold

-----------------------------------------------------------------------------
(***************************************************************************)
(* Facts about the data.                                                   *)
(***************************************************************************)
LEMMA CallKinds ==
  ASSUME NEW c \in Calls
  PROVE  /\ c.kind \in {"create", "update", "rename", "get", "list"}
         /\ c.kind = "create" => c.id \in Ids /\ c.row \in Row
         /\ c.kind = "update" => c.id \in Ids /\ c.patch \in Patch
         /\ c.kind = "rename" => c.id \in Ids /\ c.new \in Ids
         /\ c.kind = "get" => c.id \in Ids
         /\ c # Idle
BY DEF Calls, Idle

(* A missing row is told from any row.                                     *)
LEMMA NoRowIsNoRow == NoRow \notin Row
BY NoRowAssumption DEF Row

(* A row with some columns replaced is a row.                              *)
LEMMA OverlayIsRow ==
  ASSUME NEW row \in Row, NEW patch \in Patch
  PROVE  Overlay(row, patch) \in Row
BY KeepAssumption DEF Row, Patch, Overlay

(* The empty table is one.                                                 *)
LEMMA NothingIsTable == Nothing \in Table
BY DEF Nothing, Table

(* A part of a table is one.                                               *)
LEMMA SelectIsTable ==
  ASSUME NEW tab \in Table, NEW ids
  PROVE  Select(tab, ids) \in Table
BY DEF Select, Table

(* The answers are of their type, and none of them is the pending one.     *)
LEMMA AnswersAreTyped ==
  /\ \A code \in {"pending", "ok", "not_found", "exists", "error"} :
       Answer(code) \in Answers
  /\ Pending \in Answers
  /\ \A tab \in Table : [code |-> "ok", rows |-> tab] \in Answers
  /\ \A code \in {"ok", "not_found", "exists", "error"} :
       Answer(code) # Pending
BY NothingIsTable DEF Answer, Answers, Pending

(* What a statement can do to the table: nothing, a new row, a replaced    *)
(* one, or a row that moves to a free id.                                  *)
LEMMA StatementEffect ==
  ASSUME TypeOK, NEW s \in Statement
  PROVE  \/ Executed(s) = table
         \/ /\ s.sql = "insert" /\ s.id \in Ids /\ s.row \in Row
            /\ table[s.id] = NoRow
            /\ Executed(s) = [table EXCEPT ![s.id] = s.row]
         \/ /\ s.sql = "write" /\ s.id \in Ids /\ s.row \in Row
            /\ table[s.id] # NoRow
            /\ Executed(s) = [table EXCEPT ![s.id] = s.row]
         \/ /\ s.sql = "move" /\ s.id \in Ids /\ s.new \in Ids
            /\ table[s.id] # NoRow /\ table[s.new] = NoRow
            /\ Executed(s) = [table EXCEPT ![s.new] = table[s.id],
                                           ![s.id] = NoRow]
<1>1. CASE UniqueFails(s)
  BY <1>1 DEF Executed
<1>2. CASE ~UniqueFails(s) /\ s.sql = "insert"
  BY <1>2 DEF Executed, UniqueFails, Statement
<1>3. CASE ~UniqueFails(s) /\ s.sql = "write"
  BY <1>3 DEF Executed, UniqueFails, Statement
<1>4. CASE ~UniqueFails(s) /\ s.sql = "move"
  BY <1>4 DEF Executed, UniqueFails, Statement
<1>5. s.sql \in {"insert", "write", "move"}
  BY DEF Statement
<1> QED BY <1>1, <1>2, <1>3, <1>4, <1>5

(* A statement leaves a table.                                             *)
LEMMA ExecutedIsTable ==
  ASSUME TypeOK, NEW s \in Statement
  PROVE  Executed(s) \in Table
<1> table \in Table
  BY DEF TypeOK
<1> QED BY StatementEffect DEF Table

(* The statement a process is about to run.                                *)
LEMMA StatementIsTyped ==
  ASSUME TypeInv, NEW p \in Procs, pc[p] \in {"insert", "write", "move"}
  PROVE  /\ StatementOf(p) \in Statement
         /\ pc[p] = "insert" => StatementOf(p) = InsertSQL(op[p].id, op[p].row)
         /\ pc[p] = "write" => StatementOf(p) = WriteSQL(op[p].id, mem[p])
         /\ pc[p] = "move" => StatementOf(p) = MoveSQL(op[p].id, op[p].new)
<1> op[p] \in Calls
  BY DEF TypeInv, TypeOK, CallOfStep, Idle
<1>1. CASE pc[p] = "insert"
  <2>1. op[p].id \in Ids /\ op[p].row \in Row
    BY <1>1, CallKinds DEF TypeInv, CallOfStep
  <2> QED BY <1>1, <2>1 DEF StatementOf, InsertSQL, Statement
<1>2. CASE pc[p] = "write"
  <2>1. op[p].id \in Ids /\ mem[p] \in Row
    BY <1>2, CallKinds DEF TypeInv, TypeOK, CallOfStep
  <2> QED BY <1>2, <2>1 DEF StatementOf, WriteSQL, Statement
<1>3. CASE pc[p] = "move"
  <2>1. op[p].id \in Ids /\ op[p].new \in Ids
    BY <1>3, CallKinds DEF TypeInv, CallOfStep
  <2> QED BY <1>3, <2>1 DEF StatementOf, MoveSQL, Statement
<1> QED BY <1>1, <1>2, <1>3

-----------------------------------------------------------------------------
(***************************************************************************)
(* Types, in every build: one step per action.                             *)
(***************************************************************************)
LEMMA TypeInvInit == StoreInit => TypeInv
<1> SUFFICES ASSUME StoreInit PROVE TypeInv
  OBVIOUS
<1>1. TypeOK
  BY NothingIsTable, AnswersAreTyped DEF StoreInit, Init, TypeOK, PCs
<1>2. CallOfStep
  BY DEF StoreInit, Init, CallOfStep
<1> QED BY <1>1, <1>2 DEF TypeInv

(* Every step of the store keeps the types.                                *)
LEMMA TypeInvStep == TypeInv /\ [StoreNext]_storeVars => TypeInv'
<1> SUFFICES ASSUME TypeInv, [StoreNext]_storeVars PROVE TypeInv'
  OBVIOUS
<1> USE DEF TypeInv
<1>types. /\ table \in Table
          /\ op \in [Procs -> Calls \cup {Idle}]
          /\ out \in [Procs -> Answers]
          /\ lock \subseteq Procs
          /\ pc \in [Procs -> PCs]
          /\ mem \in [Procs -> Row \cup {NoRow}]
          /\ orphans \subseteq Statement
  BY DEF TypeOK
<1>1. ASSUME NEW p \in Procs, Begin(p) PROVE TypeInv'
  <2>1. PICK c \in Calls : op' = [op EXCEPT ![p] = c] /\ Goto(p, "lock")
    BY <1>1 DEF Begin
  <2>2. c # Idle
    BY CallKinds
  <2>3. TypeOK'
    BY <1>1, <1>types, <2>1 DEF Begin, Goto, TypeOK, PCs
  <2>4. CallOfStep'
    BY <1>1, <1>types, <2>1, <2>2 DEF Begin, Goto, CallOfStep
  <2> QED BY <2>3, <2>4
<1>2. ASSUME NEW p \in Procs, RenameToItself(p) PROVE TypeInv'
  <2>1. TypeOK'
    BY <1>2, <1>types, AnswersAreTyped
    DEF RenameToItself, Finish, Goto, TypeOK, PCs
  <2>2. CallOfStep'
    BY <1>2, <1>types DEF RenameToItself, Finish, Goto, CallOfStep
  <2> QED BY <2>1, <2>2
<1>3. ASSUME NEW p \in Procs, AcquireLock(p) PROVE TypeInv'
  <2>1. op[p] \in Calls
    BY <1>3, <1>types DEF AcquireLock, CallOfStep
  <2>2. op[p].kind \in {"create", "update", "rename", "get", "list"}
    BY <2>1, CallKinds
  <2>3. /\ FirstStep(op[p]) \in {"insert", "read", "check_new", "select"}
        /\ FirstStep(op[p]) = "insert" => op[p].kind = "create"
        /\ FirstStep(op[p]) = "read" => op[p].kind = "update"
        /\ FirstStep(op[p]) = "check_new" => op[p].kind = "rename"
        /\ FirstStep(op[p]) = "select" => op[p].kind \in {"get", "list"}
    BY <2>2 DEF FirstStep
  <2>4. TypeOK'
    BY <1>3, <1>types, <2>3 DEF AcquireLock, Goto, TypeOK, PCs
  <2>5. CallOfStep'
    BY <1>3, <1>types, <2>1, <2>3 DEF AcquireLock, Goto, CallOfStep
  <2> QED BY <2>4, <2>5
<1>4. ASSUME NEW p \in Procs, CreateInsert(p) PROVE TypeInv'
  <2>1. table' \in Table
    BY <1>4, StatementIsTyped, ExecutedIsTable DEF CreateInsert
  <2>2. TypeOK'
    BY <1>4, <1>types, <2>1, AnswersAreTyped
    DEF CreateInsert, Finish, Goto, TypeOK, PCs
  <2>3. CallOfStep'
    BY <1>4, <1>types DEF CreateInsert, Finish, Goto, CallOfStep
  <2> QED BY <2>2, <2>3
<1>5. ASSUME NEW p \in Procs, UpdateRead(p) PROVE TypeInv'
  <2>1. CASE table[op[p].id] = NoRow
    <3>1. TypeOK'
      BY <1>5, <2>1, <1>types, AnswersAreTyped
      DEF UpdateRead, Finish, Goto, TypeOK, PCs
    <3>2. CallOfStep'
      BY <1>5, <2>1, <1>types DEF UpdateRead, Finish, Goto, CallOfStep
    <3> QED BY <3>1, <3>2
  <2>2. CASE table[op[p].id] # NoRow
    <3>1. op[p] \in Calls /\ op[p].kind = "update"
      BY <1>5, <1>types DEF UpdateRead, CallOfStep
    <3>2. op[p].id \in Ids /\ op[p].patch \in Patch
      BY <3>1, CallKinds
    <3>3. table[op[p].id] \in Row
      BY <2>2, <3>2, <1>types DEF Table
    <3>4. Overlay(table[op[p].id], op[p].patch) \in Row
      BY <3>2, <3>3, OverlayIsRow
    <3>5. TypeOK'
      BY <1>5, <2>2, <3>4, <1>types DEF UpdateRead, Goto, TypeOK, PCs
    <3>6. CallOfStep'
      BY <1>5, <2>2, <3>1, <3>4, <1>types, NoRowIsNoRow
      DEF UpdateRead, Goto, CallOfStep
    <3> QED BY <3>5, <3>6
  <2> QED BY <2>1, <2>2
<1>6. ASSUME NEW p \in Procs, UpdateWrite(p) PROVE TypeInv'
  <2>1. table' \in Table
    BY <1>6, StatementIsTyped, ExecutedIsTable DEF UpdateWrite
  <2>2. TypeOK'
    BY <1>6, <1>types, <2>1, AnswersAreTyped
    DEF UpdateWrite, Finish, Goto, TypeOK, PCs
  <2>3. CallOfStep'
    BY <1>6, <1>types DEF UpdateWrite, Finish, Goto, CallOfStep
  <2> QED BY <2>2, <2>3
<1>7. ASSUME NEW p \in Procs, RenameCheckNew(p) PROVE TypeInv'
  <2>1. TypeOK'
    BY <1>7, <1>types, AnswersAreTyped
    DEF RenameCheckNew, Finish, Goto, TypeOK, PCs
  <2>2. CallOfStep'
    BY <1>7, <1>types DEF RenameCheckNew, Finish, Goto, CallOfStep
  <2> QED BY <2>1, <2>2
<1>8. ASSUME NEW p \in Procs, RenameCheckOld(p) PROVE TypeInv'
  <2>1. TypeOK'
    BY <1>8, <1>types, AnswersAreTyped
    DEF RenameCheckOld, Finish, Goto, TypeOK, PCs
  <2>2. CallOfStep'
    BY <1>8, <1>types DEF RenameCheckOld, Finish, Goto, CallOfStep
  <2> QED BY <2>1, <2>2
<1>9. ASSUME NEW p \in Procs, RenameMove(p) PROVE TypeInv'
  <2>1. table' \in Table
    BY <1>9, StatementIsTyped, ExecutedIsTable DEF RenameMove
  <2>2. TypeOK'
    BY <1>9, <1>types, <2>1, AnswersAreTyped
    DEF RenameMove, Finish, Goto, TypeOK, PCs
  <2>3. CallOfStep'
    BY <1>9, <1>types DEF RenameMove, Finish, Goto, CallOfStep
  <2> QED BY <2>2, <2>3
<1>10. ASSUME NEW p \in Procs, SelectRows(p) PROVE TypeInv'
  <2>1. out' \in [Procs -> Answers]
    BY <1>10, <1>types, AnswersAreTyped, SelectIsTable
    DEF SelectRows, Finish
  <2>2. TypeOK'
    BY <1>10, <1>types, <2>1 DEF SelectRows, Finish, Goto, TypeOK, PCs
  <2>3. CallOfStep'
    BY <1>10, <1>types DEF SelectRows, Finish, Goto, CallOfStep
  <2> QED BY <2>2, <2>3
<1>11. ASSUME NEW p \in Procs, Return(p) PROVE TypeInv'
  <2>1. TypeOK'
    BY <1>11, <1>types, AnswersAreTyped DEF Return, Goto, TypeOK, PCs
  <2>2. CallOfStep'
    BY <1>11, <1>types DEF Return, Goto, CallOfStep
  <2> QED BY <2>1, <2>2
<1>12. ASSUME NEW p \in Procs, CallFails(p) PROVE TypeInv'
  <2>1. TypeOK'
    BY <1>12, <1>types, AnswersAreTyped
    DEF CallFails, Finish, Goto, TypeOK, PCs
  <2>2. CallOfStep'
    BY <1>12, <1>types DEF CallFails, Finish, Goto, CallOfStep, Locked
  <2> QED BY <2>1, <2>2
<1>13. ASSUME NEW p \in Procs, Crash(p) PROVE TypeInv'
  <2>1. orphans' \subseteq Statement
    BY <1>13, <1>types, StatementIsTyped DEF Crash
  <2>2. TypeOK'
    BY <1>13, <1>types, <2>1, AnswersAreTyped DEF Crash, Goto, TypeOK, PCs
  <2>3. CallOfStep'
    BY <1>13, <1>types DEF Crash, Goto, CallOfStep
  <2> QED BY <2>2, <2>3
<1>14. ASSUME NEW s \in orphans, OrphanRuns(s) PROVE TypeInv'
  <2>1. table' \in Table
    BY <1>14, <1>types, ExecutedIsTable DEF OrphanRuns
  <2>2. TypeOK'
    BY <1>14, <1>types, <2>1 DEF OrphanRuns, TypeOK
  <2>3. CallOfStep'
    BY <1>14 DEF OrphanRuns, CallOfStep
  <2> QED BY <2>2, <2>3
<1>15. CASE UNCHANGED storeVars
  BY <1>15 DEF storeVars, TypeOK, CallOfStep
<1> QED
  BY <1>1, <1>2, <1>3, <1>4, <1>5, <1>6, <1>7, <1>8, <1>9, <1>10, <1>11,
     <1>12, <1>13, <1>14, <1>15 DEF StoreNext, HolderStep

(* Every variable keeps its type, in both builds and with orphans.         *)
THEOREM TypeCorrect == StoreSpec => []TypeOK
<1>1. TypeInv => TypeOK
  BY DEF TypeInv
<1> QED BY <1>1, TypeInvInit, TypeInvStep, PTL DEF StoreSpec

-----------------------------------------------------------------------------
(***************************************************************************)
(* What the lock gives.                                                    *)
(***************************************************************************)
LEMMA IInvInit == StoreInit => IInv
<1> SUFFICES ASSUME StoreInit PROVE IInv
  OBVIOUS
<1>1. /\ AnswerComesLast
      /\ OneHolder
      /\ orphans = {}
      /\ DecisionsHold
  BY DEF StoreInit, Init, AnswerComesLast, OneHolder, DecisionsHold, Locked
<1> QED BY <1>1, TypeInvInit DEF IInv

(* Two processes in the locked part are one.                               *)
LEMMA OnlyOneIsLocked ==
  ASSUME IInv, NEW p \in Procs, NEW q \in Procs,
         pc[p] \in Locked, pc[q] \in Locked
  PROVE  p = q
BY DEF IInv, OneHolder

(* Every step of the build with a lock keeps all parts.                    *)
LEMMA IInvStep == LockedBuild /\ IInv /\ [StoreNext]_storeVars => IInv'
<1> SUFFICES ASSUME LockedBuild, IInv, [StoreNext]_storeVars PROVE IInv'
  OBVIOUS
<1>types. /\ table \in Table
          /\ op \in [Procs -> Calls \cup {Idle}]
          /\ out \in [Procs -> Answers]
          /\ lock \subseteq Procs
          /\ pc \in [Procs -> PCs]
          /\ mem \in [Procs -> Row \cup {NoRow}]
  BY DEF IInv, TypeInv, TypeOK
<1>inv. AnswerComesLast /\ OneHolder /\ orphans = {} /\ DecisionsHold
  BY DEF IInv
<1>typed. TypeInv'
  BY TypeInvStep DEF IInv
<1> DEFINE Rest == AnswerComesLast /\ OneHolder /\ orphans = {} /\ DecisionsHold
<1> SUFFICES Rest'
  BY <1>typed DEF IInv
<1>1. ASSUME NEW p \in Procs, Begin(p) PROVE Rest'
  <2>1. op' = [op EXCEPT ![p] = op'[p]] /\ pc' = [pc EXCEPT ![p] = "lock"]
    BY <1>1, <1>types DEF Begin, Goto
  <2> QED BY <1>1, <2>1, <1>types, <1>inv
    DEF Begin, AnswerComesLast, OneHolder, DecisionsHold, Locked
<1>2. ASSUME NEW p \in Procs, RenameToItself(p) PROVE Rest'
  BY <1>2, <1>types, <1>inv
  DEF RenameToItself, Finish, Goto, AnswerComesLast, OneHolder,
      DecisionsHold, Locked
<1>3. ASSUME NEW p \in Procs, AcquireLock(p) PROVE Rest'
  <2>1. lock = {} /\ lock' = {p}
    BY <1>3 DEF AcquireLock, LockedBuild
  <2>2. \A q \in Procs : pc[q] \notin Locked
    BY <2>1, <1>inv DEF OneHolder
  <2>3. op[p] \in Calls
    BY <1>3, <1>types DEF AcquireLock, IInv, TypeInv, CallOfStep
  <2>4. FirstStep(op[p]) \in {"insert", "read", "check_new", "select"}
    BY <2>3, CallKinds DEF FirstStep
  <2>5. AnswerComesLast' /\ orphans' = {}
    BY <1>3, <2>4, <1>types, <1>inv DEF AcquireLock, Goto, AnswerComesLast
  <2>6. OneHolder'
    BY <1>3, <2>1, <2>2, <1>types DEF AcquireLock, Goto, OneHolder
  <2>7. DecisionsHold'
    BY <1>3, <2>2, <2>4, <1>types DEF AcquireLock, Goto, DecisionsHold, Locked
  <2> QED BY <2>5, <2>6, <2>7
<1>4. ASSUME NEW p \in Procs, pc[p] \in Locked, Goto(p, "return"),
             lock' = lock, orphans' = orphans,
             \A q \in Procs \ {p} : out'[q] = out[q]
      PROVE  Rest'
  <2>1. \A q \in Procs : pc'[q] \notin Locked
    BY <1>4, OnlyOneIsLocked, <1>types DEF Goto, Locked
  <2>2. AnswerComesLast'
    BY <1>4, <1>types, <1>inv DEF Goto, AnswerComesLast
  <2>3. OneHolder' /\ DecisionsHold'
    BY <1>4, <2>1, <1>inv DEF OneHolder, DecisionsHold, Locked
  <2> QED BY <1>4, <2>2, <2>3, <1>inv
<1>5. ASSUME NEW p \in Procs, CreateInsert(p) PROVE Rest'
  <2>1. pc[p] \in Locked /\ Goto(p, "return")
    BY <1>5 DEF CreateInsert, Finish, Locked
  <2>2. lock' = lock /\ orphans' = orphans
        /\ \A q \in Procs \ {p} : out'[q] = out[q]
    BY <1>5, <1>types DEF CreateInsert, Finish
  <2> QED BY <2>1, <2>2, <1>4
<1>6. ASSUME NEW p \in Procs, UpdateRead(p) PROVE Rest'
  <2>0. pc[p] \in Locked
    BY <1>6 DEF UpdateRead, Locked
  <2>1. CASE table[op[p].id] = NoRow
    <3>1. Goto(p, "return")
          /\ lock' = lock /\ orphans' = orphans
          /\ \A q \in Procs \ {p} : out'[q] = out[q]
      BY <1>6, <2>1, <1>types DEF UpdateRead, Finish
    <3> QED BY <2>0, <3>1, <1>4
  <2>2. CASE table[op[p].id] # NoRow
    <3>1. /\ mem' = [mem EXCEPT ![p] =
                       Overlay(table[op[p].id], op[p].patch)]
          /\ pc' = [pc EXCEPT ![p] = "write"]
          /\ UNCHANGED <<out, table, op, lock, orphans>>
      BY <1>6, <2>2 DEF UpdateRead, Goto
    <3>2. \A q \in Procs \ {p} : pc'[q] \notin Locked
      BY <2>0, <3>1, OnlyOneIsLocked, <1>types
    <3>3. AnswerComesLast' /\ orphans' = {}
      BY <2>0, <3>1, <1>types, <1>inv DEF AnswerComesLast, Locked
    <3>4. OneHolder'
      BY <2>0, <3>1, <3>2, <1>types, <1>inv DEF OneHolder
    <3>5. Overlay(table[op[p].id], op[p].patch)'
            = Overlay(table[op[p].id], op[p].patch)
      BY <3>1 DEF Overlay
    <3>6. DecisionsHold'
      BY <2>2, <3>1, <3>2, <3>5, <1>types DEF DecisionsHold, Locked
    <3> QED BY <3>3, <3>4, <3>6
  <2> QED BY <2>1, <2>2
<1>7. ASSUME NEW p \in Procs, UpdateWrite(p) PROVE Rest'
  <2>1. pc[p] \in Locked /\ Goto(p, "return")
    BY <1>7 DEF UpdateWrite, Finish, Locked
  <2>2. lock' = lock /\ orphans' = orphans
        /\ \A q \in Procs \ {p} : out'[q] = out[q]
    BY <1>7, <1>types DEF UpdateWrite, Finish
  <2> QED BY <2>1, <2>2, <1>4
<1>8. ASSUME NEW p \in Procs, RenameCheckNew(p) PROVE Rest'
  <2>0. pc[p] \in Locked
    BY <1>8 DEF RenameCheckNew, Locked
  <2>1. CASE table[op[p].new] # NoRow
    <3>1. Goto(p, "return")
          /\ lock' = lock /\ orphans' = orphans
          /\ \A q \in Procs \ {p} : out'[q] = out[q]
      BY <1>8, <2>1, <1>types DEF RenameCheckNew, Finish
    <3> QED BY <2>0, <3>1, <1>4
  <2>2. CASE table[op[p].new] = NoRow
    <3>1. /\ pc' = [pc EXCEPT ![p] = "check_old"]
          /\ UNCHANGED <<out, table, op, lock, mem, orphans>>
      BY <1>8, <2>2 DEF RenameCheckNew, Goto
    <3>2. AnswerComesLast' /\ orphans' = {} /\ OneHolder'
      BY <2>0, <3>1, <1>types, <1>inv DEF AnswerComesLast, OneHolder, Locked
    <3>3. \A q \in Procs \ {p} : pc'[q] \notin Locked
      BY <2>0, <3>1, OnlyOneIsLocked, <1>types
    <3>4. DecisionsHold'
      BY <2>2, <3>1, <3>3, <1>types DEF DecisionsHold, Locked
    <3> QED BY <3>2, <3>4
  <2> QED BY <2>1, <2>2
<1>9. ASSUME NEW p \in Procs, RenameCheckOld(p) PROVE Rest'
  <2>0. pc[p] \in Locked
    BY <1>9 DEF RenameCheckOld, Locked
  <2>1. CASE table[op[p].id] = NoRow
    <3>1. Goto(p, "return")
          /\ lock' = lock /\ orphans' = orphans
          /\ \A q \in Procs \ {p} : out'[q] = out[q]
      BY <1>9, <2>1, <1>types DEF RenameCheckOld, Finish
    <3> QED BY <2>0, <3>1, <1>4
  <2>2. CASE table[op[p].id] # NoRow
    <3>1. /\ pc[p] = "check_old"
          /\ pc' = [pc EXCEPT ![p] = "move"]
          /\ UNCHANGED <<out, table, op, lock, mem, orphans>>
      BY <1>9, <2>2 DEF RenameCheckOld, Goto
    <3>2. AnswerComesLast' /\ orphans' = {} /\ OneHolder'
      BY <2>0, <3>1, <1>types, <1>inv DEF AnswerComesLast, OneHolder, Locked
    <3>3. \A q \in Procs \ {p} : pc'[q] \notin Locked
      BY <2>0, <3>1, OnlyOneIsLocked, <1>types
    <3>4. DecisionsHold'
      BY <2>2, <3>1, <3>3, <1>types, <1>inv DEF DecisionsHold, Locked
    <3> QED BY <3>2, <3>4
  <2> QED BY <2>1, <2>2
<1>10. ASSUME NEW p \in Procs, RenameMove(p) PROVE Rest'
  <2>1. pc[p] \in Locked /\ Goto(p, "return")
    BY <1>10 DEF RenameMove, Finish, Locked
  <2>2. lock' = lock /\ orphans' = orphans
        /\ \A q \in Procs \ {p} : out'[q] = out[q]
    BY <1>10, <1>types DEF RenameMove, Finish
  <2> QED BY <2>1, <2>2, <1>4
<1>11. ASSUME NEW p \in Procs, SelectRows(p) PROVE Rest'
  <2>1. pc[p] \in Locked /\ Goto(p, "return")
    BY <1>11 DEF SelectRows, Finish, Locked
  <2>2. lock' = lock /\ orphans' = orphans
        /\ \A q \in Procs \ {p} : out'[q] = out[q]
    BY <1>11, <1>types DEF SelectRows, Finish
  <2> QED BY <2>1, <2>2, <1>4
<1>12. ASSUME NEW p \in Procs, pc[p] \in {"return", "lock"} \cup Locked,
              pc' = [pc EXCEPT ![p] = "idle"], lock' = lock \ {p},
              out' = [out EXCEPT ![p] = Pending], orphans' = {},
              \A q \in Procs \ {p} : op'[q] = op[q] /\ mem'[q] = mem[q],
              table' = table
       PROVE  Rest'
  <2>1. AnswerComesLast'
    BY <1>12, <1>types, <1>inv DEF AnswerComesLast
  <2>2. OneHolder'
    BY <1>12, <1>types, <1>inv DEF OneHolder, Locked
  <2>3. \A q \in Procs \ {p} :
          Overlay(table[op[q].id], op[q].patch)'
            = Overlay(table[op[q].id], op[q].patch)
    BY <1>12 DEF Overlay
  <2>4. DecisionsHold'
    BY <1>12, <2>3, <1>types, <1>inv DEF DecisionsHold
  <2> QED BY <1>12, <2>1, <2>2, <2>4
<1>13. ASSUME NEW p \in Procs, Return(p) PROVE Rest'
  <2>1. \A q \in Procs \ {p} : op'[q] = op[q] /\ mem'[q] = mem[q]
    BY <1>13, <1>types DEF Return
  <2> QED BY <1>13, <2>1, <1>12, <1>inv DEF Return, Goto
<1>14. ASSUME NEW p \in Procs, CallFails(p) PROVE Rest'
  <2>1. CASE pc[p] \in Locked
    <3>1. Goto(p, "return") /\ lock' = lock /\ orphans' = orphans
          /\ \A q \in Procs \ {p} : out'[q] = out[q]
      BY <1>14, <1>types DEF CallFails, Finish
    <3> QED BY <2>1, <3>1, <1>4
  <2>2. CASE pc[p] = "lock"
    <3>1. /\ pc' = [pc EXCEPT ![p] = "return"]
          /\ UNCHANGED <<table, op, lock, orphans>>
          /\ \A q \in Procs \ {p} : out'[q] = out[q] /\ mem'[q] = mem[q]
      BY <1>14, <1>types DEF CallFails, Finish, Goto
    <3>2. AnswerComesLast' /\ OneHolder' /\ orphans' = {}
      BY <3>1, <1>types, <1>inv DEF AnswerComesLast, OneHolder, Locked
    <3>3. \A q \in Procs \ {p} :
            Overlay(table[op[q].id], op[q].patch)'
              = Overlay(table[op[q].id], op[q].patch)
      BY <3>1 DEF Overlay
    <3>4. DecisionsHold'
      BY <3>1, <3>3, <1>types, <1>inv DEF DecisionsHold
    <3> QED BY <3>2, <3>4
  <2> QED BY <1>14, <2>1, <2>2 DEF CallFails
<1>15. ASSUME NEW p \in Procs, Crash(p) PROVE Rest'
  <2>1. orphans' = {}
    BY <1>15, <1>inv, FS_EmptySet DEF Crash, LockedBuild
  <2>2. \A q \in Procs \ {p} : op'[q] = op[q] /\ mem'[q] = mem[q]
    BY <1>15, <1>types DEF Crash
  <2>3. pc[p] \in {"return", "lock"} \cup Locked
    BY <1>15, <1>types DEF Crash, PCs, Locked
  <2> QED BY <1>15, <2>1, <2>2, <2>3, <1>12 DEF Crash, Goto
<1>16. ~ \E s \in orphans : OrphanRuns(s)
  BY <1>inv
<1>17. CASE UNCHANGED storeVars
  <2>1. \A q \in Procs : Overlay(table[op[q].id], op[q].patch)'
                           = Overlay(table[op[q].id], op[q].patch)
    BY <1>17 DEF storeVars, Overlay
  <2> QED BY <1>17, <2>1, <1>inv
    DEF storeVars, AnswerComesLast, OneHolder, DecisionsHold
<1> QED
  BY <1>1, <1>2, <1>3, <1>5, <1>6, <1>7, <1>8, <1>9, <1>10, <1>11, <1>13,
     <1>14, <1>15, <1>16, <1>17 DEF StoreNext, HolderStep

(* With the lock, what a call read before it writes still holds when it    *)
(* writes: a row's content for UpdateTask, the two checks for              *)
(* RenameTaskSubmitID.                                                     *)
THEOREM DecisionsHoldWithLock ==
  LockedBuild => (StoreSpec => []DecisionsHold)
<1> SUFFICES ASSUME LockedBuild PROVE StoreSpec => []DecisionsHold
  OBVIOUS
<1>1. IInv /\ [StoreNext]_storeVars => IInv'
  BY IInvStep
<1>2. IInv => DecisionsHold
  BY DEF IInv
<1> QED BY <1>1, <1>2, IInvInit, PTL DEF StoreSpec

(* An update writes the columns it was called with and leaves the others   *)
(* and the other rows alone, whatever else runs: what it read before it    *)
(* wrote is still there.                                                   *)
THEOREM UpdatesKeepToTheirFields ==
  LockedBuild => (StoreSpec => UpdateTouchesOnlyItsFields)
<1> SUFFICES ASSUME LockedBuild PROVE StoreSpec => UpdateTouchesOnlyItsFields
  OBVIOUS
<1> DEFINE Kept ==
      \A p \in Procs :
        UpdateWrite(p) =>
          \A i \in Ids, f \in Fields :
            table[i] # NoRow /\ table'[i] # NoRow /\ table'[i][f] # table[i][f]
              => i = op[p].id /\ table'[i][f] = op[p].patch[f]
<1>1. IInv /\ [StoreNext]_storeVars => IInv'
  BY IInvStep
<1>2. IInv => Kept
  <2> SUFFICES ASSUME IInv, NEW p \in Procs, UpdateWrite(p),
                      NEW i \in Ids, NEW f \in Fields,
                      table'[i][f] # table[i][f]
               PROVE  i = op[p].id /\ table'[i][f] = op[p].patch[f]
    OBVIOUS
  <2>1. pc[p] = "write" /\ table' = Executed(StatementOf(p))
    BY DEF UpdateWrite
  <2>2. StatementOf(p) = WriteSQL(op[p].id, mem[p])
    BY <2>1, StatementIsTyped DEF IInv
  <2>3. op[p] \in Calls /\ op[p].kind = "update"
    BY <2>1 DEF IInv, TypeInv, TypeOK, CallOfStep
  <2>4. op[p].id \in Ids /\ table \in Table
    BY <2>3, CallKinds DEF IInv, TypeInv, TypeOK
  <2>5. table[op[p].id] # NoRow
        /\ mem[p] = Overlay(table[op[p].id], op[p].patch)
    BY <2>1 DEF IInv, DecisionsHold
  <2>6. table' = [table EXCEPT ![op[p].id] =
                    Overlay(table[op[p].id], op[p].patch)]
    BY <2>1, <2>2, <2>5 DEF Executed, UniqueFails, WriteSQL
  <2>7. i = op[p].id
    BY <2>4, <2>6 DEF Table
  <2>8. table'[i][f] = IF op[p].patch[f] = Keep THEN table[i][f]
                       ELSE op[p].patch[f]
    BY <2>4, <2>6, <2>7 DEF Overlay, Table
  <2> QED BY <2>7, <2>8
<1>3. IInv => [Kept]_storeVars
  BY <1>2
<1> QED BY <1>1, <1>3, IInvInit, PTL DEF StoreSpec, UpdateTouchesOnlyItsFields

-----------------------------------------------------------------------------
(***************************************************************************)
(* With the lock, the store implements the table.                          *)
(***************************************************************************)
LEMMA StepRefines ==
  LockedBuild /\ IInv /\ [StoreNext]_storeVars => [Next]_vars
<1> SUFFICES ASSUME LockedBuild, IInv, [StoreNext]_storeVars
             PROVE  [Next]_vars
  OBVIOUS
<1>types. /\ table \in Table
          /\ op \in [Procs -> Calls \cup {Idle}]
          /\ out \in [Procs -> Answers]
          /\ mem \in [Procs -> Row \cup {NoRow}]
  BY DEF IInv, TypeInv, TypeOK
<1>call. \A p \in Procs : pc[p] # "idle" => op[p] \in Calls /\ op[p] # Idle
  BY <1>types DEF IInv, TypeInv, CallOfStep
<1>pending. \A p \in Procs : pc[p] # "return" => out[p] = Pending
  BY DEF IInv, AnswerComesLast
<1>effect. ASSUME NEW p \in Procs, pc[p] \notin {"idle", "return"},
                  table' = After(table, op[p]),
                  out' = [out EXCEPT ![p] = Outcome(table, op[p])],
                  op' = op
           PROVE  Next
  BY <1>effect, <1>call, <1>pending DEF Next, TakeEffect
<1>1. ASSUME NEW p \in Procs, Begin(p) PROVE Next
  <2>1. op[p] = Idle
    BY <1>1 DEF Begin, IInv, TypeInv, CallOfStep
  <2> QED BY <1>1, <2>1 DEF Begin, Next, Invoke
<1>2. ASSUME NEW p \in Procs, RenameToItself(p) PROVE Next
  <2>1. After(table, op[p]) = table /\ Outcome(table, op[p]) = Answer("ok")
    BY <1>2 DEF RenameToItself, After, Outcome
  <2> QED BY <1>2, <2>1, <1>effect DEF RenameToItself, Finish
<1>3. ASSUME NEW p \in Procs, AcquireLock(p) PROVE UNCHANGED vars
  BY <1>3 DEF AcquireLock, vars
<1>4. ASSUME NEW p \in Procs, CreateInsert(p) PROVE Next
  <2>1. pc[p] = "insert" /\ op[p].kind = "create"
    BY <1>4 DEF CreateInsert, IInv, TypeInv, CallOfStep
  <2>2. StatementOf(p) = InsertSQL(op[p].id, op[p].row)
    BY <2>1, StatementIsTyped DEF IInv
  <2>3. table' = After(table, op[p])
    BY <1>4, <2>1, <2>2
    DEF CreateInsert, InsertSQL, Executed, UniqueFails, After
  <2>4. out' = [out EXCEPT ![p] = Outcome(table, op[p])]
    <3>1. UniqueFails(StatementOf(p)) <=> table[op[p].id] # NoRow
      BY <2>2 DEF UniqueFails, InsertSQL
    <3> QED BY <1>4, <2>1, <3>1 DEF CreateInsert, Finish, Outcome
  <2> QED BY <1>4, <2>1, <2>3, <2>4, <1>effect DEF CreateInsert
<1>5. ASSUME NEW p \in Procs, UpdateRead(p) PROVE [Next]_vars
  <2>1. pc[p] = "read" /\ op[p].kind = "update"
    BY <1>5 DEF UpdateRead, IInv, TypeInv, CallOfStep
  <2>2. CASE table[op[p].id] = NoRow
    <3>1. After(table, op[p]) = table
          /\ Outcome(table, op[p]) = Answer("not_found")
      BY <2>1, <2>2 DEF After, Outcome
    <3> QED BY <1>5, <2>1, <2>2, <3>1, <1>effect DEF UpdateRead, Finish
  <2>3. CASE table[op[p].id] # NoRow
    BY <1>5, <2>3 DEF UpdateRead, vars
  <2> QED BY <2>2, <2>3
<1>6. ASSUME NEW p \in Procs, UpdateWrite(p) PROVE Next
  <2>1. pc[p] = "write" /\ op[p].kind = "update"
    BY <1>6 DEF UpdateWrite, IInv, TypeInv, CallOfStep
  <2>2. StatementOf(p) = WriteSQL(op[p].id, mem[p])
    BY <2>1, StatementIsTyped DEF IInv
  <2>3. table[op[p].id] # NoRow
        /\ mem[p] = Overlay(table[op[p].id], op[p].patch)
    BY <2>1 DEF IInv, DecisionsHold
  <2>4. table' = After(table, op[p])
    <3>1. table' = [table EXCEPT ![op[p].id] =
                      Overlay(table[op[p].id], op[p].patch)]
      BY <1>6, <2>2, <2>3 DEF UpdateWrite, WriteSQL, Executed, UniqueFails
    <3> QED BY <2>1, <2>3, <3>1 DEF After
  <2>5. Outcome(table, op[p]) = Answer("ok")
    BY <2>1, <2>3 DEF Outcome
  <2> QED BY <1>6, <2>1, <2>4, <2>5, <1>effect DEF UpdateWrite, Finish
<1>7. ASSUME NEW p \in Procs, RenameCheckNew(p) PROVE [Next]_vars
  <2>1. /\ pc[p] = "check_new" /\ op[p].kind = "rename"
        /\ op[p].id # op[p].new
    BY <1>7 DEF RenameCheckNew, IInv, TypeInv, CallOfStep
  <2>2. CASE table[op[p].new] # NoRow
    <3>1. After(table, op[p]) = table
          /\ Outcome(table, op[p]) = Answer("exists")
      BY <2>1, <2>2 DEF After, Outcome
    <3> QED BY <1>7, <2>1, <2>2, <3>1, <1>effect DEF RenameCheckNew, Finish
  <2>3. CASE table[op[p].new] = NoRow
    BY <1>7, <2>3 DEF RenameCheckNew, vars
  <2> QED BY <2>2, <2>3
<1>8. ASSUME NEW p \in Procs, RenameCheckOld(p) PROVE [Next]_vars
  <2>1. /\ pc[p] = "check_old" /\ op[p].kind = "rename"
        /\ op[p].id # op[p].new /\ table[op[p].new] = NoRow
    BY <1>8 DEF RenameCheckOld, IInv, TypeInv, CallOfStep, DecisionsHold
  <2>2. CASE table[op[p].id] = NoRow
    <3>1. After(table, op[p]) = table
          /\ Outcome(table, op[p]) = Answer("not_found")
      BY <2>1, <2>2 DEF After, Outcome
    <3> QED BY <1>8, <2>1, <2>2, <3>1, <1>effect DEF RenameCheckOld, Finish
  <2>3. CASE table[op[p].id] # NoRow
    BY <1>8, <2>3 DEF RenameCheckOld, vars
  <2> QED BY <2>2, <2>3
<1>9. ASSUME NEW p \in Procs, RenameMove(p) PROVE Next
  <2>1. /\ pc[p] = "move" /\ op[p].kind = "rename"
        /\ op[p].id # op[p].new /\ table[op[p].new] = NoRow
        /\ table[op[p].id] # NoRow
    BY <1>9 DEF RenameMove, IInv, TypeInv, CallOfStep, DecisionsHold
  <2>2. StatementOf(p) = MoveSQL(op[p].id, op[p].new)
    BY <2>1, StatementIsTyped DEF IInv
  <2>3. ~UniqueFails(StatementOf(p))
    BY <2>1, <2>2 DEF MoveSQL, UniqueFails
  <2>4. table' = After(table, op[p])
    <3>1. table' = [table EXCEPT ![op[p].new] = table[op[p].id],
                                 ![op[p].id] = NoRow]
      BY <1>9, <2>1, <2>2, <2>3 DEF RenameMove, MoveSQL, Executed
    <3> QED BY <2>1, <3>1 DEF After
  <2>5. Outcome(table, op[p]) = Answer("ok")
    BY <2>1 DEF Outcome
  <2> QED BY <1>9, <2>1, <2>3, <2>4, <2>5, <1>effect DEF RenameMove, Finish
<1>10. ASSUME NEW p \in Procs, SelectRows(p) PROVE Next
  <2>1. pc[p] = "select" /\ op[p].kind \in {"get", "list"}
    BY <1>10 DEF SelectRows, IInv, TypeInv, CallOfStep
  <2>2. After(table, op[p]) = table
    BY <2>1 DEF After
  <2>3. out' = [out EXCEPT ![p] = Outcome(table, op[p])]
    BY <1>10, <2>1 DEF SelectRows, Finish, Outcome
  <2> QED BY <1>10, <2>1, <2>2, <2>3, <1>effect DEF SelectRows
<1>11. ASSUME NEW p \in Procs, Return(p) PROVE Next
  BY <1>11, <1>call DEF Return, Next, Leave
<1>12. ASSUME NEW p \in Procs, CallFails(p) PROVE Next
  <2>1. pc[p] \notin {"idle", "return"}
    BY <1>12 DEF CallFails, Locked
  <2> QED BY <1>12, <2>1, <1>call, <1>pending DEF CallFails, Finish, Next, Fail
<1>13. ASSUME NEW p \in Procs, Crash(p) PROVE Next
  BY <1>13, <1>call DEF Crash, Next, Leave
<1>14. ~ \E s \in orphans : OrphanRuns(s)
  BY DEF IInv
<1>15. CASE UNCHANGED storeVars
  BY <1>15 DEF storeVars, vars
<1> QED
  BY <1>1, <1>2, <1>3, <1>4, <1>5, <1>6, <1>7, <1>8, <1>9, <1>10, <1>11,
     <1>12, <1>13, <1>14, <1>15 DEF StoreNext, HolderStep

(* With the lock, every call of the store takes effect once, atomically,   *)
(* or not at all: the store implements TaskTable.                          *)
THEOREM StoreImplementsTable == LockedBuild => (StoreSpec => TableSpec)
<1> SUFFICES ASSUME LockedBuild PROVE StoreSpec => TableSpec
  OBVIOUS
<1>1. StoreInit => Init
  BY DEF StoreInit
<1>2. IInv /\ [StoreNext]_storeVars => IInv'
  BY IInvStep
<1>3. IInv /\ [StoreNext]_storeVars => [Next]_vars
  BY StepRefines
<1> QED BY <1>1, <1>2, <1>3, IInvInit, PTL DEF StoreSpec, TableSpec, Spec

-----------------------------------------------------------------------------
(***************************************************************************)
(* What holds without a lock and with orphaned statements.                 *)
(***************************************************************************)
LEMMA StatementKeepsRows ==
  ASSUME IsFiniteSet(Ids), TypeOK, NEW s \in Statement, table' = Executed(s)
  PROVE  Cardinality(Rows') >= Cardinality(Rows)
<1>0. table \in Table
  BY DEF TypeOK
<1>1. Rows \subseteq Ids /\ IsFiniteSet(Rows)
  BY FS_Subset DEF Rows
<1>2. Cardinality(Rows) \in Nat
  BY <1>1, FS_CardinalityType
<1>3. CASE table' = table
  BY <1>2, <1>3 DEF Rows
<1>4. CASE /\ s.sql = "insert" /\ s.id \in Ids /\ s.row \in Row
           /\ table[s.id] = NoRow
           /\ table' = [table EXCEPT ![s.id] = s.row]
  <2>1. Rows' = Rows \cup {s.id} /\ s.id \notin Rows
    BY <1>0, <1>4, NoRowIsNoRow DEF Rows, Table
  <2>2. Cardinality(Rows') = Cardinality(Rows) + 1
    BY <1>1, <2>1, FS_AddElement
  <2> QED BY <1>2, <2>2
<1>5. CASE /\ s.sql = "write" /\ s.id \in Ids /\ s.row \in Row
           /\ table[s.id] # NoRow
           /\ table' = [table EXCEPT ![s.id] = s.row]
  <2>1. Rows' = Rows
    BY <1>0, <1>5, NoRowIsNoRow DEF Rows, Table
  <2> QED BY <1>2, <2>1
<1>6. CASE /\ s.sql = "move" /\ s.id \in Ids /\ s.new \in Ids
           /\ table[s.id] # NoRow /\ table[s.new] = NoRow
           /\ table' = [table EXCEPT ![s.new] = table[s.id],
                                    ![s.id] = NoRow]
  <2> DEFINE Others == Rows \ {s.id}
  <2>1. s.id \in Rows /\ s.new \notin Rows
    BY <1>6 DEF Rows
  <2>2. Rows' = Others \cup {s.new} /\ s.new \notin Others
    BY <1>0, <1>6 DEF Rows, Table
  <2>3. IsFiniteSet(Others) /\ Cardinality(Others) = Cardinality(Rows) - 1
    BY <1>1, <2>1, FS_RemoveElement
  <2>4. Cardinality(Others \cup {s.new}) = Cardinality(Others) + 1
    BY <2>2, <2>3, FS_AddElement
  <2> QED BY <1>2, <2>2, <2>3, <2>4
<1> QED BY <1>3, <1>4, <1>5, <1>6, StatementEffect

(* No step takes a row away: at most it renames one.                       *)
LEMMA StepKeepsRows ==
  ASSUME IsFiniteSet(Ids), TypeInv, [StoreNext]_storeVars
  PROVE  Cardinality(Rows') >= Cardinality(Rows)
<1>1. ASSUME table' = table PROVE Cardinality(Rows') >= Cardinality(Rows)
  <2>1. Rows' = Rows
    BY <1>1 DEF Rows
  <2>2. Cardinality(Rows) \in Nat
    BY FS_Subset, FS_CardinalityType DEF Rows
  <2> QED BY <2>1, <2>2
<1>2. ASSUME NEW p \in Procs, CreateInsert(p) \/ UpdateWrite(p) \/ RenameMove(p)
      PROVE  Cardinality(Rows') >= Cardinality(Rows)
  <2>1. pc[p] \in {"insert", "write", "move"} /\ table' = Executed(StatementOf(p))
    BY <1>2 DEF CreateInsert, UpdateWrite, RenameMove
  <2> QED BY <2>1, StatementIsTyped, StatementKeepsRows DEF TypeInv
<1>3. ASSUME NEW s \in orphans, OrphanRuns(s)
      PROVE  Cardinality(Rows') >= Cardinality(Rows)
  BY <1>3, StatementKeepsRows DEF OrphanRuns, TypeInv, TypeOK
<1>4. ASSUME NEW p \in Procs,
             \/ Begin(p) \/ RenameToItself(p) \/ AcquireLock(p)
             \/ UpdateRead(p) \/ RenameCheckNew(p) \/ RenameCheckOld(p)
             \/ SelectRows(p) \/ Return(p) \/ CallFails(p) \/ Crash(p)
      PROVE  table' = table
  BY <1>4 DEF Begin, RenameToItself, AcquireLock, UpdateRead, RenameCheckNew,
              RenameCheckOld, SelectRows, Return, CallFails, Crash
<1>5. CASE UNCHANGED storeVars
  BY <1>1, <1>5 DEF storeVars
<1> QED BY <1>1, <1>2, <1>3, <1>4, <1>5 DEF StoreNext, HolderStep

(* No call and no interleaving of calls loses a row or makes two rows one, *)
(* with or without the lock, and however many statements of killed         *)
(* processes are still to run.                                             *)
THEOREM RowsAreKept == IsFiniteSet(Ids) => (StoreSpec => RowsNeverLost)
<1> SUFFICES ASSUME IsFiniteSet(Ids) PROVE StoreSpec => RowsNeverLost
  OBVIOUS
<1>1. TypeInv /\ [StoreNext]_storeVars
        => [Cardinality(Rows') >= Cardinality(Rows)]_storeVars
  BY StepKeepsRows
<1> QED BY <1>1, TypeInvInit, TypeInvStep, PTL DEF StoreSpec, RowsNeverLost
=============================================================================
