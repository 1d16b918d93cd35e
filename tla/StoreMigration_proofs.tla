----------------------- MODULE StoreMigration_proofs -----------------------
(***************************************************************************)
(* Proofs about StoreMigration, for any number of processes, tasks and     *)
(* versions.                                                               *)
(***************************************************************************)
EXTENDS StoreMigration, TLAPS

(***************************************************************************)
(* The parts of the inductive invariant.                                   *)
(***************************************************************************)
Others == Over(json, recovered)

OneHolder == \A p, q \in Procs : pc[p] \in Inside /\ pc[q] \in Inside => p = q

(* What tasks.db is at the steps of a migration and while a store is open. *)
FormOfStep ==
  /\ form \notin {"json", "sqlite"} => rows = Empty
  /\ \A p \in Procs :
       /\ pc[p] \in Inside \ {"collect"} => form # "bad_json"
       /\ pc[p] = "remove_broken" => form # "sqlite"
       /\ pc[p] = "retry" => form = "none"
       /\ pc[p] \in {"migrate", "open"} => form = "sqlite"

(* What a process has collected: everything there is but a database's rows.*)
RecordsOfStep ==
  \A p \in Procs : pc[p] \in Inside \ {"collect"} =>
    /\ own = "removed" => records[p] = legacy
    /\ own # "removed" /\ form = "json" => records[p] = Over(rows, Others)
    /\ own # "removed" /\ form # "json" => records[p] = Others
    /\ \A i \in Ids : Others[i] # 0 => records[p][i] # 0

(* Where the legacy rows are.                                              *)
LegacyRows ==
  /\ own = "removed" =>
       /\ rows = Empty
       /\ \E p \in Procs : pc[p] \in {"ensure", "retry", "migrate"}
       /\ \A p \in Procs : pc[p] # "open"
       /\ form \in {"none", "sqlite"}
  /\ own = "safe" /\ form # "sqlite" => legacy = Over(rows, Others)
  /\ own = "safe" /\ form = "sqlite" =>
       \A i \in Ids : \/ rows[i] # 0 /\ rows[i] >= legacy[i]
                      \/ rows[i] = 0 /\ legacy[i] = Others[i]
  /\ form = "json" => own = "safe"

IInv ==
  /\ TypeOK
  /\ OneHolder
  /\ FormOfStep
  /\ RecordsOfStep
  /\ LegacyRows
  /\ OpenStoreIsComplete

-----------------------------------------------------------------------------
(* The versions of rows are small numbers.                                 *)
LEMMA RowsAreNumbers ==
  ASSUME NEW r \in Rows
  PROVE  \A i \in Ids : r[i] \in Nat /\ r[i] <= MaxVersion
BY VersionAssumption DEF Rows

(* Laying rows over others gives rows, and over none the rows themselves.  *)
LEMMA OverIsRows ==
  /\ Empty \in Rows
  /\ \A a, b \in Rows : Over(a, b) \in Rows
  /\ \A b \in Rows : Over(Empty, b) = b
BY VersionAssumption DEF Rows, Over, Empty

(* At first nobody is in the store.                                        *)
LEMMA IInvInit == Init => IInv
<1> SUFFICES ASSUME Init PROVE IInv
  OBVIOUS
<1>1. rows \in Rows /\ json \in Rows /\ recovered \in Rows /\ Others \in Rows
      /\ legacy \in Rows /\ legacy = Over(rows, Others)
  BY OverIsRows DEF Init, Others
<1>2. TypeOK
  BY <1>1, OverIsRows DEF Init, TypeOK, Inside
<1>3. OneHolder /\ FormOfStep /\ RecordsOfStep /\ OpenStoreIsComplete
  BY DEF Init, OneHolder, FormOfStep, RecordsOfStep, OpenStoreIsComplete, Inside
<1>4. LegacyRows
  BY <1>1, RowsAreNumbers DEF Init, LegacyRows, Over
<1> QED BY <1>2, <1>3, <1>4 DEF IInv

(* Every step of a process keeps all parts.                                *)
LEMMA IInvStep ==
  ASSUME IInv, [Next]_vars
  PROVE  IInv'
<1> USE DEF Goto, files, sources
<1> /\ TypeOK /\ OneHolder /\ FormOfStep /\ RecordsOfStep /\ LegacyRows
    /\ OpenStoreIsComplete
  BY DEF IInv
<1>n. /\ \A i \in Ids : rows[i] \in Nat /\ legacy[i] \in Nat /\ Others[i] \in Nat
      /\ Others \in Rows
  BY RowsAreNumbers, OverIsRows DEF TypeOK, Others
<1>1. ASSUME NEW p \in Procs, AcquireLock(p)
      PROVE  IInv'
  <2>1. TypeOK' /\ OneHolder'
    BY <1>1 DEF AcquireLock, TypeOK, OneHolder, Inside
  <2>2. FormOfStep' /\ RecordsOfStep'
    BY <1>1 DEF AcquireLock, TypeOK, FormOfStep, RecordsOfStep, Inside, Others
  <2>3. LegacyRows' /\ OpenStoreIsComplete'
    BY <1>1 DEF AcquireLock, TypeOK, LegacyRows, OpenStoreIsComplete, Others
  <2> QED BY <2>1, <2>2, <2>3 DEF IInv
<1>2. ASSUME NEW p \in Procs, Collect(p)
      PROVE  IInv'
  <2>0. Collected \in Rows /\ \A i \in Ids : Others[i] # 0 => Collected[i] # 0
    BY <1>n, OverIsRows DEF Collected, Others, TypeOK, Over
  <2>1. TypeOK' /\ OneHolder'
    BY <1>2, <2>0 DEF Collect, TypeOK, OneHolder, Inside
  <2>2. own # "removed"
    BY <1>2 DEF Collect, LegacyRows, OneHolder, Inside
  <2>3. FormOfStep' /\ RecordsOfStep'
    BY <1>2, <2>0, <2>2
       DEF Collect, TypeOK, FormOfStep, RecordsOfStep, OneHolder, Inside,
           Collected, Others
  <2>4. LegacyRows' /\ OpenStoreIsComplete'
    BY <1>2, <2>2 DEF Collect, TypeOK, LegacyRows, OpenStoreIsComplete, Others
  <2> QED BY <2>1, <2>3, <2>4 DEF IInv
<1>3. ASSUME NEW p \in Procs, RemoveJSON(p) \/ RemoveBroken(p)
      PROVE  IInv'
  <2>1. TypeOK' /\ OneHolder'
    BY <1>3, OverIsRows
       DEF RemoveJSON, RemoveBroken, Remove, TypeOK, OneHolder, Inside, Forms
  <2>2. FormOfStep'
    BY <1>3 DEF RemoveJSON, RemoveBroken, Remove, TypeOK, FormOfStep, OneHolder,
                Inside
  <2>3. RecordsOfStep'
    BY <1>3 DEF RemoveJSON, RemoveBroken, Remove, TypeOK, RecordsOfStep,
                LegacyRows, OneHolder, Inside, Others
  <2>4. LegacyRows'
    BY <1>3, <1>n, OverIsRows
       DEF RemoveJSON, RemoveBroken, Remove, TypeOK, FormOfStep, LegacyRows,
           OpenStoreIsComplete, OneHolder, Inside, Others
  <2>5. OpenStoreIsComplete'
    BY <1>3 DEF RemoveJSON, RemoveBroken, Remove, TypeOK, FormOfStep,
                OpenStoreIsComplete, Inside
  <2> QED BY <2>1, <2>2, <2>3, <2>4, <2>5 DEF IInv
<1>4. ASSUME NEW p \in Procs, Ensure(p)
      PROVE  IInv'
  <2>1. TypeOK' /\ OneHolder'
    BY <1>4 DEF Ensure, TypeOK, OneHolder, Inside, Forms
  <2>2. FormOfStep' /\ RecordsOfStep'
    BY <1>4 DEF Ensure, TypeOK, FormOfStep, RecordsOfStep, OneHolder, Inside,
                Others
  <2>3. LegacyRows'
    BY <1>4, <1>n DEF Ensure, TypeOK, FormOfStep, LegacyRows, OneHolder, Inside,
                Others, Over, Empty
  <2>4. OpenStoreIsComplete'
    BY <1>4 DEF Ensure, TypeOK, FormOfStep, OpenStoreIsComplete, Inside
  <2> QED BY <2>1, <2>2, <2>3, <2>4 DEF IInv
<1>5. ASSUME NEW p \in Procs, Migrate(p)
      PROVE  IInv'
  <2>1. /\ form = "sqlite" /\ rows' = Over(rows, records[p])
        /\ records[p] \in Rows /\ rows' \in Rows
    BY <1>5, OverIsRows DEF Migrate, Imported, FormOfStep, TypeOK
  <2>2. TypeOK' /\ OneHolder'
    BY <1>5, <2>1, OverIsRows DEF Migrate, TypeOK, OneHolder, Inside
  <2>3. FormOfStep' /\ RecordsOfStep'
    BY <1>5, <2>1 DEF Migrate, TypeOK, FormOfStep, RecordsOfStep, OneHolder, Inside
  <2>4. \A i \in Ids : rows'[i] = IF rows[i] # 0 THEN rows[i] ELSE records[p][i]
    BY <2>1 DEF Over
  <2>5. /\ \A i \in Ids : Others[i] # 0 => rows'[i] # 0
        /\ own = "removed" => \A i \in Ids : rows'[i] = legacy[i]
        /\ own = "safe" => \A i \in Ids : rows'[i] >= legacy[i]
    BY <1>5, <1>n, <2>1, <2>4
       DEF Migrate, RecordsOfStep, LegacyRows, Inside, Empty
  <2>6. \A i \in Ids : rows'[i] \in Nat /\ (rows'[i] = 0 => Others[i] = 0)
    BY <2>1, <2>5, RowsAreNumbers
  <2>7. own' # "lost" => \A i \in Ids : rows'[i] >= legacy[i]
    BY <1>5, <1>n, <2>5 DEF Migrate, TypeOK
  <2>8. LegacyRows'
    BY <1>5, <1>n, <2>1, <2>6, <2>7 DEF Migrate, LegacyRows, Others, TypeOK
  <2>9. OpenStoreIsComplete'
    BY <1>5, <2>1, <2>6, <2>7 DEF Migrate, OpenStoreIsComplete, Others
  <2> QED BY <2>2, <2>3, <2>8, <2>9 DEF IInv
<1>6. ASSUME NEW p \in Procs, NEW i \in Ids, WriteTask(p, i)
      PROVE  IInv'
  <2>1. rows' = [rows EXCEPT ![i] = rows[i] + 1]
        /\ rows[i] + 1 \in 0 .. MaxVersion /\ form = "sqlite"
    BY <1>6, <1>n, VersionAssumption DEF WriteTask, TypeOK, Rows
  <2>2. rows' \in Rows
    BY <2>1 DEF TypeOK, Rows
  <2>3. \A j \in Ids : rows'[j] >= rows[j] /\ (j # i => rows'[j] = rows[j])
    BY <1>n, <2>1 DEF TypeOK, Rows
  <2>4. \A q \in Procs : pc[q] \notin Inside
    BY <1>6 DEF WriteTask, TypeOK
  <2>5. TypeOK' /\ OneHolder' /\ FormOfStep' /\ RecordsOfStep'
    BY <1>6, <2>1, <2>2, <2>4
       DEF WriteTask, TypeOK, OneHolder, FormOfStep, RecordsOfStep, Inside
  <2>6. own # "removed"
    BY <2>4 DEF LegacyRows, Inside
  <2>7. rows'[i] # 0 /\ rows'[i] >= rows[i] + 1
    BY <1>n, <2>1 DEF TypeOK, Rows
  <2>8. own = "safe" => rows[i] >= legacy[i]
    BY <1>6, <1>n DEF WriteTask, LegacyRows, OpenStoreIsComplete, TypeOK
  <2>9. \A j \in Ids : rows'[j] \in Nat
    BY <2>2, RowsAreNumbers
  <2>10. LegacyRows'
    BY <1>6, <1>n, <2>1, <2>3, <2>6, <2>7, <2>8, <2>9
       DEF WriteTask, LegacyRows, Others
  <2>11. OpenStoreIsComplete'
    BY <1>6, <1>n, <2>1, <2>3, <2>7, <2>9
       DEF WriteTask, OpenStoreIsComplete, Others
  <2> QED BY <2>5, <2>10, <2>11 DEF IInv
<1>7. ASSUME NEW p \in Procs, End(p)
      PROVE  IInv'
  <2>1. TypeOK' /\ OneHolder'
    BY <1>7, OverIsRows DEF End, TypeOK, OneHolder, Inside
  <2>2. own = "removed" /\ p \notin holder =>
          \E q \in Procs : q # p /\ pc[q] \in {"ensure", "retry", "migrate"}
    BY <1>7 DEF LegacyRows, TypeOK, Inside
  <2>3. FormOfStep' /\ RecordsOfStep'
    BY <1>7 DEF End, TypeOK, FormOfStep, RecordsOfStep, LegacyRows, OneHolder,
                Inside, Others
  <2>4. LegacyRows'
    BY <1>7, <2>2 DEF End, TypeOK, LegacyRows, Others
  <2>5. OpenStoreIsComplete'
    BY <1>7 DEF End, TypeOK, LegacyRows, OpenStoreIsComplete
  <2> QED BY <2>1, <2>3, <2>4, <2>5 DEF IInv
<1>8. CASE UNCHANGED vars
  BY <1>8 DEF vars, IInv, TypeOK, OneHolder, FormOfStep, RecordsOfStep,
              LegacyRows, OpenStoreIsComplete, Others
<1> QED BY <1>1, <1>2, <1>3, <1>4, <1>5, <1>6, <1>7, <1>8 DEF Next, Step

-----------------------------------------------------------------------------
(* The inductive invariant holds, for every set of processes and tasks.    *)
THEOREM Inductive == Spec => []IInv
BY IInvInit, IInvStep, PTL DEF Spec

(* Type correctness, and the lock is held exactly inside of NewStore.      *)
THEOREM TypeCorrect == Spec => []TypeOK
<1>1. IInv => TypeOK
  BY DEF IInv
<1> QED BY <1>1, Inductive, PTL

(* Legacy tasks are lost only when a process ends between the removal of a *)
(* JSON tasks.db and the import.  (NewStore)                               *)
THEOREM LossIsExplained == Spec => []LostOnlyWhenCut
<1>1. IInv => LostOnlyWhenCut
  <2> SUFFICES ASSUME IInv, own # "lost", NEW i \in Ids, legacy[i] # 0
               PROVE  \/ rows[i] # 0 \/ json[i] # 0 \/ recovered[i] # 0
                      \/ \E p \in holder : records[p][i] # 0
    BY DEF LostOnlyWhenCut
  <2>1. Others[i] # 0 => json[i] # 0 \/ recovered[i] # 0
    BY DEF Others, Over
  <2>2. CASE own = "removed"
    <3>1. PICK p \in Procs : pc[p] \in {"ensure", "retry", "migrate"}
      BY <2>2 DEF IInv, LegacyRows
    <3>2. p \in holder /\ records[p] = legacy
      BY <2>2, <3>1 DEF IInv, TypeOK, RecordsOfStep, Inside
    <3> QED BY <3>2
  <2>3. CASE own = "safe" /\ form # "sqlite"
    BY <2>1, <2>3 DEF IInv, LegacyRows, Over
  <2>4. CASE own = "safe" /\ form = "sqlite"
    BY <2>1, <2>4 DEF IInv, LegacyRows
  <2> QED BY <2>2, <2>3, <2>4 DEF IInv, TypeOK
<1> QED BY <1>1, Inductive, PTL

(* A command that gets its store finds the legacy tasks in it.  (NewStore) *)
THEOREM OpenIsComplete == Spec => []OpenStoreIsComplete
<1>1. IInv => OpenStoreIsComplete
  BY DEF IInv
<1> QED BY <1>1, Inductive, PTL

(* A database is never removed and its rows never get older.               *)
(* (migrateTaskRecordsToSQLite)                                            *)
THEOREM DatabaseIsKept == Spec => DatabaseOnlyGrows
<1>1. ASSUME IInv, [Next]_vars, form = "sqlite"
      PROVE  form' = "sqlite" /\ \A i \in Ids : rows'[i] >= rows[i]
  <2> USE <1>1 DEF files
  <2>1. \A i \in Ids : rows[i] \in Nat
    BY RowsAreNumbers DEF IInv, TypeOK
  <2>2. ASSUME NEW p \in Procs, RemoveJSON(p) \/ RemoveBroken(p) \/ Ensure(p)
        PROVE  UNCHANGED files
    BY <2>2 DEF RemoveJSON, RemoveBroken, Ensure, Remove, IInv, FormOfStep
  <2>3. ASSUME NEW p \in Procs, Migrate(p)
        PROVE  form' = "sqlite" /\ \A i \in Ids : rows'[i] >= rows[i]
    BY <2>1, <2>3, RowsAreNumbers
       DEF Migrate, Imported, Over, IInv, TypeOK
  <2>4. ASSUME NEW p \in Procs, NEW i \in Ids, WriteTask(p, i)
        PROVE  form' = "sqlite" /\ \A j \in Ids : rows'[j] >= rows[j]
    BY <2>1, <2>4 DEF WriteTask, IInv, TypeOK, Rows
  <2>5. ASSUME NEW p \in Procs, AcquireLock(p) \/ Collect(p) \/ End(p)
        PROVE  UNCHANGED files
    BY <2>5 DEF AcquireLock, Collect, End
  <2>6. CASE UNCHANGED vars
    BY <2>1, <2>6 DEF vars
  <2> QED BY <2>1, <2>2, <2>3, <2>4, <2>5, <2>6 DEF Next, Step
<1> QED BY <1>1, Inductive, PTL DEF Spec, DatabaseOnlyGrows
=============================================================================
