----------------------- MODULE TaskLifecycle_proofs -----------------------
(***************************************************************************)
(* The safety properties of TaskLifecycle, for any number of submitters    *)
(* and queriers.                                                           *)
(*                                                                         *)
(* None of them is inductive alone.  IInv adds what each step relies on:   *)
(* where the row of a submission is at each point of SubmitTask, that a    *)
(* submission's outcome and job are blank until its commit, that a query   *)
(* carries a status with a cause, and that a listed submit_id loses its    *)
(* row only to the remote submit_id.                                       *)
(***************************************************************************)
EXTENDS TaskLifecycle, TLAPS

HasFailureCause(s) == outcome[s] \in {"rejected", "lost"} \/ job[s].phase = "failed"

(* Nothing has happened to a submission before its commit.                 *)
BlankBeforeCommit ==
  \A s \in Submitters :
    /\ pc[s] \in {"create", "commit"} =>
         outcome[s] = "none" /\ job[s].phase = "none" /\ ~job[s].media
    /\ pc[s] \in {"rename", "update"} => outcome[s] # "none"

(* What a query read, or is about to write, has a cause.                   *)
QueryFailureHasCause ==
  \A c \in Callers :
    query[c].pc \in {"lookup", "update"} /\ query[c].status = "failed"
      => HasFailureCause(query[c].id[2])

RowIsAtCur ==
  \A s \in Submitters :
    /\ cur[s] \in {Local(s), Remote(s)}
    /\ pc[s] \in {"create", "commit", "rename"} => cur[s] = Local(s)
    /\ pc[s] = "create" => table[Local(s)] = NoRow
    /\ pc[s] \in {"commit", "rename", "update", "get", "poll"}
         => table[cur[s]] # NoRow
    /\ cur[s] = Local(s) => table[Remote(s)] = NoRow
    /\ cur[s] = Remote(s) =>
         table[Local(s)] = NoRow /\ table[Remote(s)] # NoRow

MovedToRemote(id) == id[1] = "local" /\ table[Remote(id[2])] # NoRow

(* A submit_id that a query was started for has its row, or had it moved.  *)
QueriedIdsKeepTheirRow ==
  \A c \in Callers :
    /\ query[c].id # NoId =>
         table[query[c].id] # NoRow \/ MovedToRemote(query[c].id)
    /\ query[c].pc = "fallback" \/ answer[c] = "not_found" =>
         query[c].id # NoId /\ MovedToRemote(query[c].id)

(* A submitter queries only in its poll loop, the last time after the      *)
(* timer.                                                                  *)
PollDiscipline ==
  \A s \in Submitters :
    /\ query[s].pc # "idle" => pc[s] = "poll"
    /\ pc[s] \notin {"poll", "end", "killed"} => answer[s] = "none"
    /\ last[s] => timer[s]

IInv ==
  /\ NoFalseSuccess
  /\ NoFalseFailure
  /\ BlankBeforeCommit
  /\ QueryFailureHasCause
  /\ RowIsAtCur
  /\ QueriedIdsKeepTheirRow
  /\ PollDiscipline
  /\ PollGivesUpOnlyAtDeadline

-----------------------------------------------------------------------------
(* The parts of a submit_id, which the provers do not compute themselves.  *)
LEMMA IdParts ==
  /\ \A s \in Submitters :
       /\ Local(s) \in Ids /\ Local(s)[1] = "local" /\ Local(s)[2] = s
       /\ Remote(s) \in Ids /\ Remote(s)[1] = "remote" /\ Remote(s)[2] = s
       /\ Local(s) # Remote(s)
  /\ \A i \in Ids :
       /\ i[2] \in Submitters
       /\ \/ i[1] = "local" /\ i = Local(i[2])
          \/ i[1] = "remote" /\ i = Remote(i[2])
<1>1. \A s \in Submitters :
       /\ Local(s) \in Ids /\ Local(s)[1] = "local" /\ Local(s)[2] = s
       /\ Remote(s) \in Ids /\ Remote(s)[1] = "remote" /\ Remote(s)[2] = s
       /\ Local(s) # Remote(s)
  BY DEF Ids, Local, Remote
<1>2. ASSUME NEW i \in Ids
      PROVE  /\ i[2] \in Submitters
             /\ \/ i[1] = "local" /\ i = Local(i[2])
                \/ i[1] = "remote" /\ i = Remote(i[2])
  <2>1. PICK k \in {"local", "remote"}, s \in Submitters : i = <<k, s>>
    BY DEF Ids
  <2> QED
    BY <2>1 DEF Local, Remote
<1> QED
  BY <1>1, <1>2

(* A verdict is a status.                                                  *)
LEMMA VerdictType ==
  ASSUME NEW status \in Statuses, NEW media, NEW view \in Views
  PROVE  Verdict(status, media, view) \in Statuses
BY DEF Verdict, Statuses, Views

(* What the backend can show is of its type.                               *)
LEMMA ViewsType ==
  ASSUME NEW id \in Ids, TypeOK
  PROVE  CanShow(id) \subseteq Views /\ CanBringMedia(id) \subseteq BOOLEAN
<1>1. id[2] \in Submitters
  BY IdParts
<1>2. job[id[2]].media \in BOOLEAN
  BY <1>1 DEF TypeOK, Job
<1> QED
  BY <1>2 DEF CanShow, CanBringMedia, Views, Statuses

(* What a query is, and that it stays one.                                 *)
LEMMA QueryParts ==
  ASSUME NEW q \in Query
  PROVE  /\ q.pc \in QueryPCs /\ q.id \in Ids \cup {NoId}
         /\ q.status \in Statuses /\ q.media \in BOOLEAN
         /\ q.pc # "idle" => q.id \in Ids
BY NoIdAssumption DEF Query, QueryPCs, Statuses

(* A query that goes on stays of its type.                                 *)
LEMMA GoOnType ==
  ASSUME TypeOK, NEW c \in Callers, NEW l \in QueryPCs,
         NEW id \in Ids \cup {NoId}, l # "idle" => id \in Ids,
         NEW status \in Statuses, NEW media \in BOOLEAN,
         GoOn(c, l, id, status, media)
  PROVE  query' \in [Callers -> Query]
<1>1. [pc |-> l, id |-> id, status |-> status, media |-> media] \in Query
  BY NoIdAssumption DEF Query
<1> QED
  BY <1>1 DEF TypeOK, GoOn

(* So it does in every step of a query, its start and its end.             *)
LEMMA QueryStepsType ==
  ASSUME TypeOK, NEW c \in Callers
  PROVE  /\ query[c].pc # "idle" => query[c].id \in Ids
         /\ Over(c) => query' \in [Callers -> Query]
         /\ \A l \in QueryPCs :
              query[c].pc # "idle" /\ Step(c, l) => query' \in [Callers -> Query]
         /\ \A id \in Ids :
              StartQuery(c, id) => /\ query' \in [Callers -> Query]
                                   /\ answer' \in [Callers -> Answers]
<1>1. query[c] \in Query
  BY DEF TypeOK
<1>2. "querying" \in Statuses /\ FALSE \in BOOLEAN
  BY DEF Statuses
<1>3. "idle" \in QueryPCs /\ "get" \in QueryPCs
  BY DEF QueryPCs
<1>4. Over(c) => query' \in [Callers -> Query]
  BY <1>1, <1>2, <1>3, QueryParts, GoOnType DEF Over
<1>5. ASSUME NEW l \in QueryPCs, query[c].pc # "idle", Step(c, l)
      PROVE  query' \in [Callers -> Query]
  BY <1>1, <1>5, QueryParts, GoOnType DEF Step
<1>6. ASSUME NEW id \in Ids, StartQuery(c, id)
      PROVE  query' \in [Callers -> Query] /\ answer' \in [Callers -> Answers]
  BY <1>2, <1>3, <1>6, GoOnType DEF StartQuery, TypeOK, Answers
<1> QED
  BY <1>1, <1>4, <1>5, <1>6, QueryParts

(* Every variable keeps its type.                                          *)
THEOREM TypeCorrect == Spec => []TypeOK
<1> USE DEF TypeOK, Callers
<1>1. Init => TypeOK
  BY IdParts DEF Init, Job, Phases, PCs, Outcomes, Query, QueryPCs, Answers,
    Statuses, NoQuery
<1>2. TypeOK /\ [Next]_vars => TypeOK'
  <2> SUFFICES ASSUME TypeOK, [Next]_vars PROVE TypeOK'
    OBVIOUS
  <2>1. ASSUME NEW s \in Submitters, SubmitStep(s) PROVE TypeOK'
    <3> USE DEF Goto, submitVars, PCs
    <3>1. CASE Create(s)
      BY <3>1, IdParts DEF Create, Row, Statuses
    <3>2. CASE CommitAccepted(s)
      BY <3>2 DEF CommitAccepted, Job, Phases, Outcomes
    <3>3. CASE CommitRejected(s)
      BY <3>3 DEF CommitRejected, Outcomes
    <3>4. CASE CommitLost(s)
      BY <3>4 DEF CommitLost, Job, Phases, Outcomes
    <3>5. CASE Rename(s)
      BY <3>5, IdParts DEF Rename
    <3>6. CASE Update(s)
      BY <3>6 DEF Update, SubmittedRow, Row, Statuses
    <3>7. CASE Get(s)
      BY <3>7 DEF Get
    <3>8. CASE SubmitFails(s)
      BY <3>8 DEF SubmitFails
    <3> QED
      BY <2>1, <3>1, <3>2, <3>3, <3>4, <3>5, <3>6, <3>7, <3>8 DEF SubmitStep
  <2>2. ASSUME NEW s \in Submitters, PollStep(s) PROVE TypeOK'
    <3>1. CASE PollTick(s)
      BY <3>1, QueryStepsType DEF PollTick, queryVars
    <3>2. CASE PollDeadline(s)
      BY <3>2, QueryStepsType DEF PollDeadline
    <3>3. CASE PollReturns(s)
      BY <3>3 DEF PollReturns, Goto, PCs
    <3> QED
      BY <2>2, <3>1, <3>2, <3>3 DEF PollStep
  <2>3. ASSUME NEW s \in Submitters, TimerFires(s) PROVE TypeOK'
    BY <2>3 DEF TimerFires
  <2>4. ASSUME NEW s \in Submitters, JobMoves(s) PROVE TypeOK'
    <3>1. job[s] \in Job
      OBVIOUS
    <3>2. job' \in [Submitters -> Job]
      <4>1. CASE job' = [job EXCEPT ![s].media = TRUE]
        BY <3>1, <4>1 DEF Job
      <4>2. ASSUME NEW p \in {"done", "failed"},
                   job' = [job EXCEPT ![s].phase = p]
            PROVE  job' \in [Submitters -> Job]
        BY <3>1, <4>2 DEF Job, Phases
      <4> QED
        BY <2>4, <4>1, <4>2 DEF JobMoves
    <3> QED
      BY <2>4, <3>2 DEF JobMoves
  <2>5. ASSUME NEW s \in Submitters, KillSubmitter(s) PROVE TypeOK'
    BY <2>5, QueryStepsType DEF KillSubmitter, Goto, PCs
  <2>6. ASSUME NEW q \in Queriers, QueryCommand(q) \/ KillQuerier(q)
        PROVE  TypeOK'
    <3>1. CASE QueryCommand(q)
      BY <3>1, QueryStepsType DEF QueryCommand, queryVars
    <3>2. CASE KillQuerier(q)
      BY <3>2, QueryStepsType DEF KillQuerier, queryVars
    <3> QED
      BY <2>6, <3>1, <3>2
  <2>7. ASSUME NEW c \in Callers, QueryStep(c) \/ QueryFails(c) PROVE TypeOK'
    <3> USE DEF queryVars
    <3>1. /\ query[c] \in Query /\ query[c].status \in Statuses
          /\ query[c].pc # "idle" => query[c].id \in Ids
      BY QueryParts, GoOnType
    <3>2. ASSUME NEW a \in Answers, Answered(c, a) PROVE
            query' \in [Callers -> Query] /\ answer' \in [Callers -> Answers]
      BY <3>2, QueryStepsType DEF Answered
    <3>3. ASSUME NEW l \in QueryPCs, Step(c, l), query[c].pc # "idle"
          PROVE  query' \in [Callers -> Query]
      BY <3>3, QueryStepsType
    <3>4. ASSUME query[c].pc # "idle", table[query[c].id] # NoRow,
                 NEW missing, ReadRow(c, missing)
          PROVE  query' \in [Callers -> Query] /\ UNCHANGED answer
      <4>1. table[query[c].id] \in Row
        BY <3>1, <3>4
      <4>2. table[query[c].id].status \in Statuses
            /\ table[query[c].id].media \in BOOLEAN
        BY <4>1 DEF Row
      <4> QED
        BY <3>1, <3>4, <4>2, GoOnType DEF ReadRow, QueryPCs
    <3>5. CASE QueryGet(c)
      <4>1. query' \in [Callers -> Query] /\ answer' \in [Callers -> Answers]
        BY <3>3, <3>4, <3>5 DEF QueryGet, ReadRow, QueryPCs
      <4> QED
        BY <3>5, <4>1 DEF QueryGet
    <3>6. CASE QueryFallback(c)
      <4>1. query' \in [Callers -> Query] /\ answer' \in [Callers -> Answers]
        BY <3>2, <3>4, <3>6 DEF QueryFallback, ReadRow, Answers
      <4> QED
        BY <3>6, <4>1 DEF QueryFallback
    <3>7. CASE QueryLookup(c)
      <4>1. PICK view \in CanShow(query[c].id), m \in CanBringMedia(query[c].id) :
              GoOn(c, "update", query[c].id,
                   Verdict(query[c].status, query[c].media, view),
                   query[c].media \/ m)
        BY <3>7 DEF QueryLookup
      <4>2. view \in Views /\ m \in BOOLEAN /\ query[c].media \in BOOLEAN
        BY <3>1, <3>7, ViewsType, QueryParts, GoOnType DEF QueryLookup
      <4>3. Verdict(query[c].status, query[c].media, view) \in Statuses
        BY <3>1, <4>2, VerdictType
      <4>4. query' \in [Callers -> Query]
        BY <3>1, <3>7, <4>1, <4>2, <4>3, QueryParts, GoOnType DEF QueryLookup, QueryPCs
      <4> QED
        BY <3>7, <4>4 DEF QueryLookup
    <3>8. CASE QueryUpdate(c)
      <4>1. query' \in [Callers -> Query] /\ answer' \in [Callers -> Answers]
        BY <3>2, <3>3, <3>8 DEF QueryUpdate, QueryPCs, Answers
      <4>2. table' \in [Ids -> Row \cup {NoRow}]
        BY <3>1, <3>8, QueryParts, GoOnType DEF QueryUpdate, Row
      <4> QED
        BY <3>8, <4>1, <4>2 DEF QueryUpdate
    <3>9. CASE QueryReget(c)
      <4>1. table[query[c].id] \in Row \cup {NoRow}
        BY <3>1, <3>9 DEF QueryReget
      <4>2. query' \in [Callers -> Query] /\ answer' \in [Callers -> Answers]
        BY <3>2, <3>9, <4>1 DEF QueryReget, Answers, Row
      <4> QED
        BY <3>9, <4>2 DEF QueryReget
    <3>10. CASE QueryFails(c)
      <4>1. query' \in [Callers -> Query] /\ answer' \in [Callers -> Answers]
        BY <3>2, <3>10 DEF QueryFails, Answers
      <4> QED
        BY <3>10, <4>1 DEF QueryFails
    <3> QED
      BY <2>7, <3>5, <3>6, <3>7, <3>8, <3>9, <3>10 DEF QueryStep
  <2>8. CASE UNCHANGED vars
    BY <2>8 DEF vars
  <2> QED
    BY <2>1, <2>2, <2>3, <2>4, <2>5, <2>6, <2>7, <2>8 DEF Next
<1> QED
  BY <1>1, <1>2, PTL DEF Spec

-----------------------------------------------------------------------------
(***************************************************************************)
(* IInv is inductive.                                                      *)
(***************************************************************************)
LEMMA IdsDiffer ==
  \A s, t \in Submitters :
    /\ Local(s) # Remote(t)
    /\ s # t => Local(s) # Local(t) /\ Remote(s) # Remote(t)
BY IdParts

(* A query under way has the id of a submission.                           *)
LEMMA QueryIds ==
  ASSUME TypeOK, NEW c \in Callers, query[c].pc # "idle"
  PROVE  query[c].id \in Ids /\ query[c].id[2] \in Submitters
BY QueryParts, IdParts DEF TypeOK

(* A submission's outcome is blank until its commit and its job's phase    *)
(* ends in done or failed, so a cause once there stays.                    *)
CausesStay ==
  \A s \in Submitters :
    /\ Produced(s) => Produced(s)'
    /\ HasFailureCause(s) => HasFailureCause(s)'

(* A commit takes no cause away: there was none before it.                 *)
LEMMA CommitsKeepCauses ==
  ASSUME TypeOK, BlankBeforeCommit, NEW s \in Submitters,
         CommitAccepted(s) \/ CommitRejected(s) \/ CommitLost(s)
  PROVE  CausesStay
<1>1. outcome[s] = "none" /\ job[s].phase = "none" /\ ~job[s].media
  BY DEF BlankBeforeCommit, CommitAccepted, CommitRejected, CommitLost
<1>2. ~Produced(s) /\ ~HasFailureCause(s)
  BY <1>1 DEF Produced, HasFailureCause
<1>3. ASSUME NEW t \in Submitters, t # s
      PROVE  job'[t] = job[t] /\ outcome'[t] = outcome[t]
  BY <1>3 DEF TypeOK, CommitAccepted, CommitRejected, CommitLost
<1> QED
  BY <1>2, <1>3 DEF CausesStay, Produced, HasFailureCause

(* Nor does the backend's job, which only goes on.                         *)
LEMMA JobMovesKeepsCauses ==
  ASSUME TypeOK, NEW s \in Submitters, JobMoves(s)
  PROVE  CausesStay
<1>1. job[s] \in Job /\ job[s].phase = "generating"
  BY DEF TypeOK, JobMoves
<1>2. /\ job'[s].media \in {job[s].media, TRUE}
      /\ UNCHANGED outcome
      /\ \A t \in Submitters \ {s} : job'[t] = job[t]
  BY <1>1 DEF TypeOK, JobMoves, Job
<1> QED
  BY <1>1, <1>2 DEF CausesStay, Produced, HasFailureCause, Job

(* Rows keep their causes when only causes change.                         *)
LEMMA CausesFrame ==
  ASSUME TypeOK, IInv, CausesStay, UNCHANGED <<table, query>>
  PROVE  NoFalseSuccess' /\ NoFalseFailure' /\ QueryFailureHasCause'
<1>1. NoFalseSuccess'
  BY IdParts, QueryIds DEF IInv, NoFalseSuccess, CausesStay, Rows
<1>2. NoFalseFailure'
  BY IdParts DEF IInv, NoFalseFailure, HasFailureCause, CausesStay, Rows
<1>3. QueryFailureHasCause'
  BY QueryIds DEF IInv, QueryFailureHasCause, CausesStay
<1> QED
  BY <1>1, <1>2, <1>3

(* Queried ids keep their rows when no row changes.                        *)
LEMMA RowsFrame ==
  ASSUME IInv, UNCHANGED <<table, query, answer>>
  PROVE  QueriedIdsKeepTheirRow'
BY DEF IInv, QueriedIdsKeepTheirRow, MovedToRemote

(* A submitter that is not in its poll loop changes its pc: the parts of   *)
(* IInv about the loop stay true.                                          *)
LEMMA PollFrame ==
  ASSUME TypeOK, IInv, NEW s \in Submitters, NEW l \in PCs, Goto(s, l),
         pc[s] \notin {"poll", "end", "killed"}, UNCHANGED submitVars
  PROVE  PollDiscipline' /\ PollGivesUpOnlyAtDeadline'
BY DEF TypeOK, IInv, PollDiscipline, PollGivesUpOnlyAtDeadline, Goto,
  submitVars

(* Commit, in each of its three outcomes.                                  *)
LEMMA CommitsKeepIInv ==
  ASSUME TypeOK, TypeOK', IInv, NEW s \in Submitters,
         CommitAccepted(s) \/ CommitRejected(s) \/ CommitLost(s)
  PROVE  IInv'
<1>1. pc[s] = "commit" /\ UNCHANGED <<table, cur, submitVars>>
  BY DEF CommitAccepted, CommitRejected, CommitLost
<1>2. PICK l \in {"rename", "update"} : Goto(s, l)
  BY DEF CommitAccepted, CommitRejected, CommitLost
<1>3. CausesStay
  BY CommitsKeepCauses DEF IInv
<1>4. NoFalseSuccess' /\ NoFalseFailure' /\ QueryFailureHasCause'
  BY <1>1, <1>3, CausesFrame DEF submitVars
<1>5. BlankBeforeCommit'
  <2>1. outcome'[s] # "none" /\ pc'[s] \in {"rename", "update"}
    BY <1>2 DEF TypeOK, CommitAccepted, CommitRejected, CommitLost, Goto
  <2>2. ASSUME NEW t \in Submitters, t # s
        PROVE  /\ job'[t] = job[t] /\ outcome'[t] = outcome[t]
               /\ pc'[t] = pc[t]
    BY <1>2, <2>2 DEF TypeOK, CommitAccepted, CommitRejected, CommitLost, Goto
  <2> QED
    BY <2>1, <2>2 DEF IInv, BlankBeforeCommit
<1>6. RowIsAtCur'
  BY <1>1, <1>2 DEF IInv, RowIsAtCur, TypeOK, Goto
<1>7. QueriedIdsKeepTheirRow'
  BY <1>1, RowsFrame DEF submitVars
<1>8. PollDiscipline' /\ PollGivesUpOnlyAtDeadline'
  BY <1>1, <1>2, PollFrame DEF PCs
<1> QED
  BY <1>4, <1>5, <1>6, <1>7, <1>8 DEF IInv

(* Steps that change neither outcome nor job leave every cause as it is.   *)
LEMMA SameCauses ==
  ASSUME UNCHANGED <<job, outcome>> PROVE CausesStay
BY DEF CausesStay, Produced, HasFailureCause

(* CreateTask puts a blank row at an id of its own.                        *)
LEMMA CreateKeepsIInv ==
  ASSUME TypeOK, TypeOK', IInv, NEW s \in Submitters, Create(s)
  PROVE  IInv'
<1>1. /\ pc[s] = "create" /\ cur[s] = Local(s)
      /\ table[Local(s)] = NoRow /\ table[Remote(s)] = NoRow
  BY DEF Create, IInv, RowIsAtCur
<1>2. /\ table'[Local(s)] = [status |-> "querying", media |-> FALSE]
      /\ \A i \in Ids : i # Local(s) => table'[i] = table[i]
  BY IdParts DEF Create, TypeOK
<1>3. table'[Local(s)] # NoRow
  <2>1. [status |-> "querying", media |-> FALSE] \in Row
    BY DEF Row, Statuses
  <2> QED
    BY <1>2, <2>1, NoRowAssumption
<1>4. NoFalseSuccess'
  BY <1>2, IdParts, QueryIds
  DEF IInv, NoFalseSuccess, Rows, Produced, Create, submitVars
<1>5. NoFalseFailure'
  BY <1>2 DEF IInv, NoFalseFailure, Rows, Create
<1>6. QueryFailureHasCause' /\ BlankBeforeCommit'
  BY DEF IInv, QueryFailureHasCause, BlankBeforeCommit, HasFailureCause,
    Create, Goto, submitVars, TypeOK
<1>7. RowIsAtCur'
  BY <1>1, <1>2, <1>3, IdParts, IdsDiffer
  DEF IInv, RowIsAtCur, Create, Goto, TypeOK
<1>8. QueriedIdsKeepTheirRow'
  <2>1. \A i \in Ids : table[i] # NoRow => table'[i] # NoRow
    BY <1>2, <1>3
  <2>2. \A c \in Callers : query[c].id # NoId => query[c].id \in Ids
    BY QueryParts DEF TypeOK
  <2> QED
    BY <2>1, <2>2, IdParts
    DEF IInv, QueriedIdsKeepTheirRow, MovedToRemote, Create, submitVars
<1>9. PollDiscipline' /\ PollGivesUpOnlyAtDeadline'
  BY <1>1, PollFrame DEF Create, PCs
<1> QED
  BY <1>4, <1>5, <1>6, <1>7, <1>8, <1>9 DEF IInv

(* The rename moves the row with its contents, and a query for the local   *)
(* submit_id can still find the task under the remote one.                 *)
LEMMA RenameKeepsIInv ==
  ASSUME TypeOK, TypeOK', IInv, NEW s \in Submitters, Rename(s)
  PROVE  IInv'
<1>1. /\ pc[s] = "rename" /\ cur[s] = Local(s)
      /\ table[Remote(s)] = NoRow /\ table[Local(s)] # NoRow
  BY DEF Rename, IInv, RowIsAtCur
<1>2. /\ table'[Remote(s)] = table[Local(s)] /\ table'[Local(s)] = NoRow
      /\ \A i \in Ids : i \notin {Local(s), Remote(s)} => table'[i] = table[i]
  BY IdParts DEF Rename, TypeOK
<1> DEFINE From(i) == IF i = Remote(s) THEN Local(s) ELSE i
<1>3. ASSUME NEW i \in Ids, table'[i] # NoRow
      PROVE  /\ From(i) \in Ids /\ From(i)[2] = i[2]
             /\ table'[i] = table[From(i)] /\ table[From(i)] # NoRow
  BY <1>1, <1>2, <1>3, IdParts
<1> HIDE DEF From
<1>4. NoFalseSuccess' /\ NoFalseFailure'
  <2>1. ASSUME NEW i \in Ids, table'[i] # NoRow,
               table'[i].status = "success" \/ table'[i].media
        PROVE  Produced(i[2])'
    BY <1>3, <2>1 DEF IInv, NoFalseSuccess, Rows, Produced, Rename
  <2>2. ASSUME NEW i \in Ids, table'[i] # NoRow, table'[i].status = "failed"
        PROVE  HasFailureCause(i[2])'
    BY <1>3, <2>2 DEF IInv, NoFalseFailure, HasFailureCause, Rows, Rename
  <2>3. NoFalseSuccess'
    BY <2>1 DEF IInv, NoFalseSuccess, Produced, Rows, Rename, submitVars
  <2>4. NoFalseFailure'
    BY <2>2 DEF NoFalseFailure, HasFailureCause, Rows
  <2> QED
    BY <2>3, <2>4
<1>5. QueryFailureHasCause'
  BY DEF IInv, QueryFailureHasCause, HasFailureCause, Rename, submitVars
<1>6. BlankBeforeCommit'
  <2>1. outcome[s] # "none"
    BY <1>1 DEF IInv, BlankBeforeCommit
  <2> QED
    BY <2>1 DEF IInv, BlankBeforeCommit, Rename, Goto, TypeOK
<1>7. RowIsAtCur'
  BY <1>1, <1>2, IdParts, IdsDiffer
  DEF IInv, RowIsAtCur, Rename, Goto, TypeOK
<1>8. QueriedIdsKeepTheirRow'
  <2>1. \A c \in Callers : query[c].id # NoId => query[c].id \in Ids
    BY QueryParts DEF TypeOK
  <2>2. \A t \in Submitters :
          table[Remote(t)] # NoRow => table'[Remote(t)] # NoRow
    BY <1>1, <1>2, IdParts, IdsDiffer
  <2>3. \A i \in Ids :
          table[i] # NoRow => table'[i] # NoRow \/ MovedToRemote(i)'
    BY <1>1, <1>2, IdParts DEF MovedToRemote
  <2> QED
    BY <2>1, <2>2, <2>3, IdParts
    DEF IInv, QueriedIdsKeepTheirRow, MovedToRemote, Rename, submitVars
<1>9. PollDiscipline' /\ PollGivesUpOnlyAtDeadline'
  BY <1>1, PollFrame DEF Rename, PCs
<1> QED
  BY <1>4, <1>5, <1>6, <1>7, <1>8, <1>9 DEF IInv

(* UpdateTask writes what Commit came to into the submission's own row.    *)
LEMMA UpdateKeepsIInv ==
  ASSUME TypeOK, TypeOK', IInv, NEW s \in Submitters, Update(s)
  PROVE  IInv'
<1>1. /\ pc[s] = "update" /\ outcome[s] # "none"
      /\ cur[s] \in Ids /\ cur[s][2] = s /\ table[cur[s]] # NoRow
  BY IdParts DEF Update, IInv, RowIsAtCur, BlankBeforeCommit
<1>2. /\ table'[cur[s]] = SubmittedRow(s)
      /\ \A i \in Ids : i # cur[s] => table'[i] = table[i]
  BY <1>1 DEF Update, TypeOK
<1>3. table[cur[s]] \in Row
  BY <1>1 DEF TypeOK
<1>4. /\ SubmittedRow(s) \in Row
      /\ SubmittedRow(s).status # "success"
      /\ SubmittedRow(s).media => table[cur[s]].media
      /\ SubmittedRow(s).status = "failed" => outcome[s] \in {"rejected", "lost"}
  BY <1>1, <1>3 DEF SubmittedRow, Row, Statuses, TypeOK, Outcomes
<1>5. NoFalseSuccess'
  BY <1>1, <1>2, <1>4, QueryIds
  DEF IInv, NoFalseSuccess, Rows, Produced, Update, submitVars
<1>6. NoFalseFailure'
  BY <1>1, <1>2, <1>4 DEF IInv, NoFalseFailure, Rows, Update
<1>7. QueryFailureHasCause' /\ BlankBeforeCommit'
  BY <1>1 DEF IInv, QueryFailureHasCause, BlankBeforeCommit, HasFailureCause,
    Update, Goto, submitVars, TypeOK
<1>8. \A i \in Ids : table'[i] # NoRow <=> table[i] # NoRow
  BY <1>1, <1>2, <1>4, NoRowAssumption
<1>9. RowIsAtCur'
  BY <1>1, <1>8, IdParts DEF IInv, RowIsAtCur, Update, Goto, TypeOK
<1>10. QueriedIdsKeepTheirRow'
  <2>1. \A c \in Callers : query[c].id # NoId => query[c].id \in Ids
    BY QueryParts DEF TypeOK
  <2> QED
    BY <1>8, <2>1, IdParts
    DEF IInv, QueriedIdsKeepTheirRow, MovedToRemote, Update, submitVars
<1>11. PollDiscipline' /\ PollGivesUpOnlyAtDeadline'
  BY <1>1, PollFrame DEF Update, PCs
<1> QED
  BY <1>5, <1>6, <1>7, <1>9, <1>10, <1>11 DEF IInv

(* GetTask, or an error: the command goes on or is done.                   *)
LEMMA GetKeepsIInv ==
  ASSUME TypeOK, TypeOK', IInv, NEW s \in Submitters, Get(s) \/ SubmitFails(s)
  PROVE  IInv'
<1>1. /\ pc[s] \in {"create", "rename", "update", "get"}
      /\ UNCHANGED <<table, job, cur, outcome, submitVars>>
  BY DEF Get, SubmitFails
<1>2. PICK l \in {"end", "poll", "killed"} :
        Goto(s, l) /\ (l # "killed" => pc[s] = "get" /\ table[cur[s]] # NoRow)
  BY DEF Get, SubmitFails
<1>3. NoFalseSuccess' /\ NoFalseFailure' /\ QueryFailureHasCause'
  BY <1>1, SameCauses, CausesFrame DEF submitVars
<1>4. BlankBeforeCommit' /\ RowIsAtCur'
  BY <1>1, <1>2 DEF IInv, BlankBeforeCommit, RowIsAtCur, Goto, TypeOK
<1>5. QueriedIdsKeepTheirRow'
  BY <1>1, RowsFrame DEF submitVars
<1>6. PollDiscipline' /\ PollGivesUpOnlyAtDeadline'
  BY <1>1, <1>2, PollFrame DEF PCs
<1> QED
  BY <1>3, <1>4, <1>5, <1>6 DEF IInv

(* The backend's job moves; no row does.                                   *)
LEMMA JobMovesKeepsIInv ==
  ASSUME TypeOK, TypeOK', IInv, NEW s \in Submitters, JobMoves(s)
  PROVE  IInv'
<1>1. job[s].phase = "generating" /\ CausesStay
      /\ UNCHANGED <<table, pc, cur, outcome, timer, last, query, answer>>
  BY JobMovesKeepsCauses DEF JobMoves
<1>2. NoFalseSuccess' /\ NoFalseFailure' /\ QueryFailureHasCause'
  BY <1>1, CausesFrame
<1>3. BlankBeforeCommit'
  <2>1. \A t \in Submitters \ {s} : job'[t] = job[t]
    BY DEF JobMoves, TypeOK
  <2> QED
    BY <1>1, <2>1 DEF IInv, BlankBeforeCommit
<1>4. RowIsAtCur' /\ QueriedIdsKeepTheirRow'
  BY <1>1, RowsFrame DEF IInv, RowIsAtCur
<1>5. PollDiscipline' /\ PollGivesUpOnlyAtDeadline'
  BY <1>1 DEF IInv, PollDiscipline, PollGivesUpOnlyAtDeadline
<1> QED
  BY <1>2, <1>3, <1>4, <1>5 DEF IInv

(* The timer of the loop, and the return from it.                          *)
LEMMA TimerKeepsIInv ==
  ASSUME TypeOK, TypeOK', IInv, NEW s \in Submitters,
         TimerFires(s) \/ PollReturns(s)
  PROVE  IInv'
<1>1. /\ pc[s] = "poll"
      /\ UNCHANGED <<table, job, cur, outcome, last, query, answer>>
  BY DEF TimerFires, PollReturns
<1>2. NoFalseSuccess' /\ NoFalseFailure' /\ QueryFailureHasCause'
  BY <1>1, SameCauses, CausesFrame
<1>3. BlankBeforeCommit' /\ RowIsAtCur'
  BY <1>1 DEF IInv, BlankBeforeCommit, RowIsAtCur, TimerFires, PollReturns,
    Goto, TypeOK
<1>4. QueriedIdsKeepTheirRow'
  BY <1>1, RowsFrame
<1>5. CASE TimerFires(s)
  BY <1>5, <1>2, <1>3, <1>4
  DEF IInv, TypeOK, TimerFires, PollDiscipline, PollGivesUpOnlyAtDeadline
<1>6. CASE PollReturns(s)
  BY <1>6, <1>2, <1>3, <1>4
  DEF IInv, TypeOK, PollReturns, Goto, PollDiscipline,
    PollGivesUpOnlyAtDeadline
<1> QED
  BY <1>5, <1>6

(***************************************************************************)
(* One caller's query goes on and the rows stay as they are: what is left  *)
(* to show of a step is what the query now carries.                        *)
(***************************************************************************)
LEMMA QueryFrame ==
  ASSUME TypeOK, IInv, UNCHANGED <<table, job, outcome>>,
         NEW c \in Callers, NEW l \in QueryPCs, NEW id \in Ids \cup {NoId},
         NEW status \in Statuses, NEW media \in BOOLEAN,
         GoOn(c, l, id, status, media),
         l \in {"lookup", "update"} =>
           /\ status = "success" \/ media => Produced(id[2])
           /\ status = "failed" => HasFailureCause(id[2]),
         NEW a \in Answers, answer' = [answer EXCEPT ![c] = a],
         id # NoId => table[id] # NoRow \/ MovedToRemote(id),
         l = "fallback" \/ a = "not_found" => id # NoId /\ MovedToRemote(id)
  PROVE  /\ NoFalseSuccess' /\ NoFalseFailure' /\ QueryFailureHasCause'
         /\ QueriedIdsKeepTheirRow'
<1>1. /\ query'[c].pc = l /\ query'[c].id = id /\ query'[c].status = status
      /\ query'[c].media = media /\ answer'[c] = a
      /\ \A d \in Callers \ {c} : query'[d] = query[d] /\ answer'[d] = answer[d]
  BY DEF GoOn, TypeOK
<1>2. NoFalseSuccess'
  BY <1>1 DEF IInv, NoFalseSuccess, Rows, Produced
<1>3. NoFalseFailure'
  BY DEF IInv, NoFalseFailure, Rows
<1>4. QueryFailureHasCause'
  BY <1>1 DEF IInv, QueryFailureHasCause, HasFailureCause
<1>5. QueriedIdsKeepTheirRow'
  BY <1>1 DEF IInv, QueriedIdsKeepTheirRow, MovedToRemote
<1> QED
  BY <1>2, <1>3, <1>4, <1>5

(* What the rows and the submitters do not notice.                         *)
LEMMA SubmittersFrame ==
  ASSUME IInv, UNCHANGED <<table, job, pc, cur, outcome>>
  PROVE  BlankBeforeCommit' /\ RowIsAtCur'
BY DEF IInv, BlankBeforeCommit, RowIsAtCur

(* A query begins: it has read nothing yet.                                *)
LEMMA StartKeepsIInv ==
  ASSUME TypeOK, TypeOK', IInv,
         \/ \E s \in Submitters : PollTick(s) \/ PollDeadline(s)
         \/ \E q \in Queriers : QueryCommand(q)
  PROVE  IInv'
<1>1. UNCHANGED <<table, job, pc, cur, outcome, timer>>
  BY DEF PollTick, PollDeadline, QueryCommand, queryVars
<1>2. ASSUME NEW c \in Callers, NEW id \in Ids, table[id] # NoRow,
             StartQuery(c, id)
      PROVE  /\ NoFalseSuccess' /\ NoFalseFailure' /\ QueryFailureHasCause'
             /\ QueriedIdsKeepTheirRow'
  <2>1. "get" \in QueryPCs /\ "querying" \in Statuses /\ "none" \in Answers
    BY DEF QueryPCs, Statuses, Answers
  <2> QED
    BY <1>1, <1>2, <2>1, QueryFrame DEF StartQuery
<1>3. BlankBeforeCommit' /\ RowIsAtCur'
  BY <1>1, SubmittersFrame
<1>4. ASSUME NEW s \in Submitters, PollTick(s) \/ PollDeadline(s)
      PROVE  IInv'
  <2>1. /\ pc[s] = "poll" /\ table[cur[s]] # NoRow /\ cur[s] \in Ids
        /\ StartQuery(s, cur[s])
        /\ \A t \in Submitters : last'[t] => last[t] \/ (t = s /\ timer[s])
        /\ \A t \in Submitters : last[t] => last'[t]
    BY <1>4 DEF PollTick, PollDeadline, PollWaits, queryVars, TypeOK, IInv,
      RowIsAtCur
  <2>2. PollDiscipline' /\ PollGivesUpOnlyAtDeadline'
    <3>1. \A t \in Submitters \ {s} :
            query'[t] = query[t] /\ answer'[t] = answer[t]
      BY <2>1 DEF StartQuery, GoOn, TypeOK, Callers
    <3> QED
      BY <1>1, <2>1, <3>1 DEF IInv, PollDiscipline, PollGivesUpOnlyAtDeadline
  <2> QED
    BY <1>2, <1>3, <2>1, <2>2 DEF IInv, Callers
<1>5. ASSUME NEW q \in Queriers, QueryCommand(q)
      PROVE  IInv'
  <2>1. PICK id \in Ids : table[id] # NoRow /\ StartQuery(q, id)
    BY <1>5 DEF QueryCommand
  <2>2. PollDiscipline' /\ PollGivesUpOnlyAtDeadline'
    BY <1>5, <2>1, ProcessAssumption
    DEF IInv, PollDiscipline, PollGivesUpOnlyAtDeadline, QueryCommand,
      queryVars, StartQuery, GoOn, TypeOK, Callers
  <2> QED
    BY <1>2, <1>3, <2>1, <2>2 DEF IInv, Callers
<1> QED
  BY <1>4, <1>5

(* What a running query of c already has, for QueryFrame.                  *)
LEMMA RunningQuery ==
  ASSUME TypeOK, IInv, NEW c \in Callers
  PROVE  /\ query[c].id \in Ids \cup {NoId} /\ query[c].status \in Statuses
         /\ query[c].media \in BOOLEAN /\ answer[c] \in Answers
         /\ query[c].pc # "idle" =>
              query[c].id \in Ids /\ query[c].id # NoId
         /\ query[c].id # NoId =>
              table[query[c].id] # NoRow \/ MovedToRemote(query[c].id)
         /\ query[c].pc = "fallback" \/ answer[c] = "not_found" =>
              query[c].id # NoId /\ MovedToRemote(query[c].id)
         /\ query[c].pc \in {"lookup", "update"} =>
              /\ query[c].status = "success" \/ query[c].media =>
                   Produced(query[c].id[2])
              /\ query[c].status = "failed" =>
                   HasFailureCause(query[c].id[2])
<1>1. query[c] \in Query
  BY DEF TypeOK
<1>2. query[c].pc # "idle" => query[c].id \in Ids /\ query[c].id # NoId
  BY <1>1, QueryParts, NoIdAssumption
<1> QED
  BY <1>1, <1>2, QueryParts
  DEF TypeOK, IInv, NoFalseSuccess, QueryFailureHasCause,
    QueriedIdsKeepTheirRow

(* A query ends and writes nothing.                                        *)
LEMMA OverKeepsCauses ==
  ASSUME TypeOK, IInv, NEW c \in Callers, Over(c),
         UNCHANGED <<table, job, outcome, answer>>
  PROVE  /\ NoFalseSuccess' /\ NoFalseFailure' /\ QueryFailureHasCause'
         /\ QueriedIdsKeepTheirRow'
<1>1. /\ query'[c].pc = "idle" /\ query'[c].id = query[c].id
      /\ \A d \in Callers \ {c} : query'[d] = query[d]
  BY DEF Over, GoOn, TypeOK
<1>2. NoFalseSuccess'
  BY <1>1 DEF IInv, NoFalseSuccess, Rows, Produced
<1>3. NoFalseFailure'
  BY DEF IInv, NoFalseFailure, Rows
<1>4. QueryFailureHasCause'
  BY <1>1 DEF IInv, QueryFailureHasCause, HasFailureCause
<1>5. QueriedIdsKeepTheirRow'
  BY <1>1 DEF IInv, QueriedIdsKeepTheirRow, MovedToRemote
<1> QED
  BY <1>2, <1>3, <1>4, <1>5

(* A kill leaves the rows as they are.                                     *)
LEMMA KillsKeepIInv ==
  ASSUME TypeOK, TypeOK', IInv,
         \/ \E s \in Submitters : KillSubmitter(s)
         \/ \E q \in Queriers : KillQuerier(q)
  PROVE  IInv'
<1>1. UNCHANGED <<table, job, cur, outcome, timer, last, answer>>
  BY DEF KillSubmitter, KillQuerier, queryVars
<1>2. ASSUME NEW s \in Submitters, KillSubmitter(s) PROVE IInv'
  <2>1. /\ NoFalseSuccess' /\ NoFalseFailure' /\ QueryFailureHasCause'
        /\ QueriedIdsKeepTheirRow'
    BY <1>1, <1>2, OverKeepsCauses DEF KillSubmitter, Callers
  <2>2. pc'[s] = "killed" /\ \A t \in Submitters \ {s} : pc'[t] = pc[t]
    BY <1>2 DEF KillSubmitter, Goto, TypeOK
  <2>3. BlankBeforeCommit' /\ RowIsAtCur'
    BY <1>1, <2>2 DEF IInv, BlankBeforeCommit, RowIsAtCur
  <2>4. /\ query'[s].pc = "idle"
        /\ \A t \in Submitters \ {s} : query'[t] = query[t]
    BY <1>2 DEF KillSubmitter, Over, GoOn, TypeOK, Callers
  <2>5. PollDiscipline' /\ PollGivesUpOnlyAtDeadline'
    BY <1>1, <2>2, <2>4
    DEF IInv, PollDiscipline, PollGivesUpOnlyAtDeadline
  <2> QED
    BY <2>1, <2>3, <2>5 DEF IInv
<1>3. ASSUME NEW q \in Queriers, KillQuerier(q) PROVE IInv'
  <2>1. /\ NoFalseSuccess' /\ NoFalseFailure' /\ QueryFailureHasCause'
        /\ QueriedIdsKeepTheirRow'
    BY <1>1, <1>3, OverKeepsCauses DEF KillQuerier, Callers
  <2>2. UNCHANGED pc /\ \A t \in Submitters : query'[t] = query[t]
    BY <1>3, ProcessAssumption
    DEF KillQuerier, queryVars, Over, GoOn, TypeOK, Callers
  <2>3. BlankBeforeCommit' /\ RowIsAtCur'
    BY <1>1, <2>2, SubmittersFrame
  <2>4. PollDiscipline' /\ PollGivesUpOnlyAtDeadline'
    BY <1>1, <2>2 DEF IInv, PollDiscipline, PollGivesUpOnlyAtDeadline
  <2> QED
    BY <2>1, <2>3, <2>4 DEF IInv
<1> QED
  BY <1>2, <1>3

(* The steps of a query, except for UpdateTask, leave the rows alone.      *)
LEMMA QueryReadsKeepIInv ==
  ASSUME TypeOK, IInv, NEW c \in Callers,
         \/ QueryGet(c) \/ QueryFallback(c) \/ QueryLookup(c)
         \/ QueryReget(c) \/ QueryFails(c)
         \/ QueryUpdate(c) /\ table[query[c].id] = NoRow
  PROVE  /\ NoFalseSuccess' /\ NoFalseFailure' /\ QueryFailureHasCause'
         /\ QueriedIdsKeepTheirRow'
<1> DEFINE Kept == /\ NoFalseSuccess' /\ NoFalseFailure'
                   /\ QueryFailureHasCause' /\ QueriedIdsKeepTheirRow'
           id == query[c].id
<1>1. UNCHANGED <<table, job, outcome>> /\ query[c].pc # "idle"
  BY DEF QueryGet, QueryFallback, QueryLookup, QueryReget, QueryFails,
    QueryUpdate, queryVars
<1>2. id \in Ids /\ id # NoId /\ id[2] \in Submitters
  BY <1>1, RunningQuery, IdParts
<1>3. {"idle", "get", "fallback", "lookup", "update", "reget"} \subseteq QueryPCs
      /\ "querying" \in Statuses /\ {"not_found", "error"} \subseteq Answers
      /\ Statuses \subseteq Answers
  BY DEF QueryPCs, Statuses, Answers
<1>4. answer = [answer EXCEPT ![c] = answer[c]]
  BY DEF TypeOK
<1>5. ASSUME NEW a \in Answers, Answered(c, a),
             a = "not_found" => MovedToRemote(id)
      PROVE  Kept
  <2>1. table[id] # NoRow \/ MovedToRemote(id)
    BY <1>2, RunningQuery
  <2>2. GoOn(c, "idle", id, "querying", FALSE)
        /\ answer' = [answer EXCEPT ![c] = a]
    BY <1>5 DEF Answered, Over
  <2> QED
    BY <1>1, <1>2, <1>3, <1>5, <2>1, <2>2, QueryFrame
<1>6. table[id] = NoRow => MovedToRemote(id)
  BY <1>2, RunningQuery
<1>7. ASSUME table[id] # NoRow, NEW missing, ReadRow(c, missing)
      PROVE  Kept
  <2>1. table[id] \in Row
    BY <1>2, <1>7 DEF TypeOK
  <2>2. table[id].status \in Statuses /\ table[id].media \in BOOLEAN
    BY <2>1 DEF Row
  <2>3. /\ table[id].status = "success" \/ table[id].media => Produced(id[2])
        /\ table[id].status = "failed" => HasFailureCause(id[2])
    BY <1>2, <1>7
    DEF IInv, NoFalseSuccess, NoFalseFailure, HasFailureCause, Rows
  <2>4. GoOn(c, "lookup", id, table[id].status, table[id].media)
        /\ UNCHANGED answer
    BY <1>7 DEF ReadRow
  <2> QED
    BY <1>1, <1>2, <1>3, <1>4, <2>2, <2>3, <2>4, QueryFrame, RunningQuery
<1>8. CASE QueryGet(c)
  <2>1. CASE table[id] = NoRow
    <3>1. GoOn(c, "fallback", id, query[c].status, query[c].media)
          /\ UNCHANGED answer
      BY <1>8, <2>1 DEF QueryGet, ReadRow, Step
    <3> QED
      BY <1>1, <1>2, <1>3, <1>4, <1>6, <2>1, <3>1, QueryFrame, RunningQuery
  <2>2. CASE table[id] # NoRow
    BY <1>7, <1>8, <2>2 DEF QueryGet
  <2> QED
    BY <2>1, <2>2
<1>9. CASE QueryFallback(c)
  <2>1. MovedToRemote(id)
    BY <1>9, RunningQuery DEF QueryFallback
  <2>2. \/ Answered(c, "not_found")
        \/ table[id] # NoRow /\ ReadRow(c, Answered(c, "not_found"))
    BY <1>9 DEF QueryFallback, ReadRow
  <2> QED
    BY <1>3, <1>5, <1>7, <2>1, <2>2
<1>10. CASE QueryLookup(c)
  <2>1. PICK view \in CanShow(id), m \in CanBringMedia(id) :
          GoOn(c, "update", id, Verdict(query[c].status, query[c].media, view),
               query[c].media \/ m)
    BY <1>10 DEF QueryLookup
  <2>2. view \in Views /\ m \in BOOLEAN
    BY <1>2, <2>1, ViewsType
  <2>3. Verdict(query[c].status, query[c].media, view) \in Statuses
    BY <2>2, VerdictType, RunningQuery
  <2>4. /\ view = "success" \/ m => Produced(id[2])
        /\ view = "failed" => HasFailureCause(id[2])
    BY <1>2, <2>1 DEF CanShow, CanBringMedia, Produced, HasFailureCause
  <2>5. /\ query[c].status = "success" \/ query[c].media => Produced(id[2])
        /\ query[c].status = "failed" => HasFailureCause(id[2])
    BY <1>10, RunningQuery DEF QueryLookup
  <2> DEFINE status == Verdict(query[c].status, query[c].media, view)
             media == query[c].media \/ m
  <2>11. ASSUME NEW t \in Statuses, NEW b \in BOOLEAN,
                GoOn(c, "update", id, t, b),
                t = "success" \/ b => Produced(id[2]),
                t = "failed" => HasFailureCause(id[2])
         PROVE  Kept
    <3>1. /\ table[id] # NoRow \/ MovedToRemote(id)
          /\ answer[c] \in Answers
          /\ answer[c] = "not_found" => MovedToRemote(id)
      BY <1>2, RunningQuery
    <3>2. UNCHANGED answer
      BY <1>10 DEF QueryLookup
    <3> QED
      BY <1>1, <1>2, <1>3, <1>4, <2>11, <3>1, <3>2, QueryFrame
  <2>6. status = "success" => Produced(id[2])
    BY <2>4, <2>5 DEF Verdict, Statuses
  <2>7. status = "failed" => HasFailureCause(id[2])
    BY <2>4, <2>5 DEF Verdict, Statuses
  <2>8. media \in BOOLEAN /\ (media => Produced(id[2]))
    BY <2>2, <2>4, <2>5, RunningQuery
  <2>9. GoOn(c, "update", id, status, media) /\ status \in Statuses
    BY <2>1, <2>3
  <2> HIDE DEF status, media
  <2> QED
    BY <2>11, <2>6, <2>7, <2>8, <2>9
<1>11. CASE QueryReget(c)
  <2>1. table[id] = NoRow \/ table[id] \in Row
    BY <1>2 DEF TypeOK
  <2>2. PICK a \in Answers :
          Answered(c, a) /\ (a = "not_found" => table[id] = NoRow)
    BY <1>3, <1>11, <2>1 DEF QueryReget, Row, Statuses
  <2> QED
    BY <1>5, <1>6, <2>2
<1>12. CASE QueryFails(c)
  BY <1>3, <1>5, <1>12 DEF QueryFails
<1>13. CASE QueryUpdate(c) /\ table[id] = NoRow
  BY <1>3, <1>5, <1>6, <1>13 DEF QueryUpdate
<1> QED
  BY <1>8, <1>9, <1>10, <1>11, <1>12, <1>13

(* UpdateTask writes what the query carries, which still has its cause.    *)
LEMMA QueryWriteKeepsIInv ==
  ASSUME TypeOK, IInv, NEW c \in Callers, QueryUpdate(c),
         table[query[c].id] # NoRow
  PROVE  /\ NoFalseSuccess' /\ NoFalseFailure' /\ QueryFailureHasCause'
         /\ QueriedIdsKeepTheirRow' /\ RowIsAtCur'
<1> DEFINE id == query[c].id
           new == [status |-> query[c].status, media |-> query[c].media]
<1>1. /\ query[c].pc = "update" /\ id \in Ids
      /\ query[c].status \in Statuses /\ query[c].media \in BOOLEAN
  BY RunningQuery DEF QueryUpdate
<1>2. new \in Row /\ new # NoRow
  BY <1>1, NoRowAssumption DEF Row
<1>3. /\ table'[id] = new
      /\ \A i \in Ids : i # id => table'[i] = table[i]
      /\ UNCHANGED <<job, pc, cur, outcome, answer>>
  BY <1>1 DEF QueryUpdate, TypeOK, queryVars
<1>4. \A i \in Ids : table'[i] # NoRow <=> table[i] # NoRow
  BY <1>2, <1>3
<1>5. /\ query'[c].pc = "reget" /\ query'[c].id = id
      /\ \A d \in Callers \ {c} : query'[d] = query[d]
  BY DEF QueryUpdate, Step, GoOn, TypeOK
<1>6. /\ query[c].status = "success" \/ query[c].media => Produced(id[2])
      /\ query[c].status = "failed" => HasFailureCause(id[2])
  BY <1>1, RunningQuery
<1>7. /\ new.status = "success" \/ new.media => Produced(id[2])
      /\ new.status = "failed" => HasFailureCause(id[2])
  BY <1>6
<1> HIDE DEF id, new
<1>8. NoFalseSuccess'
  BY <1>3, <1>4, <1>5, <1>7 DEF IInv, NoFalseSuccess, Rows, Produced
<1>9. NoFalseFailure'
  BY <1>3, <1>4, <1>7 DEF IInv, NoFalseFailure, HasFailureCause, Rows
<1>10. QueryFailureHasCause'
  BY <1>3, <1>5 DEF IInv, QueryFailureHasCause, HasFailureCause
<1>11. QueriedIdsKeepTheirRow'
  <2>1. \A d \in Callers : query[d].id # NoId => query[d].id \in Ids
    BY QueryParts DEF TypeOK
  <2>2. \A d \in Callers : /\ query'[d].id = query[d].id
                           /\ query'[d].pc = "fallback" => query[d].pc = "fallback"
    BY <1>5 DEF id
  <2>3. \A i \in Ids : MovedToRemote(i) => MovedToRemote(i)'
    BY <1>4, IdParts DEF MovedToRemote
  <2> QED
    BY <1>3, <1>4, <2>1, <2>2, <2>3 DEF IInv, QueriedIdsKeepTheirRow
<1>12. RowIsAtCur'
  BY <1>3, <1>4, IdParts DEF IInv, RowIsAtCur, TypeOK
<1> QED
  BY <1>8, <1>9, <1>10, <1>11, <1>12

(* Any step of a query, the one that writes the row among them.            *)
LEMMA QueriesKeepIInv ==
  ASSUME TypeOK, IInv, NEW c \in Callers, QueryStep(c) \/ QueryFails(c)
  PROVE  IInv'
<1>1. /\ query[c].pc # "idle" /\ UNCHANGED queryVars
      /\ \A d \in Callers \ {c} : query'[d] = query[d] /\ answer'[d] = answer[d]
  <2>1. query[c].pc # "idle" /\ UNCHANGED queryVars
    BY DEF QueryStep, QueryGet, QueryFallback, QueryLookup, QueryUpdate,
      QueryReget, QueryFails
  <2>2. /\ \E l, id, status, media : GoOn(c, l, id, status, media)
        /\ UNCHANGED answer \/ \E a : answer' = [answer EXCEPT ![c] = a]
    BY DEF QueryStep, QueryGet, QueryFallback, QueryLookup, QueryUpdate,
      QueryReget, QueryFails, ReadRow, Answered, Over, Step
  <2> QED
    BY <2>1, <2>2 DEF GoOn, TypeOK
<1>2. BlankBeforeCommit'
  BY <1>1 DEF IInv, BlankBeforeCommit, queryVars
<1>3. PollDiscipline' /\ PollGivesUpOnlyAtDeadline'
  BY <1>1 DEF IInv, PollDiscipline, PollGivesUpOnlyAtDeadline, queryVars,
    Callers
<1>4. CASE QueryUpdate(c) /\ table[query[c].id] # NoRow
  BY <1>2, <1>3, <1>4, QueryWriteKeepsIInv DEF IInv
<1>5. CASE ~ (QueryUpdate(c) /\ table[query[c].id] # NoRow)
  <2>1. UNCHANGED table
    BY <1>5 DEF QueryStep, QueryGet, QueryFallback, QueryLookup, QueryUpdate,
      QueryReget, QueryFails
  <2>2. RowIsAtCur'
    BY <1>1, <2>1, SubmittersFrame DEF queryVars
  <2> QED
    BY <1>2, <1>3, <1>5, <2>2, QueryReadsKeepIInv DEF IInv, QueryStep
<1> QED
  BY <1>4, <1>5

-----------------------------------------------------------------------------
(* IInv holds in every reachable state.                                    *)
THEOREM Inductive == Spec => []IInv
<1>1. Init => IInv
  BY IdParts DEF Init, NoQuery, Callers, IInv, NoFalseSuccess, NoFalseFailure,
    BlankBeforeCommit, QueryFailureHasCause, RowIsAtCur,
    QueriedIdsKeepTheirRow, PollDiscipline, PollGivesUpOnlyAtDeadline, Rows
<1>2. TypeOK /\ TypeOK' /\ IInv /\ [Next]_vars => IInv'
  <2> SUFFICES ASSUME TypeOK, TypeOK', IInv, [Next]_vars PROVE IInv'
    OBVIOUS
  <2>1. ASSUME NEW s \in Submitters, SubmitStep(s) PROVE IInv'
    BY <2>1, CreateKeepsIInv, CommitsKeepIInv, RenameKeepsIInv,
      UpdateKeepsIInv, GetKeepsIInv DEF SubmitStep
  <2>2. ASSUME NEW s \in Submitters, PollStep(s) \/ TimerFires(s) PROVE IInv'
    BY <2>2, StartKeepsIInv, TimerKeepsIInv DEF PollStep
  <2>3. ASSUME NEW s \in Submitters, JobMoves(s) \/ KillSubmitter(s) PROVE IInv'
    BY <2>3, JobMovesKeepsIInv, KillsKeepIInv
  <2>4. ASSUME NEW q \in Queriers, QueryCommand(q) \/ KillQuerier(q) PROVE IInv'
    BY <2>4, StartKeepsIInv, KillsKeepIInv
  <2>5. ASSUME NEW c \in Callers, QueryStep(c) \/ QueryFails(c) PROVE IInv'
    BY <2>5, QueriesKeepIInv
  <2>6. CASE UNCHANGED vars
    BY <2>6 DEF vars, IInv, NoFalseSuccess, NoFalseFailure, BlankBeforeCommit,
      QueryFailureHasCause, HasFailureCause, RowIsAtCur,
      QueriedIdsKeepTheirRow, MovedToRemote, PollDiscipline,
      PollGivesUpOnlyAtDeadline, Rows, Produced
  <2> QED
    BY <2>1, <2>2, <2>3, <2>4, <2>5, <2>6 DEF Next
<1> QED
  BY <1>1, <1>2, TypeCorrect, PTL DEF Spec

(* No row, and no update a query is about to write, claims a success or    *)
(* media that the backend's job of that very submission has not produced.  *)
THEOREM NoFalseSuccessHolds == Spec => []NoFalseSuccess
<1>1. IInv => NoFalseSuccess
  BY DEF IInv
<1> QED
  BY <1>1, Inductive, PTL

(* A row says failed only for a submission that was rejected or got no     *)
(* answer, or whose job failed.                                            *)
THEOREM NoFalseFailureHolds == Spec => []NoFalseFailure
<1>1. IInv => NoFalseFailure
  BY DEF IInv
<1> QED
  BY <1>1, Inductive, PTL

(* A submission has one row, from CreateTask on, across the rename.        *)
THEOREM OneRow == Spec => []OneRowPerSubmission
<1>1. TypeOK /\ IInv => OneRowPerSubmission
  BY IdParts DEF TypeOK, IInv, RowIsAtCur, OneRowPerSubmission, Rows
<1> QED
  BY <1>1, TypeCorrect, Inductive, PTL

(* After the rename the row is under the backend's submit_id.              *)
THEOREM Reachable == Spec => []RenamedIsReachable
<1>1. IInv => RenamedIsReachable
  BY IdParts DEF IInv, RowIsAtCur, RenamedIsReachable, Rows
<1> QED
  BY <1>1, Inductive, PTL

(* "Not found" for a listed submit_id means that the task was renamed.     *)
THEOREM NotFoundIsExplained == Spec => []NotFoundMeansRenamed
<1>1. TypeOK /\ IInv => NotFoundMeansRenamed
  <2> SUFFICES ASSUME TypeOK, IInv, NEW c \in Callers, answer[c] = "not_found"
               PROVE  /\ query[c].id[1] = "local"
                      /\ Remote(query[c].id[2]) \in Rows
    BY DEF NotFoundMeansRenamed
  <2>1. query[c].id \in Ids /\ MovedToRemote(query[c].id)
    BY RunningQuery
  <2> QED
    BY <2>1, IdParts DEF MovedToRemote, Rows
<1> QED
  BY <1>1, TypeCorrect, Inductive, PTL

(* The poll loop leaves a querying task only after its timer fired.        *)
THEOREM PollIsPatient == Spec => []PollGivesUpOnlyAtDeadline
<1>1. IInv => PollGivesUpOnlyAtDeadline
  BY DEF IInv
<1> QED
  BY <1>1, Inductive, PTL
=============================================================================
