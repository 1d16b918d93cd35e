--------------------------- MODULE TaskLifecycle ---------------------------
(***************************************************************************)
(* Generation tasks from submission to result: Service.SubmitTask, the     *)
(* --poll loop of pollSubmittedTask and Service.QueryResult, run by        *)
(* processes that share one tasks.db and talk to one backend.              *)
(*                                                                         *)
(* Each store call is one atomic step that takes effect or fails, which is *)
(* what TaskStore shows of it.  Between the steps anything may happen: the *)
(* backend works on the jobs, other processes query and rewrite the same   *)
(* rows, the backend's answers are lost, and any process may be killed.    *)
(***************************************************************************)
EXTENDS QueryVerdict

CONSTANTS
  Submitters,   \* processes that run a generator command, one task each
  Queriers,     \* processes that run query_result
  NoRow,        \* "no row has this submit_id"
  NoId          \* "no query yet"

ASSUME ProcessAssumption == Submitters \cap Queriers = {}

Callers == Submitters \cup Queriers

(* A task has the submit_id newSubmitID made up and the one the backend    *)
(* answered with.                                                          *)
Ids == {"local", "remote"} \X Submitters
Local(s) == <<"local", s>>
Remote(s) == <<"remote", s>>

Row == [status : Statuses, media : BOOLEAN]
ASSUME NoRowAssumption == NoRow \notin Row
ASSUME NoIdAssumption == NoId \notin Ids

VARIABLES
  table,    \* tasks.db: submit_id -> row or NoRow
  job,      \* the backend's job of each submission
  pc,       \* where each submitter is
  cur,      \* the submit_id each submitter goes on with
  outcome,  \* what the submitter's Commit came to
  timer,    \* the --poll timer has fired
  last,     \* the poll loop is in its last query
  query,    \* the QueryResult each caller is in
  answer    \* what the caller's last QueryResult returned

vars == <<table, job, pc, cur, outcome, timer, last, query, answer>>

Phases == {"none", "generating", "done", "failed"}
Job == [phase : Phases, media : BOOLEAN]
PCs == {"create", "commit", "rename", "update", "get", "poll", "end",
        "killed"}
Outcomes == {"none", "accepted", "rejected", "lost"}
QueryPCs == {"idle", "get", "fallback", "lookup", "update", "reget"}
Query ==
  {q \in [pc : QueryPCs, id : Ids \cup {NoId}, status : Statuses,
          media : BOOLEAN] : q.pc # "idle" => q.id # NoId}
Answers == Statuses \cup {"none", "not_found", "error"}

TypeOK ==
  /\ table \in [Ids -> Row \cup {NoRow}]
  /\ job \in [Submitters -> Job]
  /\ pc \in [Submitters -> PCs]
  /\ cur \in [Submitters -> Ids]
  /\ outcome \in [Submitters -> Outcomes]
  /\ timer \in [Submitters -> BOOLEAN]
  /\ last \in [Submitters -> BOOLEAN]
  /\ query \in [Callers -> Query]
  /\ answer \in [Callers -> Answers]

NoQuery == [pc |-> "idle", id |-> NoId, status |-> "querying", media |-> FALSE]

Init ==
  /\ table = [i \in Ids |-> NoRow]
  /\ job = [s \in Submitters |-> [phase |-> "none", media |-> FALSE]]
  /\ pc = [s \in Submitters |-> "create"]
  /\ cur = [s \in Submitters |-> Local(s)]
  /\ outcome = [s \in Submitters |-> "none"]
  /\ timer = [s \in Submitters |-> FALSE]
  /\ last = [s \in Submitters |-> FALSE]
  /\ query = [c \in Callers |-> NoQuery]
  /\ answer = [c \in Callers |-> "none"]

-----------------------------------------------------------------------------
(***************************************************************************)
(* SubmitTask.                                                             *)
(***************************************************************************)
submitVars == <<timer, last, query, answer>>

Goto(s, l) == pc' = [pc EXCEPT ![s] = l]

(* CreateTask under the local submit_id, before anything is sent.          *)
Create(s) ==
  /\ pc[s] = "create"
  /\ table' = [table EXCEPT ![Local(s)] =
                 [status |-> "querying", media |-> FALSE]]
  /\ Goto(s, "commit")
  /\ UNCHANGED <<job, cur, outcome>> /\ UNCHANGED submitVars

(* Commit: the uploads and the POST.  The backend takes the job and its    *)
(* answer names a submit_id, or names none.                                *)
CommitAccepted(s) ==
  /\ pc[s] = "commit"
  /\ job' = [job EXCEPT ![s].phase = "generating"]
  /\ outcome' = [outcome EXCEPT ![s] = "accepted"]
  /\ \E next \in {"rename", "update"} : Goto(s, next)
  /\ UNCHANGED <<table, cur>> /\ UNCHANGED submitVars

(* The answer has another code than 0 (APIError), with a submit_id or not. *)
CommitRejected(s) ==
  /\ pc[s] = "commit"
  /\ outcome' = [outcome EXCEPT ![s] = "rejected"]
  /\ \E next \in {"rename", "update"} : Goto(s, next)
  /\ UNCHANGED <<table, job, cur>> /\ UNCHANGED submitVars

(* An upload or the POST fails without an answer: the backend may have     *)
(* taken the job all the same.                                             *)
CommitLost(s) ==
  /\ pc[s] = "commit"
  /\ \/ job' = [job EXCEPT ![s].phase = "generating"]
     \/ UNCHANGED job
  /\ outcome' = [outcome EXCEPT ![s] = "lost"]
  /\ Goto(s, "update")
  /\ UNCHANGED <<table, cur>> /\ UNCHANGED submitVars

Rename_KeepsOldRow(s) ==
  /\ pc[s] = "rename"
  /\ table' = [table EXCEPT ![Remote(s)] = table[Local(s)]]
  /\ cur' = [cur EXCEPT ![s] = Remote(s)]
  /\ Goto(s, "update")
  /\ UNCHANGED <<job, outcome>> /\ UNCHANGED submitVars

Rename_OnlyInMemory(s) ==
  /\ pc[s] = "rename"
  /\ cur' = [cur EXCEPT ![s] = Remote(s)]
  /\ Goto(s, "update")
  /\ UNCHANGED <<table, job, outcome>> /\ UNCHANGED submitVars

(* RenameTaskSubmitID moves the row to the backend's submit_id.            *)
Rename(s) ==
  /\ pc[s] = "rename"
  /\ table[Remote(s)] = NoRow /\ table[Local(s)] # NoRow
  /\ table' = [table EXCEPT ![Remote(s)] = table[Local(s)],
                            ![Local(s)] = NoRow]
  /\ cur' = [cur EXCEPT ![s] = Remote(s)]
  /\ Goto(s, "update")
  /\ UNCHANGED <<job, outcome>> /\ UNCHANGED submitVars

(* The row after SubmitTask's UpdateTask: a failed commit leaves the       *)
(* result alone, an accepted one replaces it by the submit answer's.       *)
SubmittedRow(s) ==
  IF outcome[s] = "accepted"
    THEN [status |-> "querying", media |-> FALSE]
    ELSE [table[cur[s]] EXCEPT !.status = "failed"]

Update(s) ==
  /\ pc[s] = "update"
  /\ table[cur[s]] # NoRow
  /\ table' = [table EXCEPT ![cur[s]] = SubmittedRow(s)]
  /\ Goto(s, "get")
  /\ UNCHANGED <<job, cur, outcome>> /\ UNCHANGED submitVars

(* GetTask: the command prints the task, or polls it if it reads querying. *)
Get(s) ==
  /\ pc[s] = "get"
  /\ table[cur[s]] # NoRow
  /\ \/ Goto(s, "end")
     \/ table[cur[s]].status = "querying" /\ Goto(s, "poll")
  /\ UNCHANGED <<table, job, cur, outcome>> /\ UNCHANGED submitVars

(* A store call fails, or finds no row: SubmitTask returns the error.      *)
SubmitFails(s) ==
  /\ pc[s] \in {"create", "rename", "update", "get"}
  /\ Goto(s, "killed")
  /\ UNCHANGED <<table, job, cur, outcome>> /\ UNCHANGED submitVars

-----------------------------------------------------------------------------
(***************************************************************************)
(* QueryResult, for query_result and for the poll loop.                    *)
(***************************************************************************)
queryVars == <<job, pc, cur, outcome, timer, last>>

GoOn(c, l, id, status, media) ==
  query' = [query EXCEPT ![c] =
              [pc |-> l, id |-> id, status |-> status, media |-> media]]

Step(c, l) == GoOn(c, l, query[c].id, query[c].status, query[c].media)

(* A query that is over leaves nothing behind but the submit_id it was for.*)
Over(c) == GoOn(c, "idle", query[c].id, "querying", FALSE)

Answered(c, a) ==
  /\ Over(c)
  /\ answer' = [answer EXCEPT ![c] = a]

(* The first GetTask keeps the row it read; when there is none, the same   *)
(* call opens the default tasks.db and looks once more.                    *)
ReadRow(c, missing) ==
  LET row == table[query[c].id]
  IN  IF row = NoRow THEN missing
      ELSE /\ GoOn(c, "lookup", query[c].id, row.status, row.media)
           /\ UNCHANGED answer

QueryGet(c) ==
  /\ query[c].pc = "get"
  /\ ReadRow(c, Step(c, "fallback") /\ UNCHANGED answer)
  /\ UNCHANGED table /\ UNCHANGED queryVars

QueryFallback(c) ==
  /\ query[c].pc = "fallback"
  /\ \/ ReadRow(c, Answered(c, "not_found"))
     \/ Answered(c, "not_found")
  /\ UNCHANGED table /\ UNCHANGED queryVars

(* What the history service can say of the row with this submit_id.  It    *)
(* knows jobs by its own id, may lag behind and may fail; media can come   *)
(* with any answer once there are some.                                    *)
CanShow(id) ==
  LET j == job[id[2]]
  IN  {"miss", "error"}
        \cup (IF id[1] = "local" THEN {} ELSE
               (IF j.phase # "none" THEN {"querying"} ELSE {})
                 \cup (IF j.phase = "done" \/ j.media THEN {"success"} ELSE {})
                 \cup (IF j.phase = "failed" THEN {"failed"} ELSE {}))

CanBringMedia(id) ==
  {FALSE} \cup (IF id[1] = "remote" THEN {job[id[2]].media} ELSE {})

(* GetHistoryByIds, and the new state worked out from the row read before. *)
QueryLookup(c) ==
  /\ query[c].pc = "lookup"
  /\ \E view \in CanShow(query[c].id), m \in CanBringMedia(query[c].id) :
       GoOn(c, "update", query[c].id,
            Verdict(query[c].status, query[c].media, view),
            query[c].media \/ m)
  /\ UNCHANGED <<table, answer>> /\ UNCHANGED queryVars

(* UpdateTask of status and result: the row may have been renamed away.    *)
QueryUpdate(c) ==
  /\ query[c].pc = "update"
  /\ IF table[query[c].id] = NoRow
       THEN Answered(c, "not_found") /\ UNCHANGED table
       ELSE /\ table' = [table EXCEPT ![query[c].id] =
                           [status |-> query[c].status,
                            media |-> query[c].media]]
            /\ Step(c, "reget")
            /\ UNCHANGED answer
  /\ UNCHANGED queryVars

QueryReget(c) ==
  /\ query[c].pc = "reget"
  /\ Answered(c, IF table[query[c].id] = NoRow THEN "not_found"
                 ELSE table[query[c].id].status)
  /\ UNCHANGED table /\ UNCHANGED queryVars

QueryFails_NotFound(c) ==
  /\ query[c].pc \in {"get", "update", "reget"}
  /\ Answered(c, "not_found")
  /\ UNCHANGED table /\ UNCHANGED queryVars

(* A store call of the query fails.                                        *)
QueryFails(c) ==
  /\ query[c].pc \in {"get", "update", "reget"}
  /\ Answered(c, "error")
  /\ UNCHANGED table /\ UNCHANGED queryVars

QueryStep(c) ==
  \/ QueryGet(c) \/ QueryFallback(c) \/ QueryLookup(c) \/ QueryUpdate(c)
  \/ QueryReget(c)

StartQuery(c, id) ==
  /\ query[c].pc = "idle"
  /\ GoOn(c, "get", id, "querying", FALSE)
  /\ answer' = [answer EXCEPT ![c] = "none"]

(* query_result on a submit_id that list_task showed.                      *)
QueryCommand(q) ==
  /\ \E id \in Ids : table[id] # NoRow /\ StartQuery(q, id)
  /\ UNCHANGED table /\ UNCHANGED queryVars

-----------------------------------------------------------------------------
(***************************************************************************)
(* pollSubmittedTask: a select between a ticker and a timer.               *)
(***************************************************************************)
PollWaits(s) == pc[s] = "poll" /\ query[s].pc = "idle" /\ ~last[s]

(* The ticker's case: query, unless the answer of the last tick ends it.   *)
PollTick(s) ==
  /\ PollWaits(s)
  /\ answer[s] \in {"none", "querying"}
  /\ StartQuery(s, cur[s])
  /\ UNCHANGED table /\ UNCHANGED queryVars

PollDeadline_OneMoreRound(s) ==
  /\ PollWaits(s)
  /\ answer[s] \in {"none", "querying"}
  /\ timer[s]
  /\ StartQuery(s, cur[s])
  /\ UNCHANGED table /\ UNCHANGED queryVars

(* The timer's case: one last query, whatever it answers.                  *)
PollDeadline(s) ==
  /\ PollWaits(s)
  /\ answer[s] \in {"none", "querying"}
  /\ timer[s]
  /\ StartQuery(s, cur[s])
  /\ last' = [last EXCEPT ![s] = TRUE]
  /\ UNCHANGED <<table, job, pc, cur, outcome, timer>>

PollReturns_Always(s) ==
  /\ pc[s] = "poll" /\ query[s].pc = "idle"
  /\ answer[s] # "none"
  /\ Goto(s, "end")
  /\ UNCHANGED <<table, job, cur, outcome, timer, last, query, answer>>

(* An error or a settled task ends the loop, and so does the last query.   *)
PollReturns(s) ==
  /\ pc[s] = "poll" /\ query[s].pc = "idle"
  /\ answer[s] # "none"
  /\ answer[s] = "querying" => last[s]
  /\ Goto(s, "end")
  /\ UNCHANGED <<table, job, cur, outcome, timer, last, query, answer>>

TimerFires(s) ==
  /\ pc[s] = "poll" /\ ~timer[s]
  /\ timer' = [timer EXCEPT ![s] = TRUE]
  /\ UNCHANGED <<table, job, pc, cur, outcome, last, query, answer>>

-----------------------------------------------------------------------------
(***************************************************************************)
(* The backend, and the end of processes.                                  *)
(***************************************************************************)
JobMoves(s) ==
  /\ job[s].phase = "generating"
  /\ \/ job' = [job EXCEPT ![s].media = TRUE]
     \/ \E p \in {"done", "failed"} : job' = [job EXCEPT ![s].phase = p]
  /\ UNCHANGED <<table, pc, cur, outcome, timer, last, query, answer>>

KillSubmitter(s) ==
  /\ pc[s] \notin {"end", "killed"}
  /\ Goto(s, "killed")
  /\ Over(s)
  /\ UNCHANGED <<table, job, cur, outcome, timer, last, answer>>

KillQuerier(q) ==
  /\ query[q].pc # "idle"
  /\ Over(q)
  /\ UNCHANGED <<table, answer>> /\ UNCHANGED queryVars

SubmitStep(s) ==
  \/ Create(s)
  \/ CommitAccepted(s) \/ CommitRejected(s) \/ CommitLost(s)
  \/ Rename(s) \/ Update(s) \/ Get(s) \/ SubmitFails(s)

PollStep(s) == PollTick(s) \/ PollDeadline(s) \/ PollReturns(s)

Next ==
  \/ \E s \in Submitters :
       \/ SubmitStep(s) \/ PollStep(s) \/ TimerFires(s)
       \/ JobMoves(s) \/ KillSubmitter(s)
  \/ \E q \in Queriers : QueryCommand(q) \/ KillQuerier(q)
  \/ \E c \in Callers : QueryStep(c) \/ QueryFails(c)

(* A running poll loop goes on, its store calls and its HTTP requests (30s *)
(* timeout in httpclient) end, the timer fires, and Go's select picks at   *)
(* random among ready cases, so that a timer that stays ready is picked.   *)
Fairness ==
  \A s \in Submitters :
    /\ WF_vars(QueryStep(s))
    /\ WF_vars(PollReturns(s))
    /\ WF_vars(TimerFires(s))
    /\ SF_vars(PollDeadline(s))

Spec == Init /\ [][Next]_vars /\ Fairness

-----------------------------------------------------------------------------
(***************************************************************************)
(* Properties.                                                             *)
(***************************************************************************)
Produced(s) == job[s].phase = "done" \/ job[s].media
Rows == {i \in Ids : table[i] # NoRow}

(* No false success: a row, or an update about to be written from an older *)
(* read, says success or carries media only if the backend's job of that   *)
(* very submission is done or has produced media.                          *)
NoFalseSuccess ==
  /\ \A i \in Rows :
       table[i].status = "success" \/ table[i].media => Produced(i[2])
  /\ \A c \in Callers :
       query[c].pc \in {"lookup", "update"}
         /\ (query[c].status = "success" \/ query[c].media)
         => Produced(query[c].id[2])

(* No false failure: a row says failed only if its submission was answered *)
(* with an error or not answered, or if the job failed.                    *)
NoFalseFailure ==
  \A i \in Rows :
    table[i].status = "failed"
      => outcome[i[2]] \in {"rejected", "lost"} \/ job[i[2]].phase = "failed"

(* A submission has one row: never both under the local and the remote     *)
(* submit_id, and from CreateTask until SubmitTask ends always one under   *)
(* the id the submitter goes on with, whatever the queriers do.            *)
OneRowPerSubmission ==
  \A s \in Submitters :
    /\ ~ (Local(s) \in Rows /\ Remote(s) \in Rows)
    /\ pc[s] \in {"commit", "rename", "update", "get", "poll"}
         => cur[s] \in Rows

(* An accepted job can be found again: once the command that submitted it  *)
(* has gone past the rename, its row is under the backend's submit_id.     *)
RenamedIsReachable ==
  \A s \in Submitters : cur[s] = Remote(s) => Remote(s) \in Rows

(* A query for a submit_id that was listed answers "not found" only        *)
(* because the task was renamed meanwhile, and then the task is there      *)
(* under its remote submit_id.                                             *)
NotFoundMeansRenamed ==
  \A c \in Callers :
    answer[c] = "not_found" =>
      /\ query[c].id[1] = "local"
      /\ Remote(query[c].id[2]) \in Rows

(* The poll loop gives up on a querying task only at its deadline.         *)
(* (GEN_FLOW.md: until the task is settled or the timeout is reached)      *)
PollGivesUpOnlyAtDeadline ==
  \A s \in Submitters :
    pc[s] = "end" /\ answer[s] = "querying" => timer[s] /\ last[s]

(* A poll loop ends.                                                       *)
PollEnds == \A s \in Submitters : pc[s] = "poll" ~> pc[s] # "poll"
=============================================================================
