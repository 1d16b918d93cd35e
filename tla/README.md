# TLA+ verification of dreamina-cli

`dreamina` is a command line client for an image and video generation
service.  A generator command uploads its inputs, submits a job to the backend
and keeps a row for it in a local `tasks.db`; `query_result` asks the backend's
history for the job, brings the row up to date and may download the result.
Every invocation is a process of its own, and several of them share `tasks.db`,
`credential.json`, `version.json`, the download directory and the backend.

Paths below are relative to
`src/src/code.byted.org/videocut-aigc/dreamina_cli/src`.

## Inventory

| Component | State it keeps | Operations | Hard behaviour | What makes it correct |
|---|---|---|---|---|
| **Task store** `components/task` | table `aigc_task` in `tasks.db`, lock file `tasks.db.lock` | CreateTask, UpdateTask, RenameTaskSubmitID, GetTask, ListTasks, NewStore (migration) | each call is one to three `sqlite3` child processes; decisions are made in Go between them; the lock is `flock` on Unix and nothing on Windows; processes are killed, their children are not | a call takes effect once, atomically, or not at all; an update changes only the columns it names; no row is lost; the lock is always given back |
| **Generation service** `components/gen/gen.go` | rows, through the store | SubmitTask, QueryResult | the commit may be accepted, rejected or lost; the row changes its primary key while other processes query it; a query holds a row across a 30 s request | one row per submission, found under the id the backend knows; no false success and no false failure |
| **History recovery** `components/gen/dreamina.go`, `components/client/dreamina/mcp` | `gen_status` and `result_json` of a row | newDreaminaQuery: derive the state, merge media and queue info | answers come in any order, with or without items, queue texts, codes, media and progress | nothing is made up locally, a failed lookup takes nothing away, no "running 0%" |
| **Generator command** `cmd/generators.go` | none of its own | parseGeneratorArgs, runGeneratorSubmit, pollSubmittedTask | flags repeated, split at commas, blank; files removed and sessions lost between check and use; ticker and timer race | the uploads get the files that were given, in their order; the loop gives up on a querying task only at its deadline, and it ends |
| **Task commands** `cmd/tasks.go` | none | query_result, list_task | run beside any other command | as for the service |
| **Resource upload** `components/client/dreamina/resource` | the resources of one batch of files | UploadResource: token, upload by ImageX, VOD OpenAPI or phases, resource_store, merge | one goroutine per file; failed and lost answers are retried at other candidates and nodes; answers leave resources out or reorder them | only committed files are stored; a batch is complete or an error; local metadata goes to its own resource |
| **Login** `components/login`, `server`, `cmd/account.go`, `cmd/import_login_response.go` | `credential.json`; in a login its callback server, failure and completion flags | login, relogin, logout, import, RequireLogin | callbacks race the wait and its deadline; several processes read, change and write the file without a lock; kills between temporary file and rename | the file is a register of whole credentials; a reported success has a cause; a login waits for its callbacks and ends |
| **Download** `cmd/query_result_download.go`, media part of `components/gen/dreamina.go` | the media in `result_json`, files | download of result media | files are written under their final names by any process, transfers are cut, media lists change between answers | a file that is reported is whole and under the path of its own media |
| **Updater** `components/updater` | `version.json` and its modification time | background check, notice | the command ends before, during or after the check; other processes write the file | a check never blocks a command; a notice comes once an hour |
| Clients, views, wiring, configuration | none | requests, printing | – | – |

How they interact: a command builds its `app.Context` (store, login, clients),
calls the service, the service calls the store (each call takes and releases
the lock) and the handlers of `dreamina.go`, and these call the upload and MCP
clients.  Inside a process goroutines share state in the upload (the token they
all read, the objects it names and the channel of results), in login and in the
updater; processes share the files and the backend.  The concurrency of tasks
is therefore between processes, at the granularity of a store call or, inside a
call, of an SQL statement, and that of an upload between goroutines, at the
granularity of a request.

## Modules

```
TaskTable            what a caller of the store may rely on (abstract)
   ^ refinement
TaskStore            the store as written: lock, SQL statements, kills
   |  MC_TaskStore   its TLC instances
   |  TaskStore_proofs
StoreMigration       NewStore: JSON stores become tasks.db
   |  StoreMigration_proofs
QueryVerdict         the rule a query decides gen_status by
   ^ DeriveIsVerdict
HistoryState         the derivation in dreamina.go, as operators
   +- QueryRecovery  one row under any sequence of history answers
         QueryRecovery_proofs
QueryVerdict
   +- TaskLifecycle  submission, poll loop, query_result, backend, kills
         TaskLifecycle_proofs
ResourceUpload       a batch of files before the submission
   |  ResourceUpload_proofs
CredentialRegister   what credential.json promises (abstract)
   ^ refinement
Login                login, import, logout, submission, callbacks
   |  Login_proofs
HistoryMedia         media of an answer, their merge and their file names
   +- Download       query_result --download_dir
         MC_Download its TLC instance
         Download_proofs
GeneratorArgs        from the command line to uploads and prompts
   +- Command        a command from main to exit, and the update check
   +- MC_Command     (with HistoryReply) TLC instances of Command
HistoryReply         ids and items in replies of any shape
      Command_proofs (both)
```

**TaskTable** is the abstract store: a call is invoked, takes effect once on a
function from submit_id to row, and returns; it may fail without effect and its
process may be killed.  `After` and `Outcome` say what each call does and
answers.

**TaskStore** is `store.go`, `store_sqlite.go` and `filelock_*.go`.  A process
is at one of the steps of a call (`pc`), holds or waits for the lock (`lock`),
and carries the row it read (`mem`).  Each action is one SQL statement, which
SQLite makes atomic, with the Go code up to the next one.  `Exclusive` is the
build: TRUE is `flock`, FALSE is the Windows file.  `Crash` is a kill: the
kernel drops the flock, and up to `MaxOrphans` statements whose `sqlite3` child
survives run later (`OrphanRuns`).  A row is a function from columns to values;
which columns exist and what they hold is left to `Fields` and `Vals`.

**StoreMigration** is `NewStore`: collect the records of `tasks.db` (if it is
JSON), `tasks.json` and `tasks.recovered.json`, remove what is no database,
create the database, import with INSERT OR IGNORE.  Every command does it first,
under the lock.  `End` is a failed step, a kill or the end of the command.  A
row is its version, so that the order of the sources and updates that are taken
back show; `own` is a history variable that says what became of a JSON
`tasks.db`.  An open store is written with `WriteTask`, one atomic step as
TaskTable allows.

**QueryVerdict** and **HistoryState** are `deriveRecoveredQueryState` and
`updateRecoveredQueryResultJSON`.  A history item is its queue or status text
(as one of the groups the code's switches distinguish), whether the text stands
under a queue key, its numeric state code, whether it names a failure, its
number of media and its progress.  A row is `gen_status`, and of `result_json`
the queue status, the progress, the JSON's own status and the number of media.
`RemoteState` lists the cases in the order of the code's returns.

**QueryRecovery** applies them to one row, again and again, with any answer:
an item or none, with code 0 or not, or no answer at all.  The initial rows are
those a submission, a killed process or an older store leaves.

**TaskLifecycle** is `SubmitTask`, `pollSubmittedTask` and `QueryResult` with
every store call as one step, which is what TaskStore shows of it, and the
backend's job and answers in between.  `CanShow` and `CanBringMedia` are the
history service: it may lag, may fail, and knows a job by the backend's id
only.  It takes the status from `Verdict`; `QueryRecovery_proofs` proves that
the detailed derivation comes to the same.

**ResourceUpload** is `UploadResource`: `GetToken`, then one goroutine per path
(`pc`), each on the route its type and the token choose, one action per request
with its outcomes, then `Collect`, `ResourceStore` and, one stored resource at a
time, `mergeStoredResources`.  The services are seen through `bytes` (whose file
an object holds) and `closed` (whether its upload was committed or finished); a
request can fail before or after it took effect.  `KeyOf` is the object that the
token gives a path on the phases route; on the other routes the service names
one object per path and node, and the store infos and targets of a node are
taken as candidates (`MaxTries`) for one object.  An answer of `resource_store`
lists resources with the one field that tells whose they are; a resource whose
several fields contradict each other is not modelled.

**CredentialRegister** is the abstract file: absent, not JSON, or one whole
credential whose token belongs to its key, replaced in one step.

**Login** is `components/login` with the commands that use it.  An actor is a
process or a hook, that is a goroutine of the callback server that handles one
post; `host` says whose.  Actors share `prepareLoginSecretKey` (`ReadKey`),
`ImportLoginResponseJSON` (`Import`, `Decide`) and `writeFileAtomically`
(`WriteTemp`, `Rename`, `WriteFails`), and `goal` is what they return to.  Each
access to the file, to the flags and to the port is a step, so that
`waitForLogin` is four of them.  A token is the key that decodes it and whether
it is signed with a pair that is built in; `moved` is a history variable: who
else has written the file.

**HistoryMedia** takes the media of an item from its six places, scores them as
the code does by what the URL's text contains, lays them over the stored lists
and names the files.  **Download** is the query and the download by several
processes: a file is a sequence of pieces, of which `Copy` writes one, so that
cut and overlapping writes show; `dirty` and `last` are history variables.

**GeneratorArgs** is `parseGeneratorArgs`, the checks and the handlers' reading
of their inputs: a value is the list of its pieces between commas, `Parse` is
the loop over the arguments as a recursive function, and `Request` is what is
submitted of it: the prompts, and the paths that are handed to each call of
`UploadResource` (the two frames of `frames2video` go in one call).  Which
resources these calls return, and in which order the request names them, is
ResourceUpload's matter.

**HistoryReply** reads JSON replies.  A value is a text, a list or an object;
what a search through a Go map may come to is a set.  `Search` is the shape that
all the code's recursive `visit` functions share: the levels of nodes from the
root down, and from the deepest level up what the search comes to at each of
them, given what it comes to at those inside; `FindItems` and `ParseItems` are
such searches.  `Lookup` is `GetHistoryByIds` with `pickRecoveredHistoryItem`;
`HistoryIdOf` and `SubmitIdOf` are the ids that a submission's reply gives the
task: the first is asked for later, to the second the row is renamed.
`HaveTheTask` is no code: it says of layers of replies, each wrapped around the
ones before, what it takes for them to have a task, namely at the innermost a
list in which every item of the id has the status, or an object with an item
filed under it, and around it wrappers in which the search cannot go astray
first.

**Command** runs commands from `main` to the exit: `pc` is where main is,
`check` where the goroutine of `CheckUpdateAsync` is, `notice` is its channel.
What a reply to a submission or a lookup comes to is a constant of it
(`Acceptances`, `Found`); `MC_Command` takes both from HistoryReply.
`version` is `version.json`, whose truncation and writing are two steps, and
`fresh` is its modification time against the hour.  Other commands than
generators go from dispatch to the exit in one step.

## What the runs check

| Run | Question | Bounds | Result |
|---|---|---|---|
| `store_unix` | Does the store implement the atomic table under flock, with failures and kills? | 2 processes, 2 ids, 2 columns, 2 values | holds: types, `DecisionsHold`, `TableSpec` (refinement), `UpdateTouchesOnlyItsFields`, `LockIsReleased` |
| `store_weak` | What is left with no lock and with orphaned children? | 2 processes, 2 ids, 1 column, 1 orphan | holds: `RowsNeverLost` |
| `store_windows` | Does an update on Windows keep to its columns? | as `store_unix` | violated |
| `lifecycle` | Does a row tell what the backend did, can it be found, does polling end? | 1 submission with its poll loop, 1 query_result process that may run again and again | holds |
| `recovery` | Do any answers in any order make something up or take something away? | progress 0, 30, 120; at most 1 image and 1 video in an item | holds |
| `recovery_terminal` | Is a terminal task left alone? | as `recovery`, 2 images | violated |
| `migration` | Does any task get lost, or come back in an old version, when commands open the store? | 2 processes, 2 tasks, 2 versions, every kind of `tasks.db` | holds |
| `upload` | Is only stored what is there, does the merge keep metadata with its resource, does the call return? | 2 files with the same base name, 3 types, 2 VOD nodes with 2 candidates | holds |
| `login` | Is credential.json a register of whole credentials, does a success have a cause, are callbacks waited for, does a login end? | 2 processes with any command, 1 callback, 2 keys | holds |
| `download` | Are reported files whole and under their own paths, whatever overlaps, is cut or killed? | 2 processes, 1 rerun, 3 URLs, 3 answers | holds |
| `command` | Are the files uploaded that were given, is the task found, does the notice keep quiet, does a command end? | 2 processes, 23 command lines, 3 files of which one may go, two tasks in some hundred replies | holds |
| `command_prompt` | Is a prompt submitted as it was given? | as `command` | violated |

Why the bounds are enough. The store's calls touch at most two ids (rename),
the lost update needs two columns and two processes, and an orphaned statement
interferes with one running call. In the lifecycle the submitter with its poll
loop is itself a querying process, so that one more `query_result` gives two
overlapping queries of the same row across its rename; submissions share no
row, and the theorems cover any number of them. (Two query_result processes
were checked too, one million states.) In the recovery the code compares
progress with 0, 8 and 100 and counts of media with 0, and 120 and 30 and 0 lie
on the different sides; two images are what a list of another length needs. The
recovery module checks sequences of any length. In the migration two versions
tell an old row from a new one, two tasks a partial import from a complete one,
and the lock leaves no more than two processes to interfere. In the upload two files are what
a shared object, a swap and a missing answer need, two nodes and two candidates
make every loop go on once and stop once, and the same base name is the harder
case of the merge (the theorems have no such bound).

In the login one process runs a login and the other anything, another login
too; a second key tells a page's key from another's, and when they are used up
the source of random keys has failed, which the code handles.  A second callback
would do what a second process' import does.  In the download a preview, its
original and a video are what overlaying, reordering and replacing lists need,
one rerun meets the files of an earlier run and the second process those of a
concurrent one.  In the command the replies wrap two tasks' items by list, by
id or by an inner key, up to three wrappers deep; `MaxNesting` is 8, deeper than any of them, where the
code unwraps as long as there is a wrapper and `encoding/json` refuses a reply
of more than 10000 levels.  That these replies are among those that the theorems
about lookups are about is an assumption that TLC evaluates
(`RepliesHaveTheTask`).  Every way to give a flag more
than one value, and every generator, is among the command lines; the second
process prints its version only, which is all the update check sees of it.

No state constraint is used. `RawProgress`, `MaxImages`, `MaxVideos`,
`MaxOrphans`, `MaxVersion`, `MaxNodes`, `MaxTries`, `MaxReruns` and `MaxNesting`
are the only bounds of modules, and the sets an instance gives (processes, hooks, ids, keys,
values, command lines, files, replies) the only ones of the instances.

Deadlock is checked in the store, migration and recovery runs.  In `lifecycle`
it is not: a submitter that ended does nothing more, and the system may stop.  In
`upload` the call returns and that is the end, in `login` and `download` each
process runs its commands and is done.  In `command` a process may always start
another command, so that nothing ever stops, and the check would show nothing.

### Fairness

* TaskStore assumes weak fairness of a process' steps once it holds the lock:
  nothing there waits.  Taking the lock is not fair (flock promises no order),
  and `LockIsReleased` does not need it.
* TaskLifecycle assumes, for a running submitter, weak fairness of its queries
  (a store call ends; a request ends, since `infra/httpclient/client.go:60`
  sets a 30 s timeout), of the return from the loop and of the timer.  The
  timer's case in the `select` gets strong fairness: Go picks at random among
  the ready cases and a fired timer stays ready, but it is not ready while a
  query runs.  Without it a loop whose ticks are always picked would not end.
* ResourceUpload assumes weak fairness of each goroutine and of the call: every
  request ends, since the shared client and the ImageX client
  (`resource/client.go:502-510`) time out after 30 s, and nothing else blocks
  (the channel has room for every result).
* Login assumes weak fairness of each process' own steps, of each callback and
  of the clock.  Neither posts nor kills nor the user are fair: a login must end
  although nobody answers.  A callback begins when its body has been read; a
  page that stops in the middle of sending keeps the login in `Shutdown`, which
  has no deadline (`login.go:88-90`).
* Command assumes it of main's steps only: requests time out and so does the
  poll.  The update check gets none, since the CDN may keep it for ever.
* Download states no liveness: `http.Get` has no timeout.

### Disagreements the runs show

* `store_windows`: `filelock_windows.go` excludes nobody, and `UpdateTask`
  writes back every column, so one of two concurrent updates takes back what
  the other wrote, against `docs/TASK_STORE.md:43-44`.
* `recovery_terminal`: the documented flow asks the history only while the task
  is `querying`; `QueryResult` always asks, and a failed or successful row goes
  back to `querying` when the answer has code 0 and no item.
* `command_prompt`: `assignGeneratorInput` splits the value of every flag at its
  commas and trims the pieces.  For files this is the documented form; a prompt
  "a cat, asleep" reaches the backend as `[a cat asleep]`, and one transition
  prompt with a comma counts as two.  For the same reason a file whose name has
  a comma can be given only where its flag is repeated; `FilesAssumption` leaves
  such files out.

Others were met while modelling, in the definitions named, and are not runs:

* `MergeList`: the comment in `mergeRecoveredHistoryMedia` says that history
  media overwrite the lists; `mergeRecoveredMediaItems` keeps the old list's
  length, so that a second answer with more media does not show all of them.
* `KeyOf`: `forUpload` narrows the token to the path's index so that files are
  not mixed up, but a path whose index has no store info falls back to the
  token's first one; the request for the token does not say how many files there
  are.  `StoresOnlyWhatIsThere` holds where every path has an object of its own
  (`OwnKeys`).
* `MergeNext`: the merge keeps the order of `resource_store`'s answer, which the
  comment at `resource/client.go:1404` expects to differ from the request's
  (objects by key are even sorted by it, `resourceSliceOfAny`), and
  `resourceIDs` and `frames2video` take it as the order of the files, so that
  the last frame may be submitted as the first.  `FilesAsGiven` therefore ends
  where the files are handed to the upload, and claims nothing of the order in
  which the request names their resources.
* `Decide`: `auth.go:53` wants tokens checked against the built-in keys and
  `service.go:81` says that an import checks the credential at once; the import
  saves any token that decodes (`store.go:404`) and reports a success, and the
  next command refuses the credential.
* `ReadVersion` with a file that is not whole: when the CDN cannot be asked
  either, every command prints the error; `QuietForAnHour` is about a whole file.

One loss is not a disagreement with a document but worth knowing: `NewStore`
removes a JSON `tasks.db` (`store.go:103-107`) before it creates the database
and imports the rows, so that a kill there, or a missing `sqlite3`, loses every
task that no other JSON file has.  `LostOnlyWhenCut` says that this is the only
way.

## What is proved

Each theorem holds for every value of the constants.

**TaskLifecycle_proofs** (any number of submitters and queriers; the assumptions
are that these are different processes and that the two "nothing there" values
are no rows and no ids).  `TypeCorrect` comes first.  None of the safety
properties is inductive: that an update of a query is honest depends on what it
read; that a cause of success or failure stays true depends on a submission
being blank until its commit (`BlankBeforeCommit`); that the rename leaves one
row depends on where the row is at each step (`RowIsAtCur`); that "not found"
means renamed depends on rows disappearing in no other way
(`QueriedIdsKeepTheirRow`); that polling is patient depends on a submitter
querying only in its loop (`PollDiscipline`).  `IInv` is their conjunction,
`Inductive` proves it, one lemma per group of actions, and
`NoFalseSuccessHolds`, `NoFalseFailureHolds`, `OneRow`, `Reachable`,
`NotFoundIsExplained` and `PollIsPatient` follow.

**TaskStore_proofs** (any number of processes, ids, columns and values; the
assumptions are that the two "nothing there" values are no rows and no column
values).  `TypeCorrect` and `RowsAreKept` hold with or without a lock and with
any number of orphaned children; `RowsAreKept` needs finitely many ids to count
rows.  `DecisionsHoldWithLock`, `UpdatesKeepToTheirFields` and
`StoreImplementsTable` hold for `LockedBuild`, the Unix build whose children end
with their process.  That a decision still holds is not inductive without
`OneHolder`: every process between taking the lock and returning is the one
holder.  The refinement adds `AnswerComesLast`, so that a call that fails or is
killed maps to the abstract failure before its effect or to the end after it.

**StoreMigration_proofs** (any number of processes, tasks and versions).
`LossIsExplained`, `OpenIsComplete` and `DatabaseIsKept` follow from one
invariant: what `tasks.db` is at each step (`FormOfStep`), that a process past
the collection holds every record that is not in a database (`RecordsOfStep`),
and where the legacy rows are as long as nothing was cut (`LegacyRows`); with
`OneHolder`, because all of these are about the one process inside.

**ResourceUpload_proofs** (any number of paths, base names, nodes and
candidates, at least one of each).  `StoresWhatIsThere` needs that an object,
once put, keeps its bytes (`BytesStay`), and this that two paths have two
targets (`TargetsDiffer`, from `OwnKeys`) and that each step writes its own
target only (`StepIsOwn`).  `CompleteBatches` comes from the order of the call
(`CallOrder`).  `MergePairs` comes from `Paired`, that the merge has been right
so far: in order, because the unused paths are exactly the later ones and the
least match is then the path in the same place (`MergeInOrder`); with ids,
because only one path has the answered text (`MergeIdentified`).

**QueryRecovery_proofs** (any progress values, any number of media in an item and
any sequence of answers; the assumption is that "no item" is no item).
`DeriveIsVerdict`, that the detailed derivation is `Verdict` of what the answer
says, and `MediaOnlyGrow`, that a query never leaves a row without media that
had some, are about the operators of HistoryState; together they justify what
TaskLifecycle leaves out.
`SuccessIsProved`, `FailureIsProved`, `RunningProgresses` and `FailureKeeps` are
not inductive: a failed lookup makes a success of a row that has media, so that
media need their evidence too (`MediaHaveEvidence`), and it takes no progress
away only if what is stored is never above the 100 that it writes
(`ProgressIsPercent`).

**Login_proofs** (any number of processes, callbacks and keys; the assumptions
are that processes and callbacks are different, and that the values for "no
file", "not JSON", "no key" and "no token" are none of the real ones).
`LoginImplementsRegister` and `CallbacksHaveALogin` follow from `Base`: an
actor's place fits what it is about to write (`GoalFits`, `DraftsFit`), and port
and callbacks belong to a login that has not left its server (`PortIsServed`,
`HooksAreServed`); that a post cannot reach a login that already waits for its
callbacks is what the order in `Shutdown` gives.  `SuccessIsCaused` and
`PageKeyStays` need each other and more: as long as nobody else writes, the file
has nothing that is usable, the snapshot is empty or still the file (`Quiet`),
the login saves a first key only over an empty snapshot, and a second one never
(`WriteFits`).  `LoginFits` is their conjunction for one process; `Undisturbed`
shows that no step of another actor breaks it without setting `moved`.

**Download_proofs** (any number of processes, media, pieces and answers of any
shape; the assumptions are that "no URL" is no URL, that every URL's file has
at least one piece and that answers are lists of URLs in the six places).  It
starts with the lists.  Induction over their length goes over a set of natural
numbers (`AllNaturals`, `UpTo`), which takes no operator as a parameter.
`UsableOnceFacts`, `PreferredVideosFacts` and `PreferredImagesFacts` say what a
query takes from an item: each usable URL once; the first of the best videos;
all the images, best first, equals in their order (that the rank of an image is
the number of those before it needs `Ranks`, which counts).  `UsablesKeeps` says
that no stored entry is dropped, from which `MergeMediaType` and
`ShownIsWhatIsDownloaded` follow.  `FilesAreWhole` and `ReportsAreComplete` are
not inductive: that a file is whole when the last writer leaves it depends on
how far each of them was.  `Clean` says it of every file that is not dirty: all
who write it write the same URL, and if the process that created it last still
does, the file is filled at least up to that process's offset, whatever the
others have left beyond, holes included; if it does not, the file is whole.
`Progress` says where a process is among its media, and `Delivered` that what it
is through with is there.  `WrittenFilled` and `WrittenWhole` are the two facts
about a write, `SlotFacts` that no two media of a task have the same file.
There is one lemma per action; `QuietStep` serves those that touch no file.

**Command_proofs** (any number of processes and command lines, any replies; the
assumptions are that arguments are flags and words as the shell passes them, a
word being a value, and that a path is one piece, without a comma).
`NoticesAreNotRepeated` is not inductive: a check may be anywhere when another
process writes `version.json`, prints or exits.  In a quiet hour the file is
whole and fresh (`QuietIsFresh`), and a command that was started in it has a
check at one of the two places where it looks at the file, or none
(`CalmIsQuiet`); a goroutine and its notice end with their process
(`EndsWithMain`).
`FilesAreAsGiven` says of a submitted request what its uploads were handed, not
in which order it names the resources that they returned.  It is mostly about
the parser, for command lines of any length.
Its states form a sequence (`Steps`; that such a recursive function exists is
`StepsExist`), none of which is a refusal if the last is not (`EveryStepIsOk`),
and a pending flag is the argument before (`ArgIsTaken`).  Along this sequence
`Entry` says of each key what its entry keeps of what was given so far: as far
as the values in it are plain, without blanks and commas, they are the pieces of
all that was given, in order, whether the first value was split or not
(`AssignSame`).  `InputIsGiven` is this of the whole line.  A value that is not
plain, or a list printed in brackets, is not the path of a file, so that the
upload fails (`PathsAreGiven`); this is why the property is about what was
submitted.  `FilesInv` keeps the request with the line it was built from.  The
inductions again go over sets (`AllNaturals`, `UpTo`, `AllSequences`); on them
rest the lemmas about `FlattenSeq` of the community modules and about `Without`
and `Pieces`.

`TaskIsFound` is `HistoryIsFound` for any replies that have the task
(`HaveTheTask`; up to eight layers of wrappers, since `findHistoryItemsValue`
goes no deeper, any number of other tasks' items, any order of the maps); the
two theorems about polls also assume that Command's "no item" is HistoryReply's
"no value".
`LookupFindsTheTask` is its heart.  A search is a sequence of levels (`Levels`
and `FoundIn`, `HeldLevels` and `ParsedIn`; that there are such sequences is
`GoesOn`), and the argument goes up the layers: where a node of a layer leads to
one further in, the search comes at it to what it comes to there (`Through`), so
that `findHistoryItemsValue` has a single outcome, the container or a node that
leads to it (`ItemsAreFound`), and what `parseHistoryItems` files from there has
the id with the task's status (`ItemsAreParsed`, `CollectedFinds`), whichever
key is visited last.  `PollInv` is the rest: the ids that an acceptance gave do
not change between the submission and the exit, and no poll sees an item of the
command before.  `PollsShowTheTask` needs nothing of the replies but that they
are JSON: by `LookupIsOfTheTask`, whatever a lookup comes to has the id it asks
for or stood under it in the reply, because nothing is found that is not in the
reply (`ItemsAreInTheReply`) and nothing is filed but under its own ids and key
(`CollectedIsSound`, `ParsedIsSound`).

Only model-checked: `PollEnds`, `LockIsReleased`, `UploadReturns`, `LoginEnds`
and `CommandEnds` (liveness, out of the prover's reach).  Every safety invariant
and action property that a run finds to hold is a theorem.  Which ids a
submission's reply gives (`AcceptancesIn`) is evaluated by TLC for the replies of
`MC_Command`; the theorems take any ids.

## Not modelled, and why

* Help, completion, views, QR codes, browser start, logging, configuration:
  sequential, no state that outlives them.
* Which model takes which duration, ratio or resolution, and the account and
  commerce requests: tables and single requests, which a unit test reaches.
* Payloads, headers, signatures: data that no property here tells apart.
* Of the login: the browser that the headless flow drives and its QR code; how a
  token is encrypted and signed.
* Of replies: numbers, lists and objects where ids are expected, and lists of something else beside
  the items under a key that may hold items.
* The migration without the lock (Windows), where reading a JSON `tasks.db` and
  removing it are two steps; `store_windows` shows what the missing lock does.
* Of the download: copying a local path onto itself, which empties the file.
* Of the upload: signing and the parsing of answers; the retry with signed TOS
  variants, which no route of `UploadResource` reaches; and the store URI that a
  VOD summary takes from its node's first store info.
* Differences in data only: the store trims the values that it reads back; the
  spellings of the transition flags with underscores; the `ds` and `br`
  parts of a video's score.
* That `markLoginCompleted` comes after the rename (`Rename` is both), and a
  `ClearCredential` that fails.
* An `sqlite3` statement that commits and then reports an error; the code treats
  it as failed.

## What is left

1. StoreMigration without the lock.
2. The headless login with its browser; the QR login.
