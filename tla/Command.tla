------------------------------- MODULE Command -------------------------------
(***************************************************************************)
(* dreamina commands from main() to exit: while a command is dispatched,   *)
(* parsed, checked, submitted and perhaps polled, a goroutine asks the CDN *)
(* for a newer version, and what it has found when the command returns is  *)
(* printed.  Processes share version.json, whose modification time keeps   *)
(* them from asking more than once an hour, the credential and the files   *)
(* that the commands upload.                                               *)
(*                                                                         *)
(* What a submission does to tasks.db is TaskLifecycle's matter, how a     *)
(* file is uploaded ResourceUpload's, and what the code reads from the     *)
(* backend's replies HistoryReply's.                                       *)
(***************************************************************************)
EXTENDS GeneratorArgs, FiniteSets

CONSTANTS
  Procs,       \* processes, each of which runs any number of commands
  LinesOf,     \* process -> the command lines it is started with
  Files,       \* the paths, as values, at which there is a file at first
  Removable,   \* those at which it may be removed
  Acceptances, \* the ids that replies to a submission give the task
  MayReject,   \* a reply may reject the submission
  Found,       \* id -> what a reply to a history lookup may have for it
  LocalId,     \* the id a task has until the backend names it
  NoRequest, NoItem

ASSUME RepliesAssumption ==
  /\ MayReject \in BOOLEAN
  /\ \A i \in Acceptances : i.query \in DOMAIN Found

(* A path is one piece: whether a comma in it splits it depends on where   *)
(* it stands, so a file whose name has one is left out.                    *)
ASSUME FilesAssumption ==
  \A f \in Files : f \in Seq(STRING) /\ Len(f) = 1 /\ f # Blank

NoLine == [name |-> "none", args |-> <<>>]
ASSUME LinesAssumption ==
  \A p \in Procs : \A l \in LinesOf[p] :
    /\ l.args \in Seq([flag : STRING \cup {NoFlag},
                       value : Seq(STRING) \cup {NoValue}])
    /\ \A i \in DOMAIN l.args : l.args[i].flag = NoFlag => l.args[i].value # NoValue

Generators == Tasks \cup {"ref2video"}
TaskOf(name) == IF name = "ref2video" THEN "multiframe2video" ELSE name

VARIABLES
  pc,       \* process -> where main is: off, check, submit, poll or print
  line,     \* process -> its arguments
  sent,     \* process -> what was submitted: the request's prompts and the
            \* paths of each upload it names, or NoRequest
  ids,      \* process -> the ids its task has in tasks.db: the row's, and
            \* the one under which the history is asked for it
  item,     \* process -> the item its last poll came to, when it polled
  check,    \* process -> where its update check is
  notice,   \* process -> updateResultChan is full
  version,  \* version.json: missing, torn or whole, and fresh for an hour
  files,    \* the files that exist
  loggedIn, \* the credential is usable
  quiet,    \* a notice was printed in this hour while version.json was
            \* whole, and it has not been written since
  calm      \* process -> it was started while quiet, and nothing ended it

main == <<pc, line, sent, ids, item>>
updater == <<check, notice>>
disk == <<files, loggedIn>>
history == <<quiet, calm>>
vars == <<main, updater, version, disk, history>>

Lines == UNION {LinesOf[p] : p \in Procs}

(* What parseGeneratorArgs makes of each command line, and what is to be   *)
(* uploaded and submitted of its input.                                    *)
Parsed == [l \in Lines |-> IF l.name \in Generators
                           THEN Parse(TaskOf(l.name), l.args) ELSE Refused]
Task(p) == TaskOf(line[p].name)
Input(p) == Parsed[line[p]].input

Requests == [l \in {l \in Lines : Parsed[l].ok} |->
               Request(TaskOf(l.name), Parsed[l].input)]

NoIds == [row |-> "", query |-> ""]

Init ==
  /\ pc = [p \in Procs |-> "off"]
  /\ line = [p \in Procs |-> NoLine]
  /\ sent = [p \in Procs |-> NoRequest]
  /\ ids = [p \in Procs |-> NoIds]
  /\ item = [p \in Procs |-> <<>>]
  /\ check = [p \in Procs |-> "none"]
  /\ notice = [p \in Procs |-> FALSE]
  /\ version \in {[state |-> "missing", fresh |-> FALSE],
                  [state |-> "whole", fresh |-> FALSE],
                  [state |-> "whole", fresh |-> TRUE]}
  /\ files = Files
  /\ loggedIn \in BOOLEAN
  /\ quiet = FALSE
  /\ calm = [p \in Procs |-> FALSE]

-----------------------------------------------------------------------------
(* main() up to the command: CheckUpdateAsync starts the goroutine,        *)
(* ExecuteC dispatches, and a generator command parses its arguments.      *)
AsksForHelp(args) == args # <<>> /\ args[1] \in {Bare("help"), Bare("version")}

Start(p, l) ==
  /\ pc[p] = "off"
  /\ check' = [check EXCEPT ![p] = "read"]
  /\ line' = [line EXCEPT ![p] = l]
  /\ pc' = [pc EXCEPT ![p] = IF Parsed[l].ok /\ ~AsksForHelp(l.args)
                             THEN "check" ELSE "print"]
  /\ calm' = [calm EXCEPT ![p] = quiet]
  /\ UNCHANGED <<sent, ids, item, notice, version, disk, quiet>>

Return(p) == pc' = [pc EXCEPT ![p] = "print"]

(* runGeneratorSubmit before the submission.  NewContext may fail, and of  *)
(* two errors it does not matter here which one is printed.                *)
Check(p) ==
  /\ pc[p] = "check"
  /\ \/ /\ loggedIn /\ Valid(Task(p), Input(p), files)
        /\ pc' = [pc EXCEPT ![p] = "submit"]
     \/ Return(p)
  /\ UNCHANGED <<line, sent, ids, item, updater, version, disk, history>>

(* PrepareSubmit and Commit: the request is built, its files are uploaded, *)
(* which fails for a path without a file, and it is posted with the        *)
(* resources that the uploads return.  A session that was logged out since *)
(* RequireLogin is submitted without one.                                  *)
Uploadable(request) ==
  \A u \in DOMAIN request.uploads : Range(request.uploads[u]) \subseteq files

Submit(p) ==
  /\ pc[p] = "submit"
  /\ LET request == Requests[line[p]] IN
     /\ Buildable(Task(p), Input(p))
     /\ Uploadable(request)
     /\ \E given \in Acceptances : ids' = [ids EXCEPT ![p] = given]
     /\ sent' = [sent EXCEPT ![p] = request]
  /\ pc' = [pc EXCEPT ![p] = IF Parsed[line[p]].poll
                             THEN "poll" ELSE "print"]
  /\ UNCHANGED <<line, item, updater, version, disk, history>>

(* An error of any of these is printed as JSON and the exit code is 0.     *)
SubmitFails(p) ==
  /\ pc[p] = "submit"
  /\ \/ ~Buildable(Task(p), Input(p))
     \/ ~Uploadable(Requests[line[p]])
     \/ MayReject
  /\ Return(p)
  /\ UNCHANGED <<line, sent, ids, item, updater, version, disk, history>>

(* A query of the --poll loop.  An upscaling never looks at the item.      *)
Poll(p) ==
  /\ pc[p] = "poll"
  /\ \E found \in Found[ids[p].query] :
       item' = [item EXCEPT ![p] =
                  <<IF sent[p].task = "image_upscale" THEN NoItem ELSE found>>]
  /\ UNCHANGED <<pc, line, sent, ids, updater, version, disk, history>>

(* The task is in a terminal state, or the timer fires.                    *)
PollEnds(p) ==
  /\ pc[p] = "poll"
  /\ Return(p)
  /\ UNCHANGED <<line, sent, ids, item, updater, version, disk, history>>

(* PrintUpdateResult and the exit, which ends the goroutine wherever it    *)
(* is.  Printing sets version.json's modification time, if it exists.      *)
Touched == [version EXCEPT !.fresh = version.state # "missing"]

ExitOf(p) ==
  /\ pc' = [pc EXCEPT ![p] = "off"]
  /\ line' = [line EXCEPT ![p] = NoLine]
  /\ sent' = [sent EXCEPT ![p] = NoRequest]
  /\ ids' = [ids EXCEPT ![p] = NoIds]
  /\ item' = [item EXCEPT ![p] = <<>>]
  /\ check' = [check EXCEPT ![p] = "none"]
  /\ notice' = [notice EXCEPT ![p] = FALSE]
  /\ calm' = [calm EXCEPT ![p] = FALSE]
  /\ UNCHANGED disk

PrintNotice_Untouched(p) ==
  /\ pc[p] = "print"
  /\ notice[p]
  /\ quiet' = (version.state = "whole")
  /\ ExitOf(p)
  /\ UNCHANGED version

PrintNotice(p) ==
  /\ pc[p] = "print"
  /\ notice[p]
  /\ version' = Touched
  /\ quiet' = (version.state = "whole")
  /\ ExitOf(p)

ExitQuietly_Waits(p) ==
  /\ pc[p] = "print"
  /\ ~notice[p]
  /\ check[p] = "none"
  /\ ExitOf(p)
  /\ UNCHANGED <<version, quiet>>

ExitQuietly(p) ==
  /\ pc[p] = "print"
  /\ ~notice[p]
  /\ ExitOf(p)
  /\ UNCHANGED <<version, quiet>>

-----------------------------------------------------------------------------
(* The update check.  It ends without a notice, or leaves one.             *)
CheckGoes(p, to) ==
  /\ check' = [check EXCEPT ![p] = to]
  /\ UNCHANGED <<main, notice, disk>>
CheckEnds(p) == CheckGoes(p, "none")
Notify(p) ==
  /\ check' = [check EXCEPT ![p] = "none"]
  /\ notice' = [notice EXCEPT ![p] = TRUE]
  /\ UNCHANGED <<main, disk>>
Keep == UNCHANGED <<version, history>>

(* getLocalVersion: a version.json that does not parse is fetched again.   *)
ReadVersion(p) ==
  /\ check[p] = "read"
  /\ CheckGoes(p, IF version.state = "whole" THEN "stat" ELSE "cache")
  /\ Keep

FetchForCache(p) ==
  /\ check[p] = "cache"
  /\ CheckGoes(p, "write") \/ Notify(p)
  /\ Keep

(* os.WriteFile truncates the file and then writes it.                     *)
Disturbed == quiet' = FALSE /\ calm' = [q \in Procs |-> FALSE]

TruncateVersion(p) ==
  /\ check[p] = "write"
  /\ version' = [state |-> "torn", fresh |-> TRUE]
  /\ Disturbed
  /\ CheckGoes(p, "fill")

FillVersion(p) ==
  /\ check[p] = "fill"
  /\ version' = [state |-> "whole", fresh |-> TRUE]
  /\ UNCHANGED history
  /\ CheckGoes(p, "stat")

WriteVersionFails(p) ==
  /\ check[p] \in {"write", "fill"}
  /\ Notify(p)
  /\ Keep

(* checkUpdate's os.Stat: nothing is asked within the hour.                *)
StatVersion(p) ==
  /\ check[p] = "stat"
  /\ CheckGoes(p, IF version.fresh THEN "none" ELSE "directory")
  /\ Keep

(* fetchLatestVersionFromCDN: the directory, which may not list the file,  *)
(* and the file.  An error is a notice too.                                *)
CheckDirectory(p) ==
  /\ check[p] = "directory"
  /\ CheckGoes(p, "download") \/ CheckEnds(p) \/ Notify(p)
  /\ Keep

DownloadVersion(p) ==
  /\ check[p] = "download"
  /\ Notify(p)
  /\ Keep

-----------------------------------------------------------------------------
(* Outside: the hour passes, a file is removed, the user logs out or in,   *)
(* a process is killed.                                                    *)
HourPasses ==
  /\ version.fresh
  /\ version' = [version EXCEPT !.fresh = FALSE]
  /\ Disturbed
  /\ UNCHANGED <<main, updater, disk>>

RemoveFile(f) ==
  /\ files' = files \ {f}
  /\ UNCHANGED <<main, updater, version, loggedIn, history>>

LoginChanges ==
  /\ loggedIn' = ~loggedIn
  /\ UNCHANGED <<main, updater, version, files, history>>

Kill(p) ==
  /\ pc[p] # "off"
  /\ ExitOf(p)
  /\ UNCHANGED <<version, quiet>>

Main(p) ==
  Check(p) \/ Submit(p) \/ SubmitFails(p) \/ PollEnds(p)
    \/ PrintNotice(p) \/ ExitQuietly(p)

Updater(p) ==
  ReadVersion(p) \/ FetchForCache(p) \/ TruncateVersion(p) \/ FillVersion(p)
    \/ WriteVersionFails(p) \/ StatVersion(p) \/ CheckDirectory(p)
    \/ DownloadVersion(p)

Next ==
  \/ \E p \in Procs : \/ \E l \in LinesOf[p] : Start(p, l)
                      \/ Main(p) \/ Poll(p) \/ Updater(p) \/ Kill(p)
  \/ \E f \in files \cap Removable : RemoveFile(f)
  \/ HourPasses \/ LoginChanges

(* The goroutine is given no fairness: the CDN may never answer.  Main's   *)
(* own requests end, by their timeouts of 30 seconds if not earlier, and   *)
(* so does the timer of --poll.                                            *)
Spec == Init /\ [][Next]_vars /\ \A p \in Procs : WF_vars(Main(p))

-----------------------------------------------------------------------------
(* What the user wrote for a key: all its values in order.  A word is the  *)
(* value of the flag before it.                                            *)
ValuesFor(task, args, key) ==
  LET FlagOf(i) == IF args[i].flag = NoFlag THEN args[i - 1].flag ELSE args[i].flag
      Of(i) == args[i].value # NoValue /\ KeyOf(task, FlagOf(i)) = key IN
  FlattenSeq([i \in DOMAIN args |-> IF Of(i) THEN <<args[i].value>> ELSE <<>>])

(* The files that each command line gives, by input key, and the frames:   *)
(* the first one, then the last.                                           *)
FilesOf ==
  [l \in {l \in Lines : Parsed[l].ok} |->
     LET Given(k) == Pieces(FlattenSeq(ValuesFor(TaskOf(l.name), l.args, k))) IN
     [u \in FileKeys \cup {"frames"} |->
        IF u = "frames" THEN Given("first_path") \o Given("last_path")
        ELSE Given(u)]]

(* What was uploaded for a submitted request is what the command line      *)
(* gives: each call of UploadResource was handed the files of its own key, *)
(* all of them, in the order given, also when a flag takes several files,  *)
(* is repeated, or both, and the first frame before the last.  (In which   *)
(* order the request then names their resources is up to the answer of     *)
(* resource_store: UploadResource returns them as they are answered.)      *)
FilesAsGiven ==
  \A p \in Procs : sent[p] # NoRequest =>
    \A u \in DOMAIN sent[p].uploads :
      sent[p].uploads[u] = FilesOf[line[p]][u]

(* A submitted request has the prompts that were given: --prompt and each  *)
(* --transition-prompt as it was written.                                  *)
PromptsAsGiven ==
  \A p \in Procs : sent[p] # NoRequest =>
    LET Given(k) == ValuesFor(sent[p].task, line[p].args, k) IN
    Without(sent[p].prompts, Blank) =
      Given("transition_prompts") \o Given("prompt")

(* After a notice was printed while version.json was whole, no command     *)
(* that is started within the hour has another to print, whatever other    *)
(* processes do, unless they write version.json anew.                      *)
QuietForAnHour == \A p \in Procs : calm[p] => ~notice[p]

(* However the reply to a submission wraps the task's id, and a reply to a *)
(* lookup the items, and in whatever order its maps are visited, a poll    *)
(* finds the task that was submitted and no other.                         *)
HistoryIsFound ==
  \A p \in Procs :
    /\ item[p] # <<>>
    /\ sent[p].task # "image_upscale"
    /\ ids[p].query # LocalId
    =>
      item[p][1] # NoItem /\ item[p][1].status = "done"

(* A command ends, whatever the CDN does.                                  *)
CommandEnds == \A p \in Procs : pc[p] # "off" ~> pc[p] = "off"
=============================================================================
