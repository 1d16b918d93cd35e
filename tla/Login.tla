-------------------------------- MODULE Login --------------------------------
(***************************************************************************)
(* components/login: processes that log in, log in again, import a login   *)
(* response, log out or submit a task, all with the same credential.json   *)
(* and without a lock on it.                                               *)
(*                                                                         *)
(* A login listens on a fixed port, shows pages that carry its             *)
(* random_secret_key, and polls memory and file until one of the pages has *)
(* posted a login response, or two minutes are over.  Each post is handled *)
(* by a goroutine of the process (a hook here), at the same time as the    *)
(* poll loop and as the other processes.  Every file access is a step of   *)
(* its own; a write is a temporary file and then a rename.                 *)
(***************************************************************************)
EXTENDS Naturals, FiniteSets

CONSTANTS
  Procs,   \* dreamina processes, each of which runs one command
  Hooks,   \* posts to the callback server
  Keys, NoKey, NoToken, Absent, Undecodable,  \* see CredentialRegister
  OldKeys, \* those that an earlier login may have left on file
  Nobody,  \* "no process"
  Roles    \* the commands that are run

ASSUME ActorsAssumption == Procs \cap Hooks = {} /\ Nobody \notin Procs
ASSUME RolesAssumption ==
  Roles \subseteq {"login", "relogin", "import", "logout", "submit"}
ASSUME KeysAssumption == NoKey \notin Keys /\ OldKeys \subseteq Keys

VARIABLES
  file,       \* credential.json
  pc,         \* actor -> where it is
  draft,      \* actor -> what it writes to its temporary file
  goal,       \* actor -> what its key or its write is for
  resp,       \* actor -> the login response it imports
  host,       \* hook -> the process it runs in
  port,       \* the process that listens, or Nobody
  failure,    \* process -> Manager.loginFailure is set
  completed,  \* process -> Manager.loginCompleted
  snap,       \* process -> startSnapshot
  page,       \* process -> the key of its authorization URL
  shown,      \* keys of all pages that were shown
  used,       \* keys that were ever generated
  late,       \* process -> its two minutes are over
  told,       \* process -> what it reported
  moved       \* process -> another actor has written the file while it ran

flags == <<failure, completed>>
local == <<draft, goal, resp>>
pages == <<page, shown, used>>
waiting == <<snap, late>>
vars == <<file, pc, local, host, port, flags, waiting, pages, told, moved>>

Register == INSTANCE CredentialRegister WITH register <- file

Actors == Procs \cup Hooks
Owner(a) == IF a \in Procs THEN a ELSE host[a]

Credentials == Register!Credentials
Tokens == Register!Tokens
Decodes(token, key) == Register!Decodes(token, key)
Empty == [key |-> NoKey, token |-> NoToken]
ASSUME FileAssumption ==
  /\ Absent # Undecodable
  /\ {Absent, Undecodable} \cap Credentials = {}
  /\ NoToken \notin Tokens
KeyOnly(k) == [key |-> k, token |-> NoToken]
NoSnap == Empty

(* loadCredential, with nothing for a missing file.                        *)
Loaded == IF file = Absent THEN Empty ELSE file

(* loadUsableCredential: complete, signed with a key pair that is built    *)
(* in, and decodable.                                                      *)
Usable(c) ==
  /\ c \notin {Absent, Undecodable}
  /\ Decodes(c.token, c.key)
  /\ c.token.known

(* credentialSnapshot: the file's content, or nothing when it cannot be    *)
(* read.                                                                   *)
Snapshot == IF file \in {Absent, Undecodable} THEN NoSnap ELSE file

(* Login responses: a message without a token, a response that lacks a     *)
(* field, or a token for the key of a page, with or without that key.  A   *)
(* token of NoKey is one that nothing decodes.                             *)
Responses(keys) ==
  LET Token(k, b, e) == [kind |-> "token",
                         token |-> [key |-> k, known |-> b], echo |-> e] IN
  [kind : {"failure", "invalid"}, token : {NoToken}, echo : {NoKey}]
    \cup {Token(NoKey, TRUE, NoKey)}
    \cup {Token(k, b, NoKey) : k \in keys, b \in BOOLEAN}
    \cup {Token(k, b, k) : k \in keys, b \in BOOLEAN}
NoResponse == [kind |-> "invalid", token |-> NoToken, echo |-> NoKey]

(* resolveImportedSecretKey: the first candidate that decodes the token,   *)
(* else the response's key, else the file's.                               *)
ResolvedKey(local_key, r, prepared) ==
  IF r.token.key \in {local_key, r.echo, prepared} THEN r.token.key
  ELSE IF r.echo # NoKey THEN r.echo ELSE local_key

-----------------------------------------------------------------------------
Init ==
  /\ file \in {c \in Register!Whole : c.key \in OldKeys}
               \cup {Absent, Undecodable}
  /\ pc = [a \in Actors |-> "idle"]
  /\ draft = [a \in Actors |-> Empty]
  /\ goal = [a \in Actors |-> "none"]
  /\ resp = [a \in Actors |-> NoResponse]
  /\ host = [h \in Hooks |-> Nobody]
  /\ port = Nobody
  /\ failure = [p \in Procs |-> FALSE]
  /\ completed = [p \in Procs |-> FALSE]
  /\ snap = [p \in Procs |-> NoSnap]
  /\ page = [p \in Procs |-> NoKey]
  /\ used = IF file \in Credentials THEN {file.key} ELSE {}
  /\ shown = used
  /\ late = [p \in Procs |-> FALSE]
  /\ told = [p \in Procs |-> "nothing"]
  /\ moved = [p \in Procs |-> FALSE]

-----------------------------------------------------------------------------
Goto(a, l) == pc' = [pc EXCEPT ![a] = l]
Say(p, w) == told' = [told EXCEPT ![p] = w]

(* A command or a callback ends; only a command reports.                   *)
Finish(a, w) ==
  /\ Goto(a, "done")
  /\ told' = IF a \in Procs THEN [told EXCEPT ![a] = w] ELSE told

(* What an actor has no more use for is reset, to have fewer states.       *)
Forget(a) ==
  /\ draft' = [draft EXCEPT ![a] = Empty]
  /\ goal' = [goal EXCEPT ![a] = "none"]
  /\ resp' = [resp EXCEPT ![a] = NoResponse]

Runs(a) == pc[a] \notin {"idle", "done"}

(* Actor a leaves content c in credential.json.                            *)
Leave(a, c) ==
  /\ file' = c
  /\ moved' = [p \in Procs |-> moved[p] \/ (p # a /\ Runs(p))]

Starts(p, command) ==
  /\ pc[p] = "idle"
  /\ command \in Roles

(* fetchAccountSummaryFromPayload: of two probes and the session's uid one *)
(* is enough.                                                              *)
HasSummary(info, credit, uid) == info \/ credit \/ uid

(* run without relogin: a usable credential is reused, or it is an error   *)
(* that nothing is known of its account.                                   *)
StartLogin(p) ==
  /\ Starts(p, "login")
  /\ \/ /\ Usable(file)
        /\ \E info, credit, uid \in BOOLEAN :
             Finish(p, IF HasSummary(info, credit, uid) THEN "reused"
                       ELSE "error")
     \/ ~Usable(file) /\ Goto(p, "reset") /\ UNCHANGED told
  /\ UNCHANGED <<file, local, host, port, flags, waiting, pages, moved>>

(* run with relogin, and Logout: ClearCredential first.                    *)
StartRelogin(p) ==
  /\ Starts(p, "relogin")
  /\ Goto(p, "reset")
  /\ Leave(p, Absent)
  /\ UNCHANGED <<local, host, port, flags, waiting, pages, told>>

Logout(p) ==
  /\ Starts(p, "logout")
  /\ Leave(p, Absent)
  /\ Finish(p, "logged_out")
  /\ UNCHANGED <<local, host, port, flags, waiting, pages>>

(* import_login_response: the user pastes what one of the pages shows.     *)
StartImport(p) ==
  /\ Starts(p, "import")
  /\ \E r \in Responses(shown) : resp' = [resp EXCEPT ![p] = r]
  /\ Goto(p, "import")
  /\ UNCHANGED <<file, draft, goal, host, port, flags, waiting, pages,
                 told, moved>>

(* runGeneratorSubmit: RequireLogin, and then the session is read again;   *)
(* when that fails the task is submitted without one.                      *)
StartSubmit(p) ==
  /\ Starts(p, "submit")
  /\ \/ Usable(file) /\ Goto(p, "session") /\ UNCHANGED told
     \/ ~Usable(file) /\ Finish(p, "error")
  /\ UNCHANGED <<file, local, host, port, flags, waiting, pages, moved>>

LoadSession(p) ==
  /\ pc[p] = "session"
  /\ Finish(p, IF Usable(file) THEN "submitted" ELSE "submitted_anonymously")
  /\ UNCHANGED <<file, local, host, port, flags, waiting, pages, moved>>

-----------------------------------------------------------------------------
(***************************************************************************)
(* runBrowserLogin.                                                        *)
(***************************************************************************)
ResetLogin(p) ==
  /\ pc[p] = "reset"
  /\ failure' = [failure EXCEPT ![p] = FALSE]
  /\ completed' = [completed EXCEPT ![p] = FALSE]
  /\ snap' = [snap EXCEPT ![p] = Snapshot]
  /\ Goto(p, "listen")
  /\ UNCHANGED <<file, local, host, port, late, pages, told, moved>>

(* server.Start on the fixed port: a second login cannot listen.           *)
Listen(p) ==
  /\ pc[p] = "listen"
  /\ \/ /\ port = Nobody
        /\ port' = p
        /\ Goto(p, "key")
        /\ goal' = [goal EXCEPT ![p] = "auth"]
        /\ UNCHANGED told
     \/ /\ port # Nobody
        /\ Finish(p, "error")
        /\ UNCHANGED <<port, goal>>
  /\ UNCHANGED <<file, draft, resp, host, flags, waiting, pages, moved>>

-----------------------------------------------------------------------------
(***************************************************************************)
(* ImportLoginResponseJSON by a command or a callback, and                 *)
(* prepareLoginSecretKey, which it shares with the login.                  *)
(***************************************************************************)
(* The token must decode under the key that was resolved; nobody looks at  *)
(* its signature.                                                          *)
Decide(a, local_key, prepared) ==
  LET k == ResolvedKey(local_key, resp[a], prepared) IN
  IF Decodes(resp[a].token, k)
  THEN /\ draft' = [draft EXCEPT ![a] = [key |-> k, token |-> resp[a].token]]
       /\ goal' = [goal EXCEPT ![a] = "import"]
       /\ resp' = [resp EXCEPT ![a] = NoResponse]
       /\ Goto(a, "write")
       /\ UNCHANGED told
  ELSE Finish(a, "error") /\ Forget(a)

Import(a) ==
  /\ pc[a] = "import"
  /\ \/ /\ resp[a].kind = "failure"
        /\ failure' = [failure EXCEPT ![Owner(a)] = TRUE]
        /\ completed' = [completed EXCEPT ![Owner(a)] = FALSE]
        /\ Finish(a, "error") /\ Forget(a)
     \/ /\ resp[a].kind = "invalid"
        /\ Finish(a, "error") /\ Forget(a)
        /\ UNCHANGED flags
     \/ /\ resp[a].kind = "token" /\ file = Undecodable
        /\ Finish(a, "error") /\ Forget(a)
        /\ UNCHANGED flags
     \/ /\ resp[a].kind = "token" /\ file # Undecodable
        /\ IF Loaded.key = NoKey /\ resp[a].echo = NoKey
           THEN /\ Goto(a, "key")
                /\ goal' = [goal EXCEPT ![a] = "resolve"]
                /\ UNCHANGED <<draft, resp, told>>
           ELSE Decide(a, Loaded.key, NoKey)
        /\ UNCHANGED flags
  /\ UNCHANGED <<file, host, port, waiting, pages, moved>>

(* What the caller of prepareLoginSecretKey does with key k: the second    *)
(* call of a login is for the manual page.                                 *)
GotKey(a, k) ==
  \/ /\ goal[a] = "auth"
     /\ page' = [page EXCEPT ![a] = k]
     /\ shown' = shown \cup {k}
     /\ goal' = [goal EXCEPT ![a] = "manual"]
     /\ draft' = [draft EXCEPT ![a] = Empty]
     /\ Goto(a, "key")
     /\ UNCHANGED <<resp, told>>
  \/ /\ goal[a] = "manual"
     /\ shown' = shown \cup {k}
     /\ Goto(a, "wait")
     /\ Forget(a)
     /\ UNCHANGED <<page, told>>
  \/ /\ goal[a] = "resolve"
     /\ Decide(a, NoKey, k)
     /\ UNCHANGED <<page, shown>>

NoKeyFor_Retries(a) ==
  goal[a] # "none" /\ UNCHANGED <<pc, told, local, page, shown>>

(* It failed: the authorization URL is needed, the manual one is not.      *)
NoKeyFor(a) ==
  /\ \/ goal[a] = "auth" /\ Goto(a, "stop") /\ Say(a, "error")
     \/ goal[a] = "manual" /\ Goto(a, "wait") /\ UNCHANGED told
     \/ goal[a] \in {"resolve", "import"} /\ Finish(a, "error")
  /\ Forget(a)
  /\ UNCHANGED <<page, shown>>

ReadKey_Unsaved(a) ==
  /\ pc[a] = "key" /\ file # Undecodable
  /\ \/ Loaded.key # NoKey /\ GotKey(a, Loaded.key) /\ UNCHANGED used
     \/ /\ Loaded.key = NoKey
        /\ \E k \in Keys \ used : used' = used \cup {k} /\ GotKey(a, k)
  /\ UNCHANGED <<file, host, port, flags, waiting, moved>>

(* The key of the file, or else a new one, which is saved first.           *)
ReadKey(a) ==
  /\ pc[a] = "key"
  /\ \/ /\ file = Undecodable
        /\ NoKeyFor(a)
        /\ UNCHANGED used
     \/ /\ file # Undecodable /\ Loaded.key # NoKey
        /\ GotKey(a, Loaded.key)
        /\ UNCHANGED used
     \/ /\ file # Undecodable /\ Loaded.key = NoKey
        /\ \/ NoKeyFor(a) /\ UNCHANGED used
           \/ \E k \in Keys \ used :
                /\ used' = used \cup {k}
                /\ draft' = [draft EXCEPT ![a] = KeyOnly(k)]
                /\ Goto(a, "write")
                /\ UNCHANGED <<goal, resp, page, shown, told>>
  /\ UNCHANGED <<file, host, port, flags, waiting, moved>>

-----------------------------------------------------------------------------
(***************************************************************************)
(* writeFileAtomically.                                                    *)
(***************************************************************************)
WriteTemp_InPlace(a) ==
  /\ pc[a] = "write"
  /\ Goto(a, "rename")
  /\ Leave(a, Undecodable)
  /\ UNCHANGED <<local, host, port, flags, waiting, pages, told>>

WriteTemp(a) ==
  /\ pc[a] = "write"
  /\ Goto(a, "rename")
  /\ UNCHANGED <<file, local, host, port, flags, waiting, pages, told, moved>>

(* An imported credential is reported at once (markLoginCompleted).        *)
Rename(a) ==
  /\ pc[a] = "rename"
  /\ Leave(a, draft[a])
  /\ \/ /\ goal[a] = "import"
        /\ failure' = [failure EXCEPT ![Owner(a)] = FALSE]
        /\ completed' = [completed EXCEPT ![Owner(a)] = TRUE]
        /\ Finish(a, "success") /\ Forget(a)
        /\ UNCHANGED <<page, shown>>
     \/ /\ goal[a] # "import"
        /\ GotKey(a, draft[a].key)
        /\ UNCHANGED flags
  /\ UNCHANGED <<host, port, waiting, used>>

WriteFails(a) ==
  /\ pc[a] \in {"write", "rename"}
  /\ NoKeyFor(a)
  /\ UNCHANGED <<file, host, port, flags, waiting, used, moved>>

-----------------------------------------------------------------------------
(***************************************************************************)
(* The callback server, and waitForLogin.                                  *)
(***************************************************************************)
(* A page posts a login response to whoever listens.                       *)
Post(h) ==
  /\ pc[h] = "idle" /\ port # Nobody
  /\ host' = [host EXCEPT ![h] = port]
  /\ \E r \in Responses(shown) : resp' = [resp EXCEPT ![h] = r]
  /\ Goto(h, "import")
  /\ UNCHANGED <<file, draft, goal, port, flags, waiting, pages, told,
                 moved>>

Stop(p, w) == Goto(p, "stop") /\ Say(p, w)

(* The head of a round: time, failure, completion.                         *)
WaitEnds(p) ==
  /\ pc[p] = "wait" /\ (late[p] \/ failure[p] \/ completed[p])
  /\ Stop(p, IF late[p] THEN "timeout"
             ELSE IF failure[p] THEN "error" ELSE "success")
  /\ UNCHANGED <<file, local, host, port, flags, waiting, pages, moved>>

WaitGoesOn(p) == pc[p] = "wait" /\ ~late[p] /\ ~failure[p] /\ ~completed[p]

CheckFlags(p) ==
  /\ WaitGoesOn(p)
  /\ Goto(p, "snap")
  /\ UNCHANGED <<file, local, host, port, flags, waiting, pages, told, moved>>

HasChanged_AnyChange(p) == Snapshot # NoSnap /\ Snapshot # snap[p]

(* A change is one from a credential that could be read to another.        *)
HasChanged(p) == snap[p] # NoSnap /\ Snapshot # NoSnap /\ Snapshot # snap[p]

CompareSnapshot(p) ==
  /\ pc[p] = "snap"
  /\ \/ HasChanged(p) /\ Stop(p, "success")
     \/ ~HasChanged(p) /\ Goto(p, "use") /\ UNCHANGED told
  /\ UNCHANGED <<file, local, host, port, flags, waiting, pages, moved>>

TryCredential(p) ==
  /\ pc[p] = "use"
  /\ \/ Usable(file) /\ Stop(p, "success")
     \/ ~Usable(file) /\ Goto(p, "wait") /\ UNCHANGED told
  /\ UNCHANGED <<file, local, host, port, flags, waiting, pages, moved>>

Tick(p) ==
  /\ pc[p] \in {"wait", "snap", "use"} /\ ~late[p]
  /\ late' = [late EXCEPT ![p] = TRUE]
  /\ UNCHANGED <<file, pc, local, host, port, flags, snap, pages, told, moved>>

(* Instance.Shutdown: the port is given back at once, and the callbacks    *)
(* that run are waited for.                                                *)
Shutdown(p) ==
  /\ pc[p] = "stop"
  /\ port' = Nobody
  /\ Goto(p, "drain")
  /\ UNCHANGED <<file, local, host, flags, waiting, pages, told, moved>>

HooksOf(p) == {h \in Hooks : host[h] = p /\ Runs(h)}

(* What is kept of a login while it runs.                                  *)
ForgetLogin(p) ==
  /\ failure' = [failure EXCEPT ![p] = FALSE]
  /\ completed' = [completed EXCEPT ![p] = FALSE]
  /\ snap' = [snap EXCEPT ![p] = NoSnap]
  /\ late' = [late EXCEPT ![p] = FALSE]
  /\ page' = [page EXCEPT ![p] = NoKey]
  /\ moved' = [moved EXCEPT ![p] = FALSE]
  /\ told' = [told EXCEPT ![p] = "nothing"]
  /\ UNCHANGED <<file, host, shown, used>>

Exit_Now(p) ==
  /\ pc[p] = "drain"
  /\ Goto(p, "done")
  /\ ForgetLogin(p)
  /\ UNCHANGED <<local, port>>

Exit(p) ==
  /\ pc[p] = "drain" /\ HooksOf(p) = {}
  /\ Goto(p, "done")
  /\ ForgetLogin(p)
  /\ UNCHANGED <<local, port>>

(* A killed process takes its callbacks and its port with it; a temporary  *)
(* file stays, which nobody reads.                                         *)
Kill(p) ==
  LET gone == {p} \cup HooksOf(p)
      After(f, v) == [a \in Actors |-> IF a \in gone THEN v ELSE f[a]] IN
  /\ Runs(p)
  /\ pc' = After(pc, "done")
  /\ draft' = After(draft, Empty)
  /\ goal' = After(goal, "none")
  /\ resp' = After(resp, NoResponse)
  /\ port' = IF port = p THEN Nobody ELSE port
  /\ ForgetLogin(p)

-----------------------------------------------------------------------------
Starting(p) ==
  \/ StartLogin(p) \/ StartRelogin(p) \/ Logout(p)
  \/ StartImport(p) \/ StartSubmit(p)

(* What goes on by itself in an actor.                                     *)
ActorStep(a) ==
  Import(a) \/ ReadKey(a) \/ WriteTemp(a) \/ Rename(a) \/ WriteFails(a)

ProcStep(p) ==
  \/ ActorStep(p) \/ LoadSession(p)
  \/ ResetLogin(p) \/ Listen(p)
  \/ WaitEnds(p) \/ CheckFlags(p) \/ CompareSnapshot(p) \/ TryCredential(p)
  \/ Shutdown(p) \/ Exit(p)

Next ==
  \/ \E p \in Procs : Starting(p) \/ ProcStep(p) \/ Tick(p) \/ Kill(p)
  \/ \E h \in Hooks : Post(h) \/ ActorStep(h)

(* The scheduler runs every goroutine, and the clock goes on.  Nothing is  *)
(* assumed of the user, the pages and kills.                               *)
Fairness ==
  /\ \A p \in Procs : WF_vars(ProcStep(p)) /\ WF_vars(Tick(p))
  /\ \A h \in Hooks : WF_vars(ActorStep(h))

Spec == Init /\ [][Next]_vars /\ Fairness

-----------------------------------------------------------------------------
(***************************************************************************)
(* Properties.                                                             *)
(***************************************************************************)
Places == {"idle", "done", "session", "reset", "listen", "key",
           "import", "write", "rename", "wait", "snap", "use", "stop", "drain"}

(* Every variable has its type; what is read, or is on its way to the      *)
(* file, is a whole credential.                                            *)
TypeOK ==
  /\ file \in Register!Whole \cup {Absent, Undecodable}
  /\ pc \in [Actors -> Places]
  /\ draft \in [Actors -> Register!Whole \cup {Empty}]
  /\ goal \in [Actors -> {"none", "auth", "manual", "resolve", "import"}]
  /\ resp \in [Actors -> [kind : {"failure", "invalid", "token"},
                          token : Tokens \cup {NoToken},
                          echo : Keys \cup {NoKey}]]
  /\ host \in [Hooks -> Procs \cup {Nobody}]
  /\ port \in Procs \cup {Nobody}
  /\ failure \in [Procs -> BOOLEAN] /\ completed \in [Procs -> BOOLEAN]
  /\ snap \in [Procs -> Register!Whole \cup {NoSnap}]
  /\ page \in [Procs -> Keys \cup {NoKey}]
  /\ shown \subseteq Keys /\ used \subseteq Keys
  /\ late \in [Procs -> BOOLEAN] /\ moved \in [Procs -> BOOLEAN]
  /\ told \in [Procs -> {"nothing", "reused", "success", "error", "timeout",
                         "logged_out", "submitted", "submitted_anonymously"}]

(* Whatever the processes do, and wherever they are killed, credential.json*)
(* is an atomic register of whole credentials (writeFileAtomically, and    *)
(* the check of ImportLoginResponseJSON that the token is of the key).     *)
RegisterSpec == Register!Spec

(* A login reports success only when somebody else, one of its own         *)
(* callbacks or another process, has written the file while it ran: that   *)
(* it saved a new key itself (prepareLoginSecretKey) is no login, although *)
(* waitForLogin looks at changes of the file.                              *)
SuccessHasCause ==
  \A p \in Procs : page[p] # NoKey /\ told[p] = "success" => moved[p]

(* As long as nobody else writes the file, the key of the page a login     *)
(* shows is on file, so that the answer to the page can be imported.       *)
PageKeyIsOnFile ==
  \A p \in Procs :
    page[p] # NoKey /\ Runs(p) /\ ~moved[p] =>
      file \in Credentials /\ file.key = page[p]

(* A callback never outlives the login it runs in: its process waits for   *)
(* it, whatever it reported before (Instance.Shutdown).                    *)
CallbacksAreWaitedFor ==
  \A h \in Hooks : Runs(h) => pc[host[h]] \notin {"idle", "done"}

(* A login ends, whether a page is ever answered or not (waitForLogin's    *)
(* deadline, and the server's shutdown).                                   *)
LoginEnds == \A p \in Procs : pc[p] \in {"reset", "wait", "stop"} ~> ~Runs(p)
=============================================================================
