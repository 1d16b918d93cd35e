---------------------------- MODULE Login_proofs ----------------------------
(***************************************************************************)
(* The safety properties of Login, for any number of processes, callbacks  *)
(* and keys.                                                               *)
(*                                                                         *)
(* Base is what the refinement and CallbacksAreWaitedFor need: that every  *)
(* actor's place fits what it holds, and that port and callbacks belong to *)
(* a login that serves.  SuccessHasCause and PageKeyIsOnFile need each     *)
(* other and what waitForLogin remembers: LoginFits.                       *)
(***************************************************************************)
EXTENDS Login, TLAPS

Serving(p) ==
  \/ pc[p] \in {"wait", "snap", "use", "stop", "drain"}
  \/ pc[p] \in {"key", "write", "rename"} /\ goal[p] \in {"auth", "manual"}

Writes(a) == pc[a] \in {"write", "rename"}

(* Where an actor's step leads to is known by its goal.                    *)
GoalFits ==
  \A a \in Actors :
    /\ pc[a] = "key" => goal[a] \in {"auth", "manual", "resolve"}
    /\ Writes(a) => goal[a] # "none"
    /\ a \in Hooks =>
         /\ goal[a] \in {"none", "resolve", "import"}
         /\ pc[a] \in {"idle", "done", "import", "key", "write", "rename"}

(* What is on its way to the file is a whole credential, and a key alone   *)
(* unless it is an import; and no process writes over a torn file.         *)
DraftsFit ==
  \A a \in Actors : Writes(a) =>
    /\ file # Undecodable
    /\ draft[a] \in Register!Whole
    /\ goal[a] # "import" => draft[a].token = NoToken

(* Port and callbacks belong to a login that has not left its server.      *)
HooksAreServed == \A h \in Hooks : Runs(h) => host[h] \in Procs /\ Serving(host[h])
PortIsServed == port # Nobody => Serving(port) /\ pc[port] # "drain"

Base == TypeOK /\ GoalFits /\ DraftsFit /\ HooksAreServed /\ PortIsServed

-----------------------------------------------------------------------------
(* A response that a page can post has its type.                           *)
LEMMA ResponseType ==
  ASSUME NEW S, S \subseteq Keys, NEW r \in Responses(S)
  PROVE  r \in [kind : {"failure", "invalid", "token"},
                token : Tokens \cup {NoToken}, echo : Keys \cup {NoKey}]
<1> DEFINE Response == [kind : {"failure", "invalid", "token"},
                        token : Tokens \cup {NoToken},
                        echo : Keys \cup {NoKey}]
<1>1. CASE r \in [kind : {"failure", "invalid"}, token : {NoToken},
                  echo : {NoKey}]
  BY <1>1
<1>2. ASSUME NEW k \in Keys \cup {NoKey}, NEW b \in BOOLEAN,
             NEW e \in Keys \cup {NoKey},
             r = [kind |-> "token", token |-> [key |-> k, known |-> b],
                  echo |-> e]
      PROVE  r \in Response
  BY <1>2 DEF Tokens, Register!Tokens
<1>3. \/ r \in [kind : {"failure", "invalid"}, token : {NoToken}, echo : {NoKey}]
      \/ \E k \in S \cup {NoKey}, b \in BOOLEAN, e \in S \cup {NoKey} :
           r = [kind |-> "token", token |-> [key |-> k, known |-> b], echo |-> e]
  <2> DEFINE Token(k, b, e) == [kind |-> "token",
                                token |-> [key |-> k, known |-> b], echo |-> e]
  <2>1. \/ r \in [kind : {"failure", "invalid"}, token : {NoToken},
                  echo : {NoKey}]
        \/ r \in {Token(NoKey, TRUE, NoKey)}
        \/ r \in {Token(k, b, NoKey) : k \in S, b \in BOOLEAN}
        \/ r \in {Token(k, b, k) : k \in S, b \in BOOLEAN}
    BY DEF Responses
  <2>2. CASE r \in {Token(NoKey, TRUE, NoKey)}
    <3>1. r = Token(NoKey, TRUE, NoKey)
      BY <2>2
    <3> QED BY <3>1
  <2>3. CASE r \in {Token(k, b, NoKey) : k \in S, b \in BOOLEAN}
    <3>1. PICK k \in S, b \in BOOLEAN : r = Token(k, b, NoKey)
      BY <2>3
    <3> QED BY <3>1
  <2>4. CASE r \in {Token(k, b, k) : k \in S, b \in BOOLEAN}
    <3>1. PICK k \in S, b \in BOOLEAN : r = Token(k, b, k)
      BY <2>4
    <3> QED BY <3>1
  <2> QED BY <2>1, <2>2, <2>3, <2>4
<1> QED
  BY <1>1, <1>2, <1>3

(* A whole credential has a key; a key alone is whole, and so is a key with *)
(* a token that it decodes.                                                *)
LEMMA WholeFacts ==
  /\ Register!Whole \subseteq Credentials
  /\ \A c \in Register!Whole : c.key \in Keys /\ c.key # NoKey
  /\ \A k \in Keys : KeyOnly(k) \in Register!Whole
  /\ \A k : KeyOnly(k).key = k /\ KeyOnly(k).token = NoToken
  /\ \A k : \A t \in Tokens \cup {NoToken} :
       Decodes(t, k) => [key |-> k, token |-> t] \in Register!Whole
<1> USE DEF Credentials, Tokens, KeyOnly, Decodes, Register!Whole,
            Register!Credentials, Register!Tokens, Register!Decodes
<1>1. Register!Whole \subseteq Credentials
  OBVIOUS
<1>2. \A c \in Register!Whole : c.key \in Keys /\ c.key # NoKey
  BY KeysAssumption
<1>3. \A k \in Keys : KeyOnly(k) \in Register!Whole
  OBVIOUS
<1>4. \A k : KeyOnly(k).key = k /\ KeyOnly(k).token = NoToken
  OBVIOUS
<1>5. ASSUME NEW t \in Tokens \cup {NoToken}, NEW k, Decodes(t, k)
      PROVE  [key |-> k, token |-> t] \in Register!Whole
  <2>1. t \in Tokens /\ t.key = k /\ k # NoKey
    BY <1>5
  <2>2. k \in Keys /\ t.known \in BOOLEAN /\ t = [key |-> k, known |-> t.known]
    BY <2>1
  <2> QED BY <2>2
<1> QED BY <1>1, <1>2, <1>3, <1>4, <1>5

-----------------------------------------------------------------------------
(* One actor goes to l, and keeps d, g and r.                              *)
Advances(a, l, d, g, r) ==
  /\ pc' = [pc EXCEPT ![a] = l]
  /\ draft' = [draft EXCEPT ![a] = d]
  /\ goal' = [goal EXCEPT ![a] = g]
  /\ resp' = [resp EXCEPT ![a] = r]

Fits(a, l, d, g, r) ==
  /\ l \in Places
  /\ d \in Register!Whole \cup {Empty}
  /\ g \in {"none", "auth", "manual", "resolve", "import"}
  /\ r \in [kind : {"failure", "invalid", "token"},
            token : Tokens \cup {NoToken}, echo : Keys \cup {NoKey}]
  /\ l = "key" => g \in {"auth", "manual", "resolve"}
  /\ l \in {"write", "rename"} =>
       /\ g # "none" /\ file # Undecodable /\ d \in Register!Whole
       /\ g # "import" => d.token = NoToken
  /\ a \in Hooks =>
       /\ g \in {"none", "resolve", "import"}
       /\ l \in {"idle", "done", "import", "key", "write", "rename"}

(* The file stays one that can be read, and is never torn.                 *)
FileFits ==
  /\ file' \in Register!Whole \cup {Absent, Undecodable}
  /\ file # Undecodable => file' # Undecodable

ActorTypes ==
  /\ pc \in [Actors -> Places]
  /\ draft \in [Actors -> Register!Whole \cup {Empty}]
  /\ goal \in [Actors -> {"none", "auth", "manual", "resolve", "import"}]
  /\ resp \in [Actors -> [kind : {"failure", "invalid", "token"},
                          token : Tokens \cup {NoToken},
                          echo : Keys \cup {NoKey}]]

(* The type and the fit of every actor survive the step of one of them.    *)
LEMMA Advance ==
  ASSUME ActorTypes, GoalFits, DraftsFit, FileFits,
         NEW a \in Actors, NEW l, NEW d, NEW g, NEW r,
         Advances(a, l, d, g, r), Fits(a, l, d, g, r)
  PROVE  ActorTypes' /\ GoalFits' /\ DraftsFit'
<1>1. ActorTypes'
  BY DEF ActorTypes, Advances, Fits
<1>2. \A b \in Actors :
        /\ pc'[b] = IF b = a THEN l ELSE pc[b]
        /\ draft'[b] = IF b = a THEN d ELSE draft[b]
        /\ goal'[b] = IF b = a THEN g ELSE goal[b]
  BY DEF ActorTypes, Advances
<1>3. GoalFits'
  BY <1>2, Zenon DEF GoalFits, Writes, Fits
<1>4. DraftsFit'
  BY <1>2, Zenon DEF DraftsFit, Writes, Fits, FileFits
<1> QED BY <1>1, <1>3, <1>4

(* The callbacks keep their login as long as every process that serves one *)
(* goes on serving it.                                                     *)
LEMMA Serve ==
  ASSUME ActorTypes, HooksAreServed, PortIsServed,
         NEW a \in Actors, NEW l, NEW d, NEW g, NEW r,
         Advances(a, l, d, g, r), UNCHANGED <<host, port>>,
         port \in Procs \cup {Nobody},
         a \in Hooks => Runs(a),
         a \in Procs /\ Serving(a) =>
           \/ l \in {"wait", "snap", "use", "stop"}
           \/ l \in {"key", "write", "rename"} /\ g \in {"auth", "manual"}
  PROVE  HooksAreServed' /\ PortIsServed'
<1>1. \A b \in Actors :
        /\ pc'[b] = IF b = a THEN l ELSE pc[b]
        /\ goal'[b] = IF b = a THEN g ELSE goal[b]
  BY DEF ActorTypes, Advances
<1>2. \A p \in Procs : Serving(p) => Serving(p)'
  BY <1>1 DEF Serving, Actors
<1>3. HooksAreServed'
  BY <1>1, <1>2 DEF HooksAreServed, Runs, Actors
<1>4. PortIsServed'
  <2> USE DEF PortIsServed
  <2>1. SUFFICES ASSUME port # Nobody PROVE Serving(port)' /\ pc'[port] # "drain"
    OBVIOUS
  <2> QED BY <1>1, <1>2, <2>1 DEF Serving, Actors
<1> QED BY <1>3, <1>4

Reports == {"nothing", "reused", "success", "error", "timeout",
            "logged_out", "submitted", "submitted_anonymously"}

PageTypes ==
  /\ page \in [Procs -> Keys \cup {NoKey}]
  /\ shown \subseteq Keys /\ used \subseteq Keys

FlagTypes ==
  /\ failure \in [Procs -> BOOLEAN] /\ completed \in [Procs -> BOOLEAN]

RestTypes ==
  /\ host \in [Hooks -> Procs \cup {Nobody}]
  /\ port \in Procs \cup {Nobody}
  /\ FlagTypes /\ PageTypes
  /\ snap \in [Procs -> Register!Whole \cup {NoSnap}]
  /\ late \in [Procs -> BOOLEAN] /\ moved \in [Procs -> BOOLEAN]
  /\ told \in [Procs -> Reports]

(* TypeOK by parts.                                                        *)
LEMMA Types ==
  TypeOK <=> /\ file \in Register!Whole \cup {Absent, Undecodable}
             /\ ActorTypes /\ RestTypes
BY Zenon DEF TypeOK, ActorTypes, RestTypes, FlagTypes, PageTypes, Reports

ServesOn(a, l, g) ==
  /\ a \in Hooks => Runs(a)
  /\ a \in Procs /\ Serving(a) =>
       \/ l \in {"wait", "snap", "use", "stop"}
       \/ l \in {"key", "write", "rename"} /\ g \in {"auth", "manual"}

(* What most steps of an actor have in common.                             *)
StepFits(a) ==
  \E l, d, g, r :
    Advances(a, l, d, g, r) /\ Fits(a, l, d, g, r) /\ ServesOn(a, l, g)

(* A step that fits keeps Base.                                            *)
LEMMA BaseStep ==
  ASSUME Base, FileFits, NEW a \in Actors, StepFits(a),
         UNCHANGED <<host, port>>, RestTypes'
  PROVE  Base'
<1>1. ActorTypes /\ port \in Procs \cup {Nobody}
  BY Types DEF Base, RestTypes
<1>2. PICK l, d, g, r :
        Advances(a, l, d, g, r) /\ Fits(a, l, d, g, r) /\ ServesOn(a, l, g)
  BY DEF StepFits
<1>3. ActorTypes' /\ GoalFits' /\ DraftsFit'
  BY <1>1, <1>2, Advance DEF Base
<1>4. HooksAreServed' /\ PortIsServed'
  BY <1>1, <1>2, Serve DEF Base, ServesOn
<1>5. TypeOK'
  <2>1. file' \in Register!Whole \cup {Absent, Undecodable}
    BY DEF FileFits
  <2>2. (/\ file \in Register!Whole \cup {Absent, Undecodable}
         /\ ActorTypes /\ RestTypes)' => TypeOK'
    BY Types, PTL
  <2> QED BY <1>3, <2>1, <2>2
<1> QED BY <1>3, <1>4, <1>5 DEF Base

(* Steps that change no more of the actor than its place.                  *)
LEMMA WalkFits ==
  ASSUME ActorTypes, GoalFits, DraftsFit, NEW a \in Actors, NEW l \in Places,
         pc' = [pc EXCEPT ![a] = l], UNCHANGED local,
         l \notin {"key", "write"},
         l = "rename" => Writes(a), ServesOn(a, l, goal[a]),
         a \in Hooks => l \in {"done", "import", "rename"}
  PROVE  StepFits(a)
<1>1. Advances(a, l, draft[a], goal[a], resp[a])
  BY DEF Advances, ActorTypes, local
<1>2. Fits(a, l, draft[a], goal[a], resp[a])
  BY DEF Fits, ActorTypes, GoalFits, DraftsFit, Writes
<1> QED BY <1>1, <1>2 DEF StepFits

(* An actor that ends with what it has left forgotten.                     *)
LEMMA ForgetFits ==
  ASSUME ActorTypes, NEW a \in Actors, NEW l \in Places,
         pc' = [pc EXCEPT ![a] = l], Forget(a), ServesOn(a, l, "none"),
         l \notin {"key", "write", "rename"},
         a \in Hooks => l = "done"
  PROVE  StepFits(a)
<1>1. Advances(a, l, Empty, "none", NoResponse)
  BY DEF Advances, Forget
<1>2. Fits(a, l, Empty, "none", NoResponse)
  BY DEF Fits, NoResponse
<1> QED BY <1>1, <1>2 DEF StepFits

(* A report is one of those there are.                                     *)
LEMMA ReportFits ==
  ASSUME NEW a, told \in [Procs -> Reports], NEW w \in Reports,
         Finish(a, w) \/ Say(a, w)
  PROVE  told' \in [Procs -> Reports]
BY DEF Finish, Say

-----------------------------------------------------------------------------
(* Decide ends in an import of a whole credential, or in an error.         *)
LEMMA DecideFits ==
  ASSUME ActorTypes, RestTypes, file # Undecodable,
         NEW a \in Actors, a \in Hooks => Runs(a), ~(a \in Procs /\ Serving(a)),
         NEW lk, NEW prepared, Decide(a, lk, prepared)
  PROVE  StepFits(a) /\ told' \in [Procs -> Reports]
<1> DEFINE k == ResolvedKey(lk, resp[a], prepared)
           d == [key |-> k, token |-> resp[a].token]
<1>1. CASE Decodes(resp[a].token, k)
  <2>1. /\ draft' = [draft EXCEPT ![a] = d]
        /\ goal' = [goal EXCEPT ![a] = "import"]
        /\ resp' = [resp EXCEPT ![a] = NoResponse]
        /\ pc' = [pc EXCEPT ![a] = "write"]
        /\ told' = told
    BY <1>1, Zenon DEF Decide, Goto
  <2>2. d \in Register!Whole
    <3>1. resp[a].token \in Tokens \cup {NoToken}
      BY DEF ActorTypes
    <3> QED BY <1>1, <3>1, WholeFacts
  <2> HIDE DEF d, k
  <2>3. Advances(a, "write", d, "import", NoResponse)
    BY <2>1 DEF Advances
  <2>4. Fits(a, "write", d, "import", NoResponse)
    BY <2>2 DEF Fits, NoResponse, Places
  <2>5. ServesOn(a, "write", "import")
    BY DEF ServesOn
  <2> QED BY <2>1, <2>3, <2>4, <2>5 DEF StepFits, RestTypes
<1>2. CASE ~Decodes(resp[a].token, k)
  <2>1. Finish(a, "error") /\ Forget(a)
    BY <1>2, Zenon DEF Decide
  <2>2. StepFits(a)
    BY <2>1, ForgetFits DEF Finish, Goto, Places, ServesOn
  <2>3. told' \in [Procs -> Reports]
    BY <2>1, ReportFits DEF RestTypes, Reports
  <2> QED BY <2>2, <2>3
<1> QED BY <1>1, <1>2

(* A key leads to the next key of a login, to its wait, or to an import.   *)
LEMMA GotKeyFits ==
  ASSUME Base, file # Undecodable, NEW a \in Actors, NEW k \in Keys,
         pc[a] \in {"key", "write", "rename"}, goal[a] # "import",
         GotKey(a, k)
  PROVE  /\ StepFits(a)
         /\ told' \in [Procs -> Reports]
         /\ page' \in [Procs -> Keys \cup {NoKey}] /\ shown' \subseteq Keys
<1> USE DEF GotKey
<1>1. ActorTypes /\ RestTypes /\ PageTypes /\ GoalFits /\ Runs(a)
  BY Types DEF Base, RestTypes, Runs
<1>2. a \in Hooks => goal[a] \notin {"auth", "manual"}
  BY <1>1 DEF GoalFits
<1>3. CASE goal[a] = "auth"
  <2>1. /\ Advances(a, "key", Empty, "manual", resp[a])
        /\ page' = [page EXCEPT ![a] = k] /\ shown' = shown \cup {k}
        /\ told' = told
    BY <1>1, <1>3 DEF Goto, Advances, ActorTypes
  <2>2. Fits(a, "key", Empty, "manual", resp[a])
    BY <1>1, <1>2, <1>3 DEF Fits, ActorTypes, Places
  <2>3. ServesOn(a, "key", "manual")
    BY <1>1 DEF ServesOn
  <2> QED
    BY <1>1, <2>1, <2>2, <2>3 DEF StepFits, RestTypes, PageTypes
<1>4. CASE goal[a] = "manual"
  <2>1. /\ pc' = [pc EXCEPT ![a] = "wait"] /\ Forget(a)
        /\ page' = page /\ shown' = shown \cup {k} /\ told' = told
    BY <1>4 DEF Goto
  <2>2. StepFits(a)
    BY <1>1, <1>2, <1>4, <2>1, ForgetFits DEF Places, ServesOn
  <2> QED BY <1>1, <2>1, <2>2 DEF RestTypes, PageTypes
<1>5. CASE goal[a] = "resolve"
  <2>1. Decide(a, NoKey, k) /\ page' = page /\ shown' = shown
    BY <1>5
  <2>2. ~(a \in Procs /\ Serving(a))
    BY <1>5 DEF Serving
  <2> QED
    BY <1>1, <2>1, <2>2, DecideFits DEF RestTypes, PageTypes
<1> QED BY <1>3, <1>4, <1>5

(* Without a key a login ends or goes on without the manual page.          *)
LEMMA NoKeyForFits ==
  ASSUME Base, NEW a \in Actors, pc[a] \in {"key", "write", "rename"},
         NoKeyFor(a)
  PROVE  /\ StepFits(a)
         /\ told' \in [Procs -> Reports] /\ UNCHANGED <<page, shown>>
<1>1. ActorTypes /\ RestTypes /\ GoalFits /\ Runs(a)
  BY Types DEF Base, Runs
<1>2. a \in Hooks => goal[a] \notin {"auth", "manual"}
  BY <1>1 DEF GoalFits
<1>3. CASE goal[a] = "auth" /\ Goto(a, "stop") /\ Say(a, "error")
  <2>1. StepFits(a)
    BY <1>1, <1>2, <1>3, ForgetFits DEF NoKeyFor, Goto, Places, ServesOn
  <2> QED BY <1>1, <1>3, <2>1, ReportFits DEF NoKeyFor, RestTypes, Reports
<1>4. CASE goal[a] = "manual" /\ Goto(a, "wait") /\ UNCHANGED told
  <2>1. StepFits(a)
    BY <1>1, <1>2, <1>4, ForgetFits DEF NoKeyFor, Goto, Places, ServesOn
  <2> QED BY <1>1, <1>4, <2>1 DEF NoKeyFor, RestTypes
<1>5. CASE goal[a] \in {"resolve", "import"} /\ Finish(a, "error")
  <2>1. ~Serving(a)
    BY <1>5 DEF Serving
  <2>2. StepFits(a)
    BY <1>1, <1>5, <2>1, ForgetFits
    DEF NoKeyFor, Finish, Goto, Places, ServesOn
  <2> QED BY <1>1, <1>5, <2>2, ReportFits DEF NoKeyFor, RestTypes, Reports
<1> QED BY <1>3, <1>4, <1>5 DEF NoKeyFor

-----------------------------------------------------------------------------
(* A step that leaves the file alone, or clears it, keeps it readable.     *)
LEMMA FileStays ==
  ASSUME Base
  PROVE  (UNCHANGED file \/ file' = Absent) => FileFits
BY FileAssumption, Types DEF Base, FileFits

(* Who writes the file marks the logins that run, and no more.             *)
LEMMA Left ==
  ASSUME Base, NEW a, NEW c, Leave(a, c)
  PROVE  moved' \in [Procs -> BOOLEAN]
BY Types DEF Base, RestTypes, Leave

(* A whole credential is a file that is there and can be read.             *)
LEMMA WholeIsDecodable == \A c \in Register!Whole : c # Undecodable /\ c # Absent
BY WholeFacts, FileAssumption

(* The steps of a process that is not in its callback server.              *)
LEMMA StartBase ==
  ASSUME Base, NEW p \in Procs,
         \/ StartLogin(p) \/ StartRelogin(p) \/ Logout(p) \/ StartImport(p)
         \/ StartSubmit(p) \/ LoadSession(p) \/ ResetLogin(p)
  PROVE  Base'
<1>1. ActorTypes /\ RestTypes /\ GoalFits /\ DraftsFit /\ p \in Actors
      /\ p \notin Hooks
  BY Types, ActorsAssumption DEF Base, Actors
<1>a. ASSUME NEW l \in {"reset", "listen", "done", "session"},
             pc[p] \in {"idle", "session", "reset"},
             Goto(p, l), UNCHANGED local
      PROVE  StepFits(p)
  BY <1>1, <1>a, WalkFits DEF ServesOn, Serving, Places, Goto
<1>2. CASE StartLogin(p)
  <2>1. StepFits(p)
    BY <1>a, <1>2, Zenon DEF StartLogin, Starts, Finish
  <2>2. told' \in [Procs -> Reports]
    BY <1>1, <1>2, ReportFits DEF StartLogin, RestTypes, Reports
  <2>3. RestTypes'
    BY <1>1, <1>2, <2>2
    DEF StartLogin, RestTypes, FlagTypes, PageTypes, flags, waiting, pages
  <2>4. FileFits /\ UNCHANGED <<host, port>>
    BY <1>2, FileStays DEF StartLogin
  <2> QED BY <1>1, <2>1, <2>3, <2>4, BaseStep
<1>3. CASE StartRelogin(p)
  <2>1. StepFits(p)
    BY <1>a, <1>3, Zenon DEF StartRelogin, Starts
  <2>2. moved' \in [Procs -> BOOLEAN]
    BY <1>3, Left DEF StartRelogin
  <2>3. RestTypes'
    BY <1>1, <1>3, <2>2
    DEF StartRelogin, RestTypes, FlagTypes, PageTypes, flags, waiting, pages
  <2>4. FileFits /\ UNCHANGED <<host, port>>
    BY <1>3, FileStays DEF StartRelogin, Leave
  <2> QED BY <1>1, <2>1, <2>3, <2>4, BaseStep
<1>4. CASE Logout(p)
  <2>1. StepFits(p)
    BY <1>a, <1>4, Zenon DEF Logout, Starts, Finish
  <2>2. moved' \in [Procs -> BOOLEAN] /\ told' \in [Procs -> Reports]
    BY <1>1, <1>4, Left, ReportFits DEF Logout, RestTypes, Reports
  <2>3. RestTypes'
    BY <1>1, <1>4, <2>2
    DEF Logout, RestTypes, FlagTypes, PageTypes, flags, waiting, pages
  <2>4. FileFits /\ UNCHANGED <<host, port>>
    BY <1>4, FileStays DEF Logout, Leave
  <2> QED BY <1>1, <2>1, <2>3, <2>4, BaseStep
<1>5. CASE StartImport(p)
  <2>1. PICK r \in Responses(shown) : resp' = [resp EXCEPT ![p] = r]
    BY <1>5 DEF StartImport
  <2>2. Advances(p, "import", draft[p], goal[p], r)
    BY <1>1, <1>5, <2>1 DEF StartImport, Goto, Advances, ActorTypes
  <2>3. r \in [kind : {"failure", "invalid", "token"},
              token : Tokens \cup {NoToken}, echo : Keys \cup {NoKey}]
    BY <1>1, ResponseType DEF RestTypes, PageTypes
  <2>4. Fits(p, "import", draft[p], goal[p], r)
    BY <1>1, <2>3 DEF Fits, ActorTypes, Places
  <2>5. ServesOn(p, "import", goal[p])
    BY <1>1, <1>5 DEF ServesOn, StartImport, Starts, Serving
  <2>6. StepFits(p)
    BY <2>2, <2>4, <2>5 DEF StepFits
  <2>7. RestTypes'
    BY <1>1, <1>5
    DEF StartImport, RestTypes, FlagTypes, PageTypes, flags, waiting, pages
  <2>8. FileFits /\ UNCHANGED <<host, port>>
    BY <1>5, FileStays DEF StartImport
  <2> QED BY <1>1, <2>6, <2>7, <2>8, BaseStep
<1>6. CASE StartSubmit(p)
  <2>1. StepFits(p)
    BY <1>a, <1>6, Zenon DEF StartSubmit, Starts, Finish
  <2>2. told' \in [Procs -> Reports]
    BY <1>1, <1>6, ReportFits DEF StartSubmit, RestTypes, Reports
  <2>3. RestTypes'
    BY <1>1, <1>6, <2>2
    DEF StartSubmit, RestTypes, FlagTypes, PageTypes, flags, waiting, pages
  <2>4. FileFits /\ UNCHANGED <<host, port>>
    BY <1>6, FileStays DEF StartSubmit
  <2> QED BY <1>1, <2>1, <2>3, <2>4, BaseStep
<1>7. CASE LoadSession(p)
  <2>1. StepFits(p)
    BY <1>a, <1>7, Zenon DEF LoadSession, Finish
  <2>2. told' \in [Procs -> Reports]
    BY <1>1, <1>7, ReportFits DEF LoadSession, RestTypes, Reports
  <2>3. RestTypes'
    BY <1>1, <1>7, <2>2
    DEF LoadSession, RestTypes, FlagTypes, PageTypes, flags, waiting, pages
  <2>4. FileFits /\ UNCHANGED <<host, port>>
    BY <1>7, FileStays DEF LoadSession
  <2> QED BY <1>1, <2>1, <2>3, <2>4, BaseStep
<1>8. CASE ResetLogin(p)
  <2>1. StepFits(p)
    BY <1>a, <1>8, Zenon DEF ResetLogin
  <2>2. Snapshot \in Register!Whole \cup {NoSnap}
    BY Types DEF Snapshot, Base
  <2>3. /\ snap' \in [Procs -> Register!Whole \cup {NoSnap}]
        /\ FlagTypes'
    BY <1>1, <1>8, <2>2 DEF ResetLogin, RestTypes, FlagTypes
  <2>4. RestTypes'
    BY <1>1, <1>8, <2>3 DEF ResetLogin, RestTypes, PageTypes, pages
  <2>5. FileFits /\ UNCHANGED <<host, port>>
    BY <1>8, FileStays DEF ResetLogin
  <2> QED BY <1>1, <2>1, <2>4, <2>5, BaseStep
<1> QED BY <1>2, <1>3, <1>4, <1>5, <1>6, <1>7, <1>8

(* The poll loop.                                                          *)
LEMMA WaitBase ==
  ASSUME Base, NEW p \in Procs,
         \/ WaitEnds(p) \/ CheckFlags(p) \/ CompareSnapshot(p)
         \/ TryCredential(p) \/ Tick(p)
  PROVE  Base'
<1>1. ActorTypes /\ RestTypes /\ GoalFits /\ DraftsFit /\ p \in Actors
      /\ p \notin Hooks
  BY Types, ActorsAssumption DEF Base, Actors
<1>a. ASSUME NEW l \in {"wait", "snap", "use", "stop"}, Goto(p, l),
             UNCHANGED local
      PROVE  StepFits(p)
  BY <1>1, <1>a, WalkFits DEF ServesOn, Places, Goto
<1>2. CASE WaitEnds(p)
  <2>1. StepFits(p)
    BY <1>a, <1>2, Zenon DEF WaitEnds, Stop, WaitGoesOn
  <2>2. told' \in [Procs -> Reports]
    BY <1>1, <1>2, ReportFits DEF WaitEnds, Stop, RestTypes, Reports
  <2>3. RestTypes'
    BY <1>1, <1>2, <2>2
    DEF WaitEnds, RestTypes, FlagTypes, PageTypes, flags, waiting, pages
  <2>4. FileFits /\ UNCHANGED <<host, port>>
    BY <1>2, FileStays DEF WaitEnds
  <2> QED BY <1>1, <2>1, <2>3, <2>4, BaseStep
<1>3. CASE CheckFlags(p)
  <2>1. StepFits(p)
    BY <1>a, <1>3, Zenon DEF CheckFlags, Stop, WaitGoesOn
  <2>2. told' \in [Procs -> Reports]
    BY <1>1, <1>3, ReportFits DEF CheckFlags, Stop, RestTypes, Reports
  <2>3. RestTypes'
    BY <1>1, <1>3, <2>2
    DEF CheckFlags, RestTypes, FlagTypes, PageTypes, flags, waiting, pages
  <2>4. FileFits /\ UNCHANGED <<host, port>>
    BY <1>3, FileStays DEF CheckFlags
  <2> QED BY <1>1, <2>1, <2>3, <2>4, BaseStep
<1>4. CASE CompareSnapshot(p)
  <2>1. StepFits(p)
    BY <1>a, <1>4, Zenon DEF CompareSnapshot, Stop, WaitGoesOn
  <2>2. told' \in [Procs -> Reports]
    BY <1>1, <1>4, ReportFits DEF CompareSnapshot, Stop, RestTypes, Reports
  <2>3. RestTypes'
    BY <1>1, <1>4, <2>2
    DEF CompareSnapshot, RestTypes, FlagTypes, PageTypes, flags, waiting, pages
  <2>4. FileFits /\ UNCHANGED <<host, port>>
    BY <1>4, FileStays DEF CompareSnapshot
  <2> QED BY <1>1, <2>1, <2>3, <2>4, BaseStep
<1>5. CASE TryCredential(p)
  <2>1. StepFits(p)
    BY <1>a, <1>5, Zenon DEF TryCredential, Stop, WaitGoesOn
  <2>2. told' \in [Procs -> Reports]
    BY <1>1, <1>5, ReportFits DEF TryCredential, Stop, RestTypes, Reports
  <2>3. RestTypes'
    BY <1>1, <1>5, <2>2
    DEF TryCredential, RestTypes, FlagTypes, PageTypes, flags, waiting, pages
  <2>4. FileFits /\ UNCHANGED <<host, port>>
    BY <1>5, FileStays DEF TryCredential
  <2> QED BY <1>1, <2>1, <2>3, <2>4, BaseStep
<1>6. CASE Tick(p)
  <2>1. Goto(p, pc[p]) /\ pc[p] \in {"wait", "snap", "use"} /\ UNCHANGED local
    BY <1>1, <1>6 DEF Tick, Goto, ActorTypes
  <2>2. StepFits(p)
    BY <1>a, <2>1
  <2>3. RestTypes'
    BY <1>1, <1>6
    DEF Tick, RestTypes, FlagTypes, PageTypes, flags, pages
  <2>4. FileFits /\ UNCHANGED <<host, port>>
    BY <1>6, FileStays DEF Tick
  <2> QED BY <1>1, <2>2, <2>3, <2>4, BaseStep
<1> QED BY <1>2, <1>3, <1>4, <1>5, <1>6

(* Imports and key preparations, of commands and callbacks alike.          *)
LEMMA ActorBase ==
  ASSUME Base, NEW a \in Actors, ActorStep(a)
  PROVE  Base'
<1>1. ActorTypes /\ RestTypes /\ GoalFits /\ DraftsFit /\ PageTypes /\ FlagTypes
  BY Types DEF Base, RestTypes
<1>2. CASE Import(a)
  <2>1. Runs(a) /\ ~(a \in Procs /\ Serving(a))
    BY <1>2 DEF Import, Runs, Serving
  <2>2. ASSUME Finish(a, "error"), Forget(a)
        PROVE  StepFits(a) /\ told' \in [Procs -> Reports]
    <3>1. StepFits(a)
      BY <1>1, <2>1, <2>2, ForgetFits DEF Finish, Goto, Places, ServesOn
    <3>2. told' \in [Procs -> Reports]
      BY <1>1, <2>2, ReportFits DEF RestTypes, Reports
    <3> QED BY <3>1, <3>2
  <2>3. ASSUME Goto(a, "key"), goal' = [goal EXCEPT ![a] = "resolve"],
               UNCHANGED <<draft, resp, told>>
        PROVE  StepFits(a) /\ told' \in [Procs -> Reports]
    <3>1. Advances(a, "key", draft[a], "resolve", resp[a])
      BY <1>1, <2>3 DEF Goto, Advances, ActorTypes
    <3>2. Fits(a, "key", draft[a], "resolve", resp[a])
      BY <1>1 DEF Fits, ActorTypes, Places
    <3>3. ServesOn(a, "key", "resolve")
      BY <2>1 DEF ServesOn
    <3> QED BY <1>1, <2>3, <3>1, <3>2, <3>3 DEF StepFits, RestTypes
  <2>4. file # Undecodable /\ Decide(a, Loaded.key, NoKey)
          => StepFits(a) /\ told' \in [Procs -> Reports]
    BY <1>1, <2>1, DecideFits
  <2>5. StepFits(a) /\ told' \in [Procs -> Reports]
    BY <1>2, <2>2, <2>3, <2>4, Zenon DEF Import
  <2>6. FlagTypes'
    BY <1>1, <1>2 DEF Import, FlagTypes, flags
  <2>7. RestTypes'
    BY <1>1, <1>2, <2>5, <2>6
    DEF Import, RestTypes, PageTypes, waiting, pages
  <2>8. FileFits /\ UNCHANGED <<host, port>>
    BY <1>2, FileStays DEF Import
  <2> QED BY <2>5, <2>7, <2>8, BaseStep
<1>3. CASE ReadKey(a)
  <2>1. /\ StepFits(a) /\ told' \in [Procs -> Reports]
        /\ page' \in [Procs -> Keys \cup {NoKey}]
        /\ shown' \subseteq Keys /\ used' \subseteq Keys
    <3>1. pc[a] = "key" /\ goal[a] # "import"
      BY <1>1, <1>3 DEF ReadKey, GoalFits
    <3>2. CASE NoKeyFor(a) /\ UNCHANGED used
      BY <1>1, <3>1, <3>2, NoKeyForFits DEF PageTypes
    <3>3. CASE /\ file # Undecodable /\ Loaded.key # NoKey
               /\ GotKey(a, Loaded.key) /\ UNCHANGED used
      <4>1. Loaded.key \in Keys
        BY <3>3, Types, WholeFacts DEF Base, Loaded, Empty
      <4> QED BY <1>1, <3>1, <3>3, <4>1, GotKeyFits DEF PageTypes
    <3>4. ASSUME file # Undecodable, NEW k \in Keys \ used,
                 used' = used \cup {k},
                 draft' = [draft EXCEPT ![a] = KeyOnly(k)],
                 Goto(a, "write"), UNCHANGED <<goal, resp, page, shown, told>>
          PROVE  /\ StepFits(a) /\ told' \in [Procs -> Reports]
                 /\ page' \in [Procs -> Keys \cup {NoKey}]
                 /\ shown' \subseteq Keys /\ used' \subseteq Keys
      <4>1. Advances(a, "write", KeyOnly(k), goal[a], resp[a])
        BY <1>1, <3>4 DEF Goto, Advances, ActorTypes
      <4>2. Fits(a, "write", KeyOnly(k), goal[a], resp[a])
        BY <1>1, <3>1, <3>4, WholeFacts DEF Fits, ActorTypes, Places, GoalFits
      <4>3. ServesOn(a, "write", goal[a])
        BY <3>1 DEF ServesOn, Runs, Serving
      <4>4. StepFits(a)
        BY <4>1, <4>2, <4>3 DEF StepFits
      <4> QED BY <1>1, <3>4, <4>4 DEF RestTypes, PageTypes
    <3> QED BY <1>3, <3>2, <3>3, <3>4, Zenon DEF ReadKey
  <2>2. RestTypes'
    BY <1>1, <1>3, <2>1 DEF ReadKey, RestTypes, PageTypes, FlagTypes, flags,
       waiting
  <2>3. FileFits /\ UNCHANGED <<host, port>>
    BY <1>3, FileStays DEF ReadKey
  <2> QED BY <2>1, <2>2, <2>3, BaseStep
<1>4. CASE WriteTemp(a)
  <2>1. StepFits(a)
    <3>1. ServesOn(a, "rename", goal[a])
      BY <1>4 DEF WriteTemp, ServesOn, Serving, Runs
    <3> QED BY <1>1, <1>4, <3>1, WalkFits DEF WriteTemp, Goto, Writes, Places
  <2>2. RestTypes'
    BY <1>1, <1>4 DEF WriteTemp, RestTypes, FlagTypes, PageTypes, flags, waiting,
       pages
  <2>3. FileFits /\ UNCHANGED <<host, port>>
    BY <1>4, FileStays DEF WriteTemp
  <2> QED BY <2>1, <2>2, <2>3, BaseStep
<1>5. CASE Rename(a)
  <2>1. /\ pc[a] = "rename" /\ Runs(a) /\ file # Undecodable
        /\ draft[a] \in Register!Whole /\ file' = draft[a]
    BY <1>1, <1>5 DEF Rename, DraftsFit, Writes, Leave, Runs
  <2> DEFINE Goal == /\ StepFits(a) /\ told' \in [Procs -> Reports]
                     /\ page' \in [Procs -> Keys \cup {NoKey}]
                     /\ shown' \subseteq Keys
  <2>2. ASSUME goal[a] = "import", Finish(a, "success"), Forget(a),
               UNCHANGED <<page, shown>>
        PROVE  Goal
    <3>1. StepFits(a)
      BY <1>1, <2>1, <2>2, ForgetFits
      DEF Finish, Goto, Places, ServesOn, Serving
    <3>2. told' \in [Procs -> Reports]
      BY <1>1, <2>2, ReportFits DEF RestTypes, Reports
    <3> QED BY <1>1, <2>2, <3>1, <3>2 DEF PageTypes
  <2>3. ASSUME goal[a] # "import", GotKey(a, draft[a].key)
        PROVE  Goal
    <3>1. draft[a].key \in Keys
      BY <2>1, WholeFacts
    <3> QED BY <2>1, <2>3, <3>1, GotKeyFits
  <2>4. Goal
    BY <1>5, <2>2, <2>3 DEF Rename
  <2>5. FlagTypes'
    BY <1>1, <1>5 DEF Rename, FlagTypes, flags
  <2>6. moved' \in [Procs -> BOOLEAN]
    BY <1>5, Left DEF Rename
  <2>7. RestTypes'
    BY <1>1, <1>5, <2>4, <2>5, <2>6 DEF Rename, RestTypes, PageTypes, waiting
  <2>8. FileFits
    BY <2>1, WholeIsDecodable DEF FileFits
  <2> QED BY <1>5, <2>4, <2>7, <2>8, BaseStep DEF Rename
<1>6. CASE WriteFails(a)
  <2>1. /\ StepFits(a) /\ told' \in [Procs -> Reports]
        /\ UNCHANGED <<page, shown>>
    BY <1>6, NoKeyForFits DEF WriteFails
  <2>2. RestTypes'
    BY <1>1, <1>6, <2>1
    DEF WriteFails, RestTypes, FlagTypes, PageTypes, flags, waiting
  <2>3. FileFits /\ UNCHANGED <<host, port>>
    BY <1>6, FileStays DEF WriteFails
  <2> QED BY <2>1, <2>2, <2>3, BaseStep
<1> QED BY <1>2, <1>3, <1>4, <1>5, <1>6 DEF ActorStep

(* Base' of its parts.                                                     *)
LEMMA BaseParts ==
  ASSUME file' \in Register!Whole \cup {Absent, Undecodable},
         ActorTypes', RestTypes', GoalFits', DraftsFit', HooksAreServed',
         PortIsServed'
  PROVE  Base'
<1>1. (/\ file \in Register!Whole \cup {Absent, Undecodable}
       /\ ActorTypes /\ RestTypes)' => TypeOK'
  BY Types, PTL
<1> QED BY <1>1 DEF Base

(* The server comes up, takes posts and goes away, with its process or     *)
(* before it.                                                              *)
LEMMA ListenBase ==
  ASSUME Base, NEW p \in Procs, Listen(p)
  PROVE  Base'
<1>1. /\ ActorTypes /\ RestTypes /\ GoalFits /\ DraftsFit
      /\ HooksAreServed /\ PortIsServed
      /\ p \in Actors /\ p \notin Hooks /\ p # Nobody /\ FileFits
  BY Types, ActorsAssumption, FileStays DEF Base, Actors, Listen
<1>2. CASE port = Nobody
  <2>1. /\ port' = p /\ pc' = [pc EXCEPT ![p] = "key"]
        /\ goal' = [goal EXCEPT ![p] = "auth"] /\ pc[p] = "listen"
        /\ UNCHANGED <<file, draft, resp, host, flags, waiting, pages, moved, told>>
    BY <1>2 DEF Listen, Goto
  <2>2. Advances(p, "key", draft[p], "auth", resp[p])
    BY <1>1, <2>1 DEF Advances, ActorTypes
  <2>3. Fits(p, "key", draft[p], "auth", resp[p])
    BY <1>1 DEF Fits, ActorTypes, Places
  <2>4. ActorTypes' /\ GoalFits' /\ DraftsFit'
    BY <1>1, <2>2, <2>3, Advance
  <2>5. \A b \in Actors : b # p => pc'[b] = pc[b] /\ goal'[b] = goal[b]
    BY <1>1, <2>1 DEF ActorTypes
  <2>6. \A h \in Hooks : Runs(h) => host[h] # p
    BY <1>1, <2>1 DEF HooksAreServed, Serving
  <2>7. HooksAreServed'
    BY <1>1, <2>1, <2>5, <2>6 DEF HooksAreServed, Serving, Runs, Actors
  <2>8. PortIsServed'
    BY <1>1, <2>1 DEF PortIsServed, Serving, ActorTypes
  <2>9. RestTypes'
    BY <1>1, <2>1 DEF RestTypes, FlagTypes, PageTypes, flags, waiting, pages
  <2> QED BY <1>1, <2>4, <2>7, <2>8, <2>9, BaseParts DEF FileFits
<1>3. CASE port # Nobody
  <2>1. Finish(p, "error") /\ UNCHANGED <<local, host, port>> /\ pc[p] = "listen"
    BY <1>3 DEF Listen, local
  <2>2. StepFits(p)
    BY <1>1, <2>1, WalkFits DEF ServesOn, Serving, Places, Finish, Goto
  <2>3. told' \in [Procs -> Reports]
    BY <1>1, <2>1, ReportFits DEF RestTypes, Reports
  <2>4. RestTypes'
    BY <1>1, <2>1, <2>3
    DEF Listen, RestTypes, FlagTypes, PageTypes, flags, waiting, pages
  <2> QED BY <1>1, <2>1, <2>2, <2>4, BaseStep
<1> QED BY <1>2, <1>3

(* A post starts a callback in the login that listens.                     *)
LEMMA PostBase ==
  ASSUME Base, NEW h \in Hooks, Post(h)
  PROVE  Base'
<1>1. /\ ActorTypes /\ RestTypes /\ GoalFits /\ DraftsFit
      /\ HooksAreServed /\ PortIsServed
      /\ h \in Actors /\ h \notin Procs /\ FileFits
      /\ port \in Procs
  BY Types, ActorsAssumption, FileStays DEF Base, Actors, Post, RestTypes
<1>2. PICK r \in Responses(shown) : resp' = [resp EXCEPT ![h] = r]
  BY DEF Post
<1>3. Advances(h, "import", draft[h], goal[h], r)
  BY <1>1, <1>2 DEF Post, Goto, Advances, ActorTypes
<1>4. r \in [kind : {"failure", "invalid", "token"},
            token : Tokens \cup {NoToken}, echo : Keys \cup {NoKey}]
  BY <1>1, ResponseType DEF RestTypes, PageTypes
<1>5. Fits(h, "import", draft[h], goal[h], r)
  BY <1>1, <1>4 DEF Fits, ActorTypes, Places, GoalFits
<1>6. ActorTypes' /\ GoalFits' /\ DraftsFit'
  BY <1>1, <1>3, <1>5, Advance
<1>7. /\ \A b \in Actors : b # h => pc'[b] = pc[b]
      /\ goal' = goal /\ port' = port
      /\ host' = [host EXCEPT ![h] = port]
  BY <1>1 DEF Post, Goto, ActorTypes
<1>8. \A p \in Procs : Serving(p) => Serving(p)'
  BY <1>1, <1>7 DEF Serving, Actors
<1>9. HooksAreServed'
  BY <1>1, <1>7, <1>8 DEF HooksAreServed, PortIsServed, Runs, Actors, RestTypes,
     Post
<1>10. PortIsServed'
  BY <1>1, <1>7, <1>8 DEF PortIsServed, Actors
<1>11. RestTypes'
  BY <1>1, <1>7
  DEF Post, RestTypes, FlagTypes, PageTypes, flags, waiting, pages
<1> QED BY <1>1, <1>6, <1>9, <1>10, <1>11, BaseParts DEF FileFits

(* The port is given back first; the login leaves when no callback runs.   *)
LEMMA ShutdownBase ==
  ASSUME Base, NEW p \in Procs, Shutdown(p) \/ Exit(p)
  PROVE  Base'
<1>1. /\ ActorTypes /\ RestTypes /\ GoalFits /\ DraftsFit
      /\ HooksAreServed /\ PortIsServed
      /\ p \in Actors /\ p \notin Hooks /\ FileFits
  BY Types, ActorsAssumption, FileStays
  DEF Base, Actors, Shutdown, Exit, ForgetLogin
<1>a. ASSUME NEW l \in {"drain", "done"}, Goto(p, l), UNCHANGED local
      PROVE  ActorTypes' /\ GoalFits' /\ DraftsFit'
  <2>1. Advances(p, l, draft[p], goal[p], resp[p])
    BY <1>1, <1>a DEF Goto, Advances, ActorTypes, local
  <2>2. Fits(p, l, draft[p], goal[p], resp[p])
    BY <1>1 DEF Fits, ActorTypes, Places
  <2> QED BY <1>1, <2>1, <2>2, Advance
<1>2. CASE Shutdown(p)
  <2>1. ActorTypes' /\ GoalFits' /\ DraftsFit'
    BY <1>a, <1>2 DEF Shutdown
  <2>2. /\ \A b \in Actors : pc'[b] = IF b = p THEN "drain" ELSE pc[b]
        /\ goal' = goal /\ port' = Nobody /\ host' = host
    BY <1>1, <1>2 DEF Shutdown, Goto, ActorTypes, local
  <2>3. HooksAreServed'
    BY <1>1, <2>2 DEF HooksAreServed, Serving, Runs, Actors
  <2>4. PortIsServed'
    BY <2>2 DEF PortIsServed
  <2>5. RestTypes'
    BY <1>1, <1>2
    DEF Shutdown, RestTypes, FlagTypes, PageTypes, flags, waiting, pages
  <2> QED BY <1>1, <2>1, <2>3, <2>4, <2>5, BaseParts DEF FileFits
<1>3. CASE Exit(p)
  <2>1. ActorTypes' /\ GoalFits' /\ DraftsFit'
    BY <1>a, <1>3 DEF Exit
  <2>2. /\ \A b \in Actors : b # p => pc'[b] = pc[b]
        /\ pc'[p] = "done" /\ pc[p] = "drain"
        /\ goal' = goal /\ port' = port /\ host' = host
    BY <1>1, <1>3 DEF Exit, Goto, ActorTypes, local, ForgetLogin
  <2>3. \A h \in Hooks : Runs(h) => host[h] # p
    BY <1>3 DEF Exit, HooksOf
  <2>4. HooksAreServed'
    BY <1>1, <2>2, <2>3 DEF HooksAreServed, Serving, Runs, Actors
  <2>5. PortIsServed'
    BY <1>1, <2>2 DEF PortIsServed, Serving, RestTypes, Actors
  <2>6. RestTypes'
    BY <1>1, <1>3, <2>2
    DEF Exit, ForgetLogin, RestTypes, FlagTypes, PageTypes, Reports
  <2> QED BY <1>1, <2>1, <2>4, <2>5, <2>6, BaseParts DEF FileFits
<1> QED BY <1>2, <1>3

(* A kill ends the process with its callbacks.                             *)
LEMMA KillBase ==
  ASSUME Base, NEW p \in Procs, Kill(p)
  PROVE  Base'
<1> DEFINE gone == {p} \cup HooksOf(p)
<1>1. /\ ActorTypes /\ RestTypes /\ GoalFits /\ DraftsFit
      /\ HooksAreServed /\ PortIsServed /\ FileFits /\ UNCHANGED file
  BY Types, FileStays DEF Base, Kill, ForgetLogin
<1>2. /\ pc' = [a \in Actors |-> IF a \in gone THEN "done" ELSE pc[a]]
      /\ draft' = [a \in Actors |-> IF a \in gone THEN Empty ELSE draft[a]]
      /\ goal' = [a \in Actors |-> IF a \in gone THEN "none" ELSE goal[a]]
      /\ resp' = [a \in Actors |-> IF a \in gone THEN NoResponse ELSE resp[a]]
      /\ port' = (IF port = p THEN Nobody ELSE port)
      /\ host' = host
  BY Zenon DEF Kill, ForgetLogin
<1>3. \A h \in Hooks : Runs(h) /\ host[h] = p => h \in gone
  BY DEF HooksOf
<1>4. gone \cap Procs = {p}
  BY ActorsAssumption DEF HooksOf
<1> HIDE DEF gone
<1>5. ActorTypes'
  <2>1. pc' \in [Actors -> Places]
    BY <1>1, <1>2 DEF ActorTypes, Places
  <2>2. draft' \in [Actors -> Register!Whole \cup {Empty}]
    BY <1>1, <1>2 DEF ActorTypes
  <2>3. goal' \in [Actors -> {"none", "auth", "manual", "resolve", "import"}]
    BY <1>1, <1>2 DEF ActorTypes
  <2>4. resp' \in [Actors -> [kind : {"failure", "invalid", "token"},
                             token : Tokens \cup {NoToken},
                             echo : Keys \cup {NoKey}]]
    BY <1>1, <1>2 DEF ActorTypes, NoResponse
  <2> QED BY <2>1, <2>2, <2>3, <2>4 DEF ActorTypes
<1>6. \A a \in Actors :
        /\ a \in gone => pc'[a] = "done" /\ goal'[a] = "none"
        /\ a \notin gone => /\ pc'[a] = pc[a] /\ goal'[a] = goal[a]
                           /\ draft'[a] = draft[a]
  BY <1>2
<1>7. GoalFits'
  BY <1>1, <1>6 DEF GoalFits, Writes
<1>8. DraftsFit'
  BY <1>1, <1>6 DEF DraftsFit, Writes
<1>9. HooksAreServed'
  BY <1>1, <1>2, <1>3, <1>4, <1>6 DEF HooksAreServed, Serving, Runs, Actors
<1>10. PortIsServed'
  BY <1>1, <1>2, <1>4, <1>6 DEF PortIsServed, Serving, Actors, RestTypes
<1>11. RestTypes'
  BY <1>1, <1>2 DEF Kill, ForgetLogin, RestTypes, FlagTypes, PageTypes, Reports
<1> QED BY <1>1, <1>5, <1>7, <1>8, <1>9, <1>10, <1>11, BaseParts DEF FileFits

-----------------------------------------------------------------------------
(***************************************************************************)
(* The invariant.                                                          *)
(***************************************************************************)
LEMMA InitBase == Init => Base
<1> SUFFICES ASSUME Init PROVE Base
  OBVIOUS
<1>1. file \in Register!Whole \cup {Absent, Undecodable}
  BY DEF Init
<1>2. ActorTypes
  BY DEF Init, ActorTypes, Places, NoResponse
<1>3. RestTypes
  <2>1. used \subseteq Keys
    BY <1>1, WholeFacts, FileAssumption DEF Init
  <2> QED BY <2>1 DEF Init, RestTypes, PageTypes, FlagTypes, Reports
<1>4. GoalFits /\ DraftsFit /\ HooksAreServed /\ PortIsServed
  BY DEF Init, GoalFits, DraftsFit, HooksAreServed, PortIsServed, Writes, Runs,
     Actors
<1> QED BY <1>1, <1>2, <1>3, <1>4, Types DEF Base

(* Every step keeps Base.                                                  *)
LEMMA NextBase == Base /\ [Next]_vars => Base'
<1> SUFFICES ASSUME Base, [Next]_vars PROVE Base'
  OBVIOUS
<1>1. ASSUME NEW p \in Procs, Starting(p) PROVE Base'
  BY <1>1, StartBase DEF Starting
<1>2. ASSUME NEW p \in Procs, ProcStep(p) PROVE Base'
  BY <1>2, StartBase, ActorBase, ListenBase, WaitBase, ShutdownBase
  DEF ProcStep, Actors
<1>3. ASSUME NEW p \in Procs, Tick(p) \/ Kill(p) PROVE Base'
  BY <1>3, WaitBase, KillBase
<1>4. ASSUME NEW h \in Hooks, Post(h) \/ ActorStep(h) PROVE Base'
  BY <1>4, PostBase, ActorBase DEF Actors
<1>5. CASE UNCHANGED vars
  BY <1>5 DEF vars, local, flags, waiting, pages, Base, TypeOK, GoalFits,
     DraftsFit, HooksAreServed, PortIsServed, Writes, Runs, Serving
<1> QED BY <1>1, <1>2, <1>3, <1>4, <1>5 DEF Next

(* Base is an invariant of the login.                                      *)
THEOREM BaseHolds == Spec => []Base
<1> QED BY InitBase, NextBase, PTL DEF Spec

(* TypeOK holds for any processes, callbacks and keys: no step makes a     *)
(* half credential, or one whose token is not of its key.                  *)
THEOREM TypeCorrect == Spec => []TypeOK
<1>1. Base => TypeOK
  BY DEF Base
<1> QED BY <1>1, BaseHolds, PTL

(* A running callback has a login that has not ended: the server gives the *)
(* port back before it waits for its callbacks, so that no post can come   *)
(* when it has stopped to wait (Instance.Shutdown).                        *)
THEOREM CallbacksHaveALogin == Spec => []CallbacksAreWaitedFor
<1>1. Base => CallbacksAreWaitedFor
  BY DEF Base, HooksAreServed, CallbacksAreWaitedFor, Serving
<1> QED BY <1>1, BaseHolds, PTL

(* The file is an atomic register of whole credentials: only a rename, of  *)
(* a whole credential over a file that can be read, a relogin and a logout *)
(* write it.                                                               *)
THEOREM LoginImplementsRegister == Spec => RegisterSpec
<1>1. Init => Register!Init
  BY DEF Init, Register!Init, Register!TypeOK
<1>2. Base /\ [Next]_vars => [Register!Next]_file
  <2> SUFFICES ASSUME Base, [Next]_vars, file' # file PROVE Register!Next
    OBVIOUS
  <2>1. ASSUME NEW a \in Actors, Rename(a) PROVE Register!Next
    <3>1. file' = draft[a] /\ Writes(a)
      BY <2>1 DEF Rename, Leave, Writes
    <3>2. file # Undecodable /\ draft[a] \in Register!Whole
      BY <3>1, Zenon DEF Base, DraftsFit
    <3>3. Register!Store(draft[a])
      BY <3>1, <3>2 DEF Register!Store
    <3> QED BY <3>2, <3>3 DEF Register!Next
  <2>2. ASSUME NEW a \in Actors, ActorStep(a) PROVE Register!Next
    BY <2>1, <2>2 DEF ActorStep, Import, ReadKey, WriteTemp, WriteFails
  <2>3. ASSUME NEW p \in Procs, Starting(p) PROVE Register!Next
    BY <2>3 DEF Starting, StartLogin, StartRelogin, Logout, StartImport,
       StartSubmit, Leave, Register!Next, Register!Clear
  <2>4. ASSUME NEW p \in Procs, ProcStep(p) PROVE Register!Next
    BY <2>2, <2>4 DEF ProcStep, LoadSession, ResetLogin, Listen, WaitEnds,
       CheckFlags, CompareSnapshot, TryCredential, Shutdown, Exit, ForgetLogin,
       Actors
  <2>5. ASSUME NEW p \in Procs, Tick(p) \/ Kill(p) PROVE Register!Next
    BY <2>5 DEF Tick, Kill, ForgetLogin
  <2>6. ASSUME NEW h \in Hooks, Post(h) \/ ActorStep(h) PROVE Register!Next
    BY <2>2, <2>6 DEF Post, Actors
  <2> QED BY <2>3, <2>4, <2>5, <2>6 DEF Next, vars
<1> QED BY <1>1, <1>2, BaseHolds, PTL DEF Spec, RegisterSpec, Register!Spec

-----------------------------------------------------------------------------
(***************************************************************************)
(* What one login knows.                                                   *)
(***************************************************************************)
Awaits(p) == pc[p] = "listen" \/ Serving(p)

(* It reports once, and its page is up from the first key on.              *)
ToldFits(p) == pc[p] \notin {"stop", "drain", "done"} => told[p] = "nothing"

PageFits(p) ==
  /\ page[p] # NoKey => Serving(p)
  /\ pc[p] \in {"key", "write", "rename"} /\ goal[p] = "manual" =>
       page[p] # NoKey

(* As long as nobody else writes the file, nothing that waitForLogin looks *)
(* at says that the login is over.                                         *)
Quiet(p) ==
  ~moved[p] =>
    /\ Awaits(p) => ~completed[p] /\ snap[p] \in {NoSnap, Snapshot}
    /\ pc[p] = "reset" \/ Awaits(p) => ~Usable(file)

(* The login writes a key only when there was no credential at its start,  *)
(* and for the manual page only when somebody has removed its key.         *)
WriteFits(p) ==
  Writes(p) =>
    /\ goal[p] = "auth" /\ ~moved[p] => snap[p] = NoSnap
    /\ goal[p] = "manual" => moved[p]

Success(p) == page[p] # NoKey /\ told[p] = "success" => moved[p]

OnFile(p) ==
  page[p] # NoKey /\ Runs(p) /\ ~moved[p] =>
    file \in Credentials /\ file.key = page[p]

LoginFits(p) ==
  /\ ToldFits(p) /\ PageFits(p) /\ Quiet(p) /\ WriteFits(p)
  /\ Success(p) /\ OnFile(p)

(* What the steps of others do to it.                                      *)
Untouched(q) ==
  /\ pc'[q] = pc[q] /\ goal'[q] = goal[q] /\ told'[q] = told[q]
  /\ page'[q] = page[q] /\ snap'[q] = snap[q]
  /\ \/ UNCHANGED file /\ moved'[q] = moved[q]
     \/ moved'[q] = (moved[q] \/ Runs(q))
  /\ completed'[q] => completed[q] \/ moved'[q]

(* What a login knows survives every step of others.                       *)
LEMMA Undisturbed ==
  ASSUME Base, NEW q \in Procs, LoginFits(q), Untouched(q)
  PROVE  LoginFits(q)'
<1>1. /\ moved[q] \in BOOLEAN
      /\ Serving(q)' = Serving(q) /\ Runs(q)' = Runs(q) /\ Writes(q)' = Writes(q)
      /\ Serving(q) \/ pc[q] \in {"listen", "reset"} \/ Writes(q) => Runs(q)
  BY Types DEF Base, RestTypes, Untouched, Serving, Runs, Writes
<1>2. CASE UNCHANGED file /\ moved'[q] = moved[q]
  <2>1. Snapshot' = Snapshot /\ Usable(file)' = Usable(file)
    BY <1>2 DEF Snapshot, Usable
  <2>2. ToldFits(q)' /\ PageFits(q)'
    BY <1>1 DEF LoginFits, ToldFits, PageFits, Untouched
  <2>3. Quiet(q)'
    BY <1>1, <1>2, <2>1 DEF LoginFits, Quiet, Awaits, Untouched
  <2>4. WriteFits(q)' /\ Success(q)' /\ OnFile(q)'
    BY <1>1, <1>2 DEF LoginFits, WriteFits, Success, OnFile, Untouched
  <2> QED BY <2>2, <2>3, <2>4 DEF LoginFits
<1>3. CASE moved'[q] = (moved[q] \/ Runs(q))
  <2>1. ToldFits(q)' /\ PageFits(q)'
    BY <1>1 DEF LoginFits, ToldFits, PageFits, Untouched
  <2>2. Quiet(q)'
    BY <1>1, <1>3 DEF Quiet, Awaits, Untouched
  <2>3. WriteFits(q)' /\ Success(q)' /\ OnFile(q)'
    BY <1>1, <1>3 DEF LoginFits, WriteFits, Success, OnFile, Untouched, PageFits
  <2> QED BY <2>1, <2>2, <2>3 DEF LoginFits
<1> QED BY <1>2, <1>3 DEF Untouched

(* An import or a key of another actor leaves a login untouched.           *)
LEMMA OthersOfActor ==
  ASSUME Base, NEW a \in Actors, ActorStep(a), NEW q \in Procs, q # a
  PROVE  Untouched(q)
<1>1. /\ ActorTypes /\ RestTypes /\ FlagTypes /\ PageTypes /\ q \in Actors
      /\ HooksAreServed
  BY Types DEF Base, RestTypes, Actors
<1>2. a \in Hooks /\ Runs(a) /\ host[a] = q => Runs(q)
  BY <1>1 DEF HooksAreServed, Serving, Runs
<1>3. Forget(a) => goal'[q] = goal[q]
  BY <1>1 DEF Forget, ActorTypes
<1>4. \A w : Finish(a, w) => pc'[q] = pc[q] /\ told'[q] = told[q]
  BY <1>1 DEF Finish, Goto, ActorTypes, RestTypes
<1>5. \A l : Goto(a, l) => pc'[q] = pc[q]
  BY <1>1 DEF Goto, ActorTypes
<1>6. \A g : goal' = [goal EXCEPT ![a] = g] => goal'[q] = goal[q]
  BY <1>1 DEF ActorTypes
<1>7. \A k : page' = [page EXCEPT ![a] = k] => page'[q] = page[q]
  BY <1>1 DEF PageTypes
<1> DEFINE Same == pc'[q] = pc[q] /\ goal'[q] = goal[q] /\ told'[q] = told[q]
<1>8. \A lk, k : Decide(a, lk, k) => Same
  BY <1>3, <1>4, <1>5, <1>6 DEF Decide
<1>9. \A k : GotKey(a, k) => Same /\ page'[q] = page[q]
  BY <1>3, <1>5, <1>6, <1>7, <1>8 DEF GotKey
<1>10. NoKeyFor(a) => Same /\ page'[q] = page[q]
  BY <1>1, <1>3, <1>4, <1>5 DEF NoKeyFor, Say, RestTypes
<1>11. CASE Import(a)
  <2>1. Same
    BY <1>3, <1>4, <1>5, <1>6, <1>8, <1>11, Zenon DEF Import
  <2>2. completed'[q] => completed[q]
    BY <1>1, <1>11 DEF Import, flags, FlagTypes
  <2> QED
    BY <1>11, <2>1, <2>2 DEF Import, Untouched, waiting, pages
<1>12. CASE ReadKey(a)
  <2>1. Same /\ page'[q] = page[q]
    BY <1>5, <1>9, <1>10, <1>12, Zenon DEF ReadKey
  <2> QED BY <1>12, <2>1 DEF ReadKey, Untouched, waiting, flags
<1>13. CASE WriteTemp(a)
  BY <1>5, <1>13 DEF WriteTemp, Untouched, waiting, flags, pages, local
<1>14. CASE Rename(a)
  <2>1. Same /\ page'[q] = page[q]
    BY <1>3, <1>4, <1>9, <1>14, Zenon DEF Rename
  <2>2. moved'[q] = (moved[q] \/ Runs(q))
    BY <1>14 DEF Rename, Leave
  <2>3. completed'[q] => completed[q] \/ (a \in Hooks /\ host[a] = q)
    BY <1>1, <1>14 DEF Rename, flags, FlagTypes, Owner, Actors
  <2>4. Runs(a)
    BY <1>14 DEF Rename, Runs
  <2>5. completed'[q] => completed[q] \/ moved'[q]
    BY <1>2, <2>2, <2>3, <2>4
  <2> QED BY <1>14, <2>1, <2>2, <2>5 DEF Rename, Untouched, waiting
<1>15. CASE WriteFails(a)
  BY <1>10, <1>15 DEF WriteFails, Untouched, waiting, flags
<1> QED BY <1>11, <1>12, <1>13, <1>14, <1>15 DEF ActorStep

(* The steps that only processes take, and the posts.                      *)
ProcessOnly(p) ==
  \/ Starting(p) \/ LoadSession(p) \/ ResetLogin(p) \/ Listen(p) \/ WaitEnds(p)
  \/ CheckFlags(p) \/ CompareSnapshot(p) \/ TryCredential(p) \/ Tick(p)
  \/ Shutdown(p) \/ Exit(p) \/ Kill(p)

(* So does every other step of another process,                            *)
LEMMA OthersOfProcess ==
  ASSUME Base, NEW p \in Procs, ProcessOnly(p), NEW q \in Procs, q # p
  PROVE  Untouched(q)
<1>1. ActorTypes /\ RestTypes /\ FlagTypes /\ PageTypes /\ q \in Actors
  BY Types DEF Base, RestTypes, Actors
<1>2. \A w : Finish(p, w) => pc'[q] = pc[q] /\ told'[q] = told[q]
  BY <1>1 DEF Finish, Goto, ActorTypes, RestTypes
<1>3. \A l : Goto(p, l) => pc'[q] = pc[q]
  BY <1>1 DEF Goto, ActorTypes
<1>4. \A w : Stop(p, w) => pc'[q] = pc[q] /\ told'[q] = told[q]
  BY <1>1, <1>3 DEF Stop, Say, RestTypes
<1>5. ForgetLogin(p) =>
        /\ told'[q] = told[q] /\ page'[q] = page[q] /\ snap'[q] = snap[q]
        /\ UNCHANGED file /\ moved'[q] = moved[q] /\ completed'[q] = completed[q]
  BY <1>1 DEF ForgetLogin, RestTypes, FlagTypes, PageTypes
<1>6. CASE StartLogin(p) \/ StartSubmit(p) \/ LoadSession(p) \/ StartImport(p)
  BY <1>2, <1>3, <1>6
  DEF StartLogin, StartSubmit, LoadSession, StartImport, Untouched, local, flags,
      waiting, pages
<1>7. CASE StartRelogin(p) \/ Logout(p)
  BY <1>2, <1>3, <1>7
  DEF StartRelogin, Logout, Leave, Untouched, local, flags, waiting, pages
<1>8. CASE ResetLogin(p)
  BY <1>1, <1>3, <1>8
  DEF ResetLogin, Untouched, local, pages, RestTypes, FlagTypes
<1>9. CASE Listen(p)
  <2>1. goal'[q] = goal[q]
    BY <1>1, <1>9 DEF Listen, ActorTypes
  <2> QED BY <1>2, <1>3, <1>9, <2>1 DEF Listen, Untouched, flags, waiting, pages
<1>10. CASE WaitEnds(p) \/ CompareSnapshot(p) \/ TryCredential(p) \/ CheckFlags(p)
  BY <1>3, <1>4, <1>10
  DEF WaitEnds, CompareSnapshot, TryCredential, CheckFlags, Untouched, local,
      flags, waiting, pages
<1>11. CASE Tick(p)
  BY <1>11 DEF Tick, Untouched, local, flags, pages
<1>12. CASE Shutdown(p)
  BY <1>3, <1>12 DEF Shutdown, Untouched, local, flags, waiting, pages
<1>13. CASE Exit(p)
  BY <1>3, <1>5, <1>13 DEF Exit, Untouched, local
<1>14. CASE Kill(p)
  <2>1. q \notin {p} \cup HooksOf(p)
    BY ActorsAssumption DEF HooksOf
  <2>2. pc'[q] = pc[q] /\ goal'[q] = goal[q]
    BY <1>1, <1>14, <2>1, Zenon DEF Kill
  <2>3. ForgetLogin(p)
    BY <1>14 DEF Kill
  <2> QED BY <1>5, <2>2, <2>3 DEF Untouched
<1> QED BY <1>6, <1>7, <1>8, <1>9, <1>10, <1>11, <1>12, <1>13, <1>14
        DEF ProcessOnly, Starting

(* and a post.                                                             *)
LEMMA OthersOfPost ==
  ASSUME Base, NEW h \in Hooks, Post(h), NEW q \in Procs
  PROVE  Untouched(q)
<1>1. q # h /\ q \in Actors /\ ActorTypes
  BY Types, ActorsAssumption DEF Base, Actors
<1> QED
  BY <1>1 DEF Post, Goto, Untouched, ActorTypes, flags, waiting, pages

-----------------------------------------------------------------------------
(* A process that ends or has not begun to serve claims little.            *)
LEMMA IdleFits ==
  ASSUME NEW p \in Procs, page'[p] = NoKey,
         pc'[p] \in {"done", "idle", "session", "import"},
         pc'[p] # "done" => told'[p] = "nothing"
  PROVE  LoginFits(p)'
BY DEF LoginFits, ToldFits, PageFits, Quiet, WriteFits, Success, OnFile, Awaits,
   Serving, Writes

(* What a login knows survives its own steps.                              *)
LEMMA OwnProcess ==
  ASSUME Base, NEW p \in Procs, ProcessOnly(p), LoginFits(p)
  PROVE  LoginFits(p)'
<1>1. ActorTypes /\ RestTypes /\ FlagTypes /\ PageTypes /\ p \in Actors
  BY Types DEF Base, RestTypes, Actors
<1>2. \A w : Finish(p, w) => pc'[p] = "done"
  BY <1>1 DEF Finish, Goto, ActorTypes
<1>3. \A l : Goto(p, l) => pc'[p] = l
  BY <1>1 DEF Goto, ActorTypes
<1>4. \A w : Stop(p, w) => pc'[p] = "stop" /\ told'[p] = w
  BY <1>1, <1>3 DEF Stop, Say, RestTypes
<1>5. ~Serving(p) => page[p] = NoKey
  BY DEF LoginFits, PageFits
<1>6. pc[p] \notin {"stop", "drain", "done"} => told[p] = "nothing"
  BY DEF LoginFits, ToldFits
<1> DEFINE Reset == /\ pc'[p] = "reset" /\ told'[p] = "nothing"
                    /\ page'[p] = NoKey /\ ~Usable(file)'
<1>7. Reset => LoginFits(p)'
  BY DEF LoginFits, ToldFits, PageFits, Quiet, WriteFits, Success, OnFile, Awaits,
     Serving, Writes
<1>8. CASE StartLogin(p)
  <2>1. page'[p] = NoKey /\ pc[p] = "idle" /\ UNCHANGED file
    BY <1>5, <1>8 DEF StartLogin, Starts, Serving, pages
  <2>2. CASE ~Usable(file) /\ Goto(p, "reset") /\ UNCHANGED told
    BY <1>3, <1>6, <1>7, <2>1, <2>2 DEF Usable
  <2>3. CASE \E w : Finish(p, w)
    BY <1>2, <2>1, <2>3, IdleFits
  <2> QED BY <1>8, <2>2, <2>3 DEF StartLogin
<1>9. CASE StartRelogin(p)
  <2>1. page'[p] = NoKey /\ pc[p] = "idle" /\ file' = Absent /\ told' = told
    BY <1>5, <1>9 DEF StartRelogin, Starts, Serving, pages, Leave
  <2>2. ~Usable(file)'
    BY <2>1 DEF Usable
  <2> QED BY <1>3, <1>6, <1>7, <1>9, <2>1, <2>2 DEF StartRelogin
<1>10. CASE Logout(p)
  BY <1>2, <1>5, <1>10, IdleFits DEF Logout, Starts, Serving, pages
<1>11. CASE StartImport(p)
  BY <1>3, <1>5, <1>6, <1>11, IdleFits DEF StartImport, Starts, Serving, pages
<1>12. CASE StartSubmit(p) \/ LoadSession(p)
  BY <1>2, <1>3, <1>5, <1>6, <1>12, IdleFits
  DEF StartSubmit, LoadSession, Starts, Serving, pages
<1>13. CASE ResetLogin(p)
  <2>1. /\ pc[p] = "reset" /\ pc'[p] = "listen" /\ page'[p] = NoKey
        /\ told'[p] = "nothing" /\ UNCHANGED <<file, moved>>
        /\ completed'[p] = FALSE /\ snap'[p] = Snapshot
    BY <1>1, <1>3, <1>5, <1>6, <1>13
    DEF ResetLogin, Serving, pages, FlagTypes, RestTypes
  <2>2. Usable(file)' = Usable(file) /\ Snapshot' = Snapshot
    BY <2>1 DEF Usable, Snapshot
  <2>3. Quiet(p)'
    BY <2>1, <2>2 DEF LoginFits, Quiet
  <2> QED
    BY <2>1, <2>3 DEF LoginFits, ToldFits, PageFits, WriteFits, Success, OnFile,
       Serving, Writes
<1>14. CASE Listen(p)
  <2>1. CASE port = Nobody
    <3>1. /\ pc[p] = "listen" /\ pc'[p] = "key" /\ goal'[p] = "auth"
          /\ page'[p] = NoKey /\ told'[p] = "nothing"
          /\ UNCHANGED <<file, moved, completed, snap>>
      BY <1>1, <1>3, <1>5, <1>6, <1>14, <2>1
      DEF Listen, Serving, pages, flags, waiting, ActorTypes
    <3>2. Usable(file)' = Usable(file) /\ Snapshot' = Snapshot
      BY <3>1 DEF Usable, Snapshot
    <3>3. Quiet(p)'
      BY <3>1, <3>2 DEF LoginFits, Quiet, Awaits
    <3> QED
      BY <3>1, <3>3 DEF LoginFits, ToldFits, PageFits, WriteFits, Success, OnFile,
         Serving, Writes
  <2>2. CASE port # Nobody
    BY <1>2, <1>5, <1>14, <2>2, IdleFits DEF Listen, Serving, pages
  <2> QED BY <2>1, <2>2
<1>15. ASSUME pc[p] \in {"wait", "snap", "use", "stop"},
              pc'[p] \in {"wait", "snap", "use", "stop", "drain"},
              pc'[p] = "stop" /\ told'[p] = "success" => moved[p],
              pc'[p] # "stop" => UNCHANGED told,
              pc[p] = "stop" <=> pc'[p] = "drain",
              UNCHANGED <<file, page, moved, completed, snap>>
       PROVE  LoginFits(p)'
  <2>1. Usable(file)' = Usable(file) /\ Snapshot' = Snapshot
    BY <1>15 DEF Usable, Snapshot
  <2>2. Serving(p) /\ Serving(p)' /\ Runs(p) /\ ~Writes(p)'
    BY <1>15 DEF Serving, Runs, Writes
  <2>3. Quiet(p)'
    BY <1>15, <2>1, <2>2 DEF LoginFits, Quiet, Awaits
  <2>4. ToldFits(p)' /\ PageFits(p)' /\ WriteFits(p)'
    BY <1>6, <1>15, <2>2 DEF ToldFits, PageFits, WriteFits
  <2>5. Success(p)'
    BY <1>15 DEF LoginFits, Success
  <2>6. OnFile(p)'
    BY <1>15, <2>2 DEF LoginFits, OnFile
  <2> QED BY <2>3, <2>4, <2>5, <2>6 DEF LoginFits
<1>16. pc[p] \in {"wait", "snap", "use"} /\ ~moved[p] =>
         ~completed[p] /\ ~HasChanged(p) /\ ~Usable(file)
  BY DEF LoginFits, Quiet, Awaits, Serving, HasChanged
<1>17. CASE WaitEnds(p)
  <2>1. told'[p] = "success" => completed[p]
    BY <1>4, <1>17 DEF WaitEnds
  <2> QED BY <1>4, <1>15, <1>16, <1>17, <2>1
          DEF WaitEnds, flags, waiting, pages
<1>18. CASE CheckFlags(p)
  BY <1>3, <1>15, <1>18 DEF CheckFlags, WaitGoesOn, flags, waiting, pages
<1>19. CASE CompareSnapshot(p)
  BY <1>3, <1>4, <1>15, <1>16, <1>19 DEF CompareSnapshot, flags, waiting, pages
<1>20. CASE TryCredential(p)
  BY <1>3, <1>4, <1>15, <1>16, <1>20 DEF TryCredential, flags, waiting, pages
<1>21. CASE Tick(p)
  BY <1>15, <1>21 DEF Tick, flags, pages
<1>22. CASE Shutdown(p)
  BY <1>3, <1>15, <1>22 DEF Shutdown, flags, waiting, pages
<1>23. CASE Exit(p)
  BY <1>1, <1>3, <1>23, IdleFits DEF Exit, ForgetLogin, PageTypes
<1>24. CASE Kill(p)
  <2>1. pc'[p] = "done"
    BY <1>1, <1>24, Zenon DEF Kill
  <2> QED BY <1>1, <1>24, <2>1, IdleFits DEF Kill, ForgetLogin, PageTypes
<1> QED BY <1>8, <1>9, <1>10, <1>11, <1>12, <1>13, <1>14, <1>17, <1>18, <1>19,
           <1>20, <1>21, <1>22, <1>23, <1>24 DEF ProcessOnly, Starting

(* An import, whoever runs it, is no login.                                *)
LEMMA ImportFits ==
  ASSUME NEW p \in Procs, page'[p] = NoKey,
         \/ pc'[p] = "done"
         \/ /\ pc'[p] \in {"key", "write", "rename"}
            /\ goal'[p] \in {"resolve", "import"} /\ told'[p] = "nothing"
  PROVE  LoginFits(p)'
BY DEF LoginFits, ToldFits, PageFits, Quiet, WriteFits, Success, OnFile, Awaits,
   Serving, Writes

(* The steps of an import that a command runs itself.                      *)
LEMMA OwnImport ==
  ASSUME Base, NEW p \in Procs, ActorStep(p), LoginFits(p),
         pc[p] = "import" \/ goal[p] \notin {"auth", "manual"}
  PROVE  LoginFits(p)'
<1>1. ActorTypes /\ RestTypes /\ PageTypes /\ p \in Actors /\ GoalFits
  BY Types DEF Base, RestTypes, Actors
<1>2. pc[p] \in {"import", "key", "write", "rename"}
  BY DEF ActorStep, Import, ReadKey, WriteTemp, Rename, WriteFails
<1>3. page[p] = NoKey /\ told[p] = "nothing" /\ ~Serving(p)
  BY <1>2 DEF LoginFits, PageFits, ToldFits, Serving
<1> DEFINE Done == pc'[p] = "done"
           Busy(l, g) == pc'[p] = l /\ goal'[p] = g /\ told' = told
           Ok == \/ Done
                 \/ \E l \in {"key", "write", "rename"},
                       g \in {"resolve", "import"} : Busy(l, g)
<1>4. \A w : Finish(p, w) => Done
  BY <1>1 DEF Finish, Goto, ActorTypes
<1>5. \A l : Goto(p, l) => pc'[p] = l
  BY <1>1 DEF Goto, ActorTypes
<1>6. \A g : goal' = [goal EXCEPT ![p] = g] => goal'[p] = g
  BY <1>1 DEF ActorTypes
<1>7. \A lk, k : Decide(p, lk, k) => Ok
  BY <1>4, <1>5, <1>6 DEF Decide
<1>8. \A k : pc[p] # "import" /\ GotKey(p, k) => Ok /\ page' = page
  BY <1>7 DEF GotKey
<1>9. pc[p] # "import" /\ NoKeyFor(p) => Done /\ page' = page
  BY <1>4 DEF NoKeyFor
<1>10. CASE Import(p)
  <2>1. Ok
    BY <1>4, <1>5, <1>6, <1>7, <1>10 DEF Import
  <2> QED BY <1>3, <1>10, <2>1, ImportFits DEF Import, pages
<1>11. CASE ReadKey(p)
  <2>1. pc[p] = "key" /\ goal[p] = "resolve"
    BY <1>1, <1>11 DEF ReadKey, GoalFits
  <2>2. Ok /\ page' = page
    BY <1>5, <1>8, <1>9, <1>11, <2>1 DEF ReadKey
  <2> QED BY <1>3, <2>2, ImportFits
<1>12. CASE WriteTemp(p)
  <2>1. pc[p] = "write" /\ goal[p] \in {"resolve", "import"}
    BY <1>1, <1>12 DEF WriteTemp, GoalFits, Writes, ActorTypes
  <2>2. Busy("rename", goal[p]) /\ page' = page
    BY <1>5, <1>12 DEF WriteTemp, local, pages
  <2> QED BY <1>3, <2>1, <2>2, ImportFits
<1>13. CASE Rename(p)
  <2>1. pc[p] = "rename"
    BY <1>13 DEF Rename
  <2>2. Ok /\ page' = page
    BY <1>4, <1>8, <1>13, <2>1 DEF Rename
  <2> QED BY <1>3, <2>2, ImportFits
<1>14. CASE WriteFails(p)
  <2>1. Done /\ page' = page
    BY <1>9, <1>14 DEF WriteFails
  <2> QED BY <1>3, <2>1, ImportFits
<1> QED BY <1>10, <1>11, <1>12, <1>13, <1>14 DEF ActorStep

(* The key of the authorization URL, and then that of the manual page.     *)
LEMMA OwnKey ==
  ASSUME Base, NEW p \in Procs, LoginFits(p), goal[p] \in {"auth", "manual"},
         ReadKey(p) \/ WriteTemp(p) \/ Rename(p) \/ WriteFails(p)
  PROVE  LoginFits(p)'
<1>1. /\ ActorTypes /\ RestTypes /\ PageTypes /\ p \in Actors /\ GoalFits
      /\ DraftsFit /\ moved[p] \in BOOLEAN
  BY Types DEF Base, RestTypes, Actors
<1>2. pc[p] \in {"key", "write", "rename"}
  BY DEF ReadKey, WriteTemp, Rename, WriteFails
<1>3. /\ Serving(p) /\ Awaits(p) /\ Runs(p) /\ told[p] = "nothing"
      /\ pc[p] \notin {"stop", "drain", "done"}
  BY <1>2 DEF Serving, Awaits, Runs, LoginFits, ToldFits
<1>4. \A l : Goto(p, l) => pc'[p] = l
  BY <1>1 DEF Goto, ActorTypes
<1>5. Forget(p) => goal'[p] = "none"
  BY <1>1 DEF Forget, ActorTypes
<1>6. Quiet(p) /\ WriteFits(p) /\ Success(p) /\ OnFile(p) /\ PageFits(p)
  BY DEF LoginFits
(* Where it goes from here, as long as nothing is written.                 *)
<1>7. ASSUME UNCHANGED <<file, moved, completed, snap, page>>,
             \/ pc'[p] = "stop" /\ told'[p] = "error"
             \/ pc'[p] = "wait" /\ told'[p] = "nothing"
             \/ /\ pc'[p] \in {"write", "rename"} /\ told'[p] = "nothing"
                /\ goal'[p] = goal[p]
                /\ goal[p] = "auth" /\ ~moved[p] => snap[p] = NoSnap
                /\ goal[p] = "manual" => moved[p]
      PROVE  LoginFits(p)'
  <2>1. Usable(file)' = Usable(file) /\ Snapshot' = Snapshot
    BY <1>7 DEF Usable, Snapshot
  <2>2. Serving(p)' /\ pc'[p] # "reset"
    BY <1>7 DEF Serving
  <2>3. Quiet(p)'
    BY <1>3, <1>6, <1>7, <2>1, <2>2 DEF Quiet, Awaits
  <2>4. ToldFits(p)'
    BY <1>7 DEF ToldFits
  <2>5. PageFits(p)'
    BY <1>2, <1>6, <1>7, <2>2 DEF PageFits
  <2>6. WriteFits(p)'
    BY <1>7 DEF WriteFits, Writes
  <2>7. Success(p)'
    BY <1>7 DEF Success
  <2>8. OnFile(p)'
    BY <1>3, <1>6, <1>7 DEF OnFile
  <2> QED BY <2>3, <2>4, <2>5, <2>6, <2>7, <2>8 DEF LoginFits
<1>8. ASSUME NoKeyFor(p), UNCHANGED <<file, moved, completed, snap>>
      PROVE  LoginFits(p)'
  <2>1. \/ pc'[p] = "stop" /\ told'[p] = "error"
        \/ pc'[p] = "wait" /\ told'[p] = "nothing"
    BY <1>1, <1>3, <1>4, <1>8 DEF NoKeyFor, Say, RestTypes
  <2> QED BY <1>7, <1>8, <2>1 DEF NoKeyFor
(* A key that is on file, or that is moved over.                           *)
<1>9. ASSUME NEW k \in Keys, GotKey(p, k), UNCHANGED <<completed, snap>>,
             moved'[p] = moved[p],
             ~moved[p] => /\ file' \in Credentials /\ file'.key = k
                          /\ ~Usable(file)' /\ snap[p] \in {NoSnap, Snapshot'}
                          /\ goal[p] = "manual" => page[p] = k
      PROVE  LoginFits(p)'
  <2>1. CASE goal[p] = "auth"
    <3>1. /\ page'[p] = k /\ goal'[p] = "manual" /\ pc'[p] = "key"
          /\ told'[p] = "nothing" /\ k # NoKey
      BY <1>1, <1>3, <1>4, <1>9, <2>1, KeysAssumption
      DEF GotKey, PageTypes, ActorTypes
    <3>2. ToldFits(p)' /\ PageFits(p)' /\ WriteFits(p)' /\ Success(p)'
      BY <3>1 DEF ToldFits, PageFits, WriteFits, Success, Writes, Serving
    <3>3. Quiet(p)'
      BY <1>3, <1>6, <1>9, <3>1 DEF Quiet, Awaits
    <3>4. OnFile(p)'
      BY <1>9, <3>1 DEF OnFile
    <3> QED BY <3>2, <3>3, <3>4 DEF LoginFits
  <2>2. CASE goal[p] = "manual"
    <3>1. /\ page' = page /\ goal'[p] = "none" /\ pc'[p] = "wait"
          /\ told'[p] = "nothing"
      BY <1>3, <1>4, <1>5, <1>9, <2>2 DEF GotKey
    <3>2. ToldFits(p)' /\ PageFits(p)' /\ WriteFits(p)' /\ Success(p)'
      BY <3>1 DEF ToldFits, PageFits, WriteFits, Success, Writes, Serving
    <3>3. Quiet(p)'
      BY <1>3, <1>6, <1>9, <3>1 DEF Quiet, Awaits
    <3>4. OnFile(p)'
      BY <1>9, <2>2, <3>1 DEF OnFile
    <3> QED BY <3>2, <3>3, <3>4 DEF LoginFits
  <2> QED BY <2>1, <2>2
<1>10. file \in Register!Whole \cup {Absent, Undecodable}
  BY Types DEF Base
<1>11. CASE ReadKey(p)
  <2>1. UNCHANGED <<file, moved, completed, snap>> /\ pc[p] = "key"
    BY <1>11 DEF ReadKey, flags, waiting
  <2>2. CASE NoKeyFor(p)
    BY <1>8, <2>1, <2>2
  <2>3. CASE /\ file # Undecodable /\ Loaded.key # NoKey
             /\ GotKey(p, Loaded.key)
    <3>1. /\ file \in Credentials /\ file.key = Loaded.key
          /\ Loaded.key \in Keys
      BY <1>10, <2>3, WholeFacts DEF Loaded, Empty
    <3>2. Usable(file)' = Usable(file) /\ Snapshot' = Snapshot
      BY <2>1 DEF Usable, Snapshot
    <3>3. ~moved[p] => ~Usable(file) /\ snap[p] \in {NoSnap, Snapshot}
      BY <1>3, <1>6 DEF Quiet
    <3>4. ~moved[p] /\ goal[p] = "manual" => page[p] = Loaded.key
      BY <1>2, <1>3, <1>6, <3>1 DEF OnFile, PageFits
    <3>5. file' = file
      BY <2>1
    <3> QED BY <1>9, <2>1, <2>3, <3>1, <3>2, <3>3, <3>4, <3>5, Zenon
  <2>4. ASSUME file # Undecodable, Loaded.key = NoKey, Goto(p, "write"),
               UNCHANGED <<goal, page, told>>
        PROVE  LoginFits(p)'
    <3>1. file = Absent
      BY <1>10, <2>4, WholeFacts DEF Loaded
    <3>2. Snapshot = NoSnap
      BY <3>1 DEF Snapshot
    <3>3. ~moved[p] => snap[p] = NoSnap
      BY <1>3, <1>6, <3>2 DEF Quiet
    <3>4. goal[p] = "manual" => moved[p]
      BY <1>1, <1>2, <1>3, <1>6, <3>1, FileAssumption DEF OnFile, PageFits
    <3> QED BY <1>3, <1>4, <1>7, <2>1, <2>4, <3>3, <3>4
  <2> QED BY <1>11, <2>2, <2>3, <2>4 DEF ReadKey
<1>12. CASE WriteTemp(p)
  <2>1. /\ pc[p] = "write" /\ pc'[p] = "rename"
        /\ UNCHANGED <<file, moved, completed, snap, page, goal, told>>
    BY <1>4, <1>12 DEF WriteTemp, flags, waiting, pages, local
  <2> QED BY <1>3, <1>6, <1>7, <2>1 DEF WriteFits, Writes
<1>13. CASE Rename(p)
  <2>1. /\ pc[p] = "rename" /\ file' = draft[p] /\ draft[p] \in Register!Whole
        /\ draft[p].token = NoToken
        /\ UNCHANGED <<completed, snap>> /\ GotKey(p, draft[p].key)
    BY <1>1, <1>13 DEF Rename, Leave, DraftsFit, Writes, flags, waiting
  <2>2. moved' = [q \in Procs |-> moved[q] \/ (q # p /\ Runs(q))]
    BY <1>13 DEF Rename, Leave
  <2>3. moved'[p] = moved[p]
    BY <1>1, <2>2
  <2>4. draft[p].key \in Keys /\ file' \in Credentials
    BY <2>1, WholeFacts
  <2>5. ~Usable(file)'
    BY <2>1 DEF Usable, Decodes, Register!Decodes
  <2>6. ~moved[p] => snap[p] = NoSnap /\ goal[p] # "manual"
    BY <1>6, <2>1 DEF WriteFits, Writes
  <2> QED
    BY <1>9, <2>1, <2>3, <2>4, <2>5, <2>6
<1>14. CASE WriteFails(p)
  BY <1>8, <1>14 DEF WriteFails, flags, waiting
<1> QED BY <1>11, <1>12, <1>13, <1>14

-----------------------------------------------------------------------------
Knows == \A p \in Procs : LoginFits(p)
IInv == Base /\ Knows

(* Nothing is known, and nothing claimed, at the start.                    *)
LEMMA InitKnows == Init => Knows
BY DEF Init, Knows, LoginFits, ToldFits, PageFits, Quiet, WriteFits, Success,
   OnFile, Awaits, Serving, Writes, Actors

(* Every step keeps what each login knows.                                 *)
LEMMA NextKnows == IInv /\ [Next]_vars => Knows'
<1> SUFFICES ASSUME Base, Knows, [Next]_vars, NEW q \in Procs
             PROVE  LoginFits(q)'
  BY DEF IInv, Knows
<1>1. LoginFits(q)
  BY DEF Knows
<1>2. ASSUME NEW a \in Actors, ActorStep(a) PROVE LoginFits(q)'
  <2>1. CASE a # q
    BY <1>1, <1>2, <2>1, OthersOfActor, Undisturbed
  <2>2. CASE a = q /\ (pc[q] = "import" \/ goal[q] \notin {"auth", "manual"})
    BY <1>1, <1>2, <2>2, OwnImport
  <2>3. CASE a = q /\ pc[q] # "import" /\ goal[q] \in {"auth", "manual"}
    <3>1. ReadKey(q) \/ WriteTemp(q) \/ Rename(q) \/ WriteFails(q)
      BY <1>2, <2>3 DEF ActorStep, Import
    <3> QED BY <1>1, <2>3, <3>1, OwnKey
  <2> QED BY <2>1, <2>2, <2>3
<1>3. ASSUME NEW p \in Procs, ProcessOnly(p) PROVE LoginFits(q)'
  BY <1>1, <1>3, OthersOfProcess, Undisturbed, OwnProcess
<1>4. ASSUME NEW h \in Hooks, Post(h) PROVE LoginFits(q)'
  BY <1>1, <1>4, OthersOfPost, Undisturbed
<1>5. CASE UNCHANGED vars
  <2>1. Untouched(q)
    BY <1>5 DEF vars, Untouched, local, flags, waiting, pages
  <2> QED BY <1>1, <2>1, Undisturbed
<1> QED BY <1>2, <1>3, <1>4, <1>5 DEF Next, ProcStep, ProcessOnly, Actors

(* The inductive invariant of the login.                                   *)
THEOREM Inductive == Spec => []IInv
<1>1. Init => IInv
  BY InitBase, InitKnows DEF IInv
<1>2. IInv /\ [Next]_vars => IInv'
  BY NextBase, NextKnows DEF IInv
<1> QED BY <1>1, <1>2, PTL DEF Spec

(* A login that reports success owes it to somebody else's write: its own  *)
(* new key never looks like a login to waitForLogin, because it is saved   *)
(* only when there was nothing to compare with.                            *)
THEOREM SuccessIsCaused == Spec => []SuccessHasCause
<1>1. IInv => SuccessHasCause
  BY DEF IInv, Knows, LoginFits, Success, SuccessHasCause
<1> QED BY <1>1, Inductive, PTL

(* The answer to the page of a login can be imported while nobody else     *)
(* writes the file: the manual page takes the same key, and never a new    *)
(* one (prepareLoginSecretKey).                                            *)
THEOREM PageKeyStays == Spec => []PageKeyIsOnFile
<1>1. IInv => PageKeyIsOnFile
  BY DEF IInv, Knows, LoginFits, OnFile, PageKeyIsOnFile
<1> QED BY <1>1, Inductive, PTL
=============================================================================
