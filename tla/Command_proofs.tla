--------------------------- MODULE Command_proofs ---------------------------
(***************************************************************************)
(* Proofs about Command, for any number of processes and command lines and *)
(* whatever the backend replies: what the update checks of concurrent      *)
(* commands do to version.json and to each other, and which files are      *)
(* uploaded for a request.                                                 *)
(*                                                                         *)
(* That a process was started in the hour after a notice does not make it  *)
(* quiet by itself: its check may be anywhere when another process writes  *)
(* version.json, prints or exits.  IInv ties the three together: as long   *)
(* as the hour is quiet, version.json is whole and fresh, and the check of *)
(* a calm process has not come past the two places where it looks at it.   *)
(*                                                                         *)
(* The files go through a parser that splits the first value of a flag at  *)
(* its commas and appends later ones.  Entry is what it keeps true of an   *)
(* input after each argument, along the sequence of its states (Steps);    *)
(* lists of files are compared through what is not blank in them, which    *)
(* takes lemmas about FlattenSeq that are proved first.  FilesInv carries  *)
(* the request from the line it was built from to the end of the command.  *)
(*                                                                         *)
(* What a poll shows is what the code makes of a reply of unknown shape.   *)
(* The searches through it are taken a level at a time: a node in a layer  *)
(* of wrappers leads to the items when the layers inside do, and nothing   *)
(* that is found was not in the reply.  PollInv ties the item to the id    *)
(* that the submission gave the task.                                      *)
(***************************************************************************)
EXTENDS Command, HistoryReply, SequenceTheorems, FiniteSetTheorems,
        WellFoundedInduction, TLAPS

Places == {"none", "read", "cache", "write", "fill", "stat", "directory", "download"}
Versions == [state : {"missing", "torn", "whole"}, fresh : BOOLEAN]

TypeInv ==
  /\ DOMAIN pc = Procs
  /\ check \in [Procs -> Places]
  /\ notice \in [Procs -> BOOLEAN]
  /\ version \in Versions
  /\ quiet \in BOOLEAN
  /\ calm \in [Procs -> BOOLEAN]

(* The goroutine and its notice end with their process.                    *)
EndsWithMain ==
  \A p \in Procs : pc[p] = "off" => check[p] = "none" /\ ~notice[p]

(* In a quiet hour version.json answers both questions of a check.         *)
QuietIsFresh == quiet => version.state = "whole" /\ version.fresh

CalmIsQuiet ==
  \A p \in Procs : calm[p] =>
    /\ quiet
    /\ check[p] \in {"none", "read", "stat"}
    /\ ~notice[p]

IInv == TypeInv /\ EndsWithMain /\ QuietIsFresh /\ CalmIsQuiet

-----------------------------------------------------------------------------
(* Init: no process runs, and no hour is quiet.                            *)
LEMMA InitHolds == Init => IInv
<1> SUFFICES ASSUME Init PROVE IInv
  OBVIOUS
<1>1. version \in Versions
  <2>1. \E state \in {"missing", "whole"}, fresh \in BOOLEAN :
          version = [state |-> state, fresh |-> fresh]
    BY DEF Init
  <2> QED
    BY <2>1 DEF Versions
<1>2. TypeInv
  BY <1>1 DEF Init, TypeInv, Places
<1> QED
  BY <1>2 DEF Init, IInv, EndsWithMain, QuietIsFresh, CalmIsQuiet

(* Steps of a command between its start and its end, and what happens      *)
(* outside without touching version.json.                                  *)
LEMMA MainGoes ==
  ASSUME IInv, UNCHANGED <<updater, version, history>>,
         \/ UNCHANGED pc
         \/ \E p \in Procs, l \in {"submit", "poll", "print"} :
              pc[p] # "off" /\ pc' = [pc EXCEPT ![p] = l]
  PROVE  IInv'
<1> USE DEF IInv, updater, history
<1>1. TypeInv'
  BY DEF TypeInv
<1>2. EndsWithMain'
  BY DEF TypeInv, EndsWithMain
<1>3. QuietIsFresh' /\ CalmIsQuiet'
  BY DEF QuietIsFresh, CalmIsQuiet
<1> QED
  BY <1>1, <1>2, <1>3

(* The start of a command: it is calm if the hour is quiet.                *)
LEMMA StartStep == ASSUME IInv, NEW p \in Procs, NEW l, Start(p, l) PROVE IInv'
<1>1. /\ pc[p] = "off" /\ check' = [check EXCEPT ![p] = "read"]
      /\ calm' = [calm EXCEPT ![p] = quiet]
      /\ UNCHANGED <<notice, version, quiet>>
      /\ \E m \in {"check", "print"} : pc' = [pc EXCEPT ![p] = m]
  BY DEF Start
<1> USE DEF IInv
<1>2. TypeInv'
  BY <1>1 DEF TypeInv, Places
<1>3. EndsWithMain'
  BY <1>1 DEF TypeInv, EndsWithMain
<1>4. QuietIsFresh'
  BY <1>1 DEF QuietIsFresh
<1>5. CalmIsQuiet'
  <2>1. ~ notice[p]
    BY <1>1 DEF EndsWithMain
  <2> QED
    BY <1>1, <2>1 DEF TypeInv, CalmIsQuiet
<1> QED
  BY <1>2, <1>3, <1>4, <1>5

(* The end of a command, by itself or by a kill: a notice that is printed  *)
(* makes the hour quiet.                                                   *)
LEMMA ExitStep ==
  ASSUME IInv, NEW p \in Procs, ExitOf(p),
         \/ UNCHANGED <<version, quiet>>
         \/ version' = Touched /\ quiet' = (version.state = "whole")
  PROVE  IInv'
<1>1. /\ pc' = [pc EXCEPT ![p] = "off"] /\ check' = [check EXCEPT ![p] = "none"]
      /\ notice' = [notice EXCEPT ![p] = FALSE] /\ calm' = [calm EXCEPT ![p] = FALSE]
  BY DEF ExitOf
<1> USE DEF IInv
<1>2. /\ version' \in Versions /\ quiet' \in BOOLEAN
      /\ quiet' => version'.state = "whole" /\ version'.fresh
      /\ quiet => quiet'
  <2>1. CASE UNCHANGED <<version, quiet>>
    BY <2>1 DEF TypeInv, QuietIsFresh
  <2>2. CASE version' = Touched /\ quiet' = (version.state = "whole")
    BY <2>2 DEF TypeInv, QuietIsFresh, Touched, Versions
  <2> QED
    BY <2>1, <2>2
<1>3. TypeInv'
  BY <1>1, <1>2 DEF TypeInv, Places
<1>4. EndsWithMain'
  BY <1>1 DEF TypeInv, EndsWithMain
<1>5. QuietIsFresh'
  BY <1>2 DEF QuietIsFresh
<1>6. CalmIsQuiet'
  BY <1>1, <1>2 DEF TypeInv, CalmIsQuiet
<1> QED
  BY <1>3, <1>4, <1>5, <1>6

(* A step of an update check that does not write version.json: that of a   *)
(* calm process goes from the first look at it to the second, or ends.     *)
LEMMA CheckStep ==
  ASSUME IInv, NEW p \in Procs, check[p] # "none", UNCHANGED <<main, version, history>>,
         \/ \E to \in Places : /\ check' = [check EXCEPT ![p] = to]
                               /\ UNCHANGED notice
         \/ /\ check' = [check EXCEPT ![p] = "none"]
            /\ notice' = [notice EXCEPT ![p] = TRUE],
         check[p] = "read" => /\ version.state = "whole" => check'[p] = "stat"
                              /\ UNCHANGED notice,
         check[p] = "stat" => /\ version.fresh => check'[p] = "none"
                              /\ UNCHANGED notice
  PROVE  IInv'
<1> USE DEF IInv, main, history
<1>1. TypeInv'
  BY DEF TypeInv, Places
<1>2. EndsWithMain'
  BY DEF TypeInv, EndsWithMain
<1>3. QuietIsFresh'
  BY DEF QuietIsFresh
<1>4. CalmIsQuiet'
  <2>1. ASSUME NEW q \in Procs, q # p, calm[q]
        PROVE  check'[q] \in {"none", "read", "stat"} /\ ~ notice'[q]
    BY <2>1 DEF TypeInv, CalmIsQuiet
  <2>2. ASSUME calm[p]
        PROVE  check'[p] \in {"none", "read", "stat"} /\ ~ notice'[p]
    BY <2>2 DEF TypeInv, CalmIsQuiet, QuietIsFresh
  <2> QED
    BY <2>1, <2>2 DEF CalmIsQuiet
<1> QED
  BY <1>1, <1>2, <1>3, <1>4

(* version.json is written, or its hour passes: nobody is calm any more.   *)
LEMMA DisturbedStep ==
  ASSUME IInv, Disturbed, UNCHANGED <<main, notice>>, version' \in Versions,
         \/ UNCHANGED check
         \/ \E p \in Procs : check[p] # "none" /\ check' = [check EXCEPT ![p] = "fill"]
  PROVE  IInv'
<1> USE DEF IInv, Disturbed, main
<1>1. TypeInv'
  BY DEF TypeInv, Places
<1>2. EndsWithMain'
  BY DEF TypeInv, EndsWithMain
<1>3. QuietIsFresh' /\ CalmIsQuiet'
  BY DEF QuietIsFresh, CalmIsQuiet
<1> QED
  BY <1>1, <1>2, <1>3

(* The second half of a write leaves it whole and fresh.                   *)
LEMMA FillStep == ASSUME IInv, NEW p \in Procs, FillVersion(p) PROVE IInv'
<1>1. /\ check[p] = "fill" /\ check' = [check EXCEPT ![p] = "stat"]
      /\ version' = [state |-> "whole", fresh |-> TRUE]
      /\ UNCHANGED <<pc, notice, quiet, calm>>
  BY DEF FillVersion, CheckGoes, main, history
<1> USE DEF IInv
<1>2. TypeInv'
  BY <1>1 DEF TypeInv, Places, Versions
<1>3. EndsWithMain'
  BY <1>1 DEF TypeInv, EndsWithMain
<1>4. QuietIsFresh' /\ CalmIsQuiet'
  BY <1>1 DEF TypeInv, QuietIsFresh, CalmIsQuiet
<1> QED
  BY <1>2, <1>3, <1>4

(* IInv is kept by every step.                                             *)
LEMMA NextHolds == IInv /\ [Next]_vars => IInv'
<1> SUFFICES ASSUME IInv, [Next]_vars PROVE IInv'
  OBVIOUS
<1>1. ASSUME NEW p \in Procs, Main(p) PROVE IInv'
  <2>1. CASE Check(p)
    BY <2>1, MainGoes DEF Check, Return
  <2>2. CASE Submit(p)
    BY <2>2, MainGoes DEF Submit
  <2>3. CASE SubmitFails(p)
    BY <2>3, MainGoes DEF SubmitFails, Return
  <2>4. CASE PollEnds(p)
    BY <2>4, MainGoes DEF PollEnds, Return
  <2>5. CASE PrintNotice(p)
    BY <2>5, ExitStep DEF PrintNotice
  <2>6. CASE ExitQuietly(p)
    BY <2>6, ExitStep DEF ExitQuietly
  <2> QED
    BY <1>1, <2>1, <2>2, <2>3, <2>4, <2>5, <2>6 DEF Main
<1>2. ASSUME NEW p \in Procs, Updater(p) PROVE IInv'
  <2> USE DEF CheckGoes, CheckEnds, Notify, Keep, Places
  <2>1. CASE ReadVersion(p)
    <3>1. check'[p] = IF version.state = "whole" THEN "stat" ELSE "cache"
      BY <2>1 DEF ReadVersion, IInv, TypeInv
    <3> QED
      BY <2>1, <3>1, CheckStep DEF ReadVersion
  <2>2. CASE FetchForCache(p)
    BY <2>2, CheckStep DEF FetchForCache
  <2>3. CASE TruncateVersion(p)
    BY <2>3, DisturbedStep DEF TruncateVersion, Versions
  <2>4. CASE FillVersion(p)
    BY <2>4, FillStep
  <2>5. CASE WriteVersionFails(p)
    BY <2>5, CheckStep DEF WriteVersionFails
  <2>6. CASE StatVersion(p)
    <3>1. check'[p] = IF version.fresh THEN "none" ELSE "directory"
      BY <2>6 DEF StatVersion, IInv, TypeInv
    <3> QED
      BY <2>6, <3>1, CheckStep DEF StatVersion
  <2>7. CASE CheckDirectory(p)
    BY <2>7, CheckStep DEF CheckDirectory
  <2>8. CASE DownloadVersion(p)
    BY <2>8, CheckStep DEF DownloadVersion
  <2> QED
    BY <1>2, <2>1, <2>2, <2>3, <2>4, <2>5, <2>6, <2>7, <2>8 DEF Updater
<1>3. ASSUME NEW p \in Procs, Poll(p) PROVE IInv'
  BY <1>3, MainGoes DEF Poll
<1>4. ASSUME NEW p \in Procs, Kill(p) PROVE IInv'
  BY <1>4, ExitStep DEF Kill
<1>5. ASSUME NEW f, RemoveFile(f) PROVE IInv'
  BY <1>5, MainGoes DEF RemoveFile, main
<1>6. CASE HourPasses
  <2>1. version' \in Versions
    BY <1>6 DEF HourPasses, IInv, TypeInv, Versions
  <2> QED
    BY <1>6, <2>1, DisturbedStep DEF HourPasses, updater
<1>7. CASE LoginChanges
  BY <1>7, MainGoes DEF LoginChanges, main
<1>8. CASE UNCHANGED vars
  BY <1>8, MainGoes DEF vars, main
<1> QED
  BY <1>1, <1>2, <1>3, <1>4, <1>5, <1>6, <1>7, <1>8, StartStep DEF Next

-----------------------------------------------------------------------------
(* A quiet hour has a whole, fresh version.json, and the checks of the     *)
(* commands started in it look at it before they do anything else.         *)
THEOREM QuietHoursHaveAVersion == Spec => []IInv
BY InitHolds, NextHolds, PTL DEF Spec

(* QuietForAnHour, for any number of commands at once.                     *)
THEOREM NoticesAreNotRepeated == Spec => []QuietForAnHour
<1>1. IInv => QuietForAnHour
  BY DEF IInv, CalmIsQuiet, QuietForAnHour
<1> QED
  BY <1>1, QuietHoursHaveAVersion, PTL

-----------------------------------------------------------------------------
(* The files of a request.  First what the proofs about the arguments need *)
(* of induction and of sequences.                                          *)

(* Every set of natural numbers has a least one.                           *)
LEMMA Least ==
  ASSUME NEW B \in SUBSET Nat, B # {}
  PROVE  \E i \in B : \A j \in B : i <= j
<1>1. PICK i \in B : \A j \in B : ~ (<<j, i>> \in OpToRel(<, Nat))
  BY NatLessThanWellFounded, WFMin
<1>2. ASSUME NEW j \in B, j < i PROVE FALSE
  <2>1. <<j, i>> \in OpToRel(<, Nat)
    BY <1>2 DEF OpToRel
  <2> QED
    BY <1>1, <2>1
<1> QED
  BY <1>2

(* Induction, with a set for the predicate.                                *)
LEMMA AllNaturals ==
  ASSUME NEW T, 0 \in T, \A n \in T \cap Nat : n + 1 \in T
  PROVE  Nat \subseteq T
<1> SUFFICES ASSUME Nat \ T # {} PROVE FALSE
  OBVIOUS
<1>1. PICK x \in Nat \ T : \A y \in Nat \ T : x <= y
  BY Least
<1>2. x # 0
  OBVIOUS
<1>3. x - 1 \in Nat /\ x - 1 < x /\ (x - 1) + 1 = x
  BY <1>2
<1>4. x - 1 \in T
  BY <1>1, <1>3
<1> QED
  BY <1>3, <1>4

(* What holds of 0, and of i if it holds of i - 1, holds up to n.          *)
LEMMA UpTo ==
  ASSUME NEW n \in Nat, NEW T, 0 \in T,
         \A i \in 1 .. n : i - 1 \in T => i \in T
  PROVE  0 .. n \subseteq T
<1> DEFINE U == {m \in Nat : m <= n => m \in T}
<1>1. 0 \in U
  OBVIOUS
<1>2. \A m \in U \cap Nat : m + 1 \in U
  OBVIOUS
<1> HIDE DEF U
<1>3. Nat \subseteq U
  BY <1>1, <1>2, AllNaturals
<1> QED
  BY <1>3 DEF U

(* g starts with b, and goes on as the functions of F say.                 *)
Follows(g, S, b, n, F) ==
  g \in [0 .. n -> S] /\ g[0] = b /\ \A i \in 1 .. n : g[i] = F[i][g[i - 1]]

(* A recursive function along 0 .. n exists.                               *)
LEMMA Recursion ==
  ASSUME NEW S, NEW b \in S, NEW n \in Nat, NEW F \in [1 .. n -> [S -> S]]
  PROVE  \E g : Follows(g, S, b, n, F)
<1> DEFINE T == {m \in 0 .. n : \E g : Follows(g, S, b, m, F)}
<1>1. 0 \in T
  <2> DEFINE g == [i \in 0 .. 0 |-> b]
  <2>1. Follows(g, S, b, 0, F)
    BY DEF Follows
  <2> QED
    BY <2>1
<1>2. ASSUME NEW i \in 1 .. n, i - 1 \in T PROVE i \in T
  <2>1. PICK m \in 0 .. n : m = i - 1 /\ i = m + 1
    BY <1>2
  <2>2. PICK g : Follows(g, S, b, m, F)
    BY <1>2, <2>1
  <2> DEFINE h == [k \in 0 .. m + 1 |-> IF k <= m THEN g[k] ELSE F[k][g[m]]]
  <2>3. h \in [0 .. m + 1 -> S]
    BY <2>1, <2>2 DEF Follows
  <2>4. h[0] = b
    BY <2>2 DEF Follows
  <2>5. ASSUME NEW k \in 1 .. m PROVE h[k] = F[k][h[k - 1]]
    BY <2>2 DEF Follows
  <2>6. h[m + 1] = F[m + 1][h[m]]
    OBVIOUS
  <2> HIDE DEF h
  <2>7. Follows(h, S, b, m + 1, F)
    BY <2>3, <2>4, <2>5, <2>6 DEF Follows
  <2> QED
    BY <2>1, <2>7
<1> HIDE DEF T
<1>3. \A i \in 1 .. n : i - 1 \in T => i \in T
  BY <1>2
<1>4. 0 .. n \subseteq T
  BY <1>1, <1>3, UpTo
<1> QED
  BY <1>4 DEF T

-----------------------------------------------------------------------------
(* Concatenation, by a name that leaf proofs need not expand.              *)
Cat(s, t) == s \o t

(* Concatenation stays within the type, has a unit, and is associative.    *)
LEMMA CatFacts ==
  ASSUME NEW S
  PROVE  /\ \A s, t \in Seq(S) : Cat(s, t) \in Seq(S)
         /\ \A s \in Seq(S) : Cat(s, <<>>) = s /\ Cat(<<>>, s) = s
         /\ \A s, t, u \in Seq(S) : Cat(Cat(s, t), u) = Cat(s, Cat(t, u))
BY ConcatProperties, ConcatEmptySeq, ConcatAssociative DEF Cat

(* The last of these by itself.                                            *)
LEMMA CatAssociative ==
  ASSUME NEW S, NEW s \in Seq(S), NEW t \in Seq(S), NEW u \in Seq(S)
  PROVE  Cat(Cat(s, t), u) = Cat(s, Cat(t, u))
BY CatFacts

(* g[i] is the first i sequences of ss, joined.                            *)
Joins(g, S, ss) ==
  /\ g \in [0 .. Len(ss) -> Seq(S)]
  /\ g[0] = <<>>
  /\ \A i \in 1 .. Len(ss) : g[i] = Cat(g[i - 1], ss[i])

(* There are such partial joins of any sequence of sequences.              *)
LEMMA JoinsExists ==
  ASSUME NEW S, NEW ss \in Seq(Seq(S)) PROVE \E g : Joins(g, S, ss)
<1>1. PICK n \in Nat : n = Len(ss)
  BY LenProperties
<1>2. /\ \A i \in 1 .. n : ss[i] \in Seq(S)
      /\ <<>> \in Seq(S)
  BY <1>1, ElementOfSeq, EmptySeq
<1>3. PICK F \in [1 .. n -> [Seq(S) -> Seq(S)]] :
         \A i \in 1 .. n : \A o \in Seq(S) : F[i][o] = o \o ss[i]
  <2> DEFINE F == [i \in 1 .. n |-> [o \in Seq(S) |-> o \o ss[i]]]
  <2>1. F \in [1 .. n -> [Seq(S) -> Seq(S)]]
    BY <1>2, ConcatProperties
  <2>2. \A i \in 1 .. n : \A o \in Seq(S) : F[i][o] = o \o ss[i]
    OBVIOUS
  <2> HIDE DEF F
  <2> QED
    BY <2>1, <2>2
<1>4. PICK g : Follows(g, Seq(S), <<>>, n, F)
  BY <1>2, Recursion
<1>5. \A i \in 1 .. n : g[i - 1] \in Seq(S)
  BY <1>4 DEF Follows
<1>6. \A i \in 1 .. n : g[i] = g[i - 1] \o ss[i]
  BY <1>3, <1>4, <1>5 DEF Follows
<1> QED
  BY <1>1, <1>4, <1>6 DEF Follows, Joins, Cat

(* FlattenSeq puts the sequences together from the left.                   *)
LEMMA Flattening ==
  ASSUME NEW S, NEW ss \in Seq(Seq(S)), NEW g, Joins(g, S, ss)
  PROVE  FlattenSeq(ss) = g[Len(ss)]
<1>1. PICK n \in Nat : n = Len(ss)
  BY LenProperties
<1>2. /\ \A i \in 1 .. n : ss[i] \in Seq(S)
      /\ <<>> \in Seq(S)
  BY <1>1, ElementOfSeq, EmptySeq
<1>3. g[0] = <<>> /\ \A i \in 1 .. n : g[i] = g[i - 1] \o ss[i]
  BY <1>1 DEF Joins, Cat
<1>4. CASE n = 0
  <2>1. ss = <<>>
    BY <1>1, <1>4, EmptySeq
  <2> QED
    BY <1>1, <1>3, <1>4, <2>1 DEF FlattenSeq
<1>5. CASE n # 0
  <2>1. g[1] = ss[1]
    <3>1. 1 \in 1 .. n /\ 1 - 1 = 0
      BY <1>5
    <3>2. g[1] = g[0] \o ss[1]
      BY <1>3, <3>1
    <3>3. <<>> \o ss[1] = ss[1]
      BY <1>2, <3>1, ConcatEmptySeq
    <3> QED
      BY <1>3, <3>2, <3>3
  <2> DEFINE Def(f) == f = [i \in 1 .. n |-> IF i = 1 THEN ss[i] ELSE f[i - 1] \o ss[i]]
             flatten == CHOOSE f : Def(f)
             h == [i \in 1 .. n |-> g[i]]
  <2>2. Def(h)
    <3>1. ASSUME NEW i \in 1 .. n
          PROVE  h[i] = IF i = 1 THEN ss[i] ELSE h[i - 1] \o ss[i]
      <4>1. CASE i = 1
        BY <2>1, <4>1
      <4>2. CASE i # 1
        <5>1. i - 1 \in 1 .. n
          BY <1>1, <4>2
        <5> QED
          BY <1>3, <4>2, <5>1
      <4> QED
        BY <4>1, <4>2
    <3> QED
      BY <3>1
  <2>3. Def(flatten)
    <3> HIDE DEF Def, h
    <3> QED
      BY <2>2 DEF flatten
  <2>4. FlattenSeq(ss) = flatten[n]
    BY <1>1, <1>5 DEF FlattenSeq
  <2> HIDE DEF flatten
  <2>5. ASSUME NEW i \in 1 .. n, i # 1 => flatten[i - 1] = g[i - 1]
        PROVE  flatten[i] = g[i]
    <3>1. flatten[i] = IF i = 1 THEN ss[i] ELSE flatten[i - 1] \o ss[i]
      BY <2>3
    <3>2. g[i] = g[i - 1] \o ss[i]
      BY <1>3
    <3>3. CASE i = 1
      BY <2>1, <3>1, <3>3
    <3> QED
      BY <2>5, <3>1, <3>2, <3>3
  <2> DEFINE T == {i \in 0 .. n : i # 0 => flatten[i] = g[i]}
  <2>6. 0 \in T /\ \A i \in 1 .. n : i - 1 \in T => i \in T
    BY <2>5
  <2> HIDE DEF T
  <2>7. 0 .. n \subseteq T
    BY <2>6, UpTo
  <2>8. flatten[n] = g[n]
    BY <1>5, <2>7 DEF T
  <2> QED
    BY <1>1, <1>3, <2>4, <2>8
<1> QED
  BY <1>4, <1>5

(* FlattenSeq of nothing, of one sequence, and of a concatenation.         *)
LEMMA FlattenFacts ==
  ASSUME NEW S
  PROVE  /\ FlattenSeq(<<>>) = <<>>
         /\ \A s \in Seq(S) : FlattenSeq(<<s>>) = s
         /\ \A ss \in Seq(Seq(S)) : FlattenSeq(ss) \in Seq(S)
<1>1. FlattenSeq(<<>>) = <<>>
  BY DEF FlattenSeq
<1>2. ASSUME NEW ss \in Seq(Seq(S)) PROVE FlattenSeq(ss) \in Seq(S)
  <2>1. PICK g : Joins(g, S, ss)
    BY JoinsExists
  <2>2. FlattenSeq(ss) = g[Len(ss)]
    BY <2>1, Flattening
  <2>3. Len(ss) \in 0 .. Len(ss)
    BY LenProperties
  <2> QED
    BY <2>1, <2>2, <2>3 DEF Joins
<1>3. ASSUME NEW s \in Seq(S) PROVE FlattenSeq(<<s>>) = s
  <2>1. <<s>> \in Seq(Seq(S)) /\ Len(<<s>>) = 1 /\ <<s>>[1] = s
    OBVIOUS
  <2>2. PICK g : Joins(g, S, <<s>>)
    BY <2>1, JoinsExists
  <2>3. FlattenSeq(<<s>>) = g[1]
    BY <2>1, <2>2, Flattening
  <2>4. 1 \in 1 .. Len(<<s>>) /\ 1 - 1 = 0
    BY <2>1
  <2>5. g[1] = Cat(g[0], <<s>>[1]) /\ g[0] = <<>>
    BY <2>2, <2>4 DEF Joins
  <2>6. Cat(<<>>, s) = s
    BY CatFacts
  <2> QED
    BY <2>1, <2>3, <2>5, <2>6
<1> QED
  BY <1>1, <1>2, <1>3

(* FlattenSeq of a concatenation is the concatenation of the two.          *)
LEMMA FlattenConcat ==
  ASSUME NEW S, NEW ss \in Seq(Seq(S)), NEW tt \in Seq(Seq(S))
  PROVE  FlattenSeq(ss \o tt) = FlattenSeq(ss) \o FlattenSeq(tt)
<1>1. PICK m \in Nat, n \in Nat : m = Len(ss) /\ n = Len(tt)
  BY LenProperties
<1>2. PICK uu \in Seq(Seq(S)) : uu = ss \o tt
  BY ConcatProperties
<1>3. /\ Len(uu) = m + n
      /\ \A i \in 1 .. m : uu[i] = ss[i]
      /\ \A i \in 1 .. n : uu[m + i] = tt[i]
      /\ \A i \in 1 .. n : tt[i] \in Seq(S)
  <2>1. Len(uu) = m + n /\ \A i \in 1 .. m + n : uu[i] = IF i <= m THEN ss[i] ELSE tt[i - m]
    BY <1>1, <1>2, ConcatProperties
  <2>2. ASSUME NEW i \in 1 .. n PROVE uu[m + i] = tt[i]
    <3>1. m + i \in 1 .. m + n /\ ~ (m + i <= m) /\ (m + i) - m = i
      OBVIOUS
    <3> QED
      BY <2>1, <3>1
  <2>3. \A i \in 1 .. n : tt[i] \in Seq(S)
    BY <1>1, ElementOfSeq
  <2>4. ASSUME NEW i \in 1 .. m PROVE uu[i] = ss[i]
    <3>1. i \in 1 .. m + n /\ i <= m
      OBVIOUS
    <3> QED
      BY <2>1, <3>1
  <2>5. Len(uu) = m + n
    BY <2>1
  <2>6. (\A i \in 1 .. m : uu[i] = ss[i]) /\ \A i \in 1 .. n : uu[m + i] = tt[i]
    BY <2>2, <2>4
  <2> QED
    BY <2>3, <2>5, <2>6
<1>4. PICK f : Joins(f, S, ss)
  BY JoinsExists
<1>5. PICK g : Joins(g, S, tt)
  BY JoinsExists
<1>6. PICK h : Joins(h, S, uu)
  BY JoinsExists
<1>7. FlattenSeq(ss) = f[m] /\ FlattenSeq(tt) = g[n] /\ FlattenSeq(uu) = h[m + n]
  <2>1. FlattenSeq(ss) = f[m]
    BY <1>1, <1>4, Flattening
  <2>2. FlattenSeq(tt) = g[n]
    BY <1>1, <1>5, Flattening
  <2>3. FlattenSeq(uu) = h[m + n]
    BY <1>3, <1>6, Flattening
  <2> QED
    BY <2>1, <2>2, <2>3
<1>8. f[0] = <<>> /\ \A i \in 1 .. m : f[i] = Cat(f[i - 1], ss[i])
  BY <1>1, <1>4 DEF Joins
<1>9. g[0] = <<>> /\ \A i \in 1 .. n : g[i] = Cat(g[i - 1], tt[i])
  BY <1>1, <1>5 DEF Joins
<1>10. h[0] = <<>> /\ \A i \in 1 .. m + n : h[i] = Cat(h[i - 1], uu[i])
  BY <1>3, <1>6 DEF Joins
<1>11. f[m] \in Seq(S) /\ \A i \in 0 .. n : g[i] \in Seq(S)
  <2>1. f \in [0 .. m -> Seq(S)] /\ g \in [0 .. n -> Seq(S)]
    BY <1>1, <1>4, <1>5 DEF Joins
  <2> QED
    BY <2>1
<1>12. h[m] = f[m]
  <2> DEFINE T == {i \in 0 .. m : h[i] = f[i]}
  <2>1. 0 \in T
    BY <1>8, <1>10
  <2>2. ASSUME NEW i \in 1 .. m, i - 1 \in T PROVE i \in T
    <3>1. h[i] = Cat(h[i - 1], uu[i]) /\ f[i] = Cat(f[i - 1], ss[i]) /\ uu[i] = ss[i]
      <4>1. i \in 1 .. m + n
        OBVIOUS
      <4> QED
        BY <1>3, <1>8, <1>10, <4>1
    <3> QED
      BY <2>2, <3>1
  <2>3. \A i \in 1 .. m : i - 1 \in T => i \in T
    BY <2>2
  <2> HIDE DEF T
  <2>4. 0 .. m \subseteq T
    BY <2>1, <2>3, UpTo
  <2> QED
    BY <2>4 DEF T
<1>13. h[m + n] = Cat(f[m], g[n])
  <2> DEFINE T == {i \in 0 .. n : h[m + i] = Cat(f[m], g[i])}
  <2>1. 0 \in T
    <3>1. Cat(f[m], <<>>) = f[m]
      BY <1>11, CatFacts
    <3> QED
      BY <1>9, <1>12, <3>1
  <2>2. ASSUME NEW i \in 1 .. n, i - 1 \in T PROVE i \in T
    <3>1. PICK j \in 0 .. n : j = i - 1 /\ m + j = (m + i) - 1 /\ m + i \in 1 .. m + n
      OBVIOUS
    <3>2. h[m + i] = Cat(h[m + j], tt[i]) /\ g[i] = Cat(g[j], tt[i])
      BY <1>3, <1>9, <1>10, <3>1
    <3>3. h[m + j] = Cat(f[m], g[j])
      BY <2>2, <3>1
    <3>4. Cat(Cat(f[m], g[j]), tt[i]) = Cat(f[m], Cat(g[j], tt[i]))
      <4>1. f[m] \in Seq(S) /\ g[j] \in Seq(S) /\ tt[i] \in Seq(S)
        BY <1>3, <1>11
      <4> QED
        BY <4>1, CatAssociative
    <3> QED
      BY <3>2, <3>3, <3>4
  <2>3. \A i \in 1 .. n : i - 1 \in T => i \in T
    BY <2>2
  <2> HIDE DEF T
  <2>4. 0 .. n \subseteq T
    BY <2>1, <2>3, UpTo
  <2> QED
    BY <2>4 DEF T
<1> QED
  BY <1>2, <1>7, <1>12, <1>13 DEF Cat

-----------------------------------------------------------------------------
(* A set that has the empty sequence, and with a sequence every longer by  *)
(* one, has all.                                                           *)
LEMMA AllSequences ==
  ASSUME NEW S, NEW T, <<>> \in T, \A s \in T \cap Seq(S) : \A e \in S : Cat(s, <<e>>) \in T
  PROVE  Seq(S) \subseteq T
<1> DEFINE U == {n \in Nat : \A s \in Seq(S) : Len(s) = n => s \in T}
<1>1. 0 \in U
  BY EmptySeq
<1>2. ASSUME NEW n \in U \cap Nat PROVE n + 1 \in U
  <2> SUFFICES ASSUME NEW s \in Seq(S), Len(s) = n + 1 PROVE s \in T
    OBVIOUS
  <2> DEFINE r == SubSeq(s, 1, n)
             e == s[n + 1]
  <2>1. n + 1 \in 1 .. Len(s) /\ 1 \in 1 .. Len(s) /\ (n + 1) - 1 = n
    OBVIOUS
  <2>2. e \in S
    BY <2>1, ElementOfSeq
  <2>3. \A i \in 1 .. n : s[i] \in S
    BY ElementOfSeq
  <2>4. r \in Seq(S) /\ Len(r) = n
    BY <2>3, SubSeqProperties
  <2>5. s = r \o <<e>>
    <3>1. SubSeq(s, 1, n + 1) = SubSeq(s, 1, (n + 1) - 1) \o <<s[n + 1]>>
      BY <2>1, SubSeqRecursiveSecond
    <3>2. SubSeq(s, 1, n + 1) = s
      BY SubSeqFull
    <3> QED
      BY <2>1, <3>1, <3>2
  <2> HIDE DEF r, e
  <2>6. r \in T
    BY <2>4
  <2> QED
    BY <2>2, <2>4, <2>5, <2>6 DEF Cat
<1>3. \A n \in U \cap Nat : n + 1 \in U
  BY <1>2
<1> HIDE DEF U
<1>4. Nat \subseteq U
  BY <1>1, <1>3, AllNaturals
<1> QED
  BY <1>4, LenProperties DEF U

(* A concatenation has the elements of both parts.                         *)
LEMMA CatElements ==
  ASSUME NEW S, NEW s \in Seq(S), NEW t \in Seq(S)
  PROVE  Range(Cat(s, t)) = Range(s) \cup Range(t)
<1>1. PICK m \in Nat, n \in Nat : m = Len(s) /\ n = Len(t)
  BY LenProperties
<1>2. PICK u \in Seq(S) : u = Cat(s, t)
  BY CatFacts
<1>3. /\ DOMAIN s = 1 .. m /\ DOMAIN t = 1 .. n /\ DOMAIN u = 1 .. m + n
      /\ \A i \in 1 .. m + n : u[i] = IF i <= m THEN s[i] ELSE t[i - m]
  BY <1>1, <1>2, ConcatProperties, LenProperties DEF Cat
<1>4. ASSUME NEW i \in 1 .. m PROVE s[i] \in Range(u)
  <2>1. i \in 1 .. m + n /\ i <= m
    OBVIOUS
  <2> QED
    BY <1>3, <2>1 DEF Range
<1>5. ASSUME NEW i \in 1 .. n PROVE t[i] \in Range(u)
  <2>1. m + i \in 1 .. m + n /\ ~ (m + i <= m) /\ (m + i) - m = i
    OBVIOUS
  <2> QED
    BY <1>3, <2>1 DEF Range
<1>6. ASSUME NEW i \in 1 .. m + n PROVE u[i] \in Range(s) \cup Range(t)
  <2>1. CASE i <= m
    BY <1>3, <2>1 DEF Range
  <2>2. CASE ~ (i <= m)
    <3>1. i - m \in 1 .. n
      BY <2>2
    <3> QED
      BY <1>3, <2>2, <3>1 DEF Range
  <2> QED
    BY <2>1, <2>2
<1>7. Range(s) \subseteq Range(u)
  BY <1>3, <1>4 DEF Range
<1>8. Range(t) \subseteq Range(u)
  BY <1>3, <1>5 DEF Range
<1>9. \A y \in Range(u) : \E i \in 1 .. m + n : y = u[i]
  BY <1>3 DEF Range
<1>10. Range(u) \subseteq Range(s) \cup Range(t)
  BY <1>6, <1>9
<1> QED
  BY <1>2, <1>7, <1>8, <1>10

-----------------------------------------------------------------------------
(* The parts that Without joins.                                           *)
One(y, x) == IF y = x THEN <<>> ELSE <<y>>
Kept(s, x) == [i \in DOMAIN s |-> One(s[i], x)]

(* A sequence of one element.                                              *)
LEMMA Single ==
  ASSUME NEW S, NEW y \in S
  PROVE  <<y>> \in Seq(S) /\ Len(<<y>>) = 1 /\ <<y>>[1] = y
OBVIOUS

(* An element contributes at most itself.                                  *)
LEMMA OneType == ASSUME NEW S, NEW y \in S, NEW x PROVE One(y, x) \in Seq(S)
<1>1. <<y>> \in Seq(S) /\ <<>> \in Seq(S)
  OBVIOUS
<1> QED
  BY <1>1 DEF One

(* The type, the length and the elements of these parts.                   *)
LEMMA KeptFacts ==
  ASSUME NEW S, NEW x, NEW s \in Seq(S)
  PROVE  /\ Kept(s, x) \in Seq(Seq(S))
         /\ Len(Kept(s, x)) = Len(s)
         /\ \A i \in 1 .. Len(s) : Kept(s, x)[i] = One(s[i], x)
<1>1. PICK n \in Nat : n = Len(s) /\ DOMAIN s = 1 .. n
  BY LenProperties
<1>2. \A i \in 1 .. n : s[i] \in S
  BY <1>1, ElementOfSeq
<1>3. Kept(s, x) = [i \in 1 .. n |-> One(s[i], x)]
  BY <1>1 DEF Kept
<1>4. \A i \in 1 .. n : One(s[i], x) \in Seq(S)
  BY <1>2, OneType
<1>5. Kept(s, x) \in [1 .. n -> Seq(S)]
  BY <1>3, <1>4
<1>6. Kept(s, x) \in Seq(Seq(S)) /\ Len(Kept(s, x)) = n
  BY <1>5
<1> QED
  BY <1>1, <1>3, <1>6

(* What is left of a sequence is of the same type.                         *)
LEMMA WithoutType ==
  ASSUME NEW S, NEW x, NEW s \in Seq(S)
  PROVE  Without(s, x) \in Seq(S) /\ Without(s, x) = FlattenSeq(Kept(s, x))
<1>1. Without(s, x) = FlattenSeq(Kept(s, x))
  BY DEF Without, Kept, One
<1> QED
  BY <1>1, KeptFacts, FlattenFacts

(* Without works on the parts of a concatenation one by one.               *)
LEMMA WithoutConcat ==
  ASSUME NEW S, NEW x, NEW s \in Seq(S), NEW t \in Seq(S)
  PROVE  Without(Cat(s, t), x) = Cat(Without(s, x), Without(t, x))
<1>1. PICK m \in Nat, n \in Nat : m = Len(s) /\ n = Len(t)
  BY LenProperties
<1>2. PICK u \in Seq(S) : u = Cat(s, t)
  BY CatFacts
<1>3. /\ Len(u) = m + n
      /\ \A i \in 1 .. m + n : u[i] = IF i <= m THEN s[i] ELSE t[i - m]
  BY <1>1, <1>2, ConcatProperties DEF Cat
<1>4. PICK a \in Seq(Seq(S)), b \in Seq(Seq(S)), c \in Seq(Seq(S)) :
        a = Kept(s, x) /\ b = Kept(t, x) /\ c = Kept(u, x)
  BY KeptFacts
<1>5. PICK d \in Seq(Seq(S)) : d = Cat(a, b)
  BY CatFacts
<1>6. Len(a) = m /\ \A i \in 1 .. m : a[i] = One(s[i], x)
  BY <1>1, <1>4, KeptFacts
<1>7. Len(b) = n /\ \A i \in 1 .. n : b[i] = One(t[i], x)
  BY <1>1, <1>4, KeptFacts
<1>8. Len(c) = m + n /\ \A i \in 1 .. m + n : c[i] = One(u[i], x)
  <2>1. Len(Kept(u, x)) = Len(u)
    BY KeptFacts
  <2>2. \A i \in 1 .. Len(u) : Kept(u, x)[i] = One(u[i], x)
    BY KeptFacts
  <2> QED
    BY <1>3, <1>4, <2>1, <2>2
<1>9. Len(d) = m + n /\ \A i \in 1 .. m + n : d[i] = IF i <= m THEN a[i] ELSE b[i - m]
  BY <1>5, <1>6, <1>7, ConcatProperties DEF Cat
<1>10. ASSUME NEW i \in 1 .. m + n PROVE c[i] = d[i]
  <2>1. CASE i <= m
    <3>1. i \in 1 .. m
      BY <2>1
    <3> QED
      BY <1>3, <1>6, <1>8, <1>9, <2>1, <3>1
  <2>2. CASE ~ (i <= m)
    <3>1. i - m \in 1 .. n
      BY <2>2
    <3> QED
      BY <1>3, <1>7, <1>8, <1>9, <2>2, <3>1
  <2> QED
    BY <2>1, <2>2
<1>11. c = d
  BY <1>8, <1>9, <1>10, SeqEqual
<1>12. FlattenSeq(a \o b) = FlattenSeq(a) \o FlattenSeq(b)
  BY FlattenConcat
<1>13. FlattenSeq(c) = Cat(FlattenSeq(a), FlattenSeq(b))
  BY <1>5, <1>11, <1>12 DEF Cat
<1> QED
  BY <1>2, <1>4, <1>13, WithoutType

(* What Without leaves of nothing and of a single element.                 *)
LEMMA WithoutShort ==
  ASSUME NEW x
  PROVE  /\ Without(<<>>, x) = <<>>
         /\ \A y : Without(<<y>>, x) = IF y = x THEN <<>> ELSE <<y>>
<1>1. Without(<<>>, x) = <<>>
  <2>1. [i \in DOMAIN <<>> |-> IF <<>>[i] = x THEN <<>> ELSE <<(<<>>)[i]>>] = <<>>
    OBVIOUS
  <2>2. FlattenSeq(<<>>) = <<>>
    BY FlattenFacts
  <2> QED
    BY <2>1, <2>2 DEF Without
<1>2. ASSUME NEW y PROVE Without(<<y>>, x) = IF y = x THEN <<>> ELSE <<y>>
  <2>1. Kept(<<y>>, x) = <<One(y, x)>>
    BY DEF Kept
  <2>2. One(y, x) \in Seq({y}) /\ <<y>> \in Seq({y})
    BY OneType
  <2>3. FlattenSeq(<<One(y, x)>>) = One(y, x)
    BY <2>2, FlattenFacts
  <2> QED
    BY <2>1, <2>2, <2>3, WithoutType DEF One
<1> QED
  BY <1>1, <1>2

(* Without takes out one element and nothing else.                         *)
LEMMA WithoutElements ==
  ASSUME NEW S, NEW x
  PROVE  \A s \in Seq(S) : /\ Range(Without(s, x)) = Range(s) \ {x}
                           /\ x \notin Range(s) => Without(s, x) = s
<1> DEFINE Good(s) == /\ Range(Without(s, x)) = Range(s) \ {x}
                      /\ x \notin Range(s) => Without(s, x) = s
           T == {s \in Seq(S) : Good(s)}
<1>1. \A y : Range(<<y>>) = {y}
  BY DEF Range
<1>2. Range(<<>>) = {}
  BY DEF Range
<1>3. <<>> \in T
  <2>1. Good(<<>>)
    BY <1>2, WithoutShort
  <2> QED
    BY <2>1, EmptySeq
<1>4. ASSUME NEW s \in T \cap Seq(S), NEW y \in S PROVE Cat(s, <<y>>) \in T
  <2>1. <<y>> \in Seq(S)
    OBVIOUS
  <2>2. PICK r \in Seq(S), w \in Seq(S), u \in Seq(S) :
          r = <<y>> /\ w = Without(r, x) /\ u = Cat(s, r)
    BY <2>1, WithoutType, CatFacts
  <2>3. s \in Seq(S) /\ Good(s)
    OBVIOUS
  <2> HIDE DEF T, Good
  <2>4. PICK v \in Seq(S) : v = Without(s, x)
    BY <2>3, WithoutType
  <2>5. Without(u, x) = Cat(v, w)
    BY <2>3, <2>2, <2>4, WithoutConcat
  <2>6. Range(Cat(v, w)) = Range(v) \cup Range(w) /\ Range(u) = Range(s) \cup Range(r)
    <3>1. Range(Cat(v, w)) = Range(v) \cup Range(w)
      BY CatElements
    <3>2. Range(Cat(s, r)) = Range(s) \cup Range(r)
      BY <2>3, CatElements
    <3> QED
      BY <2>2, <3>1, <3>2
  <2>7. w = IF y = x THEN <<>> ELSE <<y>>
    BY <2>2, WithoutShort
  <2>8. Range(r) = {y} /\ Range(w) = IF y = x THEN {} ELSE {y}
    BY <1>1, <1>2, <2>2, <2>7
  <2>9. Range(v) = Range(s) \ {x} /\ (x \notin Range(s) => v = s)
    BY <2>3, <2>4 DEF Good
  <2>10. Range(Without(u, x)) = Range(u) \ {x}
    BY <2>5, <2>6, <2>8, <2>9
  <2>11. ASSUME x \notin Range(u) PROVE Without(u, x) = u
    <3>1. x \notin Range(s) /\ y # x
      BY <2>6, <2>8, <2>11
    <3>2. v = s /\ w = r
      BY <2>2, <2>7, <2>9, <3>1
    <3> QED
      BY <2>2, <2>5, <3>2
  <2> QED
    BY <2>2, <2>10, <2>11 DEF T, Good
<1>5. \A s \in T \cap Seq(S) : \A y \in S : Cat(s, <<y>>) \in T
  BY <1>4
<1> HIDE DEF T
<1>6. Seq(S) \subseteq T
  BY <1>3, <1>5, AllSequences
<1> QED
  BY <1>6 DEF T

-----------------------------------------------------------------------------
(* The pieces of a value are what is not blank in it, each by itself.      *)
LEMMA PiecesFacts ==
  ASSUME NEW S, NEW v \in Seq(S)
  PROVE  /\ Pieces(v) \in Seq(Seq(S))
         /\ Len(Pieces(v)) = Len(Without(v, ""))
         /\ \A i \in 1 .. Len(Without(v, "")) : Pieces(v)[i] = <<Without(v, "")[i]>>
         /\ \A e \in Range(Pieces(v)) : \E y \in S : y # "" /\ e = <<y>>
<1>1. PICK k \in Seq(S) : k = Without(v, "")
  BY WithoutType
<1>2. PICK n \in Nat : n = Len(k) /\ DOMAIN k = 1 .. n
  BY LenProperties
<1>3. Pieces(v) = [i \in 1 .. n |-> <<k[i]>>]
  BY <1>1, <1>2 DEF Pieces
<1>4. \A i \in 1 .. n : k[i] \in S /\ k[i] # ""
  <2>1. \A i \in 1 .. n : k[i] \in S /\ k[i] \in Range(k)
    BY <1>2, ElementOfSeq DEF Range
  <2>2. Range(k) = Range(v) \ {""}
    BY <1>1, WithoutElements
  <2> QED
    BY <2>1, <2>2
<1>5. \A i \in 1 .. n : <<k[i]>> \in Seq(S)
  <2>1. \A y \in S : <<y>> \in Seq(S)
    OBVIOUS
  <2> QED
    BY <1>4, <2>1
<1>6. Pieces(v) \in [1 .. n -> Seq(S)]
  BY <1>3, <1>5
<1>7. Pieces(v) \in Seq(Seq(S)) /\ Len(Pieces(v)) = n
  BY <1>6
<1>8. \A e \in Range(Pieces(v)) : \E y \in S : y # "" /\ e = <<y>>
  BY <1>3, <1>4 DEF Range
<1> QED
  BY <1>1, <1>2, <1>3, <1>7, <1>8

(* The pieces of two values are those of one, then those of the other.     *)
LEMMA PiecesConcat ==
  ASSUME NEW S, NEW v \in Seq(S), NEW w \in Seq(S)
  PROVE  Pieces(Cat(v, w)) = Cat(Pieces(v), Pieces(w))
<1>1. PICK u \in Seq(S) : u = Cat(v, w)
  BY CatFacts
<1>2. PICK a \in Seq(S), b \in Seq(S), c \in Seq(S) :
        a = Without(v, "") /\ b = Without(w, "") /\ c = Without(u, "")
  BY WithoutType
<1>3. c = a \o b
  BY <1>1, <1>2, WithoutConcat DEF Cat
<1>4. PICK m \in Nat, n \in Nat : m = Len(a) /\ n = Len(b)
  BY LenProperties
<1>5. Len(c) = m + n /\ \A i \in 1 .. m + n : c[i] = IF i <= m THEN a[i] ELSE b[i - m]
  BY <1>3, <1>4, ConcatProperties
<1>6. PICK p \in Seq(Seq(S)), q \in Seq(Seq(S)), r \in Seq(Seq(S)) :
        p = Pieces(v) /\ q = Pieces(w) /\ r = Pieces(u)
  BY PiecesFacts
<1>7. Len(p) = m /\ \A i \in 1 .. m : p[i] = <<a[i]>>
  BY <1>2, <1>4, <1>6, PiecesFacts
<1>8. Len(q) = n /\ \A i \in 1 .. n : q[i] = <<b[i]>>
  BY <1>2, <1>4, <1>6, PiecesFacts
<1>9. Len(r) = m + n /\ \A i \in 1 .. m + n : r[i] = <<c[i]>>
  <2>1. Len(r) = Len(c) /\ \A i \in 1 .. Len(c) : r[i] = <<c[i]>>
    BY <1>2, <1>6, PiecesFacts
  <2> QED
    BY <1>5, <2>1
<1>10. PICK d \in Seq(Seq(S)) : d = Cat(p, q)
  BY CatFacts
<1>11. Len(d) = m + n /\ \A i \in 1 .. m + n : d[i] = IF i <= m THEN p[i] ELSE q[i - m]
  BY <1>7, <1>8, <1>10, ConcatProperties DEF Cat
<1>12. ASSUME NEW i \in 1 .. m + n PROVE r[i] = d[i]
  <2>1. CASE i <= m
    <3>1. i \in 1 .. m
      BY <2>1
    <3> QED
      BY <1>5, <1>7, <1>9, <1>11, <2>1, <3>1
  <2>2. CASE ~ (i <= m)
    <3>1. i - m \in 1 .. n
      BY <2>2
    <3> QED
      BY <1>5, <1>8, <1>9, <1>11, <2>2, <3>1
  <2> QED
    BY <2>1, <2>2
<1>13. r = d
  BY <1>9, <1>11, <1>12, SeqEqual
<1> QED
  BY <1>1, <1>6, <1>10, <1>13

(* The pieces of an empty, a blank and a plain value.                      *)
LEMMA PiecesShort ==
  /\ Pieces(<<>>) = <<>>
  /\ Pieces(<<"">>) = <<>>
  /\ \A y : y # "" => Pieces(<<y>>) = << <<y>> >>
<1>1. ASSUME NEW S, NEW v \in Seq(S), Without(v, "") = <<>> PROVE Pieces(v) = <<>>
  <2>1. Pieces(v) \in Seq(Seq(S)) /\ Len(Pieces(v)) = Len(Without(v, ""))
    BY PiecesFacts
  <2>2. Len(Without(v, "")) = 0
    <3>1. Len(<<>>) = 0
      OBVIOUS
    <3> HIDE DEF Without
    <3> QED
      BY <1>1, <3>1
  <2> QED
    BY <2>1, <2>2, EmptySeq
<1>2. Pieces(<<>>) = <<>> /\ Pieces(<<"">>) = <<>>
  <2>1. <<>> \in Seq({""}) /\ <<"">> \in Seq({""})
    BY Single, EmptySeq
  <2> QED
    BY <1>1, <2>1, WithoutShort
<1>3. ASSUME NEW y, y # "" PROVE Pieces(<<y>>) = << <<y>> >>
  <2>1. PICK v \in Seq({y}) : v = <<y>> /\ Len(v) = 1 /\ v[1] = y
    BY Single
  <2>2. Without(v, "") = v
    BY <1>3, <2>1, WithoutShort
  <2>3. PICK p \in Seq(Seq({y})) : p = Pieces(v)
    BY PiecesFacts
  <2>4. Len(p) = 1 /\ p[1] = <<y>>
    <3>1. PICK k : k = Without(v, "")
      OBVIOUS
    <3>2. Len(p) = Len(k) /\ \A i \in 1 .. Len(k) : p[i] = <<k[i]>>
      BY <2>3, <3>1, PiecesFacts
    <3>3. k = v
      BY <2>1, <2>2, <3>1
    <3>4. Len(k) = 1 /\ 1 \in 1 .. 1 /\ k[1] = y
      BY <2>1, <3>3
    <3> QED
      BY <3>2, <3>4
  <2> QED
    BY <2>1, <2>3, <2>4
<1> QED
  BY <1>2, <1>3

-----------------------------------------------------------------------------
(* A value that is blank or one piece, and a list of these.                *)
PlainValue(v) == v = Blank \/ \E y : y # "" /\ v = <<y>>
Plain(items) == \A v \in Range(items) : PlainValue(v)

(* An entry of an input, as far as its values are plain, has what was      *)
(* given.                                                                  *)
Matches(new, given) ==
  /\ new.items \in Seq(Seq(STRING))
  /\ new.many \/ \E v \in Seq(STRING) : new.items = <<v>>
  /\ Plain(new.items) => Without(new.items, Blank) = given
Entry(input, key, given) ==
  IF key \in DOMAIN input THEN Matches(input[key], given) ELSE given = <<>>

(* A plain value is its own piece.                                         *)
LEMMA PlainPieces ==
  ASSUME NEW v, PlainValue(v)
  PROVE  Without(<<v>>, Blank) = Pieces(v)
<1>1. CASE v = Blank
  BY <1>1, PiecesShort, WithoutShort DEF Blank
<1>2. ASSUME NEW y, y # "", v = <<y>> PROVE Without(<<v>>, Blank) = Pieces(v)
  <2>1. v # Blank
    BY <1>2 DEF Blank
  <2> QED
    BY <1>2, <2>1, PiecesShort, WithoutShort
<1> QED
  BY <1>1, <1>2 DEF PlainValue

(* assignGeneratorInput leaves other keys alone.                           *)
LEMMA AssignOther ==
  ASSUME NEW input, NEW key, NEW value, NEW k, k # key, NEW given, Entry(input, k, given)
  PROVE  Entry(Assign(input, key, value), k, given)
<1>1. PICK new : Assign(input, key, value) = Set(input, key, new)
  BY DEF Assign
<1>2. /\ k \in DOMAIN Set(input, key, new) <=> k \in DOMAIN input
      /\ k \in DOMAIN input => Set(input, key, new)[k] = input[k]
  BY DEF Set
<1> QED
  BY <1>1, <1>2 DEF Entry

(* assignGeneratorInput adds the value's pieces to its key's, whether it   *)
(* is the first value, which it splits, or a later one, which it appends   *)
(* as it is.                                                               *)
LEMMA AssignSame ==
  ASSUME NEW input, NEW k, NEW v \in Seq(STRING), NEW given \in Seq(Seq(STRING)),
         Entry(input, k, given)
  PROVE  Entry(Assign(input, k, v), k, Cat(given, Pieces(v)))
<1>1. ASSUME NEW new, Matches(new, Cat(given, Pieces(v))), Assign(input, k, v) = Set(input, k, new)
      PROVE  Entry(Assign(input, k, v), k, Cat(given, Pieces(v)))
  BY <1>1 DEF Set, Entry
<1>2. Pieces(v) \in Seq(Seq(STRING))
  BY PiecesFacts
<1>3. <<v>> \in Seq(Seq(STRING)) /\ Range(<<v>>) = {v}
  BY Single DEF Range
<1>4. CASE k \in DOMAIN input
  <2>1. PICK items \in Seq(Seq(STRING)) : items = input[k].items
    BY <1>4 DEF Entry, Matches
  <2>2. Plain(items) => Without(items, Blank) = given
    BY <1>4, <2>1 DEF Entry, Matches
  <2>3. PICK more \in Seq(Seq(STRING)) : more = Append(items, v) /\ more = Cat(items, <<v>>)
    <3>1. Append(items, v) = items \o <<v>>
      OBVIOUS
    <3>2. Cat(items, <<v>>) \in Seq(Seq(STRING))
      BY <1>3, CatFacts
    <3> QED
      BY <3>1, <3>2 DEF Cat
  <2>4. ASSUME Plain(more) PROVE Without(more, Blank) = Cat(given, Pieces(v))
    <3>1. Range(more) = Range(items) \cup {v}
      <4>1. PICK one \in Seq(Seq(STRING)) : one = <<v>>
        BY <1>3
      <4>2. Range(Cat(items, one)) = Range(items) \cup Range(one)
        BY CatElements
      <4> QED
        BY <1>3, <2>3, <4>1, <4>2
    <3>2. Plain(items) /\ PlainValue(v)
      BY <2>4, <3>1 DEF Plain
    <3>3. Without(more, Blank) = Cat(Without(items, Blank), Without(<<v>>, Blank))
      BY <1>3, <2>3, WithoutConcat
    <3> QED
      BY <2>2, <3>2, <3>3, PlainPieces
  <2>5. Matches(Texts(more), Cat(given, Pieces(v)))
    BY <2>4 DEF Matches, Texts
  <2>6. Assign(input, k, v) = Set(input, k, Texts(more))
    BY <1>4, <2>1, <2>3 DEF Assign
  <2> QED
    BY <1>1, <2>5, <2>6
<1>5. CASE k \notin DOMAIN input
  <2>1. Cat(given, Pieces(v)) = Pieces(v)
    BY <1>2, <1>5, CatFacts DEF Entry
  <2>2. CASE Len(v) > 1 /\ Pieces(v) # <<>>
    <3>1. Blank \notin Range(Pieces(v))
      <4>1. \A e \in Range(Pieces(v)) : \E y \in STRING : y # "" /\ e = <<y>>
        BY PiecesFacts
      <4>2. \A y : <<y>> = Blank => y = ""
        BY DEF Blank
      <4> QED
        BY <4>1, <4>2
    <3>2. Without(Pieces(v), Blank) = Pieces(v)
      BY <1>2, <3>1, WithoutElements
    <3>3. Matches(Texts(Pieces(v)), Pieces(v))
      BY <1>2, <3>2 DEF Matches, Texts
    <3> QED
      BY <1>1, <1>5, <2>1, <2>2, <3>3 DEF Assign
  <2>3. CASE ~ (Len(v) > 1 /\ Pieces(v) # <<>>)
    <3>1. Plain(<<v>>) => Without(<<v>>, Blank) = Pieces(v)
      BY <1>3, PlainPieces DEF Plain
    <3>2. Matches(Text(v), Pieces(v))
      BY <1>3, <3>1 DEF Matches, Text
    <3> QED
      BY <1>1, <1>5, <2>1, <2>3, <3>2 DEF Assign
  <2> QED
    BY <2>2, <2>3
<1> QED
  BY <1>4, <1>5

-----------------------------------------------------------------------------
(* The states of parseGeneratorArgs after each of the first n arguments.   *)
Steps(f, task, args, n) ==
  f = [i \in 0 .. n |-> IF i = 0 THEN Begun ELSE ParseArg(task, f[i - 1], args[i])]

(* There are such states, whatever the arguments.                          *)
LEMMA StepsExist ==
  ASSUME NEW task, NEW args, NEW n \in Nat
  PROVE  \E f : Steps(f, task, args, n)
<1> DEFINE T == {m \in Nat : \E f : Steps(f, task, args, m)}
<1>1. 0 \in T
  <2> DEFINE f == [i \in 0 .. 0 |-> Begun]
  <2>1. Steps(f, task, args, 0)
    BY DEF Steps
  <2> QED
    BY <2>1
<1>2. ASSUME NEW m \in Nat, NEW f, Steps(f, task, args, m)
      PROVE  \E h : Steps(h, task, args, m + 1)
  <2> DEFINE h == [i \in 0 .. m + 1 |-> IF i <= m THEN f[i] ELSE ParseArg(task, f[m], args[i])]
  <2>1. ASSUME NEW i \in 0 .. m + 1
        PROVE  h[i] = IF i = 0 THEN Begun ELSE ParseArg(task, h[i - 1], args[i])
    <3>1. \A j \in 0 .. m : f[j] = IF j = 0 THEN Begun ELSE ParseArg(task, f[j - 1], args[j])
      BY <1>2 DEF Steps
    <3>2. CASE i = 0
      BY <3>1, <3>2
    <3>3. CASE i \in 1 .. m
      <4>1. i - 1 \in 0 .. m + 1 /\ i - 1 <= m /\ i <= m /\ i # 0
        BY <3>3
      <4> QED
        BY <3>1, <3>3, <4>1
    <3>4. CASE i = m + 1
      <4>1. i - 1 = m /\ ~ (i <= m) /\ i # 0
        BY <3>4
      <4> QED
        BY <3>4, <4>1
    <3> QED
      BY <3>2, <3>3, <3>4
  <2>2. h = [i \in 0 .. m + 1 |-> IF i = 0 THEN Begun ELSE ParseArg(task, h[i - 1], args[i])]
    BY <2>1
  <2> HIDE DEF h
  <2> QED
    BY <2>2 DEF Steps
<1>3. \A m \in T \cap Nat : m + 1 \in T
  BY <1>2
<1> HIDE DEF T
<1>4. Nat \subseteq T
  BY <1>1, <1>3, AllNaturals
<1> QED
  BY <1>4 DEF T

(* What Parse accepts is the last of these states, and no flag is pending. *)
LEMMA ParseSteps ==
  ASSUME NEW task, NEW args, NEW n \in Nat, n = Len(args), Parse(task, args).ok
  PROVE  \E f : /\ Steps(f, task, args, n)
                /\ Parse(task, args) = f[n]
                /\ f[n].pending = NoFlag
<1> DEFINE after == CHOOSE f : Steps(f, task, args, n)
<1>1. Steps(after, task, args, n)
  BY StepsExist
<1>2. ~ Refused.ok
  BY DEF Refused
<1>3. Parse(task, args) = after[n] /\ after[n].pending = NoFlag
  BY <1>2 DEF Parse, Steps, Begun
<1> QED
  BY <1>1, <1>3

(* A refusal stays one.                                                    *)
LEMMA EveryStepIsOk ==
  ASSUME NEW task, NEW args, NEW n \in Nat, NEW f, Steps(f, task, args, n), f[n].ok
  PROVE  \A i \in 0 .. n : f[i].ok
<1> DEFINE T == {i \in 0 .. n : f[n - i].ok}
<1>1. 0 \in T
  OBVIOUS
<1>2. ASSUME NEW i \in 1 .. n, i - 1 \in T PROVE i \in T
  <2>1. PICK j \in 1 .. n : j = n - (i - 1) /\ j - 1 = n - i
    OBVIOUS
  <2>2. f[j] = ParseArg(task, f[j - 1], args[j])
    BY DEF Steps
  <2>3. f[j].ok
    BY <1>2, <2>1
  <2>4. ~ f[j - 1].ok => f[j] = f[j - 1]
    BY <2>2 DEF ParseArg
  <2> QED
    BY <2>1, <2>3, <2>4
<1>3. \A i \in 1 .. n : i - 1 \in T => i \in T
  BY <1>2
<1> HIDE DEF T
<1>4. 0 .. n \subseteq T
  BY <1>1, <1>3, UpTo
<1>5. ASSUME NEW i \in 0 .. n PROVE f[i].ok
  <2>1. n - i \in 0 .. n /\ n - (n - i) = i
    OBVIOUS
  <2> QED
    BY <1>4, <2>1 DEF T
<1> QED
  BY <1>5

-----------------------------------------------------------------------------
(* The states of a parse that goes on.                                     *)
Shape(s) == \E a, b, c : s = [input |-> a, poll |-> b, pending |-> c, ok |-> TRUE]

(* It goes on at first, with nothing given.                                *)
LEMMA BegunFacts == Shape(Begun) /\ Begun.pending = NoFlag /\ Begun.input = <<>>
<1>1. PICK a : a = <<>>
  OBVIOUS
<1>2. Begun = [input |-> a, poll |-> FALSE, pending |-> NoFlag, ok |-> TRUE]
  BY <1>1 DEF Begun
<1> QED
  BY <1>1, <1>2 DEF Shape

(* The flag that an argument's value is for, if the argument has one.      *)
FlagFor(s, arg) == IF arg.flag = NoFlag THEN s.pending ELSE arg.flag

(* t has what s has, and value assigned to flag's key, unless it is --poll.*)
Taken(task, s, flag, value, t) ==
  /\ Shape(t)
  /\ t.pending = NoFlag
  /\ flag = "poll" => t.input = s.input
  /\ flag # "poll" => t.input = Assign(s.input, KeyOf(task, flag), value)

(* An accepted argument is a bare flag, which is pending next, or a value. *)
LEMMA ArgIsTaken ==
  ASSUME NEW task, NEW s, NEW arg, NEW t, Shape(s), t = ParseArg(task, s, arg), t.ok,
         arg.flag = NoFlag => arg.value # NoValue
  PROVE  /\ arg.value = NoValue => /\ Shape(t)
                                   /\ t.input = s.input
                                   /\ t.pending = arg.flag
         /\ arg.value # NoValue => Taken(task, s, FlagFor(s, arg), arg.value, t)
         /\ arg.flag = NoFlag => s.pending # NoFlag
<1>1. PICK a, b, c : s = [input |-> a, poll |-> b, pending |-> c, ok |-> TRUE]
  BY DEF Shape
<1>2. ~ Refused.ok
  BY DEF Refused
<1>3. ASSUME NEW f,
             t = Take(task, s, f, arg.value, FALSE) \/ t = Take(task, s, f, arg.value, TRUE)
      PROVE  Taken(task, s, f, arg.value, t)
  <2>1. CASE f = "poll"
    <3>1. t = [s EXCEPT !.poll = arg.value[1] # "0", !.pending = NoFlag]
      BY <1>2, <1>3, <2>1 DEF Take
    <3> QED
      BY <1>1, <2>1, <3>1 DEF Taken, Shape
  <2>2. CASE f # "poll"
    <3>1. t = [s EXCEPT !.input = Assign(s.input, KeyOf(task, f), arg.value),
                        !.pending = NoFlag]
      BY <1>2, <1>3, <2>2 DEF Take
    <3> QED
      BY <1>1, <2>2, <3>1 DEF Taken, Shape
  <2> QED
    BY <2>1, <2>2
<1>4. s.ok /\ s.pending = c /\ s.input = a
  BY <1>1
<1>5. CASE arg.flag = NoFlag /\ s.pending # NoFlag
  <2>1. t = Take(task, s, s.pending, arg.value, FALSE)
    BY <1>4, <1>5 DEF ParseArg
  <2>2. FlagFor(s, arg) = s.pending /\ arg.value # NoValue
    BY <1>5 DEF FlagFor
  <2> QED
    BY <1>3, <1>5, <2>1, <2>2
<1>6. CASE arg.flag # NoFlag /\ s.pending = NoFlag /\ arg.value = NoValue
  <2>1. t = [s EXCEPT !.pending = arg.flag]
    BY <1>4, <1>6 DEF ParseArg
  <2> QED
    BY <1>1, <1>6, <2>1 DEF Shape
<1>7. CASE arg.flag # NoFlag /\ s.pending = NoFlag /\ arg.value # NoValue
  <2>1. t = Take(task, s, arg.flag, arg.value, TRUE)
    BY <1>4, <1>7 DEF ParseArg
  <2>2. FlagFor(s, arg) = arg.flag
    BY <1>7 DEF FlagFor
  <2> QED
    BY <1>3, <1>7, <2>1, <2>2
<1>8. CASE \/ arg.flag = NoFlag /\ s.pending = NoFlag
           \/ arg.flag # NoFlag /\ s.pending # NoFlag
  <2>1. t = Refused
    BY <1>4, <1>8 DEF ParseArg
  <2> QED
    BY <1>2, <2>1
<1> QED
  BY <1>5, <1>6, <1>7, <1>8

-----------------------------------------------------------------------------
(* What LinesAssumption lets a command line have.                          *)
Args == [flag : STRING \cup {NoFlag}, value : Seq(STRING) \cup {NoValue}]

(* The i-th argument has a value, for this key.                            *)
Gives(task, args, i, key) ==
  /\ args[i].value # NoValue
  /\ KeyOf(task, IF args[i].flag = NoFlag THEN args[i - 1].flag ELSE args[i].flag) = key

(* h[i] is what the first i arguments give for a key.                      *)
GivenTo(h, task, args, n, key) ==
  /\ h \in [0 .. n -> Seq(Seq(STRING))]
  /\ h[0] = <<>>
  /\ \A i \in 1 .. n :
       /\ Gives(task, args, i, key) => h[i] = Cat(h[i - 1], Pieces(args[i].value))
       /\ ~ Gives(task, args, i, key) => h[i] = h[i - 1]

(* There is such an h, and at its end is all that was given.               *)
LEMMA GivenSoFar ==
  ASSUME NEW task, NEW args \in Seq(Args), NEW n \in Nat, n = Len(args), NEW key
  PROVE  \E h : /\ GivenTo(h, task, args, n, key)
                /\ Pieces(FlattenSeq(ValuesFor(task, args, key))) = h[n]
<1> DEFINE V == Seq(STRING)
           Value(i) == IF Gives(task, args, i, key) THEN <<args[i].value>> ELSE <<>>
<1>1. DOMAIN args = 1 .. n /\ \A i \in 1 .. n : args[i] \in Args
  BY LenProperties, ElementOfSeq
<1>2. \A i \in 1 .. n : args[i].value # NoValue => args[i].value \in V
  BY <1>1 DEF Args
<1>3. \A i \in 1 .. n : Value(i) \in Seq(V)
  <2>1. \A v \in V : <<v>> \in Seq(V)
    BY Single
  <2>2. <<>> \in Seq(V)
    BY EmptySeq
  <2> HIDE DEF V
  <2> QED
    BY <1>2, <2>1, <2>2 DEF Gives
<1>4. PICK W : W = [i \in 1 .. n |-> Value(i)]
  OBVIOUS
<1>5. W \in Seq(Seq(V)) /\ Len(W) = n /\ \A i \in 1 .. n : W[i] = Value(i)
  <2> HIDE DEF V, Value
  <2>1. W \in [1 .. n -> Seq(V)]
    BY <1>3, <1>4
  <2> QED
    BY <1>4, <2>1
<1>6. ValuesFor(task, args, key) = FlattenSeq(W)
  BY <1>1, <1>4 DEF ValuesFor, Gives
<1> HIDE DEF V
<1>7. PICK g : Joins(g, V, W)
  BY <1>5, JoinsExists
<1>8. FlattenSeq(W) = g[n]
  BY <1>5, <1>7, Flattening
<1>9. g \in [0 .. n -> Seq(V)] /\ g[0] = <<>> /\ \A i \in 1 .. n : g[i] = Cat(g[i - 1], Value(i))
  <2> HIDE DEF Value
  <2> QED
    BY <1>5, <1>7 DEF Joins
<1> DEFINE h == [i \in 0 .. n |-> Pieces(FlattenSeq(g[i]))]
<1>10. h \in [0 .. n -> Seq(Seq(STRING))]
  <2>1. \A i \in 0 .. n : FlattenSeq(g[i]) \in Seq(STRING)
    BY <1>9, FlattenFacts DEF V
  <2> QED
    BY <2>1, PiecesFacts
<1>11. h[0] = <<>>
  <2>1. FlattenSeq(g[0]) = <<>>
    BY <1>9, FlattenFacts
  <2>2. 0 \in 0 .. n
    OBVIOUS
  <2>3. h[0] = Pieces(FlattenSeq(g[0]))
    BY <2>2
  <2> HIDE DEF h
  <2> QED
    BY <2>1, <2>3, PiecesShort
<1>12. ASSUME NEW i \in 1 .. n
       PROVE  /\ Gives(task, args, i, key) => h[i] = Cat(h[i - 1], Pieces(args[i].value))
              /\ ~ Gives(task, args, i, key) => h[i] = h[i - 1]
  <2>1. PICK x \in Seq(V) : x = g[i - 1] /\ g[i] = Cat(x, Value(i))
    <3>1. i - 1 \in 0 .. n
      OBVIOUS
    <3> QED
      BY <1>9, <3>1
  <2>2. h[i] = Pieces(FlattenSeq(g[i])) /\ h[i - 1] = Pieces(FlattenSeq(x))
    BY <2>1
  <2> HIDE DEF h
  <2>3. CASE ~ Gives(task, args, i, key)
    BY <2>1, <2>2, <2>3, CatFacts
  <2>4. CASE Gives(task, args, i, key)
    <3>1. PICK v \in V : v = args[i].value
      BY <1>2, <2>4 DEF Gives
    <3>2. PICK one \in Seq(V) : one = <<v>> /\ FlattenSeq(one) = v
      BY Single, FlattenFacts DEF V
    <3>3. FlattenSeq(x \o one) = FlattenSeq(x) \o FlattenSeq(one)
      BY FlattenConcat DEF V
    <3>4. FlattenSeq(g[i]) = Cat(FlattenSeq(x), v)
      BY <2>1, <2>4, <3>1, <3>2, <3>3 DEF Cat
    <3>5. FlattenSeq(x) \in Seq(STRING)
      BY FlattenFacts DEF V
    <3>6. Pieces(Cat(FlattenSeq(x), v)) = Cat(Pieces(FlattenSeq(x)), Pieces(v))
      BY <3>5, PiecesConcat DEF V
    <3> QED
      BY <2>2, <2>4, <3>1, <3>4, <3>6
  <2> QED
    BY <2>3, <2>4
<1>13. h[n] = Pieces(FlattenSeq(g[n]))
  OBVIOUS
<1> HIDE DEF h
<1>14. GivenTo(h, task, args, n, key)
  BY <1>10, <1>11, <1>12 DEF GivenTo
<1> QED
  BY <1>6, <1>8, <1>13, <1>14

-----------------------------------------------------------------------------
(* The input of an accepted command line has, for every key of files, what *)
(* the arguments give for it.                                              *)
THEOREM InputIsGiven ==
  ASSUME NEW task, NEW args \in Seq(Args),
         \A i \in DOMAIN args : args[i].flag = NoFlag => args[i].value # NoValue,
         Parse(task, args).ok, NEW k \in FileKeys
  PROVE  Entry(Parse(task, args).input, k,
               Pieces(FlattenSeq(ValuesFor(task, args, k))))
<1>1. PICK n \in Nat : n = Len(args) /\ DOMAIN args = 1 .. n
  BY LenProperties
<1>2. \A i \in 1 .. n : args[i] \in Args
  BY <1>1, ElementOfSeq
<1>3. PICK f : /\ Steps(f, task, args, n)
               /\ Parse(task, args) = f[n]
               /\ f[n].pending = NoFlag
  BY <1>1, ParseSteps
<1>4. PICK h : /\ GivenTo(h, task, args, n, k)
               /\ Pieces(FlattenSeq(ValuesFor(task, args, k))) = h[n]
  BY <1>1, GivenSoFar
<1>5. \A i \in 0 .. n : f[i].ok
  BY <1>3, EveryStepIsOk
<1> DEFINE Holds(i) ==
             /\ Shape(f[i])
             /\ f[i].pending # NoFlag => /\ i # 0
                                         /\ args[i].flag = f[i].pending
             /\ Entry(f[i].input, k, h[i])
           T == {i \in 0 .. n : Holds(i)}
<1>6. 0 \in T
  <2>1. f[0] = Begun
    BY <1>3 DEF Steps
  <2>2. Shape(f[0]) /\ f[0].pending = NoFlag /\ f[0].input = <<>>
    BY <2>1, BegunFacts
  <2>3. k \notin DOMAIN <<>>
    OBVIOUS
  <2>4. h[0] = <<>>
    BY <1>4 DEF GivenTo
  <2> QED
    BY <2>2, <2>3, <2>4 DEF Entry
<1>7. ASSUME NEW i \in 1 .. n, i - 1 \in T PROVE i \in T
  <2>1. PICK j \in 0 .. n : j = i - 1 /\ Holds(j)
    BY <1>7
  <2>2. f[i] = ParseArg(task, f[j], args[i])
    BY <1>3, <2>1 DEF Steps
  <2>3. args[i].flag = NoFlag => args[i].value # NoValue
    BY <1>1
  <2>4. /\ args[i].value = NoValue => /\ Shape(f[i])
                                     /\ f[i].input = f[j].input
                                     /\ f[i].pending = args[i].flag
        /\ args[i].value # NoValue =>
             Taken(task, f[j], FlagFor(f[j], args[i]), args[i].value, f[i])
        /\ args[i].flag = NoFlag => f[j].pending # NoFlag
    BY <1>5, <2>1, <2>2, <2>3, ArgIsTaken
  <2>5. /\ Gives(task, args, i, k) => h[i] = Cat(h[j], Pieces(args[i].value))
        /\ ~ Gives(task, args, i, k) => h[i] = h[j]
    BY <1>4, <2>1 DEF GivenTo
  <2>6. CASE args[i].value = NoValue
    BY <2>1, <2>4, <2>5, <2>6 DEF Gives
  <2>7. CASE args[i].value # NoValue
    <3>1. PICK flag : flag = FlagFor(f[j], args[i])
      OBVIOUS
    <3>2. Taken(task, f[j], flag, args[i].value, f[i])
      BY <2>4, <2>7, <3>1
    <3>3. Gives(task, args, i, k) <=> KeyOf(task, flag) = k
      <4>1. args[i].flag = NoFlag => f[j].pending = args[i - 1].flag
        BY <2>1, <2>4
      <4> QED
        BY <2>7, <3>1, <4>1 DEF Gives, FlagFor
    <3>4. Entry(f[i].input, k, h[i])
      <4>1. CASE flag = "poll"
        <5>1. KeyOf(task, flag) # k
          BY <4>1 DEF KeyOf, FileKeys
        <5> QED
          BY <2>1, <2>5, <3>2, <3>3, <4>1, <5>1 DEF Taken
      <4>2. CASE flag # "poll" /\ KeyOf(task, flag) # k
        BY <2>1, <2>5, <3>2, <3>3, <4>2, AssignOther DEF Taken
      <4>3. CASE flag # "poll" /\ KeyOf(task, flag) = k
        <5>1. h[j] \in Seq(Seq(STRING)) /\ args[i].value \in Seq(STRING)
          BY <1>2, <1>4, <2>7 DEF GivenTo, Args
        <5>2. f[i].input = Assign(f[j].input, k, args[i].value)
          BY <3>2, <4>3 DEF Taken
        <5> QED
          BY <2>1, <2>5, <3>3, <4>3, <5>1, <5>2, AssignSame
      <4> QED
        BY <4>1, <4>2, <4>3
    <3> QED
      BY <3>2, <3>4 DEF Taken
  <2> QED
    BY <2>6, <2>7
<1>8. \A i \in 1 .. n : i - 1 \in T => i \in T
  BY <1>7
<1> HIDE DEF T
<1>9. 0 .. n \subseteq T
  BY <1>6, <1>8, UpTo
<1>10. Entry(f[n].input, k, h[n])
  BY <1>9 DEF T
<1> QED
  BY <1>3, <1>4, <1>10

-----------------------------------------------------------------------------
(* FilesAssumption, in the words of these lemmas.                          *)
LEMMA PlainFile == \A f \in Files : PlainValue(f) /\ Len(f) = 1 /\ f # Blank
<1> SUFFICES ASSUME NEW f \in Files PROVE PlainValue(f) /\ Len(f) = 1 /\ f # Blank
  OBVIOUS
<1>1. f \in Seq(STRING) /\ Len(f) = 1 /\ f # Blank
  BY FilesAssumption
<1>2. PICK y : y = f[1]
  OBVIOUS
<1>3. f = <<y>>
  BY <1>1, <1>2
<1>4. y # ""
  BY <1>1, <1>3 DEF Blank
<1> QED
  BY <1>1, <1>3, <1>4 DEF PlainValue

(* A list that is printed in brackets is no file.                          *)
LEMMA BracketsAreLong ==
  ASSUME NEW S, NEW s \in Seq(S), NEW a, NEW b
  PROVE  Len(<<a>> \o s \o <<b>>) >= 2
<1> DEFINE T == S \cup {a, b}
<1>1. s \in Seq(T)
  OBVIOUS
<1>2. <<a>> \in Seq(T) /\ <<b>> \in Seq(T) /\ Len(<<a>>) = 1 /\ Len(<<b>>) = 1
  OBVIOUS
<1> HIDE DEF T
<1>3. <<a>> \o s \in Seq(T) /\ Len(<<a>> \o s) = 1 + Len(s)
  BY <1>1, <1>2, ConcatProperties
<1>4. Len(<<a>> \o s \o <<b>>) = 1 + Len(s) + 1
  BY <1>2, <1>3, ConcatProperties
<1>5. Len(s) \in Nat
  BY LenProperties
<1> QED
  BY <1>4, <1>5

(* Paths that there are files at are the ones that were given.             *)
LEMMA PathsAreGiven ==
  ASSUME NEW input, NEW k, NEW given, Entry(input, k, given), NEW path,
         path = PathsFor(input, k), Range(path) \subseteq Files
  PROVE  path = given
<1> USE DEF PathsFor
<1>1. CASE k \notin DOMAIN input
  <2>1. given = <<>>
    BY <1>1 DEF Entry
  <2>2. CASE k \in SingleKeys
    <3>1. path = <<Blank>>
      BY <1>1, <2>2 DEF AnyString
    <3>2. Blank \in Range(path)
      BY <3>1 DEF Range
    <3> QED
      BY <3>2, PlainFile
  <2>3. CASE k \notin SingleKeys
    BY <1>1, <2>1, <2>3 DEF Slice
  <2> QED
    BY <2>2, <2>3
<1>2. CASE k \in DOMAIN input
  <2>1. PICK items \in Seq(Seq(STRING)) : items = input[k].items
    BY <1>2 DEF Entry, Matches
  <2>2. Plain(items) => Without(items, Blank) = given
    BY <1>2, <2>1 DEF Entry, Matches
  <2>3. CASE k \notin SingleKeys
    <3>1. path = Without(items, Blank)
      BY <1>2, <2>1, <2>3 DEF Slice
    <3>2. Range(items) \ {Blank} \subseteq Files
      BY <3>1, WithoutElements
    <3>3. Plain(items)
      BY <3>2, PlainFile DEF Plain, PlainValue
    <3> QED
      BY <2>2, <3>1, <3>3
  <2>4. CASE k \in SingleKeys
    <3>1. PICK s : path = <<s>> /\ s = AnyString(input, k)
      BY <2>4
    <3>2. s \in Files
      BY <3>1 DEF Range
    <3>3. CASE input[k].many
      <4>1. FlattenSeq(items) \in Seq(STRING)
        BY FlattenFacts
      <4>2. s = <<"[">> \o FlattenSeq(items) \o <<"]">>
        BY <1>2, <2>1, <3>1, <3>3 DEF AnyString
      <4>3. Len(s) >= 2
        BY <4>1, <4>2, BracketsAreLong
      <4>4. Len(s) = 1
        BY <3>2, PlainFile
      <4> QED
        BY <4>3, <4>4
    <3>4. CASE ~ input[k].many
      <4>1. PICK v \in Seq(STRING) : items = <<v>>
        BY <1>2, <2>1, <3>4 DEF Entry, Matches
      <4>2. s = items[1]
        BY <1>2, <2>1, <3>1, <3>4 DEF AnyString
      <4>3. s = v
        BY <4>1, <4>2
      <4>4. PlainValue(v) /\ v # Blank
        BY <3>2, <4>3, PlainFile
      <4>5. Plain(items)
        BY <4>1, <4>4 DEF Plain, Range
      <4>6. Without(<<v>>, Blank) = <<v>>
        BY <4>4, WithoutShort
      <4> QED
        BY <2>2, <3>1, <4>1, <4>3, <4>5, <4>6
    <3> QED
      BY <3>3, <3>4
  <2> QED
    BY <2>3, <2>4
<1> QED
  BY <1>1, <1>2

-----------------------------------------------------------------------------
(* A command that is under way has a line that was accepted, and what it   *)
(* submitted is what that line comes to, whose files were there.           *)
AcceptedLines == {l \in Lines : Parsed[l].ok}
Submitted(p) ==
  /\ line[p] \in AcceptedLines
  /\ sent[p] = Requests[line[p]]
  /\ \A k \in DOMAIN sent[p].uploads : Range(sent[p].uploads[k]) \subseteq Files

(* The parts of the invariant.  Nothing is left of a command that has      *)
(* ended, so what a new one has in sent is what its own Submit put there.  *)
Typed ==
  /\ DOMAIN pc = Procs
  /\ DOMAIN line = Procs
  /\ DOMAIN sent = Procs
  /\ files \subseteq Files
AcceptedAtWork == \A p \in Procs : pc[p] \in {"check", "submit"} => line[p] \in AcceptedLines
NothingSentYet == \A p \in Procs : pc[p] = "off" => sent[p] = NoRequest
SentIsTheLines == \A p \in Procs : sent[p] # NoRequest => Submitted(p)
FilesInv == Typed /\ AcceptedAtWork /\ NothingSentYet /\ SentIsTheLines

(* Init: no command is under way.                                          *)
LEMMA FilesInit == Init => FilesInv
BY DEF Init, main, disk, FilesInv, Typed, AcceptedAtWork, NothingSentYet, SentIsTheLines

(* Only Start gives a process a line, and one that was accepted when it    *)
(* goes on to check; only Submit sends, and only what is Uploadable.       *)
LEMMA FilesNext == FilesInv /\ [Next]_vars => FilesInv'
<1> SUFFICES ASSUME FilesInv, [Next]_vars PROVE FilesInv'
  OBVIOUS
<1> USE DEF FilesInv
<1>1. CASE UNCHANGED <<pc, line, sent>> /\ files' \subseteq files
  BY <1>1 DEF Typed, AcceptedAtWork, NothingSentYet, SentIsTheLines, Submitted
<1>2. ASSUME NEW p \in Procs, NEW l \in LinesOf[p], Start(p, l) PROVE FilesInv'
  <2>1. l \in Lines
    BY DEF Lines
  <2>2. /\ pc[p] = "off"
        /\ line' = [line EXCEPT ![p] = l]
        /\ \E to : /\ to \in {"check", "print"}
                   /\ to = "check" => Parsed[l].ok
                   /\ pc' = [pc EXCEPT ![p] = to]
        /\ sent' = sent
        /\ files' = files
    BY <1>2 DEF Start, disk
  <2> QED
    BY <2>1, <2>2 DEF Typed, AcceptedAtWork, NothingSentYet, SentIsTheLines, Submitted, AcceptedLines
<1>3. ASSUME NEW p \in Procs, Submit(p) PROVE FilesInv'
  <2>1. /\ pc[p] = "submit"
        /\ Uploadable(Requests[line[p]])
        /\ sent' = [sent EXCEPT ![p] = Requests[line[p]]]
        /\ line' = line
        /\ files' = files
        /\ \E to : /\ to \in {"poll", "print"}
                   /\ pc' = [pc EXCEPT ![p] = to]
    BY <1>3 DEF Submit, disk
  <2>2. PICK request : request = Requests[line[p]]
    OBVIOUS
  <2>3. \A k \in DOMAIN request.uploads : Range(request.uploads[k]) \subseteq Files
    BY <2>1, <2>2 DEF Uploadable, Typed
  <2>4. line[p] \in AcceptedLines
    BY <2>1 DEF AcceptedAtWork
  <2>5. sent'[p] = request
    BY <2>1, <2>2 DEF Typed
  <2> QED
    BY <2>1, <2>2, <2>3, <2>4, <2>5
    DEF Typed, AcceptedAtWork, NothingSentYet, SentIsTheLines, Submitted
<1>4. ASSUME NEW p \in Procs, Check(p) PROVE FilesInv'
  <2>1. /\ pc[p] = "check"
        /\ UNCHANGED <<line, sent, files>>
        /\ \E to : to \in {"submit", "print"} /\ pc' = [pc EXCEPT ![p] = to]
    BY <1>4 DEF Check, Return, disk
  <2> QED
    BY <2>1 DEF Typed, AcceptedAtWork, NothingSentYet, SentIsTheLines, Submitted
<1>5. ASSUME NEW p \in Procs, SubmitFails(p) \/ PollEnds(p) PROVE FilesInv'
  <2>1. UNCHANGED <<line, sent, files>> /\ pc' = [pc EXCEPT ![p] = "print"]
    BY <1>5 DEF SubmitFails, PollEnds, Return, disk
  <2> QED
    BY <2>1 DEF Typed, AcceptedAtWork, NothingSentYet, SentIsTheLines, Submitted
<1>6. ASSUME NEW p \in Procs, ExitOf(p) PROVE FilesInv'
  <2>1. /\ pc' = [pc EXCEPT ![p] = "off"]
        /\ line' = [line EXCEPT ![p] = NoLine]
        /\ sent' = [sent EXCEPT ![p] = NoRequest]
        /\ files' = files
    BY <1>6 DEF ExitOf, disk
  <2> QED
    BY <2>1 DEF Typed, AcceptedAtWork, NothingSentYet, SentIsTheLines, Submitted
<1>7. ASSUME NEW p \in Procs, Poll(p) PROVE FilesInv'
  BY <1>1, <1>7 DEF Poll, disk
<1>8. ASSUME NEW p \in Procs, Updater(p) PROVE FilesInv'
  BY <1>1, <1>8 DEF Updater, ReadVersion, FetchForCache, TruncateVersion, FillVersion,
     WriteVersionFails, StatVersion, CheckDirectory, DownloadVersion, CheckGoes, CheckEnds,
     Notify, main, disk
<1>9. ASSUME NEW p \in Procs, PrintNotice(p) \/ ExitQuietly(p) \/ Kill(p) PROVE FilesInv'
  BY <1>6, <1>9 DEF PrintNotice, ExitQuietly, Kill
<1>10. CASE HourPasses \/ LoginChanges \/ \E f \in files \cap Removable : RemoveFile(f)
  BY <1>1, <1>10 DEF HourPasses, LoginChanges, RemoveFile, main, disk
<1>11. CASE UNCHANGED vars
  BY <1>1, <1>11 DEF vars, main, disk
<1> QED
  BY <1>2, <1>3, <1>4, <1>5, <1>7, <1>8, <1>9, <1>10, <1>11 DEF Next, Main

(* What a line gives for a key, and what the parser has made of it.        *)
LEMMA PathsOfLine ==
  ASSUME NEW l \in AcceptedLines, NEW task, task = TaskOf(l.name),
         NEW input, input = Parse(task, l.args).input,
         NEW k \in FileKeys, Range(PathsFor(input, k)) \subseteq Files
  PROVE  PathsFor(input, k) = Pieces(FlattenSeq(ValuesFor(task, l.args, k)))
<1>1. /\ l \in Lines /\ l.name \in Generators
      /\ Parse(task, l.args).ok
  BY DEF AcceptedLines, Parsed, Refused
<1>2. PICK given : given = Pieces(FlattenSeq(ValuesFor(task, l.args, k)))
  OBVIOUS
<1>3. PICK path : path = PathsFor(input, k)
  OBVIOUS
<1>4. Entry(input, k, given)
  <2>1. /\ l.args \in Seq(Args)
        /\ \A i \in DOMAIN l.args : l.args[i].flag = NoFlag => l.args[i].value # NoValue
    BY <1>1, LinesAssumption DEF Lines, Args
  <2> QED
    BY <1>1, <1>2, <2>1, InputIsGiven
<1> QED
  BY <1>2, <1>3, <1>4, PathsAreGiven

(* Two paths that are uploaded together.                                   *)
LEMMA PairOfPaths ==
  ASSUME NEW a, NEW b
  PROVE  Range(<<a>> \o <<b>>) = Range(<<a>>) \cup Range(<<b>>)
<1>1. PICK s, t : s = <<a>> /\ t = <<b>>
  OBVIOUS
<1>2. s \in Seq({a, b}) /\ t \in Seq({a, b})
  BY <1>1
<1>3. Range(Cat(s, t)) = Range(s) \cup Range(t)
  BY <1>2, CatElements
<1> QED
  BY <1>1, <1>3 DEF Cat

(* What was submitted of a line has the files that the line gives.         *)
LEMMA SubmittedIsGiven ==
  ASSUME NEW p, Submitted(p), NEW u \in DOMAIN sent[p].uploads
  PROVE  sent[p].uploads[u] = FilesOf[line[p]][u]
<1>1. PICK l : l = line[p] /\ l \in AcceptedLines /\ sent[p] = Requests[l]
  BY DEF Submitted
<1>2. PICK task, input : /\ task = TaskOf(l.name)
                         /\ input = Parse(task, l.args).input
                         /\ Requests[l] = Request(task, input)
  BY <1>1 DEF AcceptedLines, Requests, Parsed, Refused
<1>3. PICK uploads : uploads = Uploads(task, input) /\ sent[p].uploads = uploads
  BY <1>1, <1>2 DEF Request
<1>4. u \in DOMAIN uploads /\ Range(uploads[u]) \subseteq Files
  BY <1>3 DEF Submitted
<1>5. ASSUME NEW k \in FileKeys, Range(PathsFor(input, k)) \subseteq Files
      PROVE  PathsFor(input, k) = Pieces(FlattenSeq(ValuesFor(task, l.args, k)))
  BY <1>1, <1>2, <1>5, PathsOfLine
<1>6. CASE task = "frames2video"
  <2>1. PICK first, last : first = PathsFor(input, "first_path")
                        /\ last = PathsFor(input, "last_path")
    OBVIOUS
  <2>2. u = "frames" /\ uploads[u] = first \o last
    BY <1>3, <1>4, <1>6, <2>1 DEF Uploads
  <2>3. Range(first) \subseteq Files /\ Range(last) \subseteq Files
    <3>1. PICK a, b : first = <<a>> /\ last = <<b>>
      BY <2>1 DEF PathsFor, SingleKeys
    <3> QED
      BY <1>4, <2>2, <3>1, PairOfPaths
  <2>4. /\ first = Pieces(FlattenSeq(ValuesFor(task, l.args, "first_path")))
        /\ last = Pieces(FlattenSeq(ValuesFor(task, l.args, "last_path")))
    BY <1>5, <2>1, <2>3 DEF FileKeys
  <2>5. FilesOf[l]["frames"] = first \o last
    BY <1>1, <1>2, <2>4 DEF FilesOf, AcceptedLines, FileKeys
  <2> QED
    BY <1>1, <1>3, <2>2, <2>5
<1>7. CASE task # "frames2video"
  <2>1. u \in FileKeys /\ uploads[u] = PathsFor(input, u)
    BY <1>3, <1>4, <1>7 DEF Uploads
  <2>2. FilesOf[l][u] = Pieces(FlattenSeq(ValuesFor(task, l.args, u)))
    BY <1>1, <1>2, <2>1 DEF FilesOf, AcceptedLines, FileKeys
  <2> QED
    BY <1>1, <1>3, <1>4, <1>5, <2>1, <2>2
<1> QED
  BY <1>6, <1>7

(* Whatever flags a command line has, in whatever order, single or         *)
(* repeated, split or not, and whichever files go away meanwhile: for a    *)
(* request that is submitted, each upload was handed the paths that the    *)
(* line gives for its key, all of them and in their order, and the upload  *)
(* of the frames the first one and then the last.                          *)
THEOREM FilesAreAsGiven == Spec => []FilesAsGiven
<1>1. FilesInv => FilesAsGiven
  BY SubmittedIsGiven DEF FilesInv, SentIsTheLines, FilesAsGiven
<1>2. Spec => []FilesInv
  BY FilesInit, FilesNext, PTL DEF Spec
<1> QED
  BY <1>1, <1>2, PTL

-----------------------------------------------------------------------------
(* The steps of the two searches for items, by name: the next level of     *)
(* nodes, and what is found at one level, given the level below.           *)
Step(search, level, i, v) ==
  CASE search = "opened" -> UNION {Opened(n) : n \in v}
    [] search = "held" -> UNION {Held(n) : n \in v}
    [] search = "outcomes" -> [n \in level[8 - i] |-> Outcomes(n, v)]
    [] search = "parses" -> [n \in level[MaxNesting - i] |-> Parses(n, v)]

Goes(f, search, level, b, n) ==
  f = [i \in 0 .. n |-> IF i = 0 THEN b ELSE Step(search, level, i, f[i - 1])]

(* There are such steps.                                                   *)
LEMMA GoesOn ==
  ASSUME NEW search, NEW level, NEW b, NEW n \in Nat
  PROVE  \E f : Goes(f, search, level, b, n)
<1> DEFINE T == {m \in Nat : \E f : Goes(f, search, level, b, m)}
<1>1. 0 \in T
  <2> DEFINE f == [i \in 0 .. 0 |-> b]
  <2>1. Goes(f, search, level, b, 0)
    BY DEF Goes
  <2> QED
    BY <2>1
<1>2. ASSUME NEW m \in Nat, NEW f, Goes(f, search, level, b, m)
      PROVE  \E h : Goes(h, search, level, b, m + 1)
  <2> DEFINE h == [i \in 0 .. m + 1 |-> IF i <= m THEN f[i] ELSE Step(search, level, i, f[m])]
  <2>1. ASSUME NEW i \in 0 .. m + 1
        PROVE  h[i] = IF i = 0 THEN b ELSE Step(search, level, i, h[i - 1])
    <3>1. \A j \in 0 .. m : f[j] = IF j = 0 THEN b ELSE Step(search, level, j, f[j - 1])
      BY <1>2 DEF Goes
    <3>2. CASE i = 0
      BY <3>1, <3>2
    <3>3. CASE i \in 1 .. m
      <4>1. i - 1 \in 0 .. m + 1 /\ i - 1 <= m /\ i <= m /\ i # 0
        BY <3>3
      <4> QED
        BY <3>1, <3>3, <4>1
    <3>4. CASE i = m + 1
      <4>1. i - 1 = m /\ ~ (i <= m) /\ i # 0
        BY <3>4
      <4> QED
        BY <3>4, <4>1
    <3> QED
      BY <3>2, <3>3, <3>4
  <2>2. h = [i \in 0 .. m + 1 |-> IF i = 0 THEN b ELSE Step(search, level, i, h[i - 1])]
    BY <2>1
  <2> HIDE DEF h
  <2> QED
    BY <2>2 DEF Goes
<1>3. \A m \in T \cap Nat : m + 1 \in T
  BY <1>2
<1> HIDE DEF T
<1>4. Nat \subseteq T
  BY <1>1, <1>3, AllNaturals
<1> QED
  BY <1>4 DEF T

(* The search for the items, level by level.                               *)
Levels(level, start) ==
  level = [d \in 0 .. 8 |->
             IF d = 0 THEN {start} ELSE UNION {Opened(n) : n \in level[d - 1]}]
FoundIn(found, level) ==
  found = [left \in 0 .. 8 |->
             [n \in level[8 - left] |->
                IF left = 0 THEN {Nil} ELSE Outcomes(n, found[left - 1])]]

(* FindItems is the outcome of such a search.                              *)
LEMMA FindSteps ==
  ASSUME NEW start
  PROVE  \E level, found : /\ Levels(level, start)
                           /\ FoundIn(found, level)
                           /\ FindItems(start) = found[8][start]
<1> DEFINE level == CHOOSE f : Levels(f, start)
           found == CHOOSE f : FoundIn(f, level)
<1>1. Levels(level, start)
  <2>1. PICK f : Goes(f, "opened", <<>>, {start}, 8)
    BY GoesOn
  <2>2. \A i, v : Step("opened", <<>>, i, v) = UNION {Opened(n) : n \in v}
    BY DEF Step
  <2>3. Levels(f, start)
    BY <2>1, <2>2 DEF Goes, Levels
  <2> QED
    BY <2>3
<1>2. FoundIn(found, level)
  <2> HIDE DEF level
  <2>1. PICK f : Goes(f, "outcomes", level, [n \in level[8] |-> {Nil}], 8)
    BY GoesOn
  <2>2. \A i, v : Step("outcomes", level, i, v) = [n \in level[8 - i] |-> Outcomes(n, v)]
    BY DEF Step
  <2>3. ASSUME NEW left \in 0 .. 8
        PROVE f[left] = [n \in level[8 - left] |->
                IF left = 0 THEN {Nil} ELSE Outcomes(n, f[left - 1])]
    <3>1. f[left] = IF left = 0 THEN [n \in level[8] |-> {Nil}]
                    ELSE Step("outcomes", level, left, f[left - 1])
      BY <2>1 DEF Goes
    <3>2. CASE left = 0
      BY <3>1, <3>2
    <3> QED
      BY <3>1, <3>2, <2>2
  <2>4. f = [left \in 0 .. 8 |-> f[left]]
    BY <2>1 DEF Goes
  <2>5. FoundIn(f, level)
    BY <2>3, <2>4 DEF FoundIn
  <2> QED
    BY <2>5
<1>3. FindItems(start) = found[8][start]
  BY DEF FindItems, Search, Levels, FoundIn
<1> HIDE DEF level, found
<1> QED
  BY <1>1, <1>2, <1>3

(* The first search that comes to a value.                                 *)
LEMMA FirstOutcome ==
  ASSUME NEW s, DOMAIN s \subseteq Nat \ {0}, NEW none, NEW c, c # none,
         NEW i \in DOMAIN s, s[i] = {c}, \A j \in 1 .. i - 1 : s[j] = {none}
  PROVE  InOrder(s, none) = {c}
<1>1. ASSUME NEW v \in InOrder(s, none) PROVE v = c
  <2>1. v # none
    BY DEF InOrder
  <2>2. PICK k \in DOMAIN s : v \in s[k] /\ \A j \in 1 .. k - 1 : none \in s[j]
    BY <2>1 DEF InOrder
  <2>3. ~ (i < k)
    BY <2>2
  <2>4. ~ (k < i)
    BY <2>1, <2>2
  <2> QED
    BY <2>2, <2>3, <2>4
<1>2. c \in InOrder(s, none)
  <2>1. c \in UNION Range(s)
    BY DEF Range
  <2> QED
    BY <2>1 DEF InOrder
<1> QED
  BY <1>1, <1>2

(* No search comes to a value.                                             *)
LEMMA NoOutcome ==
  ASSUME NEW s, NEW none, \A i \in DOMAIN s : s[i] = {none}
  PROVE  InOrder(s, none) = {none}
BY DEF InOrder, Range

(* What an object leads to is a part of it.                                *)
LEMMA LeadsInside == ASSUME NEW m, NEW n, LeadsTo(m, n) PROVE n \in Parts(m)
<1>1. m.kind = "object" /\ DOMAIN Wrappers = 1 .. 3
  BY DEF LeadsTo, Wrappers
<1>2. Parts(m) = {m.fields[k] : k \in DOMAIN m.fields}
  BY <1>1 DEF Parts, Range
<1>3. \A i \in 1 .. 3 : i \in 1 .. i
  OBVIOUS
<1> QED
  BY <1>1, <1>2, <1>3 DEF LeadsTo

(* An object that leads to a node comes to what the node comes to.         *)
Below(below, m, n, c) ==
  /\ below[n] = {c} /\ c # Nil
  /\ \A x \in Parts(m) : x.kind = "text" => below[x] = {Nil}

(* Where an object leads to a node, what is found at the node is what is   *)
(* found at the object: the wrapper comes first, and the other parts are   *)
(* texts, in which nothing is found.                                       *)
LEMMA Through ==
  ASSUME NEW m, NEW n, LeadsTo(m, n), NEW below, NEW c, Below(below, m, n, c)
  PROVE  Outcomes(m, below) = {c}
<1> USE DEF Below
<1> DEFINE wrapped(i) == IF Wrappers[i] \in DOMAIN m.fields
                         THEN below[m.fields[Wrappers[i]]] ELSE {Nil}
           first == [i \in DOMAIN Wrappers |-> wrapped(i)]
           others == {below[x] : x \in Parts(m)}
<1>1. m.kind = "object" /\ ~ HasItems(m)
  BY DEF LeadsTo
<1>2. Parts(m) = {m.fields[k] : k \in DOMAIN m.fields}
  BY <1>1 DEF Parts, Range
<1>3. DOMAIN Wrappers = 1 .. 3
  BY DEF Wrappers
<1>4. Outcomes(m, below) = InOrder(<<InOrder(first, Nil), InAnyOrder(others)>>, Nil)
  BY <1>1 DEF Outcomes
<1>5. n \in Parts(m)
  BY LeadsInside
<1>6. CASE InOrder(first, Nil) = {c}
  <2>1. PICK s : s = <<InOrder(first, Nil), InAnyOrder(others)>>
    OBVIOUS
  <2>2. DOMAIN s = 1 .. 2 /\ s[1] = {c} /\ 1 \in 1 .. 2
    BY <1>6, <2>1
  <2>3. DOMAIN s \subseteq Nat \ {0} /\ 1 \in DOMAIN s /\ \A j \in 1 .. 1 - 1 : s[j] = {Nil}
    BY <2>2
  <2>4. InOrder(s, Nil) = {c}
    BY <2>2, <2>3, FirstOutcome
  <2> QED
    BY <1>4, <1>5, <2>1, <2>4
<1>7. CASE InOrder(first, Nil) = {Nil} /\ \A x \in Parts(m) \ {n} : x.kind = "text"
  <2>1. InAnyOrder(others) = {c}
    <3>1. {c} \in others
      BY <1>5
    <3>2. \A o \in others : o \in {{c}, {Nil}}
      BY <1>7
    <3> HIDE DEF others
    <3>3. ~ \A o \in others : Nil \in o
      BY <3>1
    <3>4. (UNION others) \ {Nil} = {c}
      <4>1. c \in UNION others
        BY <3>1
      <4>2. ASSUME NEW v \in UNION others PROVE v \in {c, Nil}
        <5>1. PICK o \in others : v \in o
          OBVIOUS
        <5>2. o = {c} \/ o = {Nil}
          BY <3>2
        <5> QED
          BY <5>1, <5>2
      <4>3. ASSUME NEW v, v \in (UNION others) \ {Nil} PROVE v = c
        BY <4>2, <4>3
      <4>4. c \in (UNION others) \ {Nil}
        BY <4>1
      <4> QED
        BY <4>3, <4>4
    <3> QED
      BY <3>3, <3>4 DEF InAnyOrder
  <2>2. PICK s : s = <<InOrder(first, Nil), InAnyOrder(others)>>
    OBVIOUS
  <2>3. DOMAIN s = 1 .. 2 /\ s[1] = {Nil} /\ s[2] = {c}
    BY <1>7, <2>1, <2>2
  <2>4. DOMAIN s \subseteq Nat \ {0} /\ 2 \in DOMAIN s /\ \A j \in 1 .. 2 - 1 : s[j] = {Nil}
    BY <2>3
  <2> HIDE DEF others
  <2>5. InOrder(s, Nil) = {c}
    BY <2>3, <2>4, FirstOutcome
  <2> QED
    BY <1>4, <1>5, <2>2, <2>5
<1>8. CASE \E i \in DOMAIN Wrappers :
             /\ \A j \in 1 .. i : j = i <=> Wrappers[j] \in DOMAIN m.fields
             /\ n = m.fields[Wrappers[i]]
  <2>1. PICK i \in 1 .. 3 :
          /\ \A j \in 1 .. i : j = i <=> Wrappers[j] \in DOMAIN m.fields
          /\ n = m.fields[Wrappers[i]]
    BY <1>3, <1>8
  <2>2. DOMAIN first \subseteq Nat \ {0} /\ i \in DOMAIN first /\ first[i] = {c}
    BY <1>3, <2>1
  <2>3. \A j \in 1 .. i - 1 : first[j] = {Nil}
    BY <1>3, <2>1
  <2> HIDE DEF first
  <2>4. InOrder(first, Nil) = {c}
    BY <2>2, <2>3, FirstOutcome
  <2> QED
    BY <1>6, <2>4
<1>9. CASE \A x \in Parts(m) \ {n} : x.kind = "text"
  <2>1. \A i \in 1 .. 3 : first[i] \in {{Nil}, {c}}
    BY <1>2, <1>3, <1>9
  <2>2. DOMAIN first = 1 .. 3
    BY <1>3
  <2> HIDE DEF first
  <2>3. CASE \E i \in 1 .. 3 : first[i] = {c}
    <3>1. PICK i \in 1 .. 3 : first[i] = {c} /\ \A j \in 1 .. i - 1 : first[j] # {c}
      BY <2>3
    <3>2. \A j \in 1 .. i - 1 : first[j] = {Nil}
      BY <2>1, <3>1
    <3>3. DOMAIN first \subseteq Nat \ {0} /\ i \in DOMAIN first
      BY <2>2
    <3>4. InOrder(first, Nil) = {c}
      BY <3>1, <3>2, <3>3, FirstOutcome
    <3> QED
      BY <1>6, <3>4
  <2>4. CASE \A i \in 1 .. 3 : first[i] # {c}
    <3>1. \A i \in DOMAIN first : first[i] = {Nil}
      BY <2>1, <2>2, <2>4
    <3>2. InOrder(first, Nil) = {Nil}
      BY <3>1, NoOutcome
    <3> QED
      BY <1>7, <1>9, <3>2
  <2> QED
    BY <2>3, <2>4
<1> QED
  BY <1>8, <1>9 DEF LeadsTo

(* Where the items of a node in a layer are: a container that has the      *)
(* task, or a node of an earlier layer.                                    *)
Within(layers, i) == UNION {layers[j] : j \in 1 .. i - 1}
Leads(c, layers, i, id, status) ==
  /\ c # Nil
  /\ \/ HasTask(c, id, status)
     \/ c \in Within(layers, i) /\ ~LooksLikeKeyed(c)

(* Layered, for one node.                                                  *)
LEMMA NodeOfLayer ==
  ASSUME NEW layers, NEW id, NEW status, Layered(layers, id, status),
         NEW i \in DOMAIN layers, NEW m \in layers[i]
  PROVE  /\ m # Nil /\ m.kind = "object"
         /\ \/ HasItems(m) /\ (\/ HasTask(ItemsAt(m), id, status)
                               \/ /\ ItemsAt(m) \in Within(layers, i)
                                  /\ ~LooksLikeKeyed(ItemsAt(m)))
            \/ \E n \in Within(layers, i) : LeadsTo(m, n)
<1>1. /\ m # Nil
      /\ \/ HasItems(m) /\ (\/ HasTask(ItemsAt(m), id, status)
                            \/ /\ ItemsAt(m) \in Within(layers, i)
                               /\ ~LooksLikeKeyed(ItemsAt(m)))
         \/ \E n \in Within(layers, i) : LeadsTo(m, n)
  BY DEF Layered, Within
<1>2. m.kind = "object"
  BY <1>1 DEF HasItems, LeadsTo
<1> QED
  BY <1>1, <1>2

(* findHistoryItemsValue comes to one node for a reply of the layers: the  *)
(* items, or a node that leads to them.  By induction on the levels left:  *)
(* those for a layer are as many as its number.                            *)
LEMMA ItemsAreFound ==
  ASSUME NEW layers, NEW id, NEW status, Layered(layers, id, status),
         NEW len \in 0 .. 8, DOMAIN layers = 1 .. len,
         NEW k \in 1 .. len, NEW start \in layers[k]
  PROVE  \E c : FindItems(start) = {c} /\ Leads(c, layers, k, id, status)
<1>1. PICK level, found : /\ Levels(level, start)
                          /\ FoundIn(found, level)
                          /\ FindItems(start) = found[8][start]
  BY FindSteps
<1>2. level[0] = {start} /\ \A d \in 1 .. 8 : level[d] = UNION {Opened(n) : n \in level[d - 1]}
  BY <1>1 DEF Levels
<1>3. \A n \in level[8] : found[0][n] = {Nil}
  <2>1. found[0] = [n \in level[8 - 0] |-> IF 0 = 0 THEN {Nil} ELSE Outcomes(n, found[0 - 1])]
    BY <1>1 DEF FoundIn
  <2>2. 8 - 0 = 8
    OBVIOUS
  <2> QED
    BY <2>1, <2>2
<1>4. \A left \in 1 .. 8 : \A n \in level[8 - left] :
        found[left][n] = Outcomes(n, found[left - 1])
  <2>1. ASSUME NEW left \in 1 .. 8
        PROVE found[left] = [n \in level[8 - left] |->
                IF left = 0 THEN {Nil} ELSE Outcomes(n, found[left - 1])]
    <3>1. left \in 0 .. 8
      OBVIOUS
    <3> QED
      BY <1>1, <3>1 DEF FoundIn
  <2> QED
    BY <2>1
<1> HIDE <1>1
<1>5. ASSUME NEW left \in 0 .. 8, NEW n \in level[8 - left], n.kind = "text"
      PROVE  found[left][n] = {Nil}
  <2>1. CASE left = 0
    BY <1>3, <2>1
  <2>2. CASE left # 0
    <3>1. found[left][n] = Outcomes(n, found[left - 1])
      BY <1>4, <2>2
    <3> QED
      BY <1>5, <3>1 DEF Outcomes, HasItems
  <2> QED
    BY <2>1, <2>2
<1> DEFINE Good(i) == \A m \in layers[i] : \A left \in i .. 8 : m \in level[8 - left] =>
                        \E c : found[left][m] = {c} /\ Leads(c, layers, i, id, status)
           T == {t \in 0 .. len : \A i \in 1 .. t : Good(i)}
<1>6. 0 \in T
  OBVIOUS
<1>7. ASSUME NEW t \in 1 .. len, t - 1 \in T PROVE t \in T
  <2>1. \A j \in 1 .. t - 1 : Good(j)
    BY <1>7
  <2> SUFFICES Good(t)
    BY <2>1
  <2> SUFFICES ASSUME NEW m \in layers[t], NEW left \in t .. 8, m \in level[8 - left]
               PROVE  \E c : found[left][m] = {c} /\ Leads(c, layers, t, id, status)
    OBVIOUS
  <2>0. left \in 1 .. 8
    OBVIOUS
  <2>2. found[left][m] = Outcomes(m, found[left - 1])
    BY <1>4, <2>0
  <2>3. t \in DOMAIN layers
    OBVIOUS
  <2>4. CASE HasItems(m)
    <3>1. PICK c : c = ItemsAt(m)
      OBVIOUS
    <3>2. Outcomes(m, found[left - 1]) = {c}
      BY <2>4, <3>1 DEF Outcomes, HasItems
    <3>3. HasTask(c, id, status) \/ (c \in Within(layers, t) /\ ~LooksLikeKeyed(c))
      BY <2>3, <2>4, <3>1, NodeOfLayer DEF LeadsTo
    <3>4. c # Nil
      <4>1. CASE HasTask(c, id, status)
        BY <4>1 DEF HasTask
      <4>2. CASE c \in Within(layers, t)
        <5>1. PICK j \in 1 .. t - 1 : c \in layers[j]
          BY <4>2 DEF Within
        <5>2. j \in DOMAIN layers
          OBVIOUS
        <5> QED
          BY <5>1, <5>2, NodeOfLayer
      <4> QED
        BY <3>3, <4>1, <4>2
    <3> QED
      BY <2>2, <3>2, <3>3, <3>4 DEF Leads
  <2>5. CASE ~HasItems(m)
    <3>1. PICK n \in Within(layers, t) : LeadsTo(m, n)
      BY <2>3, <2>5, NodeOfLayer
    <3>2. PICK j \in 1 .. t - 1 : n \in layers[j]
      BY <3>1 DEF Within
    <3>3. PICK less \in 0 .. 8 : /\ less = left - 1 /\ less \in j .. 8
                                 /\ 8 - less \in 1 .. 8 /\ (8 - less) - 1 = 8 - left
      <4>1. /\ left - 1 \in 0 .. 8 /\ 8 - (left - 1) \in 1 .. 8
            /\ (8 - (left - 1)) - 1 = 8 - left
        BY <2>0
      <4>2. left - 1 \in j .. 8
        BY <2>0, <3>2
      <4> QED
        BY <4>1, <4>2
    <3>4. Parts(m) \subseteq level[8 - less]
      <4>1. Opened(m) = Parts(m)
        BY <2>5 DEF Opened
      <4>2. level[8 - less] = UNION {Opened(x) : x \in level[(8 - less) - 1]}
        BY <1>2, <3>3
      <4> QED
        BY <3>3, <4>1, <4>2
    <3>5. n \in Parts(m)
      BY <3>1, LeadsInside
    <3>6. PICK c : found[less][n] = {c} /\ Leads(c, layers, j, id, status)
      BY <2>1, <3>2, <3>3, <3>4, <3>5
    <3>7. \A x \in Parts(m) : x.kind = "text" => found[less][x] = {Nil}
      BY <1>5, <3>3, <3>4
    <3>8. c # Nil
      BY <3>6 DEF Leads
    <3>9. Outcomes(m, found[less]) = {c}
      <4>1. PICK below : below = found[less]
        OBVIOUS
      <4>2. Below(below, m, n, c)
        BY <3>6, <3>7, <3>8, <4>1 DEF Below
      <4>3. Outcomes(m, below) = {c}
        BY <3>1, <4>2, Through
      <4> QED
        BY <4>1, <4>3
    <3>10. Leads(c, layers, t, id, status)
      <4>1. Within(layers, j) \subseteq Within(layers, t)
        BY <3>2 DEF Within
      <4> QED
        BY <3>6, <4>1 DEF Leads
    <3> QED
      BY <2>2, <3>3, <3>9, <3>10
  <2> QED
    BY <2>4, <2>5
<1> HIDE DEF T, Good
<1>8. \A t \in 1 .. len : t - 1 \in T => t \in T
  BY <1>7
<1>9. 0 .. len \subseteq T
  <2>1. len \in Nat
    OBVIOUS
  <2> QED
    BY <1>6, <1>8, <2>1, UpTo
<1>10. Good(k)
  BY <1>9 DEF T
<1>11. 8 \in k .. 8 /\ start \in level[8 - 8]
  BY <1>2
<1>12. \E c : found[8][start] = {c} /\ Leads(c, layers, k, id, status)
  BY <1>10, <1>11 DEF Good
<1> QED
  BY <1>1, <1>12

-----------------------------------------------------------------------------
(* The greatest of some numbers up to n.                                   *)
LEMMA Greatest ==
  ASSUME NEW n \in Nat, NEW S \in SUBSET (1 .. n), S # {}
  PROVE  Max(S) \in S
<1> DEFINE B == {n - x : x \in S}
<1>1. B \in SUBSET Nat /\ B # {}
  <2>1. \A x \in S : x \in 1 .. n
    OBVIOUS
  <2>2. \A x \in 1 .. n : n - x \in Nat
    OBVIOUS
  <2> QED
    BY <2>1, <2>2
<1>2. PICK b \in B : \A a \in B : b <= a
  BY <1>1, Least
<1>3. PICK x \in S : b = n - x
  OBVIOUS
<1>4. \A y \in S : x >= y
  <2>1. ASSUME NEW y \in S PROVE x >= y
    <3>1. b <= n - y
      BY <1>2
    <3> QED
      BY <1>3, <3>1
  <2> QED
    BY <2>1
<1> QED
  BY <1>4 DEF Max

(* What is filed has the task.                                             *)
Finds(items, id, status) ==
  id \in DOMAIN items /\ items[id] # Nil /\ items[id].status = status

(* The last of the items that are filed under an id is the one that is     *)
(* found there.                                                            *)
LEMMA FiledFinds ==
  ASSUME NEW filings, NEW n \in Nat, DOMAIN filings = 1 .. n, NEW id, NEW status,
         \A i \in 1 .. n : filings[i].under # {} => filings[i].item # Nil,
         \E i \in 1 .. n : id \in filings[i].under,
         \A i \in 1 .. n : id \in filings[i].under => filings[i].item.status = status
  PROVE  Finds(Filed(filings), id, status)
<1> DEFINE S == {i \in DOMAIN filings : id \in filings[i].under}
<1>1. S \in SUBSET (1 .. n) /\ S # {}
  OBVIOUS
<1>2. PICK i \in S : i = Max(S)
  BY <1>1, Greatest
<1>3. id \in UNION {f.under : f \in Range(filings)}
  BY DEF Range
<1>4. id \in DOMAIN Filed(filings) /\ Filed(filings)[id] = filings[i].item
  BY <1>2, <1>3 DEF Filed
<1> QED
  BY <1>2, <1>4 DEF Finds

(* Only an item is filed.                                                  *)
LEMMA FilingFacts ==
  ASSUME NEW i, NEW k PROVE Filing(i, k).under # {} => Filing(i, k).item # Nil
BY DEF Filing

(* Whatever the order in which the keys of an object are visited.          *)
LEMMA EveryKeyIsVisited ==
  ASSUME NEW D, IsFiniteSet(D), NEW order \in SetToSeqs(D)
  PROVE  /\ Cardinality(D) \in Nat /\ DOMAIN order = 1 .. Cardinality(D)
         /\ Range(order) = D
<1>1. PICK n \in Nat : n = Cardinality(D)
  BY FS_CardinalityType
<1>2. IsFiniteSet(1 .. n) /\ Cardinality(1 .. n) = n
  <2>1. 1 \in Int /\ n \in Int
    OBVIOUS
  <2> QED
    BY <2>1, FS_Interval
<1>3. order \in Injection(1 .. n, D)
  BY <1>1 DEF SetToSeqs, Injection, IsInjective
<1>4. order \in Surjection(1 .. n, D)
  BY <1>1, <1>2, <1>3, FS_Injection
<1> QED
  BY <1>1, <1>4 DEF Surjection, Range

(* A list of items, or an object that has them by id, gives the task, in   *)
(* whatever order the keys are visited.                                    *)
LEMMA CollectedFinds ==
  ASSUME NEW node, NEW id, NEW status, HasTask(node, id, status),
         NEW items \in Collected(node)
  PROVE  Finds(items, id, status)
<1>1. CASE node.kind = "list"
  <2>1. PICK n \in Nat : DOMAIN node.elems = 1 .. n
    BY <1>1 DEF HasTask
  <2> DEFINE filings == [i \in DOMAIN node.elems |-> Filing(ItemOf(node.elems[i]), "")]
  <2>2. items = Filed(filings)
    BY <1>1 DEF Collected, HasTask
  <2>3. DOMAIN filings = 1 .. n
    BY <2>1
  <2>4. {filings[i] : i \in 1 .. n} = FilingsOf(node)
    BY <1>1, <2>1 DEF FilingsOf, Range
  <2>5. \A i \in 1 .. n : filings[i].under # {} => filings[i].item # Nil
    BY <2>1, FilingFacts
  <2> HIDE DEF filings
  <2>6. /\ \E i \in 1 .. n : id \in filings[i].under
        /\ \A i \in 1 .. n : id \in filings[i].under => filings[i].item.status = status
    BY <2>4 DEF HasTask
  <2> QED
    BY <2>2, <2>3, <2>5, <2>6, FiledFinds
<1>2. CASE node.kind = "object"
  <2>1. IsFiniteSet(DOMAIN node.fields)
    BY <1>2 DEF HasTask
  <2>2. PICK order \in SetToSeqs(DOMAIN node.fields) :
          items = Filed([i \in DOMAIN order |-> FilingAt(node, order[i])])
    BY <1>2 DEF Collected, HasTask
  <2>3. PICK n \in Nat : DOMAIN order = 1 .. n /\ Range(order) = DOMAIN node.fields
    BY <2>1, EveryKeyIsVisited
  <2> DEFINE filings == [i \in DOMAIN order |-> FilingAt(node, order[i])]
  <2>4. DOMAIN filings = 1 .. n
    BY <2>3
  <2>5. {filings[i] : i \in 1 .. n} = FilingsOf(node)
    BY <1>2, <2>3 DEF FilingsOf, Range
  <2>6. \A i \in 1 .. n : filings[i].under # {} => filings[i].item # Nil
    BY <2>3, FilingFacts DEF FilingAt
  <2>7. items = Filed(filings)
    BY <2>2
  <2> HIDE DEF filings
  <2>8. /\ \E i \in 1 .. n : id \in filings[i].under
        /\ \A i \in 1 .. n : id \in filings[i].under => filings[i].item.status = status
    BY <2>5 DEF HasTask
  <2> QED
    BY <2>4, <2>6, <2>7, <2>8, FiledFinds
<1> QED
  BY <1>1, <1>2 DEF HasTask

-----------------------------------------------------------------------------
(* The search through containers, level by level.                          *)
HeldLevels(level, start) ==
  level = [d \in 0 .. MaxNesting |->
             IF d = 0 THEN {start} ELSE UNION {Held(n) : n \in level[d - 1]}]
ParsedIn(found, level) ==
  found = [left \in 0 .. MaxNesting |->
             [n \in level[MaxNesting - left] |->
                IF left = 0 THEN {<<>>} ELSE Parses(n, found[left - 1])]]

(* ParseItems is the outcome of the second search.                         *)
LEMMA ParsesSteps ==
  ASSUME NEW start
  PROVE  \E level, found : /\ HeldLevels(level, start)
                           /\ ParsedIn(found, level)
                           /\ ParseItems(start) = found[MaxNesting][start]
<1> DEFINE level == CHOOSE f : HeldLevels(f, start)
           found == CHOOSE f : ParsedIn(f, level)
<1> USE NestingAssumption
<1>1. HeldLevels(level, start)
  <2>1. PICK f : Goes(f, "held", <<>>, {start}, MaxNesting)
    BY GoesOn
  <2>2. \A i, v : Step("held", <<>>, i, v) = UNION {Held(n) : n \in v}
    BY DEF Step
  <2>3. ASSUME NEW d \in 0 .. MaxNesting
        PROVE f[d] = IF d = 0 THEN {start} ELSE UNION {Held(n) : n \in f[d - 1]}
    <3>1. f[d] = IF d = 0 THEN {start} ELSE Step("held", <<>>, d, f[d - 1])
      BY <2>1 DEF Goes
    <3> QED
      BY <2>2, <3>1
  <2>4. f = [d \in 0 .. MaxNesting |-> f[d]]
    BY <2>1 DEF Goes
  <2>5. HeldLevels(f, start)
    BY <2>3, <2>4 DEF HeldLevels
  <2> QED
    BY <2>5
<1>2. ParsedIn(found, level)
  <2> HIDE DEF level
  <2>1. PICK f : Goes(f, "parses", level, [n \in level[MaxNesting] |-> {<<>>}], MaxNesting)
    BY GoesOn
  <2>2. \A i, v : Step("parses", level, i, v) = [n \in level[MaxNesting - i] |-> Parses(n, v)]
    BY DEF Step
  <2>3. ASSUME NEW left \in 0 .. MaxNesting
        PROVE f[left] = [n \in level[MaxNesting - left] |->
                IF left = 0 THEN {<<>>} ELSE Parses(n, f[left - 1])]
    <3>1. f[left] = IF left = 0 THEN [n \in level[MaxNesting] |-> {<<>>}]
                    ELSE Step("parses", level, left, f[left - 1])
      BY <2>1 DEF Goes
    <3>2. CASE left = 0
      BY <3>1, <3>2
    <3> QED
      BY <3>1, <3>2, <2>2
  <2>4. f = [left \in 0 .. MaxNesting |-> f[left]]
    BY <2>1 DEF Goes
  <2>5. ParsedIn(f, level)
    BY <2>3, <2>4 DEF ParsedIn
  <2> QED
    BY <2>5
<1>3. ParseItems(start) = found[MaxNesting][start]
  BY DEF ParseItems, Search, HeldLevels, ParsedIn
<1> HIDE DEF level, found
<1> QED
  BY <1>1, <1>2, <1>3

(* Whatever is parsed from where the items are has the task.               *)
LEMMA ItemsAreParsed ==
  ASSUME NEW layers, NEW id, NEW status, Layered(layers, id, status),
         NEW len \in 0 .. 8, DOMAIN layers = 1 .. len, len <= MaxNesting,
         NEW k \in 1 .. len, NEW start, Leads(start, layers, k, id, status),
         NEW items \in ParseItems(start)
  PROVE  Finds(items, id, status)
<1>1. PICK level, found : /\ HeldLevels(level, start)
                          /\ ParsedIn(found, level)
                          /\ ParseItems(start) = found[MaxNesting][start]
  BY ParsesSteps
<1>2. PICK top \in Nat : top = MaxNesting /\ len <= top
  BY NestingAssumption
<1>3. /\ level[0] = {start}
      /\ \A d \in 1 .. top : level[d] = UNION {Held(n) : n \in level[d - 1]}
  BY <1>1, <1>2 DEF HeldLevels
<1>4. \A left \in 1 .. top : \A n \in level[top - left] :
        found[left][n] = Parses(n, found[left - 1])
  <2>1. ASSUME NEW left \in 1 .. top
        PROVE found[left] = [n \in level[top - left] |->
                IF left = 0 THEN {<<>>} ELSE Parses(n, found[left - 1])]
    <3>1. left \in 0 .. top
      OBVIOUS
    <3> QED
      BY <1>1, <1>2, <3>1 DEF ParsedIn
  <2>2. ASSUME NEW left \in 1 .. top, NEW n \in level[top - left]
        PROVE  found[left][n] = Parses(n, found[left - 1])
    <3>1. left # 0
      OBVIOUS
    <3> QED
      BY <2>1, <3>1
  <2> QED
    BY <2>2
<1> HIDE <1>1
<1> DEFINE Good(i) == \A c : \A left \in i .. top :
                        Leads(c, layers, i, id, status) /\ c \in level[top - left] =>
                          \A found_c \in found[left][c] : Finds(found_c, id, status)
           T == {t \in 0 .. len : \A i \in 1 .. t : Good(i)}
<1>5. 0 \in T
  OBVIOUS
<1>6. ASSUME NEW t \in 1 .. len, t - 1 \in T PROVE t \in T
  <2>1. \A j \in 1 .. t - 1 : Good(j)
    BY <1>6
  <2> SUFFICES Good(t)
    <3> HIDE DEF Good
    <3>1. \A j \in 1 .. t : j = t \/ j \in 1 .. t - 1
      OBVIOUS
    <3> QED
      BY <2>1, <3>1
  <2> SUFFICES ASSUME NEW c, NEW left \in t .. top, Leads(c, layers, t, id, status),
                      c \in level[top - left], NEW v \in found[left][c]
               PROVE  Finds(v, id, status)
    OBVIOUS
  <2>2. left \in 1 .. top
    OBVIOUS
  <2>3. v \in Parses(c, found[left - 1])
    BY <1>4, <2>2
  <2>4. c # Nil
    BY DEF Leads
  <2>5. CASE HasTask(c, id, status)
    <3>1. Held(c) = {}
      BY <2>5 DEF HasTask, Held
    <3>2. v \in Collected(c)
      BY <2>3, <3>1 DEF Parses
    <3> QED
      BY <2>5, <3>2, CollectedFinds
  <2>6. CASE c \in Within(layers, t) /\ ~LooksLikeKeyed(c)
    <3>1. PICK j \in 1 .. t - 1 : c \in layers[j]
      BY <2>6 DEF Within
    <3>2. j \in 1 .. len /\ j \in DOMAIN layers
      OBVIOUS
    <3>3. c.kind = "object"
      BY <3>1, <3>2, NodeOfLayer
    <3>4. Held(c) = FindItems(c)
      BY <2>4, <2>6, <3>3 DEF Held
    <3>5. PICK d : FindItems(c) = {d} /\ Leads(d, layers, j, id, status)
      BY <3>1, <3>2, ItemsAreFound
    <3>6. PICK less \in 0 .. top : /\ less = left - 1 /\ less \in j .. top
                                   /\ top - less \in 1 .. top
                                   /\ (top - less) - 1 = top - left
      <4>1. /\ left - 1 \in 0 .. top /\ top - (left - 1) \in 1 .. top
            /\ (top - (left - 1)) - 1 = top - left
        BY <2>2
      <4>2. left - 1 \in j .. top
        BY <2>2, <3>1
      <4> QED
        BY <4>1, <4>2
    <3>7. d \in level[top - less]
      <4>1. level[top - less] = UNION {Held(x) : x \in level[(top - less) - 1]}
        BY <1>3, <3>6
      <4> QED
        BY <3>4, <3>5, <3>6, <4>1
    <3>8. \A o \in found[less][d] : Finds(o, id, status)
      BY <2>1, <3>1, <3>5, <3>6, <3>7
    <3>9. <<>> \notin found[less][d]
      BY <3>8 DEF Finds
    <3>10. PICK s : s = <<found[less][d], Collected(c)>>
      OBVIOUS
    <3>11. v \in InOrder(s, <<>>)
      <4>1. Parses(c, found[less]) =
              UNION {InOrder(<<found[less][n], Collected(c)>>, <<>>) : n \in {d}}
        BY <3>4, <3>5 DEF Parses
      <4> QED
        BY <2>3, <3>6, <3>10, <4>1
    <3>12. DOMAIN s = {1, 2} /\ s[1] = found[less][d]
      BY <3>10
    <3>13. v \in s[1]
      <4>1. v # <<>>
        BY <3>9, <3>11, <3>12 DEF InOrder
      <4>2. PICK i \in {1, 2} : v \in s[i] /\ \A o \in 1 .. i - 1 : <<>> \in s[o]
        BY <3>11, <3>12, <4>1 DEF InOrder
      <4>3. i # 2
        BY <3>9, <3>12, <4>2
      <4> QED
        BY <4>2, <4>3
    <3> QED
      BY <3>8, <3>12, <3>13
  <2> QED
    BY <2>5, <2>6 DEF Leads
<1> HIDE DEF T, Good
<1>7. \A t \in 1 .. len : t - 1 \in T => t \in T
  BY <1>6
<1>8. 0 .. len \subseteq T
  <2>1. len \in Nat
    OBVIOUS
  <2> QED
    BY <1>5, <1>7, <2>1, UpTo
<1>9. Good(k)
  BY <1>8 DEF T
<1>10. top \in k .. top /\ start \in level[top - top]
  BY <1>2, <1>3
<1>11. \A o \in found[top][start] : Finds(o, id, status)
  BY <1>9, <1>10 DEF Good
<1> QED
  BY <1>1, <1>2, <1>11

(* GetHistoryByIds and pickRecoveredHistoryItem, for any reply that has the*)
(* task in any number of wrappers up to the eight that the search goes     *)
(* deep: whatever order the maps are visited in, the lookup has an item,   *)
(* and one with the status of the task's.                                  *)
THEOREM LookupFindsTheTask ==
  ASSUME NEW layers, NEW id, NEW status, HaveTheTask(layers, id, status),
         NEW reply \in UNION Range(layers), NEW i \in Lookup(reply, id)
  PROVE  i # Nil /\ i.status = status
<1>1. PICK len \in 0 .. 8 : len <= MaxNesting /\ DOMAIN layers = 1 .. len
  BY DEF HaveTheTask
<1>2. PICK k \in 1 .. len : reply \in layers[k]
  BY <1>1 DEF Range
<1>3. Layered(layers, id, status)
  BY DEF HaveTheTask
<1>4. PICK c : FindItems(reply) = {c} /\ Leads(c, layers, k, id, status)
  BY <1>1, <1>2, <1>3, ItemsAreFound
<1>5. PICK items \in ParseItems(c) : i \in Picked(items, id)
  BY <1>4 DEF Lookup
<1>6. Finds(items, id, status)
  BY <1>1, <1>2, <1>3, <1>4, <1>5, ItemsAreParsed
<1> QED
  BY <1>5, <1>6 DEF Picked, Finds

-----------------------------------------------------------------------------
(* A set of JSON values, with all their parts.                             *)
Json(nodes) ==
  \A n \in nodes :
    /\ Parts(n) \subseteq nodes
    /\ \/ n.kind = "text"
       \/ n.kind = "list" /\ Len(n.elems) \in Nat /\ DOMAIN n.elems = 1 .. Len(n.elems)
       \/ n.kind = "object" /\ IsFiniteSet(DOMAIN n.fields)

(* Items stand in the reply.                                               *)
LEMMA ItemsAtIsAPart ==
  ASSUME NEW nodes, Json(nodes), NEW n \in nodes, HasItems(n)
  PROVE  ItemsAt(n) \in nodes
<1>1. n.kind = "object" /\ Parts(n) \subseteq nodes
  BY DEF HasItems, Json
<1>2. CASE ItemKeysOf(n) = {}
  BY <1>2 DEF ItemsAt
<1>3. CASE ItemKeysOf(n) # {}
  <2>1. ItemKeysOf(n) \in SUBSET Nat
    BY DEF ItemKeysOf, ItemKeys
  <2>2. Min(ItemKeysOf(n)) \in ItemKeysOf(n)
    BY <1>3, <2>1, Least DEF Min
  <2>3. ItemKeys[Min(ItemKeysOf(n))] \in DOMAIN n.fields
    BY <2>2 DEF ItemKeysOf
  <2> QED
    BY <1>1, <1>3, <2>3 DEF ItemsAt, Parts, Range
<1> QED
  BY <1>2, <1>3

(* A search comes to nothing but what it comes to inside.                  *)
LEMMA OutcomesWithin ==
  ASSUME NEW nodes, Json(nodes), NEW n \in nodes, NEW below,
         ~HasItems(n) => \A x \in Parts(n) : below[x] \subseteq nodes \cup {Nil}
  PROVE  Outcomes(n, below) \subseteq nodes \cup {Nil}
<1> DEFINE some == nodes \cup {Nil}
<1>1. ASSUME NEW s, \A i \in DOMAIN s : s[i] \subseteq some
      PROVE  InOrder(s, Nil) \subseteq some
  BY <1>1 DEF InOrder, Range
<1>2. CASE HasItems(n)
  <2>1. Outcomes(n, below) = {ItemsAt(n)}
    BY <1>2 DEF Outcomes, HasItems
  <2> QED
    BY <1>2, <2>1, ItemsAtIsAPart
<1>3. CASE ~HasItems(n)
  <2>1. \A x \in Parts(n) : below[x] \subseteq some
    BY <1>3
  <2> HIDE DEF some
  <2>2. CASE n.kind = "text"
    BY <1>3, <2>2 DEF Outcomes, some
  <2>3. CASE n.kind = "list"
    <3>1. PICK s : s = [i \in DOMAIN n.elems |-> below[n.elems[i]]]
      OBVIOUS
    <3>2. \A i \in DOMAIN s : s[i] \subseteq some
      BY <2>1, <2>3, <3>1 DEF Parts, Range
    <3>3. Outcomes(n, below) = InOrder(s, Nil)
      BY <1>3, <2>3, <3>1 DEF Outcomes
    <3> QED
      BY <1>1, <3>2, <3>3 DEF some
  <2>4. CASE n.kind = "object"
    <3>1. PICK s : s = [i \in DOMAIN Wrappers |->
                          IF Wrappers[i] \in DOMAIN n.fields
                          THEN below[n.fields[Wrappers[i]]] ELSE {Nil}]
      OBVIOUS
    <3>2. PICK others : others = InAnyOrder({below[x] : x \in Parts(n)})
      OBVIOUS
    <3>3. Outcomes(n, below) = InOrder(<<InOrder(s, Nil), others>>, Nil)
      BY <1>3, <2>4, <3>1, <3>2 DEF Outcomes
    <3>4. Nil \in some
      BY DEF some
    <3>5. InOrder(s, Nil) \subseteq some
      <4>1. \A i \in DOMAIN s : s[i] \subseteq some
        BY <2>1, <2>4, <3>1, <3>4 DEF Parts, Range
      <4> QED
        BY <1>1, <4>1
    <3>6. others \subseteq some
      <4>1. UNION {below[x] : x \in Parts(n)} \subseteq some
        BY <2>1
      <4> QED
        BY <3>2, <3>4, <4>1 DEF InAnyOrder
    <3>7. PICK both : both = <<InOrder(s, Nil), others>>
      OBVIOUS
    <3>8. \A i \in DOMAIN both : both[i] \subseteq some
      BY <3>5, <3>6, <3>7
    <3>9. InOrder(both, Nil) \subseteq some
      BY <1>1, <3>8
    <3> QED
      BY <3>3, <3>7, <3>9 DEF some
  <2> QED
    BY <2>2, <2>3, <2>4 DEF Json
<1> QED
  BY <1>2, <1>3

(* findHistoryItemsValue returns a part of the reply, or nothing.          *)
LEMMA ItemsAreInTheReply ==
  ASSUME NEW nodes, Json(nodes), NEW start \in nodes
  PROVE  FindItems(start) \subseteq nodes \cup {Nil}
<1>1. PICK level, found : /\ Levels(level, start)
                          /\ FoundIn(found, level)
                          /\ FindItems(start) = found[8][start]
  BY FindSteps
<1>2. level[0] = {start} /\ \A d \in 1 .. 8 : level[d] = UNION {Opened(n) : n \in level[d - 1]}
  BY <1>1 DEF Levels
<1> DEFINE L == {d \in 0 .. 8 : level[d] \subseteq nodes}
<1>3. \A d \in 0 .. 8 : level[d] \subseteq nodes
  <2>1. 0 \in L
    BY <1>2
  <2>2. \A d \in 1 .. 8 : d - 1 \in L => d \in L
    <3>1. ASSUME NEW d \in 1 .. 8, d - 1 \in L PROVE d \in L
      <4>1. \A n \in level[d - 1] : Opened(n) \subseteq nodes
        BY <3>1 DEF Opened, Json
      <4>2. level[d] = UNION {Opened(n) : n \in level[d - 1]}
        BY <1>2
      <4> QED
        BY <4>1, <4>2
    <3> QED
      BY <3>1
  <2> HIDE DEF L
  <2>3. 0 .. 8 \subseteq L
    <3>1. 8 \in Nat
      OBVIOUS
    <3> QED
      BY <2>1, <2>2, <3>1, UpTo
  <2> QED
    BY <2>3 DEF L
<1> DEFINE T == {left \in 0 .. 8 : \A n \in level[8 - left] :
                                     found[left][n] \subseteq nodes \cup {Nil}}
<1>4. 0 \in T
  <2>1. 0 \in 0 .. 8 /\ 8 - 0 = 8
    OBVIOUS
  <2>2. found[0] = [n \in level[8 - 0] |-> IF 0 = 0 THEN {Nil} ELSE Outcomes(n, found[0 - 1])]
    BY <1>1, <2>1 DEF FoundIn
  <2> QED
    BY <2>1, <2>2
<1>5. ASSUME NEW left \in 1 .. 8, left - 1 \in T PROVE left \in T
  <2>1. found[left] = [n \in level[8 - left] |->
                         IF left = 0 THEN {Nil} ELSE Outcomes(n, found[left - 1])]
    <3>1. left \in 0 .. 8
      OBVIOUS
    <3> QED
      BY <1>1, <3>1 DEF FoundIn
  <2>2. left # 0 /\ 8 - left \in 0 .. 8
    OBVIOUS
  <2> SUFFICES ASSUME NEW n \in level[8 - left]
               PROVE  Outcomes(n, found[left - 1]) \subseteq nodes \cup {Nil}
    BY <2>1, <2>2
  <2>3. n \in nodes
    BY <1>3, <2>2
  <2>4. ~HasItems(n) => Parts(n) \subseteq level[8 - (left - 1)]
    <3>1. 8 - (left - 1) \in 1 .. 8 /\ (8 - (left - 1)) - 1 = 8 - left
      OBVIOUS
    <3>2. level[8 - (left - 1)] = UNION {Opened(x) : x \in level[8 - left]}
      BY <1>2, <3>1
    <3> QED
      BY <3>2 DEF Opened
  <2>5. ~HasItems(n) => \A x \in Parts(n) : found[left - 1][x] \subseteq nodes \cup {Nil}
    BY <1>5, <2>4
  <2>6. PICK below : below = found[left - 1]
    OBVIOUS
  <2>7. Outcomes(n, below) \subseteq nodes \cup {Nil}
    BY <2>3, <2>5, <2>6, OutcomesWithin
  <2> QED
    BY <2>6, <2>7
<1> HIDE DEF T
<1>6. \A left \in 1 .. 8 : left - 1 \in T => left \in T
  BY <1>5
<1>7. 0 .. 8 \subseteq T
  <2>1. 8 \in Nat
    OBVIOUS
  <2> QED
    BY <1>4, <1>6, <2>1, UpTo
<1>8. 8 \in T /\ start \in level[8 - 8]
  BY <1>2, <1>7
<1> QED
  BY <1>1, <1>8 DEF T

(* An item of the task: it has the id, or it stood at it.                  *)
IsOf(it, id, nodes) ==
  \/ id \in {it.submit, it.record, it.history, it.task}
  \/ \E node \in nodes : /\ node.kind = "object" /\ id \in DOMAIN node.fields
                         /\ it = Named(ItemOf(node.fields[id]), id)
Sound(items, nodes) == \A k \in DOMAIN items : items[k] # Nil /\ IsOf(items[k], k, nodes)

(* An item is found only under what it was filed under.                    *)
LEMMA FiledIsSound ==
  ASSUME NEW nodes, NEW filings, NEW n \in Nat, DOMAIN filings = 1 .. n,
         \A i \in 1 .. n : \A k \in filings[i].under :
           filings[i].item # Nil /\ IsOf(filings[i].item, k, nodes)
  PROVE  Sound(Filed(filings), nodes)
<1> SUFFICES ASSUME NEW k \in DOMAIN Filed(filings)
             PROVE  Filed(filings)[k] # Nil /\ IsOf(Filed(filings)[k], k, nodes)
  BY DEF Sound
<1> DEFINE S == {i \in DOMAIN filings : k \in filings[i].under}
<1>1. k \in UNION {f.under : f \in Range(filings)}
  BY DEF Filed
<1>2. S \in SUBSET (1 .. n) /\ S # {}
  BY <1>1 DEF Range
<1>3. PICK i \in S : i = Max(S)
  BY <1>2, Greatest
<1>4. Filed(filings)[k] = filings[i].item
  BY <1>1, <1>3 DEF Filed
<1> QED
  BY <1>3, <1>4

(* What addHistoryItem files an item under: its key and its ids.           *)
LEMMA FilingParts ==
  ASSUME NEW i, NEW key, NEW k \in Filing(i, key).under
  PROVE  /\ i # Nil /\ Filing(i, key).item = i
         /\ k # "" /\ k \in {key, i.submit, i.record, i.history}
<1>1. Filing(i, key).item = i
  BY DEF Filing
<1>2. Filing(i, key).under = IF i = Nil THEN {}
                             ELSE {key, i.submit, i.record, i.history} \ {""}
  BY DEF Filing
<1>3. i # Nil
  BY <1>2
<1>4. k \in {key, i.submit, i.record, i.history} \ {""}
  BY <1>2, <1>3
<1> QED
  BY <1>1, <1>3, <1>4

(* So it is of any list and any object, with any order of the keys.        *)
LEMMA CollectedIsSound ==
  ASSUME NEW nodes, Json(nodes), NEW node \in nodes \cup {Nil}, NEW items \in Collected(node)
  PROVE  Sound(items, nodes)
<1>1. CASE node = Nil \/ node.kind = "text"
  <2>1. items = <<>>
    BY <1>1 DEF Collected
  <2> QED
    BY <2>1 DEF Sound
<1>2. CASE node # Nil /\ node.kind = "list"
  <2>1. PICK n \in Nat : DOMAIN node.elems = 1 .. n
    BY <1>2 DEF Json
  <2> DEFINE filings == [i \in DOMAIN node.elems |-> Filing(ItemOf(node.elems[i]), "")]
  <2>2. items = Filed(filings)
    BY <1>2 DEF Collected
  <2>3. DOMAIN filings = 1 .. n
    BY <2>1
  <2>4. ASSUME NEW i \in 1 .. n, NEW k \in filings[i].under
        PROVE  filings[i].item # Nil /\ IsOf(filings[i].item, k, nodes)
    <3>1. PICK it : it = ItemOf(node.elems[i]) /\ filings[i] = Filing(it, "")
      BY <2>1
    <3> HIDE DEF filings
    <3>2. PICK key : key = "" /\ k \in Filing(it, key).under
      BY <2>4, <3>1
    <3>3. /\ it # Nil /\ Filing(it, key).item = it
          /\ k # "" /\ k \in {key, it.submit, it.record, it.history}
      BY <3>2, FilingParts
    <3> QED
      BY <3>1, <3>2, <3>3 DEF IsOf
  <2> HIDE DEF filings
  <2> QED
    BY <2>2, <2>3, <2>4, FiledIsSound
<1>3. CASE node # Nil /\ node.kind = "object"
  <2>1. IsFiniteSet(DOMAIN node.fields)
    BY <1>3 DEF Json
  <2>2. PICK order \in SetToSeqs(DOMAIN node.fields) :
          items = Filed([i \in DOMAIN order |-> FilingAt(node, order[i])])
    BY <1>3 DEF Collected
  <2>3. PICK n \in Nat : DOMAIN order = 1 .. n /\ Range(order) = DOMAIN node.fields
    BY <2>1, EveryKeyIsVisited
  <2> DEFINE filings == [i \in DOMAIN order |-> FilingAt(node, order[i])]
  <2>4. DOMAIN filings = 1 .. n
    BY <2>3
  <2>5. items = Filed(filings)
    BY <2>2
  <2>6. ASSUME NEW i \in 1 .. n, NEW k \in filings[i].under
        PROVE  filings[i].item # Nil /\ IsOf(filings[i].item, k, nodes)
    <3>1. PICK key \in DOMAIN node.fields : key = order[i]
      BY <2>3 DEF Range
    <3>2. PICK it : it = Named(ItemOf(node.fields[key]), key) /\ filings[i] = Filing(it, key)
      BY <2>3, <3>1 DEF FilingAt
    <3> HIDE DEF filings
    <3>3. it # Nil /\ k \in {key, it.submit, it.record, it.history} /\ Filing(it, key).item = it
      BY <2>6, <3>2, FilingParts
    <3>4. node \in nodes
      BY <1>3
    <3>5. IsOf(it, k, nodes)
      BY <1>3, <3>1, <3>2, <3>3, <3>4 DEF IsOf
    <3> QED
      BY <3>2, <3>3, <3>5
  <2> HIDE DEF filings
  <2> QED
    BY <2>4, <2>5, <2>6, FiledIsSound
<1> QED
  BY <1>1, <1>2, <1>3 DEF Json

(* parseHistoryItems files nothing under an id but an item of that id.     *)
LEMMA ParsedIsSound ==
  ASSUME NEW nodes, Json(nodes), NEW start \in nodes \cup {Nil}, NEW items \in ParseItems(start)
  PROVE  Sound(items, nodes)
<1>1. PICK level, found : /\ HeldLevels(level, start)
                          /\ ParsedIn(found, level)
                          /\ ParseItems(start) = found[MaxNesting][start]
  BY ParsesSteps
<1>2. PICK top \in Nat : top = MaxNesting
  BY NestingAssumption
<1>3. /\ level[0] = {start}
      /\ \A d \in 1 .. top : level[d] = UNION {Held(n) : n \in level[d - 1]}
  BY <1>1, <1>2 DEF HeldLevels
<1> DEFINE some == nodes \cup {Nil}
           L == {d \in 0 .. top : level[d] \subseteq some}
<1>4. \A d \in 0 .. top : level[d] \subseteq some
  <2>1. 0 \in L
    BY <1>3
  <2>2. ASSUME NEW d \in 1 .. top, d - 1 \in L PROVE d \in L
    <3>1. ASSUME NEW n \in level[d - 1] PROVE Held(n) \subseteq some
      <4>1. CASE n = Nil
        BY <4>1 DEF Held
      <4>2. CASE n \in nodes
        BY <4>2, ItemsAreInTheReply DEF Held
      <4> QED
        BY <2>2, <4>1, <4>2
    <3>2. level[d] = UNION {Held(n) : n \in level[d - 1]}
      BY <1>3
    <3> HIDE DEF some
    <3>3. level[d] \subseteq some
      BY <3>1, <3>2
    <3> QED
      BY <3>3
  <2> HIDE DEF L
  <2>3. \A d \in 1 .. top : d - 1 \in L => d \in L
    BY <2>2
  <2>4. 0 .. top \subseteq L
    BY <2>1, <2>3, UpTo
  <2> QED
    BY <2>4 DEF L
<1> DEFINE T == {left \in 0 .. top : \A n \in level[top - left] :
                                       \A o \in found[left][n] : Sound(o, nodes)}
<1>5. 0 \in T
  <2>1. 0 \in 0 .. top /\ top - 0 = top
    OBVIOUS
  <2>2. found[0] = [n \in level[top - 0] |-> IF 0 = 0 THEN {<<>>} ELSE Parses(n, found[0 - 1])]
    BY <1>1, <1>2, <2>1 DEF ParsedIn
  <2>3. Sound(<<>>, nodes)
    BY DEF Sound
  <2> QED
    BY <2>1, <2>2, <2>3
<1>6. ASSUME NEW left \in 1 .. top, left - 1 \in T PROVE left \in T
  <2>1. found[left] = [n \in level[top - left] |->
                         IF left = 0 THEN {<<>>} ELSE Parses(n, found[left - 1])]
    <3>1. left \in 0 .. top
      OBVIOUS
    <3> QED
      BY <1>1, <1>2, <3>1 DEF ParsedIn
  <2>2. left # 0 /\ top - left \in 0 .. top
    OBVIOUS
  <2> SUFFICES ASSUME NEW n \in level[top - left], NEW o \in Parses(n, found[left - 1])
               PROVE  Sound(o, nodes)
    BY <2>1, <2>2
  <2>3. n \in some
    BY <1>4, <2>2
  <2>4. \A c \in Collected(n) : Sound(c, nodes)
    BY <2>3, CollectedIsSound
  <2>5. CASE Held(n) = {}
    BY <2>4, <2>5 DEF Parses
  <2>6. CASE Held(n) # {}
    <3>1. PICK d \in Held(n) : o \in InOrder(<<found[left - 1][d], Collected(n)>>, <<>>)
      BY <2>6 DEF Parses
    <3>2. \A c \in found[left - 1][d] : Sound(c, nodes)
      <4>1. top - (left - 1) \in 1 .. top /\ (top - (left - 1)) - 1 = top - left
        OBVIOUS
      <4>2. level[top - (left - 1)] = UNION {Held(x) : x \in level[top - left]}
        BY <1>3, <4>1
      <4> QED
        BY <1>6, <4>2
    <3>3. PICK s : s = <<found[left - 1][d], Collected(n)>>
      OBVIOUS
    <3>4. \A i \in DOMAIN s : \A c \in s[i] : Sound(c, nodes)
      BY <2>4, <3>2, <3>3
    <3>5. o = <<>> \/ \E i \in DOMAIN s : o \in s[i]
      BY <3>1, <3>3 DEF InOrder, Range
    <3>6. Sound(<<>>, nodes)
      BY DEF Sound
    <3> QED
      BY <3>4, <3>5, <3>6
  <2> QED
    BY <2>5, <2>6
<1> HIDE DEF T
<1>7. \A left \in 1 .. top : left - 1 \in T => left \in T
  BY <1>6
<1>8. 0 .. top \subseteq T
  BY <1>5, <1>7, UpTo
<1>9. top \in T /\ start \in level[top - top]
  BY <1>3, <1>8
<1> QED
  BY <1>1, <1>2, <1>9 DEF T

(* The other half, for any reply at all: a lookup of an id comes to an     *)
(* item with that id or one that the reply has under it, and to no other.  *)
THEOREM LookupIsOfTheTask ==
  ASSUME NEW nodes, Json(nodes), NEW reply \in nodes, NEW id,
         NEW i \in Lookup(reply, id), i # Nil
  PROVE  IsOf(i, id, nodes)
<1>1. PICK c \in FindItems(reply) : \E items \in ParseItems(c) : i \in Picked(items, id)
  BY DEF Lookup
<1>2. PICK items \in ParseItems(c) : i \in Picked(items, id)
  BY <1>1
<1>3. Sound(items, nodes)
  <2>1. c \in nodes \cup {Nil}
    BY ItemsAreInTheReply
  <2> QED
    BY <2>1, ParsedIsSound
<1>4. CASE id \in DOMAIN items
  BY <1>2, <1>3, <1>4 DEF Picked, Sound
<1>5. CASE id \notin DOMAIN items
  BY <1>2, <1>5 DEF Picked, IsOf
<1> QED
  BY <1>4, <1>5

-----------------------------------------------------------------------------
(* What a poll shows is what a reply had for the id under which the task   *)
(* was filed when it was accepted.  The parts of that invariant: a command *)
(* that has not come to the loop has no item of an earlier one, and from   *)
(* the submission to the exit the ids stay those of an acceptance.         *)
PollTyped ==
  DOMAIN pc = Procs /\ DOMAIN sent = Procs /\ DOMAIN ids = Procs /\ DOMAIN item = Procs
NothingPolledYet == \A p \in Procs : pc[p] \in {"off", "check", "submit"} => item[p] = <<>>
NamedAtPoll == \A p \in Procs : pc[p] = "poll" => ids[p] \in Acceptances
LookedUp(p) ==
  /\ ids[p] \in Acceptances
  /\ \/ sent[p].task = "image_upscale" /\ item[p] = <<NoItem>>
     \/ \E found \in Found[ids[p].query] : item[p] = <<found>>
ItemIsLookedUp == \A p \in Procs : item[p] # <<>> => LookedUp(p)
PollInv == PollTyped /\ NothingPolledYet /\ NamedAtPoll /\ ItemIsLookedUp

(* Init: no command is under way.                                          *)
LEMMA PollInit == Init => PollInv
BY DEF Init, main, PollInv, PollTyped, NothingPolledYet, NamedAtPoll, ItemIsLookedUp

(* Only Poll sets an item, by the ids that Submit has set; only an exit    *)
(* takes either away, and it takes both.                                   *)
LEMMA PollNext == PollInv /\ [Next]_vars => PollInv'
<1> SUFFICES ASSUME PollInv, [Next]_vars PROVE PollInv'
  OBVIOUS
<1> USE DEF PollInv
<1>1. CASE UNCHANGED <<pc, sent, ids, item>>
  BY <1>1 DEF PollTyped, NothingPolledYet, NamedAtPoll, ItemIsLookedUp, LookedUp
<1>2. ASSUME NEW p \in Procs, NEW to \in {"check", "submit", "print"},
             to # "print" => pc[p] \in {"off", "check"},
             pc' = [pc EXCEPT ![p] = to], UNCHANGED <<sent, ids, item>>
      PROVE  PollInv'
  <2>1. to # "print" => item[p] = <<>>
    BY <1>2 DEF NothingPolledYet
  <2> QED
    BY <1>2, <2>1 DEF PollTyped, NothingPolledYet, NamedAtPoll, ItemIsLookedUp, LookedUp
<1>3. ASSUME NEW p \in Procs, Submit(p) PROVE PollInv'
  <2>1. /\ pc[p] = "submit"
        /\ \E given \in Acceptances : ids' = [ids EXCEPT ![p] = given]
        /\ \E request : sent' = [sent EXCEPT ![p] = request]
        /\ item' = item
        /\ \E to : /\ to \in {"poll", "print"}
                   /\ pc' = [pc EXCEPT ![p] = to]
    BY <1>3 DEF Submit
  <2>2. item[p] = <<>>
    BY <2>1 DEF NothingPolledYet
  <2> QED
    BY <2>1, <2>2 DEF PollTyped, NothingPolledYet, NamedAtPoll, ItemIsLookedUp, LookedUp
<1>4. ASSUME NEW p \in Procs, Poll(p) PROVE PollInv'
  <2>1. /\ pc[p] = "poll"
        /\ UNCHANGED <<pc, sent, ids>>
    BY <1>4 DEF Poll
  <2>2. PICK found \in Found[ids[p].query] :
          item' = [item EXCEPT ![p] =
                     <<IF sent[p].task = "image_upscale" THEN NoItem ELSE found>>]
    BY <1>4 DEF Poll
  <2>3. LookedUp(p)'
    BY <2>1, <2>2 DEF PollTyped, NamedAtPoll, LookedUp
  <2> QED
    BY <2>1, <2>2, <2>3 DEF PollTyped, NothingPolledYet, NamedAtPoll, ItemIsLookedUp, LookedUp
<1>5. ASSUME NEW p \in Procs, ExitOf(p) PROVE PollInv'
  <2>1. /\ pc' = [pc EXCEPT ![p] = "off"]
        /\ sent' = [sent EXCEPT ![p] = NoRequest]
        /\ ids' = [ids EXCEPT ![p] = NoIds]
        /\ item' = [item EXCEPT ![p] = <<>>]
    BY <1>5 DEF ExitOf
  <2> QED
    BY <2>1 DEF PollTyped, NothingPolledYet, NamedAtPoll, ItemIsLookedUp, LookedUp
<1>6. ASSUME NEW p \in Procs, NEW l, Start(p, l) PROVE PollInv'
  <2>1. PICK to \in {"check", "print"} : pc' = [pc EXCEPT ![p] = to]
    BY <1>6 DEF Start
  <2> QED
    BY <1>2, <1>6, <2>1 DEF Start
<1>7. ASSUME NEW p \in Procs, Check(p) PROVE PollInv'
  <2>1. PICK to \in {"submit", "print"} : pc' = [pc EXCEPT ![p] = to]
    BY <1>7 DEF Check, Return
  <2> QED
    BY <1>2, <1>7, <2>1 DEF Check
<1>8. ASSUME NEW p \in Procs, SubmitFails(p) \/ PollEnds(p) PROVE PollInv'
  BY <1>2, <1>8 DEF SubmitFails, PollEnds, Return
<1>9. ASSUME NEW p \in Procs, Updater(p) PROVE PollInv'
  BY <1>1, <1>9 DEF Updater, ReadVersion, FetchForCache, TruncateVersion, FillVersion,
     WriteVersionFails, StatVersion, CheckDirectory, DownloadVersion, CheckGoes, CheckEnds,
     Notify, main
<1>10. ASSUME NEW p \in Procs, PrintNotice(p) \/ ExitQuietly(p) \/ Kill(p) PROVE PollInv'
  BY <1>5, <1>10 DEF PrintNotice, ExitQuietly, Kill
<1>11. CASE HourPasses \/ LoginChanges \/ \E f \in files \cap Removable : RemoveFile(f)
  BY <1>1, <1>11 DEF HourPasses, LoginChanges, RemoveFile, main
<1>12. CASE UNCHANGED vars
  BY <1>1, <1>12 DEF vars, main
<1> QED
  BY <1>3, <1>4, <1>6, <1>7, <1>8, <1>9, <1>10, <1>11, <1>12 DEF Next, Main

(* A poll shows no item, or one that a reply had for the task's id.        *)
LEMMA PollsLookUp == Spec => []ItemIsLookedUp
<1>1. PollInv => ItemIsLookedUp
  BY DEF PollInv
<1> QED
  BY <1>1, PollInit, PollNext, PTL DEF Spec

(* What the replies are taken to be: what a lookup of an id may come to    *)
(* is read from replies that have its task.                                *)
RepliesHaveTheirTask(layers) ==
  \A id \in {i.query : i \in Acceptances} \ {LocalId} :
    /\ Found[id] \subseteq FoundFor(UNION Range(layers[id]), id)
    /\ HaveTheTask(layers[id], id, "done")

(* However the replies to lookups wrap the items, with every order of the  *)
(* maps: each poll of a task that the backend has named finds its item.    *)
THEOREM TaskIsFound ==
  ASSUME NEW layers, RepliesHaveTheirTask(layers), NoItem = Nil
  PROVE  Spec => []HistoryIsFound
<1>1. ASSUME ItemIsLookedUp PROVE HistoryIsFound
  <2> SUFFICES ASSUME NEW p \in Procs, item[p] # <<>>, sent[p].task # "image_upscale",
                      ids[p].query # LocalId
               PROVE  item[p][1] # NoItem /\ item[p][1].status = "done"
    BY DEF HistoryIsFound
  <2>1. PICK id : id = ids[p].query /\ id \in {i.query : i \in Acceptances} \ {LocalId}
    BY <1>1 DEF ItemIsLookedUp, LookedUp
  <2>2. PICK found \in Found[id] : item[p] = <<found>>
    BY <1>1, <2>1 DEF ItemIsLookedUp, LookedUp
  <2>3. PICK ls : ls = layers[id]
    OBVIOUS
  <2>4. PICK status : status = "done" /\ HaveTheTask(ls, id, status)
    BY <2>1, <2>3 DEF RepliesHaveTheirTask
  <2>5. PICK reply \in UNION Range(ls) : found \in Lookup(reply, id)
    BY <2>1, <2>2, <2>3 DEF RepliesHaveTheirTask, FoundFor
  <2>6. found # Nil /\ found.status = status
    BY <2>4, <2>5, LookupFindsTheTask
  <2> QED
    BY <2>2, <2>4, <2>6
<1>2. ItemIsLookedUp => HistoryIsFound
  BY <1>1
<1> QED
  BY <1>2, PollsLookUp, PTL

(* Whatever the replies are: an item that a poll shows is the task's.  It  *)
(* has the id under which the task is asked for, or a reply had it there.  *)
NoOtherTask(nodes) ==
  \A p \in Procs : item[p] # <<>> =>
    item[p][1] = NoItem \/ IsOf(item[p][1], ids[p].query, nodes)

(* However a server answers lookups, for whichever tasks and in whatever   *)
(* shape: no poll shows the item of a task that is not the one submitted.  *)
THEOREM PollsShowTheTask ==
  ASSUME NEW nodes, Json(nodes), NoItem = Nil,
         \A i \in Acceptances : Found[i.query] \subseteq FoundFor(nodes, i.query)
  PROVE  Spec => []NoOtherTask(nodes)
<1>1. ASSUME ItemIsLookedUp PROVE NoOtherTask(nodes)
  <2> SUFFICES ASSUME NEW p \in Procs, item[p] # <<>>, item[p][1] # NoItem
               PROVE  IsOf(item[p][1], ids[p].query, nodes)
    BY DEF NoOtherTask
  <2>1. PICK id : id = ids[p].query /\ Found[id] \subseteq FoundFor(nodes, id)
    BY <1>1 DEF ItemIsLookedUp, LookedUp
  <2>2. PICK found \in Found[id] : item[p] = <<found>>
    BY <1>1, <2>1 DEF ItemIsLookedUp, LookedUp
  <2>3. PICK reply \in nodes : found \in Lookup(reply, id)
    BY <2>1, <2>2 DEF FoundFor
  <2>4. IsOf(found, id, nodes)
    BY <2>2, <2>3, LookupIsOfTheTask
  <2> QED
    BY <2>1, <2>2, <2>4
<1>2. ItemIsLookedUp => NoOtherTask(nodes)
  BY <1>1
<1> QED
  BY <1>2, PollsLookUp, PTL
=============================================================================
