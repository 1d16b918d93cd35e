----------------------- MODULE ResourceUpload_proofs -----------------------
(***************************************************************************)
(* Proofs about ResourceUpload, for any number of paths, base names, VOD   *)
(* nodes and candidates.                                                   *)
(***************************************************************************)
EXTENDS ResourceUpload, WellFoundedInduction, TLAPS

(***************************************************************************)
(* The parts of the inductive invariant.                                   *)
(***************************************************************************)

(* A goroutine at a node was offered it.                                   *)
NodeIsOffered ==
  \A i \in Paths : pc[i] \in {"put", "commit"} => node[i] \in 1 .. nodes[i]

TypeInv == TypeOK /\ NodeIsOffered

(* A goroutine keeps to its route, and starts after the token came.        *)
StepsOfRoute ==
  \A i \in Paths :
    /\ phase = "token" => pc[i] = "start"
    /\ pc[i] \in {"apply", "put", "commit"} => Route # "phases"
    /\ pc[i] \in {"init", "transfer", "finish"} => Route = "phases"

Target(i) == IF Route = "phases" THEN KeyOf(i) ELSE Own(i, node[i])

(* A goroutine that has an item has it for its own object, and one past    *)
(* the check has the id that its type needs.                               *)
ItemOfStep ==
  \A i \in Paths :
    /\ pc[i] \in {"check", "done"} => item[i] # NoItem /\ item[i].uri = Target(i)
    /\ pc[i] = "done" /\ kind # "image" => item[i].id = "remote"

(* What was put is still there when it is committed, and afterwards.       *)
BytesStay ==
  OwnKeys =>
    \A i \in Paths :
      /\ pc[i] = "commit" => bytes[Target(i)] = i
      /\ pc[i] \in {"check", "done"} => bytes[Target(i)] = i /\ Target(i) \in closed

(* The call collects when every path is done, has nothing to merge before, *)
(* and has an outcome when it has returned.                                *)
CallOrder ==
  /\ Stores => \A i \in Paths : pc[i] = "done"
  /\ phase \notin {"merge", "returned"} => answer = <<>> /\ pairs = <<>>
  /\ phase # "returned" <=> outcome = "none"
  /\ Len(pairs) <= Len(answer)
  /\ outcome = "ok" => Len(pairs) = N /\ Len(answer) = N

Paired ==
  InOrder \/ Identified => \A k \in DOMAIN pairs : pairs[k] = answer[k].of

IInv ==
  /\ TypeInv
  /\ StepsOfRoute
  /\ ItemOfStep
  /\ BytesStay
  /\ CallOrder
  /\ Paired

-----------------------------------------------------------------------------
(***************************************************************************)
(* Facts about the data.                                                   *)
(***************************************************************************)

(* A set of numbers has a least element.                                   *)
LEMMA LeastNumber ==
  ASSUME NEW T, T \subseteq Nat, T # {}
  PROVE  /\ Min(T) \in T
         /\ \A y \in T : Min(T) <= y
<1> DEFINE R == OpToRel(<, Nat)
<1>1. \E x \in T : \A y \in T : ~ (<<y, x>> \in R)
  <2>1. IsWellFoundedOn(R, Nat)
    BY NatLessThanWellFounded
  <2> QED BY <2>1, WFMin
<1>2. \A x, y \in Nat : <<y, x>> \notin R => x <= y
  BY DEF OpToRel
<1>3. \E x \in T : \A y \in T : x <= y
  BY <1>1, <1>2
<1> QED BY <1>3 DEF Min

(* The objects that paths put and point at are objects.                    *)
LEMMA NamesOfObjects ==
  /\ \A i \in Paths, n \in 1 .. MaxNodes : Own(i, n) \in Objects
  /\ TypeOK => \A i \in Paths : KeyOf(i) \in Objects
<1>1. \A j \in Paths : TokenKey(j) \in Objects
  BY DEF Objects
<1>2. 1 \in Paths
  BY BatchAssumption DEF Paths
<1> QED BY <1>1, <1>2 DEF Objects, TypeOK, KeyOf

(* Two paths have two objects.                                             *)
LEMMA TargetsDiffer ==
  ASSUME TypeOK, OwnKeys, NEW i \in Paths, NEW j \in Paths, i # j
  PROVE  Target(i) # Target(j)
<1>1. CASE Route # "phases"
  BY <1>1 DEF Target, Own
<1>2. CASE Route = "phases" /\ infos = N
  BY <1>2, BatchAssumption DEF Target, KeyOf, TokenKey, Paths
<1>3. CASE Route = "phases" /\ infos = 0
  BY <1>3, BatchAssumption DEF Target, KeyOf, NameKey, Paths, OwnKeys
<1> QED BY <1>1, <1>2, <1>3 DEF OwnKeys

(* A stored resource is merged with a path or with none.                   *)
LEMMA PairIsPath ==
  ASSUME NEW k \in Nat
  PROVE  PairOf(k) \in 0 .. N
<1>1. Unused \subseteq 1 .. N /\ N \in Nat
  BY BatchAssumption DEF Unused, Paths
<1>2. CASE Matching(answer[k]) # {}
  <2>1. Matching(answer[k]) \subseteq 1 .. N
    BY <1>1 DEF Matching
  <2>2. Matching(answer[k]) \subseteq Nat
    BY <2>1
  <2> QED BY <1>1, <1>2, <2>1, <2>2, LeastNumber DEF PairOf
<1>3. CASE Matching(answer[k]) = {}
  BY <1>1, <1>3 DEF PairOf
<1> QED BY <1>2, <1>3

-----------------------------------------------------------------------------
(***************************************************************************)
(* Types.                                                                  *)
(***************************************************************************)
LEMMA TypeInvInit == Init => TypeInv
<1> SUFFICES ASSUME Init PROVE TypeInv
  OBVIOUS
<1>1. <<>> \in Answers
  <2>1. <<>> \in [1 .. 0 -> Stored]
    OBVIOUS
  <2>2. 0 \in 0 .. N + 1
    BY BatchAssumption
  <2> QED BY <2>1, <2>2 DEF Answers
<1>2. infos \in 0 .. N /\ \A i \in Paths : nodes[i] \in 0 .. MaxNodes
  BY BatchAssumption DEF Init
<1>3. nodes \in [Paths -> 0 .. MaxNodes] /\ node \in [Paths -> 0 .. MaxNodes]
  BY BatchAssumption DEF Init
<1>4. tries \in [Paths -> 0 .. MaxTries - 1]
  BY BatchAssumption DEF Init
<1>5. item \in [Paths -> Items] /\ bytes \in [Objects -> Paths \cup {Nothing, Corrupt}]
  BY DEF Init, Items
<1>6. pairs \in Seq(0 .. N)
  BY DEF Init
<1> QED BY <1>1, <1>2, <1>3, <1>4, <1>5, <1>6
        DEF Init, TypeInv, TypeOK, NodeIsOffered

(* The three ways to go on after a failure.                                *)
LEMMA NextNodeTyped ==
  ASSUME TypeInv, NEW i \in Paths, pc[i] \in {"put", "commit"}, NextNode(i)
  PROVE  /\ nodes' = nodes
         /\ node' \in [Paths -> 0 .. MaxNodes]
         /\ tries' \in [Paths -> 0 .. MaxTries - 1]
         /\ pc' = [pc EXCEPT ![i] = "put"] \/ pc' = [pc EXCEPT ![i] = "failed"]
         /\ pc'[i] = "put" => node'[i] \in 1 .. nodes[i]
         /\ \A j \in Paths \ {i} : node'[j] = node[j]
         /\ pc'[i] = "put" => Route = "vod"
<1> /\ nodes[i] \in 0 .. MaxNodes /\ node[i] \in 1 .. nodes[i]
    /\ node \in [Paths -> 0 .. MaxNodes] /\ nodes \in [Paths -> 0 .. MaxNodes]
    /\ tries \in [Paths -> 0 .. MaxTries - 1] /\ MaxTries \in Nat \ {0}
    /\ MaxNodes \in Nat \ {0}
    /\ pc \in [Paths -> {"start", "apply", "put", "commit", "init", "transfer",
                         "finish", "check", "done", "failed"}]
  BY BatchAssumption DEF TypeInv, TypeOK, NodeIsOffered
<1>1. CASE Route = "vod" /\ node[i] < nodes[i]
  BY <1>1 DEF NextNode, Goto
<1>2. CASE ~(Route = "vod" /\ node[i] < nodes[i])
  BY <1>2 DEF NextNode, Goto, route
<1> QED BY <1>1, <1>2

(* What a step of a goroutine leaves alone: the call, the other paths and  *)
(* every object but its own.                                               *)
LEMMA StepIsOwn ==
  ASSUME TypeInv, StepsOfRoute, NEW i \in Paths, UploadStep(i)
  PROVE  /\ phase = "upload"
         /\ UNCHANGED <<kind, name, token, phase, answer, pairs, outcome>>
         /\ pc[i] \notin {"done", "failed"}
         /\ \A j \in Paths \ {i} :
              pc'[j] = pc[j] /\ item'[j] = item[j] /\ node'[j] = node[j]
                /\ nodes'[j] = nodes[j]
         /\ closed \subseteq closed'
         /\ \A o \in Objects : o # Target(i) => bytes'[o] = bytes[o]
<1> USE DEF At, Goto, route, service, token
<1> TypeOK
  BY DEF TypeInv
<1>1. CASE Begin(i)
  BY <1>1 DEF Begin, TypeOK
<1>2. CASE Apply(i)
  BY <1>2 DEF Apply, TypeOK
<1>3. CASE PutAccepted(i)
  BY <1>3 DEF PutAccepted, TypeOK, Target, StepsOfRoute
<1>4. CASE PutFailed(i)
  BY <1>4, NextNodeTyped DEF PutFailed, TypeOK, Target, StepsOfRoute
<1>5. CASE CommitAccepted(i)
  BY <1>5 DEF CommitAccepted, MakeItem, TypeOK
<1>6. CASE CommitFailed(i)
  BY <1>6, NextNodeTyped DEF CommitFailed, TypeOK
<1>7. CASE PhaseInit(i)
  BY <1>7 DEF PhaseInit, TypeOK
<1>8. CASE PhaseTransfer(i)
  BY <1>8 DEF PhaseTransfer, TypeOK
<1>9. CASE PhaseFinish(i)
  BY <1>9 DEF PhaseFinish, Finished, MakeItem, TypeOK, Target, StepsOfRoute
<1>10. CASE CheckItem(i)
  BY <1>10 DEF CheckItem, TypeOK
<1> QED BY <1>1, <1>2, <1>3, <1>4, <1>5, <1>6, <1>7, <1>8, <1>9, <1>10
        DEF UploadStep

(* The types, given the order of each route.                               *)
LEMMA TypeInvStep ==
  ASSUME TypeInv, StepsOfRoute, [Next]_vars
  PROVE  TypeInv'
<1> USE DEF At, Goto, route, service, token
<1> TypeOK
  BY DEF TypeInv
<1>1. ASSUME NEW i \in Paths, UploadStep(i)
      PROVE  TypeInv'
  <2> /\ kind' = kind /\ name' = name /\ sts' = sts /\ infos' = infos
      /\ phase' = phase /\ answer' = answer /\ pairs' = pairs
      /\ outcome' = outcome
      /\ Route' = Route
    BY <1>1, StepIsOwn DEF Route
  <2>1. CASE Begin(i)
    BY <2>1 DEF Begin, TypeOK, TypeInv, NodeIsOffered
  <2>2. CASE Apply(i)
    <3>1. CASE Goto(i, "failed") /\ UNCHANGED route
      BY <2>2, <3>1 DEF Apply, TypeOK, TypeInv, NodeIsOffered
    <3>2. CASE ~(Goto(i, "failed") /\ UNCHANGED route)
      <4>1. PICK n \in 1 .. MaxNodes :
              /\ nodes' = [nodes EXCEPT ![i] = n]
              /\ node' = [node EXCEPT ![i] = 1]
              /\ tries' = [tries EXCEPT ![i] = 0]
              /\ pc' = [pc EXCEPT ![i] = "put"]
              /\ UNCHANGED <<item, service>>
        BY <2>2, <3>2, BatchAssumption DEF Apply
      <4> QED BY <4>1, BatchAssumption DEF TypeOK, TypeInv, NodeIsOffered
    <3> QED BY <3>1, <3>2
  <2>3. CASE PutAccepted(i)
    <3>1. bytes' \in [Objects -> Paths \cup {Nothing, Corrupt}]
      BY <2>3 DEF PutAccepted, TypeOK
    <3> QED BY <2>3, <3>1 DEF PutAccepted, TypeOK, TypeInv, NodeIsOffered
  <2>4. CASE PutFailed(i)
    <3>1. bytes' \in [Objects -> Paths \cup {Nothing, Corrupt}]
      <4>1. Own(i, node[i]) \in Objects
        BY <2>4, NamesOfObjects DEF PutFailed, TypeInv, NodeIsOffered, TypeOK
      <4> QED BY <2>4, <4>1 DEF PutFailed, TypeOK
    <3>2. CASE Route = "vod" /\ tries[i] + 1 < MaxTries
      <4>1. tries' = [tries EXCEPT ![i] = tries[i] + 1]
        BY <2>4, <3>2 DEF PutFailed
      <4>2. tries[i] \in 0 .. MaxTries - 1 /\ tries[i] + 1 < MaxTries
             /\ MaxTries \in Nat
        BY <3>2, BatchAssumption DEF TypeOK
      <4>3. tries[i] + 1 \in 0 .. MaxTries - 1
        BY <4>2
      <4>4. tries' \in [Paths -> 0 .. MaxTries - 1]
        BY <4>1, <4>3 DEF TypeOK
      <4> QED BY <2>4, <3>1, <3>2, <4>4
              DEF PutFailed, TypeOK, TypeInv, NodeIsOffered
    <3>3. CASE ~(Route = "vod" /\ tries[i] + 1 < MaxTries)
      <4>1. NextNode(i) /\ pc[i] \in {"put", "commit"} /\ UNCHANGED <<item, closed>>
        BY <2>4, <3>3 DEF PutFailed
      <4> QED BY <3>1, <4>1, NextNodeTyped DEF TypeOK, TypeInv, NodeIsOffered
    <3> QED BY <3>2, <3>3
  <2>5. CASE CommitAccepted(i)
    <3>1. Own(i, node[i]) \in Objects
      BY <2>5, NamesOfObjects DEF CommitAccepted, TypeInv, NodeIsOffered, TypeOK
    <3>2. item' \in [Paths -> Items]
      BY <2>5, <3>1 DEF CommitAccepted, MakeItem, TypeOK, Items
    <3> QED BY <2>5, <3>1, <3>2
            DEF CommitAccepted, MakeItem, TypeOK, TypeInv, NodeIsOffered
  <2>6. CASE CommitFailed(i)
    <3>1. Own(i, node[i]) \in Objects
      BY <2>6, NamesOfObjects DEF CommitFailed, TypeInv, NodeIsOffered, TypeOK
    <3>2. NextNode(i) /\ pc[i] \in {"put", "commit"} /\ UNCHANGED <<item, bytes>>
           /\ closed' \subseteq Objects
      BY <2>6, <3>1 DEF CommitFailed, TypeOK
    <3> QED BY <3>2, NextNodeTyped DEF TypeOK, TypeInv, NodeIsOffered
  <2>7. CASE PhaseInit(i)
    BY <2>7 DEF PhaseInit, TypeOK, TypeInv, NodeIsOffered
  <2>8. CASE PhaseTransfer(i)
    BY <2>8 DEF PhaseTransfer, TypeOK, TypeInv, NodeIsOffered
  <2>9. CASE PhaseFinish(i)
    <3>1. KeyOf(i) \in Objects
      BY NamesOfObjects
    <3>2. /\ item' \in [Paths -> Items]
          /\ bytes' \in [Objects -> Paths \cup {Nothing, Corrupt}]
          /\ closed' \subseteq Objects
      <4>1. \A id \in {"remote", "uri"} : [id |-> id, uri |-> KeyOf(i)] \in Items
        BY <3>1 DEF Items
      <4>2. item' = item \/ \E id \in {"remote", "uri"} :
                              MakeItem(i, id, KeyOf(i))
        BY <2>9 DEF PhaseFinish
      <4>3. item' \in [Paths -> Items]
        BY <4>1, <4>2 DEF MakeItem, TypeOK
      <4>4. Finished(i) \/ UNCHANGED service
        BY <2>9 DEF PhaseFinish
      <4>5. /\ bytes' \in [Objects -> Paths \cup {Nothing, Corrupt}]
            /\ closed' \subseteq Objects
        BY <3>1, <4>4 DEF Finished, TypeOK
      <4> QED BY <4>3, <4>5
    <3>3. UNCHANGED route
           /\ (pc' = [pc EXCEPT ![i] = "check"] \/ pc' = [pc EXCEPT ![i] = "failed"])
      BY <2>9 DEF PhaseFinish, MakeItem
    <3> QED BY <3>2, <3>3 DEF TypeOK, TypeInv, NodeIsOffered
  <2>10. CASE CheckItem(i)
    BY <2>10 DEF CheckItem, TypeOK, TypeInv, NodeIsOffered
  <2> QED BY <1>1, <2>1, <2>2, <2>3, <2>4, <2>5, <2>6, <2>7, <2>8, <2>9, <2>10
          DEF UploadStep
<1>2. CASE GetToken
  BY <1>2, BatchAssumption DEF GetToken, Return, TypeOK, TypeInv, NodeIsOffered
<1>3. CASE Collect
  BY <1>3 DEF Collect, Return, TypeOK, TypeInv, NodeIsOffered
<1>4. CASE ResourceStore
  BY <1>4 DEF ResourceStore, Return, TypeOK, TypeInv, NodeIsOffered
<1>5. CASE MergeNext
  <2>1. PairOf(Len(pairs) + 1) \in 0 .. N
    BY PairIsPath DEF TypeOK
  <2>2. pairs' \in Seq(0 .. N)
    BY <1>5, <2>1 DEF MergeNext, TypeOK
  <2> QED BY <1>5, <2>2 DEF MergeNext, TypeOK, TypeInv, NodeIsOffered
<1>6. CASE MergeDone
  BY <1>6 DEF MergeDone, Return, TypeOK, TypeInv, NodeIsOffered
<1>7. CASE UNCHANGED vars
  BY <1>7 DEF vars, TypeOK, TypeInv, NodeIsOffered
<1> QED BY <1>1, <1>2, <1>3, <1>4, <1>5, <1>6, <1>7 DEF Next, CallStep

-----------------------------------------------------------------------------
(***************************************************************************)
(* The other conjuncts.                                                    *)
(***************************************************************************)
LEMMA IInvInit == Init => IInv
<1> SUFFICES ASSUME Init PROVE IInv
  OBVIOUS
<1>1. TypeInv
  BY TypeInvInit
<1>2. StepsOfRoute /\ ItemOfStep /\ BytesStay
  BY DEF Init, StepsOfRoute, ItemOfStep, BytesStay
<1>3. CallOrder
  BY DEF Init, CallOrder, Stores
<1>4. Paired
  BY DEF Init, Paired
<1> QED BY <1>1, <1>2, <1>3, <1>4 DEF IInv

(* The steps of the call itself leave the goroutines and objects alone.    *)
LEMMA CallLeavesPaths ==
  ASSUME CallStep \/ UNCHANGED vars
  PROVE  /\ UNCHANGED <<kind, name, pc, nodes, node, item, bytes, closed>>
         /\ phase # "token" => UNCHANGED <<sts, infos>> /\ phase' # "token"
         /\ phase = "token" => UNCHANGED <<answer, pairs>>
BY DEF CallStep, GetToken, Collect, ResourceStore, MergeNext, MergeDone, Return,
       vars, token, route, service

(* Each goroutine goes along its route only.                               *)
LEMMA RouteStep ==
  ASSUME IInv, [Next]_vars
  PROVE  StepsOfRoute'
<1> TypeOK /\ TypeInv /\ StepsOfRoute
  BY DEF IInv, TypeInv
<1>1. ASSUME NEW i \in Paths, UploadStep(i)
      PROVE  StepsOfRoute'
  <2> USE DEF At, Goto
  <2>1. Route' = Route /\ phase' = "upload"
    BY <1>1, StepIsOwn DEF Route, token
  <2>2. ASSUME NEW j \in Paths \ {i}
        PROVE  /\ pc'[j] \in {"apply", "put", "commit"} => Route # "phases"
               /\ pc'[j] \in {"init", "transfer", "finish"} => Route = "phases"
    BY <1>1, <2>2, StepIsOwn DEF StepsOfRoute
  <2>3. /\ pc'[i] \in {"apply", "put", "commit"} => Route # "phases"
        /\ pc'[i] \in {"init", "transfer", "finish"} => Route = "phases"
    <3>1. CASE Begin(i)
      BY <3>1 DEF Begin, TypeOK
    <3>2. CASE Apply(i)
      BY <3>2 DEF Apply, TypeOK, StepsOfRoute
    <3>3. CASE PutAccepted(i)
      BY <3>3 DEF PutAccepted, TypeOK, StepsOfRoute
    <3>4. CASE PutFailed(i)
      BY <3>4, NextNodeTyped DEF PutFailed, TypeOK, StepsOfRoute
    <3>5. CASE CommitAccepted(i)
      BY <3>5 DEF CommitAccepted, MakeItem, TypeOK
    <3>6. CASE CommitFailed(i)
      BY <3>6, NextNodeTyped DEF CommitFailed, TypeOK
    <3>7. CASE PhaseInit(i)
      BY <3>7 DEF PhaseInit, TypeOK, StepsOfRoute
    <3>8. CASE PhaseTransfer(i)
      BY <3>8 DEF PhaseTransfer, TypeOK, StepsOfRoute
    <3>9. CASE PhaseFinish(i)
      BY <3>9 DEF PhaseFinish, MakeItem, TypeOK
    <3>10. CASE CheckItem(i)
      BY <3>10 DEF CheckItem, TypeOK
    <3> QED BY <1>1, <3>1, <3>2, <3>3, <3>4, <3>5, <3>6, <3>7, <3>8, <3>9, <3>10
            DEF UploadStep
  <2> QED BY <2>1, <2>2, <2>3 DEF StepsOfRoute
<1>2. CASE CallStep \/ UNCHANGED vars
  <2>1. CASE phase = "token"
    BY <1>2, <2>1, CallLeavesPaths DEF StepsOfRoute
  <2>2. CASE phase # "token"
    BY <1>2, <2>2, CallLeavesPaths DEF StepsOfRoute, Route
  <2> QED BY <2>1, <2>2
<1> QED BY <1>1, <1>2 DEF Next

(* A goroutine's item, and its object, from the commit or finish on.       *)
LEMMA OwnItemStep ==
  ASSUME IInv, NEW i \in Paths, UploadStep(i)
  PROVE  /\ pc'[i] \in {"check", "done"} =>
              item'[i] # NoItem /\ item'[i].uri = Target(i)
         /\ pc'[i] = "done" /\ kind # "image" => item'[i].id = "remote"
         /\ pc'[i] \in {"commit", "check", "done"} => node'[i] = node[i]
         /\ OwnKeys /\ pc'[i] = "commit" => bytes'[Target(i)] = i
         /\ OwnKeys /\ pc'[i] \in {"check", "done"} =>
              bytes'[Target(i)] = i /\ Target(i) \in closed'
<1> USE DEF At, Goto, route, service
<1> TypeInv /\ TypeOK /\ StepsOfRoute /\ ItemOfStep /\ BytesStay
  BY DEF IInv, TypeInv
<1>1. CASE Begin(i)
  BY <1>1 DEF Begin, TypeOK
<1>2. CASE Apply(i)
  <2>1. pc'[i] \in {"put", "failed"}
    BY <1>2 DEF Apply, TypeOK
  <2> QED BY <2>1
<1>3. CASE PutAccepted(i)
  <2>1. Target(i) = Own(i, node[i]) /\ Own(i, node[i]) \in Objects
    BY <1>3, NamesOfObjects
       DEF PutAccepted, Target, StepsOfRoute, TypeInv, TypeOK, NodeIsOffered
  <2> QED BY <1>3, <2>1 DEF PutAccepted, TypeOK
<1>4. CASE PutFailed(i)
  <2>1. pc'[i] \in {"put", "failed"}
    BY <1>4, NextNodeTyped DEF PutFailed, TypeOK
  <2> QED BY <2>1
<1>5. CASE CommitAccepted(i)
  <2>1. Target(i) = Own(i, node[i]) /\ pc'[i] = "check"
    BY <1>5 DEF CommitAccepted, MakeItem, Target, StepsOfRoute, TypeOK
  <2>2. item'[i].uri = Target(i) /\ item'[i] # NoItem
    BY <1>5, <2>1 DEF CommitAccepted, MakeItem, TypeOK, NoItem, Own
  <2> QED BY <1>5, <2>1, <2>2 DEF CommitAccepted, BytesStay
<1>6. CASE CommitFailed(i)
  <2>1. pc'[i] \in {"put", "failed"}
    BY <1>6, NextNodeTyped DEF CommitFailed, TypeOK
  <2> QED BY <2>1
<1>7. CASE PhaseInit(i)
  BY <1>7 DEF PhaseInit, TypeOK
<1>8. CASE PhaseTransfer(i)
  BY <1>8 DEF PhaseTransfer, TypeOK
<1>9. CASE PhaseFinish(i)
  <2>1. Target(i) = KeyOf(i) /\ KeyOf(i) \in Objects
    BY <1>9, NamesOfObjects DEF PhaseFinish, Target, StepsOfRoute
  <2>2. CASE Finished(i) /\ \E id \in {"remote", "uri"} : MakeItem(i, id, KeyOf(i))
    <3>1. item'[i].uri = KeyOf(i) /\ item'[i] # NoItem /\ pc'[i] = "check"
      BY <2>2 DEF MakeItem, TypeOK, NoItem, KeyOf, TokenKey, NameKey
    <3> QED BY <1>9, <2>1, <2>2, <3>1 DEF PhaseFinish, Finished, TypeOK
  <2>3. CASE Goto(i, "failed")
    BY <2>3 DEF TypeOK
  <2> QED BY <1>9, <2>2, <2>3 DEF PhaseFinish
<1>10. CASE CheckItem(i)
  BY <1>10 DEF CheckItem, TypeOK, ItemOfStep, BytesStay
<1> QED BY <1>1, <1>2, <1>3, <1>4, <1>5, <1>6, <1>7, <1>8, <1>9, <1>10
        DEF UploadStep

(* What a goroutine holds stays that of the step it is at.                 *)
LEMMA ItemStep ==
  ASSUME IInv, [Next]_vars
  PROVE  ItemOfStep'
<1> TypeInv /\ StepsOfRoute /\ ItemOfStep
  BY DEF IInv
<1>1. ASSUME NEW i \in Paths, UploadStep(i)
      PROVE  ItemOfStep'
  <2>1. /\ kind' = kind
        /\ \A j \in Paths : node'[j] = node[j] => Target(j)' = Target(j)
    BY <1>1, StepIsOwn DEF Target, Own, KeyOf, Route, token
  <2>2. \A j \in Paths \ {i} :
          pc'[j] = pc[j] /\ item'[j] = item[j] /\ node'[j] = node[j]
    BY <1>1, StepIsOwn
  <2> QED BY <1>1, <2>1, <2>2, OwnItemStep DEF ItemOfStep
<1>2. CASE CallStep \/ UNCHANGED vars
  <2>1. CASE phase = "token"
    BY <1>2, <2>1, CallLeavesPaths DEF ItemOfStep, StepsOfRoute
  <2>2. CASE phase # "token"
    BY <1>2, <2>2, CallLeavesPaths DEF ItemOfStep, Target, Route, KeyOf
  <2> QED BY <2>1, <2>2
<1> QED BY <1>1, <1>2 DEF Next

(* With keys of their own, nobody writes the object of another path.       *)
LEMMA BytesStep ==
  ASSUME IInv, [Next]_vars
  PROVE  BytesStay'
<1> TypeInv /\ TypeOK /\ StepsOfRoute /\ ItemOfStep /\ BytesStay
  BY DEF IInv, TypeInv
<1>1. ASSUME NEW i \in Paths, UploadStep(i)
      PROVE  BytesStay'
  <2>1. /\ OwnKeys' = OwnKeys
        /\ \A j \in Paths : node'[j] = node[j] => Target(j)' = Target(j)
    BY <1>1, StepIsOwn DEF OwnKeys, Target, Own, KeyOf, Route, token
  <2>2. ASSUME OwnKeys, NEW j \in Paths \ {i},
               pc[j] \in {"commit", "check", "done"}
        PROVE  bytes'[Target(j)] = bytes[Target(j)]
    <3>1. Target(j) \in Objects
      <4>1. CASE pc[j] = "commit"
        BY <4>1, NamesOfObjects
           DEF Target, StepsOfRoute, TypeInv, TypeOK, NodeIsOffered
      <4>2. CASE pc[j] \in {"check", "done"}
        BY <4>2 DEF ItemOfStep, TypeOK, Items
      <4> QED BY <2>2, <4>1, <4>2
    <3>2. Target(j) # Target(i)
      BY <2>2, TargetsDiffer
    <3> QED BY <1>1, <3>1, <3>2, StepIsOwn
  <2>3. ASSUME OwnKeys, NEW j \in Paths \ {i}
        PROVE  /\ pc'[j] = "commit" => bytes'[Target(j)'] = j
               /\ pc'[j] \in {"check", "done"} =>
                    bytes'[Target(j)'] = j /\ Target(j)' \in closed'
    <3>1. /\ pc'[j] = pc[j] /\ node'[j] = node[j] /\ Target(j)' = Target(j)
          /\ closed \subseteq closed'
      BY <1>1, <2>1, StepIsOwn
    <3> QED BY <2>2, <2>3, <3>1 DEF BytesStay
  <2>4. ASSUME OwnKeys
        PROVE  /\ pc'[i] = "commit" => bytes'[Target(i)'] = i
               /\ pc'[i] \in {"check", "done"} =>
                    bytes'[Target(i)'] = i /\ Target(i)' \in closed'
    BY <1>1, <2>1, <2>4, OwnItemStep
  <2> QED BY <2>1, <2>3, <2>4 DEF BytesStay
<1>2. CASE CallStep \/ UNCHANGED vars
  <2>1. CASE phase = "token"
    BY <1>2, <2>1, CallLeavesPaths DEF BytesStay, StepsOfRoute
  <2>2. CASE phase # "token"
    BY <1>2, <2>2, CallLeavesPaths DEF BytesStay, OwnKeys, Target, Route, KeyOf
  <2> QED BY <2>1, <2>2
<1> QED BY <1>1, <1>2 DEF Next

(* The call waits for all its goroutines before it merges.                 *)
LEMMA CallOrderStep ==
  ASSUME IInv, [Next]_vars
  PROVE  CallOrder'
<1> TypeInv /\ TypeOK /\ StepsOfRoute /\ CallOrder
  BY DEF IInv, TypeInv
<1> pairs \in Seq(0 .. N) /\ N \in Nat
  BY BatchAssumption DEF TypeOK
<1>1. ASSUME NEW i \in Paths, UploadStep(i)
      PROVE  CallOrder'
  BY <1>1, StepIsOwn DEF CallOrder, Stores
<1>2. CASE GetToken
  BY <1>2 DEF GetToken, Return, CallOrder, Stores
<1>3. CASE Collect
  BY <1>3 DEF Collect, Return, Ended, CallOrder, Stores
<1>4. CASE ResourceStore
  <2>1. Len(answer') \in Nat
    <3>1. answer' \in Answers
      BY <1>4 DEF ResourceStore, TypeOK
    <3>2. \A n \in 0 .. N + 1 : \A a \in [1 .. n -> Stored] : Len(a) = n
      OBVIOUS
    <3> QED BY <3>1, <3>2 DEF Answers
  <2> QED BY <1>4, <2>1 DEF ResourceStore, Return, CallOrder, Stores
<1>5. CASE MergeNext
  <2>1. Len(pairs') = Len(pairs) + 1 /\ Len(pairs) < Len(answer)
    BY <1>5 DEF MergeNext
  <2>2. Len(answer) \in Nat
    <3>1. \A n \in 0 .. N + 1 : \A a \in [1 .. n -> Stored] : Len(a) = n
      OBVIOUS
    <3> QED BY <3>1 DEF Answers, TypeOK
  <2> QED BY <1>5, <2>1, <2>2 DEF MergeNext, CallOrder, Stores
<1>6. CASE MergeDone
  BY <1>6 DEF MergeDone, Return, CallOrder, Stores
<1>7. CASE UNCHANGED vars
  BY <1>7 DEF vars, CallOrder, Stores
<1> QED BY <1>1, <1>2, <1>3, <1>4, <1>5, <1>6, <1>7 DEF Next, CallStep

-----------------------------------------------------------------------------
(***************************************************************************)
(* The merge.                                                              *)
(***************************************************************************)
LEMMA AnswerFacts ==
  ASSUME TypeOK
  PROVE  /\ Len(answer) \in Nat /\ DOMAIN answer = 1 .. Len(answer)
         /\ \A k \in DOMAIN answer : answer[k] \in Stored
         /\ \A j, k \in DOMAIN answer : answer[j].of = answer[k].of => j = k
         /\ \A k \in DOMAIN answer :
              answer[k].of = Foreign => answer[k].by = "none"
<1>1. PICK n \in 0 .. N + 1 : answer \in [1 .. n -> Stored]
  BY DEF TypeOK, Answers
<1>2. Len(answer) = n
  BY <1>1
<1> QED BY <1>1, <1>2 DEF TypeOK, Answers

(* The next stored resource, while every one before it went to its own     *)
(* path, when the answer is in order.                                      *)
LEMMA MergeInOrder ==
  ASSUME TypeOK, InOrder, NEW k \in DOMAIN answer, k = Len(pairs) + 1,
         \A j \in DOMAIN pairs : pairs[j] = answer[j].of
  PROVE  PairOf(k) = answer[k].of
<1> DEFINE T == Matching(answer[k])
<1>1. /\ Len(pairs) \in Nat /\ DOMAIN pairs = 1 .. Len(pairs)
      /\ k \in Nat /\ N \in Nat
      /\ \A j \in DOMAIN pairs : j \in DOMAIN answer
  BY AnswerFacts, BatchAssumption DEF TypeOK
<1>2. answer[k].of = k /\ k \in 1 .. N
  BY <1>1, AnswerFacts DEF InOrder, Stored, Foreign, Paths
<1>3. Unused = k .. N
  <2>1. \A j \in 1 .. k - 1 : pairs[j] = j
    BY <1>1 DEF InOrder
  <2>2. {pairs[j] : j \in DOMAIN pairs} = 1 .. k - 1
    BY <1>1, <2>1
  <2>3. Unused = (1 .. N) \ (1 .. k - 1)
    BY <2>2 DEF Unused, Paths
  <2>4. \A x : x \in (1 .. N) \ (1 .. k - 1) <=> x \in k .. N
    BY <1>1, <1>2
  <2> QED BY <2>3, <2>4
<1>4. CASE T = {}
  BY <1>2, <1>3, <1>4 DEF PairOf
<1>5. CASE T # {}
  <2>1. T \subseteq k .. N /\ T \subseteq Nat
    BY <1>1, <1>3 DEF Matching
  <2>2. k \in T
    <3>1. answer[k].by # "none"
      BY <1>5 DEF Matching
    <3>2. answer[k].by \in {"id", "uri", "name"}
      BY <3>1, AnswerFacts DEF Stored
    <3>3. k \in Unused
      BY <1>2, <1>3
    <3> QED BY <1>2, <3>2, <3>3 DEF Matching, TextsOf
  <2>3. Min(T) \in T /\ Min(T) <= k
    BY <2>1, <2>2, LeastNumber
  <2>4. Min(T) = k
    BY <1>1, <2>1, <2>3
  <2> QED BY <1>2, <1>5, <2>4 DEF PairOf
<1> QED BY <1>4, <1>5

(* The same when the answers show an id or store_uri.                      *)
LEMMA MergeIdentified ==
  ASSUME TypeOK, ItemOfStep, \A i \in Paths : pc[i] = "done", Identified,
         NEW k \in DOMAIN answer, k = Len(pairs) + 1,
         \A j \in DOMAIN pairs : pairs[j] = answer[j].of
  PROVE  PairOf(k) = answer[k].of
<1> DEFINE T == Matching(answer[k])
           p == answer[k].of
<1>1. /\ Len(pairs) \in Nat /\ DOMAIN pairs = 1 .. Len(pairs)
      /\ \A j \in DOMAIN pairs : j \in DOMAIN answer /\ j # k
  BY AnswerFacts DEF TypeOK
<1>2. answer[k].by \in {"id", "uri"} /\ p \in Paths
  BY AnswerFacts DEF Identified, Stored
<1>3. p \in Unused
  BY <1>1, <1>2, AnswerFacts DEF Unused
<1>4. \A i \in Paths : item[i].uri \in Objects
  BY DEF ItemOfStep, TypeOK, Items
<1>5. \A o \in Objects : \A i \in Paths : o # NameText(i) /\ o # <<"vid", i, 0>>
  BY DEF Objects, Own, TokenKey, NameKey, NameText
<1>6. T = {p}
  <2>1. p \in T
    BY <1>2, <1>3 DEF Matching, TextsOf
  <2>2. ASSUME NEW i \in T
        PROVE  i = p
    <3>1. i \in Paths
      BY DEF Matching, Unused
    <3>2. item[p].uri \in TextsOf(i) \/ IdText(p) \in TextsOf(i)
      BY <1>2 DEF Matching
    <3>3. item[p].uri \in TextsOf(i) => item[p].uri = item[i].uri
      BY <1>2, <1>4, <1>5, <3>1 DEF TextsOf, IdText
    <3>4. <<"vid", p, 0>> \in TextsOf(i) => i = p
      BY <1>2, <1>4, <1>5, <3>1 DEF TextsOf, IdText, NameText
    <3>5. item[p].uri = item[i].uri => i = p
      BY <1>2, <3>1 DEF Identified
    <3> QED BY <3>2, <3>3, <3>4, <3>5 DEF IdText
  <2> QED BY <2>1, <2>2
<1>7. Min(T) = p
  BY <1>2, <1>6, LeastNumber, BatchAssumption DEF Paths
<1> QED BY <1>6, <1>7 DEF PairOf

(* The merge adds one pair at a time, and a right one.                     *)
LEMMA PairedStep ==
  ASSUME IInv, [Next]_vars
  PROVE  Paired'
<1> TypeInv /\ TypeOK /\ ItemOfStep /\ CallOrder /\ Paired
  BY DEF IInv, TypeInv
<1>1. CASE \E i \in Paths : UploadStep(i)
  <2>1. phase = "upload" /\ UNCHANGED <<answer, pairs>>
    BY <1>1, StepIsOwn DEF IInv
  <2>2. pairs = <<>>
    BY <2>1 DEF CallOrder
  <2> QED BY <2>1, <2>2 DEF Paired
<1>2. CASE GetToken \/ Collect \/ MergeDone \/ UNCHANGED vars
  <2>1. UNCHANGED <<answer, pairs, item>>
    BY <1>2 DEF GetToken, Collect, MergeDone, vars
  <2> QED BY <2>1 DEF Paired, InOrder, Identified
<1>3. CASE ResourceStore
  <2>1. pairs' = <<>>
    BY <1>3 DEF ResourceStore, CallOrder
  <2> QED BY <2>1 DEF Paired
<1>4. CASE MergeNext
  <2> DEFINE k == Len(pairs) + 1
  <2>1. UNCHANGED <<answer, item>> /\ pairs' = Append(pairs, PairOf(k))
        /\ k \in DOMAIN answer
    BY <1>4, AnswerFacts DEF MergeNext, TypeOK
  <2>2. ASSUME InOrder \/ Identified
        PROVE  \A j \in DOMAIN pairs' : pairs'[j] = answer[j].of
    <3>1. \A j \in DOMAIN pairs : pairs[j] = answer[j].of
      BY <2>2 DEF Paired
    <3>2. \A i \in Paths : pc[i] = "done"
      BY <1>4 DEF MergeNext, CallOrder, Stores
    <3>3. PairOf(k) = answer[k].of
      BY <2>1, <2>2, <3>1, <3>2, MergeInOrder, MergeIdentified
    <3> QED BY <2>1, <3>1, <3>3 DEF TypeOK
  <2> QED BY <2>1, <2>2 DEF Paired, InOrder, Identified
<1> QED BY <1>1, <1>2, <1>3, <1>4 DEF Next, CallStep

-----------------------------------------------------------------------------
(* The inductive invariant holds, for every batch.                         *)
THEOREM Inductive == Spec => []IInv
<1>1. IInv /\ [Next]_vars => IInv'
  <2> SUFFICES ASSUME IInv, [Next]_vars PROVE IInv'
    OBVIOUS
  <2>1. TypeInv'
    BY TypeInvStep DEF IInv
  <2> QED BY <2>1, RouteStep, ItemStep, BytesStep, CallOrderStep, PairedStep
          DEF IInv
<1> QED BY IInvInit, <1>1, PTL DEF Spec

(* Type correctness of the upload.                                         *)
THEOREM TypeCorrect == Spec => []TypeOK
<1>1. IInv => TypeOK
  BY DEF IInv, TypeInv
<1> QED BY <1>1, Inductive, PTL

(* resource_store is asked only for files that are uploaded and committed, *)
(* whatever failed, was retried or was lost before.  (UploadResource)      *)
THEOREM StoresWhatIsThere == Spec => []StoresOnlyWhatIsThere
<1>1. IInv => StoresOnlyWhatIsThere
  BY DEF IInv, CallOrder, ItemOfStep, BytesStay, StoresOnlyWhatIsThere, ItemsHold
<1> QED BY <1>1, Inductive, PTL

(* A batch that succeeds has a resource for every path.  (resourceStore)   *)
THEOREM CompleteBatches == Spec => []CompleteOrError
<1>1. IInv => CompleteOrError
  BY DEF IInv, CallOrder, CompleteOrError, Stores
<1> QED BY <1>1, Inductive, PTL

(* The merge gives every stored resource the path that it belongs to, when *)
(* the answer is in order or shows ids.  (mergeStoredResources)            *)
THEOREM MergePairs == Spec => []PairedWithOwnPath
<1>1. IInv => PairedWithOwnPath
  <2> SUFFICES ASSUME IInv, outcome = "ok", InOrder \/ Identified
               PROVE  \A k \in 1 .. N : pairs[k] = answer[k].of
    BY DEF PairedWithOwnPath
  <2>1. DOMAIN pairs = 1 .. N
    BY DEF IInv, TypeInv, TypeOK, CallOrder
  <2> QED BY <2>1 DEF IInv, Paired
<1> QED BY <1>1, Inductive, PTL
=============================================================================
